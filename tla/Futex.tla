------------------------------- MODULE Futex -------------------------------
(***************************************************************************)
(* urmach_futex (kern/sync_sema.c): WAIT, WAKE, WAKE_WAIT and WAITV on     *)
(* words of user memory, over the wait primitives of module ThreadWait.    *)
(*                                                                         *)
(* A thread in user mode either takes a copy of the word it is about to    *)
(* wait for and calls, or changes a word and then calls to wake.  Keys     *)
(* stand for futex words: futex_key gives one event to every mapping of a  *)
(* word, and a colliding hash only adds wakeups.  A call whose arguments   *)
(* are refused before it touches the wait hash is left out.  The trap      *)
(* drains the caller's store buffer.                                       *)
(***************************************************************************)
EXTENDS ThreadWait, FiniteSets

CONSTANTS
  Keys,       \* futex words
  Slots,      \* futexv_table
  Vals,       \* values of a word
  Calls,      \* what each thread may call: subsets of CallNames
  REF_BOUND   \* bound: timer references of one thread

NOBODY == "THREAD_NULL"

TimedCalls == {"timedwait", "timedwaitv", "timedwake_wait"}
MultiCalls == {"waitv", "timedwaitv"}
WakeWaits  == {"wake_wait", "timedwake_wait"}
CallNames  == {"wait", "wake_one", "wake_all"}
                \cup TimedCalls \cup MultiCalls \cup WakeWaits

ASSUME FutexAssumption ==
  /\ Events = Keys \cup Slots
  /\ Keys \cap Slots = {}
  /\ {NO_EVENT, WAKING_EVENT} \cap (Events \cup Threads) = {}
  /\ NOBODY \notin Threads
  /\ IsFiniteSet(Slots)
  /\ Calls \in [Threads -> SUBSET CallNames]
  /\ REF_BOUND \in Nat

VARIABLES
  word,           \* user memory
  futexv_table, futexv_active,
  pc, call,       \* where each thread is, and the call it is in
  to_wake, woken  \* events a waker has yet to wake, threads it took out

futexVars == <<word, futexv_table, futexv_active, pc, call, to_wake, woken>>
vars      == <<waitVars, futexVars>>

FreeSlot == [thread |-> NOBODY, keys |-> {}, woken_index |-> NOBODY]
NoCall == [name |-> "none", val |-> [k \in {} |-> 0], todo |-> {},
           wake_key |-> NO_EVENT, event |-> NO_EVENT]

Init ==
  /\ WaitInit
  /\ word \in [Keys -> Vals]
  /\ futexv_table = [s \in Slots |-> FreeSlot]
  /\ futexv_active = 0
  /\ pc = [t \in Threads |-> "user"]
  /\ call = [t \in Threads |-> NoCall]
  /\ to_wake = [t \in Threads |-> <<>>]
  /\ woken = [t \in Threads |-> <<>>]

At(t, l) == pc[t] = l /\ where[t] = "cpu"
Goto(t, l) == pc' = [pc EXCEPT ![t] = l]
Timed(t) == call[t].name \in TimedCalls
Multi(t) == call[t].name \in MultiCalls
WakeWait(t) == call[t].name \in WakeWaits

\* A call by this name may start (REF_BOUND caps the timers of a thread).
MayCall(t, name) ==
  /\ At(t, "user")
  /\ name \in Calls[t]
  /\ name \in TimedCalls => timer_refs[t] < REF_BOUND

\* Back to user mode.
Return(t) ==
  /\ Goto(t, "user")
  /\ call' = [call EXCEPT ![t] = NoCall]

-----------------------------------------------------------------------------
(* User mode. *)

\* Decide to wait for a change of the words ks, as they are now.
CallWait(t, name, ks) ==
  /\ MayCall(t, name)
  /\ call' = [call EXCEPT ![t] =
                [NoCall EXCEPT !.name = name, !.val = [k \in ks |-> word[k]]]]
  /\ Goto(t, IF name \in MultiCalls THEN "register" ELSE "assert")
  /\ UNCHANGED <<waitVars, word, futexv_table, futexv_active, to_wake, woken>>

\* Change word k and go to wake its waiters; WAKE_WAIT also takes a copy of
\* the word w to wait for.
CallWake(t, name, k, w) ==
  /\ MayCall(t, name)
  /\ \E v \in Vals \ {word[k]} : word' = [word EXCEPT ![k] = v]
  /\ call' = [call EXCEPT ![t] =
                [NoCall EXCEPT !.name = name, !.wake_key = k,
                               !.val = IF name \in WakeWaits
                                       THEN [x \in {w} |-> word'[x]] ELSE @]]
  /\ Goto(t, IF name \in WakeWaits THEN "assert" ELSE "gate")
  /\ UNCHANGED <<waitVars, futexv_table, futexv_active, to_wake, woken>>

-----------------------------------------------------------------------------
(* futex_wait, futex_wake_wait and futex_waitv: going to sleep. *)

\* The words of the call, and for a wait on one of them, that word.
Words(t) == DOMAIN call[t].val
WaitKey(t) == CHOOSE k \in Words(t) : TRUE

\* Parked on event e, the words are yet to be read again.
Queued(t, e) ==
  /\ assert_wait(t, e)
  /\ call' = [call EXCEPT ![t].event = e, ![t].todo = Words(t)]
  /\ Goto(t, "recheck")

\* assert_wait(key, TRUE), before the word is read again.
AssertWait(t) ==
  /\ At(t, "assert")
  /\ Queued(t, WaitKey(t))
  /\ UNCHANGED <<word, futexv_table, futexv_active, to_wake, woken>>

\* futex_waitv, under futexv_lock: take a free slot, publish the keys and park
\* on the slot, or fail with KERN_RESOURCE_SHORTAGE.
Register(t) ==
  /\ At(t, "register")
  /\ IF \A s \in Slots : futexv_table[s].thread # NOBODY
     THEN /\ Return(t)
          /\ UNCHANGED <<waitVars, futexv_table, futexv_active>>
     ELSE \E s \in Slots :
          /\ futexv_table[s].thread = NOBODY
          /\ futexv_table' = [futexv_table EXCEPT ![s] =
               [thread |-> t, keys |-> Words(t), woken_index |-> NOBODY]]
          /\ futexv_active' = futexv_active + 1
          /\ Queued(t, s)
  /\ UNCHANGED <<word, to_wake, woken>>

\* WAKE_WAIT looks for a thread to switch to before it blocks.
Sleep(t) == IF WakeWait(t) THEN "handoff" ELSE "block"

\* Faulty variant: the words are not read again.
Bug_Recheck(t) ==
  /\ At(t, "recheck")
  /\ call' = [call EXCEPT ![t].todo = {}]
  /\ Goto(t, IF Timed(t) THEN "timer" ELSE Sleep(t))
  /\ UNCHANGED <<waitVars, word, futexv_table, futexv_active, to_wake, woken>>

\* Re-read one word, unless copyin fails; go on to sleep when all of them are
\* as expected.
Recheck(t) ==
  /\ At(t, "recheck")
  /\ \E k \in call[t].todo, fault \in BOOLEAN :
       /\ call' = [call EXCEPT ![t].todo = @ \ {k}]
       /\ Goto(t, IF fault \/ word[k] # call[t].val[k] THEN "clear"
                  ELSE IF call[t].todo # {k} THEN "recheck"
                  ELSE IF Timed(t) THEN "timer" ELSE Sleep(t))
  /\ UNCHANGED <<waitVars, word, futexv_table, futexv_active, to_wake, woken>>

\* thread_set_timeout, between assert_wait and thread_block.
SetTimeout(t) ==
  /\ At(t, "timer")
  /\ thread_set_timeout(t)
  /\ Goto(t, Sleep(t))
  /\ UNCHANGED <<word, futexv_table, futexv_active, call, to_wake, woken>>

Block(t) ==
  /\ At(t, "block")
  /\ thread_block(t)
  /\ Goto(t, "asleep")
  /\ UNCHANGED <<word, futexv_table, futexv_active, call, to_wake, woken>>

\* Running again after the sleep.
Resume(t) ==
  /\ At(t, "asleep")
  /\ IF Multi(t) THEN Goto(t, "unregister") /\ call' = call ELSE Return(t)
  /\ UNCHANGED <<waitVars, word, futexv_table, futexv_active, to_wake, woken>>

\* A word has changed: clear_wait(self).  The event is read under the thread
\* lock; a waker that already took the thread out finishes the job.
ClearWait(t) ==
  /\ At(t, "clear")
  /\ Goto(t, IF wait_event[t] \in {NO_EVENT, WAKING_EVENT} THEN "drain"
                                                          ELSE "clear2")
  /\ UNCHANGED <<waitVars, word, futexv_table, futexv_active, call, to_wake,
                 woken>>

ClearWaitLocked(t) ==
  /\ At(t, "clear2")
  /\ clear_wait_on(t, call[t].event, "awakened")
  /\ Goto(t, "drain")
  /\ UNCHANGED <<soft, word, futexv_table, futexv_active, call, to_wake, woken>>

\* What a call that did not sleep does last: WAKE_WAIT still wakes, WAITV gives
\* its slot back.
NotWaiting(t) ==
  CASE Multi(t)    -> Goto(t, "unregister") /\ call' = call
    [] WakeWait(t) -> Goto(t, "gate") /\ call' = call
    [] OTHER       -> Return(t)

\* Faulty variant: no futex_recheck_drain.
Bug_Drain(t) ==
  /\ At(t, "drain")
  /\ NotWaiting(t)
  /\ UNCHANGED <<waitVars, word, futexv_table, futexv_active, to_wake, woken>>

\* futex_recheck_drain: let a waker that is still at work on us finish.
Drain(t) ==
  /\ At(t, "drain")
  /\ IF wait_event[t] # NO_EVENT
     THEN thread_block(t) /\ Goto(t, "drained") /\ call' = call
     ELSE NotWaiting(t) /\ UNCHANGED waitVars
  /\ UNCHANGED <<word, futexv_table, futexv_active, to_wake, woken>>

Drained(t) ==
  /\ At(t, "drained")
  /\ NotWaiting(t)
  /\ UNCHANGED <<waitVars, word, futexv_table, futexv_active, to_wake, woken>>

\* Faulty variant: futexv_active still counts the slot.
Bug_Unregister(t) ==
  /\ At(t, "unregister")
  /\ futexv_table' = [futexv_table EXCEPT ![call[t].event] = FreeSlot]
  /\ Return(t)
  /\ UNCHANGED <<waitVars, word, futexv_active, to_wake, woken>>

\* futexv_unregister.
Unregister(t) ==
  /\ At(t, "unregister")
  /\ futexv_table' = [futexv_table EXCEPT ![call[t].event] = FreeSlot]
  /\ futexv_active' = futexv_active - 1
  /\ Return(t)
  /\ UNCHANGED <<waitVars, word, to_wake, woken>>

-----------------------------------------------------------------------------
(* futex_wake. *)

\* Faulty variant: the multi-waiters are forgotten.
Bug_Gate(t) ==
  /\ At(t, "gate")
  /\ Goto(t, "wake")
  /\ to_wake' = [to_wake EXCEPT ![t] = <<call[t].wake_key>>]
  /\ UNCHANGED <<waitVars, word, futexv_table, futexv_active, call, woken>>

\* The lock-free look at futexv_active.
Gate(t) ==
  /\ At(t, "gate")
  /\ IF futexv_active # 0
     THEN Goto(t, "scan") /\ to_wake' = to_wake
     ELSE /\ Goto(t, "wake")
          /\ to_wake' = [to_wake EXCEPT ![t] = <<call[t].wake_key>>]
  /\ UNCHANGED <<waitVars, word, futexv_table, futexv_active, call, woken>>

\* futexv_wake_key, under futexv_lock: mark the multi-waiters of the key.  They
\* are woken after the lock is dropped.
Scan(t) ==
  LET k == call[t].wake_key
      hits == {s \in Slots : k \in futexv_table[s].keys}
  IN
  /\ At(t, "scan")
  /\ futexv_table' = [s \in Slots |->
       IF s \in hits /\ futexv_table[s].woken_index = NOBODY
       THEN [futexv_table[s] EXCEPT !.woken_index = k]
       ELSE futexv_table[s]]
  /\ to_wake' = [to_wake EXCEPT ![t] = Append(SetToSeq(hits), k)]
  /\ Goto(t, "wake")
  /\ UNCHANGED <<waitVars, word, futexv_active, call, woken>>

\* Which threads a wakeup of event e takes: one for a slot and for WAKE(1).
Woken(t, e) ==
  IF e \in Slots \/ call[t].name # "wake_all"
  THEN SubSeq(queue[e], 1, IF queue[e] = <<>> THEN 0 ELSE 1)
  ELSE queue[e]

\* thread_wakeup / thread_wakeup_one on the next event: the bucket.
WakeEvent(t) ==
  /\ At(t, "wake")
  /\ woken[t] = <<>> /\ to_wake[t] # <<>>
  /\ LET e == Head(to_wake[t]) IN
       /\ dequeue_for_wakeup(e, Woken(t, e),
                             SubSeq(queue[e], Len(Woken(t, e)) + 1, Len(queue[e])))
       /\ woken' = [woken EXCEPT ![t] = Woken(t, e)]
  /\ to_wake' = [to_wake EXCEPT ![t] = Tail(@)]
  /\ UNCHANGED <<word, futexv_table, futexv_active, pc, call>>

\* ... and each thread that was taken out of it.
WakeThread(t) ==
  /\ At(t, "wake")
  /\ woken[t] # <<>>
  /\ finish_wakeup(Head(woken[t]))
  /\ woken' = [woken EXCEPT ![t] = Tail(@)]
  /\ UNCHANGED <<word, futexv_table, futexv_active, pc, call, to_wake>>

WakeDone(t) ==
  /\ At(t, "wake")
  /\ woken[t] = <<>> /\ to_wake[t] = <<>>
  /\ Return(t)
  /\ UNCHANGED <<waitVars, word, futexv_table, futexv_active, to_wake, woken>>

-----------------------------------------------------------------------------
(* thread_handoff_to_parked_waiter, called by futex_wake_wait. *)

\* Faulty variant: a waiter that has yet to reach thread_block is passed over.
Bug_Handoff(t) ==
  LET k == call[t].wake_key
      i == SelectInSeq(queue[k], LAMBDA u : u # t /\ ~TH_RUN(u))
  IN
  /\ At(t, "handoff")
  /\ IF i = 0
     THEN Goto(t, "block") /\ UNCHANGED <<waitVars, woken>>
     ELSE /\ dequeue_for_wakeup(k, <<queue[k][i]>>, RemoveAt(queue[k], i))
          /\ woken' = [woken EXCEPT ![t] = <<queue[k][i]>>]
          /\ Goto(t, "switch")
  /\ UNCHANGED <<word, futexv_table, futexv_active, call, to_wake>>

\* Under the bucket lock: the first waiter other than the caller.
Handoff(t) ==
  LET k == call[t].wake_key
      i == SelectInSeq(queue[k], LAMBDA u : u # t)
  IN
  /\ At(t, "handoff")
  /\ IF i = 0
     THEN Goto(t, "block") /\ UNCHANGED <<waitVars, woken>>
     ELSE /\ dequeue_for_wakeup(k, <<queue[k][i]>>, RemoveAt(queue[k], i))
          /\ woken' = [woken EXCEPT ![t] = <<queue[k][i]>>]
          /\ Goto(t, "switch")
  /\ UNCHANGED <<word, futexv_table, futexv_active, call, to_wake>>

\* Faulty variant: the victim is dispatched although it still runs.
Bug_HandoffSwitch(t) ==
  LET u == Head(woken[t]) IN
  /\ At(t, "switch")
  /\ woken' = [woken EXCEPT ![t] = <<>>]
  /\ wait_event' = [wait_event EXCEPT ![u] = NO_EVENT]
  /\ wait_result' = [wait_result EXCEPT ![u] = "awakened"]
  /\ th_wait' = [th_wait EXCEPT ![u] = FALSE]
  /\ reset_timeout(u)
  /\ IF where[u] = "off"
     THEN /\ where' = [where EXCEPT ![t] = "switch", ![u] = "cpu"]
          /\ Goto(t, "asleep")
     ELSE where' = [where EXCEPT ![u] = "runq"] /\ Goto(t, "block")
  /\ UNCHANGED <<queue, soft, word, futexv_table, futexv_active, call, to_wake>>

\* Under the victim's lock: switch straight to a parked victim; one that is
\* still on its way to thread_block just loses TH_WAIT.
HandoffSwitch(t) ==
  LET u == Head(woken[t]) IN
  /\ At(t, "switch")
  /\ woken' = [woken EXCEPT ![t] = <<>>]
  /\ wait_event' = [wait_event EXCEPT ![u] = NO_EVENT]
  /\ wait_result' = [wait_result EXCEPT ![u] = "awakened"]
  /\ th_wait' = [th_wait EXCEPT ![u] = FALSE]
  /\ reset_timeout(u)
  /\ IF ~TH_RUN(u)
     THEN /\ where' = [where EXCEPT ![t] = "switch", ![u] = "cpu"]
          /\ Goto(t, "asleep")
     ELSE where' = where /\ Goto(t, "block")
  /\ UNCHANGED <<queue, soft, word, futexv_table, futexv_active, call, to_wake>>

-----------------------------------------------------------------------------
UserCall(t) ==
  \/ \E name \in {"wait", "timedwait"}, k \in Keys : CallWait(t, name, {k})
  \/ \E name \in MultiCalls : CallWait(t, name, Keys)
  \/ \E name \in {"wake_one", "wake_all"}, k \in Keys : CallWake(t, name, k, k)
  \/ \E name \in WakeWaits, k, w \in Keys : CallWake(t, name, k, w)

KernelStep(t) ==
  \/ AssertWait(t) \/ Register(t) \/ Recheck(t) \/ SetTimeout(t) \/ Block(t)
  \/ Resume(t) \/ ClearWait(t) \/ ClearWaitLocked(t) \/ Drain(t)
  \/ Drained(t) \/ Unregister(t) \/ Gate(t) \/ Scan(t) \/ WakeEvent(t)
  \/ WakeThread(t) \/ WakeDone(t) \/ Handoff(t) \/ HandoffSwitch(t)

Processor(t) == (thread_dispatch(t) \/ thread_select(t)) /\ UNCHANGED futexVars
Softclock == (\E t \in Threads : softclock(t)) /\ UNCHANGED futexVars
Timeout ==
  /\ thread_timeout \/ thread_timeout_clear \/ thread_timeout_drop
  /\ UNCHANGED futexVars

Next ==
  \/ \E t \in Threads : UserCall(t) \/ KernelStep(t) \/ Processor(t)
  \/ Softclock
  \/ Timeout

Spec == Init /\ [][Next]_vars

\* Threads in the kernel and the processors go on, and timers expire in the
\* order of their deadlines.  Nothing makes a thread call.
Fairness ==
  /\ \A t \in Threads : WF_vars(KernelStep(t)) /\ WF_vars(Processor(t))
  /\ \A t \in Threads : SF_vars(softclock(t) /\ UNCHANGED futexVars)
  /\ WF_vars(Timeout)

FairSpec == Spec /\ Fairness

-----------------------------------------------------------------------------
(* Properties. *)

\* Every field keeps its type; futexv_active counts the slots in use.
TypeOK ==
  /\ queue \in [Events -> Seq(Threads)]
  /\ wait_event \in [Threads -> Events \cup {NO_EVENT, WAKING_EVENT}]
  /\ wait_result \in [Threads -> {"awakened", "timed_out"}]
  /\ th_wait \in [Threads -> BOOLEAN]
  /\ where \in [Threads -> {"cpu", "switch", "off", "runq"}]
  /\ timer \in [Threads -> {"unset", "set", "pending"}]
  /\ timer_refs \in [Threads -> 0 .. REF_BOUND]
  /\ word \in [Keys -> Vals]
  /\ futexv_active = Cardinality({s \in Slots : futexv_table[s] # FreeSlot})

\* The thread has decided to sleep and nobody has taken it out of the hash.
Asleep(t) ==
  /\ pc[t] \in {"timer", "handoff", "switch", "block", "asleep"}
  /\ wait_event[t] = call[t].event

\* u changed word k and has yet to look at the waiters on event e.
StillToWake(u, k, e) ==
  /\ call[u].wake_key = k
  /\ pc[u] = "wake" => Contains(to_wake[u], e)
  /\ pc[u] \notin {"switch", "block", "asleep"}

\* No futex sleep misses a change of its word: a thread asleep in WAIT, WAITV
\* or WAKE_WAIT on a word that no longer has the expected value has a waker
\* that has yet to look at its queue.  (With WAKE(1) and several waiters on a
\* word only one of them is owed the wakeup.)
NoLostWakeup ==
  \A t \in Threads : \A k \in Words(t) :
    Asleep(t) /\ word[k] # call[t].val[k] =>
      \E u \in Threads : StillToWake(u, k, call[t].event)

\* The wait hash is sound: a thread is queued exactly where its wait_event
\* says, once, and a thread in the transitional WAKING_EVENT state belongs to
\* exactly one waker.
WaitHashSound ==
  /\ \A e \in Events, t \in Threads :
       Cardinality({i \in DOMAIN queue[e] : queue[e][i] = t})
         = IF wait_event[t] = e THEN 1 ELSE 0
  /\ \A t \in Threads :
       Cardinality({u \in Threads : Contains(woken[u], t)})
         = IF wait_event[t] = WAKING_EVENT THEN 1 ELSE 0

\* The kernel never panics: assert_wait finds no event asserted,
\* thread_wakeup_prim finds every thread it took out waiting, and set_timeout
\* finds the timer free.
NoPanic ==
  /\ \A t \in Threads :
       /\ pc[t] \in {"assert", "register"} => wait_event[t] = NO_EVENT
       /\ pc[t] = "timer" => timer[t] # "set"
  /\ \A u \in Threads : \A i \in DOMAIN woken[u] : th_wait[woken[u][i]]

\* A call leaves nothing behind: back in user mode the thread is on no queue,
\* has no timer and no futexv slot.
ReturnsClean ==
  \A t \in Threads : pc[t] = "user" =>
    /\ wait_event[t] = NO_EVENT /\ ~th_wait[t] /\ timer[t] = "unset"
    /\ \A s \in Slots : futexv_table[s].thread # t

\* Waits are balanced: each begins and ends with nothing asserted, set or
\* registered, whatever wakers and timeouts it has met.
WaitsBalanced == NoPanic /\ ReturnsClean

\* A thread never runs on two processors: one that is on a processor does not
\* get onto a run queue.
OneProcessor ==
  [][\A t \in Threads : where[t] = "cpu" => where'[t] # "runq"]_vars

\* A thread that sleeps on a changed word gets back to user mode.
ChangeWakes ==
  \A t \in Threads :
    (Asleep(t) /\ \E k \in Words(t) : word[k] # call[t].val[k])
      ~> (pc[t] = "user")

\* A timed call always returns.
TimedCallReturns ==
  \A t \in Threads : Timed(t) ~> (pc[t] = "user")

\* What callers rely on: WAIT compares and goes to sleep in one step.  A thread
\* is calling until it has read its word again, sleeps from then on unless a
\* waker has it, and owes a wakeup until it looks at the queue.
AbstractState(t) ==
  CASE pc[t] \in {"assert", "recheck"} -> "calling"
    [] Asleep(t)                       -> "asleep"
    [] OTHER                           -> "user"
States  == [t \in Threads |-> AbstractState(t)]
Expects == [t \in Threads |-> IF AbstractState(t) = "user" THEN NoCall.val
                                                          ELSE call[t].val]
Owes    == [t \in Threads |-> IF \/ pc[t] = "gate"
                                 \/ pc[t] = "wake" /\ to_wake[t] # <<>>
                              THEN call[t].wake_key ELSE NO_EVENT]
Atomic == INSTANCE AtomicFutex
            WITH state <- States, expect <- Expects, owes <- Owes
ImplementsAtomic == Atomic!AtomicSpec
=============================================================================
