----------------------------- MODULE ThreadWait -----------------------------
(***************************************************************************)
(* The kernel's wait primitives (kern/sched_prim.c) and the softclock      *)
(* thread that ends timed waits (kern/mach_clock.c), for threads on        *)
(* different processors.  A step is what one routine does while it holds   *)
(* a wait-hash bucket lock or a thread lock; between two steps the locks   *)
(* are free, and the other processors get in.                              *)
(*                                                                         *)
(* The wait hash is one queue per event: colliding events share a bucket   *)
(* and its lock, never an entry.  Interruptible waits only; TH_SUSP,       *)
(* TH_ABORT and TH_UNINT are left out.  The kernel is not preemptible      *)
(* (MACH_RT is 0), so a thread leaves its processor only in thread_block.  *)
(***************************************************************************)
EXTENDS SequencesExt, Naturals

CONSTANTS Threads, Events

NO_EVENT     == "NO_EVENT"
WAKING_EVENT == "WAKING_EVENT"

VARIABLES
  queue,        \* wait_queue: the threads queued on each event
  wait_event, wait_result, th_wait,     \* per thread; th_wait is TH_WAIT
  where,        \* "cpu", "switch" (thread_invoke, not yet dispatched),
                \* "off" (parked, TH_RUN clear) or "runq"
  timer,        \* TELT_UNSET, TELT_SET or TELT_PENDING
  timer_refs,   \* references that set_timeout took and nobody dropped
  soft          \* the softclock thread: step, thread, its event

hashVars   == <<queue, wait_event>>
threadVars == <<wait_result, th_wait, where>>
timerVars  == <<timer, timer_refs, soft>>
waitVars   == <<hashVars, threadVars, timerVars>>

TH_RUN(t) == where[t] # "off"

SoftIdle == [step |-> "idle", thread |-> NO_EVENT, event |-> NO_EVENT]

WaitInit ==
  /\ queue = [e \in Events |-> <<>>]
  /\ wait_event = [t \in Threads |-> NO_EVENT]
  /\ wait_result = [t \in Threads |-> "awakened"]
  /\ th_wait = [t \in Threads |-> FALSE]
  /\ where = [t \in Threads |-> "cpu"]
  /\ timer = [t \in Threads |-> "unset"]
  /\ timer_refs = [t \in Threads |-> 0]
  /\ soft = SoftIdle

-----------------------------------------------------------------------------
(* Timers. *)

\* Faulty variant: no timer for a thread that has yet to reach thread_block.
Bug_thread_set_timeout(t) ==
  /\ timer' = [timer EXCEPT ![t] = IF TH_RUN(t) THEN @ ELSE "set"]
  /\ UNCHANGED <<hashVars, threadVars, soft, timer_refs>>

\* thread_set_timeout: only a thread that is still waiting gets a timer, and
\* the timer gets a reference to the thread.
thread_set_timeout(t) ==
  /\ timer' = [timer EXCEPT ![t] = IF th_wait[t] THEN "set" ELSE @]
  /\ timer_refs' = [timer_refs EXCEPT ![t] = IF th_wait[t] THEN @ + 1 ELSE @]
  /\ UNCHANGED <<hashVars, threadVars, soft>>

\* reset_timeout_check: a timer that is still queued gives its reference back.
reset_timeout(t) ==
  /\ timer' = [timer EXCEPT ![t] = "unset"]
  /\ timer_refs' = [timer_refs EXCEPT ![t] = IF timer[t] = "set" THEN @ - 1
                                                                 ELSE @]

-----------------------------------------------------------------------------
(* Waking up. *)

\* Faulty variant: a parked thread is marked runnable and never queued.
Bug_awakenNoSetrun(t, result) ==
  /\ th_wait' = [th_wait EXCEPT ![t] = FALSE]
  /\ wait_result' = [wait_result EXCEPT ![t] = result]
  /\ where' = where
  /\ reset_timeout(t)

\* The switch on TH_SCHED_STATE: a waiting thread becomes runnable, and goes to
\* a run queue only when it had been switched away from.
awaken(t, result) ==
  /\ th_wait' = [th_wait EXCEPT ![t] = FALSE]
  /\ wait_result' = [wait_result EXCEPT ![t] = IF th_wait[t] THEN result ELSE @]
  /\ where' = [where EXCEPT ![t] = IF th_wait[t] /\ ~TH_RUN(t) THEN "runq"
                                                               ELSE @]
  /\ reset_timeout(t)

\* assert_wait: queue the current thread and mark it waiting.
assert_wait(t, e) ==
  /\ queue' = [queue EXCEPT ![e] = Append(@, t)]
  /\ wait_event' = [wait_event EXCEPT ![t] = e]
  /\ th_wait' = [th_wait EXCEPT ![t] = TRUE]
  /\ UNCHANGED <<wait_result, where, timerVars>>

\* Faulty variant: the event is not compared again after the relock.
Bug_clear_wait_on(t, e, result) ==
  /\ queue' = [queue EXCEPT ![e] = RemoveFirst(@, t)]
  /\ wait_event' = [wait_event EXCEPT ![t] = NO_EVENT]
  /\ awaken(t, result)

\* clear_wait_locked, the second half: with the bucket and the thread locked
\* again, undo the wait if it is still the one on event e.
clear_wait_on(t, e, result) ==
  IF wait_event[t] = e
  THEN /\ queue' = [queue EXCEPT ![e] = RemoveFirst(@, t)]
       /\ wait_event' = [wait_event EXCEPT ![t] = NO_EVENT]
       /\ awaken(t, result)
  ELSE UNCHANGED <<hashVars, threadVars, timer, timer_refs>>

\* thread_wakeup_prim, under the bucket lock: the threads ws leave the queue
\* of e, and rest stays.
dequeue_for_wakeup(e, ws, rest) ==
  /\ queue' = [queue EXCEPT ![e] = rest]
  /\ wait_event' = [t \in Threads |-> IF Contains(ws, t) THEN WAKING_EVENT
                                                         ELSE wait_event[t]]
  /\ UNCHANGED <<threadVars, timerVars>>

\* thread_wakeup_prim, under the lock of one thread it took out.
finish_wakeup(t) ==
  /\ awaken(t, "awakened")
  /\ wait_event' = [wait_event EXCEPT ![t] = NO_EVENT]
  /\ UNCHANGED <<queue, soft>>

-----------------------------------------------------------------------------
(* Processors. *)

\* thread_block, down to the context switch.
thread_block(t) ==
  /\ where' = [where EXCEPT ![t] = "switch"]
  /\ UNCHANGED <<hashVars, wait_result, th_wait, timerVars>>

\* thread_dispatch, run by the next thread: park the old one, or requeue it.
thread_dispatch(t) ==
  /\ where[t] = "switch"
  /\ where' = [where EXCEPT ![t] = IF th_wait[t] THEN "off" ELSE "runq"]
  /\ UNCHANGED <<hashVars, wait_result, th_wait, timerVars>>

\* A processor takes the thread from a run queue.
thread_select(t) ==
  /\ where[t] = "runq"
  /\ where' = [where EXCEPT ![t] = "cpu"]
  /\ UNCHANGED <<hashVars, wait_result, th_wait, timerVars>>

-----------------------------------------------------------------------------
(* The softclock thread. *)

\* softclock takes an expired timer off its list.
softclock(t) ==
  /\ soft = SoftIdle
  /\ timer[t] = "set"
  /\ timer' = [timer EXCEPT ![t] = "pending"]
  /\ soft' = [step |-> "fired", thread |-> t, event |-> NO_EVENT]
  /\ UNCHANGED <<hashVars, threadVars, timer_refs>>

\* thread_timeout and the first half of clear_wait_locked.
thread_timeout ==
  LET t == soft.thread IN
  /\ soft.step = "fired"
  /\ IF timer[t] # "pending"
     THEN soft' = SoftIdle /\ UNCHANGED timer
     ELSE /\ timer' = [timer EXCEPT ![t] = "unset"]
          /\ soft' = IF wait_event[t] \in {WAKING_EVENT, NO_EVENT}
                     THEN [soft EXCEPT !.step = "drop"]
                     ELSE [soft EXCEPT !.step = "clear", !.event = wait_event[t]]
  /\ UNCHANGED <<hashVars, threadVars, timer_refs>>

\* The second half.
thread_timeout_clear ==
  /\ soft.step = "clear"
  /\ soft' = [soft EXCEPT !.step = "drop", !.event = NO_EVENT]
  /\ clear_wait_on(soft.thread, soft.event, "timed_out")

\* thread_deallocate: the reference for the timeout.
thread_timeout_drop ==
  /\ soft.step = "drop"
  /\ soft' = SoftIdle
  /\ timer_refs' = [timer_refs EXCEPT ![soft.thread] = @ - 1]
  /\ UNCHANGED <<hashVars, threadVars, timer>>
=============================================================================
