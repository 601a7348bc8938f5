---------------------------- MODULE FutexProofs ----------------------------
(***************************************************************************)
(* Theorems about Futex on ThreadWait, for any number of threads, words,   *)
(* slots and calls.                                                        *)
(*                                                                         *)
(* The invariant relates the four views that the kernel has of a wait: the *)
(* thread's own fields and its place in the code (ThreadOK, CallOK), the   *)
(* queues of the wait hash (HashInv), the threads that a waker holds       *)
(* between the bucket lock and the thread lock (WokenInv), and the timers  *)
(* with their references (SoftInv, RefOK).  SlotInv is the same for        *)
(* futexv_table.  WakeInv adds what a sleeper is owed, and the last part   *)
(* shows that WAIT and WAKE(all) implement AtomicFutex.                    *)
(***************************************************************************)
EXTENDS Futex, FiniteSetTheorems, WellFoundedInduction, SequenceTheorems,
        TLAPS

-----------------------------------------------------------------------------
(* Types. *)

SleepPcs   == {"timer", "handoff", "switch", "block", "asleep"}
WaitPcs    == SleepPcs \cup {"recheck", "clear", "clear2"}
LeavePcs   == {"drain", "drained"}
SlotPcs    == WaitPcs \cup LeavePcs \cup {"unregister"}
WakePcs    == {"gate", "scan", "wake"}
Pcs        == SlotPcs \cup WakePcs \cup {"user", "assert", "register"}
WakeCalls  == {"wake_one", "wake_all"} \cup WakeWaits

\* The copies that a caller takes of words.
Copies == UNION {[ks -> Vals] : ks \in SUBSET Keys}

CallTypes ==
  [name : CallNames \cup {"none"}, val : Copies, todo : SUBSET Keys,
   wake_key : Keys \cup {NO_EVENT}, event : Events \cup {NO_EVENT}]
SlotTypes ==
  [thread : Threads \cup {NOBODY}, keys : SUBSET Keys, woken_index : Keys \cup {NOBODY}]
SoftTypes ==
  [step : {"idle", "fired", "clear", "drop"}, thread : Threads \cup {NO_EVENT},
   event : Events \cup {NO_EVENT}]

Typed ==
  /\ queue \in [Events -> Seq(Threads)]
  /\ wait_event \in [Threads -> Events \cup {NO_EVENT, WAKING_EVENT}]
  /\ wait_result \in [Threads -> {"awakened", "timed_out"}]
  /\ th_wait \in [Threads -> BOOLEAN]
  /\ where \in [Threads -> {"cpu", "switch", "off", "runq"}]
  /\ timer \in [Threads -> {"unset", "set", "pending"}]
  /\ timer_refs \in [Threads -> 0 .. REF_BOUND]
  /\ soft \in SoftTypes
  /\ word \in [Keys -> Vals]
  /\ futexv_table \in [Slots -> SlotTypes]
  /\ futexv_active \in Nat
  /\ pc \in [Threads -> Pcs]
  /\ call \in [Threads -> CallTypes]
  /\ to_wake \in [Threads -> Seq(Events)]
  /\ woken \in [Threads -> Seq(Threads)]

-----------------------------------------------------------------------------
(* One thread. *)

\* The fields of the thread and its processor agree with its place p in the
\* code: we, tw, tm and wh stand for its wait_event, th_wait, timer and where.
ThreadOK(we, tw, tm, wh, p, c) ==
  /\ tw <=> we # NO_EVENT
  /\ we \in Events => we = c.event /\ p \in WaitPcs
  /\ we = WAKING_EVENT => p \in WaitPcs \cup LeavePcs
  /\ tm # "unset" => tw /\ p \in SleepPcs \ {"timer"}
  /\ wh # "cpu" => p \in {"asleep", "drained"}
  /\ wh = "off" => tw
  /\ wh = "runq" => ~tw
  /\ wh = "cpu" /\ p \in {"asleep", "drained"} => ~tw
ThreadInv ==
  \A t \in Threads :
    ThreadOK(wait_event[t], th_wait[t], timer[t], where[t], pc[t], call[t])

\* The call c of thread t fits the place p.
CallOK(t, p, c) ==
  /\ IF p = "user" THEN c = NoCall ELSE c.name \in Calls[t]
  /\ c.name \in WakeCalls <=> c.wake_key \in Keys
  /\ c.name \in {"wake_one", "wake_all"} => p \in WakePcs
  /\ p \in WakePcs => c.name \in WakeCalls
  /\ p \in {"handoff", "switch"} => c.name \in WakeWaits
  /\ p \in {"register", "unregister"} => c.name \in MultiCalls
  /\ p \in {"assert", "handoff", "switch"} => c.name \notin MultiCalls
  /\ p = "assert" => \E k \in Keys : DOMAIN c.val = {k}
  /\ p \in SlotPcs => IF c.name \in MultiCalls THEN c.event \in Slots
                      ELSE c.event \in Keys /\ DOMAIN c.val = {c.event}
  /\ p \in SleepPcs => c.todo = {}
  /\ p = "timer" => c.name \in TimedCalls
CallInv == \A t \in Threads : CallOK(t, pc[t], call[t])

\* What a waker has in hand: events to wake and threads taken out.
HandOK(p, tw, wk) ==
  /\ tw # <<>> => p = "wake"
  /\ wk # <<>> => p \in {"wake", "switch"}
  /\ p = "switch" => Len(wk) = 1
HandInv == \A t \in Threads : HandOK(pc[t], to_wake[t], woken[t])

-----------------------------------------------------------------------------
(* The wait hash. *)

Once(q) == \A i, j \in 1 .. Len(q) : q[i] = q[j] => i = j

\* Each queue holds the threads that wait on its event, once.
HashInv ==
  /\ \A e \in Events : Once(queue[e])
  /\ \A e \in Events, t \in Threads : Contains(queue[e], t) <=> wait_event[t] = e

\* A thread whose wakeup is half done is in the hands of one waker, once.
WokenInv ==
  /\ \A u \in Threads : Once(woken[u])
  /\ \A u, v, t \in Threads : Contains(woken[u], t) /\ Contains(woken[v], t) => u = v
  /\ \A t \in Threads :
       (\E u \in Threads : Contains(woken[u], t)) <=> wait_event[t] = WAKING_EVENT

-----------------------------------------------------------------------------
(* Timers. *)

\* The softclock thread: only it has a timer pending.
SoftInv ==
  /\ soft.step = "idle" <=> soft = SoftIdle
  /\ soft.step # "idle" => soft.thread \in Threads
  /\ soft.step = "clear" => soft.event \in Events
  /\ \A t \in Threads :
       timer[t] = "pending" => soft.step = "fired" /\ soft.thread = t

\* A timer that is set and a timeout in progress hold a reference each.
RefOK(t, tm, n, sf) ==
  (IF tm = "set" THEN 1 ELSE 0)
    + (IF sf.thread = t /\ (sf.step \in {"clear", "drop"} \/ tm = "pending") THEN 1 ELSE 0)
    <= n
RefInv ==
  \A t \in Threads :
    /\ RefOK(t, timer[t], timer_refs[t], soft)
    /\ call[t].name \in TimedCalls /\ pc[t] \in {"assert", "register", "recheck", "timer"}
         => timer_refs[t] < REF_BOUND

-----------------------------------------------------------------------------
(* futexv_table. *)

\* A slot is taken by the thread that waits on it, with the words of its call.
SlotOK(s, sl) ==
  IF sl.thread = NOBODY THEN sl = FreeSlot
  ELSE sl.keys = Words(sl.thread)
SlotInv ==
  /\ \A s \in Slots : SlotOK(s, futexv_table[s])
  /\ \A s \in Slots, t \in Threads :
       futexv_table[s].thread = t <=>
         pc[t] \in SlotPcs /\ Multi(t) /\ call[t].event = s
  /\ futexv_active = Cardinality({s \in Slots : futexv_table[s] # FreeSlot})

Inv ==
  /\ Typed /\ ThreadInv /\ CallInv /\ HandInv /\ HashInv /\ WokenInv
  /\ SoftInv /\ RefInv /\ SlotInv

-----------------------------------------------------------------------------
(* Wakeups. *)

\* A wakeup of one thread finds at most one thread, other than its caller, on
\* the word; WAKE_WAIT is not used on a word of a multi-waiter.
SoleWaiter ==
  \A u \in Threads : call[u].name \in WakeCalls \ {"wake_all"} =>
    \A t, v \in Threads \ {u} :
      /\ wait_event[t] = call[u].wake_key /\ wait_event[v] = call[u].wake_key => t = v
      /\ WakeWait(u) /\ Multi(t) => call[u].wake_key \notin Words(t)

\* The same of what the threads may call.
OneWordCalls(t) == Calls[t] \cap ({"wait", "timedwait"} \cup WakeWaits)
FewWaiters ==
  \A u \in Threads :
    /\ Calls[u] \cap (WakeCalls \ {"wake_all"}) # {} =>
         \A t, v \in Threads \ {u} :
           OneWordCalls(t) # {} /\ OneWordCalls(v) # {} => t = v
    /\ Calls[u] \cap WakeWaits # {} =>
         \A t \in Threads \ {u} : Calls[t] \cap MultiCalls = {}

\* Thread t has seen the word k unchanged since it was queued.
Rechecked(t, k) ==
  /\ pc[t] \in SleepPcs \cup {"recheck"} /\ k \notin call[t].todo
  /\ wait_event[t] = call[t].event

\* A word that has changed since then has a waker, another thread.
WakeInv ==
  \A t \in Threads : \A k \in Words(t) :
    Rechecked(t, k) /\ word[k] # call[t].val[k] =>
      \E u \in Threads \ {t} : StillToWake(u, k, call[t].event)

-----------------------------------------------------------------------------
(* Queues. *)

\* Append a new element.
LEMMA AppendOnce ==
  ASSUME NEW T, NEW q \in Seq(T), Once(q), NEW x \in T, ~Contains(q, x)
  PROVE  /\ Append(q, x) \in Seq(T) /\ Once(Append(q, x))
         /\ \A y : Contains(Append(q, x), y) <=> Contains(q, y) \/ y = x
<1> PICK r : r = Append(q, x)
  OBVIOUS
<1>1. /\ r \in Seq(T) /\ Len(r) = Len(q) + 1 /\ Len(q) \in Nat
      /\ \A i \in 1 .. Len(q) : r[i] = q[i]
      /\ r[Len(q) + 1] = x
  OBVIOUS
<1>2. \A i \in 1 .. Len(r) : i \in 1 .. Len(q) \/ i = Len(q) + 1
  BY <1>1
<1>3. Once(r)
  BY <1>1, <1>2 DEF Once, Contains
<1>4. \A y : Contains(r, y) <=> Contains(q, y) \/ y = x
  BY <1>1, <1>2 DEF Contains
<1> QED
  BY <1>1, <1>3, <1>4

\* Cut a queue in two.
LEMMA SplitOnce ==
  ASSUME NEW T, NEW q \in Seq(T), Once(q), NEW n \in 0 .. Len(q)
  PROVE  /\ SubSeq(q, 1, n) \in Seq(T) /\ Once(SubSeq(q, 1, n))
         /\ SubSeq(q, n + 1, Len(q)) \in Seq(T) /\ Once(SubSeq(q, n + 1, Len(q)))
         /\ Len(SubSeq(q, 1, n)) = n /\ Len(SubSeq(q, n + 1, Len(q))) = Len(q) - n
         /\ \A i \in 1 .. n : SubSeq(q, 1, n)[i] = q[i]
         /\ \A x : Contains(q, x) <=>
              Contains(SubSeq(q, 1, n), x) \/ Contains(SubSeq(q, n + 1, Len(q)), x)
         /\ \A x : ~(Contains(SubSeq(q, 1, n), x) /\ Contains(SubSeq(q, n + 1, Len(q)), x))
<1> PICK a, b, m : a = SubSeq(q, 1, n) /\ b = SubSeq(q, n + 1, Len(q)) /\ m = Len(q)
  OBVIOUS
<1>1. m \in Nat /\ n \in 0 .. m /\ \A i \in 1 .. m : q[i] \in T
  OBVIOUS
<1>2. a \in Seq(T) /\ Len(a) = n /\ \A i \in 1 .. n : a[i] = q[i]
  OBVIOUS
<1>3. b \in Seq(T) /\ Len(b) = m - n /\ \A i \in 1 .. m - n : b[i] = q[n + i]
  OBVIOUS
<1>4. \A i \in 1 .. n : i \in 1 .. m
  BY <1>1
<1>5. \A i \in 1 .. m - n : n + i \in 1 .. m /\ n + i > n
  BY <1>1
<1>6. \A i \in 1 .. m : i \in 1 .. n \/ (i - n \in 1 .. m - n /\ n + (i - n) = i)
  BY <1>1
<1>7. Once(a)
  BY <1>2, <1>4 DEF Once
<1>8. Once(b)
  <2> SUFFICES ASSUME NEW i \in 1 .. m - n, NEW j \in 1 .. m - n, b[i] = b[j] PROVE i = j
    BY <1>3 DEF Once
  <2>1. q[n + i] = q[n + j]
    BY <1>3
  <2>2. n + i = n + j
    BY <1>5, <2>1 DEF Once
  <2> QED
    BY <1>1, <2>2
<1>9. \A x : Contains(q, x) <=> Contains(a, x) \/ Contains(b, x)
  <2> SUFFICES ASSUME NEW x PROVE Contains(q, x) <=> Contains(a, x) \/ Contains(b, x)
    OBVIOUS
  <2>1. ASSUME Contains(q, x) PROVE Contains(a, x) \/ Contains(b, x)
    <3> PICK i \in 1 .. m : q[i] = x
      BY <2>1 DEF Contains
    <3>1. CASE i \in 1 .. n
      BY <1>2, <3>1 DEF Contains
    <3>2. CASE i - n \in 1 .. m - n /\ n + (i - n) = i
      <4>1. b[i - n] = x
        BY <1>3, <3>2
      <4> QED
        BY <1>3, <3>2, <4>1 DEF Contains
    <3> QED
      BY <1>6, <3>1, <3>2
  <2>2. ASSUME Contains(a, x) PROVE Contains(q, x)
    BY <1>2, <1>4, <2>2 DEF Contains
  <2>3. ASSUME Contains(b, x) PROVE Contains(q, x)
    BY <1>3, <1>5, <2>3 DEF Contains
  <2> QED
    BY <2>1, <2>2, <2>3
<1>10. \A x : ~(Contains(a, x) /\ Contains(b, x))
  <2> SUFFICES ASSUME NEW x, Contains(a, x), Contains(b, x) PROVE FALSE
    OBVIOUS
  <2> PICK i \in 1 .. n : a[i] = x
    BY <1>2 DEF Contains
  <2> PICK j \in 1 .. m - n : b[j] = x
    BY <1>3 DEF Contains
  <2>1. q[i] = q[n + j]
    BY <1>2, <1>3
  <2>2. i = n + j
    BY <1>4, <1>5, <2>1 DEF Once
  <2> QED
    BY <1>1, <1>5, <2>2
<1> QED
  BY <1>2, <1>3, <1>7, <1>8, <1>9, <1>10

\* Take one element out of a queue.
LEMMA RemoveOnce ==
  ASSUME NEW T, NEW q \in Seq(T), Once(q), NEW k \in 1 .. Len(q)
  PROVE  /\ RemoveAt(q, k) \in Seq(T) /\ Once(RemoveAt(q, k))
         /\ \A x : Contains(RemoveAt(q, k), x) <=> Contains(q, x) /\ x # q[k]
<1> PICK r, m : r = RemoveAt(q, k) /\ m = Len(q)
  OBVIOUS
<1>1. m \in Nat /\ k \in 1 .. m
  OBVIOUS
<1>2. /\ SubSeq(q, 1, k - 1) \in Seq(T) /\ Len(SubSeq(q, 1, k - 1)) = k - 1
      /\ \A i \in 1 .. k - 1 : SubSeq(q, 1, k - 1)[i] = q[i]
  BY <1>1
<1>3. /\ SubSeq(q, k + 1, m) \in Seq(T) /\ Len(SubSeq(q, k + 1, m)) = m - k
      /\ \A i \in 1 .. m - k : SubSeq(q, k + 1, m)[i] = q[k + i]
  BY <1>1
<1> PICK a \in Seq(T), b \in Seq(T) :
      /\ r = a \o b /\ Len(a) = k - 1 /\ Len(b) = m - k
      /\ \A i \in 1 .. k - 1 : a[i] = q[i]
      /\ \A i \in 1 .. m - k : b[i] = q[k + i]
  BY <1>2, <1>3 DEF RemoveAt
<1>4. /\ r \in Seq(T) /\ Len(r) = m - 1
      /\ \A i \in 1 .. m - 1 : r[i] = IF i < k THEN a[i] ELSE b[i - (k - 1)]
  <2>1. /\ a \o b \in Seq(T) /\ Len(a \o b) = Len(a) + Len(b)
        /\ \A i \in 1 .. Len(a) + Len(b) :
             (a \o b)[i] = IF i <= Len(a) THEN a[i] ELSE b[i - Len(a)]
    BY ConcatProperties
  <2>2. Len(a) + Len(b) = m - 1 /\ \A i \in 1 .. m - 1 : i <= Len(a) <=> i < k
    BY <1>1
  <2> QED
    BY <2>1, <2>2
<1>5. /\ \A i \in 1 .. m - 1 : i < k => r[i] = q[i] /\ i \in 1 .. m
      /\ \A i \in 1 .. m - 1 : ~(i < k) => r[i] = q[i + 1] /\ i + 1 \in 1 .. m
  <2>1. ASSUME NEW i \in 1 .. m - 1, i < k PROVE r[i] = q[i] /\ i \in 1 .. m
    <3>1. i \in 1 .. k - 1 /\ i \in 1 .. m
      BY <1>1, <2>1
    <3> QED
      BY <1>4, <2>1, <3>1
  <2>2. ASSUME NEW i \in 1 .. m - 1, ~(i < k) PROVE r[i] = q[i + 1] /\ i + 1 \in 1 .. m
    <3>1. i - (k - 1) \in 1 .. m - k /\ k + (i - (k - 1)) = i + 1 /\ i + 1 \in 1 .. m
      BY <1>1, <2>2
    <3> QED
      BY <1>4, <2>2, <3>1
  <2> QED
    BY <2>1, <2>2
<1>6. Once(r)
  <2> SUFFICES ASSUME NEW i \in 1 .. m - 1, NEW j \in 1 .. m - 1, r[i] = r[j] PROVE i = j
    BY <1>4 DEF Once
  <2>1. CASE i < k /\ j < k
    BY <1>5, <2>1 DEF Once
  <2>2. CASE i < k /\ ~(j < k)
    <3>1. i = j + 1
      BY <1>5, <2>2 DEF Once
    <3> QED
      BY <1>1, <2>2, <3>1
  <2>3. CASE ~(i < k) /\ j < k
    <3>1. j = i + 1
      BY <1>5, <2>3 DEF Once
    <3> QED
      BY <1>1, <2>3, <3>1
  <2>4. CASE ~(i < k) /\ ~(j < k)
    <3>1. i + 1 = j + 1
      BY <1>5, <2>4 DEF Once
    <3> QED
      BY <1>1, <3>1
  <2> QED
    BY <2>1, <2>2, <2>3, <2>4
<1>7. ASSUME NEW x, Contains(r, x) PROVE Contains(q, x) /\ x # q[k]
  <2> PICK i \in 1 .. m - 1 : r[i] = x
    BY <1>4, <1>7 DEF Contains
  <2>1. CASE i < k
    <3>1. q[i] = x /\ i \in 1 .. m /\ i # k
      BY <1>1, <1>5, <2>1
    <3> QED
      BY <3>1 DEF Contains, Once
  <2>2. CASE ~(i < k)
    <3>1. q[i + 1] = x /\ i + 1 \in 1 .. m /\ i + 1 # k
      BY <1>1, <1>5, <2>2
    <3> QED
      BY <3>1 DEF Contains, Once
  <2> QED
    BY <2>1, <2>2
<1>8. ASSUME NEW x, Contains(q, x), x # q[k] PROVE Contains(r, x)
  <2> PICK i \in 1 .. m : q[i] = x
    BY <1>8 DEF Contains
  <2>1. CASE i < k
    <3>1. i \in 1 .. m - 1
      BY <1>1, <2>1
    <3> QED
      BY <1>4, <1>5, <2>1, <3>1 DEF Contains
  <2>2. CASE ~(i < k)
    <3>1. i - 1 \in 1 .. m - 1 /\ ~(i - 1 < k) /\ (i - 1) + 1 = i
      BY <1>1, <1>8, <2>2
    <3>2. r[i - 1] = x
      BY <1>5, <3>1
    <3> QED
      BY <1>4, <3>1, <3>2 DEF Contains
  <2> QED
    BY <2>1, <2>2
<1> QED
  BY <1>4, <1>6, <1>7, <1>8

LEMMA MinMember ==
  ASSUME NEW S \in SUBSET Nat, S # {} PROVE Min(S) \in S
<1> DEFINE R == OpToRel(<, Nat)
<1>1. IsWellFoundedOn(R, Nat)
  BY NatLessThanWellFounded
<1> HIDE DEF R
<1>2. PICK x \in S : \A y \in S : ~ (<<y, x>> \in R)
  BY <1>1, WFMin
<1>3. ASSUME NEW y \in S PROVE x <= y
  <2>1. y < x => <<y, x>> \in R
    BY DEF R, OpToRel
  <2> QED
    BY <1>2, <2>1
<1> QED
  BY <1>3 DEF Min

LEMMA RemoveFirstOnce ==
  ASSUME NEW T, NEW q \in Seq(T), Once(q), NEW t, Contains(q, t)
  PROVE  /\ RemoveFirst(q, t) \in Seq(T) /\ Once(RemoveFirst(q, t))
         /\ \A x : Contains(RemoveFirst(q, t), x) <=> Contains(q, x) /\ x # t
<1> DEFINE I == {i \in 1 .. Len(q) : q[i] = t}
<1>1. I # {} /\ I \in SUBSET Nat
  BY DEF Contains
<1>2. RemoveFirst(q, t) = RemoveAt(q, Min(I))
  BY <1>1 DEF RemoveFirst, SelectInSeq
<1>3. Min(I) \in I
  BY <1>1, MinMember
<1> PICK k \in 1 .. Len(q) : RemoveFirst(q, t) = RemoveAt(q, k) /\ q[k] = t
  BY <1>2, <1>3
<1> QED
  BY RemoveOnce

\* The first element other than t.
LEMMA FirstOther ==
  ASSUME NEW T, NEW q \in Seq(T), NEW t
  PROVE  \E i \in 0 .. Len(q) :
           /\ i = SelectInSeq(q, LAMBDA u : u # t)
           /\ i = 0 => \A x : Contains(q, x) => x = t
           /\ i # 0 => q[i] # t
<1> DEFINE I == {i \in 1 .. Len(q) : q[i] # t}
           k == IF I # {} THEN Min(I) ELSE 0
<1>1. I \in SUBSET Nat /\ Len(q) \in Nat
  OBVIOUS
<1>2. SelectInSeq(q, LAMBDA u : u # t) = k
  BY DEF SelectInSeq
<1>3. /\ k \in 0 .. Len(q)
      /\ k = 0 => \A x : Contains(q, x) => x = t
      /\ k # 0 => q[k] # t
  <2>1. CASE I # {}
    <3>1. k \in I
      BY <1>1, <2>1, MinMember
    <3> QED
      BY <1>1, <3>1
  <2>2. CASE I = {}
    BY <1>1, <2>2 DEF Contains
  <2> QED
    BY <2>1, <2>2
<1> HIDE DEF k
<1> QED
  BY <1>2, <1>3

-----------------------------------------------------------------------------
(* Constants and types. *)

LEMMA Kinds ==
  /\ Keys \subseteq Events /\ Slots \subseteq Events /\ Keys \cap Slots = {}
  /\ \A e \in Events : e \in Keys \/ e \in Slots
  /\ NO_EVENT \notin Events /\ WAKING_EVENT \notin Events /\ NO_EVENT # WAKING_EVENT
  /\ NO_EVENT \notin Threads /\ NOBODY \notin Threads /\ IsFiniteSet(Slots)
  /\ REF_BOUND \in Nat /\ \A t \in Threads : Calls[t] \subseteq CallNames
  BY FutexAssumption DEF NO_EVENT, WAKING_EVENT

LEMMA CopyOf ==
  ASSUME word \in [Keys -> Vals], NEW ks \in SUBSET Keys
  PROVE  [k \in ks |-> word[k]] \in Copies
<1>1. [k \in ks |-> word[k]] \in [ks -> Vals]
  OBVIOUS
<1> QED
  BY <1>1 DEF Copies

LEMMA CopyDomain ==
  ASSUME NEW v \in Copies PROVE DOMAIN v \subseteq Keys
  BY DEF Copies

LEMMA NoCallTyped == NoCall \in CallTypes /\ NoCall.name = "none" /\ NoCall.wake_key = NO_EVENT
<1>1. [k \in {} |-> 0] \in [{} -> Vals]
  OBVIOUS
<1>2. [k \in {} |-> 0] \in Copies
  BY <1>1 DEF Copies
<1> QED
  BY <1>2 DEF NoCall, CallTypes

\* What thread t moves to.
Moves(t, p, c) == pc' = [pc EXCEPT ![t] = p] /\ call' = [call EXCEPT ![t] = c]

LEMMA MovesMeans ==
  ASSUME Typed, NEW t \in Threads, NEW p \in Pcs, NEW c \in CallTypes, Moves(t, p, c)
  PROVE  /\ pc' \in [Threads -> Pcs] /\ call' \in [Threads -> CallTypes]
         /\ pc'[t] = p /\ call'[t] = c
         /\ \A x \in Threads \ {t} : pc'[x] = pc[x] /\ call'[x] = call[x]
  BY DEF Moves, Typed

\* The fields of a thread that a step leaves alone.
Same(x) ==
  /\ pc'[x] = pc[x] /\ call'[x] = call[x] /\ where'[x] = where[x] /\ timer'[x] = timer[x]
  /\ timer_refs'[x] = timer_refs[x] /\ th_wait'[x] = th_wait[x]
  /\ wait_event'[x] = wait_event[x] /\ to_wake'[x] = to_wake[x] /\ woken'[x] = woken[x]

\* The parts of the invariant that speak of one thread.
Fits(t) ==
  /\ ThreadOK(wait_event'[t], th_wait'[t], timer'[t], where'[t], pc'[t], call'[t])
  /\ CallOK(t, pc'[t], call'[t])
  /\ HandOK(pc'[t], to_wake'[t], woken'[t])
  /\ RefOK(t, timer'[t], timer_refs'[t], soft')
  /\ call'[t].name \in TimedCalls /\ pc'[t] \in {"assert", "register", "recheck", "timer"}
       => timer_refs'[t] < REF_BOUND

LEMMA FitsAll ==
  ASSUME \A x \in Threads : Fits(x)
  PROVE  ThreadInv' /\ CallInv' /\ HandInv' /\ RefInv'
<1>1. ThreadInv'
  BY DEF Fits, ThreadInv
<1>2. CallInv'
  BY DEF Fits, CallInv
<1>3. HandInv'
  BY DEF Fits, HandInv
<1>4. RefInv'
  BY DEF Fits, RefInv
<1> QED
  BY <1>1, <1>2, <1>3, <1>4

LEMMA SameFits ==
  ASSUME Inv, NEW x \in Threads, Same(x), soft' = soft
  PROVE  Fits(x)
<1>1. ThreadOK(wait_event[x], th_wait[x], timer[x], where[x], pc[x], call[x])
  BY DEF Inv, ThreadInv
<1>2. CallOK(x, pc[x], call[x])
  BY DEF Inv, CallInv
<1>3. HandOK(pc[x], to_wake[x], woken[x])
  BY DEF Inv, HandInv
<1>4. /\ RefOK(x, timer[x], timer_refs[x], soft)
      /\ call[x].name \in TimedCalls /\ pc[x] \in {"assert", "register", "recheck", "timer"}
           => timer_refs[x] < REF_BOUND
  BY DEF Inv, RefInv
<1> QED
  BY <1>1, <1>2, <1>3, <1>4 DEF Fits, Same

\* A step of thread t that leaves the wait hash, the softclock thread and the
\* other threads alone.
LEMMA LocalKeeps ==
  ASSUME Inv, Typed', NEW t \in Threads, \A x \in Threads \ {t} : Same(x), Fits(t), SlotInv',
         UNCHANGED <<queue, wait_event, soft, woken>>,
         timer'[t] = "pending" => timer[t] = "pending"
  PROVE  Inv'
<1>1. \A x \in Threads : Fits(x)
  BY SameFits
<1>2. ThreadInv' /\ CallInv' /\ HandInv' /\ RefInv'
  BY <1>1, FitsAll
<1>3. HashInv' /\ WokenInv'
  BY DEF Inv, HashInv, WokenInv
<1>4. SoftInv'
  <2>1. \A x \in Threads : timer'[x] = "pending" => timer[x] = "pending"
    BY DEF Same
  <2> QED
    BY <2>1 DEF Inv, SoftInv
<1> QED
  BY <1>2, <1>3, <1>4 DEF Inv

\* A thread that takes no slot and gives none back.
LEMMA SlotKeeps ==
  ASSUME Inv, NEW t \in Threads, NEW p \in Pcs, NEW c \in CallTypes, Moves(t, p, c),
         UNCHANGED <<futexv_table, futexv_active>>,
         p \in SlotPcs /\ c.name \in MultiCalls <=> pc[t] \in SlotPcs /\ Multi(t),
         p \in SlotPcs /\ c.name \in MultiCalls =>
           c.event = call[t].event /\ DOMAIN c.val = DOMAIN call[t].val
  PROVE  SlotInv'
<1>1. /\ pc'[t] = p /\ call'[t] = c
      /\ \A x \in Threads \ {t} : pc'[x] = pc[x] /\ call'[x] = call[x]
  BY MovesMeans DEF Inv
<1>2. \A s \in Slots, x \in Threads :
        futexv_table[s].thread = x <=> pc'[x] \in SlotPcs /\ Multi(x)' /\ call'[x].event = s
  BY <1>1 DEF Inv, SlotInv, Multi
<1>3. \A s \in Slots : SlotOK(s, futexv_table[s])'
  <2> SUFFICES ASSUME NEW s \in Slots, futexv_table[s].thread # NOBODY
               PROVE  futexv_table[s].keys = Words(futexv_table[s].thread)'
    BY DEF Inv, SlotInv, SlotOK
  <2> PICK x \in Threads : x = futexv_table[s].thread
    BY DEF Inv, Typed, SlotTypes
  <2>1. pc[x] \in SlotPcs /\ Multi(x) /\ futexv_table[s].keys = DOMAIN call[x].val
    BY DEF Inv, SlotInv, SlotOK, Words
  <2>2. DOMAIN call'[x].val = DOMAIN call[x].val
    BY <1>1, <2>1 DEF Multi
  <2> QED
    BY <2>1, <2>2 DEF Words
<1> QED
  BY <1>2, <1>3 DEF Inv, SlotInv

\* A step of thread t in its own call: it goes to p with call c, and at most
\* its list of events to wake or a word changes besides.
LEMMA QuietKeeps ==
  ASSUME Inv, NEW t \in Threads, NEW p \in Pcs, NEW c \in CallTypes, Moves(t, p, c),
         UNCHANGED <<waitVars, futexv_table, futexv_active, woken>>,
         word' \in [Keys -> Vals],
         to_wake' \in [Threads -> Seq(Events)],
         \A x \in Threads \ {t} : to_wake'[x] = to_wake[x],
         ThreadOK(wait_event[t], th_wait[t], timer[t], where[t], p, c), CallOK(t, p, c),
         HandOK(p, to_wake'[t], woken[t]),
         c.name \in TimedCalls /\ p \in {"assert", "register", "recheck", "timer"}
           => timer_refs[t] < REF_BOUND,
         p \in SlotPcs /\ c.name \in MultiCalls <=> pc[t] \in SlotPcs /\ Multi(t),
         p \in SlotPcs /\ c.name \in MultiCalls =>
           c.event = call[t].event /\ DOMAIN c.val = DOMAIN call[t].val
  PROVE  Inv'
<1>1. /\ pc' \in [Threads -> Pcs] /\ call' \in [Threads -> CallTypes]
      /\ pc'[t] = p /\ call'[t] = c
      /\ \A x \in Threads \ {t} : pc'[x] = pc[x] /\ call'[x] = call[x]
  BY MovesMeans DEF Inv
<1>2. UNCHANGED <<queue, wait_event, wait_result, th_wait, where, timer, timer_refs, soft>>
  BY DEF waitVars, hashVars, threadVars, timerVars
<1>3. Typed'
  BY <1>1, <1>2 DEF Inv, Typed
<1>4. \A x \in Threads \ {t} : Same(x)
  BY <1>1, <1>2 DEF Same
<1>5. RefOK(t, timer[t], timer_refs[t], soft)
  BY DEF Inv, RefInv
<1>6. Fits(t)
  BY <1>1, <1>2, <1>5 DEF Fits
<1>7. SlotInv'
  BY SlotKeeps
<1> QED
  BY <1>2, <1>3, <1>4, <1>6, <1>7, LocalKeeps

-----------------------------------------------------------------------------
(* Steps of a thread in its own call. *)

\* The invariant of one thread.
LEMMA AtThread ==
  ASSUME Inv, NEW t \in Threads
  PROVE  /\ ThreadOK(wait_event[t], th_wait[t], timer[t], where[t], pc[t], call[t])
         /\ CallOK(t, pc[t], call[t]) /\ HandOK(pc[t], to_wake[t], woken[t])
         /\ call[t] \in CallTypes /\ pc[t] \in Pcs /\ DOMAIN call[t].val \subseteq Keys
         /\ to_wake[t] \in Seq(Events) /\ woken[t] \in Seq(Threads)
         /\ wait_event[t] \in Events \cup {NO_EVENT, WAKING_EVENT}
         /\ timer[t] \in {"unset", "set", "pending"} /\ th_wait[t] \in BOOLEAN
         /\ where[t] \in {"cpu", "switch", "off", "runq"}
<1>1. /\ ThreadOK(wait_event[t], th_wait[t], timer[t], where[t], pc[t], call[t])
      /\ CallOK(t, pc[t], call[t]) /\ HandOK(pc[t], to_wake[t], woken[t])
  BY DEF Inv, ThreadInv, CallInv, HandInv
<1>2. /\ call[t] \in CallTypes /\ pc[t] \in Pcs
      /\ to_wake[t] \in Seq(Events) /\ woken[t] \in Seq(Threads)
      /\ wait_event[t] \in Events \cup {NO_EVENT, WAKING_EVENT}
      /\ timer[t] \in {"unset", "set", "pending"} /\ th_wait[t] \in BOOLEAN
      /\ where[t] \in {"cpu", "switch", "off", "runq"}
  BY DEF Inv, Typed
<1>3. call[t].val \in Copies
  BY <1>2 DEF CallTypes
<1> QED
  BY <1>1, <1>2, <1>3, CopyDomain

LEMMA ReturnKeeps ==
  ASSUME Inv, NEW t \in Threads, Return(t), wait_event[t] = NO_EVENT, where[t] = "cpu",
         ~(pc[t] \in SlotPcs /\ Multi(t)), to_wake[t] = <<>>, woken[t] = <<>>,
         UNCHANGED <<waitVars, word, futexv_table, futexv_active, to_wake, woken>>
  PROVE  Inv'
<1>1. Moves(t, "user", NoCall)
  BY DEF Return, Moves, Goto
<1>2. /\ "user" \in Pcs /\ NoCall \in CallTypes /\ NoCall.name = "none"
      /\ NoCall.wake_key = NO_EVENT /\ NO_EVENT \notin Keys
  BY NoCallTyped, Kinds DEF Pcs
<1>3. ThreadOK(wait_event[t], th_wait[t], timer[t], where[t], "user", NoCall)
  BY AtThread, Kinds DEF ThreadOK
<1>4. CallOK(t, "user", NoCall)
  BY <1>2 DEF CallOK, WakeCalls, WakeWaits, WakePcs, SlotPcs, WaitPcs, SleepPcs, LeavePcs
<1>5. HandOK("user", to_wake[t], woken[t])
  BY DEF HandOK
<1>6. NoCall.name \notin TimedCalls /\ NoCall.name \notin MultiCalls
  BY <1>2 DEF TimedCalls, MultiCalls
<1>7. word' \in [Keys -> Vals] /\ to_wake' \in [Threads -> Seq(Events)]
  BY DEF Inv, Typed
<1> QED
  BY <1>1, <1>2, <1>3, <1>4, <1>5, <1>6, <1>7, QuietKeeps

\* The thread goes on to p in the same call.
LEMMA StepKeeps ==
  ASSUME Inv, NEW t \in Threads, NEW p \in Pcs, Moves(t, p, call[t]),
         UNCHANGED <<waitVars, word, futexv_table, futexv_active, to_wake, woken>>,
         ThreadOK(wait_event[t], th_wait[t], timer[t], where[t], p, call[t]),
         CallOK(t, p, call[t]), to_wake[t] = <<>>, woken[t] = <<>>, p # "switch",
         p \notin {"assert", "register", "recheck", "timer"},
         Multi(t) => p \in SlotPcs /\ pc[t] \in SlotPcs
  PROVE  Inv'
<1>1. HandOK(p, to_wake[t], woken[t])
  BY DEF HandOK
<1>2. word' \in [Keys -> Vals] /\ to_wake' \in [Threads -> Seq(Events)]
  BY DEF Inv, Typed
<1>3. call[t] \in CallTypes
  BY AtThread
<1> QED
  BY <1>1, <1>2, <1>3, QuietKeeps DEF Multi

LEMMA ResumeKeeps ==
  ASSUME Inv, NEW t \in Threads, Resume(t) PROVE Inv'
<1>1. /\ pc[t] = "asleep" /\ where[t] = "cpu" /\ to_wake[t] = <<>> /\ woken[t] = <<>>
      /\ wait_event[t] = NO_EVENT /\ th_wait[t] = FALSE /\ timer[t] = "unset"
      /\ UNCHANGED <<waitVars, word, futexv_table, futexv_active, to_wake, woken>>
  BY AtThread DEF Resume, At, ThreadOK, HandOK
<1>2. CASE Multi(t)
  <2>1. Moves(t, "unregister", call[t])
    BY <1>2 DEF Resume, Moves, Goto, Inv, Typed
  <2>2. ThreadOK(wait_event[t], th_wait[t], timer[t], where[t], "unregister", call[t])
    BY <1>1, Kinds DEF ThreadOK
  <2>3. CallOK(t, "unregister", call[t])
    BY <1>1, <1>2, AtThread DEF CallOK, Multi, WakeCalls, WakeWaits, MultiCalls, WakePcs,
           SlotPcs, WaitPcs, SleepPcs, LeavePcs
  <2> QED
    BY <1>1, <2>1, <2>2, <2>3, StepKeeps DEF Pcs, SlotPcs, WaitPcs, SleepPcs
<1>3. CASE ~Multi(t)
  <2>1. Return(t)
    BY <1>3 DEF Resume
  <2> QED
    BY <1>1, <1>3, <2>1, ReturnKeeps
<1> QED
  BY <1>2, <1>3

LEMMA NotWaitingKeeps ==
  ASSUME Inv, NEW t \in Threads, pc[t] \in LeavePcs, where[t] = "cpu", NotWaiting(t),
         wait_event[t] = NO_EVENT,
         UNCHANGED <<waitVars, word, futexv_table, futexv_active, to_wake, woken>>
  PROVE  Inv'
<1>1. /\ to_wake[t] = <<>> /\ woken[t] = <<>> /\ th_wait[t] = FALSE /\ timer[t] = "unset"
      /\ pc[t] \in SlotPcs
  BY AtThread DEF ThreadOK, HandOK, LeavePcs, SlotPcs
<1>2. \A p : ThreadOK(wait_event[t], th_wait[t], timer[t], where[t], p, call[t])
  BY <1>1, Kinds DEF ThreadOK
<1>3. CASE Multi(t)
  <2> ~WakeWait(t)
    BY <1>3 DEF Multi, WakeWait, MultiCalls, WakeWaits
  <2>1. Moves(t, "unregister", call[t])
    BY <1>3 DEF NotWaiting, Moves, Goto, Inv, Typed
  <2>2. CallOK(t, "unregister", call[t])
    BY <1>1, <1>3, AtThread DEF CallOK, Multi, WakeCalls, WakeWaits, MultiCalls, WakePcs,
           SlotPcs, WaitPcs, SleepPcs, LeavePcs
  <2> QED
    BY <1>1, <1>2, <2>1, <2>2, StepKeeps DEF Pcs, SlotPcs, WaitPcs, SleepPcs
<1>4. CASE ~Multi(t) /\ WakeWait(t)
  <2>1. Moves(t, "gate", call[t])
    BY <1>4 DEF NotWaiting, Moves, Goto, Inv, Typed
  <2>2. CallOK(t, "gate", call[t])
    BY <1>1, <1>4, AtThread DEF CallOK, Multi, WakeWait, WakeCalls, WakeWaits, MultiCalls,
           WakePcs, SlotPcs, WaitPcs, SleepPcs, LeavePcs
  <2> QED
    BY <1>1, <1>2, <1>4, <2>1, <2>2, StepKeeps DEF Pcs, WakePcs
<1>5. CASE ~Multi(t) /\ ~WakeWait(t)
  <2>1. Return(t)
    BY <1>5 DEF NotWaiting
  <2> QED
    BY <1>1, <1>5, <2>1, ReturnKeeps
<1> QED
  BY <1>3, <1>4, <1>5

LEMMA DrainedKeeps ==
  ASSUME Inv, NEW t \in Threads, Drained(t) PROVE Inv'
<1>1. pc[t] = "drained" /\ where[t] = "cpu" /\ wait_event[t] = NO_EVENT
  BY AtThread DEF Drained, At, ThreadOK
<1> QED
  BY <1>1, NotWaitingKeeps DEF Drained, LeavePcs

LEMMA ClearWaitKeeps ==
  ASSUME Inv, NEW t \in Threads, ClearWait(t) PROVE Inv'
<1>1. /\ pc[t] = "clear" /\ where[t] = "cpu" /\ to_wake[t] = <<>> /\ woken[t] = <<>>
      /\ UNCHANGED <<waitVars, word, futexv_table, futexv_active, to_wake, woken>>
      /\ call[t] \in CallTypes /\ call' = [call EXCEPT ![t] = call[t]]
  BY AtThread DEF ClearWait, At, HandOK, Inv, Typed
<1> PICK p \in {"drain", "clear2"} :
      /\ pc' = [pc EXCEPT ![t] = p]
      /\ p = "drain" => wait_event[t] \in {NO_EVENT, WAKING_EVENT}
  BY DEF ClearWait, Goto
<1>2. ThreadOK(wait_event[t], th_wait[t], timer[t], where[t], p, call[t])
  BY <1>1, AtThread, Kinds DEF ThreadOK, WaitPcs, SleepPcs, LeavePcs
<1>3. CallOK(t, p, call[t])
  BY <1>1, AtThread DEF CallOK, WakeCalls, WakeWaits, MultiCalls, WakePcs,
         SlotPcs, WaitPcs, SleepPcs, LeavePcs
<1> QED
  BY <1>1, <1>2, <1>3, StepKeeps DEF Moves, Pcs, SlotPcs, WaitPcs, LeavePcs

LEMMA WakeDoneKeeps ==
  ASSUME Inv, NEW t \in Threads, WakeDone(t) PROVE Inv'
<1>1. pc[t] = "wake" /\ where[t] = "cpu" /\ wait_event[t] = NO_EVENT
  BY AtThread DEF WakeDone, At, ThreadOK, WaitPcs, SleepPcs, LeavePcs
<1>2. pc[t] \notin SlotPcs
  BY <1>1 DEF SlotPcs, WaitPcs, SleepPcs, LeavePcs
<1> QED
  BY <1>1, <1>2, ReturnKeeps DEF WakeDone

\* A record of a call in which one field has changed.
LEMMA CallSet ==
  ASSUME NEW c \in CallTypes, NEW ks \in SUBSET Keys, NEW e \in Events
  PROVE  /\ [c EXCEPT !.todo = ks] \in CallTypes
         /\ [c EXCEPT !.event = e, !.todo = ks] \in CallTypes
  BY DEF CallTypes

LEMMA RecheckKeeps ==
  ASSUME Inv, NEW t \in Threads, Recheck(t) PROVE Inv'
<1>1. /\ pc[t] = "recheck" /\ where[t] = "cpu" /\ to_wake[t] = <<>> /\ woken[t] = <<>>
      /\ UNCHANGED <<waitVars, word, futexv_table, futexv_active, to_wake, woken>>
      /\ timer[t] = "unset"
  BY AtThread DEF Recheck, At, HandOK, ThreadOK, SleepPcs
<1> PICK k \in call[t].todo, p \in {"clear", "recheck", "timer", "handoff", "block"} :
      /\ call' = [call EXCEPT ![t].todo = @ \ {k}]
      /\ pc' = [pc EXCEPT ![t] = p]
      /\ p \notin {"clear", "recheck"} => call[t].todo = {k}
      /\ p = "handoff" => WakeWait(t)
      /\ p = "timer" => Timed(t)
  BY DEF Recheck, Goto, Sleep
<1> PICK c : c = [call[t] EXCEPT !.todo = @ \ {k}]
  OBVIOUS
<1>2. /\ c \in CallTypes /\ c.name = call[t].name /\ c.val = call[t].val
      /\ c.wake_key = call[t].wake_key /\ c.event = call[t].event
      /\ c.todo = call[t].todo \ {k}
  <2>1. call[t] \in CallTypes
    BY AtThread
  <2> QED
    BY <2>1 DEF CallTypes
<1>3. Moves(t, p, c)
  BY DEF Moves
<1>4. ThreadOK(wait_event[t], th_wait[t], timer[t], where[t], p, c)
  BY <1>1, <1>2, AtThread DEF ThreadOK, WaitPcs, SleepPcs
<1>5. CallOK(t, p, c)
  BY <1>1, <1>2, AtThread DEF CallOK, Timed, WakeWait, WakeCalls, WakeWaits, MultiCalls,
         WakePcs, SlotPcs, WaitPcs, SleepPcs, LeavePcs
<1>6. HandOK(p, to_wake'[t], woken[t])
  BY <1>1 DEF HandOK
<1>7. p \in Pcs /\ p \in SlotPcs /\ pc[t] \in SlotPcs
  BY <1>1 DEF Pcs, SlotPcs, WaitPcs, SleepPcs
<1>8. c.name \in TimedCalls => timer_refs[t] < REF_BOUND
  BY <1>1, <1>2 DEF Inv, RefInv
<1>9. word' \in [Keys -> Vals] /\ to_wake' \in [Threads -> Seq(Events)]
  BY <1>1 DEF Inv, Typed
<1> QED
  BY <1>1, <1>2, <1>3, <1>4, <1>5, <1>6, <1>7, <1>8, <1>9, QuietKeeps DEF Multi

LEMMA GateKeeps ==
  ASSUME Inv, NEW t \in Threads, Gate(t) PROVE Inv'
<1>1. /\ pc[t] = "gate" /\ where[t] = "cpu" /\ to_wake[t] = <<>> /\ woken[t] = <<>>
      /\ UNCHANGED <<waitVars, word, futexv_table, futexv_active, woken>>
      /\ timer[t] = "unset" /\ call[t] \in CallTypes /\ call' = [call EXCEPT ![t] = call[t]]
      /\ wait_event[t] = NO_EVENT
  BY AtThread DEF Gate, At, HandOK, ThreadOK, SleepPcs, WaitPcs, LeavePcs, Inv, Typed
<1>2. call[t].wake_key \in Keys /\ call[t].name \in WakeCalls
  BY <1>1, AtThread DEF CallOK, WakePcs
<1> PICK p \in {"scan", "wake"} :
      /\ pc' = [pc EXCEPT ![t] = p]
      /\ \/ p = "scan" /\ to_wake' = to_wake
         \/ p = "wake" /\ to_wake' = [to_wake EXCEPT ![t] = <<call[t].wake_key>>]
  BY DEF Gate, Goto
<1>3. /\ to_wake' \in [Threads -> Seq(Events)]
      /\ \A x \in Threads \ {t} : to_wake'[x] = to_wake[x]
      /\ p = "scan" => to_wake'[t] = <<>>
  <2>1. <<call[t].wake_key>> \in Seq(Events)
    BY <1>2, Kinds
  <2> QED
    BY <1>1, <2>1 DEF Inv, Typed
<1>4. ThreadOK(wait_event[t], th_wait[t], timer[t], where[t], p, call[t])
  BY <1>1, AtThread, Kinds DEF ThreadOK
<1>5. CallOK(t, p, call[t])
  BY <1>1, <1>2, AtThread DEF CallOK, WakeCalls, WakeWaits, MultiCalls, WakePcs,
         SlotPcs, WaitPcs, SleepPcs, LeavePcs
<1>6. HandOK(p, to_wake'[t], woken[t])
  BY <1>1, <1>3 DEF HandOK
<1>7. p \in Pcs /\ p \notin SlotPcs /\ pc[t] \notin SlotPcs
  BY <1>1 DEF Pcs, WakePcs, SlotPcs, WaitPcs, SleepPcs, LeavePcs
<1>8. word' \in [Keys -> Vals]
  BY <1>1 DEF Inv, Typed
<1> QED
  BY <1>1, <1>3, <1>4, <1>5, <1>6, <1>7, <1>8, QuietKeeps DEF Moves

\* Calls from user mode.
LEMMA UserKeeps ==
  ASSUME Inv, NEW t \in Threads, NEW name, MayCall(t, name), NEW v \in Copies,
         NEW k \in Keys \cup {NO_EVENT}, NEW p \in {"assert", "register", "gate"},
         NEW c,
         \/ c = [NoCall EXCEPT !.name = name, !.val = v] /\ k = NO_EVENT
         \/ c = [NoCall EXCEPT !.name = name, !.val = v, !.wake_key = k],
         Moves(t, p, c),
         name \in WakeCalls <=> k \in Keys,
         p = "gate" <=> name \in {"wake_one", "wake_all"},
         p = "register" <=> name \in MultiCalls,
         p = "assert" => \E w \in Keys : DOMAIN v = {w},
         UNCHANGED <<waitVars, futexv_table, futexv_active, to_wake, woken>>,
         word' \in [Keys -> Vals]
  PROVE  Inv'
<1>1. /\ pc[t] = "user" /\ where[t] = "cpu" /\ to_wake[t] = <<>> /\ woken[t] = <<>>
      /\ timer[t] = "unset" /\ wait_event[t] = NO_EVENT
      /\ name \in Calls[t] /\ (name \in TimedCalls => timer_refs[t] < REF_BOUND)
  BY AtThread DEF MayCall, At, HandOK, ThreadOK, SleepPcs, WaitPcs, LeavePcs
<1>2. name \in CallNames
  BY <1>1, Kinds
<1>3. c \in CallTypes /\ c.name = name /\ c.val = v /\ c.wake_key = k
  BY <1>2, NoCallTyped DEF CallTypes
<1>4. ThreadOK(wait_event[t], th_wait[t], timer[t], where[t], p, c)
  BY <1>1, AtThread, Kinds DEF ThreadOK
<1>5. CallOK(t, p, c)
  BY <1>1, <1>3 DEF CallOK, WakeCalls, WakeWaits, MultiCalls, WakePcs,
         SlotPcs, WaitPcs, SleepPcs, LeavePcs
<1>6. HandOK(p, to_wake'[t], woken[t])
  BY <1>1 DEF HandOK
<1>7. p \in Pcs /\ p \notin SlotPcs /\ pc[t] \notin SlotPcs
  BY <1>1 DEF Pcs, WakePcs, SlotPcs, WaitPcs, SleepPcs, LeavePcs
<1>8. to_wake' \in [Threads -> Seq(Events)]
  BY DEF Inv, Typed
<1> QED
  BY <1>1, <1>3, <1>4, <1>5, <1>6, <1>7, <1>8, QuietKeeps

LEMMA CallWaitKeeps ==
  ASSUME Inv, NEW t \in Threads, NEW name, NEW ks \in SUBSET Keys, CallWait(t, name, ks),
         \/ name \in {"wait", "timedwait"} /\ \E k \in Keys : ks = {k}
         \/ name \in MultiCalls
  PROVE  Inv'
<1> PICK v : v = [k \in ks |-> word[k]]
  OBVIOUS
<1>1. v \in Copies /\ DOMAIN v = ks /\ word \in [Keys -> Vals]
  BY CopyOf DEF Inv, Typed
<1> PICK p \in {"assert", "register"} :
      /\ p = IF name \in MultiCalls THEN "register" ELSE "assert"
      /\ Moves(t, p, [NoCall EXCEPT !.name = name, !.val = v])
  BY DEF CallWait, Goto, Moves
<1>4. /\ name \notin WakeCalls /\ NO_EVENT \notin Keys
      /\ name \notin {"wake_one", "wake_all"}
      /\ name \notin MultiCalls => \E k \in Keys : ks = {k}
  BY Kinds DEF WakeCalls, WakeWaits, MultiCalls
<1>5. /\ MayCall(t, name) /\ word' \in [Keys -> Vals]
      /\ UNCHANGED <<waitVars, futexv_table, futexv_active, to_wake, woken>>
  BY <1>1 DEF CallWait
<1> QED
  BY <1>1, <1>4, <1>5, UserKeeps

LEMMA CallWakeKeeps ==
  ASSUME Inv, NEW t \in Threads, NEW name \in WakeCalls, NEW k \in Keys, NEW w \in Keys,
         CallWake(t, name, k, w)
  PROVE  Inv'
<1>1. word' \in [Keys -> Vals]
  BY DEF CallWake, Inv, Typed
<1> PICK v : v = IF name \in WakeWaits THEN [x \in {w} |-> word'[x]] ELSE NoCall.val
  OBVIOUS
<1>2. v \in Copies /\ (name \in WakeWaits => DOMAIN v = {w})
  <2>1. [x \in {w} |-> word'[x]] \in [{w} -> Vals]
    BY <1>1
  <2>2. [x \in {w} |-> word'[x]] \in Copies
    BY <2>1 DEF Copies
  <2>3. NoCall.val \in Copies
    BY NoCallTyped DEF CallTypes
  <2> QED
    BY <2>2, <2>3
<1>3. [NoCall EXCEPT !.name = name, !.wake_key = k,
                     !.val = IF name \in WakeWaits THEN [x \in {w} |-> word'[x]] ELSE @]
        = [NoCall EXCEPT !.name = name, !.val = v, !.wake_key = k]
  BY DEF NoCall
<1> PICK p \in {"assert", "gate"} :
      /\ p = IF name \in WakeWaits THEN "assert" ELSE "gate"
      /\ Moves(t, p, [NoCall EXCEPT !.name = name, !.val = v, !.wake_key = k])
  BY <1>3 DEF CallWake, Goto, Moves
<1>4. /\ name \notin MultiCalls /\ (name \in WakeWaits <=> name \notin {"wake_one", "wake_all"})
  BY DEF WakeCalls, WakeWaits, MultiCalls
<1>5. /\ MayCall(t, name)
      /\ UNCHANGED <<waitVars, futexv_table, futexv_active, to_wake, woken>>
  BY DEF CallWake
<1> QED
  BY <1>1, <1>2, <1>4, <1>5, UserKeeps

LEMMA UserCallKeeps ==
  ASSUME Inv, NEW t \in Threads, UserCall(t) PROVE Inv'
<1>1. ASSUME NEW name \in {"wait", "timedwait"}, NEW k \in Keys, CallWait(t, name, {k})
      PROVE  Inv'
  BY <1>1, CallWaitKeeps
<1>2. ASSUME NEW name \in MultiCalls, CallWait(t, name, Keys) PROVE Inv'
  BY <1>2, CallWaitKeeps
<1>3. ASSUME NEW name \in WakeCalls, NEW k \in Keys, NEW w \in Keys, CallWake(t, name, k, w)
      PROVE  Inv'
  BY <1>3, CallWakeKeeps
<1> QED
  BY <1>1, <1>2, <1>3 DEF UserCall, WakeCalls

-----------------------------------------------------------------------------
(* Timers, processors and slots. *)

\* A step of thread t on its place, its processor or its timer.
LEMMA PlaceKeeps ==
  ASSUME Inv, NEW t \in Threads, NEW p \in Pcs, Moves(t, p, call[t]),
         NEW wh \in {"cpu", "switch", "off", "runq"}, where' = [where EXCEPT ![t] = wh],
         NEW tm \in {"unset", "set", "pending"}, timer' = [timer EXCEPT ![t] = tm],
         NEW n \in 0 .. REF_BOUND, timer_refs' = [timer_refs EXCEPT ![t] = n],
         UNCHANGED <<queue, wait_event, wait_result, th_wait, soft, word, futexv_table,
                     futexv_active, to_wake, woken>>,
         tm = "pending" => timer[t] = "pending",
         ThreadOK(wait_event[t], th_wait[t], tm, wh, p, call[t]), CallOK(t, p, call[t]),
         HandOK(p, to_wake[t], woken[t]), RefOK(t, tm, n, soft),
         \/ p = pc[t] /\ n = timer_refs[t]
         \/ p \notin {"assert", "register", "recheck", "timer"},
         Multi(t) => (p \in SlotPcs <=> pc[t] \in SlotPcs)
  PROVE  Inv'
<1>1. call[t] \in CallTypes
  BY AtThread
<1>2. /\ pc' \in [Threads -> Pcs] /\ call' \in [Threads -> CallTypes]
      /\ pc'[t] = p /\ call'[t] = call[t]
      /\ \A x \in Threads \ {t} : pc'[x] = pc[x] /\ call'[x] = call[x]
  BY <1>1, MovesMeans DEF Inv
<1>3. /\ where' \in [Threads -> {"cpu", "switch", "off", "runq"}] /\ where'[t] = wh
      /\ timer' \in [Threads -> {"unset", "set", "pending"}] /\ timer'[t] = tm
      /\ timer_refs' \in [Threads -> 0 .. REF_BOUND] /\ timer_refs'[t] = n
      /\ \A x \in Threads \ {t} : /\ where'[x] = where[x] /\ timer'[x] = timer[x]
                                  /\ timer_refs'[x] = timer_refs[x]
  BY DEF Inv, Typed
<1>4. Typed'
  BY <1>2, <1>3 DEF Inv, Typed
<1>5. \A x \in Threads \ {t} : Same(x)
  BY <1>2, <1>3 DEF Same
<1>6. call[t].name \in TimedCalls /\ p \in {"assert", "register", "recheck", "timer"}
        => n < REF_BOUND
  BY DEF Inv, RefInv
<1>7. Fits(t)
  BY <1>2, <1>3, <1>6 DEF Fits
<1>8. SlotInv'
  BY <1>1, SlotKeeps DEF Multi
<1> QED
  BY <1>3, <1>4, <1>5, <1>7, <1>8, LocalKeeps

LEMMA StayFacts ==
  ASSUME Inv, NEW t \in Threads
  PROVE  /\ where = [where EXCEPT ![t] = where[t]] /\ timer = [timer EXCEPT ![t] = timer[t]]
         /\ timer_refs = [timer_refs EXCEPT ![t] = timer_refs[t]]
         /\ pc = [pc EXCEPT ![t] = pc[t]] /\ call = [call EXCEPT ![t] = call[t]]
         /\ timer_refs[t] \in 0 .. REF_BOUND /\ timer_refs[t] \in Nat
         /\ RefOK(t, timer[t], timer_refs[t], soft)
<1>1. timer_refs[t] \in 0 .. REF_BOUND /\ RefOK(t, timer[t], timer_refs[t], soft)
  BY DEF Inv, Typed, RefInv
<1>2. timer_refs[t] \in Nat
  BY <1>1, Kinds
<1> QED
  BY <1>1, <1>2 DEF Inv, Typed

LEMMA BlockKeeps ==
  ASSUME Inv, NEW t \in Threads, thread_block(t), where[t] = "cpu",
         \/ pc[t] = "block" /\ Goto(t, "asleep")
         \/ pc[t] = "drain" /\ wait_event[t] # NO_EVENT /\ Goto(t, "drained"),
         UNCHANGED <<word, futexv_table, futexv_active, call, to_wake, woken>>
  PROVE  Inv'
<1> PICK p \in {"asleep", "drained"} :
      /\ pc' = [pc EXCEPT ![t] = p]
      /\ p = "asleep" => pc[t] = "block"
      /\ p = "drained" => pc[t] = "drain"
  BY DEF Goto
<1>1. Moves(t, p, call[t])
  BY StayFacts DEF Moves
<1>2. /\ where' = [where EXCEPT ![t] = "switch"]
      /\ UNCHANGED <<queue, wait_event, wait_result, th_wait, soft, timer, timer_refs>>
  BY DEF thread_block, hashVars, timerVars
<1>3. ThreadOK(wait_event[t], th_wait[t], timer[t], "switch", p, call[t])
  BY AtThread, Kinds DEF ThreadOK, WaitPcs, SleepPcs, LeavePcs
<1>4. CallOK(t, p, call[t])
  BY AtThread DEF CallOK, WakeWait, WakeCalls, WakeWaits, MultiCalls, WakePcs,
         SlotPcs, WaitPcs, SleepPcs, LeavePcs
<1>5. HandOK(p, to_wake[t], woken[t])
  BY AtThread DEF HandOK
<1>6. p \in Pcs /\ p \in SlotPcs /\ pc[t] \in SlotPcs /\ timer[t] \in {"unset", "set", "pending"}
  BY AtThread DEF Pcs, SlotPcs, WaitPcs, SleepPcs, LeavePcs
<1> QED
  BY <1>1, <1>2, <1>3, <1>4, <1>5, <1>6, StayFacts, PlaceKeeps

LEMMA DrainKeeps ==
  ASSUME Inv, NEW t \in Threads, Drain(t) PROVE Inv'
<1>1. CASE wait_event[t] # NO_EVENT
  BY <1>1, BlockKeeps DEF Drain, At
<1>2. CASE wait_event[t] = NO_EVENT
  BY <1>2, NotWaitingKeeps DEF Drain, At, LeavePcs
<1> QED
  BY <1>1, <1>2

LEMMA ProcessorKeeps ==
  ASSUME Inv, NEW t \in Threads, Processor(t) PROVE Inv'
<1> PICK wh \in {"off", "runq", "cpu"} :
      /\ where' = [where EXCEPT ![t] = wh]
      /\ \/ where[t] = "switch" /\ wh = IF th_wait[t] THEN "off" ELSE "runq"
         \/ where[t] = "runq" /\ wh = "cpu"
  BY DEF Processor, thread_dispatch, thread_select
<1>1. UNCHANGED <<queue, wait_event, wait_result, th_wait, soft, timer, timer_refs, word,
                  futexv_table, futexv_active, pc, call, to_wake, woken>>
  BY DEF Processor, thread_dispatch, thread_select, hashVars, timerVars, futexVars
<1>2. Moves(t, pc[t], call[t])
  BY <1>1, StayFacts DEF Moves
<1>3. ThreadOK(wait_event[t], th_wait[t], timer[t], wh, pc[t], call[t])
  BY AtThread, Kinds DEF ThreadOK, WaitPcs, SleepPcs, LeavePcs
<1>4. /\ timer' = [timer EXCEPT ![t] = timer[t]]
      /\ timer_refs' = [timer_refs EXCEPT ![t] = timer_refs[t]]
      /\ timer_refs[t] \in 0 .. REF_BOUND /\ RefOK(t, timer[t], timer_refs[t], soft)
  BY <1>1, StayFacts
<1>5. /\ pc[t] \in Pcs /\ timer[t] \in {"unset", "set", "pending"}
      /\ CallOK(t, pc[t], call[t]) /\ HandOK(pc[t], to_wake[t], woken[t])
      /\ wh \in {"cpu", "switch", "off", "runq"}
  BY AtThread
<1> PICK p, tm, n : p = pc[t] /\ tm = timer[t] /\ n = timer_refs[t]
  OBVIOUS
<1>6. /\ p \in Pcs /\ Moves(t, p, call[t]) /\ CallOK(t, p, call[t])
      /\ ThreadOK(wait_event[t], th_wait[t], tm, wh, p, call[t])
      /\ HandOK(p, to_wake[t], woken[t]) /\ RefOK(t, tm, n, soft)
      /\ tm \in {"unset", "set", "pending"} /\ n \in 0 .. REF_BOUND
      /\ timer' = [timer EXCEPT ![t] = tm] /\ timer_refs' = [timer_refs EXCEPT ![t] = n]
  BY <1>2, <1>3, <1>4, <1>5
<1>7. /\ tm = "pending" => timer[t] = "pending"
      /\ p = pc[t] /\ n = timer_refs[t]
      /\ Multi(t) => (p \in SlotPcs <=> pc[t] \in SlotPcs)
      /\ UNCHANGED <<queue, wait_event, wait_result, th_wait, soft, word, futexv_table,
                     futexv_active, to_wake, woken>>
  BY <1>1
<1>8. wh \in {"cpu", "switch", "off", "runq"} /\ where' = [where EXCEPT ![t] = wh]
  BY <1>5
<1> QED
  BY <1>6, <1>7, <1>8, PlaceKeeps

LEMMA SetTimeoutKeeps ==
  ASSUME Inv, NEW t \in Threads, SetTimeout(t) PROVE Inv'
<1>1. /\ pc[t] = "timer" /\ where[t] = "cpu" /\ timer[t] = "unset"
      /\ UNCHANGED <<queue, wait_event, wait_result, th_wait, where, soft, word, futexv_table,
                     futexv_active, call, to_wake, woken>>
  BY AtThread DEF SetTimeout, At, ThreadOK, thread_set_timeout, hashVars, threadVars
<1> PICK p \in {"handoff", "block"} :
      pc' = [pc EXCEPT ![t] = p] /\ (p = "handoff" => WakeWait(t))
  BY DEF SetTimeout, Goto, Sleep
<1> PICK tm \in {"unset", "set"}, n \in Nat :
      /\ timer' = [timer EXCEPT ![t] = tm] /\ timer_refs' = [timer_refs EXCEPT ![t] = n]
      /\ \/ tm = "set" /\ n = timer_refs[t] + 1 /\ th_wait[t] = TRUE
         \/ tm = "unset" /\ n = timer_refs[t]
  <2>1. /\ timer' = [timer EXCEPT ![t] = IF th_wait[t] THEN "set" ELSE timer[t]]
        /\ timer_refs' = [timer_refs EXCEPT ![t] = IF th_wait[t] THEN timer_refs[t] + 1
                                                                ELSE timer_refs[t]]
    BY DEF SetTimeout, thread_set_timeout
  <2>2. timer_refs[t] \in Nat /\ timer_refs[t] + 1 \in Nat /\ th_wait[t] \in BOOLEAN
    BY StayFacts, AtThread
  <2>3. CASE th_wait[t]
    BY <2>1, <2>2, <2>3
  <2>4. CASE ~th_wait[t]
    BY <1>1, <2>1, <2>2, <2>4
  <2> QED
    BY <2>3, <2>4
<1>2. Moves(t, p, call[t])
  BY <1>1, StayFacts DEF Moves
<1>3. ThreadOK(wait_event[t], th_wait[t], tm, where[t], p, call[t])
  BY <1>1, AtThread, Kinds DEF ThreadOK, WaitPcs, SleepPcs, LeavePcs
<1>4. CallOK(t, p, call[t])
  BY <1>1, AtThread DEF CallOK, WakeWait, WakeCalls, WakeWaits, MultiCalls, WakePcs,
         SlotPcs, WaitPcs, SleepPcs, LeavePcs
<1>5. HandOK(p, to_wake[t], woken[t])
  BY <1>1, AtThread DEF HandOK
<1>6. p \in Pcs /\ p \in SlotPcs /\ pc[t] \in SlotPcs
  BY <1>1 DEF Pcs, SlotPcs, WaitPcs, SleepPcs, LeavePcs
<1>7. RefOK(t, tm, n, soft)
  BY <1>1, StayFacts DEF RefOK
<1>8. n \in 0 .. REF_BOUND
  <2>1. timer_refs[t] < REF_BOUND
    BY <1>1, AtThread DEF Inv, RefInv, CallOK
  <2> QED
    BY <2>1, StayFacts, Kinds
<1>9. where' = [where EXCEPT ![t] = where[t]] /\ where[t] \in {"cpu", "switch", "off", "runq"}
  BY <1>1, StayFacts
<1> QED
  BY <1>1, <1>2, <1>3, <1>4, <1>5, <1>6, <1>7, <1>8, <1>9, PlaceKeeps

\* How many slots are taken.
LEMMA CountSlots ==
  ASSUME NEW A \in SUBSET Slots, NEW s \in Slots
  PROVE  /\ IsFiniteSet(A) /\ Cardinality(A) \in Nat
         /\ s \notin A => Cardinality(A \cup {s}) = Cardinality(A) + 1
         /\ s \in A => Cardinality(A \ {s}) = Cardinality(A) - 1
<1>1. IsFiniteSet(A) /\ Cardinality(A) \in Nat
  BY Kinds, FS_Subset, FS_CardinalityType
<1>2. s \notin A => Cardinality(A \cup {s}) = Cardinality(A) + 1
  BY <1>1, FS_AddElement
<1>3. s \in A => Cardinality(A \ {s}) = Cardinality(A) - 1
  BY <1>1, FS_RemoveElement
<1> QED
  BY <1>1, <1>2, <1>3

Taken == {s \in Slots : futexv_table[s] # FreeSlot}

LEMMA TakenMeans ==
  ASSUME Inv, NEW s \in Slots
  PROVE  s \in Taken <=> futexv_table[s].thread # NOBODY
  BY DEF Inv, SlotInv, SlotOK, Taken, FreeSlot

\* A scan marks slots, which stay with their threads.
LEMMA ScanSlots ==
  ASSUME Inv, NEW t \in Threads, Scan(t)
  PROVE  /\ futexv_table' \in [Slots -> SlotTypes]
         /\ \A s \in Slots : /\ futexv_table'[s].thread = futexv_table[s].thread
                             /\ futexv_table'[s].keys = futexv_table[s].keys
                             /\ futexv_table[s] = FreeSlot <=> futexv_table'[s] = FreeSlot
<1> PICK k \in Keys : k = call[t].wake_key
  BY AtThread DEF Scan, At, CallOK, WakePcs
<1> PICK hits : hits = {s \in Slots : k \in futexv_table[s].keys}
  OBVIOUS
<1>1. futexv_table' = [s \in Slots |->
        IF s \in hits /\ futexv_table[s].woken_index = NOBODY
        THEN [futexv_table[s] EXCEPT !.woken_index = k] ELSE futexv_table[s]]
  BY DEF Scan
<1>2. ASSUME NEW s \in Slots
      PROVE  /\ futexv_table'[s] \in SlotTypes
             /\ futexv_table'[s].thread = futexv_table[s].thread
             /\ futexv_table'[s].keys = futexv_table[s].keys
             /\ futexv_table[s] = FreeSlot <=> futexv_table'[s] = FreeSlot
  <2> PICK sl \in SlotTypes : sl = futexv_table[s]
    BY DEF Inv, Typed
  <2>1. CASE s \in hits /\ sl.woken_index = NOBODY
    <3> PICK sm : sm = [sl EXCEPT !.woken_index = k]
      OBVIOUS
    <3>1. futexv_table'[s] = sm
      BY <1>1, <2>1
    <3>2. sm \in SlotTypes /\ sm.thread = sl.thread /\ sm.keys = sl.keys
      BY DEF SlotTypes
    <3>3. k \in sl.keys
      BY <2>1
    <3> QED
      BY <3>1, <3>2, <3>3 DEF FreeSlot
  <2>2. CASE ~(s \in hits /\ sl.woken_index = NOBODY)
    BY <1>1, <2>2
  <2> QED
    BY <2>1, <2>2
<1> QED
  BY <1>1, <1>2

\* The list that a scan makes: the slots it hit, then the key.
LEMMA ScanSequence ==
  ASSUME NEW A \in SUBSET Slots, NEW k \in Keys
  PROVE  /\ Append(SetToSeq(A), k) \in Seq(Events)
         /\ Contains(Append(SetToSeq(A), k), k)
         /\ \A s \in A : Contains(Append(SetToSeq(A), k), s)
<1> PICK n, f : n = Cardinality(A) /\ f = SetToSeq(A)
  OBVIOUS
<1>1. IsFiniteSet(A) /\ n \in Nat /\ ExistsBijection(1 .. n, A)
  BY Kinds, FS_Subset, FS_CardinalityType
<1>2. \E g \in [1 .. n -> A] : IsInjective(g)
  BY <1>1 DEF ExistsBijection, Bijection, Injection
<1>3. f \in [1 .. n -> A] /\ IsInjective(f)
  BY <1>2 DEF SetToSeq
<1>4. Cardinality(1 .. n) = Cardinality(A)
  BY <1>1, FS_Interval
<1>5. f \in Injection(1 .. n, A)
  BY <1>3 DEF Injection
<1>6. f \in Surjection(1 .. n, A)
  BY <1>1, <1>4, <1>5, FS_Injection, Zenon
<1>7. \A s \in A : \E i \in 1 .. n : f[i] = s
  BY <1>6 DEF Surjection
<1>8. f \in Seq(Events) /\ Len(f) = n
  BY <1>1, <1>3, Kinds
<1>9. k \in Events
  BY Kinds
<1> PICK r : r = Append(f, k)
  OBVIOUS
<1>10. /\ r \in Seq(Events) /\ Len(r) = n + 1 /\ r[n + 1] = k
       /\ \A i \in 1 .. n : r[i] = f[i]
  BY <1>1, <1>8, <1>9
<1>11. Contains(r, k) /\ \A s \in A : Contains(r, s)
  BY <1>1, <1>7, <1>10 DEF Contains
<1> QED
  BY <1>10, <1>11

LEMMA ScanKeeps ==
  ASSUME Inv, NEW t \in Threads, Scan(t) PROVE Inv'
<1>1. /\ pc[t] = "scan" /\ where[t] = "cpu" /\ woken[t] = <<>> /\ wait_event[t] = NO_EVENT
      /\ UNCHANGED <<queue, wait_event, wait_result, th_wait, where, timer, timer_refs, soft,
                     word, futexv_active, call, woken>>
      /\ pc' = [pc EXCEPT ![t] = "wake"]
  BY AtThread DEF Scan, At, Goto, HandOK, ThreadOK, SleepPcs, WaitPcs, LeavePcs, waitVars,
         hashVars, threadVars, timerVars
<1>2. call[t].wake_key \in Keys /\ call[t].name \in WakeCalls
  BY <1>1, AtThread DEF CallOK, WakePcs
<1> PICK A \in SUBSET Slots, k \in Keys :
      to_wake' = [to_wake EXCEPT ![t] = Append(SetToSeq(A), k)]
  BY <1>2 DEF Scan
<1>3. /\ to_wake' \in [Threads -> Seq(Events)]
      /\ \A x \in Threads \ {t} : to_wake'[x] = to_wake[x]
  BY ScanSequence DEF Inv, Typed
<1>4. /\ pc' \in [Threads -> Pcs] /\ pc'[t] = "wake"
      /\ \A x \in Threads \ {t} : pc'[x] = pc[x]
  BY <1>1 DEF Inv, Typed, Pcs, WakePcs
<1>5. Typed'
  BY <1>1, <1>3, <1>4, ScanSlots DEF Inv, Typed
<1>6. \A x \in Threads \ {t} : Same(x)
  BY <1>1, <1>3, <1>4 DEF Same
<1>7. ThreadOK(wait_event[t], th_wait[t], timer[t], where[t], "wake", call[t])
  BY <1>1, AtThread, Kinds DEF ThreadOK, SleepPcs
<1>8. CallOK(t, "wake", call[t])
  BY <1>1, <1>2, AtThread DEF CallOK, WakeCalls, WakeWaits, MultiCalls, WakePcs,
         SlotPcs, WaitPcs, SleepPcs, LeavePcs
<1>9. HandOK("wake", to_wake'[t], woken[t])
  BY <1>1 DEF HandOK
<1>10. RefOK(t, timer[t], timer_refs[t], soft)
  BY DEF Inv, RefInv
<1>11. Fits(t)
  BY <1>1, <1>4, <1>7, <1>8, <1>9, <1>10 DEF Fits
<1>12. SlotInv'
  <2>1. \A s \in Slots : futexv_table'[s] # FreeSlot <=> futexv_table[s] # FreeSlot
    BY ScanSlots
  <2>2. {s \in Slots : futexv_table'[s] # FreeSlot} = {s \in Slots : futexv_table[s] # FreeSlot}
    BY <2>1
  <2>3. futexv_active' = Cardinality({s \in Slots : futexv_table'[s] # FreeSlot})
    BY <1>1, <2>2 DEF Inv, SlotInv
  <2>4. \A x \in Threads : pc'[x] \in SlotPcs <=> pc[x] \in SlotPcs
    BY <1>1, <1>4 DEF SlotPcs, WaitPcs, SleepPcs, LeavePcs
  <2>5. \A s \in Slots, x \in Threads :
          futexv_table'[s].thread = x <=> pc'[x] \in SlotPcs /\ Multi(x)' /\ call'[x].event = s
    BY <1>1, <2>4, ScanSlots DEF Inv, SlotInv, Multi
  <2>6. \A s \in Slots : SlotOK(s, futexv_table[s])'
    BY <1>1, ScanSlots DEF Inv, SlotInv, SlotOK, Words
  <2> QED
    BY <2>3, <2>5, <2>6 DEF SlotInv
<1> QED
  BY <1>1, <1>5, <1>6, <1>11, <1>12, LocalKeeps

\* A thread gives its slot back.
LEMMA UnregisterSlots ==
  ASSUME Inv, NEW t \in Threads, Unregister(t)
  PROVE  /\ futexv_table' \in [Slots -> SlotTypes] /\ futexv_active' \in Nat /\ SlotInv'
<1> PICK e : e = call[t].event
  OBVIOUS
<1>1. /\ e \in Slots /\ Multi(t) /\ pc[t] = "unregister" /\ pc[t] \in SlotPcs
      /\ Moves(t, "user", NoCall)
      /\ futexv_table' = [futexv_table EXCEPT ![e] = FreeSlot]
      /\ futexv_active' = futexv_active - 1
  BY AtThread DEF Unregister, At, CallOK, SlotPcs, Multi, Return, Goto, Moves
<1>2. FreeSlot \in SlotTypes /\ FreeSlot.thread = NOBODY /\ NOBODY \notin Threads
  BY Kinds DEF FreeSlot, SlotTypes
<1>3. /\ futexv_table' \in [Slots -> SlotTypes] /\ futexv_table'[e] = FreeSlot
      /\ \A s \in Slots \ {e} : futexv_table'[s] = futexv_table[s]
  BY <1>1, <1>2 DEF Inv, Typed
<1>4. futexv_table[e].thread = t
  BY <1>1 DEF Inv, SlotInv
<1>5. futexv_table[e] # FreeSlot
  BY <1>2, <1>4
<1> DEFINE A == {s \in Slots : futexv_table[s] # FreeSlot}
           B == {s \in Slots : futexv_table'[s] # FreeSlot}
<1>6. B = A \ {e} /\ e \in A /\ A \in SUBSET Slots
  BY <1>1, <1>3, <1>5
<1>7. futexv_active = Cardinality(A)
  BY DEF Inv, SlotInv
<1> HIDE DEF A, B
<1>8. Cardinality(B) = Cardinality(A) - 1 /\ Cardinality(B) \in Nat
  <2>1. Cardinality(A \ {e}) = Cardinality(A) - 1
    BY <1>1, <1>6, CountSlots
  <2>2. B \in SUBSET Slots
    BY <1>6
  <2>3. Cardinality(B) \in Nat
    BY <1>1, <2>2, CountSlots
  <2> QED
    BY <1>6, <2>1, <2>3
<1>9. futexv_active' = Cardinality(B) /\ futexv_active' \in Nat
  BY <1>1, <1>7, <1>8
<1>10. /\ pc'[t] = "user" /\ call'[t] = NoCall
       /\ \A x \in Threads \ {t} : pc'[x] = pc[x] /\ call'[x] = call[x]
  BY <1>1, NoCallTyped, MovesMeans DEF Inv, Pcs
<1>11. "user" \notin SlotPcs
  BY DEF SlotPcs, WaitPcs, SleepPcs, LeavePcs
<1>12. ASSUME NEW s \in Slots, NEW x \in Threads
       PROVE  futexv_table'[s].thread = x <=>
                pc'[x] \in SlotPcs /\ Multi(x)' /\ call'[x].event = s
  <2>1. futexv_table[s].thread = x <=> pc[x] \in SlotPcs /\ Multi(x) /\ call[x].event = s
    BY DEF Inv, SlotInv
  <2>2. CASE s = e
    BY <1>2, <1>3, <1>4, <1>10, <1>11, <2>1, <2>2 DEF Multi
  <2>3. CASE s # e /\ x = t
    BY <1>3, <1>10, <1>11, <2>1, <2>3
  <2>4. CASE s # e /\ x # t
    BY <1>3, <1>10, <2>1, <2>4 DEF Multi
  <2> QED
    BY <2>2, <2>3, <2>4
<1>13. ASSUME NEW s \in Slots PROVE SlotOK(s, futexv_table[s])'
  <2>1. CASE s = e
    BY <1>2, <1>3, <2>1 DEF SlotOK
  <2>2. CASE s # e /\ futexv_table[s].thread = NOBODY
    BY <1>3, <2>2 DEF Inv, SlotInv, SlotOK
  <2>3. CASE s # e /\ futexv_table[s].thread # NOBODY
    <3> PICK x \in Threads : x = futexv_table[s].thread
      BY <2>3 DEF Inv, Typed, SlotTypes
    <3>1. x # t
      BY <1>1, <2>3 DEF Inv, SlotInv
    <3>2. futexv_table[s].keys = Words(x)
      BY <2>3 DEF Inv, SlotInv, SlotOK
    <3>3. futexv_table'[s].keys = DOMAIN call'[x].val
      BY <1>3, <1>10, <2>3, <3>1, <3>2 DEF Words
    <3> QED
      BY <1>3, <2>3, <3>3 DEF SlotOK, Words
  <2> QED
    BY <2>1, <2>2, <2>3
<1> QED
  BY <1>3, <1>9, <1>12, <1>13 DEF SlotInv, B

LEMMA UnregisterKeeps ==
  ASSUME Inv, NEW t \in Threads, Unregister(t) PROVE Inv'
<1>1. /\ pc[t] = "unregister" /\ where[t] = "cpu" /\ wait_event[t] = NO_EVENT
      /\ to_wake[t] = <<>> /\ woken[t] = <<>>
      /\ UNCHANGED <<queue, wait_event, wait_result, th_wait, where, timer, timer_refs, soft,
                     word, to_wake, woken>>
      /\ Moves(t, "user", NoCall)
  BY AtThread DEF Unregister, At, Return, Goto, Moves, HandOK, ThreadOK, SleepPcs, WaitPcs,
         LeavePcs, waitVars, hashVars, threadVars, timerVars
<1>2. /\ pc' \in [Threads -> Pcs] /\ call' \in [Threads -> CallTypes]
      /\ pc'[t] = "user" /\ call'[t] = NoCall
      /\ \A x \in Threads \ {t} : pc'[x] = pc[x] /\ call'[x] = call[x]
  BY <1>1, NoCallTyped, MovesMeans DEF Inv, Pcs
<1>3. Typed'
  BY <1>1, <1>2, UnregisterSlots DEF Inv, Typed
<1>4. \A x \in Threads \ {t} : Same(x)
  BY <1>1, <1>2 DEF Same
<1>5. ThreadOK(wait_event[t], th_wait[t], timer[t], where[t], "user", NoCall)
  BY <1>1, AtThread, Kinds DEF ThreadOK
<1>6. CallOK(t, "user", NoCall)
  BY NoCallTyped, Kinds DEF CallOK, WakeCalls, WakeWaits, WakePcs, SlotPcs, WaitPcs, SleepPcs,
         LeavePcs
<1>7. HandOK("user", to_wake[t], woken[t])
  BY <1>1 DEF HandOK
<1>8. RefOK(t, timer[t], timer_refs[t], soft)
  BY DEF Inv, RefInv
<1>9. Fits(t)
  BY <1>1, <1>2, <1>5, <1>6, <1>7, <1>8 DEF Fits
<1>10. SlotInv'
  BY UnregisterSlots
<1> QED
  BY <1>1, <1>3, <1>4, <1>9, <1>10, LocalKeeps

-----------------------------------------------------------------------------
(* Going to sleep. *)

\* assert_wait queues a thread that waits for nothing.
LEMMA AssertHash ==
  ASSUME Inv, NEW t \in Threads, NEW e \in Events, wait_event[t] = NO_EVENT,
         assert_wait(t, e), woken' = woken
  PROVE  /\ queue' \in [Events -> Seq(Threads)]
         /\ wait_event' \in [Threads -> Events \cup {NO_EVENT, WAKING_EVENT}]
         /\ wait_event'[t] = e
         /\ \A x \in Threads \ {t} : wait_event'[x] = wait_event[x]
         /\ HashInv' /\ WokenInv'
<1> PICK q, r : q = queue[e] /\ r = Append(q, t)
  OBVIOUS
<1>1. /\ queue' = [queue EXCEPT ![e] = r]
      /\ wait_event' = [wait_event EXCEPT ![t] = e]
  BY DEF assert_wait
<1>2. q \in Seq(Threads) /\ Once(q) /\ ~Contains(q, t)
  BY Kinds DEF Inv, Typed, HashInv
<1>3. r \in Seq(Threads) /\ Once(r) /\ \A y : Contains(r, y) <=> Contains(q, y) \/ y = t
  <2>1. r = Append(q, t)
    OBVIOUS
  <2> QED
    BY <1>2, <2>1, AppendOnce
<1>4. /\ queue' \in [Events -> Seq(Threads)] /\ queue'[e] = r
      /\ \A x \in Events \ {e} : queue'[x] = queue[x]
  BY <1>1, <1>3 DEF Inv, Typed
<1>5. /\ wait_event' \in [Threads -> Events \cup {NO_EVENT, WAKING_EVENT}]
      /\ wait_event'[t] = e
      /\ \A x \in Threads \ {t} : wait_event'[x] = wait_event[x]
  BY <1>1 DEF Inv, Typed
<1>6. HashInv'
  <2>1. \A x \in Events : Once(queue'[x])
    BY <1>3, <1>4 DEF Inv, HashInv
  <2>2. ASSUME NEW x \in Events, NEW y \in Threads
        PROVE  Contains(queue'[x], y) <=> wait_event'[y] = x
    <3>1. Contains(queue[x], y) <=> wait_event[y] = x
      BY DEF Inv, HashInv
    <3> QED
      BY <1>3, <1>4, <1>5, <3>1, Kinds
  <2> QED
    BY <2>1, <2>2 DEF HashInv
<1>7. WokenInv'
  <2>1. \A x \in Threads : wait_event'[x] = WAKING_EVENT <=> wait_event[x] = WAKING_EVENT
    BY <1>5, Kinds
  <2> QED
    BY <2>1 DEF Inv, WokenInv
<1> QED
  BY <1>4, <1>5, <1>6, <1>7

\* The call of a thread that is now queued on event e.
LEMMA QueuedKeeps ==
  ASSUME Inv, NEW t \in Threads, NEW e \in Events, Queued(t, e), where[t] = "cpu",
         pc[t] \in {"assert", "register"},
         IF Multi(t) THEN e \in Slots ELSE e \in Keys /\ Words(t) = {e},
         UNCHANGED <<word, to_wake, woken>>,
         futexv_table' \in [Slots -> SlotTypes], futexv_active' \in Nat, SlotInv'
  PROVE  Inv'
<1>1. /\ wait_event[t] = NO_EVENT /\ timer[t] = "unset" /\ to_wake[t] = <<>>
      /\ woken[t] = <<>>
  BY AtThread, Kinds DEF ThreadOK, HandOK, SleepPcs, WaitPcs, LeavePcs
<1>2. /\ assert_wait(t, e)
      /\ th_wait' = [th_wait EXCEPT ![t] = TRUE]
      /\ UNCHANGED <<wait_result, where, timer, timer_refs, soft>>
      /\ pc' = [pc EXCEPT ![t] = "recheck"]
  BY DEF Queued, Goto, assert_wait, timerVars
<1> PICK c : c = [call[t] EXCEPT !.event = e, !.todo = DOMAIN call[t].val]
  OBVIOUS
<1>3. /\ c \in CallTypes /\ c.name = call[t].name /\ c.val = call[t].val
      /\ c.wake_key = call[t].wake_key /\ c.event = e
  <2>1. call[t] \in CallTypes /\ DOMAIN call[t].val \in SUBSET Keys
    BY AtThread
  <2>2. c \in CallTypes
    BY <2>1, CallSet
  <2> QED
    BY <2>1, <2>2 DEF CallTypes
<1>4. Moves(t, "recheck", c)
  <2>1. call' = [call EXCEPT ![t] = c]
    BY DEF Queued, Words
  <2> QED
    BY <1>2, <2>1 DEF Moves
<1>5. /\ pc' \in [Threads -> Pcs] /\ call' \in [Threads -> CallTypes]
      /\ pc'[t] = "recheck" /\ call'[t] = c
      /\ \A x \in Threads \ {t} : pc'[x] = pc[x] /\ call'[x] = call[x]
  BY <1>3, <1>4, MovesMeans DEF Inv, Pcs, SlotPcs, WaitPcs
<1>6. /\ th_wait' \in [Threads -> BOOLEAN] /\ th_wait'[t] = TRUE
      /\ \A x \in Threads \ {t} : th_wait'[x] = th_wait[x]
  BY <1>2 DEF Inv, Typed
<1>7. /\ queue' \in [Events -> Seq(Threads)]
      /\ wait_event' \in [Threads -> Events \cup {NO_EVENT, WAKING_EVENT}]
      /\ wait_event'[t] = e
      /\ \A x \in Threads \ {t} : wait_event'[x] = wait_event[x]
      /\ HashInv' /\ WokenInv'
  BY <1>1, <1>2, AssertHash
<1>8. Typed'
  BY <1>2, <1>5, <1>6, <1>7 DEF Inv, Typed
<1>9. \A x \in Threads \ {t} : Same(x)
  BY <1>2, <1>5, <1>6, <1>7 DEF Same
<1>10. ThreadOK(e, TRUE, timer[t], where[t], "recheck", c)
  BY <1>1, <1>3, AtThread, Kinds DEF ThreadOK, WaitPcs
<1>11. CallOK(t, "recheck", c)
  BY <1>3, AtThread DEF CallOK, Multi, Words, WakeCalls, WakeWaits, MultiCalls, WakePcs,
         SlotPcs, WaitPcs, SleepPcs, LeavePcs
<1>12. HandOK("recheck", to_wake[t], woken[t])
  BY <1>1 DEF HandOK
<1>13. /\ RefOK(t, timer[t], timer_refs[t], soft)
       /\ c.name \in TimedCalls => timer_refs[t] < REF_BOUND
  BY <1>3 DEF Inv, RefInv
<1>14. Fits(t)
  BY <1>2, <1>5, <1>6, <1>7, <1>10, <1>11, <1>12, <1>13 DEF Fits
<1>15. \A x \in Threads : Fits(x)
  BY <1>2, <1>9, <1>14, SameFits
<1>16. SoftInv'
  BY <1>2 DEF Inv, SoftInv
<1> QED
  BY <1>7, <1>8, <1>15, <1>16, FitsAll DEF Inv

LEMMA AssertWaitKeeps ==
  ASSUME Inv, NEW t \in Threads, AssertWait(t) PROVE Inv'
<1>1. /\ pc[t] = "assert" /\ where[t] = "cpu"
      /\ UNCHANGED <<word, to_wake, woken, futexv_table, futexv_active>>
  BY DEF AssertWait, At
<1> PICK k \in Keys : DOMAIN call[t].val = {k}
  BY <1>1, AtThread DEF CallOK
<1>2. WaitKey(t) = k /\ k \in Events
  BY Kinds DEF WaitKey, Words
<1>3. ~Multi(t)
  BY <1>1, AtThread DEF CallOK, Multi
<1>4. Queued(t, k)
  BY <1>2 DEF AssertWait
<1>5. futexv_table' \in [Slots -> SlotTypes] /\ futexv_active' \in Nat
  BY <1>1 DEF Inv, Typed
<1>6. SlotInv'
  <2> PICK c : c = [call[t] EXCEPT !.event = k, !.todo = DOMAIN call[t].val]
    OBVIOUS
  <2>1. c \in CallTypes /\ c.name = call[t].name
    <3>1. call[t] \in CallTypes /\ DOMAIN call[t].val \in SUBSET Keys
      BY AtThread
    <3>2. c \in CallTypes
      BY <1>2, <3>1, CallSet
    <3> QED
      BY <3>1, <3>2 DEF CallTypes
  <2>2. Moves(t, "recheck", c)
    BY <1>4 DEF Queued, Words, Moves, Goto
  <2> QED
    BY <1>1, <1>3, <2>1, <2>2, SlotKeeps DEF Multi, Pcs, SlotPcs, WaitPcs
<1> QED
  BY <1>1, <1>2, <1>3, <1>4, <1>5, <1>6, QueuedKeeps DEF Words

\* A multi-waiter takes a free slot.
LEMMA RegisterSlots ==
  ASSUME Inv, NEW t \in Threads, pc[t] = "register", NEW e \in Slots,
         futexv_table[e].thread = NOBODY,
         futexv_table' = [futexv_table EXCEPT ![e] =
           [thread |-> t, keys |-> Words(t), woken_index |-> NOBODY]],
         futexv_active' = futexv_active + 1, Queued(t, e)
  PROVE  futexv_table' \in [Slots -> SlotTypes] /\ futexv_active' \in Nat /\ SlotInv'
<1>1. Multi(t) /\ pc[t] \notin SlotPcs
  BY AtThread DEF CallOK, Multi, SlotPcs, WaitPcs, SleepPcs, LeavePcs
<1> PICK c, sl : /\ c = [call[t] EXCEPT !.event = e, !.todo = DOMAIN call[t].val]
                 /\ sl = [thread |-> t, keys |-> DOMAIN call[t].val, woken_index |-> NOBODY]
  OBVIOUS
<1>2. /\ c \in CallTypes /\ c.name = call[t].name /\ c.event = e
      /\ DOMAIN c.val = DOMAIN call[t].val
  <2>1. call[t] \in CallTypes /\ DOMAIN call[t].val \in SUBSET Keys /\ e \in Events
    BY AtThread, Kinds
  <2>2. c \in CallTypes
    BY <2>1, CallSet
  <2> QED
    BY <2>1, <2>2 DEF CallTypes
<1>3. sl \in SlotTypes /\ sl.thread = t /\ sl.keys = DOMAIN call[t].val
  BY AtThread DEF SlotTypes
<1>4. Moves(t, "recheck", c)
  BY DEF Queued, Words, Moves, Goto
<1>5. /\ pc'[t] = "recheck" /\ call'[t] = c
      /\ \A x \in Threads \ {t} : pc'[x] = pc[x] /\ call'[x] = call[x]
  BY <1>2, <1>4, MovesMeans DEF Inv, Pcs, SlotPcs, WaitPcs
<1>6. /\ futexv_table' \in [Slots -> SlotTypes] /\ futexv_table'[e] = sl
      /\ \A s \in Slots \ {e} : futexv_table'[s] = futexv_table[s]
  BY <1>3 DEF Inv, Typed, Words
<1>7. FreeSlot.thread = NOBODY /\ NOBODY \notin Threads
  BY Kinds DEF FreeSlot
<1>8. futexv_table[e] = FreeSlot /\ sl # FreeSlot
  BY <1>3, <1>7 DEF Inv, SlotInv, SlotOK
<1> DEFINE A == {s \in Slots : futexv_table[s] # FreeSlot}
           B == {s \in Slots : futexv_table'[s] # FreeSlot}
<1>9. B = A \cup {e} /\ e \notin A /\ A \in SUBSET Slots
  BY <1>6, <1>8
<1>10. futexv_active = Cardinality(A)
  BY DEF Inv, SlotInv
<1> HIDE DEF A, B
<1>11. Cardinality(B) = Cardinality(A) + 1 /\ Cardinality(A) \in Nat
  BY <1>9, CountSlots
<1>12. futexv_active' = Cardinality(B) /\ futexv_active' \in Nat
  BY <1>10, <1>11
<1>13. "recheck" \in SlotPcs
  BY DEF SlotPcs, WaitPcs
<1>14. ASSUME NEW s \in Slots, NEW x \in Threads
       PROVE  futexv_table'[s].thread = x <=>
                pc'[x] \in SlotPcs /\ Multi(x)' /\ call'[x].event = s
  <2>1. futexv_table[s].thread = x <=> pc[x] \in SlotPcs /\ Multi(x) /\ call[x].event = s
    BY DEF Inv, SlotInv
  <2>2. CASE x = t
    BY <1>1, <1>2, <1>3, <1>5, <1>6, <1>13, <2>1, <2>2 DEF Multi
  <2>3. CASE x # t /\ s = e
    BY <1>3, <1>5, <1>6, <1>7, <2>1, <2>3 DEF Multi
  <2>4. CASE x # t /\ s # e
    BY <1>5, <1>6, <2>1, <2>4 DEF Multi
  <2> QED
    BY <2>2, <2>3, <2>4
<1>15. ASSUME NEW s \in Slots PROVE SlotOK(s, futexv_table[s])'
  <2>1. CASE s = e
    BY <1>2, <1>3, <1>5, <1>6, <1>7, <2>1 DEF SlotOK, Words
  <2>2. CASE s # e /\ futexv_table[s].thread = NOBODY
    BY <1>6, <2>2 DEF Inv, SlotInv, SlotOK
  <2>3. CASE s # e /\ futexv_table[s].thread # NOBODY
    <3> PICK x \in Threads : x = futexv_table[s].thread
      BY <2>3 DEF Inv, Typed, SlotTypes
    <3>1. x # t
      BY <1>1, <2>3 DEF Inv, SlotInv
    <3>2. futexv_table[s].keys = Words(x)
      BY <2>3 DEF Inv, SlotInv, SlotOK
    <3>3. futexv_table'[s].keys = DOMAIN call'[x].val
      BY <1>5, <1>6, <2>3, <3>1, <3>2 DEF Words
    <3> QED
      BY <1>6, <2>3, <3>3 DEF SlotOK, Words
  <2> QED
    BY <2>1, <2>2, <2>3
<1> QED
  BY <1>6, <1>12, <1>14, <1>15 DEF SlotInv, B

LEMMA RegisterKeeps ==
  ASSUME Inv, NEW t \in Threads, Register(t) PROVE Inv'
<1>1. /\ pc[t] = "register" /\ where[t] = "cpu" /\ wait_event[t] = NO_EVENT
      /\ to_wake[t] = <<>> /\ woken[t] = <<>> /\ UNCHANGED <<word, to_wake, woken>>
  BY AtThread DEF Register, At, HandOK, ThreadOK, SleepPcs, WaitPcs, LeavePcs
<1>2. Multi(t) /\ pc[t] \notin SlotPcs
  BY <1>1, AtThread DEF CallOK, Multi, SlotPcs, WaitPcs, SleepPcs, LeavePcs
<1>3. CASE \A s \in Slots : futexv_table[s].thread # NOBODY
  BY <1>1, <1>2, <1>3, ReturnKeeps DEF Register
<1>4. CASE ~\A s \in Slots : futexv_table[s].thread # NOBODY
  <2> PICK e \in Slots :
        /\ futexv_table[e].thread = NOBODY
        /\ futexv_table' = [futexv_table EXCEPT ![e] =
             [thread |-> t, keys |-> Words(t), woken_index |-> NOBODY]]
        /\ futexv_active' = futexv_active + 1
        /\ Queued(t, e)
    BY <1>4 DEF Register
  <2>1. futexv_table' \in [Slots -> SlotTypes] /\ futexv_active' \in Nat /\ SlotInv'
    BY <1>1, RegisterSlots
  <2>2. e \in Events
    BY Kinds
  <2> QED
    BY <1>1, <1>2, <2>1, <2>2, QueuedKeeps
<1> QED
  BY <1>3, <1>4

-----------------------------------------------------------------------------
(* Taking threads out of the wait hash. *)

\* The hash and the hands of the wakers after thread_wakeup_prim has taken ws.
LEMMA DequeueHash ==
  ASSUME Inv, NEW t \in Threads, NEW e \in Events, NEW ws \in Seq(Threads),
         NEW rest \in Seq(Threads), Once(ws), Once(rest), woken[t] = <<>>,
         \A x : Contains(queue[e], x) <=> Contains(ws, x) \/ Contains(rest, x),
         \A x : ~(Contains(ws, x) /\ Contains(rest, x)),
         dequeue_for_wakeup(e, ws, rest), woken' = [woken EXCEPT ![t] = ws]
  PROVE  /\ queue' \in [Events -> Seq(Threads)] /\ woken' \in [Threads -> Seq(Threads)]
         /\ wait_event' \in [Threads -> Events \cup {NO_EVENT, WAKING_EVENT}]
         /\ woken'[t] = ws /\ \A x \in Threads \ {t} : woken'[x] = woken[x]
         /\ \A x \in Threads : \/ ~Contains(ws, x) /\ wait_event'[x] = wait_event[x]
                               \/ /\ Contains(ws, x) /\ wait_event[x] = e
                                  /\ wait_event'[x] = WAKING_EVENT
         /\ HashInv' /\ WokenInv'
<1>1. /\ queue' = [queue EXCEPT ![e] = rest]
      /\ wait_event' = [x \in Threads |-> IF Contains(ws, x) THEN WAKING_EVENT
                                                             ELSE wait_event[x]]
  BY DEF dequeue_for_wakeup
<1>2. /\ queue' \in [Events -> Seq(Threads)] /\ queue'[e] = rest
      /\ \A f \in Events \ {e} : queue'[f] = queue[f]
  BY <1>1 DEF Inv, Typed
<1>3. /\ woken' \in [Threads -> Seq(Threads)] /\ woken'[t] = ws
      /\ \A x \in Threads \ {t} : woken'[x] = woken[x]
  BY DEF Inv, Typed
<1>4. /\ wait_event' \in [Threads -> Events \cup {NO_EVENT, WAKING_EVENT}]
      /\ \A x \in Threads : ~Contains(ws, x) => wait_event'[x] = wait_event[x]
      /\ \A x \in Threads : Contains(ws, x) => wait_event'[x] = WAKING_EVENT
  BY <1>1 DEF Inv, Typed
<1>5. \A x \in Threads : Contains(ws, x) => wait_event[x] = e
  BY DEF Inv, HashInv
<1>6. \A x \in Threads : Contains(rest, x) => wait_event[x] = e
  BY DEF Inv, HashInv
<1>7. \A f \in Events, x \in Threads : Contains(queue[f], x) <=> wait_event[x] = f
  BY DEF Inv, HashInv
<1>8. HashInv'
  <2>1. \A f \in Events : Once(queue'[f])
    BY <1>2 DEF Inv, HashInv
  <2>2. ASSUME NEW f \in Events, NEW x \in Threads
        PROVE  Contains(queue'[f], x) <=> wait_event'[x] = f
    BY <1>2, <1>4, <1>5, <1>7, Kinds
  <2> QED
    BY <2>1, <2>2 DEF HashInv
<1>9. /\ \A u \in Threads : Once(woken[u])
      /\ \A u, v, x \in Threads : Contains(woken[u], x) /\ Contains(woken[v], x) => u = v
      /\ \A x \in Threads :
           (\E u \in Threads : Contains(woken[u], x)) <=> wait_event[x] = WAKING_EVENT
  BY DEF Inv, WokenInv
<1>10. \A x : ~Contains(woken[t], x)
  BY DEF Contains
<1>11. \A x, u \in Threads : Contains(ws, x) => ~Contains(woken[u], x)
  BY <1>5, <1>9, Kinds
<1>12. WokenInv'
  <2>1. \A u \in Threads : Once(woken'[u])
    BY <1>3, <1>9
  <2>2. ASSUME NEW u \in Threads, NEW v \in Threads, NEW x \in Threads,
               Contains(woken'[u], x), Contains(woken'[v], x)
        PROVE  u = v
    BY <1>3, <1>9, <1>11, <2>2
  <2>3. ASSUME NEW x \in Threads
        PROVE  (\E u \in Threads : Contains(woken'[u], x)) <=> wait_event'[x] = WAKING_EVENT
    <3>1. CASE Contains(ws, x)
      BY <1>3, <1>4, <3>1
    <3>2. CASE ~Contains(ws, x)
      BY <1>3, <1>4, <1>9, <1>10, <3>2
    <3> QED
      BY <3>1, <3>2
  <2> QED
    BY <2>1, <2>2, <2>3 DEF WokenInv
<1> QED
  BY <1>2, <1>3, <1>4, <1>5, <1>8, <1>12

LEMMA TakenFits ==
  ASSUME NEW we \in Events, NEW tw \in BOOLEAN, NEW tm, NEW wh, NEW p, NEW c,
         ThreadOK(we, tw, tm, wh, p, c)
  PROVE  ThreadOK(WAKING_EVENT, tw, tm, wh, p, c)
  BY Kinds DEF ThreadOK

LEMMA DequeueKeeps ==
  ASSUME Inv, NEW t \in Threads, NEW e \in Events, NEW ws \in Seq(Threads),
         NEW rest \in Seq(Threads), Once(ws), Once(rest), woken[t] = <<>>,
         \A x : Contains(queue[e], x) <=> Contains(ws, x) \/ Contains(rest, x),
         \A x : ~(Contains(ws, x) /\ Contains(rest, x)), ~Contains(ws, t),
         dequeue_for_wakeup(e, ws, rest), woken' = [woken EXCEPT ![t] = ws],
         to_wake' \in [Threads -> Seq(Events)],
         \A x \in Threads \ {t} : to_wake'[x] = to_wake[x],
         NEW p, pc' = [pc EXCEPT ![t] = p], HandOK(p, to_wake'[t], ws),
         \/ pc[t] = "wake" /\ p = "wake"
         \/ pc[t] = "handoff" /\ p = "switch",
         UNCHANGED <<word, futexv_table, futexv_active, call>>
  PROVE  Inv'
<1>1. UNCHANGED <<wait_result, th_wait, where, timer, timer_refs, soft>>
  BY DEF dequeue_for_wakeup, threadVars, timerVars
<1>2. /\ queue' \in [Events -> Seq(Threads)] /\ woken' \in [Threads -> Seq(Threads)]
      /\ wait_event' \in [Threads -> Events \cup {NO_EVENT, WAKING_EVENT}]
      /\ woken'[t] = ws /\ \A x \in Threads \ {t} : woken'[x] = woken[x]
      /\ \A x \in Threads : \/ ~Contains(ws, x) /\ wait_event'[x] = wait_event[x]
                            \/ /\ Contains(ws, x) /\ wait_event[x] = e
                               /\ wait_event'[x] = WAKING_EVENT
      /\ HashInv' /\ WokenInv'
  BY DequeueHash
<1>3. p \in Pcs /\ (p \in SlotPcs <=> pc[t] \in SlotPcs)
  BY DEF Pcs, WakePcs, SlotPcs, WaitPcs, SleepPcs, LeavePcs
<1>4. /\ pc' \in [Threads -> Pcs] /\ pc'[t] = p
      /\ \A x \in Threads \ {t} : pc'[x] = pc[x]
  BY <1>3 DEF Inv, Typed
<1>5. Typed'
  BY <1>1, <1>2, <1>4 DEF Inv, Typed
<1>6. ASSUME NEW x \in Threads \ {t} PROVE Fits(x)
  <2>1. /\ ThreadOK(wait_event[x], th_wait[x], timer[x], where[x], pc[x], call[x])
        /\ CallOK(x, pc[x], call[x]) /\ HandOK(pc[x], to_wake[x], woken[x])
        /\ th_wait[x] \in BOOLEAN
    BY AtThread
  <2>2. ThreadOK(wait_event'[x], th_wait[x], timer[x], where[x], pc[x], call[x])
    <3>1. CASE wait_event'[x] = wait_event[x]
      BY <2>1, <3>1
    <3>2. CASE wait_event[x] = e /\ wait_event'[x] = WAKING_EVENT
      BY <2>1, <3>2, TakenFits
    <3> QED
      BY <1>2, <3>1, <3>2
  <2>3. /\ RefOK(x, timer[x], timer_refs[x], soft)
        /\ call[x].name \in TimedCalls /\ pc[x] \in {"assert", "register", "recheck", "timer"}
             => timer_refs[x] < REF_BOUND
    BY DEF Inv, RefInv
  <2> QED
    BY <1>1, <1>2, <1>4, <2>1, <2>2, <2>3 DEF Fits
<1>7. Fits(t)
  <2>1. ThreadOK(wait_event[t], th_wait[t], timer[t], where[t], p, call[t])
    BY AtThread DEF ThreadOK, WaitPcs, SleepPcs
  <2>2. CallOK(t, p, call[t])
    BY AtThread DEF CallOK, WakeCalls, WakeWaits, MultiCalls, WakePcs, SlotPcs, WaitPcs,
           SleepPcs, LeavePcs
  <2>3. RefOK(t, timer[t], timer_refs[t], soft)
    BY DEF Inv, RefInv
  <2>4. wait_event'[t] = wait_event[t]
    BY <1>2
  <2> QED
    BY <1>1, <1>2, <1>4, <2>1, <2>2, <2>3, <2>4 DEF Fits
<1>8. \A x \in Threads : Fits(x)
  BY <1>6, <1>7
<1>9. SoftInv'
  BY <1>1 DEF Inv, SoftInv
<1>10. SlotInv'
  <2>1. Moves(t, p, call[t]) /\ call[t] \in CallTypes
    BY StayFacts, AtThread DEF Moves
  <2> QED
    BY <1>3, <2>1, SlotKeeps DEF Multi
<1> QED
  BY <1>2, <1>5, <1>8, <1>9, <1>10, FitsAll DEF Inv

\* A prefix of the queue is taken: all of it, one thread or none.
LEMMA WokenPrefix ==
  ASSUME Inv, NEW t \in Threads, NEW e \in Events
  PROVE  \E n \in 0 .. Len(queue[e]) :
           /\ Woken(t, e) = SubSeq(queue[e], 1, n) /\ Len(Woken(t, e)) = n
           /\ n = 0 => queue[e] = <<>>
           /\ e \in Keys /\ call[t].name = "wake_all" => n = Len(queue[e])
<1> PICK q \in Seq(Threads) : q = queue[e]
  BY DEF Inv, Typed
<1>1. Len(q) \in Nat /\ (q = <<>> <=> Len(q) = 0) /\ q = SubSeq(q, 1, Len(q))
  OBVIOUS
<1>2. CASE e \in Slots \/ call[t].name # "wake_all"
  <2> PICK n \in 0 .. Len(q) : n = IF q = <<>> THEN 0 ELSE 1
    BY <1>1
  <2>1. Woken(t, e) = SubSeq(q, 1, n)
    BY <1>2 DEF Woken
  <2>2. Len(SubSeq(q, 1, n)) = n
    BY <1>1
  <2> QED
    BY <1>2, <2>1, <2>2, Kinds
<1>3. CASE ~(e \in Slots \/ call[t].name # "wake_all")
  BY <1>1, <1>3 DEF Woken
<1> QED
  BY <1>2, <1>3

LEMMA WakeEventKeeps ==
  ASSUME Inv, NEW t \in Threads, WakeEvent(t) PROVE Inv'
<1>1. /\ pc[t] = "wake" /\ woken[t] = <<>> /\ to_wake[t] # <<>>
      /\ to_wake[t] \in Seq(Events) /\ wait_event[t] = NO_EVENT
      /\ UNCHANGED <<word, futexv_table, futexv_active, pc, call>>
  BY AtThread DEF WakeEvent, At, ThreadOK, WaitPcs, SleepPcs, LeavePcs
<1> PICK e \in Events : e = Head(to_wake[t])
  BY <1>1
<1> PICK q \in Seq(Threads) : q = queue[e] /\ Once(q)
  BY DEF Inv, Typed, HashInv
<1> PICK n \in 0 .. Len(q) : Woken(t, e) = SubSeq(q, 1, n) /\ Len(Woken(t, e)) = n
  BY WokenPrefix
<1> PICK ws, rest : ws = SubSeq(q, 1, n) /\ rest = SubSeq(q, n + 1, Len(q))
  OBVIOUS
<1>2. /\ dequeue_for_wakeup(e, ws, rest) /\ woken' = [woken EXCEPT ![t] = ws]
      /\ to_wake' = [to_wake EXCEPT ![t] = Tail(to_wake[t])]
  BY DEF WakeEvent
<1>3. /\ ws \in Seq(Threads) /\ Once(ws) /\ rest \in Seq(Threads) /\ Once(rest)
      /\ \A x : Contains(q, x) <=> Contains(ws, x) \/ Contains(rest, x)
      /\ \A x : ~(Contains(ws, x) /\ Contains(rest, x))
  BY SplitOnce
<1>4. /\ to_wake' \in [Threads -> Seq(Events)]
      /\ \A x \in Threads \ {t} : to_wake'[x] = to_wake[x]
  <2>1. Tail(to_wake[t]) \in Seq(Events)
    BY <1>1
  <2> QED
    BY <1>2, <2>1 DEF Inv, Typed
<1>5. ~Contains(ws, t)
  BY <1>1, <1>3, Kinds DEF Inv, HashInv
<1>6. HandOK("wake", to_wake'[t], ws)
  BY DEF HandOK
<1>7. pc' = [pc EXCEPT ![t] = "wake"]
  BY <1>1 DEF Inv, Typed
<1> QED
  BY <1>1, <1>2, <1>3, <1>4, <1>5, <1>6, <1>7, DequeueKeeps

\* WAKE_WAIT takes a waiter other than the caller, if the word has one.
LEMMA HandoffTakes ==
  ASSUME Inv, NEW t \in Threads, Handoff(t), NEW k \in Keys, k = call[t].wake_key
  PROVE  \/ /\ \A x \in Threads : wait_event[x] = k => x = t
            /\ Goto(t, "block") /\ UNCHANGED <<waitVars, woken>>
         \/ \E u \in Threads, rest \in Seq(Threads) :
              /\ u # t /\ wait_event[u] = k /\ Once(rest)
              /\ \A x : Contains(rest, x) <=> Contains(queue[k], x) /\ x # u
              /\ dequeue_for_wakeup(k, <<u>>, rest) /\ woken' = [woken EXCEPT ![t] = <<u>>]
              /\ Goto(t, "switch")
<1> PICK q \in Seq(Threads) : q = queue[k] /\ Once(q)
  BY Kinds DEF Inv, Typed, HashInv
<1>1. \A x \in Threads : Contains(q, x) <=> wait_event[x] = k
  BY Kinds DEF Inv, HashInv
<1>2. \E i \in 0 .. Len(q) :
        /\ i = SelectInSeq(q, LAMBDA u : u # t)
        /\ i = 0 => \A x : Contains(q, x) => x = t
        /\ i # 0 => q[i] # t
  BY FirstOther
<1>3. \E i \in 0 .. Len(q) :
        /\ i = 0 => \A x : Contains(q, x) => x = t
        /\ i # 0 => q[i] # t
        /\ IF i = 0
           THEN Goto(t, "block") /\ UNCHANGED <<waitVars, woken>>
           ELSE /\ dequeue_for_wakeup(k, <<q[i]>>, RemoveAt(q, i))
                /\ woken' = [woken EXCEPT ![t] = <<q[i]>>]
                /\ Goto(t, "switch")
  BY <1>2 DEF Handoff
<1> PICK i \in 0 .. Len(q) :
      /\ i = 0 => \A x : Contains(q, x) => x = t
      /\ i # 0 => q[i] # t
      /\ IF i = 0
         THEN Goto(t, "block") /\ UNCHANGED <<waitVars, woken>>
         ELSE /\ dequeue_for_wakeup(k, <<q[i]>>, RemoveAt(q, i))
              /\ woken' = [woken EXCEPT ![t] = <<q[i]>>]
              /\ Goto(t, "switch")
  BY <1>3
<1>4. CASE i = 0
  BY <1>1, <1>4
<1>5. CASE i # 0
  <2>1. i \in 1 .. Len(q)
    BY <1>5
  <2> PICK u \in Threads : u = q[i]
    BY <2>1
  <2>2. u # t /\ Contains(q, u) /\ wait_event[u] = k
    BY <1>1, <1>5, <2>1 DEF Contains
  <2>3. /\ RemoveAt(q, i) \in Seq(Threads) /\ Once(RemoveAt(q, i))
        /\ \A x : Contains(RemoveAt(q, i), x) <=> Contains(q, x) /\ x # q[i]
    BY <2>1, RemoveOnce
  <2> PICK rest \in Seq(Threads) :
        /\ rest = RemoveAt(q, i) /\ Once(rest)
        /\ \A x : Contains(rest, x) <=> Contains(q, x) /\ x # u
    BY <2>3
  <2>4. /\ dequeue_for_wakeup(k, <<u>>, rest) /\ woken' = [woken EXCEPT ![t] = <<u>>]
        /\ Goto(t, "switch")
    BY <1>5
  <2> QED
    BY <2>2, <2>4
<1> QED
  BY <1>4, <1>5

LEMMA OneThread ==
  ASSUME NEW u \in Threads
  PROVE  /\ <<u>> \in Seq(Threads) /\ Len(<<u>>) = 1 /\ Once(<<u>>)
         /\ \A x : Contains(<<u>>, x) <=> x = u
<1>1. <<u>> \in Seq(Threads) /\ Len(<<u>>) = 1 /\ <<u>>[1] = u
  OBVIOUS
<1>2. 1 .. 1 = {1}
  OBVIOUS
<1>3. Once(<<u>>)
  BY <1>1, <1>2 DEF Once
<1>4. \A x : Contains(<<u>>, x) <=> x = u
  BY <1>1, <1>2 DEF Contains
<1> QED
  BY <1>1, <1>3, <1>4

LEMMA HandoffKeeps ==
  ASSUME Inv, NEW t \in Threads, Handoff(t) PROVE Inv'
<1>1. /\ pc[t] = "handoff" /\ where[t] = "cpu" /\ woken[t] = <<>> /\ to_wake[t] = <<>>
      /\ UNCHANGED <<word, futexv_table, futexv_active, call, to_wake>>
  BY AtThread DEF Handoff, At, HandOK
<1>2. WakeWait(t) /\ ~Multi(t) /\ call[t].wake_key \in Keys
  BY <1>1, AtThread DEF CallOK, WakeWait, WakeCalls, Multi
<1> PICK k \in Keys : k = call[t].wake_key
  BY <1>2
<1>3. ASSUME Goto(t, "block"), UNCHANGED <<waitVars, woken>> PROVE Inv'
  <2>1. Moves(t, "block", call[t])
    BY <1>1, <1>3, StayFacts DEF Moves, Goto
  <2>2. ThreadOK(wait_event[t], th_wait[t], timer[t], where[t], "block", call[t])
    BY <1>1, AtThread DEF ThreadOK, WaitPcs, SleepPcs
  <2>3. CallOK(t, "block", call[t])
    BY <1>1, AtThread DEF CallOK, WakeCalls, WakeWaits, MultiCalls, WakePcs, SlotPcs, WaitPcs,
           SleepPcs, LeavePcs
  <2> QED
    BY <1>1, <1>2, <1>3, <2>1, <2>2, <2>3, StepKeeps DEF Pcs, SlotPcs, WaitPcs, SleepPcs
<1>4. ASSUME NEW u \in Threads, NEW rest \in Seq(Threads), u # t, wait_event[u] = k,
             Once(rest), \A x : Contains(rest, x) <=> Contains(queue[k], x) /\ x # u,
             dequeue_for_wakeup(k, <<u>>, rest), woken' = [woken EXCEPT ![t] = <<u>>],
             Goto(t, "switch")
      PROVE  Inv'
  <2> PICK ws \in Seq(Threads) :
        ws = <<u>> /\ Len(ws) = 1 /\ Once(ws) /\ \A x : Contains(ws, x) <=> x = u
    BY OneThread
  <2>1. Once(ws) /\ \A x : Contains(ws, x) <=> x = u
    OBVIOUS
  <2>2. Contains(queue[k], u) /\ k \in Events
    BY <1>4, Kinds DEF Inv, HashInv
  <2>3. HandOK("switch", to_wake'[t], ws)
    BY <1>1 DEF HandOK
  <2>4. /\ to_wake' \in [Threads -> Seq(Events)] /\ \A x \in Threads \ {t} : to_wake'[x] = to_wake[x]
        /\ pc' = [pc EXCEPT ![t] = "switch"]
    BY <1>1, <1>4 DEF Inv, Typed, Goto
  <2>5. dequeue_for_wakeup(k, ws, rest) /\ woken' = [woken EXCEPT ![t] = ws]
    BY <1>4
  <2>6. /\ \A x : Contains(queue[k], x) <=> Contains(ws, x) \/ Contains(rest, x)
        /\ \A x : ~(Contains(ws, x) /\ Contains(rest, x)) /\ ~Contains(ws, t)
    BY <1>4, <2>1, <2>2
  <2> QED
    BY <1>1, <1>4, <2>1, <2>2, <2>3, <2>4, <2>5, <2>6, DequeueKeeps
<1> QED
  BY <1>3, <1>4, HandoffTakes

-----------------------------------------------------------------------------
(* Waking a thread up. *)

LEMMA SlotStays ==
  ASSUME Inv, UNCHANGED <<futexv_table, futexv_active, call>>,
         \A x \in Threads : pc'[x] \in SlotPcs <=> pc[x] \in SlotPcs
  PROVE  SlotInv'
<1>1. \A s \in Slots : SlotOK(s, futexv_table[s])'
  BY DEF Inv, SlotInv, SlotOK, Words
<1>2. \A s \in Slots, x \in Threads :
        futexv_table[s].thread = x <=> pc'[x] \in SlotPcs /\ Multi(x)' /\ call'[x].event = s
  BY DEF Inv, SlotInv, Multi
<1> QED
  BY <1>1, <1>2 DEF Inv, SlotInv

\* The fields of thread u once it waits no more.
Awake(u) ==
  /\ th_wait' = [th_wait EXCEPT ![u] = FALSE]
  /\ wait_event' = [wait_event EXCEPT ![u] = NO_EVENT]
  /\ timer' = [timer EXCEPT ![u] = "unset"]
  /\ timer_refs' = [timer_refs EXCEPT ![u] = IF timer[u] = "set" THEN timer_refs[u] - 1
                                                                 ELSE timer_refs[u]]

\* The softclock thread stays, or has ended the wait.
SoftStays ==
  \/ soft' = soft
  \/ soft.step = "clear" /\ soft' = [soft EXCEPT !.step = "drop", !.event = NO_EVENT]

LEMMA SoftStaysMeans ==
  ASSUME Inv, SoftStays
  PROVE  /\ soft' \in SoftTypes /\ soft'.thread = soft.thread
         /\ soft'.step \in {"clear", "drop"} <=> soft.step \in {"clear", "drop"}
         /\ soft'.step = "fired" <=> soft.step = "fired"
         /\ SoftIdle.step = "idle"
         /\ soft'.step = "idle" <=> soft' = SoftIdle
         /\ soft'.step # "idle" => soft'.thread \in Threads
         /\ soft'.step = "clear" => soft'.event \in Events
<1> SoftIdle.step = "idle"
  BY DEF SoftIdle
<1>1. CASE soft' = soft
  BY <1>1 DEF Inv, Typed, SoftInv
<1>2. CASE soft.step = "clear" /\ soft' = [soft EXCEPT !.step = "drop", !.event = NO_EVENT]
  <2>1. soft \in SoftTypes /\ soft.thread \in Threads
    BY <1>2 DEF Inv, Typed, SoftInv
  <2>2. soft' \in SoftTypes /\ soft'.step = "drop" /\ soft'.thread = soft.thread
    BY <1>2, <2>1 DEF SoftTypes
  <2> QED
    BY <1>2, <2>1, <2>2
<1> QED
  BY <1>1, <1>2 DEF SoftStays

LEMMA AwakeMeans ==
  ASSUME Inv, NEW u \in Threads, Awake(u), SoftStays
  PROVE  /\ th_wait' \in [Threads -> BOOLEAN] /\ th_wait'[u] = FALSE
         /\ wait_event' \in [Threads -> Events \cup {NO_EVENT, WAKING_EVENT}]
         /\ wait_event'[u] = NO_EVENT
         /\ timer' \in [Threads -> {"unset", "set", "pending"}] /\ timer'[u] = "unset"
         /\ timer_refs' \in [Threads -> 0 .. REF_BOUND]
         /\ \A x \in Threads \ {u} :
              /\ th_wait'[x] = th_wait[x] /\ wait_event'[x] = wait_event[x]
              /\ timer'[x] = timer[x] /\ timer_refs'[x] = timer_refs[x]
         /\ RefInv' <=> \A x \in Threads :
              call'[x].name \in TimedCalls /\ pc'[x] \in {"assert", "register", "recheck", "timer"}
                => timer_refs'[x] < REF_BOUND
         /\ \A x \in Threads : timer_refs[x] < REF_BOUND => timer_refs'[x] < REF_BOUND
         /\ SoftInv'
<1> PICK m \in Nat : m = timer_refs[u]
  BY StayFacts
<1> PICK tm \in {"unset", "set", "pending"} : tm = timer[u]
  BY AtThread
<1> PICK n : n = IF tm = "set" THEN m - 1 ELSE m
  OBVIOUS
<1>1. RefOK(u, tm, m, soft) /\ m \in 0 .. REF_BOUND
  BY StayFacts
<1>2. n \in 0 .. REF_BOUND /\ n <= m
  BY <1>1, Kinds DEF RefOK
<1>3. timer_refs' = [timer_refs EXCEPT ![u] = n]
  BY DEF Awake
<1>4. /\ th_wait' \in [Threads -> BOOLEAN] /\ th_wait'[u] = FALSE
      /\ wait_event' \in [Threads -> Events \cup {NO_EVENT, WAKING_EVENT}]
      /\ wait_event'[u] = NO_EVENT
      /\ timer' \in [Threads -> {"unset", "set", "pending"}] /\ timer'[u] = "unset"
      /\ \A x \in Threads \ {u} :
           /\ th_wait'[x] = th_wait[x] /\ wait_event'[x] = wait_event[x]
           /\ timer'[x] = timer[x]
  BY DEF Awake, Inv, Typed
<1>5. /\ timer_refs' \in [Threads -> 0 .. REF_BOUND] /\ timer_refs'[u] = n
      /\ \A x \in Threads \ {u} : timer_refs'[x] = timer_refs[x]
  BY <1>2, <1>3 DEF Inv, Typed
<1>6. \A x \in Threads : timer_refs[x] < REF_BOUND => timer_refs'[x] < REF_BOUND
  BY <1>2, <1>5, Kinds
<1>7. ASSUME NEW x \in Threads PROVE RefOK(x, timer'[x], timer_refs'[x], soft')
  <2>1. CASE x = u
    <3>1. RefOK(u, "unset", n, soft')
      BY <1>1, SoftStaysMeans DEF RefOK
    <3> QED
      BY <1>4, <1>5, <2>1, <3>1
  <2>2. CASE x # u
    <3>1. RefOK(x, timer[x], timer_refs[x], soft)
      BY DEF Inv, RefInv
    <3>2. RefOK(x, timer[x], timer_refs[x], soft')
      BY <3>1, SoftStaysMeans DEF RefOK
    <3> QED
      BY <1>4, <1>5, <2>2, <3>2
  <2> QED
    BY <2>1, <2>2
<1>8. SoftInv'
  <2>1. \A x \in Threads : timer'[x] = "pending" => soft'.step = "fired" /\ soft'.thread = x
    BY <1>4, SoftStaysMeans DEF Inv, SoftInv
  <2> QED
    BY <2>1, SoftStaysMeans DEF SoftInv
<1>9. RefInv' <=> \A x \in Threads :
        call'[x].name \in TimedCalls /\ pc'[x] \in {"assert", "register", "recheck", "timer"}
          => timer_refs'[x] < REF_BOUND
  BY <1>7 DEF RefInv
<1> QED
  BY <1>4, <1>5, <1>6, <1>8, <1>9

\* A thread that is woken where it is.
LEMMA AwakeFits ==
  ASSUME NEW we, NEW tw \in BOOLEAN, NEW tm, NEW wh, NEW p, NEW c,
         ThreadOK(we, tw, tm, wh, p, c), NEW w,
         IF wh = "off" THEN w \in {"runq", "cpu"} ELSE w = wh
  PROVE  ThreadOK(NO_EVENT, FALSE, "unset", w, p, c)
  BY Kinds DEF ThreadOK

LEMMA AwakeFitsAt ==
  ASSUME Inv, NEW x \in Threads, NEW w,
         IF where[x] = "off" THEN w \in {"runq", "cpu"} ELSE w = where[x]
  PROVE  ThreadOK(NO_EVENT, FALSE, "unset", w, pc[x], call[x])
<1>1. /\ ThreadOK(wait_event[x], th_wait[x], timer[x], where[x], pc[x], call[x])
      /\ th_wait[x] \in BOOLEAN
  BY AtThread
<1> QED
  BY <1>1, AwakeFits

\* Thread u is woken, by itself or by a thread t that goes on to p.
LEMMA AwakeKeeps ==
  ASSUME Inv, NEW u \in Threads, Awake(u), SoftStays,
         wait_result' \in [Threads -> {"awakened", "timed_out"}],
         where' \in [Threads -> {"cpu", "switch", "off", "runq"}],
         pc' \in [Threads -> Pcs], queue' \in [Events -> Seq(Threads)],
         woken' \in [Threads -> Seq(Threads)], HashInv', WokenInv',
         UNCHANGED <<word, futexv_table, futexv_active, call, to_wake>>,
         \A x \in Threads : pc'[x] \in SlotPcs <=> pc[x] \in SlotPcs,
         \A x \in Threads : pc'[x] # pc[x] => pc'[x] \in {"drain", "block", "asleep"},
         \A x \in Threads :
           /\ ThreadOK(wait_event'[x], th_wait'[x], timer'[x], where'[x], pc'[x], call[x])
           /\ CallOK(x, pc'[x], call[x]) /\ HandOK(pc'[x], to_wake[x], woken'[x])
  PROVE  Inv'
<1>1. Typed'
  BY AwakeMeans, SoftStaysMeans DEF Inv, Typed
<1>2. ThreadInv' /\ CallInv' /\ HandInv'
  BY DEF ThreadInv, CallInv, HandInv
<1>3. RefInv'
  <2>1. \A x \in Threads :
          call[x].name \in TimedCalls /\ pc[x] \in {"assert", "register", "recheck", "timer"}
            => timer_refs[x] < REF_BOUND
    BY DEF Inv, RefInv
  <2>2. \A x \in Threads :
          call'[x].name \in TimedCalls /\ pc'[x] \in {"assert", "register", "recheck", "timer"}
            => timer_refs'[x] < REF_BOUND
    BY <2>1, AwakeMeans
  <2> QED
    BY <2>2, AwakeMeans
<1>4. SoftInv'
  BY AwakeMeans
<1>5. SlotInv'
  BY SlotStays
<1> QED
  BY <1>1, <1>2, <1>3, <1>4, <1>5 DEF Inv

LEMMA TailOnce ==
  ASSUME NEW T, NEW q \in Seq(T), Once(q), q # <<>>
  PROVE  /\ Head(q) \in T /\ Contains(q, Head(q)) /\ Tail(q) \in Seq(T) /\ Once(Tail(q))
         /\ \A x : Contains(Tail(q), x) <=> Contains(q, x) /\ x # Head(q)
         /\ Len(q) = 1 => Tail(q) = <<>>
<1>1. Len(q) \in Nat /\ 1 \in 1 .. Len(q)
  BY EmptySeq
<1>2. RemoveAt(q, 1) = SubSeq(q, 1, 0) \o SubSeq(q, 2, Len(q))
  BY DEF RemoveAt
<1>3. SubSeq(q, 1, 0) = <<>> /\ SubSeq(q, 2, Len(q)) = Tail(q)
  BY TailIsSubSeq, SubSeqEmpty
<1>4. Tail(q) \in Seq(T)
  BY <1>1
<1>5. <<>> \o Tail(q) = Tail(q)
  BY <1>4, ConcatEmptySeq
<1>6. RemoveAt(q, 1) = Tail(q) /\ Head(q) = q[1]
  BY <1>2, <1>3, <1>5
<1>7. /\ RemoveAt(q, 1) \in Seq(T) /\ Once(RemoveAt(q, 1))
      /\ \A x : Contains(RemoveAt(q, 1), x) <=> Contains(q, x) /\ x # q[1]
  BY <1>1, RemoveOnce
<1>8. Head(q) \in T /\ Contains(q, Head(q))
  BY <1>1, <1>6 DEF Contains
<1>9. Len(q) = 1 => Tail(q) = <<>>
  <2>1. Len(q) = 1 => Len(Tail(q)) = 0
    BY HeadTailProperties
  <2> QED
    BY <1>4, <2>1, EmptySeq
<1> QED
  BY <1>6, <1>7, <1>8, <1>9

\* The waker t is done with the first of the threads it took out.
LEMMA FinishHash ==
  ASSUME Inv, NEW t \in Threads, woken[t] # <<>>, NEW u, u = Head(woken[t]),
         woken' = [woken EXCEPT ![t] = Tail(woken[t])],
         wait_event' = [wait_event EXCEPT ![u] = NO_EVENT], queue' = queue
  PROVE  /\ u \in Threads /\ wait_event[u] = WAKING_EVENT
         /\ woken' \in [Threads -> Seq(Threads)]
         /\ woken'[t] = Tail(woken[t])
         /\ \A x \in Threads \ {t} : woken'[x] = woken[x]
         /\ HashInv' /\ WokenInv'
<1> PICK q \in Seq(Threads) : q = woken[t] /\ Once(q) /\ q # <<>>
  BY DEF Inv, Typed, WokenInv
<1> PICK r : r = Tail(q)
  OBVIOUS
<1>1. /\ u \in Threads /\ Contains(q, u) /\ r \in Seq(Threads) /\ Once(r)
      /\ \A x : Contains(r, x) <=> Contains(q, x) /\ x # u
  BY TailOnce
<1>2. /\ \A x \in Threads : Once(woken[x])
      /\ \A x, v, y \in Threads : Contains(woken[x], y) /\ Contains(woken[v], y) => x = v
      /\ \A y \in Threads :
           (\E x \in Threads : Contains(woken[x], y)) <=> wait_event[y] = WAKING_EVENT
  BY DEF Inv, WokenInv
<1>3. wait_event[u] = WAKING_EVENT
  BY <1>1, <1>2
<1>4. /\ woken' \in [Threads -> Seq(Threads)] /\ woken'[t] = r
      /\ \A x \in Threads \ {t} : woken'[x] = woken[x]
  BY <1>1 DEF Inv, Typed
<1>5. wait_event'[u] = NO_EVENT /\ \A x \in Threads \ {u} : wait_event'[x] = wait_event[x]
  BY <1>1 DEF Inv, Typed
<1>6. HashInv'
  <2>1. \A e \in Events, x \in Threads : wait_event'[x] = e <=> wait_event[x] = e
    BY <1>3, <1>5, Kinds
  <2> QED
    BY <2>1 DEF Inv, HashInv
<1>7. WokenInv'
  <2>1. \A x \in Threads : Once(woken'[x])
    BY <1>1, <1>2, <1>4
  <2>2. \A x, y \in Threads :
          Contains(woken'[x], y) <=> Contains(woken[x], y) /\ y # u
    BY <1>1, <1>2, <1>4
  <2>3. \A x, v, y \in Threads : Contains(woken'[x], y) /\ Contains(woken'[v], y) => x = v
    BY <1>2, <2>2
  <2>4. \A y \in Threads :
          (\E x \in Threads : Contains(woken'[x], y)) <=> wait_event'[y] = WAKING_EVENT
    BY <1>2, <1>5, <2>2, Kinds
  <2> QED
    BY <2>1, <2>3, <2>4 DEF WokenInv
<1> QED
  BY <1>1, <1>3, <1>4, <1>6, <1>7

\* Thread u leaves the queue it is on.
LEMMA ClearHash ==
  ASSUME Inv, NEW u \in Threads, NEW e \in Events, wait_event[u] = e,
         queue' = [queue EXCEPT ![e] = RemoveFirst(@, u)],
         wait_event' = [wait_event EXCEPT ![u] = NO_EVENT], woken' = woken
  PROVE  queue' \in [Events -> Seq(Threads)] /\ HashInv' /\ WokenInv'
<1> PICK q \in Seq(Threads) : q = queue[e] /\ Once(q)
  BY DEF Inv, Typed, HashInv
<1> PICK r : r = RemoveFirst(q, u)
  OBVIOUS
<1>1. \A f \in Events, x \in Threads : Contains(queue[f], x) <=> wait_event[x] = f
  BY DEF Inv, HashInv
<1>2. Contains(q, u)
  BY <1>1
<1>3. /\ r \in Seq(Threads) /\ Once(r)
      /\ \A x : Contains(r, x) <=> Contains(q, x) /\ x # u
  BY <1>2, RemoveFirstOnce
<1>4. /\ queue' \in [Events -> Seq(Threads)] /\ queue'[e] = r
      /\ \A f \in Events \ {e} : queue'[f] = queue[f]
  BY <1>3 DEF Inv, Typed
<1>5. wait_event'[u] = NO_EVENT /\ \A x \in Threads \ {u} : wait_event'[x] = wait_event[x]
  BY DEF Inv, Typed
<1>6. HashInv'
  <2>1. \A f \in Events : Once(queue'[f])
    BY <1>3, <1>4 DEF Inv, HashInv
  <2>2. ASSUME NEW f \in Events, NEW x \in Threads
        PROVE  Contains(queue'[f], x) <=> wait_event'[x] = f
    BY <1>1, <1>3, <1>4, <1>5, Kinds
  <2> QED
    BY <2>1, <2>2 DEF HashInv
<1>7. WokenInv'
  <2>1. \A x \in Threads : wait_event'[x] = WAKING_EVENT <=> wait_event[x] = WAKING_EVENT
    BY <1>5, Kinds
  <2> QED
    BY <2>1 DEF Inv, WokenInv
<1> QED
  BY <1>4, <1>6, <1>7

\* awaken, for a thread that waits.
LEMMA AwakenMeans ==
  ASSUME Inv, NEW u \in Threads, wait_event[u] # NO_EVENT,
         NEW result \in {"awakened", "timed_out"}, awaken(u, result),
         wait_event' = [wait_event EXCEPT ![u] = NO_EVENT]
  PROVE  /\ Awake(u) /\ wait_result' \in [Threads -> {"awakened", "timed_out"}]
         /\ where' \in [Threads -> {"cpu", "switch", "off", "runq"}]
         /\ IF where[u] = "off" THEN where'[u] = "runq" ELSE where'[u] = where[u]
         /\ \A x \in Threads \ {u} : where'[x] = where[x]
<1>1. th_wait[u] = TRUE
  BY AtThread DEF ThreadOK
<1>2. /\ where' = [where EXCEPT ![u] = IF where[u] = "off" THEN "runq" ELSE where[u]]
      /\ wait_result' = [wait_result EXCEPT ![u] = result]
  BY <1>1 DEF awaken, TH_RUN
<1> QED
  BY <1>2 DEF awaken, reset_timeout, Awake, Inv, Typed

LEMMA WakeThreadKeeps ==
  ASSUME Inv, NEW t \in Threads, WakeThread(t) PROVE Inv'
<1>1. /\ pc[t] = "wake" /\ woken[t] # <<>> /\ wait_event[t] = NO_EVENT
      /\ UNCHANGED <<queue, soft, word, futexv_table, futexv_active, pc, call, to_wake>>
      /\ woken' = [woken EXCEPT ![t] = Tail(woken[t])]
  BY AtThread DEF WakeThread, At, finish_wakeup, ThreadOK, WaitPcs, SleepPcs, LeavePcs
<1> PICK u : u = Head(woken[t])
  OBVIOUS
<1>2. awaken(u, "awakened") /\ wait_event' = [wait_event EXCEPT ![u] = NO_EVENT]
  BY DEF WakeThread, finish_wakeup
<1>3. /\ u \in Threads /\ wait_event[u] = WAKING_EVENT
      /\ woken' \in [Threads -> Seq(Threads)]
      /\ woken'[t] = Tail(woken[t])
      /\ \A x \in Threads \ {t} : woken'[x] = woken[x]
      /\ HashInv' /\ WokenInv'
  BY <1>1, <1>2, FinishHash
<1>4. u \in Threads /\ wait_event[u] # NO_EVENT
  BY <1>3, Kinds
<1>5. /\ Awake(u) /\ wait_result' \in [Threads -> {"awakened", "timed_out"}]
      /\ where' \in [Threads -> {"cpu", "switch", "off", "runq"}]
      /\ IF where[u] = "off" THEN where'[u] = "runq" ELSE where'[u] = where[u]
      /\ \A x \in Threads \ {u} : where'[x] = where[x]
  BY <1>2, <1>4, AwakenMeans
<1>6. SoftStays
  BY <1>1 DEF SoftStays
<1>7. /\ th_wait'[u] = FALSE /\ wait_event'[u] = NO_EVENT /\ timer'[u] = "unset"
      /\ \A x \in Threads \ {u} :
           /\ th_wait'[x] = th_wait[x] /\ wait_event'[x] = wait_event[x]
           /\ timer'[x] = timer[x]
  BY <1>4, <1>5, <1>6, AwakeMeans
<1>8. ASSUME NEW x \in Threads
      PROVE  ThreadOK(wait_event'[x], th_wait'[x], timer'[x], where'[x], pc[x], call[x])
  <2>1. /\ ThreadOK(wait_event[x], th_wait[x], timer[x], where[x], pc[x], call[x])
        /\ th_wait[x] \in BOOLEAN
    BY AtThread
  <2>2. CASE x = u
    <3> PICK w : w = where'[x] /\ IF where[x] = "off" THEN w \in {"runq", "cpu"} ELSE w = where[x]
      BY <1>5, <2>2
    <3>1. ThreadOK(NO_EVENT, FALSE, "unset", w, pc[x], call[x])
      BY AwakeFitsAt
    <3> QED
      BY <1>7, <2>2, <3>1
  <2>3. CASE x # u
    BY <1>5, <1>7, <2>1, <2>3
  <2> QED
    BY <2>2, <2>3
<1>9. ASSUME NEW x \in Threads PROVE CallOK(x, pc[x], call[x]) /\ HandOK(pc[x], to_wake[x], woken'[x])
  <2>1. CallOK(x, pc[x], call[x]) /\ HandOK(pc[x], to_wake[x], woken[x])
    BY AtThread
  <2>2. CASE x = t
    BY <1>1, <2>1, <2>2 DEF HandOK
  <2>3. CASE x # t
    BY <1>3, <2>1, <2>3
  <2> QED
    BY <2>2, <2>3
<1>10. queue' \in [Events -> Seq(Threads)] /\ pc' \in [Threads -> Pcs]
  BY <1>1 DEF Inv, Typed
<1> QED
  BY <1>1, <1>3, <1>4, <1>5, <1>6, <1>8, <1>9, <1>10, AwakeKeeps

LEMMA HandoffSwitchKeeps ==
  ASSUME Inv, NEW t \in Threads, HandoffSwitch(t) PROVE Inv'
<1>1. /\ pc[t] = "switch" /\ where[t] = "cpu" /\ woken[t] # <<>> /\ to_wake[t] = <<>>
      /\ UNCHANGED <<queue, soft, word, futexv_table, futexv_active, call, to_wake>>
  BY AtThread, EmptySeq DEF HandoffSwitch, At, HandOK
<1>2. woken' = [woken EXCEPT ![t] = Tail(woken[t])] /\ Tail(woken[t]) = <<>>
  <2>1. Len(woken[t]) = 1 /\ woken[t] \in Seq(Threads) /\ Once(woken[t])
    BY <1>1, AtThread DEF HandOK, Inv, WokenInv
  <2>2. Tail(woken[t]) = <<>>
    BY <1>1, <2>1, TailOnce
  <2> QED
    BY <2>2 DEF HandoffSwitch
<1> PICK u : u = Head(woken[t])
  OBVIOUS
<1>3. /\ wait_event' = [wait_event EXCEPT ![u] = NO_EVENT]
      /\ wait_result' = [wait_result EXCEPT ![u] = "awakened"]
      /\ th_wait' = [th_wait EXCEPT ![u] = FALSE] /\ reset_timeout(u)
      /\ \/ /\ where[u] = "off" /\ where' = [where EXCEPT ![t] = "switch", ![u] = "cpu"]
            /\ pc' = [pc EXCEPT ![t] = "asleep"]
         \/ where[u] # "off" /\ where' = where /\ pc' = [pc EXCEPT ![t] = "block"]
  BY DEF HandoffSwitch, Goto, TH_RUN
<1>4. /\ u \in Threads /\ wait_event[u] = WAKING_EVENT
      /\ woken' \in [Threads -> Seq(Threads)]
      /\ woken'[t] = Tail(woken[t])
      /\ \A x \in Threads \ {t} : woken'[x] = woken[x]
      /\ HashInv' /\ WokenInv'
  BY <1>1, <1>2, <1>3, FinishHash
<1>5. Awake(u) /\ SoftStays /\ u \in Threads
  BY <1>1, <1>3, <1>4 DEF Awake, SoftStays, reset_timeout
<1>6. /\ th_wait'[u] = FALSE /\ wait_event'[u] = NO_EVENT /\ timer'[u] = "unset"
      /\ \A x \in Threads \ {u} :
           /\ th_wait'[x] = th_wait[x] /\ wait_event'[x] = wait_event[x]
           /\ timer'[x] = timer[x]
  BY <1>5, AwakeMeans
<1> PICK p \in {"asleep", "block"} :
      /\ pc' = [pc EXCEPT ![t] = p]
      /\ \/ /\ p = "asleep" /\ where[u] = "off"
            /\ where' = [where EXCEPT ![t] = "switch", ![u] = "cpu"]
         \/ p = "block" /\ where[u] # "off" /\ where' = where
  BY <1>3
<1>7. p \in Pcs /\ p \in SlotPcs /\ pc[t] \in SlotPcs
  BY <1>1 DEF Pcs, SlotPcs, WaitPcs, SleepPcs
<1>8. /\ pc' \in [Threads -> Pcs] /\ pc'[t] = p /\ \A x \in Threads \ {t} : pc'[x] = pc[x]
  BY <1>7 DEF Inv, Typed
<1>9. /\ where' \in [Threads -> {"cpu", "switch", "off", "runq"}]
      /\ p = "asleep" => u # t /\ where'[t] = "switch" /\ where'[u] = "cpu"
      /\ p = "block" => where'[t] = "cpu" /\ where'[u] = where[u]
      /\ \A x \in Threads \ {t, u} : where'[x] = where[x]
  BY <1>1, <1>4 DEF Inv, Typed
<1>10. ThreadOK(wait_event[t], th_wait[t], timer[t], where'[t], p, call[t])
  BY <1>1, <1>9, AtThread DEF ThreadOK, WaitPcs, SleepPcs
<1>11. ASSUME NEW x \in Threads
       PROVE  ThreadOK(wait_event'[x], th_wait'[x], timer'[x], where'[x], pc'[x], call[x])
  <2>1. /\ ThreadOK(wait_event[x], th_wait[x], timer[x], where[x], pc[x], call[x])
        /\ th_wait[x] \in BOOLEAN
    BY AtThread
  <2>2. CASE x = u /\ x # t
    <3> PICK w : w = where'[x] /\ IF where[x] = "off" THEN w \in {"runq", "cpu"} ELSE w = where[x]
      BY <1>9, <2>2
    <3>1. ThreadOK(NO_EVENT, FALSE, "unset", w, pc[x], call[x])
      BY AwakeFitsAt
    <3> QED
      BY <1>6, <1>8, <2>2, <3>1
  <2>3. CASE x = u /\ x = t
    <3>1. p = "block" /\ where'[x] = "cpu"
      BY <1>9, <2>3
    <3>2. ThreadOK(NO_EVENT, FALSE, "unset", "cpu", "block", call[x])
      BY Kinds DEF ThreadOK
    <3> QED
      BY <1>6, <1>8, <2>3, <3>1, <3>2
  <2>4. CASE x # u /\ x = t
    BY <1>6, <1>8, <1>10, <2>4
  <2>5. CASE x # u /\ x # t
    BY <1>6, <1>8, <1>9, <2>1, <2>5
  <2> QED
    BY <2>2, <2>3, <2>4, <2>5
<1>12. ASSUME NEW x \in Threads
       PROVE  CallOK(x, pc'[x], call[x]) /\ HandOK(pc'[x], to_wake[x], woken'[x])
  <2>1. CallOK(x, pc[x], call[x]) /\ HandOK(pc[x], to_wake[x], woken[x])
    BY AtThread
  <2>2. CASE x = t
    <3>1. CallOK(t, p, call[t])
      BY <1>1, AtThread DEF CallOK, WakeCalls, WakeWaits, MultiCalls, WakePcs, SlotPcs, WaitPcs,
             SleepPcs, LeavePcs
    <3>2. HandOK(p, <<>>, <<>>)
      BY DEF HandOK
    <3> QED
      BY <1>1, <1>2, <1>4, <1>8, <2>2, <3>1, <3>2
  <2>3. CASE x # t
    BY <1>4, <1>8, <2>1, <2>3
  <2> QED
    BY <2>2, <2>3
<1>13. /\ queue' \in [Events -> Seq(Threads)]
       /\ wait_result' \in [Threads -> {"awakened", "timed_out"}]
  BY <1>1, <1>3 DEF Inv, Typed
<1>14. /\ \A x \in Threads : pc'[x] \in SlotPcs <=> pc[x] \in SlotPcs
       /\ \A x \in Threads : pc'[x] # pc[x] => pc'[x] \in {"drain", "block", "asleep"}
  BY <1>7, <1>8
<1> QED
  BY <1>1, <1>4, <1>5, <1>8, <1>9, <1>11, <1>12, <1>13, <1>14, AwakeKeeps

\* A wait that is cleared, by its own thread or by the timeout.
LEMMA ClearKeeps ==
  ASSUME Inv, NEW u \in Threads, NEW e \in Events, wait_event[u] = e,
         NEW result \in {"awakened", "timed_out"}, clear_wait_on(u, e, result),
         SoftStays, NEW p, pc' = [pc EXCEPT ![u] = p],
         \/ p = pc[u]
         \/ pc[u] = "clear2" /\ p = "drain",
         UNCHANGED <<word, futexv_table, futexv_active, call, to_wake, woken>>
  PROVE  Inv'
<1>1. /\ queue' = [queue EXCEPT ![e] = RemoveFirst(@, u)]
      /\ wait_event' = [wait_event EXCEPT ![u] = NO_EVENT]
      /\ awaken(u, result) /\ wait_event[u] # NO_EVENT
  BY Kinds DEF clear_wait_on
<1>2. queue' \in [Events -> Seq(Threads)] /\ HashInv' /\ WokenInv'
  BY <1>1, ClearHash
<1>3. /\ Awake(u) /\ wait_result' \in [Threads -> {"awakened", "timed_out"}]
      /\ where' \in [Threads -> {"cpu", "switch", "off", "runq"}]
      /\ IF where[u] = "off" THEN where'[u] = "runq" ELSE where'[u] = where[u]
      /\ \A x \in Threads \ {u} : where'[x] = where[x]
  BY <1>1, AwakenMeans
<1>4. /\ th_wait'[u] = FALSE /\ wait_event'[u] = NO_EVENT /\ timer'[u] = "unset"
      /\ \A x \in Threads \ {u} :
           /\ th_wait'[x] = th_wait[x] /\ wait_event'[x] = wait_event[x]
           /\ timer'[x] = timer[x]
  BY <1>3, AwakeMeans
<1>5. p \in Pcs /\ (p \in SlotPcs <=> pc[u] \in SlotPcs)
  BY AtThread DEF Pcs, SlotPcs, WaitPcs, LeavePcs
<1>6. /\ pc' \in [Threads -> Pcs] /\ pc'[u] = p /\ \A x \in Threads \ {u} : pc'[x] = pc[x]
  BY <1>5 DEF Inv, Typed
<1>7. ThreadOK(wait_event'[u], th_wait'[u], timer'[u], where'[u], p, call[u])
  <2> PICK w : w = where'[u] /\ IF where[u] = "off" THEN w \in {"runq", "cpu"} ELSE w = where[u]
    BY <1>3
  <2>2. ThreadOK(NO_EVENT, FALSE, "unset", w, pc[u], call[u])
    BY AwakeFitsAt
  <2>3. ThreadOK(NO_EVENT, FALSE, "unset", w, p, call[u])
    BY <2>2, Kinds DEF ThreadOK
  <2> QED
    BY <1>4, <2>3
<1>8. CallOK(u, p, call[u])
  BY AtThread DEF CallOK, WakeCalls, WakeWaits, MultiCalls, WakePcs, SlotPcs, WaitPcs,
         SleepPcs, LeavePcs
<1>9. HandOK(p, to_wake[u], woken[u])
  BY AtThread DEF HandOK
<1>10. ASSUME NEW x \in Threads
       PROVE  /\ ThreadOK(wait_event'[x], th_wait'[x], timer'[x], where'[x], pc'[x], call[x])
              /\ CallOK(x, pc'[x], call[x]) /\ HandOK(pc'[x], to_wake[x], woken'[x])
  <2>1. CASE x = u
    BY <1>6, <1>7, <1>8, <1>9, <2>1
  <2>2. CASE x # u
    <3>1. /\ ThreadOK(wait_event[x], th_wait[x], timer[x], where[x], pc[x], call[x])
          /\ CallOK(x, pc[x], call[x]) /\ HandOK(pc[x], to_wake[x], woken[x])
      BY AtThread
    <3> QED
      BY <1>3, <1>4, <1>6, <2>2, <3>1
  <2> QED
    BY <2>1, <2>2
<1>11. woken' \in [Threads -> Seq(Threads)]
  BY DEF Inv, Typed
<1>12. /\ \A x \in Threads : pc'[x] \in SlotPcs <=> pc[x] \in SlotPcs
       /\ \A x \in Threads : pc'[x] # pc[x] => pc'[x] \in {"drain", "block", "asleep"}
  BY <1>5, <1>6
<1> QED
  BY <1>2, <1>3, <1>6, <1>10, <1>11, <1>12, AwakeKeeps

LEMMA ClearWaitLockedKeeps ==
  ASSUME Inv, NEW t \in Threads, ClearWaitLocked(t) PROVE Inv'
<1> PICK e : e = call[t].event
  OBVIOUS
<1>1. /\ pc[t] = "clear2" /\ where[t] = "cpu" /\ to_wake[t] = <<>> /\ woken[t] = <<>>
      /\ clear_wait_on(t, e, "awakened") /\ pc' = [pc EXCEPT ![t] = "drain"]
      /\ UNCHANGED <<soft, word, futexv_table, futexv_active, call, to_wake, woken>>
  BY AtThread DEF ClearWaitLocked, At, Goto, HandOK
<1>2. e \in Events
  BY <1>1, AtThread, Kinds DEF CallOK, SlotPcs, WaitPcs
<1>3. CASE wait_event[t] = e
  BY <1>1, <1>2, <1>3, ClearKeeps DEF SoftStays
<1>4. CASE wait_event[t] # e
  <2>1. UNCHANGED waitVars
    BY <1>1, <1>4 DEF clear_wait_on, waitVars, hashVars, threadVars, timerVars
  <2>2. wait_event[t] \notin Events
    BY <1>4, AtThread DEF ThreadOK
  <2>3. ThreadOK(wait_event[t], th_wait[t], timer[t], where[t], "drain", call[t])
    BY <1>1, <2>2, AtThread DEF ThreadOK, WaitPcs, SleepPcs, LeavePcs
  <2>4. CallOK(t, "drain", call[t])
    BY <1>1, AtThread DEF CallOK, WakeCalls, WakeWaits, MultiCalls, WakePcs, SlotPcs, WaitPcs,
           SleepPcs, LeavePcs
  <2>5. Moves(t, "drain", call[t])
    BY <1>1, StayFacts DEF Moves
  <2> QED
    BY <1>1, <2>1, <2>3, <2>4, <2>5, StepKeeps DEF Pcs, SlotPcs, WaitPcs, LeavePcs
<1> QED
  BY <1>3, <1>4

-----------------------------------------------------------------------------
(* The softclock thread. *)

LEMMA TimerKeeps ==
  ASSUME Inv, UNCHANGED <<hashVars, threadVars, futexVars>>,
         timer' \in [Threads -> {"unset", "set", "pending"}],
         timer_refs' \in [Threads -> 0 .. REF_BOUND], soft' \in SoftTypes, SoftInv',
         \A x \in Threads :
           /\ timer'[x] = "unset" \/ (timer'[x] = "pending" /\ timer[x] = "set")
                \/ timer'[x] = timer[x]
           /\ timer_refs'[x] <= timer_refs[x] /\ RefOK(x, timer'[x], timer_refs'[x], soft')
  PROVE  Inv'
<1>1. UNCHANGED <<queue, wait_event, wait_result, th_wait, where, word, futexv_table,
                  futexv_active, pc, call, to_wake, woken>>
  BY DEF hashVars, threadVars, futexVars
<1>2. Typed'
  BY <1>1 DEF Inv, Typed
<1>3. ASSUME NEW x \in Threads PROVE Fits(x)
  <2>1. /\ ThreadOK(wait_event[x], th_wait[x], timer[x], where[x], pc[x], call[x])
        /\ CallOK(x, pc[x], call[x]) /\ HandOK(pc[x], to_wake[x], woken[x])
    BY AtThread
  <2>2. ThreadOK(wait_event[x], th_wait[x], timer'[x], where[x], pc[x], call[x])
    BY <2>1 DEF ThreadOK
  <2>3. call[x].name \in TimedCalls /\ pc[x] \in {"assert", "register", "recheck", "timer"}
          => timer_refs'[x] < REF_BOUND
    <3>1. /\ timer_refs[x] \in Nat /\ timer_refs'[x] \in Nat /\ REF_BOUND \in Nat
          /\ timer_refs'[x] <= timer_refs[x]
      BY StayFacts, Kinds
    <3>2. timer_refs[x] < REF_BOUND => timer_refs'[x] < REF_BOUND
      BY <3>1
    <3> QED
      BY <3>2 DEF Inv, RefInv
  <2>4. RefOK(x, timer'[x], timer_refs'[x], soft')
    OBVIOUS
  <2> QED
    BY <1>1, <2>1, <2>2, <2>3, <2>4 DEF Fits
<1>4. HashInv' /\ WokenInv'
  BY <1>1 DEF Inv, HashInv, WokenInv
<1>5. SlotInv'
  BY <1>1, SlotStays
<1> QED
  BY <1>2, <1>3, <1>4, <1>5, FitsAll DEF Inv

LEMMA SoftIdleTyped ==
  SoftIdle \in SoftTypes /\ SoftIdle.step = "idle" /\ SoftIdle.thread = NO_EVENT
  BY DEF SoftIdle, SoftTypes

LEMMA softclockKeeps ==
  ASSUME Inv, NEW t \in Threads, softclock(t), UNCHANGED futexVars PROVE Inv'
<1> PICK sf : sf = [step |-> "fired", thread |-> t, event |-> NO_EVENT]
  OBVIOUS
<1>1. sf \in SoftTypes /\ sf.step = "fired" /\ sf.thread = t
  BY DEF SoftTypes
<1>2. /\ soft = SoftIdle /\ timer[t] = "set" /\ timer' = [timer EXCEPT ![t] = "pending"]
      /\ soft' = sf /\ UNCHANGED <<hashVars, threadVars, timer_refs>>
  BY DEF softclock
<1>3. /\ timer' \in [Threads -> {"unset", "set", "pending"}] /\ timer'[t] = "pending"
      /\ \A x \in Threads \ {t} : timer'[x] = timer[x]
  BY <1>2 DEF Inv, Typed
<1>4. \A x \in Threads : timer[x] # "pending"
  BY <1>2, SoftIdleTyped DEF Inv, SoftInv
<1>5. SoftInv'
  <2>1. \A x \in Threads : timer'[x] = "pending" => x = t
    BY <1>3, <1>4
  <2>2. soft'.step = "idle" <=> soft' = SoftIdle
    BY <1>1, <1>2, SoftIdleTyped
  <2> QED
    BY <1>1, <1>2, <2>1, <2>2 DEF SoftInv
<1>6. ASSUME NEW x \in Threads
      PROVE  /\ RefOK(x, timer'[x], timer_refs[x], soft') /\ timer_refs[x] \in Nat
  <2>1. RefOK(x, timer[x], timer_refs[x], soft) /\ timer_refs[x] \in Nat
    BY StayFacts
  <2>2. CASE x = t
    <3>1. RefOK(t, "pending", timer_refs[t], sf)
      BY <1>1, <1>2, <2>1, <2>2 DEF RefOK
    <3> QED
      BY <1>2, <1>3, <2>1, <2>2, <3>1
  <2>3. CASE x # t
    <3>1. RefOK(x, timer[x], timer_refs[x], sf)
      BY <1>1, <1>4, <2>1, <2>3 DEF RefOK
    <3> QED
      BY <1>2, <1>3, <2>1, <2>3, <3>1
  <2> QED
    BY <2>2, <2>3
<1>7. timer_refs' \in [Threads -> 0 .. REF_BOUND]
  BY <1>2 DEF Inv, Typed
<1>8. \A x \in Threads :
        /\ timer'[x] = "unset" \/ (timer'[x] = "pending" /\ timer[x] = "set")
             \/ timer'[x] = timer[x]
        /\ timer_refs'[x] <= timer_refs[x] /\ RefOK(x, timer'[x], timer_refs'[x], soft')
  BY <1>2, <1>3, <1>6
<1> QED
  BY <1>1, <1>2, <1>3, <1>5, <1>7, <1>8, TimerKeeps

LEMMA thread_timeoutKeeps ==
  ASSUME Inv, thread_timeout, UNCHANGED futexVars PROVE Inv'
<1> PICK t \in Threads : t = soft.thread
  BY DEF thread_timeout, Inv, SoftInv
<1>1. /\ soft.step = "fired" /\ soft \in SoftTypes
      /\ UNCHANGED <<hashVars, threadVars, timer_refs>>
      /\ timer_refs' \in [Threads -> 0 .. REF_BOUND]
  BY DEF thread_timeout, Inv, Typed
<1>2. /\ \A x \in Threads : timer[x] = "pending" => x = t
      /\ \A x \in Threads : RefOK(x, timer[x], timer_refs[x], soft) /\ timer_refs[x] \in Nat
  BY StayFacts DEF Inv, SoftInv
<1>3. CASE timer[t] # "pending"
  <2>1. soft' = SoftIdle /\ timer' = timer
    BY <1>3 DEF thread_timeout
  <2>2. \A x \in Threads : timer[x] # "pending"
    BY <1>2, <1>3
  <2>3. \A x \in Threads : RefOK(x, timer[x], timer_refs[x], SoftIdle)
    BY <1>2, <2>2, SoftIdleTyped, Kinds DEF RefOK
  <2>4. SoftInv'
    BY <2>1, <2>2, SoftIdleTyped DEF SoftInv
  <2>5. timer' \in [Threads -> {"unset", "set", "pending"}]
    BY <2>1 DEF Inv, Typed
  <2>6. \A x \in Threads :
          /\ timer'[x] = timer[x]
          /\ timer_refs'[x] <= timer_refs[x] /\ RefOK(x, timer'[x], timer_refs'[x], soft')
    BY <1>1, <1>2, <2>1, <2>3
  <2> QED
    BY <1>1, <2>1, <2>4, <2>5, <2>6, SoftIdleTyped, TimerKeeps
<1>4. CASE timer[t] = "pending"
  <2> PICK sf \in SoftTypes :
        soft' = sf /\ sf.step \in {"drop", "clear"} /\ sf.thread = t
          /\ (sf.step = "clear" => sf.event \in Events)
    <3>1. wait_event[t] \in Events \cup {NO_EVENT, WAKING_EVENT}
      BY AtThread
    <3>2. CASE wait_event[t] \in {WAKING_EVENT, NO_EVENT}
      BY <1>1, <1>4, <3>2 DEF thread_timeout, SoftTypes
    <3>3. CASE wait_event[t] \notin {WAKING_EVENT, NO_EVENT}
      BY <1>1, <1>4, <3>1, <3>3 DEF thread_timeout, SoftTypes
    <3> QED
      BY <3>2, <3>3
  <2>1. timer' = [timer EXCEPT ![t] = "unset"]
    BY <1>4 DEF thread_timeout
  <2>2. /\ timer' \in [Threads -> {"unset", "set", "pending"}] /\ timer'[t] = "unset"
        /\ \A x \in Threads \ {t} : timer'[x] = timer[x]
    BY <2>1 DEF Inv, Typed
  <2>3. \A x \in Threads : timer'[x] # "pending"
    BY <1>2, <2>2
  <2>4. SoftInv'
    BY <2>3, SoftIdleTyped DEF SoftInv
  <2>5. RefOK(t, "unset", timer_refs[t], sf)
    BY <1>1, <1>2, <1>4 DEF RefOK
  <2>6. \A x \in Threads \ {t} : RefOK(x, timer[x], timer_refs[x], sf)
    BY <1>2 DEF RefOK
  <2>7. \A x \in Threads :
          /\ timer'[x] = "unset" \/ (timer'[x] = "pending" /\ timer[x] = "set")
               \/ timer'[x] = timer[x]
          /\ timer_refs'[x] <= timer_refs[x] /\ RefOK(x, timer'[x], timer_refs'[x], soft')
    BY <1>1, <1>2, <2>2, <2>5, <2>6
  <2> QED
    BY <1>1, <2>2, <2>4, <2>7, TimerKeeps
<1> QED
  BY <1>3, <1>4

LEMMA thread_timeout_clearKeeps ==
  ASSUME Inv, thread_timeout_clear, UNCHANGED futexVars PROVE Inv'
<1> PICK u \in Threads, e \in Events : u = soft.thread /\ e = soft.event
  BY DEF thread_timeout_clear, Inv, SoftInv
<1>1. /\ soft.step = "clear" /\ soft' = [soft EXCEPT !.step = "drop", !.event = NO_EVENT]
      /\ clear_wait_on(u, e, "timed_out")
  BY DEF thread_timeout_clear
<1>2. SoftStays
  BY <1>1 DEF SoftStays
<1>3. CASE wait_event[u] = e
  <2> PICK p : p = pc[u]
    OBVIOUS
  <2>1. pc' = [pc EXCEPT ![u] = p]
    BY StayFacts DEF futexVars
  <2>2. UNCHANGED <<word, futexv_table, futexv_active, call, to_wake, woken>>
    BY DEF futexVars
  <2> QED
    BY <1>1, <1>2, <1>3, <2>1, <2>2, ClearKeeps
<1>4. CASE wait_event[u] # e
  <2>1. UNCHANGED <<hashVars, threadVars, timer, timer_refs>>
    BY <1>1, <1>4 DEF clear_wait_on
  <2>2. \A x \in Threads :
          RefOK(x, timer[x], timer_refs[x], soft) /\ timer_refs[x] \in Nat
    BY StayFacts
  <2>3. \A x \in Threads : RefOK(x, timer[x], timer_refs[x], soft')
    BY <1>2, <2>2, SoftStaysMeans DEF RefOK
  <2>4. SoftInv'
    BY <1>2, <2>1, SoftStaysMeans DEF Inv, SoftInv
  <2>5. /\ timer' \in [Threads -> {"unset", "set", "pending"}] /\ soft' \in SoftTypes
        /\ timer_refs' \in [Threads -> 0 .. REF_BOUND]
    BY <1>2, <2>1, SoftStaysMeans DEF Inv, Typed
  <2>6. \A x \in Threads :
          /\ timer'[x] = timer[x]
          /\ timer_refs'[x] <= timer_refs[x] /\ RefOK(x, timer'[x], timer_refs'[x], soft')
    BY <2>1, <2>2, <2>3
  <2> QED
    BY <2>1, <2>4, <2>5, <2>6, TimerKeeps
<1> QED
  BY <1>3, <1>4

LEMMA thread_timeout_dropKeeps ==
  ASSUME Inv, thread_timeout_drop, UNCHANGED futexVars PROVE Inv'
<1> PICK u \in Threads : u = soft.thread
  BY DEF thread_timeout_drop, Inv, SoftInv
<1> PICK n : n = timer_refs[u] - 1
  OBVIOUS
<1>1. /\ soft.step = "drop" /\ soft' = SoftIdle /\ timer_refs' = [timer_refs EXCEPT ![u] = n]
      /\ UNCHANGED <<hashVars, threadVars, timer>>
  BY DEF thread_timeout_drop
<1>2. /\ \A x \in Threads : timer[x] # "pending"
      /\ \A x \in Threads : RefOK(x, timer[x], timer_refs[x], soft) /\ timer_refs[x] \in Nat
                              /\ timer_refs[x] \in 0 .. REF_BOUND
  BY <1>1, StayFacts DEF Inv, SoftInv
<1>3. n \in 0 .. REF_BOUND /\ n <= timer_refs[u] /\ RefOK(u, timer[u], n, SoftIdle)
  BY <1>1, <1>2, SoftIdleTyped, Kinds DEF RefOK
<1>4. /\ timer_refs' \in [Threads -> 0 .. REF_BOUND] /\ timer_refs'[u] = n
      /\ \A x \in Threads \ {u} : timer_refs'[x] = timer_refs[x]
  BY <1>1, <1>3 DEF Inv, Typed
<1>5. \A x \in Threads \ {u} : RefOK(x, timer[x], timer_refs[x], SoftIdle)
  BY <1>2, SoftIdleTyped, Kinds DEF RefOK
<1>6. SoftInv'
  BY <1>1, <1>2, SoftIdleTyped DEF SoftInv
<1>7. timer' \in [Threads -> {"unset", "set", "pending"}] /\ soft' \in SoftTypes
  BY <1>1, SoftIdleTyped DEF Inv, Typed
<1>8. \A x \in Threads :
        /\ timer'[x] = timer[x]
        /\ timer_refs'[x] <= timer_refs[x] /\ RefOK(x, timer'[x], timer_refs'[x], soft')
  BY <1>1, <1>2, <1>3, <1>4, <1>5
<1> QED
  BY <1>1, <1>4, <1>6, <1>7, <1>8, TimerKeeps

-----------------------------------------------------------------------------
(* The invariant. *)

LEMMA InitHolds == Init => Inv
<1> SUFFICES ASSUME Init PROVE Inv
  OBVIOUS
<1>1. <<>> \in Seq(Threads) /\ <<>> \in Seq(Events) /\ Len(<<>>) = 0
  OBVIOUS
<1>2. \A x : ~Contains(<<>>, x)
  BY <1>1 DEF Contains
<1>3. Once(<<>>)
  BY <1>1 DEF Once
<1>4. FreeSlot \in SlotTypes /\ FreeSlot.thread = NOBODY
  BY DEF FreeSlot, SlotTypes
<1>5. /\ queue = [e \in Events |-> <<>>] /\ wait_event = [t \in Threads |-> NO_EVENT]
      /\ wait_result = [t \in Threads |-> "awakened"] /\ th_wait = [t \in Threads |-> FALSE]
      /\ where = [t \in Threads |-> "cpu"] /\ timer = [t \in Threads |-> "unset"]
      /\ timer_refs = [t \in Threads |-> 0] /\ soft = SoftIdle /\ word \in [Keys -> Vals]
      /\ futexv_table = [s \in Slots |-> FreeSlot] /\ futexv_active = 0
      /\ pc = [t \in Threads |-> "user"] /\ call = [t \in Threads |-> NoCall]
      /\ to_wake = [t \in Threads |-> <<>>] /\ woken = [t \in Threads |-> <<>>]
  BY DEF Init, WaitInit
<1>6. Typed
  BY <1>1, <1>4, <1>5, NoCallTyped, SoftIdleTyped, Kinds DEF Typed, Pcs
<1>7. ThreadInv
  <2>1. ThreadOK(NO_EVENT, FALSE, "unset", "cpu", "user", NoCall)
    BY Kinds DEF ThreadOK
  <2> QED
    BY <1>5, <2>1 DEF ThreadInv
<1>8. CallInv
  <2>1. \A t \in Threads : CallOK(t, "user", NoCall)
    BY NoCallTyped, Kinds DEF CallOK, WakeCalls, WakeWaits, WakePcs, SlotPcs, WaitPcs,
           SleepPcs, LeavePcs
  <2> QED
    BY <1>5, <2>1 DEF CallInv
<1>9. HandInv
  BY <1>5 DEF HandInv, HandOK
<1>10. HashInv
  BY <1>2, <1>3, <1>5, Kinds DEF HashInv
<1>11. WokenInv
  BY <1>2, <1>3, <1>5, Kinds DEF WokenInv
<1>12. SoftInv /\ RefInv
  BY <1>5, SoftIdleTyped, NoCallTyped, Kinds DEF SoftInv, RefInv, RefOK, TimedCalls
<1>13. SlotInv
  <2>1. {s \in Slots : futexv_table[s] # FreeSlot} = {}
    BY <1>5
  <2>2. \A s \in Slots : futexv_table[s] = FreeSlot
    BY <1>5
  <2>3. futexv_active = Cardinality({s \in Slots : futexv_table[s] # FreeSlot})
    BY <1>5, <2>1, FS_EmptySet
  <2>4. \A s \in Slots, t \in Threads :
          futexv_table[s].thread = t <=> pc[t] \in SlotPcs /\ Multi(t) /\ call[t].event = s
    BY <1>4, <1>5, <2>2, Kinds DEF SlotPcs, WaitPcs, SleepPcs, LeavePcs
  <2> QED
    BY <1>4, <2>2, <2>3, <2>4 DEF SlotInv, SlotOK
<1> QED
  BY <1>6, <1>7, <1>8, <1>9, <1>10, <1>11, <1>12, <1>13 DEF Inv

LEMMA KernelStepKeeps ==
  ASSUME Inv, NEW t \in Threads, KernelStep(t) PROVE Inv'
<1>1. ASSUME AssertWait(t) PROVE Inv'
  BY <1>1, AssertWaitKeeps
<1>2. ASSUME Register(t) PROVE Inv'
  BY <1>2, RegisterKeeps
<1>3. ASSUME Recheck(t) PROVE Inv'
  BY <1>3, RecheckKeeps
<1>4. ASSUME SetTimeout(t) PROVE Inv'
  BY <1>4, SetTimeoutKeeps
<1>5. ASSUME Block(t) PROVE Inv'
  BY <1>5, BlockKeeps DEF Block, At
<1>6. ASSUME Resume(t) PROVE Inv'
  BY <1>6, ResumeKeeps
<1>7. ASSUME ClearWait(t) PROVE Inv'
  BY <1>7, ClearWaitKeeps
<1>8. ASSUME ClearWaitLocked(t) PROVE Inv'
  BY <1>8, ClearWaitLockedKeeps
<1>9. ASSUME Drain(t) \/ Drained(t) PROVE Inv'
  BY <1>9, DrainKeeps, DrainedKeeps
<1>10. ASSUME Unregister(t) PROVE Inv'
  BY <1>10, UnregisterKeeps
<1>11. ASSUME Gate(t) \/ Scan(t) PROVE Inv'
  BY <1>11, GateKeeps, ScanKeeps
<1>12. ASSUME WakeEvent(t) \/ WakeThread(t) \/ WakeDone(t) PROVE Inv'
  BY <1>12, WakeEventKeeps, WakeThreadKeeps, WakeDoneKeeps
<1>13. ASSUME Handoff(t) \/ HandoffSwitch(t) PROVE Inv'
  BY <1>13, HandoffKeeps, HandoffSwitchKeeps
<1> QED
  BY <1>1, <1>2, <1>3, <1>4, <1>5, <1>6, <1>7, <1>8, <1>9, <1>10, <1>11, <1>12, <1>13
     DEF KernelStep

LEMMA StutterKeeps ==
  ASSUME Inv, UNCHANGED vars PROVE Inv'
<1>1. UNCHANGED <<queue, wait_event, wait_result, th_wait, where, timer, timer_refs, soft,
                  word, futexv_table, futexv_active, pc, call, to_wake, woken>>
  BY DEF vars, waitVars, hashVars, threadVars, timerVars, futexVars
<1>2. \A x \in Threads : Same(x)
  BY <1>1 DEF Same
<1>3. \A x \in Threads : Fits(x)
  BY <1>1, <1>2, SameFits
<1>4. Typed' /\ HashInv' /\ WokenInv'
  BY <1>1 DEF Inv, Typed, HashInv, WokenInv
<1>5. SoftInv'
  BY <1>1 DEF Inv, SoftInv
<1>6. SlotInv'
  BY <1>1, SlotStays
<1> QED
  BY <1>3, <1>4, <1>5, <1>6, FitsAll DEF Inv

LEMMA NextKeeps ==
  ASSUME Inv, [Next]_vars PROVE Inv'
<1>1. ASSUME NEW t \in Threads, UserCall(t) \/ KernelStep(t) \/ Processor(t) PROVE Inv'
  BY <1>1, UserCallKeeps, KernelStepKeeps, ProcessorKeeps
<1>2. ASSUME Softclock PROVE Inv'
  BY <1>2, softclockKeeps DEF Softclock
<1>3. ASSUME Timeout PROVE Inv'
  BY <1>3, thread_timeoutKeeps, thread_timeout_clearKeeps, thread_timeout_dropKeeps DEF Timeout
<1>4. ASSUME UNCHANGED vars PROVE Inv'
  BY <1>4, StutterKeeps
<1> QED
  BY <1>1, <1>2, <1>3, <1>4 DEF Next

LEMMA Invariant == Spec => []Inv
<1>1. Init => Inv
  BY InitHolds
<1>2. Inv /\ [Next]_vars => Inv'
  BY NextKeeps
<1> QED
  BY <1>1, <1>2, PTL DEF Spec

-----------------------------------------------------------------------------
(* Types, the wait hash and balanced waits. *)

\* Every field of the wait primitives and of the futex code keeps its type
\* under every interleaving of calls, wakers and timeouts: a thread never has
\* more timer references than timers it could have set, nor fewer than none
\* (set_timeout against reset_timeout_check and thread_timeout), and
\* futexv_active is the number of slots in use (futexv_register against
\* futexv_unregister).
THEOREM TypeCorrect == Spec => []TypeOK
<1>1. Inv => TypeOK
  BY DEF Inv, Typed, SlotInv, TypeOK
<1> QED
  BY <1>1, Invariant, PTL

LEMMA CountOnce ==
  ASSUME NEW q \in Seq(Threads), Once(q), NEW t \in Threads
  PROVE  Cardinality({i \in DOMAIN q : q[i] = t}) = IF Contains(q, t) THEN 1 ELSE 0
<1>1. DOMAIN q = 1 .. Len(q)
  OBVIOUS
<1>2. CASE Contains(q, t)
  <2> PICK i \in 1 .. Len(q) : q[i] = t
    BY <1>2 DEF Contains
  <2>1. {j \in DOMAIN q : q[j] = t} = {i}
    BY <1>1 DEF Once
  <2> QED
    BY <1>2, <2>1, FS_Singleton
<1>3. CASE ~Contains(q, t)
  <2>1. {j \in DOMAIN q : q[j] = t} = {}
    BY <1>1, <1>3 DEF Contains
  <2> QED
    BY <1>3, <2>1, FS_EmptySet
<1> QED
  BY <1>2, <1>3

LEMMA HashIsSound ==
  ASSUME Inv PROVE WaitHashSound
<1>1. ASSUME NEW e \in Events, NEW t \in Threads
      PROVE  Cardinality({i \in DOMAIN queue[e] : queue[e][i] = t})
               = IF wait_event[t] = e THEN 1 ELSE 0
  <2>1. queue[e] \in Seq(Threads) /\ Once(queue[e])
    BY DEF Inv, Typed, HashInv
  <2>2. Contains(queue[e], t) <=> wait_event[t] = e
    BY DEF Inv, HashInv
  <2> QED
    BY <2>1, <2>2, CountOnce
<1>2. ASSUME NEW t \in Threads
      PROVE  Cardinality({u \in Threads : Contains(woken[u], t)})
               = IF wait_event[t] = WAKING_EVENT THEN 1 ELSE 0
  <2>1. /\ \A u, v \in Threads : Contains(woken[u], t) /\ Contains(woken[v], t) => u = v
        /\ (\E u \in Threads : Contains(woken[u], t)) <=> wait_event[t] = WAKING_EVENT
    BY DEF Inv, WokenInv
  <2>2. CASE wait_event[t] = WAKING_EVENT
    <3> PICK v \in Threads : Contains(woken[v], t)
      BY <2>1, <2>2
    <3>1. {u \in Threads : Contains(woken[u], t)} = {v}
      BY <2>1
    <3> QED
      BY <2>2, <3>1, FS_Singleton
  <2>3. CASE wait_event[t] # WAKING_EVENT
    <3>1. {u \in Threads : Contains(woken[u], t)} = {}
      BY <2>1, <2>3
    <3> QED
      BY <2>3, <3>1, FS_EmptySet
  <2> QED
    BY <2>2, <2>3
<1> QED
  BY <1>1, <1>2 DEF WaitHashSound

\* The wait hash is sound whoever gets in between the bucket lock and the
\* thread lock of thread_wakeup_prim, clear_wait_locked and
\* thread_handoff_to_parked_waiter: a thread is on the queue of its wait_event,
\* once, and on no other, and a thread in WAKING_EVENT is in the hands of
\* exactly one waker.
THEOREM WaitHashIsSound == Spec => []WaitHashSound
<1>1. Inv => WaitHashSound
  BY HashIsSound
<1> QED
  BY <1>1, Invariant, PTL

LEMMA Balanced ==
  ASSUME Inv PROVE WaitsBalanced
<1>1. ASSUME NEW t \in Threads
      PROVE  /\ pc[t] \in {"assert", "register"} => wait_event[t] = NO_EVENT
             /\ pc[t] = "timer" => timer[t] # "set"
             /\ pc[t] = "user" => wait_event[t] = NO_EVENT /\ ~th_wait[t] /\ timer[t] = "unset"
  BY AtThread DEF ThreadOK, WaitPcs, SleepPcs, LeavePcs
<1>2. ASSUME NEW u \in Threads, NEW i \in DOMAIN woken[u] PROVE th_wait[woken[u][i]]
  <2>1. woken[u] \in Seq(Threads)
    BY AtThread
  <2> PICK x \in Threads : x = woken[u][i] /\ Contains(woken[u], x)
    BY <2>1 DEF Contains
  <2>2. wait_event[x] = WAKING_EVENT
    BY DEF Inv, WokenInv
  <2> QED
    BY <2>2, AtThread, Kinds DEF ThreadOK
<1>3. ASSUME NEW t \in Threads, pc[t] = "user", NEW s \in Slots PROVE futexv_table[s].thread # t
  BY <1>3 DEF Inv, SlotInv, SlotPcs, WaitPcs, SleepPcs, LeavePcs
<1> QED
  BY <1>1, <1>2, <1>3 DEF WaitsBalanced, NoPanic, ReturnsClean

\* Waits are balanced: the assertions of assert_wait, thread_wakeup_prim and
\* set_timeout never fail, and a thread comes back from urmach_futex on no
\* queue, with no timer and with no slot of futexv_table, whatever wakers and
\* timeouts it has met on the way.
THEOREM WaitsStayBalanced == Spec => []WaitsBalanced
<1>1. Inv => WaitsBalanced
  BY Balanced
<1> QED
  BY <1>1, Invariant, PTL

-----------------------------------------------------------------------------
(* Processors. *)

\* A wakeup puts only a parked thread on a run queue.
LEMMA AwakenPlace ==
  ASSUME Inv, NEW u \in Threads, NEW result, awaken(u, result), NEW t \in Threads,
         where[t] = "cpu"
  PROVE  where'[t] # "runq"
  BY DEF awaken, TH_RUN, Inv, Typed

LEMMA ClearPlace ==
  ASSUME Inv, NEW u \in Threads, NEW e, NEW result, clear_wait_on(u, e, result),
         NEW t \in Threads, where[t] = "cpu"
  PROVE  where'[t] # "runq"
<1>1. CASE wait_event[u] = e
  BY <1>1, AwakenPlace DEF clear_wait_on
<1>2. CASE wait_event[u] # e
  BY <1>2 DEF clear_wait_on, threadVars
<1> QED
  BY <1>1, <1>2

LEMMA BlockPlace ==
  ASSUME Inv, NEW u \in Threads, thread_block(u), NEW t \in Threads, where[t] = "cpu"
  PROVE  where'[t] # "runq"
  BY DEF thread_block, Inv, Typed

LEMMA KernelPlace ==
  ASSUME Inv, NEW u \in Threads, KernelStep(u), NEW t \in Threads, where[t] = "cpu"
  PROVE  where'[t] # "runq"
<1>1. ASSUME AssertWait(u) \/ Register(u) PROVE where' = where
  BY <1>1 DEF AssertWait, Register, Queued, assert_wait, waitVars, threadVars
<1>2. ASSUME Recheck(u) \/ Resume(u) \/ ClearWait(u) \/ Drained(u) \/ Unregister(u) \/ Gate(u)
               \/ Scan(u) \/ WakeDone(u)
      PROVE  where' = where
  BY <1>2 DEF Recheck, Resume, ClearWait, Drained, Unregister, Gate, Scan, WakeDone, waitVars,
         threadVars
<1>3. ASSUME SetTimeout(u) \/ WakeEvent(u) PROVE where' = where
  BY <1>3 DEF SetTimeout, thread_set_timeout, WakeEvent, dequeue_for_wakeup, threadVars
<1>4. ASSUME Block(u) \/ Drain(u) PROVE where'[t] # "runq"
  <2>1. thread_block(u) \/ where' = where
    BY <1>4 DEF Block, Drain, waitVars, threadVars
  <2> QED
    BY <2>1, BlockPlace
<1>5. ASSUME ClearWaitLocked(u) PROVE where'[t] # "runq"
  BY <1>5, ClearPlace DEF ClearWaitLocked
<1>6. ASSUME WakeThread(u) PROVE where'[t] # "runq"
  <2>1. woken[u] \in Seq(Threads) /\ woken[u] # <<>>
    BY <1>6, AtThread DEF WakeThread
  <2> PICK x \in Threads : x = Head(woken[u])
    BY <2>1
  <2>2. awaken(x, "awakened")
    BY <1>6 DEF WakeThread, finish_wakeup
  <2> QED
    BY <2>2, AwakenPlace
<1>7. ASSUME Handoff(u) PROVE where' = where
  <2>1. call[u].wake_key \in Keys
    BY <1>7, AtThread DEF Handoff, At, CallOK, WakeCalls
  <2> QED
    BY <1>7, <2>1, HandoffTakes DEF dequeue_for_wakeup, waitVars, threadVars
<1>8. ASSUME HandoffSwitch(u) PROVE where'[t] # "runq"
  BY <1>8 DEF HandoffSwitch, Inv, Typed
<1> QED
  BY <1>1, <1>2, <1>3, <1>4, <1>5, <1>6, <1>7, <1>8 DEF KernelStep

LEMMA NextPlace ==
  ASSUME Inv, Next, NEW t \in Threads, where[t] = "cpu"
  PROVE  where'[t] # "runq"
<1>1. ASSUME NEW u \in Threads, UserCall(u) PROVE where' = where
  BY <1>1 DEF UserCall, CallWait, CallWake, waitVars, threadVars
<1>2. ASSUME NEW u \in Threads, Processor(u) PROVE where'[t] # "runq"
  BY <1>2 DEF Processor, thread_dispatch, thread_select, Inv, Typed
<1>3. ASSUME Softclock PROVE where' = where
  BY <1>3 DEF Softclock, softclock, threadVars
<1>4. ASSUME Timeout PROVE where'[t] # "runq"
  <2>1. CASE thread_timeout_clear
    <3>1. soft.thread \in Threads
      BY <2>1 DEF thread_timeout_clear, Inv, SoftInv
    <3> QED
      BY <2>1, <3>1, ClearPlace DEF thread_timeout_clear
  <2>2. CASE thread_timeout \/ thread_timeout_drop
    BY <2>2 DEF thread_timeout, thread_timeout_drop, threadVars
  <2> QED
    BY <1>4, <2>1, <2>2 DEF Timeout
<1> QED
  BY <1>1, <1>2, <1>3, <1>4, KernelPlace DEF Next

\* A thread never runs on two processors: neither a wakeup, nor a timeout, nor
\* the direct switch of WAKE_WAIT puts a thread on a run queue while it still
\* is on a processor on its way to thread_block; only thread_dispatch does,
\* once the processor has switched away from it.
THEOREM StaysOnOneProcessor == Spec => OneProcessor
<1>1. Inv /\ [Next]_vars => [\A t \in Threads : where[t] = "cpu" => where'[t] # "runq"]_vars
  BY NextPlace
<1> QED
  BY <1>1, Invariant, PTL DEF Spec, OneProcessor

-----------------------------------------------------------------------------
(* Wakeups are not lost. *)

\* A step changes the place, the call and the list of at most thread w, and a
\* thread is queued by nobody but itself, at assert_wait.
OnlyMoves(w) ==
  /\ \A x \in Threads \ {w} :
       pc'[x] = pc[x] /\ call'[x] = call[x] /\ to_wake'[x] = to_wake[x]
  /\ \A x \in Threads : wait_event'[x] \in Events =>
       \/ wait_event'[x] = wait_event[x]
       \/ x = w /\ pc'[w] = "recheck" /\ call'[w].todo = DOMAIN call'[w].val

LEMMA PcStays ==
  ASSUME Inv, NEW w \in Threads, NEW p, pc' = [pc EXCEPT ![w] = p]
  PROVE  pc'[w] = p /\ \A x \in Threads \ {w} : pc'[x] = pc[x]
  BY DEF Inv, Typed

LEMMA CallStays ==
  ASSUME Inv, NEW w \in Threads, NEW c, call' = [call EXCEPT ![w] = c]
  PROVE  call'[w] = c /\ \A x \in Threads \ {w} : call'[x] = call[x]
  BY DEF Inv, Typed

LEMMA ClearOnly ==
  ASSUME Inv, NEW u \in Threads, NEW e, NEW result, clear_wait_on(u, e, result)
  PROVE  \A x \in Threads : wait_event'[x] \in Events => wait_event'[x] = wait_event[x]
  BY Kinds DEF clear_wait_on, hashVars, Inv, Typed

LEMMA WakeOnly ==
  ASSUME Inv, NEW u \in Threads, wait_event' = [wait_event EXCEPT ![u] = NO_EVENT]
  PROVE  \A x \in Threads : wait_event'[x] \in Events => wait_event'[x] = wait_event[x]
  BY Kinds DEF Inv, Typed

LEMMA DequeueOnly ==
  ASSUME Inv, NEW e, NEW ws, NEW rest, dequeue_for_wakeup(e, ws, rest)
  PROVE  \A x \in Threads : /\ wait_event'[x] \in Events => wait_event'[x] = wait_event[x]
                            /\ Contains(ws, x) => wait_event'[x] \notin Events
  BY Kinds DEF dequeue_for_wakeup, Inv, Typed

LEMMA QueuedOnly ==
  ASSUME Inv, NEW w \in Threads, NEW e, Queued(w, e), to_wake' = to_wake
  PROVE  /\ OnlyMoves(w) /\ pc'[w] = "recheck" /\ call'[w].todo = DOMAIN call'[w].val
         /\ call'[w].wake_key = call[w].wake_key
<1> PICK c : c = [call[w] EXCEPT !.event = e, !.todo = DOMAIN call[w].val]
  OBVIOUS
<1>1. /\ c.todo = DOMAIN c.val /\ c.wake_key = call[w].wake_key
  <2>1. call[w] \in CallTypes
    BY AtThread
  <2> QED
    BY <2>1 DEF CallTypes
<1>2. call' = [call EXCEPT ![w] = c] /\ pc' = [pc EXCEPT ![w] = "recheck"]
  BY DEF Queued, Goto, Words
<1>3. \A x \in Threads \ {w} : wait_event'[x] = wait_event[x]
  BY DEF Queued, assert_wait, Inv, Typed
<1>4. /\ pc'[w] = "recheck" /\ call'[w] = c
      /\ \A x \in Threads \ {w} : pc'[x] = pc[x] /\ call'[x] = call[x]
  BY <1>2, PcStays, CallStays
<1>5. pc'[w] = "recheck" /\ call'[w].todo = DOMAIN call'[w].val
  BY <1>1, <1>4
<1>6. OnlyMoves(w)
  BY <1>3, <1>4, <1>5 DEF OnlyMoves
<1> QED
  BY <1>1, <1>4, <1>5, <1>6

LEMMA NotWaitingOnly ==
  ASSUME Inv, NEW w \in Threads, NotWaiting(w)
  PROVE  \/ \E p \in {"unregister", "gate"} : pc' = [pc EXCEPT ![w] = p] /\ call' = call
         \/ ~WakeWait(w) /\ Return(w)
  BY DEF NotWaiting, Goto

\* What a step of thread w in the kernel does to the places and the calls.
LEMMA KernelMoves ==
  ASSUME Inv, NEW w \in Threads, KernelStep(w)
  PROVE  word' = word /\ OnlyMoves(w)
<1>1. ASSUME AssertWait(w) PROVE word' = word /\ OnlyMoves(w)
  BY <1>1, QueuedOnly DEF AssertWait
<1>2. ASSUME Register(w) PROVE word' = word /\ OnlyMoves(w)
  <2>1. CASE \A s \in Slots : futexv_table[s].thread # NOBODY
    BY <1>2, <2>1, PcStays, CallStays
       DEF Register, Return, Goto, OnlyMoves, waitVars, hashVars
  <2>2. CASE ~\A s \in Slots : futexv_table[s].thread # NOBODY
    BY <1>2, <2>2, QueuedOnly DEF Register
  <2> QED
    BY <2>1, <2>2
<1>3. ASSUME Recheck(w) PROVE word' = word /\ OnlyMoves(w)
  <2>1. \E p, c : pc' = [pc EXCEPT ![w] = p] /\ call' = [call EXCEPT ![w] = c]
    BY <1>3 DEF Recheck, Goto
  <2> QED
    BY <1>3, <2>1, PcStays, CallStays DEF Recheck, OnlyMoves, waitVars, hashVars
<1>4. ASSUME SetTimeout(w) \/ Block(w) PROVE word' = word /\ OnlyMoves(w)
  BY <1>4, PcStays DEF SetTimeout, Block, Goto, OnlyMoves, thread_set_timeout, thread_block,
     hashVars
<1>5. ASSUME Resume(w) PROVE word' = word /\ OnlyMoves(w)
  BY <1>5, PcStays, CallStays DEF Resume, Return, Goto, OnlyMoves, waitVars, hashVars
<1>6. ASSUME ClearWait(w) PROVE word' = word /\ OnlyMoves(w)
  BY <1>6, PcStays DEF ClearWait, Goto, OnlyMoves, waitVars, hashVars
<1>7. ASSUME ClearWaitLocked(w) PROVE word' = word /\ OnlyMoves(w)
  BY <1>7, PcStays, ClearOnly DEF ClearWaitLocked, Goto, OnlyMoves
<1>8. ASSUME Drain(w) \/ Drained(w) PROVE word' = word /\ OnlyMoves(w)
  <2>1. UNCHANGED <<wait_event, to_wake, word>>
    BY <1>8 DEF Drain, Drained, thread_block, waitVars, hashVars
  <2>2. \/ \E p : pc' = [pc EXCEPT ![w] = p] /\ call' = call
        \/ Return(w)
    BY <1>8, NotWaitingOnly DEF Drain, Drained, Goto
  <2> QED
    BY <2>1, <2>2, PcStays, CallStays DEF Return, Goto, OnlyMoves
<1>9. ASSUME Unregister(w) \/ WakeDone(w) PROVE word' = word /\ OnlyMoves(w)
  BY <1>9, PcStays, CallStays DEF Unregister, WakeDone, Return, Goto, OnlyMoves, waitVars, hashVars
<1>10. ASSUME Gate(w) \/ Scan(w) PROVE word' = word /\ OnlyMoves(w)
  <2>1. \E p : pc' = [pc EXCEPT ![w] = p]
    BY <1>10 DEF Gate, Scan, Goto
  <2>2. \A x \in Threads \ {w} : to_wake'[x] = to_wake[x]
    BY <1>10 DEF Gate, Scan, Inv, Typed
  <2>3. UNCHANGED <<wait_event, call, word>>
    BY <1>10 DEF Gate, Scan, waitVars, hashVars
  <2> QED
    BY <2>1, <2>2, <2>3, PcStays DEF OnlyMoves
<1>11. ASSUME WakeEvent(w) PROVE word' = word /\ OnlyMoves(w)
  <2>1. \E e, ws, rest : dequeue_for_wakeup(e, ws, rest)
    BY <1>11 DEF WakeEvent
  <2>2. UNCHANGED <<pc, call, word>> /\ \A x \in Threads \ {w} : to_wake'[x] = to_wake[x]
    BY <1>11 DEF WakeEvent, Inv, Typed
  <2> QED
    BY <2>1, <2>2, DequeueOnly DEF OnlyMoves
<1>12. ASSUME WakeThread(w) PROVE word' = word /\ OnlyMoves(w)
  <2>1. woken[w] \in Seq(Threads) /\ woken[w] # <<>>
    BY <1>12, AtThread DEF WakeThread
  <2> PICK x \in Threads : x = Head(woken[w])
    BY <2>1
  <2>2. wait_event' = [wait_event EXCEPT ![x] = NO_EVENT]
    BY <1>12 DEF WakeThread, finish_wakeup
  <2> QED
    BY <1>12, <2>2, WakeOnly DEF WakeThread, OnlyMoves
<1>13. ASSUME Handoff(w) PROVE word' = word /\ OnlyMoves(w)
  <2>1. call[w].wake_key \in Keys /\ UNCHANGED <<word, call, to_wake>>
    BY <1>13, AtThread DEF Handoff, At, CallOK, WakeCalls
  <2>2. \E p : pc' = [pc EXCEPT ![w] = p]
    BY <1>13, <2>1, HandoffTakes DEF Goto
  <2>3. \/ UNCHANGED waitVars
        \/ \E e, ws, rest : dequeue_for_wakeup(e, ws, rest)
    BY <1>13, <2>1, HandoffTakes
  <2>4. \A x \in Threads : wait_event'[x] \in Events => wait_event'[x] = wait_event[x]
    BY <2>3, DequeueOnly DEF waitVars, hashVars
  <2> QED
    BY <2>1, <2>2, <2>4, PcStays DEF OnlyMoves
<1>14. ASSUME HandoffSwitch(w) PROVE word' = word /\ OnlyMoves(w)
  <2>1. woken[w] \in Seq(Threads) /\ woken[w] # <<>>
    BY <1>14, AtThread, EmptySeq DEF HandoffSwitch, At, HandOK
  <2> PICK x \in Threads : x = Head(woken[w])
    BY <2>1
  <2>2. wait_event' = [wait_event EXCEPT ![x] = NO_EVENT]
    BY <1>14 DEF HandoffSwitch
  <2>3. UNCHANGED <<word, call, to_wake>> /\ \E p : pc' = [pc EXCEPT ![w] = p]
    BY <1>14 DEF HandoffSwitch, Goto
  <2> QED
    BY <2>2, <2>3, WakeOnly, PcStays DEF OnlyMoves
<1> QED
  BY <1>1, <1>2, <1>3, <1>4, <1>5, <1>6, <1>7, <1>8, <1>9, <1>10, <1>11, <1>12, <1>13, <1>14
     DEF KernelStep

\* A thread in a wait is on its way to sleep, or has come to its last words.
LEMMA WaiterMoves ==
  ASSUME Inv, NEW w \in Threads, KernelStep(w),
         pc'[w] \in SleepPcs \cup {"recheck"}, ~(call'[w].todo = DOMAIN call'[w].val)
  PROVE  \/ Recheck(w)
         \/ pc[w] \in SleepPcs /\ call' = call
<1> DEFINE Goal == Recheck(w) \/ (pc[w] \in SleepPcs /\ call' = call)
<1>1. ASSUME AssertWait(w) PROVE Goal
  BY <1>1, QueuedOnly DEF AssertWait
<1>2. ASSUME Register(w) PROVE Goal
  <2>1. CASE \A s \in Slots : futexv_table[s].thread # NOBODY
    BY <1>2, <2>1, PcStays DEF Register, Return, Goto, SleepPcs
  <2>2. CASE ~\A s \in Slots : futexv_table[s].thread # NOBODY
    BY <1>2, <2>2, QueuedOnly DEF Register
  <2> QED
    BY <2>1, <2>2
<1>3. ASSUME SetTimeout(w) \/ Block(w) \/ Handoff(w) \/ HandoffSwitch(w) PROVE Goal
  BY <1>3 DEF SetTimeout, Block, Handoff, HandoffSwitch, At, SleepPcs
<1>4. ASSUME Resume(w) PROVE Goal
  BY <1>4, PcStays DEF Resume, Return, Goto, SleepPcs
<1>5. ASSUME ClearWait(w) \/ ClearWaitLocked(w) PROVE Goal
  <2>1. \E p \in {"drain", "clear2"} : pc' = [pc EXCEPT ![w] = p]
    BY <1>5 DEF ClearWait, ClearWaitLocked, Goto
  <2> QED
    BY <2>1, PcStays DEF SleepPcs
<1>6. ASSUME Drain(w) \/ Drained(w) PROVE Goal
  <2>1. \E p \in {"unregister", "gate", "drained", "user"} : pc' = [pc EXCEPT ![w] = p]
    BY <1>6, NotWaitingOnly DEF Drain, Drained, Return, Goto
  <2> QED
    BY <2>1, PcStays DEF SleepPcs
<1>7. ASSUME Unregister(w) \/ WakeDone(w) PROVE Goal
  <2>1. pc' = [pc EXCEPT ![w] = "user"]
    BY <1>7 DEF Unregister, WakeDone, Return, Goto
  <2>2. pc'[w] = "user"
    BY <2>1, PcStays
  <2> QED
    BY <2>2 DEF SleepPcs
<1>8. ASSUME Gate(w) \/ Scan(w) PROVE Goal
  <2>1. \E p \in {"scan", "wake"} : pc' = [pc EXCEPT ![w] = p]
    BY <1>8 DEF Gate, Scan, Goto
  <2> QED
    BY <2>1, PcStays DEF SleepPcs
<1>9. ASSUME WakeEvent(w) \/ WakeThread(w) PROVE Goal
  BY <1>9 DEF WakeEvent, WakeThread, At, SleepPcs
<1> QED
  BY <1>1, <1>2, <1>3, <1>4, <1>5, <1>6, <1>7, <1>8, <1>9 DEF KernelStep

\* The word that a thread has just read again is as expected.
LEMMA WaiterKeeps ==
  ASSUME Inv, Inv', NEW w \in Threads, KernelStep(w), NEW k \in DOMAIN call'[w].val,
         Rechecked(w, k)', word[k] # call'[w].val[k]
  PROVE  Rechecked(w, k) /\ call'[w].val = call[w].val /\ call'[w].event = call[w].event
<1>1. /\ pc'[w] \in SleepPcs \cup {"recheck"} /\ k \notin call'[w].todo
      /\ wait_event'[w] = call'[w].event
  BY DEF Rechecked
<1>2. ~(call'[w].todo = DOMAIN call'[w].val)
  BY <1>1
<1>3. call'[w].event \in Events
  <2>1. CallOK(w, pc'[w], call'[w])
    BY DEF Inv, CallInv
  <2> QED
    BY <1>1, <2>1, Kinds DEF CallOK, SlotPcs, WaitPcs
<1>4. wait_event'[w] = wait_event[w]
  BY <1>1, <1>2, <1>3, KernelMoves DEF OnlyMoves
<1>5. CASE Recheck(w)
  <2> PICK j \in call[w].todo, fault \in BOOLEAN :
        /\ call' = [call EXCEPT ![w] = [call[w] EXCEPT !.todo = call[w].todo \ {j}]]
        /\ fault \/ word[j] # call[w].val[j] => pc' = [pc EXCEPT ![w] = "clear"]
    BY <1>5 DEF Recheck, Goto
  <2> PICK c : c = [call[w] EXCEPT !.todo = call[w].todo \ {j}]
    OBVIOUS
  <2>1. c.todo = call[w].todo \ {j} /\ c.val = call[w].val /\ c.event = call[w].event
    <3>1. call[w] \in CallTypes
      BY AtThread
    <3> QED
      BY <3>1 DEF CallTypes
  <2>2. call'[w] = c
    BY CallStays
  <2>3. word[j] = call[w].val[j]
    <3>1. pc'[w] # "clear"
      BY <1>1 DEF SleepPcs
    <3> QED
      BY <3>1, PcStays
  <2>4. k # j
    BY <2>1, <2>2, <2>3
  <2>5. pc[w] = "recheck"
    BY <1>5 DEF Recheck, At
  <2> QED
    BY <1>1, <1>4, <2>1, <2>2, <2>4, <2>5 DEF Rechecked
<1>6. CASE pc[w] \in SleepPcs /\ call' = call
  BY <1>1, <1>4, <1>6 DEF Rechecked
<1> QED
  BY <1>1, <1>2, <1>5, <1>6, WaiterMoves

\* The event of a thread that waits for word k: the word, or its slot.
LEMMA WaiterEvent ==
  ASSUME Inv, NEW t \in Threads, NEW k \in DOMAIN call[t].val, Rechecked(t, k),
         NEW e, e = call[t].event
  PROVE  /\ k \in Keys /\ e \in Events /\ wait_event[t] = e
         /\ \/ e = k /\ ~Multi(t)
            \/ /\ e \in Slots /\ e \notin Keys /\ Multi(t)
               /\ futexv_table[e].thread = t /\ k \in futexv_table[e].keys
               /\ futexv_active # 0
               /\ \A x \in Threads : wait_event[x] = e => x = t
<1>1. k \in Keys /\ wait_event[t] = e /\ pc[t] \in SlotPcs /\ pc[t] \in WaitPcs
  BY AtThread DEF Rechecked, SlotPcs, WaitPcs
<1>2. IF Multi(t) THEN e \in Slots ELSE e \in Keys /\ DOMAIN call[t].val = {e}
  BY <1>1, AtThread DEF CallOK, Multi
<1>3. CASE ~Multi(t)
  BY <1>1, <1>2, <1>3, Kinds
<1>4. CASE Multi(t)
  <2>1. e \in Slots /\ e \in Events /\ e \notin Keys /\ futexv_table[e].thread = t
    BY <1>1, <1>2, <1>4, Kinds DEF Inv, SlotInv
  <2>2. t # NOBODY /\ FreeSlot.thread = NOBODY
    BY Kinds DEF FreeSlot
  <2>3. k \in futexv_table[e].keys
    BY <2>1, <2>2 DEF Inv, SlotInv, SlotOK, Words
  <2>4. e \in {s \in Slots : futexv_table[s] # FreeSlot}
    BY <2>1, <2>2
  <2>5. futexv_active # 0
    <3> DEFINE A == {s \in Slots : futexv_table[s] # FreeSlot}
    <3>1. futexv_active = Cardinality(A) /\ e \in A /\ A \in SUBSET Slots
      BY <2>4 DEF Inv, SlotInv
    <3> HIDE DEF A
    <3>2. Cardinality(A \ {e}) = Cardinality(A) - 1 /\ A \ {e} \in SUBSET Slots
      BY <2>1, <3>1, CountSlots
    <3>3. Cardinality(A \ {e}) \in Nat /\ Cardinality(A) \in Nat
      BY <2>1, <3>1, <3>2, CountSlots
    <3> QED
      BY <3>1, <3>2, <3>3
  <2>6. ASSUME NEW x \in Threads, wait_event[x] = e PROVE x = t
    <3>1. call[x].event = e /\ pc[x] \in SlotPcs
      BY <2>1, <2>6, AtThread DEF ThreadOK, SlotPcs
    <3>2. Multi(x)
      BY <2>1, <3>1, AtThread DEF CallOK, Multi
    <3> QED
      BY <2>1, <3>1, <3>2 DEF Inv, SlotInv
  <2> QED
    BY <1>1, <1>4, <2>1, <2>3, <2>5, <2>6
<1> QED
  BY <1>3, <1>4

\* A wakeup of a slot, of all the waiters on a word or of its only waiter
\* takes that waiter.
LEMMA WakeTakes ==
  ASSUME Inv, SoleWaiter, NEW w \in Threads, WakeEvent(w), NEW t \in Threads \ {w},
         NEW k \in DOMAIN call[t].val, NEW e, e = call[t].event, Rechecked(t, k),
         wait_event'[t] = e, call[w].wake_key = k, Contains(to_wake[w], e)
  PROVE  Contains(to_wake'[w], e)
<1> PICK q \in Seq(Events) : q = to_wake[w] /\ q # <<>>
  BY AtThread DEF WakeEvent
<1>1. to_wake'[w] = Tail(q)
  BY DEF WakeEvent, Inv, Typed
<1>2. e \in Events /\ k \in Keys /\ wait_event[t] = e
  BY WaiterEvent
<1>3. Head(q) # e
  <2> SUFFICES ASSUME Head(q) = e PROVE FALSE
    OBVIOUS
  <2>1. dequeue_for_wakeup(e, Woken(w, e), SubSeq(queue[e], Len(Woken(w, e)) + 1, Len(queue[e])))
    BY DEF WakeEvent
  <2>2. ~Contains(Woken(w, e), t)
    BY <1>2, <2>1, DequeueOnly
  <2> PICK r \in Seq(Threads) : r = queue[e] /\ Once(r)
    BY <1>2 DEF Inv, Typed, HashInv
  <2>3. \A x \in Threads : Contains(r, x) <=> wait_event[x] = e
    BY <1>2 DEF Inv, HashInv
  <2> PICK n \in 0 .. Len(r) :
        /\ Woken(w, e) = SubSeq(r, 1, n)
        /\ n = 0 => r = <<>>
        /\ e \in Keys /\ call[w].name = "wake_all" => n = Len(r)
    BY <1>2, WokenPrefix
  <2>4. Contains(r, t)
    BY <1>2, <2>3
  <2>5. n \in 1 .. Len(r)
    BY <2>4 DEF Contains
  <2>6. \A i \in 1 .. n : SubSeq(r, 1, n)[i] = r[i] /\ Len(SubSeq(r, 1, n)) = n
    BY <2>5
  <2>7. CASE e \in Keys /\ call[w].name = "wake_all"
    <3>1. SubSeq(r, 1, n) = r
      BY <2>7
    <3> QED
      BY <2>2, <2>4, <3>1
  <2>8. CASE ~(e \in Keys /\ call[w].name = "wake_all")
    <3> PICK v \in Threads : v = r[1]
      BY <2>5
    <3>1. Contains(r, v) /\ Contains(SubSeq(r, 1, n), v)
      BY <2>5, <2>6 DEF Contains
    <3>2. wait_event[v] = e
      BY <2>3, <3>1
    <3>3. v = t
      <4>1. CASE e = k /\ ~Multi(t)
        <5>1. call[w].name \in WakeCalls \ {"wake_all"}
          BY <1>2, <2>8, <4>1, AtThread DEF CallOK
        <5>2. pc[w] = "wake"
          BY DEF WakeEvent, At
        <5>3. wait_event[w] = NO_EVENT
          BY <5>2, AtThread DEF ThreadOK, WaitPcs, SleepPcs, LeavePcs
        <5>4. v # w
          BY <1>2, <3>2, <5>3, Kinds
        <5> QED
          BY <1>2, <3>2, <4>1, <5>1, <5>4 DEF SoleWaiter
      <4>2. CASE \A x \in Threads : wait_event[x] = e => x = t
        BY <3>2, <4>2
      <4> QED
        BY <4>1, <4>2, WaiterEvent
    <3> QED
      BY <2>2, <3>1, <3>3
  <2> QED
    BY <2>7, <2>8
<1>4. Contains(Tail(q), e)
  <2> PICK i \in 1 .. Len(q) : q[i] = e
    BY DEF Contains
  <2>1. i # 1
    BY <1>3
  <2>2. Len(Tail(q)) = Len(q) - 1 /\ \A j \in 1 .. Len(q) - 1 : Tail(q)[j] = q[j + 1]
    BY HeadTailProperties
  <2>3. i - 1 \in 1 .. Len(q) - 1 /\ (i - 1) + 1 = i
    BY <2>1
  <2> QED
    BY <2>2, <2>3 DEF Contains
<1> QED
  BY <1>1, <1>4

\* The handoff of WAKE_WAIT takes the only waiter.
LEMMA HandoffTakesIt ==
  ASSUME Inv, SoleWaiter, NEW w \in Threads, Handoff(w), NEW t \in Threads \ {w},
         NEW k \in DOMAIN call[t].val, NEW e, e = call[t].event, Rechecked(t, k),
         wait_event'[t] = e, call[w].wake_key = k
  PROVE  FALSE
<1>1. k \in Keys /\ e \in Events /\ wait_event[t] = e
  BY WaiterEvent
<1>2. call[w].name \in WakeWaits /\ call[w].name \in WakeCalls \ {"wake_all"}
  BY AtThread DEF Handoff, At, CallOK, WakeCalls, WakeWaits
<1>3. ~Multi(t)
  BY <1>2 DEF SoleWaiter, WakeWait, Words
<1>4. e = k
  BY <1>3, WaiterEvent
<1>5. \E u \in Threads, rest \in Seq(Threads) :
        /\ u # w /\ wait_event[u] = k /\ dequeue_for_wakeup(k, <<u>>, rest)
  <2>1. ~\A x \in Threads : wait_event[x] = k => x = w
    BY <1>1, <1>4
  <2>2. \/ \A x \in Threads : wait_event[x] = k => x = w
        \/ \E u \in Threads, rest \in Seq(Threads) :
             u # w /\ wait_event[u] = k /\ dequeue_for_wakeup(k, <<u>>, rest)
    BY <1>1, HandoffTakes
  <2> QED
    BY <2>1, <2>2
<1> PICK u \in Threads, rest \in Seq(Threads) :
        u # w /\ wait_event[u] = k /\ dequeue_for_wakeup(k, <<u>>, rest)
  BY <1>5
<1>6. u = t
  BY <1>1, <1>2, <1>4 DEF SoleWaiter
<1>7. Contains(<<u>>, t)
  BY <1>6, OneThread
<1> QED
  BY <1>1, <1>7, DequeueOnly

\* A waker goes on until it has looked at the queue of the waiter.
LEMMA WakerKeeps ==
  ASSUME Inv, SoleWaiter, NEW w \in Threads, KernelStep(w), NEW t \in Threads \ {w},
         NEW k \in DOMAIN call[t].val, NEW e, e = call[t].event, Rechecked(t, k),
         wait_event'[t] = e, StillToWake(w, k, e)
  PROVE  /\ call'[w].wake_key = k
         /\ pc'[w] = "wake" => Contains(to_wake'[w], e)
         /\ pc'[w] \notin {"switch", "block", "asleep"}
<1> DEFINE Goal == /\ call'[w].wake_key = k
                   /\ pc'[w] = "wake" => Contains(to_wake'[w], e)
                   /\ pc'[w] \notin {"switch", "block", "asleep"}
<1>1. /\ call[w].wake_key = k /\ pc[w] \notin {"switch", "block", "asleep"}
      /\ pc[w] = "wake" => Contains(to_wake[w], e)
  BY DEF StillToWake
<1>2. k \in Keys /\ e \in Events
  BY WaiterEvent
<1>3. /\ call[w].name \in WakeCalls /\ ~Multi(w)
      /\ pc[w] \in SlotPcs => WakeWait(w)
      /\ pc[w] \notin {"register", "unregister"}
  <2>1. call[w].name \in WakeCalls
    BY <1>1, <1>2, AtThread DEF CallOK
  <2>2. call[w].name \notin MultiCalls
    BY <2>1 DEF WakeCalls, WakeWaits, MultiCalls
  <2>3. pc[w] \in SlotPcs => pc[w] \notin WakePcs
    BY DEF SlotPcs, WaitPcs, SleepPcs, LeavePcs, WakePcs
  <2>4. pc[w] \in SlotPcs => call[w].name \in WakeWaits
    BY <2>1, <2>3, AtThread DEF CallOK, WakeCalls
  <2>5. pc[w] \notin {"register", "unregister"}
    BY <2>2, AtThread DEF CallOK
  <2> QED
    BY <2>1, <2>2, <2>4, <2>5 DEF Multi, WakeWait
<1>4. ASSUME NEW p, pc' = [pc EXCEPT ![w] = p], call' = call,
             p \notin {"wake", "switch", "block", "asleep"}
      PROVE  Goal
  BY <1>1, <1>4, PcStays
<1>5. ASSUME AssertWait(w) PROVE Goal
  BY <1>1, <1>5, QueuedOnly DEF AssertWait
<1>6. ASSUME Recheck(w) PROVE Goal
  <2>1. WakeWait(w)
    BY <1>3, <1>6 DEF Recheck, At, SlotPcs, WaitPcs
  <2>2. PICK p \in {"clear", "recheck", "timer", "handoff"} : pc' = [pc EXCEPT ![w] = p]
    BY <1>6, <2>1 DEF Recheck, Goto, Sleep
  <2>3. PICK ks : call' = [call EXCEPT ![w] = [call[w] EXCEPT !.todo = ks]]
    BY <1>6 DEF Recheck
  <2>4. call[w] \in CallTypes
    BY AtThread
  <2>5. [call[w] EXCEPT !.todo = ks].wake_key = call[w].wake_key
    BY <2>4 DEF CallTypes
  <2>6. call'[w] = [call[w] EXCEPT !.todo = ks]
    BY <2>3, CallStays
  <2>7. pc'[w] = p
    BY <2>2, PcStays
  <2> QED
    BY <1>1, <2>5, <2>6, <2>7
<1>7. ASSUME SetTimeout(w) PROVE Goal
  <2>1. WakeWait(w)
    BY <1>3, <1>7 DEF SetTimeout, At, SlotPcs, WaitPcs, SleepPcs
  <2>2. pc' = [pc EXCEPT ![w] = "handoff"] /\ call' = call
    BY <1>7, <2>1 DEF SetTimeout, Goto, Sleep
  <2> QED
    BY <1>4, <2>2
<1>8. ASSUME ClearWait(w) \/ ClearWaitLocked(w) PROVE Goal
  <2>1. \E p \in {"drain", "clear2"} : pc' = [pc EXCEPT ![w] = p] /\ call' = call
    BY <1>8 DEF ClearWait, ClearWaitLocked, Goto
  <2> QED
    BY <1>4, <2>1
<1>9. ASSUME Drain(w) \/ Drained(w) PROVE Goal
  <2>1. WakeWait(w)
    BY <1>3, <1>9 DEF Drain, Drained, At, SlotPcs, LeavePcs
  <2>2. \E p \in {"unregister", "gate", "drained"} : pc' = [pc EXCEPT ![w] = p] /\ call' = call
    BY <1>9, <2>1, NotWaitingOnly DEF Drain, Drained, Goto
  <2> QED
    BY <1>4, <2>2
<1>10. ASSUME Gate(w) PROVE Goal
  <2>1. CASE futexv_active # 0
    BY <1>4, <1>10, <2>1 DEF Gate, Goto
  <2>2. CASE futexv_active = 0
    <3>1. e = k
      BY <2>2, WaiterEvent
    <3>2. to_wake'[w] = <<k>> /\ pc' = [pc EXCEPT ![w] = "wake"] /\ call' = call
      BY <1>1, <1>10, <2>2 DEF Gate, Goto, Inv, Typed
    <3>3. Len(<<k>>) = 1 /\ <<k>>[1] = k /\ 1 \in 1 .. 1
      OBVIOUS
    <3>4. Contains(<<k>>, k)
      BY <3>3 DEF Contains
    <3> QED
      BY <1>1, <3>1, <3>2, <3>4, PcStays
  <2> QED
    BY <2>1, <2>2
<1>11. ASSUME Scan(w) PROVE Goal
  <2> PICK A \in SUBSET Slots : A = {s \in Slots : k \in futexv_table[s].keys}
    OBVIOUS
  <2> PICK l : l = Append(SetToSeq(A), k)
    OBVIOUS
  <2>1. to_wake' = [to_wake EXCEPT ![w] = l]
    BY <1>1, <1>11 DEF Scan
  <2>2. to_wake'[w] = l
    BY <2>1 DEF Inv, Typed
  <2>3. e = k \/ e \in A
    BY WaiterEvent
  <2>4. Contains(Append(SetToSeq(A), k), e)
    BY <1>2, <2>3, ScanSequence
  <2>5. pc' = [pc EXCEPT ![w] = "wake"] /\ call' = call
    BY <1>11 DEF Scan, Goto
  <2> QED
    BY <1>1, <2>4, <2>5, <2>2, PcStays
<1>12. ASSUME WakeEvent(w) PROVE Goal
  <2>1. pc[w] = "wake" /\ pc' = pc /\ call' = call
    BY <1>12 DEF WakeEvent, At
  <2>2. Contains(to_wake'[w], e)
    BY <1>1, <1>12, <2>1, WakeTakes
  <2> QED
    BY <1>1, <2>1, <2>2
<1>13. ASSUME WakeThread(w) PROVE Goal
  BY <1>1, <1>13 DEF WakeThread
<1>14. ASSUME WakeDone(w) PROVE Goal
  <2>1. pc[w] = "wake" /\ to_wake[w] = <<>>
    BY <1>14 DEF WakeDone, At
  <2>2. ~Contains(<<>>, e)
    BY DEF Contains
  <2> QED
    BY <1>1, <2>1, <2>2
<1>15. ASSUME Handoff(w) PROVE Goal
  BY <1>1, <1>15, HandoffTakesIt
<1>16. ASSUME Register(w) \/ Unregister(w) \/ Block(w) \/ Resume(w) \/ HandoffSwitch(w)
       PROVE  Goal
  BY <1>1, <1>3, <1>16 DEF Register, Unregister, Block, Resume, HandoffSwitch, At
<1> QED
  BY <1>5, <1>6, <1>7, <1>8, <1>9, <1>10, <1>11, <1>12, <1>13, <1>14, <1>15, <1>16
     DEF KernelStep

LEMMA KernelWakes ==
  ASSUME Inv, Inv', SoleWaiter, WakeInv, NEW w \in Threads, KernelStep(w) PROVE WakeInv'
<1> SUFFICES ASSUME NEW t \in Threads, NEW k \in DOMAIN call'[t].val, Rechecked(t, k)',
                    word'[k] # call'[t].val[k]
             PROVE  \E u \in Threads \ {t} : StillToWake(u, k, call[t].event)'
  BY DEF WakeInv, Words
<1>1. word' = word /\ OnlyMoves(w)
  BY KernelMoves
<1>2. wait_event'[t] = call'[t].event /\ call'[t].event \in Events
  <2>1. CallOK(t, pc'[t], call'[t])
    BY DEF Inv, CallInv
  <2> QED
    BY <2>1, Kinds DEF CallOK, Rechecked, SlotPcs, WaitPcs
<1>3. Rechecked(t, k) /\ call'[t].val = call[t].val /\ call'[t].event = call[t].event
  <2>1. CASE t = w
    BY <1>1, <2>1, WaiterKeeps
  <2>2. CASE t # w
    <3>1. pc'[t] = pc[t] /\ call'[t] = call[t]
      BY <1>1, <2>2 DEF OnlyMoves
    <3>2. wait_event'[t] = wait_event[t]
      BY <1>1, <1>2, <2>2 DEF OnlyMoves
    <3> QED
      BY <3>1, <3>2 DEF Rechecked
  <2> QED
    BY <2>1, <2>2
<1> PICK e : e = call[t].event
  OBVIOUS
<1>4. k \in DOMAIN call[t].val /\ word[k] # call[t].val[k] /\ wait_event'[t] = e
  BY <1>1, <1>2, <1>3
<1> PICK u \in Threads \ {t} : StillToWake(u, k, e)
  BY <1>3, <1>4 DEF WakeInv, Words
<1>5. /\ call'[u].wake_key = k
      /\ pc'[u] = "wake" => Contains(to_wake'[u], e)
      /\ pc'[u] \notin {"switch", "block", "asleep"}
  <2>1. CASE u = w
    <3>1. t \in Threads \ {w} /\ StillToWake(w, k, e)
      BY <2>1
    <3> QED
      BY <1>3, <1>4, <2>1, <3>1, WakerKeeps
  <2>2. CASE u # w
    <3>1. pc'[u] = pc[u] /\ call'[u] = call[u] /\ to_wake'[u] = to_wake[u]
      BY <1>1, <2>2 DEF OnlyMoves
    <3> QED
      BY <3>1 DEF StillToWake
  <2> QED
    BY <2>1, <2>2
<1>6. call'[t].event = e
  BY <1>3
<1> QED
  BY <1>5, <1>6 DEF StillToWake

\* A call from user mode: the caller is no waiter, and if it has changed a word
\* it is that word's waker.
LEMMA UserMoves ==
  ASSUME Inv, NEW w \in Threads, UserCall(w)
  PROVE  /\ pc[w] = "user" /\ pc'[w] \in {"assert", "register", "gate"}
         /\ UNCHANGED <<wait_event, to_wake>>
         /\ \A x \in Threads \ {w} : pc'[x] = pc[x] /\ call'[x] = call[x]
         /\ \A k \in Keys : word'[k] = word[k] \/ call'[w].wake_key = k
<1>1. ASSUME NEW name, NEW ks \in SUBSET Keys, CallWait(w, name, ks)
      PROVE  /\ pc[w] = "user" /\ pc'[w] \in {"assert", "register", "gate"}
             /\ UNCHANGED <<wait_event, to_wake, word>>
             /\ \A x \in Threads \ {w} : pc'[x] = pc[x] /\ call'[x] = call[x]
  <2>1. \E p \in {"assert", "register"} : pc' = [pc EXCEPT ![w] = p]
    BY <1>1 DEF CallWait, Goto
  <2>2. \E c : call' = [call EXCEPT ![w] = c]
    BY <1>1 DEF CallWait
  <2>3. pc[w] = "user" /\ UNCHANGED <<wait_event, to_wake, word>>
    BY <1>1 DEF CallWait, MayCall, At, waitVars, hashVars
  <2> QED
    BY <2>1, <2>2, <2>3, PcStays, CallStays
<1>2. ASSUME NEW name \in WakeCalls, NEW k \in Keys, NEW v \in Keys, CallWake(w, name, k, v)
      PROVE  /\ pc[w] = "user" /\ pc'[w] \in {"assert", "register", "gate"}
             /\ UNCHANGED <<wait_event, to_wake>>
             /\ \A x \in Threads \ {w} : pc'[x] = pc[x] /\ call'[x] = call[x]
             /\ \A j \in Keys : word'[j] = word[j] \/ call'[w].wake_key = j
  <2>1. \E p \in {"assert", "gate"} : pc' = [pc EXCEPT ![w] = p]
    BY <1>2 DEF CallWake, Goto
  <2> DEFINE c == [NoCall EXCEPT !.name = name, !.wake_key = k,
                                 !.val = IF name \in WakeWaits
                                         THEN [x \in {v} |-> word'[x]] ELSE @]
  <2>2. call' = [call EXCEPT ![w] = c] /\ c.wake_key = k
    <3>1. call' = [call EXCEPT ![w] = c]
      BY <1>2 DEF CallWake
    <3>2. c.wake_key = k
      BY DEF NoCall
    <3> QED
      BY <3>1, <3>2
  <2> HIDE DEF c
  <2>3. pc[w] = "user" /\ UNCHANGED <<wait_event, to_wake>>
    BY <1>2 DEF CallWake, MayCall, At, waitVars, hashVars
  <2>4. \A j \in Keys \ {k} : word'[j] = word[j]
    BY <1>2 DEF CallWake, Inv, Typed
  <2>5. call'[w].wake_key = k /\ \A x \in Threads \ {w} : call'[x] = call[x]
    BY <2>2, CallStays
  <2> QED
    BY <2>1, <2>3, <2>4, <2>5, PcStays
<1> QED
  BY <1>1, <1>2 DEF UserCall, WakeCalls

LEMMA UserWakes ==
  ASSUME Inv, WakeInv, NEW w \in Threads, UserCall(w) PROVE WakeInv'
<1> SUFFICES ASSUME NEW t \in Threads, NEW k \in DOMAIN call'[t].val, Rechecked(t, k)',
                    word'[k] # call'[t].val[k]
             PROVE  \E u \in Threads \ {t} : StillToWake(u, k, call[t].event)'
  BY DEF WakeInv, Words
<1>1. /\ pc[w] = "user" /\ pc'[w] \in {"assert", "register", "gate"}
      /\ UNCHANGED <<wait_event, to_wake>>
      /\ \A x \in Threads \ {w} : pc'[x] = pc[x] /\ call'[x] = call[x]
      /\ \A j \in Keys : word'[j] = word[j] \/ call'[w].wake_key = j
  BY UserMoves
<1>2. t # w
  BY <1>1 DEF Rechecked, SleepPcs
<1>3. call'[t] = call[t] /\ Rechecked(t, k)
  BY <1>1, <1>2 DEF Rechecked
<1>4. k \in DOMAIN call[t].val /\ k \in Keys
  BY <1>3, AtThread
<1>5. CASE call'[w].wake_key = k
  BY <1>1, <1>2, <1>5 DEF StillToWake
<1>6. CASE word'[k] = word[k]
  <2> PICK u \in Threads \ {t} : StillToWake(u, k, call[t].event)
    BY <1>3, <1>4, <1>6 DEF WakeInv, Words
  <2>1. u # w
    <3>1. call[w] = NoCall
      BY <1>1, AtThread DEF CallOK
    <3> QED
      BY <1>4, <3>1, NoCallTyped, Kinds DEF StillToWake
  <2>2. pc'[u] = pc[u] /\ call'[u] = call[u] /\ to_wake'[u] = to_wake[u]
    BY <1>1, <2>1
  <2> QED
    BY <1>3, <2>2 DEF StillToWake
<1> QED
  BY <1>1, <1>4, <1>5, <1>6

\* A step that leaves the futex code alone queues nobody.
LEMMA OtherWakes ==
  ASSUME Inv, Inv', WakeInv, UNCHANGED <<word, pc, call, to_wake>>,
         \A x \in Threads : wait_event'[x] \in Events => wait_event'[x] = wait_event[x]
  PROVE  WakeInv'
<1> SUFFICES ASSUME NEW t \in Threads, NEW k \in DOMAIN call[t].val, Rechecked(t, k)',
                    word[k] # call[t].val[k]
             PROVE  \E u \in Threads \ {t} : StillToWake(u, k, call[t].event)'
  BY DEF WakeInv, Words
<1>1. pc[t] \in SlotPcs /\ wait_event'[t] = call[t].event
  BY DEF Rechecked, SlotPcs, WaitPcs
<1>2. call[t].event \in Events
  BY <1>1, AtThread, Kinds DEF CallOK
<1>3. Rechecked(t, k)
  BY <1>1, <1>2 DEF Rechecked
<1> PICK u \in Threads \ {t} : StillToWake(u, k, call[t].event)
  BY <1>3 DEF WakeInv, Words
<1> QED
  BY DEF StillToWake

LEMMA NextWakes ==
  ASSUME Inv, Inv', SoleWaiter, WakeInv, [Next]_vars PROVE WakeInv'
<1>1. ASSUME NEW w \in Threads, UserCall(w) \/ KernelStep(w) PROVE WakeInv'
  BY <1>1, UserWakes, KernelWakes
<1>2. ASSUME NEW w \in Threads, Processor(w) PROVE WakeInv'
  <2>1. UNCHANGED <<wait_event, word, pc, call, to_wake>>
    BY <1>2 DEF Processor, thread_dispatch, thread_select, hashVars, futexVars
  <2> QED
    BY <2>1, OtherWakes
<1>3. ASSUME Softclock PROVE WakeInv'
  <2>1. UNCHANGED <<wait_event, word, pc, call, to_wake>>
    BY <1>3 DEF Softclock, softclock, hashVars, futexVars
  <2> QED
    BY <2>1, OtherWakes
<1>4. ASSUME Timeout PROVE WakeInv'
  <2>1. UNCHANGED <<word, pc, call, to_wake>>
    BY <1>4 DEF Timeout, futexVars
  <2>2. \A x \in Threads : wait_event'[x] \in Events => wait_event'[x] = wait_event[x]
    <3>1. CASE thread_timeout_clear
      <4>1. soft.thread \in Threads
        BY <3>1 DEF thread_timeout_clear, Inv, SoftInv
      <4> QED
        BY <3>1, <4>1, ClearOnly DEF thread_timeout_clear
    <3>2. CASE thread_timeout \/ thread_timeout_drop
      BY <3>2 DEF thread_timeout, thread_timeout_drop, hashVars
    <3> QED
      BY <1>4, <3>1, <3>2 DEF Timeout
  <2> QED
    BY <2>1, <2>2, OtherWakes
<1>5. ASSUME UNCHANGED vars PROVE WakeInv'
  <2>1. UNCHANGED <<wait_event, word, pc, call, to_wake>>
    BY <1>5 DEF vars, waitVars, hashVars, futexVars
  <2> QED
    BY <2>1, OtherWakes
<1> QED
  BY <1>1, <1>2, <1>3, <1>4, <1>5 DEF Next

LEMMA InitWakes == Init => WakeInv
<1> SUFFICES ASSUME Init PROVE WakeInv
  OBVIOUS
<1>1. \A t \in Threads : pc[t] = "user"
  BY DEF Init
<1> QED
  BY <1>1 DEF WakeInv, Rechecked, SleepPcs

LEMMA WakesEnough ==
  ASSUME Inv, WakeInv PROVE NoLostWakeup
<1> SUFFICES ASSUME NEW t \in Threads, NEW k \in Words(t), Asleep(t), word[k] # call[t].val[k]
             PROVE  \E u \in Threads : StillToWake(u, k, call[t].event)
  BY DEF NoLostWakeup
<1>1. pc[t] \in SleepPcs /\ wait_event[t] = call[t].event
  BY DEF Asleep, SleepPcs
<1>2. call[t].todo = {}
  BY <1>1, AtThread DEF CallOK
<1>3. Rechecked(t, k)
  BY <1>1, <1>2 DEF Rechecked
<1> QED
  BY <1>3 DEF WakeInv

\* No wakeup is lost while the wakers of one thread find one thread to wake:
\* whatever the order in which the waiters queue themselves, read their words
\* again and set their timers, and the wakers change the words, look at
\* futexv_active, scan futexv_table and take threads out of the hash, a thread
\* that sleeps on a word which has changed has a waker that has yet to look at
\* its queue.
THEOREM SoleWaitersAreWoken == Spec /\ []SoleWaiter => []NoLostWakeup
<1>1. Init => WakeInv
  BY InitWakes
<1>2. Inv /\ Inv' /\ SoleWaiter /\ WakeInv /\ [Next]_vars => WakeInv'
  BY NextWakes
<1>3. Inv /\ WakeInv => NoLostWakeup
  BY WakesEnough
<1> QED
  BY <1>1, <1>2, <1>3, Invariant, PTL DEF Spec

LEMMA FewIsSole ==
  ASSUME Inv, FewWaiters PROVE SoleWaiter
<1> SUFFICES ASSUME NEW u \in Threads, call[u].name \in WakeCalls \ {"wake_all"},
                    NEW t \in Threads \ {u}, NEW v \in Threads \ {u}
             PROVE  /\ wait_event[t] = call[u].wake_key /\ wait_event[v] = call[u].wake_key
                         => t = v
                    /\ WakeWait(u) /\ Multi(t) => call[u].wake_key \notin Words(t)
  BY DEF SoleWaiter
<1>1. \A x \in Threads : call[x].name # "none" => call[x].name \in Calls[x]
  BY AtThread, NoCallTyped DEF CallOK
<1>2. call[u].name \in Calls[u] \cap (WakeCalls \ {"wake_all"}) /\ call[u].wake_key \in Keys
  <2>1. call[u].name # "none"
    BY DEF WakeCalls, WakeWaits
  <2> QED
    BY <1>1, <2>1, AtThread DEF CallOK
<1>3. ASSUME NEW x \in Threads, wait_event[x] = call[u].wake_key PROVE OneWordCalls(x) # {}
  <2>1. call[x].event = call[u].wake_key /\ pc[x] \in WaitPcs
    BY <1>2, <1>3, AtThread, Kinds DEF ThreadOK
  <2>2. pc[x] \in SlotPcs /\ pc[x] # "user" /\ pc[x] \notin WakePcs
    BY <2>1 DEF SlotPcs, WaitPcs, SleepPcs, WakePcs
  <2>3. call[x].name \notin MultiCalls /\ call[x].name \notin {"wake_one", "wake_all"}
    BY <1>2, <2>1, <2>2, AtThread, Kinds DEF CallOK
  <2>4. call[x].name \in Calls[x] /\ call[x].name \in CallNames
    BY <2>2, AtThread, Kinds DEF CallOK
  <2>5. call[x].name \in {"wait", "timedwait"} \cup WakeWaits
    BY <2>3, <2>4 DEF CallNames, TimedCalls, MultiCalls, WakeWaits
  <2> QED
    BY <2>4, <2>5 DEF OneWordCalls
<1>4. ASSUME WakeWait(u), Multi(t) PROVE FALSE
  <2>1. call[t].name # "none"
    BY <1>4 DEF Multi, MultiCalls
  <2>2. call[t].name \in Calls[t] \cap MultiCalls
    BY <1>1, <1>4, <2>1 DEF Multi
  <2>3. call[u].name \in Calls[u] \cap WakeWaits
    BY <1>2, <1>4 DEF WakeWait
  <2> QED
    BY <2>2, <2>3 DEF FewWaiters
<1> QED
  BY <1>2, <1>3, <1>4 DEF FewWaiters

\* No wakeup is lost in any program in which the threads other than a caller of
\* WAKE(1) or WAKE_WAIT that wait on one word are one, and the callers of
\* WAKE_WAIT are not mixed with multi-waiters.  WAKE(all) has no such limit:
\* any number of threads may wait with WAIT, WAKE_WAIT or WAITV.
THEOREM NoWakeupIsLost ==
  ASSUME FewWaiters PROVE Spec => []NoLostWakeup
<1>1. Inv => SoleWaiter
  BY FewIsSole
<1> QED
  BY <1>1, Invariant, SoleWaitersAreWoken, PTL

-----------------------------------------------------------------------------
(* WAIT and WAKE(all) alone. *)

PlainNames == {"wait", "timedwait", "wake_all"}
PlainCalls == \A t \in Threads : Calls[t] \subseteq PlainNames

\* Without multi-waiters a waker never scans, and has one event to wake.
PlainInv ==
  \A t \in Threads :
    /\ pc[t] # "scan"
    /\ to_wake[t] = <<>> \/ to_wake[t] = <<call[t].wake_key>>
    /\ call[t].todo \subseteq Words(t)

\* The abstract fields of thread x.
View(x) == <<States[x], Expects[x], Owes[x]>>

LEMMA ViewMeans ==
  ASSUME NEW x \in Threads
  PROVE  /\ States[x] = AbstractState(x)
         /\ Expects[x] = IF AbstractState(x) = "user" THEN NoCall.val ELSE call[x].val
         /\ Owes[x] = IF pc[x] = "gate" \/ (pc[x] = "wake" /\ to_wake[x] # <<>>)
                      THEN call[x].wake_key ELSE NO_EVENT
         /\ States'[x] = AbstractState(x)'
         /\ Expects'[x] = IF AbstractState(x)' = "user" THEN NoCall.val ELSE call'[x].val
         /\ Owes'[x] = IF pc'[x] = "gate" \/ (pc'[x] = "wake" /\ to_wake'[x] # <<>>)
                       THEN call'[x].wake_key ELSE NO_EVENT
         /\ AbstractState(x) =
              IF pc[x] \in {"assert", "recheck"} THEN "calling"
              ELSE IF pc[x] \in SleepPcs /\ wait_event[x] = call[x].event THEN "asleep"
              ELSE "user"
         /\ AbstractState(x)' =
              IF pc'[x] \in {"assert", "recheck"} THEN "calling"
              ELSE IF pc'[x] \in SleepPcs /\ wait_event'[x] = call'[x].event THEN "asleep"
              ELSE "user"
<1>1. AbstractState(x) =
        IF pc[x] \in {"assert", "recheck"} THEN "calling"
        ELSE IF pc[x] \in SleepPcs /\ wait_event[x] = call[x].event THEN "asleep"
        ELSE "user"
  BY DEF AbstractState, Asleep, SleepPcs
<1>2. AbstractState(x)' =
        IF pc'[x] \in {"assert", "recheck"} THEN "calling"
        ELSE IF pc'[x] \in SleepPcs /\ wait_event'[x] = call'[x].event THEN "asleep"
        ELSE "user"
  BY DEF AbstractState, Asleep, SleepPcs
<1> QED
  BY <1>1, <1>2 DEF States, Expects, Owes

\* A thread looks the same when nothing but the rest of a wakeup happens to it.
LEMMA ViewSame ==
  ASSUME Inv, NEW x \in Threads,
         pc'[x] = pc[x], call'[x] = call[x], to_wake'[x] = to_wake[x],
         \/ wait_event'[x] = wait_event[x]
         \/ wait_event[x] \notin Events /\ wait_event'[x] \notin Events
  PROVE  View(x)' = View(x)
<1>1. pc[x] \in SleepPcs => call[x].event \in Events
  BY AtThread, Kinds DEF CallOK, SlotPcs, WaitPcs
<1> QED
  BY <1>1, ViewMeans DEF View

\* The fields are functions on the threads.
LEMMA Stutters ==
  ASSUME word' = word, \A x \in Threads : View(x)' = View(x)
  PROVE  UNCHANGED <<word, States, Expects, Owes>>
<1>1. \A x \in Threads : States'[x] = States[x] /\ Expects'[x] = Expects[x] /\ Owes'[x] = Owes[x]
  BY DEF View
<1>2. \A x \in Threads : AbstractState(x)' = AbstractState(x)
  BY <1>1, ViewMeans
<1>3. States' = States
  BY <1>2 DEF States
<1>4. Expects' = Expects
  BY <1>1 DEF Expects
<1>5. Owes' = Owes
  BY <1>1 DEF Owes
<1> QED
  BY <1>3, <1>4, <1>5

\* What the calls leave out.
LEMMA Plain ==
  ASSUME Inv, PlainCalls, NEW t \in Threads
  PROVE  /\ ~Multi(t) /\ ~WakeWait(t)
         /\ pc[t] \notin {"register", "unregister", "handoff", "switch"}
         /\ pc[t] \in WakePcs => call[t].name = "wake_all" /\ call[t].wake_key \in Keys
         /\ pc[t] \in SlotPcs => call[t].event \in Keys /\ Words(t) = {call[t].event}
         /\ futexv_active = 0
<1>1. call[t].name \in PlainNames \cup {"none"}
  BY AtThread, NoCallTyped DEF CallOK, PlainCalls
<1>2. ~Multi(t) /\ ~WakeWait(t)
  BY <1>1 DEF Multi, WakeWait, MultiCalls, WakeWaits, PlainNames
<1>3. pc[t] \notin {"register", "unregister", "handoff", "switch"}
  BY <1>2, AtThread DEF CallOK, Multi, WakeWait
<1>4. pc[t] \in WakePcs => call[t].name = "wake_all" /\ call[t].wake_key \in Keys
  BY <1>1, AtThread DEF CallOK, PlainNames, WakeCalls, WakeWaits
<1>5. pc[t] \in SlotPcs => call[t].event \in Keys /\ Words(t) = {call[t].event}
  BY <1>2, AtThread DEF CallOK, Multi, Words
<1>6. \A x \in Threads : ~Multi(x)
  <2> TAKE x \in Threads
  <2>1. call[x].name \in PlainNames \cup {"none"}
    BY AtThread, NoCallTyped DEF CallOK, PlainCalls
  <2> QED
    BY <2>1 DEF Multi, MultiCalls, PlainNames
<1>7. ASSUME NEW s \in Slots PROVE futexv_table[s] = FreeSlot
  <2>1. futexv_table[s].thread \notin Threads
    BY <1>6 DEF Inv, SlotInv
  <2>2. futexv_table[s] \in SlotTypes
    BY DEF Inv, Typed
  <2>3. futexv_table[s].thread = NOBODY
    BY <2>1, <2>2 DEF SlotTypes
  <2> QED
    BY <2>3 DEF Inv, SlotInv, SlotOK
<1>8. {s \in Slots : futexv_table[s] # FreeSlot} = {}
  BY <1>7
<1>9. futexv_active = 0
  BY <1>8, FS_EmptySet DEF Inv, SlotInv
<1> QED
  BY <1>2, <1>3, <1>4, <1>5, <1>9

-----------------------------------------------------------------------------
(* What each step is of the abstract futex. *)

\* The other threads look the same, unless the step takes them out of a queue.
LEMMA OthersSame ==
  ASSUME Inv, PlainCalls, NEW w \in Threads, KernelStep(w), ~WakeEvent(w)
  PROVE  \A x \in Threads \ {w} : View(x)' = View(x)
<1> SUFFICES ASSUME NEW x \in Threads \ {w}
             PROVE  \/ wait_event'[x] = wait_event[x]
                    \/ wait_event[x] \notin Events /\ wait_event'[x] \notin Events
  BY KernelMoves, ViewSame DEF OnlyMoves
<1>1. CASE Recheck(w) \/ SetTimeout(w) \/ Block(w) \/ Resume(w) \/ ClearWait(w) \/ Drain(w)
           \/ Drained(w) \/ Gate(w) \/ Scan(w) \/ WakeDone(w) \/ Unregister(w)
  BY <1>1 DEF Recheck, SetTimeout, Block, Resume, ClearWait, Drain, Drained, Gate, Scan, WakeDone,
     Unregister, thread_set_timeout, thread_block, waitVars, hashVars
<1>2. CASE AssertWait(w)
  BY <1>2 DEF AssertWait, Queued, assert_wait, Inv, Typed
<1>3. CASE ClearWaitLocked(w)
  BY <1>3 DEF ClearWaitLocked, clear_wait_on, hashVars, Inv, Typed
<1>4. CASE WakeThread(w)
  <2>1. woken[w] \in Seq(Threads) /\ woken[w] # <<>>
    BY <1>4, AtThread DEF WakeThread
  <2> PICK y \in Threads : y = Head(woken[w])
    BY <2>1
  <2>2. wait_event' = [wait_event EXCEPT ![y] = NO_EVENT]
    BY <1>4 DEF WakeThread, finish_wakeup
  <2>3. Contains(woken[w], y)
    <3>1. 1 \in 1 .. Len(woken[w]) /\ woken[w][1] = y
      BY <2>1, EmptySeq
    <3> QED
      BY <3>1 DEF Contains
  <2>4. wait_event[y] = WAKING_EVENT
    BY <2>3 DEF Inv, WokenInv
  <2> QED
    BY <2>2, <2>4, Kinds DEF Inv, Typed
<1>5. ~(Register(w) \/ Handoff(w) \/ HandoffSwitch(w))
  BY Plain DEF Register, Handoff, HandoffSwitch, At
<1> QED
  BY <1>1, <1>2, <1>3, <1>4, <1>5 DEF KernelStep

\* A step by which its own thread looks the same is a stutter.
LEMMA SelfStutters ==
  ASSUME Inv, PlainCalls, NEW w \in Threads, KernelStep(w), ~WakeEvent(w), View(w)' = View(w)
  PROVE  UNCHANGED <<word, States, Expects, Owes>>
  BY OthersSame, KernelMoves, Stutters

\* Compare: the last word is read again.
LEMMA RecheckCompares ==
  ASSUME Inv, PlainCalls, PlainInv, NEW w \in Threads, Recheck(w)
  PROVE  Atomic!AtomicNext \/ UNCHANGED <<word, States, Expects, Owes>>
<1>1. KernelStep(w) /\ ~WakeEvent(w) /\ pc[w] = "recheck"
  BY DEF KernelStep, Recheck, WakeEvent, At
<1> PICK k \in call[w].todo, fault \in BOOLEAN :
      /\ call' = [call EXCEPT ![w].todo = @ \ {k}]
      /\ Goto(w, IF fault \/ word[k] # call[w].val[k] THEN "clear"
                 ELSE IF call[w].todo # {k} THEN "recheck"
                 ELSE IF Timed(w) THEN "timer" ELSE Sleep(w))
  BY DEF Recheck
<1>2. k \in Keys /\ Words(w) = {k} /\ call[w].todo = {k}
  BY <1>1, Plain DEF PlainInv, SlotPcs, WaitPcs
<1> PICK p : p = pc'[w]
  OBVIOUS
<1>3. /\ p \in {"clear", "timer", "block"} /\ (p # "clear" => word[k] = call[w].val[k])
  BY <1>2, PcStays, Plain DEF Goto, Sleep
<1>4. call'[w].val = call[w].val /\ call'[w].event = call[w].event
  <2>1. call[w] \in CallTypes
    BY AtThread
  <2> PICK c : c = [call[w] EXCEPT !.todo = call[w].todo \ {k}]
    OBVIOUS
  <2>2. c.val = call[w].val /\ c.event = call[w].event
    BY <2>1 DEF CallTypes
  <2>3. call' = [call EXCEPT ![w] = c]
    OBVIOUS
  <2> QED
    BY <2>2, <2>3, CallStays
<1>5. word' = word /\ \A x \in Threads \ {w} : View(x)' = View(x)
  BY <1>1, OthersSame, KernelMoves
<1>6. /\ States[w] = "calling" /\ Expects[w] = call[w].val
      /\ Owes[w] = NO_EVENT /\ Owes'[w] = NO_EVENT
  BY <1>1, <1>3, ViewMeans
<1>7. \/ /\ States'[w] = "asleep" /\ Expects'[w] = Expects[w] /\ p # "clear"
      \/ States'[w] = "user" /\ Expects'[w] = NoCall.val
  BY <1>3, <1>4, <1>6, ViewMeans DEF SleepPcs
<1>8. /\ States = [x \in Threads |-> States[x]] /\ States' = [x \in Threads |-> States'[x]]
      /\ Expects = [x \in Threads |-> Expects[x]] /\ Expects' = [x \in Threads |-> Expects'[x]]
      /\ Owes = [x \in Threads |-> Owes[x]] /\ Owes' = [x \in Threads |-> Owes'[x]]
  BY DEF States, Expects, Owes
<1>9. \A x \in Threads \ {w} :
        States'[x] = States[x] /\ Expects'[x] = Expects[x] /\ Owes'[x] = Owes[x]
  BY <1>5 DEF View
<1>10. Owes' = Owes
  BY <1>6, <1>8, <1>9
<1>11. CASE States'[w] = "asleep" /\ Expects'[w] = Expects[w] /\ p # "clear"
  <2>1. States' = [States EXCEPT ![w] = "asleep"] /\ Expects' = Expects
    BY <1>8, <1>9, <1>11
  <2>2. Atomic!Expected(w, k)
    BY <1>2, <1>3, <1>6, <1>11 DEF Atomic!Expected, Words
  <2>3. Atomic!Compare(w, k)
    BY <1>2, <1>5, <1>6, <1>10, <2>1, <2>2 DEF Atomic!Compare, Words
  <2> QED
    BY <1>2, <2>3 DEF Atomic!AtomicNext
<1>12. CASE States'[w] = "user" /\ Expects'[w] = NoCall.val
  <2>1. States' = [States EXCEPT ![w] = "user"] /\ Expects' = [Expects EXCEPT ![w] = NoCall.val]
    BY <1>8, <1>9, <1>12
  <2>2. NoCall.val = [x \in {} |-> 0]
    BY DEF NoCall
  <2>3. Atomic!Compare(w, k)
    BY <1>2, <1>5, <1>6, <1>10, <2>1, <2>2 DEF Atomic!Compare, Words
  <2> QED
    BY <1>2, <2>3 DEF Atomic!AtomicNext
<1> QED
  BY <1>7, <1>11, <1>12

\* Wake: every sleeper of the word leaves its queue at once.
LEMMA WakeEventWakes ==
  ASSUME Inv, PlainCalls, PlainInv, NEW w \in Threads, WakeEvent(w)
  PROVE  Atomic!AtomicNext
<1> PICK k : k = call[w].wake_key
  OBVIOUS
<1>1. /\ pc[w] = "wake" /\ to_wake[w] = <<k>> /\ k \in Keys /\ k \in Events
      /\ UNCHANGED <<word, pc, call>> /\ call[w].name = "wake_all"
  BY Plain, Kinds DEF WakeEvent, At, PlainInv, WakePcs
<1> PICK q \in Seq(Threads) : q = queue[k] /\ Once(q)
  BY <1>1 DEF Inv, Typed, HashInv
<1>2. Woken(w, k) = q
  BY <1>1, Kinds DEF Woken
<1>3. /\ \A x \in Threads : wait_event'[x] = IF Contains(q, x) THEN WAKING_EVENT ELSE wait_event[x]
      /\ to_wake' = [to_wake EXCEPT ![w] = <<>>]
  <2>1. Head(to_wake[w]) = k /\ Tail(to_wake[w]) = <<>>
    BY <1>1
  <2> QED
    BY <1>2, <2>1 DEF WakeEvent, dequeue_for_wakeup
<1>4. \A x \in Threads : wait_event'[x] = IF wait_event[x] = k THEN WAKING_EVENT ELSE wait_event[x]
  BY <1>1, <1>3 DEF Inv, HashInv
<1> DEFINE S == {x \in Threads : States[x] = "asleep" /\ Owes[w] \in DOMAIN Expects[x]}
<1>5. Owes[w] = k /\ Owes'[w] = NO_EVENT /\ k # NO_EVENT
  <2>1. to_wake'[w] = <<>> /\ to_wake[w] # <<>>
    BY <1>1, <1>3 DEF Inv, Typed
  <2> QED
    BY <1>1, <2>1, ViewMeans, Kinds
<1>6. ASSUME NEW x \in Threads
      PROVE  /\ States'[x] = IF x \in S THEN "user" ELSE States[x]
             /\ Expects'[x] = IF x \in S THEN NoCall.val ELSE Expects[x]
  <2>1. States[x] = "asleep" => /\ pc[x] \in SleepPcs /\ wait_event[x] = call[x].event
                                /\ Expects[x] = call[x].val /\ DOMAIN call[x].val = {call[x].event}
    BY Plain, ViewMeans DEF SlotPcs, WaitPcs, Words
  <2>2. x \in S <=> States[x] = "asleep" /\ wait_event[x] = k
    BY <1>5, <2>1
  <2>3. pc'[x] = pc[x] /\ call'[x] = call[x]
    BY <1>1
  <2>4. pc[x] \in SleepPcs => call[x].event # WAKING_EVENT
    BY Plain, Kinds DEF SlotPcs, WaitPcs
  <2>5. CASE wait_event[x] = k
    BY <1>4, <2>2, <2>3, <2>4, <2>5, ViewMeans
  <2>6. CASE wait_event[x] # k
    BY <1>4, <2>2, <2>3, <2>6, ViewMeans
  <2> QED
    BY <2>5, <2>6
<1>7. Atomic!Up(S)
  <2>1. NoCall.val = [x \in {} |-> 0]
    BY DEF NoCall
  <2>2. States' = [x \in Threads |-> States'[x]] /\ Expects' = [x \in Threads |-> Expects'[x]]
    BY DEF States, Expects
  <2> HIDE DEF S
  <2> QED
    BY <1>6, <2>1, <2>2 DEF Atomic!Up
<1>8. Owes' = [Owes EXCEPT ![w] = NO_EVENT]
  <2>1. \A x \in Threads \ {w} : Owes'[x] = Owes[x]
    <3> TAKE x \in Threads \ {w}
    <3>1. pc'[x] = pc[x] /\ call'[x] = call[x] /\ to_wake'[x] = to_wake[x]
      BY <1>1, <1>3 DEF Inv, Typed
    <3> QED
      BY <3>1, ViewMeans
  <2>2. Owes = [x \in Threads |-> Owes[x]] /\ Owes' = [x \in Threads |-> Owes'[x]]
    BY DEF Owes
  <2> QED
    BY <1>5, <2>1, <2>2
<1>9. Atomic!Wake(w)
  BY <1>1, <1>5, <1>7, <1>8 DEF Atomic!Wake
<1> QED
  BY <1>9 DEF Atomic!AtomicNext

\* The other steps of a thread in the kernel do not show.
LEMMA KernelStutters ==
  ASSUME Inv, PlainCalls, PlainInv, NEW w \in Threads, KernelStep(w),
         ~WakeEvent(w), ~Recheck(w)
  PROVE  UNCHANGED <<word, States, Expects, Owes>>
<1> SUFFICES View(w)' = View(w)
  BY SelfStutters
<1>1. CASE AssertWait(w)
  <2>1. pc[w] = "assert" /\ pc'[w] = "recheck" /\ Queued(w, WaitKey(w)) /\ to_wake' = to_wake
    BY <1>1, QueuedOnly DEF AssertWait, At
  <2>2. call'[w].val = call[w].val
    <3> PICK c : c = [call[w] EXCEPT !.event = WaitKey(w), !.todo = Words(w)]
      OBVIOUS
    <3>1. call[w] \in CallTypes
      BY AtThread
    <3>2. c.val = call[w].val
      BY <3>1 DEF CallTypes
    <3>3. call' = [call EXCEPT ![w] = c]
      BY <2>1 DEF Queued
    <3> QED
      BY <3>2, <3>3, CallStays
  <2> QED
    BY <2>1, <2>2, ViewMeans DEF View
<1>2. CASE SetTimeout(w) \/ Block(w)
  <2>1. pc[w] \in SleepPcs /\ pc'[w] \in SleepPcs /\ UNCHANGED <<wait_event, call>>
    BY <1>2, PcStays DEF SetTimeout, Block, At, Goto, Sleep, SleepPcs, thread_set_timeout,
       thread_block, hashVars
  <2>2. \A p \in SleepPcs : p \notin {"assert", "recheck", "gate", "wake"}
    BY DEF SleepPcs
  <2> QED
    BY <2>1, <2>2, ViewMeans DEF View
<1>3. CASE Resume(w)
  <2>1. pc[w] = "asleep" /\ pc'[w] = "user" /\ wait_event[w] = NO_EVENT
    BY <1>3, Plain, PcStays, AtThread DEF Resume, At, Return, Goto, ThreadOK
  <2>2. call[w].event # NO_EVENT
    BY <2>1, Plain, Kinds DEF SlotPcs, WaitPcs, SleepPcs
  <2> QED
    BY <2>1, <2>2, ViewMeans DEF View, SleepPcs
<1>4. CASE ClearWait(w) \/ ClearWaitLocked(w)
  <2>1. pc[w] \in {"clear", "clear2"} /\ pc'[w] \in {"clear2", "drain"}
    BY <1>4, PcStays DEF ClearWait, ClearWaitLocked, At, Goto
  <2> QED
    BY <2>1, ViewMeans DEF View, SleepPcs
<1>5. CASE Drain(w) \/ Drained(w)
  <2>1. pc[w] \in {"drain", "drained"} /\ pc'[w] \in {"drained", "user"}
    BY <1>5, Plain, PcStays DEF Drain, Drained, At, Goto, NotWaiting, Return
  <2> QED
    BY <2>1, ViewMeans DEF View, SleepPcs
<1>6. CASE Gate(w)
  <2>1. /\ pc[w] = "gate" /\ pc'[w] = "wake" /\ call' = call
        /\ to_wake' = [to_wake EXCEPT ![w] = <<call[w].wake_key>>]
    BY <1>6, Plain, PcStays DEF Gate, At, Goto
  <2>2. to_wake'[w] = <<call[w].wake_key>> /\ to_wake'[w] # <<>>
    BY <2>1 DEF Inv, Typed
  <2> QED
    BY <2>1, <2>2, ViewMeans DEF View, SleepPcs
<1>7. CASE WakeThread(w)
  <2>1. UNCHANGED <<pc, call, to_wake>> /\ pc[w] = "wake"
    BY <1>7 DEF WakeThread, At
  <2> QED
    BY <2>1, ViewMeans DEF View, SleepPcs
<1>8. CASE WakeDone(w)
  <2>1. pc[w] = "wake" /\ to_wake[w] = <<>> /\ pc'[w] = "user"
    BY <1>8, PcStays DEF WakeDone, At, Return, Goto
  <2> QED
    BY <2>1, ViewMeans DEF View, SleepPcs
<1>9. ~(Register(w) \/ Unregister(w) \/ Scan(w) \/ Handoff(w) \/ HandoffSwitch(w))
  BY Plain DEF Register, Unregister, Scan, Handoff, HandoffSwitch, At, PlainInv
<1> QED
  BY <1>1, <1>2, <1>3, <1>4, <1>5, <1>6, <1>7, <1>8, <1>9 DEF KernelStep

\* Call and Change: the steps of user mode.
LEMMA UserCalls ==
  ASSUME Inv, PlainCalls, NEW w \in Threads, UserCall(w)
  PROVE  Atomic!AtomicNext
<1>1. /\ pc[w] = "user" /\ UNCHANGED <<wait_event, to_wake>>
      /\ \A x \in Threads \ {w} : pc'[x] = pc[x] /\ call'[x] = call[x]
  BY UserMoves
<1>2. \A x \in Threads \ {w} :
        States'[x] = States[x] /\ Expects'[x] = Expects[x] /\ Owes'[x] = Owes[x]
  BY <1>1, ViewSame DEF View
<1>3. States[w] = "user" /\ Expects[w] = NoCall.val /\ Owes[w] = NO_EVENT
  BY <1>1, ViewMeans DEF SleepPcs
<1>4. /\ States = [x \in Threads |-> States[x]] /\ States' = [x \in Threads |-> States'[x]]
      /\ Expects = [x \in Threads |-> Expects[x]] /\ Expects' = [x \in Threads |-> Expects'[x]]
      /\ Owes = [x \in Threads |-> Owes[x]] /\ Owes' = [x \in Threads |-> Owes'[x]]
  BY DEF States, Expects, Owes
<1>5. ASSUME NEW name \in {"wait", "timedwait"}, NEW k \in Keys, CallWait(w, name, {k})
      PROVE  Atomic!AtomicNext
  <2> DEFINE c == [NoCall EXCEPT !.name = name, !.val = [x \in {k} |-> word[x]]]
  <2>1. call' = [call EXCEPT ![w] = c] /\ word' = word /\ pc'[w] = "assert"
    BY <1>5, PcStays DEF CallWait, Goto, MultiCalls
  <2>2. c.val = [x \in {k} |-> word[x]]
    BY DEF NoCall
  <2> HIDE DEF c
  <2>3. call'[w] = c
    BY <2>1, CallStays
  <2>4. /\ States'[w] = "calling" /\ Expects'[w] = [x \in {k} |-> word[x]]
        /\ Owes'[w] = NO_EVENT
    BY <2>1, <2>2, <2>3, ViewMeans DEF SleepPcs
  <2>5. /\ States' = [States EXCEPT ![w] = "calling"] /\ Owes' = Owes
        /\ Expects' = [Expects EXCEPT ![w] = [x \in {k} |-> word[x]]]
    BY <1>2, <1>3, <1>4, <2>4
  <2>6. Atomic!Call(w, k)
    BY <1>3, <2>1, <2>5 DEF Atomic!Call
  <2> QED
    BY <2>6 DEF Atomic!AtomicNext
<1>6. ASSUME NEW name \in {"wake_one", "wake_all"}, NEW k \in Keys, CallWake(w, name, k, k)
      PROVE  Atomic!AtomicNext
  <2> DEFINE c == [NoCall EXCEPT !.name = name, !.wake_key = k,
                                 !.val = IF name \in WakeWaits
                                         THEN [x \in {k} |-> word'[x]] ELSE @]
  <2> PICK v \in Vals : word' = [word EXCEPT ![k] = v]
    BY <1>6 DEF CallWake
  <2>1. pc'[w] = "gate" /\ call' = [call EXCEPT ![w] = c]
    BY <1>6, PcStays DEF CallWake, Goto, WakeWaits
  <2>2. c.wake_key = k
    BY DEF NoCall
  <2> HIDE DEF c
  <2>3. call'[w] = c
    BY <2>1, CallStays
  <2>4. States'[w] = "user" /\ Expects'[w] = NoCall.val /\ Owes'[w] = k
    BY <2>1, <2>2, <2>3, ViewMeans DEF SleepPcs
  <2>5. States' = States /\ Expects' = Expects /\ Owes' = [Owes EXCEPT ![w] = k]
    BY <1>2, <1>3, <1>4, <2>4
  <2>6. Atomic!Change(w, k, v)
    BY <1>3, <2>5 DEF Atomic!Change
  <2> QED
    BY <2>6 DEF Atomic!AtomicNext
<1>7. \A name \in MultiCalls \cup WakeWaits : name \notin Calls[w]
  BY DEF PlainCalls, PlainNames, MultiCalls, WakeWaits
<1> QED
  BY <1>5, <1>6, <1>7 DEF UserCall, CallWait, CallWake, MayCall

\* Expire: the softclock thread takes a thread out of its queue.
LEMMA TimeoutExpires ==
  ASSUME Inv, PlainCalls, Timeout
  PROVE  Atomic!AtomicNext \/ UNCHANGED <<word, States, Expects, Owes>>
<1>1. UNCHANGED <<word, pc, call, to_wake>>
  BY DEF Timeout, futexVars
<1>2. CASE wait_event' = wait_event
  BY <1>1, <1>2, ViewSame, Stutters
<1>3. CASE wait_event' # wait_event
  <2>1. thread_timeout_clear
    BY <1>3 DEF Timeout, thread_timeout, thread_timeout_drop, hashVars
  <2> PICK t \in Threads : t = soft.thread
    BY <2>1 DEF thread_timeout_clear, Inv, SoftInv
  <2>2. wait_event' = [wait_event EXCEPT ![t] = NO_EVENT]
    BY <1>3, <2>1 DEF thread_timeout_clear, clear_wait_on, hashVars
  <2>3. wait_event'[t] = NO_EVENT /\ \A x \in Threads \ {t} : wait_event'[x] = wait_event[x]
    BY <2>2 DEF Inv, Typed
  <2>4. \A x \in Threads \ {t} : View(x)' = View(x)
    BY <1>1, <2>3, ViewSame
  <2>5. Owes'[t] = Owes[t]
    BY <1>1, ViewMeans
  <2>6. CASE States[t] # "asleep"
    <3>1. pc[t] \in SleepPcs => call[t].event # NO_EVENT
      BY Plain, Kinds DEF SlotPcs, WaitPcs
    <3>2. States'[t] = States[t] /\ Expects'[t] = Expects[t]
      BY <1>1, <2>3, <2>6, <3>1, ViewMeans
    <3> QED
      BY <1>1, <2>4, <2>5, <3>2, Stutters DEF View
  <2>7. CASE States[t] = "asleep"
    <3>1. pc[t] \in SleepPcs /\ pc[t] \notin {"assert", "recheck"} /\ call[t].event # NO_EVENT
      BY <2>7, Plain, Kinds, ViewMeans DEF SlotPcs, WaitPcs
    <3>2. States'[t] = "user" /\ Expects'[t] = NoCall.val
      BY <1>1, <2>3, <3>1, ViewMeans
    <3>3. /\ \A x \in Threads \ {t} : States'[x] = States[x] /\ Expects'[x] = Expects[x]
          /\ \A x \in Threads : Owes'[x] = Owes[x]
      BY <2>4, <2>5 DEF View
    <3>4. /\ States' = [x \in Threads |-> IF x \in {t} THEN "user" ELSE States[x]]
          /\ Expects' = [x \in Threads |-> IF x \in {t} THEN NoCall.val ELSE Expects[x]]
          /\ Owes' = Owes
      <4>1. /\ States' = [x \in Threads |-> States'[x]] /\ Expects' = [x \in Threads |-> Expects'[x]]
            /\ Owes' = [x \in Threads |-> Owes'[x]] /\ Owes = [x \in Threads |-> Owes[x]]
        BY DEF States, Expects, Owes
      <4> QED
        BY <3>2, <3>3, <4>1
    <3>5. NoCall.val = [x \in {} |-> 0]
      BY DEF NoCall
    <3>6. Atomic!Expire(t)
      BY <1>1, <2>7, <3>4, <3>5 DEF Atomic!Expire, Atomic!Up
    <3> QED
      BY <3>6 DEF Atomic!AtomicNext
  <2> QED
    BY <2>6, <2>7
<1> QED
  BY <1>2, <1>3

-----------------------------------------------------------------------------
(* The one event of a waker. *)

PlainOK(p, tw, c) ==
  /\ p # "scan"
  /\ tw = <<>> \/ tw = <<c.wake_key>>
  /\ c.todo \subseteq DOMAIN c.val

LEMMA PlainInit == Init => PlainInv
  BY DEF Init, PlainInv, NoCall, Words

LEMMA PlainKernel ==
  ASSUME Inv, PlainCalls, PlainInv, NEW w \in Threads, KernelStep(w)
  PROVE  PlainOK(pc'[w], to_wake'[w], call'[w])
<1>1. /\ pc[w] # "scan" /\ (to_wake[w] = <<>> \/ to_wake[w] = <<call[w].wake_key>>)
      /\ call[w].todo \subseteq DOMAIN call[w].val /\ call[w] \in CallTypes
  BY AtThread DEF PlainInv, Words
<1>2. CASE AssertWait(w)
  <2> PICK c : c = [call[w] EXCEPT !.event = WaitKey(w), !.todo = DOMAIN call[w].val]
    OBVIOUS
  <2>1. call' = [call EXCEPT ![w] = c] /\ to_wake' = to_wake /\ pc'[w] = "recheck"
    BY <1>2, PcStays DEF AssertWait, Queued, Goto, Words
  <2>2. c.todo = DOMAIN c.val /\ c.wake_key = call[w].wake_key
    BY <1>1 DEF CallTypes
  <2>3. call'[w] = c
    BY <2>1, CallStays
  <2> QED
    BY <1>1, <2>1, <2>2, <2>3 DEF PlainOK
<1>3. CASE Recheck(w)
  <2> PICK k : call' = [call EXCEPT ![w].todo = @ \ {k}]
    BY <1>3 DEF Recheck
  <2> PICK c : c = [call[w] EXCEPT !.todo = call[w].todo \ {k}]
    OBVIOUS
  <2>1. call'[w] = c
    BY CallStays
  <2>2. c.todo \subseteq DOMAIN c.val /\ c.wake_key = call[w].wake_key
    BY <1>1 DEF CallTypes
  <2>3. to_wake' = to_wake /\ pc'[w] # "scan"
    BY <1>3, PcStays DEF Recheck, Goto, Sleep
  <2> QED
    BY <1>1, <2>1, <2>2, <2>3 DEF PlainOK
<1>4. CASE SetTimeout(w) \/ Block(w) \/ ClearWait(w) \/ ClearWaitLocked(w)
  <2>1. UNCHANGED <<call, to_wake>> /\ pc'[w] # "scan"
    BY <1>4, PcStays DEF SetTimeout, Block, ClearWait, ClearWaitLocked, Goto, Sleep
  <2> QED
    BY <1>1, <2>1 DEF PlainOK
<1>5. CASE Resume(w) \/ Drain(w) \/ Drained(w) \/ WakeDone(w)
  <2>1. to_wake[w] = <<>> /\ to_wake' = to_wake
    BY <1>5, AtThread DEF Resume, Drain, Drained, WakeDone, At, HandOK
  <2>2. \/ call' = call /\ pc'[w] = "drained"
        \/ call' = [call EXCEPT ![w] = NoCall] /\ pc'[w] = "user"
    BY <1>5, Plain, PcStays DEF Resume, Drain, Drained, WakeDone, NotWaiting, Return, Goto
  <2>3. NoCall.todo = {}
    BY DEF NoCall
  <2> QED
    BY <1>1, <2>1, <2>2, <2>3, CallStays DEF PlainOK
<1>6. CASE Gate(w)
  <2>1. /\ call' = call /\ pc'[w] = "wake"
        /\ to_wake' = [to_wake EXCEPT ![w] = <<call[w].wake_key>>]
    BY <1>6, Plain, PcStays DEF Gate, Goto
  <2>2. to_wake'[w] = <<call[w].wake_key>>
    BY <2>1 DEF Inv, Typed
  <2> QED
    BY <1>1, <2>1, <2>2 DEF PlainOK
<1>7. CASE WakeEvent(w)
  <2>1. UNCHANGED <<pc, call>> /\ to_wake[w] # <<>>
        /\ to_wake' = [to_wake EXCEPT ![w] = Tail(to_wake[w])]
    BY <1>7 DEF WakeEvent
  <2>2. to_wake'[w] = Tail(to_wake[w])
    BY <2>1 DEF Inv, Typed
  <2>3. to_wake'[w] = <<>>
    <3> PICK k : k = call[w].wake_key
      OBVIOUS
    <3>1. to_wake[w] = <<k>>
      BY <1>1, <2>1
    <3>2. Tail(<<k>>) = <<>>
      OBVIOUS
    <3> QED
      BY <2>2, <3>1, <3>2
  <2> QED
    BY <1>1, <2>1, <2>3 DEF PlainOK
<1>8. CASE WakeThread(w)
  BY <1>1, <1>8 DEF WakeThread, PlainOK
<1>9. ~(Register(w) \/ Unregister(w) \/ Scan(w) \/ Handoff(w) \/ HandoffSwitch(w))
  BY <1>1, Plain DEF Register, Unregister, Scan, Handoff, HandoffSwitch, At
<1> QED
  BY <1>2, <1>3, <1>4, <1>5, <1>6, <1>7, <1>8, <1>9 DEF KernelStep

LEMMA PlainUser ==
  ASSUME Inv, PlainInv, PlainCalls, NEW w \in Threads, UserCall(w)
  PROVE  PlainOK(pc'[w], to_wake'[w], call'[w])
<1>1. pc[w] = "user" /\ to_wake' = to_wake /\ pc'[w] \in {"assert", "register", "gate"}
  BY UserMoves
<1>2. to_wake'[w] = <<>>
  BY <1>1, AtThread DEF HandOK
<1>3. ASSUME NEW name, NEW ks, CallWait(w, name, ks) PROVE call'[w].todo = {}
  <2> DEFINE c == [NoCall EXCEPT !.name = name, !.val = [k \in ks |-> word[k]]]
  <2>1. call' = [call EXCEPT ![w] = c]
    BY <1>3 DEF CallWait
  <2>2. c.todo = {}
    BY DEF NoCall
  <2> HIDE DEF c
  <2> QED
    BY <2>1, <2>2, CallStays
<1>4. ASSUME NEW name, NEW k, NEW v, CallWake(w, name, k, v) PROVE call'[w].todo = {}
  <2> DEFINE c == [NoCall EXCEPT !.name = name, !.wake_key = k,
                                 !.val = IF name \in WakeWaits
                                         THEN [x \in {v} |-> word'[x]] ELSE @]
  <2>1. call' = [call EXCEPT ![w] = c]
    BY <1>4 DEF CallWake
  <2>2. c.todo = {}
    BY DEF NoCall
  <2> HIDE DEF c
  <2> QED
    BY <2>1, <2>2, CallStays
<1>5. call'[w].todo = {}
  BY <1>3, <1>4 DEF UserCall
<1> QED
  BY <1>1, <1>2, <1>5 DEF PlainOK

LEMMA PlainStep ==
  ASSUME Inv, PlainInv, PlainCalls, [Next]_vars PROVE PlainInv'
<1>1. ASSUME NEW w \in Threads, PlainOK(pc'[w], to_wake'[w], call'[w]),
             \A x \in Threads \ {w} :
               pc'[x] = pc[x] /\ call'[x] = call[x] /\ to_wake'[x] = to_wake[x]
      PROVE  PlainInv'
  BY <1>1 DEF PlainInv, PlainOK, Words
<1>2. ASSUME NEW w \in Threads, UserCall(w) PROVE PlainInv'
  BY <1>1, <1>2, PlainUser, UserMoves
<1>3. ASSUME NEW w \in Threads, KernelStep(w) PROVE PlainInv'
  BY <1>1, <1>3, PlainKernel, KernelMoves DEF OnlyMoves
<1>4. ASSUME UNCHANGED <<pc, call, to_wake>> PROVE PlainInv'
  BY <1>4 DEF PlainInv, Words
<1> QED
  BY <1>2, <1>3, <1>4 DEF Next, Processor, Softclock, Timeout, vars, futexVars

-----------------------------------------------------------------------------
(* The refinement. *)

LEMMA AtomicStep ==
  ASSUME Inv, PlainInv, PlainCalls, [Next]_vars
  PROVE  [Atomic!AtomicNext]_<<word, States, Expects, Owes>>
<1>1. ASSUME NEW w \in Threads, KernelStep(w)
      PROVE  Atomic!AtomicNext \/ UNCHANGED <<word, States, Expects, Owes>>
  BY <1>1, RecheckCompares, WakeEventWakes, KernelStutters
<1>2. ASSUME UNCHANGED <<word, pc, call, to_wake, wait_event>>
      PROVE  UNCHANGED <<word, States, Expects, Owes>>
  BY <1>2, ViewSame, Stutters
<1>3. ASSUME NEW w \in Threads, Processor(w) PROVE UNCHANGED <<word, States, Expects, Owes>>
  BY <1>2, <1>3 DEF Processor, thread_dispatch, thread_select, futexVars, hashVars
<1>4. ASSUME Softclock PROVE UNCHANGED <<word, States, Expects, Owes>>
  BY <1>2, <1>4 DEF Softclock, softclock, futexVars, hashVars
<1>5. ASSUME UNCHANGED vars PROVE UNCHANGED <<word, States, Expects, Owes>>
  BY <1>2, <1>5 DEF vars, futexVars, waitVars, hashVars
<1> QED
  BY <1>1, <1>3, <1>4, <1>5, UserCalls, TimeoutExpires DEF Next

LEMMA AtomicStart == Init => Atomic!AtomicInit
<1> SUFFICES ASSUME Init PROVE Atomic!AtomicInit
  OBVIOUS
<1>1. \A t \in Threads : AbstractState(t) = "user" /\ pc[t] = "user"
  BY DEF Init, AbstractState, Asleep
<1>2. NoCall.val = [k \in {} |-> 0]
  BY DEF NoCall
<1>3. States = [t \in Threads |-> "user"] /\ Owes = [t \in Threads |-> NO_EVENT]
  BY <1>1 DEF States, Owes
<1>4. Expects = [t \in Threads |-> [k \in {} |-> 0]]
  BY <1>1, <1>2 DEF Expects
<1>5. word \in [Keys -> Vals]
  BY DEF Init
<1> QED
  BY <1>3, <1>4, <1>5 DEF Atomic!AtomicInit

\* WAIT, with or without a timeout, and WAKE(all) are atomic for their callers:
\* although a waiter is queued first and reads its word afterwards, and a waker
\* takes the queue first and the threads one by one, the comparison and the
\* decision to sleep are one step, at the second read, and a wake takes every
\* sleeper of the word in one step, when it empties the bucket.
THEOREM RefinesAtomic ==
  ASSUME PlainCalls PROVE Spec => ImplementsAtomic
<1>1. Init => Atomic!AtomicInit /\ PlainInv
  BY AtomicStart, PlainInit
<1>2. Inv /\ PlainInv /\ [Next]_vars => PlainInv'
  BY PlainStep
<1>3. Inv /\ PlainInv /\ [Next]_vars => [Atomic!AtomicNext]_<<word, States, Expects, Owes>>
  BY AtomicStep
<1> QED
  BY <1>1, <1>2, <1>3, Invariant, PTL DEF Spec, ImplementsAtomic, Atomic!AtomicSpec
=============================================================================
