------------------------------ MODULE MCFutex ------------------------------
(***************************************************************************)
(* Small instances of Futex.                                               *)
(***************************************************************************)
EXTENDS Futex

CONSTANTS t1, t2, t3, a, b, s1

OneKey    == {a}
TwoKeys   == {a, b}
NoSlot    == {}
OneSlot   == {s1}
EventsA   == {a}
EventsABS == {a, b, s1}

\* Two threads that wait and one that wakes them.
WaitCalls ==
  [t \in Threads |-> CASE t = t1 -> {"timedwait"}
                       [] t = t2 -> {"wait"}
                       [] t = t3 -> {"wake_all"}]

\* A reactor on both words, a thread that waits and wakes, one that wakes.
PollCalls ==
  [t \in Threads |-> CASE t = t1 -> {"timedwaitv"}
                       [] t = t2 -> {"waitv", "wake_all"}
                       [] t = t3 -> {"wake_one"}]
\* Two threads that hand over to each other.
HandCalls ==
  [t \in Threads |-> CASE t = t1 -> {"wake_wait", "wake_one"}
                       [] t = t2 -> {"timedwake_wait", "wake_one", "wait"}
                       [] t = t3 -> {}]
\* A thread whose late timeout may hit its next wait, which has no deadline.
LateCalls ==
  [t \in Threads |-> CASE t = t1 -> {"timedwait", "wait"}
                       [] t = t2 -> {"wake_all"}
                       [] t = t3 -> {}]

Programs == {PollCalls, HandCalls, LateCalls}
AnyCalls == [t \in Threads |-> UNION {p[t] : p \in Programs}]

\* The calls in progress are those of one program; another one begins when no
\* thread has a timeout left over that the new one does not use.
OneProgram ==
  \E p \in Programs : \A t \in Threads :
    /\ call[t] = NoCall \/ call[t].name \in p[t]
    /\ timer_refs[t] > 0 \/ wait_result[t] = "timed_out" => p[t] \cap TimedCalls # {}
=============================================================================
