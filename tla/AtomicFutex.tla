---------------------------- MODULE AtomicFutex ----------------------------
(***************************************************************************)
(* What FUTEX_WAIT and FUTEX_WAKE promise: the comparison and the decision *)
(* to sleep are one step, and a wake takes every sleeper of the word.      *)
(***************************************************************************)
CONSTANTS Threads, Keys, Vals, NO_EVENT

VARIABLES
  word,     \* user memory
  state,    \* "user", "calling" or "asleep"
  expect,   \* the word each caller waits for, with the value it expects
  owes      \* the word each waker has changed and not yet woken

Expected(t, k) == k \in DOMAIN expect[t] /\ expect[t][k] = word[k]

AtomicInit ==
  /\ word \in [Keys -> Vals]
  /\ state = [t \in Threads |-> "user"]
  /\ expect = [t \in Threads |-> [k \in {} |-> 0]]
  /\ owes = [t \in Threads |-> NO_EVENT]

Call(t, k) ==
  /\ state[t] = "user"
  /\ state' = [state EXCEPT ![t] = "calling"]
  /\ expect' = [expect EXCEPT ![t] = [x \in {k} |-> word[x]]]
  /\ UNCHANGED <<word, owes>>

\* Compare and sleep; an early wakeup may end the sleep at once.
Compare(t, k) ==
  /\ state[t] = "calling" /\ k \in DOMAIN expect[t]
  /\ \/ /\ Expected(t, k)
        /\ state' = [state EXCEPT ![t] = "asleep"]
        /\ UNCHANGED expect
     \/ /\ state' = [state EXCEPT ![t] = "user"]
        /\ expect' = [expect EXCEPT ![t] = [x \in {} |-> 0]]
  /\ UNCHANGED <<word, owes>>

Change(t, k, v) ==
  /\ state[t] = "user" /\ owes[t] = NO_EVENT
  /\ word' = [word EXCEPT ![k] = v]
  /\ owes' = [owes EXCEPT ![t] = k]
  /\ UNCHANGED <<state, expect>>

\* The threads S stop sleeping.
Up(S) ==
  /\ state' = [t \in Threads |-> IF t \in S THEN "user" ELSE state[t]]
  /\ expect' = [t \in Threads |-> IF t \in S THEN [x \in {} |-> 0]
                                             ELSE expect[t]]

Wake(t) ==
  /\ owes[t] # NO_EVENT
  /\ Up({u \in Threads : state[u] = "asleep" /\ owes[t] \in DOMAIN expect[u]})
  /\ owes' = [owes EXCEPT ![t] = NO_EVENT]
  /\ UNCHANGED word

Expire(t) ==
  /\ state[t] = "asleep"
  /\ Up({t})
  /\ UNCHANGED <<word, owes>>

AtomicNext ==
  \E t \in Threads :
    \/ \E k \in Keys : Call(t, k) \/ Compare(t, k)
    \/ \E k \in Keys, v \in Vals : Change(t, k, v)
    \/ Wake(t)
    \/ Expire(t)

AtomicSpec == AtomicInit /\ [][AtomicNext]_<<word, state, expect, owes>>
=============================================================================
