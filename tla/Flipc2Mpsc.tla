----------------------------- MODULE Flipc2Mpsc -----------------------------
(***************************************************************************)
(* A FLIPC v2 channel with several producers (FLIPC2_CREATE_MPSC):         *)
(* flipc2_produce_wait_mpsc and flipc2_produce_commit_mpsc of flipc2.h     *)
(* against flipc2_consume_wait and flipc2_consume_release.                 *)
(*                                                                         *)
(* A producer claims a sequence number from prod_reserved, waits until the *)
(* ring has room for it, fills its slot and publishes it once its          *)
(* predecessor has published.  Every processor has a FIFO store buffer     *)
(* (x86-TSO), as in module Flipc2Spsc; a locked instruction, mfence and a  *)
(* futex trap wait until it is empty.  full_fence tells the two builds of  *)
(* FLIPC2_WRITE_FENCE apart: a compiler barrier on x86,                    *)
(* __sync_synchronize() elsewhere.                                         *)
(***************************************************************************)
EXTENDS Flipc2Ring, Sequences, FiniteSets

CONSTANTS
  Producers,
  THRESH,          \* wakeup_thresh
  MAX_SPURIOUS,    \* FLIPC2_MAX_SPURIOUS_WAKEUPS
  Builds,          \* values of full_fence to consider
  X86_CLAIMS       \* bound: numbers claimed where full_fence is FALSE

\* Every claimed number stays within half a word of cons_head, so that the
\* signed comparison of flipc2_produce_wait_mpsc means what it says.
ASSUME MpscAssumption ==
  /\ IsFiniteSet(Producers)
  /\ 2 * (RING_ENTRIES + Cardinality(Producers)) <= WORD
  /\ THRESH \in Nat /\ MAX_SPURIOUS \in Nat \ {0}
  /\ Builds \subseteq BOOLEAN

VARIABLES
  full_fence,
  \* shared memory
  ring, prod_reserved, prod_tail, cons_head, prod_sleeping, cons_sleeping,
  \* per producer: control, claimed number, cons_head seen, store buffer
  ppc, my_idx, ch_seen, pbuf,
  \* consumer: control, its own cons_head, store buffer, count
  cpc, head, cbuf, spurious_wakeups

shared   == <<ring, prod_tail, cons_head, prod_sleeping, cons_sleeping>>
prodVars == <<prod_reserved, ppc, my_idx, ch_seen, pbuf>>
consVars == <<cpc, head, cbuf, spurious_wakeups>>
vars     == <<full_fence, shared, prodVars, consVars>>

Store(l, v) == [loc |-> l, val |-> v]
WRITE_FENCE(buf) == full_fence => buf = <<>>
FULL_FENCE(buf)  == buf = <<>>
Trap(buf)        == buf = <<>>

Init ==
  /\ full_fence \in Builds
  /\ ring = [s \in Slots |-> NONE]
  /\ prod_reserved = 0 /\ prod_tail = 0 /\ cons_head = 0
  /\ prod_sleeping = 0 /\ cons_sleeping = 0
  /\ ppc = [p \in Producers |-> "idle"]
  /\ my_idx = [p \in Producers |-> 0] /\ ch_seen = [p \in Producers |-> 0]
  /\ pbuf = [p \in Producers |-> <<>>]
  /\ cpc = "idle" /\ head = 0 /\ cbuf = <<>>
  /\ spurious_wakeups = 0

-----------------------------------------------------------------------------
(* The processors: the oldest buffered store reaches the memory. *)

Drain(e) ==
  /\ ring' = IF e.loc = "ring" THEN [ring EXCEPT ![flipc2_ring_idx(e.val)] = e.val]
             ELSE ring
  /\ prod_tail' = IF e.loc = "prod_tail" THEN e.val ELSE prod_tail
  /\ cons_head' = IF e.loc = "cons_head" THEN e.val ELSE cons_head
  /\ prod_sleeping' = IF e.loc = "prod_sleeping" THEN e.val ELSE prod_sleeping
  /\ cons_sleeping' = IF e.loc = "cons_sleeping" THEN e.val ELSE cons_sleeping

DrainProducer(p) ==
  /\ pbuf[p] # <<>>
  /\ Drain(Head(pbuf[p]))
  /\ pbuf' = [pbuf EXCEPT ![p] = Tail(@)]
  /\ UNCHANGED <<full_fence, prod_reserved, ppc, my_idx, ch_seen, consVars>>

DrainConsumer ==
  /\ cbuf # <<>>
  /\ Drain(Head(cbuf))
  /\ cbuf' = Tail(cbuf)
  /\ UNCHANGED <<full_fence, prodVars, cpc, head, spurious_wakeups>>

-----------------------------------------------------------------------------
(* Producers. *)

PGoto(p, pc)  == ppc' = [ppc EXCEPT ![p] = pc]
PStore(p, st) == pbuf' = [pbuf EXCEPT ![p] = Append(@, st)]
NoMemory      == UNCHANGED <<full_fence, shared, consVars>>

\* (int32_t)(my_idx - *ch->cons_head) < (int32_t)re: a claimed number is never
\* behind cons_head, so the signed difference is the ring count.
Fits(p) == flipc2_ring_count(my_idx[p], cons_head) < RING_ENTRIES

\* __atomic_fetch_add(prod_reserved, 1).
Claim(p) ==
  /\ ppc[p] = "idle"
  /\ full_fence \/ prod_reserved < X86_CLAIMS
  /\ Trap(pbuf[p])
  /\ my_idx' = [my_idx EXCEPT ![p] = prod_reserved]
  /\ prod_reserved' = Add(prod_reserved, 1)
  /\ PGoto(p, "spin")
  /\ UNCHANGED <<ch_seen, pbuf>>
  /\ NoMemory

\* A poll of the spin that finds room, or the test of the while loop: a full
\* ring sends the producer to sleep.
Spin(p) ==
  /\ ppc[p] \in {"spin", "loop"}
  /\ PGoto(p, IF Fits(p) THEN "got" ELSE "full")
  /\ UNCHANGED <<prod_reserved, my_idx, ch_seen, pbuf>>
  /\ NoMemory

\* ch_seen = *cons_head; *prod_sleeping = 1, never cleared again.
Arm(p) ==
  /\ ppc[p] = "full"
  /\ ch_seen' = [ch_seen EXCEPT ![p] = cons_head]
  /\ PStore(p, Store("prod_sleeping", 1))
  /\ PGoto(p, "armed")
  /\ UNCHANGED <<prod_reserved, my_idx>>
  /\ NoMemory

Recheck(p) ==
  /\ ppc[p] = "armed"
  /\ WRITE_FENCE(pbuf[p])
  /\ PGoto(p, IF Fits(p) THEN "got" ELSE "futex")
  /\ ch_seen' = [ch_seen EXCEPT ![p] = IF Fits(p) THEN 0 ELSE @]
  /\ UNCHANGED <<prod_reserved, my_idx, pbuf>>
  /\ NoMemory

\* FUTEX_WAIT(cons_head, ch_seen); back to the test of the loop after it.
Sleep(p) ==
  /\ ppc[p] = "futex"
  /\ Trap(pbuf[p])
  /\ PGoto(p, IF cons_head = ch_seen[p] THEN "blocked" ELSE "loop")
  /\ ch_seen' = [ch_seen EXCEPT ![p] = 0]
  /\ UNCHANGED <<prod_reserved, my_idx, pbuf>>
  /\ NoMemory

\* The caller fills the slot of its number.
Fill(p) ==
  /\ ppc[p] = "got"
  /\ PStore(p, Store("ring", my_idx[p]))
  /\ PGoto(p, "filled")
  /\ UNCHANGED <<prod_reserved, my_idx, ch_seen>>
  /\ NoMemory

\* Faulty variant: a producer publishes without waiting for its predecessor.
Bug_MyTurn(p) == TRUE
MyTurn(p) == prod_tail = my_idx[p]

\* flipc2_produce_commit_mpsc: spin until the predecessor has published.
Publish(p) ==
  /\ ppc[p] = "filled"
  /\ WRITE_FENCE(pbuf[p])
  /\ MyTurn(p)
  /\ PStore(p, Store("prod_tail", Add(my_idx[p], 1)))
  /\ PGoto(p, "fence")
  /\ UNCHANGED <<prod_reserved, my_idx, ch_seen>>
  /\ NoMemory

\* Faulty variant: the doorbell is not fenced from the published tail.
Bug_Fenced(p) == TRUE
Fenced(p) == FULL_FENCE(pbuf[p])

\* After mfence: ring the doorbell of a sleeping consumer.
Doorbell(p) ==
  /\ ppc[p] = "fence"
  /\ Fenced(p)
  /\ PGoto(p, IF /\ cons_sleeping = 1
                 /\ \/ THRESH <= 1
                    \/ flipc2_ring_count(Add(my_idx[p], 1), cons_head) >= THRESH
              THEN "wake" ELSE "idle")
  /\ my_idx' = [my_idx EXCEPT ![p] = IF ppc'[p] = "idle" THEN 0 ELSE @]
  /\ UNCHANGED <<prod_reserved, ch_seen, pbuf>>
  /\ NoMemory

\* FUTEX_WAKE(prod_tail, 1).
WakeConsumer(p) ==
  /\ ppc[p] = "wake"
  /\ Trap(pbuf[p])
  /\ PGoto(p, "idle")
  /\ my_idx' = [my_idx EXCEPT ![p] = 0]
  /\ cpc' = IF cpc = "blocked" THEN "woken" ELSE cpc
  /\ UNCHANGED <<full_fence, shared, prod_reserved, ch_seen, pbuf, head, cbuf,
                 spurious_wakeups>>

-----------------------------------------------------------------------------
(* The consumer. *)

CStore(st) == cbuf' = Append(cbuf, st)
NoProducer == UNCHANGED <<full_fence, shared, prodVars>>

\* Faulty variant: the count of spurious wakeups survives a delivery.
Bug_Ready ==
  /\ cpc' = IF flipc2_ring_count(prod_tail, head) \in 1 .. RING_ENTRIES
            THEN "have" ELSE "corrupt"
  /\ UNCHANGED spurious_wakeups

\* What a wait makes of a prod_tail that is not head.
Ready ==
  /\ cpc' = IF flipc2_ring_count(prod_tail, head) \in 1 .. RING_ENTRIES
            THEN "have" ELSE "corrupt"
  /\ spurious_wakeups' = 0

\* Phase 1 of flipc2_consume_wait finds a descriptor.
ConsumeSpin ==
  /\ cpc = "idle"
  /\ prod_tail # head
  /\ Ready
  /\ UNCHANGED <<head, cbuf>>
  /\ NoProducer

ConsumeArm ==
  /\ cpc = "idle"
  /\ cpc' = "armed"
  /\ CStore(Store("cons_sleeping", 1))
  /\ UNCHANGED <<head, spurious_wakeups>>
  /\ NoProducer

ConsumeRecheck ==
  /\ cpc = "armed"
  /\ FULL_FENCE(cbuf)
  /\ IF prod_tail # head
     THEN Ready /\ CStore(Store("cons_sleeping", 0))
     ELSE cpc' = "futex" /\ UNCHANGED <<cbuf, spurious_wakeups>>
  /\ UNCHANGED head
  /\ NoProducer

ConsumeSleep ==
  /\ cpc = "futex"
  /\ Trap(cbuf)
  /\ cpc' = IF prod_tail = head THEN "blocked" ELSE "woken"
  /\ UNCHANGED <<head, cbuf, spurious_wakeups>>
  /\ NoProducer

ConsumeAwake ==
  /\ cpc = "woken"
  /\ cpc' = "verify"
  /\ CStore(Store("cons_sleeping", 0))
  /\ UNCHANGED <<head, spurious_wakeups>>
  /\ NoProducer

\* No data after the wait is a spurious wakeup, fatal at the limit.
ConsumeVerify ==
  /\ cpc = "verify"
  /\ IF prod_tail # head
     THEN Ready /\ cbuf' = cbuf
     ELSE /\ spurious_wakeups' = spurious_wakeups + 1
          /\ IF spurious_wakeups + 1 >= MAX_SPURIOUS
             THEN cpc' = "dead" /\ cbuf' = cbuf
             ELSE cpc' = "armed" /\ CStore(Store("cons_sleeping", 1))
  /\ UNCHANGED head
  /\ NoProducer

\* The caller is done with the descriptor: flipc2_consume_release up to its
\* second fence.
Release ==
  /\ cpc = "have"
  /\ head' = Add(head, 1)
  /\ CStore(Store("cons_head", Add(head, 1)))
  /\ cpc' = "released"
  /\ UNCHANGED spurious_wakeups
  /\ NoProducer

CheckProducers ==
  /\ cpc = "released"
  /\ WRITE_FENCE(cbuf)
  /\ cpc' = IF prod_sleeping = 1 THEN "wake" ELSE "idle"
  /\ UNCHANGED <<head, cbuf, spurious_wakeups>>
  /\ NoProducer

\* Faulty variant: FUTEX_WAKE(cons_head, 1), which may pick a producer whose
\* slot is not free yet.
Bug_Awoken(woken) ==
  LET blocked == {p \in Producers : ppc[p] = "blocked"}
  IN  woken \subseteq blocked /\ Cardinality(woken) = IF blocked = {} THEN 0 ELSE 1
\* FUTEX_WAKE(cons_head, all).
Awoken(woken) == woken = {p \in Producers : ppc[p] = "blocked"}

WakeProducers ==
  /\ cpc = "wake"
  /\ Trap(cbuf)
  /\ cpc' = "idle"
  /\ \E woken \in SUBSET Producers :
       /\ Awoken(woken)
       /\ ppc' = [p \in Producers |-> IF p \in woken THEN "loop" ELSE ppc[p]]
  /\ UNCHANGED <<full_fence, shared, prod_reserved, my_idx, ch_seen, pbuf, head,
                 cbuf, spurious_wakeups>>

-----------------------------------------------------------------------------
ProduceStep(p) ==
  \/ Spin(p) \/ Arm(p) \/ Recheck(p) \/ Sleep(p) \/ Fill(p) \/ Publish(p)
  \/ Doorbell(p) \/ WakeConsumer(p)
ConsumeStep ==
  \/ ConsumeSpin \/ ConsumeArm \/ ConsumeRecheck \/ ConsumeSleep \/ ConsumeAwake
  \/ ConsumeVerify \/ Release \/ CheckProducers \/ WakeProducers

Next ==
  \/ \E p \in Producers : Claim(p) \/ ProduceStep(p) \/ DrainProducer(p)
  \/ ConsumeStep \/ DrainConsumer

Spec == Init /\ [][Next]_vars

\* Processors drain their buffers, producers finish what they claimed, and
\* the consumer's loop runs.  Nothing makes a producer claim again.
FairSpec ==
  /\ Spec
  /\ \A p \in Producers : WF_vars(ProduceStep(p)) /\ WF_vars(DrainProducer(p))
  /\ WF_vars(ConsumeStep) /\ WF_vars(DrainConsumer)

-----------------------------------------------------------------------------
(* Properties. *)

\* The shared words and the locals of both sides have their types.
TypeOK ==
  /\ full_fence \in BOOLEAN
  /\ ring \in [Slots -> Word \cup {NONE}]
  /\ {prod_reserved, prod_tail, cons_head, head} \subseteq Word
  /\ {prod_sleeping, cons_sleeping} \subseteq {0, 1}
  /\ my_idx \in [Producers -> Word] /\ ch_seen \in [Producers -> Word]
  /\ spurious_wakeups \in 0 .. MAX_SPURIOUS

\* Honest producers never make the ring look corrupt, and their late
\* wakeups never add up to more than one each, so a consumer does not
\* declare a live channel dead.
NoFalseAlarm ==
  /\ cpc \notin {"corrupt", "dead"}
  /\ spurious_wakeups <= Cardinality(Producers)

\* A consumer asleep while a descriptor is published has a producer on its
\* way to FUTEX_WAKE.
NoLostConsumerWakeup ==
  cpc = "blocked" /\ prod_tail # head
    => \E p \in Producers : ppc[p] \in {"fence", "wake"}

\* With full fences every producer that has claimed a number publishes it,
\* also when several sleep on the full ring and when its predecessors sleep:
\* the numbers before a claimed one cannot get stuck.
ClaimPublished ==
  \A p \in Producers :
    (full_fence /\ ppc[p] = "spin") ~> (ppc[p] = "fence")

\* From the consumer's head, whose descriptor it may be reading, to the
\* published tail the ring is the queue of module Fifo, to which the producers
\* together append number after number: no slot is published before it is
\* filled, and none is overwritten by a producer one lap ahead.
Window == [i \in 1 .. flipc2_ring_count(prod_tail, head) |->
             ring[flipc2_ring_idx(Add(head, i - 1))]]
Channel == INSTANCE Fifo WITH Capacity <- RING_ENTRIES, Modulus <- WORD,
                              queue <- Window, next <- prod_tail
ImplementsFifo == Channel!FifoSpec
=============================================================================
