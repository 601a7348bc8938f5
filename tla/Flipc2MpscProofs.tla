-------------------------- MODULE Flipc2MpscProofs --------------------------
(***************************************************************************)
(* Proofs about module Flipc2Mpsc, for every set of producers, ring size   *)
(* and counter width that satisfy the assumptions of Flipc2Ring and        *)
(* Flipc2Mpsc, and for both builds of FLIPC2_WRITE_FENCE.                  *)
(*                                                                         *)
(* All distances are measured from cons_head in memory, the oldest counter *)
(* of the channel.  The invariant orders the counters and the claimed      *)
(* numbers behind each other, says what each store buffer may hold at each *)
(* point of the code, which slots the ring has filled, and how many late   *)
(* wakeups are still on their way to the consumer.                         *)
(***************************************************************************)
EXTENDS Flipc2Mpsc, Flipc2RingLemmas, FiniteSetTheorems

-----------------------------------------------------------------------------
(* The invariant. *)

Claiming == {"spin", "loop", "full", "armed", "futex", "blocked", "got", "filled"}
ProducerPc == Claiming \cup {"idle", "fence", "wake"}
ConsumerPc == {"idle", "armed", "futex", "blocked", "woken", "verify", "have",
               "released", "wake", "corrupt", "dead"}

\* What the consumer stores.
ConsumerStores ==
  {Store("cons_sleeping", v) : v \in {0, 1}} \cup {Store("cons_head", w) : w \in Word}

Types ==
  /\ full_fence \in BOOLEAN
  /\ ring \in [Slots -> Word \cup {NONE}]
  /\ prod_reserved \in Word /\ prod_tail \in Word
  /\ cons_head \in Word /\ head \in Word
  /\ prod_sleeping \in {0, 1} /\ cons_sleeping \in {0, 1}
  /\ my_idx \in [Producers -> Word] /\ ch_seen \in [Producers -> Word]
  /\ ppc \in [Producers -> ProducerPc]
  /\ DOMAIN pbuf = Producers /\ pbuf = [p \in Producers |-> pbuf[p]]
  /\ cpc \in ConsumerPc
  /\ cbuf \in Seq(ConsumerStores)
  /\ spurious_wakeups \in Nat

\* The stores of a producer, in the order of its program.
SleepStore     == Store("prod_sleeping", 1)
FillStore(w)   == Store("ring", w)
TailStore(w)   == Store("prod_tail", Add(w, 1))

\* What is left of them at each point of flipc2_produce_wait_mpsc and
\* flipc2_produce_commit_mpsc, b being the buffer of a producer at pc that
\* claimed w.
BufferAt(pc, w, b) ==
  \/ b = <<>>
  \/ pc \in {"armed", "futex", "got"} /\ b = <<SleepStore>>
  \/ pc = "filled" /\ b \in {<<FillStore(w)>>, <<SleepStore, FillStore(w)>>}
  \/ pc = "fence" /\ b \in {<<TailStore(w)>>, <<FillStore(w), TailStore(w)>>,
                            <<SleepStore, FillStore(w), TailStore(w)>>}

Buffers == \A p \in Producers : BufferAt(ppc[p], my_idx[p], pbuf[p])

\* The distance of a counter from cons_head.
D(w) == flipc2_ring_count(w, cons_head)

\* Producers whose number is claimed and not published.
Pending ==
  {p \in Producers : ppc[p] \in Claiming \/ (ppc[p] = "fence" /\ pbuf[p] # <<>>)}

\* Producers that have published and may still ring the doorbell.
Late ==
  {p \in Producers : ppc[p] = "wake" \/ (ppc[p] = "fence" /\ pbuf[p] = <<>>)}

\* cons_head, head, prod_tail and prod_reserved come in this order, and there
\* are at most as many unpublished numbers as pending producers.
Order ==
  /\ D(head) <= D(prod_tail) /\ D(prod_tail) <= RING_ENTRIES
  /\ D(prod_tail) <= D(prod_reserved)
  /\ D(prod_reserved) <= D(prod_tail) + Cardinality(Pending)

\* The claimed numbers lie between prod_tail and prod_reserved and are
\* different; one that found room still has it, and one whose tail is on its
\* way to memory is the next to be published.
Claims ==
  /\ \A p \in Pending : /\ D(prod_tail) <= D(my_idx[p])
                        /\ D(my_idx[p]) < D(prod_reserved)
                        /\ ppc[p] \in {"got", "filled", "fence"}
                             => D(my_idx[p]) < RING_ENTRIES
                        /\ ppc[p] = "fence" => my_idx[p] = prod_tail
  /\ \A p, q \in Pending : my_idx[p] = my_idx[q] => p = q

\* The consumer's buffered cons_head values follow each other up to head.
HeadStores ==
  \A i \in 1 .. Len(cbuf) :
    cbuf[i].loc = "cons_head" =>
      /\ D(cbuf[i].val) <= D(head)
      /\ \A j \in 1 .. Len(cbuf) :
           i < j /\ cbuf[j].loc = "cons_head" => D(cbuf[i].val) <= D(cbuf[j].val)

\* The slot of a producer has reached the memory.
Filled(p) == \/ ppc[p] = "filled" /\ pbuf[p] = <<>>
             \/ ppc[p] = "fence" /\ pbuf[p] = <<TailStore(my_idx[p])>>

\* Every published slot, and every one filled since, holds its number.
RingHolds ==
  /\ \A w \in Word : D(w) < D(prod_tail) => ring[flipc2_ring_idx(w)] = w
  /\ \A p \in Pending : Filled(p) => ring[flipc2_ring_idx(my_idx[p])] = my_idx[p]

\* A consumer that has been given a descriptor has one.
Given ==
  /\ cpc # "corrupt"
  /\ cpc = "have" => prod_tail # head /\ spurious_wakeups = 0

\* While nothing is published, the spurious wakeups counted, the one being
\* handled and those that may still come are together at most one for each
\* producer.
Wakeups ==
  /\ spurious_wakeups <= Cardinality(Producers)
  /\ prod_tail = head =>
       spurious_wakeups + (IF cpc \in {"woken", "verify"} THEN 1 ELSE 0)
         + Cardinality(Late) <= Cardinality(Producers)
  /\ IF cpc = "dead" THEN spurious_wakeups = MAX_SPURIOUS
                     ELSE spurious_wakeups < MAX_SPURIOUS

\* cons_sleeping is set, or its store is the last one buffered, from the
\* moment the consumer arms until it is woken.
Armed ==
  /\ cpc = "armed" => \/ cbuf = <<>> /\ cons_sleeping = 1
                      \/ cbuf # <<>> /\ cbuf[Len(cbuf)] = Store("cons_sleeping", 1)
  /\ cpc \in {"futex", "blocked"} => cbuf = <<>> /\ cons_sleeping = 1

MpscInv ==
  /\ Types /\ Buffers /\ Order /\ Claims /\ HeadStores /\ RingHolds /\ Given
  /\ Wakeups /\ Armed

-----------------------------------------------------------------------------
(* Types, bounds and the initial states. *)

LEMMA Bounds ==
  /\ RING_ENTRIES \in Nat \ {0} /\ WORD \in Nat /\ 4 * RING_ENTRIES <= WORD
  /\ 1 \in 0 .. RING_ENTRIES
  /\ Cardinality(Producers) \in Nat
  /\ 2 * (RING_ENTRIES + Cardinality(Producers)) <= WORD
  /\ MAX_SPURIOUS \in Nat \ {0}
  BY RingAssumption, MpscAssumption, FS_CardinalityType

LEMMA ZeroIsWord == 0 \in Word
<1>1. WORD \in Nat /\ WORD > 0
  BY RingAssumption
<1> QED
  BY <1>1 DEF Word

LEMMA CountIsNat ==
  \A a, b \in Word : flipc2_ring_count(a, b) \in Nat /\ flipc2_ring_count(a, b) < WORD
<1> TAKE a, b \in Word
<1>1. flipc2_ring_count(a, b) \in Word
  BY WordClosed
<1> QED
  BY <1>1, RingAssumption DEF Word

LEMMA NextWord == \A w \in Word : Add(w, 1) \in Word
  BY WordClosed, Bounds

\* Sets of producers are finite.
LEMMA ProducerSets ==
  ASSUME NEW S \in SUBSET Producers
  PROVE  /\ IsFiniteSet(S) /\ Cardinality(S) \in Nat
         /\ Cardinality(S) <= Cardinality(Producers)
         /\ \A p \in Producers \ S : /\ Cardinality(S \cup {p}) = Cardinality(S) + 1
                                     /\ Cardinality(S) + 1 <= Cardinality(Producers)
         /\ \A p \in S : Cardinality(S \ {p}) = Cardinality(S) - 1
<1>1. IsFiniteSet(S)
  BY MpscAssumption, FS_Subset
<1>2. Cardinality(S) \in Nat /\ Cardinality(S) <= Cardinality(Producers)
  BY <1>1, MpscAssumption, FS_CardinalityType, FS_Subset
<1>3. ASSUME NEW p \in Producers \ S
      PROVE  /\ Cardinality(S \cup {p}) = Cardinality(S) + 1
             /\ Cardinality(S) + 1 <= Cardinality(Producers)
  <2>1. Cardinality(S \cup {p}) = Cardinality(S) + 1
    BY <1>1, FS_AddElement
  <2>2. S \cup {p} \subseteq Producers
    OBVIOUS
  <2>3. Cardinality(S \cup {p}) <= Cardinality(Producers)
    BY <2>2, MpscAssumption, FS_Subset
  <2> QED
    BY <2>1, <2>3
<1>4. ASSUME NEW p \in S
      PROVE  Cardinality(S \ {p}) = Cardinality(S) - 1
  BY <1>1, FS_RemoveElement
<1> QED
  BY <1>1, <1>2, <1>3, <1>4

\* Short sequences.
LEMMA TuplesAppend ==
  ASSUME NEW x, NEW y, NEW z
  PROVE  /\ Append(<<>>, x) = <<x>>
         /\ Append(<<x>>, y) = <<x, y>>
         /\ Append(<<x, y>>, z) = <<x, y, z>>
<1>1. Append(<<>>, x) = <<x>>
  OBVIOUS
<1>2. Append(<<x>>, y) = <<x, y>>
  <2> DEFINE s == Append(<<x>>, y)
  <2>1. s = [i \in 1 .. 2 |-> IF i = 2 THEN y ELSE <<x>>[i]]
    OBVIOUS
  <2> HIDE DEF s
  <2>2. s = [i \in 1 .. 2 |-> s[i]] /\ s[1] = x /\ s[2] = y
    BY <2>1
  <2>3. s = <<x, y>>
    BY <2>2
  <2> QED
    BY <2>3 DEF s
<1>3. Append(<<x, y>>, z) = <<x, y, z>>
  <2> DEFINE s == Append(<<x, y>>, z)
  <2>1. s = [i \in 1 .. 3 |-> IF i = 3 THEN z ELSE <<x, y>>[i]]
    OBVIOUS
  <2> HIDE DEF s
  <2>2. s = [i \in 1 .. 3 |-> s[i]] /\ s[1] = x /\ s[2] = y /\ s[3] = z
    BY <2>1
  <2>3. s = <<x, y, z>>
    BY <2>2
  <2> QED
    BY <2>3 DEF s
<1> QED
  BY <1>1, <1>2, <1>3

LEMMA TuplesTail ==
  ASSUME NEW x, NEW y, NEW z
  PROVE  /\ Head(<<x>>) = x /\ Head(<<x, y>>) = x /\ Head(<<x, y, z>>) = x
         /\ Tail(<<x>>) = <<>> /\ Tail(<<x, y>>) = <<y>>
         /\ Tail(<<x, y, z>>) = <<y, z>>
<1>1. Head(<<x>>) = x /\ Head(<<x, y>>) = x /\ Head(<<x, y, z>>) = x
  OBVIOUS
<1>2. Tail(<<x>>) = <<>>
  OBVIOUS
<1>3. Tail(<<x, y>>) = <<y>>
  OBVIOUS
<1>4. Tail(<<x, y, z>>) = <<y, z>>
  OBVIOUS
<1> QED
  BY <1>1, <1>2, <1>3, <1>4

LEMMA InvInit == Init => MpscInv
<1> SUFFICES ASSUME Init PROVE MpscInv
  OBVIOUS
<1>1. Types
  BY Bounds, RingAssumption, MpscAssumption
  DEF Init, Types, Word, Slots, NONE, ProducerPc, ConsumerPc
<1>2. Buffers
  BY DEF Init, Buffers, BufferAt
<1>3. Pending = {} /\ Late = {}
  BY DEF Init, Pending, Late, Claiming
<1>4. Cardinality({}) = 0
  BY FS_EmptySet
<1>5. 0 \in Word /\ flipc2_ring_count(0, 0) = 0
  BY CountSelf, Bounds DEF Word
<1>6. Order
  BY <1>3, <1>4, <1>5, Bounds DEF Init, Order, D
<1>7. Claims /\ HeadStores
  BY <1>3 DEF Init, Claims, HeadStores
<1>8. RingHolds
  <2>1. D(prod_tail) = 0
    BY <1>5 DEF Init, D
  <2>2. \A w \in Word : D(w) \in Nat
    BY <1>5, CountIsNat DEF D, Init
  <2> QED
    BY <1>3, <2>1, <2>2 DEF RingHolds
<1>9. Given /\ Wakeups /\ Armed
  BY <1>3, <1>4, Bounds DEF Init, Given, Wakeups, Armed
<1> QED
  BY <1>1, <1>2, <1>6, <1>7, <1>8, <1>9 DEF MpscInv

-----------------------------------------------------------------------------
(* Producers. *)

\* A step of one producer that leaves its number claimed and unpublished, and
\* touches no memory but prod_sleeping.
PendingStep(p, pc, b) ==
  /\ p \in Pending
  /\ pc \in Claiming \/ (pc = "fence" /\ b # <<>>)
  /\ ppc' = [ppc EXCEPT ![p] = pc]
  /\ pbuf' = [pbuf EXCEPT ![p] = b]
  /\ BufferAt(pc, my_idx[p], b)
  /\ pc \in {"got", "filled", "fence"} => D(my_idx[p]) < RING_ENTRIES
  /\ pc = "fence" => my_idx[p] = prod_tail
  /\ \/ pc = "filled" /\ b = <<>>
     \/ pc = "fence" /\ b = <<TailStore(my_idx[p])>>
     => ring[flipc2_ring_idx(my_idx[p])] = my_idx[p]
  /\ ch_seen' \in [Producers -> Word]
  /\ prod_sleeping' \in {0, 1}
  /\ UNCHANGED <<full_fence, ring, prod_reserved, prod_tail, cons_head,
                 cons_sleeping, my_idx, consVars>>

LEMMA PendingStepKeeps ==
  ASSUME MpscInv, NEW p, NEW pc, NEW b, PendingStep(p, pc, b)
  PROVE  MpscInv'
<1>1. /\ p \in Producers /\ p \in Pending
      /\ ppc[p] \in Claiming \/ (ppc[p] = "fence" /\ pbuf[p] # <<>>)
      /\ pc \in Claiming \/ (pc = "fence" /\ b # <<>>)
  BY DEF PendingStep, Pending
<1>2. /\ UNCHANGED <<full_fence, ring, prod_reserved, prod_tail, cons_head,
                     cons_sleeping, my_idx, cpc, head, cbuf, spurious_wakeups>>
      /\ ppc' = [ppc EXCEPT ![p] = pc] /\ pbuf' = [pbuf EXCEPT ![p] = b]
  BY DEF PendingStep, consVars
<1>3. ppc \in [Producers -> ProducerPc] /\ DOMAIN pbuf = Producers
  BY DEF MpscInv, Types
<1>4. /\ ppc'[p] = pc /\ pbuf'[p] = b
      /\ \A q \in Producers \ {p} : ppc'[q] = ppc[q] /\ pbuf'[q] = pbuf[q]
      /\ DOMAIN pbuf' = Producers /\ pbuf' = [q \in Producers |-> pbuf'[q]]
  BY <1>1, <1>2, <1>3
<1>5. Types'
  <2>1. pc \in ProducerPc
    BY <1>1 DEF ProducerPc
  <2> QED
    BY <1>1, <1>2, <1>3, <1>4, <2>1 DEF MpscInv, Types, PendingStep
<1>6. Buffers'
  BY <1>1, <1>2, <1>4 DEF MpscInv, Buffers, PendingStep
<1>7. \A q \in Producers : (q \in Pending' <=> q \in Pending) /\ (q \in Late' <=> q \in Late)
  BY <1>1, <1>4 DEF Pending, Late, Claiming
<1>8. Pending' = Pending /\ Late' = Late
  BY <1>7 DEF Pending, Late
<1>9. Order'
  BY <1>2, <1>8 DEF MpscInv, Order, D
<1>10. Claims'
  <2>1. ASSUME NEW q \in Pending
        PROVE  /\ D(prod_tail)' <= D(my_idx[q])'
               /\ D(my_idx[q])' < D(prod_reserved)'
               /\ ppc'[q] \in {"got", "filled", "fence"}
                    => D(my_idx[q])' < RING_ENTRIES
               /\ ppc'[q] = "fence" => my_idx'[q] = prod_tail'
    <3>1. q \in Producers
      BY DEF Pending
    <3> QED
      BY <1>2, <1>4, <3>1 DEF MpscInv, Claims, D, PendingStep
  <2> QED
    BY <1>2, <1>8, <2>1 DEF MpscInv, Claims
<1>11. HeadStores'
  BY <1>2 DEF MpscInv, HeadStores, D
<1>12. RingHolds'
  <2>1. ASSUME NEW q \in Pending, Filled(q)'
        PROVE  ring[flipc2_ring_idx(my_idx[q])] = my_idx[q]
    <3>1. q \in Producers
      BY DEF Pending
    <3>2. CASE q = p
      BY <1>2, <1>4, <2>1, <3>2 DEF PendingStep, Filled, TailStore
    <3>3. CASE q # p
      BY <1>2, <1>4, <2>1, <3>1, <3>3 DEF MpscInv, RingHolds, Filled, TailStore
    <3> QED
      BY <3>2, <3>3
  <2> QED
    BY <1>2, <1>8, <2>1 DEF MpscInv, RingHolds, D
<1>13. Given' /\ Wakeups' /\ Armed'
  BY <1>2, <1>8 DEF MpscInv, Given, Wakeups, Armed
<1> QED
  BY <1>5, <1>6, <1>9, <1>10, <1>11, <1>12, <1>13 DEF MpscInv

\* The steps before a producer publishes are of this form.
LEMMA ClaimingSteps ==
  ASSUME MpscInv, NEW p \in Producers,
         Spin(p) \/ Arm(p) \/ Recheck(p) \/ Sleep(p) \/ Fill(p) \/ Publish(p)
  PROVE  MpscInv'
<1>1. /\ ppc \in [Producers -> ProducerPc] /\ DOMAIN pbuf = Producers
      /\ pbuf = [q \in Producers |-> pbuf[q]]
      /\ cons_head \in Word /\ ch_seen \in [Producers -> Word]
      /\ prod_sleeping \in {0, 1} /\ 0 \in Word
  BY ZeroIsWord DEF MpscInv, Types
<1>2. pbuf = [pbuf EXCEPT ![p] = pbuf[p]]
  BY <1>1
<1>3. BufferAt(ppc[p], my_idx[p], pbuf[p])
  BY DEF MpscInv, Buffers
<1>4. Fits(p) => D(my_idx[p]) < RING_ENTRIES
  BY DEF Fits, D
<1>5. NoMemory => UNCHANGED <<full_fence, ring, prod_tail, cons_head, prod_sleeping,
                              cons_sleeping, consVars>>
  BY DEF NoMemory, shared
<1> USE DEF Claiming
<1>6. CASE Spin(p)
  <2> DEFINE pc == IF Fits(p) THEN "got" ELSE "full"
  <2>1. pbuf[p] = <<>> /\ p \in Pending
    BY <1>3, <1>6 DEF Spin, BufferAt, Pending
  <2>2. ppc' = [ppc EXCEPT ![p] = pc] /\ pbuf' = [pbuf EXCEPT ![p] = pbuf[p]]
    BY <1>2, <1>6 DEF Spin, PGoto
  <2>3. BufferAt(pc, my_idx[p], pbuf[p])
    BY <2>1 DEF BufferAt
  <2>4. PendingStep(p, pc, pbuf[p])
    BY <1>1, <1>4, <1>5, <1>6, <2>1, <2>2, <2>3 DEF PendingStep, Spin
  <2> QED
    BY <2>4, PendingStepKeeps
<1>7. CASE Arm(p)
  <2> DEFINE b == <<SleepStore>>
  <2>1. pbuf[p] = <<>> /\ p \in Pending
    BY <1>3, <1>7 DEF Arm, BufferAt, Pending
  <2>2. ppc' = [ppc EXCEPT ![p] = "armed"] /\ pbuf' = [pbuf EXCEPT ![p] = b]
    BY <1>7, <2>1 DEF Arm, PGoto, PStore, SleepStore
  <2>3. BufferAt("armed", my_idx[p], b)
    BY <2>1 DEF BufferAt
  <2>4. PendingStep(p, "armed", b)
    BY <1>1, <1>5, <1>7, <2>1, <2>2, <2>3 DEF PendingStep, Arm
  <2> QED
    BY <2>4, PendingStepKeeps
<1>8. CASE Recheck(p)
  <2> DEFINE pc == IF Fits(p) THEN "got" ELSE "futex"
  <2>1. p \in Pending
    BY <1>8 DEF Recheck, Pending
  <2>2. ppc' = [ppc EXCEPT ![p] = pc] /\ pbuf' = [pbuf EXCEPT ![p] = pbuf[p]]
    BY <1>2, <1>8 DEF Recheck, PGoto
  <2>3. BufferAt(pc, my_idx[p], pbuf[p])
    BY <1>3, <1>8 DEF Recheck, BufferAt
  <2>4. ch_seen' \in [Producers -> Word]
    BY <1>1, <1>8 DEF Recheck
  <2>5. PendingStep(p, pc, pbuf[p])
    BY <1>1, <1>4, <1>5, <1>8, <2>1, <2>2, <2>3, <2>4 DEF PendingStep, Recheck
  <2> QED
    BY <2>5, PendingStepKeeps
<1>9. CASE Sleep(p)
  <2> DEFINE pc == IF cons_head = ch_seen[p] THEN "blocked" ELSE "loop"
  <2>1. p \in Pending /\ pbuf[p] = <<>>
    BY <1>9 DEF Sleep, Trap, Pending
  <2>2. ppc' = [ppc EXCEPT ![p] = pc] /\ pbuf' = [pbuf EXCEPT ![p] = pbuf[p]]
    BY <1>2, <1>9 DEF Sleep, PGoto
  <2>3. BufferAt(pc, my_idx[p], pbuf[p])
    BY <2>1 DEF BufferAt
  <2>4. PendingStep(p, pc, pbuf[p])
    BY <1>1, <1>5, <1>9, <2>1, <2>2, <2>3 DEF PendingStep, Sleep
  <2> QED
    BY <2>4, PendingStepKeeps
<1>10. CASE Fill(p)
  <2> DEFINE b == Append(pbuf[p], FillStore(my_idx[p]))
  <2>1. p \in Pending /\ ppc[p] = "got"
    BY <1>10 DEF Fill, Pending
  <2>2. ppc' = [ppc EXCEPT ![p] = "filled"] /\ pbuf' = [pbuf EXCEPT ![p] = b]
    BY <1>10 DEF Fill, PGoto, PStore, FillStore
  <2>3. pbuf[p] = <<>> \/ pbuf[p] = <<SleepStore>>
    BY <1>3, <2>1 DEF BufferAt
  <2>4. b = <<FillStore(my_idx[p])>> \/ b = <<SleepStore, FillStore(my_idx[p])>>
    BY <2>3, TuplesAppend
  <2>5. BufferAt("filled", my_idx[p], b) /\ b # <<>>
    BY <2>4 DEF BufferAt
  <2>6. D(my_idx[p]) < RING_ENTRIES
    BY <2>1 DEF MpscInv, Claims
  <2> HIDE DEF b
  <2>7. PendingStep(p, "filled", b)
    BY <1>1, <1>5, <1>10, <2>1, <2>2, <2>5, <2>6 DEF PendingStep, Fill
  <2> QED
    BY <2>7, PendingStepKeeps
<1>11. CASE Publish(p)
  <2> DEFINE w == my_idx[p]
             b == Append(pbuf[p], TailStore(w))
  <2>1. p \in Pending /\ ppc[p] = "filled" /\ w = prod_tail
    BY <1>11 DEF Publish, MyTurn, Pending
  <2>2. ppc' = [ppc EXCEPT ![p] = "fence"] /\ pbuf' = [pbuf EXCEPT ![p] = b]
    BY <1>11 DEF Publish, PGoto, PStore, TailStore
  <2>3. pbuf[p] \in {<<>>, <<FillStore(w)>>, <<SleepStore, FillStore(w)>>}
    BY <1>3, <2>1 DEF BufferAt
  <2>4. b \in {<<TailStore(w)>>, <<FillStore(w), TailStore(w)>>,
               <<SleepStore, FillStore(w), TailStore(w)>>}
    <3>1. CASE pbuf[p] = <<>>
      BY <3>1, TuplesAppend
    <3>2. CASE pbuf[p] = <<FillStore(w)>>
      BY <3>2, TuplesAppend
    <3>3. CASE pbuf[p] = <<SleepStore, FillStore(w)>>
      <4>1. Append(<<SleepStore, FillStore(w)>>, TailStore(w))
              = <<SleepStore, FillStore(w), TailStore(w)>>
        BY TuplesAppend, Zenon
      <4> QED
        BY <3>3, <4>1, Zenon
    <3> QED
      BY <2>3, <3>1, <3>2, <3>3
  <2>5. BufferAt("fence", w, b) /\ b # <<>>
    BY <2>4 DEF BufferAt
  <2>6. D(w) < RING_ENTRIES
    BY <2>1 DEF MpscInv, Claims
  <2>7. b = <<TailStore(w)>> => pbuf[p] = <<>>
    BY <2>3
  <2>8. pbuf[p] = <<>> => ring[flipc2_ring_idx(w)] = w
    BY <2>1 DEF MpscInv, RingHolds, Filled
  <2> HIDE DEF b
  <2>9. PendingStep(p, "fence", b)
    BY <1>1, <1>5, <1>11, <2>1, <2>2, <2>5, <2>6, <2>7, <2>8 DEF PendingStep, Publish
  <2> QED
    BY <2>9, PendingStepKeeps
<1> QED
  BY <1>6, <1>7, <1>8, <1>9, <1>10, <1>11

\* A claim takes the first number nobody has; the channel has fewer numbers
\* under way than half a word, so prod_reserved stays ahead of cons_head.
LEMMA ClaimKeeps ==
  ASSUME MpscInv, NEW p \in Producers, Claim(p)
  PROVE  MpscInv'
<1>1. /\ ppc[p] = "idle" /\ pbuf[p] = <<>>
      /\ my_idx' = [my_idx EXCEPT ![p] = prod_reserved]
      /\ prod_reserved' = Add(prod_reserved, 1)
      /\ ppc' = [ppc EXCEPT ![p] = "spin"]
      /\ UNCHANGED <<full_fence, ring, prod_tail, cons_head, prod_sleeping,
                     cons_sleeping, ch_seen, pbuf, cpc, head, cbuf, spurious_wakeups>>
  BY DEF Claim, Trap, PGoto, NoMemory, shared, consVars
<1>2. /\ ppc \in [Producers -> ProducerPc] /\ my_idx \in [Producers -> Word]
      /\ prod_reserved \in Word /\ prod_tail \in Word /\ cons_head \in Word
      /\ head \in Word
  BY DEF MpscInv, Types
<1>3. /\ ppc'[p] = "spin" /\ my_idx'[p] = prod_reserved
      /\ \A q \in Producers \ {p} : ppc'[q] = ppc[q] /\ my_idx'[q] = my_idx[q]
  BY <1>1, <1>2
<1>4. Types'
  <2>1. Add(prod_reserved, 1) \in Word
    BY <1>2, NextWord
  <2> QED
    BY <1>1, <1>2, <2>1 DEF MpscInv, Types, ProducerPc, Claiming
<1>5. Buffers'
  BY <1>1, <1>3 DEF MpscInv, Buffers, BufferAt
<1>6. p \in Producers \ Pending
  BY <1>1 DEF Pending, Claiming
<1>7. \A q \in Producers : /\ q \in Pending' <=> q \in Pending \/ q = p
                           /\ q \in Late' <=> q \in Late
  BY <1>1, <1>3 DEF Pending, Late, Claiming
<1>8. Pending' = Pending \cup {p} /\ Late' = Late
  BY <1>7 DEF Pending, Late
<1>9. /\ Cardinality(Pending') = Cardinality(Pending) + 1
      /\ Cardinality(Pending) \in Nat
      /\ Cardinality(Pending) + 1 <= Cardinality(Producers)
  <2>1. Pending \in SUBSET Producers
    BY DEF Pending
  <2> QED
    BY <1>6, <1>8, <2>1, ProducerSets
<1>10. \A w \in Word : D(w) \in Nat /\ D(w)' = D(w)
  BY <1>1, <1>2, CountIsNat DEF D
<1>11. D(prod_reserved)' = D(prod_reserved) + 1
  <2> DEFINE x == D(prod_reserved)
             y == D(prod_tail)
             n == Cardinality(Pending)
  <2>1. x \in Nat /\ y \in Nat /\ n \in Nat
    BY <1>2, <1>9, <1>10
  <2>2. x <= y + n /\ y <= RING_ENTRIES /\ n + 1 <= Cardinality(Producers)
    BY <1>9 DEF MpscInv, Order
  <2> HIDE DEF x, y, n
  <2>3. x + 1 < WORD
    BY <2>1, <2>2, Bounds
  <2> QED
    BY <1>1, <1>2, <2>3, CountAdvance, Bounds DEF D, x
<1>12. Order'
  <2>1. /\ D(head) \in Nat /\ D(prod_tail) \in Nat /\ D(prod_reserved) \in Nat
        /\ D(head)' = D(head) /\ D(prod_tail)' = D(prod_tail)
    BY <1>1, <1>2, <1>10 DEF D
  <2> QED
    BY <1>9, <1>11, <2>1 DEF MpscInv, Order
<1>13. \A q \in Pending : /\ q \in Producers \ {p} /\ my_idx[q] \in Word
                          /\ my_idx'[q] = my_idx[q] /\ ppc'[q] = ppc[q]
  BY <1>2, <1>3, <1>6 DEF Pending
<1>14. D(prod_tail)' = D(prod_tail) /\ D(my_idx[p])' = D(prod_reserved)
  BY <1>1, <1>3 DEF D
<1>15. Claims'
  <2>1. ASSUME NEW q \in Pending
        PROVE  /\ D(prod_tail)' <= D(my_idx[q])'
               /\ D(my_idx[q])' < D(prod_reserved)'
               /\ ppc'[q] \in {"got", "filled", "fence"}
                    => D(my_idx[q])' < RING_ENTRIES
               /\ ppc'[q] = "fence" => my_idx'[q] = prod_tail'
               /\ my_idx'[q] # my_idx'[p]
    <3>1. /\ D(prod_tail) <= D(my_idx[q]) /\ D(my_idx[q]) < D(prod_reserved)
          /\ ppc[q] \in {"got", "filled", "fence"} => D(my_idx[q]) < RING_ENTRIES
          /\ ppc[q] = "fence" => my_idx[q] = prod_tail
      BY DEF MpscInv, Claims
    <3>2. /\ D(my_idx[q])' = D(my_idx[q]) /\ D(my_idx[q]) \in Nat
          /\ D(prod_reserved) \in Nat
      BY <1>1, <1>2, <1>10, <1>13 DEF D
    <3>3. my_idx[q] # prod_reserved
      BY <3>1, <3>2
    <3> QED
      BY <1>1, <1>3, <1>11, <1>13, <1>14, <3>1, <3>2, <3>3
  <2>2. /\ D(prod_tail)' <= D(my_idx[p])' /\ D(my_idx[p])' < D(prod_reserved)'
        /\ ppc'[p] \notin {"got", "filled", "fence"}
    <3>1. D(prod_reserved) \in Nat /\ D(prod_tail) <= D(prod_reserved)
      BY <1>2, <1>10 DEF MpscInv, Order
    <3> QED
      BY <1>3, <1>11, <1>14, <3>1
  <2>3. ASSUME NEW q \in Pending, NEW r \in Pending, my_idx'[q] = my_idx'[r]
        PROVE  q = r
    BY <1>13, <2>3 DEF MpscInv, Claims
  <2> QED
    BY <1>8, <2>1, <2>2, <2>3 DEF Claims
<1>16. HeadStores'
  BY <1>1 DEF MpscInv, HeadStores, D
<1>17. RingHolds'
  <2>1. ~Filled(p)'
    BY <1>3 DEF Filled
  <2>2. ASSUME NEW q \in Pending, Filled(q)'
        PROVE  ring[flipc2_ring_idx(my_idx[q])] = my_idx[q]
    BY <1>1, <1>13, <2>2 DEF MpscInv, RingHolds, Filled
  <2> QED
    BY <1>1, <1>8, <1>13, <2>1, <2>2 DEF MpscInv, RingHolds, D
<1>18. Given' /\ Wakeups' /\ Armed'
  BY <1>1, <1>8 DEF MpscInv, Given, Wakeups, Armed
<1> QED
  BY <1>4, <1>5, <1>12, <1>15, <1>16, <1>17, <1>18 DEF MpscInv

\* After the fence a producer rings the doorbell or not and forgets its
\* number; ringing it uses up one late wakeup.
LEMMA DoorbellKeeps ==
  ASSUME MpscInv, NEW p \in Producers, Doorbell(p) \/ WakeConsumer(p)
  PROVE  MpscInv'
<1> DEFINE pc == ppc'[p]
<1>1. /\ ppc \in [Producers -> ProducerPc] /\ my_idx \in [Producers -> Word]
      /\ 0 \in Word
  BY ZeroIsWord DEF MpscInv, Types
<1>2. /\ pbuf[p] = <<>> /\ ppc[p] \in {"fence", "wake"}
      /\ ppc' = [ppc EXCEPT ![p] = pc] /\ pc \in {"wake", "idle"}
      /\ my_idx' \in [Producers -> Word]
      /\ \A q \in Producers \ {p} : my_idx'[q] = my_idx[q]
      /\ UNCHANGED <<full_fence, ring, prod_reserved, prod_tail, cons_head,
                     prod_sleeping, cons_sleeping, ch_seen, pbuf, head, cbuf,
                     spurious_wakeups>>
  <2>1. CASE Doorbell(p)
    BY <1>1, <2>1 DEF Doorbell, Fenced, FULL_FENCE, PGoto, NoMemory, shared, consVars
  <2>2. CASE WakeConsumer(p)
    BY <1>1, <2>2 DEF WakeConsumer, Trap, PGoto, shared
  <2> QED
    BY <2>1, <2>2
<1>3. /\ \/ cpc' = cpc
         \/ cpc = "blocked" /\ cpc' = "woken" /\ pc = "idle"
  <2>1. CASE Doorbell(p)
    BY <2>1 DEF Doorbell, NoMemory, consVars
  <2>2. CASE WakeConsumer(p)
    BY <1>1, <2>2 DEF WakeConsumer, PGoto
  <2> QED
    BY <2>1, <2>2
<1> HIDE DEF pc
<1>4. \A q \in Producers \ {p} : ppc'[q] = ppc[q]
  BY <1>1, <1>2
<1>5. ppc'[p] = pc
  BY DEF pc
<1>6. Types'
  <2>1. cpc' \in ConsumerPc /\ pc \in ProducerPc
    BY <1>2, <1>3 DEF MpscInv, Types, ConsumerPc, ProducerPc
  <2> QED
    BY <1>1, <1>2, <2>1 DEF MpscInv, Types
<1>7. Buffers'
  BY <1>2, <1>4 DEF MpscInv, Buffers, BufferAt
<1>8. \A q \in Producers : /\ q \in Pending' <=> q \in Pending
                           /\ q \in Late' <=> q \in Late /\ (q = p => pc = "wake")
  BY <1>2, <1>4, <1>5 DEF Pending, Late, Claiming
<1>9. /\ Pending' = Pending /\ p \notin Pending /\ p \in Late
      /\ Late' = IF pc = "wake" THEN Late ELSE Late \ {p}
  <2>1. p \notin Pending /\ p \in Late
    BY <1>2 DEF Pending, Late, Claiming
  <2> QED
    BY <1>2, <1>8, <2>1 DEF Pending, Late
<1>10. Order' /\ HeadStores'
  BY <1>2, <1>9 DEF MpscInv, Order, HeadStores, D
<1>11. \A q \in Pending : /\ q \in Producers \ {p}
                          /\ my_idx'[q] = my_idx[q] /\ ppc'[q] = ppc[q]
  BY <1>2, <1>4, <1>9 DEF Pending
<1>12. Claims'
  <2>1. ASSUME NEW q \in Pending
        PROVE  /\ D(prod_tail)' <= D(my_idx[q])'
               /\ D(my_idx[q])' < D(prod_reserved)'
               /\ ppc'[q] \in {"got", "filled", "fence"}
                    => D(my_idx[q])' < RING_ENTRIES
               /\ ppc'[q] = "fence" => my_idx'[q] = prod_tail'
    BY <1>2, <1>11 DEF MpscInv, Claims, D
  <2> QED
    BY <1>9, <1>11, <2>1 DEF MpscInv, Claims
<1>13. RingHolds'
  <2>1. ASSUME NEW q \in Pending, Filled(q)'
        PROVE  ring[flipc2_ring_idx(my_idx[q])] = my_idx[q]
    BY <1>2, <1>11, <2>1 DEF MpscInv, RingHolds, Filled, TailStore
  <2> QED
    BY <1>2, <1>9, <1>11, <2>1 DEF MpscInv, RingHolds, D
<1>14. Given' /\ Armed'
  BY <1>2, <1>3 DEF MpscInv, Given, Armed
<1>15. Wakeups'
  <2>1. /\ Cardinality(Late) \in Nat /\ Cardinality(Late \ {p}) = Cardinality(Late) - 1
    BY <1>9, ProducerSets DEF Late
  <2>2. CASE pc = "wake"
    BY <1>2, <1>3, <1>9, <2>2 DEF MpscInv, Wakeups
  <2>3. CASE pc = "idle"
    <3>1. Cardinality(Late') = Cardinality(Late) - 1
      BY <1>9, <2>1, <2>3
    <3>2. spurious_wakeups \in Nat
      BY DEF MpscInv, Types
    <3> QED
      BY <1>2, <1>3, <2>1, <3>1, <3>2, Bounds DEF MpscInv, Wakeups
  <2> QED
    BY <1>2, <2>2, <2>3
<1> QED
  BY <1>6, <1>7, <1>10, <1>12, <1>13, <1>14, <1>15 DEF MpscInv

\* A wakeup of the sleeping producers sends them back to their loop.
LEMMA WakeProducersKeeps ==
  ASSUME MpscInv, WakeProducers
  PROVE  MpscInv'
<1>1. /\ cpc = "wake" /\ cpc' = "idle"
      /\ ppc' = [p \in Producers |-> IF ppc[p] = "blocked" THEN "loop" ELSE ppc[p]]
      /\ UNCHANGED <<full_fence, ring, prod_reserved, prod_tail, cons_head,
                     prod_sleeping, cons_sleeping, my_idx, ch_seen, pbuf, head, cbuf,
                     spurious_wakeups>>
  BY DEF WakeProducers, Awoken, shared
<1>2. ppc \in [Producers -> ProducerPc]
  BY DEF MpscInv, Types
<1>3. \A p \in Producers :
        ppc'[p] = IF ppc[p] = "blocked" THEN "loop" ELSE ppc[p]
  BY <1>1
<1>4. ppc' \in [Producers -> ProducerPc]
  BY <1>1, <1>2 DEF ProducerPc, Claiming
<1>5. Types'
  BY <1>1, <1>4 DEF MpscInv, Types, ConsumerPc
<1>6. Buffers'
  BY <1>1, <1>3 DEF MpscInv, Buffers, BufferAt
<1>7. \A q \in Producers : (q \in Pending' <=> q \in Pending) /\ (q \in Late' <=> q \in Late)
  BY <1>1, <1>3 DEF Pending, Late, Claiming
<1>8. Pending' = Pending /\ Late' = Late
  BY <1>7 DEF Pending, Late
<1>9. Order' /\ HeadStores'
  BY <1>1, <1>8 DEF MpscInv, Order, HeadStores, D
<1>10. \A q \in Pending : q \in Producers
  BY DEF Pending
<1>11. Claims'
  <2>1. ASSUME NEW q \in Pending
        PROVE  /\ D(prod_tail)' <= D(my_idx[q])'
               /\ D(my_idx[q])' < D(prod_reserved)'
               /\ ppc'[q] \in {"got", "filled", "fence"}
                    => D(my_idx[q])' < RING_ENTRIES
               /\ ppc'[q] = "fence" => my_idx'[q] = prod_tail'
    BY <1>1, <1>3, <1>10 DEF MpscInv, Claims, D
  <2> QED
    BY <1>1, <1>8, <2>1 DEF MpscInv, Claims
<1>12. RingHolds'
  <2>1. ASSUME NEW q \in Pending, Filled(q)'
        PROVE  ring[flipc2_ring_idx(my_idx[q])] = my_idx[q]
    BY <1>1, <1>3, <1>10, <2>1 DEF MpscInv, RingHolds, Filled, TailStore
  <2> QED
    BY <1>1, <1>8, <2>1 DEF MpscInv, RingHolds, D
<1>13. Given' /\ Wakeups' /\ Armed'
  BY <1>1, <1>8 DEF MpscInv, Given, Wakeups, Armed
<1> QED
  BY <1>5, <1>6, <1>9, <1>11, <1>12, <1>13 DEF MpscInv

-----------------------------------------------------------------------------
(* The consumer. *)

\* Appending to the consumer's buffer.
LEMMA BufferAppend ==
  ASSUME NEW S, NEW b \in Seq(S), NEW e \in S
  PROVE  /\ Append(b, e) \in Seq(S) /\ Len(Append(b, e)) = Len(b) + 1
         /\ Len(b) \in Nat /\ Append(b, e) # <<>>
         /\ \A i \in 1 .. Len(b) : Append(b, e)[i] = b[i]
         /\ Append(b, e)[Len(b) + 1] = e
  OBVIOUS

\* What the consumer's stores look like.
LEMMA ConsumerStoreTypes ==
  /\ Store("cons_sleeping", 0) \in ConsumerStores
  /\ Store("cons_sleeping", 1) \in ConsumerStores
  /\ \A w \in Word : Store("cons_head", w) \in ConsumerStores
  /\ \A e \in ConsumerStores : \/ e.loc = "cons_sleeping" /\ e.val \in {0, 1}
                               \/ e.loc = "cons_head" /\ e.val \in Word
  /\ \A l, v : Store(l, v).loc = l /\ Store(l, v).val = v
<1>1. \A l, v : Store(l, v).loc = l /\ Store(l, v).val = v
  BY DEF Store
<1>2. /\ Store("cons_sleeping", 0) \in ConsumerStores
      /\ Store("cons_sleeping", 1) \in ConsumerStores
      /\ \A w \in Word : Store("cons_head", w) \in ConsumerStores
  BY DEF ConsumerStores
<1>3. ASSUME NEW e \in ConsumerStores
      PROVE  \/ e.loc = "cons_sleeping" /\ e.val \in {0, 1}
             \/ e.loc = "cons_head" /\ e.val \in Word
  <2>1. \/ \E v \in {0, 1} : e = Store("cons_sleeping", v)
        \/ \E w \in Word : e = Store("cons_head", w)
    BY DEF ConsumerStores
  <2> QED
    BY <1>1, <2>1
<1> QED
  BY <1>1, <1>2, <1>3

\* A step of the consumer that moves neither head nor memory and stores at most
\* cons_sleeping keeps the ring's part of the invariant.
LEMMA QuietConsumer ==
  ASSUME MpscInv, UNCHANGED <<full_fence, shared, prodVars, head>>,
         cpc' \in ConsumerPc, spurious_wakeups' \in Nat,
         \/ cbuf' = cbuf
         \/ \E v \in {0, 1} : cbuf' = Append(cbuf, Store("cons_sleeping", v)),
         Given', Wakeups', Armed'
  PROVE  MpscInv'
<1>1. UNCHANGED <<full_fence, ring, prod_reserved, prod_tail, cons_head,
                  prod_sleeping, cons_sleeping, ppc, my_idx, ch_seen, pbuf, head>>
  BY DEF shared, prodVars
<1>2. cbuf \in Seq(ConsumerStores)
  BY DEF MpscInv, Types
<1>3. /\ cbuf' \in Seq(ConsumerStores) /\ Len(cbuf') \in Nat
      /\ \A i \in 1 .. Len(cbuf') :
           cbuf'[i].loc = "cons_head" => i \in 1 .. Len(cbuf) /\ cbuf'[i] = cbuf[i]
  <2>1. CASE cbuf' = cbuf
    BY <1>2, <2>1
  <2>2. CASE \E v \in {0, 1} : cbuf' = Append(cbuf, Store("cons_sleeping", v))
    <3>1. PICK v \in {0, 1} : cbuf' = Append(cbuf, Store("cons_sleeping", v))
      BY <2>2
    <3> DEFINE e == Store("cons_sleeping", v)
    <3>2. e \in ConsumerStores /\ e.loc # "cons_head"
      BY ConsumerStoreTypes
    <3> HIDE DEF e
    <3>3. /\ cbuf' \in Seq(ConsumerStores) /\ Len(cbuf') = Len(cbuf) + 1
          /\ Len(cbuf) \in Nat /\ cbuf'[Len(cbuf) + 1] = e
          /\ \A i \in 1 .. Len(cbuf) : cbuf'[i] = cbuf[i]
      BY <1>2, <3>1, <3>2, BufferAppend DEF e
    <3> QED
      BY <3>2, <3>3
  <2> QED
    BY <2>1, <2>2
<1>4. Types' /\ Buffers'
  BY <1>1, <1>3 DEF MpscInv, Types, Buffers
<1>5. Pending' = Pending /\ Order' /\ Claims'
  BY <1>1 DEF MpscInv, Pending, Order, Claims, D
<1>6. HeadStores'
  <2> SUFFICES ASSUME NEW i \in 1 .. Len(cbuf'), cbuf'[i].loc = "cons_head"
               PROVE  /\ D(cbuf[i].val)' <= D(head)'
                      /\ \A j \in 1 .. Len(cbuf') :
                           i < j /\ cbuf'[j].loc = "cons_head" =>
                             D(cbuf[i].val)' <= D(cbuf[j].val)'
    BY DEF HeadStores
  <2> QED
    BY <1>1, <1>3 DEF MpscInv, HeadStores, D
<1>7. RingHolds'
  BY <1>1, <1>5 DEF MpscInv, RingHolds, Filled, D
<1> QED
  BY <1>4, <1>5, <1>6, <1>7 DEF MpscInv

\* The tail that the consumer reads is at most a ring ahead of head.
LEMMA TailInRange ==
  ASSUME MpscInv, prod_tail # head
  PROVE  flipc2_ring_count(prod_tail, head) \in 1 .. RING_ENTRIES
<1>1. head \in Word /\ prod_tail \in Word /\ cons_head \in Word
  BY DEF MpscInv, Types
<1>2. D(head) \in Nat /\ D(prod_tail) \in Nat
  BY <1>1, CountIsNat DEF D
<1>3. D(head) <= D(prod_tail) /\ D(prod_tail) <= RING_ENTRIES
  BY DEF MpscInv, Order
<1>4. D(head) # D(prod_tail)
  BY <1>1, CountInjective DEF D
<1>5. flipc2_ring_count(prod_tail, head) = D(prod_tail) - D(head)
  BY <1>1, <1>3, CountDifference DEF D
<1> QED
  BY <1>2, <1>3, <1>4, <1>5, Bounds

LEMMA WaitSteps ==
  ASSUME MpscInv,
         \/ ConsumeSpin \/ ConsumeArm \/ ConsumeRecheck \/ ConsumeSleep
         \/ ConsumeAwake \/ ConsumeVerify \/ CheckProducers
  PROVE  MpscInv'
<1>1. UNCHANGED <<full_fence, shared, prodVars, head>>
  BY DEF ConsumeSpin, ConsumeArm, ConsumeRecheck, ConsumeSleep, ConsumeAwake,
         ConsumeVerify, CheckProducers, NoProducer
<1>2. UNCHANGED <<prod_tail, cons_sleeping, ppc, pbuf>>
  BY <1>1 DEF shared, prodVars
<1>3. Late' = Late /\ Cardinality(Late) \in Nat
  BY <1>2, ProducerSets DEF Late
<1>4. /\ spurious_wakeups \in Nat /\ cbuf \in Seq(ConsumerStores)
      /\ cons_sleeping \in {0, 1}
  BY DEF MpscInv, Types
<1>5. prod_tail # head /\ Ready => cpc' = "have" /\ spurious_wakeups' = 0
  BY TailInRange DEF Ready
<1>6. \A v \in {0, 1} : LET b == Append(cbuf, Store("cons_sleeping", v))
                        IN  b # <<>> /\ b[Len(b)] = Store("cons_sleeping", v)
  <2> TAKE v \in {0, 1}
  <2>1. Store("cons_sleeping", v) \in ConsumerStores
    BY ConsumerStoreTypes
  <2> QED
    BY <1>4, <2>1, BufferAppend
<1>7. Given /\ Wakeups /\ Armed
  BY DEF MpscInv
<1>8. /\ cpc' \in ConsumerPc /\ spurious_wakeups' \in Nat
      /\ \/ cbuf' = cbuf
         \/ \E v \in {0, 1} : cbuf' = Append(cbuf, Store("cons_sleeping", v))
      /\ Given'
  <2>1. CASE ConsumeSpin
    BY <1>2, <1>1, <1>4, <1>5, <2>1 DEF ConsumeSpin, Given, ConsumerPc
  <2>2. CASE ConsumeArm
    BY <1>2, <1>4, <2>2 DEF ConsumeArm, Given, ConsumerPc, CStore
  <2>3. CASE ConsumeRecheck
    BY <1>1, <1>2, <1>4, <1>5, <2>3 DEF ConsumeRecheck, Given, ConsumerPc, CStore
  <2>4. CASE ConsumeSleep
    BY <1>2, <1>4, <2>4 DEF ConsumeSleep, Given, ConsumerPc
  <2>5. CASE ConsumeAwake
    BY <1>2, <1>4, <2>5 DEF ConsumeAwake, Given, ConsumerPc, CStore
  <2>6. CASE ConsumeVerify
    BY <1>1, <1>2, <1>4, <1>5, <2>6 DEF ConsumeVerify, Given, ConsumerPc, CStore
  <2>7. CASE CheckProducers
    BY <1>2, <1>4, <2>7 DEF CheckProducers, Given, ConsumerPc
  <2> QED
    BY <2>1, <2>2, <2>3, <2>4, <2>5, <2>6, <2>7
<1>9. Armed'
  <2>1. CASE ConsumeSpin
    BY <1>5, <2>1 DEF ConsumeSpin, Armed
  <2>2. CASE ConsumeArm
    BY <1>6, <2>2 DEF ConsumeArm, Armed, CStore
  <2>3. CASE ConsumeRecheck
    BY <1>2, <1>5, <1>7, <2>3 DEF ConsumeRecheck, Armed, FULL_FENCE
  <2>4. CASE ConsumeSleep
    BY <1>2, <1>7, <2>4 DEF ConsumeSleep, Armed
  <2>5. CASE ConsumeAwake
    BY <2>5 DEF ConsumeAwake, Armed
  <2>6. CASE ConsumeVerify
    BY <1>5, <1>6, <2>6 DEF ConsumeVerify, Armed, CStore
  <2>7. CASE CheckProducers
    BY <2>7 DEF CheckProducers, Armed
  <2> QED
    BY <2>1, <2>2, <2>3, <2>4, <2>5, <2>6, <2>7
<1>10. Wakeups'
  <2>1. CASE ConsumeSpin
    BY <1>1, <1>2, <1>5, <2>1, Bounds DEF ConsumeSpin, Wakeups
  <2>2. CASE ConsumeArm
    BY <1>1, <1>2, <1>3, <1>7, <2>2 DEF ConsumeArm, Wakeups
  <2>3. CASE ConsumeRecheck
    BY <1>1, <1>2, <1>3, <1>5, <1>7, <2>3, Bounds DEF ConsumeRecheck, Wakeups
  <2>4. CASE ConsumeSleep
    BY <1>1, <1>2, <1>3, <1>7, <2>4 DEF ConsumeSleep, Wakeups
  <2>5. CASE ConsumeAwake
    BY <1>1, <1>2, <1>3, <1>7, <2>5 DEF ConsumeAwake, Wakeups
  <2>6. CASE ConsumeVerify
    <3>1. CASE prod_tail # head
      BY <1>1, <1>2, <1>5, <2>6, <3>1, Bounds DEF ConsumeVerify, Wakeups
    <3>2. CASE prod_tail = head
      <4>1. /\ spurious_wakeups' = spurious_wakeups + 1
            /\ IF spurious_wakeups + 1 >= MAX_SPURIOUS THEN cpc' = "dead"
                                                      ELSE cpc' = "armed"
        BY <2>6, <3>2 DEF ConsumeVerify
      <4>2. /\ spurious_wakeups + 1 + Cardinality(Late) <= Cardinality(Producers)
            /\ spurious_wakeups < MAX_SPURIOUS
        BY <1>7, <2>6, <3>2 DEF ConsumeVerify, Wakeups
      <4> QED
        BY <1>1, <1>2, <1>3, <1>4, <4>1, <4>2, Bounds DEF Wakeups
    <3> QED
      BY <3>1, <3>2
  <2>7. CASE CheckProducers
    BY <1>1, <1>2, <1>3, <1>7, <2>7 DEF CheckProducers, Wakeups
  <2> QED
    BY <2>1, <2>2, <2>3, <2>4, <2>5, <2>6, <2>7
<1> QED
  BY <1>1, <1>8, <1>9, <1>10, QuietConsumer

\* A release moves head past the descriptor the caller was given.
LEMMA ReleaseKeeps ==
  ASSUME MpscInv, Release
  PROVE  MpscInv'
<1>1. /\ cpc = "have" /\ cpc' = "released" /\ head' = Add(head, 1)
      /\ cbuf' = Append(cbuf, Store("cons_head", Add(head, 1)))
      /\ UNCHANGED <<full_fence, ring, prod_reserved, prod_tail, cons_head,
                     prod_sleeping, cons_sleeping, ppc, my_idx, ch_seen, pbuf,
                     spurious_wakeups>>
  BY DEF Release, CStore, NoProducer, shared, prodVars
<1>2. /\ head \in Word /\ prod_tail \in Word /\ cons_head \in Word
      /\ cbuf \in Seq(ConsumerStores) /\ Add(head, 1) \in Word
  BY NextWord DEF MpscInv, Types
<1>3. prod_tail # head /\ spurious_wakeups = 0
  BY <1>1 DEF MpscInv, Given
<1>4. \A w \in Word : D(w) \in Nat /\ D(w)' = D(w)
  BY <1>1, <1>2, CountIsNat DEF D
<1>5. D(head) < D(prod_tail) /\ D(prod_tail) <= RING_ENTRIES
  <2>1. D(head) # D(prod_tail)
    BY <1>2, <1>3, CountInjective DEF D
  <2> QED
    BY <1>2, <1>4, <2>1 DEF MpscInv, Order
<1>6. D(Add(head, 1)) = D(head) + 1
  <2>1. D(head) + 1 < WORD
    BY <1>2, <1>4, <1>5, Bounds
  <2> QED
    BY <1>2, <2>1, CountAdvance, Bounds DEF D
<1>7. D(head)' = D(head) + 1 /\ D(prod_tail)' = D(prod_tail)
  BY <1>1, <1>6 DEF D
<1> DEFINE e == Store("cons_head", Add(head, 1))
<1>8. e \in ConsumerStores /\ e.loc = "cons_head" /\ e.val = Add(head, 1)
  BY <1>2, ConsumerStoreTypes
<1> HIDE DEF e
<1>9. /\ cbuf' \in Seq(ConsumerStores) /\ Len(cbuf') = Len(cbuf) + 1
      /\ Len(cbuf) \in Nat /\ cbuf'[Len(cbuf) + 1] = e
      /\ \A i \in 1 .. Len(cbuf) : cbuf'[i] = cbuf[i]
  BY <1>1, <1>2, <1>8, BufferAppend DEF e
<1>10. Types' /\ Buffers'
  BY <1>1, <1>2, <1>9 DEF MpscInv, Types, Buffers, ConsumerPc
<1>11. Pending' = Pending /\ Late' = Late
  BY <1>1 DEF Pending, Late
<1>12. Order'
  <2>1. D(prod_reserved)' = D(prod_reserved)
    BY <1>1 DEF D
  <2> QED
    BY <1>2, <1>4, <1>5, <1>7, <1>11, <2>1 DEF MpscInv, Order
<1>13. Claims' /\ RingHolds'
  BY <1>1, <1>11 DEF MpscInv, Claims, RingHolds, Filled, D
<1>14. HeadStores'
  <2>1. ASSUME NEW i \in 1 .. Len(cbuf), cbuf[i].loc = "cons_head"
        PROVE  /\ D(cbuf[i].val)' = D(cbuf[i].val) /\ D(cbuf[i].val) \in Nat
               /\ D(cbuf[i].val) <= D(head)
               /\ cbuf'[i] = cbuf[i]
    <3>1. cbuf[i].val \in Word
      BY <1>2, <2>1, ConsumerStoreTypes
    <3> QED
      BY <1>1, <1>4, <1>9, <2>1, <3>1 DEF MpscInv, HeadStores, D
  <2>2. ASSUME NEW i \in 1 .. Len(cbuf'), cbuf'[i].loc = "cons_head"
        PROVE  D(cbuf[i].val)' <= D(head)'
    <3>1. CASE i = Len(cbuf) + 1
      BY <1>1, <1>4, <1>7, <1>8, <1>9, <3>1, <1>2 DEF D
    <3>2. CASE i \in 1 .. Len(cbuf)
      <4>1. cbuf'[i] = cbuf[i] /\ cbuf[i].loc = "cons_head"
        BY <1>9, <2>2, <3>2
      <4>2. /\ D(cbuf[i].val)' = D(cbuf[i].val) /\ D(cbuf[i].val) \in Nat
            /\ D(cbuf[i].val) <= D(head)
        BY <2>1, <3>2, <4>1
      <4> QED
        BY <1>2, <1>4, <1>7, <4>2
    <3> QED
      BY <1>9, <3>1, <3>2
  <2>3. ASSUME NEW i \in 1 .. Len(cbuf'), NEW j \in 1 .. Len(cbuf'), i < j,
               cbuf'[i].loc = "cons_head", cbuf'[j].loc = "cons_head"
        PROVE  D(cbuf[i].val)' <= D(cbuf[j].val)'
    <3>1. i \in 1 .. Len(cbuf) /\ cbuf[i].loc = "cons_head"
      BY <1>9, <2>3
    <3>2. /\ D(cbuf[i].val)' = D(cbuf[i].val) /\ D(cbuf[i].val) \in Nat
          /\ D(cbuf[i].val) <= D(head)
      BY <2>1, <3>1
    <3>3. CASE j = Len(cbuf) + 1
      <4>1. D(cbuf[j].val)' = D(head) + 1
        BY <1>7, <1>1, <1>8, <1>9, <3>3 DEF D
      <4> QED
        BY <1>2, <1>4, <3>2, <4>1
    <3>4. CASE j \in 1 .. Len(cbuf)
      <4>1. cbuf[j].loc = "cons_head" /\ cbuf'[j] = cbuf[j]
        BY <1>9, <2>3, <3>4
      <4>2. D(cbuf[j].val)' = D(cbuf[j].val)
        BY <2>1, <3>4, <4>1
      <4> QED
        BY <2>3, <3>1, <3>2, <3>4, <4>1, <4>2 DEF MpscInv, HeadStores
    <3> QED
      BY <1>9, <3>3, <3>4
  <2> QED
    BY <2>2, <2>3 DEF HeadStores
<1>15. Given' /\ Armed'
  BY <1>1 DEF Given, Armed
<1>16. Wakeups'
  BY <1>1, <1>3, <1>11, ProducerSets, Bounds DEF Wakeups, Late
<1> QED
  BY <1>10, <1>12, <1>13, <1>14, <1>15, <1>16 DEF MpscInv

\* Taking the oldest store out of the consumer's buffer.
LEMMA BufferTail ==
  ASSUME NEW S, NEW b \in Seq(S), b # <<>>
  PROVE  /\ Head(b) = b[1] /\ Head(b) \in S /\ Tail(b) \in Seq(S)
         /\ Len(b) \in Nat \ {0} /\ Len(Tail(b)) = Len(b) - 1
         /\ \A i \in 1 .. Len(Tail(b)) : Tail(b)[i] = b[i + 1]
  OBVIOUS

\* When cons_head moves to v, every counter that was not behind v comes nearer
\* by the same distance.
LEMMA Rebase ==
  ASSUME cons_head \in Word, cons_head' \in Word, NEW w \in Word,
         D(cons_head') <= D(w)
  PROVE  flipc2_ring_count(w, cons_head') = D(w) - D(cons_head')
  BY CountDifference DEF D

LEMMA DrainHeadKeeps ==
  ASSUME MpscInv, DrainConsumer, Head(cbuf).loc = "cons_head"
  PROVE  MpscInv'
<1> DEFINE v == Head(cbuf).val
<1>1. /\ cbuf # <<>> /\ cons_head' = v /\ cbuf' = Tail(cbuf)
      /\ UNCHANGED <<full_fence, ring, prod_reserved, prod_tail,
                     prod_sleeping, cons_sleeping, ppc, my_idx, ch_seen, pbuf,
                     cpc, head, spurious_wakeups>>
  BY DEF DrainConsumer, Drain, prodVars
<1>2. /\ head \in Word /\ prod_tail \in Word /\ cons_head \in Word
      /\ prod_reserved \in Word /\ my_idx \in [Producers -> Word]
      /\ cbuf \in Seq(ConsumerStores)
  BY DEF MpscInv, Types
<1>3. /\ Head(cbuf) = cbuf[1] /\ Head(cbuf) \in ConsumerStores
      /\ cbuf' \in Seq(ConsumerStores)
      /\ Len(cbuf) \in Nat \ {0} /\ Len(cbuf') = Len(cbuf) - 1
      /\ \A i \in 1 .. Len(cbuf') : cbuf'[i] = cbuf[i + 1]
  BY <1>1, <1>2, BufferTail
<1>4. v \in Word /\ cbuf[1].loc = "cons_head" /\ cbuf[1].val = v
  BY <1>3, ConsumerStoreTypes
<1> HIDE DEF v
<1>5. \A w \in Word : D(w) \in Nat /\ D(w) < WORD
  BY <1>2, CountIsNat DEF D
<1>6. D(v) <= D(head)
  BY <1>3, <1>4 DEF MpscInv, HeadStores
<1>7. D(head) <= D(prod_tail) /\ D(prod_tail) <= RING_ENTRIES
      /\ D(prod_tail) <= D(prod_reserved)
  BY DEF MpscInv, Order
<1>8. D(v) <= D(prod_tail) /\ D(v) <= D(prod_reserved) /\ D(v) <= RING_ENTRIES
  BY <1>2, <1>4, <1>5, <1>6, <1>7, Bounds
<1> DEFINE N(w) == flipc2_ring_count(w, v)
<1>9. \A w \in Word : D(v) <= D(w) => N(w) = D(w) - D(v)
  BY <1>1, <1>2, <1>4, Rebase
<1>10. /\ D(head)' = N(head) /\ D(prod_tail)' = N(prod_tail)
       /\ D(prod_reserved)' = N(prod_reserved)
       /\ \A p \in Producers : D(my_idx[p])' = N(my_idx[p])
  BY <1>1 DEF D
<1> HIDE DEF N
<1>11. /\ N(head) = D(head) - D(v) /\ N(prod_tail) = D(prod_tail) - D(v)
       /\ N(prod_reserved) = D(prod_reserved) - D(v)
  BY <1>2, <1>6, <1>8, <1>9
<1>12. D(v) \in Nat /\ D(head) \in Nat /\ D(prod_tail) \in Nat /\ D(prod_reserved) \in Nat
  BY <1>2, <1>4, <1>5
<1>13. Pending' = Pending /\ Late' = Late /\ Cardinality(Pending) \in Nat
  BY <1>1, ProducerSets DEF Pending, Late
<1>14. Types' /\ Buffers'
  BY <1>1, <1>3, <1>4 DEF MpscInv, Types, Buffers
<1>15. Order'
  BY <1>10, <1>11, <1>12, <1>13, Bounds DEF MpscInv, Order
<1>16. Claims'
  <2>1. ASSUME NEW q \in Pending
        PROVE  /\ D(prod_tail)' <= D(my_idx[q])'
               /\ D(my_idx[q])' < D(prod_reserved)'
               /\ ppc[q] \in {"got", "filled", "fence"}
                    => D(my_idx[q])' < RING_ENTRIES
               /\ ppc[q] = "fence" => my_idx[q] = prod_tail
    <3>1. q \in Producers /\ my_idx[q] \in Word
      BY <1>2 DEF Pending
    <3>2. D(my_idx[q]) \in Nat
      BY <1>5, <3>1
    <3>3. /\ D(prod_tail) <= D(my_idx[q]) /\ D(my_idx[q]) < D(prod_reserved)
          /\ ppc[q] \in {"got", "filled", "fence"} => D(my_idx[q]) < RING_ENTRIES
          /\ ppc[q] = "fence" => my_idx[q] = prod_tail
      BY DEF MpscInv, Claims
    <3>4. N(my_idx[q]) = D(my_idx[q]) - D(v)
      BY <1>8, <1>9, <1>12, <3>1, <3>2, <3>3
    <3> QED
      BY <1>10, <1>11, <1>12, <3>1, <3>2, <3>3, <3>4, Bounds
  <2> QED
    BY <1>1, <1>13, <2>1 DEF MpscInv, Claims
<1>17. HeadStores'
  <2>1. ASSUME NEW i \in 1 .. Len(cbuf'), cbuf'[i].loc = "cons_head"
        PROVE  /\ i + 1 \in 1 .. Len(cbuf) /\ 1 < i + 1
               /\ cbuf'[i] = cbuf[i + 1]
               /\ D(cbuf[i + 1].val) \in Nat /\ D(cbuf[i + 1].val) <= D(head)
               /\ D(cbuf[i].val)' = D(cbuf[i + 1].val) - D(v)
    <3>1. i + 1 \in 1 .. Len(cbuf) /\ 1 < i + 1 /\ cbuf'[i] = cbuf[i + 1]
      BY <1>3
    <3>2. cbuf[i + 1].val \in Word
      BY <1>2, <2>1, <3>1, ConsumerStoreTypes
    <3>3. 1 \in 1 .. Len(cbuf)
      BY <1>3
    <3>4. D(v) <= D(cbuf[i + 1].val) /\ D(cbuf[i + 1].val) <= D(head)
      BY <1>4, <2>1, <3>1, <3>3 DEF MpscInv, HeadStores
    <3>5. D(cbuf[i].val)' = N(cbuf[i + 1].val)
      BY <1>1, <3>1 DEF D, N
    <3> QED
      BY <1>5, <1>9, <3>1, <3>2, <3>4, <3>5
  <2>2. ASSUME NEW i \in 1 .. Len(cbuf'), cbuf'[i].loc = "cons_head"
        PROVE  D(cbuf[i].val)' <= D(head)'
    BY <1>10, <1>11, <1>12, <2>1, <2>2
  <2>3. ASSUME NEW i \in 1 .. Len(cbuf'), NEW j \in 1 .. Len(cbuf'), i < j,
               cbuf'[i].loc = "cons_head", cbuf'[j].loc = "cons_head"
        PROVE  D(cbuf[i].val)' <= D(cbuf[j].val)'
    <3>1. /\ i + 1 \in 1 .. Len(cbuf) /\ j + 1 \in 1 .. Len(cbuf)
          /\ cbuf[i + 1].loc = "cons_head" /\ cbuf[j + 1].loc = "cons_head"
          /\ D(cbuf[i + 1].val) \in Nat /\ D(cbuf[j + 1].val) \in Nat
          /\ D(cbuf[i].val)' = D(cbuf[i + 1].val) - D(v)
          /\ D(cbuf[j].val)' = D(cbuf[j + 1].val) - D(v)
      BY <2>1, <2>3
    <3>2. i + 1 < j + 1
      BY <2>3, <1>3
    <3>3. D(cbuf[i + 1].val) <= D(cbuf[j + 1].val)
      BY <3>1, <3>2 DEF MpscInv, HeadStores
    <3> QED
      BY <1>12, <3>1, <3>3
  <2> QED
    BY <2>2, <2>3 DEF HeadStores
<1>18. RingHolds'
  <2>1. ASSUME NEW w \in Word, N(w) < N(prod_tail)
        PROVE  D(w) < D(prod_tail)
    <3>1. D(w) \in Nat /\ N(w) \in Nat
      BY <1>4, <1>5, CountIsNat DEF N
    <3>2. CASE D(v) <= D(w)
      <4>1. N(w) = D(w) - D(v)
        BY <1>9, <3>2
      <4> QED
        BY <1>11, <1>12, <2>1, <3>1, <4>1
    <3>3. CASE D(w) < D(v)
      BY <1>8, <1>12, <3>1, <3>3
    <3> QED
      BY <1>12, <3>1, <3>2, <3>3
  <2>2. \A w \in Word : D(w)' = N(w)
    BY <1>1 DEF D, N
  <2>3. \A w \in Word : D(w)' < D(prod_tail)' => ring[flipc2_ring_idx(w)] = w
    BY <1>10, <2>1, <2>2 DEF MpscInv, RingHolds
  <2> QED
    BY <1>1, <1>13, <2>3 DEF MpscInv, RingHolds, Filled
<1>19. Given' /\ Wakeups'
  BY <1>1, <1>13 DEF MpscInv, Given, Wakeups
<1>20. Armed'
  <2>1. CASE cpc = "armed"
    <3>1. cbuf[Len(cbuf)] = Store("cons_sleeping", 1)
      BY <1>1, <2>1 DEF MpscInv, Armed
    <3>2. cbuf[Len(cbuf)].loc # "cons_head"
      BY <3>1, ConsumerStoreTypes
    <3>3. Len(cbuf) # 1
      BY <1>4, <3>2
    <3>4. Len(cbuf') \in 1 .. Len(cbuf') /\ cbuf' # <<>>
      BY <1>3, <3>3
    <3>5. cbuf'[Len(cbuf')] = cbuf[Len(cbuf)]
      BY <1>3, <3>4
    <3> QED
      BY <1>1, <2>1, <3>1, <3>4, <3>5 DEF Armed
  <2> QED
    BY <1>1, <2>1 DEF MpscInv, Armed
<1> QED
  BY <1>14, <1>15, <1>16, <1>17, <1>18, <1>19, <1>20 DEF MpscInv

LEMMA DrainSleepingKeeps ==
  ASSUME MpscInv, DrainConsumer, Head(cbuf).loc # "cons_head"
  PROVE  MpscInv'
<1>1. cbuf # <<>> /\ cbuf' = Tail(cbuf) /\ Drain(Head(cbuf))
  BY DEF DrainConsumer
<1>2. cbuf \in Seq(ConsumerStores)
  BY DEF MpscInv, Types
<1>3. /\ Head(cbuf) = cbuf[1] /\ Head(cbuf) \in ConsumerStores
      /\ cbuf' \in Seq(ConsumerStores)
      /\ Len(cbuf) \in Nat \ {0} /\ Len(cbuf') = Len(cbuf) - 1
      /\ \A i \in 1 .. Len(cbuf') : cbuf'[i] = cbuf[i + 1]
  BY <1>1, <1>2, BufferTail
<1>4. Head(cbuf).loc = "cons_sleeping" /\ Head(cbuf).val \in {0, 1}
  BY <1>3, ConsumerStoreTypes
<1>5. /\ cons_sleeping' = Head(cbuf).val
      /\ UNCHANGED <<full_fence, ring, prod_reserved, prod_tail, cons_head,
                     prod_sleeping, ppc, my_idx, ch_seen, pbuf, cpc, head,
                     spurious_wakeups>>
  BY <1>4 DEF DrainConsumer, Drain, prodVars
<1>6. Types' /\ Buffers'
  BY <1>3, <1>4, <1>5 DEF MpscInv, Types, Buffers
<1>7. Pending' = Pending /\ Late' = Late
  BY <1>5 DEF Pending, Late
<1>8. Order' /\ Claims' /\ RingHolds'
  BY <1>5, <1>7 DEF MpscInv, Order, Claims, RingHolds, Filled, D
<1>9. HeadStores'
  <2> SUFFICES ASSUME NEW i \in 1 .. Len(cbuf'), cbuf'[i].loc = "cons_head"
               PROVE  /\ D(cbuf[i].val)' <= D(head)'
                      /\ \A j \in 1 .. Len(cbuf') :
                           i < j /\ cbuf'[j].loc = "cons_head" =>
                             D(cbuf[i].val)' <= D(cbuf[j].val)'
    BY DEF HeadStores
  <2>1. i + 1 \in 1 .. Len(cbuf) /\ cbuf'[i] = cbuf[i + 1]
    BY <1>3
  <2>2. D(cbuf[i].val)' = D(cbuf[i + 1].val) /\ D(head)' = D(head)
    BY <1>5, <2>1 DEF D
  <2>3. ASSUME NEW j \in 1 .. Len(cbuf'), i < j, cbuf'[j].loc = "cons_head"
        PROVE  D(cbuf[i].val)' <= D(cbuf[j].val)'
    <3>1. j + 1 \in 1 .. Len(cbuf) /\ cbuf'[j] = cbuf[j + 1] /\ i + 1 < j + 1
      BY <1>3, <2>3
    <3>2. D(cbuf[j].val)' = D(cbuf[j + 1].val)
      BY <1>5, <3>1 DEF D
    <3> QED
      BY <2>1, <2>2, <2>3, <3>1, <3>2 DEF MpscInv, HeadStores
  <2> QED
    BY <2>1, <2>2, <2>3 DEF MpscInv, HeadStores
<1>10. Given' /\ Wakeups'
  BY <1>5, <1>7 DEF MpscInv, Given, Wakeups
<1>11. Armed'
  <2>1. CASE cpc = "armed"
    <3>1. cbuf[Len(cbuf)] = Store("cons_sleeping", 1)
      BY <1>1, <2>1 DEF MpscInv, Armed
    <3>2. CASE Len(cbuf) = 1
      <4>1. cbuf' = <<>>
        BY <1>3, <3>2
      <4>2. cons_sleeping' = 1
        BY <1>3, <1>5, <3>1, <3>2, ConsumerStoreTypes
      <4> QED
        BY <1>5, <2>1, <4>1, <4>2 DEF Armed
    <3>3. CASE Len(cbuf) # 1
      <4>1. Len(cbuf') \in 1 .. Len(cbuf') /\ cbuf' # <<>>
        BY <1>3, <3>3
      <4>2. cbuf'[Len(cbuf')] = cbuf[Len(cbuf)]
        BY <1>3, <4>1
      <4> QED
        BY <1>5, <2>1, <3>1, <4>1, <4>2 DEF Armed
    <3> QED
      BY <3>2, <3>3
  <2> QED
    BY <1>1, <1>5, <2>1 DEF MpscInv, Armed
<1> QED
  BY <1>6, <1>8, <1>9, <1>10, <1>11 DEF MpscInv

-----------------------------------------------------------------------------
(* The processors of the producers. *)

\* What a producer's oldest store is, and what remains behind it.
LEMMA OldestStore ==
  ASSUME MpscInv, NEW p \in Producers, DrainProducer(p)
  PROVE  LET w == my_idx[p]
             b == Tail(pbuf[p])
         IN  \/ /\ Head(pbuf[p]) = SleepStore /\ p \in Pending
                /\ BufferAt(ppc[p], w, b)
                /\ ppc[p] \in {"armed", "futex", "got"} => b = <<>>
                /\ ppc[p] \in {"filled", "fence"} => b # <<>> /\ b # <<TailStore(w)>>
             \/ /\ Head(pbuf[p]) = FillStore(w)
                /\ \/ ppc[p] = "filled" /\ b = <<>>
                   \/ ppc[p] = "fence" /\ b = <<TailStore(w)>>
             \/ /\ Head(pbuf[p]) = TailStore(w)
                /\ ppc[p] = "fence" /\ b = <<>>
<1> DEFINE w == my_idx[p]
           b == Tail(pbuf[p])
<1>1. BufferAt(ppc[p], w, pbuf[p]) /\ pbuf[p] # <<>>
  BY DEF MpscInv, Buffers, DrainProducer
<1>2. FillStore(w) # TailStore(w) /\ SleepStore # FillStore(w) /\ SleepStore # TailStore(w)
  <2>1. /\ FillStore(w).loc = "ring" /\ TailStore(w).loc = "prod_tail"
        /\ SleepStore.loc = "prod_sleeping"
    BY ConsumerStoreTypes DEF FillStore, TailStore, SleepStore
  <2> QED
    BY <2>1
<1>3. p \in Pending
  BY <1>1 DEF BufferAt, Pending, Claiming
<1> HIDE DEF w
<1>4. CASE ppc[p] \in {"armed", "futex", "got"} /\ pbuf[p] = <<SleepStore>>
  <2>1. Head(pbuf[p]) = SleepStore /\ b = <<>>
    BY <1>4, TuplesTail
  <2> QED
    BY <1>3, <1>4, <2>1 DEF BufferAt, w
<1>5. CASE ppc[p] = "filled" /\ pbuf[p] = <<FillStore(w)>>
  <2>1. Head(pbuf[p]) = FillStore(w) /\ b = <<>>
    BY <1>5, TuplesTail
  <2> QED
    BY <1>5, <2>1 DEF w
<1>6. CASE ppc[p] = "filled" /\ pbuf[p] = <<SleepStore, FillStore(w)>>
  <2>1. Head(pbuf[p]) = SleepStore /\ b = <<FillStore(w)>>
    BY <1>6, TuplesTail
  <2>2. BufferAt("filled", w, b) /\ b # <<>> /\ b # <<TailStore(w)>>
    BY <1>2, <2>1 DEF BufferAt
  <2> QED
    BY <1>3, <1>6, <2>1, <2>2 DEF w
<1>7. CASE ppc[p] = "fence" /\ pbuf[p] = <<TailStore(w)>>
  <2>1. Head(pbuf[p]) = TailStore(w) /\ b = <<>>
    BY <1>7, TuplesTail
  <2> QED
    BY <1>7, <2>1 DEF w
<1>8. CASE ppc[p] = "fence" /\ pbuf[p] = <<FillStore(w), TailStore(w)>>
  <2>1. Head(pbuf[p]) = FillStore(w) /\ b = <<TailStore(w)>>
    BY <1>8, TuplesTail
  <2> QED
    BY <1>8, <2>1 DEF w
<1>9. CASE ppc[p] = "fence" /\ pbuf[p] = <<SleepStore, FillStore(w), TailStore(w)>>
  <2>1. Head(pbuf[p]) = SleepStore /\ b = <<FillStore(w), TailStore(w)>>
    BY <1>9, TuplesTail
  <2>2. BufferAt("fence", w, b) /\ b # <<>> /\ b # <<TailStore(w)>>
    <3>1. <<FillStore(w), TailStore(w)>> # <<TailStore(w)>>
      BY <1>2
    <3> QED
      BY <2>1, <3>1 DEF BufferAt
  <2> QED
    BY <1>3, <1>9, <2>1, <2>2 DEF w
<1> QED
  BY <1>1, <1>4, <1>5, <1>6, <1>7, <1>8, <1>9 DEF BufferAt

LEMMA DrainSleepStoreKeeps ==
  ASSUME MpscInv, NEW p \in Producers, DrainProducer(p), Head(pbuf[p]) = SleepStore
  PROVE  MpscInv'
<1> DEFINE b == Tail(pbuf[p])
<1>1. SleepStore.loc = "prod_sleeping" /\ SleepStore.val = 1
  BY ConsumerStoreTypes DEF SleepStore
<1>2. SleepStore # FillStore(my_idx[p]) /\ SleepStore # TailStore(my_idx[p])
  BY <1>1, ConsumerStoreTypes DEF FillStore, TailStore
<1>3. /\ p \in Pending /\ BufferAt(ppc[p], my_idx[p], b)
      /\ ppc[p] \in {"filled", "fence"} => b # <<>> /\ b # <<TailStore(my_idx[p])>>
  BY <1>2, OldestStore
<1>4. /\ pbuf' = [pbuf EXCEPT ![p] = b] /\ prod_sleeping' = 1
      /\ UNCHANGED <<full_fence, ring, prod_reserved, prod_tail, cons_head,
                     cons_sleeping, ppc, my_idx, ch_seen, consVars>>
  BY <1>1 DEF DrainProducer, Drain
<1>5. /\ ppc \in [Producers -> ProducerPc] /\ ch_seen \in [Producers -> Word]
  BY DEF MpscInv, Types
<1>6. ppc' = [ppc EXCEPT ![p] = ppc[p]]
  BY <1>4, <1>5
<1>7. ppc[p] \in Claiming \/ ppc[p] = "fence"
  BY <1>3 DEF Pending
<1>8. /\ ppc[p] \in {"got", "filled", "fence"} => D(my_idx[p]) < RING_ENTRIES
      /\ ppc[p] = "fence" => my_idx[p] = prod_tail
  BY <1>3 DEF MpscInv, Claims
<1> HIDE DEF b
<1>9. PendingStep(p, ppc[p], b)
  BY <1>3, <1>4, <1>5, <1>6, <1>7, <1>8 DEF PendingStep
<1> QED
  BY <1>9, PendingStepKeeps

\* Two different numbers within a ring of cons_head have different slots.
LEMMA SlotsDiffer ==
  ASSUME cons_head \in Word, NEW a \in Word, NEW b \in Word, a # b,
         D(a) < RING_ENTRIES, D(b) < RING_ENTRIES
  PROVE  flipc2_ring_idx(a) # flipc2_ring_idx(b)
<1>1. D(a) \in Nat /\ D(b) \in Nat
  BY CountIsNat DEF D
<1>2. D(a) # D(b)
  BY CountInjective DEF D
<1>3. CASE D(a) < D(b)
  <2>1. flipc2_ring_count(b, a) = D(b) - D(a)
    BY <1>1, <1>3, CountDifference DEF D
  <2>2. flipc2_ring_count(b, a) \in 1 .. RING_ENTRIES - 1
    BY <1>1, <1>3, <2>1, Bounds
  <2> QED
    BY <2>2, IdxDiffer
<1>4. CASE D(b) < D(a)
  <2>1. flipc2_ring_count(a, b) = D(a) - D(b)
    BY <1>1, <1>4, CountDifference DEF D
  <2>2. flipc2_ring_count(a, b) \in 1 .. RING_ENTRIES - 1
    BY <1>1, <1>4, <2>1, Bounds
  <2> QED
    BY <2>2, IdxDiffer
<1> QED
  BY <1>1, <1>2, <1>3, <1>4

\* A slot reaches the memory: it is not one of the slots that others published
\* or filled.
LEMMA DrainFillStoreKeeps ==
  ASSUME MpscInv, NEW p \in Producers, DrainProducer(p),
         Head(pbuf[p]) = FillStore(my_idx[p])
  PROVE  MpscInv'
<1> DEFINE b == Tail(pbuf[p])
           w == my_idx[p]
<1>1. FillStore(w).loc = "ring" /\ FillStore(w).val = w
  BY ConsumerStoreTypes DEF FillStore
<1>2. FillStore(w) # SleepStore /\ FillStore(w) # TailStore(w)
  BY <1>1, ConsumerStoreTypes DEF SleepStore, TailStore
<1>3. \/ ppc[p] = "filled" /\ b = <<>>
      \/ ppc[p] = "fence" /\ b = <<TailStore(w)>>
  BY <1>2, OldestStore
<1>4. /\ pbuf' = [pbuf EXCEPT ![p] = b] /\ pbuf[p] # <<>>
      /\ ring' = [ring EXCEPT ![flipc2_ring_idx(w)] = w]
      /\ UNCHANGED <<full_fence, prod_reserved, prod_tail, cons_head, prod_sleeping,
                     cons_sleeping, ppc, my_idx, ch_seen, cpc, head, cbuf,
                     spurious_wakeups>>
  BY <1>1 DEF DrainProducer, Drain, consVars
<1>5. /\ ppc \in [Producers -> ProducerPc] /\ my_idx \in [Producers -> Word]
      /\ DOMAIN pbuf = Producers /\ ring \in [Slots -> Word \cup {NONE}]
      /\ cons_head \in Word /\ prod_tail \in Word /\ w \in Word
  BY DEF MpscInv, Types
<1>6. flipc2_ring_idx(w) \in Slots
  BY <1>5, IdxInSlots
<1> HIDE DEF b
<1>7. /\ pbuf'[p] = b /\ \A q \in Producers \ {p} : pbuf'[q] = pbuf[q]
      /\ DOMAIN pbuf' = Producers /\ pbuf' = [q \in Producers |-> pbuf'[q]]
      /\ ring' \in [Slots -> Word \cup {NONE}]
      /\ ring'[flipc2_ring_idx(w)] = w
      /\ \A s \in Slots \ {flipc2_ring_idx(w)} : ring'[s] = ring[s]
  BY <1>4, <1>5, <1>6
<1>8. p \in Pending
  BY <1>3, <1>4 DEF Pending, Claiming
<1>9. \A q \in Producers : (q \in Pending' <=> q \in Pending) /\ (q \in Late' <=> q \in Late)
  <2>1. p \in Pending' /\ p \notin Late /\ p \notin Late'
    BY <1>3, <1>4, <1>7 DEF Pending, Late, Claiming
  <2>2. \A q \in Producers \ {p} : /\ q \in Pending' <=> q \in Pending
                                   /\ q \in Late' <=> q \in Late
    BY <1>4, <1>7 DEF Pending, Late
  <2> QED
    BY <1>8, <2>1, <2>2
<1>10. Pending' = Pending /\ Late' = Late
  BY <1>9 DEF Pending, Late
<1>11. Types'
  BY <1>4, <1>7 DEF MpscInv, Types
<1>12. Buffers'
  BY <1>3, <1>4, <1>7 DEF MpscInv, Buffers, BufferAt
<1>13. Order' /\ HeadStores' /\ Claims'
  BY <1>4, <1>10 DEF MpscInv, Order, HeadStores, Claims, D
<1>14. D(w) < RING_ENTRIES /\ D(prod_tail) <= D(w)
  BY <1>3, <1>8 DEF MpscInv, Claims
<1>15. ASSUME NEW v \in Word, D(v) < RING_ENTRIES, v # w
       PROVE  ring'[flipc2_ring_idx(v)] = ring[flipc2_ring_idx(v)]
  <2>1. flipc2_ring_idx(v) \in Slots /\ flipc2_ring_idx(v) # flipc2_ring_idx(w)
    BY <1>5, <1>14, <1>15, IdxInSlots, SlotsDiffer
  <2> QED
    BY <1>7, <2>1
<1>16. RingHolds'
  <2>1. ASSUME NEW v \in Word, D(v) < D(prod_tail)
        PROVE  ring'[flipc2_ring_idx(v)] = v
    <3>1. D(v) \in Nat /\ D(w) \in Nat /\ D(prod_tail) \in Nat
      BY <1>5, CountIsNat DEF D
    <3>2. D(v) < D(w) /\ D(v) < RING_ENTRIES /\ v # w
      BY <1>14, <2>1, <3>1, Bounds
    <3> QED
      BY <1>15, <2>1, <3>2 DEF MpscInv, RingHolds
  <2>2. ASSUME NEW q \in Pending, q # p, Filled(q)'
        PROVE  ring'[flipc2_ring_idx(my_idx[q])] = my_idx[q]
    <3>1. /\ q \in Producers /\ my_idx[q] \in Word /\ Filled(q)
          /\ ppc[q] \in {"filled", "fence"}
      BY <1>4, <1>5, <1>7, <2>2 DEF Pending, Filled, TailStore
    <3>2. D(my_idx[q]) < RING_ENTRIES /\ my_idx[q] # w
      BY <1>8, <2>2, <3>1 DEF MpscInv, Claims
    <3>3. ring[flipc2_ring_idx(my_idx[q])] = my_idx[q]
      BY <3>1 DEF MpscInv, RingHolds
    <3> QED
      BY <1>15, <3>1, <3>2, <3>3
  <2>3. \A v \in Word : D(v)' = D(v)
    BY <1>4 DEF D
  <2>4. D(prod_tail)' = D(prod_tail)
    BY <1>4 DEF D
  <2> QED
    BY <1>4, <1>7, <1>10, <2>1, <2>2, <2>3, <2>4 DEF RingHolds
<1>17. Given' /\ Wakeups' /\ Armed'
  BY <1>4, <1>10 DEF MpscInv, Given, Wakeups, Armed
<1> QED
  BY <1>11, <1>12, <1>13, <1>16, <1>17 DEF MpscInv

\* A published tail reaches the memory: exactly the next number, whose slot is
\* filled, becomes visible to the consumer.
LEMMA DrainTailStoreKeeps ==
  ASSUME MpscInv, NEW p \in Producers, DrainProducer(p),
         Head(pbuf[p]) = TailStore(my_idx[p])
  PROVE  /\ MpscInv'
         /\ prod_tail' = Add(prod_tail, 1) /\ head' = head
         /\ D(head) <= D(prod_tail) /\ D(prod_tail) < RING_ENTRIES
         /\ ppc'[p] = "fence" /\ prod_tail' # head
<1> DEFINE w == my_idx[p]
<1>1. TailStore(w).loc = "prod_tail" /\ TailStore(w).val = Add(w, 1)
  BY ConsumerStoreTypes DEF TailStore
<1>2. TailStore(w) # SleepStore /\ TailStore(w) # FillStore(w)
  BY <1>1, ConsumerStoreTypes DEF SleepStore, FillStore
<1>3. ppc[p] = "fence" /\ Tail(pbuf[p]) = <<>>
  BY <1>2, OldestStore
<1>4. /\ pbuf' = [pbuf EXCEPT ![p] = <<>>] /\ pbuf[p] # <<>>
      /\ prod_tail' = Add(w, 1)
      /\ UNCHANGED <<full_fence, ring, prod_reserved, cons_head, prod_sleeping,
                     cons_sleeping, ppc, my_idx, ch_seen, cpc, head, cbuf,
                     spurious_wakeups>>
  BY <1>1, <1>3 DEF DrainProducer, Drain, consVars
<1>5. /\ ppc \in [Producers -> ProducerPc] /\ my_idx \in [Producers -> Word]
      /\ DOMAIN pbuf = Producers
      /\ cons_head \in Word /\ prod_tail \in Word /\ head \in Word
      /\ prod_reserved \in Word /\ w \in Word /\ Add(w, 1) \in Word
  BY NextWord DEF MpscInv, Types
<1>6. /\ pbuf'[p] = <<>> /\ \A q \in Producers \ {p} : pbuf'[q] = pbuf[q]
      /\ DOMAIN pbuf' = Producers /\ pbuf' = [q \in Producers |-> pbuf'[q]]
  BY <1>4, <1>5
<1>7. p \in Pending /\ p \notin Late
  BY <1>3, <1>4 DEF Pending, Late
<1>8. /\ w = prod_tail /\ D(w) < RING_ENTRIES /\ D(w) < D(prod_reserved)
  BY <1>3, <1>7 DEF MpscInv, Claims
<1>9. \A v \in Word : D(v) \in Nat
  BY <1>5, CountIsNat DEF D
<1>10. D(Add(w, 1)) = D(w) + 1
  <2>1. D(w) + 1 < WORD
    BY <1>5, <1>8, <1>9, Bounds
  <2> QED
    BY <1>5, <2>1, CountAdvance, Bounds DEF D
<1>11. /\ D(prod_tail)' = D(prod_tail) + 1 /\ D(prod_tail) \in Nat
       /\ D(head)' = D(head) /\ D(head) \in Nat /\ D(head) <= D(prod_tail)
       /\ D(prod_reserved)' = D(prod_reserved) /\ D(prod_reserved) \in Nat
       /\ D(prod_tail) < RING_ENTRIES /\ D(prod_tail) < D(prod_reserved)
  BY <1>4, <1>5, <1>8, <1>9, <1>10 DEF D, MpscInv, Order
<1>12. prod_tail' # head
  BY <1>4, <1>8, <1>10, <1>11
<1>13. Types'
  BY <1>4, <1>5, <1>6 DEF MpscInv, Types
<1>14. Buffers'
  BY <1>4, <1>6 DEF MpscInv, Buffers, BufferAt
<1>15. \A q \in Producers : q \in Pending' <=> q \in Pending /\ q # p
  BY <1>3, <1>4, <1>6 DEF Pending, Claiming
<1>16. Pending' = Pending \ {p}
  BY <1>15 DEF Pending
<1>17. /\ Cardinality(Pending') = Cardinality(Pending) - 1
       /\ Cardinality(Pending) \in Nat
  BY <1>7, <1>16, ProducerSets DEF Pending
<1>18. Order'
  BY <1>11, <1>17, Bounds DEF MpscInv, Order
<1>19. Claims'
  <2>1. ASSUME NEW q \in Pending \ {p}
        PROVE  /\ D(prod_tail)' <= D(my_idx[q])'
               /\ D(my_idx[q])' < D(prod_reserved)'
               /\ ppc'[q] \in {"got", "filled", "fence"}
                    => D(my_idx[q])' < RING_ENTRIES
               /\ ppc'[q] # "fence"
    <3>1. q \in Producers /\ my_idx[q] \in Word /\ q # p
      BY <1>5 DEF Pending
    <3>2. D(my_idx[q])' = D(my_idx[q]) /\ D(my_idx[q]) \in Nat
      BY <1>4, <1>9, <3>1 DEF D
    <3>3. /\ D(prod_tail) <= D(my_idx[q]) /\ D(my_idx[q]) < D(prod_reserved)
          /\ ppc[q] \in {"got", "filled", "fence"} => D(my_idx[q]) < RING_ENTRIES
          /\ ppc[q] = "fence" => my_idx[q] = prod_tail
          /\ my_idx[q] # w
      BY <1>7, <3>1 DEF MpscInv, Claims
    <3>4. D(my_idx[q]) # D(prod_tail)
      BY <1>5, <1>8, <3>1, <3>3, CountInjective DEF D
    <3> QED
      BY <1>4, <1>8, <1>11, <3>2, <3>3, <3>4
  <2> QED
    BY <1>4, <1>16, <2>1 DEF MpscInv, Claims
<1>20. HeadStores'
  BY <1>4 DEF MpscInv, HeadStores, D
<1>21. RingHolds'
  <2>1. ring[flipc2_ring_idx(w)] = w
    <3>1. pbuf[p] = <<TailStore(w)>>
      <4>1. /\ BufferAt("fence", w, pbuf[p])
            /\ Head(pbuf[p]) # SleepStore /\ Head(pbuf[p]) # FillStore(w)
        BY <1>2, <1>3 DEF MpscInv, Buffers
      <4> QED
        BY <1>4, <4>1, TuplesTail DEF BufferAt
    <3> QED
      BY <1>3, <1>7, <3>1 DEF MpscInv, RingHolds, Filled
  <2>2. ASSUME NEW v \in Word, D(v)' < D(prod_tail)'
        PROVE  ring[flipc2_ring_idx(v)] = v
    <3>1. D(v)' = D(v) /\ D(v) \in Nat
      BY <1>4, <1>9 DEF D
    <3>2. CASE D(v) < D(prod_tail)
      BY <3>2 DEF MpscInv, RingHolds
    <3>3. CASE D(v) = D(prod_tail)
      <4>1. v = w
        BY <1>5, <1>8, <3>3, CountInjective DEF D
      <4> QED
        BY <2>1, <4>1
    <3> QED
      BY <1>11, <2>2, <3>1, <3>2, <3>3
  <2>3. ASSUME NEW q \in Pending \ {p}, Filled(q)'
        PROVE  ring[flipc2_ring_idx(my_idx[q])] = my_idx[q]
    <3>1. q \in Producers \ {p}
      BY DEF Pending
    <3>2. Filled(q)
      BY <1>4, <1>6, <2>3, <3>1 DEF Filled, TailStore
    <3> QED
      BY <3>2 DEF MpscInv, RingHolds
  <2> QED
    BY <1>4, <1>16, <2>2, <2>3 DEF RingHolds
<1>22. Given' /\ Wakeups' /\ Armed'
  BY <1>4, <1>12 DEF MpscInv, Given, Wakeups, Armed
<1>23. MpscInv'
  BY <1>13, <1>14, <1>18, <1>19, <1>20, <1>21, <1>22 DEF MpscInv
<1> QED
  BY <1>3, <1>4, <1>8, <1>11, <1>12, <1>23

-----------------------------------------------------------------------------
(* The invariant always holds. *)

LEMMA DrainProducerKeeps ==
  ASSUME MpscInv, NEW p \in Producers, DrainProducer(p)
  PROVE  MpscInv'
  BY OldestStore, DrainSleepStoreKeeps, DrainFillStoreKeeps, DrainTailStoreKeeps

LEMMA InvIdle ==
  ASSUME MpscInv, UNCHANGED vars
  PROVE  MpscInv'
<1>1. UNCHANGED <<full_fence, ring, prod_reserved, prod_tail, cons_head,
                  prod_sleeping, cons_sleeping, ppc, my_idx, ch_seen, pbuf, cpc,
                  head, cbuf, spurious_wakeups>>
  BY DEF vars, shared, prodVars, consVars
<1>2. Types' /\ Buffers' /\ HeadStores' /\ Given' /\ Armed'
  BY <1>1 DEF MpscInv, Types, Buffers, HeadStores, Given, Armed, D
<1>3. Pending' = Pending /\ Late' = Late
  BY <1>1 DEF Pending, Late
<1>4. Order' /\ Claims' /\ RingHolds' /\ Wakeups'
  BY <1>1, <1>3 DEF MpscInv, Order, Claims, RingHolds, Filled, Wakeups, D
<1> QED
  BY <1>2, <1>4 DEF MpscInv

LEMMA InvStep == MpscInv /\ [Next]_vars => MpscInv'
<1> SUFFICES ASSUME MpscInv, [Next]_vars PROVE MpscInv'
  OBVIOUS
<1>1. CASE UNCHANGED vars
  BY <1>1, InvIdle
<1>2. ASSUME NEW p \in Producers, Claim(p) \/ ProduceStep(p) \/ DrainProducer(p)
      PROVE  MpscInv'
  BY <1>2, ClaimKeeps, ClaimingSteps, DoorbellKeeps, DrainProducerKeeps
  DEF ProduceStep
<1>3. CASE ConsumeStep
  BY <1>3, WaitSteps, ReleaseKeeps, WakeProducersKeeps DEF ConsumeStep
<1>4. CASE DrainConsumer
  BY <1>4, DrainHeadKeeps, DrainSleepingKeeps
<1> QED
  BY <1>1, <1>2, <1>3, <1>4 DEF Next

\* The words and locals of a channel with several producers keep their types,
\* and the count of spurious wakeups its limit.
THEOREM TypeCorrect == Spec => []TypeOK
<1>1. MpscInv => TypeOK
  <2> SUFFICES ASSUME MpscInv PROVE TypeOK
    OBVIOUS
  <2>1. spurious_wakeups \in 0 .. MAX_SPURIOUS
    BY Bounds DEF MpscInv, Types, Wakeups
  <2> QED
    BY <2>1 DEF MpscInv, Types, TypeOK
<1> QED
  BY <1>1, InvInit, InvStep, PTL DEF Spec

\* With fewer producers than FLIPC2_MAX_SPURIOUS_WAKEUPS, flipc2_consume_wait
\* declares a channel of honest producers neither corrupt nor dead, whatever
\* the interleaving of their late FUTEX_WAKEs and of the store buffers: at
\* most one wakeup of each producer can be spurious between two deliveries.
THEOREM LiveChannelStaysLive ==
  ASSUME Cardinality(Producers) < MAX_SPURIOUS
  PROVE  Spec => []NoFalseAlarm
<1>1. MpscInv => NoFalseAlarm
  <2> SUFFICES ASSUME MpscInv PROVE NoFalseAlarm
    OBVIOUS
  <2>1. spurious_wakeups \in Nat /\ spurious_wakeups <= Cardinality(Producers)
    BY DEF MpscInv, Types, Wakeups
  <2>2. cpc # "corrupt"
    BY DEF MpscInv, Given
  <2>3. cpc # "dead"
    BY <2>1, Bounds DEF MpscInv, Wakeups
  <2> QED
    BY <2>1, <2>2, <2>3 DEF NoFalseAlarm
<1> QED
  BY <1>1, InvInit, InvStep, PTL DEF Spec

-----------------------------------------------------------------------------
(* The consumer's wakeup. *)

\* A tail that becomes visible while the consumer sleeps is the store of a
\* producer that has not come to its doorbell yet; cons_sleeping is set until
\* the consumer wakes, so the doorbell rings.
LEMMA WakeupStep ==
  ASSUME THRESH <= 1, MpscInv, NoLostConsumerWakeup, [Next]_vars
  PROVE  NoLostConsumerWakeup'
<1> SUFFICES ASSUME cpc' = "blocked", prod_tail' # head'
             PROVE  \E p \in Producers : ppc'[p] \in {"fence", "wake"}
  BY DEF NoLostConsumerWakeup
<1>1. ppc \in [Producers -> ProducerPc]
  BY DEF MpscInv, Types
<1>2. CASE UNCHANGED vars
  BY <1>2 DEF vars, shared, prodVars, consVars, NoLostConsumerWakeup
<1>3. ASSUME NEW p \in Producers, Claim(p) \/ Spin(p) \/ Arm(p) \/ Recheck(p)
                                  \/ Sleep(p) \/ Fill(p) \/ Publish(p)
      PROVE  \E q \in Producers : ppc'[q] \in {"fence", "wake"}
  <2>1. /\ UNCHANGED <<cpc, prod_tail, head>> /\ ppc[p] \notin {"fence", "wake"}
        /\ \E pc : ppc' = [ppc EXCEPT ![p] = pc]
    BY <1>3 DEF Claim, Spin, Arm, Recheck, Sleep, Fill, Publish, PGoto, NoMemory,
                shared, consVars
  <2>2. PICK q \in Producers : ppc[q] \in {"fence", "wake"}
    BY <2>1 DEF NoLostConsumerWakeup
  <2>3. ppc'[q] = ppc[q]
    BY <1>1, <2>1, <2>2
  <2> QED
    BY <2>2, <2>3
<1>4. ASSUME NEW p \in Producers, Doorbell(p)
      PROVE  \E q \in Producers : ppc'[q] \in {"fence", "wake"}
  <2>1. UNCHANGED <<cpc, prod_tail, head>>
    BY <1>4 DEF Doorbell, NoMemory, shared, consVars
  <2>2. cons_sleeping = 1
    BY <2>1 DEF MpscInv, Armed
  <2>3. ppc' = [ppc EXCEPT ![p] = "wake"]
    BY <1>4, <2>2 DEF Doorbell, PGoto
  <2> QED
    BY <1>1, <2>3
<1>5. ASSUME NEW p \in Producers, WakeConsumer(p)
      PROVE  FALSE
  BY <1>5 DEF WakeConsumer
<1>6. ASSUME NEW p \in Producers, DrainProducer(p)
      PROVE  \E q \in Producers : ppc'[q] \in {"fence", "wake"}
  <2>1. CASE Head(pbuf[p]) = TailStore(my_idx[p])
    BY <1>6, <2>1, DrainTailStoreKeeps
  <2>2. CASE Head(pbuf[p]) \in {SleepStore, FillStore(my_idx[p])}
    <3>1. Head(pbuf[p]).loc # "prod_tail"
      BY <2>2, ConsumerStoreTypes DEF SleepStore, FillStore
    <3>2. UNCHANGED <<cpc, prod_tail, head, ppc>>
      BY <1>6, <3>1 DEF DrainProducer, Drain, consVars
    <3> QED
      BY <3>2 DEF NoLostConsumerWakeup
  <2> QED
    BY <1>6, <2>1, <2>2, OldestStore
<1>7. CASE ConsumeStep
  <2>1. CASE ConsumeSleep
    BY <2>1 DEF ConsumeSleep, NoProducer, shared
  <2>2. CASE ~ConsumeSleep
    BY <1>7, <2>2, TailInRange DEF ConsumeStep, ConsumeSpin, ConsumeArm, ConsumeRecheck,
      ConsumeAwake, ConsumeVerify, Release, CheckProducers, WakeProducers, Ready
  <2> QED
    BY <2>1, <2>2
<1>8. CASE DrainConsumer
  <2>1. cpc = "blocked" /\ cbuf # <<>>
    BY <1>8 DEF DrainConsumer
  <2> QED
    BY <2>1 DEF MpscInv, Armed
<1> QED
  BY <1>2, <1>3, <1>4, <1>5, <1>6, <1>7, <1>8 DEF Next, ProduceStep

\* Where every published descriptor rings (wakeup_thresh 0 or 1), a consumer
\* never sleeps over a descriptor unless a producer is about to wake it: the
\* full fences of flipc2_produce_commit_mpsc and flipc2_consume_wait suffice on
\* both builds, for any number of producers.
THEOREM ConsumerIsWoken ==
  ASSUME THRESH <= 1
  PROVE  Spec => []NoLostConsumerWakeup
<1>1. Init => NoLostConsumerWakeup
  BY DEF Init, NoLostConsumerWakeup
<1>2. MpscInv /\ NoLostConsumerWakeup /\ [Next]_vars => NoLostConsumerWakeup'
  BY WakeupStep
<1> QED
  BY <1>1, <1>2, InvInit, InvStep, PTL DEF Spec

-----------------------------------------------------------------------------
(* The channel implements module Fifo. *)

\* head, prod_tail and the number of descriptors between them.
LEMMA Span ==
  ASSUME MpscInv
  PROVE  /\ head \in Word /\ prod_tail \in Word /\ cons_head \in Word
         /\ flipc2_ring_count(prod_tail, head) = D(prod_tail) - D(head)
         /\ flipc2_ring_count(prod_tail, head) \in 0 .. RING_ENTRIES
         /\ D(head) \in Nat /\ D(prod_tail) \in Nat
<1>1. head \in Word /\ prod_tail \in Word /\ cons_head \in Word
  BY DEF MpscInv, Types
<1>2. D(head) \in Nat /\ D(prod_tail) \in Nat
  BY <1>1, CountIsNat DEF D
<1>3. D(head) <= D(prod_tail) /\ D(prod_tail) <= RING_ENTRIES
  BY DEF MpscInv, Order
<1>4. flipc2_ring_count(prod_tail, head) = D(prod_tail) - D(head)
  BY <1>1, <1>3, CountDifference DEF D
<1> QED
  BY <1>1, <1>2, <1>3, <1>4, Bounds

\* The memory between the two counters holds exactly the numbers between them.
LEMMA WindowNumbers == MpscInv => Window = Numbers(prod_tail, head)
<1> SUFFICES ASSUME MpscInv PROVE Window = Numbers(prod_tail, head)
  OBVIOUS
<1>1. ASSUME NEW i \in 1 .. flipc2_ring_count(prod_tail, head)
      PROVE  ring[flipc2_ring_idx(Add(head, i - 1))] = Add(head, i - 1)
  <2> DEFINE w == Add(head, i - 1)
  <2>1. /\ i - 1 \in 0 .. RING_ENTRIES
        /\ D(head) + (i - 1) < D(prod_tail)
    BY Span, Bounds
  <2>2. D(prod_tail) < WORD
    BY Span, CountIsNat DEF D
  <2>3. w \in Word /\ D(w) = D(head) + (i - 1)
    <3>1. D(head) + (i - 1) < WORD
      BY <2>1, <2>2, Span, Bounds
    <3> QED
      BY <2>1, <3>1, Span, CountAdvance, WordClosed DEF D
  <2> HIDE DEF w
  <2>4. ring[flipc2_ring_idx(w)] = w
    BY <2>1, <2>3 DEF MpscInv, RingHolds
  <2> QED
    BY <2>4 DEF w
<1> QED
  BY <1>1 DEF Window, Numbers

LEMMA WindowNumbersNext ==
  MpscInv' => Window' = Numbers(prod_tail', head')
<1>1. (MpscInv => Window = Numbers(prod_tail, head))'
  BY WindowNumbers, PTL
<1> QED
  BY <1>1 DEF Numbers

\* What a step does to the two counters of the queue: one more descriptor is
\* published, one is released, or neither moves.
LEMMA CounterStep ==
  ASSUME MpscInv, [Next]_vars
  PROVE  \/ /\ head' = head
            /\ prod_tail' = Add(prod_tail, 1)
            /\ flipc2_ring_count(prod_tail, head) < RING_ENTRIES
         \/ /\ prod_tail' = prod_tail
            /\ 1 \in 1 .. flipc2_ring_count(prod_tail, head)
            /\ head' = Add(head, 1)
         \/ UNCHANGED <<head, prod_tail>>
<1>1. CASE UNCHANGED vars
  BY <1>1 DEF vars, shared, consVars
<1>2. ASSUME NEW p \in Producers, Claim(p) \/ ProduceStep(p)
      PROVE  UNCHANGED <<head, prod_tail>>
  BY <1>2 DEF Claim, ProduceStep, Spin, Arm, Recheck, Sleep, Fill, Publish,
    Doorbell, WakeConsumer, NoMemory, shared, consVars
<1>3. CASE Release
  <2>1. prod_tail # head
    BY <1>3 DEF Release, MpscInv, Given
  <2> QED
    BY <1>3, <2>1, TailInRange DEF Release, NoProducer, shared
<1>4. CASE ConsumeStep /\ ~Release
  BY <1>4 DEF ConsumeStep, ConsumeSpin, ConsumeArm, ConsumeRecheck, ConsumeSleep,
    ConsumeAwake, ConsumeVerify, CheckProducers, WakeProducers, NoProducer, shared
<1>5. CASE DrainConsumer
  <2>1. cbuf \in Seq(ConsumerStores) /\ cbuf # <<>>
    BY <1>5 DEF MpscInv, Types, DrainConsumer
  <2>2. Head(cbuf) \in ConsumerStores
    BY <2>1, BufferTail
  <2>3. Head(cbuf).loc # "prod_tail"
    BY <2>2, ConsumerStoreTypes
  <2> QED
    BY <1>5, <2>3 DEF DrainConsumer, Drain
<1>6. ASSUME NEW p \in Producers, DrainProducer(p)
      PROVE  \/ /\ head' = head
                /\ prod_tail' = Add(prod_tail, 1)
                /\ flipc2_ring_count(prod_tail, head) < RING_ENTRIES
             \/ UNCHANGED <<head, prod_tail>>
  <2>1. CASE Head(pbuf[p]) = TailStore(my_idx[p])
    <3>1. /\ head' = head /\ prod_tail' = Add(prod_tail, 1)
          /\ D(prod_tail) < RING_ENTRIES
      BY <1>6, <2>1, DrainTailStoreKeeps
    <3> QED
      BY <3>1, Span, Bounds
  <2>2. CASE Head(pbuf[p]) \in {SleepStore, FillStore(my_idx[p])}
    <3>1. Head(pbuf[p]).loc # "prod_tail"
      BY <2>2, ConsumerStoreTypes DEF SleepStore, FillStore
    <3> QED
      BY <1>6, <3>1 DEF DrainProducer, Drain, consVars
  <2> QED
    BY <1>6, <2>1, <2>2, OldestStore
<1> QED
  BY <1>1, <1>2, <1>3, <1>4, <1>5, <1>6 DEF Next

\* Every step of the channel is a step of the queue or leaves it alone.
LEMMA FifoStep ==
  ASSUME MpscInv, MpscInv', [Next]_vars
  PROVE  [Channel!Send \/ Channel!Receive]_<<Window, prod_tail>>
<1> DEFINE n == flipc2_ring_count(prod_tail, head)
<1>1. Window = Numbers(prod_tail, head)
  BY WindowNumbers
<1>2. Window' = Numbers(prod_tail', head')
  BY WindowNumbersNext
<1>3. head \in Word /\ prod_tail \in Word /\ n \in 0 .. RING_ENTRIES
  BY Span
<1>4. Len(Window) = n
  BY <1>1, <1>3 DEF Numbers
<1>5. CASE /\ head' = head
           /\ prod_tail' = Add(prod_tail, 1)
           /\ n < RING_ENTRIES
  <2>1. Window' = Append(Window, prod_tail)
    BY <1>1, <1>2, <1>3, <1>5, NumbersAppend
  <2>2. Channel!Send
    BY <1>4, <1>5, <2>1 DEF Channel!Send, Add
  <2> QED
    BY <2>2
<1>6. CASE /\ prod_tail' = prod_tail
           /\ 1 \in 1 .. n
           /\ head' = Add(head, 1)
  <2>1. Window' = SubSeq(Window, 1 + 1, n)
    BY <1>1, <1>2, <1>3, <1>6, NumbersSubSeq
  <2>2. Channel!Receive
    BY <1>4, <1>6, <2>1 DEF Channel!Receive
  <2> QED
    BY <2>2
<1>7. CASE UNCHANGED <<head, prod_tail>>
  BY <1>1, <1>2, <1>7
<1> QED
  BY <1>5, <1>6, <1>7, CounterStep

\* A channel with any number of producers is a first-in first-out queue of
\* ring_entries places: numbers come into it in the order they were claimed,
\* one at a time, none before its slot is filled, and no producer a lap ahead
\* overwrites a slot that the consumer has not released.  It holds on both
\* builds of the write fence, whatever the threshold.
THEOREM RefinesFifo == Spec => ImplementsFifo
<1>1. Init => Channel!FifoInit
  <2> SUFFICES ASSUME Init PROVE Channel!FifoInit
    OBVIOUS
  <2>1. prod_tail = 0 /\ head = 0 /\ 0 \in Word
    BY Bounds DEF Init, Word
  <2>2. flipc2_ring_count(prod_tail, head) = 0
    BY <2>1, CountSelf
  <2>3. Window = <<>>
    BY <2>2 DEF Window
  <2> QED
    BY <2>1, <2>3 DEF Channel!FifoInit
<1>2. MpscInv /\ MpscInv' /\ [Next]_vars
        => [Channel!Send \/ Channel!Receive]_<<Window, prod_tail>>
  BY FifoStep
<1> QED
  BY <1>1, <1>2, InvInit, InvStep, PTL DEF Spec, ImplementsFifo, Channel!FifoSpec
=============================================================================
