-------------------------- MODULE Flipc2SpscProofs --------------------------
(***************************************************************************)
(* Theorems about Flipc2Spsc for every ring size, word width, spurious     *)
(* wakeup limit and set of calls: types, the ring as a bounded queue, and  *)
(* the adaptive wakeup protocol.                                           *)
(***************************************************************************)
EXTENDS Flipc2Spsc, Flipc2RingLemmas

-----------------------------------------------------------------------------
(* The type invariant.  TypeOK alone is not inductive: that WriteDesc does   *)
(* not stage more than BATCH descriptors follows from where staged can be    *)
(* different from zero.                                                      *)

StagedOK ==
  /\ ppc = "got" => staged < BATCH
  /\ ppc \notin {"got", "staged"} => staged = 0

TypeInv == TypeOK /\ StagedOK

LEMMA TypeInit == Init => TypeInv
  BY RingAssumption, LimitAssumption
  DEF Init, TypeInv, StagedOK, TypeOK, Word, Slots, NONE, PPcs, CPcs

\* A store put into a buffer is a legal entry.
LEMMA StoreTypes ==
  /\ \A w \in Word : Store("prod_tail", w) \in PEntries
  /\ \A b \in {0, 1} : Store("prod_sleeping", b) \in PEntries
  /\ \A t \in Slots, w \in Word : RingStore(t, w) \in PEntries
  /\ \A w \in Word : Store("cons_head", w) \in CEntries
  /\ \A b \in {0, 1} : Store("cons_sleeping", b) \in CEntries
  BY DEF Store, RingStore, PEntries, CEntries

LEMMA TypeDrain == TypeInv /\ Drain => TypeInv'
<1> SUFFICES ASSUME TypeInv, Drain PROVE TypeInv'
  OBVIOUS
<1> USE DEF TypeInv, StagedOK, TypeOK
<1>1. CASE DrainProducer
  <2>1. Head(pbuf) \in PEntries /\ Tail(pbuf) \in Seq(PEntries)
    BY <1>1 DEF DrainProducer
  <2> QED
    BY <1>1, <2>1 DEF DrainProducer, PEntries, consVars
<1>2. CASE DrainConsumer
  <2>1. Head(cbuf) \in CEntries /\ Tail(cbuf) \in Seq(CEntries)
    BY <1>2 DEF DrainConsumer
  <2> QED
    BY <1>2, <2>1 DEF DrainConsumer, CEntries, prodVars
<1> QED
  BY <1>1, <1>2 DEF Drain

LEMMA TypeProduce == TypeInv /\ (ProduceCall \/ ProduceStep) => TypeInv'
<1> SUFFICES ASSUME TypeInv, ProduceCall \/ ProduceStep PROVE TypeInv'
  OBVIOUS
<1> USE DEF TypeInv, StagedOK, TypeOK, PPcs, CPcs, shared, consVars
<1>0. staged \in 0 .. RING_ENTRIES /\ BATCH \in Nat /\ 0 < BATCH
  BY LimitAssumption, RingAssumption
<1>1. CASE Reserve
  BY <1>1 DEF Reserve, RefreshedHead
<1>2. CASE ProduceWait
  BY <1>0, <1>2 DEF ProduceWait, RefreshedHead
<1>3. CASE Flush
  BY <1>3 DEF Flush
<1>4. CASE ProduceSpin
  BY <1>0, <1>4 DEF ProduceSpin
<1>5. CASE ProduceArm
  BY <1>5, StoreTypes DEF ProduceArm
<1>6. CASE ProduceRecheck
  BY <1>0, <1>6, StoreTypes DEF ProduceRecheck
<1>7. CASE ProduceFutexWait
  BY <1>7 DEF ProduceFutexWait
<1>8. CASE ProduceAwake
  BY <1>8, StoreTypes DEF ProduceAwake
<1>9. CASE ProduceVerify
  BY <1>0, <1>9 DEF ProduceVerify
<1>10. CASE ProduceNull
  BY <1>10 DEF ProduceNull
<1>11. CASE WriteDesc
  <2>1. Add(tail, staged) \in Word /\ flipc2_ring_idx(tail) \in Slots
    BY <1>0, WordClosed, IdxInSlots
  <2>2. RingStore(flipc2_ring_idx(tail), Add(tail, staged)) \in PEntries
    BY <2>1, StoreTypes
  <2> QED
    BY <1>0, <1>11, <2>2 DEF WriteDesc
<1>12. CASE Commit
  <2>1. Add(tail, staged) \in Word
    BY <1>0, WordClosed
  <2>2. Store("prod_tail", Add(tail, staged)) \in PEntries
    BY <2>1, StoreTypes
  <2> QED
    BY <1>0, <1>12, <2>1, <2>2 DEF Commit
<1>13. CASE CheckConsumer
  BY <1>13 DEF CheckConsumer
<1>14. CASE CheckThreshold
  BY <1>14 DEF CheckThreshold
<1>15. CASE WakeConsumer
  BY <1>15 DEF WakeConsumer
<1> QED
  BY <1>1, <1>2, <1>3, <1>4, <1>5, <1>6, <1>7, <1>8, <1>9, <1>10, <1>11,
     <1>12, <1>13, <1>14, <1>15 DEF ProduceCall, ProduceStep

LEMMA TypeConsume == TypeInv /\ (ConsumeCall \/ ConsumeStep) => TypeInv'
<1> SUFFICES ASSUME TypeInv, ConsumeCall \/ ConsumeStep PROVE TypeInv'
  OBVIOUS
<1> USE DEF TypeInv, StagedOK, TypeOK, PPcs, CPcs, shared, prodVars
<1>0. taken \in 0 .. RING_ENTRIES /\ RELEASE \in Nat
  BY LimitAssumption, RingAssumption
<1>a. \A b \in {0, 1} : Append(cbuf, Store("cons_sleeping", b)) \in Seq(CEntries)
  BY StoreTypes
<1>1. CASE Peek
  BY <1>1 DEF Peek, RefreshedTail
<1>2. CASE ConsumeWait
  BY <1>2, LimitAssumption DEF ConsumeWait
<1>3. CASE ConsumeSpin
  BY <1>3 DEF ConsumeSpin, Ready
<1>4. CASE ConsumeArm
  BY <1>4, <1>a DEF ConsumeArm
<1>5. CASE ConsumeRecheck
  <2>1. CASE prod_tail # head
    <3>1. /\ cpc' \in {"have", "corrupt"} /\ spurious_wakeups' \in Nat
          /\ cbuf' = Append(cbuf, Store("cons_sleeping", 0))
      BY <1>5, <2>1 DEF ConsumeRecheck, Ready
    <3> QED
      BY <1>5, <3>1, <1>a DEF ConsumeRecheck
  <2>2. CASE prod_tail = head
    BY <1>5, <2>2, <1>a DEF ConsumeRecheck
  <2> QED
    BY <2>1, <2>2
<1>6. CASE ConsumeFutexWait
  BY <1>6 DEF ConsumeFutexWait
<1>7. CASE ConsumeTimeout
  BY <1>7, <1>a DEF ConsumeTimeout
<1>8. CASE ConsumeAwake
  BY <1>8, <1>a DEF ConsumeAwake
<1>9. CASE ConsumeVerify
  <2>1. CASE prod_tail # head
    BY <1>9, <2>1, <1>a DEF ConsumeVerify, Ready
  <2>2. CASE prod_tail = head
    <3>1. /\ cpc' \in {"dead", "idle", "armed"} /\ spurious_wakeups' \in Nat
          /\ \/ cbuf' = cbuf
             \/ cbuf' = Append(cbuf, Store("cons_sleeping", 1))
      BY <1>9, <2>2 DEF ConsumeVerify
    <3>2. cbuf' \in Seq(CEntries)
      BY <3>1, <1>a
    <3>3. /\ cached_prod_tail' = prod_tail
          /\ UNCHANGED <<shared, prodVars, head, timeout, taken, desc>>
      BY <1>9 DEF ConsumeVerify
    <3> QED
      BY <3>1, <3>2, <3>3
  <2> QED
    BY <2>1, <2>2
<1>10. CASE ReadDesc
  <2>1. flipc2_ring_idx(Add(head, taken)) \in Slots
    BY <1>0, WordClosed, IdxInSlots
  <2> QED
    BY <1>0, <1>10, <2>1 DEF ReadDesc
<1>11. CASE Release
  <2>1. Add(head, taken) \in Word
    BY <1>0, WordClosed
  <2>2. Store("cons_head", Add(head, taken)) \in CEntries
    BY <2>1, StoreTypes
  <2> QED
    BY <1>0, <1>11, <2>1, <2>2 DEF Release
<1>12. CASE CheckProducer
  BY <1>12 DEF CheckProducer
<1>13. CASE WakeProducer
  BY <1>13 DEF WakeProducer
<1> QED
  BY <1>1, <1>2, <1>3, <1>4, <1>5, <1>6, <1>7, <1>8, <1>9, <1>10, <1>11,
     <1>12, <1>13 DEF ConsumeCall, ConsumeStep

LEMMA TypeAttach == TypeInv /\ Attach => TypeInv'
<1>1. 0 \in Word
  BY RingAssumption DEF Word
<1> QED
  BY <1>1 DEF Attach, AttachProducer, AttachConsumer, TypeInv, StagedOK, TypeOK,
              shared, prodVars, consVars

LEMMA TypeStep == TypeInv /\ [Next]_vars => TypeInv'
<1>1. TypeInv /\ UNCHANGED vars => TypeInv'
  BY DEF TypeInv, StagedOK, TypeOK, vars, shared, prodVars, consVars
<1> QED
  BY <1>1, TypeDrain, TypeProduce, TypeConsume, TypeAttach DEF Next

\* Every variable keeps its type: the counters stay words under any number of
\* commits and releases, and both store buffers hold only legal entries.
THEOREM TypeCorrect == Spec => []TypeOK
<1>1. TypeInv => TypeOK
  BY DEF TypeInv
<1> QED
  BY <1>1, TypeInit, TypeStep, PTL DEF Spec

-----------------------------------------------------------------------------
(* The ring data.  Distances are measured from cached_cons_head, the oldest  *)
(* of all the counters in play; every other one lies within a ring of it, in *)
(* the order below, so no distance wraps.                                    *)

D(w) == flipc2_ring_count(w, cached_cons_head)

\* cached_cons_head, cons_head, head, cached_prod_tail, prod_tail and tail, in
\* this order, span at most the ring.
Order ==
  /\ D(cons_head) <= D(head)
  /\ D(head) <= D(cached_prod_tail)
  /\ D(cached_prod_tail) <= D(prod_tail)
  /\ D(prod_tail) <= D(tail)
  /\ D(tail) <= RING_ENTRIES
  /\ taken <= D(cached_prod_tail) - D(head)

\* The buffered stores to cons_head are on their way from cons_head to head.
HeadStores ==
  \A i \in 1 .. Len(cbuf) : cbuf[i].loc = "cons_head" =>
    /\ D(cons_head) <= D(cbuf[i].val)
    /\ D(cbuf[i].val) <= D(head)
    /\ \A j \in 1 .. Len(cbuf) : i < j /\ cbuf[j].loc = "cons_head" =>
         D(cbuf[i].val) <= D(cbuf[j].val)

\* A descriptor is written and not yet published.
Unpublished == ppc = "staged" \/ (ppc = "fence" /\ prod_tail # tail)

\* The producer's buffer holds at most one descriptor and one prod_tail, the
\* prod_tail last, so the memory gets the descriptor first.
ProducerStores ==
  /\ staged = IF ppc = "staged" THEN 1 ELSE 0
  /\ ppc \in {"got", "staged"} => D(tail) < RING_ENTRIES
  /\ ppc # "fence" => prod_tail = tail
  /\ ppc = "fence" => prod_tail = tail \/ Add(prod_tail, 1) = tail
  /\ ppc = "fence" /\ prod_tail # tail =>
       pbuf # <<>> /\ pbuf[Len(pbuf)].loc = "prod_tail"
  /\ \A i \in 1 .. Len(pbuf) : pbuf[i].loc = "ring" =>
       /\ Unpublished
       /\ pbuf[i].val = prod_tail
       /\ pbuf[i].at = flipc2_ring_idx(prod_tail)
  /\ \A i \in 1 .. Len(pbuf) : pbuf[i].loc = "prod_tail" =>
       /\ ppc = "fence" /\ prod_tail # tail
       /\ i = Len(pbuf)
       /\ pbuf[i].val = tail
  /\ Unpublished /\ (\A i \in 1 .. Len(pbuf) : pbuf[i].loc # "ring") =>
       ring[flipc2_ring_idx(prod_tail)] = prod_tail

\* Every published descriptor that is not released is in its slot.
RingHolds ==
  \A w \in Word :
    flipc2_ring_count(w, head) < flipc2_ring_count(prod_tail, head) =>
      ring[flipc2_ring_idx(w)] = w

DataInv ==
  /\ TypeInv
  /\ Order
  /\ HeadStores
  /\ ProducerStores
  /\ RingHolds
  /\ InOrder
  /\ cpc # "corrupt"

\* Distances are numbers below WORD.
LEMMA DistanceType ==
  ASSUME TypeInv
  PROVE  /\ \A w \in Word : D(w) \in 0 .. WORD - 1
         /\ RING_ENTRIES \in Nat \ {0} /\ WORD \in Nat
         /\ 4 * RING_ENTRIES <= WORD
<1>1. cached_cons_head \in Word
  BY DEF TypeInv, TypeOK
<1> QED
  BY <1>1, WordClosed, RingAssumption DEF D, Word

LEMMA DataInit == Init /\ BATCH = 1 => DataInv
<1> SUFFICES ASSUME Init, BATCH = 1 PROVE DataInv
  OBVIOUS
<1>1. TypeInv
  BY TypeInit
<1>2. 0 \in Word
  BY RingAssumption DEF Word
<1>3. flipc2_ring_count(0, 0) = 0
  BY <1>2, CountSelf
<1>4. Order
  BY <1>3, RingAssumption DEF Init, Order, D
<1>5. HeadStores /\ ProducerStores
  BY DEF Init, HeadStores, ProducerStores, Unpublished
<1>6. RingHolds
  <2> SUFFICES ASSUME NEW w \in Word,
                      flipc2_ring_count(w, 0) < flipc2_ring_count(0, 0)
               PROVE  FALSE
    BY DEF RingHolds, Init
  <2>1. flipc2_ring_count(w, 0) \in Nat
    BY <1>2, WordClosed DEF Word
  <2> QED
    BY <2>1, <1>3
<1> QED
  BY <1>1, <1>4, <1>5, <1>6 DEF DataInv, InOrder, Init

\* Moving the origin of the distances up to cons_head keeps every order.
LEMMA Rebase ==
  ASSUME TypeInv, TypeInv', Order, HeadStores,
         cached_cons_head' \in {cached_cons_head, cons_head},
         UNCHANGED <<shared, tail, cbuf, head, cached_prod_tail, taken>>
  PROVE  Order' /\ HeadStores'
<1> USE DistanceType
<1>1. CASE cached_cons_head' = cached_cons_head
  BY <1>1 DEF Order, HeadStores, D, shared
<1>2. CASE cached_cons_head' = cons_head
  <2>1. /\ cons_head \in Word /\ head \in Word /\ cached_prod_tail \in Word
        /\ prod_tail \in Word /\ tail \in Word /\ cached_cons_head \in Word
        /\ taken \in Int
    BY LimitAssumption DEF TypeInv, TypeOK
  <2> DEFINE E(w) == flipc2_ring_count(w, cons_head)
  <2>2. \A w \in Word : D(cons_head) <= D(w) => E(w) = D(w) - D(cons_head)
    BY <2>1, CountDifference DEF D
  <2>3. /\ E(cons_head) = D(cons_head) - D(cons_head)
        /\ E(head) = D(head) - D(cons_head)
        /\ E(cached_prod_tail) = D(cached_prod_tail) - D(cons_head)
        /\ E(prod_tail) = D(prod_tail) - D(cons_head)
        /\ E(tail) = D(tail) - D(cons_head)
    BY <2>1, <2>2 DEF Order
  <2>4. Order'
    <3>1. /\ E(cons_head) <= E(head)
          /\ E(head) <= E(cached_prod_tail)
          /\ E(cached_prod_tail) <= E(prod_tail)
          /\ E(prod_tail) <= E(tail)
          /\ E(tail) <= RING_ENTRIES
          /\ taken <= E(cached_prod_tail) - E(head)
      BY <2>1, <2>3 DEF Order
    <3> QED
      BY <3>1, <1>2 DEF Order, D, shared
  <2>5. HeadStores'
    <3>1. \A i \in 1 .. Len(cbuf) : cbuf[i].loc = "cons_head" =>
             /\ cbuf[i].val \in Word
             /\ E(cbuf[i].val) = D(cbuf[i].val) - D(cons_head)
      <4> SUFFICES ASSUME NEW i \in 1 .. Len(cbuf), cbuf[i].loc = "cons_head"
                   PROVE  /\ cbuf[i].val \in Word
                          /\ E(cbuf[i].val) = D(cbuf[i].val) - D(cons_head)
        OBVIOUS
      <4>1. cbuf[i] \in CEntries
        BY DEF TypeInv, TypeOK
      <4>2. cbuf[i].val \in Word
        BY <4>1, RingAssumption DEF CEntries, Word
      <4> QED
        BY <4>2, <2>2 DEF HeadStores
    <3>2. \A i \in 1 .. Len(cbuf) : cbuf[i].loc = "cons_head" =>
            /\ E(cons_head) <= E(cbuf[i].val)
            /\ E(cbuf[i].val) <= E(head)
            /\ \A j \in 1 .. Len(cbuf) : i < j /\ cbuf[j].loc = "cons_head" =>
                 E(cbuf[i].val) <= E(cbuf[j].val)
      <4> SUFFICES ASSUME NEW i \in 1 .. Len(cbuf), cbuf[i].loc = "cons_head"
                   PROVE  /\ E(cons_head) <= E(cbuf[i].val)
                          /\ E(cbuf[i].val) <= E(head)
                          /\ \A j \in 1 .. Len(cbuf) :
                               i < j /\ cbuf[j].loc = "cons_head" =>
                                 E(cbuf[i].val) <= E(cbuf[j].val)
        OBVIOUS
      <4> HIDE DEF E
      <4>1. /\ D(cons_head) \in Int /\ D(head) \in Int
            /\ D(cbuf[i].val) \in Int
        BY <2>1, <3>1
      <4>2. E(cons_head) <= E(cbuf[i].val) /\ E(cbuf[i].val) <= E(head)
        BY <2>3, <3>1, <4>1 DEF HeadStores
      <4>3. ASSUME NEW j \in 1 .. Len(cbuf), i < j, cbuf[j].loc = "cons_head"
            PROVE  E(cbuf[i].val) <= E(cbuf[j].val)
        <5>1. D(cbuf[j].val) \in Int
          BY <3>1, <4>3
        <5>2. D(cbuf[i].val) <= D(cbuf[j].val)
          BY <4>3 DEF HeadStores
        <5>3. /\ E(cbuf[i].val) = D(cbuf[i].val) - D(cons_head)
              /\ E(cbuf[j].val) = D(cbuf[j].val) - D(cons_head)
          BY <3>1, <4>3
        <5> QED
          BY <4>1, <5>1, <5>2, <5>3
      <4> QED
        BY <4>2, <4>3
    <3> QED
      BY <3>2, <1>2 DEF HeadStores, D, shared
  <2> QED
    BY <2>4, <2>5
<1> QED
  BY <1>1, <1>2

\* With room seen at h, the distance from h to tail is less than the ring.
LEMMA RoomLeft ==
  ASSUME tail \in Word, NEW h \in Word, HasSpace(h),
         flipc2_ring_count(tail, h) <= RING_ENTRIES
  PROVE  flipc2_ring_count(tail, h) < RING_ENTRIES
<1>1. flipc2_ring_free(tail, h) = RING_ENTRIES - flipc2_ring_count(tail, h)
  BY FreeValue
<1>2. flipc2_ring_count(tail, h) \in Int /\ RING_ENTRIES \in Int
  BY WordClosed, RingAssumption DEF Word
<1> QED
  BY <1>1, <1>2 DEF HasSpace, Full

\* A producer step outside WriteDesc .. CheckConsumer: it may move its cached
\* cons_head and announce or withdraw its sleep, and nothing else.
LEMMA QuietProducer ==
  ASSUME DataInv, TypeInv',
         cached_cons_head' \in {cached_cons_head, cons_head},
         UNCHANGED <<shared, tail, staged, cbuf, head, cached_prod_tail, taken,
                     desc>>,
         ppc \notin {"got", "staged", "fence"},
         ppc' \notin {"staged", "fence"},
         ppc' = "got" => HasSpace(cached_cons_head'),
         \/ pbuf' = pbuf
         \/ \E b \in {0, 1} : pbuf' = Append(pbuf, Store("prod_sleeping", b)),
         cpc' # "corrupt"
  PROVE  DataInv'
<1>1. Order' /\ HeadStores'
  BY Rebase DEF DataInv
<1>2. RingHolds' /\ InOrder'
  BY DEF DataInv, RingHolds, InOrder, shared
<1>3. ppc' = "got" => D(tail)' < RING_ENTRIES
  <2> SUFFICES ASSUME ppc' = "got" PROVE D(tail)' < RING_ENTRIES
    OBVIOUS
  <2>1. tail \in Word /\ cached_cons_head' \in Word /\ tail' = tail
    BY DEF DataInv, TypeInv, TypeOK
  <2>2. flipc2_ring_count(tail, cached_cons_head') <= RING_ENTRIES
    BY <1>1, <2>1 DEF Order, D
  <2>3. flipc2_ring_count(tail, cached_cons_head') < RING_ENTRIES
    BY <2>1, <2>2, RoomLeft
  <2> QED
    BY <2>1, <2>3 DEF D
<1> DEFINE NoData(buf) == \A j \in 1 .. Len(buf) :
                             buf[j].loc # "ring" /\ buf[j].loc # "prod_tail"
<1>4. NoData(pbuf')
  <2>1. NoData(pbuf)
    BY DEF DataInv, ProducerStores, Unpublished
  <2>2. CASE pbuf' = pbuf
    BY <2>1, <2>2
  <2>3. ASSUME NEW b \in {0, 1}, pbuf' = Append(pbuf, Store("prod_sleeping", b))
        PROVE  NoData(pbuf')
    <3>1. Store("prod_sleeping", b).loc = "prod_sleeping"
      BY DEF Store
    <3>2. pbuf \in Seq(PEntries) /\ Store("prod_sleeping", b) \in PEntries
      BY StoreTypes DEF DataInv, TypeInv, TypeOK
    <3> QED
      BY <2>1, <2>3, <3>1, <3>2
  <2> QED
    BY <2>2, <2>3
<1>5. ProducerStores'
  BY <1>3, <1>4 DEF DataInv, ProducerStores, Unpublished, shared
<1> QED
  BY <1>1, <1>2, <1>5 DEF DataInv

LEMMA DataQuiet ==
  ASSUME DataInv, TypeInv', BATCH = 1,
         \/ Reserve \/ ProduceWait \/ Flush \/ ProduceSpin \/ ProduceArm
         \/ ProduceRecheck \/ ProduceFutexWait \/ ProduceAwake \/ ProduceVerify
         \/ ProduceNull \/ CheckThreshold \/ WakeConsumer
  PROVE  DataInv'
<1> USE DEF consVars
<1>0. /\ cpc # "corrupt"
      /\ ppc = "staged" => staged = 1
  BY DEF DataInv, ProducerStores
<1>1. CASE Reserve
  BY <1>0, <1>1, QuietProducer DEF Reserve, RefreshedHead
<1>2. CASE ProduceWait
  BY <1>0, <1>2, QuietProducer DEF ProduceWait, RefreshedHead
<1>3. CASE Flush
  BY <1>0, <1>3, QuietProducer DEF Flush
<1>4. CASE ProduceSpin
  BY <1>0, <1>4, QuietProducer DEF ProduceSpin
<1>5. CASE ProduceArm
  BY <1>0, <1>5, QuietProducer DEF ProduceArm
<1>6. CASE ProduceRecheck
  BY <1>0, <1>6, QuietProducer DEF ProduceRecheck
<1>7. CASE ProduceFutexWait
  BY <1>0, <1>7, QuietProducer DEF ProduceFutexWait
<1>8. CASE ProduceAwake
  BY <1>0, <1>8, QuietProducer DEF ProduceAwake
<1>9. CASE ProduceVerify
  BY <1>0, <1>9, QuietProducer DEF ProduceVerify
<1>10. CASE ProduceNull
  BY <1>0, <1>10, QuietProducer DEF ProduceNull
<1>11. CASE CheckThreshold
  BY <1>0, <1>11, QuietProducer DEF CheckThreshold
<1>12. CASE WakeConsumer
  BY <1>0, <1>12, QuietProducer DEF WakeConsumer
<1> QED
  BY <1>1, <1>2, <1>3, <1>4, <1>5, <1>6, <1>7, <1>8, <1>9, <1>10, <1>11, <1>12

LEMMA DataWriteDesc ==
  ASSUME DataInv, TypeInv', BATCH = 1, WriteDesc
  PROVE  DataInv'
<1> DEFINE e == RingStore(flipc2_ring_idx(tail), Add(tail, staged))
<1>1. /\ ppc = "got" /\ ppc' = "staged" /\ staged = 0 /\ staged' = 1
      /\ prod_tail = tail /\ tail \in Word /\ pbuf' = Append(pbuf, e)
      /\ pbuf \in Seq(PEntries) /\ pbuf' \in Seq(PEntries)
  BY DEF WriteDesc, DataInv, ProducerStores, TypeInv, TypeOK
<1>2. Add(tail, staged) = tail
  BY <1>1, AddValue, RingAssumption DEF Word
<1>3. e.loc = "ring" /\ e.val = tail /\ e.at = flipc2_ring_idx(tail)
  BY <1>2 DEF RingStore
<1> HIDE DEF e
<1>4. Order' /\ HeadStores' /\ RingHolds' /\ InOrder' /\ cpc' # "corrupt"
  BY DEF WriteDesc, DataInv, Order, HeadStores, RingHolds, InOrder, D, shared,
         consVars
<1>5. \A j \in 1 .. Len(pbuf) : pbuf[j].loc # "ring" /\ pbuf[j].loc # "prod_tail"
  BY <1>1 DEF DataInv, ProducerStores, Unpublished
<1>6. /\ Len(pbuf') = Len(pbuf) + 1 /\ Len(pbuf) \in Nat
      /\ \A j \in 1 .. Len(pbuf) : pbuf'[j] = pbuf[j]
      /\ pbuf'[Len(pbuf) + 1] = e
  BY <1>1
<1>7. UNCHANGED <<ring, prod_tail, tail, cached_cons_head>>
  BY DEF WriteDesc, shared
<1>8. D(tail)' < RING_ENTRIES
  BY <1>1, <1>7 DEF DataInv, ProducerStores, D
<1>9. ProducerStores'
  BY <1>1, <1>3, <1>5, <1>6, <1>7, <1>8 DEF ProducerStores, Unpublished
<1> QED
  BY <1>4, <1>9 DEF DataInv

LEMMA DataCommit ==
  ASSUME DataInv, TypeInv', BATCH = 1, Commit
  PROVE  DataInv'
<1> DEFINE e == Store("prod_tail", Add(tail, staged))
<1>1. /\ ppc = "staged" /\ ppc' = "fence" /\ staged = 1 /\ staged' = 0
      /\ prod_tail = tail /\ tail \in Word /\ cached_cons_head \in Word
      /\ tail' = Add(tail, 1) /\ tail' \in Word /\ pbuf' = Append(pbuf, e)
      /\ pbuf \in Seq(PEntries) /\ pbuf' \in Seq(PEntries)
      /\ UNCHANGED <<ring, prod_tail, cached_cons_head, cons_head, head,
                     cached_prod_tail, taken>>
  BY DEF Commit, DataInv, ProducerStores, TypeInv, TypeOK, shared, consVars
<1>2. e.loc = "prod_tail" /\ e.val = tail'
  BY <1>1 DEF Store
<1> HIDE DEF e
<1>3. flipc2_ring_count(tail', cached_cons_head) = D(tail) + 1
  <2>1. D(tail) + 1 < WORD /\ 1 \in 0 .. RING_ENTRIES
    BY <1>1, DistanceType DEF DataInv, ProducerStores
  <2> QED
    BY <1>1, <2>1, CountAdvance DEF D
<1>4. D(tail)' = D(tail) + 1 /\ D(tail) \in Nat /\ D(tail) < RING_ENTRIES
  BY <1>1, <1>3, DistanceType DEF D, DataInv, ProducerStores
<1>5. Order'
  <2>1. /\ D(cons_head)' = D(cons_head) /\ D(head)' = D(head)
        /\ D(cached_prod_tail)' = D(cached_prod_tail)
        /\ D(prod_tail)' = D(prod_tail)
    BY <1>1 DEF D
  <2>2. D(prod_tail) \in Nat /\ RING_ENTRIES \in Nat
    BY <1>1, DistanceType DEF DataInv
  <2> QED
    BY <1>1, <1>4, <2>1, <2>2 DEF DataInv, Order
<1>6. HeadStores' /\ RingHolds' /\ InOrder' /\ cpc' # "corrupt"
  BY DEF Commit, DataInv, HeadStores, RingHolds, InOrder, D, shared, consVars
<1>7. /\ Len(pbuf') = Len(pbuf) + 1 /\ Len(pbuf) \in Nat
      /\ \A j \in 1 .. Len(pbuf) : pbuf'[j] = pbuf[j]
      /\ pbuf'[Len(pbuf) + 1] = e
  BY <1>1
<1>8. prod_tail # tail'
  BY <1>1, <1>3, <1>4 DEF D
<1>9. /\ \A j \in 1 .. Len(pbuf) : pbuf[j].loc # "prod_tail"
      /\ \A j \in 1 .. Len(pbuf) : pbuf[j].loc = "ring" =>
           pbuf[j].val = prod_tail /\ pbuf[j].at = flipc2_ring_idx(prod_tail)
      /\ (\A j \in 1 .. Len(pbuf) : pbuf[j].loc # "ring") =>
           ring[flipc2_ring_idx(prod_tail)] = prod_tail
  BY <1>1 DEF DataInv, ProducerStores, Unpublished
<1>10. ProducerStores'
  <2>1. Unpublished'
    BY <1>1, <1>8 DEF Unpublished
  <2>2. pbuf' # <<>> /\ pbuf'[Len(pbuf')].loc = "prod_tail"
    BY <1>1, <1>2, <1>7
  <2>3. \A j \in 1 .. Len(pbuf') : pbuf'[j].loc = "ring" =>
           pbuf'[j].val = prod_tail /\ pbuf'[j].at = flipc2_ring_idx(prod_tail)
    BY <1>2, <1>7, <1>9
  <2>4. \A j \in 1 .. Len(pbuf') : pbuf'[j].loc = "prod_tail" =>
           j = Len(pbuf') /\ pbuf'[j].val = tail'
    BY <1>2, <1>7, <1>9
  <2>5. (\A j \in 1 .. Len(pbuf') : pbuf'[j].loc # "ring") =>
           ring[flipc2_ring_idx(prod_tail)] = prod_tail
    BY <1>7, <1>9
  <2> QED
    BY <1>1, <1>8, <2>1, <2>2, <2>3, <2>4, <2>5 DEF ProducerStores
<1> QED
  BY <1>5, <1>6, <1>10 DEF DataInv

LEMMA DataCheckConsumer ==
  ASSUME DataInv, TypeInv', CheckConsumer
  PROVE  DataInv'
<1>1. /\ pbuf = <<>> /\ ppc = "fence" /\ ppc' \notin {"got", "staged", "fence"}
      /\ prod_tail = tail /\ staged = 0
      /\ UNCHANGED <<shared, pbuf, tail, cached_cons_head, staged, consVars>>
  BY DEF CheckConsumer, DataInv, ProducerStores, FULL_FENCE
<1>2. Order' /\ HeadStores' /\ RingHolds' /\ InOrder' /\ cpc' # "corrupt"
  BY <1>1 DEF DataInv, Order, HeadStores, RingHolds, InOrder, D, shared,
              consVars
<1>3. ProducerStores'
  BY <1>1 DEF ProducerStores, Unpublished, shared
<1> QED
  BY <1>2, <1>3 DEF DataInv

\* The store that leaves the producer's buffer: a descriptor goes into the slot
\* at prod_tail, which no unreleased descriptor occupies; a prod_tail goes last
\* and adds exactly the descriptor below it.
LEMMA DataDrainProducer ==
  ASSUME DataInv, TypeInv', DrainProducer
  PROVE  DataInv'
<1> DEFINE e == pbuf[1]
<1>1. /\ pbuf \in Seq(PEntries) /\ pbuf # <<>> /\ e \in PEntries
      /\ e = Head(pbuf) /\ pbuf' = Tail(pbuf)
      /\ Len(pbuf) \in Nat /\ Len(pbuf) >= 1 /\ Len(pbuf') = Len(pbuf) - 1
      /\ \A j \in 1 .. Len(pbuf') : pbuf'[j] = pbuf[j + 1]
  BY DEF DrainProducer, DataInv, TypeInv, TypeOK
<1>2. UNCHANGED <<cons_head, ppc, tail, cached_cons_head, staged, cbuf, cpc,
                  head, cached_prod_tail, taken, desc>>
  BY DEF DrainProducer, consVars
<1>3. /\ tail \in Word /\ prod_tail \in Word /\ head \in Word
      /\ cached_cons_head \in Word /\ ring \in [Slots -> Word \cup {NONE}]
      /\ cons_head \in Word /\ cached_prod_tail \in Word
  BY DEF DataInv, TypeInv, TypeOK
<1>4. HeadStores' /\ InOrder' /\ cpc' # "corrupt"
  BY <1>2 DEF DataInv, HeadStores, InOrder, D
<1>a. \A j \in 1 .. Len(pbuf') :
        j + 1 \in 1 .. Len(pbuf) /\ pbuf'[j] = pbuf[j + 1]
  BY <1>1
<1>b. \A j \in 1 .. Len(pbuf') : pbuf'[j].loc = "ring" =>
        /\ Unpublished
        /\ pbuf'[j].val = prod_tail
        /\ pbuf'[j].at = flipc2_ring_idx(prod_tail)
  BY <1>a DEF DataInv, ProducerStores
<1>c. \A j \in 1 .. Len(pbuf') : pbuf'[j].loc = "prod_tail" =>
        /\ ppc = "fence" /\ prod_tail # tail
        /\ j = Len(pbuf')
        /\ pbuf'[j].val = tail
  <2> SUFFICES ASSUME NEW j \in 1 .. Len(pbuf'), pbuf'[j].loc = "prod_tail"
               PROVE  /\ ppc = "fence" /\ prod_tail # tail
                      /\ j = Len(pbuf')
                      /\ pbuf'[j].val = tail
    OBVIOUS
  <2>1. /\ ppc = "fence" /\ prod_tail # tail
        /\ j + 1 = Len(pbuf)
        /\ pbuf'[j].val = tail
    BY <1>a DEF DataInv, ProducerStores
  <2>2. j \in Int /\ Len(pbuf') = Len(pbuf) - 1 /\ Len(pbuf) \in Int
    BY <1>1
  <2>3. j = Len(pbuf')
    BY <2>1, <2>2
  <2> QED
    BY <2>1, <2>3
<1>d. e.loc # "prod_tail" /\ ppc = "fence" /\ prod_tail # tail =>
        pbuf' # <<>> /\ pbuf'[Len(pbuf')].loc = "prod_tail"
  <2> SUFFICES ASSUME e.loc # "prod_tail", ppc = "fence", prod_tail # tail
               PROVE  pbuf' # <<>> /\ pbuf'[Len(pbuf')].loc = "prod_tail"
    OBVIOUS
  <2>1. pbuf[Len(pbuf)].loc = "prod_tail"
    BY DEF DataInv, ProducerStores
  <2>2. Len(pbuf) # 1
    BY <2>1
  <2>3. Len(pbuf') \in 1 .. Len(pbuf') /\ Len(pbuf') + 1 = Len(pbuf)
    BY <1>1, <2>2
  <2>4. pbuf'[Len(pbuf')].loc = "prod_tail"
    BY <1>a, <2>1, <2>3
  <2>5. Len(pbuf') # 0
    BY <2>3
  <2>6. pbuf' # <<>>
    BY <2>5
  <2> QED
    BY <2>4, <2>6
<1>5. CASE e.loc = "prod_sleeping"
  <2>1. UNCHANGED <<ring, prod_tail>>
    BY <1>1, <1>5 DEF DrainProducer
  <2>2. Order' /\ RingHolds'
    BY <1>2, <2>1 DEF DataInv, Order, RingHolds, D
  <2>4. (\A j \in 1 .. Len(pbuf') : pbuf'[j].loc # "ring") =>
          \A j \in 1 .. Len(pbuf) : pbuf[j].loc # "ring"
    <3> SUFFICES ASSUME \A j \in 1 .. Len(pbuf') : pbuf'[j].loc # "ring",
                        NEW j \in 1 .. Len(pbuf)
                 PROVE  pbuf[j].loc # "ring"
      OBVIOUS
    <3>1. CASE j = 1
      BY <3>1, <1>5
    <3>2. CASE j # 1
      <4>1. j - 1 \in 1 .. Len(pbuf') /\ pbuf'[j - 1] = pbuf[j]
        BY <1>1, <3>2
      <4> QED
        BY <4>1
    <3> QED
      BY <3>1, <3>2
  <2>5. ProducerStores'
    <3>1. Unpublished' = Unpublished /\ D(tail)' = D(tail)
      BY <1>2, <2>1 DEF Unpublished, D
    <3> QED
      BY <1>2, <1>5, <1>b, <1>c, <1>d, <2>1, <2>4, <3>1
      DEF DataInv, ProducerStores
  <2> QED
    BY <1>4, <2>2, <2>5 DEF DataInv
<1>6. CASE e.loc = "ring"
  <2>1. /\ e.val = prod_tail /\ e.at = flipc2_ring_idx(prod_tail)
        /\ Unpublished
    <3>1. \A j \in 1 .. Len(pbuf) : pbuf[j].loc = "ring" =>
            /\ Unpublished
            /\ pbuf[j].val = prod_tail
            /\ pbuf[j].at = flipc2_ring_idx(prod_tail)
      BY DEF DataInv, ProducerStores
    <3>2. 1 \in 1 .. Len(pbuf)
      BY <1>1
    <3> QED
      BY <1>6, <3>1, <3>2
  <2>2. /\ ring' = [ring EXCEPT ![flipc2_ring_idx(prod_tail)] = prod_tail]
        /\ prod_tail' = prod_tail
    BY <1>1, <1>6, <2>1 DEF DrainProducer
  <2>3. Order'
    BY <1>2, <2>2 DEF DataInv, Order, D
  <2>4. D(prod_tail) < RING_ENTRIES
    <3>1. CASE ppc = "staged"
      BY <3>1 DEF DataInv, ProducerStores
    <3>2. CASE ppc = "fence" /\ prod_tail # tail
      <4>1. D(prod_tail) # D(tail)
        BY <1>3, <3>2, CountInjective DEF D
      <4> QED
        BY <1>3, <4>1, DistanceType DEF DataInv, Order
    <3> QED
      BY <2>1, <3>1, <3>2 DEF Unpublished
  <2>5. RingHolds'
    <3> SUFFICES ASSUME NEW w \in Word,
                        flipc2_ring_count(w, head)
                          < flipc2_ring_count(prod_tail, head)
                 PROVE  ring'[flipc2_ring_idx(w)] = w
      BY <1>2, <2>2 DEF RingHolds
    <3>1. ring[flipc2_ring_idx(w)] = w
      BY DEF DataInv, RingHolds
    <3>2. flipc2_ring_count(prod_tail, w) =
            flipc2_ring_count(prod_tail, head) - flipc2_ring_count(w, head)
      BY <1>3, CountDifference, WordClosed, RingAssumption DEF Word
    <3>3. flipc2_ring_count(prod_tail, head) = D(prod_tail) - D(head)
      BY <1>3, CountDifference, DistanceType DEF D, DataInv, Order
    <3>4. /\ flipc2_ring_count(w, head) \in Nat
          /\ flipc2_ring_count(prod_tail, head) \in Nat
          /\ D(head) \in Nat /\ D(prod_tail) \in Nat /\ RING_ENTRIES \in Nat
      BY <1>3, WordClosed, DistanceType DEF Word, DataInv
    <3>5. flipc2_ring_count(prod_tail, w) \in 1 .. RING_ENTRIES - 1
      BY <2>4, <3>2, <3>3, <3>4
    <3>6. flipc2_ring_idx(prod_tail) # flipc2_ring_idx(w)
      BY <1>3, <3>5, IdxDiffer
    <3>7. flipc2_ring_idx(w) \in Slots
      BY IdxInSlots
    <3> QED
      BY <1>3, <2>2, <3>1, <3>6, <3>7
  <2>6. ring'[flipc2_ring_idx(prod_tail)] = prod_tail
    BY <1>3, <2>2, IdxInSlots
  <2>8. ProducerStores'
    <3>1. Unpublished' = Unpublished /\ D(tail)' = D(tail)
      BY <1>2, <2>2 DEF Unpublished, D
    <3> QED
      BY <1>2, <1>6, <1>b, <1>c, <1>d, <2>2, <2>6, <3>1
      DEF DataInv, ProducerStores
  <2> QED
    BY <1>4, <2>3, <2>5, <2>8 DEF DataInv
<1>7. CASE e.loc = "prod_tail"
  <2>1. /\ ppc = "fence" /\ prod_tail # tail /\ Len(pbuf) = 1 /\ e.val = tail
        /\ Add(prod_tail, 1) = tail /\ Unpublished
    <3>1. 1 \in 1 .. Len(pbuf)
      BY <1>1
    <3>2. ppc = "fence" /\ prod_tail # tail /\ 1 = Len(pbuf) /\ e.val = tail
      BY <1>7, <3>1 DEF DataInv, ProducerStores
    <3> QED
      BY <3>2 DEF DataInv, ProducerStores, Unpublished
  <2>2. ring' = ring /\ prod_tail' = tail
    BY <1>1, <1>7, <2>1 DEF DrainProducer
  <2>3. ring[flipc2_ring_idx(prod_tail)] = prod_tail
    BY <1>1, <1>7, <2>1 DEF DataInv, ProducerStores
  <2>4. Order'
    <3>1. D(prod_tail)' = D(tail) /\ D(tail)' = D(tail)
      BY <1>2, <2>2 DEF D
    <3>2. /\ D(cons_head)' = D(cons_head) /\ D(head)' = D(head)
          /\ D(cached_prod_tail)' = D(cached_prod_tail) /\ taken' = taken
      BY <1>2 DEF D
    <3>3. /\ D(tail) \in Nat /\ D(cached_prod_tail) \in Nat
          /\ D(prod_tail) \in Nat
      BY <1>3, DistanceType DEF DataInv
    <3> QED
      BY <3>1, <3>2, <3>3 DEF DataInv, Order
  <2>5. RingHolds'
    <3> SUFFICES ASSUME NEW w \in Word,
                        flipc2_ring_count(w, head)
                          < flipc2_ring_count(tail, head)
                 PROVE  ring[flipc2_ring_idx(w)] = w
      BY <1>2, <2>2 DEF RingHolds
    <3>1. flipc2_ring_count(prod_tail, head) = D(prod_tail) - D(head)
      BY <1>3, CountDifference, DistanceType DEF D, DataInv, Order
    <3>2. /\ flipc2_ring_count(prod_tail, head) \in Nat
          /\ flipc2_ring_count(w, head) \in Nat
          /\ D(prod_tail) \in Nat /\ D(head) \in Nat
          /\ RING_ENTRIES \in Nat \ {0} /\ WORD \in Nat
          /\ 4 * RING_ENTRIES <= WORD
          /\ D(prod_tail) <= RING_ENTRIES
      BY <1>3, WordClosed, DistanceType DEF Word, DataInv, Order
    <3>3. flipc2_ring_count(prod_tail, head) + 1 < WORD
      BY <3>1, <3>2
    <3>4. flipc2_ring_count(tail, head) = flipc2_ring_count(prod_tail, head) + 1
      BY <1>3, <2>1, <3>2, <3>3, CountAdvance
    <3>5. CASE flipc2_ring_count(w, head) < flipc2_ring_count(prod_tail, head)
      BY <3>5 DEF DataInv, RingHolds
    <3>6. CASE flipc2_ring_count(w, head) = flipc2_ring_count(prod_tail, head)
      <4>1. w = prod_tail
        BY <1>3, <3>6, CountInjective
      <4> QED
        BY <4>1, <2>3
    <3> QED
      BY <3>2, <3>4, <3>5, <3>6
  <2>6. ProducerStores'
    BY <1>1, <1>2, <2>1, <2>2 DEF DataInv, ProducerStores, Unpublished, D
  <2> QED
    BY <1>4, <2>4, <2>5, <2>6 DEF DataInv
<1> QED
  BY <1>1, <1>5, <1>6, <1>7 DEF PEntries
\* What a waiting consumer finds in prod_tail is its own head or a number of
\* descriptors that fits the ring.
LEMMA TailInRange ==
  ASSUME DataInv, prod_tail # head
  PROVE  HasData(prod_tail)
<1>1. /\ prod_tail \in Word /\ head \in Word /\ cached_cons_head \in Word
      /\ cached_prod_tail \in Word /\ tail \in Word
  BY DEF DataInv, TypeInv, TypeOK
<1>2. /\ D(prod_tail) \in Nat /\ D(head) \in Nat /\ D(cached_prod_tail) \in Nat
      /\ D(tail) \in Nat /\ RING_ENTRIES \in Nat
  BY <1>1, DistanceType DEF DataInv
<1>3. D(head) <= D(prod_tail) /\ D(prod_tail) <= RING_ENTRIES
  BY <1>2 DEF DataInv, Order
<1>4. flipc2_ring_count(prod_tail, head) = D(prod_tail) - D(head)
  BY <1>1, <1>3, CountDifference DEF D
<1>5. D(prod_tail) # D(head)
  BY <1>1, CountInjective DEF D
<1> QED
  BY <1>2, <1>3, <1>4, <1>5 DEF HasData, Avail

\* A consumer step other than reading and releasing: it may move its cached
\* prod_tail, announce or withdraw its sleep and wake the producer.
LEMMA QuietConsumer ==
  ASSUME DataInv, TypeInv',
         UNCHANGED <<shared, pbuf, tail, cached_cons_head, staged, head, taken,
                     desc>>,
         cached_prod_tail' \in {cached_prod_tail, prod_tail},
         ppc' = ppc \/ (ppc = "blocked" /\ ppc' = "woken"),
         \/ cbuf' = cbuf
         \/ \E b \in {0, 1} : cbuf' = Append(cbuf, Store("cons_sleeping", b)),
         cpc' # "corrupt"
  PROVE  DataInv'
<1>1. UNCHANGED <<ring, prod_tail, cons_head>>
  BY DEF shared
<1>2. /\ D(cons_head)' = D(cons_head) /\ D(head)' = D(head)
      /\ D(prod_tail)' = D(prod_tail) /\ D(tail)' = D(tail)
  BY <1>1 DEF D
<1>3. /\ prod_tail \in Word /\ cached_prod_tail \in Word /\ head \in Word
      /\ cons_head \in Word /\ tail \in Word /\ taken \in Int
  BY LimitAssumption DEF DataInv, TypeInv, TypeOK
<1>4. Order'
  <2>1. \/ D(cached_prod_tail)' = D(cached_prod_tail)
        \/ D(cached_prod_tail)' = D(prod_tail)
    BY <1>1 DEF D
  <2>2. /\ D(cached_prod_tail) \in Nat /\ D(prod_tail) \in Nat
        /\ D(head) \in Nat
    BY <1>3, DistanceType DEF DataInv
  <2>3. /\ D(head) <= D(cached_prod_tail)'
        /\ D(cached_prod_tail)' <= D(prod_tail)
        /\ taken <= D(cached_prod_tail)' - D(head)
    BY <1>3, <2>1, <2>2 DEF DataInv, Order
  <2> QED
    BY <1>2, <2>3 DEF DataInv, Order
<1>5. HeadStores'
  <2>1. CASE cbuf' = cbuf
    BY <1>1, <2>1 DEF DataInv, HeadStores, D
  <2>2. ASSUME NEW b \in {0, 1}, cbuf' = Append(cbuf, Store("cons_sleeping", b))
        PROVE  HeadStores'
    <3>1. Store("cons_sleeping", b).loc = "cons_sleeping"
      BY DEF Store
    <3>2. cbuf \in Seq(CEntries) /\ Store("cons_sleeping", b) \in CEntries
      BY StoreTypes DEF DataInv, TypeInv, TypeOK
    <3>3. /\ Len(cbuf) \in Nat /\ Len(cbuf') = Len(cbuf) + 1
          /\ \A i \in 1 .. Len(cbuf) : cbuf'[i] = cbuf[i]
          /\ cbuf'[Len(cbuf) + 1] = Store("cons_sleeping", b)
      BY <2>2, <3>2
    <3>4. \A i \in 1 .. Len(cbuf') : cbuf'[i].loc = "cons_head" =>
            i \in 1 .. Len(cbuf) /\ cbuf'[i] = cbuf[i]
      BY <3>1, <3>3
    <3> QED
      BY <1>1, <3>4 DEF DataInv, HeadStores, D
  <2> QED
    BY <2>1, <2>2
<1>6. ProducerStores'
  <2>1. Unpublished' = Unpublished
    BY <1>1 DEF Unpublished
  <2> QED
    BY <1>1, <1>2, <2>1 DEF DataInv, ProducerStores
<1>7. RingHolds' /\ InOrder'
  BY <1>1 DEF DataInv, RingHolds, InOrder
<1> QED
  BY <1>4, <1>5, <1>6, <1>7 DEF DataInv

LEMMA DataConsumeQuiet ==
  ASSUME DataInv, TypeInv',
         \/ Peek \/ ConsumeWait \/ ConsumeSpin \/ ConsumeArm \/ ConsumeRecheck
         \/ ConsumeFutexWait \/ ConsumeTimeout \/ ConsumeAwake \/ ConsumeVerify
         \/ CheckProducer \/ WakeProducer
  PROVE  DataInv'
<1> USE DEF prodVars
<1>0. /\ cpc # "corrupt"
      /\ prod_tail # head => HasData(prod_tail)
  BY TailInRange DEF DataInv
<1>1. CASE Peek
  BY <1>0, <1>1, QuietConsumer DEF Peek, RefreshedTail
<1>2. CASE ConsumeWait
  BY <1>0, <1>2, QuietConsumer DEF ConsumeWait
<1>3. CASE ConsumeSpin
  BY <1>0, <1>3, QuietConsumer DEF ConsumeSpin, Ready
<1>4. CASE ConsumeArm
  BY <1>0, <1>4, QuietConsumer DEF ConsumeArm
<1>5. CASE ConsumeRecheck
  BY <1>0, <1>5, QuietConsumer DEF ConsumeRecheck, Ready
<1>6. CASE ConsumeFutexWait
  BY <1>0, <1>6, QuietConsumer DEF ConsumeFutexWait
<1>7. CASE ConsumeTimeout
  BY <1>0, <1>7, QuietConsumer DEF ConsumeTimeout
<1>8. CASE ConsumeAwake
  BY <1>0, <1>8, QuietConsumer DEF ConsumeAwake
<1>9. CASE ConsumeVerify
  BY <1>0, <1>9, QuietConsumer DEF ConsumeVerify, Ready
<1>10. CASE CheckProducer
  BY <1>0, <1>10, QuietConsumer DEF CheckProducer
<1>11. CASE WakeProducer
  BY <1>0, <1>11, QuietConsumer DEF WakeProducer
<1> QED
  BY <1>1, <1>2, <1>3, <1>4, <1>5, <1>6, <1>7, <1>8, <1>9, <1>10, <1>11

\* The consumer reads slot head + taken, which lies before cached_prod_tail and
\* so before prod_tail: RingHolds says what is in it.
LEMMA DataReadDesc ==
  ASSUME DataInv, TypeInv', ReadDesc
  PROVE  DataInv'
<1> DEFINE w == Add(head, taken)
<1>1. /\ taken \in Nat /\ taken < RELEASE /\ taken' = taken + 1
      /\ taken < flipc2_ring_count(cached_prod_tail, head)
      /\ desc' = ring[flipc2_ring_idx(w)]
      /\ RELEASE \in 1 .. RING_ENTRIES
      /\ UNCHANGED <<shared, prodVars, cbuf, cpc, head, cached_prod_tail>>
  BY LimitAssumption DEF ReadDesc, Avail, DataInv, TypeInv, TypeOK
<1>2. /\ head \in Word /\ cached_prod_tail \in Word /\ prod_tail \in Word
      /\ cached_cons_head \in Word /\ tail \in Word /\ cons_head \in Word
  BY DEF DataInv, TypeInv, TypeOK
<1>3. /\ D(head) \in Nat /\ D(cached_prod_tail) \in Nat /\ D(prod_tail) \in Nat
      /\ D(tail) \in Nat /\ D(cons_head) \in Nat
      /\ RING_ENTRIES \in Nat \ {0} /\ WORD \in Nat /\ 4 * RING_ENTRIES <= WORD
  BY <1>2, DistanceType DEF DataInv
<1>4. /\ flipc2_ring_count(cached_prod_tail, head)
           = D(cached_prod_tail) - D(head)
      /\ flipc2_ring_count(prod_tail, head) = D(prod_tail) - D(head)
  BY <1>2, <1>3, CountDifference DEF D, DataInv, Order
<1>5. taken + 1 <= D(cached_prod_tail) - D(head)
  BY <1>1, <1>3, <1>4
<1>6. taken \in 0 .. RING_ENTRIES /\ taken < flipc2_ring_count(prod_tail, head)
  BY <1>1, <1>3, <1>4, <1>5 DEF DataInv, Order
<1>7. w \in Word /\ flipc2_ring_count(w, head) = taken
  <2>1. flipc2_ring_count(head, head) = 0
    BY <1>2, CountSelf
  <2>2. flipc2_ring_count(head, head) + taken < WORD
    BY <1>3, <1>6, <2>1
  <2>3. flipc2_ring_count(w, head) = flipc2_ring_count(head, head) + taken
    BY <1>2, <1>6, <2>2, CountAdvance
  <2>4. flipc2_ring_count(w, head) = taken
    BY <1>6, <2>1, <2>3
  <2> QED
    BY <1>2, <1>6, <2>4, WordClosed
<1>8. desc' = w
  BY <1>1, <1>6, <1>7 DEF DataInv, RingHolds
<1>9. InOrder'
  BY <1>1, <1>8 DEF InOrder
<1>10. Order'
  BY <1>1, <1>5 DEF DataInv, Order, D, shared, prodVars
<1>11. HeadStores' /\ ProducerStores' /\ RingHolds' /\ cpc' # "corrupt"
  BY <1>1 DEF DataInv, HeadStores, ProducerStores, Unpublished, RingHolds, D,
              shared, prodVars
<1> QED
  BY <1>9, <1>10, <1>11 DEF DataInv

\* A release moves head past the descriptors that were read, never past
\* cached_prod_tail, and leaves the rest of the window where it is.
LEMMA DataRelease ==
  ASSUME DataInv, TypeInv', Release
  PROVE  DataInv'
<1> DEFINE e == Store("cons_head", head')
           n == flipc2_ring_count(prod_tail, head)
<1>1. /\ taken \in 0 .. RING_ENTRIES /\ taken' = 0
      /\ head' = Add(head, taken)
      /\ cbuf' = Append(cbuf, e) /\ cpc' = "released"
      /\ UNCHANGED <<shared, prodVars, cached_prod_tail, desc>>
  <2>1. taken \in 0 .. RING_ENTRIES
    BY LimitAssumption, RingAssumption DEF DataInv, TypeInv, TypeOK
  <2> QED
    BY <2>1 DEF Release
<1>2. /\ head \in Word /\ cached_prod_tail \in Word /\ prod_tail \in Word
      /\ cached_cons_head \in Word /\ tail \in Word /\ cons_head \in Word
      /\ head' \in Word /\ cbuf \in Seq(CEntries) /\ e \in CEntries
  BY StoreTypes DEF DataInv, TypeInv, TypeOK
<1>3. /\ D(head) \in Nat /\ D(cached_prod_tail) \in Nat /\ D(prod_tail) \in Nat
      /\ D(tail) \in Nat /\ D(cons_head) \in Nat
      /\ RING_ENTRIES \in Nat \ {0} /\ WORD \in Nat /\ 4 * RING_ENTRIES <= WORD
  BY <1>2, DistanceType DEF DataInv
<1>4. /\ D(cons_head) <= D(head) /\ D(head) + taken <= D(cached_prod_tail)
      /\ D(cached_prod_tail) <= D(prod_tail) /\ D(prod_tail) <= D(tail)
      /\ D(tail) <= RING_ENTRIES
  BY <1>1, <1>3 DEF DataInv, Order
<1>5. UNCHANGED <<ring, prod_tail, cons_head, pbuf, ppc, tail,
                  cached_cons_head, staged>>
  BY <1>1 DEF shared, prodVars
<1>6. flipc2_ring_count(head', cached_cons_head) = D(head) + taken
  <2>1. D(head) + taken < WORD
    BY <1>1, <1>3, <1>4
  <2> QED
    BY <1>1, <1>2, <2>1, CountAdvance DEF D
<1>7. /\ D(head)' = D(head) + taken /\ D(cons_head)' = D(cons_head)
      /\ D(cached_prod_tail)' = D(cached_prod_tail)
      /\ D(prod_tail)' = D(prod_tail) /\ D(tail)' = D(tail)
  BY <1>1, <1>5, <1>6 DEF D
<1>8. Order'
  BY <1>1, <1>3, <1>4, <1>7 DEF Order
<1>9. HeadStores'
  <2>1. e.loc = "cons_head" /\ e.val = head'
    BY DEF Store
  <2> HIDE DEF e
  <2>2. /\ Len(cbuf) \in Nat /\ Len(cbuf') = Len(cbuf) + 1
        /\ \A i \in 1 .. Len(cbuf) : cbuf'[i] = cbuf[i]
        /\ cbuf'[Len(cbuf) + 1] = e
    BY <1>1, <1>2
  <2>3. \A i \in 1 .. Len(cbuf) : cbuf[i].loc = "cons_head" =>
          /\ flipc2_ring_count(cbuf[i].val, cached_cons_head) \in Nat
          /\ D(cons_head) <= flipc2_ring_count(cbuf[i].val, cached_cons_head)
          /\ flipc2_ring_count(cbuf[i].val, cached_cons_head) <= D(head)
          /\ flipc2_ring_count(cbuf[i].val, cached_cons_head) <= D(head) + taken
    <3> SUFFICES ASSUME NEW i \in 1 .. Len(cbuf), cbuf[i].loc = "cons_head"
                 PROVE  /\ D(cbuf[i].val) \in Nat
                        /\ D(cons_head) <= D(cbuf[i].val)
                        /\ D(cbuf[i].val) <= D(head)
                        /\ D(cbuf[i].val) <= D(head) + taken
      BY DEF D
    <3>1. cbuf[i] \in CEntries
      BY <1>2
    <3>2. cbuf[i].val \in Word
      BY <3>1, RingAssumption DEF CEntries, Word
    <3>3. D(cbuf[i].val) \in Nat
      BY <3>2, DistanceType DEF DataInv
    <3>4. D(cons_head) <= D(cbuf[i].val) /\ D(cbuf[i].val) <= D(head)
      BY DEF DataInv, HeadStores
    <3> QED
      BY <1>1, <1>3, <3>3, <3>4
  <2> SUFFICES ASSUME NEW i \in 1 .. Len(cbuf'), cbuf'[i].loc = "cons_head"
               PROVE  /\ D(cons_head)' <= D(cbuf[i].val)'
                      /\ D(cbuf[i].val)' <= D(head)'
                      /\ \A j \in 1 .. Len(cbuf') :
                           i < j /\ cbuf'[j].loc = "cons_head" =>
                             D(cbuf[i].val)' <= D(cbuf[j].val)'
    BY DEF HeadStores
  <2>4. CASE i = Len(cbuf) + 1
    <3>1. D(cbuf[i].val)' = D(head)'
      BY <2>1, <2>2, <2>4 DEF D
    <3>2. \A j \in 1 .. Len(cbuf') : ~(i < j)
      BY <2>2, <2>4
    <3> QED
      BY <1>1, <1>3, <1>4, <1>7, <3>1, <3>2
  <2>5. CASE i \in 1 .. Len(cbuf)
    <3>1. /\ cbuf'[i] = cbuf[i]
          /\ D(cbuf[i].val)'
               = flipc2_ring_count(cbuf[i].val, cached_cons_head)
      BY <1>5, <2>2, <2>5 DEF D
    <3>2. ASSUME NEW j \in 1 .. Len(cbuf'), i < j, cbuf'[j].loc = "cons_head"
          PROVE  D(cbuf[i].val)' <= D(cbuf[j].val)'
      <4>1. CASE j = Len(cbuf) + 1
        <5>1. D(cbuf[j].val)' = D(head) + taken
          BY <1>7, <2>1, <2>2, <4>1 DEF D
        <5> QED
          BY <2>3, <2>5, <3>1, <5>1
      <4>2. CASE j \in 1 .. Len(cbuf)
        <5>1. /\ cbuf'[j] = cbuf[j]
              /\ D(cbuf[j].val)'
                   = flipc2_ring_count(cbuf[j].val, cached_cons_head)
          BY <1>5, <2>2, <4>2 DEF D
        <5> QED
          BY <2>5, <3>1, <3>2, <4>2, <5>1 DEF DataInv, HeadStores, D
      <4> QED
        BY <2>2, <4>1, <4>2
    <3> QED
      BY <1>7, <2>3, <2>5, <3>1, <3>2
  <2> QED
    BY <2>2, <2>4, <2>5
<1>10. ProducerStores'
  BY <1>5, <1>7 DEF DataInv, ProducerStores, Unpublished
<1>11. RingHolds'
  <2> SUFFICES ASSUME NEW w \in Word,
                      flipc2_ring_count(w, head')
                        < flipc2_ring_count(prod_tail, head')
               PROVE  ring[flipc2_ring_idx(w)] = w
    BY <1>5 DEF RingHolds
  <2> DEFINE m == flipc2_ring_count(w, head)
  <2>0. taken \in Nat /\ D(head) <= D(prod_tail)
    BY <1>1, <1>3, <1>4
  <2>1. n = D(prod_tail) - D(head)
    BY <1>2, <2>0, CountDifference DEF D
  <2>2. n \in Nat /\ m \in Nat /\ m < WORD /\ n <= RING_ENTRIES /\ taken <= n
    <3>0. m \in Word
      BY <1>2, WordClosed
    <3>1. m \in Nat /\ m < WORD
      <4> HIDE DEF m
      <4> QED
        BY <1>3, <3>0 DEF Word
    <3> HIDE DEF n, m
    <3> QED
      BY <1>3, <1>4, <2>0, <2>1, <3>1
  <2>3. flipc2_ring_count(head', head) = taken
    <3>1. flipc2_ring_count(head, head) = 0
      BY <1>2, CountSelf
    <3>2. flipc2_ring_count(head, head) + taken < WORD
      BY <1>1, <1>3, <3>1
    <3>3. flipc2_ring_count(head', head) = flipc2_ring_count(head, head) + taken
      BY <1>1, <1>2, <3>2, CountAdvance
    <3> QED
      BY <1>1, <3>1, <3>3
  <2>4. flipc2_ring_count(prod_tail, head') = n - taken
    BY <1>1, <1>2, <2>2, <2>3, CountDifference
  <2>5. m >= taken
    <3> SUFFICES ASSUME m < taken PROVE FALSE
      BY <1>1, <2>2
    <3>1. flipc2_ring_count(w, head') = m - taken + WORD
      BY <1>2, <2>3, CountBehind
    <3> HIDE DEF n, m
    <3> QED
      BY <1>1, <1>3, <2>2, <2>4, <3>1
  <2>6. flipc2_ring_count(w, head') = m - taken
    BY <1>1, <1>2, <2>2, <2>3, <2>5, CountDifference
  <2>7. m < n
    <3> HIDE DEF n, m
    <3> QED
      BY <1>1, <2>2, <2>4, <2>6
  <2> QED
    BY <2>7 DEF DataInv, RingHolds
<1>12. InOrder' /\ cpc' # "corrupt"
  BY <1>1 DEF InOrder
<1> QED
  BY <1>8, <1>9, <1>10, <1>11, <1>12 DEF DataInv

\* The oldest store to cons_head gets into the memory: it is the nearest of the
\* buffered ones, so cons_head moves on and stays behind all the others.
LEMMA DataDrainConsumer ==
  ASSUME DataInv, TypeInv', DrainConsumer
  PROVE  DataInv'
<1> DEFINE e == cbuf[1]
<1>1. /\ cbuf \in Seq(CEntries) /\ cbuf # <<>> /\ e \in CEntries
      /\ e = Head(cbuf) /\ cbuf' = Tail(cbuf)
      /\ Len(cbuf) \in Nat /\ Len(cbuf) >= 1 /\ Len(cbuf') = Len(cbuf) - 1
      /\ \A j \in 1 .. Len(cbuf') :
           j + 1 \in 1 .. Len(cbuf) /\ cbuf'[j] = cbuf[j + 1]
  BY DEF DrainConsumer, DataInv, TypeInv, TypeOK
<1>2. UNCHANGED <<ring, prod_tail, pbuf, ppc, tail, cached_cons_head, staged,
                  cpc, head, cached_prod_tail, taken, desc>>
  BY DEF DrainConsumer, prodVars
<1>3. ProducerStores' /\ RingHolds' /\ InOrder' /\ cpc' # "corrupt"
  BY <1>2 DEF DataInv, ProducerStores, Unpublished, RingHolds, InOrder, D
<1>4. /\ flipc2_ring_count(cons_head', cached_cons_head) <= D(head)
      /\ \A j \in 1 .. Len(cbuf') : cbuf'[j].loc = "cons_head" =>
           flipc2_ring_count(cons_head', cached_cons_head)
             <= flipc2_ring_count(cbuf'[j].val, cached_cons_head)
  <2>1. CASE e.loc = "cons_head"
    <3>1. cons_head' = e.val
      BY <1>1, <2>1 DEF DrainConsumer
    <3>2. 1 \in 1 .. Len(cbuf)
      BY <1>1
    <3>3. \A j \in 1 .. Len(cbuf') : 1 < j + 1
      BY <1>1
    <3> QED
      BY <1>1, <2>1, <3>1, <3>2, <3>3 DEF DataInv, HeadStores, D
  <2>2. CASE e.loc # "cons_head"
    <3>1. cons_head' = cons_head
      BY <1>1, <2>2 DEF DrainConsumer
    <3> QED
      BY <1>1, <3>1 DEF DataInv, HeadStores, Order, D
  <2> QED
    BY <2>1, <2>2
<1>5. Order'
  BY <1>2, <1>4 DEF DataInv, Order, D
<1>6. HeadStores'
  <2> SUFFICES ASSUME NEW i \in 1 .. Len(cbuf'), cbuf'[i].loc = "cons_head"
               PROVE  /\ D(cons_head)' <= D(cbuf[i].val)'
                      /\ D(cbuf[i].val)' <= D(head)'
                      /\ \A j \in 1 .. Len(cbuf') :
                           i < j /\ cbuf'[j].loc = "cons_head" =>
                             D(cbuf[i].val)' <= D(cbuf[j].val)'
    BY DEF HeadStores
  <2>1. D(cons_head)' <= D(cbuf[i].val)'
    BY <1>2, <1>4 DEF D
  <2>2. D(cbuf[i].val)' <= D(head)'
    BY <1>1, <1>2 DEF DataInv, HeadStores, D
  <2>3. \A j \in 1 .. Len(cbuf') : i < j => i + 1 < j + 1
    BY <1>1
  <2>4. ASSUME NEW j \in 1 .. Len(cbuf'), i < j, cbuf'[j].loc = "cons_head"
        PROVE  D(cbuf[i].val)' <= D(cbuf[j].val)'
    <3>1. i + 1 < j + 1
      BY <2>3, <2>4
    <3> QED
      BY <1>1, <1>2, <2>4, <3>1 DEF DataInv, HeadStores, D
  <2> QED
    BY <2>1, <2>2, <2>4
<1> QED
  BY <1>3, <1>5, <1>6 DEF DataInv

LEMMA DataIdle ==
  ASSUME DataInv, TypeInv', UNCHANGED vars
  PROVE  DataInv'
<1>1. UNCHANGED <<ring, prod_tail, cons_head, pbuf, cbuf, ppc, tail,
                  cached_cons_head, staged, cpc, head, cached_prod_tail, taken,
                  desc>>
  BY DEF vars, shared, prodVars, consVars
<1>2. Order' /\ HeadStores'
  BY <1>1 DEF DataInv, Order, HeadStores, D
<1>3. ProducerStores'
  BY <1>1 DEF DataInv, ProducerStores, Unpublished, D
<1>4. RingHolds' /\ InOrder' /\ cpc' # "corrupt"
  BY <1>1 DEF DataInv, RingHolds, InOrder
<1> QED
  BY <1>2, <1>3, <1>4 DEF DataInv

LEMMA DataStep ==
  ASSUME BATCH = 1, AttachAt = {}
  PROVE  DataInv /\ [Next]_vars => DataInv'
<1> SUFFICES ASSUME DataInv, [Next]_vars PROVE DataInv'
  OBVIOUS
<1>1. TypeInv'
  BY TypeStep DEF DataInv
<1>2. CASE UNCHANGED vars
  BY <1>1, <1>2, DataIdle
<1>3. CASE ProduceCall
  BY <1>1, <1>3, DataQuiet DEF ProduceCall
<1>4. CASE ProduceStep
  BY <1>1, <1>4, DataQuiet, DataWriteDesc, DataCommit, DataCheckConsumer
  DEF ProduceStep
<1>5. CASE ConsumeCall
  BY <1>1, <1>5, DataConsumeQuiet DEF ConsumeCall
<1>6. CASE ConsumeStep
  BY <1>1, <1>6, DataConsumeQuiet, DataReadDesc, DataRelease DEF ConsumeStep
<1>7. CASE Attach
  BY <1>7 DEF Attach, AttachProducer, AttachConsumer
<1>8. CASE Drain
  BY <1>1, <1>8, DataDrainProducer, DataDrainConsumer DEF Drain
<1> QED
  BY <1>2, <1>3, <1>4, <1>5, <1>6, <1>7, <1>8 DEF Next

\* Neither side of a sound channel computes more free space than the ring has.
LEMMA NoOverrun ==
  ASSUME DataInv
  PROVE  ~Overrun(cached_cons_head)
<1>1. tail \in Word /\ cached_cons_head \in Word
  BY DEF DataInv, TypeInv, TypeOK
<1>2. D(tail) <= RING_ENTRIES /\ D(tail) \in Nat /\ RING_ENTRIES \in Nat
  BY <1>1, DistanceType DEF DataInv, Order
<1>3. flipc2_ring_free(tail, cached_cons_head) = RING_ENTRIES - D(tail)
  BY <1>1, <1>2, FreeValue DEF D
<1> QED
  BY <1>2, <1>3 DEF Overrun

\* The channel delivers, for every ring size, counter width, threshold and
\* release batch, when each commit publishes one descriptor (the protocol of
\* ext_server and libvfs) and both handles live as long as the channel: the
\* k-th descriptor read by flipc2_consume_* is the k-th one filled.
THEOREM Delivers ==
  ASSUME BATCH = 1, AttachAt = {}
  PROVE  Spec => []InOrder
<1>1. Init => DataInv
  BY DataInit
<1>2. DataInv /\ [Next]_vars => DataInv'
  BY DataStep
<1>3. DataInv => InOrder
  BY DEF DataInv
<1> QED
  BY <1>1, <1>2, <1>3, PTL DEF Spec

\* Under the same assumptions the sanity checks on the counters (avail > re in
\* flipc2_consume_*, space > re in flipc2_produce_*) never fire between two
\* honest sides.
THEOREM CountersStaySane ==
  ASSUME BATCH = 1, AttachAt = {}
  PROVE  Spec => []NoFalseCorruption
<1>1. Init => DataInv
  BY DataInit
<1>2. DataInv /\ [Next]_vars => DataInv'
  BY DataStep
<1>3. DataInv => NoFalseCorruption
  BY NoOverrun DEF DataInv, NoFalseCorruption
<1> QED
  BY <1>1, <1>2, <1>3, PTL DEF Spec

-----------------------------------------------------------------------------
(* The channel implements module Fifo.  The queue that a reader of the ring  *)
(* sees is a function of the two counters alone, so only a published tail    *)
(* and a released head are steps of the queue; everything else stutters.     *)

\* head, prod_tail and the number of descriptors between them.
LEMMA Span ==
  ASSUME DataInv
  PROVE  /\ head \in Word /\ prod_tail \in Word
         /\ flipc2_ring_count(prod_tail, head) = D(prod_tail) - D(head)
         /\ flipc2_ring_count(prod_tail, head) \in 0 .. RING_ENTRIES
         /\ taken <= flipc2_ring_count(prod_tail, head)
<1>1. /\ head \in Word /\ prod_tail \in Word /\ cached_prod_tail \in Word
      /\ tail \in Word /\ cached_cons_head \in Word /\ taken \in Int
  BY LimitAssumption DEF DataInv, TypeInv, TypeOK
<1>2. /\ D(head) \in Nat /\ D(prod_tail) \in Nat /\ D(cached_prod_tail) \in Nat
      /\ D(tail) \in Nat /\ RING_ENTRIES \in Nat
  BY <1>1, DistanceType DEF DataInv
<1>3. /\ D(head) <= D(cached_prod_tail) /\ D(cached_prod_tail) <= D(prod_tail)
      /\ D(prod_tail) <= D(tail) /\ D(tail) <= RING_ENTRIES
      /\ taken <= D(cached_prod_tail) - D(head)
  BY DEF DataInv, Order
<1>4. D(head) <= D(prod_tail)
  BY <1>2, <1>3
<1>5. flipc2_ring_count(prod_tail, head) = D(prod_tail) - D(head)
  BY <1>1, <1>4, CountDifference DEF D
<1> QED
  BY <1>1, <1>2, <1>3, <1>5

\* The memory between the two counters holds exactly the numbers between them.
LEMMA WindowNumbers == DataInv => Window = Numbers(prod_tail, head)
<1> SUFFICES ASSUME DataInv PROVE Window = Numbers(prod_tail, head)
  OBVIOUS
<1>1. ASSUME NEW i \in 1 .. flipc2_ring_count(prod_tail, head)
      PROVE  ring[flipc2_ring_idx(Add(head, i - 1))] = Add(head, i - 1)
  <2>1. /\ i - 1 \in 0 .. RING_ENTRIES
        /\ i - 1 < flipc2_ring_count(prod_tail, head)
    BY Span, RingAssumption
  <2>2. /\ Add(head, i - 1) \in Word
        /\ flipc2_ring_count(Add(head, i - 1), head) = i - 1
    BY <2>1, Span, CountOffset
  <2> QED
    BY <2>1, <2>2 DEF DataInv, RingHolds
<1> QED
  BY <1>1 DEF Window, Numbers

\* What a step does to the two counters of the queue: one more descriptor is
\* published, some of the published ones are released, or neither moves.
LEMMA CounterStep ==
  ASSUME DataInv, BATCH = 1, AttachAt = {}, [Next]_vars
  PROVE  \/ /\ head' = head
            /\ prod_tail' = Add(prod_tail, 1)
            /\ flipc2_ring_count(prod_tail, head) < RING_ENTRIES
         \/ /\ prod_tail' = prod_tail
            /\ taken \in 1 .. flipc2_ring_count(prod_tail, head)
            /\ head' = Add(head, taken)
         \/ UNCHANGED <<head, prod_tail>>
<1> USE DEF shared, prodVars, consVars
<1>1. CASE UNCHANGED vars
  BY <1>1 DEF vars
<1>2. CASE ProduceCall
  BY <1>2 DEF ProduceCall, Reserve, ProduceWait, Flush
<1>3. CASE ProduceStep
  BY <1>3 DEF ProduceStep, ProduceSpin, ProduceArm, ProduceRecheck,
    ProduceFutexWait, ProduceAwake, ProduceVerify, ProduceNull, WriteDesc,
    Commit, CheckConsumer, CheckThreshold, WakeConsumer
<1>4. CASE ConsumeCall
  BY <1>4 DEF ConsumeCall, Peek, ConsumeWait
<1>5. CASE Release
  <2>1. taken \in Nat
    BY LimitAssumption, RingAssumption DEF DataInv, TypeInv, TypeOK
  <2>2. taken \in 1 .. flipc2_ring_count(prod_tail, head)
    BY <1>5, <2>1, Span DEF Release
  <2> QED
    BY <1>5, <2>2 DEF Release
<1>6. CASE ConsumeStep /\ ~Release
  BY <1>6 DEF ConsumeStep, ConsumeSpin, ConsumeArm, ConsumeRecheck,
    ConsumeFutexWait, ConsumeTimeout, ConsumeAwake, ConsumeVerify, ReadDesc,
    CheckProducer, WakeProducer
<1>7. CASE Attach
  BY <1>7 DEF Attach, AttachProducer, AttachConsumer
<1>8. CASE DrainConsumer
  BY <1>8 DEF DrainConsumer
<1>9. CASE DrainProducer
  <2>1. CASE Head(pbuf).loc # "prod_tail"
    BY <1>9, <2>1 DEF DrainProducer
  <2>2. CASE Head(pbuf).loc = "prod_tail"
    <3>1. /\ pbuf \in Seq(PEntries) /\ pbuf # <<>>
          /\ prod_tail' = Head(pbuf).val /\ head' = head
      BY <1>9, <2>2 DEF DrainProducer, DataInv, TypeInv, TypeOK
    <3>2. Head(pbuf) = pbuf[1] /\ 1 \in 1 .. Len(pbuf)
      BY <3>1
    <3>3. ppc = "fence" /\ prod_tail # tail /\ prod_tail' = tail
      BY <2>2, <3>1, <3>2 DEF DataInv, ProducerStores
    <3>4. tail = Add(prod_tail, 1)
      BY <3>3 DEF DataInv, ProducerStores
    <3>5. flipc2_ring_count(prod_tail, head) < RING_ENTRIES
      <4>1. /\ prod_tail \in Word /\ cached_cons_head \in Word /\ tail \in Word
            /\ head \in Word
        BY DEF DataInv, TypeInv, TypeOK
      <4>2. /\ D(head) \in Nat /\ D(prod_tail) \in Nat /\ RING_ENTRIES \in Nat \ {0}
            /\ WORD \in Nat /\ 4 * RING_ENTRIES <= WORD
        BY <4>1, DistanceType DEF DataInv
      <4>3. D(prod_tail) <= D(tail) /\ D(tail) <= RING_ENTRIES
        BY DEF DataInv, Order
      <4>4. D(prod_tail) <= RING_ENTRIES /\ D(prod_tail) + 1 < WORD
        <5>1. D(tail) \in Nat
          BY <4>1, DistanceType DEF DataInv
        <5> QED
          BY <4>2, <4>3, <5>1
      <4>5. 1 \in 0 .. RING_ENTRIES
        BY <4>2
      <4>6. D(tail) = D(prod_tail) + 1
        BY <3>4, <4>1, <4>4, <4>5, CountAdvance DEF D
      <4> QED
        BY <4>2, <4>3, <4>6, Span
    <3> QED
      BY <3>1, <3>3, <3>4, <3>5
  <2> QED
    BY <2>1, <2>2
<1> QED
  BY <1>1, <1>2, <1>3, <1>4, <1>5, <1>6, <1>7, <1>8, <1>9 DEF Next, Drain

LEMMA WindowNumbersNext ==
  DataInv' => Window' = Numbers(prod_tail', head')
<1>1. (DataInv => Window = Numbers(prod_tail, head))'
  BY WindowNumbers, PTL
<1> QED
  BY <1>1 DEF Numbers

\* Every step of the channel is a step of the queue or leaves it alone.
LEMMA FifoStep ==
  ASSUME BATCH = 1, AttachAt = {}, DataInv, DataInv', [Next]_vars
  PROVE  [Channel!Send \/ Channel!Receive]_<<Window, prod_tail>>
<1> DEFINE n == flipc2_ring_count(prod_tail, head)
<1>1. Window = Numbers(prod_tail, head)
  BY WindowNumbers
<1>2. Window' = Numbers(prod_tail', head')
  BY WindowNumbersNext
<1>3. head \in Word /\ prod_tail \in Word /\ n \in 0 .. RING_ENTRIES
  BY Span
<1>4. Len(Window) = n
  BY <1>1, <1>3 DEF Numbers
<1>5. CASE /\ head' = head
           /\ prod_tail' = Add(prod_tail, 1)
           /\ n < RING_ENTRIES
  <2>1. Window' = Append(Window, prod_tail)
    BY <1>1, <1>2, <1>3, <1>5, NumbersAppend
  <2>2. Channel!Send
    BY <1>4, <1>5, <2>1 DEF Channel!Send, Add
  <2> QED
    BY <2>2
<1>6. CASE /\ prod_tail' = prod_tail
           /\ taken \in 1 .. n
           /\ head' = Add(head, taken)
  <2>1. Window' = SubSeq(Window, taken + 1, n)
    BY <1>1, <1>2, <1>3, <1>6, NumbersSubSeq
  <2>2. Channel!Receive
    BY <1>4, <1>6, <2>1 DEF Channel!Receive
  <2> QED
    BY <2>2
<1>7. CASE UNCHANGED <<head, prod_tail>>
  BY <1>1, <1>2, <1>7
<1> QED
  BY <1>5, <1>6, <1>7, CounterStep

\* The channel of flipc2.h is a first-in first-out queue of ring_entries
\* places, for every ring size, counter width, threshold and release batch,
\* under the assumptions of Delivers: in the memory between the consumer's head
\* and the published tail, a commit appends the next descriptor and a release
\* takes the oldest ones, and no other step, drain or refresh disturbs it.
THEOREM RefinesFifo ==
  ASSUME BATCH = 1, AttachAt = {}
  PROVE  Spec => ImplementsFifo
<1>1. Init => Channel!FifoInit
  <2> SUFFICES ASSUME Init PROVE Channel!FifoInit
    OBVIOUS
  <2>1. prod_tail = 0 /\ head = 0 /\ 0 \in Word
    BY RingAssumption DEF Init, Word
  <2>2. flipc2_ring_count(prod_tail, head) = 0
    BY <2>1, CountSelf
  <2>3. Window = <<>>
    BY <2>2 DEF Window
  <2> QED
    BY <2>1, <2>3 DEF Channel!FifoInit
<1>2. Init => DataInv
  BY DataInit
<1>3. DataInv /\ [Next]_vars => DataInv'
  BY DataStep
<1>4. DataInv /\ DataInv' /\ [Next]_vars
        => [Channel!Send \/ Channel!Receive]_<<Window, prod_tail>>
  BY FifoStep
<1> QED
  BY <1>1, <1>2, <1>3, <1>4, PTL DEF Spec, ImplementsFifo, Channel!FifoSpec

-----------------------------------------------------------------------------
(***************************************************************************)
(* The adaptive wakeup protocol of flipc2.h, for every ring size, counter  *)
(* width, batch and mix of calls: a consumer never sleeps through a commit *)
(* (its fences are mfence in every build), and a producer never sleeps     *)
(* through a release in a build whose write fence is a full fence.  The    *)
(* last section counts the late wakeups: they never reach the limit at     *)
(* which a side calls its peer dead.                                       *)
(*                                                                         *)
(* The first two follow the two-sided argument of the protocol: a sleeper  *)
(* announces its sleep, drains its store buffer and looks at the counter;  *)
(* the other side moves the counter, drains and looks at the announcement. *)
(***************************************************************************)

(* The consumer's sleep. *)

\* Between the announcement and the recheck the announcement is the newest
\* store of the consumer.
ConsArmed ==
  cpc = "armed" =>
    \/ cbuf = <<>> /\ cons_sleeping = 1
    \/ cbuf # <<>> /\ cbuf[Len(cbuf)] = Store("cons_sleeping", 1)

\* From the recheck on it is in the memory.
ConsAnnounced ==
  cpc \in {"futex", "blocked"} => cbuf = <<>> /\ cons_sleeping = 1

\* A buffered prod_tail belongs to a commit that has yet to pass its fence.
TailStores ==
  \A i \in 1 .. Len(pbuf) : pbuf[i].loc = "prod_tail" => ppc = "fence"

ConsWakeInv ==
  /\ TypeInv
  /\ ConsArmed
  /\ ConsAnnounced
  /\ TailStores
  /\ NoLostConsumerWakeup

\* What an Append leaves, for the two kinds of buffer.
LEMMA Appended ==
  ASSUME NEW S, NEW s \in Seq(S), NEW e \in S, NEW t, t = Append(s, e)
  PROVE  /\ t # <<>> /\ t[Len(t)] = e
         /\ Len(t) = Len(s) + 1 /\ Len(s) \in Nat
         /\ \A i \in 1 .. Len(s) : t[i] = s[i]
         /\ t[Len(s) + 1] = e
  OBVIOUS

\* A step of the producer that moves no counter and leaves the memory alone:
\* it may only take itself towards FUTEX_WAKE.
LEMMA ConsWakeProducerStep ==
  ASSUME ConsWakeInv, TypeInv',
         UNCHANGED <<prod_tail, head, cbuf, cons_sleeping>>,
         cpc' = cpc \/ cpc' = "woken",
         TailStores',
         ppc \in {"fence", "wake"} /\ cpc' = "blocked" => ppc' \in {"fence", "wake"}
  PROVE  ConsWakeInv'
  BY DEF ConsWakeInv, ConsArmed, ConsAnnounced, NoLostConsumerWakeup

LEMMA ConsWakeProduce ==
  ASSUME ConsWakeInv, TypeInv', ProduceCall \/ ProduceStep, THRESH <= 1
  PROVE  ConsWakeInv'
<1> USE DEF consVars, shared
<1>0. /\ pbuf \in Seq(PEntries) /\ Len(pbuf) \in Nat
      /\ tail' \in Word /\ cons_sleeping \in {0, 1}
      /\ Store("prod_sleeping", 0) \in PEntries
      /\ Store("prod_sleeping", 1) \in PEntries
  BY StoreTypes DEF ConsWakeInv, TypeInv, TypeOK
<1>1. ASSUME ppc # "fence", pbuf' = pbuf PROVE TailStores'
  BY <1>1 DEF ConsWakeInv, TailStores
<1>2. ASSUME ppc # "fence", NEW b \in {0, 1},
             pbuf' = Append(pbuf, Store("prod_sleeping", b))
      PROVE  TailStores'
  <2>1. Store("prod_sleeping", b).loc # "prod_tail"
    BY DEF Store
  <2> DEFINE e == Store("prod_sleeping", b)
  <2>2. e \in PEntries
    BY <1>0
  <2> HIDE DEF e
  <2>3. /\ Len(pbuf') = Len(pbuf) + 1
        /\ \A i \in 1 .. Len(pbuf) : pbuf'[i] = pbuf[i]
        /\ pbuf'[Len(pbuf) + 1] = e
    BY <1>0, <1>2, <2>2, Appended DEF e
  <2> QED
    BY <1>0, <1>2, <2>1, <2>3 DEF ConsWakeInv, TailStores, e
<1>3. CASE Reserve
  BY <1>1, <1>3, ConsWakeProducerStep DEF Reserve
<1>4. CASE ProduceWait
  BY <1>1, <1>4, ConsWakeProducerStep DEF ProduceWait
<1>5. CASE Flush
  BY <1>1, <1>5, ConsWakeProducerStep DEF Flush
<1>6. CASE ProduceSpin
  BY <1>1, <1>6, ConsWakeProducerStep DEF ProduceSpin
<1>7. CASE ProduceArm
  BY <1>2, <1>7, ConsWakeProducerStep DEF ProduceArm
<1>8. CASE ProduceRecheck
  BY <1>1, <1>2, <1>8, ConsWakeProducerStep DEF ProduceRecheck
<1>9. CASE ProduceFutexWait
  BY <1>1, <1>9, ConsWakeProducerStep DEF ProduceFutexWait
<1>10. CASE ProduceAwake
  BY <1>2, <1>10, ConsWakeProducerStep DEF ProduceAwake
<1>11. CASE ProduceVerify
  BY <1>1, <1>11, ConsWakeProducerStep DEF ProduceVerify
<1>12. CASE ProduceNull
  BY <1>1, <1>12, ConsWakeProducerStep DEF ProduceNull
<1>13. CASE WriteDesc
  <2> DEFINE e == RingStore(flipc2_ring_idx(tail), Add(tail, staged))
  <2>1. pbuf' = Append(pbuf, e) /\ ppc = "got"
    BY <1>13 DEF WriteDesc
  <2>2. e.loc = "ring"
    BY DEF RingStore
  <2> HIDE DEF e
  <2>3. /\ Len(pbuf') = Len(pbuf) + 1
        /\ \A i \in 1 .. Len(pbuf) : pbuf'[i] = pbuf[i]
        /\ pbuf'[Len(pbuf) + 1] = e
    BY <1>0, <2>1
  <2>4. TailStores'
    BY <1>0, <2>1, <2>2, <2>3 DEF ConsWakeInv, TailStores
  <2> QED
    BY <1>13, <2>4, ConsWakeProducerStep DEF WriteDesc
<1>14. CASE Commit
  <2>1. TailStores'
    BY <1>14 DEF Commit, TailStores
  <2> QED
    BY <1>14, <2>1, ConsWakeProducerStep DEF Commit
<1>15. CASE CheckConsumer
  <2>1. TailStores'
    BY <1>15 DEF CheckConsumer, FULL_FENCE, TailStores
  <2>2. cpc = "blocked" => ppc' = "wake"
    BY <1>0, <1>15 DEF CheckConsumer, ConsWakeInv, ConsAnnounced
  <2> QED
    BY <1>15, <2>1, <2>2, ConsWakeProducerStep DEF CheckConsumer
<1>16. CASE CheckThreshold
  BY <1>1, <1>16, ConsWakeProducerStep DEF CheckThreshold
<1>17. CASE WakeConsumer
  BY <1>1, <1>17, ConsWakeProducerStep DEF WakeConsumer
<1> QED
  BY <1>3, <1>4, <1>5, <1>6, <1>7, <1>8, <1>9, <1>10, <1>11, <1>12, <1>13,
     <1>14, <1>15, <1>16, <1>17 DEF ProduceCall, ProduceStep

\* A step of the consumer that is not between announcement and wakeup.
LEMMA ConsWakeAwake ==
  ASSUME ConsWakeInv, TypeInv',
         UNCHANGED <<prod_tail, pbuf>>,
         ppc' = ppc \/ ppc # "fence",
         cpc' \notin {"armed", "futex", "blocked"}
  PROVE  ConsWakeInv'
  BY DEF ConsWakeInv, ConsArmed, ConsAnnounced, TailStores,
         NoLostConsumerWakeup

\* The step that announces the sleep.
LEMMA ConsWakeArm ==
  ASSUME ConsWakeInv, TypeInv',
         UNCHANGED <<prod_tail, pbuf, ppc>>, cpc' = "armed",
         cbuf' = Append(cbuf, Store("cons_sleeping", 1))
  PROVE  ConsWakeInv'
<1>1. cbuf \in Seq(CEntries) /\ Store("cons_sleeping", 1) \in CEntries
  BY StoreTypes DEF ConsWakeInv, TypeInv, TypeOK
<1>2. cbuf' # <<>> /\ cbuf'[Len(cbuf')] = Store("cons_sleeping", 1)
  BY <1>1, Appended
<1> QED
  BY <1>2 DEF ConsWakeInv, ConsArmed, ConsAnnounced, TailStores,
              NoLostConsumerWakeup

LEMMA ConsWakeConsume ==
  ASSUME ConsWakeInv, TypeInv', ConsumeCall \/ ConsumeStep
  PROVE  ConsWakeInv'
<1> USE DEF prodVars, shared
<1>3. CASE Peek
  BY ConsWakeAwake, <1>3 DEF Peek
<1>4. CASE ConsumeWait
  BY ConsWakeAwake, <1>4 DEF ConsumeWait
<1>5. CASE ConsumeSpin
  BY ConsWakeAwake, <1>5 DEF ConsumeSpin, Ready
<1>6. CASE ConsumeArm
  BY ConsWakeAwake, ConsWakeArm, <1>6 DEF ConsumeArm
<1>7. CASE ConsumeRecheck
  <2>1. CASE prod_tail # head
    BY ConsWakeAwake, <1>7, <2>1 DEF ConsumeRecheck, Ready
  <2>2. CASE prod_tail = head
    <3>1. /\ cbuf = <<>> /\ cons_sleeping = 1 /\ cpc' = "futex"
          /\ UNCHANGED <<shared, pbuf, ppc, cbuf>>
      BY <1>7, <2>2 DEF ConsumeRecheck, FULL_FENCE, ConsWakeInv, ConsArmed
    <3> QED
      BY <3>1 DEF ConsWakeInv, ConsArmed, ConsAnnounced, TailStores,
                  NoLostConsumerWakeup
  <2> QED
    BY <2>1, <2>2
<1>8. CASE ConsumeFutexWait
  BY <1>8 DEF ConsumeFutexWait, ConsWakeInv, ConsArmed, ConsAnnounced,
              TailStores, NoLostConsumerWakeup
<1>9. CASE ConsumeTimeout
  BY ConsWakeAwake, <1>9 DEF ConsumeTimeout
<1>10. CASE ConsumeAwake
  BY ConsWakeAwake, <1>10 DEF ConsumeAwake
<1>11. CASE ConsumeVerify
  BY ConsWakeAwake, ConsWakeArm, <1>11 DEF ConsumeVerify, Ready
<1>12. CASE ReadDesc
  BY ConsWakeAwake, <1>12 DEF ReadDesc
<1>13. CASE Release
  BY ConsWakeAwake, <1>13 DEF Release
<1>14. CASE CheckProducer
  BY ConsWakeAwake, <1>14 DEF CheckProducer
<1>15. CASE WakeProducer
  BY ConsWakeAwake, <1>15 DEF WakeProducer
<1> QED
  BY <1>3, <1>4, <1>5, <1>6, <1>7, <1>8, <1>9, <1>10, <1>11, <1>12, <1>13,
     <1>14, <1>15 DEF ConsumeCall, ConsumeStep

LEMMA ConsWakeDrain ==
  ASSUME ConsWakeInv, TypeInv', Drain
  PROVE  ConsWakeInv'
<1>0. pbuf \in Seq(PEntries) /\ cbuf \in Seq(CEntries)
  BY DEF ConsWakeInv, TypeInv, TypeOK
<1>1. CASE DrainProducer
  <2>1. /\ pbuf # <<>> /\ Head(pbuf) = pbuf[1] /\ Len(pbuf) \in Nat
        /\ 1 \in 1 .. Len(pbuf) /\ pbuf' = Tail(pbuf)
        /\ \A i \in 1 .. Len(pbuf') :
             i + 1 \in 1 .. Len(pbuf) /\ pbuf'[i] = pbuf[i + 1]
    BY <1>0, <1>1 DEF DrainProducer
  <2>2. UNCHANGED <<ppc, cpc, cbuf, cons_sleeping, head>>
    BY <1>1 DEF DrainProducer, consVars
  <2>3. TailStores'
    BY <2>1, <2>2 DEF ConsWakeInv, TailStores
  <2>4. prod_tail' = prod_tail \/ ppc = "fence"
    BY <1>1, <2>1 DEF DrainProducer, ConsWakeInv, TailStores
  <2> QED
    BY <2>2, <2>3, <2>4 DEF ConsWakeInv, ConsArmed, ConsAnnounced,
                            NoLostConsumerWakeup
<1>2. CASE DrainConsumer
  <2>1. UNCHANGED <<ppc, pbuf, prod_tail, cpc, head>>
    BY <1>2 DEF DrainConsumer, prodVars
  <2>2. /\ cbuf # <<>> /\ Head(cbuf) = cbuf[1] /\ Len(cbuf) \in Nat
        /\ cbuf' = Tail(cbuf) /\ Len(cbuf') = Len(cbuf) - 1
        /\ \A i \in 1 .. Len(cbuf') : cbuf'[i] = cbuf[i + 1]
    BY <1>0, <1>2 DEF DrainConsumer
  <2>3. cpc \notin {"futex", "blocked"}
    BY <2>2 DEF ConsWakeInv, ConsAnnounced
  <2>4. ConsArmed'
    <3> SUFFICES ASSUME cpc = "armed"
                 PROVE  \/ cbuf' = <<>> /\ cons_sleeping' = 1
                        \/ /\ cbuf' # <<>>
                           /\ cbuf'[Len(cbuf')] = Store("cons_sleeping", 1)
      BY <2>1 DEF ConsArmed
    <3>1. cbuf[Len(cbuf)] = Store("cons_sleeping", 1)
      BY <2>2 DEF ConsWakeInv, ConsArmed
    <3>2. CASE Len(cbuf) = 1
      <4>1. Head(cbuf) = Store("cons_sleeping", 1)
        BY <2>2, <3>1, <3>2
      <4>2. cons_sleeping' = 1
        BY <1>2, <4>1 DEF DrainConsumer, Store
      <4>3. cbuf' = <<>>
        BY <1>0, <2>2, <3>2
      <4> QED
        BY <4>2, <4>3
    <3>3. CASE Len(cbuf) # 1
      <4>1. Len(cbuf) # 0
        BY <1>0, <2>2
      <4>2. Len(cbuf') \in 1 .. Len(cbuf') /\ Len(cbuf') + 1 = Len(cbuf)
        BY <2>2, <3>3, <4>1
      <4>3. cbuf'[Len(cbuf')] = Store("cons_sleeping", 1)
        BY <2>2, <3>1, <4>2
      <4>4. Len(cbuf') # 0
        BY <4>2
      <4>5. cbuf' # <<>>
        BY <4>4
      <4> QED
        BY <4>3, <4>5
    <3> QED
      BY <3>2, <3>3
  <2> QED
    BY <2>1, <2>3, <2>4 DEF ConsWakeInv, ConsAnnounced, TailStores,
                            NoLostConsumerWakeup
<1> QED
  BY <1>1, <1>2 DEF Drain

\* A consumer asleep in flipc2_consume_wait or flipc2_consume_wait_timed with a
\* descriptor published always has a producer still on its way to FUTEX_WAKE,
\* whatever the sizes, the batches, the mix of calls and the build, as long as
\* doorbell coalescing is off (wakeup_thresh <= 1).
THEOREM ConsumerWakeupKept ==
  ASSUME THRESH <= 1
  PROVE  Spec => []NoLostConsumerWakeup
<1>1. Init => ConsWakeInv
  BY TypeInit DEF Init, ConsWakeInv, ConsArmed, ConsAnnounced, TailStores,
                  NoLostConsumerWakeup
<1>2. ConsWakeInv /\ [Next]_vars => ConsWakeInv'
  <2> SUFFICES ASSUME ConsWakeInv, [Next]_vars PROVE ConsWakeInv'
    OBVIOUS
  <2>1. TypeInv'
    BY TypeStep DEF ConsWakeInv
  <2>2. CASE UNCHANGED vars
    BY <2>1, <2>2 DEF ConsWakeInv, ConsArmed, ConsAnnounced, TailStores,
                 NoLostConsumerWakeup, vars, shared, prodVars, consVars
  <2>3. CASE Attach
    BY <2>1, <2>3 DEF Attach, AttachProducer, AttachConsumer, ConsWakeInv,
                 ConsArmed, ConsAnnounced, TailStores, NoLostConsumerWakeup,
                 shared, prodVars, consVars
  <2> QED
    BY <2>1, <2>2, <2>3, ConsWakeProduce, ConsWakeConsume, ConsWakeDrain
    DEF Next
<1>3. ConsWakeInv => NoLostConsumerWakeup
  BY DEF ConsWakeInv
<1> QED
  BY <1>1, <1>2, <1>3, PTL DEF Spec

-----------------------------------------------------------------------------
(* The producer's sleep, where FLIPC2_WRITE_FENCE is a full fence. *)

\* The announcement is the producer's newest store until the recheck.
ProdArmed ==
  ppc = "armed" =>
    \/ pbuf = <<>> /\ prod_sleeping = 1
    \/ pbuf # <<>> /\ pbuf[Len(pbuf)] = Store("prod_sleeping", 1)

ProdAnnounced ==
  ppc \in {"futex", "blocked"} => pbuf = <<>> /\ prod_sleeping = 1

\* A buffered cons_head belongs to a release that has yet to pass its fence.
HeadStoresReleased ==
  \A i \in 1 .. Len(cbuf) : cbuf[i].loc = "cons_head" => cpc = "released"

ProdWakeInv ==
  /\ TypeInv
  /\ ProdArmed
  /\ ProdAnnounced
  /\ HeadStoresReleased
  /\ NoLostProducerWakeup

\* A step of the consumer that moves no counter in memory.
LEMMA ProdWakeConsumerStep ==
  ASSUME ProdWakeInv, TypeInv',
         UNCHANGED <<cons_head, cached_cons_head, pbuf, prod_sleeping>>,
         ppc' = ppc \/ ppc' = "woken",
         HeadStoresReleased',
         cpc \in {"released", "wake"} /\ ppc' = "blocked"
           => cpc' \in {"released", "wake"}
  PROVE  ProdWakeInv'
  BY DEF ProdWakeInv, ProdArmed, ProdAnnounced, NoLostProducerWakeup

LEMMA ProdWakeConsume ==
  ASSUME ProdWakeInv, TypeInv', ConsumeCall \/ ConsumeStep, FULL_FENCE_BUILD
  PROVE  ProdWakeInv'
<1> USE DEF prodVars, shared
<1>0. /\ cbuf \in Seq(CEntries) /\ Len(cbuf) \in Nat /\ prod_sleeping \in {0, 1}
      /\ \A b \in {0, 1} : Store("cons_sleeping", b) \in CEntries
  BY StoreTypes DEF ProdWakeInv, TypeInv, TypeOK
<1>1. ASSUME cpc # "released", cbuf' = cbuf PROVE HeadStoresReleased'
  BY <1>1 DEF ProdWakeInv, HeadStoresReleased
<1>2. ASSUME cpc # "released", NEW b \in {0, 1},
             cbuf' = Append(cbuf, Store("cons_sleeping", b))
      PROVE  HeadStoresReleased'
  <2> DEFINE e == Store("cons_sleeping", b)
  <2>1. e.loc # "cons_head"
    BY DEF Store
  <2>2. e \in CEntries
    BY <1>0
  <2> HIDE DEF e
  <2>3. /\ Len(cbuf') = Len(cbuf) + 1
        /\ \A i \in 1 .. Len(cbuf) : cbuf'[i] = cbuf[i]
        /\ cbuf'[Len(cbuf) + 1] = e
    BY <1>0, <1>2, <2>2, Appended DEF e
  <2> QED
    BY <1>0, <1>2, <2>1, <2>3 DEF ProdWakeInv, HeadStoresReleased
<1>3. CASE Peek
  BY <1>1, <1>3, ProdWakeConsumerStep DEF Peek
<1>4. CASE ConsumeWait
  BY <1>1, <1>4, ProdWakeConsumerStep DEF ConsumeWait
<1>5. CASE ConsumeSpin
  BY <1>1, <1>5, ProdWakeConsumerStep DEF ConsumeSpin
<1>6. CASE ConsumeArm
  BY <1>1, <1>2, <1>6, ProdWakeConsumerStep DEF ConsumeArm
<1>7. CASE ConsumeRecheck
  BY <1>1, <1>2, <1>7, ProdWakeConsumerStep DEF ConsumeRecheck
<1>8. CASE ConsumeFutexWait
  BY <1>1, <1>8, ProdWakeConsumerStep DEF ConsumeFutexWait
<1>9. CASE ConsumeTimeout
  BY <1>2, <1>9, ProdWakeConsumerStep DEF ConsumeTimeout
<1>10. CASE ConsumeAwake
  BY <1>2, <1>10, ProdWakeConsumerStep DEF ConsumeAwake
<1>11. CASE ConsumeVerify
  BY <1>1, <1>2, <1>11, ProdWakeConsumerStep DEF ConsumeVerify
<1>12. CASE ReadDesc
  BY <1>1, <1>12, ProdWakeConsumerStep DEF ReadDesc
<1>13. CASE Release
  <2>1. HeadStoresReleased'
    BY <1>13 DEF Release, HeadStoresReleased
  <2> QED
    BY <1>13, <2>1, ProdWakeConsumerStep DEF Release
<1>14. CASE CheckProducer
  <2>1. HeadStoresReleased'
    BY <1>14 DEF CheckProducer, WRITE_FENCE, HeadStoresReleased
  <2>2. ppc = "blocked" => cpc' = "wake"
    BY <1>14 DEF CheckProducer, ProdWakeInv, ProdAnnounced
  <2> QED
    BY <1>14, <2>1, <2>2, ProdWakeConsumerStep DEF CheckProducer
<1>15. CASE WakeProducer
  BY <1>1, <1>15, ProdWakeConsumerStep DEF WakeProducer
<1> QED
  BY <1>3, <1>4, <1>5, <1>6, <1>7, <1>8, <1>9, <1>10, <1>11, <1>12, <1>13,
     <1>14, <1>15 DEF ConsumeCall, ConsumeStep

\* A step of the producer that is not between announcement and wakeup.
LEMMA ProdWakeAwake ==
  ASSUME ProdWakeInv, TypeInv',
         UNCHANGED <<cons_head, cbuf>>,
         cpc' = cpc \/ cpc # "released",
         ppc' \notin {"armed", "futex", "blocked"}
  PROVE  ProdWakeInv'
  BY DEF ProdWakeInv, ProdArmed, ProdAnnounced, HeadStoresReleased,
         NoLostProducerWakeup

LEMMA ProdWakeProduce ==
  ASSUME ProdWakeInv, TypeInv', ProduceCall \/ ProduceStep, FULL_FENCE_BUILD
  PROVE  ProdWakeInv'
<1> USE DEF consVars, shared
<1>3. CASE Reserve
  BY <1>3, ProdWakeAwake DEF Reserve
<1>4. CASE ProduceWait
  BY <1>4, ProdWakeAwake DEF ProduceWait
<1>5. CASE Flush
  BY <1>5, ProdWakeAwake DEF Flush
<1>6. CASE ProduceSpin
  BY <1>6, ProdWakeAwake DEF ProduceSpin
<1>7. CASE ProduceArm
  <2>1. pbuf \in Seq(PEntries) /\ Store("prod_sleeping", 1) \in PEntries
    BY StoreTypes DEF ProdWakeInv, TypeInv, TypeOK
  <2>2. pbuf' = Append(pbuf, Store("prod_sleeping", 1)) /\ ppc' = "armed"
    BY <1>7 DEF ProduceArm
  <2>3. pbuf' # <<>> /\ pbuf'[Len(pbuf')] = Store("prod_sleeping", 1)
    BY <2>1, <2>2, Appended
  <2> QED
    BY <1>7, <2>2, <2>3 DEF ProduceArm, ProdWakeInv, ProdArmed, ProdAnnounced,
                       HeadStoresReleased, NoLostProducerWakeup
<1>8. CASE ProduceRecheck
  <2>1. CASE Full(cons_head)
    <3>1. /\ pbuf = <<>> /\ prod_sleeping = 1 /\ ppc' = "futex"
          /\ UNCHANGED <<shared, pbuf, cbuf, cpc>>
      BY <1>8, <2>1 DEF ProduceRecheck, WRITE_FENCE, ProdWakeInv, ProdArmed
    <3> QED
      BY <3>1 DEF ProdWakeInv, ProdArmed, ProdAnnounced, HeadStoresReleased,
                  NoLostProducerWakeup
  <2>2. CASE ~Full(cons_head)
    BY <1>8, <2>2, ProdWakeAwake DEF ProduceRecheck
  <2> QED
    BY <2>1, <2>2
<1>9. CASE ProduceFutexWait
  BY <1>9 DEF ProduceFutexWait, ProdWakeInv, ProdArmed, ProdAnnounced,
              HeadStoresReleased, NoLostProducerWakeup
<1>10. CASE ProduceAwake
  BY <1>10, ProdWakeAwake DEF ProduceAwake
<1>11. CASE ProduceVerify
  BY <1>11, ProdWakeAwake DEF ProduceVerify
<1>12. CASE ProduceNull
  BY <1>12, ProdWakeAwake DEF ProduceNull
<1>13. CASE WriteDesc
  BY <1>13, ProdWakeAwake DEF WriteDesc
<1>14. CASE Commit
  BY <1>14, ProdWakeAwake DEF Commit
<1>15. CASE CheckConsumer
  BY <1>15, ProdWakeAwake DEF CheckConsumer
<1>16. CASE CheckThreshold
  BY <1>16, ProdWakeAwake DEF CheckThreshold
<1>17. CASE WakeConsumer
  BY <1>17, ProdWakeAwake DEF WakeConsumer
<1> QED
  BY <1>3, <1>4, <1>5, <1>6, <1>7, <1>8, <1>9, <1>10, <1>11, <1>12, <1>13,
     <1>14, <1>15, <1>16, <1>17 DEF ProduceCall, ProduceStep

LEMMA ProdWakeDrain ==
  ASSUME ProdWakeInv, TypeInv', Drain
  PROVE  ProdWakeInv'
<1>0. pbuf \in Seq(PEntries) /\ cbuf \in Seq(CEntries)
  BY DEF ProdWakeInv, TypeInv, TypeOK
<1>1. CASE DrainConsumer
  <2>1. /\ cbuf # <<>> /\ Head(cbuf) = cbuf[1] /\ Len(cbuf) \in Nat
        /\ 1 \in 1 .. Len(cbuf) /\ cbuf' = Tail(cbuf)
        /\ \A i \in 1 .. Len(cbuf') :
             i + 1 \in 1 .. Len(cbuf) /\ cbuf'[i] = cbuf[i + 1]
    BY <1>0, <1>1 DEF DrainConsumer
  <2>2. UNCHANGED <<cpc, ppc, pbuf, prod_sleeping, cached_cons_head>>
    BY <1>1 DEF DrainConsumer, prodVars
  <2>3. HeadStoresReleased'
    BY <2>1, <2>2 DEF ProdWakeInv, HeadStoresReleased
  <2>4. cons_head' = cons_head \/ cpc = "released"
    BY <1>1, <2>1 DEF DrainConsumer, ProdWakeInv, HeadStoresReleased
  <2> QED
    BY <2>2, <2>3, <2>4 DEF ProdWakeInv, ProdArmed, ProdAnnounced,
                            NoLostProducerWakeup
<1>2. CASE DrainProducer
  <2>1. UNCHANGED <<cpc, cbuf, cons_head, ppc, cached_cons_head>>
    BY <1>2 DEF DrainProducer, consVars
  <2>2. /\ pbuf # <<>> /\ Head(pbuf) = pbuf[1] /\ Len(pbuf) \in Nat
        /\ pbuf' = Tail(pbuf) /\ Len(pbuf') = Len(pbuf) - 1
        /\ \A i \in 1 .. Len(pbuf') : pbuf'[i] = pbuf[i + 1]
    BY <1>0, <1>2 DEF DrainProducer
  <2>3. ppc \notin {"futex", "blocked"}
    BY <2>2 DEF ProdWakeInv, ProdAnnounced
  <2>4. ProdArmed'
    <3> SUFFICES ASSUME ppc = "armed"
                 PROVE  \/ pbuf' = <<>> /\ prod_sleeping' = 1
                        \/ /\ pbuf' # <<>>
                           /\ pbuf'[Len(pbuf')] = Store("prod_sleeping", 1)
      BY <2>1 DEF ProdArmed
    <3>1. pbuf[Len(pbuf)] = Store("prod_sleeping", 1)
      BY <2>2 DEF ProdWakeInv, ProdArmed
    <3>2. CASE Len(pbuf) = 1
      <4>1. Head(pbuf) = Store("prod_sleeping", 1)
        BY <2>2, <3>1, <3>2
      <4>2. prod_sleeping' = 1
        BY <1>2, <4>1 DEF DrainProducer, Store
      <4>3. pbuf' = <<>>
        BY <1>0, <2>2, <3>2
      <4> QED
        BY <4>2, <4>3
    <3>3. CASE Len(pbuf) # 1
      <4>1. Len(pbuf) # 0
        BY <1>0, <2>2
      <4>2. Len(pbuf') \in 1 .. Len(pbuf') /\ Len(pbuf') + 1 = Len(pbuf)
        BY <2>2, <3>3, <4>1
      <4>3. pbuf'[Len(pbuf')] = Store("prod_sleeping", 1)
        BY <2>2, <3>1, <4>2
      <4>4. Len(pbuf') # 0
        BY <4>2
      <4>5. pbuf' # <<>>
        BY <4>4
      <4> QED
        BY <4>3, <4>5
    <3> QED
      BY <3>2, <3>3
  <2> QED
    BY <2>1, <2>3, <2>4 DEF ProdWakeInv, ProdAnnounced, HeadStoresReleased,
                            NoLostProducerWakeup
<1> QED
  BY <1>1, <1>2 DEF Drain

\* A producer asleep in flipc2_produce_wait with room in the ring always has a
\* consumer still on its way to FUTEX_WAKE, in a build whose write fence is
\* __sync_synchronize().  (The x86 build has no such theorem: see the run
\* spsc_x86_lost_wakeup.)
THEOREM ProducerWakeupKeptFenced ==
  ASSUME FULL_FENCE_BUILD
  PROVE  Spec => []NoLostProducerWakeup
<1>1. Init => ProdWakeInv
  BY TypeInit DEF Init, ProdWakeInv, ProdArmed, ProdAnnounced,
                  HeadStoresReleased, NoLostProducerWakeup
<1>2. ProdWakeInv /\ [Next]_vars => ProdWakeInv'
  <2> SUFFICES ASSUME ProdWakeInv, [Next]_vars PROVE ProdWakeInv'
    OBVIOUS
  <2>1. TypeInv'
    BY TypeStep DEF ProdWakeInv
  <2>2. CASE UNCHANGED vars
    BY <2>1, <2>2 DEF ProdWakeInv, ProdArmed, ProdAnnounced,
                 HeadStoresReleased, NoLostProducerWakeup, vars, shared,
                 prodVars, consVars
  <2>3. CASE Attach
    BY <2>1, <2>3 DEF Attach, AttachProducer, AttachConsumer, ProdWakeInv,
                 ProdArmed, ProdAnnounced, HeadStoresReleased,
                 NoLostProducerWakeup, shared, prodVars, consVars
  <2> QED
    BY <2>1, <2>2, <2>3, ProdWakeProduce, ProdWakeConsume, ProdWakeDrain
    DEF Next
<1>3. ProdWakeInv => NoLostProducerWakeup
  BY DEF ProdWakeInv
<1> QED
  BY <1>1, <1>2, <1>3, PTL DEF Spec

-----------------------------------------------------------------------------
(* The spurious wakeup limit.  A wakeup is spurious when it belongs to a     *)
(* commit whose descriptor the consumer took before it went to sleep.  After *)
(* one of those the producer has no wakeup left to send, and the next one    *)
(* belongs to a new commit, which the consumer finds in the ring: the count  *)
(* is back at zero before it can reach two.                                  *)

\* The producer has committed and may still send the wakeup.
Ringing == ppc \in {"fence", "thresh", "wake"}
Waking  == cpc \in {"woken", "verify"}

DeathInv ==
  /\ DataInv
  /\ spurious_wakeups <= 1
  /\ cpc = "have" => spurious_wakeups = 0
  /\ Waking /\ Ringing => tail # head
  /\ spurious_wakeups = 1 /\ Ringing => tail # head
  /\ spurious_wakeups = 1 /\ Waking => prod_tail # head
  /\ cpc # "dead"

\* Descriptors between head and prod_tail are also between head and tail.
LEMMA TailPastHead ==
  ASSUME DataInv, prod_tail # head
  PROVE  tail # head
<1>1. /\ head \in Word /\ prod_tail \in Word /\ cached_prod_tail \in Word
      /\ tail \in Word /\ cached_cons_head \in Word
  BY DEF DataInv, TypeInv, TypeOK
<1>2. /\ D(head) \in Nat /\ D(prod_tail) \in Nat /\ D(cached_prod_tail) \in Nat
      /\ D(tail) \in Nat
  BY <1>1, DistanceType DEF DataInv
<1>3. D(head) <= D(cached_prod_tail) /\ D(cached_prod_tail) <= D(prod_tail)
      /\ D(prod_tail) <= D(tail)
  BY DEF DataInv, Order
<1>4. D(head) # D(prod_tail)
  BY <1>1, CountInjective DEF D
<1> QED
  BY <1>2, <1>3, <1>4

\* A counter moved up by one within the ring is not at h.
LEMMA NextPastHead ==
  ASSUME NEW t \in Word, NEW h \in Word, flipc2_ring_count(t, h) <= RING_ENTRIES
  PROVE  Add(t, 1) # h
<1>1. /\ flipc2_ring_count(t, h) \in Nat /\ 1 \in 0 .. RING_ENTRIES
      /\ flipc2_ring_count(t, h) + 1 < WORD
  <2>1. flipc2_ring_count(t, h) \in Word
    BY WordClosed
  <2> QED
    BY <2>1, RingAssumption DEF Word
<1>2. flipc2_ring_count(Add(t, 1), h) = flipc2_ring_count(t, h) + 1
  BY <1>1, CountAdvance
<1>3. flipc2_ring_count(h, h) = 0
  BY CountSelf
<1> QED
  BY <1>1, <1>2, <1>3

LEMMA TailSpan ==
  ASSUME DataInv
  PROVE  flipc2_ring_count(tail, head) <= RING_ENTRIES
<1>1. /\ head \in Word /\ prod_tail \in Word /\ cached_prod_tail \in Word
      /\ tail \in Word /\ cached_cons_head \in Word
  BY DEF DataInv, TypeInv, TypeOK
<1>2. /\ D(head) \in Nat /\ D(prod_tail) \in Nat /\ D(cached_prod_tail) \in Nat
      /\ D(tail) \in Nat /\ RING_ENTRIES \in Nat
  BY <1>1, DistanceType DEF DataInv
<1>3. /\ D(head) <= D(cached_prod_tail) /\ D(cached_prod_tail) <= D(prod_tail)
      /\ D(prod_tail) <= D(tail) /\ D(tail) <= RING_ENTRIES
  BY DEF DataInv, Order
<1>4. flipc2_ring_count(tail, head) = D(tail) - D(head)
  BY <1>1, <1>2, <1>3, CountDifference DEF D
<1> QED
  BY <1>2, <1>3, <1>4

\* The calls under which the count is reset before the next wakeup: no peek,
\* which takes descriptors without resetting it, and no flush, which wakes
\* without a commit.
OnlyWaits == "peek" \notin ConsumeOps /\ "flush" \notin ProduceOps

LEMMA DeathProduce ==
  ASSUME DeathInv, DataInv', OnlyWaits, BATCH = 1, ProduceCall \/ ProduceStep
  PROVE  DeathInv'
<1> USE DEF shared, consVars, Ringing, Waking
<1>1. CASE Commit
  <2>1. staged = 1 /\ tail' = Add(tail, staged)
    BY <1>1 DEF Commit, DeathInv, DataInv, ProducerStores
  <2>2. tail \in Word /\ head \in Word /\ head' = head
    BY <1>1 DEF Commit, DeathInv, DataInv, TypeInv, TypeOK
  <2>3. tail' # head'
    BY <2>1, <2>2, TailSpan, NextPastHead DEF DeathInv
  <2> QED
    BY <1>1, <2>3 DEF Commit, DeathInv
<1>2. CASE WakeConsumer
  <2>1. prod_tail = tail
    BY <1>2 DEF WakeConsumer, DeathInv, DataInv, ProducerStores
  <2> QED
    BY <1>2, <2>1 DEF WakeConsumer, DeathInv
<1>3. CASE CheckConsumer \/ CheckThreshold
  BY <1>3 DEF CheckConsumer, CheckThreshold, DeathInv
<1>4. CASE \/ Reserve \/ ProduceWait \/ ProduceSpin \/ ProduceArm
           \/ ProduceRecheck \/ ProduceFutexWait \/ ProduceAwake
           \/ ProduceVerify \/ ProduceNull \/ WriteDesc
  <2>1. /\ UNCHANGED <<prod_tail, tail, head, cpc, spurious_wakeups>>
        /\ ppc' \notin {"fence", "thresh", "wake"}
    BY <1>4 DEF Reserve, ProduceWait, ProduceSpin, ProduceArm, ProduceRecheck,
      ProduceFutexWait, ProduceAwake, ProduceVerify, ProduceNull, WriteDesc
  <2> QED
    BY <2>1 DEF DeathInv
<1> QED
  BY <1>1, <1>2, <1>3, <1>4 DEF ProduceCall, ProduceStep, Flush, OnlyWaits

LEMMA DeathConsume ==
  ASSUME DeathInv, DataInv', OnlyWaits, MAX_SPURIOUS >= 2,
         ConsumeCall \/ ConsumeStep
  PROVE  DeathInv'
<1> USE DEF shared, prodVars, Ringing, Waking
<1>1. CASE ConsumeVerify
  <2>1. spurious_wakeups \in Nat /\ MAX_SPURIOUS \in Nat
    BY LimitAssumption DEF DeathInv, DataInv, TypeInv, TypeOK
  <2>2. CASE prod_tail # head
    BY <1>1, <2>2, <2>1 DEF ConsumeVerify, Ready, DeathInv
  <2>3. CASE prod_tail = head
    <3>1. spurious_wakeups = 0
      BY <1>1, <2>1, <2>3 DEF ConsumeVerify, DeathInv
    <3>2. spurious_wakeups' = 1 /\ cpc' \in {"idle", "armed"}
      BY <1>1, <2>1, <2>3, <3>1 DEF ConsumeVerify
    <3> QED
      BY <1>1, <3>2 DEF ConsumeVerify, DeathInv
  <2> QED
    BY <2>2, <2>3
<1>2. CASE ConsumeSpin \/ ConsumeRecheck
  <2>1. /\ UNCHANGED <<prod_tail, tail, head, ppc>>
        /\ cpc' \in {"spin", "futex", "have", "corrupt"}
        /\ spurious_wakeups' \in {0, spurious_wakeups}
        /\ cpc' = "have" => spurious_wakeups' = 0
    BY <1>2 DEF ConsumeSpin, ConsumeRecheck, Ready
  <2> QED
    BY <2>1 DEF DeathInv
<1>3. CASE ConsumeFutexWait
  BY <1>3, TailPastHead DEF ConsumeFutexWait, DeathInv
<1>4. CASE ConsumeAwake
  BY <1>4 DEF ConsumeAwake, DeathInv
<1>5. CASE Release
  <2>1. spurious_wakeups' = 0 /\ cpc' = "released"
    BY <1>5 DEF Release, DeathInv
  <2> QED
    BY <2>1 DEF DeathInv
<1>6. CASE \/ ConsumeWait \/ ConsumeArm \/ ConsumeTimeout \/ CheckProducer
           \/ ReadDesc
  <2>1. /\ UNCHANGED <<prod_tail, tail, head, ppc, spurious_wakeups>>
        /\ cpc' \in {"spin", "idle", "armed", "wake"} \/ cpc' = cpc
    BY <1>6 DEF ConsumeWait, ConsumeArm, ConsumeTimeout, CheckProducer, ReadDesc
  <2> QED
    BY <2>1 DEF DeathInv
<1>7. CASE WakeProducer
  BY <1>7 DEF WakeProducer, DeathInv
<1> QED
  BY <1>1, <1>2, <1>3, <1>4, <1>5, <1>6, <1>7
  DEF ConsumeCall, ConsumeStep, Peek, OnlyWaits

LEMMA DeathDrain ==
  ASSUME DeathInv, DataInv', BATCH = 1, AttachAt = {}, Drain
  PROVE  DeathInv'
<1> USE DEF Ringing, Waking
<1>1. UNCHANGED <<tail, head, ppc, cpc, spurious_wakeups>>
  BY DEF Drain, DrainProducer, DrainConsumer, prodVars, consVars
<1>2. prod_tail # head => prod_tail' # head
  <2>1. \/ UNCHANGED <<head, prod_tail>>
        \/ prod_tail' = Add(prod_tail, 1)
        \/ prod_tail' = prod_tail
    BY CounterStep DEF DeathInv, Next
  <2>2. Add(prod_tail, 1) # head
    BY Span, NextPastHead DEF DeathInv
  <2> QED
    BY <2>1, <2>2
<1> QED
  BY <1>1, <1>2 DEF DeathInv

\* FLIPC2_MAX_SPURIOUS_WAKEUPS is never reached between honest sides: when
\* each commit publishes one descriptor, both handles live as long as the
\* channel and the callers use only the waiting calls, no run of late wakeups
\* gets longer than one, so any limit above one declares no live channel dead.
THEOREM LiveChannelStaysLive ==
  ASSUME BATCH = 1, AttachAt = {}, OnlyWaits, MAX_SPURIOUS >= 2
  PROVE  Spec => []NoFalseDeath
<1>1. Init => DeathInv
  BY DataInit DEF Init, DeathInv, Ringing, Waking
<1>2. DeathInv /\ [Next]_vars => DeathInv'
  <2> SUFFICES ASSUME DeathInv, [Next]_vars PROVE DeathInv'
    OBVIOUS
  <2>1. DataInv'
    BY DataStep DEF DeathInv
  <2>2. CASE UNCHANGED vars
    BY <2>1, <2>2 DEF DeathInv, Ringing, Waking, vars, shared, prodVars, consVars
  <2>3. CASE Attach
    BY <2>3 DEF Attach, AttachProducer, AttachConsumer
  <2> QED
    BY <2>1, <2>2, <2>3, DeathProduce, DeathConsume, DeathDrain DEF Next
<1>3. DeathInv => NoFalseDeath
  BY DEF DeathInv, NoFalseDeath
<1> QED
  BY <1>1, <1>2, <1>3, PTL DEF Spec
=============================================================================
