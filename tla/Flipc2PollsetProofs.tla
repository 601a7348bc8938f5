------------------------ MODULE Flipc2PollsetProofs ------------------------
(***************************************************************************)
(* Proofs about Flipc2Pollset, for every number of channels, every array   *)
(* and ring size and every timeout.  The wakeup argument needs three facts *)
(* beside the invariant it proves: which channels are armed at each point  *)
(* of a poll (ArmedOK), that the thread is registered from before the      *)
(* first comparison of WAITV (ValOK), and the promise word by word as the  *)
(* comparison goes on (WakeOK).                                            *)
(***************************************************************************)
EXTENDS Flipc2Pollset, Flipc2RingLemmas, SequenceTheorems, TLAPS

\* A channel is armed from the store in Arm to the one in Disarm.
ArmedPcs == {"rescan", "disarm", "val", "register", "recheck", "blocked", "awake"}
ArmedOK ==
  \A c \in Channels :
    cons_sleeping[c] = IF InSet(c) /\ pc \in ArmedPcs THEN 1 ELSE 0

\* The values given to WAITV, and when its caller can be woken.
ValOK ==
  /\ parked <=> pc \in {"recheck", "blocked"}
  /\ pc = "val" => i <= Len(channels) + 1 /\ Len(val) = i - 1
  /\ pc \in {"register", "recheck", "blocked"} => Len(val) = Len(channels)
  /\ pc \notin {"val", "register", "recheck", "blocked", "awake"} => val = <<>>

\* The words that WAITV has compared.
Compared(k) == pc = "blocked" \/ (pc = "recheck" /\ k < i)
WakeOK ==
  ~woken =>
    \A k \in 1 .. Len(channels) :
      Compared(k) /\ prod_tail[channels[k]] # val[k] =>
        ppc[channels[k]] # "idle"

\* Events come from the part of the array that was scanned, in its order.
EventsOK ==
  /\ \A j, k \in 1 .. Len(channels) : channels[j] = channels[k] => j = k
  /\ Scanning =>
       \A e \in 1 .. Len(events) :
         \E k \in 1 .. Len(channels) : k < i /\ events[e] = channels[k]
  /\ pc \notin {"serve", "scan", "rescan", "final", "disarm"} => events = <<>>

\* The inductive invariant.
IInv ==
  /\ TypeOK
  /\ ArmedOK
  /\ ValOK
  /\ WakeOK
  /\ EventsOK
  /\ EventsReady

-----------------------------------------------------------------------------
\* Counters stay words, and one that is not RING_ENTRIES ahead of another does
\* not come round to it.
LEMMA Advance ==
  ASSUME NEW t \in Word
  PROVE  /\ Add(t, 1) \in Word
         /\ \A h \in Word :
              flipc2_ring_count(t, h) < RING_ENTRIES => Add(t, 1) # h
<1>1. 1 \in 0 .. RING_ENTRIES
  BY RingAssumption
<1>2. Add(t, 1) = IF t + 1 < WORD THEN t + 1 ELSE t + 1 - WORD
  BY <1>1, AddValue
<1>3. Add(t, 1) \in Word
  BY <1>1, WordClosed
<1>4. ASSUME NEW h \in Word, flipc2_ring_count(t, h) < RING_ENTRIES
      PROVE  Add(t, 1) # h
  <2>1. flipc2_ring_count(t, h) = IF t >= h THEN t - h ELSE t - h + WORD
    BY CountValue
  <2> QED
    BY <1>2, <1>4, <2>1, RingAssumption DEF Word
<1> QED
  BY <1>3, <1>4

LEMMA InitInv == Init => IInv
<1> SUFFICES ASSUME Init PROVE IInv
  OBVIOUS
<1> USE PollsetAssumption DEF Init
<1>1. TypeOK
  <2>1. 0 \in Word
    BY RingAssumption DEF Word
  <2>2. <<>> \in Seq(Channels) /\ <<>> \in Seq(Word) /\ Len(<<>>) = 0
    BY EmptySeq
  <2>3. 1 \in 1 .. MAX_CHANNELS + 1 /\ 0 <= MAX_CHANNELS /\ 0 <= MAX_EVENTS
    OBVIOUS
  <2>4. /\ prod_tail \in [Channels -> Word] /\ cons_head \in [Channels -> Word]
        /\ cons_sleeping \in [Channels -> {0, 1}]
        /\ ppc \in [Channels -> {"idle", "fence", "wake"}]
    BY <2>1
  <2>5. parked \in BOOLEAN /\ woken \in BOOLEAN /\ pc \in Pcs
    BY Zenon DEF Pcs
  <2>6. /\ channels \in Seq(Channels) /\ Len(channels) <= MAX_CHANNELS
        /\ events \in Seq(Channels) /\ Len(events) <= MAX_EVENTS
        /\ val \in Seq(Word) /\ Len(val) <= Len(channels)
    BY <2>2, <2>3
  <2> QED
    BY <2>3, <2>4, <2>5, <2>6 DEF TypeOK
<1>2. ArmedOK
  BY DEF ArmedOK, ArmedPcs
<1>3. ValOK
  BY DEF ValOK
<1>4. WakeOK
  BY DEF WakeOK, Compared
<1>5. EventsOK /\ EventsReady
  BY DEF EventsOK, EventsReady, Scanning
<1> QED
  BY <1>1, <1>2, <1>3, <1>4, <1>5 DEF IInv

LEMMA PollsetAddInv ==
  ASSUME IInv, NEW c \in Channels, PollsetAdd(c)
  PROVE  IInv'
<1> USE PollsetAssumption DEF IInv, PollsetAdd, shared, waitv
<1>1. TypeOK'
  BY DEF TypeOK, Pcs, ValOK, EventsOK, ScanDone, Scanning
<1>2. ArmedOK'
  BY DEF TypeOK, ArmedOK, ArmedPcs, InSet, Scanning
<1>3. ValOK'
  BY DEF TypeOK, ValOK, Scanning
<1>4. WakeOK'
  BY DEF TypeOK, ValOK, WakeOK, Compared, Scanning
<1>5. EventsOK'
  BY DEF TypeOK, EventsOK, Scanning, InSet
<1>6. EventsReady'
  BY DEF TypeOK, EventsOK, EventsReady, InSet, HasData, Scanning
<1> QED
  BY <1>1, <1>2, <1>3, <1>4, <1>5, <1>6

LEMMA PollsetRemoveInv ==
  ASSUME IInv, NEW c \in Channels, PollsetRemove(c)
  PROVE  IInv'
<1> USE PollsetAssumption DEF IInv, PollsetRemove, shared, waitv
<1>1. TypeOK'
  BY DEF TypeOK, Pcs, ValOK, EventsOK, ScanDone, Scanning
<1>2. ArmedOK'
  BY DEF TypeOK, ArmedOK, ArmedPcs, InSet, Scanning
<1>3. ValOK'
  BY DEF TypeOK, ValOK, Scanning
<1>4. WakeOK'
  BY DEF TypeOK, ValOK, WakeOK, Compared, Scanning
<1>5. EventsOK'
  BY DEF TypeOK, EventsOK, Scanning
<1>6. EventsReady'
  BY DEF TypeOK, EventsOK, EventsReady, InSet, HasData, Scanning
<1> QED
  BY <1>1, <1>2, <1>3, <1>4, <1>5, <1>6

LEMMA ServeInv ==
  ASSUME IInv, Serve
  PROVE  IInv'
<1> USE PollsetAssumption DEF IInv, Serve, shared, waitv
<1>1. TypeOK'
  <2>1. Head(events) \in Channels
    BY DEF TypeOK
  <2>2. cons_head' \in [Channels -> Word]
    BY <2>1, Advance DEF TypeOK
  <2> QED
    BY <2>2 DEF TypeOK
<1>2. ArmedOK'
  BY DEF TypeOK, ArmedOK, ArmedPcs, InSet, Scanning
<1>3. ValOK'
  BY DEF TypeOK, ValOK, Scanning
<1>4. WakeOK'
  BY DEF TypeOK, ValOK, WakeOK, Compared, Scanning
<1>5. EventsOK'
  BY DEF TypeOK, EventsOK, Scanning
<1>6. EventsReady'
  BY DEF TypeOK, EventsOK, EventsReady, InSet, HasData, Scanning
<1> QED
  BY <1>1, <1>2, <1>3, <1>4, <1>5, <1>6

LEMMA DrainedInv ==
  ASSUME IInv, Drained
  PROVE  IInv'
<1> USE PollsetAssumption DEF IInv, Drained, shared, waitv
<1>1. TypeOK'
  BY DEF TypeOK, Pcs, ValOK, EventsOK, ScanDone, Scanning
<1>2. ArmedOK'
  BY DEF TypeOK, ArmedOK, ArmedPcs, InSet, Scanning
<1>3. ValOK'
  BY DEF TypeOK, ValOK, Scanning
<1>4. WakeOK'
  BY DEF TypeOK, ValOK, WakeOK, Compared, Scanning
<1>5. EventsOK'
  BY DEF TypeOK, EventsOK, Scanning
<1>6. EventsReady'
  BY DEF TypeOK, EventsOK, EventsReady, InSet, HasData, Scanning
<1> QED
  BY <1>1, <1>2, <1>3, <1>4, <1>5, <1>6

LEMMA ServeDoneInv ==
  ASSUME IInv, ServeDone
  PROVE  IInv'
<1> USE PollsetAssumption DEF IInv, ServeDone, shared, waitv
<1>1. TypeOK'
  BY DEF TypeOK, Pcs, ValOK, EventsOK, ScanDone, Scanning
<1>2. ArmedOK'
  BY DEF TypeOK, ArmedOK, ArmedPcs, InSet, Scanning
<1>3. ValOK'
  BY DEF TypeOK, ValOK, Scanning
<1>4. WakeOK'
  BY DEF TypeOK, ValOK, WakeOK, Compared, Scanning
<1>5. EventsOK'
  BY DEF TypeOK, EventsOK, Scanning
<1>6. EventsReady'
  BY DEF TypeOK, EventsOK, EventsReady, InSet, HasData, Scanning
<1> QED
  BY <1>1, <1>2, <1>3, <1>4, <1>5, <1>6

LEMMA PollInv ==
  ASSUME IInv, Poll
  PROVE  IInv'
<1> USE PollsetAssumption DEF IInv, Poll, shared, waitv
<1>1. TypeOK'
  BY DEF TypeOK, Pcs, ValOK, EventsOK, ScanDone, Scanning
<1>2. ArmedOK'
  BY DEF TypeOK, ArmedOK, ArmedPcs, InSet, Scanning
<1>3. ValOK'
  BY DEF TypeOK, ValOK, Scanning
<1>4. WakeOK'
  BY DEF TypeOK, ValOK, WakeOK, Compared, Scanning
<1>5. EventsOK'
  BY DEF TypeOK, EventsOK, Scanning
<1>6. EventsReady'
  BY DEF TypeOK, EventsOK, EventsReady, InSet, HasData, Scanning
<1> QED
  BY <1>1, <1>2, <1>3, <1>4, <1>5, <1>6

LEMMA ScanStepInv ==
  ASSUME IInv, ScanStep
  PROVE  IInv'
<1> USE PollsetAssumption DEF IInv, ScanStep, shared, waitv
<1>1. TypeOK'
  BY DEF TypeOK, Pcs, ValOK, EventsOK, ScanDone, Scanning
<1>2. ArmedOK'
  BY DEF TypeOK, ArmedOK, ArmedPcs, InSet, Scanning
<1>3. ValOK'
  BY DEF TypeOK, ValOK, Scanning
<1>4. WakeOK'
  BY DEF TypeOK, ValOK, WakeOK, Compared, Scanning
<1>5. EventsOK'
  <2>1. channels[i] \in Channels /\ i \in 1 .. Len(channels)
    BY DEF TypeOK, ScanDone
  <2>2. CASE HasData(channels[i])
    BY <2>1, <2>2 DEF TypeOK, EventsOK, Scanning
  <2>3. CASE ~HasData(channels[i])
    BY <2>1, <2>3 DEF TypeOK, EventsOK, Scanning
  <2> QED
    BY <2>2, <2>3
<1>6. EventsReady'
  <2>1. channels[i] \in Channels /\ i \in 1 .. Len(channels)
    BY DEF TypeOK, ScanDone
  <2>2. \A e \in 1 .. Len(events) : events[e] # channels[i]
    BY <2>1 DEF TypeOK, EventsOK
  <2>3. CASE HasData(channels[i])
    BY <2>1, <2>2, <2>3 DEF TypeOK, EventsReady, InSet, HasData, Scanning
  <2>4. CASE ~HasData(channels[i])
    BY <2>1, <2>4 DEF TypeOK, EventsReady, InSet, HasData, Scanning
  <2> QED
    BY <2>3, <2>4
<1> QED
  BY <1>1, <1>2, <1>3, <1>4, <1>5, <1>6

LEMMA ScanEndInv ==
  ASSUME IInv, ScanEnd
  PROVE  IInv'
<1> USE PollsetAssumption DEF IInv, ScanEnd, shared, waitv
<1>1. TypeOK'
  BY DEF TypeOK, Pcs, ValOK, EventsOK, ScanDone, Scanning
<1>2. ArmedOK'
  BY DEF TypeOK, ArmedOK, ArmedPcs, InSet, Scanning
<1>3. ValOK'
  BY DEF TypeOK, ValOK, Scanning
<1>4. WakeOK'
  BY DEF TypeOK, ValOK, WakeOK, Compared, Scanning
<1>5. EventsOK'
  BY DEF TypeOK, EventsOK, Scanning
<1>6. EventsReady'
  BY DEF TypeOK, EventsOK, EventsReady, InSet, HasData, Scanning
<1> QED
  BY <1>1, <1>2, <1>3, <1>4, <1>5, <1>6

LEMMA ArmInv ==
  ASSUME IInv, Arm
  PROVE  IInv'
<1> USE PollsetAssumption DEF IInv, Arm, shared, waitv
<1>1. TypeOK'
  BY DEF TypeOK, Pcs, ValOK, EventsOK, ScanDone, Scanning
<1>2. ArmedOK'
  BY DEF TypeOK, ArmedOK, ArmedPcs, InSet, Scanning
<1>3. ValOK'
  BY DEF TypeOK, ValOK, Scanning
<1>4. WakeOK'
  BY DEF TypeOK, ValOK, WakeOK, Compared, Scanning
<1>5. EventsOK'
  BY DEF TypeOK, EventsOK, Scanning
<1>6. EventsReady'
  BY DEF TypeOK, EventsOK, EventsReady, InSet, HasData, Scanning
<1> QED
  BY <1>1, <1>2, <1>3, <1>4, <1>5, <1>6

LEMMA RescanEndInv ==
  ASSUME IInv, RescanEnd
  PROVE  IInv'
<1> USE PollsetAssumption DEF IInv, RescanEnd, shared, waitv
<1>1. TypeOK'
  BY DEF TypeOK, Pcs, ValOK, EventsOK, ScanDone, Scanning
<1>2. ArmedOK'
  BY DEF TypeOK, ArmedOK, ArmedPcs, InSet, Scanning
<1>3. ValOK'
  BY DEF TypeOK, ValOK, Scanning
<1>4. WakeOK'
  BY DEF TypeOK, ValOK, WakeOK, Compared, Scanning
<1>5. EventsOK'
  BY DEF TypeOK, EventsOK, Scanning
<1>6. EventsReady'
  BY DEF TypeOK, EventsOK, EventsReady, InSet, HasData, Scanning
<1> QED
  BY <1>1, <1>2, <1>3, <1>4, <1>5, <1>6

LEMMA DisarmReturnInv ==
  ASSUME IInv, DisarmReturn
  PROVE  IInv'
<1> USE PollsetAssumption DEF IInv, DisarmReturn, shared, waitv
<1>1. TypeOK'
  BY DEF TypeOK, Pcs, Disarm
<1>2. ArmedOK'
  BY DEF TypeOK, ArmedOK, ArmedPcs, InSet, Disarm
<1>3. ValOK'
  BY DEF TypeOK, ValOK, Scanning
<1>4. WakeOK'
  BY DEF TypeOK, ValOK, WakeOK, Compared, Scanning
<1>5. EventsOK'
  BY DEF TypeOK, EventsOK, Scanning
<1>6. EventsReady'
  BY DEF TypeOK, EventsOK, EventsReady, InSet, HasData, Scanning
<1> QED
  BY <1>1, <1>2, <1>3, <1>4, <1>5, <1>6

LEMMA LoadValInv ==
  ASSUME IInv, LoadVal
  PROVE  IInv'
<1> USE PollsetAssumption DEF IInv, LoadVal, shared, waitv
<1>1. TypeOK'
  BY DEF TypeOK, Pcs, ValOK, EventsOK, ScanDone, Scanning
<1>2. ArmedOK'
  BY DEF TypeOK, ArmedOK, ArmedPcs, InSet, Scanning
<1>3. ValOK'
  BY DEF TypeOK, ValOK, Scanning
<1>4. WakeOK'
  BY DEF TypeOK, ValOK, WakeOK, Compared, Scanning
<1>5. EventsOK'
  BY DEF TypeOK, EventsOK, Scanning
<1>6. EventsReady'
  BY DEF TypeOK, EventsOK, EventsReady, InSet, HasData, Scanning
<1> QED
  BY <1>1, <1>2, <1>3, <1>4, <1>5, <1>6

LEMMA CallWaitvInv ==
  ASSUME IInv, CallWaitv
  PROVE  IInv'
<1> USE PollsetAssumption DEF IInv, CallWaitv, shared, waitv
<1>1. TypeOK'
  BY DEF TypeOK, Pcs, ValOK, EventsOK, ScanDone, Scanning
<1>2. ArmedOK'
  BY DEF TypeOK, ArmedOK, ArmedPcs, InSet, Scanning
<1>3. ValOK'
  BY DEF TypeOK, ValOK, Scanning
<1>4. WakeOK'
  BY DEF TypeOK, ValOK, WakeOK, Compared, Scanning
<1>5. EventsOK'
  BY DEF TypeOK, EventsOK, Scanning
<1>6. EventsReady'
  BY DEF TypeOK, EventsOK, EventsReady, InSet, HasData, Scanning
<1> QED
  BY <1>1, <1>2, <1>3, <1>4, <1>5, <1>6

LEMMA RegisterInv ==
  ASSUME IInv, Register
  PROVE  IInv'
<1> USE PollsetAssumption DEF IInv, Register, shared, waitv
<1>1. TypeOK'
  <2>1. pc' \in {"recheck", "awake"} /\ parked' \in BOOLEAN
    BY DEF TypeOK
  <2>2. i' = 1 \/ i' = i
    OBVIOUS
  <2>3. i' \in 1 .. MAX_CHANNELS + 1
    BY <2>2 DEF TypeOK
  <2> QED
    BY <2>1, <2>3 DEF TypeOK, Pcs
<1>2. ArmedOK'
  BY DEF TypeOK, ArmedOK, ArmedPcs, InSet, Scanning
<1>3. ValOK'
  BY DEF TypeOK, ValOK, Scanning
<1>4. WakeOK'
  BY DEF TypeOK, ValOK, WakeOK, Compared, Scanning
<1>5. EventsOK'
  BY DEF TypeOK, EventsOK, Scanning
<1>6. EventsReady'
  BY DEF TypeOK, EventsOK, EventsReady, InSet, HasData, Scanning
<1> QED
  BY <1>1, <1>2, <1>3, <1>4, <1>5, <1>6

LEMMA RecheckInv ==
  ASSUME IInv, Recheck
  PROVE  IInv'
<1> USE PollsetAssumption DEF IInv, Recheck, shared, waitv
<1>1. TypeOK'
  <2>1. pc' \in {"recheck", "awake", "blocked"} /\ parked' \in BOOLEAN
    BY DEF TypeOK
  <2>2. i' = i \/ (i' = i + 1 /\ i <= Len(channels))
    OBVIOUS
  <2>3. i' \in 1 .. MAX_CHANNELS + 1
    BY <2>2 DEF TypeOK
  <2> QED
    BY <2>1, <2>3 DEF TypeOK, Pcs
<1>2. ArmedOK'
  BY DEF TypeOK, ArmedOK, ArmedPcs, InSet, Scanning
<1>3. ValOK'
  BY DEF TypeOK, ValOK, Scanning
<1>4. WakeOK'
  <2> SUFFICES ASSUME ~woken, NEW k \in 1 .. Len(channels), Compared(k)',
                      prod_tail[channels[k]] # val[k]
               PROVE  ppc[channels[k]] # "idle"
    BY DEF WakeOK
  <2>1. Compared(k) \/ (k = i /\ prod_tail[channels[i]] = val[i])
    BY DEF TypeOK, Compared
  <2> QED
    BY <2>1 DEF WakeOK
<1>5. EventsOK'
  BY DEF TypeOK, EventsOK, Scanning
<1>6. EventsReady'
  BY DEF TypeOK, EventsOK, EventsReady, InSet, HasData, Scanning
<1> QED
  BY <1>1, <1>2, <1>3, <1>4, <1>5, <1>6

LEMMA ReturnInv ==
  ASSUME IInv, Return
  PROVE  IInv'
<1> USE PollsetAssumption DEF IInv, Return, shared, waitv
<1>1. TypeOK'
  BY DEF TypeOK, Pcs, ValOK, EventsOK, ScanDone, Scanning
<1>2. ArmedOK'
  BY DEF TypeOK, ArmedOK, ArmedPcs, InSet, Scanning
<1>3. ValOK'
  BY DEF TypeOK, ValOK, Scanning
<1>4. WakeOK'
  BY DEF TypeOK, ValOK, WakeOK, Compared, Scanning
<1>5. EventsOK'
  BY DEF TypeOK, EventsOK, Scanning
<1>6. EventsReady'
  BY DEF TypeOK, EventsOK, EventsReady, InSet, HasData, Scanning
<1> QED
  BY <1>1, <1>2, <1>3, <1>4, <1>5, <1>6

LEMMA AwakeInv ==
  ASSUME IInv, Awake
  PROVE  IInv'
<1> USE PollsetAssumption DEF IInv, Awake, shared, waitv
<1>1. TypeOK'
  <2>1. cons_sleeping' \in [Channels -> {0, 1}]
    BY DEF TypeOK, Disarm
  <2>2. val' \in Seq(Word) /\ Len(val') = 0
    BY EmptySeq
  <2>3. woken' \in BOOLEAN /\ parked' \in BOOLEAN /\ pc' \in Pcs
    BY Zenon DEF TypeOK, Pcs
  <2>4. Len(val') <= Len(channels') /\ i' \in 1 .. MAX_CHANNELS + 1
    BY <2>2 DEF TypeOK
  <2> QED
    BY <2>1, <2>2, <2>3, <2>4 DEF TypeOK
<1>2. ArmedOK'
  BY DEF TypeOK, ArmedOK, ArmedPcs, InSet, Disarm
<1>3. ValOK'
  BY DEF TypeOK, ValOK, Scanning
<1>4. WakeOK'
  BY DEF TypeOK, ValOK, WakeOK, Compared, Scanning
<1>5. EventsOK'
  BY DEF TypeOK, EventsOK, Scanning
<1>6. EventsReady'
  BY DEF TypeOK, EventsOK, EventsReady, InSet, HasData, Scanning
<1> QED
  BY <1>1, <1>2, <1>3, <1>4, <1>5, <1>6

LEMMA FinalEndInv ==
  ASSUME IInv, FinalEnd
  PROVE  IInv'
<1> USE PollsetAssumption DEF IInv, FinalEnd, shared, waitv
<1>1. TypeOK'
  BY DEF TypeOK, Pcs, ValOK, EventsOK, ScanDone, Scanning
<1>2. ArmedOK'
  BY DEF TypeOK, ArmedOK, ArmedPcs, InSet, Scanning
<1>3. ValOK'
  BY DEF TypeOK, ValOK, Scanning
<1>4. WakeOK'
  BY DEF TypeOK, ValOK, WakeOK, Compared, Scanning
<1>5. EventsOK'
  BY DEF TypeOK, EventsOK, Scanning
<1>6. EventsReady'
  BY DEF TypeOK, EventsOK, EventsReady, InSet, HasData, Scanning
<1> QED
  BY <1>1, <1>2, <1>3, <1>4, <1>5, <1>6

LEMMA CommitInv ==
  ASSUME IInv, NEW c \in Channels, Commit(c)
  PROVE  IInv'
<1> USE PollsetAssumption DEF IInv, Commit, shared, waitv
<1>1. TypeOK'
  <2>1. prod_tail' \in [Channels -> Word]
    BY Advance DEF TypeOK
  <2> QED
    BY <2>1 DEF TypeOK
<1>2. ArmedOK'
  BY DEF TypeOK, ArmedOK, ArmedPcs, InSet, Scanning
<1>3. ValOK'
  BY DEF TypeOK, ValOK, Scanning
<1>4. WakeOK'
  <2> SUFFICES ASSUME ~woken, NEW k \in 1 .. Len(channels), Compared(k),
                      prod_tail'[channels[k]] # val[k]
               PROVE  ppc'[channels[k]] # "idle"
    BY DEF WakeOK, Compared
  <2>1. channels[k] \in Channels
    BY DEF TypeOK
  <2>2. ppc' = [ppc EXCEPT ![c] = "fence"] /\ DOMAIN ppc = Channels
    BY DEF TypeOK
  <2>3. CASE channels[k] = c
    BY <2>1, <2>2, <2>3
  <2>4. CASE channels[k] # c
    <3>1. prod_tail'[channels[k]] = prod_tail[channels[k]]
      BY <2>1, <2>4 DEF TypeOK
    <3>2. ppc[channels[k]] # "idle"
      BY <3>1 DEF WakeOK
    <3> QED
      BY <2>1, <2>2, <2>4, <3>2
  <2> QED
    BY <2>3, <2>4
<1>5. EventsOK'
  BY DEF TypeOK, EventsOK, Scanning
<1>6. EventsReady'
  <2>1. HasData(c)'
    BY Advance DEF TypeOK, HasData
  <2>2. \A d \in Channels : HasData(d) => HasData(d)'
    BY <2>1 DEF TypeOK, HasData
  <2>3. UNCHANGED <<channels, pc, events>>
    OBVIOUS
  <2>4. ASSUME NEW k \in 1 .. Len(events), pc # "serve"
        PROVE  InSet(events[k])' /\ HasData(events[k])'
    <3>1. events[k] \in Channels
      BY DEF TypeOK
    <3>2. InSet(events[k]) /\ HasData(events[k])
      BY <2>4 DEF EventsReady
    <3>3. InSet(events[k])'
      BY <2>3, <3>2 DEF InSet
    <3>4. HasData(events[k])'
      BY <2>2, <2>3, <3>1, <3>2
    <3> QED
      BY <3>3, <3>4
  <2>5. \A j, k \in 1 .. Len(events) : events[j] = events[k] => j = k
    BY DEF EventsReady
  <2> QED
    BY <2>3, <2>4, <2>5 DEF EventsReady
<1> QED
  BY <1>1, <1>2, <1>3, <1>4, <1>5, <1>6

LEMMA CheckSleepingInv ==
  ASSUME IInv, NEW c \in Channels, CheckSleeping(c)
  PROVE  IInv'
<1> USE PollsetAssumption DEF IInv, CheckSleeping, shared, waitv
<1>1. TypeOK'
  BY DEF TypeOK, Pcs, ValOK, EventsOK, ScanDone, Scanning
<1>2. ArmedOK'
  BY DEF TypeOK, ArmedOK, ArmedPcs, InSet, Scanning
<1>3. ValOK'
  BY DEF TypeOK, ValOK, Scanning
<1>4. WakeOK'
  <2> SUFFICES ASSUME ~woken, NEW k \in 1 .. Len(channels), Compared(k),
                      prod_tail[channels[k]] # val[k]
               PROVE  ppc'[channels[k]] # "idle"
    BY DEF WakeOK, Compared
  <2>0. channels[k] \in Channels
    BY DEF TypeOK
  <2>1. ppc[channels[k]] # "idle" /\ channels[k] \in Channels
    BY <2>0 DEF WakeOK
  <2>2. cons_sleeping[channels[k]] = 1
    BY <2>1 DEF ArmedOK, ArmedPcs, InSet, Compared
  <2>3. DOMAIN ppc = Channels
    BY DEF TypeOK
  <2>4. ppc' = [ppc EXCEPT ![c] = IF cons_sleeping[c] = 1 THEN "wake" ELSE "idle"]
    OBVIOUS
  <2>5. CASE channels[k] = c
    BY <2>1, <2>2, <2>3, <2>4, <2>5
  <2>6. CASE channels[k] # c
    BY <2>1, <2>3, <2>4, <2>6
  <2> QED
    BY <2>5, <2>6
<1>5. EventsOK'
  BY DEF TypeOK, EventsOK, Scanning
<1>6. EventsReady'
  BY DEF TypeOK, EventsOK, EventsReady, InSet, HasData, Scanning
<1> QED
  BY <1>1, <1>2, <1>3, <1>4, <1>5, <1>6

LEMMA WakeInv ==
  ASSUME IInv, NEW c \in Channels, Wake(c)
  PROVE  IInv'
<1> USE PollsetAssumption DEF IInv, Wake, shared, waitv
<1>1. TypeOK'
  BY DEF TypeOK, Pcs, ValOK, EventsOK, ScanDone, Scanning
<1>2. ArmedOK'
  BY DEF TypeOK, ArmedOK, ArmedPcs, InSet, Scanning
<1>3. ValOK'
  BY DEF TypeOK, ValOK, Scanning
<1>4. WakeOK'
  <2> SUFFICES ASSUME ~woken', NEW k \in 1 .. Len(channels), Compared(k),
                      prod_tail[channels[k]] # val[k]
               PROVE  ppc'[channels[k]] # "idle"
    BY DEF WakeOK, Compared
  <2>1. parked
    BY DEF ValOK, Compared
  <2>2. ~woken /\ ~InSet(c)
    BY <2>1
  <2>3. channels[k] # c
    BY <2>2 DEF InSet
  <2>0. channels[k] \in Channels
    BY DEF TypeOK
  <2>4. ppc[channels[k]] # "idle" /\ channels[k] \in Channels
    BY <2>0, <2>2 DEF WakeOK
  <2>5. ppc' = [ppc EXCEPT ![c] = "idle"] /\ DOMAIN ppc = Channels
    BY DEF TypeOK
  <2> QED
    BY <2>3, <2>4, <2>5
<1>5. EventsOK'
  BY DEF TypeOK, EventsOK, Scanning
<1>6. EventsReady'
  BY DEF TypeOK, EventsOK, EventsReady, InSet, HasData, Scanning
<1> QED
  BY <1>1, <1>2, <1>3, <1>4, <1>5, <1>6

LEMMA StutterInv ==
  ASSUME IInv, UNCHANGED vars
  PROVE  IInv'
  BY DEF IInv, vars, shared, waitv, TypeOK, ArmedOK, ValOK, WakeOK, Compared,
         EventsOK, EventsReady, Scanning, InSet, HasData

LEMMA NextInv == IInv /\ [Next]_vars => IInv'
<1> SUFFICES ASSUME IInv, [Next]_vars PROVE IInv'
  OBVIOUS
<1>1. CASE UNCHANGED vars
  BY <1>1, StutterInv
<1>2. CASE \E c \in Channels : Commit(c) \/ Ring(c) \/ Setup(c)
  BY <1>2, CommitInv, CheckSleepingInv, WakeInv, PollsetAddInv, PollsetRemoveInv
     DEF Ring, Setup
<1>3. CASE Poll \/ ServeStep
  BY <1>3, PollInv, ServeInv, DrainedInv, ServeDoneInv DEF ServeStep
<1>4. CASE PollStep
  BY <1>4, ScanStepInv, ScanEndInv, ArmInv, RescanEndInv, DisarmReturnInv,
     LoadValInv, CallWaitvInv, RegisterInv, RecheckInv, ReturnInv, AwakeInv,
     FinalEndInv
     DEF PollStep
<1> QED
  BY <1>1, <1>2, <1>3, <1>4 DEF Next

\* Every field of the pollset and of its channels keeps its type, in particular
\* the loop indices stay within the arrays.
THEOREM PollTypes == Spec => []TypeOK
<1>1. IInv => TypeOK
  BY DEF IInv
<1> QED
  BY <1>1, InitInv, NextInv, PTL DEF Spec

\* A commit that moves a word past the value flipc2_poll gave to WAITV wakes the
\* sleeping thread, for any number of channels.
THEOREM PollWoken == Spec => []CommitWakes
<1>1. IInv => CommitWakes
  BY DEF IInv, CommitWakes, WakeOK, Compared
<1> QED
  BY <1>1, InitInv, NextInv, PTL DEF Spec

\* flipc2_poll reports only ready channels of the pollset, each once, and every
\* exit from it has disarmed the channels it armed.
THEOREM PollReports == Spec => []PollOutcome
<1>1. IInv => EventsReady
  BY DEF IInv
<1>2. IInv => DisarmedOutside
  BY DEF IInv, ArmedOK, ArmedPcs, DisarmedOutside
<1>3. IInv => PollOutcome
  BY <1>1, <1>2 DEF PollOutcome
<1> QED
  BY <1>3, InitInv, NextInv, PTL DEF Spec
=============================================================================
