----------------------------- MODULE Flipc2Spsc -----------------------------
(***************************************************************************)
(* One FLIPC v2 channel with a single producer and a single consumer: the  *)
(* inline fast path of flipc2.h (reserve / commit / flush / produce_wait,  *)
(* peek / release / consume_wait / consume_wait_timed) and the adaptive    *)
(* wakeup protocol both sides run on the futexes prod_tail and cons_head.  *)
(*                                                                         *)
(* The two sides run on different processors, so their stores go through   *)
(* FIFO store buffers (x86-TSO) and loads read the memory, or the side's   *)
(* own newest store.  An action is one load of a word the other side       *)
(* writes, followed by the stores that come before the next such load.     *)
(* mfence waits for an empty store buffer; so does a futex trap, because   *)
(* the kernel takes the bucket lock with a locked instruction.  FUTEX_WAIT *)
(* compares and blocks in one step (module Futex shows why it may).        *)
(*                                                                         *)
(* Counters are the 32-bit words of the header (module Flipc2Ring), so the *)
(* state space is finite without a bound on how much is sent.              *)
(***************************************************************************)
EXTENDS Flipc2Ring, Sequences

CONSTANTS
  MAX_SPURIOUS,       \* FLIPC2_MAX_SPURIOUS_WAKEUPS
  THRESH,             \* wakeup_thresh, the doorbell coalescing threshold
  BATCH,              \* descriptors a caller stages before commit_n
  RELEASE,            \* descriptors a caller reads before release_n
  FULL_FENCE_BUILD,   \* the #else branch of the fence macros (not x86)
  AttachAt,           \* counter values at which a fresh handle takes over
  ProduceOps,         \* calls the producer makes: "reserve", "wait", "flush"
  ConsumeOps          \* calls the consumer makes: "peek", "wait", "timed", and
                      \* "zero", the timed wait with timeout_ms = 0

ASSUME LimitAssumption ==
  /\ MAX_SPURIOUS \in Nat \ {0}
  /\ THRESH \in Nat
  /\ BATCH \in 1 .. RING_ENTRIES
  /\ RELEASE \in 1 .. RING_ENTRIES
  /\ FULL_FENCE_BUILD \in BOOLEAN
  /\ AttachAt \subseteq Word
  /\ ProduceOps \subseteq {"reserve", "wait", "flush"}
  /\ ConsumeOps \subseteq {"peek", "wait", "timed", "zero"}

VARIABLES
  \* shared memory
  ring, prod_tail, cons_head, prod_sleeping, cons_sleeping,
  \* store buffers of the two processors
  pbuf, cbuf,
  \* producer: control, its own prod_tail, cached cons_head, staged writes
  ppc, tail, cached_cons_head, staged,
  \* consumer: control, its own cons_head, cached prod_tail, ...
  cpc, head, cached_prod_tail, spurious_wakeups,
  \* ... kind of wait, descriptors read since the last release, last one
  timeout, taken, desc

shared   == <<ring, prod_tail, cons_head, prod_sleeping, cons_sleeping>>
prodVars == <<pbuf, ppc, tail, cached_cons_head, staged>>
consVars == <<cbuf, cpc, head, cached_prod_tail, spurious_wakeups, timeout,
              taken, desc>>
vars     == <<shared, prodVars, consVars>>

\* The entries of a store buffer.
RingStore(s, d) == [loc |-> "ring", at |-> s, val |-> d]
Store(l, v)     == [loc |-> l, at |-> 0, val |-> v]
PEntries ==
  [loc : {"ring"}, at : Slots, val : Word]
    \cup [loc : {"prod_tail"}, at : {0}, val : Word]
    \cup [loc : {"prod_sleeping"}, at : {0}, val : {0, 1}]
CEntries ==
  [loc : {"cons_head"}, at : {0}, val : Word]
    \cup [loc : {"cons_sleeping"}, at : {0}, val : {0, 1}]

PPcs == {"idle", "got", "staged", "fence", "thresh", "wake", "spin", "armed",
         "futex", "blocked", "woken", "verify", "null"}
CPcs == {"idle", "spin", "armed", "futex", "blocked", "woken", "verify",
         "have", "released", "wake", "dead", "corrupt"}

\* Faulty variant of both fences below: only a compiler barrier.
Bug_CompilerBarrier(buf) == TRUE

\* FLIPC2_WRITE_FENCE: a compiler barrier on x86, which leaves the store
\* buffer alone, and __sync_synchronize() in every other build.
WRITE_FENCE(buf) == FULL_FENCE_BUILD => buf = <<>>
\* FLIPC2_FULL_FENCE: mfence, in both builds.
FULL_FENCE(buf) == buf = <<>>
\* A futex trap: the kernel's locked instructions drain the buffer too.
Trap(buf) == buf = <<>>

\* flipc2_channel_init_header and the two handles onto a fresh channel.
Init ==
  /\ ring = [s \in Slots |-> NONE]
  /\ prod_tail = 0 /\ cons_head = 0
  /\ prod_sleeping = 0 /\ cons_sleeping = 0
  /\ pbuf = <<>> /\ cbuf = <<>>
  /\ ppc = "idle" /\ tail = 0 /\ cached_cons_head = 0 /\ staged = 0
  /\ cpc = "idle" /\ head = 0 /\ cached_prod_tail = 0
  /\ spurious_wakeups = 0 /\ timeout = "wait" /\ taken = 0 /\ desc = NONE

-----------------------------------------------------------------------------
(* The processors: the oldest buffered store reaches the memory. *)

DrainProducer ==
  /\ pbuf # <<>>
  /\ LET e == Head(pbuf) IN
       /\ ring' = IF e.loc = "ring" THEN [ring EXCEPT ![e.at] = e.val] ELSE ring
       /\ prod_tail' = IF e.loc = "prod_tail" THEN e.val ELSE prod_tail
       /\ prod_sleeping' =
            IF e.loc = "prod_sleeping" THEN e.val ELSE prod_sleeping
  /\ pbuf' = Tail(pbuf)
  /\ UNCHANGED <<cons_head, cons_sleeping, ppc, tail, cached_cons_head, staged,
                 consVars>>

DrainConsumer ==
  /\ cbuf # <<>>
  /\ LET e == Head(cbuf) IN
       /\ cons_head' = IF e.loc = "cons_head" THEN e.val ELSE cons_head
       /\ cons_sleeping' =
            IF e.loc = "cons_sleeping" THEN e.val ELSE cons_sleeping
  /\ cbuf' = Tail(cbuf)
  /\ UNCHANGED <<ring, prod_tail, prod_sleeping, prodVars, cpc, head,
                 cached_prod_tail, spurious_wakeups, timeout, taken, desc>>

-----------------------------------------------------------------------------
(* Producer. *)

\* flipc2_channel_attach: another thread takes over the role with a new handle,
\* whose caches start at 0 whatever the counters of the channel are.
AttachProducer ==
  /\ ppc = "idle"
  /\ tail \in AttachAt
  /\ Trap(pbuf)
  /\ cached_cons_head' = 0
  /\ UNCHANGED <<shared, pbuf, ppc, tail, staged, consVars>>

\* space == 0 and space > re, for the cons_head value h.
Full(h)     == flipc2_ring_free(tail, h) = 0
Overrun(h)  == flipc2_ring_free(tail, h) > RING_ENTRIES
\* Faulty variant: the full ring is taken for one with room.
Bug_FullHasSpace(h) == ~Overrun(h)
HasSpace(h) == ~Full(h) /\ ~Overrun(h)

\* The cons_head that a reservation works with: the cached one while it still
\* leaves room, otherwise a fresh load.
RefreshedHead ==
  IF HasSpace(cached_cons_head) THEN cached_cons_head ELSE cons_head

\* flipc2_produce_reserve; NULL leaves the caller where it was.
Reserve ==
  /\ "reserve" \in ProduceOps
  /\ ppc \in {"idle", "staged"}
  /\ staged < BATCH
  /\ cached_cons_head' = RefreshedHead
  /\ ppc' = IF HasSpace(RefreshedHead) THEN "got" ELSE ppc
  /\ UNCHANGED <<shared, pbuf, tail, staged, consVars>>

\* flipc2_produce_wait, down to the start of the spin.
ProduceWait ==
  /\ "wait" \in ProduceOps
  /\ ppc = "idle"
  /\ cached_cons_head' = RefreshedHead
  /\ ppc' = CASE HasSpace(RefreshedHead) -> "got"
              [] Overrun(RefreshedHead)  -> "null"
              [] OTHER                   -> "spin"
  /\ UNCHANGED <<shared, pbuf, tail, staged, consVars>>

\* Phase 1: one poll of cons_head.
ProduceSpin ==
  /\ ppc = "spin"
  /\ cached_cons_head' = cons_head
  /\ ppc' = CASE HasSpace(cons_head) -> "got"
              [] Overrun(cons_head)  -> "null"
              [] OTHER               -> "spin"
  /\ UNCHANGED <<shared, pbuf, tail, staged, consVars>>

\* The spin is over: phase 2 announces the sleep.
ProduceArm ==
  /\ ppc = "spin"
  /\ pbuf' = Append(pbuf, Store("prod_sleeping", 1))
  /\ ppc' = "armed"
  /\ UNCHANGED <<shared, tail, cached_cons_head, staged, consVars>>

\* Phase 2, after the fence: look at cons_head again.
ProduceRecheck ==
  /\ ppc = "armed"
  /\ WRITE_FENCE(pbuf)
  /\ cached_cons_head' = cons_head
  /\ IF Full(cons_head)
     THEN ppc' = "futex" /\ pbuf' = pbuf
     ELSE /\ ppc' = IF HasSpace(cons_head) THEN "got" ELSE "null"
          /\ pbuf' = Append(pbuf, Store("prod_sleeping", 0))
  /\ UNCHANGED <<shared, tail, staged, consVars>>

\* Phase 3: FUTEX_WAIT(cons_head, cached_cons_head).
ProduceFutexWait ==
  /\ ppc = "futex"
  /\ Trap(pbuf)
  /\ ppc' = IF cons_head = cached_cons_head THEN "blocked" ELSE "woken"
  /\ UNCHANGED <<shared, pbuf, tail, cached_cons_head, staged, consVars>>

ProduceAwake ==
  /\ ppc = "woken"
  /\ pbuf' = Append(pbuf, Store("prod_sleeping", 0))
  /\ ppc' = "verify"
  /\ UNCHANGED <<shared, tail, cached_cons_head, staged, consVars>>

\* The load after the wait; a ring that is still full gives NULL.
ProduceVerify ==
  /\ ppc = "verify"
  /\ cached_cons_head' = cons_head
  /\ ppc' = IF HasSpace(cons_head) THEN "got" ELSE "null"
  /\ UNCHANGED <<shared, pbuf, tail, staged, consVars>>

\* A caller that got NULL gives up on this descriptor (flipc_serve_one of
\* ext_server drops the reply).
ProduceNull ==
  /\ ppc = "null"
  /\ ppc' = "idle"
  /\ UNCHANGED <<shared, pbuf, tail, cached_cons_head, staged, consVars>>

\* The caller fills the descriptor it was given.  Descriptor number k carries
\* the value k; the slot is always the one at tail, reserve never moves on.
WriteDesc ==
  /\ ppc = "got"
  /\ pbuf' = Append(pbuf, RingStore(flipc2_ring_idx(tail), Add(tail, staged)))
  /\ staged' = staged + 1
  /\ ppc' = "staged"
  /\ UNCHANGED <<shared, tail, cached_cons_head, consVars>>

\* flipc2_produce_commit, and commit_n for staged > 1, up to the fence.
Commit ==
  /\ ppc = "staged"
  /\ tail' = Add(tail, staged)
  /\ pbuf' = Append(pbuf, Store("prod_tail", Add(tail, staged)))
  /\ staged' = 0
  /\ ppc' = "fence"
  /\ UNCHANGED <<shared, cached_cons_head, consVars>>

\* Faulty variant: the doorbell also waits for the threshold when THRESH is 1.
Bug_CheckConsumer ==
  /\ ppc = "fence"
  /\ FULL_FENCE(pbuf)
  /\ ppc' = IF cons_sleeping = 1 /\ flipc2_ring_count(tail, cons_head) > THRESH
            THEN "wake" ELSE "idle"
  /\ UNCHANGED <<shared, pbuf, tail, cached_cons_head, staged, consVars>>

\* After mfence: is the consumer asleep?
CheckConsumer ==
  /\ ppc = "fence"
  /\ FULL_FENCE(pbuf)
  /\ ppc' = CASE cons_sleeping = 0 -> "idle"
              [] THRESH <= 1       -> "wake"
              [] OTHER             -> "thresh"
  /\ UNCHANGED <<shared, pbuf, tail, cached_cons_head, staged, consVars>>

\* Doorbell coalescing: enough descriptors pending to ring it?
CheckThreshold ==
  /\ ppc = "thresh"
  /\ ppc' = IF flipc2_ring_count(tail, cons_head) >= THRESH
            THEN "wake" ELSE "idle"
  /\ UNCHANGED <<shared, pbuf, tail, cached_cons_head, staged, consVars>>

\* flipc2_produce_flush.
Flush ==
  /\ "flush" \in ProduceOps
  /\ ppc = "idle"
  /\ FULL_FENCE(pbuf)
  /\ ppc' = IF cons_sleeping = 1 THEN "wake" ELSE "idle"
  /\ UNCHANGED <<shared, pbuf, tail, cached_cons_head, staged, consVars>>

\* FUTEX_WAKE(prod_tail, 1).
WakeConsumer ==
  /\ ppc = "wake"
  /\ Trap(pbuf)
  /\ ppc' = "idle"
  /\ cpc' = IF cpc = "blocked" THEN "woken" ELSE cpc
  /\ UNCHANGED <<shared, pbuf, tail, cached_cons_head, staged, cbuf, head,
                 cached_prod_tail, spurious_wakeups, timeout, taken, desc>>

-----------------------------------------------------------------------------
(* Consumer. *)

\* flipc2_channel_attach, for the consumer's role.
AttachConsumer ==
  /\ cpc = "idle"
  /\ head \in AttachAt
  /\ Trap(cbuf)
  /\ cached_prod_tail' = 0
  /\ spurious_wakeups' = 0
  /\ UNCHANGED <<shared, prodVars, cbuf, cpc, head, timeout, taken, desc>>

Avail(t) == flipc2_ring_count(t, head)
HasData(t) == Avail(t) \in 1 .. RING_ENTRIES

\* The prod_tail that peek works with: cached while it shows data.
RefreshedTail ==
  IF HasData(cached_prod_tail) THEN cached_prod_tail ELSE prod_tail

\* flipc2_consume_peek; NULL sends the caller back to its loop.
Peek ==
  /\ "peek" \in ConsumeOps
  /\ cpc = "idle"
  /\ cached_prod_tail' = RefreshedTail
  /\ cpc' = IF HasData(RefreshedTail) THEN "have" ELSE "idle"
  /\ UNCHANGED <<shared, prodVars, cbuf, head, spurious_wakeups, timeout, taken,
                 desc>>

\* flipc2_consume_wait and flipc2_consume_wait_timed are entered.
ConsumeWait ==
  /\ cpc = "idle"
  /\ timeout' \in ConsumeOps \ {"peek"}
  /\ cpc' = "spin"
  /\ UNCHANGED <<shared, prodVars, cbuf, head, cached_prod_tail,
                 spurious_wakeups, taken, desc>>

\* Faulty variant: the spurious wakeup count survives a successful wait.
Bug_ReadyNoReset(t) ==
  /\ cpc' = IF HasData(t) THEN "have" ELSE "corrupt"
  /\ UNCHANGED spurious_wakeups

\* What a wait makes of the prod_tail it loaded when that is not head.
Ready(t) ==
  /\ cpc' = IF HasData(t) THEN "have" ELSE "corrupt"
  /\ spurious_wakeups' = IF HasData(t) THEN 0 ELSE spurious_wakeups

\* Phase 1: one poll of prod_tail.
ConsumeSpin ==
  /\ cpc = "spin"
  /\ cached_prod_tail' = prod_tail
  /\ IF prod_tail # head
     THEN Ready(prod_tail)
     ELSE UNCHANGED <<cpc, spurious_wakeups>>
  /\ UNCHANGED <<shared, prodVars, cbuf, head, timeout, taken, desc>>

\* The spin is over.  timeout_ms = 0 gives up here; otherwise phase 2.
ConsumeArm ==
  /\ cpc = "spin"
  /\ IF timeout = "zero"
     THEN cpc' = "idle" /\ cbuf' = cbuf
     ELSE cpc' = "armed" /\ cbuf' = Append(cbuf, Store("cons_sleeping", 1))
  /\ UNCHANGED <<shared, prodVars, head, cached_prod_tail, spurious_wakeups,
                 timeout, taken, desc>>

\* Phase 2, after mfence: look at prod_tail again.
ConsumeRecheck ==
  /\ cpc = "armed"
  /\ FULL_FENCE(cbuf)
  /\ cached_prod_tail' = prod_tail
  /\ IF prod_tail # head
     THEN /\ Ready(prod_tail)
          /\ cbuf' = Append(cbuf, Store("cons_sleeping", 0))
     ELSE /\ cpc' = "futex"
          /\ UNCHANGED <<cbuf, spurious_wakeups>>
  /\ UNCHANGED <<shared, prodVars, head, timeout, taken, desc>>

\* Phase 3: FUTEX_WAIT(prod_tail, head, timeout).
ConsumeFutexWait ==
  /\ cpc = "futex"
  /\ Trap(cbuf)
  /\ cpc' = IF prod_tail = head THEN "blocked" ELSE "woken"
  /\ UNCHANGED <<shared, prodVars, cbuf, head, cached_prod_tail,
                 spurious_wakeups, timeout, taken, desc>>

\* Faulty variant: the timed wait sleeps without its deadline.
Bug_ConsumeTimeout ==
  /\ cpc = "blocked"
  /\ timeout = "zero"
  /\ cpc' = "idle"
  /\ cbuf' = Append(cbuf, Store("cons_sleeping", 0))
  /\ UNCHANGED <<shared, prodVars, head, cached_prod_tail, spurious_wakeups,
                 timeout, taken, desc>>

\* The deadline of a timed wait ends the sleep: FLIPC2_ERR_TIMEOUT.
ConsumeTimeout ==
  /\ cpc = "blocked"
  /\ timeout = "timed"
  /\ cpc' = "idle"
  /\ cbuf' = Append(cbuf, Store("cons_sleeping", 0))
  /\ UNCHANGED <<shared, prodVars, head, cached_prod_tail, spurious_wakeups,
                 timeout, taken, desc>>

ConsumeAwake ==
  /\ cpc = "woken"
  /\ cpc' = "verify"
  /\ cbuf' = Append(cbuf, Store("cons_sleeping", 0))
  /\ UNCHANGED <<shared, prodVars, head, cached_prod_tail, spurious_wakeups,
                 timeout, taken, desc>>

\* The load after the wait.  No data is a spurious wakeup: counted, fatal at
\* the limit, a timeout for a timed wait and a new wait otherwise (with a
\* spin count of 0, so straight into phase 2).
ConsumeVerify ==
  /\ cpc = "verify"
  /\ cached_prod_tail' = prod_tail
  /\ IF prod_tail # head
     THEN Ready(prod_tail) /\ cbuf' = cbuf
     ELSE /\ spurious_wakeups' = spurious_wakeups + 1
          /\ IF spurious_wakeups + 1 >= MAX_SPURIOUS
             THEN cpc' = "dead" /\ cbuf' = cbuf
             ELSE IF timeout = "timed"
             THEN cpc' = "idle" /\ cbuf' = cbuf
             ELSE /\ cpc' = "armed"
                  /\ cbuf' = Append(cbuf, Store("cons_sleeping", 1))
  /\ UNCHANGED <<shared, prodVars, head, timeout, taken, desc>>

\* The caller reads the next descriptor it knows to be there.
ReadDesc ==
  /\ cpc = "have"
  /\ taken < RELEASE
  /\ taken < Avail(cached_prod_tail)
  /\ desc' = ring[flipc2_ring_idx(Add(head, taken))]
  /\ taken' = taken + 1
  /\ UNCHANGED <<shared, prodVars, cbuf, cpc, head, cached_prod_tail,
                 spurious_wakeups, timeout>>

\* flipc2_consume_release, and release_n for taken > 1, up to the fence.
Release ==
  /\ cpc = "have"
  /\ taken > 0
  /\ head' = Add(head, taken)
  /\ cbuf' = Append(cbuf, Store("cons_head", Add(head, taken)))
  /\ taken' = 0
  /\ cpc' = "released"
  /\ UNCHANGED <<shared, prodVars, cached_prod_tail, spurious_wakeups, timeout,
                 desc>>

\* After the fence: is the producer asleep?
CheckProducer ==
  /\ cpc = "released"
  /\ WRITE_FENCE(cbuf)
  /\ cpc' = IF prod_sleeping = 1 THEN "wake" ELSE "idle"
  /\ UNCHANGED <<shared, prodVars, cbuf, head, cached_prod_tail,
                 spurious_wakeups, timeout, taken, desc>>

\* Faulty variant: the wake goes to the consumer's futex, where nobody sleeps.
Bug_WakeWrongWord ==
  /\ cpc = "wake"
  /\ Trap(cbuf)
  /\ cpc' = "idle"
  /\ ppc' = ppc
  /\ UNCHANGED <<shared, pbuf, tail, cached_cons_head, staged, cbuf, head,
                 cached_prod_tail, spurious_wakeups, timeout, taken, desc>>

\* FUTEX_WAKE(cons_head, all).
WakeProducer ==
  /\ cpc = "wake"
  /\ Trap(cbuf)
  /\ cpc' = "idle"
  /\ ppc' = IF ppc = "blocked" THEN "woken" ELSE ppc
  /\ UNCHANGED <<shared, pbuf, tail, cached_cons_head, staged, cbuf, head,
                 cached_prod_tail, spurious_wakeups, timeout, taken, desc>>

-----------------------------------------------------------------------------
ProduceCall == Reserve \/ ProduceWait \/ Flush
ProduceStep ==
  \/ ProduceSpin \/ ProduceArm \/ ProduceRecheck \/ ProduceFutexWait
  \/ ProduceAwake \/ ProduceVerify \/ ProduceNull \/ WriteDesc \/ Commit
  \/ CheckConsumer \/ CheckThreshold \/ WakeConsumer
ConsumeCall == Peek \/ ConsumeWait
Attach == AttachProducer \/ AttachConsumer
ConsumeStep ==
  \/ ConsumeSpin \/ ConsumeArm \/ ConsumeRecheck \/ ConsumeFutexWait
  \/ ConsumeTimeout \/ ConsumeAwake \/ ConsumeVerify \/ ReadDesc \/ Release
  \/ CheckProducer \/ WakeProducer
Drain == DrainProducer \/ DrainConsumer

Next ==
  \/ ProduceCall \/ ProduceStep \/ ConsumeCall \/ ConsumeStep
  \/ Attach \/ Drain

Spec == Init /\ [][Next]_vars

\* Processors drain their buffers, both sides finish the calls they make, and
\* the consumer's service loop calls again.  Nothing makes the producer call.
Fairness ==
  /\ WF_vars(DrainProducer) /\ WF_vars(DrainConsumer)
  /\ WF_vars(ProduceStep)
  /\ WF_vars(ConsumeStep) /\ WF_vars(ConsumeCall)

FairSpec == Spec /\ Fairness

-----------------------------------------------------------------------------
(* Properties. *)

\* Every variable keeps the type it has in struct flipc2_channel_header and
\* struct flipc2_channel; in particular the counters stay 32-bit words.
TypeOK ==
  /\ ring \in [Slots -> Word \cup {NONE}]
  /\ prod_tail \in Word /\ cons_head \in Word
  /\ prod_sleeping \in {0, 1} /\ cons_sleeping \in {0, 1}
  /\ pbuf \in Seq(PEntries) /\ cbuf \in Seq(CEntries)
  /\ ppc \in PPcs /\ tail \in Word /\ cached_cons_head \in Word
  /\ staged \in 0 .. BATCH
  /\ cpc \in CPcs /\ head \in Word /\ cached_prod_tail \in Word
  /\ spurious_wakeups \in Nat /\ timeout \in {"wait", "timed", "zero"}
  /\ taken \in 0 .. RELEASE /\ desc \in Word \cup {NONE}

\* The k-th descriptor the consumer reads is the k-th one the producer filled:
\* no slot is read before its descriptor is in memory, none is overwritten
\* before it is released, none is skipped or delivered twice, across stale
\* cached counters, store buffers and the wrap of the counter words.
InOrder == taken > 0 => desc = Add(head, taken - 1)

\* Two honest sides never take the ring for corrupt: the counters either side
\* loads, however stale, never look further apart than ring_entries.
NoFalseCorruption ==
  /\ cpc # "corrupt"
  /\ ppc = "null" => ~Overrun(cached_cons_head)

\* flipc2_consume_wait never sleeps through a commit: when it is blocked and
\* prod_tail has moved, the producer is still on its way to FUTEX_WAKE.
NoLostConsumerWakeup ==
  cpc = "blocked" /\ prod_tail # head => ppc \in {"fence", "wake"}

\* flipc2_produce_wait never sleeps through a release: when it is blocked and
\* cons_head has moved, the consumer is still on its way to FUTEX_WAKE.
NoLostProducerWakeup ==
  ppc = "blocked" /\ cons_head # cached_cons_head => cpc \in {"released", "wake"}

\* An honest producer's late wakeups never add up to the spurious wakeup
\* limit, so a consumer that only uses flipc2_consume_wait and
\* flipc2_consume_wait_timed never declares a live channel dead.
NoFalseDeath == cpc # "dead"

\* A consumer asleep without a deadline while a descriptor is in the ring
\* gets it.
CommitReachesSleeper ==
  (cpc = "blocked" /\ timeout = "wait" /\ prod_tail # head) ~> (cpc = "have")

\* A producer blocked on a full ring gets out of the kernel again.
ProducerUnblocks == (ppc = "blocked") ~> (ppc # "blocked")

\* Every published descriptor is delivered, also when doorbell coalescing
\* suppresses the wakeup and only the deadline of a timed wait ends the sleep.
Delivered == (prod_tail # head) ~> (cpc = "have")

\* The ring from the consumer's head to the published tail is the queue of
\* module Fifo: publishing is Send, a release is Receive.
Window == [i \in 1 .. flipc2_ring_count(prod_tail, head) |->
             ring[flipc2_ring_idx(Add(head, i - 1))]]
Channel == INSTANCE Fifo WITH Capacity <- RING_ENTRIES, Modulus <- WORD,
                              queue <- Window, next <- prod_tail
ImplementsFifo == Channel!FifoSpec
=============================================================================
