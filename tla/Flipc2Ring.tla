----------------------------- MODULE Flipc2Ring -----------------------------
(***************************************************************************)
(* The arithmetic of a FLIPC v2 descriptor ring.  prod_tail, cons_head and *)
(* prod_reserved are free-running uint32_t counters: additions and         *)
(* subtractions wrap at WORD (2^32 in the code), and the slot of a counter *)
(* is its low bits (ptr & ring_mask, ring_entries being a power of two     *)
(* that divides 2^32).                                                     *)
(***************************************************************************)
EXTENDS Integers

CONSTANTS
  RING_ENTRIES,       \* slots of the ring (ring_entries)
  WORD                \* number of values of a counter word

\* FLIPC2_RING_ENTRIES_MAX is 2^14, far below 2^32; that the ring divides the
\* word is what makes "& ring_mask" survive a wrap.
ASSUME RingAssumption ==
  /\ RING_ENTRIES \in Nat \ {0}
  /\ WORD \in Nat
  /\ WORD >= 4 * RING_ENTRIES
  /\ WORD % RING_ENTRIES = 0

Word  == 0 .. WORD - 1
Slots == 0 .. RING_ENTRIES - 1
NONE  == WORD                     \* what a slot holds before any write

\* Faulty variant: the counter grows past its word.
Bug_AddNoWrap(a, n) == a + n

\* a + n in uint32_t.
Add(a, n) == (a + n) % WORD

flipc2_ring_count(t, h) == (t - h) % WORD
flipc2_ring_free(t, h)  == (RING_ENTRIES - (t - h)) % WORD
flipc2_ring_idx(w)      == w % RING_ENTRIES
=============================================================================
