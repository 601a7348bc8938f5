-------------------------------- MODULE Fifo --------------------------------
(***************************************************************************)
(* What a FLIPC v2 channel promises its two callers: a bounded queue that  *)
(* delivers every descriptor once, in the order they were published.       *)
(* Descriptor number k carries the value k (modulo the counter word).      *)
(***************************************************************************)
EXTENDS Integers, Sequences

CONSTANTS Capacity, Modulus

VARIABLES queue, next

FifoInit == queue = <<>> /\ next = 0

Send ==
  /\ Len(queue) < Capacity
  /\ queue' = Append(queue, next)
  /\ next' = (next + 1) % Modulus

\* A release of n descriptors takes the n oldest.
Receive ==
  /\ \E n \in 1 .. Len(queue) : queue' = SubSeq(queue, n + 1, Len(queue))
  /\ UNCHANGED next

FifoSpec == FifoInit /\ [][Send \/ Receive]_<<queue, next>>
=============================================================================
