---------------------------- MODULE MCFlipc2Spsc ----------------------------
(***************************************************************************)
(* Instances of Flipc2Spsc, and a statement of a comment that the code     *)
(* does not keep.                                                          *)
(***************************************************************************)
EXTENDS Flipc2Spsc

\* flipc2_produce_wait: "FUTEX_WAIT returns at once if it already has -> no
\* lost wakeup", in the x86 build.
ProducerWakeupKept == NoLostProducerWakeup
=============================================================================
