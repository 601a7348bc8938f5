---------------------------- MODULE MCFlipc2Mpsc ----------------------------
(***************************************************************************)
(* A small instance of Flipc2Mpsc.                                         *)
(***************************************************************************)
EXTENDS Flipc2Mpsc

CONSTANTS a, b
=============================================================================
