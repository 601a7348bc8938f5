-------------------------- MODULE MCFlipc2Endpoint --------------------------
(***************************************************************************)
(* A server with one reactor and one accept loop, and two clients.         *)
(***************************************************************************)
EXTENDS Flipc2Endpoint

CONSTANTS r, a, t1, t2
=============================================================================
