-------------------------- MODULE MCFlipc2BufGroup --------------------------
(***************************************************************************)
(* Two clients and three slots: one client can pop two slots and push one  *)
(* back while the other is between its load and its swap (ABA).  Four      *)
(* versions, so that the counter wraps.                                    *)
(***************************************************************************)
EXTENDS Flipc2BufGroup
=============================================================================
