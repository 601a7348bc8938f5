-------------------------- MODULE MCFlipc2Pollset --------------------------
(***************************************************************************)
(* Two channels.  One descriptor per ring is enough to make a channel      *)
(* ready; the counters wrap every four descriptors.                        *)
(***************************************************************************)
EXTENDS Flipc2Pollset
=============================================================================
