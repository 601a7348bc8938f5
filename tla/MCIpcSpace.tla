----------------------------- MODULE MCIpcSpace -----------------------------
(***************************************************************************)
(* Small instances of IpcSpace.                                            *)
(***************************************************************************)
EXTENDS IpcSpace, TLC

CONSTANTS r1, w1, w2, p1, p2, p3, e1

\* The first table is full, the second has one slot more.
TwoTables == <<3, 4>>
\* A sparse name: past the first table, inside the second.
Asked     == {<<3, 0>>}
OldDest   == {<<2, 0>>}
BothDests == OldDest \cup Asked
\* Bound: a sender keeps to the destination in its cache, and sends to the
\* sparse one only before it has a cache and while all ports live.
DestBound ==
  \A t \in Senders :
    /\ cache[t] # NULL =>
         cache[t].dest \in OldDest /\ S[t].dest \in {NULL, cache[t].dest}
    /\ S[t].dest \in Asked => \A p \in Ports : port[p].active
\* The two workers are alike.
Alike     == Permutations(Workers)
=============================================================================
