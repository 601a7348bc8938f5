-------------------------- MODULE MCIpcMisdelivers --------------------------
(***************************************************************************)
(* IpcSpace with a history of what the destination of a call denoted.      *)
(***************************************************************************)
EXTENDS MCIpcSpace

\* Per sender, what its destination has denoted since the call began.
VARIABLE seen

Watch ==
  seen' = [t \in Senders |->
    IF S'[t].dest = NULL THEN {}
    ELSE (IF S[t].dest = NULL THEN {} ELSE seen[t]) \cup {rights'[S'[t].dest]}]

WatchedSpec ==
  /\ Init /\ seen = [t \in Senders |-> {}]
  /\ [][Next /\ Watch]_<<vars, seen>>

\* "So it never misdelivers: it confirms name->port at a valid linearization
\* point or gives up" (mach_msg.c:871): a destination that is resolved is a
\* port that the name has denoted at some moment of the call.
NeverMisdelivers ==
  \A t \in Senders : S[t].pc = "fill" => Id(S[t].dp) \in seen[t]
=============================================================================
