----------------------------- MODULE MCPollLoop -----------------------------
(* Small instances of PollLoop for TLC.                                       *)
EXTENDS PollLoop

CONSTANTS c1, c2

MCClients == {c1, c2}
=============================================================================
