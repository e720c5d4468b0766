---------------------------- MODULE MCServerPoll ----------------------------
(* Small instances of ServerPoll for TLC.                                     *)
EXTENDS ServerPoll

CONSTANTS c1, c2

MCTwo == {c1, c2}
=============================================================================
