----------------------------- MODULE MCServerOpen -----------------------------
(* Small instances of ServerOpen.                                             *)
EXTENDS ServerOpen

CONSTANTS s1, s2, s3    \* programs
=============================================================================
