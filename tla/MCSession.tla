------------------------------ MODULE MCSession ------------------------------
(* Small instances of Session for TLC.                                        *)
EXTENDS Session

(* Every method has been in the protocol from the start.                      *)
MCSince == [m \in {"call", "make", "event"} |-> 0]

(* The event came with version 1 of the protocol.                             *)
MCSinceEvent == [MCSince EXCEPT !["event"] = 1]
=============================================================================
