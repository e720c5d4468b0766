------------------------------ MODULE MCSocketIO ------------------------------
(* Small instances of SocketIO.                                               *)
EXTENDS SocketIO
=============================================================================
