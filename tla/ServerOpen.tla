------------------------------ MODULE ServerOpen ------------------------------
(* CServerSocket::attempt and the destructor: several programs that serve     *)
(* under one path, and what happens to the socket file.  Each call into the   *)
(* kernel is a step; a program may be killed between any two.                 *)
EXTENDS Naturals, FiniteSets

CONSTANTS
    Servers,        \* programs
    StartsAlone,    \* no program starts while another starts or ends
    EndsAlone,      \* none starts while another is in its destructor
    MaxSockets      \* bound: sockets that are bound

ASSUME ServerOpenAssumption ==
    StartsAlone \in BOOLEAN /\ EndsAlone \in BOOLEAN /\ MaxSockets \in Nat

VARIABLES
    file,       \* the socket that the file at the path stands for, 0 if there is none
    sockets,    \* how many were bound
    listening,  \* those that listen and are open
    fd,         \* m_fd of each program, 0 if it has none bound
    pc          \* where attempt and the destructor are

openVars == <<file, sockets, listening, fd, pc>>

Starting == {"exists", "probe", "remove", "bind", "listen"}
Ending == {"unlink"}

ServerOpenInit ==
    /\ file = 0 /\ sockets = 0 /\ listening = {}
    /\ fd = [s \in Servers |-> 0] /\ pc = [s \in Servers |-> "out"]

Goes(s, where) == pc' = [pc EXCEPT ![s] = where]

Open(s) ==
    /\ pc[s] \in {"out", "failed"}
    /\ StartsAlone => \A t \in Servers : pc[t] \notin Starting
    /\ EndsAlone => \A t \in Servers : pc[t] \notin Ending
    /\ Goes(s, "exists")
    /\ UNCHANGED <<file, sockets, listening, fd>>

Exists(s) ==
    /\ pc[s] = "exists"
    /\ Goes(s, IF file # 0 THEN "probe" ELSE "bind")
    /\ UNCHANGED <<file, sockets, listening, fd>>

(* connect: ECONNREFUSED from a file whose socket nobody listens on, ENOENT   *)
(* when the file is gone by now.                                              *)
Refused == file # 0 /\ file \notin listening
ProbeTrusting(s) ==    \* mutant: takes every failure of connect for a stale file
    /\ pc[s] = "probe"
    /\ Goes(s, "remove")
    /\ UNCHANGED <<file, sockets, listening, fd>>
Probe(s) ==
    /\ pc[s] = "probe"
    /\ Goes(s, IF Refused THEN "remove" ELSE "failed")
    /\ UNCHANGED <<file, sockets, listening, fd>>

(* Whatever stands under the path by now.                                     *)
RemoveNothing(s) ==    \* mutant: the file is left to bind
    /\ pc[s] = "remove"
    /\ Goes(s, "bind")
    /\ UNCHANGED <<file, sockets, listening, fd>>
Remove(s) ==
    /\ pc[s] = "remove"
    /\ file' = 0
    /\ Goes(s, "bind")
    /\ UNCHANGED <<sockets, listening, fd>>

Bind(s) ==
    /\ pc[s] = "bind"
    /\ IF file # 0
       THEN Goes(s, "failed") /\ UNCHANGED <<file, sockets, fd>>
       ELSE /\ sockets < MaxSockets
            /\ sockets' = sockets + 1
            /\ file' = sockets' /\ fd' = [fd EXCEPT ![s] = sockets']
            /\ Goes(s, "listen")
    /\ UNCHANGED listening

Listen(s) ==
    /\ pc[s] = "listen"
    /\ listening' = listening \cup {fd[s]}
    /\ Goes(s, "serving")
    /\ UNCHANGED <<file, sockets, fd>>

(* The destructor closes the socket first and removes the file afterwards.    *)
CloseKeeping(s) ==    \* mutant: only removes the file
    /\ pc[s] = "serving"
    /\ EndsAlone => \A t \in Servers : pc[t] \notin Starting
    /\ Goes(s, "unlink")
    /\ UNCHANGED <<file, sockets, listening, fd>>
Close(s) ==
    /\ pc[s] = "serving"
    /\ EndsAlone => \A t \in Servers : pc[t] \notin Starting
    /\ listening' = listening \ {fd[s]} /\ fd' = [fd EXCEPT ![s] = 0]
    /\ Goes(s, "unlink")
    /\ UNCHANGED <<file, sockets>>

Unlink(s) ==
    /\ pc[s] = "unlink"
    /\ file' = 0
    /\ Goes(s, "out")
    /\ UNCHANGED <<sockets, listening, fd>>

(* The kernel closes the sockets of a program that is killed; the file stays. *)
Killed(s) ==
    /\ pc[s] \notin {"out", "failed"}
    /\ listening' = listening \ {fd[s]} /\ fd' = [fd EXCEPT ![s] = 0]
    /\ Goes(s, "out")
    /\ UNCHANGED <<file, sockets>>

Attempt(s) == Exists(s) \/ Probe(s) \/ Remove(s) \/ Bind(s) \/ Listen(s)

ServerOpenNext ==
    \E s \in Servers : Open(s) \/ Attempt(s) \/ Close(s) \/ Unlink(s) \/ Killed(s)

ServerOpenSpec == ServerOpenInit /\ [][ServerOpenNext]_openVars

-----------------------------------------------------------------------------
(* Properties.                                                                *)

(* A program holds a bound socket exactly from bind to the end of its service, *)
(* and only such sockets listen.                                              *)
ServerOpenTypeOK ==
    /\ sockets \in 0..MaxSockets /\ file \in 0..sockets
    /\ fd \in [Servers -> 0..sockets]
    /\ pc \in [Servers -> Starting \cup Ending \cup {"out", "failed", "serving"}]
    /\ \A s \in Servers : fd[s] # 0 <=> pc[s] \in {"listen", "serving"}
    /\ listening = {fd[s] : s \in {t \in Servers : pc[t] = "serving"}}

(* "check if the socket is alive": a program that serves is found under the   *)
(* path, so nobody took its file away, and it is the only one.                *)
AliveIsFound == \A s \in Servers : pc[s] = "serving" => file = fd[s]

(* A file that a killed program left behind, at whatever point it was killed, *)
(* keeps nobody from starting: an attempt fails only when another program     *)
(* serves.                                                                    *)
StaleIsReplaced ==
    [][\A s \in Servers :
        pc[s] # "failed" /\ pc'[s] = "failed" => \E t \in Servers \ {s} : pc[t] = "serving"]_openVars
=============================================================================
