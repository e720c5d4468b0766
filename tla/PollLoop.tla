------------------------------ MODULE PollLoop ------------------------------
(* The two threads of a server socket.  The application's thread dispatches;  *)
(* once it has extracted the loop descriptor a second thread polls for it:    *)
(* that thread takes a snapshot of the descriptors under m_pollmtx, sleeps in *)
(* poll(), writes a byte to the export pipe to wake the application's own     *)
(* event loop, and waits on a condition variable until dispatchEvents has     *)
(* run.  What is dispatched is the subject of ServerClient.                   *)
EXTENDS Naturals

CONSTANTS
    Clients,       \* the peers
    Listening,     \* the socket has a path (not m_isEmptyListener)
    AppInTime,     \* the application serves the loop descriptor within the thread's 5 s
    DispatchesAnyTime,  \* it also dispatches when the loop descriptor has nothing to read
    RemovesAnyTime,     \* it also removes clients outside the callbacks of a dispatch
    MaxBytes       \* bound: bytes left unread in the export pipe

ASSUME PollAssumption ==
    /\ Listening \in BOOLEAN /\ AppInTime \in BOOLEAN
    /\ DispatchesAnyTime \in BOOLEAN /\ RemovesAnyTime \in BOOLEAN
    /\ MaxBytes \in Nat

VARIABLES
    conn,        \* per peer: "out", "backlog" (connected, not accepted), "in" (m_clients), "gone"
    sent,        \* per peer: what the server has not read: "nothing", "data", "hangup"
    failed,      \* the clients with m_error set
    wakeup,      \* bytes in the wakeup pipe
    export,      \* bytes in the export pipe
    exit,        \* the exit pipe has a byte
    canPoll,     \* m_threadCanPoll
    pollEvent,   \* m_pollEvent
    main,        \* where the application's thread is
    block,       \* the argument of the dispatchEvents it is in
    thread,      \* where the poll thread is
    polled,      \* the clients in the poll thread's snapshot
    raced        \* m_clients changed while the poll thread was reading it

peerVars == <<conn, sent, failed>>
pipeVars == <<wakeup, export, exit>>
mainVars == <<main, block>>
threadVars == <<thread, polled, raced>>
flagVars == <<canPoll, pollEvent>>
pollVars == <<peerVars, pipeVars, flagVars, mainVars, threadVars>>

(* dispatchEvents holds m_pollmtx from its first drain to the release.        *)
Dispatching == {"drain", "clearEvent", "clearWakeup", "blocked", "drainAgain"}
Quitting == {"quit", "resetEvent", "exitWritten", "join", "over"}
MainPlaces == {"app", "release"} \cup Dispatching \cup Quitting
ThreadPlaces == {"none", "top", "lock", "copy", "poll", "check", "signal", "checked", "wait", "done"}

Registered == {c \in Clients : conn[c] = "in"}

PollInit ==
    /\ conn = [c \in Clients |-> "out"] /\ sent = [c \in Clients |-> "nothing"] /\ failed = {}
    /\ wakeup = 0 /\ export = 0 /\ exit = FALSE
    /\ canPoll = FALSE /\ pollEvent = FALSE
    /\ main = "app" /\ block = FALSE
    /\ thread = "none" /\ polled = {} /\ raced = FALSE

-----------------------------------------------------------------------------
(* The peers.                                                                 *)

PeerConnects(c) ==
    /\ Listening /\ conn[c] = "out" /\ main # "over"
    /\ conn' = [conn EXCEPT ![c] = "backlog"]
    /\ UNCHANGED <<sent, failed, pipeVars, flagVars, mainVars, threadVars>>

PeerSends(c, what) ==
    /\ conn[c] \in {"backlog", "in"} /\ sent[c] # "hangup"
    /\ sent' = [sent EXCEPT ![c] = what]
    /\ UNCHANGED <<conn, failed, pipeVars, flagVars, mainVars, threadVars>>

-----------------------------------------------------------------------------
(* The application, from its main loop or from a callback of a dispatch.      *)

InControl == main \in {"app", "drain", "drainAgain"}

(* addClient takes no lock: the poll thread may be reading m_clients.         *)
AddClientSilent(c) ==    \* mutant: no byte for the poller
    /\ InControl /\ conn[c] = "out"
    /\ conn' = [conn EXCEPT ![c] = "in"]
    /\ raced' = (raced \/ thread = "copy")
    /\ UNCHANGED <<sent, failed, pipeVars, flagVars, mainVars, thread, polled>>

AddClient(c) ==
    /\ InControl /\ conn[c] = "out"
    /\ conn' = [conn EXCEPT ![c] = "in"]
    /\ wakeup' = wakeup + 1
    /\ raced' = (raced \/ thread = "copy")
    /\ UNCHANGED <<sent, failed, export, exit, flagVars, mainVars, thread, polled>>

(* Neither does removeClient, and it writes no byte.  In a callback the       *)
(* application's thread holds m_pollmtx already.                              *)
RemoveClient(c) ==
    /\ InControl /\ conn[c] = "in"
    /\ RemovesAnyTime \/ main # "app" \/ thread = "none"
    /\ conn' = [conn EXCEPT ![c] = "gone"]
    /\ raced' = (raced \/ thread = "copy")
    /\ UNCHANGED <<sent, failed, pipeVars, flagVars, mainVars, thread, polled>>

ExtractLoopFD ==
    /\ main = "app" /\ thread = "none"
    /\ canPoll' = TRUE
    /\ thread' = "top"
    /\ UNCHANGED <<peerVars, pipeVars, pollEvent, mainVars, polled, raced>>

-----------------------------------------------------------------------------
(* dispatchEvents.                                                            *)

(* Without the poll thread the application calls it at will (the example      *)
(* server does nothing else); with it, when the loop descriptor is readable.  *)
DispatchEvents(blocking) ==
    /\ main = "app" /\ thread # "copy"
    /\ \/ thread = "none"
       \/ export > 0 /\ ~blocking
       \/ DispatchesAnyTime /\ ~blocking
    /\ main' = "drain"
    /\ block' = blocking
    /\ UNCHANGED <<peerVars, pipeVars, flagVars, threadVars>>

Draining == main \in {"drain", "drainAgain"}
Backlog == {c \in Clients : conn[c] = "backlog"}
Readable == {c \in Registered : sent[c] # "nothing"}

(* dispatchPending: a waiting connection first, by itself.                    *)
AcceptClient(c) ==
    /\ Draining /\ c \in Backlog
    /\ conn' = [conn EXCEPT ![c] = "in"]
    /\ UNCHANGED <<sent, failed, pipeVars, flagVars, mainVars, threadVars>>

(* Then every readable client, once; what some of them sent is malformed.     *)
(* When one of them hung up, all clients with an error are erased.            *)
DispatchExisting(malformed) ==
    /\ Draining /\ Backlog = {} /\ Readable # {} /\ malformed \subseteq Readable
    /\ LET hungUp == {c \in Readable : sent[c] = "hangup"}
       IN  /\ failed' = failed \cup malformed \cup hungUp
           /\ conn' = [c \in Clients |->
                         IF hungUp # {} /\ c \in Registered /\ c \in failed' THEN "gone" ELSE conn[c]]
    /\ sent' = [c \in Clients |-> IF c \in Readable THEN "nothing" ELSE sent[c]]
    /\ UNCHANGED <<pipeVars, flagVars, mainVars, threadVars>>

NothingPending ==
    /\ Draining /\ Backlog = {} /\ Readable = {}
    /\ main' = IF main = "drain" THEN "clearEvent" ELSE "release"
    /\ UNCHANGED <<peerVars, pipeVars, flagVars, block, threadVars>>

ClearEventFd ==
    /\ main = "clearEvent"
    /\ export' = 0
    /\ main' = "clearWakeup"
    /\ UNCHANGED <<peerVars, wakeup, exit, flagVars, block, threadVars>>

ClearWakeupFdOne ==    \* mutant: reads one byte, without a poll
    /\ main = "clearWakeup"
    /\ wakeup' = wakeup - 1
    /\ main' = IF block THEN "blocked" ELSE "release"
    /\ UNCHANGED <<peerVars, export, exit, flagVars, block, threadVars>>

ClearWakeupFd ==
    /\ main = "clearWakeup"
    /\ wakeup' = 0
    /\ main' = IF block THEN "blocked" ELSE "release"
    /\ UNCHANGED <<peerVars, export, exit, flagVars, block, threadVars>>

(* poll(-1) over everything the socket has; m_pollmtx is held.                *)
BlockingPoll ==
    /\ main = "blocked"
    /\ Backlog # {} \/ Readable # {} \/ wakeup > 0 \/ exit
    /\ main' = "drainAgain"
    /\ UNCHANGED <<peerVars, pipeVars, flagVars, block, threadVars>>

(* m_pollmtx is free.  Under m_exportPollMtx, which the thread holds from its *)
(* signal until it sleeps: reset the flag and notify.                         *)
ReleaseForgets ==    \* mutant: the flag is not reset and nobody is notified
    /\ main = "release" /\ thread # "checked"
    /\ main' = "app"
    /\ UNCHANGED <<peerVars, pipeVars, flagVars, block, threadVars>>

ReleaseThread ==
    /\ main = "release" /\ thread # "checked"
    /\ pollEvent' = FALSE
    /\ main' = "app"
    /\ thread' = IF thread = "wait" THEN "top" ELSE thread
    /\ UNCHANGED <<peerVars, pipeVars, canPoll, block, polled, raced>>

-----------------------------------------------------------------------------
(* The poll thread.                                                           *)

(* while (m_threadCanPoll)                                                    *)
ThreadLoopsKeeping ==    \* mutant: the snapshot is taken once
    /\ thread = "top"
    /\ thread' = IF ~canPoll THEN "done" ELSE IF polled = {} THEN "lock" ELSE "poll"
    /\ UNCHANGED <<peerVars, pipeVars, flagVars, mainVars, polled, raced>>

ThreadLoops ==
    /\ thread = "top"
    /\ thread' = IF canPoll THEN "lock" ELSE "done"
    /\ UNCHANGED <<peerVars, pipeVars, flagVars, mainVars, polled, raced>>

ThreadLocks ==
    /\ thread = "lock" /\ main \notin Dispatching
    /\ thread' = "copy"
    /\ raced' = FALSE
    /\ UNCHANGED <<peerVars, pipeVars, flagVars, mainVars, polled>>

(* The snapshot.  When m_clients was changed meanwhile, the thread read a     *)
(* vector that was being written: it may hold anything.                       *)
ThreadCopies ==
    /\ thread = "copy"
    /\ IF raced THEN polled' \in SUBSET Clients ELSE polled' = Registered
    /\ thread' = "poll"
    /\ UNCHANGED <<peerVars, pipeVars, flagVars, mainVars, raced>>

Ready ==
    \/ Backlog # {}
    \/ exit
    \/ wakeup > 0
    \/ \E c \in polled : conn[c] = "in" /\ sent[c] # "nothing"

(* poll() looks at the descriptors again when it is woken, so an event that   *)
(* the other thread consumed in between does not end it.                      *)
ThreadPolled ==
    /\ thread = "poll" /\ Ready
    /\ thread' = "check"
    /\ UNCHANGED <<peerVars, pipeVars, flagVars, mainVars, polled, raced>>

(* A descriptor of the snapshot that was closed may end the poll as well.     *)
ThreadPolledClosed ==
    /\ thread = "poll" /\ \E c \in polled : conn[c] # "in"
    /\ thread' = "check"
    /\ UNCHANGED <<peerVars, pipeVars, flagVars, mainVars, polled, raced>>

ThreadChecks ==
    /\ thread = "check"
    /\ thread' = IF canPoll THEN "signal" ELSE "done"
    /\ UNCHANGED <<peerVars, pipeVars, flagVars, mainVars, polled, raced>>

(* Under m_exportPollMtx; wait_for evaluates its predicate and then sleeps,   *)
(* without giving up the mutex in between.                                    *)
ThreadSignals ==
    /\ thread = "signal" /\ export < MaxBytes
    /\ pollEvent' = TRUE
    /\ export' = export + 1
    /\ thread' = "checked"
    /\ UNCHANGED <<peerVars, wakeup, exit, canPoll, mainVars, polled, raced>>

ThreadSleeps ==
    /\ thread = "checked"
    /\ thread' = "wait"
    /\ UNCHANGED <<peerVars, pipeVars, flagVars, mainVars, polled, raced>>

(* The application will release the thread, or is about to.                  *)
BeingServed == export > 0 \/ main \in Dispatching \cup {"release"}

ThreadTimesOut ==
    /\ thread = "wait"
    /\ AppInTime => ~BeingServed \/ main \in Quitting
    /\ thread' = "top"
    /\ UNCHANGED <<peerVars, pipeVars, flagVars, mainVars, polled, raced>>

-----------------------------------------------------------------------------
(* The destructor.  It takes no lock; join comes last.                        *)

Destroy ==
    /\ main = "app"
    /\ main' = IF thread = "none" THEN "over" ELSE "quit"
    /\ canPoll' = FALSE
    /\ UNCHANGED <<peerVars, pipeVars, pollEvent, block, threadVars>>

DestroyResets ==
    /\ main = "quit"
    /\ pollEvent' = FALSE
    /\ main' = "resetEvent"
    /\ UNCHANGED <<peerVars, pipeVars, canPoll, block, threadVars>>

DestroyForgetsExit ==    \* mutant: no byte in the exit pipe
    /\ main = "resetEvent"
    /\ main' = "exitWritten"
    /\ UNCHANGED <<peerVars, pipeVars, flagVars, block, threadVars>>

DestroyWritesExit ==
    /\ main = "resetEvent"
    /\ exit' = TRUE
    /\ main' = "exitWritten"
    /\ UNCHANGED <<peerVars, wakeup, export, flagVars, block, threadVars>>

(* A thread that evaluated its predicate but does not sleep yet misses it.    *)
DestroyNotifies ==
    /\ main = "exitWritten"
    /\ thread' = IF thread = "wait" /\ ~pollEvent THEN "top" ELSE thread
    /\ main' = "join"
    /\ UNCHANGED <<peerVars, pipeVars, flagVars, block, polled, raced>>

DestroyJoins ==
    /\ main = "join" /\ thread = "done"
    /\ main' = "over"
    /\ UNCHANGED <<peerVars, pipeVars, flagVars, block, threadVars>>

(* The socket is gone, or the application waits for peers that never come.    *)
Over == main \in {"over", "blocked"} /\ UNCHANGED pollVars

-----------------------------------------------------------------------------
PeerStep ==
    \E c \in Clients :
        \/ PeerConnects(c)
        \/ \E what \in {"data", "hangup"} : PeerSends(c, what)

AppStep ==
    \/ \E c \in Clients : AddClient(c) \/ RemoveClient(c)
    \/ ExtractLoopFD
    \/ \E blocking \in BOOLEAN : DispatchEvents(blocking)
    \/ Destroy

DispatchStep ==
    \/ \E c \in Clients : AcceptClient(c)
    \/ \E malformed \in SUBSET Clients : DispatchExisting(malformed)
    \/ NothingPending
    \/ ClearEventFd
    \/ ClearWakeupFd
    \/ BlockingPoll
    \/ ReleaseThread

DestroyStep == DestroyResets \/ DestroyWritesExit \/ DestroyNotifies \/ DestroyJoins

ThreadStep ==
    \/ ThreadLoops
    \/ ThreadLocks
    \/ ThreadCopies
    \/ ThreadPolled
    \/ ThreadChecks
    \/ ThreadSignals
    \/ ThreadSleeps
    \/ ThreadTimesOut

PollNext ==
    \/ PeerStep
    \/ AppStep
    \/ DispatchStep
    \/ DestroyStep
    \/ ThreadStep
    \/ ThreadPolledClosed
    \/ Over

PollSpec == PollInit /\ [][PollNext]_pollVars

(* Both threads run, a free mutex is obtained in the end, no client outruns   *)
(* the server for ever, and the application has one of the two main loops of  *)
(* the examples: tests/Server.cpp dispatches in a blocking loop,              *)
(* tests/Fork.cpp whenever the loop descriptor is readable.                   *)
ServesLoopFD == export > 0 /\ DispatchEvents(FALSE)
BlockingLoop == thread = "none" /\ DispatchEvents(TRUE)

FairPollSpec ==
    /\ PollSpec
    /\ WF_pollVars(ThreadStep) /\ SF_pollVars(ThreadLocks)
    /\ WF_pollVars(DispatchStep) /\ SF_pollVars(NothingPending)
    /\ WF_pollVars(DestroyStep)
    /\ WF_pollVars(ServesLoopFD) /\ WF_pollVars(BlockingLoop)

-----------------------------------------------------------------------------
PollFlagsOK ==
    exit \in BOOLEAN /\ canPoll \in BOOLEAN /\ pollEvent \in BOOLEAN
    /\ block \in BOOLEAN /\ raced \in BOOLEAN

PollPlacesOK ==
    /\ conn \in [Clients -> {"out", "backlog", "in", "gone"}]
    /\ sent \in [Clients -> {"nothing", "data", "hangup"}]
    /\ wakeup \in Nat /\ export \in Nat
    /\ main \in MainPlaces /\ thread \in ThreadPlaces
    /\ polled \subseteq Clients /\ failed \subseteq Clients

(* Type correctness: bytes, places and flags keep their ranges, and the poll  *)
(* thread's snapshot holds peers only, also when it read a changing vector.   *)
PollTypeOK == PollFlagsOK /\ PollPlacesOK

(* The signal is not lost: while the poll thread waits for the application,   *)
(* its byte is still in the export pipe or the dispatch that read it has yet  *)
(* to release the thread, although dispatchEvents reads the byte, gives up    *)
(* m_pollmtx and resets m_pollEvent in three separate steps.                  *)
SignalNotLost ==
    thread \in {"checked", "wait"} /\ main \notin Quitting => BeingServed

(* Nobody is overlooked: while the poll thread sleeps with nothing ready and  *)
(* the application is outside the library, every client is in its snapshot.   *)
SleepsOnEveryone ==
    thread = "poll" /\ ~Ready /\ main = "app" => Registered \subseteq polled

(* Every connection is accepted and everything a client sends is dispatched,  *)
(* unless the application removes the client or destroys the socket.          *)
Unread(c) == c \in Backlog \/ c \in Readable
EveryMessageRead ==
    \A c \in Clients : Unread(c) ~> ~Unread(c) \/ main \in Quitting

(* The destructor ends, wherever the poll thread is when it starts.           *)
DestructorEnds == main = "quit" ~> main = "over"

(* A comment of addClient says that its byte is there to "wake up any         *)
(* poller": a client that was added is in the poll thread's snapshot at some  *)
(* later time.                                                                *)
AddedIsPolled ==
    \A c \in Clients :
        c \in Registered /\ thread # "none"
            ~> c \in polled \/ conn[c] = "gone" \/ main \in Quitting
=============================================================================
