-------------------------- MODULE ServerSocketProofs --------------------------
(* What a server socket keeps, for any number of peers and programs: first    *)
(* what its two threads never do (PollLoop), then how it holds its path       *)
(* against other programs (ServerOpen).                                       *)
EXTENDS PollLoop, ServerOpen, TLAPS

-----------------------------------------------------------------------------
(* The main loop and the poll thread.                                         *)
USE DEF Dispatching, Quitting, MainPlaces, ThreadPlaces, peerVars, pipeVars, mainVars,
        threadVars, flagVars, pollVars, InControl, Draining

-----------------------------------------------------------------------------
LEMMA FlagsStep ==
    ASSUME PollFlagsOK, [PollNext]_pollVars
    PROVE  PollFlagsOK'
<1> USE DEF PollFlagsOK
<1>1. CASE PeerStep
  BY <1>1, Zenon DEF PeerStep, PeerConnects, PeerSends
<1>2. CASE AppStep
  BY <1>2, Zenon DEF AppStep, AddClient, RemoveClient, ExtractLoopFD, DispatchEvents, Destroy
<1>3. CASE DispatchStep
  BY <1>3, Zenon DEF DispatchStep, AcceptClient, DispatchExisting, NothingPending, ClearEventFd,
                     ClearWakeupFd, BlockingPoll, ReleaseThread
<1>4. CASE DestroyStep
  BY <1>4, Zenon DEF DestroyStep, DestroyResets, DestroyWritesExit, DestroyNotifies, DestroyJoins
<1>5. CASE ThreadStep
  BY <1>5, Zenon DEF ThreadStep, ThreadLoops, ThreadLocks, ThreadCopies, ThreadPolled,
                     ThreadChecks, ThreadSignals, ThreadSleeps, ThreadTimesOut
<1>6. CASE ThreadPolledClosed \/ Over \/ UNCHANGED pollVars
  BY <1>6, Zenon DEF ThreadPolledClosed, Over
<1> QED BY <1>1, <1>2, <1>3, <1>4, <1>5, <1>6 DEF PollNext

LEMMA PlacesStep ==
    ASSUME PollPlacesOK, [PollNext]_pollVars
    PROVE  PollPlacesOK'
<1> USE DEF PollPlacesOK
<1>1. CASE PeerStep
  BY <1>1 DEF PeerStep, PeerConnects, PeerSends
<1>2. CASE AppStep
  BY <1>2 DEF AppStep, AddClient, RemoveClient, ExtractLoopFD, DispatchEvents, Destroy
<1>3. CASE DispatchStep
  <2>1. ASSUME NEW c \in Clients, AcceptClient(c) PROVE PollPlacesOK'
    BY <2>1 DEF AcceptClient
  <2>2. ASSUME NEW malformed \in SUBSET Clients, DispatchExisting(malformed) PROVE PollPlacesOK'
    BY <2>2 DEF DispatchExisting, Readable, Registered
  <2>3. CASE NothingPending \/ ClearEventFd \/ ClearWakeupFd
    BY <2>3 DEF NothingPending, ClearEventFd, ClearWakeupFd
  <2>4. CASE BlockingPoll \/ ReleaseThread
    BY <2>4 DEF BlockingPoll, ReleaseThread
  <2> QED BY <1>3, <2>1, <2>2, <2>3, <2>4 DEF DispatchStep
<1>4. CASE DestroyStep
  BY <1>4 DEF DestroyStep, DestroyResets, DestroyWritesExit, DestroyNotifies, DestroyJoins
<1>5. CASE ThreadStep
  BY <1>5 DEF ThreadStep, ThreadLoops, ThreadLocks, ThreadCopies, ThreadPolled, ThreadChecks,
              ThreadSignals, ThreadSleeps, ThreadTimesOut, Registered
<1>6. CASE ThreadPolledClosed \/ Over \/ UNCHANGED pollVars
  BY <1>6 DEF ThreadPolledClosed, Over
<1> QED BY <1>1, <1>2, <1>3, <1>4, <1>5, <1>6 DEF PollNext

(* Every variable keeps its range, whatever the two threads do.               *)
THEOREM PollTypeCorrect == PollSpec => []PollTypeOK
<1>1. PollInit => PollFlagsOK
  BY Zenon DEF PollInit, PollFlagsOK
<1>2. PollInit => PollPlacesOK
  BY DEF PollInit, PollPlacesOK
<1>3. PollTypeOK /\ [PollNext]_pollVars => PollTypeOK'
  BY FlagsStep, PlacesStep DEF PollTypeOK
<1>4. PollInit => PollTypeOK
  BY <1>1, <1>2 DEF PollTypeOK
<1> QED BY <1>3, <1>4, PTL DEF PollSpec

-----------------------------------------------------------------------------
(* SignalNotLost is inductive: the byte is read only by a dispatch that still *)
(* has the release before it, and the release leaves no thread waiting.       *)
LEMMA SignalStep ==
    ASSUME PollTypeOK, SignalNotLost, [PollNext]_pollVars
    PROVE  SignalNotLost'
<1> USE DEF SignalNotLost, BeingServed
<1>1. CASE PeerStep
  BY <1>1 DEF PeerStep, PeerConnects, PeerSends
<1>2. CASE AppStep
  BY <1>2 DEF AppStep, AddClient, RemoveClient, ExtractLoopFD, DispatchEvents, Destroy
<1>3. CASE DispatchStep
  BY <1>3 DEF DispatchStep, AcceptClient, DispatchExisting, NothingPending, ClearEventFd,
              ClearWakeupFd, BlockingPoll, ReleaseThread
<1>4. CASE DestroyStep
  BY <1>4 DEF DestroyStep, DestroyResets, DestroyWritesExit, DestroyNotifies, DestroyJoins
<1>5. CASE ThreadStep
  BY <1>5 DEF PollTypeOK, PollPlacesOK, ThreadStep, ThreadLoops, ThreadLocks, ThreadCopies, ThreadPolled,
              ThreadChecks, ThreadSignals, ThreadSleeps, ThreadTimesOut
<1>6. CASE ThreadPolledClosed \/ Over \/ UNCHANGED pollVars
  BY <1>6 DEF ThreadPolledClosed, Over
<1> QED BY <1>1, <1>2, <1>3, <1>4, <1>5, <1>6 DEF PollNext

(* A poll thread that waits is always going to be released: its byte is in    *)
(* the export pipe, or the dispatch that read it has not released it yet.     *)
(* This holds for late applications too.                                      *)
THEOREM SignalKept == PollSpec => []SignalNotLost
<1>1. PollInit => SignalNotLost
  BY DEF PollInit, SignalNotLost
<1>2. PollTypeOK /\ SignalNotLost /\ [PollNext]_pollVars => SignalNotLost'
  BY SignalStep
<1> QED BY <1>1, <1>2, PollTypeCorrect, PTL DEF PollSpec

-----------------------------------------------------------------------------
(* With an application that dispatches only when the loop descriptor is       *)
(* readable, and in time, the two threads take turns: the poll thread moves   *)
(* only while the application is outside the library and the export pipe is   *)
(* empty, and a dispatch leaves the pipe empty.                               *)
Turns ==
    /\ thread \in {"top", "lock", "copy", "poll", "check", "signal"}
           => main \in {"app"} \cup Quitting /\ (main = "app" => export = 0)
    /\ thread = "none" => export = 0
    /\ main \in {"clearWakeup", "blocked", "drainAgain", "release"} => export = 0

(* While it sleeps, or copies, the clients it does not know of have left a    *)
(* byte in the wakeup pipe.                                                   *)
UnknownWakes ==
    main = "app" /\ wakeup = 0 =>
        /\ thread = "copy" => ~raced
        /\ thread = "poll" => Registered \subseteq polled

Orderly == AppInTime /\ ~DispatchesAnyTime /\ ~RemovesAnyTime

LEMMA TurnsStep ==
    ASSUME Orderly, PollTypeOK, SignalNotLost, Turns, [PollNext]_pollVars
    PROVE  Turns'
<1> USE DEF Turns, Orderly
<1>1. CASE PeerStep
  BY <1>1 DEF PeerStep, PeerConnects, PeerSends
<1>2. CASE AppStep
  BY <1>2 DEF PollTypeOK, PollPlacesOK, AppStep, AddClient, RemoveClient, ExtractLoopFD, DispatchEvents, Destroy
<1>3. CASE DispatchStep
  BY <1>3 DEF DispatchStep, AcceptClient, DispatchExisting, NothingPending, ClearEventFd,
              ClearWakeupFd, BlockingPoll, ReleaseThread
<1>4. CASE DestroyStep
  BY <1>4 DEF DestroyStep, DestroyResets, DestroyWritesExit, DestroyNotifies, DestroyJoins
<1>5. CASE ThreadStep
  BY <1>5 DEF PollTypeOK, PollPlacesOK, SignalNotLost, BeingServed, ThreadStep, ThreadLoops, ThreadLocks,
              ThreadCopies, ThreadPolled, ThreadChecks, ThreadSignals, ThreadSleeps, ThreadTimesOut
<1>6. CASE ThreadPolledClosed \/ Over \/ UNCHANGED pollVars
  BY <1>6 DEF ThreadPolledClosed, Over
<1> QED BY <1>1, <1>2, <1>3, <1>4, <1>5, <1>6 DEF PollNext

(* The clients that the poll thread does not know of were added since its     *)
(* last snapshot, by addClient in the main loop, which left a byte; only a    *)
(* dispatch reads that byte, and then the thread takes a new snapshot.        *)
LEMMA UnknownWakesStep ==
    ASSUME Orderly, PollTypeOK, Turns, UnknownWakes, [PollNext]_pollVars
    PROVE  UnknownWakes'
<1> USE DEF UnknownWakes, Registered
<1>1. CASE PeerStep
  BY <1>1 DEF PeerStep, PeerConnects, PeerSends, PollTypeOK, PollPlacesOK
<1>2. CASE AppStep
  <2>1. ASSUME NEW c \in Clients, AddClient(c) PROVE UnknownWakes'
    BY <2>1 DEF AddClient, PollTypeOK, PollPlacesOK
  <2>2. ASSUME NEW c \in Clients, RemoveClient(c) PROVE UnknownWakes'
    BY <2>2 DEF RemoveClient, PollTypeOK, PollPlacesOK, Orderly
  <2>3. CASE ExtractLoopFD \/ Destroy \/ \E blocking \in BOOLEAN : DispatchEvents(blocking)
    BY <2>3 DEF ExtractLoopFD, Destroy, DispatchEvents
  <2> QED BY <1>2, <2>1, <2>2, <2>3 DEF AppStep
<1>3. CASE DispatchStep
  BY <1>3 DEF Turns, DispatchStep, AcceptClient, DispatchExisting, NothingPending, ClearEventFd,
              ClearWakeupFd, BlockingPoll, ReleaseThread
<1>4. CASE DestroyStep
  BY <1>4 DEF DestroyStep, DestroyResets, DestroyWritesExit, DestroyNotifies, DestroyJoins
<1>5. CASE ThreadStep
  BY <1>5 DEF ThreadStep, ThreadLoops, ThreadLocks, ThreadCopies, ThreadPolled, ThreadChecks,
              ThreadSignals, ThreadSleeps, ThreadTimesOut
<1>6. CASE ThreadPolledClosed \/ Over \/ UNCHANGED pollVars
  BY <1>6 DEF ThreadPolledClosed, Over
<1> QED BY <1>1, <1>2, <1>3, <1>4, <1>5, <1>6 DEF PollNext

(* With the event loop of tests/Fork.cpp no client is ever overlooked: when   *)
(* the poll thread sleeps and the application is outside the library, every   *)
(* client is being polled, whenever clients were accepted or added.           *)
THEOREM NobodyOverlooked ==
    ASSUME Orderly
    PROVE  PollSpec => []SleepsOnEveryone
<1>1. PollInit => Turns /\ UnknownWakes
  BY DEF PollInit, Turns, UnknownWakes
<1>2. PollTypeOK /\ SignalNotLost /\ Turns /\ UnknownWakes /\ [PollNext]_pollVars
          => Turns' /\ UnknownWakes'
  BY Orderly, TurnsStep, UnknownWakesStep
<1>3. PollTypeOK /\ UnknownWakes => SleepsOnEveryone
  BY DEF PollTypeOK, PollPlacesOK, UnknownWakes, SleepsOnEveryone, Ready
<1> QED BY <1>1, <1>2, <1>3, PollTypeCorrect, SignalKept, PTL DEF PollSpec

HIDE DEF Dispatching, Quitting, MainPlaces, ThreadPlaces, peerVars, pipeVars, mainVars,
         threadVars, flagVars, pollVars, InControl, Draining

-----------------------------------------------------------------------------
(* When programs under one path neither start nor end at the same time, the   *)
(* socket file is that of the program that serves, and a stale file stops     *)
(* nobody, wherever a program was killed before.  Whoever starts when, each   *)
(* program only ever uses a socket of its own.                                *)
PCs == Starting \cup Ending \cup {"out", "failed", "serving"}

OpenTypes ==
    /\ sockets \in Nat /\ file \in Nat
    /\ fd \in [Servers -> Nat] /\ pc \in [Servers -> PCs]

(* One at a time: while a program starts no other starts or ends, while one   *)
(* ends none serves, and one serves at most.                                  *)
OneAtATime ==
    \A s, t \in Servers : s # t =>
        /\ pc[s] \in Starting => pc[t] \notin Starting \cup Ending
        /\ pc[s] \in Ending \cup {"serving"} => pc[t] \notin Ending \cup {"serving"}

(* What a program that starts knows of the file still holds.                  *)
Knows ==
    \A s \in Servers :
        /\ pc[s] = "probe" => file # 0
        /\ pc[s] = "bind" => file = 0
        /\ pc[s] = "listen" => file = fd[s]
        /\ pc[s] \in {"remove", "bind", "listen", "unlink"} => \A t \in Servers : pc[t] # "serving"

(* A socket listens exactly while its program serves.                         *)
Sockets ==
    /\ \A s \in Servers : fd[s] # 0 <=> pc[s] \in {"listen", "serving"}
    /\ \A s \in Servers : pc[s] = "serving" => fd[s] \in listening
    /\ \A x \in listening : \E s \in Servers : pc[s] = "serving" /\ fd[s] = x

OpenInv == OpenTypes /\ OneAtATime /\ Knows /\ Sockets /\ AliveIsFound

LEMMA OpenInvStep ==
    ASSUME StartsAlone, EndsAlone, OpenInv, [ServerOpenNext]_openVars
    PROVE  OpenInv'
<1> USE DEF OpenInv, OpenTypes, PCs, Starting, Ending, Goes
<1>1. ASSUME NEW s \in Servers, Open(s) PROVE OpenInv'
  BY <1>1 DEF Open, OneAtATime, Knows, Sockets, AliveIsFound
<1>2. ASSUME NEW s \in Servers, Exists(s) PROVE OpenInv'
  BY <1>2 DEF Exists, OneAtATime, Knows, Sockets, AliveIsFound
<1>3. ASSUME NEW s \in Servers, Probe(s) PROVE OpenInv'
  BY <1>3 DEF Probe, Refused, OneAtATime, Knows, Sockets, AliveIsFound
<1>4. ASSUME NEW s \in Servers, Remove(s) PROVE OpenInv'
  BY <1>4 DEF Remove, OneAtATime, Knows, Sockets, AliveIsFound
<1>5. ASSUME NEW s \in Servers, Bind(s) PROVE OpenInv'
  BY <1>5 DEF Bind, OneAtATime, Knows, Sockets, AliveIsFound
<1>6. ASSUME NEW s \in Servers, Listen(s) PROVE OpenInv'
  BY <1>6 DEF Listen, OneAtATime, Knows, Sockets, AliveIsFound
<1>7. ASSUME NEW s \in Servers, Close(s) PROVE OpenInv'
  BY <1>7 DEF Close, OneAtATime, Knows, Sockets, AliveIsFound
<1>8. ASSUME NEW s \in Servers, Unlink(s) PROVE OpenInv'
  BY <1>8 DEF Unlink, OneAtATime, Knows, Sockets, AliveIsFound
<1>9. ASSUME NEW s \in Servers, Killed(s) PROVE OpenInv'
  BY <1>9 DEF Killed, OneAtATime, Knows, Sockets, AliveIsFound
<1>10. CASE UNCHANGED openVars
  BY <1>10 DEF openVars, OneAtATime, Knows, Sockets, AliveIsFound
<1> QED BY <1>1, <1>2, <1>3, <1>4, <1>5, <1>6, <1>7, <1>8, <1>9, <1>10 DEF ServerOpenNext, Attempt

LEMMA OpenInvHolds == ASSUME StartsAlone, EndsAlone PROVE ServerOpenSpec => []OpenInv
<1>1. ServerOpenInit => OpenInv
  BY DEF ServerOpenInit, OpenInv, OpenTypes, PCs, OneAtATime, Knows, Sockets, AliveIsFound, Starting, Ending
<1> QED BY <1>1, OpenInvStep, PTL DEF ServerOpenSpec

(* A program that serves is found under the path, however many programs       *)
(* there are and wherever they are killed.                                    *)
THEOREM ServingIsFound ==
    ASSUME StartsAlone, EndsAlone PROVE ServerOpenSpec => []AliveIsFound
<1>1. OpenInv => AliveIsFound
  BY DEF OpenInv
<1> QED BY <1>1, OpenInvHolds, PTL

(* An attempt fails only because another program serves.                      *)
THEOREM StaleStopsNobody ==
    ASSUME StartsAlone, EndsAlone PROVE ServerOpenSpec => StaleIsReplaced
<1> DEFINE Fails == \A s \in Servers :
        pc[s] # "failed" /\ pc'[s] = "failed" => \E t \in Servers \ {s} : pc[t] = "serving"
<1>1. OpenInv /\ [ServerOpenNext]_openVars => [Fails]_openVars
  <2> SUFFICES ASSUME OpenInv, ServerOpenNext, NEW s \in Servers, pc[s] # "failed", pc'[s] = "failed"
               PROVE  \E t \in Servers \ {s} : pc[t] = "serving"
    BY DEF Fails
  <2>1. Probe(s) \/ Bind(s)
    BY DEF ServerOpenNext, Attempt, Open, Exists, Probe, Remove, Bind, Listen, Close, Unlink, Killed,
           Goes, OpenInv, OpenTypes
  <2>2. CASE Probe(s)
    BY <2>2 DEF Probe, Refused, Goes, OpenInv, OpenTypes, Knows, Sockets
  <2>3. CASE Bind(s)
    BY <2>3 DEF Bind, Goes, OpenInv, OpenTypes, Knows
  <2> QED BY <2>1, <2>2, <2>3
<1> QED BY <1>1, OpenInvHolds, PTL DEF ServerOpenSpec, StaleIsReplaced

(* No two programs hold one socket.                                           *)
OwnSockets == \A s, t \in Servers : fd[s] # 0 /\ fd[s] = fd[t] => s = t

LEMMA ServerOpenTypeStep ==
    ASSUME ServerOpenTypeOK, OwnSockets, [ServerOpenNext]_openVars
    PROVE  ServerOpenTypeOK' /\ OwnSockets'
<1> USE DEF ServerOpenTypeOK, OwnSockets, Goes
<1>1. ASSUME NEW s \in Servers, Open(s) PROVE ServerOpenTypeOK' /\ OwnSockets'
  BY <1>1 DEF Open, Starting, Ending
<1>2. ASSUME NEW s \in Servers, Exists(s) PROVE ServerOpenTypeOK' /\ OwnSockets'
  BY <1>2 DEF Exists, Starting, Ending
<1>3. ASSUME NEW s \in Servers, Probe(s) PROVE ServerOpenTypeOK' /\ OwnSockets'
  BY <1>3 DEF Probe, Starting, Ending
<1>4. ASSUME NEW s \in Servers, Remove(s) PROVE ServerOpenTypeOK' /\ OwnSockets'
  BY <1>4 DEF Remove, Starting, Ending
<1>5. ASSUME NEW s \in Servers, Bind(s) PROVE ServerOpenTypeOK' /\ OwnSockets'
  BY <1>5, ServerOpenAssumption DEF Bind, Starting, Ending
<1>6. ASSUME NEW s \in Servers, Listen(s) PROVE ServerOpenTypeOK' /\ OwnSockets'
  BY <1>6 DEF Listen, Starting, Ending
<1>7. ASSUME NEW s \in Servers, Close(s) PROVE ServerOpenTypeOK' /\ OwnSockets'
  BY <1>7 DEF Close, Starting, Ending
<1>8. ASSUME NEW s \in Servers, Unlink(s) PROVE ServerOpenTypeOK' /\ OwnSockets'
  BY <1>8 DEF Unlink, Starting, Ending
<1>9. ASSUME NEW s \in Servers, Killed(s) PROVE ServerOpenTypeOK' /\ OwnSockets'
  BY <1>9 DEF Killed, Starting, Ending
<1>10. CASE UNCHANGED openVars
  BY <1>10 DEF openVars
<1> QED BY <1>1, <1>2, <1>3, <1>4, <1>5, <1>6, <1>7, <1>8, <1>9, <1>10 DEF ServerOpenNext, Attempt

(* Whatever programs start, end or are killed in between, also at the same    *)
(* time: a program holds a socket exactly from bind to the end of its service *)
(* and no two hold the same, so that what listens are the sockets of those    *)
(* that serve.                                                                *)
THEOREM SocketsAreHeld == ServerOpenSpec => []ServerOpenTypeOK
<1>1. ServerOpenInit => ServerOpenTypeOK /\ OwnSockets
  BY ServerOpenAssumption DEF ServerOpenInit, ServerOpenTypeOK, OwnSockets, Starting, Ending
<1> QED BY <1>1, ServerOpenTypeStep, PTL DEF ServerOpenSpec
===============================================================================
