----------------------------- MODULE ServerPoll -----------------------------
(* One dispatch of a server socket, client by client.  m_clients and          *)
(* m_pollfds are two vectors that are indexed in parallel: recheckPollFds     *)
(* makes the second from the first, poll() fills it with what is ready, and   *)
(* dispatchExistingConnections walks through it.  While it walks, the         *)
(* callbacks of a client may add clients, remove clients and dispatch again   *)
(* (m_pollmtx is recursive), so both vectors change under the loop.           *)
EXTENDS Naturals, FiniteSets, Sequences, SequencesExt

CONSTANTS
    Clients,       \* the peers
    CallbackOps,   \* what callbacks do: a subset of {"add", "remove", "dispatch"}
    SendsFds,      \* peers also send descriptors, at which a read ends
    MaxUnread,     \* bound: chunks waiting in one socket
    MaxDepth,      \* bound: dispatches on the stack
    MaxInvalid     \* bound: clients without a descriptor

ASSUME ServerPollAssumption ==
    /\ CallbackOps \subseteq {"add", "remove", "dispatch"}
    /\ SendsFds \in BOOLEAN
    /\ MaxUnread \in Nat /\ MaxDepth \in Nat /\ MaxInvalid \in Nat

(* The fd of a client whose accept() failed; poll() passes over it.           *)
Invalid == "invalid"

ASSUME NoPeerIsInvalid == Invalid \notin Clients

VARIABLES
    backlog,    \* the peers that connected and are not accepted yet, in order
    met,        \* the peers that are or were in the backlog or in m_clients
    unread,     \* per peer: the chunks in its socket, "bytes" or "fds"
    hungup,     \* the peers that closed their end
    scarce,     \* the process has no descriptor left
    clients,    \* m_clients, by peer
    pollfds,    \* the part of m_pollfds that is made from m_clients
    failed,     \* m_error, set for what the client sent
    dropped,    \* m_error, set for a hangup
    stack,      \* the dispatches in progress, innermost last
    thrown,     \* vector::at threw std::out_of_range and nobody caught it
    found       \* history: whom poll() found ready and nobody has read since

socketVars == <<backlog, met, unread, hungup, scarce>>
listVars == <<clients, pollfds>>
errorVars == <<failed, dropped>>
serverPollVars == <<socketVars, listVars, errorVars, stack, thrown, found>>

(* What poll() says of a socket: a peer that closed makes it readable too.    *)
Readable(c) == c # Invalid /\ (unread[c] # <<>> \/ c \in hungup)
Revents(c) == {e \in {"IN", "HUP"} : Readable(c) /\ (e = "HUP" => c \in hungup)}

(* A rebuilt vector knows of nothing until poll() has run on it.              *)
RecheckPollFdsKeeping(list) ==    \* mutant: what was ready stays, by position
    [i \in 1..Len(list) |->
        [fd |-> list[i], revents |-> IF i <= Len(pollfds) THEN pollfds[i].revents ELSE {}]]
RecheckPollFdsShort(list) ==      \* mutant: forgets the client that was added last
    [i \in 1..(Len(list) - 1) |-> [fd |-> list[i], revents |-> {}]]
RecheckPollFds(list) == [i \in 1..Len(list) |-> [fd |-> list[i], revents |-> {}]]
Polled(fds) == [i \in 1..Len(fds) |-> [fds[i] EXCEPT !.revents = Revents(fds[i].fd)]]

(* at: "poll" (dispatchPending), "pass" (in front of the i-th client),        *)
(* "called" (in a callback of client), "after" (dispatchClient returned),     *)
(* "erase" (the clients with m_error leave m_clients).                        *)
Frame == [at : {"poll", "pass", "called", "after", "erase"}, i : Nat \ {0},
          client : Clients \cup {Invalid}, hadAny : BOOLEAN, recheck : BOOLEAN]
BeginAtZero == [at |-> "poll", i |-> 0, client |-> Invalid, hadAny |-> FALSE, recheck |-> FALSE]    \* mutant
Begin == [at |-> "poll", i |-> 1, client |-> Invalid, hadAny |-> FALSE, recheck |-> FALSE]
Top == stack[Len(stack)]
In(place) == stack # <<>> /\ Top.at = place /\ ~thrown
WithTop(frame) == [stack EXCEPT ![Len(stack)] = frame]
Pop == SubSeq(stack, 1, Len(stack) - 1)

ServerPollInit ==
    /\ backlog = <<>> /\ met = {} /\ hungup = {} /\ scarce = FALSE
    /\ unread = [c \in Clients |-> <<>>]
    /\ clients = <<>> /\ pollfds = <<>>
    /\ failed = {} /\ dropped = {}
    /\ stack = <<>> /\ thrown = FALSE /\ found = {}

-----------------------------------------------------------------------------
(* The peers, and the rest of the process, which may use up the descriptors.  *)

Alive(c) == c \in met \ hungup

PeerConnects(c) ==
    /\ c \notin met /\ ~thrown
    /\ backlog' = Append(backlog, c) /\ met' = met \cup {c}
    /\ UNCHANGED <<unread, hungup, scarce, listVars, errorVars, stack, thrown, found>>

PeerSends(c, chunk) ==
    /\ Alive(c) /\ Len(unread[c]) < MaxUnread /\ ~thrown
    /\ chunk = "fds" => SendsFds
    /\ unread' = [unread EXCEPT ![c] = Append(@, chunk)]
    /\ UNCHANGED <<backlog, met, hungup, scarce, listVars, errorVars, stack, thrown, found>>

PeerHangsUp(c) ==
    /\ Alive(c) /\ ~thrown
    /\ hungup' = hungup \cup {c}
    /\ UNCHANGED <<backlog, met, unread, scarce, listVars, errorVars, stack, thrown, found>>

DescriptorsRunOut ==
    /\ MaxInvalid > 0 /\ ~thrown
    /\ scarce' = ~scarce
    /\ UNCHANGED <<backlog, met, unread, hungup, listVars, errorVars, stack, thrown, found>>

-----------------------------------------------------------------------------
(* The application, in its main loop or in a callback.                        *)

InControl(op) == ~thrown /\ (stack = <<>> \/ (In("called") /\ op \in CallbackOps))

(* The descriptor is one end of a pair whose other end the peer holds.        *)
AddClient(c) ==
    /\ InControl("add") /\ c \notin met
    /\ met' = met \cup {c}
    /\ clients' = Append(clients, c)
    /\ pollfds' = RecheckPollFds(clients')
    /\ UNCHANGED <<backlog, unread, hungup, scarce, errorVars, stack, thrown, found>>

RemoveClientSilent(c) ==    \* mutant: leaves m_pollfds as it is
    /\ InControl("remove")
    /\ \E i \in DOMAIN clients : clients[i] = c /\ clients' = RemoveAt(clients, i)
    /\ UNCHANGED <<socketVars, pollfds, errorVars, stack, thrown, found>>

RemoveClient(c) ==
    /\ InControl("remove")
    /\ \E i \in DOMAIN clients : clients[i] = c /\ clients' = RemoveAt(clients, i)
    /\ pollfds' = RecheckPollFds(clients')
    /\ UNCHANGED <<socketVars, errorVars, stack, thrown, found>>

DispatchEvents ==
    /\ InControl("dispatch") /\ Len(stack) < MaxDepth
    /\ stack' = Append(stack, Begin)
    /\ UNCHANGED <<socketVars, listVars, errorVars, thrown, found>>

CallbackReturns ==
    /\ In("called")
    /\ stack' = WithTop([Top EXCEPT !.at = "after"])
    /\ UNCHANGED <<socketVars, listVars, errorVars, thrown, found>>

(* The rest of the batch, after the callback, is not a valid message, or the  *)
(* callback committed an error.                                               *)
CallbackFails ==
    /\ In("called")
    /\ failed' = failed \cup {Top.client}
    /\ stack' = WithTop([Top EXCEPT !.at = "after"])
    /\ UNCHANGED <<socketVars, listVars, dropped, thrown, found>>

-----------------------------------------------------------------------------
(* dispatchPending and dispatchNewConnections.                                *)

Accepts(fd) ==
    /\ clients' = Append(clients, fd)
    /\ pollfds' = RecheckPollFds(clients')
    /\ UNCHANGED <<met, unread, hungup, scarce, errorVars, stack, thrown, found>>

(* dispatchPending calls itself after an accept: it polls again.              *)
Accept ==
    /\ In("poll") /\ backlog # <<>> /\ ~scarce
    /\ backlog' = Tail(backlog)
    /\ Accepts(Head(backlog))

AcceptFails ==
    /\ In("poll") /\ backlog # <<>> /\ scarce
    /\ Cardinality({i \in DOMAIN clients : clients[i] = Invalid}) < MaxInvalid
    /\ backlog' = backlog
    /\ Accepts(Invalid)

Poll ==
    /\ In("poll") /\ backlog = <<>>
    /\ pollfds' = Polled(pollfds)
    /\ found' = {c \in Clients : \E i \in DOMAIN clients : clients[i] = c /\ Readable(c)}
    /\ stack' = WithTop([Begin EXCEPT !.at = "pass"])
    /\ UNCHANGED <<socketVars, clients, errorVars, thrown>>

-----------------------------------------------------------------------------
(* dispatchExistingConnections.                                               *)

(* m_pollfds.at(i) says whether there is something to read.                   *)
Looks(ready) ==
    /\ In("pass") /\ Top.i <= Len(pollfds)
    /\ ("IN" \in pollfds[Top.i].revents) = ready

PassesOver ==
    /\ Looks(FALSE)
    /\ stack' = WithTop([Top EXCEPT !.i = @ + 1])
    /\ UNCHANGED <<socketVars, listVars, errorVars, thrown, found>>

(* One read takes what is there, up to the first descriptors.                 *)
FirstFds(chunks, k) == chunks[k] = "fds" /\ \A j \in 1..(k - 1) : chunks[j] # "fds"
AfterRead(chunks) ==
    IF \E k \in DOMAIN chunks : FirstFds(chunks, k)
    THEN SubSeq(chunks, (CHOOSE k \in DOMAIN chunks : FirstFds(chunks, k)) + 1, Len(chunks))
    ELSE <<>>

(* dispatchClient(m_clients.at(i)): the messages run callbacks.  On an empty  *)
(* socket whose peer is there the read would block.                           *)
Reads(place) ==
    /\ Looks(TRUE) /\ Top.i <= Len(clients)
    /\ LET c == clients[Top.i] IN
        /\ c # Invalid /\ unread[c] # <<>>
        /\ unread' = [unread EXCEPT ![c] = AfterRead(@)]
        /\ stack' = WithTop([Top EXCEPT !.at = place, !.client = c])
        /\ found' = found \ {c}
    /\ UNCHANGED <<backlog, met, hungup, scarce, listVars, dropped, thrown>>

DispatchClient == Reads("called") /\ UNCHANGED failed

(* parseFromFd calls the data bad, or its first message is no message.        *)
DispatchMalformed == Reads("after") /\ failed' = failed \cup {clients[Top.i]}

(* End of file: data.data.empty(), "this should NOT happen".                  *)
DispatchEmpty ==
    /\ Looks(TRUE) /\ Top.i <= Len(clients)
    /\ LET c == clients[Top.i] IN
        /\ c \in hungup /\ unread[c] = <<>>
        /\ stack' = WithTop([Top EXCEPT !.at = "after", !.client = c])
        /\ found' = found \ {c}
    /\ UNCHANGED <<socketVars, listVars, errorVars, thrown>>

(* Back from dispatchClient the loop reads m_pollfds.at(i) and                *)
(* m_clients.at(i) again, whoever stands there now.                           *)
Throws == Top.i > Len(pollfds) \/ Top.i > Len(clients)

NextClientUnnoticed ==    \* mutant: a client that was only read is not something
    /\ In("after") /\ ~Throws
    /\ LET hup == "HUP" \in pollfds[Top.i].revents IN
        /\ dropped' = IF hup THEN dropped \cup {clients[Top.i]} ELSE dropped
        /\ stack' = WithTop([Top EXCEPT !.at = "pass", !.i = @ + 1,
                                        !.hadAny = @ \/ hup, !.recheck = @ \/ hup])
    /\ UNCHANGED <<socketVars, listVars, failed, thrown, found>>

NextClient ==
    /\ In("after") /\ ~Throws
    /\ LET hup == "HUP" \in pollfds[Top.i].revents IN
        /\ dropped' = IF hup THEN dropped \cup {clients[Top.i]} ELSE dropped
        /\ stack' = WithTop([Top EXCEPT !.at = "pass", !.i = @ + 1,
                                        !.hadAny = TRUE, !.recheck = @ \/ hup])
    /\ UNCHANGED <<socketVars, listVars, failed, thrown, found>>

OutOfRange ==
    /\ In("after") /\ Throws
    /\ thrown' = TRUE
    /\ UNCHANGED <<socketVars, listVars, errorVars, stack, found>>

(* The pass is over.  Clients with m_error are erased only if some client     *)
(* hung up; dispatchEvents goes on while passes find something.               *)
AfterPassOnce == Pop    \* mutant: one pass, whatever it found
AfterPass == IF Top.hadAny THEN WithTop(Begin) ELSE Pop

EndPass ==
    /\ In("pass") /\ Top.i > Len(pollfds)
    /\ stack' = IF Top.recheck THEN WithTop([Top EXCEPT !.at = "erase"]) ELSE AfterPass
    /\ UNCHANGED <<socketVars, listVars, errorVars, thrown, found>>

Erasable(i) == clients[i] \in failed \cup dropped

EraseOne ==
    /\ In("erase")
    /\ \E i \in DOMAIN clients :
        /\ Erasable(i) /\ \A j \in 1..(i - 1) : ~Erasable(j)
        /\ clients' = RemoveAt(clients, i)
    /\ UNCHANGED <<socketVars, pollfds, errorVars, stack, thrown, found>>

EraseDone ==
    /\ In("erase") /\ \A i \in DOMAIN clients : ~Erasable(i)
    /\ pollfds' = RecheckPollFds(clients)
    /\ stack' = AfterPass
    /\ UNCHANGED <<socketVars, clients, errorVars, thrown, found>>

-----------------------------------------------------------------------------
Library ==
    \/ Accept \/ AcceptFails \/ Poll \/ PassesOver
    \/ DispatchClient \/ DispatchMalformed \/ DispatchEmpty
    \/ NextClient \/ OutOfRange \/ EndPass \/ EraseOne \/ EraseDone

Application ==
    \/ \E c \in Clients : AddClient(c) \/ RemoveClient(c)
    \/ DispatchEvents \/ CallbackReturns \/ CallbackFails

Environment ==
    \/ \E c \in Clients :
        PeerConnects(c) \/ PeerHangsUp(c) \/ \E chunk \in {"bytes", "fds"} : PeerSends(c, chunk)
    \/ DescriptorsRunOut

ServerPollNext == Library \/ Application \/ Environment

ServerPollSpec == ServerPollInit /\ [][ServerPollNext]_serverPollVars

(* The library runs, callbacks return, and the main loop of the server is     *)
(* while (dispatchEvents(true)).  Descriptors that ran out come back.         *)
FairServerPollSpec ==
    /\ ServerPollSpec
    /\ WF_serverPollVars(Library)
    /\ SF_serverPollVars(CallbackReturns)
    /\ WF_serverPollVars(stack = <<>> /\ DispatchEvents)
    /\ WF_serverPollVars(scarce /\ DescriptorsRunOut)
    /\ SF_serverPollVars(Accept)

-----------------------------------------------------------------------------
(* Properties.                                                                *)

(* Every variable keeps its range.                                            *)
ServerPollTypeOK ==
    /\ backlog \in Seq(Clients) /\ met \subseteq Clients
    /\ unread \in [Clients -> Seq({"bytes", "fds"})]
    /\ hungup \subseteq Clients /\ scarce \in BOOLEAN
    /\ clients \in Seq(Clients \cup {Invalid})
    /\ pollfds \in Seq([fd : Clients \cup {Invalid}, revents : SUBSET {"IN", "HUP"}])
    /\ failed \subseteq Clients \cup {Invalid} /\ dropped \subseteq Clients \cup {Invalid}
    /\ stack \in Seq(Frame) /\ thrown \in BOOLEAN /\ found \subseteq Clients

(* Whatever the callbacks did, the i-th pollfd is that of the i-th client     *)
(* whenever a dispatch indexes the two vectors in parallel.                   *)
Aligned ==
    (stack # <<>> => Top.at # "erase") =>
        /\ Len(pollfds) = Len(clients)
        /\ \A i \in DOMAIN clients : pollfds[i].fd = clients[i]

(* dispatchClient reads from a blocking descriptor: it must never be called   *)
(* with a revents that a callback, a nested dispatch or a shift of the        *)
(* vectors made stale, or the server stops for one silent client.             *)
NeverBlocks ==
    In("pass") => \A i \in Top.i..Len(pollfds) :
        "IN" \in pollfds[i].revents => Readable(clients[i])

(* Only a client that hung up is dropped as such, never one that took its     *)
(* place in the vectors, and what it said before it hung up has been read.    *)
LastWordsRead == \A c \in dropped : c \in hungup /\ unread[c] = <<>>

(* A dispatch does not return before every client that poll() found ready,    *)
(* and that is still there, has been read, also when a callback made          *)
(* m_pollfds forget that it was ready.                                        *)
FoundIsRead ==
    [][Len(stack') < Len(stack) => \A i \in DOMAIN clients : clients[i] \notin found]_serverPollVars

(* What a connected peer sends is read, however many others talk and whatever *)
(* the callbacks add meanwhile, unless the peer is dropped or removed.        *)
Served(c) == unread[c] = <<>> \/ (~Contains(clients, c) /\ ~Contains(backlog, c)) \/ thrown
EveryoneServed == \A c \in Clients : (c \in met /\ unread[c] # <<>>) ~> Served(c)

(* The vectors are never indexed beyond their end: an application can "add    *)
(* and remove clients manually".                                              *)
NeverThrows == ~thrown

(* "this should NOT happen": dispatchClient finds nothing to read.            *)
NeverEmpty ==
    In("pass") => \A i \in {Top.i} \cap DOMAIN pollfds :
        "IN" \in pollfds[i].revents => unread[clients[i]] # <<>>
=============================================================================
