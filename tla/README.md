# Verification of hyprwire

hyprwire is an IPC library: a client and a server in two processes talk over an
AF_UNIX stream socket, in messages whose layout `docs/WIRE.md` describes, about
objects whose methods a protocol XML describes. This directory holds TLA+
modules that model the library's protocol logic, TLC configurations that check
it on small instances, and TLAPS proofs. Paths are relative to the
repository's root; `core/` stands for `src/core/`.

## 1. Inventory

### Components, their state and their operations

| Component | State | Operations |
|---|---|---|
| `CClientSocket`, `CClientObject` (`core/client/`) | the socket `m_fd`; `m_error`, `m_handshakeDone`, `m_handshakeBegin`; `m_objects`, `m_seq`; `m_pendingOutgoing`; `m_lastSentRoundtripSeq`, `m_lastAckdRoundtripSeq` | `attempt`, `waitForHandshake`, `dispatchEvents`, `bindProtocol`, `makeObject`, `waitForObject`, `roundtrip`, `onSeq`, `onGeneric`, `serverSpecs`, `sendMessage`, `disconnectOnError` |
| `CServerClient`, `CServerObject` (`core/server/`) | the socket; `m_error`; `m_objects`, `m_maxId`; `m_scheduledRoundtripSeq` | `createObject`, `onBind`, `onGeneric`, `sendMessage`, `error` |
| `CServerSocket` (`core/server/`) | listening, wakeup, exit and export descriptors; `m_pollfds`, `m_clients`; the poll thread with `m_pollmtx`, `m_exportPollMtx`, `m_pollEventHandledCV`, `m_pollEvent`, `m_threadCanPoll` | `attempt`, `dispatchEvents`, `dispatchPending`, `dispatchClient`, `addClient`, `removeClient`, `extractLoopFD`, `createObject`, the destructor |
| `CMessageParser` and the message classes (`core/message/`) | none | `handleMessage`, `parseSingleMessage` for each side, one constructor per message and direction, `parseVarInt`, `encodeVarInt` |
| `IWireObject` (`core/wireObject/`) | `m_id`, `m_version`, `m_seq`, `m_listeners` | `call`, `called`, `listen`, `error` |
| `parseFromFd` (`core/socket/`) | a static buffer under a mutex | one read of a batch and its descriptors |
| scanner (`scanner/main.cpp`) | none at run time | generates the C++ of a protocol from its XML |
| helpers, `include/`, `tests/`, packaging | none | logging, environment, interfaces, two example applications |

### Interaction

The client connects and says `SUP`; the two sides shake hands; the client binds
a protocol and waits for its object (`NEW_OBJECT`); objects exchange `GENERIC`
messages, which run *listeners* of the application. A method with a `returns`
interface makes a further object: the client numbers it with a *sequence* and
uses it at once, and the server's application creates it when it is told that
sequence. The server numbers objects with *ids*. A call on an object without an
id is *deferred* (`m_pendingOutgoing`) until the id is there.

The client is single threaded but reentrant: `bindProtocol`, `roundtrip` and
`waitForHandshake` loop over `dispatchEvents`, which handles a batch of
messages, which runs listeners, which may call any of these again. The server
dispatches from one thread; a second thread only polls and signals.

### What is hard to get right

`PROJECT.json` lists the hazards at their lines, with the properties that catch
them in a run; a hazard that the runs do not reach, or that the code falls
to, has a note instead that names the configuration of section 6 or
the theorem of section 7. In short: the two numberings
(sequences and ids) under interleaved binds, creations and nested dispatches;
the flush of deferred calls; order and loss of events in nested dispatches;
roundtrips that are coalesced, overtaken or answered after an error; errors
that must end every loop on the client's stack; torn messages, hangups and
destruction at any moment; the poll thread's handshake with the main thread;
two vectors indexed in parallel by a loop whose callbacks change them; a reader
whose buffer is full, and a writer whose socket is; a socket file that others
probe and remove; programs generated from different releases of a protocol.

## 2. What makes each component correct

| Component | Properties that make it correct | Where |
|---|---|---|
| Client objects and the server's objects | both sides mean the same object by a sequence and by an id | `HandlesAgree`, `EventsRouted`, `CallsRouted` |
| Deferred calls | none lost, none twice, none reordered, none left behind | `CallsConserved`, `FlushComplete`, `ImplementsCallDelivery`, `EveryCallProcessed` |
| Events | heard in order; dropped only in three known cases | `EventOrder`, `EventsHeard` |
| Roundtrips | an acknowledgement covers what was sent before, and reaches its caller unless a caller further out overtakes it | `RoundtripCoversSent`, `AckLostToOuterOnly` |
| Errors | every loop on the client's stack ends | `ErrorUnblocks`, `PublicCallsReturn` |
| Poll thread | no signal lost, nobody overlooked, everything read, an orderly end | `SignalNotLost`, `SleepsOnEveryone`, `EveryMessageRead`, `DestructorEnds` |
| One dispatch of the server | the two vectors stay aligned, no read blocks, nobody is skipped or dropped for another | `Aligned`, `NeverBlocks`, `FoundIsRead`, `LastWordsRead`, `NeverThrows`, `EveryoneServed` |
| Socket file | who serves is found; a stale file stops nobody | `AliveIsFound`, `StaleIsReplaced` |
| Sends and reads | no byte is lost, nobody waits for ever, answers arrive | `NothingIsLost`, `AnyLengthIsRead`, `NeverBothWait`, `AnswersArrive` |
| Messages | what is heard is what was sent, whole, with its descriptors; a part is an error | `HeardIsSent`, `NothingRefused`, `TornIsError`, `LengthsSurvive` |
| Generated code | releases mean the same by a method and its arguments | `CallsMeanTheSame`, `ReleasesAgree` |

## 3. Modules

```
Wire ──┬── ClientSocket ──┐
       └── ServerClient ──┴── Session ── MCSession (11 configurations)
CallDelivery  <── refined by Session (INSTANCE ... WITH)
Session ── SessionProofs ── DeliveryProofs
PollLoop ── MCPollLoop (2 configurations)
ServerPoll ── MCServerPoll (3 configurations)
ServerPoll ── ServerPollProofs
ServerOpen ── MCServerOpen (3 configurations)
PollLoop ──┐
ServerOpen ┴── ServerSocketProofs
SocketIO ── MCSocketIO (4 configurations)
SocketIO ── SocketIOProofs
VarInt ── Messages ── Calls ── Codec ──┐
VarInt ── LengthStream ────────────────┴── MCCodec (3 configurations)
Codec ─────────┐
LengthStream ──┼── CodecProofs
RecursionProofs┤
Stubs ─────────┴── StubsProofs
Stubs ── MCStubs (2 configurations)
```

`CodecProofs` extends the first three of the last group, `StubsProofs` the last two.

**Wire** is the connection: two channels, each a sequence of whole messages,
and whether each end is open. A message keeps the fields on which a receiver
decides (code, sequence, id, version, method) and, as history, the number of
the call or event it carries. A read takes any non-empty prefix of a channel,
because the writer may still be writing (`parseFromFd`). With `MayTear` a
message may arrive cut: `sendmsg` may take a part of it, or the reader's 8192
bytes may end inside it, and neither side keeps the rest.

**ClientSocket** is `CClientSocket` with the application's objects. The state
that needs explaining is `cStack`, the C++ call stack, innermost frame last:

| Frame | Stands for |
|---|---|
| `handshake`, `object`, `roundtrip`, `poll` | `waitForHandshake`, `waitForObject` (of `bindProtocol`), `roundtrip`, a `dispatchEvents` called by the application |
| `batch` | the `handleMessage` and flush of one `dispatchEvents`, with the messages it has left |
| `listener` | a callback of the application |

Each action is what the innermost frame does next. The application acts when
the stack is empty or a listener is on top, so a listener can call, bind,
dispatch or make a roundtrip in the middle of an outer batch. `m_seq` is
`Len(cObjs)`, as every object stays in `m_objects`; `m_handshakeBegin` against
its five seconds is `cClock`. `CFlushOne` is one iteration of the loop over
`m_pendingOutgoing` (`ClientSocket.cpp:152-162`).

**ServerClient** is `CServerClient`, its objects, and the part of
`CServerSocket` that dispatches one client. `sBusy`, `sBatch` and `sCallback`
say where in `dispatchClient` the server is; its application acts between
dispatches or in the callback of the last message.

**Session** composes the two over one `Wire`, adds the environment (torn
messages, hangups, time) and states the properties.

**CallDelivery** is the abstract promise: a call is processed at most once, by
the object it was made on, and in order per object, save that a call made in a
listener may go ahead. `Session` implements it under the mapping `made` <-
`issued`, `done` <- `handled`, with the server's object named by its sequence.

**PollLoop** is the two threads of `CServerSocket`: the application's thread in
`dispatchEvents`, `addClient`, `removeClient` and the destructor, and the
thread of `extractLoopFD`. `main` and `thread` are their places. A step is the
code between two points where the other thread can tell the difference: a pipe
read or written, a flag, a mutex, a sleep. The correspondence:

| Action | `ServerSocket.cpp` |
|---|---|
| `DispatchEvents`, `AcceptClient`, `DispatchExisting`, `NothingPending` | 144-158, 267-315 |
| `ClearEventFd`, `ClearWakeupFd`, `BlockingPoll`, `ReleaseThread` | 161-175, 180-206 |
| `AddClient`, `RemoveClient`, `ExtractLoopFD` | 208-232, 343-372 |
| `ThreadLoops` ... `ThreadTimesOut` | 373-416 |
| `Destroy` ... `DestroyJoins` | 60-75 |

`m_pollmtx` is held by the application from `drain` to `drainAgain` and by the
thread in `copy`; `m_exportPollMtx` by the thread from its signal to its sleep
(`checked`) and by the application in the step `ReleaseThread`. `addClient` and
`removeClient` take no lock: when they run while the thread copies `m_clients`,
the copy is a data race and may hold anything (`raced`). A message of a client
is `"data"`; whether it is malformed is chosen when it is dispatched, and
clients that failed are erased only when some client hangs up, as in the code.

**ServerPoll** is one dispatch of `CServerSocket`, client by client: what
PollLoop takes as one step. `clients` is `m_clients`, `pollfds` the part of
`m_pollfds` behind the internal descriptors, and `stack` the dispatches in
progress, because a callback may dispatch again (`m_pollmtx` is recursive).

| Action | `ServerSocket.cpp` |
|---|---|
| `Accept`, `AcceptFails`, `Poll` | 144-150, 267-284 |
| `PassesOver`, `DispatchClient`, `DispatchMalformed`, `DispatchEmpty` | 290-294, 317-341 |
| `NextClient`, `OutOfRange` | 296-307: both vectors are read again after the callbacks |
| `EndPass`, `EraseOne`, `EraseDone` | 309-315 |
| `AddClient`, `RemoveClient`, `DispatchEvents` | 208-232, 152-158, from the main loop or a callback |

`AddClient` is the entry of a client whose descriptor the application made
itself. `accept` without a free descriptor returns -1, and a client is made of
it all the same (`Invalid`); `poll` passes over it. `DescriptorsRunOut`
switches that shortage on and off.

**ServerOpen** is several programs that serve under one path: `attempt` and the
destructor, a step per call into the kernel, and `Killed` between any two. The
early returns for a path of 108 characters or more, and for a file that may not
be removed, are left out. `StartsAlone` and `EndsAlone` say that no two
programs are in `attempt` at a time, and none in it while another is in its
destructor.

**SocketIO** is the two `sendMessage`s, `parseFromFd`, and the socket between
them, for one connection. A message is its length in units. The kernel keeps a
message in pieces of at most `Chunk` units and takes `Capacity` pieces; each
small message costs a piece of its own. The client's descriptor has
`O_NONBLOCK` (`ClientSocket.cpp:70, 93`), so a full socket is EAGAIN and a poll
for POLLOUT, and a socket with room for a part takes a part; the server's
descriptor of a client has not (`ServerClient.cpp:19`), so `sendmsg` sleeps.
What `setFlags` of the library hyprutils does is taken from its argument here.
Each `recvmsg` is a step, and each message of a batch is handled in one.

**VarInt, Messages, Calls, Codec** are the layout of the messages, as sequences of
bytes. `VarInt` is `encodeVarInt` and `parseVarInt`; `Messages` has for each message
class the constructor that lays out and the one that parses; `Calls` is
`IWireObject::call`, `called` and `CGenericProtocolMessage`, with arguments,
arrays and descriptors; `Codec` sends messages in one direction, cuts the
stream into batches and parses them as `handleMessage` does. A client that heard
`FATAL_PROTOCOL_ERROR` finishes its batch and reads no other (`HeardFatal`,
`ClientSocket.cpp:108`). A `u32` is its
four bytes; a `memcpy` or `memcmp` that reads behind the end of the data, which
only a torn message can cause, reads nothing. The hello alone is never torn:
what its `memcmp` finds behind the data could complete it (`Hello.cpp:20`). **LengthStream** writes lengths one behind
the other, to check and prove the digits alone.

**Stubs** is what `hyprwire-scanner` generates for one object, without its
text. `doc` is the object in the protocol document: its methods in order, with
their side, arguments and `since`. The document grows by releases; client and
server are generated from any two of them, bind a version, and call each other.
`Scan`, `Table` and `Params` are the generator's tables, `CArguments` the
sender's `argsToC`, `Marshalled` the walk of `call` over its `va_list`,
`Accepts` and `Passed` the checks of `called` and what libffi passes, and
`StubArguments` the generated listener stub, which makes the `Vectors` of
pointers and lengths. `since` is the release that added
a method, and a release adds methods behind the others of their side: that is
how the author of a document keeps it compatible, and it is an assumption.

The mutants named by `PROJECT.json` stand before the definition they change,
each marked `\* mutant`; no specification uses them.

## 4. Runs

Every run checks the definition as the modules give it; configurations only
give values to constants.

| Run | Question | Bounds |
|---|---|---|
| `session` | routing, conservation, flush, refinement of CallDelivery | 3 objects, 3 calls, 1 event, 4 frames |
| `nested` | roundtrips and events when listeners dispatch | 2 objects, 1 call, 2 roundtrips, 2 events, 8 frames |
| `faults` | conservation, roundtrips and unblocking under errors, torn messages, hangups | 2 objects, 1 call, 1 roundtrip, 1 event, 4 frames |
| `session_live` | public calls return, calls are processed | 2 objects, 2 calls, 1 roundtrip, 1 event, 2 frames, a client that asks for a version it does not have |
| `poll_loop` | the two threads of the server | 2 peers, 2 bytes in the export pipe |
| `server_poll` | the loop over the clients: callbacks that add, remove and dispatch, failing accepts, everyone served | 2 peers, 1 unread chunk each, 1 client without a descriptor, 2 dispatches on the stack |
| `server_open` | the socket file, with kills | 3 programs, 4 sockets |
| `socket_io` | full sockets, full buffers | 8 messages of 3 units, a buffer of 5, sockets of 2 pieces, 2 answers open |
| `codec` | the layout of all messages, batches, torn messages; the digits of lengths | 2 messages, of 11 or 12 kinds of content in each direction, every cut; 2 lengths at the boundaries of 1 to 4 digits |
| `stubs` | the generated code across releases | 3 methods of 3 shapes, 3 releases, 2 calls |
| `resolve_id`, `ack_overtaken` | one divergence each, section 6 | small; 8 frames |

Why these are enough. Two objects can be confused with each other; a third one
lets a creation and a bind race while a bound object exists already. Three
calls are the least with which a deferred call, one made in a listener and one
in order can be told apart. Eight frames hold a roundtrip, its batch, a
listener, the listener's own roundtrip, the batch of that one, another
listener, its dispatch and the batch of that: the least at which the answer of
the inner roundtrip is handled before that of the outer one, which two events
bring about. Two roundtrips are needed for coalescing and overwriting. Two peers suffice for
PollLoop, whose clients interact only in the snapshot, in the rule that lets a
client wait behind a connection, and in the erasure of failed ones. In ServerPoll
two peers and a client without a descriptor, which may come between them, give
the vectors an entry in front of, at or behind the client whose callback removes
or adds, and two frames are the least with an outer loop that goes on after an
inner one. Three programs let one start, one
end and one have been killed. In SocketIO a socket of two messages holds more
than the buffer, so a read continues in the middle of a message, and eight
messages fill both sockets and the batch of each reader; the sizes are such
that no read ends exactly at the buffer, which is what `MCSocketClient.cfg` and
`MCSocketServer.cfg` are about. Two messages suffice for Codec, because a parser
keeps nothing from one message to the next but its place and the descriptors;
their contents hold bytes that are also magics, empty and 130 byte strings,
empty arrays and arrays of descriptors. In Stubs three methods put one in front of,
behind and between those of the other side. What is proved (section 7)
does not depend on any of these bounds.

In `nested` an event is dropped for a bind in progress or a `NEW_OBJECT` that a
dispatch further out holds: no message is torn, and no method states a `since`, so
that `TakenForOld` excuses nothing. Setting `MayTear = TRUE` and `Since <-
MCSinceEvent` in a copy of `MCNested.cfg` adds the other two cases (5 million states,
some minutes); `EventsReachListeners` (section 7) has all of them.

In `faults` the one call is spent before it can be deferred behind another; conservation
of deferred calls under the same faults is checked by `MCFaultsCalls.cfg`
(2 calls, no roundtrip, a million states, some minutes), to be run by hand.

`ByteBase` is 256 in the code. `resolve_id` sets it to 2 so that two objects
overflow one byte; the other runs have fewer objects than either.

Deadlock is checked in `session`, `session_live` and `poll_loop`. `nested` stops
where a roundtrip has lost its answer (`MCAckOvertaken` of section 6). The
runs of ServerOpen, SocketIO, Codec and Stubs stop when their bound on sockets,
messages or calls is reached, and a server of ServerPoll stops when an exception
leaves `dispatchEvents`. The
other runs of Session stop where the system really may: after a hangup, or in
a violation that ends the run. In Session `Idle`, and in PollLoop `Over`, stand
for an application that has nothing to do, or a socket that is gone; a client
blocked inside the library has no such step.

## 5. Fairness, and why the code justifies it

Session (`FairSpec`, `LiveSpec`):
- `WF(ClientLibrary)`: the client's thread is inside the library and runs.
- `WF(ServerDispatch)`: the server's main loop is `while (!quitt &&
  sock->dispatchEvents(true))` (`tests/Server.cpp:87`).
- `SF(ListenersReturn)`: a listener that keeps getting control returns at some
  point; without it a listener may call `dispatchEvents` for ever.
- `WF(MainLoop)`: `while (sock->dispatchEvents(true))` (`tests/Client.cpp:80`).
- `WF(CreatesObjects)`: the server creates what it is asked for
  (`tests/Server.cpp:57-58`).

Nobody has to call, emit, bind, fail or hang up, and time need not pass.

PollLoop (`FairPollSpec`): each thread runs (`WF` of its steps); a mutex that is
free again and again is obtained (`SF(ThreadLocks)`); no client outruns the
server for ever (`SF(NothingPending)`: the drain loop of `dispatchEvents` ends
when it finds nothing, and with a peer that always has more it would not); the
application has one of the two event loops of the examples, `ServesLoopFD`
(`tests/Fork.cpp:105-124`) or `BlockingLoop` (`tests/Server.cpp:87-89`).
`AppInTime` is the assumption that the application serves the loop descriptor
within the five seconds for which the thread waits.

ServerPoll (`FairServerPollSpec`): the library runs (`WF(Library)`); callbacks
return (`SF(CallbackReturns)`); the main loop dispatches again when a dispatch is
over (`tests/Server.cpp:87`); descriptors that ran out come back, and while they
do so again and again a connection is accepted at some point (`SF(Accept)`).
`EveryoneServed` needs all of it: without descriptors `dispatchPending` recurses.

SocketIO (`SocketIOSpec`): both main loops run, each of which reads when there
is something to read and goes on with a `sendmsg` that can take more.

## 6. Where the code and its documentation disagree

The first two are runs of the project, `resolve_id` and `ack_overtaken`; the
others are configurations to run by hand, as in `tlc -config MCFatal.cfg MCSession.tla`; the configuration names its
module up to the part that says what it shows (`MCResolveId`, `MCAckOvertaken`,
`MCFailedBind`, `MCFatal`, `MCRoundtrip` and `MCVersion` are of MCSession, `MCLengthBeyond` is of MCCodec, the `MCSocket...`
are of MCSocketIO, `MCPollWakeup` is of MCPollLoop).

| Configuration | Property | What happens |
|---|---|---|
| `MCResolveId` | `CallsCarryAssignedId` | `resolveSeq` writes the id into one byte (`GenericProtocolMessage.cpp:127`): from the 256th object on a deferred call names another object or none |
| `MCAckOvertaken` | `AckReachesCaller` | every `ROUNDTRIP_DONE` overwrites the last one without a comparison (`MessageParser.cpp:269`): when a dispatch in a listener brings the answer of an inner roundtrip before that of the outer one is handled, the inner one waits for an answer it has had; `AckLostToOuterOnly` is what does hold |
| `MCFailedBind` | `ErrorIsAnnounced` | a refused bind sets `m_error` and sends nothing (`ServerClient.cpp:125`); the client waits in `bindProtocol` |
| `MCFatal` | `ErrorDropsClient` | a client that was sent `FATAL_PROTOCOL_ERROR` is not dropped (`ServerSocket.cpp:298-311`) |
| `MCRoundtrip` | `RoundtripCoversIssued` | a roundtrip does not cover calls that are still deferred (`ClientSocket.cpp:364`); `RoundtripCoversSent` is what does hold |
| `MCVersion` | `VersionNeverRefuses` | a made object has version 0 on the client, which drops events that state a `since` (`ClientSocket.cpp:315`) |
| `MCPollWakeup` | `AddedIsPolled` | a dispatch may read `addClient`'s wakeup byte before the poll thread does (`ServerSocket.cpp:162`) |
| `MCServerPollRemoval` | `NeverThrows` | a callback that removes a client shortens the vectors, and `m_pollfds.at(i)` throws out of `dispatchEvents` (`ServerSocket.cpp:298`) |
| `MCServerPollEmpty` | `NeverEmpty` | the read that "should NOT happen" to be empty (`ServerSocket.cpp:326`) is that of every client that hangs up |
| `MCCodecErrorId` | `CoreErrorsHaveNoId` | the error of a call that the method does not expect carries the object's id as error id (`IWireObject.cpp:255`), where `docs/WIRE.md:93` wants -1 for what is no enum |
| `MCLengthBeyond` | `LengthsSurvive` | a length of 2^28 or more loses its upper bits (`MessageParser.cpp:297`), which `docs/WIRE.md` does not say |
| `MCStubsDestructor` | `DestructorDestroys` | a destructor destroys nothing (`docs/WIRE.md:113-115`): later calls are processed |
| `MCServerOpenStarts` | `AliveIsFound` | of two programs that start together one removes the file of the other, because it probed it between `bind` and `listen`, or probed a stale one that the other has replaced since |
| `MCServerOpenEnds` | `AliveIsFound` | a destructor removes the file of a program that started after its `close` |
| `MCSocketClient` | `AnyLengthIsRead` | a read that fills the buffer exactly goes on with a `recvmsg` that finds nothing, and the client takes this for an error (`SocketHelpers.cpp:68`) |
| `MCSocketServer` | `AnswersArrive` | the same at the server, where `recvmsg` sleeps until the client sends more (`SocketHelpers.cpp:68`) |
| `MCSocketPartial` | `NothingIsLost` | a client's `sendmsg` that takes a part of a message is treated as complete (`ClientSocket.cpp:205-213`) |

The socket rows are against "Content can be any length, and that needs to be
verified by the parser" (`docs/WIRE.md:8`), the two of ServerOpen against "check
if the socket is alive" in `attempt`.

`MCPollWakeup` needs an application that dispatches at a moment of its own
(`DispatchesAnyTime`); with the loops of the examples the thread is never
asleep during a dispatch, which is the lemma `TurnsStep` of ServerSocketProofs.

More observations have no sentence in the repository to be held against:

- `waitForObject` spins when the server has hung up, because POLLHUP fails the
  dispatch without setting `m_error` (`ClientSocket.cpp:125, 322`).
- `removeClient` called from the main loop leaves no wakeup byte and no lock for
  a poll thread that is copying (`RemovesAnyTime`).
- A peer that sends descriptors and hangs up at once may lose what it sent behind
  them: a read ends at descriptors, and the hangup drops the client before the
  next one (`LastWordsRead` is checked with `SendsFds = FALSE` only).
- The client's `IObject::error` does nothing, so a call that it refuses is
  dropped and the connection goes on.
- `MessageMagic.hpp:43` documents an OBJECT with a name that `call` never sends.
- A regular file at the path of the socket refuses `connect` like a stale socket
  and is removed.
- An object's `version`, and `returns` and `destructor` of an event, are read by
  nobody in the generator.
- `NeverBothWait` holds while the client leaves no more answers open than its
  socket holds pieces (`ServerNeverWaits`, section 7). With one more, a server
  that sleeps in `sendmsg` and a client that waits for its own requests to be
  taken stop each other: the application must read before it goes on asking.

## 7. What is proved

All for every value of the constants, so for any number of objects, calls,
events, roundtrips, frames and peers, with and without faults.

**SessionProofs: `TypeCorrect`, `HandleAgreement`, `EventRouting`,
`EventsInOrder`, `CallRouting`.** `TypeOK` is inductive as it stands, once it
says that deferred calls, waiting binds and requested creations name objects
that exist (`ClientRefsOK`, `ServerRefsOK`): `CFlushOne` and `CLoopReturns`
index `cObjs` by them. One lemma per action group; helper lemmas on channels,
frames and `RemoveAt`.

None of the other four properties is inductive: an id that arrives may come from the
channel, or from any batch on the stack.
`RoutingInv` says that every `NEW_OBJECT` on its way,
in the channel or in a batch of any frame, pairs a sequence with the id of the
object the server made for it, that every event on its way was sent on the
object it names, and that the handles and the listeners that ran agree with
that. Objects and events are only ever added, so what agreed still agrees
(`FaithfulGrows`); a client's step moves messages without inventing any
(`ClientSideRouting`), a server's step adds true ones (`ServerSideRouting`), a
torn message says nothing (`TearRouting`). `OrderInv` adds where an event can
be: the channel and every batch are in the order in which the server sent, a
batch holds older events than the batches of the frames above it and than the
channel, and what a frame has heard is older than what it still has. So an
event overtakes only those of a dispatch further out, and `EventOrder` follows.

`CallRouting` is `Spec => [](IdsFit => CallsRouted)`, where `IdsFit`
says that the server has made fewer objects than one byte can number. The
hypothesis is what `resolveSeq` needs, and run `resolve_id` shows it cannot
go. `CallInv` follows a call through `m_pendingOutgoing`, the channel and the
server's batch; that a deferred call leaves with the right id is where
`RoutingInv` is used.

**SessionProofs: `CallConservation`, `FlushIsComplete`.** What is on its way to the
server is one sequence, `Stream`: the rest of its batch, then the channel. A
call waits, is in the stream, or is done: in at most one of the three and there
once (`OnceInv`), and in at least one while nothing has failed (`KeptInv`).
`CallConservation` has two parts: that nothing is doubled needs no hypothesis,
that nothing is lost needs `IdsFit`, because a deferred call with a wrong id is
refused. `CopiesCounted` turns the three places into the count that
`CallsConserved` is about. `FlushIsComplete` needs only that a batch which is
not flushed keeps its frame on the stack (`FlushInv`), since the main loop has
control only when the stack is empty.

**DeliveryProofs: `RoundtripCoverage`, `CallsImplementDelivery`,
`AnswersReachCallers`.** For `RoundtripCoverage` every message in the stream carries the set of calls
that must be done before it is handled (`Needs`): a roundtrip those that were
sent when it was requested, a call that no listener made those made earlier on
its object. `QueueInv` says that each
of them is done or in front, `MarksInv` that a roundtrip never covers a call
that is still deferred, and `AnswersInv` that the answers on their way, the
scheduled one and the acknowledged one are of roundtrips whose calls are done.
That the server answers only the last of several roundtrips, and answers at
the end of a batch that failed, is where the order of the stream is used.

`CallsImplementDelivery` is the refinement: the initial states of `Spec` map to
those of `CallDelivery`, and every step of `Next` to a `MakeCall`, a `Process` or a
stutter, under the mapping of section 3. The three things `CallDelivery` asks of
a call that is processed are `OnceInv`, `CallInv` and `QueueInv`. Its
hypothesis `[]IdsFit` is that of `CallRouting`.

`AnswersReachCallers` is `AckLostToOuterOnly`, without hypothesis. Requests and
answers pass the server in the order of their sequences (`LineInv`). The
roundtrips on the stack are the later the deeper they are, and an answer that
a batch holds is awaited by a frame further out (`StackInv`); what the client
has not read yet is newer than all it has read (`OutsideInv`). So an answer
that takes the last acknowledged sequence back is that of a frame further out
than the batch it was in, and hence than the caller that loses its own.

**DeliveryProofs: `EventsReachListeners`.** `EventsHeard` without hypothesis: when the
client drops an event, its object is still being bound (`BindInProgress`), was
made by a call and has version 0 while the event states a `since`
(`TakenForOld`), or a dispatch further out still holds its `NEW_OBJECT` or a
message that arrived torn (`AnnouncedFurtherOut`). The property looks at one
step; the invariant has to explain why a handle with the right id and a listener
exists in all other cases:

- `PlaceInv`: a sequence of the client asks for at most one object. It is in one
  place, in a deferred call, in the stream, among the creations the server has
  yet to make, or the server has made it, and in that place once. Otherwise an
  id could belong to two objects with one sequence, and the handle would keep
  the second only.
- `VersionInv`: a bind and a handle carry the version the server's object gets,
  or 0 for one made by a call; so a handle is refused an event that the server
  may send only in the second case.
- `ShapeOK`: below every batch on the stack is the loop that dispatches it, and
  only batches hold messages. `ListensInv`: a handle without a listener is that of a bind
  in progress, whose frame is on the stack.
- `TurnInv`: the id of every event on its way is known to a handle, or a
  batch further out holds its `NEW_OBJECT`, or that stands in front of the event
  in the same batch or channel. A torn message counts as a `NEW_OBJECT`, because
  nothing behind it in its batch is handled. While both ends are open this
  holds of every object the server may send an event on (`Announced`).

**ServerSocketProofs, PollLoop: `PollTypeCorrect`, `SignalKept`, `NobodyOverlooked`.**
`SignalNotLost` is inductive and holds for any application, also a late one.
`SleepsOnEveryone` needs `Orderly` (in time, dispatching when the descriptor is
readable, removing in callbacks): then the two threads take turns (`Turns`),
and a client that the thread does not know has left its byte in the wakeup
pipe (`UnknownWakes`).

**CodecProofs, lengths: `VarIntRoundTrip`, `StreamSurvives`.** What `encodeVarInt` makes
of any length below 2^28, at any place in any data, `parseVarInt` reads back,
and finds its end (`VarIntRoundTrip`): the four digits make up the number
(`DigitsMakeLength`), and all but the last one written carry the flag
(`CodeShape`). `StreamSurvives` is `LengthsSurvive` for streams of any number of
such lengths. Its invariant `StreamInv` names the positions at which the stream falls into the
codes of the lengths that are not read; writing adds a position at the end,
reading removes the first and shifts the others.

**CodecProofs, messages: `WhatIsHeardWasSent`, `NothingIsMalformed`,
`NoPartPasses`.** `HeardIsSent`, `NothingRefused` and `TornIsError` for any
methods, arguments, messages and batches, under `Sound`, which MCCodec assumes of
its messages too: the receiver has the methods that the sender calls
(`Agreed`; that releases agree on them is `StubsProofs`), and the layout has room for each message (`Encodable`).
The limits of `Encodable` are those of the code: a length is below 2^28
(`MCLengthBeyond` shows what happens beyond), a bind does not ask for version 0, which
its parser refuses (`BindProtocol.cpp:43`), and the object of a deferred call has
an id of one byte (`resolveSeq`; run `resolve_id`).

All three rest on two lemmas about data that may end anywhere. `Stands(d, k, s)`
says that d has s behind offset k, as far as d reaches. `CoreIsFound`: where
the layout of a message of any code but `GENERIC` stands, its parser finds
the message again and its length if the data reach to its end, and finds nothing if
they do not. `CallIsFound` says the same of a call, and that the types it was
laid out with are those the method expects and its values, sequence and
descriptors those it was made with. For the arguments
`FoundWhole` and `FoundCut` say what the parser makes of one argument, and the
lemmas behind them that it does, type by type, arrays among them; `Laid` then
places each argument behind the others, and `ArgumentsFound` follows the
parser's loop through them. A message that is cut is always found out by the byte
that is missing: the place where a parser looks for `END` is behind the end of the
data (the hello, which is compared as a whole, is not cut in the model), because a length, a string or an array that is cut never seems to end
before it (`NumberStands`, `StringThere`, `FoundCut`).

`CodecInv` divides the messages sent into those heard, those in the batch and
those in the channel. The batch holds the layouts of its messages one behind the
other, the needle stands at the end of the last one heard, and the last
message alone may be cut or have descriptors, because a read ends there. So
every parser is applied where a layout stands (`NextMessage`), and
`CoreKeeps`, `GenericKeeps` and `ErrorKeeps` are the lemmas above; that only a
batch that was cut can fail is the second half of the invariant (`EndedTorn`).

**ServerSocketProofs, ServerOpen: `ServingIsFound`, `StaleStopsNobody`.** `AliveIsFound` and
`StaleIsReplaced` for any number of programs that start and end one at a time
(`StartsAlone`, `EndsAlone`). `OpenInv` adds what a program has learnt by where
it is in `attempt`: whoever is past the probe knows that nobody listens, and as
nobody else can start or end meanwhile, this stays so. `MCServerOpenStarts` and
`MCServerOpenEnds` show that neither hypothesis can go.

`SocketsAreHeld` is `ServerOpenTypeOK` without these hypotheses. Its second half,
that what listens are the sockets of those who serve, is inductive only with
`OwnSockets`: no two programs hold one socket, so that closing one's own never
closes another's.

**SocketIOProofs: `BytesAreKept`, `OnlyFullReadsFail`, `ShortAnswersAreRead`,
`ServerNeverWaits`.** For one direction, the batch, the kernel's queue and what
`sendMessage` still has are one stream, and each step moves bytes within
it, puts a message behind it or takes the first message away (`StreamSteps`).
`WholeInOrder` says that the stream is the messages not yet heard, each whole,
once and in order, in terms of its units, so that no definition recurses over the
messages; that adding and taking away preserve it are the lemmas `AddedWhole` and
`TakenAwayWhole`. `BytesAreKept` has the hypothesis `RequestsFit`: the kernel takes
a request in one piece. `MCSocketPartial` shows that it cannot go; answers may
be of any size, because the server's `sendmsg` blocks.

Where answers fit a piece too (`MessagesFit`), `EndsInv` says that the queue ends
with a whole message, and the batch too unless the reader is about to read more. So
a batch that is handled begins with a whole message (`BatchIsWhole`), and a
reader can only fail behind a read that filled the buffer exactly and was followed by
one that found nothing: `OnlyFullReadsFail`, where the hypothesis that the client is
never in that state is the one `MCSocketClient` shows to be needed. A
server in that state sleeps instead of failing (`MCSocketServer`), so `AnyLengthIsRead` needs
no such hypothesis for it. `ShortAnswersAreRead` replaces the hypothesis by one on the
constants: when all the answers the client leaves open come to less than the
buffer, no read of the client fills it.

Both this and `ServerNeverWaits` count what the kernel can hold. `OpenInv` says that
the server has answered exactly the requests heard that asked for an answer, so
that the answers under way are at most `Window` (`AnswersUnderWay`). The pieces in the
kernel are ends of different messages (`HeldBound`), so while the server has an
answer to send there are fewer than `Window` of them: with `Window <= Capacity` there is
room, `sendmsg` never sleeps, and `NeverBothWait` holds.

**ServerPollProofs: `ServerPollTypeCorrect`, `VectorsAgree`, `ReadsNeverBlock`,
`LastWordsAreRead`.** `Aligned`, `NeverBlocks` and `LastWordsRead` for any number of
peers, whatever the callbacks add and remove, and however deep they dispatch again.
A callback that adds or removes leaves both vectors rebuilt and nothing ready
(`Rebuilt`). A dispatch made in a callback polls over the interrupted pass; but it
returns only after a pass in which nothing was ready, so the interrupted loop
finds nothing stale to go on with (`FreshInv`). This needs that all
dispatches but the innermost are in a callback (`Suspended`) and that a peer has
one place, in the backlog or in `m_clients` (`PeersInv`): two entries of one
peer would be found ready by one poll, and the first read would leave the second
one to sleep. `LastWordsAreRead` adds that who is found hung up is also found
readable (`HangupsInv`), and that the read behind it took all (`DrainedInv`); it
has the hypothesis `~SendsFds`, because a read stops behind the chunk that brings
descriptors, and what such a peer sent after it is lost (section 6).

**StubsProofs: `NothingIsRefused`, `CallsArriveAsMade`.** `ReleasesAgree` and
`CallsMeanTheSame` for any document: methods of any number, arguments of any
number and type, releases and calls without bound. Two things have to be shown.

What a sender puts into its argument list is what a stub takes out again. The
table's line of a method (`Params`) and the list that a sender gives
(`CArguments`) are each a flattened sequence with one part per argument, of one
place or of two for an array, and the parts end at the same places
(`ParamsParts`, `HandedParts`, `Chop`). So `call`, which walks the two side by
side, makes one piece per argument (`Cells`, `MarshalledPieces`), the pieces'
types are those the receiver's table asks for (`Understood`), libffi is given
the sender's list again, behind the sequence if there is one (`PassedOn`), and
a stub finds every argument at its place (`VectorsBack`).

What a method is called in one release it is called in the other. A document
grows behind the methods of a side, so a program's methods of a side are a prefix
of the document's, and all that came later states a `since` beyond the program's
version (`Follows`; `Grown` is the step of the document, with `ScanGrows` for
ids). A method not newer than the bound version, which neither program's version is
below, is therefore in both prefixes, with one id (`Agreed`). `StubsInv` joins
the two: every message on its way is the call of a method that both
programs know and carries the arguments of the call it was made for (`Sent`),
and calls made, under way and heard are one queue (`QueueInv`), from which only
events are missing that came before the client listened.

**RecursionProofs.** Scanning, flattening, parsing arguments and decimal digits are
recursive over sequences and numbers. What they compute is shown without the library's
induction theorems, which have an operator parameter: `Induction` states the
principle with a set, `Recursion` and `Iteration` that the function a recursive
definition chooses exists, both from the well-foundedness of the natural
numbers, and `Flattened` what `FlattenSeq` makes of its parts.

Assumptions: the `ASSUME`s of the modules (`SinceAssumption`,
`ClientAssumption`, `ServerAssumption`, `EnvironmentAssumption`,
`PollAssumption`, `ServerPollAssumption`, `LengthStreamAssumption`,
`ServerOpenAssumption`, `SocketIOAssumption`, `CodecAssumption`, `StubsAssumption`), which only say what kind of value each
constant has (`CodecAssumption`: the messages are of the kinds this library sends in each direction, and a call has arguments of its method's types; `StubsAssumption`: arguments are of the types `strToMagic` knows, and an
array is called with a vector), and
`NoPeerIsInvalid`, that the failed `accept`'s -1 is no peer. TLC evaluates them on every run.

**Only model-checked.** `PublicCallsReturn`, `EveryCallProcessed`,
`ErrorUnblocks`, `EveryMessageRead`, `DestructorEnds`, `FoundIsRead`,
`EveryoneServed`, `AnswersArrive`: liveness, out of the prover's reach.
`PublicCallsReturn` is checked with frames for listeners that do not dispatch:
deeper, `MCAckOvertaken` refutes it.

## 8. What is left out, and why

- In Session a message keeps what a receiver decides on, and a torn or malformed
  message is one code: arguments, strings, descriptors and layout are those of
  Codec, which has one direction and no objects.
- libffi itself; `called` hands it what `Stubs` calls `Passed`.
- The contents of `serverSpecs`, and hence a bind to a protocol the server does
  not have; a refused version takes the same path in `createObject`.
- `waitForHandshake` from inside a listener, and calls on objects after the
  client's socket was closed (they are no-ops in `sendMessage`).
- The server's listeners are taken to be set in `onBind`; a client's
  application sets those of a made object before it dispatches.
- A client or server that is not this library: the messages on the wire are
  those that the two ends send, possibly torn.
- A part of a message with other messages behind it. When a client's `sendmsg`
  takes a part, `sendMessage` returns as if it had taken all
  (`ClientSocket.cpp:204-214`), and the application may go on. The server then
  takes the bytes that follow for the rest: it may handle the first message with
  wrong arguments, and what is behind is malformed, or, where whole messages fill
  the gap exactly, gone without an error. `Tear` makes the first message
  malformed, and Codec cuts a batch at its end only, so `CallsConserved`,
  `RoundtripCoversSent` and `TornIsError` are about a part that nothing runs on
  from. It takes a full socket and a message that the kernel keeps in more than one
  piece: `MCSocketPartial` refutes `NothingIsLost` then, and `BytesAreKept` has the
  hypothesis that requests fit a piece.
- A `dispatchEvents(true)` that sleeps. `CDispatch` stands for both forms; a
  blocking one merely cannot take `CNothingToRead`, so its behaviours are among those
  checked and proved. `session_live` has no dispatch in a listener, where
  a sleeping one would keep the library's caller from returning; in the main
  loop (`tests/Client.cpp:80`) it sleeps until there is something to read.
- Session's channels are unbounded; full sockets are in SocketIO, which has one
  connection and no objects.
- In PollLoop one pass over the clients is one step, peers do not reconnect, and
  a blocking dispatch is made only before the poll thread exists. The pass, with
  nested dispatches, is ServerPoll, which has no second thread.
- Failing `pipe`, `socket` and `poll`; `accept` fails only in ServerPoll, for want
  of descriptors.
- The scanner's XML parsing, command line and the text of what it writes; `Stubs` has
  the tables, senders and listener stubs of one object. Logging, environment,
  interfaces and packaging keep no state at run time.

## 9. Plan

Done: Wire, ClientSocket, ServerClient, Session, CallDelivery and their proofs
of type correctness, routing, delivery and refinement; PollLoop and its proofs;
ServerPoll and its proofs; VarInt, LengthStream, Messages, Calls and Codec with
their proofs; ServerOpen and its proofs; SocketIO and its proofs; Stubs and its
proofs. Every part with state has its module, and every safety invariant that a
run checks has its theorem.
