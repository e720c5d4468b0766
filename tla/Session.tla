------------------------------- MODULE Session -------------------------------
(* One hyprwire connection: a client and a server built from this library,   *)
(* their applications, and the stream sockets between them.                   *)
EXTENDS ClientSocket, ServerClient

CONSTANTS
    MayTear,    \* a message may arrive in pieces
    MayHangUp   \* either end may be closed while the other still uses it

ASSUME EnvironmentAssumption == MayTear \in BOOLEAN /\ MayHangUp \in BOOLEAN

vars == <<wireVars, cVars, sVars>>

Init == WireInit /\ ClientInit /\ ServerInit

-----------------------------------------------------------------------------
ClientApp == AppStep /\ UNCHANGED sVars
ClientLeaves == MayHangUp /\ CDestroy /\ UNCHANGED sVars
ClientLibrary == LibraryStep /\ UNCHANGED sVars
ClientTime == (CHandshakeTimeout \/ CClockRunsOut) /\ UNCHANGED sVars

ServerDispatch == DispatchStep /\ UNCHANGED cVars
ServerApp == SAppStep /\ UNCHANGED cVars
ServerRemoves == MayHangUp /\ SRemove /\ UNCHANGED cVars

Tear ==
    /\ MayTear
    /\ \/ c2s # <<>> /\ c2s' = TearLast(c2s) /\ UNCHANGED s2c
       \/ s2c # <<>> /\ s2c' = TearLast(s2c) /\ UNCHANGED c2s
    /\ UNCHANGED <<cOpen, sOpen, cVars, sVars>>

(* Between its calls the client's application may do nothing, or have exited. *)
Idle == cStack = <<>> /\ UNCHANGED vars

Next ==
    \/ ClientApp
    \/ ClientLeaves
    \/ ClientLibrary
    \/ ClientTime
    \/ ServerDispatch
    \/ ServerApp
    \/ ServerRemoves
    \/ Tear
    \/ Idle

Spec == Init /\ [][Next]_vars

(* A call in progress keeps running (the client's thread is in it), the       *)
(* server's main loop keeps dispatching, and a listener that gets control     *)
(* again and again returns at some point.  Nobody has to call anything.       *)
ListenersReturn == CListenerReturn /\ UNCHANGED sVars
Fairness ==
    /\ WF_vars(ClientLibrary)
    /\ WF_vars(ServerDispatch)
    /\ SF_vars(ListenersReturn)

FairSpec == Spec /\ Fairness

(* The two applications of the examples: the client's main loop dispatches,   *)
(* and the server's creates every object it is asked for.                     *)
MainLoop == cStack = <<>> /\ CDispatch /\ UNCHANGED sVars
CreatesObjects == (\E make \in sMakes : SCreate(make, TRUE)) /\ UNCHANGED cVars

LiveSpec == FairSpec /\ WF_vars(MainLoop) /\ WF_vars(CreatesObjects)

-----------------------------------------------------------------------------
(* Type correctness: every field of the client, of the server's view of it    *)
(* and of the connection keeps its range, a deferred call and a pending bind  *)
(* name an object the client has, and a pending creation an object the server *)
(* has.                                                                       *)
TypeOK ==
    /\ WireFlagsOK /\ ClientFlagsOK /\ ServerFlagsOK
    /\ WireTypeOK
    /\ ClientTypeOK /\ ClientRefsOK
    /\ ServerTypeOK /\ ServerRefsOK

(* Handle agreement: an id the client's handle holds (set by onSeq) is the id *)
(* of the object that the server created for that very sequence, however      *)
(* binds, creations and nested dispatches interleave.  Hence two handles of   *)
(* the client never name the same object.                                     *)
Agree(seq, id) == id \in DOMAIN sObjs /\ sObjs[id].seq = seq
HandlesAgree == \A s \in DOMAIN cObjs : cObjs[s].id # 0 => Agree(s, cObjs[s].id)

(* Routing: a call reaches (CServerClient::onGeneric) the object made for the *)
(* handle it was issued on, deferred or not.                                  *)
CallsRouted ==
    \A i \in DOMAIN handled :
        Agree(issued[handled[i].n].to, handled[i].at)

(* Routing of events: the listener that runs (CClientSocket::onGeneric) is    *)
(* the one on the handle of the object the server sent the event on.          *)
EventsRouted ==
    \A i \in DOMAIN heard : Agree(heard[i].at, emitted[heard[i].n])

Copies(n) ==
    Cardinality({i \in DOMAIN cPending : cPending[i].msg.n = n})
    + Cardinality({i \in DOMAIN c2s : c2s[i].n = n})
    + Cardinality({i \in DOMAIN sBatch : sBatch[i].n = n})
    + Cardinality({i \in DOMAIN handled : handled[i].n = n})

Healthy == cOpen /\ sOpen /\ ~cError /\ ~sError

(* Conservation of calls: a call is deferred, on the wire, in the server's    *)
(* batch or processed, never in two of these places, and in none of them only *)
(* after the connection was closed or failed.                                 *)
CallsConserved ==
    \A n \in DOMAIN issued : Copies(n) <= 1 /\ (Healthy => Copies(n) = 1)

(* The flush is complete: whenever the application's main loop has control,   *)
(* no deferred call waits for an object that already has its id.              *)
FlushComplete == cStack = <<>> /\ cOpen => Ready = {}

ProcessedCalls == {handled[i].n : i \in DOMAIN handled}

(* Roundtrips: once roundtrip k is acknowledged, every call that was on the   *)
(* wire when it was requested has been processed, also when the server        *)
(* answers several requests with one ROUNDTRIP_DONE or fails inside a batch.  *)
RoundtripCoversSent ==
    \A k \in DOMAIN marks :
        k <= cAckd => marks[k].calls \ marks[k].deferred \subseteq ProcessedCalls

(* What docs/WIRE.md says a roundtrip is for: the server has processed the    *)
(* requests issued before it.                                                 *)
RoundtripCoversIssued ==
    \A k \in DOMAIN marks : k <= cAckd => marks[k].calls \subseteq ProcessedCalls

BindInProgress(s) ==
    \E d \in DOMAIN cStack : cStack[d].kind = "object" /\ cStack[d].arg = s
AnnouncedFurtherOut(id) ==
    \E d \in DOMAIN cStack : \E i \in DOMAIN cStack[d].msgs :
        LET m == cStack[d].msgs[i] IN
        (m.code = "NEW_OBJECT" /\ m.id = id) \/ m.code = "MALFORMED"
TakenForOld(s) == cObjs[s].ver = 0 /\ Since["event"] > 0

(* An event is dropped in three cases only: its object is being bound, so     *)
(* that the application had no chance to register a listener yet; its object  *)
(* was made by a call, so that the client takes it for version 0 and the      *)
(* event, which states a since, for newer; or a listener dispatched while the *)
(* NEW_OBJECT of the event's object, or what is left of a torn message, was   *)
(* still to be handled, in the batch of an outer dispatch.                    *)
EventsHeard ==
    [][CDropEvent =>
          LET id == Head(Top.msgs).id IN
          \/ \E s \in DOMAIN cObjs :
                cObjs[s].id = id /\ (BindInProgress(s) \/ TakenForOld(s))
          \/ AnnouncedFurtherOut(id)]_vars

(* The events on one object are heard in the order they were sent, and none   *)
(* twice, unless a listener dispatched: an event overtakes only those that    *)
(* the batch of an outer dispatch still holds.                                *)
EventOrder ==
    \A i, j \in DOMAIN heard :
        i < j /\ heard[i].at = heard[j].at /\ heard[i].depth <= heard[j].depth
            => heard[i].n < heard[j].n

(* handleMessage takes a ROUNDTRIP_DONE that is lower than what the caller in *)
(* frame d waits for, after one that had satisfied it.                        *)
AckLost(d) ==
    /\ cStack[d].kind = "roundtrip" /\ cAckd >= cStack[d].arg
    /\ d \in DOMAIN cStack' /\ cAckd' < cStack[d].arg

(* What docs/WIRE.md says a roundtrip is for: the client can wait until the   *)
(* server has answered.  A roundtrip that was acknowledged stays so until its *)
(* caller has seen it.                                                        *)
AckReachesCaller == [][\A d \in DOMAIN cStack : ~AckLost(d)]_vars

(* A roundtrip that was acknowledged stays so until its caller has seen it,   *)
(* although every ROUNDTRIP_DONE overwrites the last one without a            *)
(* comparison, unless it was made in a listener and the answer that replaces  *)
(* its own is that of a roundtrip further out on the stack.  One that the     *)
(* main loop makes never loses its answer.                                    *)
AckLostToOuterOnly ==
    [][\A d \in DOMAIN cStack :
          AckLost(d) =>
              \E e \in 1..d - 1 : cStack[e].kind = "roundtrip" /\ cStack[e].arg = cAckd']_vars

(* docs/WIRE.md: a client that commits a protocol error is sent a             *)
(* FATAL_PROTOCOL_ERROR.                                                      *)
ErrorIsAnnounced == sError /\ ~sBusy => sFatal

(* docs/WIRE.md: after FATAL_PROTOCOL_ERROR the connection is terminated; the *)
(* server's log calls it "Dropping client (protocol error)".                  *)
ErrorDropsClient == sFatal ~> ~sOpen

(* docs/WIRE.md: a generic message carries the object id from NEW_OBJECT.     *)
CallsCarryAssignedId ==
    \A i \in DOMAIN c2s :
        c2s[i].code = "GENERIC" => Agree(issued[c2s[i].n].to, c2s[i].id)

(* A comment in makeObject says of the version 0 it gives to an object made   *)
(* by a call that it "doesn't matter that much": the client refuses no event  *)
(* that the server may send on the object.                                    *)
VersionNeverRefuses ==
    Handling("GENERIC") =>
        \A s \in DOMAIN cObjs :
            cObjs[s].id = Head(Top.msgs).id => Since["event"] <= cObjs[s].ver

(* The calls of the client, through the wire, implement CallDelivery.         *)
Delivery == INSTANCE CallDelivery WITH
    Objects <- 1..MaxObjects,
    made <- [k \in DOMAIN issued |-> [to |-> issued[k].to, nested |-> issued[k].nested]],
    done <- [i \in DOMAIN handled |-> [n |-> handled[i].n, on |-> sObjs[handled[i].at].seq]]
ImplementsCallDelivery == Delivery!DeliverySpec

(* Every public call of the client returns to the application's main loop,    *)
(* as long as nobody fails and nobody hangs up.                               *)
PublicCallsReturn == (cStack # <<>>) ~> (cStack = <<>>)

(* Every call is processed in the end, the deferred ones included, unless the *)
(* handshake timed out.                                                       *)
EveryCallProcessed ==
    \A n \in 1..MaxCalls : (n \in DOMAIN issued) ~> (cError \/ n \in ProcessedCalls)

(* An error the client notices (a FATAL from the server, a message it cannot  *)
(* parse, the handshake timeout) ends every public call that is in progress,  *)
(* at whatever depth of the stack it is noticed.                              *)
ErrorUnblocks == cError ~> (cStack = <<>>)
=============================================================================
