---------------------------- MODULE ClientSocket ----------------------------
(* The client's end of the connection (CClientSocket) and the objects it      *)
(* hands to its application (CClientObject).  The client is single threaded,  *)
(* but its public calls loop over dispatchEvents, dispatchEvents handles a    *)
(* batch of messages, and a message may run a listener of the application,    *)
(* which may make the same public calls again.  cStack is that call stack;    *)
(* every action is what its innermost frame does next.                        *)
EXTENDS Wire, SequencesExt

CONSTANTS
    CliVer,        \* version of the protocol spec the client was built with
    BindVersions,  \* versions the application may ask for when it binds
    ByteBase,      \* number of values of one byte of an object id (256 in the code)
    MaxObjects,    \* bound: objects the client makes
    MaxCalls,      \* bound: calls the client issues
    MaxRoundtrips, \* bound: roundtrips the client requests
    MaxDepth       \* bound: frames on the call stack

ASSUME ClientAssumption ==
    /\ CliVer \in Nat \ {0}
    /\ BindVersions \subseteq Nat
    /\ ByteBase \in Nat \ {0}
    /\ MaxObjects \in Nat /\ MaxCalls \in Nat /\ MaxRoundtrips \in Nat /\ MaxDepth \in Nat

VARIABLES
    cError,      \* m_error
    cHandshake,  \* m_handshakeDone
    cClock,      \* m_handshakeBegin against the 5 s limit: "unset", "running", "late"
    cObjs,       \* m_objects; m_seq is its length and m_seq of an object its index
    cPending,    \* m_pendingOutgoing
    cAckd,       \* m_lastAckdRoundtripSeq
    cSentRt,     \* m_lastSentRoundtripSeq
    cStack,      \* the calls in progress, innermost last
    issued,      \* history: the calls the application made
    marks,       \* history: per roundtrip, the calls made before it
    heard        \* history: the events that reached a listener, and how deep in the stack

cState == <<cError, cHandshake, cClock, cObjs, cPending, cAckd, cSentRt, cStack>>
cHistory == <<issued, marks, heard>>
cVars == <<cState, cHistory>>

Loops == {"handshake", "object", "roundtrip", "poll"}
Frame == [kind : Loops \cup {"batch", "listener"}, arg : Nat, msgs : Seq(Message)]
Handle == [id : Nat, ver : Nat, listens : BOOLEAN]
Deferred == [msg : Message, dep : Nat]
Call == [to : Nat, returns : Nat, nested : BOOLEAN]
Heard == [n : Nat, at : Nat, depth : Nat]

ClientInit ==
    /\ cError = FALSE /\ cHandshake = FALSE /\ cClock = "unset"
    /\ cObjs = <<>> /\ cPending = <<>>
    /\ cAckd = 0 /\ cSentRt = 0
    /\ cStack = <<>>
    /\ issued = <<>> /\ marks = <<>> /\ heard = <<>>

-----------------------------------------------------------------------------
(* The call stack.                                                            *)

Top == cStack[Len(cStack)]
Pop(stack) == SubSeq(stack, 1, Len(stack) - 1)
Push(kind, arg, msgs) ==
    Append(cStack, [kind |-> kind, arg |-> arg, msgs |-> msgs])

(* The application has control: nothing of the library runs, or a listener.   *)
InControl == cStack # <<>> => Top.kind = "listener"
AppActs == cOpen /\ InControl
Room == Len(cStack) < MaxDepth

InLoop == cStack # <<>> /\ Top.kind \in Loops
InBatch == cStack # <<>> /\ Top.kind = "batch"

(* The condition that ends the loop of the innermost public call.             *)
LoopOverBlind ==    \* mutant: waitForObject does not look at m_error
    CASE Top.kind = "handshake" -> cError \/ cHandshake
      [] Top.kind = "object"    -> cObjs[Top.arg].id # 0
      [] Top.kind = "roundtrip" -> cAckd >= Top.arg
      [] OTHER                  -> FALSE
LoopOver ==
    CASE Top.kind = "handshake" -> cError \/ cHandshake
      [] Top.kind = "object"    -> cError \/ cObjs[Top.arg].id # 0
      [] Top.kind = "roundtrip" -> cAckd >= Top.arg
      [] OTHER                  -> FALSE

(* stack is what dispatchEvents returns to, its caller innermost.  A single   *)
(* dispatch returns; waitForHandshake and roundtrip give up when it failed,   *)
(* waitForObject does not look.                                               *)
ReturnDispatch(stack, ok) ==
    IF stack[Len(stack)].kind = "poll" \/ (~ok /\ stack[Len(stack)].kind # "object")
    THEN Pop(stack)
    ELSE stack

DisconnectOnError == cError' = TRUE /\ CloseClientEnd

-----------------------------------------------------------------------------
(* What the application asks for.                                             *)

(* Made from the application's main function only (a bound: in a listener it  *)
(* could wait for a message that its own batch holds).                        *)
CWaitForHandshake ==
    /\ AppActs /\ Room /\ cStack = <<>> /\ ~cError /\ ~cHandshake
    /\ cClock' = "running"
    /\ cStack' = Push("handshake", 0, <<>>)
    /\ UNCHANGED <<cError, cHandshake, cObjs, cPending, cAckd, cSentRt, cHistory, wireVars>>

(* A blocking dispatchEvents(true) is one that does not return by             *)
(* CNothingToRead.  It has no timeout: m_handshakeBegin is set by             *)
(* waitForHandshake only, behind which the handshake is done or nothing is    *)
(* read any more.                                                             *)
CDispatch ==
    /\ AppActs /\ Room
    /\ cStack' = Push("poll", 0, <<>>)
    /\ UNCHANGED <<cError, cHandshake, cClock, cObjs, cPending, cAckd, cSentRt, cHistory, wireVars>>

(* ++m_seq: the sequence of the next object, which is also its place in       *)
(* m_objects.                                                                 *)
NextSeqPostIncrement == Len(cObjs)    \* mutant: m_seq++
NextSeq == Len(cObjs) + 1

(* The caller names the version; the check is against the client's own spec,  *)
(* which may be newer than the server's.                                      *)
CBind(ver) ==
    /\ AppActs /\ Room /\ ver <= CliVer /\ Len(cObjs) < MaxObjects
    /\ cObjs' = Append(cObjs, [id |-> 0, ver |-> ver, listens |-> FALSE])
    /\ c2s' = SentToServer(<<Bind(NextSeq, ver)>>)
    /\ cStack' = Push("object", NextSeq, <<>>)
    /\ UNCHANGED <<cError, cHandshake, cClock, cPending, cAckd, cSentRt, cHistory,
                   s2c, cOpen, sOpen>>

CBindTooNew(ver) ==
    /\ AppActs /\ ver > CliVer
    /\ DisconnectOnError
    /\ UNCHANGED <<cHandshake, cClock, cObjs, cPending, cAckd, cSentRt, cStack, cHistory,
                   c2s, sOpen>>

(* makeObject: the application registers its listeners before it dispatches.  *)
MadeHandleDeaf == [id |-> 0, ver |-> 0, listens |-> FALSE]    \* mutant: registers too late
MadeHandle == [id |-> 0, ver |-> 0, listens |-> TRUE]

(* A call on handle h.  A method newer than the object is refused by          *)
(* IObject::error, which does nothing on the client, so it is no step.  A     *)
(* method that returns an object makes the handle at once, at version 0.  A   *)
(* handle without an id defers the call.                                      *)
CCall(h, method) ==
    LET returns == IF method = "make" THEN NextSeq ELSE 0
        n       == Len(issued) + 1
        msg     == Generic(cObjs[h].id, method, returns, n)
    IN
    /\ AppActs /\ cObjs[h].listens /\ n <= MaxCalls /\ returns <= MaxObjects
    /\ Since[method] <= cObjs[h].ver
    /\ cObjs' = IF method = "make"
                THEN Append(cObjs, MadeHandle)
                ELSE cObjs
    /\ IF cObjs[h].id = 0
       THEN cPending' = Append(cPending, [msg |-> msg, dep |-> h]) /\ UNCHANGED c2s
       ELSE c2s' = SentToServer(<<msg>>) /\ UNCHANGED cPending
    /\ issued' = Append(issued, [to |-> h, returns |-> returns, nested |-> cStack # <<>>])
    /\ UNCHANGED <<cError, cHandshake, cClock, cAckd, cSentRt, cStack, marks, heard,
                   s2c, cOpen, sOpen>>

CRoundtripResets ==    \* mutant: starts from 0 again
    /\ AppActs /\ Room /\ ~cError /\ cSentRt < MaxRoundtrips
    /\ cSentRt' = cSentRt + 1
    /\ cAckd' = 0
    /\ c2s' = SentToServer(<<RoundtripRequest(cSentRt + 1)>>)
    /\ cStack' = Push("roundtrip", cSentRt + 1, <<>>)
    /\ marks' = Append(marks, [calls    |-> DOMAIN issued,
                               deferred |-> {cPending[i].msg.n : i \in DOMAIN cPending}])
    /\ UNCHANGED <<cError, cHandshake, cClock, cObjs, cPending, issued, heard,
                   s2c, cOpen, sOpen>>

CRoundtrip ==
    /\ AppActs /\ Room /\ ~cError /\ cSentRt < MaxRoundtrips
    /\ cSentRt' = cSentRt + 1
    /\ c2s' = SentToServer(<<RoundtripRequest(cSentRt + 1)>>)
    /\ cStack' = Push("roundtrip", cSentRt + 1, <<>>)
    /\ marks' = Append(marks, [calls    |-> DOMAIN issued,
                               deferred |-> {cPending[i].msg.n : i \in DOMAIN cPending}])
    /\ UNCHANGED <<cError, cHandshake, cClock, cObjs, cPending, cAckd, issued, heard,
                   s2c, cOpen, sOpen>>

(* The application destroys the socket when none of its calls is in progress. *)
CDestroy ==
    /\ cOpen /\ cStack = <<>>
    /\ DisconnectOnError
    /\ UNCHANGED <<cHandshake, cClock, cObjs, cPending, cAckd, cSentRt, cStack, cHistory,
                   c2s, sOpen>>

CListenerReturn ==
    /\ cStack # <<>> /\ Top.kind = "listener"
    /\ cStack' = Pop(cStack)
    /\ UNCHANGED <<cError, cHandshake, cClock, cObjs, cPending, cAckd, cSentRt, cHistory, wireVars>>

-----------------------------------------------------------------------------
(* The loops and dispatchEvents.                                              *)

(* The innermost call returns.  The application registers its listeners on a  *)
(* bound object when bindProtocol has returned it, and not before.            *)
CLoopReturns ==
    /\ InLoop /\ LoopOver
    /\ cStack' = Pop(cStack)
    /\ cObjs' = IF Top.kind = "object"
                THEN [cObjs EXCEPT ![Top.arg].listens = TRUE]
                ELSE cObjs
    /\ UNCHANGED <<cError, cHandshake, cClock, cPending, cAckd, cSentRt, cHistory, wireVars>>

(* dispatchEvents fails before it reads: an earlier error, or a hangup, which *)
(* is looked at before POLLIN, so that what the server sent last is not read. *)
(* waitForObject calls it again at once.                                      *)
CDispatchFails ==
    /\ InLoop /\ ~LoopOver /\ (cError \/ ~sOpen)
    /\ cStack' = ReturnDispatch(cStack, FALSE)
    /\ UNCHANGED <<cError, cHandshake, cClock, cObjs, cPending, cAckd, cSentRt, cHistory, wireVars>>

(* dispatchEvents(false) with nothing to read.                                *)
CNothingToRead ==
    /\ InLoop /\ Top.kind = "poll" /\ ~cError /\ sOpen /\ s2c = <<>>
    /\ cStack' = ReturnDispatch(cStack, TRUE)
    /\ UNCHANGED <<cError, cHandshake, cClock, cObjs, cPending, cAckd, cSentRt, cHistory, wireVars>>

(* poll() reaches what is left of the 5 s.                                    *)
CHandshakeTimeout ==
    /\ InLoop /\ ~LoopOver /\ Top.kind # "poll"
    /\ ~cError /\ ~cHandshake /\ cClock = "running" /\ sOpen /\ s2c = <<>>
    /\ DisconnectOnError
    /\ cStack' = ReturnDispatch(cStack, FALSE)
    /\ UNCHANGED <<cHandshake, cClock, cObjs, cPending, cAckd, cSentRt, cHistory, c2s, sOpen>>

(* The 5 s pass while the client is not in poll().  What is left of them is   *)
(* then negative, which poll() takes for "no timeout", as it does when        *)
(* waitForHandshake was never called.                                         *)
CClockRunsOut ==
    /\ cClock = "running" /\ ~cHandshake /\ ~(InLoop /\ ~LoopOver)
    /\ cClock' = "late"
    /\ UNCHANGED <<cError, cHandshake, cObjs, cPending, cAckd, cSentRt, cStack, cHistory, wireVars>>

CRead ==
    /\ InLoop /\ ~LoopOver /\ ~cError /\ sOpen
    /\ \E batch \in Batches(s2c) :
          /\ cStack' = Push("batch", 0, batch)
          /\ s2c' = Rest(s2c, batch)
    /\ UNCHANGED <<cError, cHandshake, cClock, cObjs, cPending, cAckd, cSentRt, cHistory,
                   c2s, cOpen, sOpen>>

-----------------------------------------------------------------------------
(* CMessageParser::handleMessage, one message at a time.                      *)

Handling(code) == InBatch /\ Top.msgs # <<>> /\ Head(Top.msgs).code = code
Advanced == [cStack EXCEPT ![Len(cStack)].msgs = Tail(@)]

CHandleHandshakeBegin ==
    /\ Handling("HANDSHAKE_BEGIN")
    /\ c2s' = SentToServer(<<Plain("HANDSHAKE_ACK")>>)
    /\ cStack' = Advanced
    /\ UNCHANGED <<cError, cHandshake, cClock, cObjs, cPending, cAckd, cSentRt, cHistory,
                   s2c, cOpen, sOpen>>

(* serverSpecs.  m_handshakeBegin is not read again.                          *)
CHandleProtocols ==
    /\ Handling("HANDSHAKE_PROTOCOLS")
    /\ cHandshake' = TRUE
    /\ cClock' = "unset"
    /\ cStack' = Advanced
    /\ UNCHANGED <<cError, cObjs, cPending, cAckd, cSentRt, cHistory, wireVars>>

(* onSeq: the object waiting under this sequence gets its id.                 *)
OnSeqFirst(seq, id) == [cObjs EXCEPT ![1].id = id]    \* mutant: no comparison
OnSeq(seq, id) == IF seq \in DOMAIN cObjs THEN [cObjs EXCEPT ![seq].id = id] ELSE cObjs

CHandleNewObject ==
    LET m == Head(Top.msgs) IN
    /\ Handling("NEW_OBJECT")
    /\ cObjs' = OnSeq(m.seq, m.id)
    /\ cStack' = Advanced
    /\ UNCHANGED <<cError, cHandshake, cClock, cPending, cAckd, cSentRt, cHistory, wireVars>>

IsFirst(i, S) == i \in S /\ \A j \in S : i <= j

(* onGeneric looks for the first object with the id; called runs its          *)
(* listener, if one is set and the method is not newer than the object.       *)
HearsAny(s, m) == IsFirst(s, {t \in DOMAIN cObjs : cObjs[t].listens})    \* mutant: ids ignored
Hears(s, m) ==
    /\ IsFirst(s, {t \in DOMAIN cObjs : cObjs[t].id = m.id})
    /\ cObjs[s].listens
    /\ Since[m.method] <= cObjs[s].ver

CHandleEvent(s) ==
    LET m == Head(Top.msgs) IN
    /\ Handling("GENERIC") /\ Hears(s, m)
    /\ heard' = Append(heard, [n |-> m.n, at |-> s, depth |-> Len(cStack)])
    /\ cStack' = Append(Advanced, [kind |-> "listener", arg |-> 0, msgs |-> <<>>])
    /\ UNCHANGED <<cError, cHandshake, cClock, cObjs, cPending, cAckd, cSentRt,
                   issued, marks, wireVars>>

(* Otherwise the event is dropped, without an error: IObject::error does      *)
(* nothing on the client.                                                     *)
CDropEvent ==
    /\ Handling("GENERIC")
    /\ \A s \in DOMAIN cObjs : ~Hears(s, Head(Top.msgs))
    /\ cStack' = Advanced
    /\ UNCHANGED <<cError, cHandshake, cClock, cObjs, cPending, cAckd, cSentRt, cHistory, wireVars>>

(* The error is noted, and the rest of the batch is still handled.            *)
CHandleFatal ==
    /\ Handling("FATAL")
    /\ cError' = TRUE
    /\ cStack' = Advanced
    /\ UNCHANGED <<cHandshake, cClock, cObjs, cPending, cAckd, cSentRt, cHistory, wireVars>>

CHandleRoundtripDone ==
    /\ Handling("ROUNDTRIP_DONE")
    /\ cAckd' = Head(Top.msgs).seq
    /\ cStack' = Advanced
    /\ UNCHANGED <<cError, cHandshake, cClock, cObjs, cPending, cSentRt, cHistory, wireVars>>

(* A message the client cannot parse, or that only a client may send: the     *)
(* connection is given up, the rest of the batch and the flush are skipped.   *)
CHandleMalformed ==
    /\ \E code \in {"MALFORMED", "SUP", "HANDSHAKE_ACK", "BIND_PROTOCOL", "ROUNDTRIP_REQUEST"} :
          Handling(code)
    /\ DisconnectOnError
    /\ cStack' = ReturnDispatch(Pop(cStack), FALSE)
    /\ UNCHANGED <<cHandshake, cClock, cObjs, cPending, cAckd, cSentRt, cHistory, c2s, sOpen>>

-----------------------------------------------------------------------------
(* After the batch: the deferred calls whose object has its id by now are     *)
(* sent, in order, then dispatchEvents returns.                               *)

Ready == {i \in DOMAIN cPending : cObjs[cPending[i].dep].id # 0}

(* Only one byte of the id reaches the message that was marshalled with id 0. *)
ResolveSeqFront(p) == [p.msg EXCEPT !.id = cObjs[1].id % ByteBase]    \* mutant: wrong object
ResolveSeq(p) == [p.msg EXCEPT !.id = cObjs[p.dep].id % ByteBase]

CFlushOneKeeps(i) ==    \* mutant: sent, but not erased
    /\ InBatch /\ Top.msgs = <<>> /\ IsFirst(i, Ready)
    /\ c2s' = SentToServer(<<ResolveSeq(cPending[i])>>)
    /\ UNCHANGED <<cVars, s2c, cOpen, sOpen>>

CFlushOneAnyOrder(i) ==    \* mutant: swapped order
    /\ InBatch /\ Top.msgs = <<>> /\ i \in Ready
    /\ c2s' = SentToServer(<<ResolveSeq(cPending[i])>>)
    /\ cPending' = RemoveAt(cPending, i)
    /\ UNCHANGED <<cError, cHandshake, cClock, cObjs, cAckd, cSentRt, cStack, cHistory,
                   s2c, cOpen, sOpen>>

CFlushOne(i) ==
    /\ InBatch /\ Top.msgs = <<>> /\ IsFirst(i, Ready)
    /\ c2s' = SentToServer(<<ResolveSeq(cPending[i])>>)
    /\ cPending' = RemoveAt(cPending, i)
    /\ UNCHANGED <<cError, cHandshake, cClock, cObjs, cAckd, cSentRt, cStack, cHistory,
                   s2c, cOpen, sOpen>>

CBatchDoneEarly ==    \* mutant: returns without the flush
    /\ InBatch /\ Top.msgs = <<>>
    /\ cStack' = ReturnDispatch(Pop(cStack), ~cError)
    /\ UNCHANGED <<cError, cHandshake, cClock, cObjs, cPending, cAckd, cSentRt, cHistory, wireVars>>

CBatchDone ==
    /\ InBatch /\ Top.msgs = <<>> /\ Ready = {}
    /\ cStack' = ReturnDispatch(Pop(cStack), ~cError)
    /\ UNCHANGED <<cError, cHandshake, cClock, cObjs, cPending, cAckd, cSentRt, cHistory, wireVars>>

-----------------------------------------------------------------------------
AppStep ==
    \/ CWaitForHandshake
    \/ CDispatch
    \/ \E ver \in BindVersions : CBind(ver) \/ CBindTooNew(ver)
    \/ \E h \in DOMAIN cObjs, method \in {"call", "make"} : CCall(h, method)
    \/ CRoundtrip

HandleStep ==
    \/ CHandleHandshakeBegin
    \/ CHandleProtocols
    \/ CHandleNewObject
    \/ \E s \in DOMAIN cObjs : CHandleEvent(s)
    \/ CDropEvent
    \/ CHandleFatal
    \/ CHandleRoundtripDone
    \/ CHandleMalformed

(* What the library does by itself once it has control, and the return of a   *)
(* listener: it goes on as long as it can.                                    *)
LibraryStep ==
    \/ CLoopReturns
    \/ CDispatchFails
    \/ CNothingToRead
    \/ CRead
    \/ HandleStep
    \/ \E i \in DOMAIN cPending : CFlushOne(i)
    \/ CBatchDone
    \/ CListenerReturn

ClientFlagsOK == cError \in BOOLEAN /\ cHandshake \in BOOLEAN

ClientTypeOK ==
    /\ cClock \in {"unset", "running", "late"}
    /\ cObjs \in Seq(Handle)
    /\ cPending \in Seq(Deferred)
    /\ cAckd \in Nat /\ cSentRt \in Nat
    /\ cStack \in Seq(Frame)
    /\ issued \in Seq(Call)
    /\ marks \in Seq([calls : SUBSET Nat, deferred : SUBSET Nat])
    /\ heard \in Seq(Heard)

(* A deferred call and a waiting bind name an object the client has.          *)
ClientRefsOK ==
    /\ \A i \in DOMAIN cPending : cPending[i].dep \in DOMAIN cObjs
    /\ \A d \in DOMAIN cStack :
          cStack[d].kind = "object" => cStack[d].arg \in DOMAIN cObjs
=============================================================================
