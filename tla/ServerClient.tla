---------------------------- MODULE ServerClient ----------------------------
(* The server's end of one connection (CServerClient), the objects it made    *)
(* for the client (CServerObject), and the part of CServerSocket that         *)
(* dispatches it.  The server is single threaded: while it handles a batch,   *)
(* its application runs only inside the callback of the last message.         *)
EXTENDS Wire

CONSTANTS
    SrvVer,      \* version of the protocol spec the server implements
    AppMayErr,   \* the server's application may use an unknown interface or raise an error
    MaxEvents    \* bound: events the server's application sends

ASSUME ServerAssumption ==
    /\ SrvVer \in Nat \ {0}
    /\ AppMayErr \in BOOLEAN
    /\ MaxEvents \in Nat

VARIABLES
    sError,      \* m_error
    sBusy,       \* the client is inside dispatchClient
    sBatch,      \* what is left of the batch being handled
    sCallback,   \* the application runs in the callback of the last message
    sObjs,       \* m_objects; m_id of an object is its index, m_maxId the next one
    sRt,         \* m_scheduledRoundtripSeq
    sMakes,      \* sequences the application was asked to create objects for
    handled,     \* history: the calls that reached an object
    emitted,     \* history: the events sent
    sFatal       \* history: a FATAL was sent

sState == <<sError, sBusy, sBatch, sCallback, sObjs, sRt, sMakes>>
sHistory == <<handled, emitted, sFatal>>
sVars == <<sState, sHistory>>

Object == [seq : Nat, ver : Nat, ok : BOOLEAN]
Make == [obj : Nat, seq : Nat]

ServerInit ==
    /\ sError = FALSE /\ sBusy = FALSE /\ sBatch = <<>> /\ sCallback = FALSE
    /\ sObjs = <<>> /\ sRt = 0 /\ sMakes = {}
    /\ handled = <<>> /\ emitted = <<>> /\ sFatal = FALSE

-----------------------------------------------------------------------------
(* createObject: the object takes the next id before anything is validated.   *)
(* A valid one is announced and offered to the application (onBind); for an   *)
(* invalid one only m_error is set.                                           *)
CreateObject(seq, ver, known) ==
    LET ok == known /\ ver <= SrvVer IN
    /\ sObjs' = Append(sObjs, [seq |-> seq, ver |-> ver, ok |-> ok])
    /\ IF ok
       THEN /\ s2c' = SentToClient(<<NewObject(seq, Len(sObjs) + 1)>>)
            /\ UNCHANGED sError
       ELSE /\ sError' = TRUE
            /\ UNCHANGED s2c

(* A FATAL_PROTOCOL_ERROR is sent, m_error is set; the socket stays open.     *)
Fail ==
    /\ s2c' = SentToClient(<<Plain("FATAL")>>)
    /\ sFatal' = TRUE
    /\ sError' = TRUE

-----------------------------------------------------------------------------
(* dispatchClient.                                                            *)

(* parseFromFd.  Once the client hung up, one read takes all that is left.    *)
SRead ==
    /\ sOpen /\ ~sBusy
    /\ \E batch \in Batches(c2s) :
          /\ cOpen \/ batch = c2s
          /\ sBatch' = batch
          /\ c2s' = Rest(c2s, batch)
    /\ sBusy' = TRUE
    /\ UNCHANGED <<sError, sCallback, sObjs, sRt, sMakes, sHistory, s2c, cOpen, sOpen>>

SHandling(code) ==
    sOpen /\ sBusy /\ ~sError /\ sBatch # <<>> /\ Head(sBatch).code = code

SHandleHello ==
    /\ SHandling("SUP")
    /\ s2c' = SentToClient(<<Plain("HANDSHAKE_BEGIN")>>)
    /\ sBatch' = Tail(sBatch) /\ sCallback' = FALSE
    /\ UNCHANGED <<sError, sBusy, sObjs, sRt, sMakes, sHistory, c2s, cOpen, sOpen>>

SHandleAck ==
    /\ SHandling("HANDSHAKE_ACK")
    /\ s2c' = SentToClient(<<Plain("HANDSHAKE_PROTOCOLS")>>)
    /\ sBatch' = Tail(sBatch) /\ sCallback' = FALSE
    /\ UNCHANGED <<sError, sBusy, sObjs, sRt, sMakes, sHistory, c2s, cOpen, sOpen>>

SHandleBind ==
    /\ SHandling("BIND_PROTOCOL") /\ Head(sBatch).ver # 0
    /\ CreateObject(Head(sBatch).seq, Head(sBatch).ver, TRUE)
    /\ sBatch' = Tail(sBatch)
    /\ sCallback' = ~sError'
    /\ UNCHANGED <<sBusy, sRt, sMakes, sHistory, c2s, cOpen, sOpen>>

(* onGeneric and called: an unknown id is only logged.  A call of a method    *)
(* newer than the object is a protocol error; otherwise the listener runs,    *)
(* and for a method that returns an object it is told the sequence.           *)
TooNew(m) == m.id \in DOMAIN sObjs /\ Since[m.method] > sObjs[m.id].ver

SHandleCall ==
    LET m == Head(sBatch) IN
    /\ SHandling("GENERIC")
    /\ IF TooNew(m) THEN Fail ELSE UNCHANGED <<s2c, sFatal, sError>>
    /\ sCallback' = (m.id \in DOMAIN sObjs /\ ~TooNew(m))
    /\ handled' = IF sCallback' THEN Append(handled, [n |-> m.n, at |-> m.id]) ELSE handled
    /\ sMakes' = IF sCallback' /\ m.method = "make"
                 THEN sMakes \cup {[obj |-> m.id, seq |-> m.seq]}
                 ELSE sMakes
    /\ sBatch' = Tail(sBatch)
    /\ UNCHANGED <<sBusy, sObjs, sRt, emitted, c2s, cOpen, sOpen>>

(* The answer waits for the end of the batch; a later request replaces it.    *)
SHandleRoundtripForgets ==    \* mutant: the sequence is not kept
    /\ SHandling("ROUNDTRIP_REQUEST")
    /\ sBatch' = Tail(sBatch) /\ sCallback' = FALSE
    /\ UNCHANGED <<sError, sBusy, sObjs, sRt, sMakes, sHistory, wireVars>>

SHandleRoundtrip ==
    /\ SHandling("ROUNDTRIP_REQUEST")
    /\ sRt' = Head(sBatch).seq
    /\ sBatch' = Tail(sBatch) /\ sCallback' = FALSE
    /\ UNCHANGED <<sError, sBusy, sObjs, sMakes, sHistory, wireVars>>

(* A message the server cannot parse (a bind to version 0 is one), or that    *)
(* only a server may send: the rest of the batch is dropped, and a roundtrip  *)
(* scheduled by it stays scheduled.                                           *)
SHandleMalformedSkips ==    \* mutant: the bad message is skipped
    /\ SHandling("MALFORMED")
    /\ sBatch' = Tail(sBatch) /\ sCallback' = FALSE
    /\ UNCHANGED <<sError, sBusy, sObjs, sRt, sMakes, sHistory, wireVars>>

SHandleMalformed ==
    /\ \/ SHandling("BIND_PROTOCOL") /\ Head(sBatch).ver = 0
       \/ \E code \in {"MALFORMED", "HANDSHAKE_BEGIN", "HANDSHAKE_PROTOCOLS", "NEW_OBJECT",
                       "FATAL", "ROUNDTRIP_DONE"} : SHandling(code)
    /\ Fail
    /\ sBusy' = FALSE /\ sBatch' = <<>> /\ sCallback' = FALSE
    /\ UNCHANGED <<sObjs, sRt, sMakes, handled, emitted, c2s, cOpen, sOpen>>

(* handleMessage returns at the end of the batch, or as soon as m_error is    *)
(* set; a scheduled roundtrip is answered in either case.                     *)
SBatchDone ==
    /\ sOpen /\ sBusy /\ (sBatch = <<>> \/ sError)
    /\ s2c' = IF sRt > 0 THEN SentToClient(<<RoundtripDone(sRt)>>) ELSE s2c
    /\ sRt' = 0
    /\ sBusy' = FALSE /\ sBatch' = <<>> /\ sCallback' = FALSE
    /\ UNCHANGED <<sError, sObjs, sMakes, sHistory, c2s, cOpen, sOpen>>

(* A hangup with nothing left to read: the client is erased and its           *)
(* descriptor closed.                                                         *)
SHangup ==
    /\ sOpen /\ ~sBusy /\ ~cOpen /\ c2s = <<>>
    /\ CloseServerEnd
    /\ UNCHANGED <<sVars, s2c, cOpen>>

-----------------------------------------------------------------------------
(* The server's application, between dispatches or in a callback.             *)

SAppActs == sOpen /\ (~sBusy \/ sCallback)

(* createObject, after a call that returns an object asked for it.  The new   *)
(* object has the version of the one it was called on.                        *)
SCreate(make, known) ==
    /\ SAppActs /\ (known \/ AppMayErr)
    /\ CreateObject(make.seq, sObjs[make.obj].ver, known)
    /\ sMakes' = sMakes \ {make}
    /\ UNCHANGED <<sBusy, sBatch, sCallback, sRt, sHistory, c2s, cOpen, sOpen>>

SEmit(id) ==
    /\ SAppActs /\ sObjs[id].ok /\ Since["event"] <= sObjs[id].ver
    /\ Len(emitted) < MaxEvents
    /\ emitted' = Append(emitted, id)
    /\ s2c' = SentToClient(<<Generic(id, "event", 0, Len(emitted) + 1)>>)
    /\ UNCHANGED <<sState, handled, sFatal, c2s, cOpen, sOpen>>

(* The application raises an error on an object (bound: once).                *)
SRaise(id) ==
    /\ SAppActs /\ AppMayErr /\ sObjs[id].ok /\ ~sError
    /\ Fail
    /\ UNCHANGED <<sBusy, sBatch, sCallback, sObjs, sRt, sMakes, handled, emitted,
                   c2s, cOpen, sOpen>>

(* removeClient, or the end of the server.                                    *)
SRemove ==
    /\ sOpen /\ ~sBusy
    /\ CloseServerEnd
    /\ UNCHANGED <<sVars, s2c, cOpen>>

-----------------------------------------------------------------------------
DispatchStep ==
    \/ SRead
    \/ SHandleHello
    \/ SHandleAck
    \/ SHandleBind
    \/ SHandleCall
    \/ SHandleRoundtrip
    \/ SHandleMalformed
    \/ SBatchDone
    \/ SHangup

SAppStep ==
    \/ \E make \in sMakes, known \in BOOLEAN : SCreate(make, known)
    \/ \E id \in DOMAIN sObjs : SEmit(id) \/ SRaise(id)

ServerFlagsOK ==
    sError \in BOOLEAN /\ sBusy \in BOOLEAN /\ sCallback \in BOOLEAN /\ sFatal \in BOOLEAN

ServerTypeOK ==
    /\ sBatch \in Seq(Message)
    /\ sObjs \in Seq(Object)
    /\ sRt \in Nat
    /\ sMakes \subseteq Make
    /\ handled \in Seq([n : Nat, at : Nat])
    /\ emitted \in Seq(Nat)

(* A requested creation names an object the server has.                       *)
ServerRefsOK == \A make \in sMakes : make.obj \in DOMAIN sObjs
=============================================================================
