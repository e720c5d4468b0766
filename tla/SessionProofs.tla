---------------------------- MODULE SessionProofs ----------------------------
(* What holds of Session for every number of objects, calls, roundtrips and   *)
(* events, every depth of the client's call stack and every version of the    *)
(* two protocol specs: states are well typed; ids, calls and events never     *)
(* reach the wrong object; and a call is neither lost nor doubled.            *)
EXTENDS Session, SequenceTheorems, FiniteSetTheorems, TLAPS

-----------------------------------------------------------------------------
(* Lemmas about the sequences the model is built from.                        *)

(* Pop leaves a stack of the same kind of frames.                             *)
LEMMA PopType ==
    ASSUME NEW S, NEW s \in Seq(S)
    PROVE  Pop(s) \in Seq(S)
  BY DEF Pop

(* Every frame of a popped stack was there before, at the same place.         *)
LEMMA PopElements ==
    ASSUME NEW S, NEW s \in Seq(S), NEW d \in DOMAIN Pop(s)
    PROVE  d \in DOMAIN s /\ Pop(s)[d] = s[d]
  BY DEF Pop

(* Reading takes a prefix of the channel and leaves the rest.                 *)
LEMMA BatchType ==
    ASSUME NEW S, NEW s \in Seq(S), NEW b \in Batches(s)
    PROVE  /\ b \in Seq(S)
           /\ Rest(s, b) \in Seq(S)
           /\ \A i \in DOMAIN b : i \in DOMAIN s /\ b[i] = s[i]
           /\ \A i \in DOMAIN Rest(s, b) :
                 /\ i + Len(b) \in DOMAIN s
                 /\ Rest(s, b)[i] = s[i + Len(b)]
  BY DEF Batches, Rest

(* Removing an element moves those behind it one place to the front.          *)
LEMMA RemoveShape ==
    ASSUME NEW S, NEW s \in Seq(S), NEW i \in DOMAIN s
    PROVE  /\ RemoveAt(s, i) \in Seq(S)
           /\ Len(s) \in Nat /\ DOMAIN s = 1..Len(s)
           /\ DOMAIN RemoveAt(s, i) = 1..Len(s) - 1
           /\ \A j \in 1..Len(s) - 1 : RemoveAt(s, i)[j] = IF j < i THEN s[j] ELSE s[j + 1]
<1> DEFINE before == SubSeq(s, 1, i - 1)
           after  == SubSeq(s, i + 1, Len(s))
<1>1. /\ before \in Seq(S) /\ Len(before) = i - 1
      /\ after \in Seq(S) /\ Len(after) = Len(s) - i
      /\ \A j \in 1..i - 1 : before[j] = s[j]
      /\ \A j \in 1..Len(s) - i : after[j] = s[j + i]
  OBVIOUS
<1>2. RemoveAt(s, i) = before \o after
  BY DEF RemoveAt
<1>3. /\ before \o after \in Seq(S) /\ Len(before \o after) = Len(s) - 1
      /\ \A j \in 1..Len(s) - 1 :
            (before \o after)[j] = IF j <= i - 1 THEN before[j] ELSE after[j - (i - 1)]
  <2> HIDE DEF before, after
  <2> QED BY <1>1
<1>4. ASSUME NEW j \in 1..Len(s) - 1
      PROVE  RemoveAt(s, i)[j] = IF j < i THEN s[j] ELSE s[j + 1]
  <2>1. CASE j <= i - 1
    <3> HIDE DEF before, after
    <3> QED BY <2>1, <1>1, <1>2, <1>3
  <2>2. CASE j > i - 1
    <3>1. RemoveAt(s, i)[j] = after[j - (i - 1)]
      <4> HIDE DEF before, after
      <4> QED BY <2>2, <1>2, <1>3
    <3>2. j - (i - 1) \in 1..Len(s) - i /\ j - (i - 1) + i = j + 1 /\ j + 1 \in DOMAIN s
      BY <2>2
    <3>3. after[j - (i - 1)] = s[j + 1]
      <4> HIDE DEF after
      <4> QED BY <3>2, <1>1
    <3> QED BY <2>2, <3>1, <3>3
  <2> QED BY <2>1, <2>2
<1>5. RemoveAt(s, i) \in Seq(S) /\ DOMAIN RemoveAt(s, i) = 1..Len(s) - 1
  BY <1>2, <1>3
<1>6. Len(s) \in Nat /\ DOMAIN s = 1..Len(s)
  OBVIOUS
<1> QED BY <1>4, <1>5, <1>6

(* Removing an element keeps only elements that were there.                   *)
LEMMA RemoveType ==
    ASSUME NEW S, NEW s \in Seq(S), NEW i \in DOMAIN s
    PROVE  /\ RemoveAt(s, i) \in Seq(S)
           /\ \A j \in DOMAIN RemoveAt(s, i) :
                 \E k \in DOMAIN s : RemoveAt(s, i)[j] = s[k]
<1>1. ASSUME NEW j \in DOMAIN RemoveAt(s, i)
      PROVE  \E k \in DOMAIN s : RemoveAt(s, i)[j] = s[k]
  <2>1. j \in DOMAIN s /\ j + 1 \in DOMAIN s
    BY RemoveShape
  <2> QED BY <2>1, RemoveShape
<1> QED BY <1>1, RemoveShape

(* The head of a batch is one of its messages, and the tail holds the others. *)
LEMMA HeadTailElements ==
    ASSUME NEW S, NEW s \in Seq(S), s # <<>>
    PROVE  /\ Head(s) \in S /\ Head(s) = s[1] /\ 1 \in DOMAIN s
           /\ Tail(s) \in Seq(S)
           /\ \A i \in DOMAIN Tail(s) : i + 1 \in DOMAIN s /\ Tail(s)[i] = s[i + 1]
  OBVIOUS

(* Appending keeps the elements and adds one at the next place.               *)
LEMMA AppendType ==
    ASSUME NEW S, NEW s \in Seq(S), NEW x \in S
    PROVE  /\ Append(s, x) \in Seq(S)
           /\ <<x>> \in Seq(S)
           /\ DOMAIN s = 1..Len(s) /\ Len(s) \in Nat
           /\ DOMAIN Append(s, x) = 1..Len(s) + 1
           /\ \A i \in DOMAIN s : i \in DOMAIN Append(s, x) /\ Append(s, x)[i] = s[i]
           /\ Append(s, x)[Len(s) + 1] = x
  OBVIOUS

(* The messages of the wire are well formed.                                  *)
LEMMA MessageTypes ==
    /\ \A code \in Codes : Plain(code) \in Message
    /\ \A seq, ver \in Nat : Bind(seq, ver) \in Message
    /\ \A seq, id \in Nat : NewObject(seq, id) \in Message
    /\ \A seq \in Nat : RoundtripRequest(seq) \in Message /\ RoundtripDone(seq) \in Message
    /\ \A id, seq, n \in Nat, method \in Methods : Generic(id, method, seq, n) \in Message
  BY DEF Message, Codes, Methods, Plain, Bind, NewObject, RoundtripRequest, RoundtripDone, Generic

(* What is sent is appended to the channel, or lost.                          *)
LEMMA SentType ==
    ASSUME WireTypeOK, NEW ms \in Seq(Message)
    PROVE  SentToServer(ms) \in Seq(Message) /\ SentToClient(ms) \in Seq(Message)
  BY DEF WireTypeOK, SentToServer, SentToClient

(* Returning from dispatchEvents leaves frames on the stack as they were.     *)
LEMMA ReturnType ==
    ASSUME NEW stack \in Seq(Frame), NEW ok
    PROVE  /\ ReturnDispatch(stack, ok) \in Seq(Frame)
           /\ \A d \in DOMAIN ReturnDispatch(stack, ok) :
                 d \in DOMAIN stack /\ ReturnDispatch(stack, ok)[d] = stack[d]
  BY PopType, PopElements DEF ReturnDispatch

-----------------------------------------------------------------------------
(* Type correctness.                                                          *)

LEMMA InitType == Init => TypeOK
<1> SUFFICES ASSUME Init PROVE TypeOK
  OBVIOUS
<1>1. WireFlagsOK /\ ClientFlagsOK /\ ServerFlagsOK
  BY DEF Init, WireInit, ClientInit, ServerInit, WireFlagsOK, ClientFlagsOK, ServerFlagsOK
<1>2. WireTypeOK
  BY MessageTypes DEF Init, WireInit, WireTypeOK, Codes
<1>3. ClientTypeOK /\ ClientRefsOK
  BY DEF Init, ClientInit, ClientTypeOK, ClientRefsOK
<1>4. ServerTypeOK /\ ServerRefsOK
  BY DEF Init, ServerInit, ServerTypeOK, ServerRefsOK
<1> QED BY <1>1, <1>2, <1>3, <1>4 DEF TypeOK

(* A stack whose frames that wait for an object wait for one that exists.     *)
StackOK(stack, objects) ==
    /\ stack \in Seq(Frame)
    /\ \A d \in DOMAIN stack : stack[d].kind = "object" => stack[d].arg \in objects

LEMMA PushStack ==
    ASSUME NEW stack, NEW objects, StackOK(stack, objects),
           NEW kind \in Loops \cup {"batch", "listener"}, NEW arg \in Nat,
           NEW msgs \in Seq(Message),
           kind = "object" => arg \in objects
    PROVE  StackOK(Append(stack, [kind |-> kind, arg |-> arg, msgs |-> msgs]), objects)
<1>1. [kind |-> kind, arg |-> arg, msgs |-> msgs] \in Frame
  BY DEF Frame
<1> QED BY <1>1 DEF StackOK

LEMMA PopStack ==
    ASSUME NEW stack, NEW objects, StackOK(stack, objects)
    PROVE  /\ StackOK(Pop(stack), objects)
           /\ \A ok : StackOK(ReturnDispatch(stack, ok), objects)
           /\ \A ok : StackOK(ReturnDispatch(Pop(stack), ok), objects)
<1>1. ASSUME NEW st, StackOK(st, objects) PROVE StackOK(Pop(st), objects)
  BY <1>1, PopType, PopElements DEF StackOK
<1>2. ASSUME NEW st, StackOK(st, objects), NEW ok
      PROVE StackOK(ReturnDispatch(st, ok), objects)
  BY <1>2, <1>1 DEF ReturnDispatch
<1> QED BY <1>1, <1>2

(* Handling a message takes it off the batch of the innermost frame.          *)
LEMMA AdvanceStack ==
    ASSUME NEW objects, StackOK(cStack, objects), NEW code, Handling(code)
    PROVE  /\ Head(Top.msgs) \in Message
           /\ StackOK(Advanced, objects)
<1>0. cStack \in Seq(Frame) /\ cStack # <<>> /\ Top.msgs # <<>>
  BY DEF StackOK, Handling, InBatch
<1>1. /\ Len(cStack) \in DOMAIN cStack /\ Top = cStack[Len(cStack)] /\ Top \in Frame
      /\ Top.msgs \in Seq(Message) /\ Top.msgs # <<>>
  <2>1. Len(cStack) \in DOMAIN cStack /\ Top \in Frame
    BY <1>0 DEF Top
  <2> QED BY <1>0, <2>1 DEF Top, Frame
<1>2. Head(Top.msgs) \in Message /\ Tail(Top.msgs) \in Seq(Message)
  BY <1>1, HeadTailElements
<1>3. [Top EXCEPT !.msgs = Tail(@)] \in Frame /\ [Top EXCEPT !.msgs = Tail(@)].kind = Top.kind
      /\ [Top EXCEPT !.msgs = Tail(@)].arg = Top.arg
  BY <1>1, <1>2 DEF Frame
<1>4. Advanced = [cStack EXCEPT ![Len(cStack)] = [Top EXCEPT !.msgs = Tail(@)]]
  BY <1>1 DEF Advanced
<1>5. StackOK(Advanced, objects)
  BY <1>1, <1>3, <1>4 DEF StackOK
<1> QED BY <1>2, <1>5

(* What the client's application does keeps the types.                        *)
LEMMA AppStepType == TypeOK /\ ClientApp => TypeOK'
<1> SUFFICES ASSUME TypeOK, ClientApp PROVE TypeOK'
  OBVIOUS
<1> USE DEF TypeOK
<1>0. ServerTypeOK' /\ ServerRefsOK' /\ ServerFlagsOK'
  <2>1. UNCHANGED sVars
    BY DEF ClientApp
  <2> QED BY <2>1 DEF ServerTypeOK, ServerRefsOK, ServerFlagsOK, sVars, sState, sHistory
<1>s. StackOK(cStack, DOMAIN cObjs)
  BY DEF StackOK, ClientTypeOK, ClientRefsOK
<1>p. ASSUME NEW kind \in {"handshake", "poll", "roundtrip"}, NEW arg \in Nat
      PROVE StackOK(Push(kind, arg, <<>>), DOMAIN cObjs)
  <2>1. <<>> \in Seq(Message) /\ kind \in Loops \cup {"batch", "listener"} /\ kind # "object"
    BY <1>p DEF Loops
  <2>2. StackOK(Append(cStack, [kind |-> kind, arg |-> arg, msgs |-> <<>>]), DOMAIN cObjs)
    BY <2>1, <1>p, <1>s, PushStack
  <2> QED BY <2>2 DEF Push
<1>1. CASE CWaitForHandshake
  <2>1. WireFlagsOK' /\ ClientFlagsOK'
    BY <1>1 DEF CWaitForHandshake, WireFlagsOK, ClientFlagsOK, wireVars
  <2>2. StackOK(cStack', DOMAIN cObjs)
    BY <1>1, <1>p DEF CWaitForHandshake
  <2>3. WireTypeOK' /\ ClientTypeOK' /\ ClientRefsOK'
    BY <1>1, <2>2 DEF CWaitForHandshake, WireTypeOK, ClientTypeOK, ClientRefsOK, StackOK,
       wireVars, cHistory
  <2> QED BY <1>0, <2>1, <2>3
<1>2. CASE CDispatch
  <2>1. WireFlagsOK' /\ ClientFlagsOK'
    BY <1>2 DEF CDispatch, WireFlagsOK, ClientFlagsOK, wireVars
  <2>2. StackOK(cStack', DOMAIN cObjs)
    BY <1>2, <1>p DEF CDispatch
  <2>3. WireTypeOK' /\ ClientTypeOK' /\ ClientRefsOK'
    BY <1>2, <2>2 DEF CDispatch, WireTypeOK, ClientTypeOK, ClientRefsOK, StackOK,
       wireVars, cHistory
  <2> QED BY <1>0, <2>1, <2>3
<1>3. ASSUME NEW ver \in BindVersions, CBind(ver)
      PROVE  TypeOK'
  <2> DEFINE s      == Len(cObjs) + 1
             handle == [id |-> 0, ver |-> ver, listens |-> FALSE]
  <2>0. ver \in Nat /\ cObjs \in Seq(Handle)
    BY ClientAssumption DEF ClientTypeOK
  <2>h. handle \in Handle
    BY <2>0 DEF Handle
  <2>1. WireFlagsOK' /\ ClientFlagsOK'
    BY <1>3 DEF CBind, WireFlagsOK, ClientFlagsOK, cHistory
  <2>2. /\ cObjs' = Append(cObjs, handle) /\ cObjs' \in Seq(Handle)
        /\ DOMAIN cObjs \subseteq DOMAIN cObjs' /\ s \in DOMAIN cObjs' /\ s \in Nat
    <3>1. cObjs' = Append(cObjs, handle)
      BY <1>3 DEF CBind
    <3> HIDE DEF handle
    <3> QED BY <3>1, <2>0, <2>h, AppendType
  <2>3. StackOK(cStack', DOMAIN cObjs')
    <3>1. StackOK(cStack, DOMAIN cObjs')
      BY <1>s, <2>2 DEF StackOK
    <3>2. "object" \in Loops \cup {"batch", "listener"} /\ <<>> \in Seq(Message)
      BY DEF Loops
    <3>3. StackOK(Append(cStack, [kind |-> "object", arg |-> s, msgs |-> <<>>]), DOMAIN cObjs')
      <4> HIDE DEF s
      <4> QED BY <3>1, <3>2, <2>2, PushStack
    <3> QED BY <1>3, <3>3 DEF CBind, NextSeq, Push
  <2>4. WireTypeOK'
    <3>1. <<Bind(s, ver)>> \in Seq(Message)
      BY <2>0, <2>2, MessageTypes, AppendType
    <3>2. c2s' = SentToServer(<<Bind(s, ver)>>) /\ s2c' = s2c
      BY <1>3 DEF CBind, NextSeq
    <3> HIDE DEF s
    <3> QED BY <3>1, <3>2, SentType DEF WireTypeOK
  <2>5. ClientTypeOK' /\ ClientRefsOK'
    BY <1>3, <2>2, <2>3 DEF CBind, ClientTypeOK, ClientRefsOK, StackOK, cHistory
  <2> QED BY <1>0, <2>1, <2>4, <2>5
<1>4. ASSUME NEW ver \in BindVersions, CBindTooNew(ver)
      PROVE  TypeOK'
  <2>1. WireFlagsOK' /\ ClientFlagsOK'
    BY <1>4 DEF CBindTooNew, DisconnectOnError, CloseClientEnd, WireFlagsOK, ClientFlagsOK, cHistory
  <2>2. WireTypeOK' /\ ClientTypeOK' /\ ClientRefsOK'
    BY <1>4 DEF CBindTooNew, DisconnectOnError, CloseClientEnd, WireTypeOK, ClientTypeOK,
       ClientRefsOK, cHistory
  <2> QED BY <1>0, <2>1, <2>2
<1>5. ASSUME NEW h \in DOMAIN cObjs, NEW method \in {"call", "make"}, CCall(h, method)
      PROVE  TypeOK'
  <2> DEFINE returns == IF method = "make" THEN Len(cObjs) + 1 ELSE 0
             msg     == Generic(cObjs[h].id, method, returns, Len(issued) + 1)
  <2>0. cObjs \in Seq(Handle) /\ cObjs[h] \in Handle /\ returns \in Nat /\ h \in Nat
    BY DEF ClientTypeOK
  <2>m. msg \in Message
    <3>1. cObjs[h].id \in Nat /\ method \in Methods /\ Len(issued) + 1 \in Nat
      BY <2>0 DEF ClientTypeOK, Handle, Methods
    <3> HIDE DEF returns
    <3> QED BY <2>0, <3>1, MessageTypes
  <2>1. WireFlagsOK' /\ ClientFlagsOK'
    BY <1>5 DEF CCall, WireFlagsOK, ClientFlagsOK, cHistory
  <2>2. cObjs' \in Seq(Handle) /\ DOMAIN cObjs \subseteq DOMAIN cObjs'
    <3>1. MadeHandle \in Handle
      BY DEF Handle, MadeHandle
    <3>2. cObjs' \in {cObjs, Append(cObjs, MadeHandle)}
      BY <1>5 DEF CCall, NextSeq
    <3> QED BY <2>0, <3>1, <3>2, AppendType
  <2>3. c2s' \in Seq(Message) /\ s2c' = s2c
    <3>1. <<msg>> \in Seq(Message) /\ c2s' \in {c2s, SentToServer(<<msg>>)} /\ s2c' = s2c
      BY <1>5, <2>m DEF CCall, NextSeq
    <3> HIDE DEF msg
    <3> QED BY <3>1, SentType DEF WireTypeOK
  <2>4. cPending' \in Seq(Deferred) /\ \A i \in DOMAIN cPending' : cPending'[i].dep \in DOMAIN cObjs
    <3> DEFINE p == [msg |-> msg, dep |-> h]
    <3>1. cPending' \in {cPending, Append(cPending, p)}
      BY <1>5 DEF CCall, NextSeq
    <3>2. p \in Deferred /\ p.dep \in DOMAIN cObjs /\ cPending \in Seq(Deferred)
      BY <2>0, <2>m DEF Deferred, ClientTypeOK
    <3> HIDE DEF p
    <3>3. \A i \in DOMAIN cPending : cPending[i].dep \in DOMAIN cObjs
      BY DEF ClientRefsOK
    <3> QED BY <3>1, <3>2, <3>3, AppendType
  <2>5. issued' \in Seq(Call)
    <3> DEFINE call == [to |-> h, returns |-> returns, nested |-> cStack # <<>>]
    <3>1. issued' = Append(issued, call)
      BY <1>5 DEF CCall, NextSeq
    <3>2. call \in Call
      <4>1. (cStack # <<>>) \in BOOLEAN
        OBVIOUS
      <4> HIDE DEF returns
      <4> QED BY <4>1, <2>0 DEF Call
    <3> HIDE DEF call
    <3> QED BY <3>1, <3>2, AppendType DEF ClientTypeOK
  <2>6. ClientTypeOK' /\ ClientRefsOK'
    BY <1>5, <2>2, <2>4, <2>5 DEF CCall, ClientTypeOK, ClientRefsOK
  <2> QED BY <1>0, <2>1, <2>3, <2>6 DEF WireTypeOK
<1>6. CASE CRoundtrip
  <2>1. WireFlagsOK' /\ ClientFlagsOK'
    BY <1>6 DEF CRoundtrip, WireFlagsOK, ClientFlagsOK, cHistory
  <2>0. cSentRt + 1 \in Nat
    BY DEF ClientTypeOK
  <2>2. StackOK(cStack', DOMAIN cObjs)
    BY <1>6, <1>p, <2>0 DEF CRoundtrip
  <2>3. marks' \in Seq([calls : SUBSET Nat, deferred : SUBSET Nat])
    <3> DEFINE mark == [calls    |-> DOMAIN issued,
                        deferred |-> {cPending[i].msg.n : i \in DOMAIN cPending}]
    <3>1. DOMAIN issued \in SUBSET Nat
      BY DEF ClientTypeOK
    <3>2. \A i \in DOMAIN cPending : cPending[i].msg.n \in Nat
      <4>1. \A i \in DOMAIN cPending : cPending[i] \in Deferred
        BY DEF ClientTypeOK
      <4> QED BY <4>1 DEF Deferred, Message
    <3>3. mark \in [calls : SUBSET Nat, deferred : SUBSET Nat]
      BY <3>1, <3>2
    <3>4. marks' = Append(marks, mark)
      BY <1>6 DEF CRoundtrip
    <3> HIDE DEF mark
    <3> QED BY <3>3, <3>4, AppendType DEF ClientTypeOK
  <2>4. WireTypeOK'
    <3>1. <<RoundtripRequest(cSentRt + 1)>> \in Seq(Message)
      BY <2>0, MessageTypes, AppendType
    <3> QED BY <1>6, <3>1, SentType DEF CRoundtrip, WireTypeOK
  <2>5. ClientTypeOK' /\ ClientRefsOK'
    BY <1>6, <2>0, <2>2, <2>3 DEF CRoundtrip, ClientTypeOK, ClientRefsOK, StackOK
  <2> QED BY <1>0, <2>1, <2>4, <2>5
<1> QED
  BY <1>1, <1>2, <1>3, <1>4, <1>5, <1>6 DEF ClientApp, AppStep

(* The messages a handler takes are of the types that the wire carries.       *)
LEMMA HandlingType ==
    ASSUME TypeOK, NEW code, Handling(code)
    PROVE  /\ Head(Top.msgs).seq \in Nat /\ Head(Top.msgs).id \in Nat
           /\ Head(Top.msgs).n \in Nat
           /\ StackOK(Advanced, DOMAIN cObjs)
<1>1. StackOK(cStack, DOMAIN cObjs)
  BY DEF TypeOK, StackOK, ClientTypeOK, ClientRefsOK
<1>2. Head(Top.msgs) \in Message /\ StackOK(Advanced, DOMAIN cObjs)
  BY <1>1, AdvanceStack
<1> QED BY <1>2 DEF Message

(* Handling a message keeps the types, whatever the message.                  *)
LEMMA HandleStepType == TypeOK /\ HandleStep /\ UNCHANGED sVars => TypeOK'
<1> SUFFICES ASSUME TypeOK, HandleStep, UNCHANGED sVars PROVE TypeOK'
  OBVIOUS
<1> USE DEF TypeOK
<1>0. ServerTypeOK' /\ ServerRefsOK' /\ ServerFlagsOK'
  BY DEF ServerTypeOK, ServerRefsOK, ServerFlagsOK, sVars, sState, sHistory
<1>s. StackOK(cStack, DOMAIN cObjs)
  BY DEF StackOK, ClientTypeOK, ClientRefsOK
<1>e. <<>> \in Seq(Message)
  OBVIOUS
<1>1. CASE CHandleHandshakeBegin
  <2>1. WireFlagsOK' /\ ClientFlagsOK'
    BY <1>1 DEF CHandleHandshakeBegin, WireFlagsOK, ClientFlagsOK
  <2>2. StackOK(cStack', DOMAIN cObjs)
    BY <1>1, HandlingType DEF CHandleHandshakeBegin
  <2>3. WireTypeOK'
    <3>1. <<Plain("HANDSHAKE_ACK")>> \in Seq(Message)
      BY MessageTypes, AppendType DEF Codes
    <3> QED BY <1>1, <3>1, SentType DEF CHandleHandshakeBegin, WireTypeOK
  <2>4. ClientTypeOK' /\ ClientRefsOK'
    BY <1>1, <2>2 DEF CHandleHandshakeBegin, ClientTypeOK, ClientRefsOK, StackOK, cHistory
  <2> QED BY <1>0, <2>1, <2>3, <2>4
<1>2. CASE CHandleProtocols
  <2>1. WireFlagsOK' /\ ClientFlagsOK'
    BY <1>2 DEF CHandleProtocols, WireFlagsOK, ClientFlagsOK, wireVars
  <2>2. StackOK(cStack', DOMAIN cObjs)
    BY <1>2, HandlingType DEF CHandleProtocols
  <2>3. WireTypeOK' /\ ClientTypeOK' /\ ClientRefsOK'
    BY <1>2, <2>2 DEF CHandleProtocols, WireTypeOK, ClientTypeOK, ClientRefsOK, StackOK,
       wireVars, cHistory
  <2> QED BY <1>0, <2>1, <2>3
<1>3. CASE CHandleNewObject
  <2> DEFINE m == Head(Top.msgs)
  <2>1. WireFlagsOK' /\ ClientFlagsOK'
    BY <1>3 DEF CHandleNewObject, WireFlagsOK, ClientFlagsOK, wireVars
  <2>2. StackOK(cStack', DOMAIN cObjs) /\ m.id \in Nat
    BY <1>3, HandlingType DEF CHandleNewObject
  <2>3. cObjs' \in Seq(Handle) /\ DOMAIN cObjs' = DOMAIN cObjs
    <3>1. cObjs' = IF m.seq \in DOMAIN cObjs THEN [cObjs EXCEPT ![m.seq].id = m.id] ELSE cObjs
      BY <1>3 DEF CHandleNewObject, OnSeq
    <3> HIDE DEF m
    <3>2. CASE m.seq \in DOMAIN cObjs
      <4>0. cObjs[m.seq] \in Handle
        BY <3>2 DEF ClientTypeOK
      <4>1. [cObjs[m.seq] EXCEPT !.id = m.id] \in Handle
        BY <2>2, <4>0 DEF Handle
      <4>2. cObjs' = [cObjs EXCEPT ![m.seq] = [cObjs[m.seq] EXCEPT !.id = m.id]]
        BY <3>1, <3>2
      <4> QED BY <3>2, <4>1, <4>2 DEF ClientTypeOK
    <3> QED BY <3>1, <3>2 DEF ClientTypeOK
  <2>4. WireTypeOK' /\ ClientTypeOK' /\ ClientRefsOK'
    BY <1>3, <2>2, <2>3 DEF CHandleNewObject, WireTypeOK, ClientTypeOK, ClientRefsOK, StackOK,
       wireVars, cHistory
  <2> QED BY <1>0, <2>1, <2>4
<1>4. ASSUME NEW h \in DOMAIN cObjs, CHandleEvent(h)
      PROVE  TypeOK'
  <2> DEFINE hears == [n |-> Head(Top.msgs).n, at |-> h, depth |-> Len(cStack)]
  <2>1. WireFlagsOK' /\ ClientFlagsOK'
    BY <1>4 DEF CHandleEvent, WireFlagsOK, ClientFlagsOK, wireVars
  <2>2. StackOK(Advanced, DOMAIN cObjs) /\ hears \in Heard
    <3>1. StackOK(Advanced, DOMAIN cObjs) /\ Head(Top.msgs).n \in Nat
      BY <1>4, HandlingType DEF CHandleEvent
    <3>2. h \in Nat /\ Len(cStack) \in Nat
      BY DEF ClientTypeOK
    <3> QED BY <3>1, <3>2 DEF Heard
  <2>3. StackOK(cStack', DOMAIN cObjs)
    <3>1. [kind |-> "listener", arg |-> 0, msgs |-> <<>>] \in Frame
      BY <1>e DEF Frame
    <3>2. cStack' = Append(Advanced, [kind |-> "listener", arg |-> 0, msgs |-> <<>>])
      BY <1>4 DEF CHandleEvent
    <3> QED BY <2>2, <3>1, <3>2, AppendType DEF StackOK
  <2>4. heard' \in Seq(Heard)
    <3>1. heard' = Append(heard, hears)
      BY <1>4 DEF CHandleEvent
    <3> HIDE DEF hears
    <3> QED BY <2>2, <3>1, AppendType DEF ClientTypeOK
  <2>5. WireTypeOK' /\ ClientTypeOK' /\ ClientRefsOK'
    BY <1>4, <2>3, <2>4 DEF CHandleEvent, WireTypeOK, ClientTypeOK, ClientRefsOK, StackOK, wireVars
  <2> QED BY <1>0, <2>1, <2>5
<1>5. CASE CDropEvent
  <2>1. WireFlagsOK' /\ ClientFlagsOK'
    BY <1>5 DEF CDropEvent, WireFlagsOK, ClientFlagsOK, wireVars
  <2>2. StackOK(cStack', DOMAIN cObjs)
    BY <1>5, HandlingType DEF CDropEvent
  <2>3. WireTypeOK' /\ ClientTypeOK' /\ ClientRefsOK'
    BY <1>5, <2>2 DEF CDropEvent, WireTypeOK, ClientTypeOK, ClientRefsOK, StackOK,
       wireVars, cHistory
  <2> QED BY <1>0, <2>1, <2>3
<1>6. CASE CHandleFatal
  <2>1. WireFlagsOK' /\ ClientFlagsOK'
    BY <1>6 DEF CHandleFatal, WireFlagsOK, ClientFlagsOK, wireVars
  <2>2. StackOK(cStack', DOMAIN cObjs)
    BY <1>6, HandlingType DEF CHandleFatal
  <2>3. WireTypeOK' /\ ClientTypeOK' /\ ClientRefsOK'
    BY <1>6, <2>2 DEF CHandleFatal, WireTypeOK, ClientTypeOK, ClientRefsOK, StackOK,
       wireVars, cHistory
  <2> QED BY <1>0, <2>1, <2>3
<1>7. CASE CHandleRoundtripDone
  <2>1. WireFlagsOK' /\ ClientFlagsOK'
    BY <1>7 DEF CHandleRoundtripDone, WireFlagsOK, ClientFlagsOK, wireVars
  <2>2. StackOK(cStack', DOMAIN cObjs) /\ cAckd' \in Nat
    BY <1>7, HandlingType DEF CHandleRoundtripDone
  <2>3. WireTypeOK' /\ ClientTypeOK' /\ ClientRefsOK'
    BY <1>7, <2>2 DEF CHandleRoundtripDone, WireTypeOK, ClientTypeOK, ClientRefsOK, StackOK,
       wireVars, cHistory
  <2> QED BY <1>0, <2>1, <2>3
<1>8. CASE CHandleMalformed
  <2>1. WireFlagsOK' /\ ClientFlagsOK'
    BY <1>8 DEF CHandleMalformed, DisconnectOnError, CloseClientEnd, WireFlagsOK, ClientFlagsOK
  <2>2. StackOK(cStack', DOMAIN cObjs)
    BY <1>8, <1>s, PopStack DEF CHandleMalformed
  <2>3. WireTypeOK' /\ ClientTypeOK' /\ ClientRefsOK'
    BY <1>8, <1>e, <2>2 DEF CHandleMalformed, DisconnectOnError, CloseClientEnd, WireTypeOK,
       ClientTypeOK, ClientRefsOK, StackOK, cHistory
  <2> QED BY <1>0, <2>1, <2>3
<1> QED
  BY <1>1, <1>2, <1>3, <1>4, <1>5, <1>6, <1>7, <1>8 DEF HandleStep

(* The steps of the library that are no handler.                              *)
LEMMA LibraryStepType == TypeOK /\ ClientLibrary => TypeOK'
<1> SUFFICES ASSUME TypeOK, ClientLibrary PROVE TypeOK'
  OBVIOUS
<1> USE DEF TypeOK
<1>u. UNCHANGED sVars
  BY DEF ClientLibrary
<1>0. ServerTypeOK' /\ ServerRefsOK' /\ ServerFlagsOK'
  BY <1>u DEF ServerTypeOK, ServerRefsOK, ServerFlagsOK, sVars, sState, sHistory
<1>s. StackOK(cStack, DOMAIN cObjs)
  BY DEF StackOK, ClientTypeOK, ClientRefsOK
<1>1. CASE CLoopReturns
  <2>1. WireFlagsOK' /\ ClientFlagsOK'
    BY <1>1 DEF CLoopReturns, WireFlagsOK, ClientFlagsOK, wireVars
  <2>2. StackOK(cStack', DOMAIN cObjs)
    BY <1>1, <1>s, PopStack DEF CLoopReturns
  <2>3. cObjs' \in Seq(Handle) /\ DOMAIN cObjs' = DOMAIN cObjs
    <3>1. CASE Top.kind # "object"
      BY <1>1, <3>1 DEF CLoopReturns, ClientTypeOK
    <3>2. CASE Top.kind = "object"
      <4>1. Top.arg \in DOMAIN cObjs
        BY <1>1, <3>2, <1>s DEF CLoopReturns, InLoop, Top, StackOK
      <4>2. cObjs[Top.arg] \in Handle
        BY <4>1 DEF ClientTypeOK
      <4>3. [cObjs[Top.arg] EXCEPT !.listens = TRUE] \in Handle
        BY <4>2 DEF Handle
      <4>4. cObjs' = [cObjs EXCEPT ![Top.arg] = [cObjs[Top.arg] EXCEPT !.listens = TRUE]]
        BY <1>1, <3>2 DEF CLoopReturns
      <4> QED BY <4>1, <4>3, <4>4 DEF ClientTypeOK
    <3> QED BY <3>1, <3>2
  <2>4. WireTypeOK' /\ ClientTypeOK' /\ ClientRefsOK'
    BY <1>1, <2>2, <2>3 DEF CLoopReturns, WireTypeOK, ClientTypeOK, ClientRefsOK, StackOK,
       wireVars, cHistory
  <2> QED BY <1>0, <2>1, <2>4
<1>2. CASE CDispatchFails
  <2>1. WireFlagsOK' /\ ClientFlagsOK'
    BY <1>2 DEF CDispatchFails, WireFlagsOK, ClientFlagsOK, wireVars
  <2>2. StackOK(cStack', DOMAIN cObjs)
    BY <1>2, <1>s, PopStack DEF CDispatchFails
  <2>3. WireTypeOK' /\ ClientTypeOK' /\ ClientRefsOK'
    BY <1>2, <2>2 DEF CDispatchFails, WireTypeOK, ClientTypeOK, ClientRefsOK, StackOK,
       wireVars, cHistory
  <2> QED BY <1>0, <2>1, <2>3
<1>3. CASE CNothingToRead
  <2>1. WireFlagsOK' /\ ClientFlagsOK'
    BY <1>3 DEF CNothingToRead, WireFlagsOK, ClientFlagsOK, wireVars
  <2>2. StackOK(cStack', DOMAIN cObjs)
    BY <1>3, <1>s, PopStack DEF CNothingToRead
  <2>3. WireTypeOK' /\ ClientTypeOK' /\ ClientRefsOK'
    BY <1>3, <2>2 DEF CNothingToRead, WireTypeOK, ClientTypeOK, ClientRefsOK, StackOK,
       wireVars, cHistory
  <2> QED BY <1>0, <2>1, <2>3
<1>4. CASE CRead
  <2>1. WireFlagsOK' /\ ClientFlagsOK'
    BY <1>4 DEF CRead, WireFlagsOK, ClientFlagsOK
  <2>2. PICK batch \in Batches(s2c) : /\ cStack' = Push("batch", 0, batch)
                                      /\ s2c' = Rest(s2c, batch)
    BY <1>4 DEF CRead
  <2>3. batch \in Seq(Message) /\ s2c' \in Seq(Message)
    BY <2>2, BatchType DEF WireTypeOK
  <2>4. StackOK(cStack', DOMAIN cObjs)
    <3>1. "batch" \in Loops \cup {"batch", "listener"} /\ 0 \in Nat
      OBVIOUS
    <3> QED BY <3>1, <2>2, <2>3, <1>s, PushStack DEF Push
  <2>5. WireTypeOK' /\ ClientTypeOK' /\ ClientRefsOK'
    BY <1>4, <2>3, <2>4 DEF CRead, WireTypeOK, ClientTypeOK, ClientRefsOK, StackOK, cHistory
  <2> QED BY <1>0, <2>1, <2>5
<1>5. CASE HandleStep
  BY <1>5, <1>u, HandleStepType
<1>6. ASSUME NEW i \in DOMAIN cPending, CFlushOne(i)
      PROVE  TypeOK'
  <2> DEFINE p == cPending[i]
             msg == ResolveSeq(p)
  <2>1. WireFlagsOK' /\ ClientFlagsOK'
    BY <1>6 DEF CFlushOne, WireFlagsOK, ClientFlagsOK
  <2>2. p \in Deferred /\ p.dep \in DOMAIN cObjs /\ cPending \in Seq(Deferred)
    BY DEF ClientTypeOK, ClientRefsOK
  <2>3. msg \in Message
    <3>1. cObjs[p.dep] \in Handle
      BY <2>2 DEF ClientTypeOK
    <3>2. cObjs[p.dep].id % ByteBase \in Nat
      <4>1. \A a \in Nat, b \in Nat \ {0} : a % b \in Nat
        OBVIOUS
      <4> QED BY <3>1, <4>1, ClientAssumption DEF Handle
    <3>3. p.msg \in Message
      BY <2>2 DEF Deferred
    <3> QED BY <3>2, <3>3 DEF ResolveSeq, Message
  <2>4. c2s' \in Seq(Message) /\ s2c' = s2c
    <3>1. <<msg>> \in Seq(Message)
      BY <2>3, AppendType
    <3>2. c2s' = SentToServer(<<msg>>) /\ s2c' = s2c
      BY <1>6 DEF CFlushOne
    <3> HIDE DEF msg
    <3> QED BY <3>1, <3>2, SentType DEF WireTypeOK
  <2>5. cPending' \in Seq(Deferred) /\ \A j \in DOMAIN cPending' : cPending'[j].dep \in DOMAIN cObjs
    <3>1. cPending' = RemoveAt(cPending, i)
      BY <1>6 DEF CFlushOne
    <3>2. \A j \in DOMAIN cPending : cPending[j].dep \in DOMAIN cObjs
      BY DEF ClientRefsOK
    <3> QED BY <3>1, <3>2, <2>2, RemoveType
  <2>6. ClientTypeOK' /\ ClientRefsOK'
    BY <1>6, <2>5 DEF CFlushOne, ClientTypeOK, ClientRefsOK, cHistory
  <2> QED BY <1>0, <2>1, <2>4, <2>6 DEF WireTypeOK
<1>7. CASE CBatchDone
  <2>1. WireFlagsOK' /\ ClientFlagsOK'
    BY <1>7 DEF CBatchDone, WireFlagsOK, ClientFlagsOK, wireVars
  <2>2. StackOK(cStack', DOMAIN cObjs)
    BY <1>7, <1>s, PopStack DEF CBatchDone
  <2>3. WireTypeOK' /\ ClientTypeOK' /\ ClientRefsOK'
    BY <1>7, <2>2 DEF CBatchDone, WireTypeOK, ClientTypeOK, ClientRefsOK, StackOK,
       wireVars, cHistory
  <2> QED BY <1>0, <2>1, <2>3
<1>8. CASE CListenerReturn
  <2>1. WireFlagsOK' /\ ClientFlagsOK'
    BY <1>8 DEF CListenerReturn, WireFlagsOK, ClientFlagsOK, wireVars
  <2>2. StackOK(cStack', DOMAIN cObjs)
    BY <1>8, <1>s, PopStack DEF CListenerReturn
  <2>3. WireTypeOK' /\ ClientTypeOK' /\ ClientRefsOK'
    BY <1>8, <2>2 DEF CListenerReturn, WireTypeOK, ClientTypeOK, ClientRefsOK, StackOK,
       wireVars, cHistory
  <2> QED BY <1>0, <2>1, <2>3
<1> QED
  BY <1>1, <1>2, <1>3, <1>4, <1>5, <1>6, <1>7, <1>8 DEF ClientLibrary, LibraryStep

(* Hangups of the client, the clock of the handshake, damage on the wire.     *)
LEMMA ClientEndType == TypeOK /\ (ClientLeaves \/ ClientTime) => TypeOK'
<1> SUFFICES ASSUME TypeOK, ClientLeaves \/ ClientTime PROVE TypeOK'
  OBVIOUS
<1> USE DEF TypeOK
<1>0. ServerTypeOK' /\ ServerRefsOK' /\ ServerFlagsOK'
  <2>1. UNCHANGED sVars
    BY DEF ClientLeaves, ClientTime
  <2> QED BY <2>1 DEF ServerTypeOK, ServerRefsOK, ServerFlagsOK, sVars, sState, sHistory
<1>s. StackOK(cStack, DOMAIN cObjs)
  BY DEF StackOK, ClientTypeOK, ClientRefsOK
<1>1. CASE CDestroy
  <2>1. WireFlagsOK' /\ ClientFlagsOK'
    BY <1>1 DEF CDestroy, DisconnectOnError, CloseClientEnd, WireFlagsOK, ClientFlagsOK
  <2>2. WireTypeOK' /\ ClientTypeOK' /\ ClientRefsOK'
    BY <1>1 DEF CDestroy, DisconnectOnError, CloseClientEnd, WireTypeOK, ClientTypeOK,
       ClientRefsOK, cHistory
  <2> QED BY <1>0, <2>1, <2>2
<1>2. CASE CHandshakeTimeout
  <2>1. WireFlagsOK' /\ ClientFlagsOK'
    BY <1>2 DEF CHandshakeTimeout, DisconnectOnError, CloseClientEnd, WireFlagsOK, ClientFlagsOK
  <2>2. StackOK(cStack', DOMAIN cObjs)
    BY <1>2, <1>s, PopStack DEF CHandshakeTimeout
  <2>3. WireTypeOK' /\ ClientTypeOK' /\ ClientRefsOK'
    BY <1>2, <2>2 DEF CHandshakeTimeout, DisconnectOnError, CloseClientEnd, WireTypeOK,
       ClientTypeOK, ClientRefsOK, StackOK, cHistory
  <2> QED BY <1>0, <2>1, <2>3
<1>3. CASE CClockRunsOut
  <2>1. WireFlagsOK' /\ ClientFlagsOK'
    BY <1>3 DEF CClockRunsOut, WireFlagsOK, ClientFlagsOK, wireVars
  <2>2. WireTypeOK' /\ ClientTypeOK' /\ ClientRefsOK'
    BY <1>3 DEF CClockRunsOut, WireTypeOK, ClientTypeOK, ClientRefsOK, wireVars, cHistory
  <2> QED BY <1>0, <2>1, <2>2
<1> QED BY <1>1, <1>2, <1>3 DEF ClientLeaves, ClientTime

LEMMA TearType == TypeOK /\ Tear => TypeOK'
<1> SUFFICES ASSUME TypeOK, Tear PROVE TypeOK'
  OBVIOUS
<1> USE DEF TypeOK
<1>0. UNCHANGED <<cOpen, sOpen, cVars, sVars>>
  BY DEF Tear
<1>1. ServerTypeOK' /\ ServerRefsOK' /\ ServerFlagsOK'
  BY <1>0 DEF ServerTypeOK, ServerRefsOK, ServerFlagsOK, sVars, sState, sHistory
<1>2. ClientTypeOK' /\ ClientRefsOK' /\ ClientFlagsOK' /\ WireFlagsOK'
  BY <1>0 DEF ClientTypeOK, ClientRefsOK, ClientFlagsOK, WireFlagsOK, cVars, cState, cHistory
<1>3. ASSUME NEW channel \in Seq(Message), channel # <<>>
      PROVE  TearLast(channel) \in Seq(Message)
  <2> DEFINE torn == [channel[Len(channel)] EXCEPT !.code = "MALFORMED"]
  <2>1. channel[Len(channel)] \in Message /\ Len(channel) \in DOMAIN channel
    BY <1>3
  <2>2. torn \in Message
    BY <2>1 DEF Message, Codes
  <2>3. TearLast(channel) = [channel EXCEPT ![Len(channel)] = torn]
    BY DEF TearLast
  <2> HIDE DEF torn
  <2> QED BY <1>3, <2>1, <2>2, <2>3
<1>4. WireTypeOK'
  BY <1>3 DEF Tear, WireTypeOK
<1> QED BY <1>1, <1>2, <1>4

(* What the server sends when it creates an object, or fails.                 *)
LEMMA CreateObjectType ==
    ASSUME WireTypeOK, ServerTypeOK, sError \in BOOLEAN,
           NEW seq \in Nat, NEW ver \in Nat, NEW known \in BOOLEAN,
           CreateObject(seq, ver, known)
    PROVE  /\ s2c' \in Seq(Message) /\ sError' \in BOOLEAN
           /\ sObjs' \in Seq(Object) /\ DOMAIN sObjs \subseteq DOMAIN sObjs'
           /\ \A id \in DOMAIN sObjs : sObjs'[id] = sObjs[id]
<1> DEFINE ok     == known /\ ver <= SrvVer
           object == [seq |-> seq, ver |-> ver, ok |-> ok]
<1>1. object \in Object
  <2>1. ok \in BOOLEAN
    OBVIOUS
  <2> HIDE DEF ok
  <2> QED BY <2>1 DEF Object
<1>2. sObjs' = Append(sObjs, object)
  BY DEF CreateObject
<1>3. sObjs \in Seq(Object) /\ Len(sObjs) + 1 \in Nat
  BY DEF ServerTypeOK
<1>4. s2c' \in {s2c, SentToClient(<<NewObject(seq, Len(sObjs) + 1)>>)} /\ sError' \in BOOLEAN
  BY DEF CreateObject
<1>5. <<NewObject(seq, Len(sObjs) + 1)>> \in Seq(Message)
  BY <1>3, MessageTypes, AppendType
<1>6. s2c' \in Seq(Message)
  BY <1>4, <1>5, SentType DEF WireTypeOK
<1> HIDE DEF object
<1>7. /\ sObjs' \in Seq(Object) /\ DOMAIN sObjs \subseteq DOMAIN sObjs'
      /\ \A id \in DOMAIN sObjs : sObjs'[id] = sObjs[id]
  BY <1>1, <1>2, <1>3, AppendType
<1> QED BY <1>4, <1>6, <1>7

LEMMA FailType ==
    ASSUME WireTypeOK, Fail
    PROVE  s2c' \in Seq(Message) /\ sFatal' = TRUE /\ sError' = TRUE
<1>1. <<Plain("FATAL")>> \in Seq(Message)
  BY MessageTypes, AppendType DEF Codes
<1> QED BY <1>1, SentType DEF Fail

(* A batch that is being handled is well formed, and so is its rest.          *)
LEMMA SHandlingType ==
    ASSUME ServerTypeOK, NEW code, SHandling(code)
    PROVE  /\ Head(sBatch) \in Message /\ Tail(sBatch) \in Seq(Message)
           /\ Head(sBatch).seq \in Nat /\ Head(sBatch).ver \in Nat
           /\ Head(sBatch).id \in Nat /\ Head(sBatch).n \in Nat
<1>1. Head(sBatch) \in Message /\ Tail(sBatch) \in Seq(Message)
  BY HeadTailElements DEF ServerTypeOK, SHandling
<1> QED BY <1>1 DEF Message

LEMMA DispatchStepType == TypeOK /\ ServerDispatch => TypeOK'
<1> SUFFICES ASSUME TypeOK, ServerDispatch PROVE TypeOK'
  OBVIOUS
<1> USE DEF TypeOK
<1>0. ClientTypeOK' /\ ClientRefsOK' /\ ClientFlagsOK'
  <2>1. UNCHANGED cVars
    BY DEF ServerDispatch
  <2> QED BY <2>1 DEF ClientTypeOK, ClientRefsOK, ClientFlagsOK, cVars, cState, cHistory
<1>1. CASE SRead
  <2>1. WireFlagsOK' /\ ServerFlagsOK'
    BY <1>1 DEF SRead, WireFlagsOK, ServerFlagsOK, sHistory
  <2>2. sBatch' \in Seq(Message) /\ c2s' \in Seq(Message)
    BY <1>1, BatchType DEF SRead, WireTypeOK
  <2>3. WireTypeOK' /\ ServerTypeOK' /\ ServerRefsOK'
    BY <1>1, <2>2 DEF SRead, WireTypeOK, ServerTypeOK, ServerRefsOK, sHistory
  <2> QED BY <1>0, <2>1, <2>3
<1>2. ASSUME SHandleHello \/ SHandleAck
      PROVE  TypeOK'
  <2>1. WireFlagsOK' /\ ServerFlagsOK'
    BY <1>2 DEF SHandleHello, SHandleAck, WireFlagsOK, ServerFlagsOK, sHistory
  <2>2. sBatch' \in Seq(Message)
    BY <1>2, SHandlingType DEF SHandleHello, SHandleAck
  <2>3. s2c' \in Seq(Message)
    <3>1. <<Plain("HANDSHAKE_BEGIN")>> \in Seq(Message)
          /\ <<Plain("HANDSHAKE_PROTOCOLS")>> \in Seq(Message)
      BY MessageTypes, AppendType DEF Codes
    <3>2. s2c' \in {SentToClient(<<Plain("HANDSHAKE_BEGIN")>>),
                    SentToClient(<<Plain("HANDSHAKE_PROTOCOLS")>>)}
      BY <1>2 DEF SHandleHello, SHandleAck
    <3> QED BY <3>1, <3>2, SentType
  <2>4. WireTypeOK' /\ ServerTypeOK' /\ ServerRefsOK'
    BY <1>2, <2>2, <2>3 DEF SHandleHello, SHandleAck, WireTypeOK, ServerTypeOK, ServerRefsOK, sHistory
  <2> QED BY <1>0, <2>1, <2>4
<1>3. CASE SHandleBind
  <2>1. sBatch' \in Seq(Message) /\ Head(sBatch).seq \in Nat /\ Head(sBatch).ver \in Nat
    BY <1>3, SHandlingType DEF SHandleBind
  <2>2. /\ s2c' \in Seq(Message) /\ sError' \in BOOLEAN
        /\ sObjs' \in Seq(Object) /\ DOMAIN sObjs \subseteq DOMAIN sObjs'
    <3>1. sError \in BOOLEAN /\ TRUE \in BOOLEAN
      BY DEF ServerFlagsOK
    <3>2. CreateObject(Head(sBatch).seq, Head(sBatch).ver, TRUE)
      BY <1>3 DEF SHandleBind
    <3> QED BY <2>1, <3>1, <3>2, CreateObjectType
  <2>3. WireFlagsOK' /\ ServerFlagsOK'
    BY <1>3, <2>2 DEF SHandleBind, WireFlagsOK, ServerFlagsOK, sHistory
  <2>4. WireTypeOK' /\ ServerTypeOK' /\ ServerRefsOK'
    BY <1>3, <2>1, <2>2 DEF SHandleBind, WireTypeOK, ServerTypeOK, ServerRefsOK, sHistory
  <2> QED BY <1>0, <2>3, <2>4
<1>4. CASE SHandleCall
  <2> DEFINE m == Head(sBatch)
  <2>1. sBatch' \in Seq(Message) /\ m.seq \in Nat /\ m.n \in Nat /\ m.id \in Nat
    BY <1>4, SHandlingType DEF SHandleCall
  <2>2. WireFlagsOK' /\ ServerFlagsOK'
    <3>1. sError' \in BOOLEAN /\ sFatal' \in BOOLEAN /\ sCallback' \in BOOLEAN
      BY <1>4 DEF SHandleCall, Fail, ServerFlagsOK
    <3> QED BY <1>4, <3>1 DEF SHandleCall, WireFlagsOK, ServerFlagsOK
  <2>3. s2c' \in Seq(Message) /\ c2s' = c2s
    BY <1>4, FailType DEF SHandleCall, WireTypeOK
  <2>4. handled' \in Seq([n : Nat, at : Nat])
    <3>1. handled' \in {handled, Append(handled, [n |-> m.n, at |-> m.id])}
      BY <1>4 DEF SHandleCall
    <3> DEFINE call    == [n |-> m.n, at |-> m.id]
               Handled == [n : Nat, at : Nat]
    <3>2. call \in Handled /\ handled \in Seq(Handled)
      BY <2>1 DEF ServerTypeOK
    <3>3. handled' = handled \/ handled' = Append(handled, call)
      BY <3>1
    <3> HIDE DEF call, Handled
    <3>4. handled' \in Seq(Handled)
      BY <3>2, <3>3, AppendType
    <3> QED BY <3>4 DEF Handled
  <2>5. sMakes' \subseteq Make /\ \A make \in sMakes' : make.obj \in DOMAIN sObjs
    <3>1. sMakes' = sMakes \/ (m.id \in DOMAIN sObjs /\ sMakes' = sMakes \cup {[obj |-> m.id, seq |-> m.seq]})
      BY <1>4 DEF SHandleCall
    <3>2. [obj |-> m.id, seq |-> m.seq] \in Make
      BY <2>1 DEF Make
    <3> HIDE DEF m
    <3> QED BY <3>1, <3>2 DEF ServerTypeOK, ServerRefsOK
  <2>6. ServerTypeOK' /\ ServerRefsOK'
    BY <1>4, <2>1, <2>4, <2>5 DEF SHandleCall, ServerTypeOK, ServerRefsOK
  <2> QED BY <1>0, <2>2, <2>3, <2>6 DEF WireTypeOK
<1>5. CASE SHandleRoundtrip
  <2>1. WireFlagsOK' /\ ServerFlagsOK'
    BY <1>5 DEF SHandleRoundtrip, WireFlagsOK, ServerFlagsOK, wireVars, sHistory
  <2>2. sBatch' \in Seq(Message) /\ sRt' \in Nat
    BY <1>5, SHandlingType DEF SHandleRoundtrip
  <2>3. WireTypeOK' /\ ServerTypeOK' /\ ServerRefsOK'
    BY <1>5, <2>2 DEF SHandleRoundtrip, WireTypeOK, ServerTypeOK, ServerRefsOK, wireVars, sHistory
  <2> QED BY <1>0, <2>1, <2>3
<1>6. CASE SHandleMalformed
  <2>1. Fail
    BY <1>6 DEF SHandleMalformed
  <2>2. s2c' \in Seq(Message) /\ sFatal' = TRUE /\ sError' = TRUE
    BY <2>1, FailType
  <2>3. WireFlagsOK' /\ ServerFlagsOK'
    BY <1>6, <2>2 DEF SHandleMalformed, WireFlagsOK, ServerFlagsOK
  <2>4. WireTypeOK' /\ ServerTypeOK' /\ ServerRefsOK'
    BY <1>6, <2>2 DEF SHandleMalformed, WireTypeOK, ServerTypeOK, ServerRefsOK
  <2> QED BY <1>0, <2>3, <2>4
<1>7. CASE SBatchDone
  <2>1. WireFlagsOK' /\ ServerFlagsOK'
    BY <1>7 DEF SBatchDone, WireFlagsOK, ServerFlagsOK, sHistory
  <2>2. s2c' \in Seq(Message)
    <3>1. s2c' \in {s2c, SentToClient(<<RoundtripDone(sRt)>>)}
      BY <1>7 DEF SBatchDone
    <3>2. <<RoundtripDone(sRt)>> \in Seq(Message)
      BY MessageTypes, AppendType DEF ServerTypeOK
    <3> QED BY <3>1, <3>2, SentType DEF WireTypeOK
  <2>3. WireTypeOK' /\ ServerTypeOK' /\ ServerRefsOK'
    BY <1>7, <2>2 DEF SBatchDone, WireTypeOK, ServerTypeOK, ServerRefsOK, sHistory
  <2> QED BY <1>0, <2>1, <2>3
<1>8. CASE SHangup
  <2>1. WireFlagsOK' /\ ServerFlagsOK'
    BY <1>8 DEF SHangup, CloseServerEnd, WireFlagsOK, ServerFlagsOK, sVars, sState, sHistory
  <2>2. WireTypeOK' /\ ServerTypeOK' /\ ServerRefsOK'
    BY <1>8 DEF SHangup, CloseServerEnd, WireTypeOK, ServerTypeOK, ServerRefsOK,
       sVars, sState, sHistory
  <2> QED BY <1>0, <2>1, <2>2
<1> QED
  BY <1>1, <1>2, <1>3, <1>4, <1>5, <1>6, <1>7, <1>8 DEF ServerDispatch, DispatchStep

LEMMA ServerAppType == TypeOK /\ (ServerApp \/ ServerRemoves) => TypeOK'
<1> SUFFICES ASSUME TypeOK, ServerApp \/ ServerRemoves PROVE TypeOK'
  OBVIOUS
<1> USE DEF TypeOK
<1>0. ClientTypeOK' /\ ClientRefsOK' /\ ClientFlagsOK'
  <2>1. UNCHANGED cVars
    BY DEF ServerApp, ServerRemoves
  <2> QED BY <2>1 DEF ClientTypeOK, ClientRefsOK, ClientFlagsOK, cVars, cState, cHistory
<1>1. ASSUME NEW make \in sMakes, NEW known \in BOOLEAN, SCreate(make, known)
      PROVE  TypeOK'
  <2>1. make.seq \in Nat /\ sObjs[make.obj].ver \in Nat
    <3>1. make \in Make /\ make.obj \in DOMAIN sObjs
      BY DEF ServerTypeOK, ServerRefsOK
    <3>2. sObjs[make.obj] \in Object
      BY <3>1 DEF ServerTypeOK
    <3> QED BY <3>1, <3>2 DEF Make, Object
  <2>2. CreateObject(make.seq, sObjs[make.obj].ver, known) /\ sError \in BOOLEAN
    BY <1>1 DEF SCreate, ServerFlagsOK
  <2>3. /\ s2c' \in Seq(Message) /\ sError' \in BOOLEAN
        /\ sObjs' \in Seq(Object) /\ DOMAIN sObjs \subseteq DOMAIN sObjs'
    BY <2>1, <2>2, CreateObjectType
  <2>4. WireFlagsOK' /\ ServerFlagsOK'
    BY <1>1, <2>3 DEF SCreate, WireFlagsOK, ServerFlagsOK, sHistory
  <2>5. WireTypeOK' /\ ServerTypeOK' /\ ServerRefsOK'
    BY <1>1, <2>3 DEF SCreate, WireTypeOK, ServerTypeOK, ServerRefsOK, sHistory
  <2> QED BY <1>0, <2>4, <2>5
<1>2. ASSUME NEW id \in DOMAIN sObjs, SEmit(id)
      PROVE  TypeOK'
  <2>1. WireFlagsOK' /\ ServerFlagsOK'
    BY <1>2 DEF SEmit, WireFlagsOK, ServerFlagsOK, sState
  <2>2. id \in Nat /\ emitted \in Seq(Nat) /\ Len(emitted) + 1 \in Nat
    BY DEF ServerTypeOK
  <2>3. s2c' \in Seq(Message)
    <3>1. <<Generic(id, "event", 0, Len(emitted) + 1)>> \in Seq(Message)
      BY <2>2, MessageTypes, AppendType DEF Methods
    <3> QED BY <1>2, <3>1, SentType DEF SEmit
  <2>4. emitted' \in Seq(Nat)
    BY <1>2, <2>2, AppendType DEF SEmit
  <2>5. WireTypeOK' /\ ServerTypeOK' /\ ServerRefsOK'
    BY <1>2, <2>3, <2>4 DEF SEmit, WireTypeOK, ServerTypeOK, ServerRefsOK, sState
  <2> QED BY <1>0, <2>1, <2>5
<1>3. ASSUME NEW id \in DOMAIN sObjs, SRaise(id)
      PROVE  TypeOK'
  <2>1. Fail
    BY <1>3 DEF SRaise
  <2>2. s2c' \in Seq(Message) /\ sFatal' = TRUE /\ sError' = TRUE
    BY <2>1, FailType
  <2>3. WireFlagsOK' /\ ServerFlagsOK'
    BY <1>3, <2>2 DEF SRaise, WireFlagsOK, ServerFlagsOK
  <2>4. WireTypeOK' /\ ServerTypeOK' /\ ServerRefsOK'
    BY <1>3, <2>2 DEF SRaise, WireTypeOK, ServerTypeOK, ServerRefsOK
  <2> QED BY <1>0, <2>3, <2>4
<1>4. CASE SRemove
  <2>1. WireFlagsOK' /\ ServerFlagsOK'
    BY <1>4 DEF SRemove, CloseServerEnd, WireFlagsOK, ServerFlagsOK, sVars, sState, sHistory
  <2>2. WireTypeOK' /\ ServerTypeOK' /\ ServerRefsOK'
    BY <1>4 DEF SRemove, CloseServerEnd, WireTypeOK, ServerTypeOK, ServerRefsOK,
       sVars, sState, sHistory
  <2> QED BY <1>0, <2>1, <2>2
<1> QED
  BY <1>1, <1>2, <1>3, <1>4 DEF ServerApp, ServerRemoves, SAppStep

LEMMA StutterType == TypeOK /\ UNCHANGED vars => TypeOK'
<1> SUFFICES ASSUME TypeOK, UNCHANGED vars PROVE TypeOK'
  OBVIOUS
<1>1. WireFlagsOK' /\ ClientFlagsOK' /\ ServerFlagsOK'
  BY DEF TypeOK, vars, wireVars, cVars, cState, cHistory, sVars, sState, sHistory,
         WireFlagsOK, ClientFlagsOK, ServerFlagsOK
<1>2. WireTypeOK' /\ ClientTypeOK' /\ ClientRefsOK'
  BY DEF TypeOK, vars, wireVars, cVars, cState, cHistory, WireTypeOK, ClientTypeOK, ClientRefsOK
<1>3. ServerTypeOK' /\ ServerRefsOK'
  BY DEF TypeOK, vars, sVars, sState, sHistory, ServerTypeOK, ServerRefsOK
<1> QED BY <1>1, <1>2, <1>3 DEF TypeOK

(* No step of either peer, of either application or of the network takes a    *)
(* field out of its range, and every reference that the code follows without  *)
(* a check (the object of a deferred call, of a pending bind, of a requested  *)
(* creation) stays valid.                                                     *)
THEOREM TypeCorrect == Spec => []TypeOK
<1>1. Init => TypeOK
  BY InitType
<1>2. TypeOK /\ [Next]_vars => TypeOK'
  BY AppStepType, LibraryStepType, ClientEndType, TearType, DispatchStepType, ServerAppType,
     StutterType DEF Next, Idle
<1> QED BY <1>1, <1>2, PTL DEF Spec

-----------------------------------------------------------------------------
(* Routing.  The inductive invariants follow every id from createObject,      *)
(* through the channel, the batches that a nested dispatch leaves half        *)
(* handled and the handles of the client, back to the server.                 *)

(* id is the object that the server made for the sequence seq.                *)
AgreeIn(objects, seq, id) == id \in DOMAIN objects /\ objects[id].seq = seq

(* A message for the client tells it nothing but what the server did.         *)
Faithful(m, objects, events) ==
    /\ m.code = "NEW_OBJECT" => AgreeIn(objects, m.seq, m.id)
    /\ m.code = "GENERIC" => m.n \in DOMAIN events /\ m.id = events[m.n]

AllFaithful(ms, objects, events) == \A i \in DOMAIN ms : Faithful(ms[i], objects, events)
StackFaithful(stack, objects, events) ==
    \A d \in DOMAIN stack : AllFaithful(stack[d].msgs, objects, events)

HandlesOK(handles, objects) ==
    \A s \in DOMAIN handles : handles[s].id # 0 => AgreeIn(objects, s, handles[s].id)
EventsOK(objects, events) == \A n \in DOMAIN events : events[n] \in DOMAIN objects
HeardOK(hs, objects, events) ==
    \A i \in DOMAIN hs : /\ hs[i].n \in DOMAIN events
                         /\ AgreeIn(objects, hs[i].at, events[hs[i].n])

(* What the client holds and will read agrees with what the server did.       *)
RoutingInv ==
    /\ AllFaithful(s2c, sObjs, emitted)
    /\ StackFaithful(cStack, sObjs, emitted)
    /\ HandlesOK(cObjs, sObjs)
    /\ EventsOK(sObjs, emitted)
    /\ HeardOK(heard, sObjs, emitted)

-----------------------------------------------------------------------------
(* Objects and events are only ever added, so what agreed still agrees.       *)
Extends(new, old) == \A i \in DOMAIN old : i \in DOMAIN new /\ new[i] = old[i]

LEMMA FaithfulGrows ==
    ASSUME NEW objects, NEW more, Extends(more, objects),
           NEW events, NEW later, Extends(later, events)
    PROVE  /\ \A m : Faithful(m, objects, events) => Faithful(m, more, later)
           /\ \A ms : AllFaithful(ms, objects, events) => AllFaithful(ms, more, later)
           /\ \A st : StackFaithful(st, objects, events) => StackFaithful(st, more, later)
           /\ \A hs : HandlesOK(hs, objects) => HandlesOK(hs, more)
           /\ \A hs : HeardOK(hs, objects, events) => HeardOK(hs, more, later)
<1>1. ASSUME NEW m, Faithful(m, objects, events) PROVE Faithful(m, more, later)
  BY <1>1 DEF Faithful, AgreeIn, Extends
<1>2. ASSUME NEW ms, AllFaithful(ms, objects, events) PROVE AllFaithful(ms, more, later)
  BY <1>1, <1>2 DEF AllFaithful
<1>3. ASSUME NEW st, StackFaithful(st, objects, events) PROVE StackFaithful(st, more, later)
  BY <1>2, <1>3 DEF StackFaithful
<1>4. ASSUME NEW hs, HandlesOK(hs, objects) PROVE HandlesOK(hs, more)
  BY <1>4 DEF HandlesOK, AgreeIn, Extends
<1>5. ASSUME NEW hs, HeardOK(hs, objects, events) PROVE HeardOK(hs, more, later)
  BY <1>5 DEF HeardOK, AgreeIn, Extends
<1> QED BY <1>1, <1>2, <1>3, <1>4, <1>5

(* Sending a faithful message keeps the channel faithful, sent or lost.       *)
LEMMA SentFaithful ==
    ASSUME NEW objects, NEW events, s2c \in Seq(Message),
           AllFaithful(s2c, objects, events),
           NEW m \in Message, Faithful(m, objects, events)
    PROVE  AllFaithful(SentToClient(<<m>>), objects, events)
<1>1. s2c \o <<m>> = Append(s2c, m)
  OBVIOUS
<1>2. AllFaithful(Append(s2c, m), objects, events)
  BY AppendType DEF AllFaithful
<1> QED BY <1>1, <1>2 DEF SentToClient

(* Pushing an empty frame, or popping one, keeps the stack faithful.          *)
LEMMA StackMoves ==
    ASSUME NEW objects, NEW events, NEW stack \in Seq(Frame),
           StackFaithful(stack, objects, events)
    PROVE  /\ StackFaithful(Pop(stack), objects, events)
           /\ \A ok : StackFaithful(ReturnDispatch(stack, ok), objects, events)
           /\ \A ok : StackFaithful(ReturnDispatch(Pop(stack), ok), objects, events)
           /\ \A f \in Frame : AllFaithful(f.msgs, objects, events)
                  => StackFaithful(Append(stack, f), objects, events)
<1>1. ASSUME NEW st \in Seq(Frame), StackFaithful(st, objects, events)
      PROVE  StackFaithful(Pop(st), objects, events) /\ Pop(st) \in Seq(Frame)
  BY <1>1, PopType, PopElements DEF StackFaithful
<1>2. ASSUME NEW st \in Seq(Frame), StackFaithful(st, objects, events), NEW ok
      PROVE  StackFaithful(ReturnDispatch(st, ok), objects, events)
  BY <1>1, <1>2 DEF ReturnDispatch
<1>3. ASSUME NEW f \in Frame, AllFaithful(f.msgs, objects, events)
      PROVE  StackFaithful(Append(stack, f), objects, events)
  BY <1>3, AppendType DEF StackFaithful
<1> QED BY <1>1, <1>2, <1>3

(* Taking a message off the innermost batch leaves faithful ones.             *)
LEMMA AdvanceFaithful ==
    ASSUME NEW objects, NEW events, cStack \in Seq(Frame),
           StackFaithful(cStack, objects, events), NEW code, Handling(code)
    PROVE  /\ Faithful(Head(Top.msgs), objects, events)
           /\ StackFaithful(Advanced, objects, events)
           /\ Advanced \in Seq(Frame)
<1>1. cStack # <<>> /\ Top.msgs # <<>> /\ Len(cStack) \in DOMAIN cStack
  BY DEF Handling, InBatch
<1>2. Top \in Frame /\ Top = cStack[Len(cStack)] /\ AllFaithful(Top.msgs, objects, events)
  BY <1>1 DEF Top, StackFaithful
<1>3. Top.msgs \in Seq(Message)
  BY <1>2 DEF Frame
<1>4. /\ Head(Top.msgs) = Top.msgs[1] /\ 1 \in DOMAIN Top.msgs
      /\ Tail(Top.msgs) \in Seq(Message)
      /\ \A i \in DOMAIN Tail(Top.msgs) :
            i + 1 \in DOMAIN Top.msgs /\ Tail(Top.msgs)[i] = Top.msgs[i + 1]
  BY <1>1, <1>3, HeadTailElements
<1>5. Faithful(Head(Top.msgs), objects, events) /\ AllFaithful(Tail(Top.msgs), objects, events)
  BY <1>2, <1>4 DEF AllFaithful
<1> DEFINE rest == [Top EXCEPT !.msgs = Tail(@)]
<1>6. rest \in Frame /\ rest.msgs = Tail(Top.msgs)
  BY <1>2, <1>4 DEF Frame
<1>7. Advanced = [cStack EXCEPT ![Len(cStack)] = rest]
  BY <1>2 DEF Advanced
<1> HIDE DEF rest
<1>8. StackFaithful(Advanced, objects, events) /\ Advanced \in Seq(Frame)
  BY <1>1, <1>5, <1>6, <1>7 DEF StackFaithful
<1> QED BY <1>5, <1>8

-----------------------------------------------------------------------------
LEMMA InitRouting == Init => RoutingInv
  BY DEF Init, WireInit, ClientInit, ServerInit, RoutingInv, AllFaithful, StackFaithful,
         HandlesOK, EventsOK, HeardOK

(* A step of the client changes nothing that the server did: what is left to  *)
(* show is that it keeps its own state faithful.                              *)
LEMMA ClientSideRouting ==
    ASSUME RoutingInv, UNCHANGED <<sObjs, emitted>>,
           s2c' = s2c \/ s2c' = <<>>,
           StackFaithful(cStack', sObjs, emitted),
           HandlesOK(cObjs', sObjs),
           heard' = heard
    PROVE  RoutingInv'
<1>1. AllFaithful(s2c', sObjs, emitted)
  BY DEF RoutingInv, AllFaithful
<1> QED BY <1>1 DEF RoutingInv

LEMMA AppStepRouting == TypeOK /\ RoutingInv /\ ClientApp => RoutingInv'
<1> SUFFICES ASSUME TypeOK, RoutingInv, ClientApp PROVE RoutingInv'
  OBVIOUS
<1>0. UNCHANGED <<sObjs, emitted>>
  BY DEF ClientApp, sVars, sState, sHistory
<1>t. cStack \in Seq(Frame) /\ cObjs \in Seq(Handle) /\ cSentRt + 1 \in Nat
  BY DEF TypeOK, ClientTypeOK
<1>r. StackFaithful(cStack, sObjs, emitted) /\ HandlesOK(cObjs, sObjs)
  BY DEF RoutingInv
<1>p. ASSUME NEW kind \in Loops, NEW arg \in Nat
      PROVE  StackFaithful(Push(kind, arg, <<>>), sObjs, emitted)
  <2> DEFINE f == [kind |-> kind, arg |-> arg, msgs |-> <<>>]
  <2>1. f \in Frame /\ AllFaithful(f.msgs, sObjs, emitted)
    <3>1. <<>> \in Seq(Message)
      OBVIOUS
    <3> QED BY <3>1, <1>p DEF Frame, AllFaithful
  <2> HIDE DEF f
  <2>2. StackFaithful(Append(cStack, f), sObjs, emitted)
    BY <2>1, <1>t, <1>r, StackMoves
  <2> QED BY <2>2 DEF Push, f
<1>a. ASSUME NEW handle \in Handle, handle.id = 0
      PROVE  HandlesOK(Append(cObjs, handle), sObjs)
  BY <1>a, <1>t, <1>r, AppendType DEF HandlesOK
<1>1. CASE CWaitForHandshake
  <2>1. StackFaithful(cStack', sObjs, emitted)
    BY <1>1, <1>p DEF CWaitForHandshake, Loops
  <2> QED BY <1>1, <1>0, <1>r, <2>1, ClientSideRouting DEF CWaitForHandshake, wireVars, cHistory
<1>2. CASE CDispatch
  <2>1. StackFaithful(cStack', sObjs, emitted)
    BY <1>2, <1>p DEF CDispatch, Loops
  <2> QED BY <1>2, <1>0, <1>r, <2>1, ClientSideRouting DEF CDispatch, wireVars, cHistory
<1>3. ASSUME NEW ver \in BindVersions, CBind(ver)
      PROVE  RoutingInv'
  <2>1. StackFaithful(cStack', sObjs, emitted)
    BY <1>3, <1>p, <1>t DEF CBind, NextSeq, Loops
  <2>2. HandlesOK(cObjs', sObjs)
    <3>1. [id |-> 0, ver |-> ver, listens |-> FALSE] \in Handle
      BY ClientAssumption DEF Handle
    <3> QED BY <1>3, <3>1, <1>a DEF CBind
  <2> QED BY <1>3, <1>0, <2>1, <2>2, ClientSideRouting DEF CBind, cHistory
<1>4. ASSUME NEW ver \in BindVersions, CBindTooNew(ver)
      PROVE  RoutingInv'
  BY <1>4, <1>0, <1>r, ClientSideRouting
     DEF CBindTooNew, DisconnectOnError, CloseClientEnd, cHistory
<1>5. ASSUME NEW h \in DOMAIN cObjs, NEW method \in {"call", "make"}, CCall(h, method)
      PROVE  RoutingInv'
  <2>1. HandlesOK(cObjs', sObjs)
    <3>1. MadeHandle \in Handle /\ MadeHandle.id = 0
      BY DEF Handle, MadeHandle
    <3>2. cObjs' \in {cObjs, Append(cObjs, MadeHandle)}
      BY <1>5 DEF CCall
    <3> QED BY <3>1, <3>2, <1>a, <1>r
  <2>2. cStack' = cStack /\ s2c' = s2c /\ heard' = heard
    BY <1>5 DEF CCall
  <2> QED BY <1>0, <1>r, <2>1, <2>2, ClientSideRouting
<1>6. CASE CRoundtrip
  <2>1. StackFaithful(cStack', sObjs, emitted)
    BY <1>6, <1>p, <1>t DEF CRoundtrip, Loops
  <2> QED BY <1>6, <1>0, <1>r, <2>1, ClientSideRouting DEF CRoundtrip
<1> QED
  BY <1>1, <1>2, <1>3, <1>4, <1>5, <1>6 DEF ClientApp, AppStep

LEMMA LibraryStepRouting == TypeOK /\ RoutingInv /\ ClientLibrary => RoutingInv'
<1> SUFFICES ASSUME TypeOK, RoutingInv, ClientLibrary PROVE RoutingInv'
  OBVIOUS
<1>0. UNCHANGED <<sObjs, emitted>>
  BY DEF ClientLibrary, sVars, sState, sHistory
<1>t. cStack \in Seq(Frame) /\ cObjs \in Seq(Handle) /\ s2c \in Seq(Message)
      /\ sObjs \in Seq(Object) /\ emitted \in Seq(Nat) /\ heard \in Seq(Heard)
  BY DEF TypeOK, ClientTypeOK, WireTypeOK, ServerTypeOK
<1>r. /\ StackFaithful(cStack, sObjs, emitted) /\ HandlesOK(cObjs, sObjs)
      /\ AllFaithful(s2c, sObjs, emitted)
      /\ EventsOK(sObjs, emitted) /\ HeardOK(heard, sObjs, emitted)
  BY DEF RoutingInv
<1>1. CASE CLoopReturns
  <2>1. StackFaithful(cStack', sObjs, emitted)
    BY <1>1, <1>t, <1>r, StackMoves DEF CLoopReturns
  <2>2. HandlesOK(cObjs', sObjs)
    <3>1. DOMAIN cObjs' = DOMAIN cObjs /\ \A s \in DOMAIN cObjs : cObjs'[s].id = cObjs[s].id
      BY <1>1, <1>t DEF CLoopReturns, Handle
    <3> QED BY <3>1, <1>r DEF HandlesOK
  <2> QED BY <1>1, <1>0, <2>1, <2>2, ClientSideRouting DEF CLoopReturns, wireVars, cHistory
<1>2. CASE CDispatchFails
  <2>1. StackFaithful(cStack', sObjs, emitted)
    BY <1>2, <1>t, <1>r, StackMoves DEF CDispatchFails
  <2> QED BY <1>2, <1>0, <1>r, <2>1, ClientSideRouting DEF CDispatchFails, wireVars, cHistory
<1>3. CASE CNothingToRead
  <2>1. StackFaithful(cStack', sObjs, emitted)
    BY <1>3, <1>t, <1>r, StackMoves DEF CNothingToRead
  <2> QED BY <1>3, <1>0, <1>r, <2>1, ClientSideRouting DEF CNothingToRead, wireVars, cHistory
<1>4. CASE CRead
  <2>1. PICK batch \in Batches(s2c) : /\ cStack' = Push("batch", 0, batch)
                                      /\ s2c' = Rest(s2c, batch)
    BY <1>4 DEF CRead
  <2>2. /\ batch \in Seq(Message)
        /\ AllFaithful(batch, sObjs, emitted) /\ AllFaithful(s2c', sObjs, emitted)
    BY <2>1, <1>t, <1>r, BatchType DEF AllFaithful
  <2>3. StackFaithful(cStack', sObjs, emitted)
    <3> DEFINE f == [kind |-> "batch", arg |-> 0, msgs |-> batch]
    <3>1. f \in Frame /\ f.msgs = batch
      BY <2>2 DEF Frame
    <3> HIDE DEF f
    <3>2. StackFaithful(Append(cStack, f), sObjs, emitted)
      BY <3>1, <2>2, <1>t, <1>r, StackMoves
    <3> QED BY <3>2, <2>1 DEF Push, f
  <2>4. cObjs' = cObjs /\ heard' = heard
    BY <1>4 DEF CRead, cHistory
  <2> QED BY <1>0, <1>r, <2>2, <2>3, <2>4 DEF RoutingInv
<1>5. CASE CHandleNewObject
  <2> DEFINE m == Head(Top.msgs)
  <2>1. StackFaithful(cStack', sObjs, emitted) /\ Faithful(m, sObjs, emitted)
    BY <1>5, <1>t, <1>r, AdvanceFaithful DEF CHandleNewObject
  <2>2. AgreeIn(sObjs, m.seq, m.id)
    BY <1>5, <2>1 DEF CHandleNewObject, Handling, Faithful
  <2>3. /\ DOMAIN cObjs' = DOMAIN cObjs
        /\ \A s \in DOMAIN cObjs :
              cObjs'[s].id = cObjs[s].id \/ (s = m.seq /\ cObjs'[s].id = m.id)
    <3>1. cObjs' = IF m.seq \in DOMAIN cObjs THEN [cObjs EXCEPT ![m.seq].id = m.id] ELSE cObjs
      BY <1>5 DEF CHandleNewObject, OnSeq
    <3> HIDE DEF m
    <3>2. \A s \in DOMAIN cObjs : cObjs[s] \in Handle
      BY <1>t
    <3> QED BY <3>1, <3>2 DEF Handle
  <2>4. HandlesOK(cObjs', sObjs)
    <3> HIDE DEF m
    <3> QED BY <2>2, <2>3, <1>r DEF HandlesOK
  <2> QED BY <1>5, <1>0, <2>1, <2>4, ClientSideRouting DEF CHandleNewObject, wireVars, cHistory
<1>6. ASSUME NEW h \in DOMAIN cObjs, CHandleEvent(h)
      PROVE  RoutingInv'
  <2> DEFINE m == Head(Top.msgs)
             hears == [n |-> m.n, at |-> h, depth |-> Len(cStack)]
             f == [kind |-> "listener", arg |-> 0, msgs |-> <<>>]
  <2>1. /\ StackFaithful(Advanced, sObjs, emitted) /\ Faithful(m, sObjs, emitted)
        /\ Advanced \in Seq(Frame) /\ m.n \in Nat
    BY <1>6, <1>t, <1>r, AdvanceFaithful, HandlingType DEF CHandleEvent
  <2>2. StackFaithful(cStack', sObjs, emitted)
    <3>1. f \in Frame /\ AllFaithful(f.msgs, sObjs, emitted)
      <4>1. <<>> \in Seq(Message)
        OBVIOUS
      <4> QED BY <4>1 DEF Frame, AllFaithful
    <3>2. cStack' = Append(Advanced, f)
      BY <1>6 DEF CHandleEvent
    <3> HIDE DEF f
    <3> QED BY <3>1, <3>2, <2>1, StackMoves
  <2>3. hears.n \in DOMAIN emitted /\ AgreeIn(sObjs, hears.at, emitted[hears.n])
    <3>1. m.n \in DOMAIN emitted /\ m.id = emitted[m.n]
      BY <1>6, <2>1 DEF CHandleEvent, Handling, Faithful
    <3>2. m.id \in DOMAIN sObjs /\ m.id # 0
      BY <3>1, <1>r, <1>t DEF EventsOK
    <3>3. cObjs[h].id = m.id
      BY <1>6 DEF CHandleEvent, Hears, IsFirst
    <3>4. AgreeIn(sObjs, h, m.id)
      BY <3>2, <3>3, <1>r DEF HandlesOK
    <3> QED BY <3>1, <3>4
  <2>4. HeardOK(heard', sObjs, emitted)
    <3>1. heard' = Append(heard, hears)
      BY <1>6 DEF CHandleEvent
    <3>2. heard \in Seq(Heard) /\ hears \in Heard
      <4>1. h \in Nat /\ Len(cStack) \in Nat
        BY <1>t
      <4> QED BY <4>1, <2>1, <1>t DEF Heard
    <3> HIDE DEF hears
    <3>3. /\ \A i \in DOMAIN heard : Append(heard, hears)[i] = heard[i]
          /\ Append(heard, hears)[Len(heard) + 1] = hears
          /\ DOMAIN Append(heard, hears) = DOMAIN heard \cup {Len(heard) + 1}
      BY <3>2, AppendType
    <3> QED BY <3>1, <3>3, <2>3, <1>r DEF HeardOK
  <2>5. s2c' = s2c /\ cObjs' = cObjs
    BY <1>6 DEF CHandleEvent, wireVars
  <2> QED BY <1>0, <1>r, <2>2, <2>4, <2>5 DEF RoutingInv
<1>7. ASSUME CHandleHandshakeBegin \/ CHandleProtocols \/ CDropEvent \/ CHandleFatal
             \/ CHandleRoundtripDone
      PROVE  RoutingInv'
  <2>1. PICK code : Handling(code) /\ cStack' = Advanced
    BY <1>7 DEF CHandleHandshakeBegin, CHandleProtocols, CDropEvent, CHandleFatal,
       CHandleRoundtripDone
  <2>2. StackFaithful(cStack', sObjs, emitted)
    BY <2>1, <1>t, <1>r, AdvanceFaithful
  <2>3. s2c' = s2c /\ cObjs' = cObjs /\ heard' = heard
    BY <1>7 DEF CHandleHandshakeBegin, CHandleProtocols, CDropEvent, CHandleFatal,
       CHandleRoundtripDone, wireVars, cHistory
  <2> QED BY <1>0, <1>r, <2>2, <2>3, ClientSideRouting
<1>8. CASE CHandleMalformed
  <2>1. StackFaithful(cStack', sObjs, emitted)
    BY <1>8, <1>t, <1>r, StackMoves DEF CHandleMalformed
  <2> QED BY <1>8, <1>0, <1>r, <2>1, ClientSideRouting
          DEF CHandleMalformed, DisconnectOnError, CloseClientEnd, cHistory
<1>9. ASSUME NEW i \in DOMAIN cPending, CFlushOne(i)
      PROVE  RoutingInv'
  BY <1>9, <1>0, <1>r, ClientSideRouting DEF CFlushOne, cHistory
<1>10. ASSUME CBatchDone \/ CListenerReturn
       PROVE  RoutingInv'
  <2>1. StackFaithful(cStack', sObjs, emitted)
    BY <1>10, <1>t, <1>r, StackMoves DEF CBatchDone, CListenerReturn
  <2> QED BY <1>10, <1>0, <1>r, <2>1, ClientSideRouting
          DEF CBatchDone, CListenerReturn, wireVars, cHistory
<1> QED
  BY <1>1, <1>2, <1>3, <1>4, <1>5, <1>6, <1>7, <1>8, <1>9, <1>10
     DEF ClientLibrary, LibraryStep, HandleStep

LEMMA ClientEndRouting == TypeOK /\ RoutingInv /\ (ClientLeaves \/ ClientTime) => RoutingInv'
<1> SUFFICES ASSUME TypeOK, RoutingInv, ClientLeaves \/ ClientTime PROVE RoutingInv'
  OBVIOUS
<1>0. UNCHANGED <<sObjs, emitted>>
  BY DEF ClientLeaves, ClientTime, sVars, sState, sHistory
<1>r. /\ cStack \in Seq(Frame)
      /\ StackFaithful(cStack, sObjs, emitted) /\ HandlesOK(cObjs, sObjs)
  BY DEF RoutingInv, TypeOK, ClientTypeOK
<1>1. CASE CDestroy
  BY <1>1, <1>0, <1>r, ClientSideRouting DEF CDestroy, DisconnectOnError, CloseClientEnd, cHistory
<1>2. CASE CHandshakeTimeout
  <2>1. StackFaithful(cStack', sObjs, emitted)
    BY <1>2, <1>r, StackMoves DEF CHandshakeTimeout
  <2> QED BY <1>2, <1>0, <1>r, <2>1, ClientSideRouting
          DEF CHandshakeTimeout, DisconnectOnError, CloseClientEnd, cHistory
<1>3. CASE CClockRunsOut
  BY <1>3, <1>0, <1>r, ClientSideRouting DEF CClockRunsOut, wireVars, cHistory
<1> QED BY <1>1, <1>2, <1>3 DEF ClientLeaves, ClientTime

(* A step of the server only adds objects, events and faithful messages.      *)
LEMMA ServerSideRouting ==
    ASSUME RoutingInv, UNCHANGED <<cStack, cObjs, heard>>,
           Extends(sObjs', sObjs), Extends(emitted', emitted),
           EventsOK(sObjs', emitted'),
           AllFaithful(s2c', sObjs', emitted')
    PROVE  RoutingInv'
<1>1. /\ StackFaithful(cStack, sObjs', emitted')
      /\ HandlesOK(cObjs, sObjs')
      /\ HeardOK(heard, sObjs', emitted')
  BY FaithfulGrows DEF RoutingInv
<1> QED BY <1>1 DEF RoutingInv

(* What the server sends in these cases says nothing of objects or events.    *)
LEMMA PlainFaithful ==
    ASSUME NEW objects, NEW events
    PROVE  /\ \A code \in Codes : code \notin {"NEW_OBJECT", "GENERIC"}
                  => Faithful(Plain(code), objects, events)
           /\ \A seq : Faithful(RoundtripDone(seq), objects, events)
  BY DEF Faithful, Plain, RoundtripDone

LEMMA CreateObjectRouting ==
    ASSUME TypeOK, RoutingInv, UNCHANGED <<cStack, cObjs, heard, emitted>>,
           NEW seq \in Nat, NEW ver \in Nat, NEW known \in BOOLEAN,
           CreateObject(seq, ver, known)
    PROVE  RoutingInv'
<1> DEFINE object == [seq |-> seq, ver |-> ver, ok |-> known /\ ver <= SrvVer]
           id     == Len(sObjs) + 1
<1>t. sObjs \in Seq(Object) /\ s2c \in Seq(Message)
  BY DEF TypeOK, WireTypeOK, ServerTypeOK
<1>1. object \in Object
  <2>1. (known /\ ver <= SrvVer) \in BOOLEAN
    OBVIOUS
  <2> QED BY <2>1 DEF Object
<1>2. sObjs' = Append(sObjs, object) /\ object.seq = seq
  BY DEF CreateObject
<1>n. s2c' = s2c \/ s2c' = SentToClient(<<NewObject(seq, id)>>)
  BY DEF CreateObject
<1> HIDE DEF object
<1>3. Extends(sObjs', sObjs) /\ AgreeIn(sObjs', seq, id) /\ id \in Nat
  BY <1>t, <1>1, <1>2, AppendType DEF Extends, AgreeIn
<1>4. Extends(emitted', emitted)
  BY DEF Extends
<1>5. EventsOK(sObjs', emitted')
  BY <1>3 DEF RoutingInv, EventsOK, Extends
<1>6. AllFaithful(s2c', sObjs', emitted')
  <2> HIDE DEF id
  <2>1. AllFaithful(s2c, sObjs', emitted')
    BY <1>3, <1>4, FaithfulGrows DEF RoutingInv
  <2>2. NewObject(seq, id) \in Message /\ Faithful(NewObject(seq, id), sObjs', emitted')
    BY <1>3, MessageTypes DEF Faithful, NewObject, Plain
  <2> QED BY <1>n, <1>t, <2>1, <2>2, SentFaithful
<1> QED BY <1>3, <1>4, <1>5, <1>6, ServerSideRouting

LEMMA DispatchRouting == TypeOK /\ RoutingInv /\ ServerDispatch => RoutingInv'
<1> SUFFICES ASSUME TypeOK, RoutingInv, ServerDispatch PROVE RoutingInv'
  OBVIOUS
<1>0. UNCHANGED <<cStack, cObjs, heard>>
  BY DEF ServerDispatch, cVars, cState, cHistory
<1>t. s2c \in Seq(Message) /\ sRt \in Nat /\ ServerTypeOK
  BY DEF TypeOK, WireTypeOK, ServerTypeOK
<1>r. AllFaithful(s2c, sObjs, emitted) /\ EventsOK(sObjs, emitted)
  BY DEF RoutingInv
<1>m. /\ \A code \in {"FATAL", "HANDSHAKE_BEGIN", "HANDSHAKE_PROTOCOLS"} :
            AllFaithful(SentToClient(<<Plain(code)>>), sObjs, emitted)
      /\ AllFaithful(SentToClient(<<RoundtripDone(sRt)>>), sObjs, emitted)
  <2>1. ASSUME NEW code \in {"FATAL", "HANDSHAKE_BEGIN", "HANDSHAKE_PROTOCOLS"}
        PROVE  AllFaithful(SentToClient(<<Plain(code)>>), sObjs, emitted)
    <3>1. code \in Codes /\ code \notin {"NEW_OBJECT", "GENERIC"}
      BY DEF Codes
    <3> QED BY <3>1, <1>t, <1>r, MessageTypes, PlainFaithful, SentFaithful
  <2> QED BY <2>1, <1>t, <1>r, MessageTypes, PlainFaithful, SentFaithful
(* The steps that leave the server's objects and events as they are.          *)
<1>u. ASSUME UNCHANGED <<sObjs, emitted>>, AllFaithful(s2c', sObjs, emitted)
      PROVE  RoutingInv'
  <2>1. Extends(sObjs', sObjs) /\ Extends(emitted', emitted)
    BY <1>u DEF Extends
  <2> QED BY <1>u, <1>0, <1>r, <2>1, ServerSideRouting
<1>1. CASE SHandleBind
  <2>1. Head(sBatch).seq \in Nat /\ Head(sBatch).ver \in Nat
    BY <1>1, <1>t, SHandlingType DEF SHandleBind
  <2>2. CreateObject(Head(sBatch).seq, Head(sBatch).ver, TRUE) /\ emitted' = emitted
    BY <1>1 DEF SHandleBind, sHistory
  <2>3. TRUE \in BOOLEAN
    OBVIOUS
  <2> QED BY <2>1, <2>2, <2>3, <1>0, CreateObjectRouting
<1>2. CASE SHandleCall
  <2>1. s2c' = s2c \/ s2c' = SentToClient(<<Plain("FATAL")>>)
    BY <1>2 DEF SHandleCall, Fail
  <2>2. UNCHANGED <<sObjs, emitted>>
    BY <1>2 DEF SHandleCall
  <2> QED BY <2>1, <2>2, <1>r, <1>m, <1>u
<1>3. ASSUME SHandleHello \/ SHandleAck
      PROVE  RoutingInv'
  <2>1. s2c' = SentToClient(<<Plain("HANDSHAKE_BEGIN")>>)
        \/ s2c' = SentToClient(<<Plain("HANDSHAKE_PROTOCOLS")>>)
    BY <1>3 DEF SHandleHello, SHandleAck
  <2>2. UNCHANGED <<sObjs, emitted>>
    BY <1>3 DEF SHandleHello, SHandleAck, sHistory
  <2> QED BY <2>1, <2>2, <1>m, <1>u
<1>4. CASE SHandleMalformed
  <2>1. s2c' = SentToClient(<<Plain("FATAL")>>)
    BY <1>4 DEF SHandleMalformed, Fail
  <2>2. UNCHANGED <<sObjs, emitted>>
    BY <1>4 DEF SHandleMalformed
  <2> QED BY <2>1, <2>2, <1>m, <1>u
<1>5. CASE SBatchDone
  <2>1. s2c' = s2c \/ s2c' = SentToClient(<<RoundtripDone(sRt)>>)
    BY <1>5 DEF SBatchDone
  <2>2. UNCHANGED <<sObjs, emitted>>
    BY <1>5 DEF SBatchDone, sHistory
  <2> QED BY <2>1, <2>2, <1>m, <1>r, <1>u
<1>6. ASSUME SRead \/ SHandleRoundtrip \/ SHangup
      PROVE  RoutingInv'
  <2>1. UNCHANGED <<s2c, sObjs, emitted>>
    BY <1>6 DEF SRead, SHandleRoundtrip, SHangup, CloseServerEnd, wireVars, sVars, sState, sHistory
  <2> QED BY <2>1, <1>r, <1>u
<1> QED
  BY <1>1, <1>2, <1>3, <1>4, <1>5, <1>6 DEF ServerDispatch, DispatchStep

LEMMA ServerAppRouting == TypeOK /\ RoutingInv /\ (ServerApp \/ ServerRemoves) => RoutingInv'
<1> SUFFICES ASSUME TypeOK, RoutingInv, ServerApp \/ ServerRemoves PROVE RoutingInv'
  OBVIOUS
<1>0. UNCHANGED <<cStack, cObjs, heard>>
  BY DEF ServerApp, ServerRemoves, cVars, cState, cHistory
<1>t. /\ s2c \in Seq(Message) /\ emitted \in Seq(Nat) /\ sObjs \in Seq(Object)
      /\ Len(emitted) + 1 \in Nat
  BY DEF TypeOK, WireTypeOK, ServerTypeOK
<1>r. AllFaithful(s2c, sObjs, emitted) /\ EventsOK(sObjs, emitted)
  BY DEF RoutingInv
<1>1. ASSUME NEW make \in sMakes, NEW known \in BOOLEAN, SCreate(make, known)
      PROVE  RoutingInv'
  <2>1. make.seq \in Nat /\ sObjs[make.obj].ver \in Nat
    <3>1. make \in Make /\ make.obj \in DOMAIN sObjs
      BY DEF TypeOK, ServerTypeOK, ServerRefsOK
    <3>2. sObjs[make.obj] \in Object
      BY <3>1, <1>t
    <3> QED BY <3>1, <3>2 DEF Make, Object
  <2>2. CreateObject(make.seq, sObjs[make.obj].ver, known) /\ emitted' = emitted
    BY <1>1 DEF SCreate, sHistory
  <2> QED BY <2>1, <2>2, <1>0, CreateObjectRouting
<1>2. ASSUME NEW id \in DOMAIN sObjs, SEmit(id)
      PROVE  RoutingInv'
  <2> DEFINE n == Len(emitted) + 1
             m == Generic(id, "event", 0, n)
  <2>1. emitted' = Append(emitted, id) /\ sObjs' = sObjs /\ s2c' = SentToClient(<<m>>)
    BY <1>2 DEF SEmit, sState
  <2>2. id \in Nat /\ n \in Nat
    BY <1>t
  <2>3. /\ Extends(emitted', emitted) /\ Extends(sObjs', sObjs)
        /\ n \in DOMAIN emitted' /\ emitted'[n] = id
        /\ DOMAIN emitted' = DOMAIN emitted \cup {n}
    BY <2>1, <2>2, <1>t, AppendType DEF Extends
  <2>4. EventsOK(sObjs', emitted')
    <3> HIDE DEF n, m
    <3> QED BY <2>1, <2>3, <1>r DEF EventsOK, Extends
  <2>5. AllFaithful(s2c', sObjs', emitted')
    <3>1. AllFaithful(s2c, sObjs', emitted')
      BY <2>3, <1>r, FaithfulGrows
    <3> HIDE DEF n
    <3>2. m \in Message /\ Faithful(m, sObjs', emitted')
      BY <2>2, <2>3, MessageTypes DEF Faithful, Generic, Methods
    <3> HIDE DEF m
    <3> QED BY <2>1, <3>1, <3>2, <1>t, SentFaithful
  <2> QED BY <2>3, <2>4, <2>5, <1>0, ServerSideRouting
<1>3. ASSUME (\E id \in DOMAIN sObjs : SRaise(id)) \/ SRemove
      PROVE  RoutingInv'
  <2>1. /\ s2c' = s2c \/ s2c' = SentToClient(<<Plain("FATAL")>>)
        /\ UNCHANGED <<sObjs, emitted>>
    BY <1>3 DEF SRaise, SRemove, Fail, CloseServerEnd, sVars, sState, sHistory
  <2>2. AllFaithful(SentToClient(<<Plain("FATAL")>>), sObjs, emitted)
    BY <1>t, <1>r, MessageTypes, PlainFaithful, SentFaithful DEF Codes
  <2>3. Extends(sObjs', sObjs) /\ Extends(emitted', emitted)
    BY <2>1 DEF Extends
  <2> QED BY <2>1, <2>2, <2>3, <1>0, <1>r, ServerSideRouting
<1> QED
  BY <1>1, <1>2, <1>3 DEF ServerApp, ServerRemoves, SAppStep

(* A damaged message is one that the client cannot parse: it misleads nobody. *)
LEMMA TearRouting == TypeOK /\ RoutingInv /\ Tear => RoutingInv'
<1> SUFFICES ASSUME TypeOK, RoutingInv, Tear PROVE RoutingInv'
  OBVIOUS
<1>0. UNCHANGED <<cStack, cObjs, heard, sObjs, emitted>>
  BY DEF Tear, cVars, cState, cHistory, sVars, sState, sHistory
<1>1. AllFaithful(s2c', sObjs, emitted)
  <2>1. CASE s2c' = s2c
    BY <2>1 DEF RoutingInv
  <2>2. CASE s2c # <<>> /\ s2c' = TearLast(s2c)
    <3>1. s2c \in Seq(Message) /\ s2c[Len(s2c)] \in Message /\ Len(s2c) \in DOMAIN s2c
      BY <2>2 DEF TypeOK, WireTypeOK
    <3> DEFINE torn == [s2c[Len(s2c)] EXCEPT !.code = "MALFORMED"]
    <3>2. torn.code = "MALFORMED"
      BY <3>1 DEF Message
    <3>3. s2c' = [s2c EXCEPT ![Len(s2c)] = torn]
      BY <2>2 DEF TearLast
    <3> HIDE DEF torn
    <3>4. Faithful(torn, sObjs, emitted)
      BY <3>2 DEF Faithful
    <3> QED BY <3>1, <3>3, <3>4 DEF RoutingInv, AllFaithful
  <2> QED BY <2>1, <2>2 DEF Tear
<1> QED BY <1>0, <1>1 DEF RoutingInv

LEMMA StutterRouting == RoutingInv /\ UNCHANGED vars => RoutingInv'
  BY DEF vars, wireVars, cVars, cState, cHistory, sVars, sState, sHistory, RoutingInv

(* The inductive invariant of all that follows.                               *)
LEMMA RoutingInvariant == Spec => [](TypeOK /\ RoutingInv)
<1>1. Init => TypeOK /\ RoutingInv
  BY InitType, InitRouting
<1>2. TypeOK /\ [Next]_vars => TypeOK'
  BY AppStepType, LibraryStepType, ClientEndType, TearType, DispatchStepType, ServerAppType,
     StutterType DEF Next, Idle
<1>3. TypeOK /\ RoutingInv /\ [Next]_vars => RoutingInv'
  BY AppStepRouting, LibraryStepRouting, ClientEndRouting, TearRouting,
     DispatchRouting, ServerAppRouting, StutterRouting DEF Next, Idle
<1> QED BY <1>1, <1>2, <1>3, PTL DEF Spec

(* A handle's id is that of the object the server made for the handle, for    *)
(* any number of binds, creations, errors and nested dispatches, and whatever *)
(* is lost when a connection ends.                                            *)
THEOREM HandleAgreement == Spec => []HandlesAgree
<1>1. RoutingInv => HandlesAgree
  BY DEF RoutingInv, HandlesOK, AgreeIn, HandlesAgree, Agree
<1> QED BY <1>1, RoutingInvariant, PTL

(* The listener that runs for an event is set on the handle of the object the *)
(* server sent it on, although onGeneric only compares ids.                   *)
THEOREM EventRouting == Spec => []EventsRouted
<1>1. RoutingInv => EventsRouted
  BY DEF RoutingInv, HeardOK, AgreeIn, EventsRouted, Agree
<1> QED BY <1>1, RoutingInvariant, PTL

-----------------------------------------------------------------------------
(* The order of events.                                                       *)

(* Events in the order they were sent: those of a batch or a channel, those   *)
(* of one after an event, and those of one after those of another.            *)
Rising(ms) ==
    \A i, j \in DOMAIN ms :
        i < j /\ ms[i].code = "GENERIC" /\ ms[j].code = "GENERIC" => ms[i].n < ms[j].n
After(ms, n) == \A i \in DOMAIN ms : ms[i].code = "GENERIC" => n < ms[i].n
Newer(new, old) == \A i \in DOMAIN old : old[i].code = "GENERIC" => After(new, old[i].n)

(* The batches of nested dispatches hold ever newer events, and the channel   *)
(* the newest: what is still to be heard at some depth was sent after all     *)
(* that was heard there or further out.                                       *)
OrderInv ==
    /\ Rising(s2c)
    /\ \A d \in DOMAIN cStack : Rising(cStack[d].msgs) /\ Newer(s2c, cStack[d].msgs)
    /\ \A d, e \in DOMAIN cStack : d < e => Newer(cStack[e].msgs, cStack[d].msgs)
    /\ \A i \in DOMAIN heard :
          /\ After(s2c, heard[i].n)
          /\ \A d \in DOMAIN cStack : heard[i].depth <= d => After(cStack[d].msgs, heard[i].n)
    /\ \A i, j \in DOMAIN heard :
          i < j /\ heard[i].depth <= heard[j].depth => heard[i].n < heard[j].n

(* What is left when the front of a sequence, or its end, is taken off.       *)
Part(new, old) ==
    \E k \in Nat : \A i \in DOMAIN new : i \in Nat /\ i + k \in DOMAIN old /\ new[i] = old[i + k]

LEMMA PartOrder ==
    ASSUME NEW S, NEW old \in Seq(S), NEW new, Part(new, old)
    PROVE  /\ Rising(old) => Rising(new)
           /\ \A n : After(old, n) => After(new, n)
           /\ \A ms : Newer(ms, old) => Newer(ms, new)
           /\ \A ms : Newer(old, ms) => Newer(new, ms)
<1>1. PICK k \in Nat : \A i \in DOMAIN new : i \in Nat /\ i + k \in DOMAIN old /\ new[i] = old[i + k]
  BY DEF Part
<1>2. Rising(old) => Rising(new)
  <2>1. \A i, j \in DOMAIN new : i < j => i + k < j + k
    BY <1>1
  <2> QED BY <1>1, <2>1 DEF Rising
<1>3. \A n : After(old, n) => After(new, n)
  BY <1>1 DEF After
<1>4. \A ms : Newer(ms, old) => Newer(ms, new)
  BY <1>1 DEF Newer
<1>5. \A ms : Newer(old, ms) => Newer(new, ms)
  BY <1>3 DEF Newer
<1> QED BY <1>2, <1>3, <1>4, <1>5

LEMMA PartShapes ==
    ASSUME NEW S, NEW s \in Seq(S)
    PROVE  /\ Part(s, s) /\ Part(<<>>, s)
           /\ s # <<>> => Part(Tail(s), s)
           /\ \A b \in Batches(s) : Part(b, s) /\ Part(Rest(s, b), s)
<1>1. Part(s, s)
  <2>1. \A i \in DOMAIN s : i \in Nat /\ i + 0 \in DOMAIN s /\ s[i] = s[i + 0]
    OBVIOUS
  <2> QED BY <2>1 DEF Part
<1>2. Part(<<>>, s)
  BY DEF Part
<1>3. ASSUME s # <<>> PROVE Part(Tail(s), s)
  <2>1. \A i \in DOMAIN Tail(s) : i \in Nat /\ i + 1 \in DOMAIN s /\ Tail(s)[i] = s[i + 1]
    BY <1>3
  <2> QED BY <2>1 DEF Part
<1>4. ASSUME NEW b \in Batches(s) PROVE Part(b, s) /\ Part(Rest(s, b), s)
  <2>1. /\ b \in Seq(S) /\ Rest(s, b) \in Seq(S) /\ Len(b) \in Nat
        /\ \A i \in DOMAIN b : i \in DOMAIN s /\ b[i] = s[i]
        /\ \A i \in DOMAIN Rest(s, b) : i + Len(b) \in DOMAIN s /\ Rest(s, b)[i] = s[i + Len(b)]
    BY BatchType
  <2>2. \A i \in DOMAIN b : i \in Nat /\ i + 0 \in DOMAIN s /\ b[i] = s[i + 0]
    BY <2>1
  <2>3. \A i \in DOMAIN Rest(s, b) :
           i \in Nat /\ i + Len(b) \in DOMAIN s /\ Rest(s, b)[i] = s[i + Len(b)]
    BY <2>1
  <2> QED BY <2>1, <2>2, <2>3 DEF Part
<1> QED BY <1>1, <1>2, <1>3, <1>4

(* Frames that lose messages, or come and go with none.                       *)
FewerOn(new, old) ==
    \A d \in DOMAIN new :
        d \in Nat /\ (new[d].msgs = <<>> \/ (d \in DOMAIN old /\ Part(new[d].msgs, old[d].msgs)))

LEMMA FewerShape ==
    ASSUME TypeOK, OrderInv, Part(s2c', s2c), FewerOn(cStack', cStack)
    PROVE  /\ Rising(s2c')
           /\ \A d \in DOMAIN cStack' : Rising(cStack'[d].msgs) /\ Newer(s2c', cStack'[d].msgs)
           /\ \A d, e \in DOMAIN cStack' : d < e => Newer(cStack'[e].msgs, cStack'[d].msgs)
           /\ \A i \in DOMAIN heard :
                 /\ After(s2c', heard[i].n)
                 /\ \A d \in DOMAIN cStack' :
                       heard[i].depth <= d => After(cStack'[d].msgs, heard[i].n)
<1>t. /\ s2c \in Seq(Message) /\ cStack \in Seq(Frame)
      /\ \A d \in DOMAIN cStack : cStack[d].msgs \in Seq(Message)
  <2>1. s2c \in Seq(Message) /\ cStack \in Seq(Frame)
    BY DEF TypeOK, WireTypeOK, ClientTypeOK
  <2>2. \A d \in DOMAIN cStack : cStack[d] \in Frame
    BY <2>1
  <2> QED BY <2>1, <2>2 DEF Frame
<1>e. \A n, ms : Rising(<<>>) /\ After(<<>>, n) /\ Newer(<<>>, ms) /\ Newer(ms, <<>>)
  BY DEF Rising, After, Newer
<1>1. /\ Rising(s2c')
      /\ \A n : After(s2c, n) => After(s2c', n)
      /\ \A ms : Newer(s2c, ms) => Newer(s2c', ms)
  BY <1>t, PartOrder DEF OrderInv
<1>2. ASSUME NEW d \in DOMAIN cStack'
      PROVE  /\ Rising(cStack'[d].msgs) /\ Newer(s2c', cStack'[d].msgs)
             /\ \A i \in DOMAIN heard : heard[i].depth <= d => After(cStack'[d].msgs, heard[i].n)
  <2>1. CASE cStack'[d].msgs = <<>>
    BY <1>e, <2>1
  <2>2. CASE d \in DOMAIN cStack /\ Part(cStack'[d].msgs, cStack[d].msgs)
    <3>1. /\ Rising(cStack[d].msgs) => Rising(cStack'[d].msgs)
          /\ \A n : After(cStack[d].msgs, n) => After(cStack'[d].msgs, n)
          /\ \A ms : Newer(ms, cStack[d].msgs) => Newer(ms, cStack'[d].msgs)
      BY <1>t, <2>2, PartOrder
    <3> QED BY <1>1, <2>2, <3>1 DEF OrderInv
  <2> QED BY <2>1, <2>2 DEF FewerOn
<1>3. ASSUME NEW d \in DOMAIN cStack', NEW e \in DOMAIN cStack', d < e
      PROVE  Newer(cStack'[e].msgs, cStack'[d].msgs)
  <2>1. CASE cStack'[d].msgs = <<>> \/ cStack'[e].msgs = <<>>
    BY <1>e, <2>1
  <2>2. CASE /\ d \in DOMAIN cStack /\ Part(cStack'[d].msgs, cStack[d].msgs)
             /\ e \in DOMAIN cStack /\ Part(cStack'[e].msgs, cStack[e].msgs)
    <3>1. Newer(cStack[e].msgs, cStack[d].msgs)
      BY <1>3, <2>2 DEF OrderInv
    <3>2. Newer(cStack[e].msgs, cStack'[d].msgs)
      BY <3>1, <1>t, <2>2, PartOrder
    <3> QED BY <3>2, <1>t, <2>2, PartOrder
  <2> QED BY <2>1, <2>2 DEF FewerOn
<1>4. \A i \in DOMAIN heard : After(s2c', heard[i].n)
  BY <1>1 DEF OrderInv
<1> QED BY <1>1, <1>2, <1>3, <1>4

LEMMA FewerOrder ==
    ASSUME TypeOK, OrderInv, Part(s2c', s2c), FewerOn(cStack', cStack), heard' = heard
    PROVE  OrderInv'
  BY FewerShape DEF OrderInv

LEMMA FewerFrames ==
    ASSUME NEW stack \in Seq(Frame)
    PROVE  /\ FewerOn(stack, stack) /\ FewerOn(Pop(stack), stack)
           /\ \A ok : FewerOn(ReturnDispatch(stack, ok), stack)
           /\ \A ok : FewerOn(ReturnDispatch(Pop(stack), ok), stack)
           /\ \A f \in Frame : f.msgs = <<>> => FewerOn(Append(stack, f), stack)
<1>t. \A st \in Seq(Frame) : /\ \A d \in DOMAIN st : d \in Nat /\ st[d] \in Frame
  OBVIOUS
<1>1. ASSUME NEW st \in Seq(Frame), \A d \in DOMAIN st : d \in DOMAIN stack /\ st[d] = stack[d]
      PROVE  FewerOn(st, stack)
  <2>1. \A d \in DOMAIN st : d \in Nat /\ stack[d].msgs \in Seq(Message)
    BY <1>1, <1>t DEF Frame
  <2>2. \A d \in DOMAIN st : Part(st[d].msgs, stack[d].msgs)
    BY <1>1, <2>1, PartShapes
  <2> QED BY <1>1, <2>1, <2>2 DEF FewerOn
<1>2. Pop(stack) \in Seq(Frame)
      /\ \A d \in DOMAIN Pop(stack) : d \in DOMAIN stack /\ Pop(stack)[d] = stack[d]
  BY PopType, PopElements
<1>3. ASSUME NEW ok, NEW st \in Seq(Frame),
             \A d \in DOMAIN st : d \in DOMAIN stack /\ st[d] = stack[d]
      PROVE  FewerOn(ReturnDispatch(st, ok), stack)
  <2>1. /\ ReturnDispatch(st, ok) \in Seq(Frame)
        /\ \A d \in DOMAIN ReturnDispatch(st, ok) :
              d \in DOMAIN st /\ ReturnDispatch(st, ok)[d] = st[d]
    BY <1>3, ReturnType
  <2>2. \A d \in DOMAIN ReturnDispatch(st, ok) :
           d \in DOMAIN stack /\ ReturnDispatch(st, ok)[d] = stack[d]
    BY <2>1, <1>3
  <2> QED BY <2>1, <2>2, <1>1
<1>4. ASSUME NEW f \in Frame, f.msgs = <<>>
      PROVE  FewerOn(Append(stack, f), stack)
  <2>1. \A d \in DOMAIN stack : Part(stack[d].msgs, stack[d].msgs)
    BY <1>t, PartShapes DEF Frame
  <2>2. \A d \in DOMAIN Append(stack, f) :
           d \in Nat /\ (Append(stack, f)[d] = f \/ (d \in DOMAIN stack /\ Append(stack, f)[d] = stack[d]))
    BY AppendType
  <2> QED BY <2>1, <2>2, <1>4 DEF FewerOn
<1> QED BY <1>1, <1>2, <1>3, <1>4

LEMMA HandlingFewer ==
    ASSUME TypeOK, NEW code, Handling(code)
    PROVE  /\ FewerOn(Advanced, cStack) /\ Advanced \in Seq(Frame)
           /\ Len(cStack) \in DOMAIN cStack /\ DOMAIN Advanced = DOMAIN cStack
           /\ Top.msgs \in Seq(Message) /\ Top.msgs # <<>> /\ Top = cStack[Len(cStack)]
           /\ Advanced[Len(cStack)].msgs = Tail(Top.msgs)
           /\ \A d \in DOMAIN cStack : d # Len(cStack) => Advanced[d] = cStack[d]
<1>t. cStack \in Seq(Frame)
  BY DEF TypeOK, ClientTypeOK
<1>1. cStack # <<>> /\ Top.msgs # <<>> /\ Len(cStack) \in DOMAIN cStack
  BY <1>t DEF Handling, InBatch
<1>2. Top \in Frame /\ Top = cStack[Len(cStack)]
  BY <1>1, <1>t DEF Top
<1>3. Top.msgs \in Seq(Message) /\ Tail(Top.msgs) \in Seq(Message)
  BY <1>1, <1>2 DEF Frame
<1> DEFINE rest == [Top EXCEPT !.msgs = Tail(@)]
<1>4. rest \in Frame /\ rest.msgs = Tail(Top.msgs)
  BY <1>2, <1>3 DEF Frame
<1>5. Advanced = [cStack EXCEPT ![Len(cStack)] = rest]
  BY <1>2 DEF Advanced
<1> HIDE DEF rest
<1>6. /\ Advanced \in Seq(Frame) /\ DOMAIN Advanced = DOMAIN cStack
      /\ Advanced[Len(cStack)] = rest
      /\ \A d \in DOMAIN cStack : d # Len(cStack) => Advanced[d] = cStack[d]
  BY <1>t, <1>1, <1>4, <1>5
<1>7. FewerOn(Advanced, cStack)
  <2>1. ASSUME NEW d \in DOMAIN cStack
        PROVE  d \in Nat /\ Part(Advanced[d].msgs, cStack[d].msgs)
    <3>0. d \in Nat /\ cStack[d] \in Frame
      BY <1>t
    <3>1. CASE d = Len(cStack)
      <4>1. Advanced[d].msgs = Tail(Top.msgs) /\ cStack[d].msgs = Top.msgs
        BY <3>1, <1>2, <1>4, <1>6
      <4>2. Part(Tail(Top.msgs), Top.msgs)
        BY <1>1, <1>3, PartShapes
      <4> QED BY <3>0, <4>1, <4>2
    <3>2. CASE d # Len(cStack)
      <4>1. Advanced[d] = cStack[d] /\ cStack[d].msgs \in Seq(Message)
        BY <3>0, <3>2, <1>6 DEF Frame
      <4> QED BY <3>0, <4>1, PartShapes
    <3> QED BY <3>1, <3>2
  <2> QED BY <2>1, <1>6 DEF FewerOn
<1> QED BY <1>1, <1>2, <1>3, <1>4, <1>6, <1>7

(* A read takes the oldest events of the channel to the innermost batch.      *)
LEMMA ReadOrder ==
    ASSUME TypeOK, OrderInv, CRead
    PROVE  OrderInv'
<1>t. s2c \in Seq(Message) /\ cStack \in Seq(Frame)
  BY DEF TypeOK, WireTypeOK, ClientTypeOK
<1>1. PICK b \in Batches(s2c) : cStack' = Push("batch", 0, b) /\ s2c' = Rest(s2c, b)
  BY DEF CRead
<1>2. heard' = heard
  BY DEF CRead, cHistory
<1>3. /\ b \in Seq(Message) /\ Rest(s2c, b) \in Seq(Message)
      /\ Len(b) \in Nat /\ DOMAIN b = 1..Len(b)
      /\ \A i \in DOMAIN b : i \in DOMAIN s2c /\ b[i] = s2c[i]
      /\ \A i \in DOMAIN Rest(s2c, b) : i + Len(b) \in DOMAIN s2c /\ Rest(s2c, b)[i] = s2c[i + Len(b)]
      /\ DOMAIN Rest(s2c, b) \subseteq Nat \ {0}
  BY <1>t, BatchType
<1>4. Part(b, s2c) /\ Part(s2c', s2c)
  BY <1>t, <1>1, PartShapes
<1>5. /\ Rising(b) /\ Rising(s2c')
      /\ \A n : After(s2c, n) => After(b, n) /\ After(s2c', n)
      /\ \A ms : Newer(s2c, ms) => Newer(b, ms) /\ Newer(s2c', ms)
  BY <1>t, <1>4, PartOrder DEF OrderInv
<1>6. Newer(s2c', b)
  <2>1. ASSUME NEW i \in DOMAIN b, NEW j \in DOMAIN Rest(s2c, b),
               b[i].code = "GENERIC", Rest(s2c, b)[j].code = "GENERIC"
        PROVE  b[i].n < Rest(s2c, b)[j].n
    <3>1. i < j + Len(b) /\ i \in DOMAIN s2c /\ j + Len(b) \in DOMAIN s2c
      BY <1>3
    <3>2. b[i] = s2c[i] /\ Rest(s2c, b)[j] = s2c[j + Len(b)]
      BY <1>3
    <3> QED BY <2>1, <3>1, <3>2 DEF OrderInv, Rising
  <2> QED BY <2>1, <1>1 DEF Newer, After
<1> DEFINE f == [kind |-> "batch", arg |-> 0, msgs |-> b]
           top == Len(cStack) + 1
<1>7. f \in Frame /\ f.msgs = b
  BY <1>3 DEF Frame
<1>8. cStack' = Append(cStack, f)
  BY <1>1 DEF Push
<1> HIDE DEF f
<1>9. /\ cStack'[top].msgs = b
      /\ \A d \in DOMAIN cStack' : d = top \/ (d \in DOMAIN cStack /\ cStack'[d] = cStack[d])
      /\ \A d \in DOMAIN cStack' : d \in Nat /\ d <= top
  BY <1>t, <1>7, <1>8, AppendType
<1> HIDE DEF top
<1>10. \A d \in DOMAIN cStack' : Rising(cStack'[d].msgs) /\ Newer(s2c', cStack'[d].msgs)
  BY <1>5, <1>6, <1>9 DEF OrderInv
<1>11. \A d, e \in DOMAIN cStack' : d < e => Newer(cStack'[e].msgs, cStack'[d].msgs)
  <2>1. ASSUME NEW d \in DOMAIN cStack', NEW e \in DOMAIN cStack', d < e
        PROVE  Newer(cStack'[e].msgs, cStack'[d].msgs)
    <3>1. d \in DOMAIN cStack /\ cStack'[d] = cStack[d]
      <4>1. e <= top /\ d \in Nat /\ e \in Nat
        BY <1>9
      <4>2. top \in Nat
        BY <1>t DEF top
      <4>3. d # top
        BY <2>1, <4>1, <4>2
      <4> QED BY <4>3, <1>9
    <3>2. CASE e = top
      BY <3>1, <3>2, <1>5, <1>9 DEF OrderInv
    <3>3. CASE e # top
      BY <2>1, <3>1, <3>3, <1>9 DEF OrderInv
    <3> QED BY <3>2, <3>3
  <2> QED BY <2>1
<1>12. \A i \in DOMAIN heard :
          /\ After(s2c', heard[i].n)
          /\ \A d \in DOMAIN cStack' : heard[i].depth <= d => After(cStack'[d].msgs, heard[i].n)
  BY <1>5, <1>9 DEF OrderInv
<1> QED BY <1>2, <1>5, <1>10, <1>11, <1>12 DEF OrderInv

(* The event that is heard is older than all that its batch still holds, and  *)
(* newer than all that were heard at its depth or further out.                *)
LEMMA HearOrder ==
    ASSUME TypeOK, OrderInv, NEW h \in DOMAIN cObjs, CHandleEvent(h)
    PROVE  OrderInv'
<1> DEFINE m == Head(Top.msgs)
           hears == [n |-> m.n, at |-> h, depth |-> Len(cStack)]
           f == [kind |-> "listener", arg |-> 0, msgs |-> <<>>]
           top == Len(cStack)
<1>t. /\ s2c \in Seq(Message) /\ cStack \in Seq(Frame) /\ heard \in Seq(Heard)
      /\ cObjs \in Seq(Handle) /\ top \in Nat
  BY DEF TypeOK, WireTypeOK, ClientTypeOK
<1>0. Handling("GENERIC") /\ s2c' = s2c
  BY DEF CHandleEvent, wireVars
<1>1. /\ FewerOn(Advanced, cStack) /\ Advanced \in Seq(Frame)
      /\ top \in DOMAIN cStack /\ DOMAIN Advanced = DOMAIN cStack
      /\ Top.msgs \in Seq(Message) /\ Top.msgs # <<>> /\ Top = cStack[top]
      /\ Advanced[top].msgs = Tail(Top.msgs)
      /\ \A d \in DOMAIN cStack : d # top => Advanced[d] = cStack[d]
  BY <1>0, HandlingFewer
<1>2. /\ m \in Message /\ m = Top.msgs[1] /\ 1 \in DOMAIN Top.msgs /\ m.code = "GENERIC"
      /\ \A i \in DOMAIN Tail(Top.msgs) :
            i \in Nat \ {0} /\ i + 1 \in DOMAIN Top.msgs /\ Tail(Top.msgs)[i] = Top.msgs[i + 1]
  BY <1>0, <1>1, HeadTailElements DEF Handling
<1>3. hears \in Heard /\ hears.n = m.n /\ hears.depth = top
  <2>1. h \in Nat /\ m.n \in Nat
    BY <1>2, <1>t DEF Message
  <2> QED BY <2>1, <1>t DEF Heard
<1>4. heard' = Append(heard, hears)
  BY DEF CHandleEvent
<1>5. cStack' = Append(Advanced, f)
  BY DEF CHandleEvent
<1>6. f \in Frame /\ f.msgs = <<>>
  <2>1. <<>> \in Seq(Message)
    OBVIOUS
  <2> QED BY <2>1 DEF Frame
<1> HIDE DEF f, hears, top
<1>7. \A d \in DOMAIN cStack' :
         d \in Nat /\ (cStack'[d].msgs = <<>> \/ (d \in DOMAIN cStack /\ cStack'[d] = Advanced[d]))
  BY <1>1, <1>5, <1>6, AppendType
(* The stack alone keeps the order of what was heard before.                  *)
<1>8. FewerOn(cStack', cStack)
  BY <1>1, <1>7 DEF FewerOn
<1>9. Part(s2c', s2c)
  BY <1>0, <1>t, PartShapes
<1>10. After(Tail(Top.msgs), m.n)
  <2>1. ASSUME NEW i \in DOMAIN Tail(Top.msgs), Tail(Top.msgs)[i].code = "GENERIC"
        PROVE  m.n < Tail(Top.msgs)[i].n
    <3>1. 1 < i + 1 /\ i + 1 \in DOMAIN Top.msgs /\ Top.msgs[i + 1].code = "GENERIC"
      BY <2>1, <1>2
    <3>2. Rising(Top.msgs)
      BY <1>1 DEF OrderInv
    <3>3. Top.msgs[1].n < Top.msgs[i + 1].n
      BY <3>1, <3>2, <1>2 DEF Rising
    <3> QED BY <3>3, <1>2
  <2> QED BY <2>1 DEF After
<1>11. After(s2c', m.n)
  <2>1. Newer(s2c, Top.msgs)
    BY <1>1 DEF OrderInv
  <2> QED BY <2>1, <1>0, <1>2 DEF Newer
<1>12. ASSUME NEW d \in DOMAIN cStack', top <= d PROVE After(cStack'[d].msgs, m.n)
  <2>1. CASE cStack'[d].msgs = <<>>
    BY <2>1 DEF After
  <2>2. CASE d \in DOMAIN cStack /\ cStack'[d] = Advanced[d]
    <3>1. d = top
      BY <1>12, <1>t, <2>2 DEF top
    <3> QED BY <2>2, <3>1, <1>1, <1>10
  <2> QED BY <2>1, <2>2, <1>7
<1>13. \A i \in DOMAIN heard : heard[i].depth <= top => heard[i].n < m.n
  BY <1>1, <1>2 DEF OrderInv, After
<1>14. /\ Rising(s2c')
       /\ \A d \in DOMAIN cStack' : Rising(cStack'[d].msgs) /\ Newer(s2c', cStack'[d].msgs)
       /\ \A d, e \in DOMAIN cStack' : d < e => Newer(cStack'[e].msgs, cStack'[d].msgs)
       /\ \A i \in DOMAIN heard :
             /\ After(s2c', heard[i].n)
             /\ \A d \in DOMAIN cStack' : heard[i].depth <= d => After(cStack'[d].msgs, heard[i].n)
  BY <1>8, <1>9, FewerShape
<1>15. /\ \A i \in DOMAIN heard' : heard'[i] = hears \/ (i \in DOMAIN heard /\ heard'[i] = heard[i])
       /\ \A i, j \in DOMAIN heard' :
             i < j => /\ i \in DOMAIN heard /\ heard'[i] = heard[i]
                      /\ heard'[j] = hears \/ (j \in DOMAIN heard /\ heard'[j] = heard[j])
  BY <1>t, <1>3, <1>4, AppendType, SMTT(30)
<1>16. \A i \in DOMAIN heard' :
          /\ After(s2c', heard'[i].n)
          /\ \A d \in DOMAIN cStack' : heard'[i].depth <= d => After(cStack'[d].msgs, heard'[i].n)
  BY <1>3, <1>11, <1>12, <1>14, <1>15
<1>17. \A i, j \in DOMAIN heard' :
          i < j /\ heard'[i].depth <= heard'[j].depth => heard'[i].n < heard'[j].n
  BY <1>3, <1>13, <1>15 DEF OrderInv
<1> QED BY <1>14, <1>16, <1>17 DEF OrderInv

LEMMA AppStepOrder == TypeOK /\ OrderInv /\ ClientApp => OrderInv'
<1> SUFFICES ASSUME TypeOK, OrderInv, ClientApp PROVE OrderInv'
  OBVIOUS
<1>t. /\ cStack \in Seq(Frame) /\ s2c \in Seq(Message)
      /\ Len(cObjs) + 1 \in Nat /\ cSentRt + 1 \in Nat
  BY DEF TypeOK, ClientTypeOK, WireTypeOK
<1>p. ASSUME NEW kind \in Loops, NEW arg \in Nat
      PROVE  FewerOn(Push(kind, arg, <<>>), cStack)
  <2> DEFINE f == [kind |-> kind, arg |-> arg, msgs |-> <<>>]
  <2>1. f \in Frame /\ f.msgs = <<>>
    <3>1. <<>> \in Seq(Message)
      OBVIOUS
    <3> QED BY <3>1, <1>p DEF Frame
  <2> HIDE DEF f
  <2>2. FewerOn(Append(cStack, f), cStack)
    BY <2>1, <1>t, FewerFrames
  <2> QED BY <2>2 DEF Push, f
<1>1. FewerOn(cStack', cStack)
  <2>1. \/ cStack' = cStack \/ cStack' = Push("handshake", 0, <<>>)
        \/ cStack' = Push("poll", 0, <<>>) \/ cStack' = Push("object", Len(cObjs) + 1, <<>>)
        \/ cStack' = Push("roundtrip", cSentRt + 1, <<>>)
    BY DEF ClientApp, AppStep, CWaitForHandshake, CDispatch, CBind, CBindTooNew, CCall,
       CRoundtrip, NextSeq
  <2>2. {"handshake", "poll", "object", "roundtrip"} \subseteq Loops
    BY DEF Loops
  <2> QED BY <2>1, <2>2, <1>p, <1>t, FewerFrames
<1>2. (s2c' = s2c \/ s2c' = <<>>) /\ heard' = heard
  BY DEF ClientApp, AppStep, CWaitForHandshake, CDispatch, CBind, CBindTooNew, CCall,
     CRoundtrip, DisconnectOnError, CloseClientEnd, wireVars, cHistory
<1>3. Part(s2c', s2c)
  BY <1>2, <1>t, PartShapes
<1> QED BY <1>1, <1>2, <1>3, FewerOrder

LEMMA LibraryStepOrder == TypeOK /\ OrderInv /\ ClientLibrary => OrderInv'
<1> SUFFICES ASSUME TypeOK, OrderInv, ClientLibrary PROVE OrderInv'
  OBVIOUS
<1>t. cStack \in Seq(Frame) /\ s2c \in Seq(Message)
  BY DEF TypeOK, ClientTypeOK, WireTypeOK
<1>p. Part(s2c, s2c) /\ Part(<<>>, s2c)
  BY <1>t, PartShapes
<1>1. ASSUME CLoopReturns \/ CDispatchFails \/ CNothingToRead \/ CBatchDone \/ CListenerReturn
             \/ CHandleMalformed \/ \E i \in DOMAIN cPending : CFlushOne(i)
      PROVE  OrderInv'
  <2>1. (s2c' = s2c \/ s2c' = <<>>) /\ heard' = heard
    BY <1>1 DEF CLoopReturns, CDispatchFails, CNothingToRead, CBatchDone, CListenerReturn,
       CHandleMalformed, CFlushOne, DisconnectOnError, CloseClientEnd, wireVars, cHistory
  <2>2. \/ cStack' = cStack \/ cStack' = Pop(cStack)
        \/ \E ok : cStack' = ReturnDispatch(cStack, ok)
        \/ \E ok : cStack' = ReturnDispatch(Pop(cStack), ok)
    BY <1>1 DEF CLoopReturns, CDispatchFails, CNothingToRead, CBatchDone, CListenerReturn,
       CHandleMalformed, CFlushOne
  <2>3. FewerOn(cStack', cStack)
    BY <2>2, <1>t, FewerFrames
  <2> QED BY <2>1, <2>3, <1>p, FewerOrder
<1>2. CASE CRead
  BY <1>2, ReadOrder
<1>3. ASSUME CHandleHandshakeBegin \/ CHandleProtocols \/ CHandleNewObject \/ CDropEvent
             \/ CHandleFatal \/ CHandleRoundtripDone
      PROVE  OrderInv'
  <2>1. PICK code : Handling(code) /\ cStack' = Advanced
    BY <1>3 DEF CHandleHandshakeBegin, CHandleProtocols, CHandleNewObject, CDropEvent,
       CHandleFatal, CHandleRoundtripDone
  <2>2. s2c' = s2c /\ heard' = heard
    BY <1>3 DEF CHandleHandshakeBegin, CHandleProtocols, CHandleNewObject, CDropEvent,
       CHandleFatal, CHandleRoundtripDone, wireVars, cHistory
  <2>3. FewerOn(cStack', cStack)
    BY <2>1, HandlingFewer
  <2> QED BY <2>2, <2>3, <1>p, FewerOrder
<1>4. ASSUME NEW h \in DOMAIN cObjs, CHandleEvent(h)
      PROVE  OrderInv'
  BY <1>4, HearOrder
<1> QED BY <1>1, <1>2, <1>3, <1>4 DEF ClientLibrary, LibraryStep, HandleStep

LEMMA ClientEndOrder == TypeOK /\ OrderInv /\ (ClientLeaves \/ ClientTime) => OrderInv'
<1> SUFFICES ASSUME TypeOK, OrderInv, ClientLeaves \/ ClientTime PROVE OrderInv'
  OBVIOUS
<1>t. cStack \in Seq(Frame) /\ s2c \in Seq(Message)
  BY DEF TypeOK, ClientTypeOK, WireTypeOK
<1>1. (s2c' = s2c \/ s2c' = <<>>) /\ heard' = heard
  BY DEF ClientLeaves, ClientTime, CDestroy, CHandshakeTimeout, CClockRunsOut,
     DisconnectOnError, CloseClientEnd, wireVars, cHistory
<1>2. cStack' = cStack \/ cStack' = ReturnDispatch(cStack, FALSE)
  BY DEF ClientLeaves, ClientTime, CDestroy, CHandshakeTimeout, CClockRunsOut
<1>3. Part(s2c', s2c) /\ FewerOn(cStack', cStack)
  BY <1>t, <1>1, <1>2, PartShapes, FewerFrames
<1> QED BY <1>1, <1>3, FewerOrder

(* What the server sends: nothing but events has a place in their order, and  *)
(* a new event is the newest.                                                 *)
LEMMA SentOrder ==
    ASSUME TypeOK, RoutingInv, OrderInv, UNCHANGED <<cStack, heard>>,
           NEW m \in Message, s2c' = s2c \/ s2c' = SentToClient(<<m>>),
           m.code = "GENERIC" => m.n = Len(emitted) + 1
    PROVE  OrderInv'
<1>t. /\ s2c \in Seq(Message) /\ cStack \in Seq(Frame) /\ emitted \in Seq(Nat)
      /\ Len(emitted) \in Nat /\ DOMAIN emitted = 1..Len(emitted)
  BY DEF TypeOK, WireTypeOK, ClientTypeOK, ServerTypeOK
<1>1. s2c' = s2c \/ s2c' = Append(s2c, m)
  <2>1. s2c \o <<m>> = Append(s2c, m)
    BY <1>t
  <2> QED BY <2>1 DEF SentToClient
<1>2. CASE s2c' = s2c
  BY <1>2 DEF OrderInv
<1>3. CASE s2c' = Append(s2c, m)
  <2>1. /\ \A i \in DOMAIN s2c : i \in Nat /\ i < Len(s2c) + 1
        /\ \A i \in DOMAIN s2c' : i = Len(s2c) + 1 \/ (i \in DOMAIN s2c /\ s2c'[i] = s2c[i])
        /\ s2c'[Len(s2c) + 1] = m /\ Len(s2c) \in Nat
    BY <1>t, <1>3, AppendType
  <2>2. ASSUME m.code = "GENERIC"
        PROVE  /\ \A i \in DOMAIN s2c : s2c[i].code = "GENERIC" => s2c[i].n < m.n
               /\ \A d \in DOMAIN cStack : \A i \in DOMAIN cStack[d].msgs :
                     cStack[d].msgs[i].code = "GENERIC" => cStack[d].msgs[i].n < m.n
               /\ \A i \in DOMAIN heard : heard[i].n < m.n
    <3>1. \A n \in DOMAIN emitted : n < m.n
      BY <2>2, <1>t
    <3> QED BY <3>1 DEF RoutingInv, AllFaithful, StackFaithful, Faithful, HeardOK
  <2>3. Rising(s2c')
    <3>1. ASSUME NEW i \in DOMAIN s2c', NEW j \in DOMAIN s2c', i < j,
                 s2c'[i].code = "GENERIC", s2c'[j].code = "GENERIC"
          PROVE  s2c'[i].n < s2c'[j].n
      <4>1. i \in DOMAIN s2c /\ s2c'[i] = s2c[i]
        BY <2>1, <3>1
      <4>2. CASE j = Len(s2c) + 1
        BY <2>1, <2>2, <3>1, <4>1, <4>2
      <4>3. CASE j \in DOMAIN s2c /\ s2c'[j] = s2c[j]
        BY <3>1, <4>1, <4>3 DEF OrderInv, Rising
      <4> QED BY <2>1, <4>2, <4>3
    <3> QED BY <3>1 DEF Rising
  <2>4. \A d \in DOMAIN cStack : Newer(s2c', cStack[d].msgs)
    BY <2>1, <2>2 DEF OrderInv, Newer, After
  <2>5. \A i \in DOMAIN heard : After(s2c', heard[i].n)
    BY <2>1, <2>2 DEF OrderInv, After
  <2> QED BY <2>3, <2>4, <2>5 DEF OrderInv
<1> QED BY <1>1, <1>2, <1>3

LEMMA ServerOrder ==
    TypeOK /\ RoutingInv /\ OrderInv /\ (ServerDispatch \/ ServerApp \/ ServerRemoves) => OrderInv'
<1> SUFFICES ASSUME TypeOK, RoutingInv, OrderInv, ServerDispatch \/ ServerApp \/ ServerRemoves
             PROVE  OrderInv'
  OBVIOUS
<1>0. UNCHANGED <<cStack, heard>>
  BY DEF ServerDispatch, ServerApp, ServerRemoves, cVars, cState, cHistory
<1>t. /\ Len(sObjs) + 1 \in Nat /\ Len(emitted) + 1 \in Nat /\ sRt \in Nat
      /\ sObjs \in Seq(Object) /\ sBatch \in Seq(Message)
  BY DEF TypeOK, ServerTypeOK
<1>1. \A code \in Codes : code # "GENERIC" => Plain(code) \in Message /\ Plain(code).code # "GENERIC"
  BY MessageTypes DEF Plain
<1>2. ASSUME NEW seq \in Nat, NEW ver, NEW known, CreateObject(seq, ver, known)
      PROVE  OrderInv'
  <2> DEFINE m == NewObject(seq, Len(sObjs) + 1)
  <2>1. m \in Message /\ m.code # "GENERIC"
    BY <1>t, MessageTypes DEF NewObject, Plain
  <2>2. s2c' = s2c \/ s2c' = SentToClient(<<m>>)
    BY <1>2 DEF CreateObject
  <2> HIDE DEF m
  <2> QED BY <2>1, <2>2, <1>0, SentOrder
<1>3. CASE SHandleBind
  <2>1. Head(sBatch).seq \in Nat
    BY <1>3, SHandlingType DEF SHandleBind, TypeOK
  <2>2. CreateObject(Head(sBatch).seq, Head(sBatch).ver, TRUE)
    BY <1>3 DEF SHandleBind
  <2> QED BY <2>1, <2>2, <1>2
<1>4. ASSUME NEW make \in sMakes, NEW known \in BOOLEAN, SCreate(make, known)
      PROVE  OrderInv'
  <2>1. make.seq \in Nat
    BY DEF TypeOK, ServerTypeOK, Make
  <2>2. CreateObject(make.seq, sObjs[make.obj].ver, known)
    BY <1>4 DEF SCreate
  <2> QED BY <2>1, <2>2, <1>2
<1>5. ASSUME NEW id \in DOMAIN sObjs, SEmit(id)
      PROVE  OrderInv'
  <2> DEFINE m == Generic(id, "event", 0, Len(emitted) + 1)
  <2>1. m \in Message /\ m.n = Len(emitted) + 1
    <3>1. id \in Nat
      BY <1>t
    <3> QED BY <3>1, <1>t, MessageTypes DEF Generic, Methods
  <2>2. s2c' = SentToClient(<<m>>)
    BY <1>5 DEF SEmit
  <2> HIDE DEF m
  <2> QED BY <2>1, <2>2, <1>0, SentOrder
<1>6. CASE SBatchDone
  <2> DEFINE m == RoundtripDone(sRt)
  <2>1. m \in Message /\ m.code # "GENERIC"
    BY <1>t, MessageTypes DEF RoundtripDone, Plain
  <2>2. s2c' = s2c \/ s2c' = SentToClient(<<m>>)
    BY <1>6 DEF SBatchDone
  <2> HIDE DEF m
  <2> QED BY <2>1, <2>2, <1>0, SentOrder
<1>7. ASSUME SRead \/ SHandleHello \/ SHandleAck \/ SHandleCall \/ SHandleRoundtrip
             \/ SHandleMalformed \/ SHangup \/ SRemove \/ \E id \in DOMAIN sObjs : SRaise(id)
      PROVE  OrderInv'
  <2>1. PICK code \in {"HANDSHAKE_BEGIN", "HANDSHAKE_PROTOCOLS", "FATAL"} :
           s2c' = s2c \/ s2c' = SentToClient(<<Plain(code)>>)
    BY <1>7 DEF SRead, SHandleHello, SHandleAck, SHandleCall, SHandleRoundtrip, SHandleMalformed,
       SHangup, SRemove, SRaise, Fail, CloseServerEnd, wireVars
  <2>2. code \in Codes /\ code # "GENERIC"
    BY DEF Codes
  <2> QED BY <2>1, <2>2, <1>0, <1>1, SentOrder
<1> QED
  BY <1>3, <1>4, <1>5, <1>6, <1>7
     DEF ServerDispatch, ServerApp, ServerRemoves, DispatchStep, SAppStep

(* A torn message is no event any more.                                       *)
LEMMA TearOrder == TypeOK /\ OrderInv /\ Tear => OrderInv'
<1> SUFFICES ASSUME TypeOK, OrderInv, Tear PROVE OrderInv'
  OBVIOUS
<1>0. UNCHANGED <<cStack, heard>>
  BY DEF Tear, cVars, cState, cHistory
<1>1. DOMAIN s2c' = DOMAIN s2c
      /\ \A i \in DOMAIN s2c : s2c'[i] = s2c[i] \/ s2c'[i].code = "MALFORMED"
  <2>1. CASE s2c' = s2c
    BY <2>1
  <2>2. CASE s2c # <<>> /\ s2c' = TearLast(s2c)
    <3>1. s2c \in Seq(Message) /\ s2c[Len(s2c)] \in Message /\ Len(s2c) \in DOMAIN s2c
      BY <2>2 DEF TypeOK, WireTypeOK
    <3> DEFINE torn == [s2c[Len(s2c)] EXCEPT !.code = "MALFORMED"]
    <3>2. torn.code = "MALFORMED"
      BY <3>1 DEF Message
    <3>3. s2c' = [s2c EXCEPT ![Len(s2c)] = torn]
      BY <2>2 DEF TearLast
    <3> HIDE DEF torn
    <3> QED BY <3>1, <3>2, <3>3
  <2> QED BY <2>1, <2>2 DEF Tear
<1>2. /\ Rising(s2c')
      /\ \A n : After(s2c, n) => After(s2c', n)
  BY <1>1 DEF OrderInv, Rising, After
<1>3. \A ms : Newer(s2c, ms) => Newer(s2c', ms)
  BY <1>2 DEF Newer
<1> QED BY <1>0, <1>2, <1>3 DEF OrderInv

LEMMA OrderInvariant == Spec => []OrderInv
<1>1. Init => OrderInv
  BY DEF Init, WireInit, ClientInit, OrderInv, Rising, After
<1>2. OrderInv /\ UNCHANGED vars => OrderInv'
  <2> SUFFICES ASSUME OrderInv, UNCHANGED vars PROVE OrderInv'
    OBVIOUS
  <2>1. UNCHANGED <<s2c, cStack, heard>>
    BY DEF vars, wireVars, cVars, cState, cHistory
  <2> QED BY <2>1 DEF OrderInv
<1>3. TypeOK /\ RoutingInv /\ OrderInv /\ [Next]_vars => OrderInv'
  BY <1>2, AppStepOrder, LibraryStepOrder, ClientEndOrder, ServerOrder, TearOrder DEF Next, Idle
<1> QED BY <1>1, <1>3, RoutingInvariant, PTL DEF Spec

(* Events are heard in the order in which the server sent them, and none      *)
(* twice, on whatever objects and however deep the listeners dispatch: an     *)
(* event overtakes only those that were read before it into the batch of a    *)
(* dispatch further out, which is still being handled.                        *)
THEOREM EventsInOrder == Spec => []EventOrder
<1>1. OrderInv => EventOrder
  BY DEF OrderInv, EventOrder
<1> QED BY <1>1, OrderInvariant, PTL

-----------------------------------------------------------------------------
(* Calls reach the object they were made on, deferred or not, as long as an   *)
(* object id fits the one byte that resolveSeq writes into a deferred call.   *)

(* A call on the wire names the object that the server made for the handle it *)
(* was made on.                                                               *)
Addressed(m, calls, objects) ==
    m.code = "GENERIC" => m.n \in DOMAIN calls /\ AgreeIn(objects, calls[m.n].to, m.id)
AllAddressed(ms, calls, objects) == \A i \in DOMAIN ms : Addressed(ms[i], calls, objects)

DeferredOK(pending, calls) ==
    \A i \in DOMAIN pending : /\ pending[i].msg.n \in DOMAIN calls
                              /\ calls[pending[i].msg.n].to = pending[i].dep
HandledOK(hs, calls, objects) ==
    \A i \in DOMAIN hs : /\ hs[i].n \in DOMAIN calls
                         /\ AgreeIn(objects, calls[hs[i].n].to, hs[i].at)

IdsFit == Len(sObjs) < ByteBase

CallInv ==
    /\ DeferredOK(cPending, issued)
    /\ IdsFit => /\ AllAddressed(c2s, issued, sObjs)
                 /\ AllAddressed(sBatch, issued, sObjs)
                 /\ HandledOK(handled, issued, sObjs)

-----------------------------------------------------------------------------
LEMMA AddressedGrows ==
    ASSUME NEW calls, NEW later, Extends(later, calls),
           NEW objects, NEW more, Extends(more, objects)
    PROVE  /\ \A ms : AllAddressed(ms, calls, objects) => AllAddressed(ms, later, more)
           /\ \A hs : HandledOK(hs, calls, objects) => HandledOK(hs, later, more)
           /\ \A ps : DeferredOK(ps, calls) => DeferredOK(ps, later)
<1>1. ASSUME NEW ms, AllAddressed(ms, calls, objects) PROVE AllAddressed(ms, later, more)
  BY <1>1 DEF AllAddressed, Addressed, AgreeIn, Extends
<1>2. ASSUME NEW hs, HandledOK(hs, calls, objects) PROVE HandledOK(hs, later, more)
  BY <1>2 DEF HandledOK, AgreeIn, Extends
<1>3. ASSUME NEW ps, DeferredOK(ps, calls) PROVE DeferredOK(ps, later)
  BY <1>3 DEF DeferredOK, Extends
<1> QED BY <1>1, <1>2, <1>3

LEMMA SentAddressed ==
    ASSUME NEW calls, NEW objects, c2s \in Seq(Message),
           AllAddressed(c2s, calls, objects),
           NEW m \in Message, Addressed(m, calls, objects)
    PROVE  AllAddressed(SentToServer(<<m>>), calls, objects)
<1>1. c2s \o <<m>> = Append(c2s, m)
  OBVIOUS
<1>2. AllAddressed(Append(c2s, m), calls, objects)
  BY AppendType DEF AllAddressed
<1> QED BY <1>1, <1>2 DEF SentToServer

(* Whatever is no call is addressed to nobody.                                *)
LEMMA PlainAddressed ==
    ASSUME NEW calls, NEW objects
    PROVE  /\ \A seq, ver : Addressed(Bind(seq, ver), calls, objects)
           /\ \A seq : Addressed(RoundtripRequest(seq), calls, objects)
           /\ Addressed(Plain("HANDSHAKE_ACK"), calls, objects)
  BY DEF Addressed, Bind, RoundtripRequest, Plain

LEMMA InitCalls == Init => CallInv
<1> SUFFICES ASSUME Init PROVE CallInv
  OBVIOUS
<1>1. AllAddressed(c2s, issued, sObjs)
  BY DEF Init, WireInit, AllAddressed, Addressed, Plain
<1> QED BY <1>1 DEF Init, ClientInit, ServerInit, CallInv, AllAddressed, HandledOK, DeferredOK

(* Steps of the client that make or send no call.                             *)
LEMMA ClientSideCalls ==
    ASSUME CallInv, UNCHANGED <<issued, cPending, sObjs, sBatch, handled>>,
           IdsFit => AllAddressed(c2s', issued, sObjs)
    PROVE  CallInv'
  BY DEF CallInv, IdsFit

LEMMA AppStepCalls == TypeOK /\ RoutingInv /\ CallInv /\ ClientApp => CallInv'
<1> SUFFICES ASSUME TypeOK, RoutingInv, CallInv, ClientApp PROVE CallInv'
  OBVIOUS
<1>0. UNCHANGED <<sObjs, sBatch, handled>>
  BY DEF ClientApp, sVars, sState, sHistory
<1>t. /\ c2s \in Seq(Message) /\ cObjs \in Seq(Handle) /\ issued \in Seq(Call)
      /\ cPending \in Seq(Deferred) /\ cSentRt + 1 \in Nat /\ Len(cObjs) + 1 \in Nat
  BY DEF TypeOK, WireTypeOK, ClientTypeOK
<1>r. DeferredOK(cPending, issued) /\ (IdsFit => AllAddressed(c2s, issued, sObjs))
  BY DEF CallInv
<1>1. ASSUME CWaitForHandshake \/ CDispatch \/ \E ver \in BindVersions : CBindTooNew(ver)
      PROVE  CallInv'
  <2>1. UNCHANGED <<issued, cPending, c2s>>
    BY <1>1 DEF CWaitForHandshake, CDispatch, CBindTooNew, DisconnectOnError, CloseClientEnd,
       wireVars, cHistory
  <2> QED BY <2>1, <1>0, <1>r, ClientSideCalls
<1>2. ASSUME NEW ver \in BindVersions, CBind(ver)
      PROVE  CallInv'
  <2> DEFINE s == Len(cObjs) + 1
  <2>1. c2s' = SentToServer(<<Bind(s, ver)>>) /\ UNCHANGED <<issued, cPending>>
    BY <1>2 DEF CBind, NextSeq, cHistory
  <2>2. Bind(s, ver) \in Message
    BY <1>t, MessageTypes, ClientAssumption
  <2> HIDE DEF s
  <2>3. IdsFit => AllAddressed(c2s', issued, sObjs)
    BY <2>1, <2>2, <1>t, <1>r, SentAddressed, PlainAddressed
  <2> QED BY <2>1, <2>3, <1>0, ClientSideCalls
<1>3. CASE CRoundtrip
  <2>1. /\ c2s' = SentToServer(<<RoundtripRequest(cSentRt + 1)>>)
        /\ UNCHANGED <<issued, cPending>>
    BY <1>3 DEF CRoundtrip
  <2>2. RoundtripRequest(cSentRt + 1) \in Message
    BY <1>t, MessageTypes
  <2>3. IdsFit => AllAddressed(c2s', issued, sObjs)
    BY <2>1, <2>2, <1>t, <1>r, SentAddressed, PlainAddressed
  <2> QED BY <2>1, <2>3, <1>0, ClientSideCalls
<1>4. ASSUME NEW h \in DOMAIN cObjs, NEW method \in {"call", "make"}, CCall(h, method)
      PROVE  CallInv'
  <2> DEFINE returns == IF method = "make" THEN Len(cObjs) + 1 ELSE 0
             n       == Len(issued) + 1
             call    == [to |-> h, returns |-> returns, nested |-> cStack # <<>>]
             m       == Generic(cObjs[h].id, method, returns, n)
             p       == [msg |-> m, dep |-> h]
  <2>1. issued' = Append(issued, call)
    BY <1>4 DEF CCall, NextSeq
  <2>2. call \in Call /\ call.to = h
    <3>1. (cStack # <<>>) \in BOOLEAN /\ returns \in Nat /\ h \in Nat
      BY <1>t
    <3> HIDE DEF returns
    <3> QED BY <3>1 DEF Call
  <2>3. Extends(issued', issued) /\ n \in DOMAIN issued' /\ issued'[n].to = h /\ n \in Nat
    <3> HIDE DEF call
    <3> QED BY <2>1, <2>2, <1>t, AppendType DEF Extends
  <2>4. m \in Message /\ m.n = n /\ m.id = cObjs[h].id
    <3>1. cObjs[h] \in Handle /\ returns \in Nat
      BY <1>t
    <3>2. cObjs[h].id \in Nat /\ method \in Methods
      BY <3>1 DEF Handle, Methods
    <3> HIDE DEF n, returns
    <3> QED BY <2>3, <3>1, <3>2, MessageTypes DEF Generic
  <2>5. \/ /\ cObjs[h].id = 0
           /\ cPending' = Append(cPending, p) /\ c2s' = c2s
        \/ /\ cObjs[h].id # 0
           /\ cPending' = cPending /\ c2s' = SentToServer(<<m>>)
    BY <1>4 DEF CCall, NextSeq
  <2>6. p \in Deferred /\ p.msg = m /\ p.dep = h
    <3>1. h \in Nat
      BY <1>t
    <3> HIDE DEF m
    <3> QED BY <3>1, <2>4 DEF Deferred
  <2>7. Extends(sObjs, sObjs)
    BY DEF Extends
  <2> HIDE DEF n, call, m, p
  <2>8. /\ DeferredOK(cPending, issued')
        /\ IdsFit => /\ AllAddressed(c2s, issued', sObjs)
                     /\ AllAddressed(sBatch, issued', sObjs)
                     /\ HandledOK(handled, issued', sObjs)
    BY <2>3, <2>7, AddressedGrows DEF CallInv
  <2>9. DeferredOK(cPending', issued')
    <3>1. CASE cPending' = cPending
      BY <3>1, <2>8
    <3>2. CASE cPending' = Append(cPending, p)
      BY <3>2, <2>3, <2>4, <2>6, <2>8, <1>t, AppendType DEF DeferredOK
    <3> QED BY <3>1, <3>2, <2>5
  <2>10. IdsFit => AllAddressed(c2s', issued', sObjs)
    <3>1. CASE c2s' = c2s
      BY <3>1, <2>8
    <3>2. CASE cObjs[h].id # 0 /\ c2s' = SentToServer(<<m>>)
      <4>1. AgreeIn(sObjs, h, cObjs[h].id)
        BY <3>2 DEF RoutingInv, HandlesOK
      <4>2. Addressed(m, issued', sObjs)
        BY <4>1, <2>3, <2>4 DEF Addressed
      <4> QED BY <3>2, <4>2, <2>4, <2>8, <1>t, SentAddressed
    <3> QED BY <3>1, <3>2, <2>5
  <2> QED BY <2>8, <2>9, <2>10, <1>0 DEF CallInv, IdsFit
<1> QED
  BY <1>1, <1>2, <1>3, <1>4 DEF ClientApp, AppStep

LEMMA LibraryStepCalls == TypeOK /\ RoutingInv /\ CallInv /\ ClientLibrary => CallInv'
<1> SUFFICES ASSUME TypeOK, RoutingInv, CallInv, ClientLibrary PROVE CallInv'
  OBVIOUS
<1>0. UNCHANGED <<sObjs, sBatch, handled>>
  BY DEF ClientLibrary, sVars, sState, sHistory
<1>t. /\ c2s \in Seq(Message) /\ cObjs \in Seq(Handle) /\ sObjs \in Seq(Object)
      /\ cPending \in Seq(Deferred)
      /\ \A i \in DOMAIN cPending : cPending[i].dep \in DOMAIN cObjs
  BY DEF TypeOK, WireTypeOK, ClientTypeOK, ClientRefsOK, ServerTypeOK
<1>r. DeferredOK(cPending, issued) /\ (IdsFit => AllAddressed(c2s, issued, sObjs))
  BY DEF CallInv
<1>1. CASE CHandleHandshakeBegin
  <2>1. c2s' = SentToServer(<<Plain("HANDSHAKE_ACK")>>) /\ UNCHANGED <<issued, cPending>>
    BY <1>1 DEF CHandleHandshakeBegin, cHistory
  <2>2. Plain("HANDSHAKE_ACK") \in Message
    BY MessageTypes DEF Codes
  <2>3. IdsFit => AllAddressed(c2s', issued, sObjs)
    BY <2>1, <2>2, <1>t, <1>r, SentAddressed, PlainAddressed
  <2> QED BY <2>1, <2>3, <1>0, ClientSideCalls
(* Only one byte of the id is written: it has to be the whole id.             *)
<1>2. ASSUME NEW i \in DOMAIN cPending, CFlushOne(i)
      PROVE  CallInv'
  <2> DEFINE p == cPending[i]
             m == ResolveSeq(p)
  <2>1. /\ c2s' = SentToServer(<<m>>) /\ cPending' = RemoveAt(cPending, i)
        /\ issued' = issued /\ cObjs[p.dep].id # 0
    BY <1>2 DEF CFlushOne, IsFirst, Ready, cHistory
  <2>2. p \in Deferred /\ p.dep \in DOMAIN cObjs
    BY <1>t
  <2>3. p.msg.n \in DOMAIN issued /\ issued[p.msg.n].to = p.dep
    BY <1>r DEF DeferredOK
  <2>4. AgreeIn(sObjs, p.dep, cObjs[p.dep].id)
    <3> HIDE DEF p
    <3> QED BY <2>1, <2>2 DEF RoutingInv, HandlesOK
  <2>5. p.msg \in Message /\ cObjs[p.dep].id \in Nat
    <3>1. cObjs[p.dep] \in Handle
      BY <2>2, <1>t
    <3> QED BY <2>2, <3>1 DEF Deferred, Handle
  <2>6. IdsFit => cObjs[p.dep].id % ByteBase = cObjs[p.dep].id
    <3>1. cObjs[p.dep].id \in DOMAIN sObjs
      BY <2>4 DEF AgreeIn
    <3>2. IdsFit => cObjs[p.dep].id < ByteBase
      BY <3>1, <2>5, <1>t, ClientAssumption DEF IdsFit
    <3>3. \A a \in Nat, b \in Nat \ {0} : a < b => a % b = a
      OBVIOUS
    <3> QED BY <3>2, <3>3, <2>5, ClientAssumption
  <2>7. m \in Message /\ m.n = p.msg.n /\ m.id = cObjs[p.dep].id % ByteBase
    <3>1. cObjs[p.dep].id % ByteBase \in Nat
      <4>1. \A a \in Nat, b \in Nat \ {0} : a % b \in Nat
        OBVIOUS
      <4> QED BY <2>5, <4>1, ClientAssumption
    <3> HIDE DEF p
    <3> QED BY <2>5, <3>1 DEF ResolveSeq, Message
  <2> HIDE DEF m, p
  <2>8. IdsFit => Addressed(m, issued, sObjs)
    BY <2>3, <2>4, <2>6, <2>7 DEF Addressed
  <2>9. IdsFit => AllAddressed(c2s', issued, sObjs)
    BY <2>1, <2>7, <2>8, <1>t, <1>r, SentAddressed
  <2>10. DeferredOK(cPending', issued)
    BY <2>1, <1>t, <1>r, RemoveType DEF DeferredOK
  <2> QED BY <2>1, <2>9, <2>10, <1>0 DEF CallInv, IdsFit
<1>3. ASSUME CLoopReturns \/ CDispatchFails \/ CNothingToRead \/ CRead
             \/ CBatchDone \/ CListenerReturn
      PROVE  CallInv'
  <2>1. UNCHANGED <<issued, cPending, c2s>>
    BY <1>3 DEF CLoopReturns, CDispatchFails, CNothingToRead, CRead, CBatchDone,
       CListenerReturn, wireVars, cHistory
  <2> QED BY <2>1, <1>0, <1>r, ClientSideCalls
<1>4. ASSUME CHandleProtocols \/ CHandleNewObject \/ (\E h \in DOMAIN cObjs : CHandleEvent(h))
             \/ CDropEvent \/ CHandleFatal \/ CHandleRoundtripDone \/ CHandleMalformed
      PROVE  CallInv'
  <2>1. UNCHANGED <<issued, cPending, c2s>>
    BY <1>4 DEF CHandleProtocols, CHandleNewObject, CHandleEvent, CDropEvent, CHandleFatal,
       CHandleRoundtripDone, CHandleMalformed, DisconnectOnError, CloseClientEnd,
       wireVars, cHistory
  <2> QED BY <2>1, <1>0, <1>r, ClientSideCalls
<1> QED
  BY <1>1, <1>2, <1>3, <1>4 DEF ClientLibrary, LibraryStep, HandleStep

LEMMA ClientEndCalls == TypeOK /\ CallInv /\ (ClientLeaves \/ ClientTime) => CallInv'
<1> SUFFICES ASSUME TypeOK, CallInv, ClientLeaves \/ ClientTime PROVE CallInv'
  OBVIOUS
<1>0. UNCHANGED <<sObjs, sBatch, handled>>
  BY DEF ClientLeaves, ClientTime, sVars, sState, sHistory
<1>1. UNCHANGED <<issued, cPending, c2s>>
  BY DEF ClientLeaves, ClientTime, CDestroy, CHandshakeTimeout, CClockRunsOut,
     DisconnectOnError, CloseClientEnd, wireVars, cHistory
<1>2. IdsFit => AllAddressed(c2s, issued, sObjs)
  BY DEF CallInv
<1> QED BY <1>0, <1>1, <1>2, ClientSideCalls

(* Steps of the server that handle no call: what is on the wire or in the     *)
(* batch was there before, and objects are only added.                        *)
LEMMA ServerSideCalls ==
    ASSUME TypeOK, CallInv, UNCHANGED <<issued, cPending, handled>>,
           sObjs' \in Seq(Object), Extends(sObjs', sObjs),
           \A i \in DOMAIN c2s' : \E j \in DOMAIN c2s : c2s'[i] = c2s[j],
           \A i \in DOMAIN sBatch' :
               \/ \E j \in DOMAIN c2s : sBatch'[i] = c2s[j]
               \/ \E j \in DOMAIN sBatch : sBatch'[i] = sBatch[j]
    PROVE  CallInv'
<1>1. Extends(issued, issued)
  BY DEF Extends
<1>2. IdsFit' => IdsFit
  <2>1. sObjs \in Seq(Object) /\ ByteBase \in Nat
    BY ClientAssumption DEF TypeOK, ServerTypeOK
  <2>2. Len(sObjs) <= Len(sObjs')
    <3>1. Len(sObjs) \in Nat /\ DOMAIN sObjs = 1..Len(sObjs)
          /\ Len(sObjs') \in Nat /\ DOMAIN sObjs' = 1..Len(sObjs')
      BY <2>1
    <3>2. 1..Len(sObjs) \subseteq 1..Len(sObjs')
      BY <3>1 DEF Extends
    <3> QED BY <3>1, <3>2
  <2>3. Len(sObjs) \in Nat /\ Len(sObjs') \in Nat
    BY <2>1
  <2> QED BY <2>1, <2>2, <2>3 DEF IdsFit
<1>3. IdsFit => /\ AllAddressed(c2s, issued, sObjs')
                /\ AllAddressed(sBatch, issued, sObjs')
                /\ HandledOK(handled, issued, sObjs')
  BY <1>1, AddressedGrows DEF CallInv
<1>4. IdsFit => AllAddressed(c2s', issued, sObjs') /\ AllAddressed(sBatch', issued, sObjs')
  BY <1>3 DEF AllAddressed
<1> QED BY <1>2, <1>3, <1>4 DEF CallInv

LEMMA CreateObjectGrows ==
    ASSUME TypeOK, NEW seq \in Nat, NEW ver \in Nat, NEW known \in BOOLEAN,
           CreateObject(seq, ver, known)
    PROVE  sObjs' \in Seq(Object) /\ Extends(sObjs', sObjs)
  BY CreateObjectType DEF TypeOK, ServerFlagsOK, Extends

LEMMA DispatchCalls == TypeOK /\ CallInv /\ ServerDispatch => CallInv'
<1> SUFFICES ASSUME TypeOK, CallInv, ServerDispatch PROVE CallInv'
  OBVIOUS
<1>0. UNCHANGED <<issued, cPending>>
  BY DEF ServerDispatch, cVars, cState, cHistory
<1>t. /\ c2s \in Seq(Message) /\ sBatch \in Seq(Message) /\ sObjs \in Seq(Object)
      /\ Extends(sObjs, sObjs) /\ ServerTypeOK
  BY DEF TypeOK, WireTypeOK, ServerTypeOK, Extends
<1>r. DeferredOK(cPending, issued)
  BY DEF CallInv
<1>b. ASSUME sBatch # <<>>
      PROVE  \A i \in DOMAIN Tail(sBatch) : \E j \in DOMAIN sBatch : Tail(sBatch)[i] = sBatch[j]
  BY <1>b, <1>t, HeadTailElements
<1>1. CASE SRead
  <2>1. PICK batch \in Batches(c2s) : sBatch' = batch /\ c2s' = Rest(c2s, batch)
    BY <1>1 DEF SRead
  <2>2. /\ \A i \in DOMAIN c2s' : \E j \in DOMAIN c2s : c2s'[i] = c2s[j]
        /\ \A i \in DOMAIN sBatch' : \E j \in DOMAIN c2s : sBatch'[i] = c2s[j]
    BY <2>1, <1>t, BatchType
  <2>3. UNCHANGED <<handled, sObjs>>
    BY <1>1 DEF SRead, sHistory
  <2> QED BY <2>2, <2>3, <1>0, <1>t, ServerSideCalls
<1>2. CASE SHandleBind
  <2>1. Head(sBatch).seq \in Nat /\ Head(sBatch).ver \in Nat /\ sBatch # <<>>
    BY <1>2, <1>t, SHandlingType DEF SHandleBind, SHandling
  <2>2. CreateObject(Head(sBatch).seq, Head(sBatch).ver, TRUE) /\ TRUE \in BOOLEAN
    BY <1>2 DEF SHandleBind
  <2>3. sObjs' \in Seq(Object) /\ Extends(sObjs', sObjs)
    BY <2>1, <2>2, CreateObjectGrows
  <2>4. sBatch' = Tail(sBatch) /\ c2s' = c2s /\ handled' = handled
    BY <1>2 DEF SHandleBind, sHistory
  <2> QED BY <2>1, <2>3, <2>4, <1>0, <1>b, ServerSideCalls
<1>3. CASE SHandleCall
  <2> DEFINE m    == Head(sBatch)
             call == [n |-> m.n, at |-> m.id]
             H    == [n : Nat, at : Nat]
  <2>1. m \in Message /\ m = sBatch[1] /\ 1 \in DOMAIN sBatch /\ sBatch # <<>> /\ m.code = "GENERIC"
    BY <1>3, <1>t, HeadTailElements DEF SHandleCall, SHandling
  <2>2. sBatch' = Tail(sBatch) /\ c2s' = c2s /\ sObjs' = sObjs
    BY <1>3 DEF SHandleCall
  <2>3. \/ handled' = handled
        \/ handled' = Append(handled, call)
    BY <1>3 DEF SHandleCall
  <2>4. call \in H /\ handled \in Seq(H)
    BY <2>1, <1>t DEF Message, ServerTypeOK
  <2>5. IdsFit => /\ AllAddressed(c2s, issued, sObjs) /\ AllAddressed(sBatch, issued, sObjs)
                  /\ HandledOK(handled, issued, sObjs)
    BY DEF CallInv
  <2>6. IdsFit => m.n \in DOMAIN issued /\ AgreeIn(sObjs, issued[m.n].to, m.id)
    BY <2>1, <2>5 DEF AllAddressed, Addressed
  <2>7. IdsFit => AllAddressed(sBatch', issued, sObjs)
    BY <2>1, <2>2, <2>5, <1>b DEF AllAddressed
  <2>8. IdsFit => call.n \in DOMAIN issued /\ AgreeIn(sObjs, issued[call.n].to, call.at)
    BY <2>6
  <2> HIDE DEF call, H
  <2>9. /\ \A i \in DOMAIN handled : Append(handled, call)[i] = handled[i]
        /\ Append(handled, call)[Len(handled) + 1] = call
        /\ DOMAIN Append(handled, call) = DOMAIN handled \cup {Len(handled) + 1}
    BY <2>4, AppendType
  <2>10. IdsFit => HandledOK(handled', issued, sObjs)
    BY <2>3, <2>5, <2>8, <2>9 DEF HandledOK
  <2> QED BY <2>2, <2>5, <2>7, <2>10, <1>0, <1>r DEF CallInv, IdsFit
<1>4. ASSUME SHandleHello \/ SHandleAck \/ SHandleRoundtrip
      PROVE  CallInv'
  <2>1. /\ sBatch # <<>> /\ sBatch' = Tail(sBatch)
        /\ UNCHANGED <<c2s, sObjs, handled>>
    BY <1>4 DEF SHandleHello, SHandleAck, SHandleRoundtrip, SHandling, wireVars, sHistory
  <2> QED BY <2>1, <1>0, <1>t, <1>b, ServerSideCalls
<1>5. ASSUME SHandleMalformed \/ SBatchDone
      PROVE  CallInv'
  <2>1. sBatch' = <<>> /\ UNCHANGED <<c2s, sObjs, handled>>
    BY <1>5 DEF SHandleMalformed, SBatchDone, sHistory
  <2> QED BY <2>1, <1>0, <1>t, ServerSideCalls
<1>6. CASE SHangup
  <2>1. c2s' = <<>> /\ UNCHANGED <<sBatch, sObjs, handled>>
    BY <1>6 DEF SHangup, CloseServerEnd, sVars, sState, sHistory
  <2> QED BY <2>1, <1>0, <1>t, ServerSideCalls
<1> QED
  BY <1>1, <1>2, <1>3, <1>4, <1>5, <1>6 DEF ServerDispatch, DispatchStep

LEMMA ServerAppCalls == TypeOK /\ CallInv /\ (ServerApp \/ ServerRemoves) => CallInv'
<1> SUFFICES ASSUME TypeOK, CallInv, ServerApp \/ ServerRemoves PROVE CallInv'
  OBVIOUS
<1>0. UNCHANGED <<issued, cPending>>
  BY DEF ServerApp, ServerRemoves, cVars, cState, cHistory
<1>t. sObjs \in Seq(Object) /\ Extends(sObjs, sObjs)
  BY DEF TypeOK, ServerTypeOK, Extends
<1>1. ASSUME NEW make \in sMakes, NEW known \in BOOLEAN, SCreate(make, known)
      PROVE  CallInv'
  <2>1. make.seq \in Nat /\ sObjs[make.obj].ver \in Nat
    <3>1. make \in Make /\ make.obj \in DOMAIN sObjs
      BY DEF TypeOK, ServerTypeOK, ServerRefsOK
    <3>2. sObjs[make.obj] \in Object
      BY <3>1, <1>t
    <3> QED BY <3>1, <3>2 DEF Make, Object
  <2>2. CreateObject(make.seq, sObjs[make.obj].ver, known)
    BY <1>1 DEF SCreate
  <2>3. sObjs' \in Seq(Object) /\ Extends(sObjs', sObjs)
    BY <2>1, <2>2, CreateObjectGrows
  <2>4. UNCHANGED <<c2s, sBatch, handled>>
    BY <1>1 DEF SCreate, sHistory
  <2> QED BY <2>3, <2>4, <1>0, ServerSideCalls
<1>2. ASSUME \E id \in DOMAIN sObjs : SEmit(id) \/ SRaise(id)
      PROVE  CallInv'
  <2>1. UNCHANGED <<c2s, sBatch, sObjs, handled>>
    BY <1>2 DEF SEmit, SRaise, sState
  <2> QED BY <2>1, <1>0, <1>t, ServerSideCalls
<1>3. CASE SRemove
  <2>1. c2s' = <<>> /\ UNCHANGED <<sBatch, sObjs, handled>>
    BY <1>3 DEF SRemove, CloseServerEnd, sVars, sState, sHistory
  <2> QED BY <2>1, <1>0, <1>t, ServerSideCalls
<1> QED
  BY <1>1, <1>2, <1>3 DEF ServerApp, ServerRemoves, SAppStep

LEMMA TearCalls == TypeOK /\ CallInv /\ Tear => CallInv'
<1> SUFFICES ASSUME TypeOK, CallInv, Tear PROVE CallInv'
  OBVIOUS
<1>0. UNCHANGED <<issued, cPending, sObjs, sBatch, handled>>
  BY DEF Tear, cVars, cState, cHistory, sVars, sState, sHistory
<1>1. IdsFit => AllAddressed(c2s, issued, sObjs)
  BY DEF CallInv
<1>2. IdsFit => AllAddressed(c2s', issued, sObjs)
  <2>1. CASE c2s' = c2s
    BY <2>1, <1>1
  <2>2. CASE c2s # <<>> /\ c2s' = TearLast(c2s)
    <3>1. c2s \in Seq(Message) /\ c2s[Len(c2s)] \in Message /\ Len(c2s) \in DOMAIN c2s
      BY <2>2 DEF TypeOK, WireTypeOK
    <3> DEFINE torn == [c2s[Len(c2s)] EXCEPT !.code = "MALFORMED"]
    <3>2. torn.code = "MALFORMED"
      BY <3>1 DEF Message
    <3>3. c2s' = [c2s EXCEPT ![Len(c2s)] = torn]
      BY <2>2 DEF TearLast
    <3> HIDE DEF torn
    <3>4. Addressed(torn, issued, sObjs)
      BY <3>2 DEF Addressed
    <3> QED BY <3>1, <3>3, <3>4, <1>1 DEF AllAddressed
  <2> QED BY <2>1, <2>2 DEF Tear
<1> QED BY <1>0, <1>2, ClientSideCalls

LEMMA StutterCalls == CallInv /\ UNCHANGED vars => CallInv'
  BY DEF vars, wireVars, cVars, cState, cHistory, sVars, sState, sHistory, CallInv, IdsFit

LEMMA CallInvariant == Spec => []CallInv
<1>1. Init => CallInv
  BY InitCalls
<1>2. TypeOK /\ RoutingInv /\ CallInv /\ [Next]_vars => CallInv'
  BY AppStepCalls, LibraryStepCalls, ClientEndCalls, TearCalls,
     DispatchCalls, ServerAppCalls, StutterCalls DEF Next, Idle
<1> QED BY <1>1, <1>2, RoutingInvariant, PTL DEF Spec

(* A call is processed by the object that the server made for the handle the  *)
(* client called, also when it was issued before the handle had an id and     *)
(* patched later, for any interleaving: as long as the server has made fewer  *)
(* objects than one byte can number, which is what resolveSeq needs.          *)
THEOREM CallRouting == Spec => [](IdsFit => CallsRouted)
<1>1. CallInv => (IdsFit => CallsRouted)
  BY DEF CallInv, HandledOK, AgreeIn, CallsRouted, Agree
<1> QED BY <1>1, CallInvariant, PTL

-----------------------------------------------------------------------------
(* Calls on their way: how each message is counted until it is processed.     *)

(* What is on its way to a handler: the rest of the batch, then the channel.  *)
Stream == sBatch \o c2s

Sent(n)  == \E i \in DOMAIN Stream : Stream[i].n = n
Waits(n) == \E i \in DOMAIN cPending : cPending[i].msg.n = n
Done(n)  == n \in ProcessedCalls

(* Who carries the number of a call.                                          *)
NumberedInv ==
    /\ \A i \in DOMAIN Stream :
          LET m == Stream[i] IN
          /\ m.n # 0 => m.n \in DOMAIN issued
          /\ m.code = "GENERIC" => m.n # 0
          /\ m.n # 0 => m.code \in {"GENERIC", "MALFORMED"}
          /\ m.code = "ROUNDTRIP_REQUEST" => m.seq \in DOMAIN marks
    /\ \A i \in DOMAIN cPending :
          cPending[i].msg.code = "GENERIC" /\ cPending[i].msg.n \in DOMAIN issued
    /\ \A i \in DOMAIN handled : handled[i].n \in DOMAIN issued

(* A call is in at most one place.                                            *)
OnceInv ==
    /\ \A i, j \in DOMAIN Stream : Stream[i].n # 0 /\ Stream[i].n = Stream[j].n => i = j
    /\ \A i, j \in DOMAIN handled : handled[i].n = handled[j].n => i = j
    /\ \A i, j \in DOMAIN cPending : i < j => cPending[i].msg.n < cPending[j].msg.n
    /\ \A n \in DOMAIN issued : ~(Sent(n) /\ Waits(n)) /\ ~(Sent(n) /\ Done(n)) /\ ~(Waits(n) /\ Done(n))

(* And in at least one, as long as nothing failed.                            *)
KeptInv ==
    IdsFit /\ cOpen /\ sOpen /\ ~sError => \A n \in DOMAIN issued : Sent(n) \/ Waits(n) \/ Done(n)

(* The calls that were sent when a roundtrip was requested.                   *)
Marked(mark) == mark.calls \ mark.deferred

(* The calls that have to be processed before a message is handled.           *)
Needs(m, calls, roundtrips) ==
    {n \in DOMAIN calls :
        \/ m.code = "ROUNDTRIP_REQUEST" /\ \E k \in 1..m.seq : n \in Marked(roundtrips[k])
        \/ m.code = "GENERIC" /\ ~calls[m.n].nested /\ n < m.n /\ calls[n].to = calls[m.n].to}
Behind(n, i) == Done(n) \/ \E p \in DOMAIN Stream : p < i /\ Stream[p].n = n

(* What a message has to come after is processed, or in front of it.          *)
QueueInv ==
    IdsFit /\ ~sError => \A i \in DOMAIN Stream : \A n \in Needs(Stream[i], issued, marks) : Behind(n, i)

(* What a roundtrip covers has been sent.                                     *)
MarksInv ==
    /\ Len(marks) = cSentRt
    /\ \A k \in DOMAIN marks : \A n \in Marked(marks[k]) : n \in DOMAIN issued /\ ~Waits(n)

(* A batch that is not flushed keeps its frame on the stack.                  *)
BatchOn(stack) == \E d \in DOMAIN stack : stack[d].kind = "batch"
FlushInv == cOpen /\ Ready # {} => BatchOn(cStack)

FlightInv == NumberedInv /\ OnceInv /\ KeptInv /\ QueueInv /\ MarksInv

(* Between two dispatches nothing is left of a batch.                         *)
IdleInv == ~sBusy => sBatch = <<>>

DeliveryInv == IdleInv /\ FlightInv /\ FlushInv

-----------------------------------------------------------------------------
(* Lemmas about what is on its way to the server.                             *)

LEMMA ConcatShape ==
    ASSUME NEW S, NEW a \in Seq(S), NEW b \in Seq(S)
    PROVE  /\ a \o b \in Seq(S)
           /\ Len(a) \in Nat /\ Len(b) \in Nat /\ DOMAIN a = 1..Len(a) /\ DOMAIN b = 1..Len(b)
           /\ DOMAIN (a \o b) = 1..Len(a) + Len(b)
           /\ \A i \in DOMAIN a : (a \o b)[i] = a[i]
           /\ \A i \in DOMAIN b : (a \o b)[Len(a) + i] = b[i]
  OBVIOUS

LEMMA StreamType ==
    ASSUME TypeOK
    PROVE  /\ Stream \in Seq(Message) /\ DOMAIN Stream = 1..Len(Stream) /\ Len(Stream) \in Nat
           /\ \A i \in DOMAIN Stream : Stream[i] \in Message
<1>1. sBatch \in Seq(Message) /\ c2s \in Seq(Message)
  BY DEF TypeOK, WireTypeOK, ServerTypeOK
<1>2. Stream \in Seq(Message)
  BY <1>1 DEF Stream
<1> QED BY <1>2

(* A message that is sent is appended, or lost because an end is closed.      *)
LEMMA StreamSends ==
    ASSUME TypeOK, NEW m \in Message, c2s' = SentToServer(<<m>>), sBatch' = sBatch
    PROVE  IF cOpen /\ sOpen THEN Stream' = Append(Stream, m) ELSE Stream' = Stream
<1>1. sBatch \in Seq(Message) /\ c2s \in Seq(Message) /\ <<m>> \in Seq(Message)
  BY DEF TypeOK, WireTypeOK, ServerTypeOK
<1>2. sBatch \o (c2s \o <<m>>) = (sBatch \o c2s) \o <<m>> /\ sBatch \o c2s \in Seq(Message)
  BY <1>1, ConcatAssociative, ConcatProperties
<1>3. (sBatch \o c2s) \o <<m>> = Append(sBatch \o c2s, m)
  BY <1>2, AppendIsConcat
<1> QED BY <1>2, <1>3 DEF Stream, SentToServer

(* A read moves messages from the channel to the batch.                       *)
LEMMA StreamReads ==
    ASSUME TypeOK, sBatch = <<>>, NEW batch \in Batches(c2s), sBatch' = batch,
           c2s' = Rest(c2s, batch)
    PROVE  Stream' = Stream
<1>1. c2s \in Seq(Message)
  BY DEF TypeOK, WireTypeOK
<1>2. PICK k \in 1..Len(c2s) : batch = SubSeq(c2s, 1, k)
  BY DEF Batches
<1>3. Len(batch) = k
  BY <1>1, <1>2
<1>4. Rest(c2s, batch) = SubSeq(c2s, k + 1, Len(c2s))
  BY <1>3 DEF Rest
<1>5. SubSeq(c2s, 1, k) \o SubSeq(c2s, k + 1, Len(c2s)) = SubSeq(c2s, 1, Len(c2s))
  <2>1. /\ 1 \in 1..Len(c2s) + 1 /\ k \in 1 - 1..Len(c2s) /\ Len(c2s) \in k..Len(c2s)
    BY <1>1
  <2> QED BY <2>1, <1>1, ConcatAdjacentSubSeq
<1>6. SubSeq(c2s, 1, Len(c2s)) = c2s
  BY <1>1, SubSeqFull
<1>7. <<>> \o c2s = c2s
  BY <1>1, ConcatEmptySeq
<1> QED BY <1>2, <1>4, <1>5, <1>6, <1>7 DEF Stream

(* Handling a message takes the first one.                                    *)
LEMMA StreamHandles ==
    ASSUME TypeOK, sBatch # <<>>, sBatch' = Tail(sBatch), c2s' = c2s
    PROVE  /\ 1 \in DOMAIN Stream /\ Head(sBatch) = Stream[1]
           /\ DOMAIN Stream' = 1..Len(Stream) - 1
           /\ \A i \in DOMAIN Stream' : i + 1 \in DOMAIN Stream /\ Stream'[i] = Stream[i + 1]
<1>1. sBatch \in Seq(Message) /\ c2s \in Seq(Message)
  BY DEF TypeOK, WireTypeOK, ServerTypeOK
<1>2. /\ Head(sBatch) = sBatch[1] /\ 1 \in DOMAIN sBatch
      /\ Tail(sBatch) \in Seq(Message) /\ Len(Tail(sBatch)) = Len(sBatch) - 1
      /\ \A i \in DOMAIN Tail(sBatch) : i + 1 \in DOMAIN sBatch /\ Tail(sBatch)[i] = sBatch[i + 1]
  BY <1>1, HeadTailElements, HeadTailProperties
<1> DEFINE h == Head(sBatch)
<1>3. <<h>> \in Seq(Message) /\ Len(<<h>>) = 1 /\ <<h>>[1] = h
  BY <1>1, <1>2
<1>4. sBatch = <<h>> \o Tail(sBatch)
  BY <1>1
<1>5. Stream = <<h>> \o Stream'
  BY <1>1, <1>2, <1>3, <1>4, ConcatAssociative DEF Stream
<1>6. Stream' \in Seq(Message)
  BY <1>1, <1>2 DEF Stream
<1> HIDE DEF h
<1>7. /\ DOMAIN Stream = 1..1 + Len(Stream') /\ DOMAIN Stream' = 1..Len(Stream') /\ Len(Stream') \in Nat
      /\ Stream[1] = h
      /\ \A i \in DOMAIN Stream' : Stream[1 + i] = Stream'[i]
  BY <1>3, <1>5, <1>6, ConcatShape
<1>8. Len(Stream) = 1 + Len(Stream')
  BY <1>3, <1>5, <1>6, ConcatProperties
<1> QED BY <1>7, <1>8 DEF h

(* A torn message keeps its place and its number.                             *)
LEMMA StreamTears ==
    ASSUME TypeOK, Tear
    PROVE  /\ DOMAIN Stream' = DOMAIN Stream
           /\ \A i \in DOMAIN Stream : Stream'[i].n = Stream[i].n
           /\ \A i \in DOMAIN Stream : Stream'[i] = Stream[i] \/ Stream'[i].code = "MALFORMED"
<1>1. sBatch \in Seq(Message) /\ c2s \in Seq(Message) /\ sBatch' = sBatch
  BY DEF TypeOK, WireTypeOK, ServerTypeOK, Tear, sVars, sState
<1>2. CASE c2s' = c2s
  <2>1. Stream' = Stream
    BY <1>1, <1>2 DEF Stream
  <2> QED BY <2>1
<1>3. CASE c2s # <<>> /\ c2s' = TearLast(c2s)
  <2> DEFINE torn == [c2s[Len(c2s)] EXCEPT !.code = "MALFORMED"]
  <2>1. /\ Len(c2s) \in DOMAIN c2s /\ torn \in Message
        /\ torn.code = "MALFORMED" /\ torn.n = c2s[Len(c2s)].n
    <3>1. Len(c2s) \in DOMAIN c2s /\ c2s[Len(c2s)] \in Message
      BY <1>1, <1>3
    <3> QED BY <3>1 DEF Message, Codes
  <2>2. c2s' = [c2s EXCEPT ![Len(c2s)] = torn]
    BY <1>3 DEF TearLast
  <2> HIDE DEF torn
  <2>3. /\ c2s' \in Seq(Message) /\ DOMAIN c2s' = DOMAIN c2s /\ Len(c2s') = Len(c2s)
    BY <1>1, <2>1, <2>2
  <2>t. ASSUME NEW k \in DOMAIN c2s
        PROVE  c2s'[k].n = c2s[k].n /\ (c2s'[k] = c2s[k] \/ c2s'[k].code = "MALFORMED")
    <3>1. c2s'[k] = IF k = Len(c2s) THEN torn ELSE c2s[k]
      BY <1>1, <2>2
    <3> QED BY <2>1, <3>1
  <2>c. Stream' = sBatch \o c2s' /\ Stream = sBatch \o c2s
    BY <1>1 DEF Stream
  <2>5. /\ DOMAIN Stream = 1..Len(sBatch) + Len(c2s)
        /\ Len(sBatch) \in Nat /\ Len(c2s) \in Nat
        /\ DOMAIN sBatch = 1..Len(sBatch) /\ DOMAIN c2s = 1..Len(c2s)
        /\ \A i \in DOMAIN sBatch : Stream[i] = sBatch[i]
        /\ \A k \in DOMAIN c2s : Stream[Len(sBatch) + k] = c2s[k]
    BY <1>1, <2>c, ConcatShape
  <2>p. /\ DOMAIN Stream' = 1..Len(sBatch) + Len(c2s')
        /\ \A i \in DOMAIN sBatch : Stream'[i] = sBatch[i]
        /\ \A k \in DOMAIN c2s' : Stream'[Len(sBatch) + k] = c2s'[k]
    <3>1. sBatch \in Seq(Message) /\ c2s' \in Seq(Message)
      BY <1>1, <2>3
    <3>2. /\ DOMAIN (sBatch \o c2s') = 1..Len(sBatch) + Len(c2s')
          /\ \A i \in DOMAIN sBatch : (sBatch \o c2s')[i] = sBatch[i]
          /\ \A i \in DOMAIN c2s' : (sBatch \o c2s')[Len(sBatch) + i] = c2s'[i]
      BY ONLY <3>1, ConcatShape
    <3> QED BY ONLY <3>2, <2>c
  <2>4. DOMAIN Stream' = DOMAIN Stream
    <3>1. DOMAIN Stream' = 1..Len(sBatch) + Len(c2s') /\ DOMAIN Stream = 1..Len(sBatch) + Len(c2s)
      BY <2>5, <2>p
    <3>2. Len(c2s') = Len(c2s)
      BY <2>3
    <3> QED BY ONLY <3>1, <3>2
  <2>6. \A i \in DOMAIN sBatch : Stream'[i] = Stream[i]
    BY <2>5, <2>p
  <2>7. \A k \in DOMAIN c2s :
           Stream'[Len(sBatch) + k] = c2s'[k] /\ Stream[Len(sBatch) + k] = c2s[k]
    BY <2>3, <2>5, <2>p
  <2>8. ASSUME NEW i \in DOMAIN Stream
        PROVE  /\ Stream'[i].n = Stream[i].n
               /\ Stream'[i] = Stream[i] \/ Stream'[i].code = "MALFORMED"
    <3>1. CASE i \in DOMAIN sBatch
      BY <3>1, <2>6
    <3>2. CASE i \notin DOMAIN sBatch
      <4> DEFINE k == i - Len(sBatch)
      <4>1. k \in DOMAIN c2s /\ i = Len(sBatch) + k
        BY <3>2, <2>5
      <4> HIDE DEF k
      <4>2. Stream'[i] = c2s'[k] /\ Stream[i] = c2s[k]
        BY <4>1, <2>7
      <4>3. c2s'[k].n = c2s[k].n /\ (c2s'[k] = c2s[k] \/ c2s'[k].code = "MALFORMED")
        BY <4>1, <2>t
      <4> QED BY <4>2, <4>3
    <3> QED BY <3>1, <3>2
  <2> QED BY <2>4, <2>8
<1> QED BY <1>2, <1>3 DEF Tear

(* Dropping the rest of a batch leaves the messages of the channel.           *)
LEMMA StreamDrops ==
    ASSUME TypeOK, sBatch' = <<>>, c2s' = c2s
    PROVE  /\ Len(sBatch) \in Nat /\ DOMAIN Stream' \subseteq Nat
           /\ \A i \in DOMAIN Stream' : /\ Len(sBatch) + i \in DOMAIN Stream
                                         /\ Stream'[i] = Stream[Len(sBatch) + i]
<1>1. sBatch \in Seq(Message) /\ c2s \in Seq(Message)
  BY DEF TypeOK, WireTypeOK, ServerTypeOK
<1>2. Stream' = c2s
  BY <1>1, ConcatEmptySeq DEF Stream
<1>3. \A i \in DOMAIN c2s : Len(sBatch) + i \in DOMAIN Stream
  BY <1>1, ConcatShape DEF Stream
<1> QED BY <1>1, <1>2, <1>3, ConcatShape DEF Stream

-----------------------------------------------------------------------------
(* The invariant, by what a step does to the messages on their way.           *)

(* A message that joins them.                                                 *)
LEMMA StreamGrows ==
    ASSUME TypeOK, NEW m \in Message, Stream' = Append(Stream, m)
    PROVE  /\ Len(Stream) \in Nat /\ DOMAIN Stream = 1..Len(Stream)
           /\ DOMAIN Stream' = 1..Len(Stream) + 1
           /\ \A i \in DOMAIN Stream : i \in DOMAIN Stream' /\ Stream'[i] = Stream[i]
           /\ Stream'[Len(Stream) + 1] = m
           /\ \A n : Sent(n)' <=> Sent(n) \/ m.n = n
<1>1. Stream \in Seq(Message)
  BY StreamType
<1>2. /\ Len(Stream) \in Nat /\ DOMAIN Stream = 1..Len(Stream)
      /\ DOMAIN Stream' = 1..Len(Stream) + 1
      /\ \A i \in DOMAIN Stream : i \in DOMAIN Stream' /\ Stream'[i] = Stream[i]
      /\ Stream'[Len(Stream) + 1] = m
  BY <1>1, AppendType
<1>3. \A i \in DOMAIN Stream' : i \in DOMAIN Stream \/ i = Len(Stream) + 1
  BY <1>2
<1>4. ASSUME NEW n PROVE Sent(n)' <=> Sent(n) \/ m.n = n
  <2>1. Len(Stream) + 1 \in DOMAIN Stream'
    BY <1>2
  <2> QED BY <2>1, <1>2, <1>3 DEF Sent
<1> QED BY <1>2, <1>4

(* Later calls and roundtrips ask nothing of the messages already on the way. *)
LEMMA NeedsKept ==
    ASSUME TypeOK, NumberedInv, MarksInv, issued' \in Seq(Call),
           Extends(issued', issued), Extends(marks', marks),
           NEW i \in DOMAIN Stream
    PROVE  Needs(Stream[i], issued', marks') \subseteq Needs(Stream[i], issued, marks)
<1> DEFINE m == Stream[i]
<1>1. m \in Message /\ m.n \in Nat /\ m.seq \in Nat
  <2>1. m \in Message
    BY StreamType
  <2> QED BY <2>1 DEF Message
<1>2. /\ m.code = "GENERIC" => m.n \in DOMAIN issued
      /\ m.code = "ROUNDTRIP_REQUEST" => m.seq \in DOMAIN marks
  BY DEF NumberedInv
<1> HIDE DEF m
<1> SUFFICES ASSUME NEW n \in Needs(m, issued', marks')
             PROVE  n \in Needs(m, issued, marks)
  BY DEF m
<1>3. n \in DOMAIN issued' /\ issued \in Seq(Call) /\ Len(issued) \in Nat /\ n \in Nat \ {0}
      /\ DOMAIN issued = 1..Len(issued)
  BY DEF Needs, TypeOK, ClientTypeOK
<1>4. CASE m.code = "ROUNDTRIP_REQUEST"
  <2>1. PICK k \in 1..m.seq : n \in Marked(marks'[k])
    BY <1>4 DEF Needs
  <2>2. k \in DOMAIN marks
    <3>1. DOMAIN marks = 1..Len(marks) /\ Len(marks) \in Nat /\ m.seq \in DOMAIN marks
      BY <1>2, <1>4 DEF TypeOK, ClientTypeOK
    <3> QED BY <3>1
  <2>3. n \in Marked(marks[k])
    BY <2>1, <2>2 DEF Extends
  <2>4. n \in DOMAIN issued
    BY <2>2, <2>3 DEF MarksInv
  <2> QED BY <1>4, <2>1, <2>3, <2>4 DEF Needs
<1>5. CASE m.code = "GENERIC"
  <2>1. m.n \in DOMAIN issued /\ issued'[m.n] = issued[m.n] /\ n < m.n
    BY <1>2, <1>5 DEF Needs, Extends
  <2>2. n \in DOMAIN issued
    BY <2>1, <1>1, <1>3
  <2>3. issued'[n] = issued[n]
    BY <2>2 DEF Extends
  <2> QED BY <1>5, <2>1, <2>2, <2>3 DEF Needs
<1> QED BY <1>4, <1>5 DEF Needs

(* The queue grows by a message that nothing is missing for.                  *)
LEMMA QueueGrows ==
    ASSUME TypeOK, NumberedInv, MarksInv, QueueInv, issued' \in Seq(Call),
           Extends(issued', issued), Extends(marks', marks),
           UNCHANGED <<handled, sError, sObjs>>,
           NEW m \in Message,
           \/ Stream' = Stream
           \/ /\ Stream' = Append(Stream, m)
              /\ IdsFit /\ ~sError => \A n \in Needs(m, issued', marks') : Done(n) \/ Sent(n)
    PROVE  QueueInv'
<1> SUFFICES ASSUME IdsFit, ~sError,
                    NEW i \in DOMAIN Stream', NEW n \in Needs(Stream'[i], issued', marks')
             PROVE  Behind(n, i)'
  BY DEF QueueInv, IdsFit
<1>1. Done(n)' <=> Done(n)
  BY DEF Done, ProcessedCalls
<1>2. CASE i \in DOMAIN Stream /\ Stream'[i] = Stream[i]
           /\ \A p \in DOMAIN Stream : p \in DOMAIN Stream' /\ Stream'[p] = Stream[p]
  <2>1. n \in Needs(Stream[i], issued, marks)
    BY <1>2, NeedsKept
  <2>2. Behind(n, i)
    BY <1>2, <2>1 DEF QueueInv
  <2> QED BY <2>2, <1>1, <1>2 DEF Behind
<1>3. CASE Stream' = Append(Stream, m) /\ i \notin DOMAIN Stream
  <2>1. i = Len(Stream) + 1 /\ Stream'[i] = m /\ Len(Stream) \in Nat
        /\ \A p \in DOMAIN Stream : p < i /\ p \in DOMAIN Stream' /\ Stream'[p] = Stream[p]
    BY <1>3, StreamGrows
  <2>2. Done(n) \/ Sent(n)
    <3>1. Stream' # Stream
      BY <1>3, <2>1
    <3> QED BY <2>1, <3>1
  <2> QED BY <2>1, <2>2, <1>1 DEF Behind, Sent
<1> QED BY <1>2, <1>3, StreamGrows

(* A step that neither adds, moves nor takes a message.                       *)
LEMMA QuietFlight ==
    ASSUME FlightInv, Stream' = Stream, UNCHANGED <<issued, cPending, handled, marks, cSentRt>>,
           sError => sError', cOpen' => cOpen, sOpen' => sOpen, IdsFit' => IdsFit
    PROVE  FlightInv'
<1>1. /\ \A n : (Sent(n)' <=> Sent(n)) /\ (Waits(n)' <=> Waits(n)) /\ (Done(n)' <=> Done(n))
      /\ \A n, i : Behind(n, i)' <=> Behind(n, i)
  BY DEF Sent, Waits, Done, ProcessedCalls, Behind
<1>2. NumberedInv' /\ MarksInv'
  BY <1>1 DEF FlightInv, NumberedInv, MarksInv
<1>3. OnceInv'
  BY <1>1 DEF FlightInv, OnceInv
<1>4. KeptInv' /\ QueueInv'
  BY <1>1 DEF FlightInv, KeptInv, QueueInv
<1> QED BY <1>2, <1>3, <1>4 DEF FlightInv

(* A message without a number joins the others.                               *)
LEMMA PlainFlight ==
    ASSUME TypeOK, FlightInv,
           NEW m \in Message, Stream' = Append(Stream, m), m.n = 0, m.code # "GENERIC",
           UNCHANGED <<issued, cPending, handled, sError, cOpen, sOpen, sObjs>>,
           Extends(marks', marks), MarksInv',
           m.code = "ROUNDTRIP_REQUEST" => m.seq \in DOMAIN marks',
           IdsFit /\ ~sError => \A n \in Needs(m, issued, marks') : Done(n) \/ Sent(n)
    PROVE  FlightInv'
<1>0. /\ NumberedInv /\ OnceInv /\ KeptInv /\ QueueInv /\ MarksInv
      /\ issued \in Seq(Call) /\ Extends(issued, issued) /\ 0 \notin DOMAIN issued
  BY DEF FlightInv, TypeOK, ClientTypeOK, Extends
<1>1. /\ \A n \in DOMAIN issued : Sent(n)' <=> Sent(n)
      /\ \A n : (Waits(n)' <=> Waits(n)) /\ (Done(n)' <=> Done(n))
  BY <1>0, StreamGrows DEF Waits, Done, ProcessedCalls
<1>2. NumberedInv'
  <2>1. ASSUME NEW i \in DOMAIN Stream'
        PROVE  LET k == Stream'[i] IN
               /\ k.n # 0 => k.n \in DOMAIN issued'
               /\ k.code = "GENERIC" => k.n # 0
               /\ k.n # 0 => k.code \in {"GENERIC", "MALFORMED"}
               /\ k.code = "ROUNDTRIP_REQUEST" => k.seq \in DOMAIN marks'
    <3>1. CASE i \in DOMAIN Stream
      BY <3>1, <1>0, StreamGrows DEF NumberedInv, Extends
    <3>2. CASE Stream'[i] = m
      BY <3>2
    <3> QED BY <3>1, <3>2, StreamGrows
  <2> QED BY <2>1, <1>0 DEF NumberedInv
<1>3. OnceInv'
  <2>1. ASSUME NEW i \in DOMAIN Stream', NEW j \in DOMAIN Stream',
               Stream'[i].n # 0, Stream'[i].n = Stream'[j].n
        PROVE  i = j
    <3>1. i \in DOMAIN Stream /\ j \in DOMAIN Stream
      BY <2>1, StreamGrows
    <3>2. Stream'[i] = Stream[i] /\ Stream'[j] = Stream[j]
      BY <3>1, StreamGrows
    <3> QED BY <2>1, <3>1, <3>2, <1>0 DEF OnceInv
  <2> QED BY <2>1, <1>0, <1>1 DEF OnceInv
<1>4. KeptInv'
  BY <1>0, <1>1 DEF KeptInv, IdsFit
<1>5. QueueInv'
  BY <1>0, QueueGrows
<1> QED BY <1>2, <1>3, <1>4, <1>5 DEF FlightInv

(* Requesting a roundtrip: what it covers is sent.                            *)
LEMMA RoundtripFlight ==
    ASSUME TypeOK, FlightInv, CRoundtrip, UNCHANGED sVars
    PROVE  FlightInv'
<1> DEFINE k    == cSentRt + 1
           m    == RoundtripRequest(k)
           mark == [calls    |-> DOMAIN issued,
                    deferred |-> {cPending[i].msg.n : i \in DOMAIN cPending}]
<1>0. /\ NumberedInv /\ OnceInv /\ KeptInv /\ QueueInv /\ MarksInv
      /\ marks \in Seq([calls : SUBSET Nat, deferred : SUBSET Nat]) /\ cSentRt \in Nat
      /\ DOMAIN issued \subseteq Nat
  BY DEF FlightInv, TypeOK, ClientTypeOK
<1>1. /\ m \in Message /\ m.n = 0 /\ m.code = "ROUNDTRIP_REQUEST" /\ m.seq = k
      /\ k = Len(marks) + 1
  <2>1. m \in Message /\ k = Len(marks) + 1
    BY <1>0, MessageTypes DEF MarksInv
  <2> QED BY <2>1 DEF RoundtripRequest, Plain
<1>2. UNCHANGED <<issued, cPending, handled, sError, cOpen, sOpen, sObjs, sBatch>>
  BY DEF CRoundtrip, sVars, sState, sHistory
<1>3. c2s' = SentToServer(<<m>>) /\ cSentRt' = k /\ marks' = Append(marks, mark)
  BY DEF CRoundtrip
<1>4. \A n \in Marked(mark) : n \in DOMAIN issued /\ ~Waits(n)
  BY DEF Marked, Waits
<1>5. mark \in [calls : SUBSET Nat, deferred : SUBSET Nat]
  <2>1. \A i \in DOMAIN cPending : cPending[i].msg.n \in DOMAIN issued
    BY <1>0 DEF NumberedInv
  <2> QED BY <2>1, <1>0
<1> HIDE DEF mark, m, k
<1>6. /\ Len(marks') = k /\ DOMAIN marks' = DOMAIN marks \cup {k} /\ marks'[k] = mark
      /\ Extends(marks', marks)
  BY <1>0, <1>1, <1>3, <1>5, AppendType DEF Extends
<1>7. MarksInv'
  <2>1. \A n : Waits(n)' <=> Waits(n)
    BY <1>2 DEF Waits
  <2>2. ASSUME NEW j \in DOMAIN marks', NEW n \in Marked(marks'[j])
        PROVE  n \in DOMAIN issued' /\ ~Waits(n)'
    <3>1. CASE j = k
      BY <3>1, <2>1, <1>2, <1>4, <1>6
    <3>2. CASE j \in DOMAIN marks
      <4>1. n \in Marked(marks[j])
        BY <3>2, <1>6 DEF Extends
      <4> QED BY <4>1, <3>2, <2>1, <1>0, <1>2 DEF MarksInv
    <3> QED BY <3>1, <3>2, <1>6
  <2> QED BY <2>2, <1>3, <1>6 DEF MarksInv
<1>8. CASE cOpen /\ sOpen
  <2>1. Stream' = Append(Stream, m)
    BY <1>8, <1>1, <1>2, <1>3, StreamSends
  <2>2. ASSUME IdsFit, ~sError, NEW n \in Needs(m, issued, marks') PROVE Done(n) \/ Sent(n)
    <3>1. PICK j \in 1..k : n \in Marked(marks'[j])
      BY <1>1 DEF Needs
    <3>2. j \in DOMAIN marks'
      BY <3>1, <1>0, <1>1, <1>6
    <3>3. n \in DOMAIN issued /\ ~Waits(n)
      BY <3>1, <3>2, <1>2, <1>7 DEF MarksInv, Waits
    <3> QED BY <3>3, <2>2, <1>0, <1>8 DEF KeptInv
  <2>3. k \in DOMAIN marks'
    BY <1>6
  <2> QED BY <2>1, <2>2, <2>3, <1>1, <1>2, <1>6, <1>7, PlainFlight
<1>9. CASE ~(cOpen /\ sOpen)
  <2>1. Stream' = Stream
    BY <1>9, <1>1, <1>2, <1>3, StreamSends
  <2>2. issued \in Seq(Call) /\ Extends(issued, issued)
    BY DEF TypeOK, ClientTypeOK, Extends
  <2>3. QueueInv'
    BY <2>1, <2>2, <1>0, <1>1, <1>2, <1>6, QueueGrows
  <2>4. \A n : (Sent(n)' <=> Sent(n)) /\ (Waits(n)' <=> Waits(n)) /\ (Done(n)' <=> Done(n))
    BY <2>1, <1>2 DEF Sent, Waits, Done, ProcessedCalls
  <2>5. NumberedInv'
    BY <2>1, <1>0, <1>2, <1>6 DEF NumberedInv
  <2>6. OnceInv' /\ KeptInv'
    BY <2>1, <2>4, <1>0, <1>2, <1>9 DEF OnceInv, KeptInv, IdsFit
  <2> QED BY <2>3, <2>5, <2>6, <1>7 DEF FlightInv
<1> QED BY <1>8, <1>9

(* A message without a number is sent, or lost because an end is closed.      *)
LEMMA SendsFlight ==
    ASSUME TypeOK, FlightInv,
           NEW m \in Message, m.n = 0, m.code \notin {"GENERIC", "ROUNDTRIP_REQUEST"},
           c2s' = SentToServer(<<m>>),
           UNCHANGED <<sBatch, issued, cPending, handled, marks, cSentRt, sError, cOpen, sOpen, sObjs>>
    PROVE  FlightInv'
<1>1. CASE Stream' = Stream
  BY <1>1, QuietFlight DEF IdsFit
<1>2. CASE Stream' = Append(Stream, m)
  <2>1. Extends(marks', marks)
    BY DEF Extends
  <2>2. MarksInv'
    BY DEF FlightInv, MarksInv, Waits
  <2>3. Needs(m, issued, marks') = {}
    BY DEF Needs
  <2> QED BY <1>2, <2>1, <2>2, <2>3, PlainFlight
<1> QED BY <1>1, <1>2, StreamSends

(* The client makes a call or sends one: the call is deferred or joins the    *)
(* others, and it is nowhere else.                                            *)
LEMMA NumberFlight ==
    ASSUME TypeOK, FlightInv, issued' \in Seq(Call), Extends(issued', issued),
           UNCHANGED <<handled, marks, cSentRt, sError, cOpen, sOpen, sObjs>>,
           NEW m \in Message,
           \/ Stream' = Stream
           \/ /\ Stream' = Append(Stream, m)
              /\ m.code = "GENERIC" /\ m.n \in DOMAIN issued'
              /\ ~Sent(m.n) /\ ~Done(m.n) /\ ~Waits(m.n)'
              /\ IdsFit /\ ~sError => \A n \in Needs(m, issued', marks) : Done(n) \/ Sent(n),
           \A i \in DOMAIN cPending' :
               cPending'[i].msg.code = "GENERIC" /\ cPending'[i].msg.n \in DOMAIN issued',
           \A i, j \in DOMAIN cPending' : i < j => cPending'[i].msg.n < cPending'[j].msg.n,
           \A n \in DOMAIN issued : Waits(n)' => Waits(n),
           cOpen /\ sOpen => \A n \in DOMAIN issued' :
               Sent(n) \/ Waits(n) \/ n \notin DOMAIN issued => Sent(n)' \/ Waits(n)'
    PROVE  FlightInv'
<1>0. /\ NumberedInv /\ OnceInv /\ KeptInv /\ QueueInv /\ MarksInv
      /\ issued \in Seq(Call) /\ 0 \notin DOMAIN issued' /\ DOMAIN issued \subseteq DOMAIN issued'
      /\ Extends(marks, marks) /\ marks' = marks /\ handled' = handled
  BY DEF FlightInv, TypeOK, ClientTypeOK, Extends
<1>1. \A n : Done(n)' <=> Done(n)
  BY <1>0 DEF Done, ProcessedCalls
<1>2. \A n : Done(n) \/ (Sent(n) /\ n # 0) => n \in DOMAIN issued
  BY <1>0 DEF NumberedInv, Done, Sent, ProcessedCalls
<1>3. NumberedInv'
  <2>1. ASSUME NEW i \in DOMAIN Stream'
        PROVE  LET k == Stream'[i] IN
               /\ k.n # 0 => k.n \in DOMAIN issued'
               /\ k.code = "GENERIC" => k.n # 0
               /\ k.n # 0 => k.code \in {"GENERIC", "MALFORMED"}
               /\ k.code = "ROUNDTRIP_REQUEST" => k.seq \in DOMAIN marks'
    <3>1. CASE i \in DOMAIN Stream /\ Stream'[i] = Stream[i]
      BY <3>1, <1>0 DEF NumberedInv
    <3>2. CASE Stream' = Append(Stream, m) /\ Stream'[i] = m
      <4>1. Stream' # Stream
        BY <3>2, StreamGrows
      <4> QED BY <3>2, <4>1, <1>0
    <3> QED BY <3>1, <3>2, StreamGrows
  <2>2. \A i \in DOMAIN handled : handled[i].n \in DOMAIN issued'
    BY <1>0 DEF NumberedInv
  <2> QED BY <2>1, <2>2, <1>0 DEF NumberedInv
<1>4. OnceInv'
  <2>1. ASSUME NEW i \in DOMAIN Stream', NEW j \in DOMAIN Stream',
               Stream'[i].n # 0, Stream'[i].n = Stream'[j].n
        PROVE  i = j
    <3>1. CASE Stream' = Stream
      BY <2>1, <3>1, <1>0 DEF OnceInv
    <3>2. CASE Stream' = Append(Stream, m) /\ Stream' # Stream
      <4>1. ~Sent(m.n)
        BY <3>2
      <4>2. i \in DOMAIN Stream <=> j \in DOMAIN Stream
        BY <2>1, <3>2, <4>1, StreamGrows DEF Sent
      <4>3. CASE i \in DOMAIN Stream /\ j \in DOMAIN Stream
        <5>1. Stream'[i] = Stream[i] /\ Stream'[j] = Stream[j]
          BY <3>2, <4>3, StreamGrows
        <5> QED BY <2>1, <4>3, <5>1, <1>0 DEF OnceInv
      <4>4. CASE i \notin DOMAIN Stream /\ j \notin DOMAIN Stream
        BY <3>2, <4>4, StreamGrows
      <4> QED BY <4>2, <4>3, <4>4
    <3> QED BY <3>1, <3>2
  <2>2. ASSUME NEW n \in DOMAIN issued'
        PROVE  ~(Sent(n)' /\ Waits(n)') /\ ~(Sent(n)' /\ Done(n)') /\ ~(Waits(n)' /\ Done(n)')
    <3>1. \/ Sent(n)' <=> Sent(n)
          \/ n = m.n /\ ~Sent(m.n) /\ ~Done(m.n) /\ ~Waits(m.n)'
      <4>1. CASE Stream' = Stream
        BY <4>1 DEF Sent
      <4>2. CASE Stream' = Append(Stream, m) /\ Stream' # Stream
        BY <4>2, StreamGrows
      <4> QED BY <4>1, <4>2
    <3>2. n # 0
      BY <1>0
    <3>3. n \in DOMAIN issued =>
              ~(Sent(n) /\ Waits(n)) /\ ~(Sent(n) /\ Done(n)) /\ ~(Waits(n) /\ Done(n))
      BY <1>0 DEF OnceInv
    <3> QED BY <3>1, <3>2, <3>3, <1>1, <1>2
  <2> QED BY <2>1, <2>2, <1>0 DEF OnceInv
<1>5. KeptInv'
  <2>1. \A n : Done(n) => Done(n)'
    BY <1>1
  <2> QED BY <2>1, <1>0 DEF KeptInv, IdsFit
<1>6. QueueInv'
  BY <1>0, QueueGrows
<1>7. MarksInv'
  BY <1>0 DEF MarksInv
<1> QED BY <1>3, <1>4, <1>5, <1>6, <1>7 DEF FlightInv

(* A call made from the main loop finds no earlier one waiting for the same   *)
(* object, because the flush was complete.                                    *)
LEMMA CallFlight ==
    ASSUME TypeOK, CallInv, FlightInv, FlushInv, UNCHANGED sVars,
           NEW h \in DOMAIN cObjs, NEW method \in {"call", "make"}, CCall(h, method)
    PROVE  FlightInv'
<1> DEFINE returns == IF method = "make" THEN Len(cObjs) + 1 ELSE 0
           n       == Len(issued) + 1
           call    == [to |-> h, returns |-> returns, nested |-> cStack # <<>>]
           m       == Generic(cObjs[h].id, method, returns, n)
           p       == [msg |-> m, dep |-> h]
<1>0. /\ NumberedInv /\ OnceInv /\ KeptInv /\ MarksInv
      /\ issued \in Seq(Call) /\ cObjs \in Seq(Handle) /\ cPending \in Seq(Deferred)
      /\ Len(issued) \in Nat /\ DOMAIN issued = 1..Len(issued)
      /\ \A i \in DOMAIN cPending : cPending[i].msg.n \in DOMAIN issued
      /\ \A i \in DOMAIN cPending : cPending[i].msg.code = "GENERIC"
      /\ cOpen
  <2>1. NumberedInv /\ OnceInv /\ KeptInv /\ MarksInv
    BY DEF FlightInv
  <2>2. issued \in Seq(Call) /\ cObjs \in Seq(Handle) /\ cPending \in Seq(Deferred)
    BY DEF TypeOK, ClientTypeOK
  <2>3. cOpen
    BY DEF CCall, AppActs
  <2> QED BY <2>1, <2>2, <2>3 DEF NumberedInv
<1>1. /\ issued' = Append(issued, call)
      /\ UNCHANGED <<handled, marks, cSentRt, sError, cOpen, sOpen, sObjs, sBatch>>
      /\ \/ cObjs[h].id = 0 /\ cPending' = Append(cPending, p) /\ c2s' = c2s
         \/ cObjs[h].id # 0 /\ cPending' = cPending /\ c2s' = SentToServer(<<m>>)
  BY DEF CCall, NextSeq, sVars, sState, sHistory
<1>2. call \in Call /\ call.to = h /\ call.nested = (cStack # <<>>)
  <2>1. (cStack # <<>>) \in BOOLEAN /\ returns \in Nat /\ h \in Nat
    BY <1>0
  <2> HIDE DEF returns
  <2> QED BY <2>1 DEF Call
<1>3. m \in Message /\ m.n = n /\ m.code = "GENERIC"
  <2>1. cObjs[h].id \in Nat /\ returns \in Nat /\ n \in Nat /\ method \in Methods
    <3>1. cObjs[h] \in Handle
      BY <1>0
    <3> QED BY <3>1, <1>0 DEF Handle, Methods
  <2> HIDE DEF returns, n
  <2>2. m \in Message
    BY <2>1, MessageTypes
  <2> QED BY <2>2 DEF Generic
<1>4. p \in Deferred /\ p.msg = m /\ p.dep = h
  <2>1. h \in Nat
    BY <1>0
  <2> HIDE DEF m
  <2> QED BY <2>1, <1>3 DEF Deferred
<1> HIDE DEF call, m, p
<1>5. /\ issued' \in Seq(Call) /\ Extends(issued', issued)
      /\ DOMAIN issued' = DOMAIN issued \cup {n} /\ issued'[n] = call /\ n \notin DOMAIN issued
      /\ n # 0 /\ n \in Nat /\ \A x \in DOMAIN issued : x \in Nat /\ x < n
  BY <1>0, <1>1, <1>2, AppendType DEF Extends
<1> HIDE DEF n
<1>6. ~Sent(n) /\ ~Done(n) /\ ~Waits(n)
  BY <1>0, <1>5 DEF NumberedInv, Sent, Done, Waits, ProcessedCalls
<1>7. CASE cObjs[h].id = 0 /\ cPending' = Append(cPending, p) /\ c2s' = c2s
  <2>1. Stream' = Stream
    BY <1>1, <1>7 DEF Stream
  <2>2. /\ Len(cPending) \in Nat /\ DOMAIN cPending = 1..Len(cPending)
        /\ DOMAIN cPending' = 1..Len(cPending) + 1
        /\ \A i \in DOMAIN cPending : cPending'[i] = cPending[i]
        /\ cPending'[Len(cPending) + 1] = p
    BY <1>0, <1>4, <1>7, AppendType
  <2>3. \A x : Waits(x)' <=> Waits(x) \/ x = n
    <3>1. Len(cPending) + 1 \in DOMAIN cPending' /\ DOMAIN cPending \subseteq DOMAIN cPending'
      BY <2>2
    <3>2. \A i \in DOMAIN cPending' : i \in DOMAIN cPending \/ i = Len(cPending) + 1
      BY <2>2
    <3> QED BY <3>1, <3>2, <2>2, <1>3, <1>4 DEF Waits
  <2>4. \A i \in DOMAIN cPending' :
            cPending'[i].msg.code = "GENERIC" /\ cPending'[i].msg.n \in DOMAIN issued'
    <3> SUFFICES ASSUME NEW i \in DOMAIN cPending'
                 PROVE  cPending'[i].msg.code = "GENERIC" /\ cPending'[i].msg.n \in DOMAIN issued'
      OBVIOUS
    <3>1. CASE i \in DOMAIN cPending
      BY <3>1, <2>2, <1>0, <1>5
    <3>2. CASE i = Len(cPending) + 1
      BY <3>2, <2>2, <1>3, <1>4, <1>5
    <3> QED BY <3>1, <3>2, <2>2
  <2>5. ASSUME NEW i \in DOMAIN cPending', NEW j \in DOMAIN cPending', i < j
        PROVE  cPending'[i].msg.n < cPending'[j].msg.n
    <3>1. i \in DOMAIN cPending /\ cPending'[i] = cPending[i]
      BY <2>2, <2>5
    <3>2. CASE j \in DOMAIN cPending
      BY <3>1, <3>2, <2>2, <2>5, <1>0 DEF OnceInv
    <3>3. CASE j = Len(cPending) + 1
      BY <3>1, <3>3, <2>2, <1>0, <1>3, <1>4, <1>5
    <3> QED BY <3>2, <3>3, <2>2
  <2>6. \A x : Sent(x)' <=> Sent(x)
    BY <2>1 DEF Sent
  <2> QED
    BY <2>1, <2>3, <2>4, <2>5, <2>6, <1>1, <1>3, <1>5, NumberFlight
<1>8. CASE cObjs[h].id # 0 /\ cPending' = cPending /\ c2s' = SentToServer(<<m>>)
  <2>1. \A x : Waits(x)' <=> Waits(x)
    BY <1>8 DEF Waits
  <2>2. /\ \A i \in DOMAIN cPending' :
               cPending'[i].msg.code = "GENERIC" /\ cPending'[i].msg.n \in DOMAIN issued'
        /\ \A i, j \in DOMAIN cPending' : i < j => cPending'[i].msg.n < cPending'[j].msg.n
    BY <1>0, <1>5, <1>8 DEF OnceInv
  <2>3. CASE sOpen
    <3>1. Stream' = Append(Stream, m)
      BY <2>3, <1>0, <1>1, <1>3, <1>8, StreamSends
    <3>2. ASSUME IdsFit, ~sError, NEW x \in Needs(m, issued', marks)
          PROVE  Done(x) \/ Sent(x)
      <4>1. cStack = <<>> /\ x \in DOMAIN issued /\ issued[x].to = h
        <5>1. ~call.nested /\ x \in DOMAIN issued' /\ x < n /\ issued'[x].to = h
          BY <3>2, <1>2, <1>3, <1>5 DEF Needs
        <5>2. x \in DOMAIN issued
          BY <5>1, <1>5
        <5> QED BY <5>1, <5>2, <1>2, <1>5 DEF Extends
      <4>2. Ready = {}
        BY <4>1, <1>0 DEF FlushInv, BatchOn
      <4>3. ~Waits(x)
        <5>1. \A i \in DOMAIN cPending : issued[cPending[i].msg.n].to = cPending[i].dep
          BY DEF CallInv, DeferredOK
        <5>2. \A i \in DOMAIN cPending : cPending[i].dep # h
          BY <4>2, <1>8 DEF Ready
        <5> QED BY <4>1, <5>1, <5>2 DEF Waits
      <4> QED BY <4>1, <4>3, <3>2, <2>3, <1>0 DEF KeptInv
    <3>3. \A x : Sent(x)' <=> Sent(x) \/ x = n
      BY <3>1, <1>3, StreamGrows
    <3> QED
      BY <3>1, <3>2, <3>3, <2>1, <2>2, <1>1, <1>3, <1>5, <1>6, NumberFlight
  <2>4. CASE ~sOpen
    <3>1. Stream' = Stream
      BY <2>4, <1>0, <1>1, <1>3, <1>8, StreamSends
    <3> QED BY <3>1, <2>1, <2>2, <2>4, <1>1, <1>3, <1>5, NumberFlight
  <2> QED BY <2>3, <2>4
<1> QED BY <1>1, <1>7, <1>8

(* The flush sends the first call that is ready: the earlier ones on the same *)
(* object would be ready as well.                                             *)
LEMMA FlushFlight ==
    ASSUME TypeOK, CallInv, FlightInv, UNCHANGED sVars,
           NEW i \in DOMAIN cPending, CFlushOne(i)
    PROVE  FlightInv'
<1> DEFINE p == cPending[i]
           m == ResolveSeq(p)
<1>0. /\ NumberedInv /\ OnceInv /\ KeptInv
      /\ issued \in Seq(Call) /\ Extends(issued, issued)
      /\ cObjs \in Seq(Handle) /\ cPending \in Seq(Deferred)
      /\ \A j \in DOMAIN cPending : cPending[j].msg.n \in DOMAIN issued /\ cPending[j].msg.n \in Nat
      /\ \A j \in DOMAIN cPending : cPending[j].msg.code = "GENERIC"
      /\ \A j, k \in DOMAIN cPending : j < k => cPending[j].msg.n < cPending[k].msg.n
  <2>1. issued \in Seq(Call) /\ cObjs \in Seq(Handle) /\ cPending \in Seq(Deferred)
    BY DEF TypeOK, ClientTypeOK
  <2>2. NumberedInv /\ OnceInv /\ KeptInv
    BY DEF FlightInv
  <2> QED BY <2>1, <2>2 DEF NumberedInv, OnceInv, Extends
<1>1. /\ UNCHANGED <<handled, issued, marks, cSentRt, sError, cOpen, sOpen, sObjs, sBatch>>
      /\ c2s' = SentToServer(<<m>>) /\ cPending' = RemoveAt(cPending, i)
      /\ i \in Ready /\ \A j \in Ready : i <= j
  BY DEF CFlushOne, IsFirst, cHistory, sVars, sState, sHistory
<1>2. m \in Message /\ m.n = p.msg.n /\ m.code = "GENERIC"
  <2>1. p \in Deferred /\ p.dep \in DOMAIN cObjs /\ p.msg.code = "GENERIC"
    BY <1>0 DEF TypeOK, ClientRefsOK
  <2>2. p.msg \in Message /\ cObjs[p.dep].id \in Nat
    <3>1. cObjs[p.dep] \in Handle
      BY <2>1, <1>0
    <3> QED BY <2>1, <3>1 DEF Deferred, Handle
  <2>3. cObjs[p.dep].id % ByteBase \in Nat
    <3>1. \A a \in Nat, b \in Nat \ {0} : a % b \in Nat
      OBVIOUS
    <3> QED BY <2>2, <3>1, ClientAssumption
  <2> HIDE DEF p
  <2> QED BY <2>1, <2>2, <2>3 DEF ResolveSeq, Message
<1> HIDE DEF m
<1>3. /\ Len(cPending) \in Nat /\ DOMAIN cPending = 1..Len(cPending)
      /\ DOMAIN cPending' = 1..Len(cPending) - 1
      /\ \A j \in DOMAIN cPending' : cPending'[j] = IF j < i THEN cPending[j] ELSE cPending[j + 1]
  <2>1. cPending \in Seq(Deferred) /\ cPending' = RemoveAt(cPending, i)
    BY <1>0, <1>1
  <2>2. /\ Len(cPending) \in Nat /\ DOMAIN cPending = 1..Len(cPending)
        /\ DOMAIN RemoveAt(cPending, i) = 1..Len(cPending) - 1
        /\ \A j \in 1..Len(cPending) - 1 :
               RemoveAt(cPending, i)[j] = IF j < i THEN cPending[j] ELSE cPending[j + 1]
    BY <2>1, RemoveShape
  <2> QED BY ONLY <2>1, <2>2
<1>4. \A x : Waits(x)' <=> Waits(x) /\ x # p.msg.n
  <2>1. ASSUME NEW x, Waits(x)' PROVE Waits(x) /\ x # p.msg.n
    <3>1. PICK j \in DOMAIN cPending' : cPending'[j].msg.n = x
      BY <2>1 DEF Waits
    <3>2. CASE j < i
      <4>1. j \in DOMAIN cPending /\ cPending[j].msg.n = x
        BY <3>1, <3>2, <1>3
      <4>2. x < p.msg.n /\ x \in Nat /\ p.msg.n \in Nat
        BY <4>1, <3>2, <1>0
      <4> QED BY <4>1, <4>2 DEF Waits
    <3>3. CASE ~(j < i)
      <4>1. j + 1 \in DOMAIN cPending /\ cPending[j + 1].msg.n = x /\ i < j + 1
        BY <3>1, <3>3, <1>3
      <4>2. p.msg.n < x /\ x \in Nat /\ p.msg.n \in Nat
        BY <4>1, <1>0
      <4> QED BY <4>1, <4>2 DEF Waits
    <3> QED BY <3>2, <3>3
  <2>2. ASSUME NEW x, Waits(x), x # p.msg.n PROVE Waits(x)'
    <3>1. PICK j \in DOMAIN cPending : cPending[j].msg.n = x
      BY <2>2 DEF Waits
    <3>2. j # i
      BY <3>1, <2>2
    <3>3. CASE j < i
      <4>1. j \in DOMAIN cPending' /\ cPending'[j] = cPending[j]
        BY <3>3, <1>3
      <4> QED BY <4>1, <3>1 DEF Waits
    <3>4. CASE j > i
      <4>1. j - 1 \in DOMAIN cPending' /\ ~(j - 1 < i) /\ j - 1 + 1 = j
        BY <3>4, <1>3
      <4>2. cPending'[j - 1] = cPending[j]
        BY <4>1, <1>3
      <4> QED BY <4>1, <4>2, <3>1 DEF Waits
    <3> QED BY <3>2, <3>3, <3>4, <1>3
  <2> QED BY <2>1, <2>2
<1>5. /\ \A j \in DOMAIN cPending' :
             cPending'[j].msg.code = "GENERIC" /\ cPending'[j].msg.n \in DOMAIN issued'
      /\ \A j, k \in DOMAIN cPending' : j < k => cPending'[j].msg.n < cPending'[k].msg.n
  <2> DEFINE at(j) == IF j < i THEN j ELSE j + 1
  <2>1. \A j \in DOMAIN cPending' : at(j) \in DOMAIN cPending /\ cPending'[j] = cPending[at(j)]
    BY <1>3
  <2>2. \A j, k \in DOMAIN cPending' : j < k => at(j) < at(k)
    BY <1>3
  <2> HIDE DEF at
  <2> QED BY <2>1, <2>2, <1>0, <1>1
<1>6. Waits(p.msg.n) /\ p.msg.n \in DOMAIN issued
  BY <1>0 DEF Waits
<1>7. ~Sent(p.msg.n) /\ ~Done(p.msg.n)
  BY <1>0, <1>6 DEF OnceInv
<1>8. CASE cOpen /\ sOpen
  <2>1. Stream' = Append(Stream, m)
    BY <1>1, <1>2, <1>8, StreamSends
  <2>2. ASSUME IdsFit, ~sError, NEW x \in Needs(m, issued', marks)
        PROVE  Done(x) \/ Sent(x)
    <3>1. x \in DOMAIN issued /\ x < p.msg.n /\ issued[x].to = issued[p.msg.n].to
      BY <2>2, <1>1, <1>2 DEF Needs
    <3>2. ~Waits(x)
      <4> SUFFICES ASSUME NEW j \in DOMAIN cPending, cPending[j].msg.n = x PROVE FALSE
        BY DEF Waits
      <4>1. cPending[j].dep = p.dep
        BY <3>1 DEF CallInv, DeferredOK
      <4>2. j \in Ready
        BY <4>1, <1>1 DEF Ready
      <4>3. i <= j /\ j # i
        BY <4>2, <3>1, <1>0, <1>1
      <4>4. p.msg.n < x
        BY <4>3, <1>0, <1>3
      <4> QED BY <4>4, <3>1, <1>0
    <3> QED BY <3>1, <3>2, <2>2, <1>0, <1>8 DEF KeptInv
  <2>3. \A x : Sent(x)' <=> Sent(x) \/ x = p.msg.n
    BY <2>1, <1>2, StreamGrows
  <2> QED
    BY <2>1, <2>2, <2>3, <1>0, <1>1, <1>2, <1>4, <1>5, <1>6, <1>7, NumberFlight
<1>9. CASE ~(cOpen /\ sOpen)
  <2>1. Stream' = Stream
    BY <1>1, <1>2, <1>9, StreamSends
  <2> QED BY <2>1, <1>0, <1>1, <1>2, <1>4, <1>5, <1>9, NumberFlight
<1> QED BY <1>8, <1>9

(* The server takes the first message.  If it is a call, it is processed, or  *)
(* the client has committed an error.                                         *)
LEMMA TakeFlight ==
    ASSUME TypeOK, FlightInv, sBatch # <<>>, sBatch' = Tail(sBatch), c2s' = c2s,
           UNCHANGED <<issued, cPending, marks, cSentRt>>,
           sError => sError', cOpen' => cOpen, sOpen' => sOpen, IdsFit' => IdsFit,
           NEW call \in [n : Nat, at : Nat], call.n = Head(sBatch).n,
           \/ handled' = handled /\ (call.n # 0 /\ IdsFit => sError')
           \/ handled' = Append(handled, call) /\ call.n # 0
    PROVE  FlightInv'
<1> DEFINE first == call.n
           H     == [n : Nat, at : Nat]
<1>0. /\ NumberedInv /\ OnceInv /\ KeptInv /\ QueueInv /\ MarksInv
      /\ 0 \notin DOMAIN issued /\ handled \in Seq(H) /\ call \in H
  BY DEF FlightInv, TypeOK, ClientTypeOK, ServerTypeOK
<1>s. /\ 1 \in DOMAIN Stream /\ Stream[1].n = first
      /\ DOMAIN Stream = 1..Len(Stream) /\ Len(Stream) \in Nat
      /\ DOMAIN Stream' = 1..Len(Stream) - 1
      /\ \A i \in DOMAIN Stream' : i + 1 \in DOMAIN Stream /\ Stream'[i] = Stream[i + 1]
  BY StreamHandles, StreamType
<1> HIDE DEF first, H
<1>1. \A i \in DOMAIN Stream : i # 1 => i - 1 \in DOMAIN Stream' /\ Stream'[i - 1] = Stream[i]
  <2>1. ASSUME NEW i \in DOMAIN Stream, i # 1
        PROVE  i - 1 \in DOMAIN Stream' /\ Stream'[i - 1] = Stream[i]
    <3>1. i - 1 \in DOMAIN Stream' /\ i - 1 + 1 = i
      BY <2>1, <1>s
    <3> QED BY <3>1, <1>s
  <2> QED BY <2>1
<1>2. \A n : Waits(n)' <=> Waits(n)
  BY DEF Waits
<1>3. \A n : n # 0 => (Sent(n)' <=> Sent(n) /\ n # first)
  <2>1. ASSUME NEW n, n # 0, Sent(n)' PROVE Sent(n) /\ n # first
    <3>1. PICK i \in DOMAIN Stream' : Stream'[i].n = n
      BY <2>1 DEF Sent
    <3>2. i + 1 \in DOMAIN Stream /\ Stream[i + 1].n = n /\ i + 1 # 1
      BY <3>1, <1>s
    <3>3. n # first
      BY <2>1, <3>2, <1>0, <1>s DEF OnceInv
    <3> QED BY <3>2, <3>3 DEF Sent
  <2>2. ASSUME NEW n, Sent(n), n # first PROVE Sent(n)'
    BY <2>2, <1>1, <1>s DEF Sent
  <2> QED BY <2>1, <2>2
<1>4. first # 0 => first \in DOMAIN issued /\ Sent(first) /\ ~Done(first) /\ ~Waits(first)
  <2>1. first # 0 => first \in DOMAIN issued /\ Sent(first)
    BY <1>0, <1>s DEF NumberedInv, Sent
  <2> QED BY <2>1, <1>0 DEF OnceInv
<1>h. /\ Len(handled) \in Nat /\ DOMAIN handled = 1..Len(handled)
      /\ \/ handled' = handled /\ (first # 0 /\ IdsFit => sError')
         \/ /\ first # 0
            /\ DOMAIN handled' = DOMAIN handled \cup {Len(handled) + 1}
            /\ \A i \in DOMAIN handled : handled'[i] = handled[i]
            /\ handled'[Len(handled) + 1].n = first
  <2>1. /\ Len(handled) \in Nat /\ DOMAIN handled = 1..Len(handled)
        /\ DOMAIN Append(handled, call) = DOMAIN handled \cup {Len(handled) + 1}
        /\ \A i \in DOMAIN handled : Append(handled, call)[i] = handled[i]
        /\ Append(handled, call)[Len(handled) + 1] = call
    BY <1>0, AppendType
  <2> QED BY <2>1 DEF first
<1>5. /\ \A n : Done(n)' => Done(n) \/ n = first
      /\ \A n : Done(n) => Done(n)'
      /\ first # 0 /\ IdsFit => sError' \/ Done(first)'
  BY <1>h DEF Done, ProcessedCalls
<1>6. NumberedInv'
  <2>1. \A i \in DOMAIN handled' : handled'[i].n \in DOMAIN issued
    BY <1>0, <1>4, <1>h DEF NumberedInv
  <2> QED BY <2>1, <1>0, <1>s DEF NumberedInv
<1>7. MarksInv'
  BY <1>0, <1>2 DEF MarksInv
<1>8. OnceInv'
  <2>1. ASSUME NEW i \in DOMAIN Stream', NEW j \in DOMAIN Stream',
               Stream'[i].n # 0, Stream'[i].n = Stream'[j].n
        PROVE  i = j
    <3>1. i + 1 = j + 1
      BY <2>1, <1>0, <1>s DEF OnceInv
    <3> QED BY <3>1, <1>s
  <2>2. ASSUME NEW i \in DOMAIN handled', NEW j \in DOMAIN handled', handled'[i].n = handled'[j].n
        PROVE  i = j
    <3>1. \A k \in DOMAIN handled : first # 0 => handled[k].n # first
      BY <1>4 DEF Done, ProcessedCalls
    <3>2. CASE handled' = handled
      BY <2>2, <3>2, <1>0 DEF OnceInv
    <3>3. CASE /\ first # 0
               /\ DOMAIN handled' = DOMAIN handled \cup {Len(handled) + 1}
               /\ \A k \in DOMAIN handled : handled'[k] = handled[k]
               /\ handled'[Len(handled) + 1].n = first
      <4>1. \A k \in DOMAIN handled' : k \notin DOMAIN handled => k = Len(handled) + 1
        BY <3>3
      <4>2. i \in DOMAIN handled <=> j \in DOMAIN handled
        BY <2>2, <3>1, <3>3, <4>1
      <4> QED BY <2>2, <3>3, <4>1, <4>2, <1>0 DEF OnceInv
    <3> QED BY <3>2, <3>3, <1>h
  <2>3. ASSUME NEW n \in DOMAIN issued
        PROVE  ~(Sent(n)' /\ Waits(n)') /\ ~(Sent(n)' /\ Done(n)') /\ ~(Waits(n)' /\ Done(n)')
    <3>1. n # 0 /\ ~(Sent(n) /\ Waits(n)) /\ ~(Sent(n) /\ Done(n)) /\ ~(Waits(n) /\ Done(n))
      BY <1>0 DEF OnceInv
    <3> QED BY <3>1, <1>2, <1>3, <1>4, <1>5
  <2> QED BY <2>1, <2>2, <2>3, <1>0 DEF OnceInv
<1>9. KeptInv'
  <2>1. \A n \in DOMAIN issued : n # 0
    BY <1>0
  <2> QED BY <2>1, <1>0, <1>2, <1>3, <1>5 DEF KeptInv
<1>10. QueueInv'
  <2> SUFFICES ASSUME IdsFit, ~sError, ~sError', NEW i \in DOMAIN Stream',
                      NEW n \in Needs(Stream'[i], issued, marks)
               PROVE  Behind(n, i)'
    BY <1>0 DEF QueueInv
  <2>1. Behind(n, i + 1) /\ n # 0
    <3>1. i + 1 \in DOMAIN Stream /\ Stream'[i] = Stream[i + 1]
      BY <1>s
    <3>2. n \in Needs(Stream[i + 1], issued, marks)
      BY <3>1
    <3>3. Behind(n, i + 1)
      BY <3>1, <3>2, <1>0 DEF QueueInv
    <3>4. n \in DOMAIN issued
      BY <3>2 DEF Needs
    <3> QED BY <3>3, <3>4, <1>0
  <2>2. CASE Done(n)
    BY <2>2, <1>5 DEF Behind
  <2>3. ASSUME NEW q \in DOMAIN Stream, q < i + 1, Stream[q].n = n
        PROVE  Behind(n, i)'
    <3>1. CASE q = 1
      BY <3>1, <2>1, <2>3, <1>5, <1>s DEF Behind
    <3>2. CASE q # 1
      <4>1. q - 1 < i
        BY <2>3, <1>s
      <4> QED BY <4>1, <3>2, <2>3, <1>1 DEF Behind
    <3> QED BY <3>1, <3>2
  <2> QED BY <2>1, <2>2, <2>3 DEF Behind
<1> QED BY <1>6, <1>7, <1>8, <1>9, <1>10 DEF FlightInv

(* What is on its way is dropped, from the front, by an error or the end of   *)
(* the connection.                                                            *)
LEMMA DropFlight ==
    ASSUME TypeOK, FlightInv, NEW k \in Nat, DOMAIN Stream' \subseteq Nat,
           \A i \in DOMAIN Stream' : k + i \in DOMAIN Stream /\ Stream'[i] = Stream[k + i],
           sError' \/ (~sOpen' /\ Stream' = <<>>),
           UNCHANGED <<issued, cPending, marks, cSentRt, handled>>
    PROVE  FlightInv'
<1>0. /\ NumberedInv /\ OnceInv /\ MarksInv /\ DOMAIN Stream = 1..Len(Stream) /\ Len(Stream) \in Nat
  BY StreamType DEF FlightInv
<1>1. \A n : (Sent(n)' => Sent(n)) /\ (Waits(n)' <=> Waits(n)) /\ (Done(n)' <=> Done(n))
  BY DEF Sent, Waits, Done, ProcessedCalls
<1>2. NumberedInv' /\ MarksInv'
  BY <1>0, <1>1 DEF NumberedInv, MarksInv
<1>3. OnceInv'
  <2>1. ASSUME NEW i \in DOMAIN Stream', NEW j \in DOMAIN Stream',
               Stream'[i].n # 0, Stream'[i].n = Stream'[j].n
        PROVE  i = j
    <3>1. k + i = k + j
      BY <2>1, <1>0 DEF OnceInv
    <3>2. i \in Int /\ j \in Int
      BY <1>0
    <3> QED BY <3>1, <3>2
  <2> QED BY <2>1, <1>0, <1>1 DEF OnceInv
<1>4. KeptInv' /\ QueueInv'
  BY DEF KeptInv, QueueInv
<1> QED BY <1>2, <1>3, <1>4 DEF FlightInv

(* A message that is torn is still counted, and asks for nothing any more.    *)
LEMMA TearFlight == TypeOK /\ FlightInv /\ Tear => FlightInv'
<1> SUFFICES ASSUME TypeOK, FlightInv, Tear PROVE FlightInv'
  OBVIOUS
<1>0. /\ NumberedInv /\ OnceInv /\ KeptInv /\ QueueInv /\ MarksInv
      /\ UNCHANGED <<issued, cPending, marks, cSentRt, handled, sError, cOpen, sOpen, sObjs>>
  BY DEF FlightInv, Tear, cVars, cState, cHistory, sVars, sState, sHistory
<1>1. /\ DOMAIN Stream' = DOMAIN Stream
      /\ \A i \in DOMAIN Stream : Stream'[i].n = Stream[i].n
      /\ \A i \in DOMAIN Stream : Stream'[i] = Stream[i] \/ Stream'[i].code = "MALFORMED"
  BY StreamTears
<1>2. /\ \A n : (Sent(n)' <=> Sent(n)) /\ (Waits(n)' <=> Waits(n)) /\ (Done(n)' <=> Done(n))
      /\ \A n, i : Behind(n, i)' <=> Behind(n, i)
  BY <1>0, <1>1 DEF Sent, Waits, Done, ProcessedCalls, Behind
<1>3. NumberedInv'
  <2>1. ASSUME NEW i \in DOMAIN Stream'
        PROVE  LET k == Stream'[i] IN
               /\ k.n # 0 => k.n \in DOMAIN issued'
               /\ k.code = "GENERIC" => k.n # 0
               /\ k.n # 0 => k.code \in {"GENERIC", "MALFORMED"}
               /\ k.code = "ROUNDTRIP_REQUEST" => k.seq \in DOMAIN marks'
    BY <1>0, <1>1 DEF NumberedInv
  <2> QED BY <2>1, <1>0 DEF NumberedInv
<1>4. OnceInv'
  <2>1. ASSUME NEW i \in DOMAIN Stream', NEW j \in DOMAIN Stream',
               Stream'[i].n # 0, Stream'[i].n = Stream'[j].n
        PROVE  i = j
    BY <2>1, <1>0, <1>1 DEF OnceInv
  <2> QED BY <2>1, <1>0, <1>2 DEF OnceInv
<1>5. KeptInv' /\ MarksInv'
  BY <1>0, <1>2 DEF KeptInv, MarksInv, IdsFit
<1>6. QueueInv'
  <2>1. ASSUME NEW i \in DOMAIN Stream'
        PROVE  Needs(Stream'[i], issued', marks') \subseteq Needs(Stream[i], issued, marks)
    <3>1. CASE Stream'[i] = Stream[i]
      BY <3>1, <1>0
    <3>2. CASE Stream'[i].code = "MALFORMED"
      BY <3>2 DEF Needs
    <3> QED BY <3>1, <3>2, <1>1
  <2> QED BY <2>1, <1>0, <1>1, <1>2 DEF QueueInv, IdsFit
<1> QED BY <1>3, <1>4, <1>5, <1>6 DEF FlightInv

-----------------------------------------------------------------------------
(* The invariant, step by step.                                               *)

LEMMA InitDelivery == Init => DeliveryInv
<1> SUFFICES ASSUME Init PROVE DeliveryInv
  OBVIOUS
<1>1. Stream = <<Plain("SUP")>>
  BY DEF Init, WireInit, ServerInit, Stream
<1>2. DOMAIN Stream = {1} /\ Stream[1] = Plain("SUP")
  BY <1>1
<1>3. Stream[1].n = 0 /\ Stream[1].code = "SUP"
  BY <1>2 DEF Plain
<1>4. issued = <<>> /\ handled = <<>> /\ cPending = <<>> /\ marks = <<>> /\ cSentRt = 0
      /\ sBatch = <<>> /\ Ready = {}
  BY DEF Init, ClientInit, ServerInit, Ready
<1>5. NumberedInv /\ OnceInv
  BY <1>2, <1>3, <1>4 DEF NumberedInv, OnceInv
<1>6. KeptInv /\ MarksInv
  BY <1>4 DEF KeptInv, MarksInv
<1>7. QueueInv
  BY <1>2, <1>3, <1>4 DEF QueueInv, Needs
<1> QED BY <1>4, <1>5, <1>6, <1>7 DEF DeliveryInv, FlightInv, IdleInv, FlushInv

(* Steps of the client that leave the channel to the server alone.            *)
LEMMA ClientQuiet ==
    ASSUME FlightInv, UNCHANGED sVars, UNCHANGED <<c2s, issued, cPending, marks, cSentRt, sOpen>>,
           cOpen' = cOpen \/ cOpen' = FALSE
    PROVE  FlightInv'
<1>1. UNCHANGED <<sBatch, handled, sError, sObjs>>
  BY DEF sVars, sState, sHistory
<1>2. Stream' = Stream /\ (IdsFit' => IdsFit)
  BY <1>1 DEF Stream, IdsFit
<1>3. cOpen' => cOpen
  OBVIOUS
<1> QED BY <1>1, <1>2, <1>3, QuietFlight

LEMMA AppStepFlight ==
    TypeOK /\ CallInv /\ FlightInv /\ FlushInv /\ ClientApp => FlightInv'
<1> SUFFICES ASSUME TypeOK, CallInv, FlightInv, FlushInv, ClientApp PROVE FlightInv'
  OBVIOUS
<1>0. UNCHANGED sVars
  BY DEF ClientApp
<1>1. ASSUME CWaitForHandshake \/ CDispatch \/ \E ver \in BindVersions : CBindTooNew(ver)
      PROVE  FlightInv'
  <2>1. UNCHANGED <<c2s, issued, cPending, marks, cSentRt, sOpen>> /\ (cOpen' = cOpen \/ cOpen' = FALSE)
    BY <1>1 DEF CWaitForHandshake, CDispatch, CBindTooNew, DisconnectOnError, CloseClientEnd,
       wireVars, cHistory
  <2> QED BY <2>1, <1>0, ClientQuiet
<1>2. ASSUME NEW ver \in BindVersions, CBind(ver)
      PROVE  FlightInv'
  <2> DEFINE m == Bind(Len(cObjs) + 1, ver)
  <2>1. c2s' = SentToServer(<<m>>)
        /\ UNCHANGED <<sBatch, issued, cPending, handled, marks, cSentRt, sError, cOpen, sOpen, sObjs>>
    BY <1>0, <1>2 DEF CBind, NextSeq, cHistory, sVars, sState, sHistory
  <2>2. m \in Message /\ m.n = 0 /\ m.code = "BIND_PROTOCOL"
    <3>1. Len(cObjs) + 1 \in Nat /\ ver \in Nat
      BY ClientAssumption DEF TypeOK, ClientTypeOK
    <3> QED BY <3>1, MessageTypes DEF Bind, Plain
  <2> HIDE DEF m
  <2> QED BY <2>1, <2>2, SendsFlight
<1>3. CASE CRoundtrip
  BY <1>0, <1>3, RoundtripFlight
<1>4. ASSUME NEW h \in DOMAIN cObjs, NEW method \in {"call", "make"}, CCall(h, method)
      PROVE  FlightInv'
  BY <1>0, <1>4, CallFlight
<1> QED BY <1>1, <1>2, <1>3, <1>4 DEF ClientApp, AppStep

LEMMA LibraryStepFlight == TypeOK /\ CallInv /\ FlightInv /\ ClientLibrary => FlightInv'
<1> SUFFICES ASSUME TypeOK, CallInv, FlightInv, ClientLibrary PROVE FlightInv'
  OBVIOUS
<1>0. UNCHANGED sVars
  BY DEF ClientLibrary
<1>1. CASE CHandleHandshakeBegin
  <2> DEFINE m == Plain("HANDSHAKE_ACK")
  <2>1. c2s' = SentToServer(<<m>>)
        /\ UNCHANGED <<sBatch, issued, cPending, handled, marks, cSentRt, sError, cOpen, sOpen, sObjs>>
    BY <1>0, <1>1 DEF CHandleHandshakeBegin, cHistory, sVars, sState, sHistory
  <2>2. m \in Message /\ m.n = 0 /\ m.code = "HANDSHAKE_ACK"
    BY MessageTypes DEF Plain, Codes
  <2> HIDE DEF m
  <2> QED BY <2>1, <2>2, SendsFlight
<1>2. ASSUME NEW i \in DOMAIN cPending, CFlushOne(i)
      PROVE  FlightInv'
  BY <1>0, <1>2, FlushFlight
<1>3. ASSUME CLoopReturns \/ CDispatchFails \/ CNothingToRead \/ CRead
             \/ CBatchDone \/ CListenerReturn
      PROVE  FlightInv'
  <2>1. UNCHANGED <<c2s, issued, cPending, marks, cSentRt, sOpen>> /\ (cOpen' = cOpen \/ cOpen' = FALSE)
    BY <1>3 DEF CLoopReturns, CDispatchFails, CNothingToRead, CRead, CBatchDone,
       CListenerReturn, wireVars, cHistory
  <2> QED BY <2>1, <1>0, ClientQuiet
<1>4. ASSUME CHandleProtocols \/ CHandleNewObject \/ (\E h \in DOMAIN cObjs : CHandleEvent(h))
             \/ CDropEvent \/ CHandleFatal \/ CHandleRoundtripDone \/ CHandleMalformed
      PROVE  FlightInv'
  <2>1. UNCHANGED <<c2s, issued, cPending, marks, cSentRt, sOpen>> /\ (cOpen' = cOpen \/ cOpen' = FALSE)
    BY <1>4 DEF CHandleProtocols, CHandleNewObject, CHandleEvent, CDropEvent, CHandleFatal,
       CHandleRoundtripDone, CHandleMalformed, DisconnectOnError, CloseClientEnd,
       wireVars, cHistory
  <2> QED BY <2>1, <1>0, ClientQuiet
<1> QED BY <1>1, <1>2, <1>3, <1>4 DEF ClientLibrary, LibraryStep, HandleStep

LEMMA ClientEndFlight == FlightInv /\ (ClientLeaves \/ ClientTime) => FlightInv'
<1> SUFFICES ASSUME FlightInv, ClientLeaves \/ ClientTime PROVE FlightInv'
  OBVIOUS
<1>1. UNCHANGED sVars /\ UNCHANGED <<c2s, issued, cPending, marks, cSentRt, sOpen>>
      /\ (cOpen' = cOpen \/ cOpen' = FALSE)
  BY DEF ClientLeaves, ClientTime, CDestroy, CHandshakeTimeout, CClockRunsOut,
     DisconnectOnError, CloseClientEnd, wireVars, cHistory
<1> QED BY <1>1, ClientQuiet

(* There were never fewer objects than before.                                *)
LEMMA IdsFitEarlier ==
    ASSUME TypeOK, sObjs' \in Seq(Object), Extends(sObjs', sObjs)
    PROVE  IdsFit' => IdsFit
<1>1. sObjs \in Seq(Object) /\ ByteBase \in Nat
  BY ClientAssumption DEF TypeOK, ServerTypeOK
<1>2. Len(sObjs) \in Nat /\ DOMAIN sObjs = 1..Len(sObjs)
      /\ Len(sObjs') \in Nat /\ DOMAIN sObjs' = 1..Len(sObjs')
  BY <1>1
<1>3. 1..Len(sObjs) \subseteq 1..Len(sObjs')
  BY <1>2 DEF Extends
<1>4. Len(sObjs) <= Len(sObjs')
  BY <1>2, <1>3
<1> QED BY <1>1, <1>2, <1>4 DEF IdsFit

(* Steps of the server that take no message: it reads, makes objects, sends.  *)
LEMMA ServerQuiet ==
    ASSUME TypeOK, FlightInv, Stream' = Stream, UNCHANGED cVars, UNCHANGED <<handled, cOpen>>,
           sError => sError', sOpen' => sOpen, sObjs' \in Seq(Object), Extends(sObjs', sObjs)
    PROVE  FlightInv'
<1>1. IdsFit' => IdsFit
  BY IdsFitEarlier
<1>2. UNCHANGED <<issued, cPending, marks, cSentRt>>
  BY DEF cVars, cState, cHistory
<1> QED BY <1>1, <1>2, QuietFlight

LEMMA DispatchFlight == TypeOK /\ CallInv /\ IdleInv /\ FlightInv /\ ServerDispatch => FlightInv'
<1> SUFFICES ASSUME TypeOK, CallInv, IdleInv, FlightInv, ServerDispatch PROVE FlightInv'
  OBVIOUS
<1>0. UNCHANGED cVars
  BY DEF ServerDispatch
<1>u. UNCHANGED <<issued, cPending, marks, cSentRt>>
  BY <1>0 DEF cVars, cState, cHistory
<1>t. /\ sBatch \in Seq(Message) /\ sObjs \in Seq(Object) /\ Extends(sObjs, sObjs)
      /\ sError \in BOOLEAN
  BY DEF TypeOK, ServerTypeOK, ServerFlagsOK, Extends
<1>h. sBatch # <<>> => Head(sBatch) \in Message /\ Head(sBatch) = Stream[1] /\ 1 \in DOMAIN Stream
  <2>1. ASSUME sBatch # <<>>
        PROVE  Head(sBatch) \in Message /\ Head(sBatch) = Stream[1] /\ 1 \in DOMAIN Stream
    <3>1. c2s \in Seq(Message) /\ 1 \in DOMAIN sBatch /\ Head(sBatch) = sBatch[1]
          /\ Head(sBatch) \in Message
      BY <2>1, <1>t, HeadTailElements DEF TypeOK, WireTypeOK
    <3>2. Stream[1] = sBatch[1] /\ DOMAIN Stream = 1..Len(sBatch) + Len(c2s)
          /\ Len(sBatch) \in Nat /\ Len(c2s) \in Nat /\ DOMAIN sBatch = 1..Len(sBatch)
      BY <3>1, <1>t, ConcatShape DEF Stream
    <3> QED BY <3>1, <3>2
  <2> QED BY <2>1
<1>1. CASE SRead
  <2>1. sBatch = <<>>
    BY <1>1 DEF SRead, IdleInv
  <2>2. PICK batch \in Batches(c2s) : sBatch' = batch /\ c2s' = Rest(c2s, batch)
    BY <1>1 DEF SRead
  <2>3. Stream' = Stream
    BY <2>1, <2>2, StreamReads
  <2>4. UNCHANGED <<handled, cOpen, sError, sOpen, sObjs>>
    BY <1>1 DEF SRead, sHistory
  <2> QED BY <2>3, <2>4, <1>0, <1>t, ServerQuiet
<1>2. ASSUME SHandleHello \/ SHandleAck \/ SHandleBind \/ SHandleRoundtrip
      PROVE  FlightInv'
  <2> DEFINE call == [n |-> 0, at |-> 0]
  <2>1. /\ sBatch # <<>> /\ sBatch' = Tail(sBatch)
        /\ Head(sBatch).code \in {"SUP", "HANDSHAKE_ACK", "BIND_PROTOCOL", "ROUNDTRIP_REQUEST"}
        /\ UNCHANGED <<c2s, handled, cOpen, sOpen>>
    BY <1>2 DEF SHandleHello, SHandleAck, SHandleBind, SHandleRoundtrip, SHandling,
       wireVars, sHistory
  <2>2. ~sError
    BY <1>2 DEF SHandleHello, SHandleAck, SHandleBind, SHandleRoundtrip, SHandling
  <2>3. IdsFit' => IdsFit
    <3>1. CASE SHandleBind
      <4>1. Head(sBatch).seq \in Nat /\ Head(sBatch).ver \in Nat /\ TRUE \in BOOLEAN
        BY <2>1, <1>h DEF Message
      <4>2. CreateObject(Head(sBatch).seq, Head(sBatch).ver, TRUE)
        BY <3>1 DEF SHandleBind
      <4>3. sObjs' \in Seq(Object) /\ Extends(sObjs', sObjs)
        BY <4>1, <4>2, CreateObjectGrows
      <4> QED BY <4>3, IdsFitEarlier
    <3>2. CASE SHandleHello \/ SHandleAck \/ SHandleRoundtrip
      BY <3>2 DEF SHandleHello, SHandleAck, SHandleRoundtrip, IdsFit
    <3> QED BY <1>2, <3>1, <3>2
  <2>4. Head(sBatch).n = 0
    BY <2>1, <1>h DEF FlightInv, NumberedInv
  <2>5. call \in [n : Nat, at : Nat] /\ call.n = 0
    OBVIOUS
  <2> HIDE DEF call
  <2> QED BY <2>1, <2>2, <2>3, <2>4, <2>5, <1>u, TakeFlight
<1>3. CASE SHandleCall
  <2> DEFINE m    == Head(sBatch)
             call == [n |-> m.n, at |-> m.id]
  <2>1. /\ sBatch # <<>> /\ sBatch' = Tail(sBatch) /\ m.code = "GENERIC" /\ ~sError
        /\ UNCHANGED <<c2s, cOpen, sOpen, sObjs>>
    BY <1>3 DEF SHandleCall, SHandling
  <2>2. m.n # 0 /\ m.n \in Nat /\ m.id \in Nat
    BY <2>1, <1>h DEF FlightInv, NumberedInv, Message
  <2>3. call \in [n : Nat, at : Nat] /\ call.n = m.n
    BY <2>2
  <2>4. CASE m.id \in DOMAIN sObjs /\ ~TooNew(m)
    <3>1. handled' = Append(handled, call)
      BY <1>3, <2>4 DEF SHandleCall
    <3> HIDE DEF call
    <3> QED BY <3>1, <2>1, <2>2, <2>3, <1>u, TakeFlight DEF IdsFit
  <2>5. CASE ~(m.id \in DOMAIN sObjs /\ ~TooNew(m))
    <3>1. handled' = handled
      BY <1>3, <2>5 DEF SHandleCall
    <3>2. IdsFit => m.id \in DOMAIN sObjs
      <4>1. 1 \in DOMAIN sBatch /\ m = sBatch[1]
        BY <2>1, <1>t, HeadTailElements
      <4> QED BY <4>1, <2>1 DEF CallInv, AllAddressed, Addressed, AgreeIn
    <3>3. TooNew(m) => sError'
      BY <1>3 DEF SHandleCall, Fail
    <3>4. IdsFit => sError'
      BY <2>5, <3>2, <3>3
    <3> HIDE DEF call
    <3> QED BY <3>1, <3>4, <2>1, <2>2, <2>3, <1>u, TakeFlight DEF IdsFit
  <2> QED BY <2>4, <2>5
<1>4. ASSUME SHandleMalformed \/ (SBatchDone /\ sError)
      PROVE  FlightInv'
  <2>1. sBatch' = <<>> /\ c2s' = c2s /\ handled' = handled
    BY <1>4 DEF SHandleMalformed, SBatchDone, sHistory
  <2> DEFINE k == Len(sBatch)
  <2>2. k \in Nat /\ DOMAIN Stream' \subseteq Nat
        /\ \A i \in DOMAIN Stream' : k + i \in DOMAIN Stream /\ Stream'[i] = Stream[k + i]
    BY <2>1, StreamDrops
  <2> HIDE DEF k
  <2>3. sError'
    BY <1>4 DEF SHandleMalformed, SBatchDone, Fail
  <2>4. sError' \/ (~sOpen' /\ Stream' = <<>>)
    BY <2>3
  <2> QED BY <2>1, <2>2, <2>4, <1>u, DropFlight
<1>5. CASE SBatchDone /\ ~sError
  <2>1. sBatch = <<>> /\ sBatch' = <<>>
        /\ UNCHANGED <<c2s, handled, cOpen, sOpen, sError, sObjs>>
    BY <1>5 DEF SBatchDone, sHistory
  <2>2. Stream' = Stream
    BY <2>1 DEF Stream
  <2> QED BY <2>1, <2>2, <1>0, <1>t, ServerQuiet
<1>6. CASE SHangup
  <2>1. /\ sBatch = <<>> /\ sBatch' = <<>> /\ c2s' = <<>> /\ ~sOpen'
        /\ handled' = handled
    BY <1>6 DEF SHangup, IdleInv, CloseServerEnd, sVars, sState, sHistory
  <2>2. Stream' = <<>>
    BY <2>1 DEF Stream
  <2>3. DOMAIN Stream' = {} /\ DOMAIN Stream' \subseteq Nat /\ 0 \in Nat
    BY <2>2
  <2> QED BY <2>1, <2>2, <2>3, <1>u, DropFlight
<1> QED
  BY <1>1, <1>2, <1>3, <1>4, <1>5, <1>6 DEF ServerDispatch, DispatchStep

LEMMA ServerAppFlight ==
    TypeOK /\ IdleInv /\ FlightInv /\ (ServerApp \/ ServerRemoves) => FlightInv'
<1> SUFFICES ASSUME TypeOK, IdleInv, FlightInv, ServerApp \/ ServerRemoves PROVE FlightInv'
  OBVIOUS
<1>0. UNCHANGED cVars
  BY DEF ServerApp, ServerRemoves
<1>u. UNCHANGED <<issued, cPending, marks, cSentRt>>
  BY <1>0 DEF cVars, cState, cHistory
<1>t. sObjs \in Seq(Object) /\ Extends(sObjs, sObjs) /\ sError \in BOOLEAN
  BY DEF TypeOK, ServerTypeOK, ServerFlagsOK, Extends
<1>1. ASSUME NEW make \in sMakes, NEW known \in BOOLEAN, SCreate(make, known)
      PROVE  FlightInv'
  <2>1. make.seq \in Nat /\ sObjs[make.obj].ver \in Nat
    <3>1. make \in Make /\ make.obj \in DOMAIN sObjs
      BY DEF TypeOK, ServerTypeOK, ServerRefsOK
    <3>2. sObjs[make.obj] \in Object
      BY <3>1, <1>t
    <3> QED BY <3>1, <3>2 DEF Make, Object
  <2>2. CreateObject(make.seq, sObjs[make.obj].ver, known)
    BY <1>1 DEF SCreate
  <2>3. sObjs' \in Seq(Object) /\ Extends(sObjs', sObjs)
    BY <2>1, <2>2, CreateObjectGrows
  <2>4. UNCHANGED <<c2s, sBatch, handled, cOpen, sOpen>>
    BY <1>1 DEF SCreate, sHistory
  <2>5. sError => sError'
    BY <2>2 DEF CreateObject
  <2>6. Stream' = Stream
    BY <2>4 DEF Stream
  <2> QED BY <2>3, <2>4, <2>5, <2>6, <1>0, ServerQuiet
<1>2. ASSUME \E id \in DOMAIN sObjs : SEmit(id) \/ SRaise(id)
      PROVE  FlightInv'
  <2>1. UNCHANGED <<c2s, sBatch, sObjs, handled, cOpen, sOpen>>
    BY <1>2 DEF SEmit, SRaise, sState
  <2>2. sError' = sError \/ sError' = TRUE
    BY <1>2 DEF SEmit, SRaise, sState, Fail
  <2>3. (sError => sError') /\ Stream' = Stream
    BY <2>1, <2>2 DEF Stream
  <2> QED BY <2>1, <2>3, <1>0, <1>t, ServerQuiet
<1>3. CASE SRemove
  <2>1. /\ sBatch = <<>> /\ sBatch' = <<>> /\ c2s' = <<>> /\ ~sOpen'
        /\ handled' = handled
    BY <1>3 DEF SRemove, IdleInv, CloseServerEnd, sVars, sState, sHistory
  <2>2. Stream' = <<>>
    BY <2>1 DEF Stream
  <2>3. DOMAIN Stream' = {} /\ DOMAIN Stream' \subseteq Nat /\ 0 \in Nat
    BY <2>2
  <2> QED BY <2>1, <2>2, <2>3, <1>u, DropFlight
<1> QED
  BY <1>1, <1>2, <1>3 DEF ServerApp, ServerRemoves, SAppStep

LEMMA StutterDelivery == DeliveryInv /\ UNCHANGED vars => DeliveryInv'
<1> SUFFICES ASSUME DeliveryInv, UNCHANGED vars PROVE DeliveryInv'
  OBVIOUS
<1> USE DEF vars, wireVars, cVars, cState, cHistory, sVars, sState, sHistory
<1>1. Stream' = Stream /\ (IdsFit' => IdsFit)
  BY DEF Stream, IdsFit
<1>2. FlightInv'
  BY <1>1, QuietFlight DEF DeliveryInv
<1>3. IdleInv' /\ FlushInv'
  BY DEF DeliveryInv, IdleInv, FlushInv, Ready, BatchOn
<1> QED BY <1>2, <1>3 DEF DeliveryInv

LEMMA IdleStep == TypeOK /\ IdleInv /\ [Next]_vars => IdleInv'
<1> SUFFICES ASSUME TypeOK, IdleInv, [Next]_vars PROVE IdleInv'
  OBVIOUS
<1>1. ASSUME UNCHANGED <<sBusy, sBatch>> PROVE IdleInv'
  BY <1>1 DEF IdleInv
<1>2. CASE ClientApp \/ ClientLeaves \/ ClientLibrary \/ ClientTime \/ ServerRemoves \/ Tear
           \/ UNCHANGED vars
  <2>1. UNCHANGED <<sBusy, sBatch>>
    BY <1>2 DEF ClientApp, ClientLeaves, ClientLibrary, ClientTime, ServerRemoves, SRemove, Tear,
       vars, sVars, sState
  <2> QED BY <2>1, <1>1
<1>3. CASE ServerDispatch
  <2>1. CASE SHandleHello \/ SHandleAck \/ SHandleBind \/ SHandleCall \/ SHandleRoundtrip
    <3>1. sBusy /\ sBusy' = sBusy
      BY <2>1 DEF SHandleHello, SHandleAck, SHandleBind, SHandleCall, SHandleRoundtrip, SHandling
    <3> QED BY <3>1 DEF IdleInv
  <2>2. CASE SRead \/ SHandleMalformed \/ SBatchDone
    BY <2>2 DEF SRead, SHandleMalformed, SBatchDone, IdleInv
  <2>3. CASE SHangup
    <3>1. UNCHANGED <<sBusy, sBatch>>
      BY <2>3 DEF SHangup, sVars, sState
    <3> QED BY <3>1, <1>1
  <2> QED BY <1>3, <2>1, <2>2, <2>3 DEF ServerDispatch, DispatchStep
<1>4. CASE ServerApp
  <2>1. UNCHANGED <<sBusy, sBatch>>
    BY <1>4 DEF ServerApp, SAppStep, SCreate, SEmit, SRaise, sState
  <2> QED BY <2>1, <1>1
<1> QED BY <1>2, <1>3, <1>4 DEF Next, Idle

(* Frames that hold no batch come and go above and below one that does.       *)
LEMMA BatchStays ==
    ASSUME NEW stack \in Seq(Frame), stack # <<>>
    PROVE  /\ \A f \in Frame : /\ BatchOn(stack) => BatchOn(Append(stack, f))
                               /\ f.kind = "batch" => BatchOn(Append(stack, f))
           /\ stack[Len(stack)].kind # "batch" /\ BatchOn(stack)
                 => BatchOn(Pop(stack)) /\ \A ok : BatchOn(ReturnDispatch(stack, ok))
<1>1. /\ Len(stack) \in Nat \ {0} /\ DOMAIN stack = 1..Len(stack)
      /\ DOMAIN Pop(stack) = 1..Len(stack) - 1
      /\ \A d \in DOMAIN Pop(stack) : Pop(stack)[d] = stack[d]
  BY DEF Pop
<1>2. ASSUME NEW f \in Frame
      PROVE  /\ BatchOn(stack) => BatchOn(Append(stack, f))
             /\ f.kind = "batch" => BatchOn(Append(stack, f))
  <2>1. /\ \A d \in DOMAIN stack : d \in DOMAIN Append(stack, f) /\ Append(stack, f)[d] = stack[d]
        /\ Len(stack) + 1 \in DOMAIN Append(stack, f) /\ Append(stack, f)[Len(stack) + 1] = f
    BY AppendType
  <2> QED BY <2>1 DEF BatchOn
<1>3. ASSUME stack[Len(stack)].kind # "batch", BatchOn(stack) PROVE BatchOn(Pop(stack))
  <2>1. PICK d \in DOMAIN stack : stack[d].kind = "batch"
    BY <1>3 DEF BatchOn
  <2>2. d \in DOMAIN Pop(stack)
    BY <1>1, <1>3, <2>1
  <2> QED BY <1>1, <2>1, <2>2 DEF BatchOn
<1>4. ASSUME stack[Len(stack)].kind # "batch", BatchOn(stack), NEW ok
      PROVE  BatchOn(ReturnDispatch(stack, ok))
  BY <1>3, <1>4 DEF ReturnDispatch
<1> QED BY <1>2, <1>3, <1>4

(* Handling a message leaves the batch on the stack.                          *)
LEMMA BatchAdvances ==
    ASSUME TypeOK, InBatch
    PROVE  BatchOn(cStack) /\ BatchOn(Advanced) /\ \A f \in Frame : BatchOn(Append(Advanced, f))
<1>1. /\ cStack \in Seq(Frame) /\ Len(cStack) \in DOMAIN cStack
      /\ cStack[Len(cStack)].kind = "batch" /\ cStack[Len(cStack)] \in Frame
  BY DEF TypeOK, ClientTypeOK, InBatch, Top
<1>2. /\ DOMAIN Advanced = DOMAIN cStack
      /\ Advanced[Len(cStack)].kind = "batch"
  BY <1>1 DEF Advanced, Frame
<1>3. ASSUME NEW f \in Frame PROVE BatchOn(Append(Advanced, f))
  <2>1. Len(Advanced) = Len(cStack) /\ Len(cStack) \in Nat \ {0}
    BY <1>1 DEF Advanced
  <2>2. /\ Len(cStack) \in DOMAIN Append(Advanced, f)
        /\ Append(Advanced, f)[Len(cStack)] = Advanced[Len(cStack)]
    BY <1>1, <2>1 DEF Advanced
  <2> QED BY <1>2, <2>2 DEF BatchOn
<1> QED BY <1>1, <1>2, <1>3 DEF BatchOn

(* Whether a deferred call is ready changes only with the id of its object.   *)
LEMMA ReadyKept ==
    ASSUME TypeOK, cPending' = cPending,
           \A s \in DOMAIN cObjs : cObjs'[s].id = cObjs[s].id
    PROVE  Ready' = Ready
  BY DEF TypeOK, ClientRefsOK, Ready

LEMMA AppStepFlush == TypeOK /\ FlushInv /\ ClientApp => FlushInv'
<1> SUFFICES ASSUME TypeOK, FlushInv, ClientApp PROVE FlushInv'
  OBVIOUS
<1>0. /\ cStack \in Seq(Frame) /\ cObjs \in Seq(Handle) /\ cPending \in Seq(Deferred)
      /\ <<>> \in Seq(Message)
  BY DEF TypeOK, ClientTypeOK
<1>p. ASSUME NEW kind \in Loops, NEW arg \in Nat, BatchOn(cStack)
      PROVE  BatchOn(Push(kind, arg, <<>>))
  <2>1. [kind |-> kind, arg |-> arg, msgs |-> <<>>] \in Frame /\ cStack # <<>>
    BY <1>0, <1>p DEF Frame, BatchOn
  <2> QED BY <2>1, <1>0, <1>p, BatchStays DEF Push
<1>1. ASSUME \E ver \in BindVersions : CBindTooNew(ver)
      PROVE  FlushInv'
  BY <1>1 DEF CBindTooNew, DisconnectOnError, CloseClientEnd, FlushInv
<1>2. ASSUME CWaitForHandshake \/ CDispatch \/ CRoundtrip
      PROVE  FlushInv'
  <2>1. UNCHANGED <<cPending, cObjs, cOpen>>
    BY <1>2 DEF CWaitForHandshake, CDispatch, CRoundtrip, wireVars
  <2>2. Ready' = Ready
    BY <2>1, ReadyKept
  <2>3. cSentRt + 1 \in Nat
    BY DEF TypeOK, ClientTypeOK
  <2>4. \/ cStack' = Push("handshake", 0, <<>>)
        \/ cStack' = Push("poll", 0, <<>>)
        \/ cStack' = Push("roundtrip", cSentRt + 1, <<>>)
    BY <1>2 DEF CWaitForHandshake, CDispatch, CRoundtrip
  <2>5. BatchOn(cStack) => BatchOn(cStack')
    BY <2>3, <2>4, <1>p DEF Loops
  <2> QED BY <2>1, <2>2, <2>5 DEF FlushInv
<1>3. ASSUME NEW ver \in BindVersions, CBind(ver)
      PROVE  FlushInv'
  <2>1. /\ UNCHANGED <<cPending, cOpen>> /\ cStack' = Push("object", Len(cObjs) + 1, <<>>)
        /\ cObjs' = Append(cObjs, [id |-> 0, ver |-> ver, listens |-> FALSE])
    BY <1>3 DEF CBind, NextSeq
  <2>2. \A s \in DOMAIN cObjs : cObjs'[s] = cObjs[s]
    BY <2>1, <1>0
  <2>3. Ready' = Ready
    BY <2>1, <2>2, ReadyKept
  <2>4. BatchOn(cStack) => BatchOn(cStack')
    BY <2>1, <1>0, <1>p DEF Loops
  <2> QED BY <2>1, <2>3, <2>4 DEF FlushInv
<1>4. ASSUME NEW h \in DOMAIN cObjs, NEW method \in {"call", "make"}, CCall(h, method)
      PROVE  FlushInv'
  <2>1. UNCHANGED <<cOpen, cStack>>
    BY <1>4 DEF CCall
  <2>2. \A s \in DOMAIN cObjs : cObjs'[s].id = cObjs[s].id
    BY <1>0, <1>4 DEF CCall
  <2>3. CASE cPending' = cPending
    <3>1. Ready' = Ready
      BY <2>2, <2>3, ReadyKept
    <3> QED BY <2>1, <3>1 DEF FlushInv
  <2>4. ASSUME NEW m, cPending' = Append(cPending, [msg |-> m, dep |-> h]), cObjs[h].id = 0
        PROVE  FlushInv'
    <3>1. /\ DOMAIN cPending' = DOMAIN cPending \cup {Len(cPending) + 1}
          /\ \A i \in DOMAIN cPending : cPending'[i] = cPending[i]
          /\ cPending'[Len(cPending) + 1].dep = h
      BY <2>4, <1>0
    <3>2. \A i \in DOMAIN cPending : cPending[i].dep \in DOMAIN cObjs
      BY DEF TypeOK, ClientRefsOK
    <3>3. Ready' \subseteq Ready
      BY <2>2, <2>4, <3>1, <3>2 DEF Ready
    <3> QED BY <2>1, <3>3 DEF FlushInv
  <2> QED BY <1>4, <2>3, <2>4 DEF CCall
<1> QED BY <1>1, <1>2, <1>3, <1>4 DEF ClientApp, AppStep

LEMMA LibraryStepFlush == TypeOK /\ FlushInv /\ ClientLibrary => FlushInv'
<1> SUFFICES ASSUME TypeOK, FlushInv, ClientLibrary PROVE FlushInv'
  OBVIOUS
<1>0. cStack \in Seq(Frame) /\ cObjs \in Seq(Handle)
  BY DEF TypeOK, ClientTypeOK
(* Frames that hold no batch return.                                          *)
<1>1. CASE CLoopReturns \/ CDispatchFails \/ CNothingToRead \/ CListenerReturn
  <2>1. cStack # <<>> /\ cStack[Len(cStack)].kind # "batch"
    BY <1>1 DEF CLoopReturns, CDispatchFails, CNothingToRead, CListenerReturn, InLoop, Loops, Top
  <2>2. cStack' = Pop(cStack) \/ \E ok : cStack' = ReturnDispatch(cStack, ok)
    BY <1>1 DEF CLoopReturns, CDispatchFails, CNothingToRead, CListenerReturn
  <2>3. BatchOn(cStack) => BatchOn(cStack')
    BY <2>1, <2>2, <1>0, BatchStays
  <2>4. UNCHANGED <<cPending, cOpen>> /\ \A s \in DOMAIN cObjs : cObjs'[s].id = cObjs[s].id
    <3>1. UNCHANGED <<cPending, cOpen>>
      BY <1>1 DEF CLoopReturns, CDispatchFails, CNothingToRead, CListenerReturn, wireVars
    <3>2. cObjs' = cObjs \/ \E s \in DOMAIN cObjs : cObjs' = [cObjs EXCEPT ![s].listens = TRUE]
      <4>1. CASE CLoopReturns
        <5>1. Top.kind = "object" => Top.arg \in DOMAIN cObjs
          BY <2>1, <1>0 DEF TypeOK, ClientRefsOK, Top
        <5> QED BY <4>1, <5>1 DEF CLoopReturns
      <4>2. CASE CDispatchFails \/ CNothingToRead \/ CListenerReturn
        BY <4>2 DEF CDispatchFails, CNothingToRead, CListenerReturn
      <4> QED BY <1>1, <4>1, <4>2
    <3>3. \A s \in DOMAIN cObjs : cObjs[s] \in Handle
      BY <1>0
    <3> QED BY <3>1, <3>2, <3>3 DEF Handle
  <2>5. Ready' = Ready
    BY <2>4, ReadyKept
  <2> QED BY <2>3, <2>4, <2>5 DEF FlushInv
<1>2. CASE CRead
  <2>1. PICK batch \in Batches(s2c) : cStack' = Push("batch", 0, batch)
    BY <1>2 DEF CRead
  <2>2. batch \in Seq(Message)
    BY BatchType DEF TypeOK, WireTypeOK
  <2>3. [kind |-> "batch", arg |-> 0, msgs |-> batch] \in Frame /\ cStack # <<>>
    BY <1>2, <2>2 DEF Frame, CRead, InLoop
  <2> QED BY <2>1, <2>3, <1>0, BatchStays DEF Push, FlushInv
(* The batch that is handled or flushed stays on the stack.                   *)
<1>3. CASE CHandleHandshakeBegin \/ CHandleProtocols \/ CHandleNewObject \/ CDropEvent
           \/ CHandleFatal \/ CHandleRoundtripDone
  <2>1. InBatch /\ cStack' = Advanced
    BY <1>3 DEF CHandleHandshakeBegin, CHandleProtocols, CHandleNewObject, CDropEvent,
       CHandleFatal, CHandleRoundtripDone, Handling
  <2> QED BY <2>1, BatchAdvances DEF FlushInv
<1>4. ASSUME NEW s \in DOMAIN cObjs, CHandleEvent(s)
      PROVE  FlushInv'
  <2>1. InBatch /\ cStack' = Append(Advanced, [kind |-> "listener", arg |-> 0, msgs |-> <<>>])
    BY <1>4 DEF CHandleEvent, Handling
  <2>2. [kind |-> "listener", arg |-> 0, msgs |-> <<>>] \in Frame
    BY DEF Frame
  <2> QED BY <2>1, <2>2, BatchAdvances DEF FlushInv
<1>5. ASSUME NEW i \in DOMAIN cPending, CFlushOne(i)
      PROVE  FlushInv'
  <2>1. InBatch /\ cStack' = cStack
    BY <1>5 DEF CFlushOne
  <2> QED BY <2>1, BatchAdvances DEF FlushInv
<1>6. CASE CHandleMalformed
  BY <1>6 DEF CHandleMalformed, DisconnectOnError, CloseClientEnd, FlushInv
<1>7. CASE CBatchDone
  <2>1. Ready = {} /\ UNCHANGED <<cPending, cObjs>>
    BY <1>7 DEF CBatchDone
  <2>2. Ready' = Ready
    BY <2>1, ReadyKept
  <2> QED BY <2>1, <2>2 DEF FlushInv
<1> QED
  BY <1>1, <1>2, <1>3, <1>4, <1>5, <1>6, <1>7 DEF ClientLibrary, LibraryStep, HandleStep

LEMMA OtherFlush ==
    TypeOK /\ FlushInv /\ (ClientLeaves \/ ClientTime \/ ServerDispatch \/ ServerApp
                           \/ ServerRemoves \/ Tear) => FlushInv'
<1> SUFFICES ASSUME TypeOK, FlushInv, ClientLeaves \/ ClientTime \/ ServerDispatch \/ ServerApp
                                      \/ ServerRemoves \/ Tear
             PROVE  FlushInv'
  OBVIOUS
<1>1. CASE ClientLeaves \/ (ClientTime /\ CHandshakeTimeout)
  BY <1>1 DEF ClientLeaves, ClientTime, CDestroy, CHandshakeTimeout, DisconnectOnError,
     CloseClientEnd, FlushInv
<1>2. CASE (ClientTime /\ CClockRunsOut) \/ ServerDispatch \/ ServerApp \/ ServerRemoves \/ Tear
  <2>1. UNCHANGED <<cPending, cObjs, cStack>>
    BY <1>2 DEF ClientTime, CClockRunsOut, ServerDispatch, ServerApp, ServerRemoves, Tear,
       cVars, cState
  <2>2. UNCHANGED cOpen
    BY <1>2 DEF ClientTime, CClockRunsOut, ServerDispatch, DispatchStep, ServerApp, SAppStep,
       ServerRemoves, Tear, SRead, SHandleHello, SHandleAck, SHandleBind, SHandleCall,
       SHandleRoundtrip, SHandleMalformed, SBatchDone, SHangup, SCreate, SEmit, SRaise, SRemove,
       wireVars
  <2>3. Ready' = Ready
    BY <2>1, ReadyKept
  <2> QED BY <2>1, <2>2, <2>3 DEF FlushInv
<1> QED BY <1>1, <1>2 DEF ClientTime

LEMMA DeliveryStep == TypeOK /\ CallInv /\ DeliveryInv /\ [Next]_vars => DeliveryInv'
<1>1. TypeOK /\ CallInv /\ DeliveryInv /\ [Next]_vars => FlightInv'
  BY AppStepFlight, LibraryStepFlight, ClientEndFlight, DispatchFlight, ServerAppFlight,
     TearFlight, StutterDelivery DEF DeliveryInv, Next, Idle
<1>2. TypeOK /\ CallInv /\ DeliveryInv /\ [Next]_vars => FlushInv'
  BY AppStepFlush, LibraryStepFlush, OtherFlush, StutterDelivery DEF DeliveryInv, Next, Idle
<1> QED BY <1>1, <1>2, IdleStep DEF DeliveryInv

LEMMA DeliveryInvariant == Spec => [](TypeOK /\ CallInv /\ DeliveryInv)
<1>1. Init => DeliveryInv
  BY InitDelivery
<1>2. TypeOK /\ CallInv /\ DeliveryInv /\ [Next]_vars => DeliveryInv'
  BY DeliveryStep
<1> QED BY <1>1, <1>2, TypeCorrect, CallInvariant, PTL DEF Spec

-----------------------------------------------------------------------------
(* Conservation of calls.                                                     *)

LEMMA AtMostOneIndex ==
    ASSUME NEW S, \A i, j \in S : i = j
    PROVE  Cardinality(S) \in {0, 1} /\ (Cardinality(S) = 0 <=> S = {})
<1>1. CASE S = {}
  BY <1>1, FS_EmptySet
<1>2. CASE S # {}
  <2>1. PICK x \in S : TRUE
    BY <1>2
  <2>2. S = {x}
    BY <2>1
  <2> QED BY <2>2, FS_Singleton
<1> QED BY <1>1, <1>2

LEMMA CopiesCounted ==
    ASSUME TypeOK, NumberedInv, OnceInv, NEW n \in DOMAIN issued
    PROVE  /\ Copies(n) <= 1
           /\ Sent(n) \/ Waits(n) \/ Done(n) => Copies(n) = 1
<1> DEFINE P == {i \in DOMAIN cPending : cPending[i].msg.n = n}
           C == {i \in DOMAIN c2s : c2s[i].n = n}
           B == {i \in DOMAIN sBatch : sBatch[i].n = n}
           H == {i \in DOMAIN handled : handled[i].n = n}
<1>t. /\ n \in Nat \ {0} /\ sBatch \in Seq(Message) /\ c2s \in Seq(Message)
      /\ cPending \in Seq(Deferred)
  BY DEF TypeOK, ClientTypeOK, ServerTypeOK, WireTypeOK
<1>s. /\ Len(sBatch) \in Nat /\ Len(c2s) \in Nat
      /\ DOMAIN sBatch = 1..Len(sBatch) /\ DOMAIN c2s = 1..Len(c2s)
      /\ DOMAIN Stream = 1..Len(sBatch) + Len(c2s)
      /\ \A i \in DOMAIN sBatch : Stream[i] = sBatch[i]
      /\ \A i \in DOMAIN c2s : Stream[Len(sBatch) + i] = c2s[i]
  BY <1>t, ConcatShape DEF Stream
<1>b. \A i \in B : i \in DOMAIN Stream /\ Stream[i].n = n
  BY <1>s
<1>c. \A i \in C : Len(sBatch) + i \in DOMAIN Stream /\ Stream[Len(sBatch) + i].n = n
  BY <1>s
<1>u. \A i, j \in DOMAIN Stream : Stream[i].n = n /\ Stream[j].n = n => i = j
  BY <1>t DEF OnceInv
<1>1. \A i, j \in P : i = j
  <2>1. ASSUME NEW i \in P, NEW j \in P, i < j PROVE FALSE
    <3>1. cPending[i].msg.n < cPending[j].msg.n
      BY <2>1 DEF OnceInv
    <3> QED BY <3>1, <1>t
  <2>2. \A i \in P : i \in Nat
    BY <1>t
  <2> QED BY <2>1, <2>2
<1>2. \A i, j \in C : i = j
  <2>1. ASSUME NEW i \in C, NEW j \in C PROVE i = j
    <3>1. Len(sBatch) + i = Len(sBatch) + j
      BY <1>c, <1>u
    <3> QED BY <3>1, <1>s
  <2> QED BY <2>1
<1>3. \A i, j \in B : i = j
  BY <1>b, <1>u
<1>4. \A i, j \in H : i = j
  BY DEF OnceInv
<1>5. B = {} \/ C = {}
  <2>1. ASSUME NEW i \in B, NEW j \in C PROVE FALSE
    <3>1. i = Len(sBatch) + j
      BY <1>b, <1>c, <1>u
    <3> QED BY <3>1, <1>s
  <2> QED BY <2>1
<1>6. (Sent(n) <=> B # {} \/ C # {}) /\ (Waits(n) <=> P # {}) /\ (Done(n) <=> H # {})
  <2>1. B # {} \/ C # {} => Sent(n)
    BY <1>b, <1>c DEF Sent
  <2>2. ASSUME NEW i \in DOMAIN Stream, Stream[i].n = n PROVE B # {} \/ C # {}
    <3>1. CASE i \in DOMAIN sBatch
      BY <2>2, <3>1, <1>s
    <3>2. CASE i \notin DOMAIN sBatch
      <4> DEFINE k == i - Len(sBatch)
      <4>1. k \in DOMAIN c2s /\ i = Len(sBatch) + k
        BY <3>2, <1>s
      <4> HIDE DEF k
      <4>2. c2s[k].n = n
        BY <4>1, <2>2, <1>s
      <4> QED BY <4>1, <4>2
    <3> QED BY <3>1, <3>2
  <2> QED BY <2>1, <2>2 DEF Sent, Waits, Done, ProcessedCalls
<1>7. ~(Sent(n) /\ Waits(n)) /\ ~(Sent(n) /\ Done(n)) /\ ~(Waits(n) /\ Done(n))
  BY DEF OnceInv
<1>8. Copies(n) = Cardinality(P) + Cardinality(C) + Cardinality(B) + Cardinality(H)
  BY DEF Copies
<1> HIDE DEF P, C, B, H
<1>9. /\ Cardinality(P) \in {0, 1} /\ (Cardinality(P) = 0 <=> P = {})
      /\ Cardinality(C) \in {0, 1} /\ (Cardinality(C) = 0 <=> C = {})
      /\ Cardinality(B) \in {0, 1} /\ (Cardinality(B) = 0 <=> B = {})
      /\ Cardinality(H) \in {0, 1} /\ (Cardinality(H) = 0 <=> H = {})
  BY <1>1, <1>2, <1>3, <1>4, AtMostOneIndex
<1> QED BY <1>5, <1>6, <1>7, <1>8, <1>9

(* Whatever happens, no call is in two places: not deferred and sent, not     *)
(* sent twice, not processed twice.                                           *)
AtMostOnce == \A n \in DOMAIN issued : Copies(n) <= 1

(* The client keeps a call in m_pendingOutgoing or writes it, the server      *)
(* takes each message from the batch once: no call is ever doubled, for any   *)
(* interleaving, hangup, torn message or error; and none is lost before an    *)
(* end is closed or fails, as long as the server's objects have ids that fit  *)
(* the one byte that resolveSeq patches.                                      *)
THEOREM CallConservation == Spec => [](AtMostOnce /\ (IdsFit => CallsConserved))
<1>1. TypeOK /\ DeliveryInv => AtMostOnce
  BY CopiesCounted DEF AtMostOnce, DeliveryInv, FlightInv
<1>2. TypeOK /\ DeliveryInv /\ IdsFit => CallsConserved
  BY CopiesCounted DEF CallsConserved, Healthy, DeliveryInv, FlightInv, KeptInv
<1> QED BY <1>1, <1>2, DeliveryInvariant, PTL

(* dispatchEvents flushes until no deferred call has its id, at whatever      *)
(* depth of the stack the id arrived: the main loop never gets control with   *)
(* one left.                                                                  *)
THEOREM FlushIsComplete == Spec => []FlushComplete
<1>1. DeliveryInv => FlushComplete
  BY DEF DeliveryInv, FlushInv, FlushComplete, BatchOn
<1> QED BY <1>1, DeliveryInvariant, PTL
=============================================================================
