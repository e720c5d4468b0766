---------------------------- MODULE DeliveryProofs ----------------------------
(* Roundtrips cover what was sent before them and keep their answers, the two *)
(* ends together implement CallDelivery, and events reach the listeners: for  *)
(* any number of calls, objects and roundtrips, and however deep the client's *)
(* listeners dispatch.                                                        *)
EXTENDS SessionProofs

(* What the client may read, now or when a nested dispatch returns.           *)
OnStack(stack) == UNION {Range(stack[d].msgs) : d \in DOMAIN stack}
Arriving == Range(s2c) \cup OnStack(cStack)

(* Every roundtrip up to k covers the calls that were sent before it.         *)
Covered(k) == k \in 0..Len(marks) /\ \A j \in 1..k : Marked(marks[j]) \subseteq ProcessedCalls

(* What was answered, what the server will answer and what answers arrive.    *)
AnswersInv ==
    IdsFit =>
        /\ Covered(cAckd) /\ Covered(sRt)
        /\ \A m \in Arriving : m.code = "ROUNDTRIP_DONE" => Covered(m.seq)

-----------------------------------------------------------------------------
(* Roundtrips cover what was sent before them.                                *)

(* What a stack holds, by what a step does to it.                             *)
LEMMA StackHolds ==
    ASSUME NEW stack \in Seq(Frame)
    PROVE  /\ OnStack(Pop(stack)) \subseteq OnStack(stack)
           /\ \A ok : OnStack(ReturnDispatch(stack, ok)) \subseteq OnStack(stack)
           /\ \A ok : OnStack(ReturnDispatch(Pop(stack), ok)) \subseteq OnStack(stack)
           /\ \A f \in Frame : OnStack(Append(stack, f)) \subseteq OnStack(stack) \cup Range(f.msgs)
<1>1. ASSUME NEW st \in Seq(Frame)
      PROVE  OnStack(Pop(st)) \subseteq OnStack(st) /\ Pop(st) \in Seq(Frame)
  BY <1>1, PopType, PopElements DEF OnStack
<1>2. ASSUME NEW st \in Seq(Frame), NEW ok
      PROVE  OnStack(ReturnDispatch(st, ok)) \subseteq OnStack(st)
  BY <1>1, <1>2 DEF ReturnDispatch
<1>3. ASSUME NEW f \in Frame
      PROVE  OnStack(Append(stack, f)) \subseteq OnStack(stack) \cup Range(f.msgs)
  <2>1. \A d \in DOMAIN Append(stack, f) :
           Append(stack, f)[d] = f \/ (d \in DOMAIN stack /\ Append(stack, f)[d] = stack[d])
    BY AppendType
  <2> QED BY <2>1 DEF OnStack
<1> QED BY <1>1, <1>2, <1>3

LEMMA HandlingHolds ==
    ASSUME TypeOK, NEW code, Handling(code)
    PROVE  /\ Head(Top.msgs) \in OnStack(cStack)
           /\ OnStack(Advanced) \subseteq OnStack(cStack)
           /\ Advanced \in Seq(Frame)
<1>t. cStack \in Seq(Frame)
  BY DEF TypeOK, ClientTypeOK
<1>1. cStack # <<>> /\ Top.msgs # <<>> /\ Len(cStack) \in DOMAIN cStack
  BY <1>t DEF Handling, InBatch
<1>2. Top \in Frame /\ Top = cStack[Len(cStack)]
  BY <1>1, <1>t DEF Top
<1>3. Top.msgs \in Seq(Message)
  BY <1>2 DEF Frame
<1>4. /\ Head(Top.msgs) = Top.msgs[1] /\ 1 \in DOMAIN Top.msgs
      /\ Tail(Top.msgs) \in Seq(Message)
      /\ \A i \in DOMAIN Tail(Top.msgs) :
            i + 1 \in DOMAIN Top.msgs /\ Tail(Top.msgs)[i] = Top.msgs[i + 1]
  BY <1>1, <1>3, HeadTailElements
<1>5. Head(Top.msgs) \in Range(Top.msgs) /\ Range(Tail(Top.msgs)) \subseteq Range(Top.msgs)
  BY <1>4 DEF Range
<1>6. Range(Top.msgs) \subseteq OnStack(cStack)
  BY <1>1, <1>2 DEF OnStack
<1> DEFINE rest == [Top EXCEPT !.msgs = Tail(@)]
<1>7. rest \in Frame /\ rest.msgs = Tail(Top.msgs)
  BY <1>2, <1>4 DEF Frame
<1>8. Advanced = [cStack EXCEPT ![Len(cStack)] = rest]
  BY <1>2 DEF Advanced
<1> HIDE DEF rest
<1>9. /\ Advanced \in Seq(Frame) /\ DOMAIN Advanced = DOMAIN cStack
      /\ \A d \in DOMAIN cStack : Advanced[d] = IF d = Len(cStack) THEN rest ELSE cStack[d]
  BY <1>t, <1>1, <1>7, <1>8
<1>10. \A d \in DOMAIN Advanced : Range(Advanced[d].msgs) \subseteq OnStack(cStack)
  <2>1. ASSUME NEW d \in DOMAIN Advanced PROVE Range(Advanced[d].msgs) \subseteq OnStack(cStack)
    <3>1. CASE d = Len(cStack)
      <4>1. Advanced[d].msgs = Tail(Top.msgs)
        BY <3>1, <1>7, <1>9
      <4> QED BY <4>1, <1>5, <1>6
    <3>2. CASE d # Len(cStack)
      <4>1. Advanced[d] = cStack[d] /\ d \in DOMAIN cStack
        BY <3>2, <1>9
      <4> QED BY <4>1 DEF OnStack
    <3> QED BY <3>1, <3>2
  <2> QED BY <2>1
<1>11. OnStack(Advanced) \subseteq OnStack(cStack)
  BY <1>10 DEF OnStack
<1> QED BY <1>5, <1>6, <1>9, <1>11

(* The client reads nothing but what was on its way to it.                    *)
LEMMA ClientReads ==
    ASSUME TypeOK, ClientApp \/ ClientLeaves \/ ClientLibrary \/ ClientTime
    PROVE  Arriving' \subseteq Arriving
<1>t. /\ cStack \in Seq(Frame) /\ s2c \in Seq(Message) /\ cSentRt + 1 \in Nat
      /\ cObjs \in Seq(Handle) /\ Len(cObjs) + 1 \in Nat
  BY DEF TypeOK, ClientTypeOK, WireTypeOK
<1>e. Range(<<>>) = {} /\ <<>> \in Seq(Message)
  BY DEF Range
<1>s. ASSUME s2c' = s2c \/ s2c' = <<>>, OnStack(cStack') \subseteq OnStack(cStack)
      PROVE  Arriving' \subseteq Arriving
  BY <1>s, <1>e DEF Arriving
<1>p. ASSUME NEW kind \in Loops, NEW arg \in Nat
      PROVE  OnStack(Push(kind, arg, <<>>)) \subseteq OnStack(cStack)
  <2> DEFINE f == [kind |-> kind, arg |-> arg, msgs |-> <<>>]
  <2>1. f \in Frame /\ f.msgs = <<>>
    BY <1>e, <1>p DEF Frame
  <2> HIDE DEF f
  <2>2. OnStack(Append(cStack, f)) \subseteq OnStack(cStack)
    BY <2>1, <1>t, <1>e, StackHolds
  <2> QED BY <2>2 DEF Push, f
<1>1. CASE ClientApp
  <2>1. s2c' = s2c \/ s2c' = <<>>
    BY <1>1 DEF ClientApp, AppStep, CWaitForHandshake, CDispatch, CBind, CBindTooNew, CCall,
       CRoundtrip, DisconnectOnError, CloseClientEnd, wireVars
  <2>2. OnStack(cStack') \subseteq OnStack(cStack)
    <3>1. \/ cStack' = cStack \/ cStack' = Push("handshake", 0, <<>>)
          \/ cStack' = Push("poll", 0, <<>>) \/ cStack' = Push("object", Len(cObjs) + 1, <<>>)
          \/ cStack' = Push("roundtrip", cSentRt + 1, <<>>)
      BY <1>1 DEF ClientApp, AppStep, CWaitForHandshake, CDispatch, CBind, CBindTooNew, CCall,
         CRoundtrip, NextSeq
    <3>2. {"handshake", "poll", "object", "roundtrip"} \subseteq Loops
      BY DEF Loops
    <3> QED BY <3>1, <3>2, <1>p, <1>t
  <2> QED BY <2>1, <2>2, <1>s
<1>2. CASE ClientLeaves \/ ClientTime
  <2>1. s2c' = s2c \/ s2c' = <<>>
    BY <1>2 DEF ClientLeaves, ClientTime, CDestroy, CHandshakeTimeout, CClockRunsOut,
       DisconnectOnError, CloseClientEnd, wireVars
  <2>2. cStack' = cStack \/ cStack' = ReturnDispatch(cStack, FALSE)
    BY <1>2 DEF ClientLeaves, ClientTime, CDestroy, CHandshakeTimeout, CClockRunsOut
  <2> QED BY <2>1, <2>2, <1>s, <1>t, StackHolds
<1>3. CASE ClientLibrary
  <2>1. ASSUME CLoopReturns \/ CDispatchFails \/ CNothingToRead \/ CBatchDone \/ CListenerReturn
               \/ CHandleMalformed \/ \E i \in DOMAIN cPending : CFlushOne(i)
        PROVE  Arriving' \subseteq Arriving
    <3>1. s2c' = s2c \/ s2c' = <<>>
      BY <2>1 DEF CLoopReturns, CDispatchFails, CNothingToRead, CBatchDone, CListenerReturn,
         CHandleMalformed, CFlushOne, DisconnectOnError, CloseClientEnd, wireVars
    <3>2. \/ cStack' = cStack \/ cStack' = Pop(cStack)
          \/ \E ok : cStack' = ReturnDispatch(cStack, ok)
          \/ \E ok : cStack' = ReturnDispatch(Pop(cStack), ok)
      BY <2>1 DEF CLoopReturns, CDispatchFails, CNothingToRead, CBatchDone, CListenerReturn,
         CHandleMalformed, CFlushOne
    <3> QED BY <3>1, <3>2, <1>s, <1>t, StackHolds
  <2>2. CASE CRead
    <3>1. PICK batch \in Batches(s2c) : /\ cStack' = Push("batch", 0, batch)
                                        /\ s2c' = Rest(s2c, batch)
      BY <2>2 DEF CRead
    <3>2. batch \in Seq(Message) /\ Range(batch) \subseteq Range(s2c)
          /\ Range(s2c') \subseteq Range(s2c)
      BY <3>1, <1>t, BatchType DEF Range
    <3> DEFINE f == [kind |-> "batch", arg |-> 0, msgs |-> batch]
    <3>3. f \in Frame /\ f.msgs = batch
      BY <3>2 DEF Frame
    <3>4. cStack' = Append(cStack, f)
      BY <3>1 DEF Push
    <3> HIDE DEF f
    <3>5. OnStack(cStack') \subseteq OnStack(cStack) \cup Range(batch)
      BY <3>3, <3>4, <1>t, StackHolds
    <3> QED BY <3>2, <3>5 DEF Arriving
  <2>3. ASSUME CHandleHandshakeBegin \/ CHandleProtocols \/ CHandleNewObject \/ CDropEvent
               \/ CHandleFatal \/ CHandleRoundtripDone
        PROVE  Arriving' \subseteq Arriving
    <3>1. PICK code : Handling(code) /\ cStack' = Advanced
      BY <2>3 DEF CHandleHandshakeBegin, CHandleProtocols, CHandleNewObject, CDropEvent,
         CHandleFatal, CHandleRoundtripDone
    <3>2. s2c' = s2c
      BY <2>3 DEF CHandleHandshakeBegin, CHandleProtocols, CHandleNewObject, CDropEvent,
         CHandleFatal, CHandleRoundtripDone, wireVars
    <3>3. OnStack(cStack') \subseteq OnStack(cStack)
      BY <3>1, HandlingHolds
    <3> QED BY <3>2, <3>3, <1>s
  <2>4. ASSUME NEW h \in DOMAIN cObjs, CHandleEvent(h)
        PROVE  Arriving' \subseteq Arriving
    <3> DEFINE f == [kind |-> "listener", arg |-> 0, msgs |-> <<>>]
    <3>1. Advanced \in Seq(Frame) /\ OnStack(Advanced) \subseteq OnStack(cStack)
      BY <2>4, HandlingHolds DEF CHandleEvent
    <3>2. f \in Frame /\ f.msgs = <<>>
      BY <1>e DEF Frame
    <3>3. cStack' = Append(Advanced, f) /\ s2c' = s2c
      BY <2>4 DEF CHandleEvent, wireVars
    <3> HIDE DEF f
    <3>4. OnStack(cStack') \subseteq OnStack(cStack)
      BY <3>1, <3>2, <3>3, <1>e, StackHolds
    <3> QED BY <3>3, <3>4, <1>s
  <2> QED BY <1>3, <2>1, <2>2, <2>3, <2>4 DEF ClientLibrary, LibraryStep, HandleStep
<1> QED BY <1>1, <1>2, <1>3

LEMMA AppendExtends ==
    ASSUME NEW S, NEW s \in Seq(S), NEW x \in S
    PROVE  Extends(Append(s, x), s)
  BY AppendType DEF Extends

(* Calls are only ever processed, roundtrips only ever requested.             *)
LEMMA CoveredKept ==
    ASSUME TypeOK, marks' \in Seq([calls : SUBSET Nat, deferred : SUBSET Nat]),
           Extends(marks', marks), ProcessedCalls \subseteq ProcessedCalls', NEW k, Covered(k)
    PROVE  Covered(k)'
<1>1. marks \in Seq([calls : SUBSET Nat, deferred : SUBSET Nat])
  BY DEF TypeOK, ClientTypeOK
<1>2. /\ DOMAIN marks = 1..Len(marks) /\ DOMAIN marks' = 1..Len(marks')
      /\ Len(marks) \in Nat /\ Len(marks') \in Nat
  BY <1>1
<1>3. 1..Len(marks) \subseteq 1..Len(marks')
  BY <1>2 DEF Extends
<1>4. Len(marks) <= Len(marks')
  BY <1>2, <1>3
<1>5. k \in 0..Len(marks')
  BY <1>2, <1>4 DEF Covered
<1>6. ASSUME NEW j \in 1..k PROVE Marked(marks'[j]) \subseteq ProcessedCalls'
  <2>1. j \in DOMAIN marks /\ Marked(marks[j]) \subseteq ProcessedCalls
    BY <1>2, <1>6 DEF Covered
  <2> QED BY <2>1 DEF Extends
<1> QED BY <1>5, <1>6 DEF Covered

(* A step keeps the answers, when every answer it brings is one it may give.  *)
LEMMA AnswersKept ==
    ASSUME TypeOK, AnswersInv, IdsFit' => IdsFit,
           marks' \in Seq([calls : SUBSET Nat, deferred : SUBSET Nat]),
           Extends(marks', marks), ProcessedCalls \subseteq ProcessedCalls',
           \/ cAckd' = cAckd
           \/ \E m \in Arriving : m.code = "ROUNDTRIP_DONE" /\ cAckd' = m.seq,
           IdsFit' => sRt' = sRt \/ Covered(sRt'),
           \A m \in Arriving' :
              m.code = "ROUNDTRIP_DONE" => m \in Arriving \/ m = RoundtripDone(sRt)
    PROVE  AnswersInv'
<1> SUFFICES ASSUME IdsFit'
             PROVE  /\ Covered(cAckd)' /\ Covered(sRt)'
                    /\ \A m \in Arriving' : m.code = "ROUNDTRIP_DONE" => Covered(m.seq)'
  BY DEF AnswersInv
<1>1. /\ Covered(cAckd) /\ Covered(sRt)
      /\ \A m \in Arriving : m.code = "ROUNDTRIP_DONE" => Covered(m.seq)
  BY DEF AnswersInv
<1>2. ASSUME NEW k, Covered(k)
      PROVE  /\ k \in 0..Len(marks')
             /\ \A j \in 1..k : Marked(marks'[j]) \subseteq ProcessedCalls'
  <2>1. Covered(k)'
    BY <1>2, CoveredKept
  <2> QED BY <2>1 DEF Covered
<1>3. Covered(cAckd')
  BY <1>1
<1>4. Covered(sRt')
  BY <1>1
<1>5. ASSUME NEW m \in Arriving', m.code = "ROUNDTRIP_DONE" PROVE Covered(m.seq)
  <2>1. CASE m \in Arriving
    BY <2>1, <1>1, <1>5
  <2>2. CASE m = RoundtripDone(sRt)
    <3>1. m.seq = sRt
      BY <2>2 DEF RoundtripDone, Plain
    <3> QED BY <3>1, <1>1
  <2> QED BY <2>1, <2>2, <1>5
<1>6. Covered(cAckd)' /\ Covered(sRt)'
  BY <1>2, <1>3, <1>4 DEF Covered
<1>7. ASSUME NEW m \in Arriving', m.code = "ROUNDTRIP_DONE" PROVE Covered(m.seq)'
  BY <1>2, <1>5, <1>7 DEF Covered
<1> QED BY <1>6, <1>7

LEMMA InitAnswers == Init => AnswersInv
<1> SUFFICES ASSUME Init PROVE AnswersInv
  OBVIOUS
<1>1. s2c = <<>> /\ cStack = <<>> /\ cAckd = 0 /\ sRt = 0 /\ marks = <<>>
  BY DEF Init, WireInit, ClientInit, ServerInit
<1>2. Arriving = {}
  BY <1>1 DEF Arriving, OnStack, Range
<1>3. Covered(0)
  BY <1>1 DEF Covered
<1> QED BY <1>1, <1>2, <1>3 DEF AnswersInv

LEMMA ClientAnswers ==
    TypeOK /\ AnswersInv /\ (ClientApp \/ ClientLeaves \/ ClientLibrary \/ ClientTime) => AnswersInv'
<1> SUFFICES ASSUME TypeOK, AnswersInv, ClientApp \/ ClientLeaves \/ ClientLibrary \/ ClientTime
             PROVE  AnswersInv'
  OBVIOUS
<1>1. UNCHANGED <<sObjs, handled, sRt>>
  BY DEF ClientApp, ClientLeaves, ClientLibrary, ClientTime, sVars, sState, sHistory
<1>2. Arriving' \subseteq Arriving
  BY ClientReads
<1>t. marks \in Seq([calls : SUBSET Nat, deferred : SUBSET Nat])
  BY DEF TypeOK, ClientTypeOK
<1>3. /\ marks' \in Seq([calls : SUBSET Nat, deferred : SUBSET Nat])
      /\ Extends(marks', marks)
  <2>1. CASE marks' = marks
    BY <2>1, <1>t DEF Extends
  <2>2. CASE CRoundtrip
    <3> DEFINE mark == [calls |-> DOMAIN issued, deferred |-> {cPending[i].msg.n : i \in DOMAIN cPending}]
    <3>1. mark \in [calls : SUBSET Nat, deferred : SUBSET Nat]
      <4>1. issued \in Seq(Call) /\ cPending \in Seq(Deferred)
        BY DEF TypeOK, ClientTypeOK
      <4>2. DOMAIN issued \subseteq Nat
        BY <4>1
      <4>3. ASSUME NEW i \in DOMAIN cPending PROVE cPending[i].msg.n \in Nat
        <5>1. cPending[i] \in Deferred
          BY <4>1
        <5>2. cPending[i].msg \in Message
          BY <5>1 DEF Deferred
        <5> QED BY <5>2 DEF Message
      <4> QED BY <4>2, <4>3
    <3>2. marks' = Append(marks, mark)
      BY <2>2 DEF CRoundtrip
    <3> HIDE DEF mark
    <3>3. marks' \in Seq([calls : SUBSET Nat, deferred : SUBSET Nat])
      BY <3>1, <3>2, <1>t, AppendType
    <3> QED BY <3>1, <3>2, <3>3, <1>t, AppendExtends
  <2>3. marks' = marks \/ CRoundtrip
    BY DEF ClientApp, ClientLeaves, ClientLibrary, ClientTime, AppStep, LibraryStep, HandleStep,
       CWaitForHandshake, CDispatch, CBind, CBindTooNew, CCall, CDestroy, CHandshakeTimeout,
       CClockRunsOut, CLoopReturns, CDispatchFails, CNothingToRead, CRead,
       CHandleHandshakeBegin, CHandleProtocols, CHandleNewObject, CHandleEvent, CDropEvent,
       CHandleFatal, CHandleRoundtripDone, CHandleMalformed, CFlushOne, CBatchDone,
       CListenerReturn, cHistory
  <2> QED BY <2>1, <2>2, <2>3
<1>4. \/ cAckd' = cAckd
      \/ \E m \in Arriving : m.code = "ROUNDTRIP_DONE" /\ cAckd' = m.seq
  <2>1. CASE CHandleRoundtripDone
    <3>1. Handling("ROUNDTRIP_DONE") /\ cAckd' = Head(Top.msgs).seq
      BY <2>1 DEF CHandleRoundtripDone
    <3>2. Head(Top.msgs) \in Arriving
      BY <3>1, HandlingHolds DEF Arriving
    <3> QED BY <3>1, <3>2 DEF Handling
  <2>2. cAckd' = cAckd \/ CHandleRoundtripDone
    BY DEF ClientApp, ClientLeaves, ClientLibrary, ClientTime, AppStep, LibraryStep, HandleStep,
       CWaitForHandshake, CDispatch, CBind, CBindTooNew, CCall, CRoundtrip, CDestroy,
       CHandshakeTimeout, CClockRunsOut, CLoopReturns, CDispatchFails, CNothingToRead, CRead,
       CHandleHandshakeBegin, CHandleProtocols, CHandleNewObject, CHandleEvent, CDropEvent,
       CHandleFatal, CHandleMalformed, CFlushOne, CBatchDone, CListenerReturn
  <2> QED BY <2>1, <2>2
<1>5. (IdsFit' => IdsFit) /\ ProcessedCalls' = ProcessedCalls
  BY <1>1 DEF IdsFit, ProcessedCalls
<1> QED BY <1>1, <1>2, <1>3, <1>4, <1>5, AnswersKept

(* A step of the server, or on the way, sends answers only from sRt.          *)
LEMMA ServerAnswers ==
    ASSUME TypeOK, AnswersInv, UNCHANGED <<cStack, cAckd, marks>>,
           sObjs' \in Seq(Object), Extends(sObjs', sObjs),
           Extends(handled', handled),
           IdsFit' => sRt' = sRt \/ Covered(sRt'),
           \A i \in DOMAIN s2c' :
              s2c'[i].code = "ROUNDTRIP_DONE" => s2c'[i] \in Range(s2c) \cup {RoundtripDone(sRt)}
    PROVE  AnswersInv'
<1>1. IdsFit' => IdsFit
  BY IdsFitEarlier
<1>2. marks' \in Seq([calls : SUBSET Nat, deferred : SUBSET Nat]) /\ Extends(marks', marks)
  BY DEF TypeOK, ClientTypeOK, Extends
<1>3. ProcessedCalls \subseteq ProcessedCalls'
  BY DEF ProcessedCalls, Extends
<1>4. \A m \in Arriving' :
         m.code = "ROUNDTRIP_DONE" => m \in Arriving \/ m = RoundtripDone(sRt)
  <2>1. ASSUME NEW m \in Arriving', m.code = "ROUNDTRIP_DONE"
        PROVE  m \in Arriving \/ m = RoundtripDone(sRt)
    <3>1. m \in Range(s2c') \/ m \in OnStack(cStack)
      BY DEF Arriving
    <3>2. CASE m \in Range(s2c')
      BY <2>1, <3>2 DEF Range, Arriving
    <3> QED BY <3>1, <3>2 DEF Arriving
  <2> QED BY <2>1
<1> QED BY <1>1, <1>2, <1>3, <1>4, AnswersKept

(* What the server sends last.                                                *)
LEMMA SentLast ==
    ASSUME TypeOK, NEW m \in Message,
           s2c' = SentToClient(<<m>>),
           m.code # "ROUNDTRIP_DONE" \/ m = RoundtripDone(sRt)
    PROVE  \A i \in DOMAIN s2c' :
              s2c'[i].code = "ROUNDTRIP_DONE" => s2c'[i] \in Range(s2c) \cup {RoundtripDone(sRt)}
<1>1. s2c \in Seq(Message)
  BY DEF TypeOK, WireTypeOK
<1>2. s2c \o <<m>> = Append(s2c, m)
  BY <1>1
<1>3. s2c' = s2c \/ s2c' = Append(s2c, m)
  BY <1>2 DEF SentToClient
<1>4. \A i \in DOMAIN s2c' : s2c'[i] = m \/ (i \in DOMAIN s2c /\ s2c'[i] = s2c[i])
  BY <1>1, <1>3, AppendType
<1> QED BY <1>4 DEF Range

(* A roundtrip that the server takes from the batch is covered: what was sent *)
(* before it was in front of it.                                              *)
LEMMA RequestCovered ==
    ASSUME TypeOK, DeliveryInv, IdsFit, SHandleRoundtrip
    PROVE  Covered(sRt')
<1> DEFINE m == Head(sBatch)
<1>1. sBatch # <<>> /\ ~sError /\ m.code = "ROUNDTRIP_REQUEST" /\ sRt' = m.seq
  BY DEF SHandleRoundtrip, SHandling
<1>2. m = Stream[1] /\ 1 \in DOMAIN Stream /\ DOMAIN Stream \subseteq Nat \ {0}
  <2>1. /\ c2s \in Seq(Message) /\ sBatch \in Seq(Message)
        /\ 1 \in DOMAIN sBatch /\ Head(sBatch) = sBatch[1]
    BY <1>1, HeadTailElements DEF TypeOK, WireTypeOK, ServerTypeOK
  <2>2. Stream[1] = sBatch[1] /\ DOMAIN Stream = 1..Len(sBatch) + Len(c2s)
        /\ Len(sBatch) \in Nat /\ Len(c2s) \in Nat /\ DOMAIN sBatch = 1..Len(sBatch)
    BY <2>1, ConcatShape DEF Stream
  <2> QED BY <2>1, <2>2
<1>3. m.seq \in DOMAIN marks
  BY <1>1, <1>2 DEF DeliveryInv, FlightInv, NumberedInv
<1>4. DOMAIN marks = 1..Len(marks) /\ Len(marks) \in Nat
  BY DEF TypeOK, ClientTypeOK
<1>5. ASSUME NEW j \in 1..m.seq, NEW n \in Marked(marks[j]) PROVE n \in ProcessedCalls
  <2>1. j \in DOMAIN marks
    BY <1>3, <1>4
  <2>2. n \in DOMAIN issued
    BY <2>1 DEF DeliveryInv, FlightInv, MarksInv
  <2>3. n \in Needs(Stream[1], issued, marks)
    BY <1>1, <1>2, <2>2 DEF Needs
  <2>4. Behind(n, 1)
    BY <1>1, <1>2, <2>3 DEF DeliveryInv, FlightInv, QueueInv
  <2>5. \A p \in DOMAIN Stream : ~(p < 1)
    BY <1>2
  <2> QED BY <2>4, <2>5 DEF Behind, Done
<1> QED BY <1>1, <1>3, <1>4, <1>5 DEF Covered

LEMMA DispatchAnswers ==
    TypeOK /\ DeliveryInv /\ AnswersInv /\ ServerDispatch => AnswersInv'
<1> SUFFICES ASSUME TypeOK, DeliveryInv, AnswersInv, ServerDispatch PROVE AnswersInv'
  OBVIOUS
<1>0. UNCHANGED <<cStack, cAckd, marks>>
  BY DEF ServerDispatch, cVars, cState, cHistory
<1>t. /\ sObjs \in Seq(Object) /\ handled \in Seq([n : Nat, at : Nat]) /\ sRt \in Nat
      /\ sBatch \in Seq(Message)
  BY DEF TypeOK, ServerTypeOK
<1>e. /\ \A objects : Extends(objects, objects)
      /\ \A i \in DOMAIN s2c : s2c[i] \in Range(s2c)
  BY DEF Extends, Range
<1>z. Covered(0)
  <2>1. Len(marks) \in Nat
    BY DEF TypeOK, ClientTypeOK
  <2> QED BY <2>1 DEF Covered
<1>m. \A code \in {"FATAL", "HANDSHAKE_BEGIN", "HANDSHAKE_PROTOCOLS"} :
         Plain(code) \in Message /\ Plain(code).code # "ROUNDTRIP_DONE"
  BY MessageTypes DEF Codes, Plain
<1>1. CASE SHandleBind
  <2>1. Head(sBatch).seq \in Nat /\ Head(sBatch).ver \in Nat /\ TRUE \in BOOLEAN
    BY <1>1, <1>t, SHandlingType DEF SHandleBind, TypeOK
  <2>2. CreateObject(Head(sBatch).seq, Head(sBatch).ver, TRUE) /\ UNCHANGED <<sRt, handled>>
    BY <1>1 DEF SHandleBind, sHistory
  <2>3. sObjs' \in Seq(Object) /\ Extends(sObjs', sObjs)
    BY <2>1, <2>2, CreateObjectGrows
  <2>4. \A i \in DOMAIN s2c' :
           s2c'[i].code = "ROUNDTRIP_DONE" => s2c'[i] \in Range(s2c) \cup {RoundtripDone(sRt)}
    <3> DEFINE m == NewObject(Head(sBatch).seq, Len(sObjs) + 1)
    <3>1. m \in Message /\ m.code = "NEW_OBJECT"
      <4>1. Len(sObjs) + 1 \in Nat
        BY <1>t
      <4> QED BY <2>1, <4>1, MessageTypes DEF NewObject, Plain
    <3>2. s2c' = s2c \/ s2c' = SentToClient(<<m>>)
      BY <2>2 DEF CreateObject
    <3> HIDE DEF m
    <3> QED BY <3>1, <3>2, <1>e, SentLast
  <2> QED BY <2>2, <2>3, <2>4, <1>0, <1>e, ServerAnswers
<1>2. CASE SHandleCall
  <2>1. UNCHANGED <<sObjs, sRt>>
    BY <1>2 DEF SHandleCall
  <2>2. s2c' = s2c \/ s2c' = SentToClient(<<Plain("FATAL")>>)
    BY <1>2 DEF SHandleCall, Fail
  <2>3. Extends(handled', handled)
    <3> DEFINE call == [n |-> Head(sBatch).n, at |-> Head(sBatch).id]
    <3>1. handled' = handled \/ handled' = Append(handled, call)
      BY <1>2 DEF SHandleCall
    <3>2. call \in [n : Nat, at : Nat]
      <4>1. Head(sBatch) \in Message
        BY <1>2, <1>t, HeadTailElements DEF SHandleCall, SHandling
      <4> QED BY <4>1 DEF Message
    <3> HIDE DEF call
    <3> QED BY <3>1, <3>2, <1>t, <1>e, AppendExtends
  <2>4. \A i \in DOMAIN s2c' :
           s2c'[i].code = "ROUNDTRIP_DONE" => s2c'[i] \in Range(s2c) \cup {RoundtripDone(sRt)}
    BY <2>2, <1>e, <1>m, SentLast
  <2> QED BY <2>1, <2>3, <2>4, <1>0, <1>t, <1>e, ServerAnswers
<1>3. ASSUME SHandleHello \/ SHandleAck \/ SHandleMalformed
      PROVE  AnswersInv'
  <2>1. UNCHANGED <<sObjs, sRt, handled>>
    BY <1>3 DEF SHandleHello, SHandleAck, SHandleMalformed, sHistory
  <2>2. \E code \in {"FATAL", "HANDSHAKE_BEGIN", "HANDSHAKE_PROTOCOLS"} :
           s2c' = SentToClient(<<Plain(code)>>)
    BY <1>3 DEF SHandleHello, SHandleAck, SHandleMalformed, Fail
  <2>3. \A i \in DOMAIN s2c' :
           s2c'[i].code = "ROUNDTRIP_DONE" => s2c'[i] \in Range(s2c) \cup {RoundtripDone(sRt)}
    BY <2>2, <1>m, SentLast
  <2> QED BY <2>1, <2>3, <1>0, <1>t, <1>e, ServerAnswers
<1>4. CASE SHandleRoundtrip
  <2>1. UNCHANGED <<sObjs, s2c, handled>>
    BY <1>4 DEF SHandleRoundtrip, wireVars, sHistory
  <2>2. IdsFit' => Covered(sRt')
    BY <1>4, <2>1, RequestCovered DEF IdsFit
  <2> QED BY <2>1, <2>2, <1>0, <1>t, <1>e, ServerAnswers
<1>5. CASE SBatchDone
  <2>1. UNCHANGED <<sObjs, handled>> /\ sRt' = 0
    BY <1>5 DEF SBatchDone, sHistory
  <2>2. s2c' = s2c \/ s2c' = SentToClient(<<RoundtripDone(sRt)>>)
    BY <1>5 DEF SBatchDone
  <2>3. \A i \in DOMAIN s2c' :
           s2c'[i].code = "ROUNDTRIP_DONE" => s2c'[i] \in Range(s2c) \cup {RoundtripDone(sRt)}
    BY <2>2, <1>t, <1>e, MessageTypes, SentLast
  <2> QED BY <2>1, <2>3, <1>0, <1>t, <1>e, <1>z, ServerAnswers
<1>6. ASSUME SRead \/ SHangup
      PROVE  AnswersInv'
  <2>1. UNCHANGED <<s2c, sObjs, handled, sRt>>
    BY <1>6 DEF SRead, SHangup, CloseServerEnd, sVars, sState, sHistory
  <2> QED BY <2>1, <1>0, <1>t, <1>e, ServerAnswers
<1> QED
  BY <1>1, <1>2, <1>3, <1>4, <1>5, <1>6 DEF ServerDispatch, DispatchStep

LEMMA ServerAppAnswers ==
    TypeOK /\ AnswersInv /\ (ServerApp \/ ServerRemoves \/ Tear) => AnswersInv'
<1> SUFFICES ASSUME TypeOK, AnswersInv, ServerApp \/ ServerRemoves \/ Tear PROVE AnswersInv'
  OBVIOUS
<1>0. UNCHANGED <<cStack, cAckd, marks>>
  BY DEF ServerApp, ServerRemoves, Tear, cVars, cState, cHistory
<1>t. sObjs \in Seq(Object) /\ Len(sObjs) + 1 \in Nat /\ Len(emitted) + 1 \in Nat /\ s2c \in Seq(Message)
  BY DEF TypeOK, ServerTypeOK, WireTypeOK
<1>e. /\ \A objects : Extends(objects, objects)
      /\ \A i \in DOMAIN s2c : s2c[i] \in Range(s2c)
  BY DEF Extends, Range
<1>1. ASSUME NEW make \in sMakes, NEW known \in BOOLEAN, SCreate(make, known)
      PROVE  AnswersInv'
  <2>1. make.seq \in Nat /\ sObjs[make.obj].ver \in Nat
    <3>1. make \in Make /\ make.obj \in DOMAIN sObjs
      BY DEF TypeOK, ServerTypeOK, ServerRefsOK
    <3>2. sObjs[make.obj] \in Object
      BY <3>1, <1>t
    <3> QED BY <3>1, <3>2 DEF Make, Object
  <2>2. CreateObject(make.seq, sObjs[make.obj].ver, known) /\ UNCHANGED <<sRt, handled>>
    BY <1>1 DEF SCreate, sHistory
  <2>3. sObjs' \in Seq(Object) /\ Extends(sObjs', sObjs)
    BY <2>1, <2>2, CreateObjectGrows
  <2>4. \A i \in DOMAIN s2c' :
           s2c'[i].code = "ROUNDTRIP_DONE" => s2c'[i] \in Range(s2c) \cup {RoundtripDone(sRt)}
    <3> DEFINE m == NewObject(make.seq, Len(sObjs) + 1)
    <3>1. m \in Message /\ m.code = "NEW_OBJECT"
      BY <1>t, <2>1, MessageTypes DEF NewObject, Plain
    <3>2. s2c' = s2c \/ s2c' = SentToClient(<<m>>)
      BY <2>2 DEF CreateObject
    <3> HIDE DEF m
    <3> QED BY <3>1, <3>2, <1>e, SentLast
  <2> QED BY <2>2, <2>3, <2>4, <1>0, <1>e, ServerAnswers
<1>2. ASSUME NEW id \in DOMAIN sObjs, SEmit(id) \/ SRaise(id)
      PROVE  AnswersInv'
  <2>1. UNCHANGED <<sObjs, sRt, handled>>
    BY <1>2 DEF SEmit, SRaise, sState
  <2> DEFINE event == Generic(id, "event", 0, Len(emitted) + 1)
             fatal == Plain("FATAL")
  <2>2. s2c' = SentToClient(<<event>>) \/ s2c' = SentToClient(<<fatal>>)
    BY <1>2 DEF SEmit, SRaise, Fail
  <2>3. event \in Message /\ event.code = "GENERIC" /\ fatal \in Message /\ fatal.code = "FATAL"
    <3>1. id \in Nat
      BY <1>t
    <3> QED BY <3>1, <1>t, MessageTypes DEF Generic, Plain, Codes, Methods
  <2> HIDE DEF event, fatal
  <2>4. \A i \in DOMAIN s2c' :
           s2c'[i].code = "ROUNDTRIP_DONE" => s2c'[i] \in Range(s2c) \cup {RoundtripDone(sRt)}
    BY <2>2, <2>3, SentLast
  <2> QED BY <2>1, <2>4, <1>0, <1>t, <1>e, ServerAnswers
<1>3. ASSUME SRemove \/ Tear
      PROVE  AnswersInv'
  <2>1. UNCHANGED <<sObjs, sRt, handled>>
    BY <1>3 DEF SRemove, Tear, sVars, sState, sHistory
  <2>2. \A i \in DOMAIN s2c' :
           s2c'[i].code = "ROUNDTRIP_DONE" => s2c'[i] \in Range(s2c) \cup {RoundtripDone(sRt)}
    <3>1. CASE s2c' = s2c
      BY <3>1, <1>e
    <3>2. CASE s2c # <<>> /\ s2c' = TearLast(s2c)
      <4>1. Len(s2c) \in DOMAIN s2c /\ s2c[Len(s2c)] \in Message
        BY <3>2, <1>t
      <4> DEFINE torn == [s2c[Len(s2c)] EXCEPT !.code = "MALFORMED"]
      <4>2. torn.code = "MALFORMED"
        BY <4>1 DEF Message
      <4>3. s2c' = [s2c EXCEPT ![Len(s2c)] = torn]
        BY <3>2 DEF TearLast
      <4> HIDE DEF torn
      <4>4. DOMAIN s2c' = DOMAIN s2c
            /\ \A i \in DOMAIN s2c : s2c'[i] = IF i = Len(s2c) THEN torn ELSE s2c[i]
        BY <4>1, <4>3
      <4>5. ASSUME NEW i \in DOMAIN s2c', s2c'[i].code = "ROUNDTRIP_DONE"
            PROVE  s2c'[i] \in Range(s2c)
        <5>1. i \in DOMAIN s2c /\ s2c'[i] = s2c[i]
          BY <4>2, <4>4, <4>5
        <5> QED BY <5>1, <1>e
      <4> QED BY <4>5
    <3>3. s2c' = s2c \/ (s2c # <<>> /\ s2c' = TearLast(s2c))
      BY <1>3 DEF SRemove, Tear
    <3> QED BY <3>1, <3>2, <3>3
  <2> QED BY <2>1, <2>2, <1>0, <1>t, <1>e, ServerAnswers
<1> QED
  BY <1>1, <1>2, <1>3 DEF ServerApp, ServerRemoves, SAppStep

LEMMA AnswersInvariant == Spec => []AnswersInv
<1>1. Init => AnswersInv
  BY InitAnswers
<1>2. AnswersInv /\ UNCHANGED vars => AnswersInv'
  <2> SUFFICES ASSUME AnswersInv, UNCHANGED vars PROVE AnswersInv'
    OBVIOUS
  <2>1. UNCHANGED <<s2c, cStack, cAckd, sRt, marks, handled, sObjs>>
    BY DEF vars, wireVars, cVars, cState, cHistory, sVars, sState, sHistory
  <2>2. IdsFit' = IdsFit /\ Arriving' = Arriving /\ ProcessedCalls' = ProcessedCalls
    BY <2>1 DEF IdsFit, Arriving, ProcessedCalls
  <2>3. \A k : Covered(k)' <=> Covered(k)
    BY <2>1, <2>2 DEF Covered
  <2> QED BY <2>1, <2>2, <2>3 DEF AnswersInv
<1>3. TypeOK /\ CallInv /\ DeliveryInv /\ AnswersInv /\ [Next]_vars => AnswersInv'
  BY <1>2, ClientAnswers, DispatchAnswers, ServerAppAnswers DEF Next, Idle
<1> QED BY <1>1, <1>3, DeliveryInvariant, PTL DEF Spec

(* The server answers a roundtrip at the end of the batch it was in, with one *)
(* ROUNDTRIP_DONE for the last of several, and also when the batch failed;    *)
(* when the client sees an answer, everything it had sent before it asked has *)
(* reached its object.  A call that was still deferred then is not covered,   *)
(* and none is when the server has more objects than one byte can number.     *)
THEOREM RoundtripCoverage == Spec => [](IdsFit => RoundtripCoversSent)
<1>1. TypeOK /\ AnswersInv /\ IdsFit => RoundtripCoversSent
  <2> SUFFICES ASSUME TypeOK, AnswersInv, IdsFit, NEW k \in DOMAIN marks, k <= cAckd
               PROVE  Marked(marks[k]) \subseteq ProcessedCalls
    BY DEF RoundtripCoversSent, Marked
  <2>1. Covered(cAckd) /\ DOMAIN marks = 1..Len(marks) /\ Len(marks) \in Nat
    BY DEF AnswersInv, TypeOK, ClientTypeOK
  <2>2. k \in 1..cAckd
    BY <2>1 DEF Covered
  <2> QED BY <2>1, <2>2 DEF Covered
<1> QED BY <1>1, AnswersInvariant, DeliveryInvariant, PTL

-----------------------------------------------------------------------------
(* The two ends implement CallDelivery.                                       *)

(* What CallDelivery sees of a history of calls and of processed calls.       *)
MadeOf(calls) == [k \in DOMAIN calls |-> [to |-> calls[k].to, nested |-> calls[k].nested]]
DoneOf(hs, objects) == [i \in DOMAIN hs |-> [n |-> hs[i].n, on |-> objects[hs[i].at].seq]]

LEMMA FunctionIsSeq ==
    ASSUME NEW S, NEW n \in Nat, NEW f \in [1..n -> S]
    PROVE  f \in Seq(S) /\ Len(f) = n /\ DOMAIN f = 1..n
<1>1. f \in Seq(S)
  BY SeqDef
<1>2. Len(f) \in Nat /\ 1..Len(f) = 1..n
  BY <1>1, LenProperties
<1>3. Len(f) = n
  BY <1>2
<1> QED BY <1>1, <1>3

LEMMA GrowsByOne ==
    ASSUME NEW S, NEW n \in Nat, NEW f \in [1..n -> S], NEW g \in [1..n + 1 -> S],
           \A k \in 1..n : g[k] = f[k]
    PROVE  g = Append(f, g[n + 1])
<1>1. f \in Seq(S) /\ Len(f) = n /\ n + 1 \in Nat /\ DOMAIN f = 1..n
  BY FunctionIsSeq
<1>2. g \in Seq(S) /\ Len(g) = n + 1 /\ g[n + 1] \in S
  BY <1>1, FunctionIsSeq
<1>3. /\ Append(f, g[n + 1]) \in Seq(S) /\ Len(Append(f, g[n + 1])) = n + 1
      /\ \A k \in 1..n : Append(f, g[n + 1])[k] = f[k]
      /\ Append(f, g[n + 1])[n + 1] = g[n + 1]
  BY <1>1, <1>2, AppendProperties
<1>4. \A k \in 1..n + 1 : g[k] = Append(f, g[n + 1])[k]
  <2>1. \A k \in 1..n + 1 : k \in 1..n \/ k = n + 1
    OBVIOUS
  <2> QED BY <2>1, <1>3
<1> QED BY <1>2, <1>3, <1>4, SeqEqual

LEMMA MadeType ==
    ASSUME NEW calls \in Seq(Call)
    PROVE  MadeOf(calls) \in [1..Len(calls) -> [to : Nat, nested : BOOLEAN]]
<1>1. Len(calls) \in Nat /\ DOMAIN calls = 1..Len(calls)
  OBVIOUS
<1>2. ASSUME NEW k \in 1..Len(calls)
      PROVE  [to |-> calls[k].to, nested |-> calls[k].nested] \in [to : Nat, nested : BOOLEAN]
  <2>1. calls[k] \in Call
    BY <1>1
  <2> QED BY <2>1 DEF Call
<1> QED BY <1>1, <1>2 DEF MadeOf

LEMMA MadeGrows ==
    ASSUME NEW calls \in Seq(Call), NEW call \in Call
    PROVE  MadeOf(Append(calls, call)) = Append(MadeOf(calls), [to |-> call.to, nested |-> call.nested])
<1> DEFINE S == [to : Nat, nested : BOOLEAN]
           n == Len(calls)
           f == MadeOf(calls)
           g == MadeOf(Append(calls, call))
<1>1. /\ n \in Nat /\ DOMAIN calls = 1..n
      /\ Append(calls, call) \in Seq(Call) /\ Len(Append(calls, call)) = n + 1
      /\ DOMAIN Append(calls, call) = 1..n + 1
      /\ Append(calls, call)[n + 1] = call
      /\ \A k \in 1..n : Append(calls, call)[k] = calls[k]
  OBVIOUS
<1>2. f \in [1..n -> S] /\ g \in [1..n + 1 -> S]
  BY <1>1, MadeType
<1>3. \A k \in 1..n : g[k] = f[k]
  <2>1. \A k \in 1..n : k \in DOMAIN Append(calls, call) /\ k \in DOMAIN calls
    BY <1>1
  <2> QED BY <2>1, <1>1 DEF MadeOf
<1>4. g[n + 1] = [to |-> call.to, nested |-> call.nested]
  <2>1. n + 1 \in DOMAIN Append(calls, call)
    BY <1>1
  <2> QED BY <2>1, <1>1 DEF MadeOf
<1> HIDE DEF S, n, f, g
<1>5. g = Append(f, g[n + 1])
  BY <1>1, <1>2, <1>3, GrowsByOne
<1> QED BY <1>4, <1>5 DEF f, g, n

LEMMA DoneKept ==
    ASSUME NEW hs, NEW objects, NEW more, Extends(more, objects),
           \A i \in DOMAIN hs : hs[i].at \in DOMAIN objects
    PROVE  DoneOf(hs, more) = DoneOf(hs, objects)
<1>1. \A i \in DOMAIN hs : more[hs[i].at].seq = objects[hs[i].at].seq
  BY DEF Extends
<1> QED BY <1>1 DEF DoneOf

LEMMA DoneType ==
    ASSUME NEW objects \in Seq(Object), NEW hs \in Seq([n : Nat, at : Nat]),
           \A i \in DOMAIN hs : hs[i].at \in DOMAIN objects
    PROVE  DoneOf(hs, objects) \in [1..Len(hs) -> [n : Nat, on : Nat]]
<1>1. Len(hs) \in Nat /\ DOMAIN hs = 1..Len(hs)
  OBVIOUS
<1>2. ASSUME NEW i \in 1..Len(hs)
      PROVE  [n |-> hs[i].n, on |-> objects[hs[i].at].seq] \in [n : Nat, on : Nat]
  <2>1. i \in DOMAIN hs /\ hs[i].at \in DOMAIN objects
    BY <1>1
  <2>2. hs[i] \in [n : Nat, at : Nat]
    BY <1>1, ElementOfSeq
  <2>3. objects[hs[i].at] \in Object
    BY <2>1
  <2> QED BY <2>2, <2>3 DEF Object
<1> QED BY <1>1, <1>2 DEF DoneOf

LEMMA DoneGrows ==
    ASSUME NEW objects \in Seq(Object), NEW hs \in Seq([n : Nat, at : Nat]),
           \A i \in DOMAIN hs : hs[i].at \in DOMAIN objects,
           NEW call \in [n : Nat, at : Nat], call.at \in DOMAIN objects
    PROVE  DoneOf(Append(hs, call), objects)
               = Append(DoneOf(hs, objects), [n |-> call.n, on |-> objects[call.at].seq])
<1> DEFINE S == [n : Nat, on : Nat]
           n == Len(hs)
           f == DoneOf(hs, objects)
           g == DoneOf(Append(hs, call), objects)
<1>1. /\ n \in Nat /\ DOMAIN hs = 1..n
      /\ Append(hs, call) \in Seq([n : Nat, at : Nat]) /\ Len(Append(hs, call)) = n + 1
      /\ DOMAIN Append(hs, call) = 1..n + 1
      /\ Append(hs, call)[n + 1] = call
      /\ \A k \in 1..n : Append(hs, call)[k] = hs[k]
  OBVIOUS
<1>2. f \in [1..n -> S] /\ g \in [1..n + 1 -> S]
  <2>1. \A k \in 1..n + 1 : k \in 1..n \/ k = n + 1
    BY <1>1
  <2>2. \A k \in DOMAIN Append(hs, call) : Append(hs, call)[k].at \in DOMAIN objects
    BY <1>1, <2>1
  <2> QED BY <1>1, <2>2, DoneType
<1>3. \A k \in 1..n : g[k] = f[k]
  <2>1. \A k \in 1..n : k \in DOMAIN Append(hs, call) /\ k \in DOMAIN hs
    BY <1>1
  <2> QED BY <2>1, <1>1 DEF DoneOf
<1>4. g[n + 1] = [n |-> call.n, on |-> objects[call.at].seq]
  <2>1. n + 1 \in DOMAIN Append(hs, call)
    BY <1>1
  <2> QED BY <2>1, <1>1 DEF DoneOf
<1> HIDE DEF S, n, f, g
<1>5. g = Append(f, g[n + 1])
  BY <1>1, <1>2, <1>3, GrowsByOne
<1> QED BY <1>4, <1>5 DEF f, g, n

(* The number of objects that the client makes is bounded.                    *)
ObjectsBounded == Len(cObjs) <= MaxObjects

LEMMA BoundStep == TypeOK /\ ObjectsBounded /\ [Next]_vars => ObjectsBounded'
<1> SUFFICES ASSUME TypeOK, ObjectsBounded, [Next]_vars PROVE ObjectsBounded'
  OBVIOUS
<1>t. cObjs \in Seq(Handle) /\ Len(cObjs) \in Nat /\ MaxObjects \in Nat
  BY ClientAssumption DEF TypeOK, ClientTypeOK
<1>1. ASSUME NEW ver \in BindVersions, CBind(ver)
      PROVE  ObjectsBounded'
  BY <1>1, <1>t DEF CBind, ObjectsBounded
<1>2. ASSUME NEW h \in DOMAIN cObjs, NEW method \in {"call", "make"}, CCall(h, method)
      PROVE  ObjectsBounded'
  <2>1. CASE method = "make"
    BY <1>2, <1>t, <2>1 DEF CCall, NextSeq, ObjectsBounded
  <2>2. CASE method # "make"
    BY <1>2, <2>2 DEF CCall, ObjectsBounded
  <2> QED BY <2>1, <2>2
<1>3. CASE CLoopReturns
  <2>1. Len(cObjs') = Len(cObjs)
    BY <1>3, <1>t DEF CLoopReturns
  <2> QED BY <2>1 DEF ObjectsBounded
<1>4. CASE CHandleNewObject
  <2>1. Len(cObjs') = Len(cObjs)
    BY <1>4, <1>t DEF CHandleNewObject, OnSeq
  <2> QED BY <2>1 DEF ObjectsBounded
<1>5. CASE cObjs' = cObjs
  BY <1>5 DEF ObjectsBounded
<1>6. \/ cObjs' = cObjs \/ CLoopReturns \/ CHandleNewObject
      \/ \E ver \in BindVersions : CBind(ver)
      \/ \E h \in DOMAIN cObjs, method \in {"call", "make"} : CCall(h, method)
  BY DEF Next, ClientApp, ClientLeaves, ClientLibrary, ClientTime, ServerDispatch, ServerApp,
     ServerRemoves, Tear, Idle, AppStep, LibraryStep, HandleStep,
     CWaitForHandshake, CDispatch, CBindTooNew, CRoundtrip, CDestroy, CHandshakeTimeout,
     CClockRunsOut, CDispatchFails, CNothingToRead, CRead, CHandleHandshakeBegin,
     CHandleProtocols, CHandleEvent, CDropEvent, CHandleFatal, CHandleRoundtripDone,
     CHandleMalformed, CFlushOne, CBatchDone, CListenerReturn, vars, cVars, cState
<1> QED BY <1>1, <1>2, <1>3, <1>4, <1>5, <1>6

LEMMA BoundInvariant == Spec => []ObjectsBounded
<1>1. Init => ObjectsBounded
  BY ClientAssumption DEF Init, ClientInit, ObjectsBounded
<1> QED BY <1>1, BoundStep, TypeCorrect, PTL DEF Spec

(* The calls that were processed reached an object the server has.            *)
LEMMA DoneAt ==
    ASSUME CallInv, IdsFit
    PROVE  \A i \in DOMAIN handled : handled[i].at \in DOMAIN sObjs
  BY DEF CallInv, HandledOK, AgreeIn

(* A step that makes no call and processes none is a stutter.                 *)
LEMMA OtherDelivers ==
    ASSUME TypeOK, CallInv, IdsFit, [Next]_vars,
           UNCHANGED <<issued, handled>>
    PROVE  UNCHANGED <<MadeOf(issued), DoneOf(handled, sObjs)>>
<1>1. Extends(sObjs', sObjs)
  <2>t. sObjs \in Seq(Object) /\ sBatch \in Seq(Message)
    BY DEF TypeOK, ServerTypeOK
  <2>1. CASE sObjs' = sObjs
    BY <2>1 DEF Extends
  <2>2. CASE SHandleBind
    <3>1. Head(sBatch).seq \in Nat /\ Head(sBatch).ver \in Nat /\ TRUE \in BOOLEAN
      BY <2>2, SHandlingType DEF SHandleBind, TypeOK
    <3>2. CreateObject(Head(sBatch).seq, Head(sBatch).ver, TRUE)
      BY <2>2 DEF SHandleBind
    <3> QED BY <3>1, <3>2, CreateObjectGrows
  <2>3. ASSUME NEW make \in sMakes, NEW known \in BOOLEAN, SCreate(make, known)
        PROVE  Extends(sObjs', sObjs)
    <3>1. make.seq \in Nat /\ sObjs[make.obj].ver \in Nat
      <4>1. make \in Make /\ make.obj \in DOMAIN sObjs
        BY DEF TypeOK, ServerTypeOK, ServerRefsOK
      <4>2. sObjs[make.obj] \in Object
        BY <4>1, <2>t
      <4> QED BY <4>1, <4>2 DEF Make, Object
    <3>2. CreateObject(make.seq, sObjs[make.obj].ver, known)
      BY <2>3 DEF SCreate
    <3> QED BY <3>1, <3>2, CreateObjectGrows
  <2>4. \/ sObjs' = sObjs \/ SHandleBind
        \/ \E make \in sMakes, known \in BOOLEAN : SCreate(make, known)
    BY DEF Next, ClientApp, ClientLeaves, ClientLibrary, ClientTime, ServerDispatch, ServerApp,
       ServerRemoves, Tear, Idle, DispatchStep, SAppStep, SRead, SHandleHello, SHandleAck,
       SHandleCall, SHandleRoundtrip, SHandleMalformed, SBatchDone, SHangup, SEmit, SRaise,
       SRemove, vars, sVars, sState
  <2> QED BY <2>1, <2>2, <2>3, <2>4
<1>2. DoneOf(handled, sObjs') = DoneOf(handled, sObjs)
  BY <1>1, DoneAt, DoneKept
<1> QED BY <1>2

(* The application's call is one that CallDelivery lets be made.              *)
LEMMA CallDelivers ==
    ASSUME TypeOK, ObjectsBounded, UNCHANGED sVars,
           NEW h \in DOMAIN cObjs, NEW method \in {"call", "make"}, CCall(h, method)
    PROVE  /\ DoneOf(handled, sObjs)' = DoneOf(handled, sObjs)
           /\ \E object \in 1..MaxObjects, nested \in BOOLEAN :
                 MadeOf(issued') = Append(MadeOf(issued), [to |-> object, nested |-> nested])
<1>1. /\ cObjs \in Seq(Handle) /\ issued \in Seq(Call) /\ MaxObjects \in Nat
      /\ Len(cObjs) \in Nat /\ Len(cObjs) + 1 \in Nat /\ DOMAIN cObjs = 1..Len(cObjs)
  BY ClientAssumption DEF TypeOK, ClientTypeOK
<1>2. h \in 1..MaxObjects
  BY <1>1 DEF ObjectsBounded
<1> DEFINE returns == IF method = "make" THEN NextSeq ELSE 0
           call == [to |-> h, returns |-> returns, nested |-> cStack # <<>>]
<1>3. issued' = Append(issued, call)
  BY DEF CCall
<1>4. call \in Call /\ call.to = h /\ call.nested \in BOOLEAN
  <2>1. returns \in Nat /\ h \in Nat /\ (cStack # <<>>) \in BOOLEAN
    BY <1>1 DEF NextSeq
  <2> QED BY <2>1 DEF Call
<1> HIDE DEF call
<1>5. MadeOf(issued') = Append(MadeOf(issued), [to |-> h, nested |-> call.nested])
  BY <1>1, <1>3, <1>4, MadeGrows
<1>6. DoneOf(handled, sObjs)' = DoneOf(handled, sObjs)
  BY DEF sVars, sState, sHistory
<1> QED BY <1>2, <1>4, <1>5, <1>6

(* The server processes the call that CallDelivery lets be processed: a call  *)
(* on its way, that nobody processed yet, and in front of which nothing waits *)
(* for the same object, if the listener of an event did not make it.          *)
LEMMA HandleDelivers ==
    ASSUME TypeOK, CallInv, DeliveryInv, IdsFit, SHandleCall, handled' # handled, issued' = issued
    PROVE  \E n \in DOMAIN issued :
              /\ n \notin ProcessedCalls
              /\ issued[n].nested
                 \/ \A k \in 1..n - 1 : issued[k].to = issued[n].to => k \in ProcessedCalls
              /\ DoneOf(handled', sObjs')
                     = Append(DoneOf(handled, sObjs), [n |-> n, on |-> issued[n].to])
<1> DEFINE m == Head(sBatch)
           call == [n |-> m.n, at |-> m.id]
<1>t. /\ sObjs \in Seq(Object) /\ handled \in Seq([n : Nat, at : Nat])
      /\ c2s \in Seq(Message) /\ sBatch \in Seq(Message)
      /\ issued \in Seq(Call)
  BY DEF TypeOK, ServerTypeOK, WireTypeOK, ClientTypeOK
<1>1. /\ sBatch # <<>> /\ ~sError /\ m.code = "GENERIC" /\ sObjs' = sObjs
      /\ handled' = Append(handled, call)
  BY DEF SHandleCall, SHandling
<1>2. 1 \in DOMAIN sBatch /\ m = sBatch[1] /\ m \in Message
  BY <1>1, <1>t, HeadTailElements
<1>3. m = Stream[1] /\ 1 \in DOMAIN Stream /\ DOMAIN Stream \subseteq Nat \ {0}
  <2>1. Stream[1] = sBatch[1] /\ DOMAIN Stream = 1..Len(sBatch) + Len(c2s)
        /\ Len(sBatch) \in Nat /\ Len(c2s) \in Nat /\ DOMAIN sBatch = 1..Len(sBatch)
    BY <1>2, <1>t, ConcatShape DEF Stream
  <2> QED BY <1>2, <2>1
<1>4. m.n # 0 /\ m.n \in DOMAIN issued
  BY <1>1, <1>3 DEF DeliveryInv, FlightInv, NumberedInv
<1>5. m.n \notin ProcessedCalls
  <2>1. Sent(m.n)
    BY <1>3 DEF Sent
  <2> QED BY <1>4, <2>1 DEF DeliveryInv, FlightInv, OnceInv, Done
<1>6. ASSUME ~issued[m.n].nested, NEW k \in 1..m.n - 1, issued[k].to = issued[m.n].to
      PROVE  k \in ProcessedCalls
  <2>1. k \in DOMAIN issued /\ k < m.n
    BY <1>4, <1>6, <1>t
  <2>2. k \in Needs(Stream[1], issued, marks)
    BY <1>1, <1>3, <1>6, <2>1 DEF Needs
  <2>3. Behind(k, 1)
    BY <1>1, <1>3, <2>2 DEF DeliveryInv, FlightInv, QueueInv
  <2>4. \A p \in DOMAIN Stream : ~(p < 1)
    BY <1>3
  <2> QED BY <2>3, <2>4 DEF Behind, Done
<1>7. m.id \in DOMAIN sObjs /\ sObjs[m.id].seq = issued[m.n].to
  BY <1>1, <1>2 DEF CallInv, AllAddressed, Addressed, AgreeIn
<1>8. call \in [n : Nat, at : Nat] /\ call.n = m.n /\ call.at = m.id
  BY <1>2 DEF Message
<1> HIDE DEF call, m
<1>9. DoneOf(handled', sObjs')
          = Append(DoneOf(handled, sObjs), [n |-> m.n, on |-> issued[m.n].to])
  <2>1. DoneOf(Append(handled, call), sObjs)
            = Append(DoneOf(handled, sObjs), [n |-> call.n, on |-> sObjs[call.at].seq])
    BY <1>t, <1>7, <1>8, DoneAt, DoneGrows
  <2> QED BY <2>1, <1>1, <1>7, <1>8
<1> QED BY <1>4, <1>5, <1>6, <1>9

LEMMA InitDelivers == Init => Delivery!DeliveryInit
<1> SUFFICES ASSUME Init PROVE Delivery!DeliveryInit
  OBVIOUS
<1>1. issued = <<>> /\ handled = <<>>
  BY DEF Init, ClientInit, ServerInit
<1>2. [k \in DOMAIN issued |-> [to |-> issued[k].to, nested |-> issued[k].nested]] = <<>>
  BY <1>1
<1>3. [i \in DOMAIN handled |-> [n |-> handled[i].n, on |-> sObjs[handled[i].at].seq]] = <<>>
  BY <1>1
<1> QED BY <1>2, <1>3 DEF Delivery!DeliveryInit

LEMMA StepDelivers ==
    ASSUME TypeOK, CallInv, DeliveryInv, ObjectsBounded, IdsFit, [Next]_vars
    PROVE  [Delivery!DeliveryNext]_<<
              [k \in DOMAIN issued |-> [to |-> issued[k].to, nested |-> issued[k].nested]],
              [i \in DOMAIN handled |-> [n |-> handled[i].n, on |-> sObjs[handled[i].at].seq]]>>
<1> DEFINE Made == [k \in DOMAIN issued |-> [to |-> issued[k].to, nested |-> issued[k].nested]]
           Processed == [i \in DOMAIN handled |->
                            [n |-> handled[i].n, on |-> sObjs[handled[i].at].seq]]
<1>m. Made = MadeOf(issued) /\ Made' = MadeOf(issued')
      /\ Processed = DoneOf(handled, sObjs) /\ Processed' = DoneOf(handled', sObjs')
  BY DEF MadeOf, DoneOf
<1>1. CASE UNCHANGED <<issued, handled>>
  BY <1>1, <1>m, OtherDelivers
<1>2. ASSUME NEW h \in DOMAIN cObjs, NEW method \in {"call", "make"}, CCall(h, method),
             UNCHANGED sVars
      PROVE  Delivery!DeliveryNext
  <2>1. PICK object \in 1..MaxObjects, nested \in BOOLEAN :
           MadeOf(issued') = Append(MadeOf(issued), [to |-> object, nested |-> nested])
    BY <1>2, CallDelivers
  <2>2. DoneOf(handled', sObjs') = DoneOf(handled, sObjs)
    BY <1>2, CallDelivers DEF sVars, sState, sHistory
  <2>3. Made' = Append(Made, [to |-> object, nested |-> nested]) /\ Processed' = Processed
    BY <2>1, <2>2, <1>m
  <2>4. Delivery!MakeCall(object, nested)
    BY <2>3 DEF Delivery!MakeCall
  <2> QED BY <2>4 DEF Delivery!DeliveryNext
<1>3. ASSUME SHandleCall, handled' # handled, issued' = issued
      PROVE  Delivery!DeliveryNext
  <2>1. PICK n \in DOMAIN issued :
              /\ n \notin ProcessedCalls
              /\ issued[n].nested
                 \/ \A k \in 1..n - 1 : issued[k].to = issued[n].to => k \in ProcessedCalls
              /\ DoneOf(handled', sObjs')
                     = Append(DoneOf(handled, sObjs), [n |-> n, on |-> issued[n].to])
    BY <1>3, HandleDelivers
  <2>d. DOMAIN Made = DOMAIN issued /\ DOMAIN issued = 1..Len(issued) /\ Len(issued) \in Nat
    BY DEF TypeOK, ClientTypeOK
  <2>p. Delivery!Processed = ProcessedCalls
    BY DEF Delivery!Processed, ProcessedCalls
  <2>2. n \notin Delivery!Processed
    BY <2>1, <2>p
  <2>3. Made[n].nested \/ \A k \in Delivery!Earlier(n) : k \in Delivery!Processed
    <3>1. \A k \in 1..n - 1 : k \in DOMAIN issued
      BY <2>d
    <3>2. \A k \in Delivery!Earlier(n) : k \in 1..n - 1 /\ issued[k].to = issued[n].to
      BY <3>1 DEF Delivery!Earlier
    <3>3. issued[n].nested => Made[n].nested
      OBVIOUS
    <3> QED BY <2>1, <2>p, <3>2, <3>3
  <2>4. Processed' = Append(Processed, [n |-> n, on |-> Made[n].to])
    BY <2>1, <1>m
  <2>5. Made' = Made
    BY <1>3
  <2>6. Delivery!Process(n)
    BY <2>2, <2>3, <2>4, <2>5 DEF Delivery!Process
  <2> QED BY <2>6, <2>d DEF Delivery!DeliveryNext
<1>4. \/ UNCHANGED <<issued, handled>>
      \/ UNCHANGED sVars /\ \E h \in DOMAIN cObjs, method \in {"call", "make"} : CCall(h, method)
      \/ SHandleCall /\ issued' = issued
  BY DEF Next, ClientApp, ClientLeaves, ClientLibrary, ClientTime, ServerDispatch, ServerApp,
     ServerRemoves, Tear, Idle, AppStep, LibraryStep, HandleStep, DispatchStep, SAppStep,
     CWaitForHandshake, CDispatch, CBind, CBindTooNew, CRoundtrip, CDestroy, CHandshakeTimeout,
     CClockRunsOut, CLoopReturns, CDispatchFails, CNothingToRead, CRead, CHandleHandshakeBegin,
     CHandleProtocols, CHandleNewObject, CHandleEvent, CDropEvent, CHandleFatal,
     CHandleRoundtripDone, CHandleMalformed, CFlushOne, CBatchDone, CListenerReturn,
     SRead, SHandleHello, SHandleAck, SHandleBind, SHandleRoundtrip, SHandleMalformed,
     SBatchDone, SHangup, SCreate, SEmit, SRaise, SRemove,
     vars, cVars, cState, cHistory, sVars, sState, sHistory
<1> QED BY <1>1, <1>2, <1>3, <1>4

(* The library keeps what it promises about calls, through deferral, flush,   *)
(* wire and dispatch: each is processed at most once, by the object it was    *)
(* made on, and in the order of the calls on that object, but for those that  *)
(* listeners make; whatever fails, and for as long as one byte can hold the   *)
(* ids of the server's objects.                                               *)
THEOREM CallsImplementDelivery == Spec /\ []IdsFit => ImplementsCallDelivery
<1>1. TypeOK /\ CallInv /\ DeliveryInv /\ ObjectsBounded /\ IdsFit /\ [Next]_vars
          => [Delivery!DeliveryNext]_<<
                [k \in DOMAIN issued |-> [to |-> issued[k].to, nested |-> issued[k].nested]],
                [i \in DOMAIN handled |-> [n |-> handled[i].n, on |-> sObjs[handled[i].at].seq]]>>
  BY StepDelivers
<1> QED BY <1>1, InitDelivers, DeliveryInvariant, BoundInvariant, PTL
        DEF Spec, ImplementsCallDelivery, Delivery!DeliverySpec


-----------------------------------------------------------------------------
(* Answers and the callers that wait for them.                                *)

(* What of a sequence of messages is about roundtrips.                        *)
Carries(ms, code, k) == \E i \in DOMAIN ms : ms[i].code = code /\ ms[i].seq = k
Ascending(ms, code) ==
    \A i, j \in DOMAIN ms : i < j /\ ms[i].code = code /\ ms[j].code = code => ms[i].seq < ms[j].seq

Answer == "ROUNDTRIP_DONE"
Request == "ROUNDTRIP_REQUEST"
Scheduled(k) == sRt > 0 /\ sRt = k

(* Roundtrip k is requested, and the client has not read the answer.          *)
Outside(k) == Carries(s2c, Answer, k) \/ Scheduled(k) \/ Carries(Stream, Request, k)

(* Requests and answers pass the server in the order of their sequences.      *)
LineInv ==
    /\ Ascending(s2c, Answer) /\ Ascending(Stream, Request)
    /\ \A j, k : Carries(s2c, Answer, j) /\ Scheduled(k) => j < k
    /\ \A j, k : Carries(s2c, Answer, j) /\ Carries(Stream, Request, k) => j < k
    /\ \A j, k : Scheduled(j) /\ Carries(Stream, Request, k) => j < k

Awaits(frame, k) == frame.kind = "roundtrip" /\ frame.arg = k

(* The roundtrips of a stack are the later the deeper they are, and an answer *)
(* that a batch holds is awaited by a frame further out.                      *)
StackInv(stack, sent) ==
    /\ \A d \in DOMAIN stack : stack[d].kind = "roundtrip" => stack[d].arg <= sent
    /\ \A d, e \in DOMAIN stack :
          d < e /\ stack[d].kind = "roundtrip" /\ stack[e].kind = "roundtrip"
              => stack[d].arg < stack[e].arg
    /\ \A d \in DOMAIN stack : \A k : Carries(stack[d].msgs, Answer, k) =>
          \E e \in DOMAIN stack : e < d /\ Awaits(stack[e], k)

(* What is still outside is newer than what the client has read, and awaited, *)
(* as long as the client can read it.                                         *)
OutsideInv ==
    \A k : Outside(k) =>
        /\ k <= cSentRt /\ cAckd < k
        /\ \A d \in DOMAIN cStack : \A j : Carries(cStack[d].msgs, Answer, j) => j < k
        /\ ~cError /\ sOpen => \E d \in DOMAIN cStack : Awaits(cStack[d], k)

AwaitedInv == LineInv /\ StackInv(cStack, cSentRt) /\ cAckd <= cSentRt /\ OutsideInv

(* Messages of one code go from the front or from the end, and none come.     *)
Thinned(new, old, code) ==
    \E k \in Nat : \A i \in DOMAIN new :
        i \in Nat /\ (new[i].code = code => i + k \in DOMAIN old /\ new[i] = old[i + k])

LEMMA ThinnedLine ==
    ASSUME NEW S, NEW old \in Seq(S), NEW new, NEW code, Thinned(new, old, code)
    PROVE  /\ Ascending(old, code) => Ascending(new, code)
           /\ \A k : Carries(new, code, k) => Carries(old, code, k)
<1>1. PICK k \in Nat : \A i \in DOMAIN new :
         i \in Nat /\ (new[i].code = code => i + k \in DOMAIN old /\ new[i] = old[i + k])
  BY DEF Thinned
<1>2. \A i, j \in DOMAIN new : i < j => i + k < j + k
  BY <1>1
<1> QED BY <1>1, <1>2 DEF Ascending, Carries

LEMMA ThinnedShapes ==
    ASSUME NEW S, NEW s \in Seq(S), NEW code
    PROVE  /\ Thinned(s, s, code)
           /\ \A new : Part(new, s) => Thinned(new, s, code)
           /\ \A m \in S : m.code # code => Thinned(Append(s, m), s, code)
<1>1. ASSUME NEW new, Part(new, s) PROVE Thinned(new, s, code)
  BY <1>1 DEF Part, Thinned
<1>2. ASSUME NEW m \in S, m.code # code PROVE Thinned(Append(s, m), s, code)
  <2>1. \A i \in DOMAIN Append(s, m) :
           i \in Nat /\ (Append(s, m)[i] = m \/ (i + 0 \in DOMAIN s /\ Append(s, m)[i] = s[i + 0]))
    BY AppendType
  <2> QED BY <1>2, <2>1 DEF Thinned
<1> QED BY <1>1, <1>2, PartShapes

LEMMA QuietLine ==
    ASSUME TypeOK, LineInv, sRt' = sRt \/ sRt' = 0,
           Thinned(s2c', s2c, Answer), Thinned(Stream', Stream, Request)
    PROVE  LineInv' /\ \A k : Outside(k)' => Outside(k)
<1>t. s2c \in Seq(Message) /\ Stream \in Seq(Message)
  BY StreamType DEF TypeOK, WireTypeOK
<1>1. /\ Ascending(s2c', Answer)
      /\ \A k : Carries(s2c', Answer, k) => Carries(s2c, Answer, k)
  BY <1>t, ThinnedLine DEF LineInv
<1>2. /\ Ascending(Stream', Request)
      /\ \A k : Carries(Stream', Request, k) => Carries(Stream, Request, k)
  BY <1>t, ThinnedLine DEF LineInv
<1>3. \A k : Scheduled(k)' => Scheduled(k)
  BY DEF Scheduled
<1>4. Ascending(s2c, Answer)' /\ Ascending(Stream, Request)'
  BY <1>1, <1>2 DEF Ascending
<1>5. \A k : /\ Carries(s2c, Answer, k)' => Carries(s2c, Answer, k)
             /\ Carries(Stream, Request, k)' => Carries(Stream, Request, k)
  BY <1>1, <1>2 DEF Carries
<1> QED BY <1>3, <1>4, <1>5 DEF LineInv, Outside

(* A stack of which frames at the end are gone, batches are partly handled,   *)
(* or a frame without messages has come that awaits no answer.                *)
Trimmed(new, old) ==
    \A d \in DOMAIN new :
        \/ /\ d \in DOMAIN old /\ new[d].kind = old[d].kind /\ new[d].arg = old[d].arg
           /\ Part(new[d].msgs, old[d].msgs)
        \/ d = Len(new) /\ new[d].kind # "roundtrip" /\ new[d].msgs = <<>>

LEMMA TrimmedStack ==
    ASSUME NEW old \in Seq(Frame), NEW new \in Seq(Frame), NEW sent, StackInv(old, sent), Trimmed(new, old)
    PROVE  /\ StackInv(new, sent)
           /\ \A d \in DOMAIN new : \A k : Carries(new[d].msgs, Answer, k) =>
                 d \in DOMAIN old /\ Carries(old[d].msgs, Answer, k)
<1>1. ASSUME NEW d \in DOMAIN new, NEW k, Carries(new[d].msgs, Answer, k)
      PROVE  d \in DOMAIN old /\ Carries(old[d].msgs, Answer, k)
  <2>1. d \in DOMAIN old /\ Part(new[d].msgs, old[d].msgs)
    BY <1>1 DEF Trimmed, Carries
  <2> QED BY <2>1, <1>1 DEF Part, Carries
<1>2. ASSUME NEW d \in DOMAIN new, new[d].kind = "roundtrip"
      PROVE  d \in DOMAIN old /\ old[d].kind = "roundtrip" /\ old[d].arg = new[d].arg
  BY <1>2 DEF Trimmed
<1>3. ASSUME NEW d \in DOMAIN new, NEW k, Carries(new[d].msgs, Answer, k)
      PROVE  \E e \in DOMAIN new : e < d /\ Awaits(new[e], k)
  <2>1. PICK e \in DOMAIN old : e < d /\ Awaits(old[e], k)
    BY <1>1, <1>3 DEF StackInv
  <2>2. e \in DOMAIN new /\ e # Len(new)
    BY <2>1
  <2>3. new[e].kind = old[e].kind /\ new[e].arg = old[e].arg
    BY <2>2 DEF Trimmed
  <2> QED BY <2>1, <2>2, <2>3 DEF Awaits
<1> QED BY <1>1, <1>2, <1>3 DEF StackInv

(* A roundtrip leaves the stack when it is answered.                          *)
Keeps(new, old) ==
    \A d \in DOMAIN old : old[d].kind = "roundtrip" =>
        \/ d \in DOMAIN new /\ new[d].kind = "roundtrip" /\ new[d].arg = old[d].arg
        \/ old[d].arg <= cAckd

(* A step that asks for nothing and reads nothing.                            *)
LEMMA MovedAwaited ==
    ASSUME TypeOK, TypeOK', AwaitedInv, cSentRt' = cSentRt,
           LineInv', \A k : Outside(k)' => Outside(k),
           Trimmed(cStack', cStack),
           ~cError' /\ sOpen' => ~cError /\ sOpen /\ Keeps(cStack', cStack),
           cAckd' = cAckd \/ \E d \in DOMAIN cStack : Carries(cStack[d].msgs, Answer, cAckd')
    PROVE  AwaitedInv'
<1>t. /\ cStack \in Seq(Frame) /\ cStack' \in Seq(Frame) /\ cSentRt \in Nat /\ cAckd \in Nat /\ cAckd' \in Nat
  BY DEF TypeOK, ClientTypeOK
<1>1. LineInv' /\ \A k : Outside(k)' => Outside(k)
  OBVIOUS
<1>2. /\ StackInv(cStack', cSentRt')
      /\ \A d \in DOMAIN cStack' : \A k : Carries(cStack'[d].msgs, Answer, k) =>
            d \in DOMAIN cStack /\ Carries(cStack[d].msgs, Answer, k)
  BY <1>t, TrimmedStack DEF AwaitedInv
<1>3. cAckd' <= cSentRt
  <2>1. ASSUME NEW d \in DOMAIN cStack, Carries(cStack[d].msgs, Answer, cAckd')
        PROVE  cAckd' <= cSentRt
    BY <2>1 DEF AwaitedInv, StackInv, Awaits
  <2> QED BY <2>1 DEF AwaitedInv
<1>4. ASSUME NEW k, Outside(k)
      PROVE  /\ k <= cSentRt' /\ cAckd' < k
             /\ \A d \in DOMAIN cStack' : \A j : Carries(cStack'[d].msgs, Answer, j) => j < k
             /\ ~cError' /\ sOpen' => \E d \in DOMAIN cStack' : Awaits(cStack'[d], k)
  <2>1. /\ k <= cSentRt /\ cAckd < k
        /\ \A d \in DOMAIN cStack : \A j : Carries(cStack[d].msgs, Answer, j) => j < k
        /\ ~cError /\ sOpen => \E d \in DOMAIN cStack : Awaits(cStack[d], k)
    BY <1>4 DEF AwaitedInv, OutsideInv
  <2>2. ASSUME ~cError', sOpen' PROVE \E d \in DOMAIN cStack' : Awaits(cStack'[d], k)
    <3>1. PICK d \in DOMAIN cStack : Awaits(cStack[d], k)
      BY <2>1, <2>2
    <3>2. k \in Nat
      <4>1. cStack[d] \in Frame
        BY <1>t
      <4> QED BY <3>1, <4>1 DEF Awaits, Frame
    <3>3. ~(cStack[d].arg <= cAckd)
      BY <2>1, <3>1, <3>2, <1>t DEF Awaits
    <3> QED BY <2>2, <3>1, <3>3 DEF Keeps, Awaits
  <2> QED BY <1>2, <2>1, <2>2
<1>5. OutsideInv'
  BY <1>1, <1>4 DEF OutsideInv, Carries
<1>6. StackInv(cStack, cSentRt)'
  BY <1>2 DEF StackInv, Carries, Awaits
<1> QED BY <1>1, <1>3, <1>5, <1>6 DEF AwaitedInv

(* And one that answers nothing either.                                       *)
LEMMA QuietAwaited ==
    ASSUME TypeOK, TypeOK', AwaitedInv, cSentRt' = cSentRt, sRt' = sRt \/ sRt' = 0,
           Thinned(s2c', s2c, Answer), Thinned(Stream', Stream, Request),
           Trimmed(cStack', cStack),
           ~cError' /\ sOpen' => ~cError /\ sOpen /\ Keeps(cStack', cStack),
           cAckd' = cAckd \/ \E d \in DOMAIN cStack : Carries(cStack[d].msgs, Answer, cAckd')
    PROVE  AwaitedInv'
<1>1. LineInv' /\ \A k : Outside(k)' => Outside(k)
  BY QuietLine DEF AwaitedInv
<1> QED BY <1>1, MovedAwaited

(* What goes through the server's batch.                                      *)
LEMMA StreamThins ==
    ASSUME TypeOK, IdleInv
    PROVE  /\ UNCHANGED <<sBatch, c2s>> \/ SRead \/ Tear
              \/ (sBatch # <<>> /\ sBatch' = Tail(sBatch) /\ c2s' = c2s)
              \/ (sBatch' = <<>> /\ (c2s' = c2s \/ c2s' = <<>>))
                  => Thinned(Stream', Stream, Request)
           /\ \A m \in Message :
                 m.code # Request /\ c2s' = SentToServer(<<m>>) /\ sBatch' = sBatch
                     => Thinned(Stream', Stream, Request)
<1>t. Stream \in Seq(Message) /\ DOMAIN Stream \subseteq Nat
  BY StreamType
<1>s. Thinned(Stream, Stream, Request)
  BY <1>t, ThinnedShapes
<1>1. CASE UNCHANGED <<sBatch, c2s>>
  <2>1. Stream' = Stream
    BY <1>1 DEF Stream
  <2> QED BY <2>1, <1>s
<1>2. CASE SRead
  <2>1. PICK batch \in Batches(c2s) : sBatch = <<>> /\ sBatch' = batch /\ c2s' = Rest(c2s, batch)
    BY <1>2 DEF SRead, IdleInv
  <2>2. Stream' = Stream
    BY <2>1, StreamReads
  <2> QED BY <2>2, <1>s
<1>3. CASE Tear
  <2>1. /\ DOMAIN Stream' = DOMAIN Stream
        /\ \A i \in DOMAIN Stream : Stream'[i] = Stream[i] \/ Stream'[i].code = "MALFORMED"
    BY <1>3, StreamTears
  <2>2. \A i \in DOMAIN Stream' :
           i \in Nat /\ (Stream'[i].code = Request => i + 0 \in DOMAIN Stream /\ Stream'[i] = Stream[i + 0])
    BY <2>1, <1>t DEF Request
  <2> QED BY <2>2 DEF Thinned
<1>4. CASE sBatch # <<>> /\ sBatch' = Tail(sBatch) /\ c2s' = c2s
  <2>1. /\ DOMAIN Stream' = 1..Len(Stream) - 1
        /\ \A i \in DOMAIN Stream' : i + 1 \in DOMAIN Stream /\ Stream'[i] = Stream[i + 1]
    BY <1>4, StreamHandles
  <2>2. \A i \in DOMAIN Stream' : i \in Nat
    BY <2>1
  <2> QED BY <2>1, <2>2 DEF Thinned
<1>5. CASE sBatch' = <<>> /\ c2s' = c2s
  <2>1. /\ Len(sBatch) \in Nat /\ DOMAIN Stream' \subseteq Nat
        /\ \A i \in DOMAIN Stream' : /\ Len(sBatch) + i \in DOMAIN Stream
                                      /\ Stream'[i] = Stream[Len(sBatch) + i]
    BY <1>5, StreamDrops
  <2>2. \A i \in DOMAIN Stream' : i \in Nat /\ i + Len(sBatch) = Len(sBatch) + i
    BY <2>1
  <2>3. \A i \in DOMAIN Stream' :
           i \in Nat /\ i + Len(sBatch) \in DOMAIN Stream /\ Stream'[i] = Stream[i + Len(sBatch)]
    BY <2>1, <2>2
  <2> QED BY <2>1, <2>3 DEF Thinned
<1>6. CASE sBatch' = <<>> /\ c2s' = <<>>
  <2>1. Stream' = <<>>
    BY <1>6 DEF Stream
  <2>2. DOMAIN Stream' = {} /\ 0 \in Nat
    BY <2>1
  <2> QED BY <2>2 DEF Thinned
<1>7. ASSUME NEW m \in Message, m.code # Request, c2s' = SentToServer(<<m>>), sBatch' = sBatch
      PROVE  Thinned(Stream', Stream, Request)
  <2>1. Stream' = Stream \/ Stream' = Append(Stream, m)
    BY <1>7, StreamSends
  <2>2. Thinned(Append(Stream, m), Stream, Request)
    BY <1>7, <1>t, ThinnedShapes
  <2> QED BY <2>1, <2>2, <1>s
<1> QED BY <1>1, <1>2, <1>3, <1>4, <1>5, <1>6, <1>7

(* What goes through the channel to the client.                               *)
LEMMA ChannelThins ==
    ASSUME TypeOK
    PROVE  /\ s2c' = s2c \/ s2c' = <<>> \/ Tear \/ (\E b \in Batches(s2c) : s2c' = Rest(s2c, b))
                  => Thinned(s2c', s2c, Answer)
           /\ \A m \in Message :
                 m.code # Answer /\ s2c' = SentToClient(<<m>>) => Thinned(s2c', s2c, Answer)
<1>t. s2c \in Seq(Message) /\ DOMAIN s2c \subseteq Nat
  BY DEF TypeOK, WireTypeOK
<1>1. s2c' = s2c \/ s2c' = <<>> \/ (\E b \in Batches(s2c) : s2c' = Rest(s2c, b))
          => Thinned(s2c', s2c, Answer)
  <2>1. s2c' = s2c \/ s2c' = <<>> \/ (\E b \in Batches(s2c) : s2c' = Rest(s2c, b)) => Part(s2c', s2c)
    BY <1>t, PartShapes
  <2> QED BY <2>1, <1>t, ThinnedShapes
<1>2. ASSUME Tear, s2c # <<>>, s2c' = TearLast(s2c) PROVE Thinned(s2c', s2c, Answer)
  <2>1. Len(s2c) \in DOMAIN s2c /\ s2c[Len(s2c)] \in Message
    BY <1>2, <1>t
  <2> DEFINE torn == [s2c[Len(s2c)] EXCEPT !.code = "MALFORMED"]
  <2>2. torn.code = "MALFORMED"
    BY <2>1 DEF Message
  <2>3. s2c' = [s2c EXCEPT ![Len(s2c)] = torn]
    BY <1>2 DEF TearLast
  <2> HIDE DEF torn
  <2>4. \A i \in DOMAIN s2c' :
           i \in Nat /\ (s2c'[i].code = Answer => i + 0 \in DOMAIN s2c /\ s2c'[i] = s2c[i + 0])
    BY <2>1, <2>2, <2>3, <1>t DEF Answer
  <2> QED BY <2>4 DEF Thinned
<1>3. Tear => Thinned(s2c', s2c, Answer)
  BY <1>1, <1>2 DEF Tear
<1>4. ASSUME NEW m \in Message, m.code # Answer, s2c' = SentToClient(<<m>>)
      PROVE  Thinned(s2c', s2c, Answer)
  <2>1. s2c \o <<m>> = Append(s2c, m)
    BY <1>t
  <2>2. s2c' = s2c \/ s2c' = Append(s2c, m)
    BY <1>4, <2>1 DEF SentToClient
  <2>3. Thinned(Append(s2c, m), s2c, Answer)
    BY <1>4, <1>t, ThinnedShapes
  <2> QED BY <2>2, <2>3, <1>1
<1> QED BY <1>1, <1>3, <1>4

(* How frames come and go.                                                    *)
LEMMA TrimmedShapes ==
    ASSUME NEW stack \in Seq(Frame)
    PROVE  /\ Trimmed(stack, stack) /\ Keeps(stack, stack)
           /\ Trimmed(Pop(stack), stack)
           /\ \A ok : Trimmed(ReturnDispatch(stack, ok), stack)
           /\ \A ok : Trimmed(ReturnDispatch(Pop(stack), ok), stack)
<1>1. ASSUME NEW st \in Seq(Frame), \A d \in DOMAIN st : d \in DOMAIN stack /\ st[d] = stack[d]
      PROVE  Trimmed(st, stack)
  <2>1. \A d \in DOMAIN st : stack[d] \in Frame
    BY <1>1
  <2>2. \A d \in DOMAIN st : Part(st[d].msgs, stack[d].msgs)
    BY <1>1, <2>1, PartShapes DEF Frame
  <2> QED BY <1>1, <2>2 DEF Trimmed
<1>2. Pop(stack) \in Seq(Frame)
      /\ \A d \in DOMAIN Pop(stack) : d \in DOMAIN stack /\ Pop(stack)[d] = stack[d]
  BY PopType, PopElements
<1>3. ASSUME NEW ok, NEW st \in Seq(Frame),
             \A d \in DOMAIN st : d \in DOMAIN stack /\ st[d] = stack[d]
      PROVE  Trimmed(ReturnDispatch(st, ok), stack)
  <2>1. /\ ReturnDispatch(st, ok) \in Seq(Frame)
        /\ \A d \in DOMAIN ReturnDispatch(st, ok) :
              d \in DOMAIN st /\ ReturnDispatch(st, ok)[d] = st[d]
    BY <1>3, ReturnType
  <2>2. \A d \in DOMAIN ReturnDispatch(st, ok) :
           d \in DOMAIN stack /\ ReturnDispatch(st, ok)[d] = stack[d]
    BY <2>1, <1>3
  <2> QED BY <2>1, <2>2, <1>1
<1>4. Keeps(stack, stack)
  BY DEF Keeps
<1> QED BY <1>1, <1>2, <1>3, <1>4

(* A loop other than that of a roundtrip begins, or a listener does.          *)
LEMMA TrimmedPush ==
    ASSUME NEW old \in Seq(Frame), NEW stack \in Seq(Frame), NEW f \in Frame,
           Trimmed(stack, old), Keeps(stack, old), DOMAIN stack = DOMAIN old,
           \A d \in DOMAIN stack : stack[d].kind = old[d].kind /\ stack[d].arg = old[d].arg
                                   /\ Part(stack[d].msgs, old[d].msgs),
           f.kind # "roundtrip", f.msgs = <<>>
    PROVE  Trimmed(Append(stack, f), old) /\ Keeps(Append(stack, f), old)
<1>1. /\ Len(Append(stack, f)) = Len(stack) + 1
      /\ \A d \in DOMAIN stack : d \in DOMAIN Append(stack, f) /\ Append(stack, f)[d] = stack[d]
      /\ \A d \in DOMAIN Append(stack, f) :
            (d = Len(stack) + 1 /\ Append(stack, f)[d] = f) \/ d \in DOMAIN stack
  BY AppendType
<1>2. Trimmed(Append(stack, f), old)
  BY <1>1 DEF Trimmed
<1>3. Keeps(Append(stack, f), old)
  BY <1>1 DEF Keeps
<1> QED BY <1>2, <1>3

LEMMA HandlingTrims ==
    ASSUME TypeOK, NEW code, Handling(code)
    PROVE  /\ Advanced \in Seq(Frame) /\ DOMAIN Advanced = DOMAIN cStack
           /\ Trimmed(Advanced, cStack) /\ Keeps(Advanced, cStack)
           /\ \A d \in DOMAIN Advanced :
                 Advanced[d].kind = cStack[d].kind /\ Advanced[d].arg = cStack[d].arg
                 /\ Part(Advanced[d].msgs, cStack[d].msgs)
           /\ Len(cStack) \in DOMAIN cStack /\ Top = cStack[Len(cStack)]
           /\ Head(Top.msgs) \in Message /\ Head(Top.msgs).code = code
           /\ \A answer : answer = code =>
                 Carries(cStack[Len(cStack)].msgs, answer, Head(Top.msgs).seq)
<1>t. cStack \in Seq(Frame)
  BY DEF TypeOK, ClientTypeOK
<1>1. /\ Advanced \in Seq(Frame)
      /\ Len(cStack) \in DOMAIN cStack /\ DOMAIN Advanced = DOMAIN cStack
      /\ Top.msgs \in Seq(Message) /\ Top.msgs # <<>> /\ Top = cStack[Len(cStack)]
      /\ \A d \in DOMAIN cStack : d # Len(cStack) => Advanced[d] = cStack[d]
  BY HandlingFewer
<1>2. /\ Head(Top.msgs) \in Message /\ Head(Top.msgs) = Top.msgs[1] /\ 1 \in DOMAIN Top.msgs
      /\ Head(Top.msgs).code = code
  BY <1>1, HeadTailElements DEF Handling
<1> DEFINE rest == [Top EXCEPT !.msgs = Tail(@)]
<1>3. rest.kind = Top.kind /\ rest.arg = Top.arg /\ rest.msgs = Tail(Top.msgs)
  <2>1. Top \in Frame
    BY <1>1, <1>t
  <2> QED BY <2>1 DEF Frame
<1>4. Advanced[Len(cStack)] = rest
  BY <1>1, <1>t DEF Advanced
<1> HIDE DEF rest
<1>5. ASSUME NEW d \in DOMAIN Advanced
      PROVE  /\ Advanced[d].kind = cStack[d].kind /\ Advanced[d].arg = cStack[d].arg
             /\ Part(Advanced[d].msgs, cStack[d].msgs)
  <2>1. CASE d = Len(cStack)
    <3>1. Part(Tail(Top.msgs), Top.msgs)
      BY <1>1, PartShapes
    <3> QED BY <2>1, <3>1, <1>1, <1>3, <1>4
  <2>2. CASE d # Len(cStack)
    <3>1. cStack[d] \in Frame /\ Advanced[d] = cStack[d]
      BY <2>2, <1>1, <1>t
    <3> QED BY <3>1, PartShapes DEF Frame
  <2> QED BY <2>1, <2>2
<1>6. Trimmed(Advanced, cStack) /\ Keeps(Advanced, cStack)
  BY <1>1, <1>5 DEF Trimmed, Keeps
<1>7. Carries(cStack[Len(cStack)].msgs, code, Head(Top.msgs).seq)
  BY <1>1, <1>2 DEF Carries
<1> QED BY <1>1, <1>2, <1>5, <1>6, <1>7

(* What a call that returns takes from the stack.                             *)
LEMMA KeepsShapes ==
    ASSUME NEW old \in Seq(Frame), NEW stack \in Seq(Frame), Keeps(stack, old)
    PROVE  /\ Keeps(ReturnDispatch(stack, TRUE), old)
           /\ (stack # <<>> => \/ stack[Len(stack)].kind # "roundtrip"
                               \/ stack[Len(stack)].arg <= cAckd)
                  => Keeps(Pop(stack), old)
<1>1. \A d \in DOMAIN stack : d = Len(stack) \/ (d \in DOMAIN Pop(stack) /\ Pop(stack)[d] = stack[d])
  BY DEF Pop
<1>2. ASSUME stack # <<>> => \/ stack[Len(stack)].kind # "roundtrip"
                             \/ stack[Len(stack)].arg <= cAckd
      PROVE  Keeps(Pop(stack), old)
  <2>1. ASSUME NEW d \in DOMAIN old, old[d].kind = "roundtrip"
        PROVE  \/ d \in DOMAIN Pop(stack) /\ Pop(stack)[d].kind = "roundtrip"
                  /\ Pop(stack)[d].arg = old[d].arg
               \/ old[d].arg <= cAckd
    <3>1. CASE d \in DOMAIN stack /\ stack[d].kind = "roundtrip" /\ stack[d].arg = old[d].arg
      <4>1. stack # <<>>
        BY <3>1
      <4> QED BY <3>1, <4>1, <1>1, <1>2
    <3> QED BY <2>1, <3>1 DEF Keeps
  <2> QED BY <2>1 DEF Keeps
<1>3. Keeps(ReturnDispatch(stack, TRUE), old)
  <2>1. CASE stack[Len(stack)].kind = "poll"
    BY <2>1, <1>2 DEF ReturnDispatch
  <2>2. CASE stack[Len(stack)].kind # "poll"
    BY <2>2 DEF ReturnDispatch
  <2> QED BY <2>1, <2>2
<1> QED BY <1>2, <1>3

(* A roundtrip is requested, and waits for its answer.                        *)
LEMMA RequestAwaited ==
    ASSUME TypeOK, TypeOK', AwaitedInv, UNCHANGED sVars, CRoundtrip
    PROVE  AwaitedInv'
<1> DEFINE new == cSentRt + 1
           m   == RoundtripRequest(new)
           f   == [kind |-> "roundtrip", arg |-> new, msgs |-> <<>>]
<1>t. /\ cStack \in Seq(Frame) /\ s2c \in Seq(Message) /\ Stream \in Seq(Message)
      /\ cSentRt \in Nat /\ cAckd \in Nat /\ new \in Nat
  BY StreamType DEF TypeOK, ClientTypeOK, WireTypeOK
<1>1. m \in Message /\ m.code = Request /\ m.seq = new
  BY <1>t, MessageTypes DEF RoundtripRequest, Plain, Request
<1>2. f \in Frame /\ f.kind = "roundtrip" /\ f.arg = new /\ f.msgs = <<>>
  <2>1. <<>> \in Seq(Message)
    OBVIOUS
  <2> QED BY <2>1, <1>t DEF Frame, Loops
<1>3. /\ c2s' = SentToServer(<<m>>) /\ cStack' = Append(cStack, f) /\ cSentRt' = new
      /\ UNCHANGED <<cAckd, cError, s2c, sOpen, sBatch, sRt>>
  BY DEF CRoundtrip, Push, sVars, sState
<1> HIDE DEF m, f
<1>4. Stream' = Stream \/ Stream' = Append(Stream, m)
  BY <1>1, <1>3, StreamSends
<1>5. /\ \A d \in DOMAIN cStack : d \in Nat /\ d # Len(cStack) + 1
                                  /\ d \in DOMAIN cStack' /\ cStack'[d] = cStack[d]
      /\ \A d \in DOMAIN cStack' : d = Len(cStack) + 1 \/ (d \in DOMAIN cStack /\ cStack'[d] = cStack[d])
      /\ Len(cStack) + 1 \in DOMAIN cStack' /\ cStack'[Len(cStack) + 1] = f
      /\ \A d \in DOMAIN cStack' : d \in Nat /\ d <= Len(cStack) + 1
      /\ Len(cStack) \in Nat
  BY <1>t, <1>2, <1>3, AppendType
<1>6. \A i \in DOMAIN Stream' : (i \in DOMAIN Stream /\ Stream'[i] = Stream[i])
                                \/ (i = Len(Stream) + 1 /\ Stream'[i] = m)
  BY <1>t, <1>1, <1>4, AppendType
<1>7. \A k : Carries(Stream', Request, k) => Carries(Stream, Request, k) \/ k = new
  BY <1>1, <1>6 DEF Carries
<1>8. \A k : Outside(k) => k <= cSentRt
  BY DEF AwaitedInv, OutsideInv
<1>n. \A k : Outside(k) => k \in Nat
  <2>0. \A i \in DOMAIN s2c : s2c[i] \in Message
    BY <1>t
  <2>1. \A i \in DOMAIN s2c : s2c[i].seq \in Nat
    BY <2>0 DEF Message
  <2>2. \A i \in DOMAIN Stream : Stream[i].seq \in Nat
    BY StreamType DEF Message
  <2> QED BY <2>1, <2>2 DEF Outside, Carries, Scheduled, TypeOK, ServerTypeOK
<1>9. \A k : Outside(k) => k < new
  BY <1>8, <1>n, <1>t
<1>10. Ascending(Stream', Request)
  <2>1. ASSUME NEW i \in DOMAIN Stream', NEW j \in DOMAIN Stream', i < j,
               Stream'[i].code = Request, Stream'[j].code = Request
        PROVE  Stream'[i].seq < Stream'[j].seq
    <3>1. i \in DOMAIN Stream /\ Stream'[i] = Stream[i]
      <4>1. DOMAIN Stream = 1..Len(Stream) /\ Len(Stream) \in Nat
        BY <1>t
      <4> QED BY <2>1, <4>1, <1>6
    <3>2. CASE j \in DOMAIN Stream /\ Stream'[j] = Stream[j]
      BY <2>1, <3>1, <3>2 DEF AwaitedInv, LineInv, Ascending
    <3>3. CASE Stream'[j] = m
      <4>1. Outside(Stream[i].seq)
        BY <2>1, <3>1 DEF Outside, Carries
      <4> QED BY <3>1, <3>3, <4>1, <1>1, <1>9
    <3> QED BY <1>6, <3>2, <3>3
  <2> QED BY <2>1 DEF Ascending
<1>11. LineInv'
  <2>1. Ascending(s2c', Answer)
    BY <1>3 DEF AwaitedInv, LineInv
  <2>2. \A j, k : Carries(s2c', Answer, j) /\ Carries(Stream', Request, k) => j < k
    BY <1>3, <1>7, <1>9 DEF AwaitedInv, LineInv, Outside
  <2>3. \A j, k : Scheduled(j) /\ Carries(Stream', Request, k) => j < k
    BY <1>7, <1>9 DEF AwaitedInv, LineInv, Outside
  <2>4. \A k : Scheduled(k)' <=> Scheduled(k)
    BY <1>3 DEF Scheduled
  <2>5. \A j, k : Carries(s2c', Answer, j) /\ Scheduled(k) => j < k
    BY <1>3 DEF AwaitedInv, LineInv
  <2> QED BY <1>10, <2>1, <2>2, <2>3, <2>4, <2>5 DEF LineInv, Ascending, Carries
<1>12. \A k : Outside(k)' => Outside(k) \/ k = new
  BY <1>3, <1>7 DEF Outside, Scheduled, Carries
<1>13. \A d \in DOMAIN cStack' : \A j : Carries(cStack'[d].msgs, Answer, j) =>
          d \in DOMAIN cStack /\ Carries(cStack[d].msgs, Answer, j)
  <2>1. \A j : ~Carries(f.msgs, Answer, j)
    BY <1>2 DEF Carries
  <2> QED BY <2>1, <1>5
<1>14. \A d \in DOMAIN cStack : \A j : Carries(cStack[d].msgs, Answer, j) => j < new
  <2>1. ASSUME NEW d \in DOMAIN cStack, NEW j, Carries(cStack[d].msgs, Answer, j)
        PROVE  j < new
    <3>1. PICK e \in DOMAIN cStack : Awaits(cStack[e], j)
      BY <2>1 DEF AwaitedInv, StackInv
    <3>2. j <= cSentRt /\ j \in Nat
      <4>1. cStack[e] \in Frame
        BY <1>t
      <4> QED BY <3>1, <4>1 DEF AwaitedInv, StackInv, Awaits, Frame
    <3> QED BY <3>2, <1>t
  <2> QED BY <2>1
<1>15. StackInv(cStack', new)
  <2>0. \A d \in DOMAIN cStack : cStack[d].arg \in Nat
    <3>1. \A d \in DOMAIN cStack : cStack[d] \in Frame
      BY <1>t
    <3> QED BY <3>1 DEF Frame
  <2>1. \A d \in DOMAIN cStack : cStack[d].kind = "roundtrip" => cStack[d].arg < new
    BY <2>0, <1>t DEF AwaitedInv, StackInv
  <2>2. \A d \in DOMAIN cStack' : cStack'[d].kind = "roundtrip" => cStack'[d].arg <= new
    BY <2>0, <2>1, <1>2, <1>5, <1>t
  <2>3. ASSUME NEW d \in DOMAIN cStack', NEW e \in DOMAIN cStack', d < e,
               cStack'[d].kind = "roundtrip", cStack'[e].kind = "roundtrip"
        PROVE  cStack'[d].arg < cStack'[e].arg
    <3>1. d \in DOMAIN cStack /\ cStack'[d] = cStack[d]
      BY <2>3, <1>5
    <3>2. CASE e = Len(cStack) + 1
      BY <2>1, <2>3, <3>1, <3>2, <1>2, <1>5
    <3>3. CASE e \in DOMAIN cStack /\ cStack'[e] = cStack[e]
      BY <2>3, <3>1, <3>3 DEF AwaitedInv, StackInv
    <3> QED BY <1>5, <3>2, <3>3
  <2>4. \A d \in DOMAIN cStack' : \A k : Carries(cStack'[d].msgs, Answer, k) =>
           \E e \in DOMAIN cStack' : e < d /\ Awaits(cStack'[e], k)
    BY <1>5, <1>13 DEF AwaitedInv, StackInv
  <2> QED BY <2>2, <2>3, <2>4 DEF StackInv
<1>16. ASSUME NEW k, Outside(k) \/ k = new
       PROVE  /\ k <= new /\ cAckd < k
              /\ \A d \in DOMAIN cStack' : \A j : Carries(cStack'[d].msgs, Answer, j) => j < k
              /\ ~cError /\ sOpen => \E d \in DOMAIN cStack' : Awaits(cStack'[d], k)
  <2>1. CASE Outside(k)
    <3>1. k <= new
      BY <2>1, <1>9, <1>n, <1>t
    <3> QED BY <2>1, <3>1, <1>5, <1>13 DEF AwaitedInv, OutsideInv, Awaits
  <2>2. CASE k = new
    <3>1. k <= new /\ cAckd < k
      BY <2>2, <1>t DEF AwaitedInv
    <3>2. \E d \in DOMAIN cStack' : Awaits(cStack'[d], k)
      BY <2>2, <1>2, <1>5 DEF Awaits
    <3> QED BY <2>2, <3>1, <3>2, <1>13, <1>14
  <2> QED BY <1>16, <2>1, <2>2
<1>17. OutsideInv'
  BY <1>3, <1>12, <1>16 DEF OutsideInv, Carries, Awaits
<1>18. cAckd' <= cSentRt'
  BY <1>3, <1>t DEF AwaitedInv
<1>19. StackInv(cStack, cSentRt)'
  BY <1>3, <1>15 DEF StackInv, Carries, Awaits
<1> QED BY <1>11, <1>17, <1>18, <1>19 DEF AwaitedInv

(* A batch that is read holds the oldest answers of the channel.              *)
LEMMA ReadAwaited ==
    ASSUME TypeOK, TypeOK', AwaitedInv, UNCHANGED sVars, CRead
    PROVE  AwaitedInv'
<1>t. /\ cStack \in Seq(Frame) /\ s2c \in Seq(Message) /\ Stream \in Seq(Message)
  BY StreamType DEF TypeOK, ClientTypeOK, WireTypeOK
<1>1. PICK b \in Batches(s2c) : cStack' = Push("batch", 0, b) /\ s2c' = Rest(s2c, b)
  BY DEF CRead
<1>2. /\ b \in Seq(Message)
      /\ Len(b) \in Nat /\ DOMAIN b = 1..Len(b)
      /\ \A i \in DOMAIN b : i \in DOMAIN s2c /\ b[i] = s2c[i]
      /\ \A i \in DOMAIN Rest(s2c, b) : i + Len(b) \in DOMAIN s2c /\ Rest(s2c, b)[i] = s2c[i + Len(b)]
      /\ DOMAIN Rest(s2c, b) \subseteq Nat \ {0}
  BY <1>t, BatchType
<1> DEFINE f == [kind |-> "batch", arg |-> 0, msgs |-> b]
<1>3. f \in Frame /\ f.msgs = b /\ f.kind = "batch"
  BY <1>2 DEF Frame
<1>4. cStack' = Append(cStack, f)
  BY <1>1 DEF Push
<1>5. /\ UNCHANGED <<cSentRt, cAckd, cError, sOpen, c2s, sBatch, sRt>>
      /\ ~cError /\ sOpen
  BY DEF CRead, sVars, sState
<1> HIDE DEF f
<1>6. /\ \A d \in DOMAIN cStack : d \in Nat /\ d # Len(cStack) + 1 /\ d < Len(cStack) + 1
                                  /\ d \in DOMAIN cStack' /\ cStack'[d] = cStack[d]
      /\ \A d \in DOMAIN cStack' : d = Len(cStack) + 1 \/ (d \in DOMAIN cStack /\ cStack'[d] = cStack[d])
      /\ Len(cStack) + 1 \in DOMAIN cStack' /\ cStack'[Len(cStack) + 1] = f
  BY <1>t, <1>3, <1>4, AppendType
<1>7. Stream' = Stream
  BY <1>5 DEF Stream
<1>8. LineInv' /\ \A k : Outside(k)' => Outside(k)
  <2>1. Thinned(s2c', s2c, Answer)
    BY <1>1, ChannelThins
  <2>2. Thinned(Stream', Stream, Request)
    BY <1>7, <1>t, ThinnedShapes
  <2> QED BY <1>5, <2>1, <2>2, QuietLine DEF AwaitedInv
<1>9. \A j : Carries(b, Answer, j) => Carries(s2c, Answer, j)
  BY <1>2 DEF Carries
<1>10. ASSUME NEW j, Carries(b, Answer, j), NEW k, Outside(k)'
       PROVE  j < k
  <2>1. CASE Carries(s2c', Answer, k)
    <3>1. PICK i \in DOMAIN b : b[i].code = Answer /\ b[i].seq = j
      BY <1>10 DEF Carries
    <3>2. PICK p \in DOMAIN s2c' : s2c'[p].code = Answer /\ s2c'[p].seq = k
      BY <2>1 DEF Carries
    <3>3. i < p + Len(b) /\ i \in DOMAIN s2c /\ p + Len(b) \in DOMAIN s2c
      BY <1>1, <1>2
    <3>4. b[i] = s2c[i] /\ s2c'[p] = s2c[p + Len(b)]
      BY <1>1, <1>2
    <3> QED BY <3>1, <3>2, <3>3, <3>4 DEF AwaitedInv, LineInv, Ascending
  <2>2. CASE Scheduled(k)'
    <3>1. Scheduled(k)
      BY <2>2, <1>5 DEF Scheduled
    <3> QED BY <3>1, <1>9, <1>10 DEF AwaitedInv, LineInv
  <2>3. CASE Carries(Stream', Request, k)
    BY <2>3, <1>7, <1>9, <1>10 DEF AwaitedInv, LineInv
  <2>4. Outside(k)' => Carries(s2c', Answer, k) \/ Scheduled(k)' \/ Carries(Stream', Request, k)
    BY DEF Outside, Carries
  <2> QED BY <1>10, <2>1, <2>2, <2>3, <2>4
<1>11. StackInv(cStack', cSentRt)
  <2>1. \A d \in DOMAIN cStack' : cStack'[d].kind = "roundtrip" => d \in DOMAIN cStack /\ cStack'[d] = cStack[d]
    BY <1>3, <1>6
  <2>2. ASSUME NEW d \in DOMAIN cStack', NEW k, Carries(cStack'[d].msgs, Answer, k)
        PROVE  \E e \in DOMAIN cStack' : e < d /\ Awaits(cStack'[e], k)
    <3>1. PICK e \in DOMAIN cStack : e < d /\ Awaits(cStack[e], k)
      <4>1. CASE d \in DOMAIN cStack /\ cStack'[d] = cStack[d]
        BY <2>2, <4>1 DEF AwaitedInv, StackInv
      <4>2. CASE d = Len(cStack) + 1
        <5>1. Outside(k)
          BY <2>2, <4>2, <1>3, <1>6, <1>9 DEF Outside
        <5> QED BY <5>1, <4>2, <1>5, <1>6 DEF AwaitedInv, OutsideInv
      <4> QED BY <4>1, <4>2, <1>6
    <3> QED BY <3>1, <1>6
  <2> QED BY <2>1, <2>2 DEF AwaitedInv, StackInv
<1>12. ASSUME NEW k, Outside(k)'
       PROVE  /\ k <= cSentRt /\ cAckd < k
              /\ \A d \in DOMAIN cStack' : \A j : Carries(cStack'[d].msgs, Answer, j) => j < k
              /\ \E d \in DOMAIN cStack' : Awaits(cStack'[d], k)
  <2>1. /\ k <= cSentRt /\ cAckd < k
        /\ \A d \in DOMAIN cStack : \A j : Carries(cStack[d].msgs, Answer, j) => j < k
        /\ \E d \in DOMAIN cStack : Awaits(cStack[d], k)
    BY <1>12, <1>8, <1>5 DEF AwaitedInv, OutsideInv
  <2> QED BY <2>1, <1>3, <1>6, <1>10, <1>12
<1>13. OutsideInv'
  BY <1>5, <1>12 DEF OutsideInv, Carries, Awaits
<1>14. cAckd' <= cSentRt'
  BY <1>5 DEF AwaitedInv
<1>15. StackInv(cStack, cSentRt)'
  BY <1>5, <1>11 DEF StackInv, Carries, Awaits
<1> QED BY <1>8, <1>13, <1>14, <1>15 DEF AwaitedInv

(* The other steps of the client.                                             *)
LEMMA ClientAwaited ==
    ASSUME TypeOK, TypeOK', IdleInv, AwaitedInv, UNCHANGED sVars, UNCHANGED <<cSentRt, sOpen>>,
           s2c' = s2c \/ s2c' = <<>>,
           c2s' = c2s \/ \E m \in Message : m.code # Request /\ c2s' = SentToServer(<<m>>),
           Trimmed(cStack', cStack), ~cError' => ~cError /\ Keeps(cStack', cStack),
           cAckd' = cAckd \/ \E d \in DOMAIN cStack : Carries(cStack[d].msgs, Answer, cAckd')
    PROVE  AwaitedInv'
<1>1. Thinned(s2c', s2c, Answer)
  BY ChannelThins
<1>2. sBatch' = sBatch /\ sRt' = sRt
  BY DEF sVars, sState
<1>3. Thinned(Stream', Stream, Request)
  BY <1>2, StreamThins
<1> QED BY <1>1, <1>2, <1>3, QuietAwaited

LEMMA AppAwaited ==
    TypeOK /\ TypeOK' /\ IdleInv /\ AwaitedInv /\ ClientApp => AwaitedInv'
<1> SUFFICES ASSUME TypeOK, TypeOK', IdleInv, AwaitedInv, ClientApp PROVE AwaitedInv'
  OBVIOUS
<1>0. UNCHANGED sVars
  BY DEF ClientApp
<1>t. /\ cStack \in Seq(Frame) /\ Len(cObjs) + 1 \in Nat
      /\ \A d \in DOMAIN cStack : Part(cStack[d].msgs, cStack[d].msgs)
  <2>1. cStack \in Seq(Frame) /\ Len(cObjs) + 1 \in Nat
    BY DEF TypeOK, ClientTypeOK
  <2>2. \A d \in DOMAIN cStack : cStack[d].msgs \in Seq(Message)
    <3>1. \A d \in DOMAIN cStack : cStack[d] \in Frame
      BY <2>1
    <3> QED BY <3>1 DEF Frame
  <2> QED BY <2>1, <2>2, PartShapes
<1>s. Trimmed(cStack, cStack) /\ Keeps(cStack, cStack)
  BY <1>t, TrimmedShapes
<1>p. ASSUME NEW kind \in {"handshake", "object", "poll"}, NEW arg \in Nat, cStack' = Push(kind, arg, <<>>)
      PROVE  Trimmed(cStack', cStack) /\ Keeps(cStack', cStack)
  <2> DEFINE f == [kind |-> kind, arg |-> arg, msgs |-> <<>>]
  <2>1. f \in Frame /\ f.msgs = <<>> /\ f.kind # "roundtrip"
    <3>1. <<>> \in Seq(Message)
      OBVIOUS
    <3> QED BY <3>1 DEF Frame, Loops
  <2>2. cStack' = Append(cStack, f)
    BY <1>p DEF Push
  <2> HIDE DEF f
  <2>3. Trimmed(Append(cStack, f), cStack) /\ Keeps(Append(cStack, f), cStack)
    BY <2>1, <1>s, <1>t, TrimmedPush
  <2> QED BY <2>2, <2>3
<1>1. CASE CWaitForHandshake \/ CDispatch
  <2>1. /\ UNCHANGED <<cSentRt, cAckd, s2c, c2s, cError>>
        /\ cStack' = Push("handshake", 0, <<>>) \/ cStack' = Push("poll", 0, <<>>)
    BY <1>1 DEF CWaitForHandshake, CDispatch, wireVars
  <2>2. sOpen' = sOpen
    BY <1>1 DEF CWaitForHandshake, CDispatch, wireVars
  <2>3. Trimmed(cStack', cStack) /\ Keeps(cStack', cStack)
    BY <2>1, <1>p
  <2> QED BY <2>1, <2>2, <2>3, <1>0, ClientAwaited
<1>2. ASSUME NEW ver \in BindVersions, CBind(ver)
      PROVE  AwaitedInv'
  <2> DEFINE m == Bind(Len(cObjs) + 1, ver)
  <2>1. m \in Message /\ m.code # Request
    <3>1. ver \in Nat /\ Len(cObjs) + 1 \in Nat
      BY <1>t, ClientAssumption
    <3>2. m \in Message
      BY <3>1, MessageTypes
    <3>3. m.code = "BIND_PROTOCOL"
      BY DEF Bind, Plain
    <3> QED BY <3>2, <3>3 DEF Request
  <2>2. /\ UNCHANGED <<cSentRt, cAckd, s2c, cError>> /\ c2s' = SentToServer(<<m>>)
        /\ cStack' = Push("object", Len(cObjs) + 1, <<>>)
    BY <1>2 DEF CBind, NextSeq
  <2>3. sOpen' = sOpen
    BY <1>2 DEF CBind
  <2> HIDE DEF m
  <2>4. Trimmed(cStack', cStack) /\ Keeps(cStack', cStack)
    BY <2>2, <1>p, <1>t
  <2> QED BY <2>1, <2>2, <2>3, <2>4, <1>0, ClientAwaited
<1>3. ASSUME NEW ver \in BindVersions, CBindTooNew(ver)
      PROVE  AwaitedInv'
  <2>1. UNCHANGED <<cSentRt, cAckd, cStack, c2s>> /\ s2c' = <<>> /\ cError'
    BY <1>3 DEF CBindTooNew, DisconnectOnError, CloseClientEnd
  <2>2. sOpen' = sOpen
    BY <1>3 DEF CBindTooNew
  <2>3. Trimmed(cStack', cStack)
    BY <2>1, <1>s
  <2> QED BY <2>1, <2>2, <2>3, <1>0, ClientAwaited
<1>4. ASSUME NEW h \in DOMAIN cObjs, NEW method \in {"call", "make"}, CCall(h, method)
      PROVE  AwaitedInv'
  <2> DEFINE n == Len(issued) + 1
             returns == IF method = "make" THEN Len(cObjs) + 1 ELSE 0
             m == Generic(cObjs[h].id, method, returns, n)
  <2>1. m \in Message /\ m.code # Request
    <3>1. cObjs[h].id \in Nat
      <4>1. cObjs[h] \in Handle
        BY DEF TypeOK, ClientTypeOK
      <4> QED BY <4>1 DEF Handle
    <3>2. n \in Nat /\ returns \in Nat /\ method \in Methods
      BY <1>t DEF TypeOK, ClientTypeOK, Methods
    <3> HIDE DEF n, returns
    <3> QED BY <3>1, <3>2, MessageTypes DEF Generic, Request
  <2>2. /\ UNCHANGED <<cSentRt, cAckd, s2c, cError, cStack>>
        /\ c2s' = c2s \/ c2s' = SentToServer(<<m>>)
    BY <1>4 DEF CCall, NextSeq
  <2>3. sOpen' = sOpen
    BY <1>4 DEF CCall
  <2> HIDE DEF m
  <2>4. Trimmed(cStack', cStack) /\ Keeps(cStack', cStack)
    BY <2>2, <1>s
  <2> QED BY <2>1, <2>2, <2>3, <2>4, <1>0, ClientAwaited
<1>5. CASE CRoundtrip
  BY <1>5, <1>0, RequestAwaited
<1> QED BY <1>1, <1>2, <1>3, <1>4, <1>5 DEF ClientApp, AppStep

LEMMA ResolvedType ==
    ASSUME TypeOK, NumberedInv, NEW i \in DOMAIN cPending
    PROVE  ResolveSeq(cPending[i]) \in Message /\ ResolveSeq(cPending[i]).code = "GENERIC"
<1> DEFINE p == cPending[i]
<1>1. p \in Deferred /\ p.dep \in DOMAIN cObjs /\ p.msg.code = "GENERIC"
  <2>1. cPending \in Seq(Deferred)
    BY DEF TypeOK, ClientTypeOK
  <2> QED BY <2>1 DEF TypeOK, ClientRefsOK, NumberedInv
<1>2. p.msg \in Message /\ cObjs[p.dep].id \in Nat
  <2>1. cObjs[p.dep] \in Handle
    BY <1>1 DEF TypeOK, ClientTypeOK
  <2> QED BY <1>1, <2>1 DEF Deferred, Handle
<1>3. cObjs[p.dep].id % ByteBase \in Nat
  <2>1. \A a \in Nat, b \in Nat \ {0} : a % b \in Nat
    OBVIOUS
  <2> QED BY <1>2, <2>1, ClientAssumption
<1> HIDE DEF p
<1>4. ResolveSeq(p) \in Message /\ ResolveSeq(p).code = "GENERIC"
  BY <1>1, <1>2, <1>3 DEF ResolveSeq, Message
<1> QED BY <1>4 DEF p

LEMMA LibraryAwaited ==
    TypeOK /\ TypeOK' /\ IdleInv /\ NumberedInv /\ AwaitedInv /\ ClientLibrary => AwaitedInv'
<1> SUFFICES ASSUME TypeOK, TypeOK', IdleInv, NumberedInv, AwaitedInv, ClientLibrary
             PROVE  AwaitedInv'
  OBVIOUS
<1>0. UNCHANGED sVars
  BY DEF ClientLibrary
<1>t. /\ cStack \in Seq(Frame) /\ Pop(cStack) \in Seq(Frame)
      /\ cAckd \in Nat
  <2>1. cStack \in Seq(Frame) /\ cAckd \in Nat
    BY DEF TypeOK, ClientTypeOK
  <2> QED BY <2>1, PopType
<1>s. Trimmed(cStack, cStack) /\ Keeps(cStack, cStack)
  BY <1>t, TrimmedShapes
<1>p. (cStack # <<>> => Top.kind # "roundtrip" \/ Top.arg <= cAckd) =>
         Keeps(Pop(cStack), cStack) /\ Keeps(ReturnDispatch(Pop(cStack), TRUE), cStack)
  BY <1>s, <1>t, KeepsShapes DEF Top
<1>1. CASE CLoopReturns \/ CListenerReturn
  <2>1. /\ UNCHANGED <<cSentRt, cAckd, s2c, c2s, cError>> /\ cStack' = Pop(cStack)
    BY <1>1 DEF CLoopReturns, CListenerReturn, wireVars
  <2>2. sOpen' = sOpen
    BY <1>1 DEF CLoopReturns, CListenerReturn, wireVars
  <2>3. Top.kind # "roundtrip" \/ Top.arg <= cAckd
    <3>1. CASE CListenerReturn
      BY <3>1 DEF CListenerReturn
    <3>2. CASE CLoopReturns /\ Top.kind = "roundtrip"
      <4>1. cAckd >= Top.arg /\ cStack # <<>>
        BY <3>2 DEF CLoopReturns, LoopOver, InLoop
      <4>2. Top.arg \in Nat
        <5>1. Top \in Frame
          BY <4>1, <1>t DEF Top
        <5> QED BY <5>1 DEF Frame
      <4> QED BY <4>1, <4>2, <1>t
    <3> QED BY <1>1, <3>1, <3>2
  <2>4. Trimmed(cStack', cStack) /\ Keeps(cStack', cStack)
    BY <2>1, <2>3, <1>p, <1>t, TrimmedShapes
  <2> QED BY <2>1, <2>2, <2>4, <1>0, ClientAwaited
<1>2. CASE CNothingToRead
  <2>1. cStack' = ReturnDispatch(cStack, TRUE)
    BY <1>2 DEF CNothingToRead
  <2>4. UNCHANGED <<cSentRt, cAckd, s2c, c2s>>
    BY <1>2 DEF CNothingToRead, wireVars
  <2>2. sOpen' = sOpen /\ ~cError
    BY <1>2 DEF CNothingToRead, wireVars
  <2>3. Trimmed(cStack', cStack) /\ Keeps(cStack', cStack)
    BY <2>1, <1>s, <1>t, TrimmedShapes, KeepsShapes
  <2> QED BY <2>2, <2>3, <2>4, <1>0, ClientAwaited
<1>3. CASE CBatchDone
  <2>1. /\ UNCHANGED <<cSentRt, cAckd, s2c, c2s>> /\ cStack' = ReturnDispatch(Pop(cStack), ~cError)
        /\ cStack # <<>> /\ Top.kind = "batch"
    BY <1>3 DEF CBatchDone, InBatch, wireVars
  <2>2. sOpen' = sOpen /\ cError' = cError
    BY <1>3 DEF CBatchDone, wireVars
  <2>3. Trimmed(cStack', cStack)
    BY <2>1, <1>t, TrimmedShapes
  <2>4. ASSUME ~cError PROVE Keeps(cStack', cStack)
    <3>1. (~cError) = TRUE
      BY <2>4
    <3>2. cStack' = ReturnDispatch(Pop(cStack), TRUE)
      BY <2>1, <3>1
    <3> QED BY <2>1, <3>2, <1>p
  <2> QED BY <2>1, <2>2, <2>3, <2>4, <1>0, ClientAwaited
<1>4. CASE CDispatchFails
  <2>1. cStack' = ReturnDispatch(cStack, FALSE)
    BY <1>4 DEF CDispatchFails
  <2>5. UNCHANGED <<cSentRt, cAckd, s2c, c2s>> /\ sBatch' = sBatch /\ sRt' = sRt
    BY <1>0, <1>4 DEF CDispatchFails, wireVars, sVars, sState
  <2>2. ~(~cError' /\ sOpen')
    BY <1>4 DEF CDispatchFails, wireVars
  <2>3. Trimmed(cStack', cStack)
    BY <2>1, <1>t, TrimmedShapes
  <2>4. Thinned(s2c', s2c, Answer) /\ Thinned(Stream', Stream, Request)
    BY <2>5, ChannelThins, StreamThins
  <2> QED BY <2>2, <2>3, <2>4, <2>5, QuietAwaited
<1>5. CASE CHandleMalformed
  <2>1. /\ UNCHANGED <<cSentRt, cAckd, c2s>> /\ s2c' = <<>> /\ cError'
        /\ cStack' = ReturnDispatch(Pop(cStack), FALSE)
    BY <1>5 DEF CHandleMalformed, DisconnectOnError, CloseClientEnd
  <2>2. sOpen' = sOpen
    BY <1>5 DEF CHandleMalformed
  <2>3. Trimmed(cStack', cStack)
    BY <2>1, <1>t, TrimmedShapes
  <2> QED BY <2>1, <2>2, <2>3, <1>0, ClientAwaited
<1>6. ASSUME NEW i \in DOMAIN cPending, CFlushOne(i)
      PROVE  AwaitedInv'
  <2> DEFINE m == ResolveSeq(cPending[i])
  <2>1. m \in Message /\ m.code # Request
    BY ResolvedType DEF Request
  <2>2. UNCHANGED <<cSentRt, cAckd, s2c, cError, cStack>> /\ c2s' = SentToServer(<<m>>)
    BY <1>6 DEF CFlushOne
  <2>3. sOpen' = sOpen
    BY <1>6 DEF CFlushOne
  <2> HIDE DEF m
  <2>4. Trimmed(cStack', cStack) /\ Keeps(cStack', cStack)
    BY <2>2, <1>s
  <2> QED BY <2>1, <2>2, <2>3, <2>4, <1>0, ClientAwaited
<1>7. CASE CRead
  BY <1>0, <1>7, ReadAwaited
<1>8. CASE CHandleHandshakeBegin
  <2> DEFINE m == Plain("HANDSHAKE_ACK")
  <2>1. m \in Message /\ m.code # Request
    BY MessageTypes DEF Plain, Codes, Request
  <2>2. /\ UNCHANGED <<cSentRt, cAckd, s2c, cError>> /\ c2s' = SentToServer(<<m>>)
        /\ Handling("HANDSHAKE_BEGIN") /\ cStack' = Advanced
    BY <1>8 DEF CHandleHandshakeBegin
  <2>3. sOpen' = sOpen
    BY <1>8 DEF CHandleHandshakeBegin
  <2> HIDE DEF m
  <2>4. Trimmed(cStack', cStack) /\ Keeps(cStack', cStack)
    BY <2>2, HandlingTrims
  <2> QED BY <2>1, <2>2, <2>3, <2>4, <1>0, ClientAwaited
<1>9. ASSUME CHandleProtocols \/ CHandleNewObject \/ CDropEvent \/ CHandleFatal
      PROVE  AwaitedInv'
  <2>1. UNCHANGED <<cSentRt, cAckd, s2c, c2s>> /\ cStack' = Advanced
    BY <1>9 DEF CHandleProtocols, CHandleNewObject, CDropEvent, CHandleFatal, wireVars
  <2>2. PICK code : Handling(code)
    BY <1>9 DEF CHandleProtocols, CHandleNewObject, CDropEvent, CHandleFatal
  <2>3. sOpen' = sOpen /\ (~cError' => ~cError)
    BY <1>9 DEF CHandleProtocols, CHandleNewObject, CDropEvent, CHandleFatal, wireVars
  <2>4. Trimmed(cStack', cStack) /\ Keeps(cStack', cStack)
    BY <2>1, <2>2, HandlingTrims
  <2> QED BY <2>1, <2>3, <2>4, <1>0, ClientAwaited
<1>10. ASSUME NEW h \in DOMAIN cObjs, CHandleEvent(h)
       PROVE  AwaitedInv'
  <2> DEFINE f == [kind |-> "listener", arg |-> 0, msgs |-> <<>>]
  <2>1. f \in Frame /\ f.msgs = <<>> /\ f.kind # "roundtrip"
    <3>1. <<>> \in Seq(Message)
      OBVIOUS
    <3> QED BY <3>1 DEF Frame
  <2>2. /\ UNCHANGED <<cSentRt, cAckd, s2c, c2s, cError>>
        /\ Handling("GENERIC") /\ cStack' = Append(Advanced, f)
    BY <1>10 DEF CHandleEvent, wireVars
  <2>3. sOpen' = sOpen
    BY <1>10 DEF CHandleEvent, wireVars
  <2> HIDE DEF f
  <2>4. /\ Advanced \in Seq(Frame) /\ DOMAIN Advanced = DOMAIN cStack
        /\ Trimmed(Advanced, cStack) /\ Keeps(Advanced, cStack)
        /\ \A d \in DOMAIN Advanced :
              Advanced[d].kind = cStack[d].kind /\ Advanced[d].arg = cStack[d].arg
              /\ Part(Advanced[d].msgs, cStack[d].msgs)
    BY <2>2, HandlingTrims
  <2>5. Trimmed(Append(Advanced, f), cStack) /\ Keeps(Append(Advanced, f), cStack)
    BY <2>1, <2>4, <1>t, TrimmedPush
  <2>6. Trimmed(cStack', cStack) /\ Keeps(cStack', cStack)
    BY <2>2, <2>5
  <2> QED BY <2>2, <2>3, <2>6, <1>0, ClientAwaited
<1>11. CASE CHandleRoundtripDone
  <2>1. /\ UNCHANGED <<cSentRt, s2c, c2s, cError>> /\ cAckd' = Head(Top.msgs).seq
        /\ Handling(Answer) /\ cStack' = Advanced
    BY <1>11 DEF CHandleRoundtripDone, wireVars, Answer
  <2>2. sOpen' = sOpen
    BY <1>11 DEF CHandleRoundtripDone, wireVars
  <2>3. /\ Trimmed(cStack', cStack) /\ Keeps(cStack', cStack)
        /\ Len(cStack) \in DOMAIN cStack
        /\ Carries(cStack[Len(cStack)].msgs, Answer, cAckd')
    BY <2>1, HandlingTrims
  <2> QED BY <2>1, <2>2, <2>3, <1>0, ClientAwaited
<1> QED
  BY <1>1, <1>2, <1>3, <1>4, <1>5, <1>6, <1>7, <1>8, <1>9, <1>10, <1>11
     DEF ClientLibrary, LibraryStep, HandleStep

LEMMA ClientEndAwaited ==
    TypeOK /\ TypeOK' /\ IdleInv /\ AwaitedInv /\ (ClientLeaves \/ ClientTime) => AwaitedInv'
<1> SUFFICES ASSUME TypeOK, TypeOK', IdleInv, AwaitedInv, ClientLeaves \/ ClientTime
             PROVE  AwaitedInv'
  OBVIOUS
<1>0. UNCHANGED sVars
  BY DEF ClientLeaves, ClientTime
<1>s. /\ Trimmed(cStack, cStack) /\ Keeps(cStack, cStack)
      /\ Trimmed(ReturnDispatch(cStack, FALSE), cStack)
  BY TrimmedShapes DEF TypeOK, ClientTypeOK
<1>1. CASE CDestroy \/ CHandshakeTimeout
  <2>1. /\ UNCHANGED <<cSentRt, cAckd, c2s>> /\ s2c' = <<>> /\ cError'
        /\ cStack' = cStack \/ cStack' = ReturnDispatch(cStack, FALSE)
    BY <1>1 DEF CDestroy, CHandshakeTimeout, DisconnectOnError, CloseClientEnd
  <2>2. sOpen' = sOpen
    BY <1>1 DEF CDestroy, CHandshakeTimeout
  <2>3. Trimmed(cStack', cStack)
    BY <2>1, <1>s
  <2> QED BY <2>1, <2>2, <2>3, <1>0, ClientAwaited
<1>2. CASE CClockRunsOut
  <2>1. UNCHANGED <<cSentRt, cAckd, cStack, cError, c2s, s2c>>
    BY <1>2 DEF CClockRunsOut, wireVars
  <2>2. sOpen' = sOpen
    BY <1>2 DEF CClockRunsOut, wireVars
  <2>3. Trimmed(cStack', cStack) /\ Keeps(cStack', cStack)
    BY <2>1, <1>s
  <2> QED BY <2>1, <2>2, <2>3, <1>0, ClientAwaited
<1> QED BY <1>1, <1>2 DEF ClientLeaves, ClientTime

(* Steps of the server and of the wire.                                       *)
LEMMA ServerSideAwaited ==
    ASSUME TypeOK, TypeOK', AwaitedInv, UNCHANGED cVars, sOpen' => sOpen,
           LineInv', \A k : Outside(k)' => Outside(k)
    PROVE  AwaitedInv'
<1>1. UNCHANGED <<cSentRt, cAckd, cStack>>
  BY DEF cVars, cState
<1>2. ~cError' => ~cError
  BY DEF cVars, cState
<1>3. Trimmed(cStack', cStack) /\ Keeps(cStack', cStack)
  <2>1. Trimmed(cStack, cStack) /\ Keeps(cStack, cStack)
    BY TrimmedShapes DEF TypeOK, ClientTypeOK
  <2> QED BY <1>1, <2>1
<1> QED BY <1>1, <1>2, <1>3, MovedAwaited

(* The server sees a request: the answer is scheduled in its place.           *)
LEMMA RequestSeen ==
    ASSUME TypeOK, LineInv, SHandleRoundtrip
    PROVE  LineInv' /\ \A k : Outside(k)' => Outside(k)
<1>1. /\ sBatch # <<>> /\ sBatch' = Tail(sBatch) /\ Head(sBatch).code = Request
      /\ sRt' = Head(sBatch).seq /\ s2c' = s2c /\ c2s' = c2s
  BY DEF SHandleRoundtrip, SHandling, wireVars, Request
<1>2. /\ 1 \in DOMAIN Stream /\ Head(sBatch) = Stream[1]
      /\ \A i \in DOMAIN Stream' : i + 1 \in DOMAIN Stream /\ Stream'[i] = Stream[i + 1]
      /\ DOMAIN Stream' \subseteq Nat \ {0}
  <2>1. DOMAIN Stream' = 1..Len(Stream) - 1
    BY <1>1, StreamHandles
  <2> QED BY <1>1, <2>1, StreamHandles
<1>3. \A k : Scheduled(k)' => Carries(Stream, Request, k)
  BY <1>1, <1>2 DEF Scheduled, Carries
<1>4. \A k : Carries(Stream', Request, k) => Carries(Stream, Request, k)
  BY <1>2 DEF Carries
<1>5. Ascending(Stream', Request)
  <2>1. \A i, j \in DOMAIN Stream' : i < j => i + 1 < j + 1
    BY <1>2
  <2> QED BY <1>2, <2>1 DEF LineInv, Ascending
<1>6. ASSUME NEW j, NEW k, Scheduled(j)', Carries(Stream', Request, k)
      PROVE  j < k
  <2>1. PICK i \in DOMAIN Stream' : Stream'[i].code = Request /\ Stream'[i].seq = k
    BY <1>6 DEF Carries
  <2>2. i + 1 \in DOMAIN Stream /\ Stream'[i] = Stream[i + 1] /\ 1 < i + 1
    BY <1>2
  <2>3. Stream[1].code = Request /\ Stream[1].seq = j
    BY <1>1, <1>2, <1>6 DEF Scheduled
  <2> QED BY <1>2, <2>1, <2>2, <2>3 DEF LineInv, Ascending
<1>7. \A j, k : Carries(s2c, Answer, j) /\ Carries(Stream, Request, k) => j < k
  BY DEF LineInv
<1>8. LineInv'
  <2>1. Ascending(s2c', Answer)
    BY <1>1 DEF LineInv
  <2>2. \A j, k : Carries(s2c', Answer, j) /\ Carries(Stream', Request, k) => j < k
    BY <1>1, <1>4, <1>7
  <2>3. \A j, k : Carries(s2c', Answer, j) /\ Scheduled(k)' => j < k
    BY <1>1, <1>3, <1>7
  <2> QED BY <1>5, <1>6, <2>1, <2>2, <2>3 DEF LineInv, Ascending, Carries
<1>9. \A k : Outside(k)' => Outside(k)
  BY <1>1, <1>3, <1>4 DEF Outside, Carries
<1> QED BY <1>8, <1>9

(* And it is given at the end of the batch.                                   *)
LEMMA RequestAnswered ==
    ASSUME TypeOK, LineInv, IdleInv, SBatchDone
    PROVE  LineInv' /\ \A k : Outside(k)' => Outside(k)
<1>t. s2c \in Seq(Message) /\ sRt \in Nat /\ Stream \in Seq(Message)
  BY StreamType DEF TypeOK, WireTypeOK, ServerTypeOK
<1>1. /\ sBatch' = <<>> /\ c2s' = c2s /\ sRt' = 0
      /\ s2c' = IF sRt > 0 THEN SentToClient(<<RoundtripDone(sRt)>>) ELSE s2c
  BY DEF SBatchDone
<1>2. Thinned(Stream', Stream, Request)
  BY <1>1, StreamThins
<1>3. CASE s2c' = s2c
  <2>1. Thinned(s2c', s2c, Answer)
    BY <1>3, ChannelThins
  <2> QED BY <1>1, <1>2, <2>1, QuietLine
<1>4. CASE sRt > 0 /\ s2c' = Append(s2c, RoundtripDone(sRt))
  <2> DEFINE m == RoundtripDone(sRt)
  <2>1. m \in Message /\ m.code = Answer /\ m.seq = sRt
    BY <1>t, MessageTypes DEF RoundtripDone, Plain, Answer
  <2> HIDE DEF m
  <2>2. /\ DOMAIN s2c = 1..Len(s2c) /\ Len(s2c) \in Nat
        /\ \A i \in DOMAIN s2c' : (i \in DOMAIN s2c /\ s2c'[i] = s2c[i])
                                  \/ (i = Len(s2c) + 1 /\ s2c'[i] = m)
    <3>1. s2c' = Append(s2c, m)
      BY <1>4 DEF m
    <3> QED BY <3>1, <2>1, <1>t, AppendType
  <2>3. Scheduled(sRt)
    BY <1>4 DEF Scheduled
  <2>4. \A k : Carries(s2c', Answer, k) => Carries(s2c, Answer, k) \/ k = sRt
    BY <2>1, <2>2 DEF Carries
  <2>5. Ascending(s2c', Answer)
    <3>1. ASSUME NEW i \in DOMAIN s2c', NEW j \in DOMAIN s2c', i < j,
                 s2c'[i].code = Answer, s2c'[j].code = Answer
          PROVE  s2c'[i].seq < s2c'[j].seq
      <4>1. i \in DOMAIN s2c /\ s2c'[i] = s2c[i]
        BY <2>2, <3>1
      <4>2. CASE j \in DOMAIN s2c /\ s2c'[j] = s2c[j]
        BY <3>1, <4>1, <4>2 DEF LineInv, Ascending
      <4>3. CASE s2c'[j] = m
        <5>1. Carries(s2c, Answer, s2c[i].seq)
          BY <3>1, <4>1 DEF Carries
        <5> QED BY <2>1, <2>3, <4>1, <4>3, <5>1 DEF LineInv
      <4> QED BY <2>2, <4>2, <4>3
    <3> QED BY <3>1 DEF Ascending
  <2>6. Ascending(Stream', Request) /\ \A k : Carries(Stream', Request, k) => Carries(Stream, Request, k)
    BY <1>t, <1>2, ThinnedLine DEF LineInv
  <2>7. \A k : ~Scheduled(k)'
    BY <1>1 DEF Scheduled
  <2>8. \A j, k : Carries(s2c', Answer, j) /\ Carries(Stream', Request, k) => j < k
    BY <2>3, <2>4, <2>6 DEF LineInv
  <2>9. LineInv'
    BY <2>5, <2>6, <2>7, <2>8 DEF LineInv, Ascending, Carries
  <2>10. \A k : Outside(k)' => Outside(k)
    BY <2>3, <2>4, <2>6, <2>7 DEF Outside, Carries
  <2> QED BY <2>9, <2>10
<1>5. s2c \o <<RoundtripDone(sRt)>> = Append(s2c, RoundtripDone(sRt))
  BY <1>t
<1> QED BY <1>1, <1>3, <1>4, <1>5 DEF SentToClient

(* What the server sends besides.                                             *)
LEMMA ServerSends ==
    ASSUME TypeOK, ServerDispatch \/ ServerApp, ~SBatchDone
    PROVE  Thinned(s2c', s2c, Answer)
<1>t. /\ Len(sObjs) + 1 \in Nat /\ Len(emitted) + 1 \in Nat
      /\ sObjs \in Seq(Object)
  BY DEF TypeOK, ServerTypeOK
<1>1. ASSUME NEW seq \in Nat, NEW ver, NEW known, CreateObject(seq, ver, known)
      PROVE  Thinned(s2c', s2c, Answer)
  <2> DEFINE m == NewObject(seq, Len(sObjs) + 1)
  <2>1. m \in Message
    BY <1>t, MessageTypes
  <2>2. m.code = "NEW_OBJECT"
    BY DEF NewObject, Plain
  <2>3. s2c' = s2c \/ s2c' = SentToClient(<<m>>)
    BY <1>1 DEF CreateObject
  <2> HIDE DEF m
  <2> QED BY <2>1, <2>2, <2>3, ChannelThins DEF Answer
<1>2. CASE SHandleBind
  <2>1. Head(sBatch).seq \in Nat
    BY <1>2, SHandlingType DEF SHandleBind, TypeOK
  <2>2. CreateObject(Head(sBatch).seq, Head(sBatch).ver, TRUE)
    BY <1>2 DEF SHandleBind
  <2> QED BY <2>1, <2>2, <1>1
<1>3. ASSUME NEW make \in sMakes, NEW known \in BOOLEAN, SCreate(make, known)
      PROVE  Thinned(s2c', s2c, Answer)
  <2>1. make.seq \in Nat
    BY DEF TypeOK, ServerTypeOK, Make
  <2>2. CreateObject(make.seq, sObjs[make.obj].ver, known)
    BY <1>3 DEF SCreate
  <2> QED BY <2>1, <2>2, <1>1
<1>4. ASSUME NEW id \in DOMAIN sObjs, SEmit(id)
      PROVE  Thinned(s2c', s2c, Answer)
  <2> DEFINE m == Generic(id, "event", 0, Len(emitted) + 1)
  <2>1. m \in Message /\ m.code = "GENERIC"
    <3>1. id \in Nat
      BY <1>t
    <3> QED BY <3>1, <1>t, MessageTypes DEF Generic, Methods
  <2>2. s2c' = SentToClient(<<m>>)
    BY <1>4 DEF SEmit
  <2> HIDE DEF m
  <2> QED BY <2>1, <2>2, ChannelThins DEF Answer
<1>5. ASSUME SRead \/ SHandleHello \/ SHandleAck \/ SHandleCall \/ SHandleRoundtrip
             \/ SHandleMalformed \/ SHangup \/ \E id \in DOMAIN sObjs : SRaise(id)
      PROVE  Thinned(s2c', s2c, Answer)
  <2>1. s2c' = s2c \/ \E code \in {"HANDSHAKE_BEGIN", "HANDSHAKE_PROTOCOLS", "FATAL"} :
           s2c' = SentToClient(<<Plain(code)>>)
    BY <1>5 DEF SRead, SHandleHello, SHandleAck, SHandleCall, SHandleRoundtrip, SHandleMalformed,
       SHangup, SRaise, Fail, CloseServerEnd, wireVars
  <2>2. \A code \in {"HANDSHAKE_BEGIN", "HANDSHAKE_PROTOCOLS", "FATAL"} :
           Plain(code) \in Message /\ Plain(code).code # Answer
    BY MessageTypes DEF Codes, Plain, Answer
  <2> QED BY <2>1, <2>2, ChannelThins
<1> QED BY <1>2, <1>3, <1>4, <1>5 DEF ServerDispatch, ServerApp, DispatchStep, SAppStep

LEMMA ServerAwaited ==
    TypeOK /\ TypeOK' /\ IdleInv /\ AwaitedInv
        /\ (ServerDispatch \/ ServerApp \/ ServerRemoves \/ Tear) => AwaitedInv'
<1> SUFFICES ASSUME TypeOK, TypeOK', IdleInv, AwaitedInv,
                    ServerDispatch \/ ServerApp \/ ServerRemoves \/ Tear
             PROVE  AwaitedInv'
  OBVIOUS
<1>0. UNCHANGED cVars
  BY DEF ServerDispatch, ServerApp, ServerRemoves, Tear
<1>o. sOpen' => sOpen
  BY DEF ServerDispatch, ServerApp, ServerRemoves, Tear, DispatchStep, SAppStep, SRead,
     SHandleHello, SHandleAck, SHandleBind, SHandleCall, SHandleRoundtrip, SHandleMalformed,
     SBatchDone, SHangup, SCreate, SEmit, SRaise, SRemove, CloseServerEnd, wireVars
<1>1. CASE SHandleRoundtrip
  BY <1>0, <1>1, <1>o, RequestSeen, ServerSideAwaited DEF AwaitedInv
<1>2. CASE SBatchDone
  BY <1>0, <1>2, <1>o, RequestAnswered, ServerSideAwaited DEF AwaitedInv
<1>q. ASSUME sRt' = sRt \/ sRt' = 0, Thinned(s2c', s2c, Answer), Thinned(Stream', Stream, Request)
      PROVE  AwaitedInv'
  BY <1>0, <1>o, <1>q, QuietLine, ServerSideAwaited DEF AwaitedInv
<1>3. CASE SRead
  <2>1. sRt' = sRt
    BY <1>3 DEF SRead
  <2>2. Thinned(s2c', s2c, Answer) /\ Thinned(Stream', Stream, Request)
    <3>1. s2c' = s2c
      BY <1>3 DEF SRead
    <3> QED BY <1>3, <3>1, ChannelThins, StreamThins
  <2> QED BY <2>1, <2>2, <1>q
<1>4. ASSUME ServerDispatch, SHandleHello \/ SHandleAck \/ SHandleBind \/ SHandleCall \/ SHandleMalformed,
             ~SBatchDone
      PROVE  AwaitedInv'
  <2>1. sRt' = sRt /\ c2s' = c2s
    BY <1>4 DEF SHandleHello, SHandleAck, SHandleBind, SHandleCall, SHandleMalformed
  <2>2. sBatch' = <<>> \/ (sBatch # <<>> /\ sBatch' = Tail(sBatch))
    BY <1>4 DEF SHandleHello, SHandleAck, SHandleBind, SHandleCall, SHandleMalformed, SHandling
  <2>3. Thinned(Stream', Stream, Request)
    BY <2>1, <2>2, StreamThins
  <2>4. Thinned(s2c', s2c, Answer)
    BY <1>4, ServerSends
  <2> QED BY <2>1, <2>3, <2>4, <1>q
<1>5. CASE SHangup \/ SRemove
  <2>1. sRt' = sRt /\ s2c' = s2c /\ c2s' = <<>> /\ sBatch' = <<>>
    BY <1>5 DEF SHangup, SRemove, CloseServerEnd, IdleInv, sVars, sState
  <2>2. Thinned(s2c', s2c, Answer) /\ Thinned(Stream', Stream, Request)
    BY <2>1, ChannelThins, StreamThins
  <2> QED BY <2>1, <2>2, <1>q
<1>6. ASSUME ServerApp, ~SBatchDone
      PROVE  AwaitedInv'
  <2>1. UNCHANGED <<sRt, sBatch, c2s>>
    BY <1>6 DEF ServerApp, SAppStep, SCreate, SEmit, SRaise, sState
  <2>2. Thinned(s2c', s2c, Answer) /\ Thinned(Stream', Stream, Request)
    BY <1>6, <2>1, ServerSends, StreamThins
  <2> QED BY <2>1, <2>2, <1>q
<1>7. CASE Tear
  <2>1. sRt' = sRt
    BY <1>7 DEF Tear, sVars, sState
  <2>2. Thinned(s2c', s2c, Answer) /\ Thinned(Stream', Stream, Request)
    BY <1>7, ChannelThins, StreamThins
  <2> QED BY <2>1, <2>2, <1>q
<1> QED
  BY <1>1, <1>2, <1>3, <1>4, <1>5, <1>6, <1>7 DEF ServerDispatch, ServerRemoves, DispatchStep

LEMMA InitAwaited == Init => AwaitedInv
<1> SUFFICES ASSUME Init PROVE AwaitedInv
  OBVIOUS
<1>1. /\ s2c = <<>> /\ cStack = <<>> /\ cAckd = 0 /\ cSentRt = 0 /\ sRt = 0
      /\ sBatch = <<>> /\ c2s = <<Plain("SUP")>>
  BY DEF Init, WireInit, ClientInit, ServerInit
<1>2. Stream = <<Plain("SUP")>>
  BY <1>1 DEF Stream
<1>3. \A i \in DOMAIN Stream : Stream[i].code # Request
  BY <1>2 DEF Plain, Request
<1>4. \A k : ~Carries(s2c, Answer, k) /\ ~Scheduled(k) /\ ~Carries(Stream, Request, k)
  BY <1>1, <1>3 DEF Carries, Scheduled
<1>5. LineInv
  BY <1>1, <1>3, <1>4 DEF LineInv, Ascending
<1>6. StackInv(cStack, cSentRt)
  BY <1>1 DEF StackInv
<1>7. OutsideInv
  BY <1>4 DEF OutsideInv, Outside
<1> QED BY <1>1, <1>5, <1>6, <1>7 DEF AwaitedInv

LEMMA AwaitedInvariant == Spec => [](TypeOK /\ AwaitedInv)
<1>1. AwaitedInv /\ UNCHANGED vars => AwaitedInv'
  <2> SUFFICES ASSUME AwaitedInv, UNCHANGED vars PROVE AwaitedInv'
    OBVIOUS
  <2>1. UNCHANGED <<s2c, c2s, sBatch, sRt, cStack, cAckd, cSentRt, cError, sOpen>>
    BY DEF vars, wireVars, cVars, cState, sVars, sState
  <2>2. LineInv'
    BY <2>1 DEF AwaitedInv, LineInv, Scheduled, Stream, Carries, Ascending
  <2>3. StackInv(cStack, cSentRt)' /\ cAckd' <= cSentRt'
    BY <2>1 DEF AwaitedInv, StackInv, Carries, Awaits
  <2>4. \A k : Outside(k)' <=> Outside(k)
    BY <2>1 DEF Outside, Scheduled, Stream, Carries
  <2>5. OutsideInv'
    BY <2>1, <2>4 DEF AwaitedInv, OutsideInv, Carries, Awaits
  <2> QED BY <2>2, <2>3, <2>5 DEF AwaitedInv
<1>2. TypeOK /\ TypeOK' /\ DeliveryInv /\ AwaitedInv /\ [Next]_vars => AwaitedInv'
  BY <1>1, AppAwaited, LibraryAwaited, ClientEndAwaited, ServerAwaited
     DEF Next, Idle, DeliveryInv, FlightInv
<1> QED BY <1>2, InitAwaited, DeliveryInvariant, PTL DEF Spec

(* The client's handleMessage takes every ROUNDTRIP_DONE for the last word,   *)
(* also one that is lower than the one before.  That robs a caller of its     *)
(* answer only if it is a listener, and the answer that comes late is the one *)
(* of a caller further out: the application's main loop always sees its own.  *)
THEOREM AnswersReachCallers == Spec => AckLostToOuterOnly
<1>1. ASSUME TypeOK, AwaitedInv, [Next]_vars, NEW d \in DOMAIN cStack, AckLost(d)
      PROVE  \E e \in 1..d - 1 : cStack[e].kind = "roundtrip" /\ cStack[e].arg = cAckd'
  <2>t. cStack \in Seq(Frame) /\ cAckd \in Nat
    BY <1>1 DEF TypeOK, ClientTypeOK
  <2>a. \A e \in DOMAIN cStack : cStack[e].arg \in Nat
    <3>1. \A e \in DOMAIN cStack : cStack[e] \in Frame
      BY <2>t
    <3> QED BY <3>1 DEF Frame
  <2>1. cStack[d].kind = "roundtrip" /\ cAckd >= cStack[d].arg /\ cAckd' < cStack[d].arg
    BY <1>1 DEF AckLost
  <2>2. cAckd' # cAckd
    BY <2>1, <2>t, <2>a
  <2>3. CHandleRoundtripDone
    BY <1>1, <2>2 DEF Next, ClientApp, ClientLeaves, ClientLibrary, ClientTime, ServerDispatch,
       ServerApp, ServerRemoves, Tear, Idle, AppStep, LibraryStep, HandleStep,
       CWaitForHandshake, CDispatch, CBind, CBindTooNew, CCall, CRoundtrip, CDestroy,
       CHandshakeTimeout, CClockRunsOut, CLoopReturns, CDispatchFails, CNothingToRead, CRead,
       CHandleHandshakeBegin, CHandleProtocols, CHandleNewObject, CHandleEvent, CDropEvent,
       CHandleFatal, CHandleMalformed, CFlushOne, CBatchDone, CListenerReturn, vars, cVars, cState
  <2>4. /\ Len(cStack) \in DOMAIN cStack
        /\ Carries(cStack[Len(cStack)].msgs, Answer, cAckd')
    <3>1. Handling(Answer) /\ cAckd' = Head(Top.msgs).seq
      BY <2>3 DEF CHandleRoundtripDone, Answer
    <3> QED BY <1>1, <3>1, HandlingTrims
  <2>5. PICK e \in DOMAIN cStack : e < Len(cStack) /\ Awaits(cStack[e], cAckd')
    BY <1>1, <2>4 DEF AwaitedInv, StackInv
  <2>6. cStack[e].kind = "roundtrip" /\ cStack[e].arg = cAckd'
    BY <2>5 DEF Awaits
  <2>7. ~(d < e) /\ d # e
    BY <1>1, <2>1, <2>6, <2>a DEF AwaitedInv, StackInv
  <2>8. e \in 1..d - 1
    BY <2>7, <2>t
  <2> QED BY <2>6, <2>8
<1>2. TypeOK /\ AwaitedInv /\ [Next]_vars =>
         [\A d \in DOMAIN cStack :
             AckLost(d) => \E e \in 1..d - 1 :
                cStack[e].kind = "roundtrip" /\ cStack[e].arg = cAckd']_vars
  BY <1>1
<1> QED BY <1>2, AwaitedInvariant, PTL DEF Spec, AckLostToOuterOnly

-----------------------------------------------------------------------------
(* Events.  An event is dropped in three known cases only.  The inductive     *)
(* invariant has four parts: a sequence of the client asks for at most one    *)
(* object; a handle has the version of its object, or 0; a handle without a   *)
(* listener is still being bound; and an event never comes before the         *)
(* NEW_OBJECT of its object, unless a dispatch further out still holds it.    *)

(* The messages that ask the server for an object.                            *)
Makes(m) == m.code = "BIND_PROTOCOL" \/ (m.code = "GENERIC" /\ m.method = "make")

(* The deferred calls, in order.                                              *)
Asked == [i \in DOMAIN cPending |-> cPending[i].msg]

(* The four places a sequence passes through: asked for, or deferred, by the  *)
(* client; left to the server's application; the sequence of an object.       *)
Asks(ms, k) == \E i \in DOMAIN ms : Makes(ms[i]) /\ ms[i].seq = k
Due(makes, k) == \E make \in makes : make.seq = k
Exists(objects, k) == \E id \in DOMAIN objects : objects[id].seq = k

Single(ms) ==
    \A i, j \in DOMAIN ms : Makes(ms[i]) /\ Makes(ms[j]) /\ ms[i].seq = ms[j].seq => i = j

(* No sequence is in two places, or twice in one.                             *)
OnePlace(sent, waiting, makes, objects) ==
    /\ Single(sent) /\ Single(waiting)
    /\ \A a, b \in makes : a.seq = b.seq => a = b
    /\ \A a, b \in DOMAIN objects : objects[a].seq = objects[b].seq => a = b
    /\ \A k : /\ ~(Asks(sent, k) /\ Asks(waiting, k))
              /\ ~(Asks(sent, k) /\ Due(makes, k))
              /\ ~(Asks(sent, k) /\ Exists(objects, k))
              /\ ~(Asks(waiting, k) /\ Due(makes, k))
              /\ ~(Asks(waiting, k) /\ Exists(objects, k))
              /\ ~(Due(makes, k) /\ Exists(objects, k))

Free(k, sent, waiting, makes, objects) ==
    ~Asks(sent, k) /\ ~Asks(waiting, k) /\ ~Due(makes, k) /\ ~Exists(objects, k)

PlaceInv == OnePlace(Stream, Asked, sMakes, sObjs)

(* The handle that a message asks an object for exists, with its version.     *)
Entitled(ms, handles) ==
    \A i \in DOMAIN ms : Makes(ms[i]) =>
        /\ ms[i].seq \in DOMAIN handles
        /\ handles[ms[i].seq].ver = IF ms[i].code = "BIND_PROTOCOL" THEN ms[i].ver ELSE 0

(* A handle has the version of its object, or the 0 of a made one; the server *)
(* sends no event that is newer than the object.                              *)
MadeOK(makes, handles) ==
    \A make \in makes : make.seq \in DOMAIN handles /\ handles[make.seq].ver = 0
ObjectsOK(objects, handles) ==
    \A id \in DOMAIN objects :
        /\ objects[id].seq \in DOMAIN handles
        /\ handles[objects[id].seq].ver \in {0, objects[id].ver}
SinceOK(events, objects) ==
    \A n \in DOMAIN events :
        events[n] \in DOMAIN objects /\ Since["event"] <= objects[events[n]].ver

VersionInv ==
    /\ Entitled(Stream, cObjs) /\ Entitled(Asked, cObjs)
    /\ MadeOK(sMakes, cObjs) /\ ObjectsOK(sObjs, cObjs) /\ SinceOK(emitted, sObjs)

(* A batch is handled for a loop, and only batches hold messages.             *)
ShapeOK(stack) ==
    \A d \in DOMAIN stack :
        IF stack[d].kind = "batch"
        THEN d - 1 \in DOMAIN stack /\ stack[d - 1].kind \in Loops
        ELSE stack[d].msgs = <<>>

(* A handle without a listener is still being bound.                          *)
ListensInv == \A s \in DOMAIN cObjs : cObjs[s].listens \/ BindInProgress(s)

(* The client knows the id, or will when it handles a message it holds.       *)
Known(handles, id) == \E s \in DOMAIN handles : handles[s].id = id
Accounts(m, id) == (m.code = "NEW_OBJECT" /\ m.id = id) \/ m.code = "MALFORMED"
Holds(ms, id) == \E i \in DOMAIN ms : Accounts(ms[i], id)
Before(ms, i, id) == \E j \in DOMAIN ms : j < i /\ Accounts(ms[j], id)
Settled(handles, stack, d, id) ==
    Known(handles, id) \/ \E e \in DOMAIN stack : e < d /\ Holds(stack[e].msgs, id)

(* No event in ms comes before the client can know its object, unless one of  *)
(* the first d - 1 dispatches holds what makes it known.                      *)
InTurn(ms, handles, stack, d) ==
    \A i \in DOMAIN ms : ms[i].code = "GENERIC" =>
        /\ ms[i].method = "event" /\ ms[i].id \in Nat \ {0}
        /\ Settled(handles, stack, d, ms[i].id) \/ Before(ms, i, ms[i].id)
Announced(objects, ms, handles, stack) ==
    \A id \in DOMAIN objects : objects[id].ok =>
        Settled(handles, stack, Len(stack) + 1, id) \/ Holds(ms, id)

TurnInv ==
    /\ \A d \in DOMAIN cStack : InTurn(cStack[d].msgs, cObjs, cStack, d)
    /\ InTurn(s2c, cObjs, cStack, Len(cStack) + 1)
    /\ cOpen /\ sOpen => Announced(sObjs, s2c, cObjs, cStack)

-----------------------------------------------------------------------------
(* One place per sequence: what takes a sequence out of a place, and what     *)
(* puts a free one into another.                                              *)

FewerAsk(new, old) == (Single(old) => Single(new)) /\ \A k : Asks(new, k) => Asks(old, k)

(* Requests go from the front or from the end, and none come.                 *)
Sparse(new, old) ==
    \E k \in Nat : \A i \in DOMAIN new :
        i \in Nat /\ (Makes(new[i]) => i + k \in DOMAIN old /\ new[i] = old[i + k])

LEMMA SparseAsks ==
    ASSUME NEW S, NEW old \in Seq(S), NEW new, Sparse(new, old)
    PROVE  FewerAsk(new, old) /\ \A h : Entitled(old, h) => Entitled(new, h)
<1>1. PICK k \in Nat : \A i \in DOMAIN new :
         i \in Nat /\ (Makes(new[i]) => i + k \in DOMAIN old /\ new[i] = old[i + k])
  BY DEF Sparse
<1>2. Single(old) => Single(new)
  <2> SUFFICES ASSUME Single(old), NEW i \in DOMAIN new, NEW j \in DOMAIN new,
                      Makes(new[i]), Makes(new[j]), new[i].seq = new[j].seq
               PROVE  i = j
    BY DEF Single
  <2>1. i + k = j + k
    BY <1>1 DEF Single
  <2> QED BY <1>1, <2>1
<1>3. \A n : Asks(new, n) => Asks(old, n)
  BY <1>1 DEF Asks
<1>4. \A h : Entitled(old, h) => Entitled(new, h)
  BY <1>1 DEF Entitled
<1> QED BY <1>2, <1>3, <1>4 DEF FewerAsk

LEMMA AppendEntitled ==
    ASSUME NEW S, NEW s \in Seq(S), NEW m \in S, NEW h, Entitled(s, h),
           Makes(m) => /\ m.seq \in DOMAIN h
                       /\ h[m.seq].ver = IF m.code = "BIND_PROTOCOL" THEN m.ver ELSE 0
    PROVE  Entitled(Append(s, m), h)
<1>1. \A i \in DOMAIN Append(s, m) :
         \/ i = Len(s) + 1 /\ Append(s, m)[i] = m
         \/ i \in DOMAIN s /\ Append(s, m)[i] = s[i]
  BY AppendType
<1> QED BY <1>1 DEF Entitled

LEMMA PartSparse ==
    ASSUME NEW new, NEW old, Part(new, old)
    PROVE  Sparse(new, old)
  BY DEF Part, Sparse

LEMMA AppendAsks ==
    ASSUME NEW S, NEW s \in Seq(S), NEW m \in S
    PROVE  /\ ~Makes(m) => FewerAsk(Append(s, m), s)
           /\ \A k : Asks(Append(s, m), k) => Asks(s, k) \/ k = m.seq
           /\ ~Asks(s, m.seq) /\ Single(s) => Single(Append(s, m))
<1>1. \A i \in DOMAIN Append(s, m) :
         \/ i = Len(s) + 1 /\ Append(s, m)[i] = m
         \/ i \in DOMAIN s /\ Append(s, m)[i] = s[i]
  BY AppendType
<1>2. ~Makes(m) => FewerAsk(Append(s, m), s)
  BY <1>1 DEF FewerAsk, Single, Asks
<1>3. \A k : Asks(Append(s, m), k) => Asks(s, k) \/ k = m.seq
  BY <1>1 DEF Asks
<1>4. ~Asks(s, m.seq) /\ Single(s) => Single(Append(s, m))
  BY <1>1 DEF Asks, Single
<1> QED BY <1>2, <1>3, <1>4

LEMMA PlacesThin ==
    ASSUME NEW sent, NEW waiting, NEW makes, NEW objects, OnePlace(sent, waiting, makes, objects),
           NEW s, FewerAsk(s, sent), NEW w, FewerAsk(w, waiting), NEW m \in SUBSET makes
    PROVE  /\ OnePlace(s, w, m, objects)
           /\ \A k : Free(k, sent, waiting, makes, objects) => Free(k, s, w, m, objects)
<1>1. \A k : Due(m, k) => Due(makes, k)
  BY DEF Due
<1>2. \A k : (Asks(s, k) => Asks(sent, k)) /\ (Asks(w, k) => Asks(waiting, k))
  BY DEF FewerAsk
<1>3. Single(s) /\ Single(w)
  BY DEF FewerAsk, OnePlace
<1>4. \A k : Free(k, sent, waiting, makes, objects) => Free(k, s, w, m, objects)
  BY <1>1, <1>2 DEF Free
<1> QED BY <1>1, <1>2, <1>3, <1>4 DEF OnePlace

(* The first message is taken: its sequence is free.                          *)
LEMMA TakenFree ==
    ASSUME NEW sent \in Seq(Message), NEW waiting, NEW makes, NEW objects,
           OnePlace(sent, waiting, makes, objects),
           NEW rest, 1 \in DOMAIN sent, DOMAIN rest \subseteq Nat \ {0},
           \A i \in DOMAIN rest : i + 1 \in DOMAIN sent /\ rest[i] = sent[i + 1]
    PROVE  /\ FewerAsk(rest, sent)
           /\ Makes(sent[1]) => Free(sent[1].seq, rest, waiting, makes, objects)
<1>1. Part(rest, sent)
  BY DEF Part
<1>2. FewerAsk(rest, sent)
  BY <1>1, PartSparse, SparseAsks
<1>3. ASSUME Makes(sent[1]) PROVE Free(sent[1].seq, rest, waiting, makes, objects)
  <2>1. Asks(sent, sent[1].seq)
    BY <1>3 DEF Asks
  <2>2. \A i \in DOMAIN rest : i + 1 # 1
    OBVIOUS
  <2>3. ~Asks(rest, sent[1].seq)
    BY <1>3, <2>2 DEF Asks, OnePlace, Single
  <2> QED BY <2>1, <2>3 DEF Free, OnePlace
<1> QED BY <1>2, <1>3

(* A free sequence may go to any place.                                       *)
LEMMA PlacesJoin ==
    ASSUME NEW sent \in Seq(Message), NEW waiting \in Seq(Message), NEW makes,
           NEW objects \in Seq(Object),
           OnePlace(sent, waiting, makes, objects), NEW k, Free(k, sent, waiting, makes, objects)
    PROVE  /\ \A m \in Message : m.seq = k => OnePlace(Append(sent, m), waiting, makes, objects)
           /\ \A m \in Message : m.seq = k => OnePlace(sent, Append(waiting, m), makes, objects)
           /\ \A make : make.seq = k => OnePlace(sent, waiting, makes \cup {make}, objects)
           /\ \A o \in Object : o.seq = k => OnePlace(sent, waiting, makes, Append(objects, o))
<1>1. ASSUME NEW m \in Message, m.seq = k PROVE OnePlace(Append(sent, m), waiting, makes, objects)
  BY <1>1, AppendAsks DEF OnePlace, Free
<1>2. ASSUME NEW m \in Message, m.seq = k PROVE OnePlace(sent, Append(waiting, m), makes, objects)
  BY <1>2, AppendAsks DEF OnePlace, Free
<1>3. ASSUME NEW make, make.seq = k PROVE OnePlace(sent, waiting, makes \cup {make}, objects)
  <2>1. \A n : Due(makes \cup {make}, n) => Due(makes, n) \/ n = k
    BY <1>3 DEF Due
  <2>2. \A a, b \in makes \cup {make} : a.seq = b.seq => a = b
    BY <1>3 DEF Free, Due, OnePlace
  <2> QED BY <2>1, <2>2 DEF OnePlace, Free
<1>4. ASSUME NEW o \in Object, o.seq = k PROVE OnePlace(sent, waiting, makes, Append(objects, o))
  <2> DEFINE more == Append(objects, o)
  <2>1. \A id \in DOMAIN more : \/ id = Len(objects) + 1 /\ more[id] = o
                                \/ id \in DOMAIN objects /\ more[id] = objects[id]
    BY AppendType
  <2> HIDE DEF more
  <2>2. \A n : Exists(more, n) => Exists(objects, n) \/ n = k
    BY <1>4, <2>1 DEF Exists
  <2>3. \A a, b \in DOMAIN more : more[a].seq = more[b].seq => a = b
    BY <1>4, <2>1 DEF Free, Exists, OnePlace
  <2> QED BY <2>2, <2>3 DEF OnePlace, Free, more
<1> QED BY <1>1, <1>2, <1>3, <1>4

-----------------------------------------------------------------------------
(* What a step does to the requests on their way to the server.               *)
LEMMA StreamSparse ==
    ASSUME TypeOK, IdleInv
    PROVE  /\ UNCHANGED <<sBatch, c2s>> \/ SRead \/ Tear
              \/ (sBatch # <<>> /\ sBatch' = Tail(sBatch) /\ c2s' = c2s)
              \/ (sBatch' = <<>> /\ (c2s' = c2s \/ c2s' = <<>>))
                  => Sparse(Stream', Stream)
           /\ \A m \in Message :
                 ~Makes(m) /\ c2s' = SentToServer(<<m>>) /\ sBatch' = sBatch
                     => Sparse(Stream', Stream)
<1>t. Stream \in Seq(Message) /\ DOMAIN Stream \subseteq Nat
  BY StreamType
<1>s. Sparse(Stream, Stream)
  BY <1>t, PartShapes, PartSparse
<1>1. CASE UNCHANGED <<sBatch, c2s>>
  <2>1. Stream' = Stream
    BY <1>1 DEF Stream
  <2> QED BY <2>1, <1>s
<1>2. CASE SRead
  <2>1. PICK batch \in Batches(c2s) : sBatch = <<>> /\ sBatch' = batch /\ c2s' = Rest(c2s, batch)
    BY <1>2 DEF SRead, IdleInv
  <2>2. Stream' = Stream
    BY <2>1, StreamReads
  <2> QED BY <2>2, <1>s
<1>3. CASE Tear
  <2>1. /\ DOMAIN Stream' = DOMAIN Stream
        /\ \A i \in DOMAIN Stream : Stream'[i] = Stream[i] \/ Stream'[i].code = "MALFORMED"
    BY <1>3, StreamTears
  <2>2. \A i \in DOMAIN Stream' :
           i \in Nat /\ (Makes(Stream'[i]) => i + 0 \in DOMAIN Stream /\ Stream'[i] = Stream[i + 0])
    BY <2>1, <1>t DEF Makes
  <2> QED BY <2>2 DEF Sparse
<1>4. CASE sBatch # <<>> /\ sBatch' = Tail(sBatch) /\ c2s' = c2s
  <2>1. /\ DOMAIN Stream' = 1..Len(Stream) - 1
        /\ \A i \in DOMAIN Stream' : i + 1 \in DOMAIN Stream /\ Stream'[i] = Stream[i + 1]
    BY <1>4, StreamHandles
  <2>2. \A i \in DOMAIN Stream' : i \in Nat
    BY <2>1
  <2> QED BY <2>1, <2>2 DEF Sparse
<1>5. CASE sBatch' = <<>> /\ c2s' = c2s
  <2>1. /\ Len(sBatch) \in Nat /\ DOMAIN Stream' \subseteq Nat
        /\ \A i \in DOMAIN Stream' : /\ Len(sBatch) + i \in DOMAIN Stream
                                      /\ Stream'[i] = Stream[Len(sBatch) + i]
    BY <1>5, StreamDrops
  <2>2. \A i \in DOMAIN Stream' : i \in Nat /\ i + Len(sBatch) = Len(sBatch) + i
    BY <2>1
  <2>3. \A i \in DOMAIN Stream' :
           i \in Nat /\ i + Len(sBatch) \in DOMAIN Stream /\ Stream'[i] = Stream[i + Len(sBatch)]
    BY <2>1, <2>2
  <2> QED BY <2>1, <2>3 DEF Sparse
<1>6. CASE sBatch' = <<>> /\ c2s' = <<>>
  <2>1. Stream' = <<>>
    BY <1>6 DEF Stream
  <2>2. DOMAIN Stream' = {} /\ 0 \in Nat
    BY <2>1
  <2> QED BY <2>2 DEF Sparse
<1>7. ASSUME NEW m \in Message, ~Makes(m), c2s' = SentToServer(<<m>>), sBatch' = sBatch
      PROVE  Sparse(Stream', Stream)
  <2>1. Stream' = Stream \/ Stream' = Append(Stream, m)
    BY <1>7, StreamSends
  <2>2. \A i \in DOMAIN Append(Stream, m) :
           \/ i \in Nat /\ Append(Stream, m)[i] = m
           \/ i \in Nat /\ i + 0 \in DOMAIN Stream /\ Append(Stream, m)[i] = Stream[i + 0]
    BY <1>7, <1>t, AppendType
  <2>3. Sparse(Append(Stream, m), Stream)
    BY <1>7, <2>2 DEF Sparse
  <2> QED BY <2>1, <2>3, <1>s
<1> QED BY <1>1, <1>2, <1>3, <1>4, <1>5, <1>6, <1>7

(* Handles are added, and keep their versions.                                *)
SameVersions(new, old) == \A s \in DOMAIN old : s \in DOMAIN new /\ new[s].ver = old[s].ver

LEMMA VersionsKept ==
    ASSUME NEW new, NEW old, SameVersions(new, old)
    PROVE  /\ \A ms : Entitled(ms, old) => Entitled(ms, new)
           /\ \A makes : MadeOK(makes, old) => MadeOK(makes, new)
           /\ \A objects : ObjectsOK(objects, old) => ObjectsOK(objects, new)
<1>1. \A ms : Entitled(ms, old) => Entitled(ms, new)
  BY DEF Entitled, SameVersions
<1>2. \A makes : MadeOK(makes, old) => MadeOK(makes, new)
  BY DEF MadeOK, SameVersions
<1>3. \A objects : ObjectsOK(objects, old) => ObjectsOK(objects, new)
  BY DEF ObjectsOK, SameVersions
<1> QED BY <1>1, <1>2, <1>3

(* Sequences stay in their places.                                            *)
LEMMA QuietPlaces ==
    ASSUME TypeOK, PlaceInv, VersionInv, Sparse(Stream', Stream),
           UNCHANGED <<cPending, sMakes, sObjs>>, SameVersions(cObjs', cObjs),
           SinceOK(emitted', sObjs)
    PROVE  PlaceInv' /\ VersionInv'
<1>t. Stream \in Seq(Message)
  BY StreamType
<1>1. FewerAsk(Stream', Stream) /\ Entitled(Stream', cObjs)
  BY <1>t, SparseAsks DEF VersionInv
<1>2. Asked' = Asked /\ FewerAsk(Asked, Asked) /\ sMakes \in SUBSET sMakes
  BY DEF Asked, FewerAsk
<1>3. OnePlace(Stream', Asked, sMakes, sObjs)
  BY <1>1, <1>2, PlacesThin DEF PlaceInv
<1>4. PlaceInv'
  BY <1>2, <1>3 DEF PlaceInv, OnePlace, Single, Asks, Due, Exists
<1>5. /\ Entitled(Stream', cObjs') /\ Entitled(Asked, cObjs')
      /\ MadeOK(sMakes, cObjs') /\ ObjectsOK(sObjs, cObjs')
  BY <1>1, VersionsKept DEF VersionInv
<1>6. VersionInv'
  BY <1>2, <1>5 DEF VersionInv, Entitled, MadeOK, ObjectsOK, SinceOK
<1> QED BY <1>4, <1>6

(* What is put together again.                                                *)
LEMMA PlacesNext ==
    ASSUME OnePlace(Stream', Asked', sMakes', sObjs'),
           Entitled(Stream', cObjs'), Entitled(Asked', cObjs'),
           MadeOK(sMakes', cObjs'), ObjectsOK(sObjs', cObjs'), SinceOK(emitted', sObjs')
    PROVE  PlaceInv' /\ VersionInv'
<1>1. PlaceInv'
  BY DEF PlaceInv, OnePlace, Single, Asks, Due, Exists
<1>2. VersionInv'
  BY DEF VersionInv, Entitled, MadeOK, ObjectsOK, SinceOK
<1> QED BY <1>1, <1>2

(* The deferred calls, as a sequence of messages.                             *)
LEMMA AskedType ==
    ASSUME TypeOK
    PROVE  /\ Asked \in Seq(Message) /\ DOMAIN Asked = DOMAIN cPending
           /\ \A i \in DOMAIN cPending : Asked[i] = cPending[i].msg
<1>1. cPending \in Seq(Deferred)
  BY DEF TypeOK, ClientTypeOK
<1>2. /\ Len(cPending) \in Nat /\ DOMAIN cPending = 1..Len(cPending)
      /\ \A i \in 1..Len(cPending) : cPending[i].msg \in Message
  <2>1. \A i \in DOMAIN cPending : cPending[i] \in Deferred
    BY <1>1
  <2> QED BY <1>1, <2>1 DEF Deferred
<1>3. Asked = [i \in 1..Len(cPending) |-> cPending[i].msg]
  BY <1>2 DEF Asked
<1>4. Asked \in Seq(Message)
  BY <1>2, <1>3, IsASeq
<1> QED BY <1>2, <1>3, <1>4

(* The sequence of the next handle is free.                                   *)
LEMMA NextSeqFree ==
    ASSUME TypeOK, VersionInv
    PROVE  Free(Len(cObjs) + 1, Stream, Asked, sMakes, sObjs)
<1>1. Len(cObjs) + 1 \notin DOMAIN cObjs
  BY DEF TypeOK, ClientTypeOK
<1> QED BY <1>1 DEF VersionInv, Entitled, MadeOK, ObjectsOK, Free, Asks, Due, Exists

LEMMA BindPlaces ==
    ASSUME TypeOK, IdleInv, PlaceInv, VersionInv, UNCHANGED sVars,
           NEW ver \in BindVersions, CBind(ver)
    PROVE  PlaceInv' /\ VersionInv'
<1> DEFINE k == Len(cObjs) + 1
           m == Bind(k, ver)
           handle == [id |-> 0, ver |-> ver, listens |-> FALSE]
<1>t. cObjs \in Seq(Handle) /\ Stream \in Seq(Message) /\ Asked \in Seq(Message)
      /\ k \in Nat /\ ver \in Nat /\ sObjs \in Seq(Object)
  BY StreamType, AskedType, ClientAssumption DEF TypeOK, ClientTypeOK, ServerTypeOK
<1>1. /\ c2s' = SentToServer(<<m>>) /\ cObjs' = Append(cObjs, handle)
      /\ UNCHANGED <<sBatch, cPending, sMakes, sObjs, emitted>>
  BY DEF CBind, NextSeq, sVars, sState, sHistory
<1>2. m \in Message /\ m.seq = k /\ m.ver = ver /\ m.code = "BIND_PROTOCOL"
  BY <1>t, MessageTypes DEF Bind, Plain
<1>3. handle \in Handle /\ handle.ver = ver
  BY <1>t DEF Handle
<1>f. Free(k, Stream, Asked, sMakes, sObjs)
  BY NextSeqFree
<1>4. SameVersions(cObjs', cObjs) /\ k \in DOMAIN cObjs' /\ cObjs'[k].ver = ver
  <2> HIDE DEF handle
  <2> QED BY <1>t, <1>1, <1>3, AppendType DEF SameVersions
<1> HIDE DEF m, handle, k
<1>5. Stream' = Stream \/ Stream' = Append(Stream, m)
  BY <1>1, <1>2, StreamSends
<1>6. OnePlace(Stream', Asked, sMakes, sObjs)
  BY <1>t, <1>2, <1>5, <1>f, PlacesJoin DEF PlaceInv
<1>7. /\ Entitled(Stream, cObjs') /\ Entitled(Asked, cObjs')
      /\ MadeOK(sMakes, cObjs') /\ ObjectsOK(sObjs, cObjs')
  BY <1>4, VersionsKept DEF VersionInv
<1>8. Entitled(Append(Stream, m), cObjs')
  BY <1>t, <1>2, <1>4, <1>7, AppendEntitled
<1>9. Asked' = Asked
  BY <1>1 DEF Asked
<1> QED BY <1>1, <1>5, <1>6, <1>7, <1>8, <1>9, PlacesNext DEF VersionInv

LEMMA CallPlaces ==
    ASSUME TypeOK, IdleInv, PlaceInv, VersionInv, UNCHANGED sVars,
           NEW h \in DOMAIN cObjs, NEW method \in {"call", "make"}, CCall(h, method)
    PROVE  PlaceInv' /\ VersionInv'
<1> DEFINE k == IF method = "make" THEN Len(cObjs) + 1 ELSE 0
           m == Generic(cObjs[h].id, method, k, Len(issued) + 1)
           p == [msg |-> m, dep |-> h]
<1>t. cObjs \in Seq(Handle) /\ Stream \in Seq(Message) /\ Asked \in Seq(Message)
      /\ sObjs \in Seq(Object) /\ cPending \in Seq(Deferred)
      /\ k \in Nat /\ Len(issued) + 1 \in Nat
  BY StreamType, AskedType DEF TypeOK, ClientTypeOK, ServerTypeOK
<1>1. /\ cObjs' = IF method = "make" THEN Append(cObjs, MadeHandle) ELSE cObjs
      /\ \/ cPending' = Append(cPending, p) /\ c2s' = c2s
         \/ cPending' = cPending /\ c2s' = SentToServer(<<m>>)
      /\ UNCHANGED <<sBatch, sMakes, sObjs, emitted>>
  BY DEF CCall, NextSeq, sVars, sState, sHistory
<1>2. m \in Message /\ m.seq = k /\ m.code = "GENERIC" /\ m.method = method
  <2>1. cObjs[h] \in Handle
    BY <1>t
  <2>2. cObjs[h].id \in Nat /\ method \in Methods
    BY <2>1 DEF Handle, Methods
  <2> HIDE DEF k
  <2> QED BY <1>t, <2>2, MessageTypes DEF Generic
<1>3. p \in Deferred /\ p.msg = m
  <2>1. h \in Nat
    BY <1>t
  <2> HIDE DEF m
  <2> QED BY <1>2, <2>1 DEF Deferred
<1>4. SameVersions(cObjs', cObjs) /\ (Makes(m) => k \in DOMAIN cObjs' /\ cObjs'[k].ver = 0)
  <2>1. MadeHandle \in Handle /\ MadeHandle.ver = 0
    BY DEF MadeHandle, Handle
  <2>2. CASE method = "make"
    BY <2>1, <2>2, <1>t, <1>1, AppendType DEF SameVersions
  <2>3. CASE method = "call"
    <3>1. cObjs' = cObjs
      BY <2>3, <1>1
    <3> QED BY <2>3, <3>1, <1>2 DEF SameVersions, Makes
  <2> QED BY <2>2, <2>3
<1>f. Makes(m) => Free(k, Stream, Asked, sMakes, sObjs)
  <2>1. Makes(m) => k = Len(cObjs) + 1
    BY <1>2 DEF Makes
  <2> HIDE DEF k, m
  <2> QED BY <2>1, NextSeqFree
<1> HIDE DEF k, m, p
<1>5. \/ Stream' = Stream /\ Asked' = Append(Asked, m)
      \/ (Stream' = Stream \/ Stream' = Append(Stream, m)) /\ Asked' = Asked
  <2>1. CASE cPending' = Append(cPending, p) /\ c2s' = c2s
    <3>1. Stream' = Stream
      BY <2>1, <1>1 DEF Stream
    <3>2. Asked' = Append(Asked, m)
      <4> DEFINE n == Len(cPending)
      <4>1. /\ DOMAIN cPending' = 1..n + 1 /\ DOMAIN cPending = 1..n /\ n \in Nat
            /\ \A i \in 1..n : cPending'[i] = cPending[i] /\ cPending[i] \in Deferred
            /\ cPending'[n + 1] = p
        BY <2>1, <1>t, <1>3, AppendType
      <4> HIDE DEF n
      <4>2. \A i \in 1..n + 1 : i \in 1..n \/ i = n + 1
        BY <4>1
      <4>3. Asked \in [1..n -> Message]
        BY <4>1 DEF Asked, Deferred
      <4>4. Asked' = [i \in 1..n + 1 |-> cPending'[i].msg]
        BY <4>1 DEF Asked
      <4>5. \A i \in 1..n : cPending'[i].msg \in Message
        BY <4>1 DEF Deferred
      <4>6. Asked' \in [1..n + 1 -> Message]
        BY <4>1, <4>2, <4>4, <4>5, <1>2, <1>3
      <4>7. (\A i \in 1..n : Asked'[i] = Asked[i]) /\ Asked'[n + 1] = m
        <5>1. n + 1 \in 1..n + 1 /\ \A i \in 1..n : i \in 1..n + 1
          BY <4>1
        <5> QED BY <5>1, <4>1, <4>4, <1>3 DEF Asked
      <4> QED BY <4>1, <4>3, <4>6, <4>7, GrowsByOne
    <3> QED BY <3>1, <3>2
  <2>2. CASE cPending' = cPending /\ c2s' = SentToServer(<<m>>)
    <3>1. Asked' = Asked
      BY <2>2 DEF Asked
    <3> QED BY <2>2, <3>1, <1>1, <1>2, StreamSends
  <2> QED BY <1>1, <2>1, <2>2
<1>6. /\ OnePlace(Append(Stream, m), Asked, sMakes, sObjs)
      /\ OnePlace(Stream, Append(Asked, m), sMakes, sObjs)
  <2>1. CASE Makes(m)
    BY <1>t, <1>2, <2>1, <1>f, PlacesJoin DEF PlaceInv
  <2>2. CASE ~Makes(m)
    <3>1. FewerAsk(Append(Stream, m), Stream) /\ FewerAsk(Append(Asked, m), Asked)
      BY <1>t, <1>2, <2>2, AppendAsks
    <3>2. FewerAsk(Stream, Stream) /\ FewerAsk(Asked, Asked) /\ sMakes \in SUBSET sMakes
      BY DEF FewerAsk
    <3> QED BY <3>1, <3>2, PlacesThin DEF PlaceInv
  <2> QED BY <2>1, <2>2
<1>7. /\ Entitled(Stream, cObjs') /\ Entitled(Asked, cObjs')
      /\ MadeOK(sMakes, cObjs') /\ ObjectsOK(sObjs, cObjs')
  BY <1>4, VersionsKept DEF VersionInv
<1>8. Entitled(Append(Stream, m), cObjs') /\ Entitled(Append(Asked, m), cObjs')
  BY <1>t, <1>2, <1>4, <1>7, AppendEntitled
<1>9. OnePlace(Stream', Asked', sMakes, sObjs)
  BY <1>5, <1>6 DEF PlaceInv
<1>10. Entitled(Stream', cObjs') /\ Entitled(Asked', cObjs')
  BY <1>5, <1>7, <1>8
<1> QED BY <1>1, <1>7, <1>9, <1>10, PlacesNext DEF VersionInv

(* The flush sends what a deferred call asks for.                             *)
LEMMA FlushPlaces ==
    ASSUME TypeOK, NumberedInv, PlaceInv, VersionInv, UNCHANGED sVars,
           NEW f \in DOMAIN cPending, CFlushOne(f)
    PROVE  PlaceInv' /\ VersionInv'
<1> DEFINE old == Asked[f]
           m == ResolveSeq(cPending[f])
           k == old.seq
<1>t. /\ Stream \in Seq(Message) /\ Asked \in Seq(Message) /\ sObjs \in Seq(Object)
      /\ cPending \in Seq(Deferred) /\ f \in DOMAIN Asked /\ old = cPending[f].msg
      /\ DOMAIN Asked = DOMAIN cPending
  BY StreamType, AskedType DEF TypeOK, ClientTypeOK, ServerTypeOK
<1>1. /\ c2s' = SentToServer(<<m>>) /\ cPending' = RemoveAt(cPending, f)
      /\ UNCHANGED <<cObjs, sBatch, sMakes, sObjs, emitted>>
  BY DEF CFlushOne, sVars, sState, sHistory
<1>2. old.code = "GENERIC" /\ old \in Message
  BY <1>t DEF NumberedInv
<1>3. m \in Message /\ m.code = "GENERIC" /\ m.seq = k /\ m.method = old.method
  <2>1. m \in Message /\ m.code = "GENERIC"
    BY ResolvedType
  <2>2. m = [old EXCEPT !.id = cObjs[cPending[f].dep].id % ByteBase]
    BY <1>t DEF ResolveSeq
  <2> HIDE DEF m, old
  <2>3. m.seq = old.seq /\ m.method = old.method
    BY <2>2, <1>2 DEF Message
  <2> QED BY <2>1, <2>3
<1>4. /\ Len(cPending) \in Nat /\ DOMAIN cPending = 1..Len(cPending)
      /\ DOMAIN cPending' = 1..Len(cPending) - 1
      /\ \A j \in 1..Len(cPending) - 1 :
            cPending'[j] = IF j < f THEN cPending[j] ELSE cPending[j + 1]
  BY <1>t, <1>1, RemoveShape
<1> DEFINE at(j) == IF j < f THEN j ELSE j + 1
<1>5. /\ DOMAIN Asked' = DOMAIN cPending' /\ DOMAIN Asked' \subseteq Nat
      /\ \A j \in DOMAIN Asked' : at(j) \in DOMAIN Asked /\ at(j) # f /\ Asked'[j] = Asked[at(j)]
  <2>1. DOMAIN Asked' = DOMAIN cPending' /\ \A j \in DOMAIN cPending' : Asked'[j] = cPending'[j].msg
    BY DEF Asked
  <2>2. \A j \in DOMAIN cPending : Asked[j] = cPending[j].msg
    BY AskedType
  <2>3. \A j \in DOMAIN cPending' : at(j) \in DOMAIN cPending /\ at(j) # f /\ cPending'[j] = cPending[at(j)]
    BY <1>4
  <2> HIDE DEF at
  <2> QED BY <2>1, <2>2, <2>3, <1>4, <1>t
<1>6. \A i, j \in DOMAIN Asked' : at(i) = at(j) => i = j
  BY <1>4, <1>5
<1> HIDE DEF old, m, k, at
<1>7. FewerAsk(Asked', Asked) /\ \A h : Entitled(Asked, h) => Entitled(Asked', h)
  <2>1. Single(Asked) => Single(Asked')
    BY <1>5, <1>6 DEF Single
  <2>2. \A n : Asks(Asked', n) => Asks(Asked, n)
    BY <1>5 DEF Asks
  <2>3. \A h : Entitled(Asked, h) => Entitled(Asked', h)
    BY <1>5 DEF Entitled
  <2> QED BY <2>1, <2>2, <2>3 DEF FewerAsk
<1>8. FewerAsk(Stream, Stream) /\ sMakes \in SUBSET sMakes
  BY DEF FewerAsk
<1>9. OnePlace(Stream, Asked', sMakes, sObjs)
  BY <1>7, <1>8, PlacesThin DEF PlaceInv
<1>10. Makes(m) => Free(k, Stream, Asked', sMakes, sObjs)
  <2> SUFFICES ASSUME Makes(m) PROVE Free(k, Stream, Asked', sMakes, sObjs)
    OBVIOUS
  <2>1. Makes(Asked[f]) /\ Asked[f].seq = k
    BY <1>2, <1>3 DEF Makes, old, k
  <2>2. Asks(Asked, k)
    BY <2>1, <1>t DEF Asks
  <2>3. ~Asks(Asked', k)
    <3> SUFFICES ASSUME NEW j \in DOMAIN Asked', Makes(Asked'[j]), Asked'[j].seq = k PROVE FALSE
      BY DEF Asks
    <3>1. at(j) = f
      BY <2>1, <1>t, <1>5 DEF PlaceInv, OnePlace, Single
    <3> QED BY <3>1, <1>5
  <2> QED BY <2>2, <2>3 DEF Free, PlaceInv, OnePlace
<1>11. Stream' = Stream \/ Stream' = Append(Stream, m)
  BY <1>1, <1>3, StreamSends
<1>12. OnePlace(Append(Stream, m), Asked', sMakes, sObjs)
  <2>1. CASE Makes(m)
    <3>1. Asked' \in Seq(Message)
      <4>1. Len(cPending) - 1 \in Nat
        <5>1. 1 <= Len(cPending)
          BY <1>4
        <5> QED BY <5>1, <1>4
      <4>2. Asked' = [j \in 1..Len(cPending) - 1 |-> Asked'[j]]
        BY <1>4 DEF Asked
      <4>3. \A j \in 1..Len(cPending) - 1 : Asked'[j] \in Message
        <5>1. \A j \in DOMAIN Asked : Asked[j] \in Message
          BY <1>t
        <5>2. DOMAIN Asked' = 1..Len(cPending) - 1
          BY <1>4, <1>5
        <5> QED BY <5>1, <5>2, <1>5
      <4>4. Asked' \in [1..Len(cPending) - 1 -> Message]
        BY <4>2, <4>3
      <4> QED BY <4>1, <4>4, FunctionIsSeq
    <3> QED BY <3>1, <2>1, <1>t, <1>3, <1>9, <1>10, PlacesJoin
  <2>2. CASE ~Makes(m)
    <3>1. FewerAsk(Append(Stream, m), Stream)
      BY <1>t, <1>3, <2>2, AppendAsks
    <3> QED BY <3>1, <1>7, <1>8, PlacesThin DEF PlaceInv
  <2> QED BY <2>1, <2>2
<1>13. Makes(m) => k \in DOMAIN cObjs /\ cObjs[k].ver = 0
  BY <1>2, <1>3, <1>t DEF VersionInv, Entitled, Makes, old, k
<1>14. Entitled(Append(Stream, m), cObjs)
  BY <1>3, <1>13, <1>t, AppendEntitled DEF VersionInv
<1>15. Entitled(Stream', cObjs') /\ Entitled(Asked', cObjs')
  BY <1>1, <1>7, <1>11, <1>14 DEF VersionInv
<1>16. OnePlace(Stream', Asked', sMakes', sObjs')
  BY <1>1, <1>9, <1>11, <1>12
<1> QED BY <1>1, <1>15, <1>16, PlacesNext DEF VersionInv

-----------------------------------------------------------------------------
(* The server takes a request, and makes the object or has it made.           *)
LEMMA TakenPlaces ==
    ASSUME TypeOK, PlaceInv, VersionInv, UNCHANGED cVars,
           sBatch # <<>>, sBatch' = Tail(sBatch), c2s' = c2s
    PROVE  /\ Head(sBatch) = Stream[1] /\ 1 \in DOMAIN Stream
           /\ OnePlace(Stream', Asked, sMakes, sObjs)
           /\ Makes(Head(sBatch)) => Free(Head(sBatch).seq, Stream', Asked, sMakes, sObjs)
           /\ Asked' = Asked /\ cObjs' = cObjs /\ Stream' \in Seq(Message)
           /\ Entitled(Stream', cObjs) /\ Entitled(Asked, cObjs)
<1>t. Stream \in Seq(Message) /\ sBatch \in Seq(Message) /\ c2s \in Seq(Message)
  BY StreamType DEF TypeOK, WireTypeOK, ServerTypeOK
<1>1. /\ 1 \in DOMAIN Stream /\ Head(sBatch) = Stream[1]
      /\ DOMAIN Stream' = 1..Len(Stream) - 1
      /\ \A i \in DOMAIN Stream' : i + 1 \in DOMAIN Stream /\ Stream'[i] = Stream[i + 1]
  BY StreamHandles
<1>2. DOMAIN Stream' \subseteq Nat \ {0}
  BY <1>1
<1>3. /\ FewerAsk(Stream', Stream)
      /\ Makes(Stream[1]) => Free(Stream[1].seq, Stream', Asked, sMakes, sObjs)
  BY <1>t, <1>1, <1>2, TakenFree DEF PlaceInv
<1>4. OnePlace(Stream', Asked, sMakes, sObjs)
  <2>1. FewerAsk(Asked, Asked) /\ sMakes \in SUBSET sMakes
    BY DEF FewerAsk
  <2> QED BY <2>1, <1>3, PlacesThin DEF PlaceInv
<1>5. Entitled(Stream', cObjs)
  BY <1>1 DEF VersionInv, Entitled
<1>6. Asked' = Asked /\ cObjs' = cObjs
  BY DEF Asked, cVars, cState
<1>7. Stream' \in Seq(Message)
  <2>1. Tail(sBatch) \in Seq(Message)
    BY <1>t
  <2> QED BY <1>t, <2>1 DEF Stream
<1> QED BY <1>1, <1>3, <1>4, <1>5, <1>6, <1>7 DEF VersionInv

(* What createObject does to the objects.                                     *)
LEMMA CreatePlaces ==
    ASSUME TypeOK, VersionInv, NEW seq \in Nat, NEW ver \in Nat, NEW known,
           CreateObject(seq, ver, known),
           seq \in DOMAIN cObjs, cObjs[seq].ver \in {0, ver}
    PROVE  /\ \E o \in Object : o.seq = seq /\ sObjs' = Append(sObjs, o)
           /\ ObjectsOK(sObjs', cObjs) /\ SinceOK(emitted, sObjs')
<1> DEFINE ok == known /\ ver <= SrvVer
           o == [seq |-> seq, ver |-> ver, ok |-> ok]
<1>t. sObjs \in Seq(Object)
  BY DEF TypeOK, ServerTypeOK
<1>1. sObjs' = Append(sObjs, o)
  BY DEF CreateObject
<1>2. o \in Object /\ o.seq = seq /\ o.ver = ver
  <2>1. ok \in BOOLEAN
    OBVIOUS
  <2> HIDE DEF ok
  <2> QED BY <2>1 DEF Object
<1> HIDE DEF o
<1>3. \A id \in DOMAIN sObjs' : \/ sObjs'[id] = o
                                \/ id \in DOMAIN sObjs /\ sObjs'[id] = sObjs[id]
  BY <1>t, <1>1, <1>2, AppendType
<1>4. ObjectsOK(sObjs', cObjs)
  BY <1>2, <1>3 DEF VersionInv, ObjectsOK
<1>5. SinceOK(emitted, sObjs')
  <2>1. \A id \in DOMAIN sObjs : id \in DOMAIN sObjs' /\ sObjs'[id] = sObjs[id]
    BY <1>t, <1>1, <1>2, AppendType
  <2> QED BY <2>1 DEF VersionInv, SinceOK
<1> QED BY <1>1, <1>2, <1>4, <1>5

LEMMA SHandleBindPlaces ==
    ASSUME TypeOK, PlaceInv, VersionInv, UNCHANGED cVars, SHandleBind
    PROVE  PlaceInv' /\ VersionInv'
<1> DEFINE m == Head(sBatch)
<1>t. sObjs \in Seq(Object) /\ Asked \in Seq(Message)
  BY AskedType DEF TypeOK, ServerTypeOK
<1>1. /\ sBatch # <<>> /\ sBatch' = Tail(sBatch) /\ c2s' = c2s /\ m.code = "BIND_PROTOCOL"
      /\ CreateObject(m.seq, m.ver, TRUE) /\ UNCHANGED <<sMakes, emitted>>
  BY DEF SHandleBind, SHandling, sHistory
<1>2. m.seq \in Nat /\ m.ver \in Nat
  BY SHandlingType DEF SHandleBind, TypeOK
<1>3. /\ m = Stream[1] /\ 1 \in DOMAIN Stream
      /\ OnePlace(Stream', Asked, sMakes, sObjs)
      /\ Makes(m) => Free(m.seq, Stream', Asked, sMakes, sObjs)
      /\ Asked' = Asked /\ cObjs' = cObjs /\ Stream' \in Seq(Message)
      /\ Entitled(Stream', cObjs) /\ Entitled(Asked, cObjs)
  BY <1>1, TakenPlaces
<1>4. Makes(m)
  BY <1>1 DEF Makes
<1>5. m.seq \in DOMAIN cObjs /\ cObjs[m.seq].ver = m.ver
  BY <1>1, <1>3, <1>4 DEF VersionInv, Entitled
<1> HIDE DEF m
<1>6. PICK o \in Object : o.seq = m.seq /\ sObjs' = Append(sObjs, o)
  BY <1>1, <1>2, <1>5, CreatePlaces
<1>7. ObjectsOK(sObjs', cObjs) /\ SinceOK(emitted, sObjs')
  BY <1>1, <1>2, <1>5, CreatePlaces
<1>8. OnePlace(Stream', Asked, sMakes, sObjs')
  BY <1>t, <1>3, <1>4, <1>6, PlacesJoin
<1> QED BY <1>1, <1>3, <1>7, <1>8, PlacesNext DEF VersionInv

LEMMA SHandleCallPlaces ==
    ASSUME TypeOK, PlaceInv, VersionInv, UNCHANGED cVars, SHandleCall
    PROVE  PlaceInv' /\ VersionInv'
<1> DEFINE m == Head(sBatch)
           make == [obj |-> m.id, seq |-> m.seq]
<1>t. sObjs \in Seq(Object) /\ Asked \in Seq(Message)
  BY AskedType DEF TypeOK, ServerTypeOK
<1>1. /\ sBatch # <<>> /\ sBatch' = Tail(sBatch) /\ c2s' = c2s /\ m.code = "GENERIC"
      /\ UNCHANGED <<sObjs, emitted>>
      /\ \/ sMakes' = sMakes
         \/ m.method = "make" /\ sMakes' = sMakes \cup {make}
  BY DEF SHandleCall, SHandling
<1>2. /\ m = Stream[1] /\ 1 \in DOMAIN Stream
      /\ OnePlace(Stream', Asked, sMakes, sObjs)
      /\ Makes(m) => Free(m.seq, Stream', Asked, sMakes, sObjs)
      /\ Asked' = Asked /\ cObjs' = cObjs /\ Stream' \in Seq(Message)
      /\ Entitled(Stream', cObjs) /\ Entitled(Asked, cObjs)
  BY <1>1, TakenPlaces
<1>3. make.seq = m.seq
  OBVIOUS
<1> HIDE DEF m, make
<1>4. ASSUME m.method = "make", sMakes' = sMakes \cup {make}
      PROVE  OnePlace(Stream', Asked, sMakes', sObjs) /\ MadeOK(sMakes', cObjs)
  <2>1. Makes(m)
    BY <1>1, <1>4 DEF Makes
  <2>2. OnePlace(Stream', Asked, sMakes', sObjs)
    BY <2>1, <1>t, <1>2, <1>3, <1>4, PlacesJoin
  <2>3. m.seq \in DOMAIN cObjs /\ cObjs[m.seq].ver = 0
    BY <2>1, <1>1, <1>2 DEF VersionInv, Entitled
  <2>4. MadeOK(sMakes', cObjs)
    BY <2>3, <1>3, <1>4 DEF VersionInv, MadeOK
  <2> QED BY <2>2, <2>4
<1>5. OnePlace(Stream', Asked, sMakes', sObjs) /\ MadeOK(sMakes', cObjs)
  BY <1>1, <1>2, <1>4 DEF VersionInv
<1> QED BY <1>1, <1>2, <1>5, PlacesNext DEF VersionInv

LEMMA SCreatePlaces ==
    ASSUME TypeOK, PlaceInv, VersionInv, UNCHANGED cVars,
           NEW make \in sMakes, NEW known \in BOOLEAN, SCreate(make, known)
    PROVE  PlaceInv' /\ VersionInv'
<1> DEFINE ver == sObjs[make.obj].ver
           rest == sMakes \ {make}
<1>t. sObjs \in Seq(Object) /\ Asked \in Seq(Message) /\ Stream \in Seq(Message)
  BY AskedType, StreamType DEF TypeOK, ServerTypeOK
<1>1. /\ CreateObject(make.seq, ver, known) /\ sMakes' = rest
      /\ UNCHANGED <<sBatch, c2s, emitted, cObjs, cPending>>
  BY DEF SCreate, sHistory, cVars, cState
<1>2. make.seq \in Nat /\ ver \in Nat
  <2>1. make \in Make /\ make.obj \in DOMAIN sObjs
    BY DEF TypeOK, ServerTypeOK, ServerRefsOK
  <2>2. sObjs[make.obj] \in Object
    BY <2>1, <1>t
  <2> QED BY <2>1, <2>2 DEF Make, Object
<1>3. make.seq \in DOMAIN cObjs /\ cObjs[make.seq].ver = 0
  BY DEF VersionInv, MadeOK
<1> HIDE DEF ver
<1>4. PICK o \in Object : o.seq = make.seq /\ sObjs' = Append(sObjs, o)
  BY <1>1, <1>2, <1>3, CreatePlaces
<1>5. ObjectsOK(sObjs', cObjs) /\ SinceOK(emitted, sObjs')
  BY <1>1, <1>2, <1>3, CreatePlaces
<1>6. OnePlace(Stream, Asked, rest, sObjs)
  <2>1. FewerAsk(Asked, Asked) /\ FewerAsk(Stream, Stream) /\ rest \in SUBSET sMakes
    BY DEF FewerAsk
  <2> HIDE DEF rest
  <2> QED BY <2>1, PlacesThin DEF PlaceInv
<1>7. Free(make.seq, Stream, Asked, rest, sObjs)
  <2>1. Due(sMakes, make.seq) /\ ~Due(rest, make.seq)
    BY DEF Due, PlaceInv, OnePlace
  <2> QED BY <2>1 DEF Free, PlaceInv, OnePlace
<1>8. MadeOK(rest, cObjs)
  BY DEF VersionInv, MadeOK
<1> HIDE DEF rest
<1>9. OnePlace(Stream, Asked, rest, sObjs')
  BY <1>t, <1>4, <1>6, <1>7, PlacesJoin
<1>10. Stream' = Stream /\ Asked' = Asked
  BY <1>1 DEF Stream, Asked
<1> QED BY <1>1, <1>5, <1>8, <1>9, <1>10, PlacesNext DEF VersionInv

-----------------------------------------------------------------------------
(* All steps.                                                                 *)

LEMMA SameHandles == SameVersions(cObjs, cObjs)
  BY DEF SameVersions

(* Steps of the client that ask for nothing.                                  *)
LEMMA ClientPlaces ==
    ASSUME TypeOK, IdleInv, PlaceInv, VersionInv, UNCHANGED sVars, cPending' = cPending,
           c2s' = c2s \/ \E m \in Message : ~Makes(m) /\ c2s' = SentToServer(<<m>>),
           SameVersions(cObjs', cObjs)
    PROVE  PlaceInv' /\ VersionInv'
<1>1. UNCHANGED <<sBatch, sMakes, sObjs, emitted>>
  BY DEF sVars, sState, sHistory
<1>2. Sparse(Stream', Stream)
  BY <1>1, StreamSparse
<1>3. SinceOK(emitted', sObjs)
  BY <1>1 DEF VersionInv
<1> QED BY <1>1, <1>2, <1>3, QuietPlaces

LEMMA AppPlaces ==
    TypeOK /\ IdleInv /\ PlaceInv /\ VersionInv /\ ClientApp => PlaceInv' /\ VersionInv'
<1> SUFFICES ASSUME TypeOK, IdleInv, PlaceInv, VersionInv, ClientApp PROVE PlaceInv' /\ VersionInv'
  OBVIOUS
<1>0. UNCHANGED sVars
  BY DEF ClientApp
<1>1. ASSUME CWaitForHandshake \/ CDispatch \/ \E ver \in BindVersions : CBindTooNew(ver)
      PROVE  PlaceInv' /\ VersionInv'
  <2>1. UNCHANGED <<c2s, cPending, cObjs>>
    BY <1>1 DEF CWaitForHandshake, CDispatch, CBindTooNew, DisconnectOnError, CloseClientEnd, wireVars
  <2> QED BY <2>1, <1>0, SameHandles, ClientPlaces
<1>2. CASE CRoundtrip
  <2> DEFINE m == RoundtripRequest(cSentRt + 1)
  <2>1. m \in Message /\ ~Makes(m)
    <3>1. cSentRt + 1 \in Nat
      BY DEF TypeOK, ClientTypeOK
    <3> QED BY <3>1, MessageTypes DEF RoundtripRequest, Plain, Makes
  <2>2. c2s' = SentToServer(<<m>>) /\ UNCHANGED <<cPending, cObjs>>
    BY <1>2 DEF CRoundtrip
  <2> HIDE DEF m
  <2> QED BY <2>1, <2>2, <1>0, SameHandles, ClientPlaces
<1> QED BY <1>0, <1>1, <1>2, BindPlaces, CallPlaces DEF ClientApp, AppStep

(* A NEW_OBJECT, or the end of a bind, changes no version.                    *)
LEMMA HandleChanges ==
    ASSUME TypeOK
    PROVE  /\ \A seq, id : SameVersions(OnSeq(seq, id), cObjs)
           /\ \A s : SameVersions([cObjs EXCEPT ![s].listens = TRUE], cObjs)
<1>t. cObjs \in Seq(Handle) /\ \A s \in DOMAIN cObjs : cObjs[s] \in Handle
  BY DEF TypeOK, ClientTypeOK
<1>1. \A seq, id : SameVersions(OnSeq(seq, id), cObjs)
  BY <1>t DEF SameVersions, OnSeq, Handle
<1>2. \A s : SameVersions([cObjs EXCEPT ![s].listens = TRUE], cObjs)
  BY <1>t DEF SameVersions, Handle
<1> QED BY <1>1, <1>2

LEMMA LibraryPlaces ==
    TypeOK /\ IdleInv /\ NumberedInv /\ PlaceInv /\ VersionInv /\ ClientLibrary
        => PlaceInv' /\ VersionInv'
<1> SUFFICES ASSUME TypeOK, IdleInv, NumberedInv, PlaceInv, VersionInv, ClientLibrary
             PROVE  PlaceInv' /\ VersionInv'
  OBVIOUS
<1>0. UNCHANGED sVars
  BY DEF ClientLibrary
<1>1. ASSUME CDispatchFails \/ CNothingToRead \/ CRead \/ CHandleProtocols
             \/ (\E h \in DOMAIN cObjs : CHandleEvent(h)) \/ CDropEvent \/ CHandleFatal
             \/ CHandleRoundtripDone \/ CHandleMalformed \/ CBatchDone \/ CListenerReturn
      PROVE  PlaceInv' /\ VersionInv'
  <2>1. UNCHANGED <<c2s, cPending, cObjs>>
    BY <1>1 DEF CDispatchFails, CNothingToRead, CRead, CHandleProtocols, CHandleEvent, CDropEvent,
       CHandleFatal, CHandleRoundtripDone, CHandleMalformed, CBatchDone, CListenerReturn,
       DisconnectOnError, CloseClientEnd, wireVars
  <2> QED BY <2>1, <1>0, SameHandles, ClientPlaces
<1>2. CASE CHandleHandshakeBegin
  <2> DEFINE m == Plain("HANDSHAKE_ACK")
  <2>1. m \in Message /\ ~Makes(m)
    BY MessageTypes DEF Plain, Codes, Makes
  <2>2. c2s' = SentToServer(<<m>>) /\ UNCHANGED <<cPending, cObjs>>
    BY <1>2 DEF CHandleHandshakeBegin
  <2> HIDE DEF m
  <2> QED BY <2>1, <2>2, <1>0, SameHandles, ClientPlaces
<1>3. CASE CLoopReturns \/ CHandleNewObject
  <2>1. SameVersions(cObjs', cObjs)
    BY <1>3, SameHandles, HandleChanges DEF CLoopReturns, CHandleNewObject
  <2>2. UNCHANGED <<c2s, cPending>>
    BY <1>3 DEF CLoopReturns, CHandleNewObject, wireVars
  <2> QED BY <2>1, <2>2, <1>0, ClientPlaces
<1> QED BY <1>0, <1>1, <1>2, <1>3, FlushPlaces DEF ClientLibrary, LibraryStep, HandleStep

LEMMA ClientEndPlaces ==
    TypeOK /\ IdleInv /\ PlaceInv /\ VersionInv /\ (ClientLeaves \/ ClientTime)
        => PlaceInv' /\ VersionInv'
<1> SUFFICES ASSUME TypeOK, IdleInv, PlaceInv, VersionInv, ClientLeaves \/ ClientTime
             PROVE  PlaceInv' /\ VersionInv'
  OBVIOUS
<1>1. UNCHANGED sVars /\ UNCHANGED <<c2s, cPending, cObjs>>
  BY DEF ClientLeaves, ClientTime, CDestroy, CHandshakeTimeout, CClockRunsOut,
     DisconnectOnError, CloseClientEnd, wireVars
<1> QED BY <1>1, SameHandles, ClientPlaces

LEMMA ServerPlaces ==
    TypeOK /\ IdleInv /\ PlaceInv /\ VersionInv
        /\ (ServerDispatch \/ ServerApp \/ ServerRemoves \/ Tear) => PlaceInv' /\ VersionInv'
<1> SUFFICES ASSUME TypeOK, IdleInv, PlaceInv, VersionInv,
                    ServerDispatch \/ ServerApp \/ ServerRemoves \/ Tear
             PROVE  PlaceInv' /\ VersionInv'
  OBVIOUS
<1>0. UNCHANGED cVars
  BY DEF ServerDispatch, ServerApp, ServerRemoves, Tear
<1>q. ASSUME Sparse(Stream', Stream), UNCHANGED <<sMakes, sObjs>>, SinceOK(emitted', sObjs)
      PROVE  PlaceInv' /\ VersionInv'
  <2>1. UNCHANGED <<cPending, cObjs>>
    BY <1>0 DEF cVars, cState
  <2> QED BY <2>1, <1>q, SameHandles, QuietPlaces
<1>1. CASE SRead \/ Tear
  <2>1. UNCHANGED <<sMakes, sObjs, emitted>>
    BY <1>1 DEF SRead, Tear, sHistory, sVars, sState
  <2>2. Sparse(Stream', Stream)
    BY <1>1, StreamSparse
  <2> QED BY <2>1, <2>2, <1>q DEF VersionInv
<1>2. CASE SHandleHello \/ SHandleAck \/ SHandleRoundtrip \/ SHandleMalformed \/ SBatchDone
  <2>1. UNCHANGED <<sMakes, sObjs, emitted, c2s>>
    BY <1>2 DEF SHandleHello, SHandleAck, SHandleRoundtrip, SHandleMalformed, SBatchDone,
       sHistory, wireVars
  <2>2. sBatch' = <<>> \/ (sBatch # <<>> /\ sBatch' = Tail(sBatch))
    BY <1>2 DEF SHandleHello, SHandleAck, SHandleRoundtrip, SHandleMalformed, SBatchDone, SHandling
  <2>3. Sparse(Stream', Stream)
    BY <2>1, <2>2, StreamSparse
  <2> QED BY <2>1, <2>3, <1>q DEF VersionInv
<1>3. CASE SHangup \/ SRemove
  <2>1. UNCHANGED <<sMakes, sObjs, emitted>> /\ c2s' = <<>> /\ sBatch' = <<>>
    BY <1>3 DEF SHangup, SRemove, CloseServerEnd, IdleInv, sVars, sState, sHistory
  <2>2. Sparse(Stream', Stream)
    BY <2>1, StreamSparse
  <2> QED BY <2>1, <2>2, <1>q DEF VersionInv
<1>4. ASSUME NEW id \in DOMAIN sObjs, SEmit(id) \/ SRaise(id)
      PROVE  PlaceInv' /\ VersionInv'
  <2>1. UNCHANGED <<sMakes, sObjs, sBatch, c2s>>
    BY <1>4 DEF SEmit, SRaise, sState
  <2>2. Sparse(Stream', Stream)
    BY <2>1, StreamSparse
  <2>3. SinceOK(emitted', sObjs)
    <3>1. CASE SRaise(id)
      BY <3>1 DEF SRaise, VersionInv
    <3>2. CASE SEmit(id)
      <4>1. emitted' = Append(emitted, id) /\ Since["event"] <= sObjs[id].ver
        BY <3>2 DEF SEmit
      <4>2. emitted \in Seq(Nat) /\ id \in Nat
        BY DEF TypeOK, ServerTypeOK
      <4>3. \A n \in DOMAIN emitted' : emitted'[n] = id \/ (n \in DOMAIN emitted /\ emitted'[n] = emitted[n])
        BY <4>1, <4>2, AppendType
      <4> QED BY <4>1, <4>3 DEF VersionInv, SinceOK
    <3> QED BY <1>4, <3>1, <3>2
  <2> QED BY <2>1, <2>2, <2>3, <1>q
<1> QED
  BY <1>0, <1>1, <1>2, <1>3, <1>4, SHandleBindPlaces, SHandleCallPlaces, SCreatePlaces
     DEF ServerDispatch, ServerApp, ServerRemoves, DispatchStep, SAppStep

-----------------------------------------------------------------------------
(* The client's call stack: which messages and which binds a step keeps.      *)
Prefix(new, old) == \A d \in DOMAIN new : d \in DOMAIN old /\ new[d] = old[d]
SameMsgs(new, old) ==
    /\ \A d \in DOMAIN new :
          new[d].msgs = <<>> \/ (d \in DOMAIN old /\ new[d].msgs = old[d].msgs)
    /\ \A d \in DOMAIN old :
          old[d].msgs = <<>> \/ (d \in DOMAIN new /\ new[d].msgs = old[d].msgs)
KeepsBinds(new, old) ==
    \A d \in DOMAIN old : old[d].kind = "object" =>
        d \in DOMAIN new /\ new[d].kind = "object" /\ new[d].arg = old[d].arg

LEMMA KeepsAll ==
    ASSUME NEW a, NEW b, NEW c
    PROVE  /\ Prefix(a, a) /\ SameMsgs(a, a) /\ KeepsBinds(a, a)
           /\ Prefix(b, a) /\ Prefix(c, b) => Prefix(c, a)
           /\ SameMsgs(b, a) /\ SameMsgs(c, b) => SameMsgs(c, a)
           /\ KeepsBinds(b, a) /\ KeepsBinds(c, b) => KeepsBinds(c, a)
<1>1. Prefix(a, a) /\ SameMsgs(a, a) /\ KeepsBinds(a, a)
  BY DEF Prefix, SameMsgs, KeepsBinds
<1>2. Prefix(b, a) /\ Prefix(c, b) => Prefix(c, a)
  BY DEF Prefix
<1>3. SameMsgs(b, a) /\ SameMsgs(c, b) => SameMsgs(c, a)
  BY DEF SameMsgs
<1>4. KeepsBinds(b, a) /\ KeepsBinds(c, b) => KeepsBinds(c, a)
  BY DEF KeepsBinds
<1> QED BY <1>1, <1>2, <1>3, <1>4

LEMMA PopFrames ==
    ASSUME NEW stack \in Seq(Frame), stack # <<>>, ShapeOK(stack)
    PROVE  /\ ShapeOK(Pop(stack)) /\ Prefix(Pop(stack), stack) /\ Pop(stack) \in Seq(Frame)
           /\ stack[Len(stack)].msgs = <<>> => SameMsgs(Pop(stack), stack)
           /\ stack[Len(stack)].kind # "object" => KeepsBinds(Pop(stack), stack)
<1>1. /\ Pop(stack) \in Seq(Frame)
      /\ \A d \in DOMAIN Pop(stack) : d \in DOMAIN stack /\ Pop(stack)[d] = stack[d]
  BY PopType, PopElements
<1>2. /\ \A d \in DOMAIN stack : d = Len(stack) \/ d \in DOMAIN Pop(stack)
      /\ \A d \in DOMAIN Pop(stack) : d - 1 \in DOMAIN stack => d - 1 \in DOMAIN Pop(stack)
  BY DEF Pop
<1>3. ShapeOK(Pop(stack))
  BY <1>1, <1>2 DEF ShapeOK
<1>4. Prefix(Pop(stack), stack)
  BY <1>1 DEF Prefix
<1>5. stack[Len(stack)].msgs = <<>> => SameMsgs(Pop(stack), stack)
  BY <1>1, <1>2 DEF SameMsgs
<1>6. stack[Len(stack)].kind # "object" => KeepsBinds(Pop(stack), stack)
  BY <1>1, <1>2 DEF KeepsBinds
<1> QED BY <1>1, <1>3, <1>4, <1>5, <1>6

(* The caller of a dispatch is a loop, of which a bind never gives up.        *)
LEMMA ReturnFrames ==
    ASSUME NEW stack \in Seq(Frame), stack # <<>>, ShapeOK(stack),
           stack[Len(stack)].kind \in Loops, NEW ok
    PROVE  LET left == ReturnDispatch(stack, ok) IN
           ShapeOK(left) /\ Prefix(left, stack) /\ SameMsgs(left, stack) /\ KeepsBinds(left, stack)
<1>1. stack[Len(stack)].msgs = <<>>
  <2>1. Len(stack) \in DOMAIN stack
    OBVIOUS
  <2> QED BY <2>1 DEF ShapeOK, Loops
<1>2. CASE ReturnDispatch(stack, ok) = stack
  BY <1>2, KeepsAll
<1>3. CASE ReturnDispatch(stack, ok) = Pop(stack) /\ stack[Len(stack)].kind # "object"
  BY <1>1, <1>3, PopFrames
<1>4. \/ ReturnDispatch(stack, ok) = stack
      \/ ReturnDispatch(stack, ok) = Pop(stack) /\ stack[Len(stack)].kind # "object"
  BY DEF ReturnDispatch
<1> QED BY <1>2, <1>3, <1>4

LEMMA BatchReturns ==
    ASSUME TypeOK, ShapeOK(cStack), InBatch, NEW ok
    PROVE  LET left == ReturnDispatch(Pop(cStack), ok) IN
           /\ ShapeOK(left) /\ Prefix(left, cStack) /\ KeepsBinds(left, cStack)
           /\ Top.msgs = <<>> => SameMsgs(left, cStack)
<1> DEFINE below == Pop(cStack)
           left  == ReturnDispatch(below, ok)
<1>t. cStack \in Seq(Frame) /\ cStack # <<>>
  BY DEF TypeOK, ClientTypeOK, InBatch
<1>1. Len(cStack) \in DOMAIN cStack /\ Top = cStack[Len(cStack)] /\ Top.kind = "batch"
  BY <1>t DEF Top, InBatch
<1>2. Len(cStack) - 1 \in DOMAIN cStack /\ cStack[Len(cStack) - 1].kind \in Loops
  BY <1>1 DEF ShapeOK
<1>3. /\ ShapeOK(below) /\ Prefix(below, cStack) /\ below \in Seq(Frame)
      /\ Top.msgs = <<>> => SameMsgs(below, cStack)
      /\ KeepsBinds(below, cStack)
  BY <1>t, <1>1, PopFrames
<1>4. below # <<>> /\ below[Len(below)].kind \in Loops
  <2>1. Len(below) = Len(cStack) - 1 /\ Len(below) \in DOMAIN below
    BY <1>t, <1>2 DEF Pop
  <2> QED BY <2>1, <1>2, <1>3 DEF Prefix
<1> HIDE DEF below
<1>5. ShapeOK(left) /\ Prefix(left, below) /\ SameMsgs(left, below) /\ KeepsBinds(left, below)
  BY <1>3, <1>4, ReturnFrames
<1> HIDE DEF left
<1>6. /\ ShapeOK(left) /\ Prefix(left, cStack) /\ KeepsBinds(left, cStack)
      /\ Top.msgs = <<>> => SameMsgs(left, cStack)
  BY <1>3, <1>5, KeepsAll
<1> QED BY <1>6 DEF left, below

LEMMA PushFrames ==
    ASSUME NEW stack \in Seq(Frame), ShapeOK(stack), NEW f \in Frame, f.kind # "batch", f.msgs = <<>>
    PROVE  LET more == Append(stack, f) IN
           ShapeOK(more) /\ SameMsgs(more, stack) /\ KeepsBinds(more, stack)
<1> DEFINE more == Append(stack, f)
<1>1. /\ \A d \in DOMAIN stack : d \in DOMAIN more /\ more[d] = stack[d]
      /\ \A d \in DOMAIN more : more[d] = f \/ (d \in DOMAIN stack /\ more[d] = stack[d])
  BY AppendType
<1> HIDE DEF more
<1>2. ShapeOK(more)
  BY <1>1 DEF ShapeOK
<1>3. SameMsgs(more, stack) /\ KeepsBinds(more, stack)
  BY <1>1 DEF SameMsgs, KeepsBinds
<1> QED BY <1>2, <1>3 DEF more

LEMMA AdvanceFrames ==
    ASSUME TypeOK, ShapeOK(cStack), NEW code, Handling(code)
    PROVE  ShapeOK(Advanced) /\ KeepsBinds(Advanced, cStack)
<1>1. /\ DOMAIN Advanced = DOMAIN cStack
      /\ \A d \in DOMAIN Advanced : Advanced[d].kind = cStack[d].kind /\ Advanced[d].arg = cStack[d].arg
  BY HandlingTrims
<1>2. /\ \A d \in DOMAIN cStack : d # Len(cStack) => Advanced[d] = cStack[d]
      /\ cStack[Len(cStack)].kind = "batch"
  BY HandlingFewer DEF Handling, InBatch, Top
<1>3. ShapeOK(Advanced)
  BY <1>1, <1>2 DEF ShapeOK
<1> QED BY <1>1, <1>3 DEF KeepsBinds

(* The stack keeps its shape in every step.                                   *)
LEMMA FrameTypes ==
    /\ <<>> \in Seq(Message)
    /\ \A kind \in Loops \cup {"listener"}, arg \in Nat :
          LET f == [kind |-> kind, arg |-> arg, msgs |-> <<>>] IN
          f \in Frame /\ f.kind # "batch" /\ f.msgs = <<>>
<1>1. <<>> \in Seq(Message)
  OBVIOUS
<1> QED BY <1>1 DEF Frame, Loops

LEMMA PushShape ==
    ASSUME TypeOK, ShapeOK(cStack), NEW kind \in Loops \cup {"listener"}, NEW arg \in Nat
    PROVE  LET more == Push(kind, arg, <<>>) IN
           ShapeOK(more) /\ SameMsgs(more, cStack) /\ KeepsBinds(more, cStack)
<1> DEFINE f == [kind |-> kind, arg |-> arg, msgs |-> <<>>]
<1>1. f \in Frame /\ f.kind # "batch" /\ f.msgs = <<>>
  BY FrameTypes
<1>2. cStack \in Seq(Frame)
  BY DEF TypeOK, ClientTypeOK
<1>3. Push(kind, arg, <<>>) = Append(cStack, f)
  BY DEF Push
<1> HIDE DEF f
<1> QED BY <1>1, <1>2, <1>3, PushFrames

(* A loop or a listener that returns.                                         *)
LEMMA TopShape ==
    ASSUME TypeOK, ShapeOK(cStack), cStack # <<>>, Top.kind \in Loops \cup {"listener"}
    PROVE  /\ ShapeOK(Pop(cStack)) /\ SameMsgs(Pop(cStack), cStack) /\ Prefix(Pop(cStack), cStack)
           /\ Top.kind # "object" => KeepsBinds(Pop(cStack), cStack)
           /\ Top.kind \in Loops => \A ok :
                 LET left == ReturnDispatch(cStack, ok) IN
                 ShapeOK(left) /\ SameMsgs(left, cStack) /\ Prefix(left, cStack)
                     /\ KeepsBinds(left, cStack)
<1>t. cStack \in Seq(Frame) /\ Len(cStack) \in DOMAIN cStack /\ Top = cStack[Len(cStack)]
  BY DEF TypeOK, ClientTypeOK, Top
<1>1. cStack[Len(cStack)].msgs = <<>>
  BY <1>t DEF ShapeOK, Loops
<1>2. Top.kind \in Loops => \A ok :
         LET left == ReturnDispatch(cStack, ok) IN
         ShapeOK(left) /\ SameMsgs(left, cStack) /\ Prefix(left, cStack) /\ KeepsBinds(left, cStack)
  BY <1>t, ReturnFrames
<1> QED BY <1>t, <1>1, <1>2, PopFrames

LEMMA ReadShape ==
    ASSUME TypeOK, ShapeOK(cStack), InLoop, NEW batch \in Seq(Message)
    PROVE  LET more == Push("batch", 0, batch) IN
           /\ ShapeOK(more) /\ KeepsBinds(more, cStack)
           /\ DOMAIN more = 1..Len(cStack) + 1 /\ more[Len(cStack) + 1].msgs = batch
           /\ \A d \in DOMAIN cStack : d \in DOMAIN more /\ more[d] = cStack[d]
<1> DEFINE f == [kind |-> "batch", arg |-> 0, msgs |-> batch]
           more == Append(cStack, f)
<1>1. f \in Frame /\ f.kind = "batch" /\ f.msgs = batch
  BY DEF Frame
<1>2. cStack \in Seq(Frame) /\ Len(cStack) \in DOMAIN cStack /\ cStack[Len(cStack)].kind \in Loops
  BY DEF TypeOK, ClientTypeOK, InLoop, Top
<1> HIDE DEF f
<1>3. /\ DOMAIN more = 1..Len(cStack) + 1 /\ more[Len(cStack) + 1] = f
      /\ \A d \in DOMAIN cStack : d \in DOMAIN more /\ more[d] = cStack[d]
      /\ DOMAIN cStack = 1..Len(cStack) /\ Len(cStack) \in Nat
  BY <1>1, <1>2, AppendType
<1> HIDE DEF more
<1>4. \A d \in DOMAIN more : d = Len(cStack) + 1 \/ d \in DOMAIN cStack
  BY <1>3
<1>5. ShapeOK(more)
  <2>1. ASSUME NEW d \in DOMAIN cStack
        PROVE  IF more[d].kind = "batch"
               THEN d - 1 \in DOMAIN more /\ more[d - 1].kind \in Loops
               ELSE more[d].msgs = <<>>
    BY <1>3 DEF ShapeOK
  <2>2. LET d == Len(cStack) + 1 IN d - 1 \in DOMAIN more /\ more[d - 1].kind \in Loops
    BY <1>2, <1>3
  <2> QED BY <1>1, <1>3, <1>4, <2>1, <2>2 DEF ShapeOK
<1>6. KeepsBinds(more, cStack)
  BY <1>3 DEF KeepsBinds
<1>7. Push("batch", 0, batch) = more
  BY DEF Push, more, f
<1> QED BY <1>1, <1>3, <1>5, <1>6, <1>7

-----------------------------------------------------------------------------
(* A handle without a listener.                                               *)
LEMMA QuietListens ==
    ASSUME ListensInv, KeepsBinds(cStack', cStack),
           \A s \in DOMAIN cObjs' :
              cObjs'[s].listens \/ (s \in DOMAIN cObjs /\ cObjs'[s].listens = cObjs[s].listens)
    PROVE  ListensInv'
<1>1. ASSUME NEW s, BindInProgress(s) PROVE BindInProgress(s)'
  BY <1>1 DEF BindInProgress, KeepsBinds
<1> QED BY <1>1 DEF ListensInv

-----------------------------------------------------------------------------
(* An event comes after the announcement of its object.                       *)
Learns(new, old) == \A id \in Nat \ {0} : Known(old, id) => Known(new, id)

LEMMA SeqShape ==
    ASSUME NEW S, NEW s \in Seq(S)
    PROVE  Len(s) \in Nat /\ DOMAIN s = 1..Len(s) /\ DOMAIN s \subseteq Nat \ {0}
  OBVIOUS

LEMMA BelowTop ==
    ASSUME NEW S, NEW s \in Seq(S)
    PROVE  \A d \in DOMAIN s : d <= Len(s) /\ d < Len(s) + 1
  OBVIOUS

LEMMA StackShape ==
    ASSUME TypeOK, TypeOK'
    PROVE  /\ cStack \in Seq(Frame) /\ cStack' \in Seq(Frame)
           /\ DOMAIN sObjs \subseteq Nat \ {0}
           /\ DOMAIN cStack = 1..Len(cStack) /\ DOMAIN cStack' = 1..Len(cStack')
           /\ Len(cStack) \in Nat /\ Len(cStack') \in Nat
<1>1. cStack \in Seq(Frame) /\ cStack' \in Seq(Frame) /\ sObjs \in Seq(Object)
  BY DEF TypeOK, ClientTypeOK, ServerTypeOK
<1> QED BY <1>1, SeqShape

(* Nothing is read or handled.                                                *)
LEMMA QuietTurn ==
    ASSUME TypeOK, TypeOK', TurnInv, Learns(cObjs', cObjs), SameMsgs(cStack', cStack), s2c' = s2c,
           cOpen' => cOpen, sOpen' => sOpen,
           \A id \in DOMAIN sObjs' : sObjs'[id].ok => id \in DOMAIN sObjs /\ sObjs[id].ok
    PROVE  TurnInv'
<1>t. /\ cStack \in Seq(Frame) /\ cStack' \in Seq(Frame)
      /\ DOMAIN sObjs \subseteq Nat \ {0}
      /\ DOMAIN cStack = 1..Len(cStack) /\ DOMAIN cStack' = 1..Len(cStack')
      /\ Len(cStack) \in Nat /\ Len(cStack') \in Nat
  BY StackShape
<1>1. ASSUME NEW d, NEW id \in Nat \ {0}, Settled(cObjs, cStack, d, id)
      PROVE  Settled(cObjs', cStack', d, id)
  BY <1>1 DEF Settled, Learns, SameMsgs, Holds
<1>2. ASSUME NEW id \in Nat \ {0}, Settled(cObjs, cStack, Len(cStack) + 1, id)
      PROVE  Settled(cObjs', cStack', Len(cStack') + 1, id)
  <2>1. Settled(cObjs', cStack', Len(cStack) + 1, id)
    BY <1>1, <1>2, <1>t
  <2>2. \A e \in DOMAIN cStack' : e < Len(cStack') + 1
    BY <1>t
  <2> QED BY <2>1, <2>2 DEF Settled
<1>3. ASSUME NEW d \in DOMAIN cStack' PROVE InTurn(cStack'[d].msgs, cObjs', cStack', d)
  <2>1. CASE cStack'[d].msgs = <<>>
    BY <2>1 DEF InTurn
  <2>2. CASE d \in DOMAIN cStack /\ cStack'[d].msgs = cStack[d].msgs
    BY <2>2, <1>1 DEF TurnInv, InTurn
  <2> QED BY <2>1, <2>2 DEF SameMsgs
<1>4. InTurn(s2c', cObjs', cStack', Len(cStack') + 1)
  BY <1>2 DEF TurnInv, InTurn
<1>5. cOpen' /\ sOpen' => Announced(sObjs', s2c', cObjs', cStack')
  BY <1>2, <1>t DEF TurnInv, Announced
<1> QED BY <1>3, <1>4, <1>5 DEF TurnInv

(* The client gives up: it reads no more, and frames return.                  *)
LEMMA ClosedTurn ==
    ASSUME TypeOK, TypeOK', TurnInv, cObjs' = cObjs, Prefix(cStack', cStack),
           s2c' = <<>>, cOpen' = FALSE
    PROVE  TurnInv'
<1>t. /\ cStack \in Seq(Frame) /\ cStack' \in Seq(Frame)
      /\ DOMAIN cStack = 1..Len(cStack) /\ DOMAIN cStack' = 1..Len(cStack')
      /\ Len(cStack) \in Nat /\ Len(cStack') \in Nat
  BY DEF TypeOK, ClientTypeOK
<1>1. ASSUME NEW d \in DOMAIN cStack', NEW id, Settled(cObjs, cStack, d, id)
      PROVE  Settled(cObjs', cStack', d, id)
  <2>1. \A e \in DOMAIN cStack : e < d => e \in DOMAIN cStack'
    BY <1>t
  <2> QED BY <1>1, <2>1 DEF Settled, Prefix
<1>2. ASSUME NEW d \in DOMAIN cStack' PROVE InTurn(cStack'[d].msgs, cObjs', cStack', d)
  BY <1>1 DEF TurnInv, InTurn, Prefix
<1>3. InTurn(s2c', cObjs', cStack', Len(cStack') + 1)
  BY DEF InTurn
<1> QED BY <1>2, <1>3 DEF TurnInv

(* A message is handled, and a listener may run.                              *)
LEMMA AdvanceTurn ==
    ASSUME TypeOK, TypeOK', TurnInv, NEW code, code # "MALFORMED", Handling(code),
           Learns(cObjs', cObjs), code = "NEW_OBJECT" => Known(cObjs', Head(Top.msgs).id),
           UNCHANGED <<s2c, cOpen, sOpen, sObjs>>,
           NEW f \in Frame, f.msgs = <<>>,
           cStack' = Advanced \/ cStack' = Append(Advanced, f)
    PROVE  TurnInv'
<1> DEFINE n == Len(cStack)
           ms == Top.msgs
           rest == Tail(ms)
<1>t. /\ cStack \in Seq(Frame) /\ DOMAIN cStack = 1..n /\ n \in Nat /\ n \in DOMAIN cStack
      /\ DOMAIN sObjs \subseteq Nat \ {0}
      /\ cStack' \in Seq(Frame) /\ Len(cStack') \in Nat /\ DOMAIN cStack' = 1..Len(cStack')
      /\ ms = cStack[n].msgs /\ Head(ms).code = code /\ ms \in Seq(Message)
      /\ Advanced \in Seq(Frame) /\ DOMAIN Advanced = DOMAIN cStack
      /\ Advanced[n].msgs = rest
      /\ \A d \in DOMAIN cStack : d # n => Advanced[d] = cStack[d]
  BY StackShape, HandlingFewer DEF Handling
<1>h. /\ 1 \in DOMAIN ms /\ Head(ms) = ms[1] /\ DOMAIN ms \subseteq Nat \ {0}
      /\ \A i \in DOMAIN rest : i + 1 \in DOMAIN ms /\ rest[i] = ms[i + 1] /\ i \in Nat \ {0}
      /\ \A j \in DOMAIN ms : j # 1 => j - 1 \in DOMAIN rest /\ rest[j - 1] = ms[j]
  <2>1. ms # <<>>
    BY DEF Handling
  <2>2. ms \in Seq(Message)
    BY <1>t
  <2> HIDE DEF ms
  <2>3. Len(ms) \in Nat /\ DOMAIN ms = 1..Len(ms) /\ Len(ms) # 0 /\ Head(ms) = ms[1]
    BY <2>1, <2>2
  <2>4. DOMAIN rest = 1..Len(ms) - 1 /\ \A i \in 1..Len(ms) - 1 : rest[i] = ms[i + 1]
    BY <2>1, <2>2
  <2> HIDE DEF rest
  <2>5. \A j \in DOMAIN ms : j # 1 => j - 1 \in 1..Len(ms) - 1 /\ j - 1 + 1 = j
    BY <2>3
  <2> QED BY <2>3, <2>4, <2>5
<1>s. /\ n <= Len(cStack') /\ cStack'[n].msgs = rest
      /\ \A d \in DOMAIN cStack : d \in DOMAIN cStack' /\ (d # n => cStack'[d] = cStack[d])
      /\ \A d \in DOMAIN cStack' : d \in DOMAIN cStack \/ cStack'[d].msgs = <<>>
  <2> HIDE DEF n, ms, rest
  <2>1. CASE cStack' = Advanced
    BY <1>t, <2>1
  <2>2. CASE cStack' = Append(Advanced, f)
    <3>1. /\ \A d \in DOMAIN Advanced : d \in DOMAIN cStack' /\ cStack'[d] = Advanced[d]
          /\ \A d \in DOMAIN cStack' : d \in DOMAIN Advanced \/ cStack'[d] = f
      BY <1>t, <2>2, AppendType
    <3>2. n \in 1..Len(cStack') /\ cStack'[n].msgs = rest
      BY <3>1, <1>t
    <3>3. n <= Len(cStack')
      BY <3>1, <1>t, BelowTop
    <3> QED BY <3>1, <3>2, <3>3, <1>t
  <2> QED BY <2>1, <2>2
<1> HIDE DEF ms, rest, n
<1>1. ASSUME NEW id, Accounts(ms[1], id) PROVE Known(cObjs', id)
  BY <1>1, <1>t, <1>h DEF Accounts, ms
<1>2. ASSUME NEW id, Holds(ms, id) PROVE Holds(rest, id) \/ Known(cObjs', id)
  <2>1. PICK j \in DOMAIN ms : Accounts(ms[j], id)
    BY <1>2 DEF Holds
  <2>2. CASE j = 1
    BY <2>1, <2>2, <1>1
  <2>3. CASE j # 1
    BY <2>1, <2>3, <1>h DEF Holds
  <2> QED BY <2>2, <2>3
<1>3. ASSUME NEW d, NEW id \in Nat \ {0}, Settled(cObjs, cStack, d, id)
      PROVE  Settled(cObjs', cStack', d, id)
  <2>1. CASE Known(cObjs, id)
    BY <2>1 DEF Learns, Settled
  <2>2. ASSUME NEW e \in DOMAIN cStack, e < d, Holds(cStack[e].msgs, id)
        PROVE  Settled(cObjs', cStack', d, id)
    <3>1. CASE e = n
      BY <3>1, <2>2, <1>2, <1>t, <1>s DEF Settled
    <3>2. CASE e # n
      BY <3>2, <2>2, <1>s DEF Settled
    <3> QED BY <3>1, <3>2
  <2> QED BY <1>3, <2>1, <2>2 DEF Settled
<1>4. ASSUME NEW id \in Nat \ {0}, Settled(cObjs, cStack, n + 1, id)
      PROVE  Settled(cObjs', cStack', Len(cStack') + 1, id)
  <2>1. Settled(cObjs', cStack', n + 1, id)
    BY <1>3, <1>4
  <2>2. \A e \in DOMAIN cStack' : e < Len(cStack') + 1
    <3>1. cStack' \in Seq(Frame)
      BY <1>t
    <3> QED BY <3>1, BelowTop
  <2> QED BY <2>1, <2>2 DEF Settled
<1>5. ASSUME NEW d \in DOMAIN cStack' PROVE InTurn(cStack'[d].msgs, cObjs', cStack', d)
  <2>1. CASE cStack'[d].msgs = <<>>
    BY <2>1 DEF InTurn
  <2>2. CASE d \in DOMAIN cStack /\ d # n
    BY <2>2, <1>s, <1>3 DEF TurnInv, InTurn
  <2>3. CASE d = n
    <3>1. InTurn(ms, cObjs, cStack, n)
      BY <1>t DEF TurnInv
    <3>2. ASSUME NEW i \in DOMAIN rest, rest[i].code = "GENERIC", Before(ms, i + 1, rest[i].id)
          PROVE  Settled(cObjs', cStack', n, rest[i].id) \/ Before(rest, i, rest[i].id)
      <4>1. PICK j \in DOMAIN ms : j < i + 1 /\ Accounts(ms[j], rest[i].id)
        BY <3>2 DEF Before
      <4>2. CASE j = 1
        BY <4>1, <4>2, <1>1 DEF Settled
      <4>3. CASE j # 1
        <5>1. j - 1 < i
          BY <4>1, <1>h
        <5> QED BY <4>1, <4>3, <5>1, <1>h DEF Before
      <4> QED BY <4>2, <4>3
    <3>3. InTurn(rest, cObjs', cStack', n)
      BY <3>1, <3>2, <1>h, <1>3 DEF InTurn
    <3> QED BY <2>3, <3>3, <1>s
  <2> QED BY <2>1, <2>2, <2>3, <1>s
<1>6. InTurn(s2c', cObjs', cStack', Len(cStack') + 1)
  BY <1>4 DEF TurnInv, InTurn, n
<1>7. cOpen' /\ sOpen' => Announced(sObjs', s2c', cObjs', cStack')
  BY <1>4, <1>t DEF TurnInv, Announced, n
<1> QED BY <1>5, <1>6, <1>7 DEF TurnInv

(* The client reads what the stream holds.                                    *)
LEMMA ReadTurn ==
    ASSUME TypeOK, TypeOK', ShapeOK(cStack), TurnInv, InLoop,
           NEW batch \in Batches(s2c), cStack' = Push("batch", 0, batch), s2c' = Rest(s2c, batch),
           UNCHANGED <<cObjs, cOpen, sOpen, sObjs>>
    PROVE  TurnInv'
<1> DEFINE n == Len(cStack)
           k == Len(batch)
<1>t. /\ cStack \in Seq(Frame) /\ DOMAIN cStack = 1..n /\ n \in Nat
      /\ DOMAIN sObjs \subseteq Nat \ {0} /\ s2c \in Seq(Message)
  BY StackShape DEF TypeOK, WireTypeOK
<1>b. /\ batch \in Seq(Message) /\ k \in Nat /\ DOMAIN batch = 1..k
      /\ \A i \in DOMAIN batch : i \in DOMAIN s2c /\ batch[i] = s2c[i]
      /\ \A i \in DOMAIN s2c' : i \in Nat /\ i + k \in DOMAIN s2c /\ s2c'[i] = s2c[i + k]
      /\ \A j \in DOMAIN s2c : j \in Nat /\ (j > k => j - k \in DOMAIN s2c' /\ s2c'[j - k] = s2c[j])
  <2>1. PICK l \in 1..Len(s2c) : batch = SubSeq(s2c, 1, l)
    BY DEF Batches
  <2>2. k = l /\ batch \in Seq(Message)
    BY <2>1, <1>t
  <2>3. s2c' = SubSeq(s2c, l + 1, Len(s2c))
    BY <2>2 DEF Rest
  <2>4. /\ DOMAIN s2c = 1..Len(s2c) /\ Len(s2c) \in Nat /\ l \in Nat
        /\ DOMAIN s2c' = 1..Len(s2c) - l /\ \A i \in 1..Len(s2c) - l : s2c'[i] = s2c[i + l]
        /\ DOMAIN batch = 1..l /\ \A i \in 1..l : batch[i] = s2c[i]
    <3>1. DOMAIN s2c = 1..Len(s2c) /\ Len(s2c) \in Nat /\ l \in Nat
      BY <1>t, <2>1
    <3>2. DOMAIN s2c' = 1..Len(s2c) - l /\ \A i \in 1..Len(s2c) - l : s2c'[i] = s2c[i + l]
      BY <1>t, <3>1, <2>3
    <3>3. DOMAIN batch = 1..l /\ \A i \in 1..l : batch[i] = s2c[i]
      BY <1>t, <3>1, <2>1
    <3> QED BY <3>1, <3>2, <3>3
  <2> HIDE DEF k
  <2>5. \A j \in DOMAIN s2c : j > l => j - l \in 1..Len(s2c) - l /\ j - l + l = j
    BY <2>4
  <2> QED BY <2>2, <2>4, <2>5
<1>s. /\ DOMAIN cStack' = 1..n + 1 /\ cStack'[n + 1].msgs = batch
      /\ \A d \in DOMAIN cStack : d \in DOMAIN cStack' /\ cStack'[d] = cStack[d]
      /\ Len(cStack') = n + 1
  <2>1. Len(cStack') \in Nat /\ DOMAIN cStack' = 1..Len(cStack')
    BY DEF TypeOK, ClientTypeOK
  <2>2. /\ DOMAIN cStack' = 1..n + 1 /\ cStack'[n + 1].msgs = batch
        /\ \A d \in DOMAIN cStack : d \in DOMAIN cStack' /\ cStack'[d] = cStack[d]
    BY <1>b, ReadShape
  <2>3. Len(cStack') = n + 1
    BY <1>t, <2>1, <2>2
  <2> QED BY <2>2, <2>3
<1> HIDE DEF n, k
<1>1. ASSUME NEW d, NEW id, Settled(cObjs, cStack, d, id)
      PROVE  Settled(cObjs', cStack', d, id)
  BY <1>1, <1>s DEF Settled
<1>2. ASSUME NEW id, Holds(batch, id)
      PROVE  Settled(cObjs', cStack', n + 2, id)
  <2>1. n + 1 \in DOMAIN cStack' /\ n + 1 < n + 2
    BY <1>t, <1>s
  <2> QED BY <1>2, <2>1, <1>s DEF Settled
<1>3. ASSUME NEW id, Settled(cObjs, cStack, n + 1, id)
      PROVE  Settled(cObjs', cStack', n + 2, id)
  <2>1. \A e \in DOMAIN cStack : e < n + 2
    BY <1>t
  <2> QED BY <1>3, <2>1, <1>s DEF Settled
<1>4. InTurn(s2c, cObjs, cStack, n + 1)
  BY DEF TurnInv, n
<1>5. ASSUME NEW d \in DOMAIN cStack' PROVE InTurn(cStack'[d].msgs, cObjs', cStack', d)
  <2>1. CASE d \in DOMAIN cStack
    BY <2>1, <1>s, <1>1 DEF TurnInv, InTurn
  <2>2. CASE d = n + 1
    <3>1. ASSUME NEW i \in DOMAIN batch, NEW id, Before(s2c, i, id) PROVE Before(batch, i, id)
      <4>1. PICK j \in DOMAIN s2c : j < i /\ Accounts(s2c[j], id)
        BY <3>1 DEF Before
      <4>2. j \in DOMAIN batch
        <5>1. DOMAIN s2c = 1..Len(s2c)
          BY <1>t
        <5> QED BY <4>1, <5>1, <1>b
      <4> QED BY <4>1, <4>2, <1>b DEF Before
    <3>2. InTurn(batch, cObjs', cStack', n + 1)
      BY <3>1, <1>1, <1>4, <1>b DEF InTurn
    <3> QED BY <2>2, <3>2, <1>s
  <2> QED BY <2>1, <2>2, <1>s, <1>t
<1>6. InTurn(s2c', cObjs', cStack', n + 2)
  <2>1. ASSUME NEW i \in DOMAIN s2c', NEW id, Before(s2c, i + k, id)
        PROVE  Settled(cObjs', cStack', n + 2, id) \/ Before(s2c', i, id)
    <3>1. PICK j \in DOMAIN s2c : j < i + k /\ Accounts(s2c[j], id)
      BY <2>1 DEF Before
    <3>2. CASE j > k
      <4>1. j - k < i
        BY <3>1, <1>b
      <4> QED BY <3>1, <3>2, <4>1, <1>b DEF Before
    <3>3. CASE ~(j > k)
      <4>1. j \in DOMAIN batch
        <5>1. DOMAIN s2c = 1..Len(s2c)
          BY <1>t
        <5> QED BY <3>3, <5>1, <1>b
      <4>2. Holds(batch, id)
        BY <3>1, <4>1, <1>b DEF Holds
      <4> QED BY <4>2, <1>2
    <3> QED BY <3>2, <3>3
  <2> QED BY <2>1, <1>3, <1>4, <1>b DEF InTurn
<1>7. ASSUME cOpen, sOpen PROVE Announced(sObjs', s2c', cObjs', cStack')
  <2>1. Announced(sObjs, s2c, cObjs, cStack)
    BY <1>7 DEF TurnInv
  <2>2. ASSUME NEW id, Holds(s2c, id) PROVE Settled(cObjs', cStack', n + 2, id) \/ Holds(s2c', id)
    <3>1. PICK j \in DOMAIN s2c : Accounts(s2c[j], id)
      BY <2>2 DEF Holds
    <3>2. CASE j > k
      BY <3>1, <3>2, <1>b DEF Holds
    <3>3. CASE ~(j > k)
      <4>1. j \in DOMAIN batch
        <5>1. DOMAIN s2c = 1..Len(s2c)
          BY <1>t
        <5> QED BY <3>3, <5>1, <1>b
      <4>2. Holds(batch, id)
        BY <3>1, <4>1, <1>b DEF Holds
      <4> QED BY <4>2, <1>2
    <3> QED BY <3>2, <3>3
  <2>3. Len(cStack') + 1 = n + 2
    BY <1>t, <1>s
  <2> QED BY <2>1, <2>2, <2>3, <1>3 DEF Announced, n
<1>8. Len(cStack') + 1 = n + 2
  BY <1>t, <1>s
<1> QED BY <1>5, <1>6, <1>7, <1>8 DEF TurnInv

(* The server sends a message: an event only on an object it announced.       *)
LEMMA SentTurn ==
    ASSUME TypeOK, TypeOK', TurnInv, UNCHANGED <<cVars, cOpen, sOpen>>,
           NEW m \in Message, s2c' = SentToClient(<<m>>), 
           m.code = "GENERIC" => m.method = "event" /\ m.id \in DOMAIN sObjs /\ sObjs[m.id].ok,
           \A id \in DOMAIN sObjs' :
              sObjs'[id].ok => (id \in DOMAIN sObjs /\ sObjs[id].ok) \/ Accounts(m, id)
    PROVE  TurnInv'
<1> DEFINE l == Len(cStack) + 1
           n == Len(s2c)
<1>t. s2c \in Seq(Message) /\ DOMAIN sObjs \subseteq Nat \ {0} /\ l \in Nat
  BY StackShape DEF TypeOK, WireTypeOK
<1>s. cStack' = cStack /\ cObjs' = cObjs
  BY DEF cVars, cState
<1>1. CASE ~(cOpen /\ sOpen)
  <2>1. s2c' = s2c
    BY <1>1 DEF SentToClient
  <2> QED BY <1>1, <1>s, <2>1 DEF TurnInv, InTurn
<1>2. CASE cOpen /\ sOpen
  <2>1. s2c' = Append(s2c, m)
    BY <1>2, <1>t DEF SentToClient
  <2>2. /\ n \in Nat /\ DOMAIN s2c = 1..n /\ DOMAIN s2c' = 1..n + 1
        /\ \A i \in DOMAIN s2c : i \in DOMAIN s2c' /\ s2c'[i] = s2c[i]
        /\ s2c'[n + 1] = m
    BY <1>t, <2>1, AppendType
  <2>3. InTurn(s2c, cObjs, cStack, l) /\ Announced(sObjs, s2c, cObjs, cStack)
    BY <1>2 DEF TurnInv
  <2> HIDE DEF n
  <2>4. ASSUME NEW i \in DOMAIN s2c, NEW id, Before(s2c, i, id) PROVE Before(s2c', i, id)
    BY <2>4, <2>2 DEF Before
  <2>5. ASSUME NEW id, Holds(s2c, id) PROVE Before(s2c', n + 1, id) /\ Holds(s2c', id)
    <3>1. \A j \in DOMAIN s2c : j < n + 1
      BY <2>2
    <3> QED BY <2>5, <2>2, <3>1 DEF Before, Holds
  <2>6. ASSUME NEW i \in DOMAIN s2c', s2c'[i].code = "GENERIC"
        PROVE  /\ s2c'[i].method = "event" /\ s2c'[i].id \in Nat \ {0}
               /\ Settled(cObjs, cStack, l, s2c'[i].id) \/ Before(s2c', i, s2c'[i].id)
    <3>1. CASE i \in DOMAIN s2c
      BY <3>1, <2>2, <2>3, <2>4, <2>6 DEF InTurn
    <3>2. CASE i = n + 1
      <4>1. m.code = "GENERIC" /\ s2c'[i] = m
        BY <3>2, <2>2, <2>6
      <4>2. m.method = "event" /\ m.id \in DOMAIN sObjs /\ sObjs[m.id].ok
        BY <4>1
      <4>3. Settled(cObjs, cStack, l, m.id) \/ Holds(s2c, m.id)
        BY <4>2, <2>3 DEF Announced
      <4> QED BY <3>2, <4>1, <4>2, <4>3, <2>5, <1>t
    <3> QED BY <3>1, <3>2, <2>2
  <2>7. InTurn(s2c', cObjs', cStack', l)
    BY <2>6, <1>s DEF InTurn
  <2>8. ASSUME NEW id, Accounts(m, id) PROVE Holds(s2c', id)
    <3>1. n + 1 \in DOMAIN s2c'
      BY <2>2
    <3> QED BY <2>8, <3>1, <2>2 DEF Holds
  <2>9. Announced(sObjs', s2c', cObjs', cStack')
    BY <2>3, <2>5, <2>8, <1>s DEF Announced
  <2>10. \A d \in DOMAIN cStack' : InTurn(cStack'[d].msgs, cObjs', cStack', d)
    BY <1>s DEF TurnInv, InTurn
  <2> QED BY <2>7, <2>9, <2>10, <1>s DEF TurnInv
<1> QED BY <1>1, <1>2

(* What a torn message was stays accounted for by its rest.                   *)
LEMMA TearTurn ==
    ASSUME TypeOK, TurnInv, UNCHANGED <<cVars, sVars, cOpen, sOpen>>, s2c # <<>>, s2c' = TearLast(s2c)
    PROVE  TurnInv'
<1> DEFINE n == Len(s2c)
           torn == [s2c[n] EXCEPT !.code = "MALFORMED"]
<1>t. s2c \in Seq(Message) /\ n \in DOMAIN s2c /\ s2c[n] \in Message
  BY DEF TypeOK, WireTypeOK
<1>s. cStack' = cStack /\ cObjs' = cObjs /\ sObjs' = sObjs
  BY DEF cVars, cState, sVars, sState
<1>1. torn.code = "MALFORMED"
  BY <1>t DEF Message
<1>2. s2c' = [s2c EXCEPT ![n] = torn]
  BY DEF TearLast
<1> HIDE DEF n, torn
<1>3. /\ DOMAIN s2c' = DOMAIN s2c
      /\ \A i \in DOMAIN s2c : s2c'[i] = s2c[i] \/ s2c'[i].code = "MALFORMED"
  BY <1>t, <1>1, <1>2
<1>4. ASSUME NEW i, NEW id, Before(s2c, i, id) PROVE Before(s2c', i, id)
  BY <1>3, <1>4 DEF Before, Accounts
<1>5. ASSUME NEW id, Holds(s2c, id) PROVE Holds(s2c', id)
  BY <1>3, <1>5 DEF Holds, Accounts
<1>6. ASSUME NEW i \in DOMAIN s2c', s2c'[i].code = "GENERIC" PROVE s2c'[i] = s2c[i]
  BY <1>3, <1>6
<1>7. InTurn(s2c', cObjs', cStack', Len(cStack') + 1)
  BY <1>s, <1>3, <1>4, <1>6 DEF TurnInv, InTurn
<1>8. cOpen' /\ sOpen' => Announced(sObjs', s2c', cObjs', cStack')
  BY <1>s, <1>5 DEF TurnInv, Announced
<1>9. \A d \in DOMAIN cStack' : InTurn(cStack'[d].msgs, cObjs', cStack', d)
  BY <1>s DEF TurnInv, InTurn
<1> QED BY <1>7, <1>8, <1>9 DEF TurnInv

-----------------------------------------------------------------------------
(* All steps again.                                                           *)
FramesInv == ShapeOK(cStack) /\ ListensInv /\ TurnInv

LEMMA FramesNext ==
    ASSUME ShapeOK(cStack'), ListensInv', TurnInv'
    PROVE  FramesInv'
<1>1. (ShapeOK(cStack))'
  BY DEF ShapeOK
<1> QED BY <1>1 DEF FramesInv

LEMMA QuietFrames ==
    ASSUME TypeOK, TypeOK', FramesInv, UNCHANGED <<s2c, cOpen, sOpen, sObjs>>,
           ShapeOK(cStack'), SameMsgs(cStack', cStack), KeepsBinds(cStack', cStack),
           \A s \in DOMAIN cObjs' :
              cObjs'[s].listens \/ (s \in DOMAIN cObjs /\ cObjs'[s].listens = cObjs[s].listens),
           Learns(cObjs', cObjs)
    PROVE  FramesInv'
<1>1. ListensInv'
  BY QuietListens DEF FramesInv
<1>2. TurnInv'
  BY QuietTurn DEF FramesInv
<1> QED BY <1>1, <1>2, FramesNext

(* Handles are added, and keep their ids.                                     *)
LEMMA HandlesKept ==
    ASSUME NEW new, NEW old,
           \A s \in DOMAIN old : s \in DOMAIN new /\ new[s].id = old[s].id
    PROVE  Learns(new, old)
  BY DEF Learns, Known

LEMMA BindFrames ==
    ASSUME TypeOK, TypeOK', FramesInv, UNCHANGED sVars, NEW ver \in BindVersions, CBind(ver)
    PROVE  FramesInv'
<1> DEFINE k == Len(cObjs) + 1
           handle == [id |-> 0, ver |-> ver, listens |-> FALSE]
<1>t. /\ cObjs \in Seq(Handle) /\ k \in Nat /\ handle \in Handle
      /\ ShapeOK(cStack) /\ cStack \in Seq(Frame)
  BY ClientAssumption DEF TypeOK, ClientTypeOK, Handle, FramesInv
<1>1. /\ cObjs' = Append(cObjs, handle) /\ cStack' = Push("object", k, <<>>)
      /\ UNCHANGED <<s2c, cOpen, sOpen, sObjs>>
  BY DEF CBind, NextSeq, sVars, sState
<1> HIDE DEF handle, k
<1>2. ShapeOK(cStack') /\ SameMsgs(cStack', cStack) /\ KeepsBinds(cStack', cStack)
  <2>1. "object" \in Loops \cup {"listener"}
    BY DEF Loops
  <2> QED BY <2>1, <1>t, <1>1, PushShape
<1>3. /\ \A s \in DOMAIN cObjs : s \in DOMAIN cObjs' /\ cObjs'[s] = cObjs[s]
      /\ \A s \in DOMAIN cObjs' : s = k \/ s \in DOMAIN cObjs
  BY <1>t, <1>1, AppendType DEF k
<1>4. \E d \in DOMAIN cStack' : cStack'[d].kind = "object" /\ cStack'[d].arg = k
  <2> DEFINE f == [kind |-> "object", arg |-> k, msgs |-> <<>>]
  <2>1. f \in Frame /\ f.kind = "object" /\ f.arg = k
    BY <1>t, FrameTypes DEF Loops
  <2>2. cStack' = Append(cStack, f)
    BY <1>1 DEF Push
  <2> HIDE DEF f
  <2>3. Len(cStack) + 1 \in DOMAIN cStack' /\ cStack'[Len(cStack) + 1] = f
    BY <1>t, <2>1, <2>2, AppendType
  <2> QED BY <2>1, <2>3
<1>5. ListensInv'
  <2>1. ASSUME NEW s, BindInProgress(s) PROVE BindInProgress(s)'
    BY <2>1, <1>2 DEF BindInProgress, KeepsBinds
  <2>2. ASSUME NEW s \in DOMAIN cObjs' PROVE cObjs'[s].listens \/ BindInProgress(s)'
    <3>1. CASE s = k
      BY <1>4, <3>1 DEF BindInProgress
    <3>2. CASE s \in DOMAIN cObjs
      BY <3>2, <2>1, <1>3 DEF FramesInv, ListensInv
    <3> QED BY <3>1, <3>2, <1>3
  <2> QED BY <2>2 DEF ListensInv
<1>6. Learns(cObjs', cObjs)
  BY <1>3, HandlesKept
<1>7. TurnInv'
  BY <1>1, <1>2, <1>6, QuietTurn DEF FramesInv
<1> QED BY <1>2, <1>5, <1>7, FramesNext

LEMMA CallFrames ==
    ASSUME TypeOK, TypeOK', FramesInv, UNCHANGED sVars,
           NEW h \in DOMAIN cObjs, NEW method \in {"call", "make"}, CCall(h, method)
    PROVE  FramesInv'
<1>t. cObjs \in Seq(Handle) /\ MadeHandle \in Handle /\ MadeHandle.listens = TRUE
  BY DEF TypeOK, ClientTypeOK, Handle, MadeHandle
<1>1. /\ cObjs' = cObjs \/ cObjs' = Append(cObjs, MadeHandle)
      /\ UNCHANGED <<cStack, s2c, cOpen, sOpen, sObjs>>
  BY DEF CCall, sVars, sState
<1>2. /\ \A s \in DOMAIN cObjs : s \in DOMAIN cObjs' /\ cObjs'[s] = cObjs[s]
      /\ \A s \in DOMAIN cObjs' :
            cObjs'[s].listens \/ (s \in DOMAIN cObjs /\ cObjs'[s].listens = cObjs[s].listens)
  <2>1. CASE cObjs' = cObjs
    BY <2>1
  <2>2. CASE cObjs' = Append(cObjs, MadeHandle)
    <3>1. /\ \A s \in DOMAIN cObjs : s \in DOMAIN cObjs' /\ cObjs'[s] = cObjs[s]
          /\ \A s \in DOMAIN cObjs' : cObjs'[s] = MadeHandle \/ s \in DOMAIN cObjs
      BY <1>t, <2>2, AppendType
    <3> QED BY <3>1, <1>t
  <2> QED BY <1>1, <2>1, <2>2
<1>3. Learns(cObjs', cObjs)
  BY <1>2, HandlesKept
<1>4. ShapeOK(cStack') /\ SameMsgs(cStack', cStack) /\ KeepsBinds(cStack', cStack)
  BY <1>1, KeepsAll DEF FramesInv
<1> QED BY <1>1, <1>2, <1>3, <1>4, QuietFrames

(* Steps that change neither the handles nor what was sent.                   *)
LEMMA SameFrames ==
    ASSUME TypeOK, TypeOK', FramesInv, UNCHANGED <<s2c, cOpen, sOpen, sObjs, cObjs>>,
           ShapeOK(cStack'), SameMsgs(cStack', cStack), KeepsBinds(cStack', cStack)
    PROVE  FramesInv'
<1>1. Learns(cObjs', cObjs)
  BY DEF Learns
<1> QED BY <1>1, QuietFrames

LEMMA GivesUpFrames ==
    ASSUME TypeOK, TypeOK', FramesInv, cObjs' = cObjs, s2c' = <<>>, cOpen' = FALSE,
           ShapeOK(cStack'), Prefix(cStack', cStack), KeepsBinds(cStack', cStack)
    PROVE  FramesInv'
<1>1. ListensInv'
  BY QuietListens DEF FramesInv
<1>2. TurnInv'
  BY ClosedTurn DEF FramesInv
<1> QED BY <1>1, <1>2, FramesNext

LEMMA AppFrames == TypeOK /\ TypeOK' /\ FramesInv /\ ClientApp => FramesInv'
<1> SUFFICES ASSUME TypeOK, TypeOK', FramesInv, ClientApp PROVE FramesInv'
  OBVIOUS
<1>0. UNCHANGED sVars /\ sObjs' = sObjs
  BY DEF ClientApp, sVars, sState
<1>1. ASSUME NEW kind \in {"handshake", "poll", "roundtrip"}, NEW arg \in Nat,
             cStack' = Push(kind, arg, <<>>), UNCHANGED <<s2c, cOpen, sOpen, cObjs>>
      PROVE  FramesInv'
  <2>1. kind \in Loops \cup {"listener"}
    BY DEF Loops
  <2>2. ShapeOK(cStack') /\ SameMsgs(cStack', cStack) /\ KeepsBinds(cStack', cStack)
    BY <1>1, <2>1, PushShape DEF FramesInv
  <2> QED BY <1>0, <1>1, <2>2, SameFrames
<1>2. CASE CWaitForHandshake
  BY <1>1, <1>2 DEF CWaitForHandshake, wireVars
<1>3. CASE CDispatch
  BY <1>1, <1>3 DEF CDispatch, wireVars
<1>4. CASE CRoundtrip
  <2>1. cSentRt + 1 \in Nat
    BY DEF TypeOK, ClientTypeOK
  <2>2. cStack' = Push("roundtrip", cSentRt + 1, <<>>) /\ UNCHANGED <<s2c, cOpen, sOpen, cObjs>>
    BY <1>4 DEF CRoundtrip
  <2> QED BY <1>1, <2>1, <2>2
<1>5. ASSUME NEW ver \in BindVersions, CBindTooNew(ver) PROVE FramesInv'
  <2>1. UNCHANGED <<cObjs, cStack>> /\ s2c' = <<>> /\ cOpen' = FALSE
    BY <1>5 DEF CBindTooNew, DisconnectOnError, CloseClientEnd
  <2>2. ShapeOK(cStack') /\ Prefix(cStack', cStack) /\ KeepsBinds(cStack', cStack)
    BY <2>1, KeepsAll DEF FramesInv
  <2> QED BY <2>1, <2>2, GivesUpFrames
<1> QED BY <1>0, <1>2, <1>3, <1>4, <1>5, BindFrames, CallFrames DEF ClientApp, AppStep

(* bindProtocol returns: the handle gets its listeners.                       *)
LEMMA LoopReturnFrames ==
    ASSUME TypeOK, TypeOK', FramesInv, UNCHANGED sVars, CLoopReturns
    PROVE  FramesInv'
<1> DEFINE k == Top.arg
<1>t. /\ cStack # <<>> /\ Top.kind \in Loops /\ Top.kind \in Loops \cup {"listener"}
      /\ ShapeOK(cStack) /\ cObjs \in Seq(Handle) /\ \A s \in DOMAIN cObjs : cObjs[s] \in Handle
      /\ UNCHANGED <<s2c, cOpen, sOpen, sObjs>> /\ cStack' = Pop(cStack)
  BY DEF TypeOK, ClientTypeOK, FramesInv, CLoopReturns, InLoop, wireVars, sVars, sState
<1>1. ShapeOK(cStack') /\ SameMsgs(cStack', cStack) /\ (Top.kind # "object" => KeepsBinds(cStack', cStack))
  BY <1>t, TopShape
<1>2. CASE Top.kind # "object"
  <2>1. cObjs' = cObjs
    BY <1>2 DEF CLoopReturns
  <2> QED BY <2>1, <1>t, <1>1, <1>2, SameFrames
<1>3. CASE Top.kind = "object"
  <2>1. cObjs' = [cObjs EXCEPT ![k].listens = TRUE]
    BY <1>3 DEF CLoopReturns
  <2> HIDE DEF k
  <2>2. /\ DOMAIN cObjs' = DOMAIN cObjs
        /\ \A s \in DOMAIN cObjs : cObjs'[s].id = cObjs[s].id
        /\ \A s \in DOMAIN cObjs : s # k => cObjs'[s].listens = cObjs[s].listens
        /\ k \in DOMAIN cObjs => cObjs'[k].listens
    BY <2>1, <1>t DEF Handle
  <2>3. Learns(cObjs', cObjs)
    BY <2>2, HandlesKept
  <2>4. ASSUME NEW s \in DOMAIN cObjs, s # k, BindInProgress(s) PROVE BindInProgress(s)'
    <3>1. PICK d \in DOMAIN cStack : cStack[d].kind = "object" /\ cStack[d].arg = s
      BY <2>4 DEF BindInProgress
    <3>2. d # Len(cStack)
      BY <2>4, <3>1 DEF Top, k
    <3>3. d \in DOMAIN cStack' /\ cStack'[d] = cStack[d]
      <4>1. cStack \in Seq(Frame)
        BY DEF TypeOK, ClientTypeOK
      <4> QED BY <4>1, <3>2, <1>t DEF Pop
    <3> QED BY <3>1, <3>3 DEF BindInProgress
  <2>5. ASSUME NEW s \in DOMAIN cObjs' PROVE cObjs'[s].listens \/ BindInProgress(s)'
    <3>1. CASE s = k
      BY <3>1, <2>2
    <3>2. CASE s # k
      BY <3>2, <2>2, <2>4 DEF FramesInv, ListensInv
    <3> QED BY <3>1, <3>2
  <2>6. ListensInv'
    BY <2>5 DEF ListensInv
  <2>7. TurnInv'
    BY <1>t, <1>1, <2>3, QuietTurn DEF FramesInv
  <2> QED BY <1>1, <2>6, <2>7, FramesNext
<1> QED BY <1>2, <1>3

LEMMA ReadFrames ==
    ASSUME TypeOK, TypeOK', FramesInv, UNCHANGED sVars, CRead
    PROVE  FramesInv'
<1>1. PICK batch \in Batches(s2c) : cStack' = Push("batch", 0, batch) /\ s2c' = Rest(s2c, batch)
  BY DEF CRead
<1>2. InLoop /\ ShapeOK(cStack) /\ UNCHANGED <<cObjs, cOpen, sOpen, sObjs>>
  BY DEF CRead, FramesInv, sVars, sState
<1>3. batch \in Seq(Message)
  BY BatchType DEF TypeOK, WireTypeOK
<1>4. ShapeOK(cStack') /\ KeepsBinds(cStack', cStack)
  BY <1>1, <1>2, <1>3, ReadShape
<1>5. ListensInv'
  BY <1>2, <1>4, QuietListens DEF FramesInv
<1>6. TurnInv'
  BY <1>1, <1>2, ReadTurn DEF FramesInv
<1> QED BY <1>4, <1>5, <1>6, FramesNext

LEMMA HandledFrames ==
    ASSUME TypeOK, TypeOK', FramesInv, NEW code, code # "MALFORMED", Handling(code),
           Learns(cObjs', cObjs), code = "NEW_OBJECT" => Known(cObjs', Head(Top.msgs).id),
           \A s \in DOMAIN cObjs' : s \in DOMAIN cObjs /\ cObjs'[s].listens = cObjs[s].listens,
           UNCHANGED <<s2c, cOpen, sOpen, sObjs>>,
           \/ cStack' = Advanced
           \/ cStack' = Append(Advanced, [kind |-> "listener", arg |-> 0, msgs |-> <<>>])
    PROVE  FramesInv'
<1> DEFINE f == [kind |-> "listener", arg |-> 0, msgs |-> <<>>]
<1>1. f \in Frame /\ f.kind # "batch" /\ f.msgs = <<>>
  BY FrameTypes
<1>2. ShapeOK(Advanced) /\ KeepsBinds(Advanced, cStack) /\ Advanced \in Seq(Frame)
  BY AdvanceFrames, HandlingFewer DEF FramesInv
<1>3. cStack' = Advanced \/ cStack' = Append(Advanced, f)
  OBVIOUS
<1> HIDE DEF f
<1>4. ShapeOK(cStack') /\ KeepsBinds(cStack', cStack)
  <2>1. ShapeOK(Append(Advanced, f)) /\ KeepsBinds(Append(Advanced, f), Advanced)
    BY <1>1, <1>2, PushFrames
  <2>2. KeepsBinds(Append(Advanced, f), cStack)
    BY <2>1, <1>2, KeepsAll
  <2> QED BY <2>1, <2>2, <1>2, <1>3
<1>5. ListensInv'
  BY <1>4, QuietListens DEF FramesInv
<1>6. TurnInv'
  BY <1>1, <1>3, AdvanceTurn DEF FramesInv
<1> QED BY <1>4, <1>5, <1>6, FramesNext

(* onSeq gives an id to a handle that had none, or the same again.            *)
LEMMA NewObjectLearns ==
    ASSUME TypeOK, RoutingInv, PlaceInv, VersionInv, CHandleNewObject
    PROVE  /\ Learns(cObjs', cObjs) /\ Known(cObjs', Head(Top.msgs).id)
           /\ \A s \in DOMAIN cObjs' : s \in DOMAIN cObjs /\ cObjs'[s].listens = cObjs[s].listens
<1> DEFINE m == Head(Top.msgs)
<1>t. cObjs \in Seq(Handle) /\ \A s \in DOMAIN cObjs : cObjs[s] \in Handle
  BY DEF TypeOK, ClientTypeOK
<1>1. Handling("NEW_OBJECT") /\ m.code = "NEW_OBJECT" /\ cObjs' = OnSeq(m.seq, m.id)
  BY DEF CHandleNewObject, Handling
<1>2. Faithful(m, sObjs, emitted)
  <2>1. cStack \in Seq(Frame) /\ StackFaithful(cStack, sObjs, emitted)
    BY DEF TypeOK, ClientTypeOK, RoutingInv
  <2> QED BY <2>1, <1>1, AdvanceFaithful
<1>3. m.id \in DOMAIN sObjs /\ sObjs[m.id].seq = m.seq
  BY <1>1, <1>2 DEF Faithful, AgreeIn
<1> HIDE DEF m
<1>4. m.seq \in DOMAIN cObjs
  BY <1>3 DEF VersionInv, ObjectsOK
<1>5. /\ DOMAIN cObjs' = DOMAIN cObjs /\ cObjs'[m.seq].id = m.id
      /\ \A s \in DOMAIN cObjs : s # m.seq => cObjs'[s] = cObjs[s]
      /\ \A s \in DOMAIN cObjs : cObjs'[s].listens = cObjs[s].listens
  BY <1>t, <1>1, <1>4 DEF OnSeq, Handle
<1>6. ASSUME NEW id \in Nat \ {0}, Known(cObjs, id) PROVE Known(cObjs', id)
  <2>1. PICK s \in DOMAIN cObjs : cObjs[s].id = id
    BY <1>6 DEF Known
  <2>2. CASE s # m.seq
    BY <2>1, <2>2, <1>5 DEF Known
  <2>3. CASE s = m.seq
    <3>1. id \in DOMAIN sObjs /\ sObjs[id].seq = s
      BY <2>1 DEF RoutingInv, HandlesOK, AgreeIn
    <3>2. id = m.id
      BY <2>3, <3>1, <1>3 DEF PlaceInv, OnePlace
    <3> QED BY <3>2, <1>4, <1>5 DEF Known
  <2> QED BY <2>2, <2>3
<1>7. Known(cObjs', m.id)
  BY <1>4, <1>5 DEF Known
<1> QED BY <1>5, <1>6, <1>7 DEF Learns, m

LEMMA LibraryFrames ==
    TypeOK /\ TypeOK' /\ RoutingInv /\ PlaceInv /\ VersionInv /\ FramesInv /\ ClientLibrary => FramesInv'
<1> SUFFICES ASSUME TypeOK, TypeOK', RoutingInv, PlaceInv, VersionInv, FramesInv, ClientLibrary
             PROVE  FramesInv'
  OBVIOUS
<1>0. UNCHANGED sVars /\ sObjs' = sObjs
  BY DEF ClientLibrary, sVars, sState
<1>1. CASE CDispatchFails \/ CNothingToRead
  <2>1. /\ cStack # <<>> /\ Top.kind \in Loops /\ ShapeOK(cStack)
        /\ \E ok : cStack' = ReturnDispatch(cStack, ok)
        /\ UNCHANGED <<s2c, cOpen, sOpen, cObjs>>
    BY <1>1 DEF CDispatchFails, CNothingToRead, InLoop, FramesInv, wireVars
  <2>2. ShapeOK(cStack') /\ SameMsgs(cStack', cStack) /\ KeepsBinds(cStack', cStack)
    BY <2>1, TopShape
  <2> QED BY <2>1, <2>2, <1>0, SameFrames
<1>2. CASE CListenerReturn
  <2>1. /\ cStack # <<>> /\ Top.kind = "listener" /\ ShapeOK(cStack) /\ cStack' = Pop(cStack)
        /\ UNCHANGED <<s2c, cOpen, sOpen, cObjs>>
    BY <1>2 DEF CListenerReturn, FramesInv, wireVars
  <2>2. ShapeOK(cStack') /\ SameMsgs(cStack', cStack) /\ KeepsBinds(cStack', cStack)
    BY <2>1, TopShape
  <2> QED BY <2>1, <2>2, <1>0, SameFrames
<1>3. CASE CBatchDone
  <2>1. /\ InBatch /\ Top.msgs = <<>> /\ ShapeOK(cStack)
        /\ \E ok : cStack' = ReturnDispatch(Pop(cStack), ok)
        /\ UNCHANGED <<s2c, cOpen, sOpen, cObjs>>
    BY <1>3 DEF CBatchDone, FramesInv, wireVars
  <2>2. ShapeOK(cStack') /\ SameMsgs(cStack', cStack) /\ KeepsBinds(cStack', cStack)
    BY <2>1, BatchReturns
  <2> QED BY <2>1, <2>2, <1>0, SameFrames
<1>4. CASE CHandleMalformed
  <2>1. /\ InBatch /\ ShapeOK(cStack)
        /\ \E ok : cStack' = ReturnDispatch(Pop(cStack), ok)
        /\ cObjs' = cObjs /\ s2c' = <<>> /\ cOpen' = FALSE
    BY <1>4 DEF CHandleMalformed, FramesInv, Handling, DisconnectOnError, CloseClientEnd
  <2>2. ShapeOK(cStack') /\ Prefix(cStack', cStack) /\ KeepsBinds(cStack', cStack)
    BY <2>1, BatchReturns
  <2> QED BY <2>1, <2>2, GivesUpFrames
<1>5. ASSUME NEW i \in DOMAIN cPending, CFlushOne(i) PROVE FramesInv'
  <2>1. UNCHANGED <<cStack, s2c, cOpen, sOpen, cObjs>>
    BY <1>5 DEF CFlushOne
  <2>2. ShapeOK(cStack') /\ SameMsgs(cStack', cStack) /\ KeepsBinds(cStack', cStack)
    BY <2>1, KeepsAll DEF FramesInv
  <2> QED BY <2>1, <2>2, <1>0, SameFrames
<1>6. CASE CHandleNewObject
  <2>1. /\ Handling("NEW_OBJECT") /\ cStack' = Advanced /\ UNCHANGED <<s2c, cOpen, sOpen>>
        /\ "NEW_OBJECT" # "MALFORMED"
    BY <1>6 DEF CHandleNewObject, wireVars
  <2>2. /\ Learns(cObjs', cObjs) /\ Known(cObjs', Head(Top.msgs).id)
        /\ \A s \in DOMAIN cObjs' : s \in DOMAIN cObjs /\ cObjs'[s].listens = cObjs[s].listens
    BY <1>6, NewObjectLearns
  <2> QED BY <2>1, <2>2, <1>0, HandledFrames
<1>7. CASE \/ CHandleHandshakeBegin \/ CHandleProtocols \/ CDropEvent \/ CHandleFatal
           \/ CHandleRoundtripDone \/ \E s \in DOMAIN cObjs : CHandleEvent(s)
  <2>1. /\ UNCHANGED <<s2c, cOpen, sOpen, cObjs>>
        /\ \/ cStack' = Advanced
           \/ cStack' = Append(Advanced, [kind |-> "listener", arg |-> 0, msgs |-> <<>>])
    BY <1>7 DEF CHandleHandshakeBegin, CHandleProtocols, CDropEvent, CHandleFatal,
       CHandleRoundtripDone, CHandleEvent, wireVars
  <2>2. \E code : code # "MALFORMED" /\ code # "NEW_OBJECT" /\ Handling(code)
    BY <1>7 DEF CHandleHandshakeBegin, CHandleProtocols, CDropEvent, CHandleFatal,
       CHandleRoundtripDone, CHandleEvent
  <2>3. Learns(cObjs', cObjs)
    BY <2>1 DEF Learns
  <2> QED BY <2>1, <2>2, <2>3, <1>0, HandledFrames
<1> QED
  BY <1>0, <1>1, <1>2, <1>3, <1>4, <1>5, <1>6, <1>7, LoopReturnFrames, ReadFrames
     DEF ClientLibrary, LibraryStep, HandleStep

LEMMA ClientEndFrames ==
    TypeOK /\ TypeOK' /\ FramesInv /\ (ClientLeaves \/ ClientTime) => FramesInv'
<1> SUFFICES ASSUME TypeOK, TypeOK', FramesInv, ClientLeaves \/ ClientTime PROVE FramesInv'
  OBVIOUS
<1>0. UNCHANGED <<cObjs, sOpen>> /\ sObjs' = sObjs
  BY DEF ClientLeaves, ClientTime, CDestroy, CHandshakeTimeout, CClockRunsOut, wireVars, sVars, sState
<1>1. CASE CDestroy
  <2>1. cStack' = cStack /\ s2c' = <<>> /\ cOpen' = FALSE
    BY <1>1 DEF CDestroy, DisconnectOnError, CloseClientEnd
  <2>2. ShapeOK(cStack') /\ Prefix(cStack', cStack) /\ KeepsBinds(cStack', cStack)
    BY <2>1, KeepsAll DEF FramesInv
  <2> QED BY <1>0, <2>1, <2>2, GivesUpFrames
<1>2. CASE CHandshakeTimeout
  <2>1. /\ cStack # <<>> /\ Top.kind \in Loops /\ ShapeOK(cStack)
        /\ \E ok : cStack' = ReturnDispatch(cStack, ok)
        /\ s2c' = <<>> /\ cOpen' = FALSE
    BY <1>2 DEF CHandshakeTimeout, InLoop, FramesInv, DisconnectOnError, CloseClientEnd
  <2>2. ShapeOK(cStack') /\ Prefix(cStack', cStack) /\ KeepsBinds(cStack', cStack)
    BY <2>1, TopShape
  <2> QED BY <1>0, <2>1, <2>2, GivesUpFrames
<1>3. CASE CClockRunsOut
  <2>1. UNCHANGED <<cStack, s2c, cOpen, sOpen>>
    BY <1>3 DEF CClockRunsOut, wireVars
  <2>2. ShapeOK(cStack') /\ SameMsgs(cStack', cStack) /\ KeepsBinds(cStack', cStack)
    BY <2>1, KeepsAll DEF FramesInv
  <2> QED BY <1>0, <2>1, <2>2, SameFrames
<1> QED BY <1>1, <1>2, <1>3 DEF ClientLeaves, ClientTime

(* The server's steps touch neither the stack nor the handles.                *)
LEMMA ServerTurns ==
    ASSUME FramesInv, UNCHANGED cVars, TurnInv'
    PROVE  FramesInv'
<1>1. cStack' = cStack /\ cObjs' = cObjs
  BY DEF cVars, cState
<1>2. ShapeOK(cStack') /\ KeepsBinds(cStack', cStack)
  BY <1>1, KeepsAll DEF FramesInv
<1>3. ListensInv'
  BY <1>1, <1>2, QuietListens DEF FramesInv
<1> QED BY <1>2, <1>3, FramesNext

LEMMA ServerStill ==
    ASSUME TypeOK, TypeOK', FramesInv, UNCHANGED cVars, s2c' = s2c, cOpen' = cOpen, sOpen' => sOpen,
           \A id \in DOMAIN sObjs' : sObjs'[id].ok => id \in DOMAIN sObjs /\ sObjs[id].ok
    PROVE  FramesInv'
<1>1. cStack' = cStack /\ cObjs' = cObjs
  BY DEF cVars, cState
<1>2. SameMsgs(cStack', cStack) /\ Learns(cObjs', cObjs)
  BY <1>1, KeepsAll DEF Learns
<1>3. TurnInv'
  BY <1>2, QuietTurn DEF FramesInv
<1> QED BY <1>3, ServerTurns

(* createObject announces the object it makes, if it is a valid one.          *)
LEMMA CreateFrames ==
    ASSUME TypeOK, TypeOK', FramesInv, UNCHANGED <<cVars, cOpen, sOpen>>,
           NEW seq \in Nat, NEW ver \in Nat, NEW known \in BOOLEAN, CreateObject(seq, ver, known)
    PROVE  FramesInv'
<1> DEFINE ok == known /\ ver <= SrvVer
           o == [seq |-> seq, ver |-> ver, ok |-> ok]
           id0 == Len(sObjs) + 1
           m == NewObject(seq, id0)
<1>t. sObjs \in Seq(Object) /\ id0 \in Nat
  BY DEF TypeOK, ServerTypeOK
<1>1. /\ sObjs' = Append(sObjs, o)
      /\ IF ok THEN s2c' = SentToClient(<<m>>) ELSE s2c' = s2c
  BY DEF CreateObject
<1>2. o \in Object /\ o.ok = ok
  <2>1. ok \in BOOLEAN
    OBVIOUS
  <2> HIDE DEF ok
  <2> QED BY <2>1 DEF Object
<1>3. m \in Message /\ m.code = "NEW_OBJECT" /\ m.id = id0
  <2> HIDE DEF id0
  <2> QED BY <1>t, MessageTypes DEF NewObject, Plain
<1> HIDE DEF o, m, ok
<1>4. \A id \in DOMAIN sObjs' : \/ id = id0 /\ sObjs'[id] = o
                                \/ id \in DOMAIN sObjs /\ sObjs'[id] = sObjs[id]
  BY <1>t, <1>1, <1>2, AppendType
<1>5. CASE ok
  <2>1. TurnInv'
    BY <1>1, <1>3, <1>4, <1>5, SentTurn DEF Accounts, FramesInv
  <2> QED BY <2>1, ServerTurns
<1>6. CASE ~ok
  BY <1>1, <1>2, <1>4, <1>6, ServerStill
<1> QED BY <1>5, <1>6

LEMMA ServerFrames ==
    TypeOK /\ TypeOK' /\ FramesInv /\ (ServerDispatch \/ ServerApp \/ ServerRemoves \/ Tear) => FramesInv'
<1> SUFFICES ASSUME TypeOK, TypeOK', FramesInv, ServerDispatch \/ ServerApp \/ ServerRemoves \/ Tear
             PROVE  FramesInv'
  OBVIOUS
<1>0. UNCHANGED cVars
  BY DEF ServerDispatch, ServerApp, ServerRemoves, Tear
<1>q. ASSUME s2c' = s2c, cOpen' = cOpen, sOpen' => sOpen, sObjs' = sObjs PROVE FramesInv'
  BY <1>q, <1>0, ServerStill
<1>p. ASSUME NEW m \in Message, m.code # "GENERIC", s2c' = SentToClient(<<m>>),
             UNCHANGED <<sObjs, cOpen, sOpen>>
      PROVE  FramesInv'
  <2>1. TurnInv'
    BY <1>p, <1>0, SentTurn DEF FramesInv
  <2> QED BY <2>1, <1>0, ServerTurns
<1>f. ASSUME Fail, UNCHANGED <<sObjs, cOpen, sOpen>> PROVE FramesInv'
  <2>1. Plain("FATAL") \in Message /\ Plain("FATAL").code # "GENERIC"
    BY MessageTypes DEF Plain, Codes
  <2> QED BY <2>1, <1>f, <1>p DEF Fail
<1>1. CASE SRead \/ SHandleRoundtrip \/ SHangup \/ SRemove
  BY <1>1, <1>q DEF SRead, SHandleRoundtrip, SHangup, SRemove, CloseServerEnd, sVars, sState, wireVars
<1>2. CASE SHandleHello
  <2>1. Plain("HANDSHAKE_BEGIN") \in Message /\ Plain("HANDSHAKE_BEGIN").code # "GENERIC"
    BY MessageTypes DEF Plain, Codes
  <2> QED BY <2>1, <1>2, <1>p DEF SHandleHello
<1>3. CASE SHandleAck
  <2>1. Plain("HANDSHAKE_PROTOCOLS") \in Message /\ Plain("HANDSHAKE_PROTOCOLS").code # "GENERIC"
    BY MessageTypes DEF Plain, Codes
  <2> QED BY <2>1, <1>3, <1>p DEF SHandleAck
<1>4. CASE SHandleBind
  <2>1. Head(sBatch).seq \in Nat /\ Head(sBatch).ver \in Nat
    BY <1>4, SHandlingType DEF SHandleBind, TypeOK
  <2>2. CreateObject(Head(sBatch).seq, Head(sBatch).ver, TRUE) /\ UNCHANGED <<cOpen, sOpen>>
    BY <1>4 DEF SHandleBind
  <2> QED BY <2>1, <2>2, <1>0, CreateFrames
<1>5. CASE SHandleCall
  <2>1. UNCHANGED <<sObjs, cOpen, sOpen>> /\ (Fail \/ s2c' = s2c)
    BY <1>5 DEF SHandleCall
  <2> QED BY <2>1, <1>f, <1>q
<1>6. CASE SHandleMalformed
  BY <1>6, <1>f DEF SHandleMalformed
<1>7. CASE SBatchDone
  <2>1. RoundtripDone(sRt) \in Message /\ RoundtripDone(sRt).code # "GENERIC"
    BY MessageTypes DEF TypeOK, ServerTypeOK, RoundtripDone, Plain
  <2>2. /\ UNCHANGED <<sObjs, cOpen, sOpen>>
        /\ s2c' = s2c \/ s2c' = SentToClient(<<RoundtripDone(sRt)>>)
    BY <1>7 DEF SBatchDone
  <2> QED BY <2>1, <2>2, <1>p, <1>q
<1>8. ASSUME NEW make \in sMakes, NEW known \in BOOLEAN, SCreate(make, known) PROVE FramesInv'
  <2>1. make.seq \in Nat /\ sObjs[make.obj].ver \in Nat
    <3>1. make \in Make /\ make.obj \in DOMAIN sObjs
      BY DEF TypeOK, ServerTypeOK, ServerRefsOK
    <3>2. sObjs[make.obj] \in Object
      BY <3>1 DEF TypeOK, ServerTypeOK
    <3> QED BY <3>1, <3>2 DEF Make, Object
  <2>2. CreateObject(make.seq, sObjs[make.obj].ver, known) /\ UNCHANGED <<cOpen, sOpen>>
    BY <1>8 DEF SCreate
  <2> QED BY <2>1, <2>2, <1>0, CreateFrames
<1>9. ASSUME NEW id \in DOMAIN sObjs, SEmit(id) PROVE FramesInv'
  <2> DEFINE m == Generic(id, "event", 0, Len(emitted) + 1)
  <2>1. id \in Nat /\ Len(emitted) + 1 \in Nat /\ "event" \in Methods /\ 0 \in Nat
    BY DEF TypeOK, ServerTypeOK, Methods
  <2>2. m \in Message /\ m.method = "event" /\ m.id = id
    BY <2>1, MessageTypes DEF Generic
  <2>3. /\ s2c' = SentToClient(<<m>>) /\ sObjs[id].ok /\ UNCHANGED <<sObjs, cOpen, sOpen>>
    BY <1>9 DEF SEmit, sState
  <2> HIDE DEF m
  <2>4. TurnInv'
    BY <1>0, <2>2, <2>3, SentTurn DEF FramesInv
  <2> QED BY <2>4, <1>0, ServerTurns
<1>10. ASSUME NEW id \in DOMAIN sObjs, SRaise(id) PROVE FramesInv'
  BY <1>10, <1>f DEF SRaise
<1>11. CASE Tear
  <2>1. UNCHANGED <<cVars, sVars, cOpen, sOpen, sObjs>>
    BY <1>11 DEF Tear, sVars, sState
  <2>2. CASE s2c' = s2c
    BY <2>1, <2>2, <1>q
  <2>3. CASE s2c # <<>> /\ s2c' = TearLast(s2c)
    <3>1. TurnInv'
      BY <2>1, <2>3, TearTurn DEF FramesInv
    <3> QED BY <3>1, <1>0, ServerTurns
  <2> QED BY <1>11, <2>2, <2>3 DEF Tear
<1> QED
  BY <1>1, <1>2, <1>3, <1>4, <1>5, <1>6, <1>7, <1>8, <1>9, <1>10, <1>11
     DEF ServerDispatch, ServerApp, ServerRemoves, DispatchStep, SAppStep

LEMMA StutterEvents ==
    PlaceInv /\ VersionInv /\ FramesInv /\ UNCHANGED vars => PlaceInv' /\ VersionInv' /\ FramesInv'
<1> SUFFICES ASSUME PlaceInv, VersionInv, FramesInv, UNCHANGED vars
             PROVE  PlaceInv' /\ VersionInv' /\ FramesInv'
  OBVIOUS
<1>1. UNCHANGED <<c2s, s2c, cOpen, sOpen, cObjs, cPending, cStack, sBatch, sObjs, sMakes, emitted>>
  BY DEF vars, wireVars, cVars, cState, sVars, sState, sHistory
<1>2. Stream' = Stream /\ Asked' = Asked
  BY <1>1 DEF Stream, Asked
<1>3. PlaceInv' /\ VersionInv'
  BY <1>1, <1>2, PlacesNext DEF PlaceInv, VersionInv
<1>4. ListensInv' /\ TurnInv' /\ ShapeOK(cStack')
  BY <1>1 DEF FramesInv, ListensInv, BindInProgress, TurnInv, InTurn, Announced
<1> QED BY <1>3, <1>4, FramesNext

LEMMA InitEvents == Init => PlaceInv /\ VersionInv /\ FramesInv
<1> SUFFICES ASSUME Init PROVE PlaceInv /\ VersionInv /\ FramesInv
  OBVIOUS
<1>1. /\ sBatch = <<>> /\ c2s = <<Plain("SUP")>> /\ s2c = <<>> /\ cObjs = <<>> /\ cPending = <<>>
      /\ cStack = <<>> /\ sObjs = <<>> /\ sMakes = {} /\ emitted = <<>>
  BY DEF Init, WireInit, ClientInit, ServerInit
<1>2. Stream \in Seq(Message) /\ \A i \in DOMAIN Stream : Stream[i] = Plain("SUP")
  <2>1. Plain("SUP") \in Message
    BY MessageTypes DEF Codes
  <2> QED BY <1>1, <2>1 DEF Stream
<1>3. \A i \in DOMAIN Stream : ~Makes(Stream[i])
  BY <1>2 DEF Makes, Plain
<1>4. Asked = <<>>
  BY <1>1 DEF Asked
<1>5. PlaceInv
  BY <1>1, <1>3, <1>4 DEF PlaceInv, OnePlace, Single, Asks, Due, Exists
<1>6. VersionInv
  BY <1>1, <1>3, <1>4 DEF VersionInv, Entitled, MadeOK, ObjectsOK, SinceOK
<1>7. FramesInv
  BY <1>1 DEF FramesInv, ShapeOK, ListensInv, TurnInv, InTurn, Announced
<1> QED BY <1>5, <1>6, <1>7

LEMMA EventInvariant ==
    Spec => [](TypeOK /\ RoutingInv /\ PlaceInv /\ VersionInv /\ FramesInv)
<1>1. Init => PlaceInv /\ VersionInv /\ FramesInv
  BY InitEvents
<1>2. TypeOK /\ TypeOK' /\ RoutingInv /\ DeliveryInv /\ PlaceInv /\ VersionInv /\ FramesInv
          /\ [Next]_vars => PlaceInv' /\ VersionInv' /\ FramesInv'
  <2> SUFFICES ASSUME TypeOK, TypeOK', RoutingInv, DeliveryInv, PlaceInv, VersionInv, FramesInv,
                      [Next]_vars
               PROVE  PlaceInv' /\ VersionInv' /\ FramesInv'
    OBVIOUS
  <2>1. IdleInv /\ NumberedInv
    BY DEF DeliveryInv, FlightInv
  <2>2. CASE ClientApp
    BY <2>1, <2>2, AppPlaces, AppFrames
  <2>3. CASE ClientLibrary
    BY <2>1, <2>3, LibraryPlaces, LibraryFrames
  <2>4. CASE ClientLeaves \/ ClientTime
    BY <2>1, <2>4, ClientEndPlaces, ClientEndFrames
  <2>5. CASE ServerDispatch \/ ServerApp \/ ServerRemoves \/ Tear
    BY <2>1, <2>5, ServerPlaces, ServerFrames
  <2>6. CASE UNCHANGED vars
    BY <2>6, StutterEvents
  <2> QED BY <2>2, <2>3, <2>4, <2>5, <2>6 DEF Next, Idle
<1> QED BY <1>1, <1>2, RoutingInvariant, DeliveryInvariant, PTL DEF Spec

-----------------------------------------------------------------------------
(* EventsHeard, for every value of the constants: whatever is dispatched from *)
(* within a listener, torn or closed, onGeneric finds no listener for an      *)
(* event only while its object is being bound, on an object that makeObject   *)
(* left at version 0, or when an outer dispatch holds what makes it known.    *)
THEOREM EventsReachListeners == Spec => EventsHeard
<1>1. ASSUME TypeOK, RoutingInv, PlaceInv, VersionInv, FramesInv, CDropEvent
      PROVE  LET id == Head(Top.msgs).id IN
             \/ \E s \in DOMAIN cObjs : cObjs[s].id = id /\ (BindInProgress(s) \/ TakenForOld(s))
             \/ AnnouncedFurtherOut(id)
  <2> DEFINE n  == Len(cStack)
             ms == Top.msgs
             h  == Head(ms)
             id == h.id
  <2>t. Handling("GENERIC") /\ cStack \in Seq(Frame) /\ cObjs \in Seq(Handle) /\ DOMAIN cObjs \subseteq Nat
    BY <1>1 DEF CDropEvent, TypeOK, ClientTypeOK
  <2>1. n \in DOMAIN cStack /\ ms = cStack[n].msgs /\ ms \in Seq(Message) /\ ms # <<>>
    BY <1>1, <2>t, HandlingFewer
  <2> HIDE DEF n, ms
  <2>2. 1 \in DOMAIN ms /\ h = ms[1] /\ DOMAIN ms \subseteq Nat \ {0}
    BY <2>1, HeadTailElements, SeqShape
  <2>3. h.code = "GENERIC"
    BY <2>t DEF Handling, ms
  <2>4. InTurn(ms, cObjs, cStack, n)
    BY <1>1, <2>1 DEF FramesInv, TurnInv
  <2> HIDE DEF h
  <2>5. /\ h.method = "event" /\ id \in Nat \ {0}
        /\ Settled(cObjs, cStack, n, id) \/ Before(ms, 1, id)
    BY <2>2, <2>3, <2>4 DEF InTurn
  <2>6. ~Before(ms, 1, id)
    <3>1. \A j \in DOMAIN ms : ~(j < 1)
      BY <2>2
    <3> QED BY <3>1 DEF Before
  <2>7. ASSUME NEW e \in DOMAIN cStack, Holds(cStack[e].msgs, id)
        PROVE  AnnouncedFurtherOut(id)
    BY <2>7 DEF Holds, Accounts, AnnouncedFurtherOut
  <2>8. ASSUME NEW s \in DOMAIN cObjs, cObjs[s].id = id
        PROVE  BindInProgress(s) \/ TakenForOld(s)
    <3>1. id \in DOMAIN sObjs /\ sObjs[id].seq = s
      BY <1>1, <2>5, <2>8 DEF RoutingInv, HandlesOK, AgreeIn
    <3>2. \A t \in DOMAIN cObjs : cObjs[t].id = id => t = s
      BY <1>1, <2>5, <3>1 DEF RoutingInv, HandlesOK, AgreeIn
    <3>3. IsFirst(s, {t \in DOMAIN cObjs : cObjs[t].id = id})
      BY <2>t, <2>8, <3>2 DEF IsFirst
    <3>4. ~Hears(s, h)
      BY <1>1 DEF CDropEvent, h, ms
    <3>5. ~cObjs[s].listens \/ ~(Since["event"] <= cObjs[s].ver)
      BY <2>5, <3>3, <3>4 DEF Hears
    <3>6. CASE ~cObjs[s].listens
      BY <1>1, <3>6 DEF FramesInv, ListensInv
    <3>7. CASE ~(Since["event"] <= cObjs[s].ver)
      <4>1. Faithful(h, sObjs, emitted)
        BY <1>1, <2>1, <2>2 DEF RoutingInv, StackFaithful, AllFaithful
      <4>2. Since["event"] <= sObjs[id].ver
        BY <1>1, <2>3, <4>1 DEF Faithful, VersionInv, SinceOK
      <4>3. cObjs[s].ver \in {0, sObjs[id].ver}
        BY <1>1, <3>1 DEF VersionInv, ObjectsOK
      <4>4. cObjs[s].ver = 0
        BY <3>7, <4>2, <4>3
      <4>5. Since["event"] \in Nat
        BY SinceAssumption
      <4> QED BY <3>7, <4>4, <4>5 DEF TakenForOld
    <3> QED BY <3>5, <3>6, <3>7
  <2>9. \/ \E s \in DOMAIN cObjs : cObjs[s].id = id /\ (BindInProgress(s) \/ TakenForOld(s))
        \/ AnnouncedFurtherOut(id)
    BY <2>5, <2>6, <2>7, <2>8 DEF Settled, Known
  <2> QED BY <2>9 DEF h, ms
<1>2. TypeOK /\ RoutingInv /\ PlaceInv /\ VersionInv /\ FramesInv
          => [CDropEvent =>
                LET id == Head(Top.msgs).id IN
                \/ \E s \in DOMAIN cObjs :
                      cObjs[s].id = id /\ (BindInProgress(s) \/ TakenForOld(s))
                \/ AnnouncedFurtherOut(id)]_vars
  BY <1>1
<1> QED BY <1>2, EventInvariant, PTL DEF EventsHeard
=============================================================================
