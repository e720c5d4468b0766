------------------------------- MODULE Codec --------------------------------
(* One direction of a connection, byte by byte: a peer lays messages out and  *)
(* sends them, the other reads them in batches and takes a batch apart        *)
(* (CMessageParser::handleMessage).                                           *)
EXTENDS Calls

CONSTANTS
    ToServer, ToClient,    \* what a client, and what a server, may send
    Methods,     \* the methods that the receiver's objects have, by id
    TheirMethods,    \* those that the sender's have
    MayTear,     \* a batch may end inside a message
    MaxSent      \* bound: messages

(* A method, the arguments it may be called with, and the messages of a       *)
(* library that links against this one.                                       *)
Method == [returns : BOOLEAN, params : Seq([array : BOOLEAN, type : Types])]
Value(type, value) ==
    /\ type \in Words => value \in U32
    /\ type = VARCHAR => value \in Seq(Byte)
Fits(params, args) ==
    /\ args = [i \in 1..Len(params) |-> args[i]]
    /\ \A i \in DOMAIN params :
        IF params[i].array
        THEN /\ args[i] = [j \in 1..Len(args[i]) |-> args[i][j]] /\ Len(args[i]) \in Nat
             /\ \A j \in DOMAIN args[i] : Value(params[i].type, args[i][j])
        ELSE Value(params[i].type, args[i])
FromClient(m) ==
    \/ m = Hello
    \/ m \in [code : {"HANDSHAKE_ACK"}, version : U32]
    \/ m \in [code : {"BIND_PROTOCOL"}, protocol : Seq(Byte), seq : U32, version : U32]
    \/ m \in [code : {"ROUNDTRIP_REQUEST"}, seq : U32]
FromServer(m) ==
    \/ m \in [code : {"HANDSHAKE_BEGIN"}, versions : Seq(U32)]
    \/ m \in [code : {"HANDSHAKE_PROTOCOLS"}, specs : Seq([name : Seq(Byte), version : Nat])]
    \/ m \in [code : {"NEW_OBJECT"}, id : U32, seq : U32]
    \/ m \in [code : {"FATAL_PROTOCOL_ERROR"}, object : U32, error : U32, text : Seq(Byte)]
    \/ m \in [code : {"ROUNDTRIP_DONE"}, seq : U32]
FromBoth(m) ==
    /\ m \in [code : {"GENERIC"}, deferred : BOOLEAN, object : U32, method : DOMAIN TheirMethods,
              seq : U32, args : {m.args}]
    /\ Fits(TheirMethods[m.method].params, m.args)

ASSUME CodecAssumption ==
    /\ MayTear \in BOOLEAN /\ MaxSent \in Nat
    /\ DOMAIN Methods \subseteq U32 /\ DOMAIN TheirMethods \subseteq U32
    /\ \A id \in DOMAIN TheirMethods : TheirMethods[id] \in Method
    /\ \A m \in ToServer : FromClient(m) \/ FromBoth(m)
    /\ \A m \in ToClient : FromServer(m) \/ FromBoth(m)

VARIABLES
    receiver,   \* "server" or "client"
    channel,    \* what was sent and is not read: bytes and descriptors of each sendmsg
    data,       \* SSocketRawParsedMessage of the batch being handled
    fds,
    needle,     \* how far handleMessage is in it
    torn,       \* history: the batch ends inside a message
    verdict,    \* eMessageParsingResult of the last batch
    sent,       \* history: the messages that were sent
    heard,      \* what the parsed messages say
    answers     \* the FATAL_PROTOCOL_ERRORs of the receiver

codecVars == <<receiver, channel, data, fds, needle, torn, verdict, sent, heard, answers>>

CodecInit ==
    /\ receiver \in {"server", "client"}
    /\ channel = <<>> /\ data = <<>> /\ fds = <<>> /\ needle = 0
    /\ torn = FALSE /\ verdict = "OK" /\ sent = <<>> /\ heard = <<>> /\ answers = <<>>

(* What the layout has room for: lengths of four digits, a version that is    *)
(* not 0, and an id of one byte for the object of a deferred call.            *)
Short(s) == Len(s) \in Lengths
ShortArgument(param, arg) ==
    IF param.array
    THEN Short(arg) /\ \A j \in DOMAIN arg : param.type = VARCHAR => Short(arg[j])
    ELSE param.type = VARCHAR => Short(arg)
Encodable(m) ==
    /\ m.code = "HANDSHAKE_BEGIN" => Short(m.versions)
    /\ m.code = "HANDSHAKE_PROTOCOLS" =>
          Short(m.specs) /\ \A i \in DOMAIN m.specs : Short(SpecName(m.specs[i]))
    /\ m.code = "BIND_PROTOCOL" => Short(m.protocol) /\ m.version # Zero
    /\ m.code = "FATAL_PROTOCOL_ERROR" => Short(m.text)
    /\ m.code = "GENERIC" =>
          /\ \A i \in DOMAIN m.args : ShortArgument(TheirMethods[m.method].params[i], m.args[i])
          /\ m.deferred => \A k \in 2..4 : m.object[k] = 0

(* The receiver knows the methods that the sender calls.                      *)
Agreed == \A id \in DOMAIN TheirMethods : id \in DOMAIN Methods /\ Methods[id] = TheirMethods[id]

Sound == Agreed /\ \A m \in ToServer \cup ToClient : Encodable(m)

(* The bytes of a message.  A deferred call was laid out for an object that   *)
(* had no id yet.                                                             *)
Layout(m) ==
    CASE m.code = "SUP" -> HelloBytes
      [] m.code = "HANDSHAKE_BEGIN" -> HandshakeBeginBytes(m.versions)
      [] m.code = "HANDSHAKE_ACK" -> HandshakeAckBytes(m.version)
      [] m.code = "HANDSHAKE_PROTOCOLS" -> HandshakeProtocolsBytes(m.specs)
      [] m.code = "BIND_PROTOCOL" -> BindProtocolBytes(m.protocol, m.seq, m.version)
      [] m.code = "NEW_OBJECT" -> NewObjectBytes(m.seq, m.id)
      [] m.code = "FATAL_PROTOCOL_ERROR" -> FatalErrorBytes(m.object, m.error, m.text)
      [] m.code = "ROUNDTRIP_REQUEST" -> RoundtripRequestBytes(m.seq)
      [] m.code = "ROUNDTRIP_DONE" -> RoundtripDoneBytes(m.seq)
      [] m.code = "GENERIC" ->
           IF m.deferred
           THEN ResolveSeq(CallBytes(Zero, m.method, TheirMethods[m.method], m.seq, m.args), m.object)
           ELSE CallBytes(m.object, m.method, TheirMethods[m.method], m.seq, m.args)

Carried(m) == IF m.code = "GENERIC" THEN CallFds(TheirMethods[m.method], m.args) ELSE <<>>

(* What a message means to the one who hears it.                              *)
Meaning(m) ==
    IF m.code # "GENERIC" THEN m
    ELSE [code |-> "GENERIC", object |-> m.object, method |-> m.method,
          values |-> (IF TheirMethods[m.method].returns THEN <<m.seq>> ELSE <<>>) \o m.args]

Send(m) ==
    /\ verdict = "OK" /\ Len(sent) < MaxSent
    /\ channel' = Append(channel, [bytes |-> Layout(m), fds |-> Carried(m)])
    /\ sent' = Append(sent, Meaning(m))
    /\ UNCHANGED <<receiver, data, fds, needle, torn, verdict, heard, answers>>

-----------------------------------------------------------------------------
(* One read takes what several sendmsg left, up to the first one with         *)
(* descriptors.  A long message may still be on its way.                      *)
Idle == data = <<>> /\ verdict = "OK"
Readable(k) == k \in DOMAIN channel /\ \A j \in 1..(k - 1) : channel[j].fds = <<>>
Together(k) == FlattenSeq([j \in 1..k |-> channel[j].bytes])

(* After a fatal error dispatchEvents does not read again.                    *)
HeardFatal == receiver = "client" /\ \E i \in DOMAIN heard : heard[i].code = "FATAL_PROTOCOL_ERROR"

Read(k, cut) ==
    /\ Idle /\ ~HeardFatal /\ Readable(k)
    /\ data' = SubSeq(Together(k), 1, Len(Together(k)) - cut)
    /\ fds' = channel[k].fds
    /\ channel' = SubSeq(channel, k + 1, Len(channel))
    /\ needle' = 0 /\ torn' = (cut > 0)
    /\ UNCHANGED <<receiver, verdict, sent, heard, answers>>

Receive == \E k \in DOMAIN channel : Read(k, 0)

(* Not inside the hello: its memcmp compares what lies behind the data.       *)
ReceiveTorn ==
    /\ MayTear
    /\ \E k \in DOMAIN channel : \E cut \in 1..(Len(channel[k].bytes) - 1) :
        channel[k].bytes # HelloBytes /\ Read(k, cut)

(* Each side takes the messages of the other only.                            *)
ParseCore(rest) ==
    CASE receiver = "server" /\ rest[1] = 1 -> ParseHello(rest)
      [] receiver = "client" /\ rest[1] = 2 -> ParseHandshakeBegin(rest)
      [] receiver = "server" /\ rest[1] = 3 -> ParseHandshakeAck(rest)
      [] receiver = "client" /\ rest[1] = 4 -> ParseHandshakeProtocols(rest)
      [] receiver = "server" /\ rest[1] = 10 -> ParseBindProtocol(rest)
      [] receiver = "client" /\ rest[1] = 11 -> ParseNewObject(rest)
      [] receiver = "client" /\ rest[1] = 12 -> ParseFatalError(rest)
      [] receiver = "server" /\ rest[1] = 13 -> ParseRoundtripRequest(rest)
      [] receiver = "client" /\ rest[1] = 14 -> ParseRoundtripDone(rest)
      [] OTHER -> Failed

(* A protocol error: only the server has an error() that sends and sets       *)
(* m_error; a client's does nothing.                                          *)
MinusOne == <<255, 255, 255, 255>>
Answers(object, error) ==
    answers' = IF receiver = "server"
               THEN Append(answers, [code |-> "FATAL_PROTOCOL_ERROR", object |-> object, error |-> error])
               ELSE answers

(* handleMessage goes on while there are data and the client has no error.    *)
Unhandled == data # <<>> /\ verdict = "OK" /\ needle < Len(data) /\ answers = <<>>
Remaining == SubSeq(data, needle + 1, Len(data))

HandleCore ==
    /\ Unhandled /\ Remaining[1] # 100
    /\ \E rest \in {Remaining} : \E parsed \in {ParseCore(rest)} :
        /\ parsed.len > 0
        /\ needle' = needle + parsed.len
        /\ heard' = Append(heard, parsed.msg)
    /\ UNCHANGED <<receiver, channel, data, fds, torn, verdict, sent, answers>>

(* onGeneric and called: a call that is not what the method expects is        *)
(* refused.                                                                   *)
Accepted(msg) == msg.method \in DOMAIN Methods /\ TypesAgree(Methods[msg.method], msg.data)

HandleGeneric ==
    /\ Unhandled /\ Remaining[1] = 100
    /\ \E rest \in {Remaining} : \E parsed \in {ParseGeneric(rest, fds)} :
        /\ parsed.len > 0
        /\ needle' = needle + parsed.len
        /\ fds' = SubSeq(fds, parsed.fds + 1, Len(fds))
        /\ IF Accepted(parsed.msg)
           THEN /\ heard' = Append(heard, [code |-> "GENERIC", object |-> parsed.msg.object,
                                           method |-> parsed.msg.method,
                                           values |-> Values(parsed.msg.data, parsed.msg.fds)])
                /\ UNCHANGED answers
           ELSE /\ heard' = Append(heard, [code |-> "REFUSED"])
                /\ Answers(parsed.msg.object, parsed.msg.object)
    /\ UNCHANGED <<receiver, channel, data, torn, verdict, sent>>

HandleError ==
    /\ Unhandled
    /\ \E rest \in {Remaining} :
        (IF rest[1] = 100 THEN ParseGeneric(rest, fds) ELSE ParseCore(rest)).len = 0
    /\ verdict' = "ERROR"
    /\ Answers(Zero, MinusOne)
    /\ UNCHANGED <<receiver, channel, data, fds, needle, torn, sent, heard>>

BatchDone ==
    /\ data # <<>> /\ verdict = "OK" /\ ~Unhandled
    /\ data' = <<>> /\ needle' = 0
    /\ IF fds = <<>>
       THEN UNCHANGED <<receiver, verdict, answers>>
       ELSE verdict' = "STRAY_FDS" /\ Answers(Zero, MinusOne)
    /\ UNCHANGED <<receiver, channel, fds, torn, sent, heard>>

CodecNext ==
    \/ \E m \in (IF receiver = "server" THEN ToServer ELSE ToClient) : Send(m)
    \/ Receive \/ ReceiveTorn
    \/ HandleCore \/ HandleGeneric \/ HandleError \/ BatchDone

CodecSpec == CodecInit /\ [][CodecNext]_codecVars

-----------------------------------------------------------------------------
(* Properties.                                                                *)

(* What is heard is what was sent, in order, with the same arguments, every   *)
(* descriptor with the call it was given to; and when everything is read,     *)
(* all of it was heard.                                                       *)
HeardIsSent ==
    /\ IsPrefix(heard, sent)
    /\ (Idle /\ channel = <<>> /\ ~torn) => heard = sent

(* However messages fall into batches, none that this library lays out is     *)
(* malformed to it, refused by the types of its method, or leaves descriptors *)
(* behind.                                                                    *)
NothingRefused ==
    ~torn => verdict = "OK" /\ \A i \in DOMAIN heard : heard[i].code # "REFUSED"

(* No part of a message passes for a whole one, wherever it is cut: such a    *)
(* batch never ends well.                                                     *)
TornIsError == torn => ~Idle

(* An error message carries "the error id (or -1 if it's not an enum'd        *)
(* error)".                                                                   *)
CoreErrorsHaveNoId == \A i \in DOMAIN answers : answers[i].error = MinusOne
=============================================================================
