-------------------------------- MODULE Wire --------------------------------
(* The connection of one hyprwire client: a connected pair of AF_UNIX stream  *)
(* sockets and the messages that travel on it.  The kernel keeps each         *)
(* direction reliable and in order, so a direction is a sequence of whole     *)
(* messages.  A message keeps what the receiver's decisions depend on: its    *)
(* code, sequence, object id, version and method.  Arguments, strings and     *)
(* descriptors are left to the codec modules.                                 *)
EXTENDS Naturals, Sequences

CONSTANT Since    \* per method, the protocol version that introduced it (0: not stated)

ASSUME SinceAssumption == Since \in [{"call", "make", "event"} -> Nat]

VARIABLES
    c2s,      \* messages on their way to the server
    s2c,      \* messages on their way to the client
    cOpen,    \* the client's end (CClientSocket::m_fd) is a valid descriptor
    sOpen     \* the server's end (CServerClient::m_fd) is a valid descriptor

wireVars == <<c2s, s2c, cOpen, sOpen>>

Codes == {"SUP", "HANDSHAKE_BEGIN", "HANDSHAKE_ACK", "HANDSHAKE_PROTOCOLS",
          "BIND_PROTOCOL", "NEW_OBJECT", "GENERIC", "FATAL",
          "ROUNDTRIP_REQUEST", "ROUNDTRIP_DONE",
          "MALFORMED"}   \* bytes that no message class can parse

(* What a GENERIC message asks for: a plain call, a call of a method with a   *)
(* `returns` interface, or (from the server) an event.                        *)
Methods == {"none", "call", "make", "event"}

(* n is history only, never read by the program: the number of the call or   *)
(* event, so that properties can follow it.                                   *)
Message == [code : Codes, seq : Nat, id : Nat, ver : Nat, method : Methods, n : Nat]

Plain(code) == [code |-> code, seq |-> 0, id |-> 0, ver |-> 0, method |-> "none", n |-> 0]
Bind(seq, ver) == [Plain("BIND_PROTOCOL") EXCEPT !.seq = seq, !.ver = ver]
NewObject(seq, id) == [Plain("NEW_OBJECT") EXCEPT !.seq = seq, !.id = id]
RoundtripRequest(seq) == [Plain("ROUNDTRIP_REQUEST") EXCEPT !.seq = seq]
RoundtripDone(seq) == [Plain("ROUNDTRIP_DONE") EXCEPT !.seq = seq]
Generic(id, method, seq, n) ==
    [code |-> "GENERIC", seq |-> seq, id |-> id, ver |-> 0, method |-> method, n |-> n]

WireInit ==
    /\ c2s = <<Plain("SUP")>>      \* attempt() sends the hello before it returns
    /\ s2c = <<>>
    /\ cOpen = TRUE
    /\ sOpen = TRUE

(* What is left in a channel after ms is written to it.  A closed descriptor  *)
(* makes sendMessage a no-op, and nobody will read what is written to a peer  *)
(* that closed its end.                                                       *)
SentToServer(ms) == IF cOpen /\ sOpen THEN c2s \o ms ELSE c2s
SentToClient(ms) == IF cOpen /\ sOpen THEN s2c \o ms ELSE s2c

(* One read takes everything the stream holds at that moment, and the writer  *)
(* may still be writing: any non-empty prefix.                                *)
Batches(channel) == {SubSeq(channel, 1, k) : k \in 1..Len(channel)}
RestSkips(channel, batch) ==     \* mutant: loses what the buffer's end cut
    SubSeq(channel, Len(batch) + 2, Len(channel))
RestRepeats(channel, batch) ==   \* mutant: leaves the last of several messages in place
    SubSeq(channel, IF Len(batch) > 1 THEN Len(batch) ELSE 2, Len(channel))
Rest(channel, batch) == SubSeq(channel, Len(batch) + 1, Len(channel))

(* Closing an end throws away what its owner had not read.                    *)
CloseClientEnd == cOpen' = FALSE /\ s2c' = <<>>
CloseServerEnd == sOpen' = FALSE /\ c2s' = <<>>

(* A message that did not arrive in one piece: sendmsg took only part of it,  *)
(* or the reader's buffer ended inside it.  Neither side keeps the rest, so   *)
(* the receiver finds bytes it cannot parse.  That it may take a message sent *)
(* behind a part for the rest of it is left out (README, section 8).          *)
TearLast(channel) ==
    [channel EXCEPT ![Len(channel)] = [@ EXCEPT !.code = "MALFORMED"]]

WireFlagsOK == cOpen \in BOOLEAN /\ sOpen \in BOOLEAN

WireTypeOK == c2s \in Seq(Message) /\ s2c \in Seq(Message)
=============================================================================
