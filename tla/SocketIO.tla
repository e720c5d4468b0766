------------------------------- MODULE SocketIO -------------------------------
(* sendMessage and parseFromFd over the socket of one connection: messages of *)
(* several units, a socket that takes only so much, reads into a buffer of a  *)
(* fixed size, and two peers that each send from the thread that reads.       *)
EXTENDS Integers, FiniteSetsExt, SequencesExt

CONSTANTS
    RequestSizes, AnswerSizes,    \* lengths of messages, in units
    Buffer,       \* BUFFER_SIZE
    Chunk,        \* what the kernel keeps in one piece
    Capacity,     \* pieces that a socket takes before it is full
    Window,       \* answers the client's application leaves open
    MaxCalls      \* bound: messages of the client

ASSUME SocketIOAssumption ==
    /\ RequestSizes \subseteq Nat \ {0} /\ AnswerSizes \subseteq Nat \ {0}
    /\ {Buffer, Chunk, Capacity} \subseteq Nat \ {0} /\ {Window, MaxCalls} \subseteq Nat

VARIABLES
    sent,      \* by direction: the messages handed to sendMessage, [size, answer]
    out,       \* what sendMessage has not handed to the kernel yet
    waits,     \* the client's sendMessage is in poll for POLLOUT
    queue,     \* what the kernel holds
    batch,     \* message.data of the reader
    again,     \* parseFromFd filled its buffer and reads once more
    heard,     \* how many messages were handled
    failed     \* one of the two took the other's bytes for malformed

ioVars == <<sent, out, waits, queue, batch, again, heard, failed>>

Directions == {"c2s", "s2c"}

SocketIOInit ==
    /\ sent = [d \in Directions |-> <<>>] /\ out = [d \in Directions |-> <<>>] /\ waits = FALSE
    /\ queue = [d \in Directions |-> <<>>] /\ batch = [d \in Directions |-> <<>>]
    /\ again = [d \in Directions |-> FALSE] /\ heard = [d \in Directions |-> 0] /\ failed = FALSE

-----------------------------------------------------------------------------
(* The socket.                                                                *)
UnitsOf(n, size) == [k \in 1..size |-> [of |-> n, at |-> k, piece |-> k = size \/ k % Chunk = 0]]

Held(d) == Cardinality({i \in DOMAIN queue[d] : queue[d][i].piece})
Room(d) == IF Held(d) < Capacity THEN Capacity - Held(d) ELSE 0

(* poll reports POLLOUT for a local socket that is three quarters empty.      *)
Writable(d) == 4 * Held(d) <= Capacity

Taken(d, pieces) == SubSeq(out[d], 1, Min({Len(out[d]), pieces * Chunk}))

-----------------------------------------------------------------------------
(* sendMessage.  The client's descriptor has O_NONBLOCK: a full socket makes  *)
(* it poll and try again; when a part of the message was taken the loop ends, *)
(* and nobody sends the rest.                                                 *)
Outstanding == Cardinality({n \in DOMAIN sent["c2s"] : sent["c2s"][n].answer}) - heard["s2c"]
ClientIdle == ~failed /\ out["c2s"] = <<>> /\ batch["s2c"] = <<>>

ClientCalls(size, answer) ==
    /\ ClientIdle
    /\ Len(sent["c2s"]) < MaxCalls /\ (answer => Outstanding < Window)
    /\ sent' = [sent EXCEPT !["c2s"] = Append(@, [size |-> size, answer |-> answer])]
    /\ out' = [out EXCEPT !["c2s"] = UnitsOf(Len(sent'["c2s"]), size)]
    /\ UNCHANGED <<waits, queue, batch, again, heard, failed>>

ClientSendsGivingUp ==    \* mutant: a full socket is taken for a failure
    /\ ~failed /\ out["c2s"] # <<>> /\ ~waits
    /\ queue' = [queue EXCEPT !["c2s"] = @ \o Taken("c2s", Room("c2s"))]
    /\ out' = [out EXCEPT !["c2s"] = <<>>]
    /\ UNCHANGED <<waits, sent, batch, again, heard, failed>>
ClientSends ==
    /\ ~failed /\ out["c2s"] # <<>> /\ ~waits
    /\ IF Room("c2s") = 0
       THEN waits' = TRUE /\ UNCHANGED <<queue, out>>
       ELSE /\ queue' = [queue EXCEPT !["c2s"] = @ \o Taken("c2s", Room("c2s"))]
            /\ out' = [out EXCEPT !["c2s"] = <<>>]
            /\ UNCHANGED waits
    /\ UNCHANGED <<sent, batch, again, heard, failed>>

ClientWritable ==
    /\ ~failed /\ waits /\ Writable("c2s")
    /\ waits' = FALSE
    /\ UNCHANGED <<sent, out, queue, batch, again, heard, failed>>

(* The server's descriptor is blocking: sendmsg sleeps for room for each      *)
(* piece until it has taken all of the message.                               *)
ServerSends ==
    /\ ~failed /\ out["s2c"] # <<>> /\ Room("s2c") > 0
    /\ LET piece == Taken("s2c", 1)
       IN /\ queue' = [queue EXCEPT !["s2c"] = @ \o piece]
          /\ out' = [out EXCEPT !["s2c"] = SubSeq(@, Len(piece) + 1, Len(@))]
    /\ UNCHANGED <<sent, waits, batch, again, heard, failed>>

-----------------------------------------------------------------------------
(* parseFromFd: one recvmsg.                                                  *)
ReceiveOnce(d) ==    \* mutant: does not look whether the buffer was filled
    LET size == Min({Len(queue[d]), Buffer})
    IN /\ queue[d] # <<>>
       /\ batch' = [batch EXCEPT ![d] = @ \o SubSeq(queue[d], 1, size)]
       /\ queue' = [queue EXCEPT ![d] = SubSeq(@, size + 1, Len(@))]
       /\ UNCHANGED again
Receive(d) ==
    LET size == Min({Len(queue[d]), Buffer})
    IN /\ queue[d] # <<>>
       /\ batch' = [batch EXCEPT ![d] = @ \o SubSeq(queue[d], 1, size)]
       /\ queue' = [queue EXCEPT ![d] = SubSeq(@, size + 1, Len(@))]
       /\ again' = [again EXCEPT ![d] = size = Buffer]

(* Nothing left to read after a full buffer is EAGAIN for the client, which   *)
(* disconnects; the server sleeps in recvmsg.                                 *)
ClientReads ==
    /\ ~failed /\ out["c2s"] = <<>>
    /\ again["s2c"] \/ (batch["s2c"] = <<>> /\ queue["s2c"] # <<>>)
    /\ IF queue["s2c"] = <<>>
       THEN failed' = TRUE /\ UNCHANGED <<queue, batch, again>>
       ELSE Receive("s2c") /\ UNCHANGED failed
    /\ UNCHANGED <<sent, out, waits, heard>>

ServerReads ==
    /\ ~failed /\ out["s2c"] = <<>>
    /\ again["c2s"] \/ batch["c2s"] = <<>>
    /\ Receive("c2s")
    /\ UNCHANGED <<sent, out, waits, heard, failed>>

(* parseSingleMessage: the message at the start of what is left of the batch. *)
Awaited(d) == UnitsOf(heard[d] + 1, sent[d][heard[d] + 1].size)
Whole(d) == heard[d] < Len(sent[d]) /\ IsPrefix(Awaited(d), batch[d])
Handled(d) ==
    /\ heard' = [heard EXCEPT ![d] = @ + 1]
    /\ batch' = [batch EXCEPT ![d] = SubSeq(@, Len(Awaited(d)) + 1, Len(@))]

ClientHandles ==
    /\ ~failed /\ out["c2s"] = <<>> /\ batch["s2c"] # <<>> /\ ~again["s2c"]
    /\ IF Whole("s2c")
       THEN Handled("s2c") /\ UNCHANGED failed
       ELSE failed' = TRUE /\ UNCHANGED <<heard, batch>>
    /\ UNCHANGED <<sent, out, waits, queue, again>>

(* A handler sends its answer before the next message is looked at.           *)
Answer(size) ==
    /\ sent' = [sent EXCEPT !["s2c"] = Append(@, [size |-> size, answer |-> FALSE])]
    /\ out' = [out EXCEPT !["s2c"] = UnitsOf(Len(sent'["s2c"]), size)]

ServerHandlesAnswering(size) ==    \* mutant: every message is answered
    /\ ~failed /\ out["s2c"] = <<>> /\ batch["c2s"] # <<>> /\ ~again["c2s"]
    /\ IF Whole("c2s")
       THEN /\ Handled("c2s") /\ Answer(size)
            /\ UNCHANGED failed
       ELSE failed' = TRUE /\ UNCHANGED <<heard, batch, sent, out>>
    /\ UNCHANGED <<waits, queue, again>>
ServerHandlesLast(size) ==    \* mutant: one answer for all the requests of a batch
    /\ ~failed /\ out["s2c"] = <<>> /\ batch["c2s"] # <<>> /\ ~again["c2s"]
    /\ IF Whole("c2s")
       THEN /\ Handled("c2s")
            /\ IF sent["c2s"][heard["c2s"] + 1].answer /\ batch'["c2s"] = <<>>
               THEN Answer(size) ELSE UNCHANGED <<sent, out>>
            /\ UNCHANGED failed
       ELSE failed' = TRUE /\ UNCHANGED <<heard, batch, sent, out>>
    /\ UNCHANGED <<waits, queue, again>>
ServerHandles(size) ==
    /\ ~failed /\ out["s2c"] = <<>> /\ batch["c2s"] # <<>> /\ ~again["c2s"]
    /\ IF Whole("c2s")
       THEN /\ Handled("c2s")
            /\ IF sent["c2s"][heard["c2s"] + 1].answer THEN Answer(size) ELSE UNCHANGED <<sent, out>>
            /\ UNCHANGED failed
       ELSE failed' = TRUE /\ UNCHANGED <<heard, batch, sent, out>>
    /\ UNCHANGED <<waits, queue, again>>

ClientSteps == ClientSends \/ ClientWritable \/ ClientReads \/ ClientHandles
ServerSteps == ServerSends \/ ServerReads \/ \E size \in AnswerSizes : ServerHandles(size)

SocketIONext ==
    \/ \E size \in RequestSizes, answer \in BOOLEAN : ClientCalls(size, answer)
    \/ ClientSteps
    \/ ServerSteps

(* Both main loops dispatch whenever there is something to read.              *)
SocketIOSpec == SocketIOInit /\ [][SocketIONext]_ioVars
                    /\ WF_ioVars(ClientSteps) /\ WF_ioVars(ServerSteps)

-----------------------------------------------------------------------------
(* Properties.                                                                *)

(* bytes are the messages behind the first `done` ones, each of them whole,   *)
(* once, and in the order in which they were sent.                            *)
WholeInOrder(bytes, messages, done) ==
    /\ \A i \in DOMAIN bytes :
          /\ bytes[i].of \in done + 1..Len(messages)
          /\ bytes[i].at \in 1..messages[bytes[i].of].size
    /\ \A n \in done + 1..Len(messages) : \E i \in DOMAIN bytes : bytes[i].of = n
    /\ \A i, j \in DOMAIN bytes :
          i < j => \/ bytes[i].of < bytes[j].of
                   \/ bytes[i].of = bytes[j].of /\ bytes[i].at < bytes[j].at
    /\ \A i \in DOMAIN bytes :
          LET units == UnitsOf(bytes[i].of, messages[bytes[i].of].size)
          IN \A k \in DOMAIN units :
                i - bytes[i].at + k \in DOMAIN bytes /\ bytes[i - bytes[i].at + k] = units[k]

(* What is read and not handled, what the kernel holds and what sendMessage   *)
(* still has make up the messages that were not heard, whole and in order.    *)
NothingIsLost ==
    \A d \in Directions :
        WholeInOrder(batch[d] \o queue[d] \o out[d], sent[d], heard[d])

(* "Content can be any length, and that needs to be verified by the parser":  *)
(* no peer takes what the other sent for malformed.                           *)
AnyLengthIsRead == ~failed

(* The client never waits for the server to read while the server waits for   *)
(* the client to.                                                             *)
NeverBothWait ==
    ~(waits /\ ~Writable("c2s") /\ out["s2c"] # <<>> /\ Room("s2c") = 0)

(* Every answer that the client's application asked for is heard.             *)
AnswersArrive ==
    \A n \in 1..MaxCalls :
        Cardinality({i \in DOMAIN sent["c2s"] : sent["c2s"][i].answer}) >= n ~> heard["s2c"] >= n
=============================================================================
