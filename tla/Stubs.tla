-------------------------------- MODULE Stubs ---------------------------------
(* The code that hyprwire-scanner generates from a protocol document: the     *)
(* table of methods, the senders and the listener stubs of one object.  The   *)
(* document grows; a client made from one release of it calls a server made   *)
(* from another, through IWireObject::call and called.                        *)
EXTENDS Naturals, FiniteSets, SequencesExt

CONSTANTS
    Shapes,        \* what a method may be: its arguments, whether it returns an object or destroys its own
    Values,        \* the values that a type is called with
    MaxMethods, MaxReleases, MaxCalls    \* bounds

(* The types strToMagic knows; one that is an array is called with a vector.  *)
Types == {"varchar", "uint", "enum", "int", "f32", "fd"}

ASSUME StubsAssumption ==
    /\ MaxMethods \in Nat /\ MaxReleases \in Nat /\ MaxCalls \in Nat
    /\ Shapes \subseteq [args : Seq([array : BOOLEAN, type : Types]), returns : BOOLEAN, destructor : BOOLEAN]
    /\ \A shape \in Shapes : \A i \in DOMAIN shape.args : shape.args[i].array =>
        \A v \in Values[shape.args[i]] : v \in Seq({v[k] : k \in DOMAIN v})

VARIABLES
    doc,        \* the elements of the document, in its order
    release,    \* its version
    client, server,    \* what each program was generated from: [methods, specVer], or NoProgram
    version,    \* m_version of the bound object on both sides, 0 before
    wrapped,    \* the client made its CC...Object
    wire,       \* by side: the calls that are on their way
    seq,        \* m_seq of the client
    issued, heard, refused,    \* history, by side: what was called, what listeners were given, errors
    dead        \* m_error of the server's client

stubsVars == <<doc, release, client, server, version, wrapped, wire, seq, issued, heard, refused, dead>>

Sides == {"c2s", "s2c"}
NoProgram == [methods |-> <<>>, specVer |-> 0]

StubsInit ==
    /\ doc = <<>> /\ release = 1
    /\ client = NoProgram /\ server = NoProgram /\ version = 0 /\ wrapped = FALSE
    /\ wire = [s \in Sides |-> <<>>] /\ seq = 0
    /\ issued = [s \in Sides |-> <<>>] /\ heard = [s \in Sides |-> <<>>]
    /\ refused = FALSE /\ dead = FALSE

-----------------------------------------------------------------------------
(* The document.  A release adds methods behind those of their side, which    *)
(* keeps the ids, and states the release in since; between the methods of     *)
(* the other side they may stand anywhere.  What becomes of the document when *)
(* both programs are made is of no interest.                                  *)
Unfinished == client = NoProgram \/ server = NoProgram

AddMethod(side, shape) ==
    /\ Unfinished /\ Len(doc) < MaxMethods
    /\ \E k \in 1..(Len(doc) + 1) :
        /\ \A j \in k..Len(doc) : doc[j].side # side
        /\ doc' = InsertAt(doc, k, [side |-> side, name |-> Len(doc), since |-> release,
                                    args |-> shape.args, returns |-> shape.returns,
                                    destructor |-> shape.destructor])
    /\ UNCHANGED <<release, client, server, version, wrapped, wire, seq, issued, heard, refused, dead>>

(* A program is generated from the document as it is released.                *)
Release ==
    /\ Unfinished /\ release < MaxReleases /\ doc # <<>>
    /\ release' = release + 1
    /\ \/ client = NoProgram /\ client' = [methods |-> doc, specVer |-> release] /\ UNCHANGED server
       \/ server = NoProgram /\ server' = [methods |-> doc, specVer |-> release] /\ UNCHANGED client
       \/ /\ client = NoProgram /\ server = NoProgram
          /\ client' = [methods |-> doc, specVer |-> release] /\ server' = client'
       \/ UNCHANGED <<client, server>>
    /\ UNCHANGED <<doc, version, wrapped, wire, seq, issued, heard, refused, dead>>

(* scanProtocol: the methods of a side, with ids of their own.                *)
Scan(methods, side) ==
    LET scanned[n \in 0..Len(methods)] ==
            IF n = 0 THEN <<>>
            ELSE IF methods[n].side # side THEN scanned[n - 1]
            ELSE Append(scanned[n - 1], [idx |-> Len(scanned[n - 1]), method |-> methods[n]])
    IN scanned[Len(methods)]

(* strToMagic and magicToString: an enum travels as a uint, an array as two   *)
(* magics.                                                                    *)
Magic(type) == IF type = "enum" THEN "uint" ELSE type
Params(args) ==
    FlattenSeq([i \in DOMAIN args |-> (IF args[i].array THEN <<"array">> ELSE <<>>) \o <<Magic(args[i].type)>>])

(* The table m_c2s or m_s2c; that of the events has no returnsType.           *)
Table(methods, side) ==
    LET scanned == Scan(methods, side)
    IN [i \in DOMAIN scanned |->
          [params |-> Params(scanned[i].method.args), since |-> scanned[i].method.since,
           returns |-> side = "c2s" /\ scanned[i].method.returns]]

-----------------------------------------------------------------------------
(* bindProtocol and createObject: neither side goes beyond its own version.   *)
BindBeyond(v) ==    \* mutant: the server does not look at the version
    /\ client # NoProgram /\ server # NoProgram /\ version = 0
    /\ v <= client.specVer
    /\ version' = v
    /\ UNCHANGED <<doc, release, client, server, wrapped, wire, seq, issued, heard, refused, dead>>
Bind(v) ==
    /\ client # NoProgram /\ server # NoProgram /\ version = 0
    /\ v <= client.specVer /\ v <= server.specVer
    /\ version' = v
    /\ UNCHANGED <<doc, release, client, server, wrapped, wire, seq, issued, heard, refused, dead>>

(* The server makes its object in onBind, the client when bindProtocol is     *)
(* back; the constructor registers a stub for every method.                   *)
Wrap ==
    /\ version > 0 /\ ~wrapped
    /\ wrapped' = TRUE
    /\ UNCHANGED <<doc, release, client, server, version, wire, seq, issued, heard, refused, dead>>

Sender(side) == IF side = "c2s" THEN client.methods ELSE server.methods
Receiver(side) == IF side = "c2s" THEN server.methods ELSE client.methods

(* A generated sender hands an array over as pointer and length, and call     *)
(* takes its arguments one by one as its table of the method says: the two of *)
(* an array where the table has "array" and the type of the elements.         *)
CArguments(args, values) ==
    FlattenSeq([i \in DOMAIN args |-> IF args[i].array THEN <<values[i], Len(values[i])>> ELSE <<values[i]>>])
Marshalled(params, given) ==
    FlattenSeq([i \in DOMAIN params |->
        IF params[i] = "array"
        THEN <<[magics |-> <<"array", params[i + 1]>>, value |-> SubSeq(given[i], 1, given[i + 1])]>>
        ELSE IF i > 1 /\ params[i - 1] = "array" THEN <<>>
        ELSE <<[magics |-> <<params[i]>>, value |-> given[i]]>>])

Call(side, i, values) ==
    LET sender == Scan(Sender(side), side)[i]
        entry == Table(Sender(side), side)[sender.idx + 1]
        ret == IF entry.returns THEN <<seq + 1>> ELSE <<>>
    IN /\ version > 0 /\ (side = "c2s" => wrapped) /\ ~dead
       /\ Len(issued["c2s"]) + Len(issued["s2c"]) < MaxCalls
       /\ entry.since <= version
       /\ wire' = [wire EXCEPT ![side] = Append(@,
            [id |-> sender.idx,
             payload |-> [k \in DOMAIN ret |-> [magics |-> <<"seq">>, value |-> ret[k]]]
                            \o Marshalled(entry.params, CArguments(sender.method.args, values))])]
       /\ seq' = seq + Len(ret)
       /\ issued' = [issued EXCEPT ![side] = Append(@,
            [name |-> sender.method.name, args |-> ret \o values, destructor |-> sender.method.destructor])]
       /\ UNCHANGED <<doc, release, client, server, version, wrapped, heard, refused, dead>>

(* A method that is newer than the object: the server's error() ends the      *)
(* connection, the client's does nothing.                                     *)
CallTooNew(side, i) ==
    /\ version > 0 /\ (side = "c2s" => wrapped) /\ ~dead
    /\ Table(Sender(side), side)[i].since > version
    /\ dead' = (side = "s2c")
    /\ UNCHANGED <<doc, release, client, server, version, wrapped, wire, seq, issued, heard, refused>>

(* called: the method must be known, have a listener, not be newer than the   *)
(* object, and have the types that are on the wire.                           *)
Accepts(entry, payload) ==
    /\ entry.since <= version
    /\ IsPrefix((IF entry.returns THEN <<"seq">> ELSE <<>>) \o entry.params,
                FlattenSeq([k \in DOMAIN payload |-> payload[k].magics]))

(* ffi passes what was on the wire, an array as pointer and length; the stub  *)
(* makes a vector of the two again, after the sequence if there is one.       *)
Passed(payload) ==
    FlattenSeq([k \in DOMAIN payload |->
        IF payload[k].magics[1] = "array" THEN <<payload[k].value, Len(payload[k].value)>>
        ELSE <<payload[k].value>>])
Vectors(args, given, first) ==
    LET at == [i \in DOMAIN args |-> first + i + Cardinality({j \in 1..(i - 1) : args[j].array})]
    IN [i \in DOMAIN args |->
          IF args[i].array THEN SubSeq(given[at[i]], 1, given[at[i] + 1]) ELSE given[at[i]]]
StubArgumentsLost(method, given) ==    \* mutant: the listener is not given the sequence
    IF method.side = "c2s" /\ method.returns THEN Vectors(method.args, given, 1)
    ELSE Vectors(method.args, given, 0)
StubArguments(method, given) ==
    IF method.side = "c2s" /\ method.returns THEN <<given[1]>> \o Vectors(method.args, given, 1)
    ELSE Vectors(method.args, given, 0)

Called(side) ==
    LET msg == Head(wire[side])
        table == Table(Receiver(side), side)
        stubs == {k \in DOMAIN Scan(Receiver(side), side) : Scan(Receiver(side), side)[k].idx = msg.id}
        known == msg.id < Len(table)
        listens == (side = "s2c" => wrapped) /\ stubs # {}
    IN /\ wire[side] # <<>> /\ ~dead
       /\ wire' = [wire EXCEPT ![side] = Tail(@)]
       /\ IF known /\ ~listens
          THEN UNCHANGED <<heard, refused, dead>>
          ELSE IF known /\ Accepts(table[msg.id + 1], msg.payload)
          THEN /\ \E k \in stubs : LET method == Scan(Receiver(side), side)[k].method IN
                    heard' = [heard EXCEPT ![side] = Append(@,
                        [name |-> method.name, args |-> StubArguments(method, Passed(msg.payload)),
                         destructor |-> method.destructor])]
               /\ UNCHANGED <<refused, dead>>
          ELSE refused' = TRUE /\ dead' = (side = "c2s") /\ UNCHANGED heard
       /\ UNCHANGED <<doc, release, client, server, version, wrapped, seq, issued>>

Arguments(args) ==
    LET upto[n \in 0..Len(args)] ==
            IF n = 0 THEN {<<>>}
            ELSE {Append(before, last) : before \in upto[n - 1], last \in Values[args[n]]}
    IN upto[Len(args)]

StubsNext ==
    \/ \E side \in Sides, shape \in Shapes : AddMethod(side, shape)
    \/ Release
    \/ \E v \in 1..MaxReleases : Bind(v)
    \/ Wrap
    \/ \E side \in Sides : \E i \in DOMAIN Scan(Sender(side), side) :
        \E values \in Arguments(Scan(Sender(side), side)[i].method.args) : Call(side, i, values)
    \/ \E side \in Sides : \E i \in DOMAIN Scan(Sender(side), side) : CallTooNew(side, i)
    \/ \E side \in Sides : Called(side)

StubsSpec == StubsInit /\ [][StubsNext]_stubsVars

-----------------------------------------------------------------------------
(* Properties.                                                                *)

(* A listener is given the method that was called and the arguments it was    *)
(* called with, in the order of the calls, from whichever releases the two    *)
(* programs come; and a call of a client is lost on nobody.                   *)
CallsMeanTheSame ==
    /\ \A side \in Sides : \A i \in DOMAIN heard[side] :
        LET missed == Len(issued[side]) - Len(wire[side]) - Len(heard[side])
        IN heard[side][i] = issued[side][i + missed]
    /\ ~dead => Len(heard["c2s"]) + Len(wire["c2s"]) = Len(issued["c2s"])

(* What a sender of one release lets through, the receiver of another does    *)
(* not refuse.                                                                *)
ReleasesAgree == ~refused

(* "calling the method must destroy the object on the server, and any         *)
(* subsequent calls to the ID must raise a protocol error".                   *)
DestructorDestroys ==
    \A i \in DOMAIN heard["c2s"] : heard["c2s"][i].destructor => i = Len(heard["c2s"])
=============================================================================
