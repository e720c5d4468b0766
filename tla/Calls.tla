------------------------------- MODULE Calls --------------------------------
(* The arguments of a call: IWireObject::call lays them out behind object and *)
(* method, CGenericProtocolMessage finds the end of the message and takes its *)
(* descriptors from those of the batch, IWireObject::called compares the      *)
(* types with those of its own method and hands the values to the listener.   *)
EXTENDS Messages

(* A method: whether it returns an object, and its parameters, each of a type *)
(* or an array of that type.  An argument is a U32, a string, a descriptor,   *)
(* or a sequence of them.                                                     *)
Words == {UINT, INT, F32, OBJECT, SEQ}
Types == {UINT, INT, F32, OBJECT, VARCHAR, FD}

Element(type, value) ==
    CASE type \in Words -> value
      [] type = VARCHAR -> Varchar(value)
      [] type = FD -> <<>>
Argument(param, value) ==
    IF param.array
    THEN <<ARRAY, param.type>> \o EncodeVarInt(Len(value))
            \o FlattenSeq([i \in DOMAIN value |-> Element(param.type, value[i])])
    ELSE <<param.type>> \o Element(param.type, value)
Descriptors(param, value) ==
    IF param.type # FD THEN <<>> ELSE IF param.array THEN value ELSE <<value>>

(* call: the sequence of the object to be made goes before the arguments.     *)
CallBytes(object, id, method, seq, args) ==
    <<100, OBJECT>> \o object \o <<UINT>> \o id
        \o (IF method.returns THEN <<SEQ>> \o seq ELSE <<>>)
        \o FlattenSeq([i \in DOMAIN args |-> Argument(method.params[i], args[i])])
        \o <<END>>
CallFds(method, args) ==
    FlattenSeq([i \in DOMAIN args |-> Descriptors(method.params[i], args[i])])

(* A call that waited for its object's id: resolveSeq fills in one byte.      *)
ResolveSeq(bytes, id) == [bytes EXCEPT ![3] = id[1]]

-----------------------------------------------------------------------------
(* How many bytes an argument takes; 0 is an invalid type.                    *)
ArgumentSize(data, k) ==
    LET count == ParseVarInt(data, k + 2)
        type == data[k + 2]
    IN CASE data[k + 1] \in Words -> 5
         [] data[k + 1] = VARCHAR -> LET size == ParseVarInt(data, k + 1) IN 1 + size.len + size.value
         [] data[k + 1] = FD -> 1
         [] data[k + 1] = ARRAY /\ k + 1 < Len(data) ->
              (CASE type \in Words -> 2 + count.len + 4 * count.value
                 [] type = VARCHAR -> VarcharsAt(data, k + 2 + count.len, count.value).next - k
                 [] type = FD -> 2 + count.len
                 [] OTHER -> 0)
         [] OTHER -> 0
ArgumentFds(data, k) ==
    IF data[k + 1] = FD THEN 1
    ELSE IF data[k + 1] = ARRAY /\ data[k + 2] = FD THEN ParseVarInt(data, k + 2).value
    ELSE 0

(* The arguments from offset first on, up to END, an invalid type or the end  *)
(* of the data: where each begins and how many descriptors are before it.     *)
Over(data, read) == read.next >= Len(data) \/ ArgumentSize(data, read.next) = 0
Further(data, read) ==
    [next |-> read.next + ArgumentSize(data, read.next),
     fds |-> read.fds + ArgumentFds(data, read.next),
     args |-> Append(read.args, [at |-> read.next, fdNo |-> read.fds])]
Arguments(data, first) ==
    LET read[n \in 0..Len(data)] ==
            IF n = 0 THEN [next |-> first, fds |-> 0, args |-> <<>>]
            ELSE LET last == read[n - 1] IN IF Over(data, last) THEN last ELSE Further(data, last)
    IN read[CHOOSE n \in 0..Len(data) : Over(data, read[n])]

(* The message ends where END stands in the place of an argument.             *)
ParseGeneric(data, fds) ==
    LET body == Arguments(data, 11)
    IN IF /\ Has(data, 0, 100) /\ Has(data, 1, OBJECT) /\ Has(data, 6, UINT)
          /\ Has(data, body.next, END) /\ body.fds <= Len(fds)
       THEN [len |-> body.next + 1, fds |-> body.fds,
             msg |-> [code |-> "GENERIC", object |-> U32At(data, 2), method |-> U32At(data, 7),
                      data |-> SubSeq(data, 12, body.next + 1), fds |-> SubSeq(fds, 1, body.fds)]]
       ELSE Failed

-----------------------------------------------------------------------------
(* called: every parameter has the type that the wire has in its place.       *)
ParamAt(data, k) ==
    IF data[k + 1] = ARRAY THEN [array |-> TRUE, type |-> data[k + 2]]
    ELSE [array |-> FALSE, type |-> data[k + 1]]
ExpectedWithoutSeq(method) == method.params    \* mutant: forgets the sequence
Expected(method) ==
    (IF method.returns THEN <<[array |-> FALSE, type |-> SEQ]>> ELSE <<>>) \o method.params
TypesAgree(method, data) ==
    LET params == Expected(method)
        args == Arguments(data, 0).args
    IN \A i \in DOMAIN params : i \in DOMAIN args /\ ParamAt(data, args[i].at) = params[i]

(* The values are then read by the types on the wire, up to END.              *)
ValueAt(data, k, fds, fdNo) ==
    LET type == ParamAt(data, k).type
        count == ParseVarInt(data, k + 2)
        start == k + 2 + count.len
        size == ParseVarInt(data, k + 1)
    IN IF ~ParamAt(data, k).array
       THEN CASE type \in Words -> U32At(data, k + 1)
              [] type = VARCHAR -> Bytes(data, k + 1 + size.len, size.value)
              [] type = FD -> fds[fdNo + 1]
       ELSE CASE type \in Words -> [i \in 1..count.value |-> U32At(data, start + 4 * (i - 1))]
              [] type = VARCHAR -> VarcharsAt(data, start, count.value).strings
              [] type = FD -> SubSeq(fds, fdNo + 1, fdNo + count.value)
ValuesRestarting(data, fds) ==    \* mutant: each array of descriptors starts from the first
    LET args == Arguments(data, 0).args
    IN [i \in DOMAIN args |-> ValueAt(data, args[i].at, fds, 0)]
Values(data, fds) ==
    LET args == Arguments(data, 0).args
    IN [i \in DOMAIN args |-> ValueAt(data, args[i].at, fds, args[i].fdNo)]
=============================================================================
