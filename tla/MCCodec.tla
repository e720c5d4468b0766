------------------------------ MODULE MCCodec -------------------------------
(* Small instances of Codec.  The arguments hold bytes that are also magics:  *)
(* END, UINT, VARCHAR, ARRAY, FD and the code of a generic message.           *)
EXTENDS Codec, LengthStream, TLC

CONSTANTS f1, f2, f3    \* descriptors

One(type) == [array |-> FALSE, type |-> type]
Many(type) == [array |-> TRUE, type |-> type]
MCMethods ==
    <<0, 0, 0, 0>> :> [returns |-> FALSE, params |-> <<One(UINT), One(VARCHAR)>>]
    @@ <<1, 0, 0, 0>> :> [returns |-> TRUE, params |-> <<Many(VARCHAR), One(F32)>>]
    @@ <<16, 0, 0, 0>> :> [returns |-> FALSE, params |-> <<One(FD), Many(FD), One(INT)>>]
    @@ <<33, 0, 0, 0>> :> [returns |-> FALSE, params |-> <<Many(UINT), One(OBJECT)>>]
MCOlder == [id \in {<<0, 0, 0, 0>>} |-> MCMethods[id]]    \* an older revision

Call(object, method, args) ==
    [code |-> "GENERIC", deferred |-> FALSE, object |-> object, method |-> method,
     seq |-> <<34, 0, 0, 0>>, args |-> args]
Late(call) == [call EXCEPT !.deferred = TRUE]
Long == [i \in 1..130 |-> 64]

MCCalls == {
    Call(<<16, 1, 0, 0>>, <<0, 0, 0, 0>>, <<<<0, 16, 0, 33>>, <<32, 100>>>>),
    Late(Call(<<32, 0, 0, 0>>, <<0, 0, 0, 0>>, <<<<255, 255, 255, 255>>, <<>>>>)),
    Call(<<1, 0, 0, 0>>, <<1, 0, 0, 0>>, <<<<<<64>>, <<>>, Long>>, <<0, 0, 0, 0>>>>),
    Late(Call(<<2, 0, 0, 0>>, <<33, 0, 0, 0>>, <<<<<<0, 0, 0, 0>>, <<100, 0, 0, 0>>>>, <<0, 0, 0, 0>>>>)),
    Call(<<1, 0, 0, 0>>, <<33, 0, 0, 0>>, <<<<>>, <<33, 16, 0, 0>>>>),
    Call(<<3, 0, 0, 0>>, <<16, 0, 0, 0>>, <<f1, <<f2, f3>>, <<64, 0, 0, 0>>>>),
    Late(Call(<<3, 0, 0, 0>>, <<16, 0, 0, 0>>, <<f2, <<>>, <<0, 64, 0, 0>>>>)) }

MCToServer == MCCalls \cup {
    Hello,
    [code |-> "HANDSHAKE_ACK", version |-> <<1, 0, 0, 0>>],
    [code |-> "BIND_PROTOCOL", protocol |-> <<118, 16>>, seq |-> <<0, 32, 0, 0>>, version |-> <<0, 1, 0, 0>>],
    [code |-> "ROUNDTRIP_REQUEST", seq |-> <<0, 1, 0, 0>>] }

MCToClient == MCCalls \cup {
    [code |-> "HANDSHAKE_BEGIN", versions |-> <<<<1, 0, 0, 0>>, <<0, 33, 0, 0>>>>],
    [code |-> "HANDSHAKE_PROTOCOLS",
     specs |-> <<[name |-> <<118, 64, 50>>, version |-> 1], [name |-> <<>>, version |-> 120],
                 [name |-> Long, version |-> 7]>>],
    [code |-> "NEW_OBJECT", id |-> <<11, 0, 0, 0>>, seq |-> <<0, 0, 16, 0>>],
    [code |-> "FATAL_PROTOCOL_ERROR", object |-> <<0, 0, 0, 0>>, error |-> <<255, 255, 255, 255>>,
     text |-> Long],
    [code |-> "ROUNDTRIP_DONE", seq |-> <<12, 0, 0, 0>>] }

ASSUME MCSound == Sound

(* Each side of every length at which the code of a length gets longer.       *)
MCBoundaries == {0, 1, 127, 128, 129, 255, 256, 16383, 16384, 16385, 2097151, 2097152, 268435455}
MCBeyond == {127, 268435456}

(* A behaviour is one of the codec or one of the lengths alone.               *)
MCInit == CodecInit /\ LengthStreamInit
MCNext ==
    \/ written = <<>> /\ CodecNext /\ UNCHANGED streamVars
    \/ sent = <<>> /\ LengthStreamNext /\ UNCHANGED codecVars
MCSpec == MCInit /\ [][MCNext]_<<codecVars, streamVars>>
=============================================================================
