------------------------------- MODULE MCStubs --------------------------------
(* Small instances of Stubs.                                                  *)
EXTENDS Stubs, TLC

One(type) == [array |-> FALSE, type |-> type]
Many(type) == [array |-> TRUE, type |-> type]
MCShapes == {
    [args |-> <<One("enum"), Many("varchar")>>, returns |-> FALSE, destructor |-> FALSE],
    [args |-> <<Many("uint")>>, returns |-> TRUE, destructor |-> FALSE],
    [args |-> <<>>, returns |-> FALSE, destructor |-> TRUE] }
MCValues ==
    One("enum") :> {4} @@ Many("varchar") :> {<<>>, <<"a", "b">>} @@ Many("uint") :> {<<7>>}
=============================================================================
