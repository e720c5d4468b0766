---------------------------- MODULE LengthStream ----------------------------
(* Lengths written one behind the other and read back from the front, as in   *)
(* an array of strings.                                                       *)
EXTENDS VarInt

CONSTANTS
    Sizes,         \* the lengths that are written
    MaxWritten     \* bound

ASSUME LengthStreamAssumption == Sizes \subseteq Nat /\ MaxWritten \in Nat

VARIABLES
    stream,     \* the bytes that are written and not read
    written,    \* history: the lengths
    read        \* the lengths that the parser found

streamVars == <<stream, written, read>>

LengthStreamInit == stream = <<>> /\ written = <<>> /\ read = <<>>

Write(n) ==
    /\ Len(written) < MaxWritten
    /\ stream' = stream \o EncodeVarInt(n)
    /\ written' = Append(written, n)
    /\ UNCHANGED read

ReadOne ==
    /\ stream # <<>>
    /\ LET parsed == ParseVarInt(stream, 0) IN
        /\ read' = Append(read, parsed.value)
        /\ stream' = SubSeq(stream, parsed.len + 1, Len(stream))
    /\ UNCHANGED written

LengthStreamNext == (\E n \in Sizes : Write(n)) \/ ReadOne

LengthStreamSpec == LengthStreamInit /\ [][LengthStreamNext]_streamVars

(* Lengths are read as they were written, and none runs into the next one,    *)
(* whatever the lengths of their codes.                                       *)
LengthsSurvive ==
    /\ Len(read) <= Len(written)
    /\ \A i \in DOMAIN read : read[i] = written[i]
    /\ stream = <<>> => read = written
=============================================================================
