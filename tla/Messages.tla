------------------------------ MODULE Messages ------------------------------
(* The messages byte by byte: for each class of src/core/message/messages the *)
(* constructor that lays out a message and the one that parses it.  A u32 is  *)
(* its four bytes, which memcpy moves without looking at them.                *)
EXTENDS VarInt, SequencesExt

(* enum eMessageMagic.                                                        *)
END == 0
UINT == 16
INT == 17
F32 == 18
SEQ == 19
VARCHAR == 32
ARRAY == 33
OBJECT == 34
FD == 64

U32 == [1..4 -> Byte]
Zero == <<0, 0, 0, 0>>

(* A parser gets the data from its offset on.  A read behind the end throws,  *)
(* which is caught and means a length of 0, like every failed comparison;     *)
(* what memcpy took from behind the end is then not used.                     *)
Failed == [len |-> 0]
Has(data, k, byte) == k < Len(data) /\ data[k + 1] = byte
Bytes(data, k, n) == [i \in 1..n |-> IF k + i <= Len(data) THEN data[k + i] ELSE 0]
U32At(data, k) == Bytes(data, k, 4)

(* A string, or n of them, each behind its length.                            *)
Varchar(string) == EncodeVarInt(Len(string)) \o string
Varchars(strings) == FlattenSeq([i \in DOMAIN strings |-> Varchar(strings[i])])
VarcharsAt(data, k, n) ==
    LET read[i \in 0..n] ==
            IF i = 0 THEN [next |-> k, strings |-> <<>>]
            ELSE LET size == ParseVarInt(data, read[i - 1].next)
                     start == read[i - 1].next + size.len
                 IN [next |-> start + size.value,
                     strings |-> Append(read[i - 1].strings, Bytes(data, start, size.value))]
    IN read[n]

-----------------------------------------------------------------------------
Hello == [code |-> "SUP"]
HelloBytes == <<1, VARCHAR, 3, 86, 65, 88, END>>
ParseHello(data) ==
    IF Bytes(data, 0, 7) = HelloBytes THEN [len |-> 7, msg |-> Hello] ELSE Failed

HandshakeBeginBytes(versions) ==
    <<2, ARRAY, UINT>> \o EncodeVarInt(Len(versions)) \o FlattenSeq(versions) \o <<END>>
ParseHandshakeBegin(data) ==
    LET count == ParseVarInt(data, 3)
        start == 3 + count.len
        needle == start + 4 * count.value
    IN IF Has(data, 0, 2) /\ Has(data, 1, ARRAY) /\ Has(data, 2, UINT) /\ Has(data, needle, END)
       THEN [len |-> needle + 1,
             msg |-> [code |-> "HANDSHAKE_BEGIN",
                      versions |-> [i \in 1..count.value |-> U32At(data, start + 4 * (i - 1))]]]
       ELSE Failed

HandshakeAckBytes(version) == <<3, UINT>> \o version \o <<END>>
ParseHandshakeAck(data) ==
    IF Has(data, 0, 3) /\ Has(data, 1, UINT) /\ Has(data, 6, END)
    THEN [len |-> 7, msg |-> [code |-> "HANDSHAKE_ACK", version |-> U32At(data, 2)]]
    ELSE Failed

(* The caller writes a spec as name@version; serverSpecs splits it at the     *)
(* last '@'.                                                                  *)
At == 64
Decimal(n) ==
    LET digits[k \in 0..n] == IF k < 10 THEN <<48 + k>> ELSE Append(digits[k \div 10], 48 + (k % 10))
    IN digits[n]
SpecName(spec) == spec.name \o <<At>> \o Decimal(spec.version)
ServerSpec(text) ==
    LET atPos == CHOOSE k \in DOMAIN text : text[k] = At /\ \A j \in (k + 1)..Len(text) : text[j] # At
        value[k \in 0..Len(text)] == IF k <= atPos THEN 0 ELSE 10 * value[k - 1] + text[k] - 48
    IN [name |-> SubSeq(text, 1, atPos - 1), version |-> value[Len(text)]]

HandshakeProtocolsBytes(specs) ==
    LET protocols == [i \in DOMAIN specs |-> SpecName(specs[i])]
    IN <<4, ARRAY, VARCHAR>> \o EncodeVarInt(Len(specs)) \o Varchars(protocols) \o <<END>>
ParseHandshakeProtocols(data) ==
    LET els == ParseVarInt(data, 3)
        read == VarcharsAt(data, 3 + els.len, els.value)
    IN IF Has(data, 0, 4) /\ Has(data, 1, ARRAY) /\ Has(data, 2, VARCHAR) /\ Has(data, read.next, END)
       THEN [len |-> read.next + 1,
             msg |-> [code |-> "HANDSHAKE_PROTOCOLS",
                      specs |-> [i \in DOMAIN read.strings |-> ServerSpec(read.strings[i])]]]
       ELSE Failed

BindProtocolBytes(protocol, seq, version) ==
    <<10, UINT>> \o seq \o <<VARCHAR>> \o Varchar(protocol) \o <<UINT>> \o version \o <<END>>
ParseBindProtocolOpen(data) ==    \* mutant: does not look for the END
    LET size == ParseVarInt(data, 7)
        needle == 7 + size.len + size.value
        version == U32At(data, needle + 1)
    IN IF /\ Has(data, 0, 10) /\ Has(data, 1, UINT) /\ Has(data, 6, VARCHAR)
          /\ Has(data, needle, UINT) /\ version # Zero
       THEN [len |-> needle + 6,
             msg |-> [code |-> "BIND_PROTOCOL", protocol |-> Bytes(data, 7 + size.len, size.value),
                      seq |-> U32At(data, 2), version |-> version]]
       ELSE Failed
ParseBindProtocol(data) ==
    LET size == ParseVarInt(data, 7)
        needle == 7 + size.len + size.value
        version == U32At(data, needle + 1)
    IN IF /\ Has(data, 0, 10) /\ Has(data, 1, UINT) /\ Has(data, 6, VARCHAR)
          /\ Has(data, needle, UINT) /\ version # Zero /\ Has(data, needle + 5, END)
       THEN [len |-> needle + 6,
             msg |-> [code |-> "BIND_PROTOCOL", protocol |-> Bytes(data, 7 + size.len, size.value),
                      seq |-> U32At(data, 2), version |-> version]]
       ELSE Failed

(* The id is in front of the sequence, the other way round than in the        *)
(* parameters of the constructor.                                             *)
NewObjectBytes(seq, id) == <<11, UINT>> \o id \o <<UINT>> \o seq \o <<END>>
ParseNewObject(data) ==
    IF Has(data, 0, 11) /\ Has(data, 1, UINT) /\ Has(data, 6, UINT) /\ Has(data, 11, END)
    THEN [len |-> 12, msg |-> [code |-> "NEW_OBJECT", id |-> U32At(data, 2), seq |-> U32At(data, 7)]]
    ELSE Failed

FatalErrorBytes(object, errorId, text) ==
    <<12, UINT>> \o object \o <<UINT>> \o errorId \o <<VARCHAR>> \o Varchar(text) \o <<END>>
ParseFatalError(data) ==
    LET size == ParseVarInt(data, 12)
        needle == 12 + size.len + size.value
    IN IF /\ Has(data, 0, 12) /\ Has(data, 1, UINT) /\ Has(data, 6, UINT)
          /\ Has(data, 11, VARCHAR) /\ Has(data, needle, END)
       THEN [len |-> needle + 1,
             msg |-> [code |-> "FATAL_PROTOCOL_ERROR", object |-> U32At(data, 2),
                      error |-> U32At(data, 7), text |-> Bytes(data, 12 + size.len, size.value)]]
       ELSE Failed

RoundtripRequestBytes(seq) == <<13, UINT>> \o seq \o <<END>>
ParseRoundtripRequest(data) ==
    IF Has(data, 0, 13) /\ Has(data, 1, UINT) /\ Has(data, 6, END)
    THEN [len |-> 7, msg |-> [code |-> "ROUNDTRIP_REQUEST", seq |-> U32At(data, 2)]]
    ELSE Failed

RoundtripDoneBytes(seq) == <<14, UINT>> \o seq \o <<END>>
ParseRoundtripDone(data) ==
    IF Has(data, 0, 14) /\ Has(data, 1, UINT) /\ Has(data, 6, END)
    THEN [len |-> 7, msg |-> [code |-> "ROUNDTRIP_DONE", seq |-> U32At(data, 2)]]
    ELSE Failed
=============================================================================
