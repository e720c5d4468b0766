------------------------------- MODULE VarInt -------------------------------
(* Lengths on the wire: CMessageParser::encodeVarInt and parseVarInt.  A      *)
(* length is cut into digits of seven bits, the lowest first; a set high bit  *)
(* says that another digit follows.                                           *)
EXTENDS Naturals, Sequences

Byte == 0..255

(* The four digits that the encoder takes, of a 64-bit number.                *)
Digit(n) == <<n % 128, (n \div 128) % 128, (n \div (128 * 128)) % 128, (n \div (128 * 128 * 128)) % 128>>

(* The lengths that four digits can hold.                                     *)
Lengths == {n \in Nat : n < 128 * (128 * (128 * 128))}

(* Digits that are zero are popped from the back, save the first one.         *)
VarIntSizeLow(n) ==    \* mutant: cut from the front, at the first zero
    IF Digit(n)[2] = 0 THEN 1
    ELSE IF Digit(n)[3] = 0 THEN 2
    ELSE IF Digit(n)[4] = 0 THEN 3
    ELSE 4
VarIntSize(n) ==
    IF Digit(n)[4] # 0 THEN 4
    ELSE IF Digit(n)[3] # 0 THEN 3
    ELSE IF Digit(n)[2] # 0 THEN 2
    ELSE 1

EncodeVarInt(n) ==
    [i \in 1..VarIntSize(n) |-> Digit(n)[i] + (IF i < VarIntSize(n) THEN 128 ELSE 0)]

(* The parser stops behind a digit without the flag, or where the data end.   *)
(* Behind the end it reads one byte that is not there: the value is then      *)
(* anything, and is 0 here because no caller gets as far as to use it.        *)
Flagged(data, k) == k < Len(data) /\ data[k] >= 128
ParsedSize(data, off) ==
    IF ~Flagged(data, off + 1) THEN 1
    ELSE IF ~Flagged(data, off + 2) THEN 2
    ELSE IF ~Flagged(data, off + 3) THEN 3
    ELSE 4
DigitAt(data, k) == IF k <= Len(data) THEN data[k] % 128 ELSE 0

(* off counts from zero, as in the code.  No encoder makes more digits.       *)
ParseVarInt(data, off) ==
    LET size == ParsedSize(data, off)
        d(k) == IF k <= size THEN DigitAt(data, off + k) ELSE 0
    IN [value |-> d(1) + 128 * d(2) + (128 * 128) * d(3) + (128 * 128 * 128) * d(4), len |-> size]
=============================================================================
