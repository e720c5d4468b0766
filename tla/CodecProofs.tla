---------------------------- MODULE CodecProofs -----------------------------
(* The codec, for any methods and any messages that the layout has room for:  *)
(* what a peer lays out is heard by the other as it was meant.  First the     *)
(* lengths (VarInt, LengthStream), then the arguments of calls, then whole    *)
(* messages, and at the end the inductive invariant CodecInv.                 *)
EXTENDS Codec, LengthStream, RecursionProofs, SequenceTheorems, Integers

-----------------------------------------------------------------------------
(* Lengths.                                                                   *)

(* A number is its last digit and what is left of it.                         *)
LEMMA LastDigit ==
    ASSUME NEW x \in Nat
    PROVE  /\ x % 128 \in 0..127 /\ x \div 128 \in Nat
           /\ x = 128 * (x \div 128) + (x % 128)
OBVIOUS

(* Two digits further up,                                                     *)
LEMMA DivTwice ==
    ASSUME NEW x \in Nat
    PROVE  x \div (128 * 128) = (x \div 128) \div 128
BY SMT

(* and three;                                                                 *)
LEMMA DivThrice ==
    ASSUME NEW x \in Nat
    PROVE  x \div (128 * 128 * 128) = ((x \div 128) \div 128) \div 128
BY SMT

(* what is left is smaller.                                                   *)
LEMMA DivShrinks ==
    ASSUME NEW x \in Nat, NEW m \in Nat, x < 128 * m
    PROVE  x \div 128 < m
BY SMT

(* A length is the sum of its four digits: nothing is left behind them.       *)
LEMMA DigitsMakeLength ==
    ASSUME NEW n \in Lengths
    PROVE  /\ n \in Nat
           /\ \A i \in 1..4 : Digit(n)[i] \in 0..127
           /\ n = Digit(n)[1] + 128 * Digit(n)[2] + (128 * 128) * Digit(n)[3]
                    + (128 * 128 * 128) * Digit(n)[4]
<1> DEFINE a == n \div 128
           b == a \div 128
           c == b \div 128
<1>1. n \in Nat /\ n < 128 * (128 * (128 * 128))
  BY DEF Lengths
<1>2. a \in Nat /\ n % 128 \in 0..127 /\ n = 128 * a + (n % 128) /\ a < 128 * (128 * 128)
  BY <1>1, LastDigit, DivShrinks, 128 * (128 * 128) \in Nat
<1> HIDE DEF a
<1>3. b \in Nat /\ a % 128 \in 0..127 /\ a = 128 * b + (a % 128) /\ b < 128 * 128
  BY <1>2, LastDigit, DivShrinks, 128 * 128 \in Nat
<1> HIDE DEF b
<1>4. c \in Nat /\ b % 128 \in 0..127 /\ b = 128 * c + (b % 128) /\ c < 128
  BY <1>3, LastDigit, DivShrinks
<1> HIDE DEF c
<1>5. c % 128 = c
  BY <1>4
<1>6. Digit(n) = <<n % 128, a % 128, b % 128, c % 128>>
  <2>1. n \div (128 * 128) = b
    BY <1>1, DivTwice DEF a, b
  <2>2. n \div (128 * 128 * 128) = c
    BY <1>1, DivThrice DEF a, b, c
  <2> QED BY <2>1, <2>2 DEF Digit, a
<1>7. n = (n % 128) + 128 * (a % 128) + (128 * 128) * (b % 128) + (128 * 128 * 128) * (c % 128)
  BY SMT, <1>1, <1>2, <1>3, <1>4, <1>5
<1> QED BY <1>1, <1>2, <1>3, <1>4, <1>5, <1>6, <1>7

(* The first of the four digits that are left out is zero, and so are those   *)
(* behind it; only the last digit of a code lacks the flag.                   *)
LEMMA CodeShape ==
    ASSUME NEW n \in Lengths
    PROVE  /\ VarIntSize(n) \in 1..4
           /\ \A i \in 1..4 : i > VarIntSize(n) => Digit(n)[i] = 0
           /\ EncodeVarInt(n) \in Seq(Byte) /\ Len(EncodeVarInt(n)) = VarIntSize(n)
           /\ \A i \in 1..VarIntSize(n) :
                /\ EncodeVarInt(n)[i] % 128 = Digit(n)[i]
                /\ (EncodeVarInt(n)[i] >= 128) = (i < VarIntSize(n))
<1> DEFINE size == VarIntSize(n)
<1>1. \A i \in 1..4 : Digit(n)[i] \in 0..127
  BY DigitsMakeLength
<1>2. size \in 1..4 /\ \A i \in 1..4 : i > size => Digit(n)[i] = 0
  BY <1>1 DEF VarIntSize
<1> HIDE DEF size
<1>3. EncodeVarInt(n) = [i \in 1..size |-> Digit(n)[i] + (IF i < size THEN 128 ELSE 0)]
  BY DEF EncodeVarInt, size
<1>4. \A i \in 1..size : /\ EncodeVarInt(n)[i] \in Byte
                          /\ EncodeVarInt(n)[i] % 128 = Digit(n)[i]
                          /\ (EncodeVarInt(n)[i] >= 128) = (i < size)
  <2> SUFFICES ASSUME NEW i \in 1..size
               PROVE  /\ EncodeVarInt(n)[i] \in Byte
                      /\ EncodeVarInt(n)[i] % 128 = Digit(n)[i]
                      /\ (EncodeVarInt(n)[i] >= 128) = (i < size)
    OBVIOUS
  <2> DEFINE digit == Digit(n)[i]
  <2>1. digit \in 0..127
    BY <1>1, <1>2
  <2> HIDE DEF digit
  <2>2. CASE i < size
    <3>1. EncodeVarInt(n)[i] = digit + 128
      BY <1>3, <2>2 DEF digit
    <3>2. (digit + 128) % 128 = digit
      BY <2>1
    <3> QED BY <2>1, <2>2, <3>1, <3>2 DEF Byte, digit
  <2>3. CASE ~(i < size)
    <3>1. EncodeVarInt(n)[i] = digit + 0
      BY <1>3, <2>3 DEF digit
    <3>2. digit % 128 = digit
      BY <2>1
    <3> QED BY <2>1, <2>3, <3>1, <3>2 DEF Byte, digit
  <2> QED BY <2>2, <2>3
<1>5. EncodeVarInt(n) \in Seq(Byte) /\ Len(EncodeVarInt(n)) = size
  BY <1>2, <1>3, <1>4
<1> QED BY <1>2, <1>4, <1>5 DEF size

(* Wherever in the data the code of a length stands, parseVarInt finds the    *)
(* length there and passes over exactly the code, whatever stands in front of *)
(* it and behind it.                                                          *)
THEOREM VarIntRoundTrip ==
    ASSUME NEW n \in Lengths, NEW bytes \in Seq(Byte), NEW off \in Nat,
           off + VarIntSize(n) <= Len(bytes),
           \A i \in 1..VarIntSize(n) : bytes[off + i] = EncodeVarInt(n)[i]
    PROVE  ParseVarInt(bytes, off) = [value |-> n, len |-> VarIntSize(n)]
<1> DEFINE size == VarIntSize(n)
           digit(i) == Digit(n)[i]
<1>1. /\ size \in 1..4
      /\ \A i \in 1..4 : i > size => digit(i) = 0
      /\ \A i \in 1..size : /\ bytes[off + i] % 128 = digit(i)
                             /\ (bytes[off + i] >= 128) = (i < size)
  BY CodeShape
<1>2. \A i \in 1..4 : digit(i) \in 0..127
  BY DigitsMakeLength
<1>3. n = digit(1) + 128 * digit(2) + (128 * 128) * digit(3) + (128 * 128 * 128) * digit(4)
  BY DigitsMakeLength
<1> HIDE DEF size, digit
<1>4. \A i \in 1..size : Flagged(bytes, off + i) <=> i < size
  BY <1>1 DEF Flagged, size
<1>5. ParsedSize(bytes, off) = size
  <2>1. size = 1 \/ size = 2 \/ size = 3 \/ size = 4
    BY <1>1
  <2>2. CASE size = 1
    BY <1>4, <2>2 DEF ParsedSize
  <2>3. CASE size = 2
    BY <1>4, <2>3 DEF ParsedSize
  <2>4. CASE size = 3
    BY <1>4, <2>4 DEF ParsedSize
  <2>5. CASE size = 4
    BY <1>4, <2>5 DEF ParsedSize
  <2> QED BY <2>1, <2>2, <2>3, <2>4, <2>5
<1> DEFINE d(k) == IF k <= size THEN DigitAt(bytes, off + k) ELSE 0
<1>6. \A k \in 1..4 : d(k) = digit(k)
  BY <1>1 DEF DigitAt, size
<1>7. ParseVarInt(bytes, off) =
        [value |-> d(1) + 128 * d(2) + (128 * 128) * d(3) + (128 * 128 * 128) * d(4), len |-> size]
  BY <1>5 DEF ParseVarInt
<1> HIDE DEF d
<1>8. d(1) = digit(1) /\ d(2) = digit(2) /\ d(3) = digit(3) /\ d(4) = digit(4)
  BY <1>6
<1> QED BY <1>3, <1>7, <1>8 DEF size

-----------------------------------------------------------------------------
(* Where the codes of the lengths that are not read yet end in the stream:    *)
(* of the lengths in ws the first r are read, and st is what is left of it.   *)
Cut(ends, st, ws, r) ==
    /\ ends \in [Nat -> Int] /\ ends[r] = 0 /\ ends[Len(ws)] = Len(st)
    /\ \A j, k \in r..Len(ws) : j <= k => ends[j] <= ends[k]
    /\ \A k \in (r..Len(ws)) \ {r} :
        /\ ends[k] = ends[k - 1] + VarIntSize(ws[k])
        /\ \A i \in 1..VarIntSize(ws[k]) : st[ends[k - 1] + i] = EncodeVarInt(ws[k])[i]

StreamInv ==
    /\ stream \in Seq(Byte) /\ written \in Seq(Lengths) /\ read \in Seq(Lengths)
    /\ Len(read) <= Len(written)
    /\ \A i \in DOMAIN read : read[i] = written[i]
    /\ \E ends : Cut(ends, stream, written, Len(read))

(* The invariant holds in the beginning.                                      *)
LEMMA StreamStarts == LengthStreamInit => StreamInv
<1> SUFFICES ASSUME LengthStreamInit PROVE StreamInv
  OBVIOUS
<1>1. Cut([k \in Nat |-> 0], stream, written, Len(read))
  BY DEF LengthStreamInit, Cut
<1> QED BY <1>1 DEF LengthStreamInit, StreamInv

(* A code that is appended ends where the stream now ends.                    *)
LEMMA WriteStep ==
    ASSUME StreamInv, NEW n \in Lengths, Write(n)
    PROVE  StreamInv'
<1> DEFINE size == VarIntSize(n)
           w == Len(written)
           r == Len(read)
           l == Len(stream)
<1>1. /\ stream \in Seq(Byte) /\ written \in Seq(Lengths) /\ read \in Seq(Lengths)
      /\ r <= w /\ \A i \in DOMAIN read : read[i] = written[i]
      /\ w \in Nat /\ r \in Nat /\ l \in Nat
  BY DEF StreamInv
<1>2. PICK ends : Cut(ends, stream, written, Len(read))
  BY DEF StreamInv
<1>3. size \in 1..4 /\ EncodeVarInt(n) \in Seq(Byte) /\ Len(EncodeVarInt(n)) = size
  BY CodeShape
<1> HIDE DEF size
<1>4. /\ stream' \in Seq(Byte) /\ Len(stream') = l + size
      /\ \A i \in 1..l : stream'[i] = stream[i]
      /\ \A i \in 1..size : stream'[l + i] = EncodeVarInt(n)[i]
  BY <1>1, <1>3 DEF Write
<1>5. /\ written' \in Seq(Lengths) /\ Len(written') = w + 1 /\ read' = read
      /\ written'[w + 1] = n /\ \A i \in 1..w : written'[i] = written[i]
  BY <1>1 DEF Write
<1> HIDE DEF w, r, l
<1>6. /\ ends \in [Nat -> Int] /\ ends[r] = 0 /\ ends[w] = l
      /\ \A j, k \in r..w : j <= k => ends[j] <= ends[k]
      /\ \A k \in (r..w) \ {r} :
          /\ ends[k] = ends[k - 1] + VarIntSize(written[k])
          /\ \A i \in 1..VarIntSize(written[k]) : stream[ends[k - 1] + i] = EncodeVarInt(written[k])[i]
  BY <1>2 DEF Cut, w, r, l
<1> DEFINE longer == [ends EXCEPT ![w + 1] = l + size]
<1>7. Cut(longer, stream', written', Len(read'))
  <2>1. /\ longer \in [Nat -> Int] /\ longer[w + 1] = l + size
        /\ \A k \in Nat : k # w + 1 => longer[k] = ends[k]
    BY <1>1, <1>3, <1>6
  <2> HIDE DEF longer
  <2>2. longer[r] = 0
    BY <1>1, <1>6, <2>1
  <2>3. ASSUME NEW j \in r..(w + 1), NEW k \in r..(w + 1), j <= k PROVE longer[j] <= longer[k]
    <3>1. CASE k = w + 1 /\ j = w + 1
      BY <1>1, <1>3, <2>1, <3>1
    <3>2. CASE k = w + 1 /\ j # w + 1
      <4>1. j \in r..w /\ w \in r..w /\ j <= w /\ j \in Nat
        BY <1>1, <3>2
      <4>2. ends[j] <= l /\ longer[j] = ends[j] /\ ends[j] \in Int
        BY <1>6, <2>1, <3>2, <4>1
      <4> QED BY <1>1, <1>3, <2>1, <3>2, <4>2, SMTT(30)
    <3>3. CASE k # w + 1
      <4>1. j \in r..w /\ k \in r..w /\ j \in Nat /\ k \in Nat /\ j # w + 1
        BY <1>1, <2>3, <3>3
      <4> QED BY <1>6, <2>1, <2>3, <3>3, <4>1
    <3> QED BY <3>1, <3>2, <3>3
  <2>4. ASSUME NEW k \in (r..(w + 1)) \ {r}
        PROVE  /\ longer[k] = longer[k - 1] + VarIntSize(written'[k])
               /\ \A i \in 1..VarIntSize(written'[k]) :
                    stream'[longer[k - 1] + i] = EncodeVarInt(written'[k])[i]
    <3>1. CASE k = w + 1
      <4>1. k - 1 = w /\ longer[k - 1] = l
        <5>1. w \in Nat
          BY <1>1
        <5>2. (w + 1) - 1 = w /\ w # w + 1
          BY <5>1
        <5> QED BY <1>6, <2>1, <3>1, <5>1, <5>2
      <4>2. written'[k] = n /\ longer[k] = l + size
        BY <1>5, <2>1, <3>1
      <4> QED BY <1>4, <4>1, <4>2 DEF size
    <3>2. CASE k # w + 1
      <4>1. k \in (r..w) \ {r} /\ k \in 1..w /\ k - 1 \in r..w /\ k - 1 \in Nat /\ k - 1 # w + 1
        BY <1>1, <3>2
      <4>2. written'[k] = written[k] /\ written[k] \in Lengths
        BY <1>1, <1>5, <4>1 DEF w
      <4>3. VarIntSize(written[k]) \in 1..4
        BY <4>2, CodeShape
      <4>4. ends[k - 1] >= 0 /\ ends[k] <= l /\ ends[k] \in Int /\ ends[k - 1] \in Int
        <5>1. r \in r..w /\ w \in r..w /\ r <= k - 1 /\ k <= w /\ k \in r..w /\ k \in Nat
          BY <1>1, <4>1
        <5>2. ends[r] <= ends[k - 1] /\ ends[k] <= ends[w]
          BY <1>6, <4>1, <5>1
        <5> QED BY <1>6, <4>1, <5>1, <5>2
      <4>5. longer[k] = ends[k] /\ longer[k - 1] = ends[k - 1]
        BY <2>1, <3>2, <4>1
      <4>6. /\ ends[k] = ends[k - 1] + VarIntSize(written[k])
            /\ \A i \in 1..VarIntSize(written[k]) :
                stream[ends[k - 1] + i] = EncodeVarInt(written[k])[i]
        BY <1>6, <4>1
      <4> DEFINE before == ends[k - 1]
                 behind == ends[k]
                 code == VarIntSize(written[k])
      <4>7. before >= 0 /\ behind <= l /\ behind = before + code /\ before \in Int /\ code \in 1..4
        BY <4>3, <4>4, <4>6
      <4> HIDE DEF before, behind, code
      <4>8. \A i \in 1..code : before + i \in 1..l
        BY <1>1, <4>7
      <4>9. \A i \in 1..code : stream'[before + i] = EncodeVarInt(written[k])[i]
        BY <1>4, <4>6, <4>8 DEF before, code
      <4> QED BY <4>2, <4>5, <4>6, <4>9 DEF before, code
    <3> QED BY <3>1, <3>2
  <2>5. Len(read') = r /\ Len(written') = w + 1 /\ Len(stream') = l + size
    BY <1>4, <1>5 DEF r
  <2> QED BY <2>1, <2>2, <2>3, <2>4, <2>5 DEF Cut
<1>8. /\ Len(read') <= Len(written') /\ \A i \in DOMAIN read' : read'[i] = written'[i]
      /\ read' \in Seq(Lengths)
  BY <1>1, <1>5 DEF r, w
<1> QED BY <1>4, <1>5, <1>7, <1>8 DEF StreamInv

(* The length in front is the first that is not read; the others move up.     *)
LEMMA ReadStep ==
    ASSUME StreamInv, ReadOne
    PROVE  StreamInv'
<1> DEFINE w == Len(written)
           r == Len(read)
           l == Len(stream)
           n == written[r + 1]
           size == VarIntSize(n)
<1>1. /\ stream \in Seq(Byte) /\ written \in Seq(Lengths) /\ read \in Seq(Lengths)
      /\ r <= w /\ \A i \in DOMAIN read : read[i] = written[i]
      /\ w \in Nat /\ r \in Nat /\ l \in Nat
  BY DEF StreamInv
<1>2. PICK ends : Cut(ends, stream, written, Len(read))
  BY DEF StreamInv
<1>3. /\ ends \in [Nat -> Int] /\ ends[r] = 0 /\ ends[w] = l
      /\ \A j, k \in r..w : j <= k => ends[j] <= ends[k]
      /\ \A k \in (r..w) \ {r} :
          /\ ends[k] = ends[k - 1] + VarIntSize(written[k])
          /\ \A i \in 1..VarIntSize(written[k]) : stream[ends[k - 1] + i] = EncodeVarInt(written[k])[i]
  BY <1>2 DEF Cut
<1>4. r < w
  <2>1. l # 0
    BY <1>1 DEF ReadOne
  <2> QED BY <1>1, <1>3, <2>1
<1>5. n \in Lengths
  BY <1>1, <1>4
<1>6. size \in 1..4
  BY <1>5, CodeShape
<1> HIDE DEF w, l, r
<1>7. ends[r + 1] = size /\ size <= l /\ \A i \in 1..size : stream[0 + i] = EncodeVarInt(n)[i]
  <2>1. r + 1 \in (r..w) \ {r} /\ (r + 1) - 1 = r /\ w \in r..w /\ r + 1 <= w /\ r + 1 \in r..w
    BY <1>1, <1>4
  <2>2. /\ ends[r + 1] = ends[(r + 1) - 1] + size
        /\ \A i \in 1..size : stream[ends[(r + 1) - 1] + i] = EncodeVarInt(n)[i]
    BY <1>3, <2>1
  <2>3. ends[r + 1] <= ends[w]
    BY <1>3, <2>1
  <2> HIDE DEF n, size
  <2> QED BY <1>3, <1>6, <2>1, <2>2, <2>3
<1>8. ParseVarInt(stream, 0) = [value |-> n, len |-> size]
  <2>1. 0 + size <= Len(stream) /\ 0 \in Nat
    BY <1>6, <1>7 DEF l
  <2> HIDE DEF n
  <2> QED BY <1>1, <1>5, <1>7, <2>1, VarIntRoundTrip
<1> HIDE DEF n, size
<1>9. read' = Append(read, n) /\ stream' = SubSeq(stream, size + 1, l) /\ written' = written
  <2>1. ParseVarInt(stream, 0).value = n /\ ParseVarInt(stream, 0).len = size
    BY <1>8
  <2> QED BY <2>1 DEF ReadOne, l
<1>10. /\ stream' \in Seq(Byte) /\ Len(stream') = l - size
       /\ \A i \in 1..(l - size) : stream'[i] = stream[i + size]
  <2> DEFINE x == stream
             y == stream'
  <2>1. /\ x \in Seq(Byte) /\ Len(x) = l /\ l \in Nat /\ size \in Nat /\ size <= l
        /\ y = SubSeq(x, size + 1, l)
    BY <1>1, <1>6, <1>7, <1>9 DEF l
  <2> HIDE DEF x, y
  <2>2. y \in Seq(Byte) /\ Len(y) = l - size
    BY <2>1
  <2>3. \A i \in 1..(l - size) : y[i] = x[i + size]
    BY <2>1, <2>2
  <2> QED BY <2>2, <2>3 DEF x, y
<1>11. /\ read' \in Seq(Lengths) /\ Len(read') = r + 1
       /\ \A i \in DOMAIN read' : read'[i] = written'[i]
  BY <1>1, <1>5, <1>9 DEF n, r
<1> DEFINE shifted == [k \in Nat |-> ends[k] - size]
<1>12. Cut(shifted, stream', written', Len(read'))
  <2>1. shifted \in [Nat -> Int] /\ \A k \in Nat : shifted[k] = ends[k] - size /\ ends[k] \in Int
    BY <1>3, <1>6
  <2> HIDE DEF shifted
  <2>2. shifted[r + 1] = 0 /\ shifted[w] = l - size
    <3>1. r + 1 \in Nat /\ w \in Nat
      BY <1>1
    <3> QED BY <1>3, <1>6, <1>7, <2>1, <3>1
  <2>3. ASSUME NEW j \in (r + 1)..w, NEW k \in (r + 1)..w, j <= k PROVE shifted[j] <= shifted[k]
    <3>1. j \in r..w /\ k \in r..w /\ j \in Nat /\ k \in Nat
      BY <1>1
    <3>2. ends[j] <= ends[k]
      BY <1>3, <2>3, <3>1
    <3> QED BY <1>6, <2>1, <3>1, <3>2
  <2>4. ASSUME NEW k \in ((r + 1)..w) \ {r + 1}
        PROVE  /\ shifted[k] = shifted[k - 1] + VarIntSize(written[k])
               /\ \A i \in 1..VarIntSize(written[k]) :
                    stream'[shifted[k - 1] + i] = EncodeVarInt(written[k])[i]
    <3>1. /\ k \in (r..w) \ {r} /\ k - 1 \in r..w /\ r + 1 <= k - 1 /\ r + 1 \in r..w
          /\ k \in Nat /\ k - 1 \in Nat /\ k \in 1..w /\ w \in r..w /\ k \in r..w /\ k <= w
      BY <1>1, <1>4
    <3> DEFINE before == ends[k - 1]
               behind == ends[k]
               code == VarIntSize(written[k])
    <3>2. behind = before + code /\ \A i \in 1..code : stream[before + i] = EncodeVarInt(written[k])[i]
      BY <1>3, <3>1
    <3>3. before \in Int /\ behind \in Int /\ ends[r + 1] <= before /\ behind <= ends[w]
      BY <1>3, <2>1, <3>1
    <3>4. code \in 1..4
      <4>1. written[k] \in Lengths
        BY <1>1, <3>1 DEF w
      <4> QED BY <4>1, CodeShape
    <3>5. shifted[k] = behind - size /\ shifted[k - 1] = before - size
      BY <2>1, <3>1
    <3> HIDE DEF before, behind, code
    <3>6. before >= size /\ behind <= l
      BY <1>3, <1>7, <3>3
    <3>7. shifted[k] = shifted[k - 1] + code
      BY <1>6, <3>2, <3>3, <3>4, <3>5
    <3>8. ASSUME NEW i \in 1..code PROVE stream'[(before - size) + i] = EncodeVarInt(written[k])[i]
      <4>1. (before - size) + i \in 1..(l - size) /\ ((before - size) + i) + size = before + i
        BY <1>1, <1>6, <3>2, <3>3, <3>4, <3>6
      <4>2. stream'[(before - size) + i] = stream[((before - size) + i) + size]
        BY <1>10, <4>1
      <4> QED BY <3>2, <4>1, <4>2
    <3> QED BY <3>5, <3>7, <3>8 DEF code
  <2>5. Len(read') = r + 1 /\ Len(written') = w /\ Len(stream') = l - size /\ written' = written
    BY <1>9, <1>10, <1>11 DEF w
  <2> QED BY <2>1, <2>2, <2>3, <2>4, <2>5 DEF Cut
<1>13. Len(read') <= Len(written') /\ written' \in Seq(Lengths)
  BY <1>1, <1>4, <1>9, <1>11 DEF w, r
<1> QED BY <1>10, <1>11, <1>12, <1>13 DEF StreamInv

(* Lengths below 2^28 are read as they were written, however many follow each *)
(* other.                                                                     *)
THEOREM StreamSurvives ==
    ASSUME Sizes \subseteq Lengths
    PROVE  LengthStreamSpec => []LengthsSurvive
<1>1. StreamInv /\ [LengthStreamNext]_streamVars => StreamInv'
  <2> SUFFICES ASSUME StreamInv, [LengthStreamNext]_streamVars PROVE StreamInv'
    OBVIOUS
  <2>1. CASE \E n \in Sizes : Write(n)
    BY <2>1, WriteStep
  <2>2. CASE ReadOne
    BY <2>2, ReadStep
  <2>3. CASE UNCHANGED streamVars
    <3>1. PICK ends : Cut(ends, stream, written, Len(read))
      BY DEF StreamInv
    <3>2. Cut(ends, stream', written', Len(read'))
      BY <2>3, <3>1 DEF streamVars
    <3> QED BY <2>3, <3>2 DEF streamVars, StreamInv
  <2> QED BY <2>1, <2>2, <2>3 DEF LengthStreamNext
<1>2. StreamInv => LengthsSurvive
  <2> SUFFICES ASSUME StreamInv PROVE LengthsSurvive
    OBVIOUS
  <2>1. ASSUME stream = <<>> PROVE read = written
    <3>1. PICK ends : Cut(ends, stream, written, Len(read))
      BY DEF StreamInv
    <3>2. Len(stream) = 0
      BY <2>1
    <3>3. ASSUME Len(read) < Len(written) PROVE FALSE
      <4> DEFINE k == Len(read) + 1
      <4>1. /\ k \in (Len(read)..Len(written)) \ {Len(read)} /\ k - 1 = Len(read) /\ k <= Len(written)
            /\ k \in Len(read)..Len(written) /\ Len(written) \in Len(read)..Len(written)
        BY <3>3 DEF StreamInv
      <4>2. VarIntSize(written[k]) \in 1..4
        <5>1. written[k] \in Lengths
          BY <3>3 DEF StreamInv
        <5> QED BY <5>1, CodeShape
      <4> HIDE DEF k
      <4>3. ends[k] = 0 + VarIntSize(written[k]) /\ ends[k] <= 0
        BY <3>1, <3>2, <4>1 DEF Cut
      <4> QED BY <4>2, <4>3
    <3>4. Len(read) = Len(written)
      BY <3>3 DEF StreamInv
    <3> QED BY <3>4 DEF StreamInv
  <2> QED BY <2>1 DEF StreamInv, LengthsSurvive
<1> QED BY <1>1, <1>2, StreamStarts, PTL DEF LengthStreamSpec

-----------------------------------------------------------------------------
(* What a parser finds in data that may end anywhere.                         *)

(* The data have s behind offset k, as far as they reach.                     *)
Stands(data1, k, s) == \A i \in 1..Len(s) : k + i <= Len(data1) => data1[k + i] = s[i]

(* Of two sequences that stand there, the second stands behind the first.     *)
LEMMA StandsBehind ==
    ASSUME NEW d, NEW k \in Nat, NEW S, NEW s \in Seq(S), NEW t \in Seq(S), Stands(d, k, s \o t), Len(d) \in Nat
    PROVE  Stands(d, k, s) /\ Stands(d, k + Len(s), t)
<1>1. /\ Len(s) \in Nat /\ Len(t) \in Nat /\ Len(s \o t) = Len(s) + Len(t)
      /\ \A i \in 1..Len(s) : (s \o t)[i] = s[i]
      /\ \A i \in 1..Len(t) : (s \o t)[Len(s) + i] = t[i]
  OBVIOUS
<1> DEFINE w == s \o t
           l == Len(s)
           m == Len(t)
           e == Len(d)
<1>2. \A i \in 1..(l + m) : k + i <= e => d[k + i] = w[i]
  BY <1>1 DEF Stands
<1> HIDE DEF w, l, m, e
<1>3. \A i \in 1..l : k + i <= e => d[k + i] = s[i]
  <2> TAKE i \in 1..l
  <2>1. l \in Nat /\ m \in Nat
    BY DEF l, m
  <2>2. i \in 1..(l + m)
    BY <2>1
  <2>3. w[i] = s[i]
    BY <1>1 DEF w, l
  <2> QED BY <1>2, <2>2, <2>3
<1>4. ASSUME NEW i \in 1..m, (k + l) + i <= e PROVE d[(k + l) + i] = t[i]
  <2>1. l + i \in 1..(l + m) /\ k + (l + i) = (k + l) + i
    BY <1>1 DEF l, m
  <2>2. w[l + i] = t[i]
    BY <1>1 DEF w, l, m
  <2> QED BY <1>2, <1>4, <2>1, <2>2
<1> QED BY <1>3, <1>4 DEF Stands, l, m, e

(* So do the parts of a flattened sequence.                                   *)
LEMMA StandsInParts ==
    ASSUME NEW d, Len(d) \in Nat, NEW k \in Nat, NEW ss, NEW flat, NEW off, PartsOf(flat, ss, off),
           Len(ss) \in Nat, \A i \in 1..Len(ss) : Len(ss[i]) \in Nat,
           Stands(d, k, flat), NEW i \in 1..Len(ss)
    PROVE  Stands(d, k + off[i - 1], ss[i])
<1>1. /\ off[i - 1] \in Nat /\ off[i] = off[i - 1] + Len(ss[i]) /\ off[i] <= Len(flat) /\ off[i] \in Nat
      /\ Len(flat) \in Nat
      /\ \A j \in 1..Len(ss[i]) : flat[off[i - 1] + j] = ss[i][j]
  BY SMTT(30) DEF PartsOf
<1> DEFINE a == off[i - 1]
           part == ss[i]
           l == Len(part)
           e == Len(d)
           f == Len(flat)
<1>2. l \in Nat
  OBVIOUS
<1>3. a \in Nat /\ f \in Nat /\ a + l <= f /\ \A j \in 1..l : flat[a + j] = part[j]
  BY <1>1
<1>4. \A j \in 1..f : k + j <= e => d[k + j] = flat[j]
  BY DEF Stands
<1> HIDE DEF a, part, l, e, f
<1>5. ASSUME NEW j \in 1..l, (k + a) + j <= e PROVE d[(k + a) + j] = part[j]
  <2>1. a + j \in 1..f /\ k + (a + j) = (k + a) + j
    BY <1>2, <1>3
  <2>2. flat[a + j] = part[j]
    BY <1>3
  <2> QED BY <1>4, <1>5, <2>1, <2>2
<1> QED BY <1>5 DEF Stands, a, part, l, e

(* Whatever the data, parseVarInt goes on by one to four bytes.               *)
LEMMA NumberFound ==
    ASSUME NEW d \in Seq(Byte), NEW k \in Nat
    PROVE  ParseVarInt(d, k).value \in Nat /\ ParseVarInt(d, k).len \in 1..4
<1> DEFINE size == ParsedSize(d, k)
           digit(i) == IF i <= size THEN DigitAt(d, k + i) ELSE 0
<1>1. size \in 1..4
  BY DEF ParsedSize
<1>2. ASSUME NEW i \in Nat, i > 0 PROVE DigitAt(d, i) \in Nat
  <2>1. \A x \in Byte : x % 128 \in Nat
    BY LastDigit DEF Byte
  <2>2. i <= Len(d) => d[i] \in Byte
    BY <1>2
  <2> QED BY <2>1, <2>2 DEF DigitAt
<1> HIDE DEF size
<1>3. \A i \in 1..4 : digit(i) \in Nat
  BY <1>1, <1>2
<1>4. ParseVarInt(d, k) =
        [value |-> digit(1) + 128 * digit(2) + (128 * 128) * digit(3) + (128 * 128 * 128) * digit(4), len |-> size]
  BY DEF ParseVarInt, size
<1> HIDE DEF digit
<1>5. digit(1) \in Nat /\ digit(2) \in Nat /\ digit(3) \in Nat /\ digit(4) \in Nat
  BY <1>3
<1>6. digit(1) + 128 * digit(2) + (128 * 128) * digit(3) + (128 * 128 * 128) * digit(4) \in Nat
  <2> DEFINE a == digit(1)
             b == digit(2)
             c == digit(3)
             f == digit(4)
  <2>1. a \in Nat /\ b \in Nat /\ c \in Nat /\ f \in Nat
    BY <1>5
  <2> HIDE DEF a, b, c, f
  <2>2. 128 * b \in Nat /\ (128 * 128) * c \in Nat /\ (128 * 128 * 128) * f \in Nat
    BY <2>1
  <2>3. a + 128 * b + (128 * 128) * c + (128 * 128 * 128) * f \in Nat
    BY <2>1, <2>2
  <2> QED BY <2>3 DEF a, b, c, f
<1> QED BY <1>1, <1>4, <1>6

(* A length is found, or the data end in its code, and then the parser is at  *)
(* their end.                                                                 *)
LEMMA NumberStands ==
    ASSUME NEW n \in Lengths, NEW d \in Seq(Byte), NEW k \in Nat, Stands(d, k, EncodeVarInt(n))
    PROVE  \/ k + VarIntSize(n) <= Len(d) /\ ParseVarInt(d, k) = [value |-> n, len |-> VarIntSize(n)]
           \/ k + VarIntSize(n) > Len(d) /\ k + ParseVarInt(d, k).len >= Len(d)
<1> DEFINE size == VarIntSize(n)
           code == EncodeVarInt(n)
<1>1. /\ size \in 1..4 /\ Len(code) = size
      /\ \A i \in 1..size : (code[i] >= 128) = (i < size)
  BY CodeShape
<1>2. \A i \in 1..size : k + i <= Len(d) => d[k + i] = code[i]
  BY <1>1 DEF Stands
<1>3. CASE k + size <= Len(d)
  <2>1. \A i \in 1..size : d[k + i] = code[i]
    BY <1>1, <1>2, <1>3
  <2>2. ParseVarInt(d, k) = [value |-> n, len |-> size]
    BY <1>3, <2>1, VarIntRoundTrip
  <2> QED BY <1>3, <2>2
<1>4. CASE k + size > Len(d)
  <2> HIDE DEF size, code
  <2> DEFINE e == Len(d)
  <2>0. e \in Nat
    OBVIOUS
  <2>1. ASSUME NEW i \in 1..size, k + i < e PROVE Flagged(d, k + i)
    <3>1. i < size
      BY <1>1, <1>4, <2>0, <2>1
    <3>2. code[i] >= 128 /\ d[k + i] = code[i]
      BY <1>1, <1>2, <2>1, <3>1, <2>0
    <3> QED BY <2>1, <3>2 DEF Flagged
  <2>2. ParseVarInt(d, k).len = ParsedSize(d, k)
    BY DEF ParseVarInt
  <2>3. k + ParsedSize(d, k) >= e
    <3>0. k + size > e
      BY <1>4
    <3> HIDE DEF e
    <3>1. \A i \in 1..4 : k + i < e => Flagged(d, k + i)
      <4> SUFFICES ASSUME NEW i \in 1..4, k + i < e PROVE Flagged(d, k + i)
        OBVIOUS
      <4>1. i \in 1..size
        BY <1>1, <2>0, <3>0
      <4> QED BY <2>1, <4>1
    <3>2. e \in Nat /\ e < k + 5
      BY <1>1, <3>0, <2>0
    <3>3. /\ k + 1 < e => Flagged(d, k + 1)
          /\ k + 2 < e => Flagged(d, k + 2)
          /\ k + 3 < e => Flagged(d, k + 3)
      BY <3>1
    <3> QED BY <3>2, <3>3 DEF ParsedSize
  <2> QED BY <1>4, <2>2, <2>3 DEF size
<1> QED BY <1>1, <1>3, <1>4

(* Induction up to a bound.                                                   *)
LEMMA UptoInduction ==
    ASSUME NEW N \in Nat, NEW A, 0 \in A, \A n \in 1..N : n - 1 \in A => n \in A
    PROVE  0..N \subseteq A
<1> DEFINE B == {n \in Nat : n <= N => n \in A}
<1>1. 0 \in B
  OBVIOUS
<1>2. ASSUME NEW n \in Nat, n \in B PROVE n + 1 \in B
  <2>1. n + 1 <= N => n + 1 \in 1..N /\ (n + 1) - 1 = n
    OBVIOUS
  <2> QED BY <1>2, <2>1
<1> HIDE DEF B
<1>3. Nat \subseteq B
  BY <1>1, <1>2, Induction
<1> QED BY <1>3 DEF B

(* A function on 1..n is a sequence.                                          *)
LEMMA FunctionIsSeq ==
    ASSUME NEW S, NEW n \in Nat, NEW s \in [1..n -> S]
    PROVE  s \in Seq(S) /\ Len(s) = n
OBVIOUS

(* Recursion up to a bound.                                                   *)
Recurs(f, N, T, e, step) ==
    f \in [0..N -> T] /\ f[0] = e /\ \A n \in 1..N : f[n] = step[<<n, f[n - 1]>>]

(* Such a function exists.                                                    *)
LEMMA UptoRecursion ==
    ASSUME NEW N \in Nat, NEW T, NEW e \in T, NEW step \in [(1..N) \X T -> T]
    PROVE  \E f : Recurs(f, N, T, e, step)
<1> DEFINE next == [p \in Nat \X T |-> IF p[1] + 1 \in 1..N THEN step[<<p[1] + 1, p[2]>>] ELSE p[2]]
<1>1. \A n \in Nat, s \in T : next[<<n, s>>] = IF n + 1 \in 1..N THEN step[<<n + 1, s>>] ELSE s
  OBVIOUS
<1>2. next \in [Nat \X T -> T]
  <2>1. ASSUME NEW n \in Nat, NEW s \in T PROVE (IF n + 1 \in 1..N THEN step[<<n + 1, s>>] ELSE s) \in T
    OBVIOUS
  <2> QED BY <2>1
<1> HIDE DEF next
<1>3. PICK f : Iterates(f, T, e, next)
  BY <1>2, Iteration
<1> DEFINE g == [n \in 0..N |-> f[n]]
<1>4. g \in [0..N -> T] /\ g[0] = e
  BY <1>3 DEF Iterates
<1>5. ASSUME NEW n \in 1..N PROVE g[n] = step[<<n, g[n - 1]>>]
  <2>1. n - 1 \in Nat /\ n - 1 \in 0..N /\ (n - 1) + 1 = n /\ n \in 0..N
    OBVIOUS
  <2>2. f[n] = next[<<n - 1, f[n - 1]>>] /\ f[n - 1] \in T
    BY <1>3, <2>1 DEF Iterates
  <2> QED BY <1>1, <2>1, <2>2
<1> HIDE DEF g
<1> QED BY <1>4, <1>5 DEF Recurs

-----------------------------------------------------------------------------
(* Strings.                                                                   *)

(* What Bytes takes are bytes, and those that stand there.                    *)
LEMMA BytesAre ==
    ASSUME NEW d \in Seq(Byte), NEW k \in Nat, NEW n \in Nat
    PROVE  Bytes(d, k, n) \in Seq(Byte)
<1>1. 0 \in Byte
  BY DEF Byte
<1>2. ASSUME NEW i \in 1..n PROVE (IF k + i <= Len(d) THEN d[k + i] ELSE 0) \in Byte
  <2>1. k + i <= Len(d) => k + i \in 1..Len(d)
    OBVIOUS
  <2> QED BY <1>1, <2>1
<1> QED BY <1>2 DEF Bytes

(* The bytes that stand there are those that are taken.                       *)
LEMMA BytesStand ==
    ASSUME NEW S, NEW s \in Seq(S), NEW d, Len(d) \in Nat, NEW k \in Nat, Stands(d, k, s), k + Len(s) <= Len(d)
    PROVE  Bytes(d, k, Len(s)) = s
<1> DEFINE n == Len(s)
           e == Len(d)
<1>1. n \in Nat /\ s = [i \in 1..n |-> s[i]]
  OBVIOUS
<1>2. \A i \in 1..n : k + i <= e /\ d[k + i] = s[i]
  BY <1>1 DEF Stands
<1>3. Bytes(d, k, n) = [i \in 1..n |-> IF k + i <= e THEN d[k + i] ELSE 0]
  BY DEF Bytes
<1> HIDE DEF n, e
<1>4. [i \in 1..n |-> IF k + i <= e THEN d[k + i] ELSE 0] = [i \in 1..n |-> s[i]]
  BY <1>2
<1> QED BY <1>1, <1>3, <1>4 DEF n

(* A string behind its length.                                                *)
LEMMA VarcharIs ==
    ASSUME NEW string \in Seq(Byte), Len(string) \in Lengths
    PROVE  /\ Varchar(string) \in Seq(Byte)
           /\ Len(Varchar(string)) = VarIntSize(Len(string)) + Len(string)
           /\ VarIntSize(Len(string)) \in 1..4
           /\ EncodeVarInt(Len(string)) \in Seq(Byte)
           /\ Len(EncodeVarInt(Len(string))) = VarIntSize(Len(string))
<1>1. /\ VarIntSize(Len(string)) \in 1..4
      /\ EncodeVarInt(Len(string)) \in Seq(Byte) /\ Len(EncodeVarInt(Len(string))) = VarIntSize(Len(string))
  BY CodeShape
<1> HIDE DEF Byte
<1>2. Varchar(string) = EncodeVarInt(Len(string)) \o string
  BY DEF Varchar
<1> QED BY <1>1, <1>2

(* A string is found behind its length, or the parser is at the end.          *)
StringFound(d, k) ==
    LET size == ParseVarInt(d, k)
    IN [next |-> k + size.len + size.value, string |-> Bytes(d, k + size.len, size.value)]

(* So it is, whole or cut.                                                    *)
LEMMA StringStands ==
    ASSUME NEW string \in Seq(Byte), Len(string) \in Lengths,
           NEW d \in Seq(Byte), NEW k \in Nat, Stands(d, k, Varchar(string))
    PROVE  \/ /\ k + Len(Varchar(string)) <= Len(d)
              /\ StringFound(d, k) = [next |-> k + Len(Varchar(string)), string |-> string]
           \/ /\ k + Len(Varchar(string)) > Len(d)
              /\ StringFound(d, k).next >= Len(d)
<1> DEFINE n == Len(string)
           size == VarIntSize(n)
           l == Len(Varchar(string))
           e == Len(d)
           p == ParseVarInt(d, k)
<1>1. n \in Nat /\ size \in 1..4 /\ l = size + n /\ e \in Nat
  BY VarcharIs
<1>2. Stands(d, k, EncodeVarInt(n)) /\ Stands(d, k + size, string)
  <2>1. /\ EncodeVarInt(n) \in Seq(Byte) /\ Len(EncodeVarInt(n)) = size
        /\ Varchar(string) = EncodeVarInt(n) \o string
    BY VarcharIs DEF Varchar
  <2> HIDE DEF size
  <2> QED BY <1>1, <2>1, StandsBehind
<1>3. /\ StringFound(d, k).next = k + p.len + p.value
      /\ StringFound(d, k) = [next |-> k + p.len + p.value, string |-> Bytes(d, k + p.len, p.value)]
  BY DEF StringFound
<1>4. p.value \in Nat /\ p.len \in 1..4
  BY NumberFound
<1>5. \/ k + size <= e /\ p = [value |-> n, len |-> size]
      \/ k + size > e /\ k + p.len >= e
  BY <1>2, NumberStands
<1>6. ASSUME k + l <= e PROVE Bytes(d, k + size, n) = string
  BY <1>1, <1>2, <1>6, BytesStand
<1> HIDE DEF size, l, e, p, n
<1>7. CASE k + size <= e /\ p = [value |-> n, len |-> size]
  <2>1. StringFound(d, k) = [next |-> k + size + n, string |-> Bytes(d, k + size, n)] /\ k + size + n = k + l
    BY <1>1, <1>3, <1>7
  <2>2. CASE k + l <= e
    BY <1>6, <2>1, <2>2 DEF l, e
  <2>3. CASE k + l > e
    <3>1. StringFound(d, k).next = k + l
      BY <2>1
    <3>2. k + l >= e
      BY <1>1, <2>3
    <3> QED BY <2>3, <3>1, <3>2 DEF l, e
  <2> QED BY <1>1, <2>2, <2>3
<1>8. CASE k + size > e /\ k + p.len >= e
  <2>1. k + l > e /\ k + p.len + p.value >= e
    BY <1>1, <1>4, <1>8
  <2> QED BY <1>3, <2>1 DEF l, e
<1> QED BY <1>5, <1>7, <1>8

(* Strings one behind the other.                                              *)
StringsRead == [next : Nat, strings : Seq(Seq(Byte))]
NextString(d, r) ==
    [next |-> StringFound(d, r.next).next, strings |-> Append(r.strings, StringFound(d, r.next).string)]

(* One string more.                                                           *)
LEMMA NextStringIs ==
    ASSUME NEW d \in Seq(Byte), NEW r \in StringsRead
    PROVE  NextString(d, r) \in StringsRead /\ NextString(d, r).next >= r.next
<1> DEFINE p == ParseVarInt(d, r.next)
<1>1. r.next \in Nat /\ r.strings \in Seq(Seq(Byte)) /\ p.value \in Nat /\ p.len \in 1..4
  BY NumberFound DEF StringsRead
<1>2. /\ StringFound(d, r.next).next = r.next + p.len + p.value
      /\ StringFound(d, r.next).string = Bytes(d, r.next + p.len, p.value)
  BY DEF StringFound
<1> HIDE DEF p
<1>3. /\ StringFound(d, r.next).next \in Nat /\ StringFound(d, r.next).next >= r.next
      /\ StringFound(d, r.next).string \in Seq(Byte)
  <2>0. r.next + p.len \in Nat
    BY <1>1
  <2>1. Bytes(d, r.next + p.len, p.value) \in Seq(Byte)
    BY <1>1, <2>0, BytesAre
  <2> DEFINE a == p.len
             b == p.value
             k == r.next
  <2>2. a \in Nat /\ b \in Nat /\ k \in Nat
    BY <1>1
  <2> HIDE DEF a, b, k
  <2>3. k + a + b \in Nat /\ k + a + b >= k
    BY <2>2
  <2> QED BY <1>2, <2>1, <2>3 DEF a, b, k
<1>4. Append(r.strings, StringFound(d, r.next).string) \in Seq(Seq(Byte))
  <2> HIDE DEF Byte
  <2> QED BY <1>1, <1>3
<1> QED BY <1>3, <1>4 DEF NextString, StringsRead

(* What VarcharsAt returns is the last value of a function that reads one     *)
(* string more each time.                                                     *)
LEMMA VarcharsRead ==
    ASSUME NEW d \in Seq(Byte), NEW k \in Nat, NEW n \in Nat
    PROVE  \E f \in [0..n -> StringsRead] :
              /\ f[0] = [next |-> k, strings |-> <<>>] /\ VarcharsAt(d, k, n) = f[n]
              /\ \A i \in 1..n : f[i] = NextString(d, f[i - 1])
<1> DEFINE T == StringsRead
           e == [next |-> k, strings |-> <<>>]
           More(r) == NextString(d, r)
           step == [p \in (1..n) \X T |-> More(p[2])]
           Good(g) == g = [i \in 0..n |-> IF i = 0 THEN e ELSE More(g[i - 1])]
           F == CHOOSE g : Good(g)
<1>1. e \in T
  BY DEF StringsRead
<1>2. VarcharsAt(d, k, n) = F[n]
  BY DEF VarcharsAt, NextString, StringFound
<1>3. \A r \in T : More(r) \in T
  BY NextStringIs
<1> HIDE DEF T, e, More
<1>4. step \in [(1..n) \X T -> T] /\ \A i \in 1..n, r \in T : step[<<i, r>>] = More(r)
  BY <1>3
<1> HIDE DEF step
<1>5. PICK f : Recurs(f, n, T, e, step)
  BY <1>1, <1>4, UptoRecursion
<1>6. \A i \in 1..n : i - 1 \in 0..n
  OBVIOUS
<1>7. \A i \in 1..n : f[i] = More(f[i - 1])
  BY <1>4, <1>5, <1>6 DEF Recurs
<1>8. Good(f)
  <2>1. \A i \in 0..n : i # 0 => i \in 1..n
    OBVIOUS
  <2>2. \A i \in 0..n : f[i] = IF i = 0 THEN e ELSE More(f[i - 1])
    BY <1>5, <1>7, <2>1 DEF Recurs
  <2> QED BY <1>5, <2>2 DEF Recurs
<1>9. Good(F)
  <2> HIDE DEF Good
  <2> QED BY <1>8
<1> HIDE DEF F
<1>10. F[0] = e /\ (\A i \in 1..n : F[i] = More(F[i - 1])) /\ F = [i \in 0..n |-> F[i]]
  <2>1. 0 \in 0..n /\ \A i \in 1..n : i \in 0..n /\ i # 0
    OBVIOUS
  <2>2. F[0] = e
    BY <1>9, <2>1
  <2>3. \A i \in 1..n : F[i] = More(F[i - 1])
    BY <1>9, <2>1
  <2>4. F = [i \in 0..n |-> F[i]]
    BY <1>9
  <2> QED BY <2>2, <2>3, <2>4
<1>11. 0..n \subseteq {i \in 0..n : F[i] \in T}
  <2> DEFINE A == {i \in 0..n : F[i] \in T}
  <2>1. 0 \in A
    BY <1>1, <1>10
  <2>2. ASSUME NEW i \in 1..n, i - 1 \in A PROVE i \in A
    <3>0. i \in 0..n
      OBVIOUS
    <3>1. F[i - 1] \in T /\ F[i] = More(F[i - 1])
      BY <1>10, <2>2
    <3> QED BY <1>3, <3>0, <3>1
  <2> HIDE DEF A
  <2>3. 0..n \subseteq A
    BY <2>1, <2>2, UptoInduction
  <2> QED BY <2>3 DEF A
<1>12. F \in [0..n -> T]
  BY <1>10, <1>11
<1> QED BY <1>2, <1>10, <1>12 DEF T, e, More

(* Whatever the data, the parser does not go back.                            *)
LEMMA VarcharsGoOn ==
    ASSUME NEW d \in Seq(Byte), NEW k \in Nat, NEW n \in Nat
    PROVE  VarcharsAt(d, k, n) \in StringsRead /\ VarcharsAt(d, k, n).next >= k
<1>1. PICK f \in [0..n -> StringsRead] :
         /\ f[0] = [next |-> k, strings |-> <<>>] /\ VarcharsAt(d, k, n) = f[n]
         /\ \A i \in 1..n : f[i] = NextString(d, f[i - 1])
  BY VarcharsRead
<1> DEFINE A == {i \in 0..n : f[i].next >= k}
<1>2. 0 \in A
  BY <1>1
<1>3. ASSUME NEW i \in 1..n, i - 1 \in A PROVE i \in A
  <2>1. i - 1 \in 0..n /\ i \in 0..n
    OBVIOUS
  <2>2. f[i - 1] \in StringsRead /\ f[i] \in StringsRead /\ f[i].next >= f[i - 1].next
    BY <1>1, <2>1, NextStringIs
  <2>3. f[i - 1].next \in Nat /\ f[i].next \in Nat
    BY <2>2 DEF StringsRead
  <2> QED BY <1>3, <2>1, <2>2, <2>3
<1> HIDE DEF A
<1>4. 0..n \subseteq A
  BY <1>2, <1>3, UptoInduction
<1>5. n \in 0..n
  OBVIOUS
<1> QED BY <1>1, <1>4, <1>5 DEF A

(* Strings are found one behind the other, or the parser is at the end.       *)
LEMMA StringsStand ==
    ASSUME NEW strings \in Seq(Seq(Byte)), \A i \in 1..Len(strings) : Len(strings[i]) \in Lengths,
           NEW d \in Seq(Byte), NEW k \in Nat, Stands(d, k, Varchars(strings))
    PROVE  /\ Varchars(strings) \in Seq(Byte)
           /\ \/ /\ k + Len(Varchars(strings)) <= Len(d)
                 /\ VarcharsAt(d, k, Len(strings)) = [next |-> k + Len(Varchars(strings)), strings |-> strings]
              \/ /\ k + Len(Varchars(strings)) > Len(d)
                 /\ VarcharsAt(d, k, Len(strings)).next >= Len(d)
<1> DEFINE n == Len(strings)
           parts == [i \in 1..n |-> Varchar(strings[i])]
           flat == Varchars(strings)
           e == Len(d)
<1>1. n \in Nat /\ e \in Nat /\ strings = [i \in 1..n |-> strings[i]] /\ \A i \in 1..n : strings[i] \in Seq(Byte)
  OBVIOUS
<1>2. \A i \in 1..n : Varchar(strings[i]) \in Seq(Byte)
  BY <1>1, VarcharIs
<1>3. parts \in Seq(Seq(Byte)) /\ Len(parts) = n /\ flat = FlattenSeq(parts)
  <2>1. parts \in Seq(Seq(Byte))
    <3> HIDE DEF n
    <3>1. parts \in [1..n -> Seq(Byte)]
      BY <1>2
    <3> HIDE DEF parts
    <3> QED BY <1>1, <3>1, FunctionIsSeq
  <2>2. flat = FlattenSeq(parts)
    BY <1>1 DEF Varchars
  <2> QED BY <1>1, <2>1, <2>2
<1>4. \A i \in 1..n : parts[i] = Varchar(strings[i])
  OBVIOUS
<1> HIDE DEF parts
<1>5. PICK off : flat \in Seq(Byte) /\ PartsOf(flat, parts, off)
  BY <1>3, Flattened
<1>6. PICK f \in [0..n -> StringsRead] :
         /\ f[0] = [next |-> k, strings |-> <<>>] /\ VarcharsAt(d, k, n) = f[n]
         /\ \A i \in 1..n : f[i] = NextString(d, f[i - 1])
  BY <1>1, VarcharsRead
<1> DEFINE Upto(i) == [j \in 1..i |-> strings[j]]
           P(i) == \/ k + off[i] <= e /\ f[i] = [next |-> k + off[i], strings |-> Upto(i)]
                   \/ k + off[i] > e /\ f[i].next >= e
           A == {i \in 0..n : P(i)}
<1>7. off[0] = 0 /\ off[n] = Len(flat) /\ off \in [0..n -> Nat]
  BY <1>3, <1>5 DEF PartsOf
<1>8. ASSUME NEW i \in 1..n PROVE /\ off[i] = off[i - 1] + Len(Varchar(strings[i])) /\ off[i] \in Nat
             /\ off[i - 1] \in Nat
                                  /\ Stands(d, k + off[i - 1], Varchar(strings[i]))
  <2>0. i \in 0..n /\ i - 1 \in 0..n /\ i \in 1..Len(parts)
    BY <1>1, <1>3
  <2>1. off[i] = off[i - 1] + Len(Varchar(strings[i])) /\ off[i] \in Nat /\ off[i - 1] \in Nat
    <3>1. off[i] = off[i - 1] + Len(parts[i])
      BY <1>5, <2>0 DEF PartsOf
    <3> QED BY <1>4, <1>7, <2>0, <3>1
  <2>2. \A j \in 1..Len(parts) : Len(parts[j]) \in Nat
    <3> HIDE DEF n
    <3> QED BY <1>3
  <2>3. Stands(d, k + off[i - 1], parts[i])
    BY <1>1, <1>3, <1>5, <2>2, StandsInParts
  <2> QED BY <1>4, <2>1, <2>3
<1>9. 0 \in A
  <2>1. Upto(0) = <<>>
    OBVIOUS
  <2>2. f[0] = [next |-> k, strings |-> <<>>] /\ k + 0 = k
    BY <1>6
  <2>3. 0 \in 0..n
    BY <1>1
  <2> HIDE DEF Upto, e
  <2>4. P(0)
    <3>1. CASE k <= e
      BY <1>7, <2>1, <2>2, <3>1
    <3>2. CASE k > e
      <4>1. f[0].next = k
        BY <2>2
      <4>2. k >= e
        BY <3>2, <1>1
      <4> QED BY <1>7, <2>2, <3>2, <4>1, <4>2
    <3> QED BY <1>1, <3>1, <3>2
  <2> QED BY <2>3, <2>4
<1>10. ASSUME NEW i \in 1..n, i - 1 \in A PROVE i \in A
  <2>0. i - 1 \in 0..n /\ i \in 0..n
    BY <1>1
  <2>1. f[i] = NextString(d, f[i - 1]) /\ f[i - 1] \in StringsRead /\ f[i] \in StringsRead
    BY <1>6, <2>0
  <2>2. f[i - 1].next \in Nat /\ f[i].next \in Nat /\ f[i].next >= f[i - 1].next
    BY <2>1, NextStringIs DEF StringsRead
  <2> DEFINE s == strings[i]
             l == Len(Varchar(s))
             a == off[i - 1]
             b == off[i]
             kk == k + a
  <2>3. a \in Nat /\ b \in Nat /\ b = a + l /\ Stands(d, kk, Varchar(s)) /\ l \in Nat
    <3>1. l \in Nat
      BY <1>2
    <3> QED BY <1>8, <3>1
  <2>4. \/ kk + l <= e /\ StringFound(d, kk) = [next |-> kk + l, string |-> s]
        \/ kk + l > e /\ StringFound(d, kk).next >= e
    <3>1. kk \in Nat /\ s \in Seq(Byte) /\ Len(s) \in Lengths
      BY <1>1, <2>3
    <3> HIDE DEF kk, s
    <3> QED BY <2>3, <3>1, StringStands DEF l
  <2>5. Append(Upto(i - 1), s) = Upto(i)
    <3>0. i - 1 \in Nat /\ \A j \in 1..(i - 1) : strings[j] \in Seq(Byte)
      BY <1>1
    <3>1. Upto(i - 1) \in [1..(i - 1) -> Seq(Byte)]
      BY <3>0
    <3>2. Upto(i - 1) \in Seq(Seq(Byte)) /\ Len(Upto(i - 1)) = i - 1
      BY <3>0, <3>1, FunctionIsSeq
    <3> QED BY <1>1, <3>0, <3>2
  <2> HIDE DEF Upto, e, l, a, b, s
  <2>6. P(i - 1)
    BY <1>10
  <2>7. CASE k + a <= e /\ f[i - 1] = [next |-> k + a, strings |-> Upto(i - 1)]
    <3>1. f[i] = [next |-> StringFound(d, kk).next, strings |-> Append(Upto(i - 1), StringFound(d, kk).string)]
      BY <2>1, <2>7 DEF NextString
    <3>2. CASE kk + l <= e /\ StringFound(d, kk) = [next |-> kk + l, string |-> s]
      <4>0. StringFound(d, kk).next = kk + l /\ StringFound(d, kk).string = s
        BY <3>2
      <4>1. f[i] = [next |-> kk + l, strings |-> Upto(i)]
        BY <2>5, <3>1, <4>0
      <4>2. kk + l = k + b
        BY <2>3
      <4> QED BY <2>0, <3>2, <4>1, <4>2 DEF b
    <3>3. CASE kk + l > e /\ StringFound(d, kk).next >= e
      <4>1. f[i].next >= e /\ kk + l = k + b
        BY <2>3, <3>1, <3>3
      <4> QED BY <2>0, <3>3, <4>1 DEF b
    <3> QED BY <2>4, <3>2, <3>3
  <2>8. CASE k + a > e /\ f[i - 1].next >= e
    <3>1. k + b > e
      BY <1>1, <2>3, <2>8
    <3>2. f[i].next >= e
      BY <1>1, <2>2, <2>8
    <3> QED BY <2>0, <3>1, <3>2 DEF b
  <2> QED BY <2>6, <2>7, <2>8 DEF a
<1> HIDE DEF A
<1>11. 0..n \subseteq A
  BY <1>1, <1>9, <1>10, UptoInduction
<1>12. P(n)
  BY <1>1, <1>11 DEF A
<1>13. Upto(n) = strings
  BY <1>1
<1> HIDE DEF Upto
<1> QED BY <1>5, <1>6, <1>7, <1>12, <1>13

-----------------------------------------------------------------------------
(* What stands at the front.                                                  *)
LEMMA StandsAtFront ==
    ASSUME NEW S, NEW x \in S, NEW t \in Seq(S), NEW d, Len(d) \in Nat, NEW k \in Nat,
           Stands(d, k, <<x>> \o t), k < Len(d)
    PROVE  d[k + 1] = x /\ Stands(d, k + 1, t) /\ Len(<<x>> \o t) = 1 + Len(t)
<1>1. <<x>> \in Seq(S) /\ Len(<<x>>) = 1 /\ Len(<<x>> \o t) = 1 + Len(t)
  OBVIOUS
<1>2. Stands(d, k, <<x>>) /\ Stands(d, k + 1, t)
  BY <1>1, StandsBehind
<1>3. k + 1 <= Len(d) /\ 1 \in 1..Len(<<x>>) /\ <<x>>[1] = x
  OBVIOUS
<1>4. d[k + 1] = x
  BY <1>2, <1>3 DEF Stands
<1> QED BY <1>1, <1>2, <1>4

(* The magic bytes are different.                                             *)
Kinds == Words \cup {VARCHAR, FD}
(* END and ARRAY are the magic of no value, and all are bytes.                *)
LEMMA Magics ==
    /\ Kinds \subseteq Byte /\ END \in Byte /\ ARRAY \in Byte /\ UINT \in Byte /\ Types \subseteq Kinds
    /\ VARCHAR \notin Words /\ FD \notin Words /\ ARRAY \notin Kinds /\ END \notin Kinds /\ END # ARRAY
    /\ VARCHAR # FD /\ SEQ \in Words /\ UINT \in Words
BY DEF Kinds, Words, Types, Byte, END, ARRAY, VARCHAR, FD, UINT, INT, F32, SEQ, OBJECT

(* What the definitions of an argument say of each kind.                      *)
LEMMA ElementIs ==
    ASSUME NEW v
    PROVE  /\ \A type \in Words : Element(type, v) = v
           /\ Element(VARCHAR, v) = Varchar(v) /\ Element(FD, v) = <<>>
BY Magics DEF Element

(* How many bytes a value takes.                                              *)
LEMMA SizeIs ==
    ASSUME NEW d, NEW k
    PROVE  /\ d[k + 1] \in Words => ArgumentSize(d, k) = 5
           /\ d[k + 1] = VARCHAR => ArgumentSize(d, k) = 1 + ParseVarInt(d, k + 1).len + ParseVarInt(d, k + 1).value
           /\ d[k + 1] = FD => ArgumentSize(d, k) = 1
<1> DEFINE a == d[k + 1]
<1>1. a \in Words => a # VARCHAR /\ a # FD /\ a # ARRAY
  BY Magics DEF Kinds
<1>2. VARCHAR \notin Words /\ FD \notin Words /\ VARCHAR # FD /\ VARCHAR # ARRAY /\ FD # ARRAY
  BY Magics DEF Kinds
<1> QED BY <1>1, <1>2 DEF ArgumentSize

(* How many an array takes.                                                   *)
LEMMA ArraySizeIs ==
    ASSUME NEW d, NEW k, d[k + 1] = ARRAY, k + 1 < Len(d)
    PROVE  /\ d[k + 2] \in Words =>
                  ArgumentSize(d, k) = 2 + ParseVarInt(d, k + 2).len + 4 * ParseVarInt(d, k + 2).value
           /\ d[k + 2] = VARCHAR =>
                ArgumentSize(d, k) =
                    VarcharsAt(d, k + 2 + ParseVarInt(d, k + 2).len, ParseVarInt(d, k + 2).value).next - k
           /\ d[k + 2] = FD => ArgumentSize(d, k) = 2 + ParseVarInt(d, k + 2).len
<1> DEFINE a == d[k + 2]
<1>1. a \in Words => a # VARCHAR /\ a # FD /\ a # ARRAY
  BY Magics DEF Kinds
<1>2. VARCHAR \notin Words /\ FD \notin Words /\ VARCHAR # FD /\ VARCHAR # ARRAY /\ FD # ARRAY /\ ARRAY \notin Words
  BY Magics DEF Kinds
<1> QED BY <1>1, <1>2 DEF ArgumentSize

(* How many descriptors.                                                      *)
LEMMA FdsAre ==
    ASSUME NEW d, NEW k
    PROVE  /\ d[k + 1] \in Kinds \ {FD} => ArgumentFds(d, k) = 0
           /\ d[k + 1] = FD => ArgumentFds(d, k) = 1
           /\ d[k + 1] = ARRAY =>
                ArgumentFds(d, k) = IF d[k + 2] = FD THEN ParseVarInt(d, k + 2).value ELSE 0
BY Magics DEF ArgumentFds, Kinds

(* Which parameter it could be for.                                           *)
LEMMA ParamIs ==
    ASSUME NEW d, NEW k
    PROVE  /\ d[k + 1] \in Kinds => ParamAt(d, k) = [array |-> FALSE, type |-> d[k + 1]]
           /\ d[k + 1] = ARRAY => ParamAt(d, k) = [array |-> TRUE, type |-> d[k + 2]]
BY Magics DEF ParamAt

(* What is handed over.                                                       *)
LEMMA ValueIs ==
    ASSUME NEW d, NEW k, NEW fds1, NEW fdNo, d[k + 1] \in Kinds
    PROVE  /\ d[k + 1] \in Words => ValueAt(d, k, fds1, fdNo) = U32At(d, k + 1)
           /\ d[k + 1] = VARCHAR => ValueAt(d, k, fds1, fdNo) = StringFound(d, k + 1).string
           /\ d[k + 1] = FD => ValueAt(d, k, fds1, fdNo) = fds1[fdNo + 1]
<1> DEFINE a == d[k + 1]
<1>1. ParamAt(d, k).array = FALSE /\ ParamAt(d, k).type = a
  BY ParamIs
<1>2. a \in Words => a # VARCHAR /\ a # FD
  BY Magics
<1>3. VARCHAR \notin Words /\ FD \notin Words /\ VARCHAR # FD
  BY Magics
<1>4. StringFound(d, k + 1).string = Bytes(d, k + 1 + ParseVarInt(d, k + 1).len, ParseVarInt(d, k + 1).value)
  BY DEF StringFound
<1> QED BY <1>1, <1>2, <1>3, <1>4 DEF ValueAt

(* What is handed over for an array.                                          *)
LEMMA ArrayIs ==
    ASSUME NEW d, NEW k, NEW fds1, NEW fdNo, d[k + 1] = ARRAY, d[k + 2] \in Kinds
    PROVE  LET count == ParseVarInt(d, k + 2)
               start == k + 2 + count.len
           IN /\ d[k + 2] \in Words =>
                    ValueAt(d, k, fds1, fdNo) = [i \in 1..count.value |-> U32At(d, start + 4 * (i - 1))]
              /\ d[k + 2] = VARCHAR => ValueAt(d, k, fds1, fdNo) = VarcharsAt(d, start, count.value).strings
              /\ d[k + 2] = FD => ValueAt(d, k, fds1, fdNo) = SubSeq(fds1, fdNo + 1, fdNo + count.value)
<1> DEFINE a == d[k + 2]
<1>1. ParamAt(d, k).array = TRUE /\ ParamAt(d, k).type = a
  BY ParamIs
<1>2. a \in Words => a # VARCHAR /\ a # FD
  BY Magics
<1>3. VARCHAR \notin Words /\ FD \notin Words /\ VARCHAR # FD
  BY Magics
<1>4. a \in Words => ValueAt(d, k, fds1, fdNo) =
                         [i \in 1..ParseVarInt(d, k + 2).value |->
                            U32At(d, k + 2 + ParseVarInt(d, k + 2).len + 4 * (i - 1))]
  BY <1>1, <1>2, <1>3 DEF ValueAt
<1>5. a = VARCHAR => ValueAt(d, k, fds1, fdNo) =
         VarcharsAt(d, k + 2 + ParseVarInt(d, k + 2).len, ParseVarInt(d, k + 2).value).strings
  BY <1>1, <1>2, <1>3 DEF ValueAt
<1>6. a = FD => ValueAt(d, k, fds1, fdNo) = SubSeq(fds1, fdNo + 1, fdNo + ParseVarInt(d, k + 2).value)
  BY <1>1, <1>2, <1>3 DEF ValueAt
<1> QED BY <1>4, <1>5, <1>6

(* A word is four bytes.                                                      *)
LEMMA WordIs ==
    ASSUME NEW word \in U32
    PROVE  word \in Seq(Byte) /\ Len(word) = 4
<1> HIDE DEF Byte
<1> QED BY FunctionIsSeq DEF U32

(* It is read where it stands.                                                *)
LEMMA WordStands ==
    ASSUME NEW word \in U32, NEW d, Len(d) \in Nat, NEW k \in Nat, Stands(d, k, word), k + 4 <= Len(d)
    PROVE  U32At(d, k) = word
<1>1. word \in Seq(Byte) /\ Len(word) = 4
  BY WordIs
<1> HIDE DEF Byte
<1>2. Bytes(d, k, Len(word)) = word
  BY <1>1, BytesStand
<1> QED BY <1>1, <1>2 DEF U32At

(* Words one behind the other.                                                *)
LEMMA WordsStand ==
    ASSUME NEW words \in Seq(U32), NEW d, Len(d) \in Nat, NEW k \in Nat, Stands(d, k, FlattenSeq(words))
    PROVE  /\ FlattenSeq(words) \in Seq(Byte) /\ Len(FlattenSeq(words)) = 4 * Len(words)
           /\ k + 4 * Len(words) <= Len(d) =>
                words = [i \in 1..Len(words) |-> U32At(d, k + 4 * (i - 1))]
<1> DEFINE n == Len(words)
           flat == FlattenSeq(words)
           e == Len(d)
<1>1. n \in Nat /\ words = [i \in 1..n |-> words[i]] /\ \A i \in 1..n : words[i] \in U32
  OBVIOUS
<1>2. \A i \in 1..n : words[i] \in Seq(Byte) /\ Len(words[i]) = 4
  BY <1>1, WordIs
<1>3. words \in Seq(Seq(Byte))
  <2>1. words \in [1..n -> Seq(Byte)]
    BY <1>1, <1>2
  <2> HIDE DEF n, Byte
  <2> QED BY <1>1, <2>1, FunctionIsSeq
<1>4. PICK off : flat \in Seq(Byte) /\ PartsOf(flat, words, off)
  BY <1>3, Flattened
<1>5. off[0] = 0 /\ off[n] = Len(flat) /\ off \in [0..n -> Nat]
  BY <1>4 DEF PartsOf
<1> DEFINE A == {i \in 0..n : off[i] = 4 * i}
<1>6. 0 \in A
  BY <1>1, <1>5
<1>7. ASSUME NEW i \in 1..n, i - 1 \in A PROVE i \in A
  <2>0. i \in 0..n
    BY <1>1
  <2>1. off[i] = off[i - 1] + Len(words[i]) /\ Len(words[i]) = 4 /\ off[i - 1] = 4 * (i - 1)
    BY <1>2, <1>4, <1>7 DEF PartsOf
  <2>2. off[i] = 4 * i
    BY <2>1
  <2> QED BY <2>0, <2>2
<1> HIDE DEF A
<1>8. 0..n \subseteq A
  BY <1>1, <1>6, <1>7, UptoInduction
<1>9. \A i \in 0..n : off[i] = 4 * i
  BY <1>8 DEF A
<1>10. Len(flat) = 4 * n
  BY <1>1, <1>5, <1>9
<1>11. ASSUME k + 4 * n <= e, NEW i \in 1..n PROVE U32At(d, k + 4 * (i - 1)) = words[i]
  <2>1. off[i - 1] = 4 * (i - 1) /\ 4 * (i - 1) \in Nat
    BY <1>1, <1>9
  <2>2. \A j \in 1..Len(words) : Len(words[j]) \in Nat
    BY <1>2
  <2>3. Stands(d, k + off[i - 1], words[i])
    BY <1>1, <1>4, <2>2, StandsInParts
  <2>4. k + off[i - 1] \in Nat /\ (k + off[i - 1]) + 4 <= e
    BY <1>1, <1>11, <2>1
  <2>5. words[i] \in U32
    BY <1>1
  <2> HIDE DEF e
  <2>6. U32At(d, k + off[i - 1]) = words[i]
    BY <2>3, <2>4, <2>5, WordStands DEF e
  <2> QED BY <2>1, <2>6
<1> QED BY <1>1, <1>4, <1>10, <1>11

-----------------------------------------------------------------------------
(* One argument.                                                              *)
Listed(v) == v = [j \in 1..Len(v) |-> v[j]]
FitsKind(type, v) ==
    /\ type \in Words => v \in U32
    /\ type = VARCHAR => v \in Seq(Byte) /\ Len(v) \in Lengths
FitsParam(p, v) ==
    /\ p \in [array : BOOLEAN, type : Kinds]
    /\ IF p.array THEN /\ Len(v) \in Lengths /\ Listed(v)
                       /\ \A j \in 1..Len(v) : FitsKind(p.type, v[j])
       ELSE FitsKind(p.type, v)

(* fds have the descriptors of an argument behind the first fdNo.             *)
FdsStand(fds1, fdNo, ds) ==
    /\ (\E S : fds1 \in Seq(S)) /\ fdNo \in Nat /\ fdNo + Len(ds) <= Len(fds1)
    /\ \A i \in 1..Len(ds) : fds1[fdNo + i] = ds[i]

(* The argument is found, or the parser is at the end, or the data end in an  *)
(* argument whose size it cannot tell.                                        *)
FoundArgument(d, k, p, v) ==
    /\ Argument(p, v) \in Seq(Byte) /\ Len(Argument(p, v)) > 0 /\ d[k + 1] # END
    /\ \/ /\ k + Len(Argument(p, v)) <= Len(d)
          /\ ArgumentSize(d, k) = Len(Argument(p, v)) /\ ArgumentFds(d, k) = Len(Descriptors(p, v))
          /\ ParamAt(d, k) = p
          /\ \A fds1, fdNo : FdsStand(fds1, fdNo, Descriptors(p, v)) => ValueAt(d, k, fds1, fdNo) = v
       \/ /\ k + Len(Argument(p, v)) > Len(d)
          /\ ArgumentSize(d, k) = 0 \/ k + ArgumentSize(d, k) >= Len(d)

(* An argument that is whole is found.                                        *)
LEMMA FoundWhole ==
    ASSUME NEW d, NEW k, NEW p, NEW v, NEW l, Len(Argument(p, v)) = l, Argument(p, v) \in Seq(Byte), l > 0,
           d[k + 1] # END, k + l <= Len(d), ArgumentSize(d, k) = l,
           ArgumentFds(d, k) = Len(Descriptors(p, v)), ParamAt(d, k) = p,
           \A fds1, fdNo : FdsStand(fds1, fdNo, Descriptors(p, v)) => ValueAt(d, k, fds1, fdNo) = v
    PROVE  FoundArgument(d, k, p, v)
BY Zenon DEF FoundArgument

(* One that is cut is not.                                                    *)
LEMMA FoundCut ==
    ASSUME NEW d, NEW k, NEW p, NEW v, NEW l, Len(Argument(p, v)) = l, Argument(p, v) \in Seq(Byte), l > 0,
           d[k + 1] # END, k + l > Len(d), ArgumentSize(d, k) = 0 \/ k + ArgumentSize(d, k) >= Len(d)
    PROVE  FoundArgument(d, k, p, v)
BY Zenon DEF FoundArgument

(* Of an argument that is not an array.                                       *)
LEMMA OneArgument ==
    ASSUME NEW type \in Kinds, NEW p, p = [array |-> FALSE, type |-> type], NEW v,
           NEW d \in Seq(Byte), NEW k \in Nat, k < Len(d), Element(type, v) \in Seq(Byte),
           Stands(d, k, Argument(p, v))
    PROVE  /\ d[k + 1] = type /\ Stands(d, k + 1, Element(type, v))
           /\ Len(Argument(p, v)) = 1 + Len(Element(type, v)) /\ Argument(p, v) \in Seq(Byte) /\ d[k + 1] # END
           /\ ParamAt(d, k) = p /\ Descriptors(p, v) = IF type = FD THEN <<v>> ELSE <<>>
<1> DEFINE t == Element(type, v)
<1>1. type \in Byte /\ type # END
  BY Magics
<1>2. Argument(p, v) = <<type>> \o t /\ Descriptors(p, v) = IF type = FD THEN <<v>> ELSE <<>>
  BY DEF Argument, Descriptors
<1> HIDE DEF t
<1>0. t \in Seq(Byte)
  BY DEF t
<1>3. Argument(p, v) \in Seq(Byte) /\ Len(d) \in Nat
  <2>1. <<type>> \o t \in Seq(Byte)
    BY <1>0, <1>1
  <2>2. Len(d) \in Nat
    OBVIOUS
  <2> QED BY <1>2, <2>1, <2>2
<1>4. d[k + 1] = type /\ Stands(d, k + 1, t) /\ Len(<<type>> \o t) = 1 + Len(t)
  <2>1. Stands(d, k, <<type>> \o t)
    BY <1>2
  <2> QED BY <1>0, <1>1, <1>3, <2>1, StandsAtFront
<1>5. ParamAt(d, k) = p
  BY <1>4, ParamIs
<1> QED BY <1>1, <1>2, <1>3, <1>4, <1>5 DEF t

(* A word,                                                                    *)
LEMMA WordArgument ==
    ASSUME NEW type \in Words, NEW p, p = [array |-> FALSE, type |-> type], NEW v \in U32, NEW d \in Seq(Byte),
           NEW k \in Nat, k < Len(d),
           Stands(d, k, Argument(p, v))
    PROVE  FoundArgument(d, k, p, v)
<1> DEFINE e == Len(d)
<1>1. v \in Seq(Byte) /\ Len(v) = 4 /\ type \in Kinds /\ type # FD
  BY WordIs, Magics DEF Kinds
<1>2. Element(type, v) = v
  BY ElementIs
<1>3. /\ d[k + 1] = type /\ Stands(d, k + 1, v) /\ Len(Argument(p, v)) = 5 /\ Argument(p, v) \in Seq(Byte)
      /\ d[k + 1] # END /\ ParamAt(d, k) = p /\ Descriptors(p, v) = <<>>
  <2>1. 1 + Len(v) = 5
    BY <1>1
  <2>2. Element(type, v) \in Seq(Byte)
    BY <1>1, <1>2
  <2>3. /\ d[k + 1] = type /\ Stands(d, k + 1, Element(type, v)) /\ Len(Argument(p, v)) = 1 + Len(Element(type, v))
        /\ Argument(p, v) \in Seq(Byte)
        /\ d[k + 1] # END /\ ParamAt(d, k) = p /\ Descriptors(p, v) = IF type = FD THEN <<v>> ELSE <<>>
    BY <1>1, <2>2, OneArgument
  <2> QED BY <1>1, <1>2, <2>1, <2>3
<1>4. ArgumentSize(d, k) = 5 /\ ArgumentFds(d, k) = 0
  BY <1>1, <1>3, SizeIs, FdsAre
<1>5. ASSUME k + 5 <= e, NEW fds1, NEW fdNo PROVE ValueAt(d, k, fds1, fdNo) = v
  <2>0. Len(d) \in Nat /\ k + 1 \in Nat /\ (k + 1) + 4 <= Len(d)
    BY <1>5
  <2>1. U32At(d, k + 1) = v
    BY <1>3, <2>0, WordStands
  <2> QED BY <1>1, <1>3, <2>1, ValueIs
<1>6. e \in Nat
  OBVIOUS
<1>7. CASE k + 5 <= e
  <2>1. Len(Descriptors(p, v)) = 0
    BY <1>3
  <2>2. \A fds1, fdNo : ValueAt(d, k, fds1, fdNo) = v
    BY <1>5, <1>7
  <2>3. k + 5 <= Len(d) /\ 5 > 0
    BY <1>7
  <2> QED BY <1>3, <1>4, <2>1, <2>2, <2>3, FoundWhole
<1>8. CASE k + 5 > e
  <2>1. k + 5 >= Len(d) /\ k + 5 > Len(d) /\ 5 > 0
    BY <1>8, <1>6
  <2> QED BY <1>3, <1>4, <2>1, FoundCut
<1> QED BY <1>6, <1>7, <1>8

(* a string,                                                                  *)
LEMMA StringArgument ==
    ASSUME NEW p, p = [array |-> FALSE, type |-> VARCHAR], NEW v \in Seq(Byte), Len(v) \in Lengths,
           NEW d \in Seq(Byte), NEW k \in Nat, k < Len(d),
           Stands(d, k, Argument(p, v))
    PROVE  FoundArgument(d, k, p, v)
<1> DEFINE e == Len(d)
           l == Len(Varchar(v))
           size == ParseVarInt(d, k + 1)
<1>1. VARCHAR \in Kinds /\ VARCHAR # FD /\ Varchar(v) \in Seq(Byte) /\ l \in Nat /\ e \in Nat /\ k + 1 \in Nat
  <2>1. Varchar(v) \in Seq(Byte)
    BY VarcharIs
  <2> HIDE DEF Byte
  <2> QED BY <2>1, Magics DEF Kinds
<1>2. Element(VARCHAR, v) = Varchar(v)
  BY ElementIs
<1>3. /\ d[k + 1] = VARCHAR /\ Stands(d, k + 1, Varchar(v)) /\ Len(Argument(p, v)) = 1 + l
      /\ Argument(p, v) \in Seq(Byte)
      /\ d[k + 1] # END /\ ParamAt(d, k) = p /\ Descriptors(p, v) = <<>>
  <2>2. Element(VARCHAR, v) \in Seq(Byte)
    BY <1>1, <1>2
  <2>3. /\ d[k + 1] = VARCHAR /\ Stands(d, k + 1, Element(VARCHAR, v))
        /\ Len(Argument(p, v)) = 1 + Len(Element(VARCHAR, v)) /\ Argument(p, v) \in Seq(Byte)
        /\ d[k + 1] # END /\ ParamAt(d, k) = p /\ Descriptors(p, v) = IF VARCHAR = FD THEN <<v>> ELSE <<>>
    BY <1>1, <2>2, OneArgument
  <2> QED BY <1>1, <1>2, <2>3
<1>4. ArgumentSize(d, k) = 1 + size.len + size.value /\ ArgumentFds(d, k) = 0
  BY <1>1, <1>3, SizeIs, FdsAre
<1>5. ASSUME NEW fds1, NEW fdNo PROVE ValueAt(d, k, fds1, fdNo) = StringFound(d, k + 1).string
  BY <1>1, <1>3, ValueIs
<1>6. StringFound(d, k + 1).next = (k + 1) + size.len + size.value
  BY DEF StringFound
<1>7. size.len \in Nat /\ size.value \in Nat
  <2>1. size.len \in 1..4 /\ size.value \in Nat
    BY <1>1, NumberFound
  <2> HIDE DEF size
  <2> QED BY <2>1
<1>8. \/ (k + 1) + l <= e /\ StringFound(d, k + 1) = [next |-> (k + 1) + l, string |-> v]
      \/ (k + 1) + l > e /\ StringFound(d, k + 1).next >= e
  BY <1>1, <1>3, StringStands
<1> HIDE DEF size, l, e
<1>9. CASE (k + 1) + l <= e /\ StringFound(d, k + 1) = [next |-> (k + 1) + l, string |-> v]
  <2>0. StringFound(d, k + 1).next = (k + 1) + l
    BY <1>9
  <2>1. 1 + size.len + size.value = 1 + l
    <3>1. (k + 1) + size.len + size.value = (k + 1) + l
      BY <1>6, <2>0
    <3> QED BY <1>1, <1>7, <3>1
  <2>2. StringFound(d, k + 1).string = v
    BY <1>9
  <2>3. k + (1 + l) <= e
    BY <1>1, <1>9
  <2> QED BY <1>1, <1>3, <1>4, <1>5, <2>1, <2>2, <2>3 DEF FoundArgument, e
<1>10. CASE (k + 1) + l > e /\ StringFound(d, k + 1).next >= e
  <2>1. k + (1 + l) > e /\ k + (1 + size.len + size.value) >= e
    <3> DEFINE a == size.len
               b == size.value
    <3>1. (k + 1) + l > e /\ (k + 1) + a + b >= e
      BY <1>6, <1>10
    <3>2. a \in Nat /\ b \in Nat /\ k \in Nat /\ l \in Nat /\ e \in Nat
      BY <1>1, <1>7
    <3> HIDE DEF a, b
    <3>3. k + (1 + l) > e /\ k + (1 + a + b) >= e
      BY <3>1, <3>2
    <3> QED BY <3>3 DEF a, b
  <2> QED BY <1>1, <1>3, <1>4, <2>1 DEF FoundArgument, e
<1> QED BY <1>8, <1>9, <1>10

(* and a descriptor.                                                          *)
LEMMA FdArgument ==
    ASSUME NEW p, p = [array |-> FALSE, type |-> FD], NEW v, NEW d \in Seq(Byte), NEW k \in Nat, k < Len(d),
           Stands(d, k, Argument(p, v))
    PROVE  FoundArgument(d, k, p, v)
<1>1. FD \in Kinds /\ <<>> \in Seq(Byte)
  BY DEF Kinds
<1>2. Element(FD, v) = <<>>
  BY ElementIs
<1>3. /\ d[k + 1] = FD /\ Len(Argument(p, v)) = 1 /\ Argument(p, v) \in Seq(Byte)
      /\ d[k + 1] # END /\ ParamAt(d, k) = p /\ Descriptors(p, v) = <<v>>
  <2>1. 1 + Len(<<>>) = 1
    OBVIOUS
  <2>2. Element(FD, v) \in Seq(Byte)
    BY <1>1, <1>2
  <2>3. /\ d[k + 1] = FD /\ Len(Argument(p, v)) = 1 + Len(Element(FD, v))
        /\ Argument(p, v) \in Seq(Byte)
        /\ d[k + 1] # END /\ ParamAt(d, k) = p /\ Descriptors(p, v) = IF FD = FD THEN <<v>> ELSE <<>>
    BY <1>1, <2>2, OneArgument
  <2> QED BY <1>2, <2>1, <2>3
<1>4. ArgumentSize(d, k) = 1 /\ ArgumentFds(d, k) = 1
  BY <1>1, <1>3, SizeIs, FdsAre
<1>5. ASSUME NEW fds1, NEW fdNo, FdsStand(fds1, fdNo, <<v>>) PROVE ValueAt(d, k, fds1, fdNo) = v
  <2>1. fds1[fdNo + 1] = v
    BY <1>5 DEF FdsStand
  <2> QED BY <1>1, <1>3, <2>1, ValueIs
<1>6. Len(<<v>>) = 1 /\ k + 1 <= Len(d)
  OBVIOUS
<1>7. FoundArgument(d, k, p, v)
  <2>1. Len(Descriptors(p, v)) = 1 /\ 1 > 0
    BY <1>3, <1>6
  <2>2. \A fds1, fdNo : FdsStand(fds1, fdNo, Descriptors(p, v)) => ValueAt(d, k, fds1, fdNo) = v
    BY <1>3, <1>5
  <2> QED BY <1>3, <1>4, <1>6, <2>1, <2>2, FoundWhole
<1> QED BY <1>7

(* One byte that stands somewhere,                                            *)
LEMMA StandsOne ==
    ASSUME NEW d, Len(d) \in Nat, NEW k \in Nat, NEW x, Stands(d, k, <<x>>)
    PROVE  k < Len(d) => d[k + 1] = x
<1>1. 1 \in 1..Len(<<x>>) /\ <<x>>[1] = x
  OBVIOUS
<1>2. k < Len(d) => k + 1 <= Len(d)
  OBVIOUS
<1> QED BY <1>1, <1>2 DEF Stands

(* and two,                                                                   *)
LEMMA StandsTwo ==
    ASSUME NEW d, Len(d) \in Nat, NEW k \in Nat, NEW x, NEW y, Stands(d, k, <<x, y>>)
    PROVE  /\ k < Len(d) => d[k + 1] = x
           /\ k + 1 < Len(d) => d[k + 2] = y
<1>1. 1 \in 1..Len(<<x, y>>) /\ 2 \in 1..Len(<<x, y>>) /\ <<x, y>>[1] = x /\ <<x, y>>[2] = y
  OBVIOUS
<1>2. (k < Len(d) => k + 1 <= Len(d)) /\ (k + 1 < Len(d) => k + 2 <= Len(d))
  OBVIOUS
<1> QED BY <1>1, <1>2 DEF Stands

(* Of an array.                                                               *)
Items(type, v) == FlattenSeq([i \in DOMAIN v |-> Element(type, v[i])])

ArrayStarts(d, k, type, p, v) ==
    LET size == VarIntSize(Len(v))
        count == ParseVarInt(d, k + 2)
    IN /\ Argument(p, v) \in Seq(Byte)
       /\ Len(Argument(p, v)) = 2 + size + Len(Items(type, v)) /\ size \in 1..4
       /\ d[k + 1] = ARRAY /\ Descriptors(p, v) = IF type = FD THEN v ELSE <<>>
       /\ count.value \in Nat /\ count.len \in 1..4
       /\ \/ k + 1 >= Len(d)
          \/ /\ k + 1 < Len(d) /\ d[k + 2] = type /\ Stands(d, k + 2 + size, Items(type, v))
             /\ \/ k + 2 + size <= Len(d) /\ count = [value |-> Len(v), len |-> size]
                \/ k + 2 + size > Len(d) /\ k + 2 + count.len >= Len(d)

(* An array starts with its type and its length.                              *)
LEMMA ArrayStart ==
    ASSUME NEW type \in Kinds, NEW p, p = [array |-> TRUE, type |-> type], NEW v, Len(v) \in Lengths,
           NEW d \in Seq(Byte), NEW k \in Nat, k < Len(d), Items(type, v) \in Seq(Byte),
           Stands(d, k, Argument(p, v))
    PROVE  ArrayStarts(d, k, type, p, v)
<1> DEFINE n == Len(v)
           size == VarIntSize(n)
           code == EncodeVarInt(n)
           items == Items(type, v)
           count == ParseVarInt(d, k + 2)
           head == <<ARRAY, type>>
           e == Len(d)
<1>1. Argument(p, v) = (head \o code) \o items /\ Descriptors(p, v) = IF type = FD THEN v ELSE <<>>
  BY DEF Argument, Descriptors, Items
<1>2. size \in 1..4 /\ code \in Seq(Byte) /\ Len(code) = size
  BY CodeShape
<1>3. ARRAY \in Byte /\ type \in Byte
  BY Magics
<1>4. e \in Nat /\ k + 2 \in Nat
  OBVIOUS
<1>5. count.value \in Nat /\ count.len \in 1..4
  BY <1>4, NumberFound
<1> HIDE DEF items, code, size, count
<1>6. items \in Seq(Byte)
  BY DEF items
<1>7. head \in Seq(Byte) /\ Len(head) = 2 /\ head \o code \in Seq(Byte) /\ Len(head \o code) = 2 + size
  BY <1>2, <1>3
<1>8. Argument(p, v) \in Seq(Byte) /\ Len(Argument(p, v)) = 2 + size + Len(items)
  <2> DEFINE w == head \o code
  <2>1. w \in Seq(Byte) /\ Len(w) = 2 + size /\ Argument(p, v) = w \o items
    BY <1>1, <1>7
  <2> HIDE DEF w
  <2>2. w \o items \in Seq(Byte) /\ Len(w \o items) = Len(w) + Len(items)
    BY <1>6, <2>1
  <2> QED BY <2>1, <2>2
<1>9. Stands(d, k, head \o code) /\ Stands(d, k + (2 + size), items)
  <2> HIDE DEF head
  <2> QED BY <1>1, <1>4, <1>6, <1>7, StandsBehind
<1>10. Stands(d, k, head) /\ Stands(d, k + 2, code)
  <2> HIDE DEF head
  <2> QED BY <1>2, <1>4, <1>7, <1>9, StandsBehind
<1>11. d[k + 1] = ARRAY /\ (k + 1 < e => d[k + 2] = type)
  <2>1. Len(d) \in Nat /\ Stands(d, k, <<ARRAY, type>>)
    BY <1>4, <1>10
  <2>2. /\ k < Len(d) => d[k + 1] = ARRAY
        /\ k + 1 < Len(d) => d[k + 2] = type
    BY <2>1, StandsTwo
  <2> QED BY <2>2
<1>12. \/ (k + 2) + size <= e /\ count = [value |-> n, len |-> size]
       \/ (k + 2) + size > e /\ (k + 2) + count.len >= e
  BY <1>4, <1>10, NumberStands DEF code, size, count
<1>13. k + (2 + size) = k + 2 + size
  BY <1>2
<1>14. Stands(d, k + 2 + size, items)
  BY <1>9, <1>13
<1>15. k + 1 >= e \/ k + 1 < e
  BY <1>4
<1> QED BY <1>1, <1>2, <1>5, <1>8, <1>11, <1>12, <1>14, <1>15 DEF items, size, count, ArrayStarts

(* An array whose type is not there has no size.                              *)
LEMMA NoArraySize ==
    ASSUME NEW d, NEW k, d[k + 1] = ARRAY, ~(k + 1 < Len(d))
    PROVE  ArgumentSize(d, k) = 0
<1>1. ARRAY \notin Words /\ ARRAY # VARCHAR /\ ARRAY # FD
  BY Magics DEF Kinds
<1> QED BY <1>1 DEF ArgumentSize

(* An array of words,                                                         *)
LEMMA WordArray ==
    ASSUME NEW type \in Words, NEW p, p = [array |-> TRUE, type |-> type], NEW v \in Seq(U32), Len(v) \in Lengths,
           NEW d \in Seq(Byte), NEW k \in Nat, k < Len(d), Stands(d, k, Argument(p, v))
    PROVE  FoundArgument(d, k, p, v)
<1> DEFINE n == Len(v)
           size == VarIntSize(n)
           items == Items(type, v)
           count == ParseVarInt(d, k + 2)
           l == 2 + size + 4 * n
           e == Len(d)
<1>1. e \in Nat /\ n \in Nat /\ type \in Kinds /\ type # FD /\ ARRAY # END
  BY Magics DEF Kinds
<1>2. items = FlattenSeq(v)
  <2>1. DOMAIN v = 1..n /\ v = [i \in 1..n |-> v[i]]
    OBVIOUS
  <2>2. [i \in DOMAIN v |-> Element(type, v[i])] = v
    BY <2>1, ElementIs
  <2> QED BY <2>2 DEF Items
<1>3. items \in Seq(Byte) /\ Len(items) = 4 * n
  <2>1. Stands(<<>>, 0, FlattenSeq(v)) /\ Len(<<>>) \in Nat
    BY DEF Stands
  <2> QED BY <1>2, <2>1, WordsStand
<1> HIDE DEF items, size, count
<1>4. /\ Argument(p, v) \in Seq(Byte)
      /\ Len(Argument(p, v)) = 2 + size + Len(items) /\ size \in 1..4
      /\ d[k + 1] = ARRAY /\ Descriptors(p, v) = IF type = FD THEN v ELSE <<>>
      /\ count.value \in Nat /\ count.len \in 1..4
      /\ \/ k + 1 >= e
         \/ /\ k + 1 < e /\ d[k + 2] = type /\ Stands(d, k + 2 + size, items)
            /\ \/ k + 2 + size <= e /\ count = [value |-> n, len |-> size]
               \/ k + 2 + size > e /\ k + 2 + count.len >= e
  <2>1. ArrayStarts(d, k, type, p, v)
    BY <1>1, <1>3, ArrayStart DEF items
  <2> QED BY <2>1 DEF items, size, count, ArrayStarts
<1>5. Len(Argument(p, v)) = l /\ l > 1 /\ l \in Nat /\ l > 0 /\ Descriptors(p, v) = <<>>
  BY <1>1, <1>3, <1>4
<1> HIDE DEF l
<1>6. CASE k + 1 >= e
  <2>1. k + l > e /\ ~(k + 1 < e)
    BY <1>1, <1>5, <1>6
  <2>2. ArgumentSize(d, k) = 0
    BY <1>4, <2>1, NoArraySize
  <2> QED BY <1>1, <1>4, <1>5, <2>1, <2>2, FoundCut
<1>7. CASE k + 1 < e /\ d[k + 2] = type /\ Stands(d, k + 2 + size, items)
  <2>1. ArgumentSize(d, k) = 2 + count.len + 4 * count.value /\ ArgumentFds(d, k) = 0 /\ ParamAt(d, k) = p
    BY <1>1, <1>4, <1>7, ArraySizeIs, FdsAre, ParamIs DEF count
  <2>2. CASE k + l <= e /\ count = [value |-> n, len |-> size]
    <3>1. count.value = n /\ count.len = size
      BY <2>2
    <3>2. ArgumentSize(d, k) = l
      BY <2>1, <3>1 DEF l
    <3>3. (k + 2 + size) + 4 * n <= e /\ k + 2 + size \in Nat
      BY <1>1, <1>4, <2>2 DEF l
    <3>4. v = [i \in 1..n |-> U32At(d, (k + 2 + size) + 4 * (i - 1))]
      BY <1>1, <1>2, <1>7, <3>3, WordsStand
    <3>5. ASSUME NEW fds1, NEW fdNo PROVE ValueAt(d, k, fds1, fdNo) = v
      <4>1. ValueAt(d, k, fds1, fdNo) = [i \in 1..count.value |-> U32At(d, (k + 2 + count.len) + 4 * (i - 1))]
        <5>1. d[k + 1] = ARRAY /\ d[k + 2] \in Words /\ d[k + 2] \in Kinds
          BY <1>1, <1>4, <1>7
        <5> QED BY <5>1, ArrayIs DEF count
      <4> QED BY <3>1, <3>4, <4>1
    <3>6. Len(Descriptors(p, v)) = 0
      BY <1>5
    <3> QED BY <1>1, <1>4, <1>5, <2>1, <2>2, <3>2, <3>5, <3>6, FoundWhole
  <2>3. CASE k + l > e /\ count = [value |-> n, len |-> size]
    <3>1. count.value = n /\ count.len = size
      BY <2>3
    <3>2. ArgumentSize(d, k) = l /\ k + l >= e
      BY <1>1, <1>5, <2>1, <2>3, <3>1 DEF l
    <3> QED BY <1>1, <1>4, <1>5, <2>3, <3>2, FoundCut
  <2>4. CASE k + 2 + size > e /\ k + 2 + count.len >= e
    <3>1. k + (2 + count.len + 4 * count.value) >= e /\ k + l > e
      <4>1. 4 * count.value \in Nat /\ 4 * n \in Nat
        BY <1>1, <1>4
      <4> DEFINE x == 4 * count.value
                 y == 4 * n
                 c == count.len
      <4> HIDE DEF x, y, c, e
      <4>2. x \in Nat /\ y \in Nat /\ l = 2 + size + y
        BY <4>1 DEF x, y, l
      <4>3. c \in Nat /\ size \in Nat /\ e \in Nat /\ k + 2 + size > e /\ k + 2 + c >= e
        BY <1>1, <1>4, <2>4 DEF c
      <4>4. k + (2 + c + x) >= e /\ k + (2 + size + y) > e
        BY <4>2, <4>3
      <4> QED BY <4>2, <4>4 DEF x, c
    <3> QED BY <1>1, <1>4, <1>5, <2>1, <3>1, FoundCut
  <2>5. k + l <= e \/ k + l > e
    BY <1>1, <1>5
  <2> QED BY <1>1, <1>4, <1>7, <2>2, <2>3, <2>4, <2>5
<1> QED BY <1>4, <1>6, <1>7

(* Nothing, however often, is nothing.                                        *)
LEMMA FlattenEmpty ==
    ASSUME NEW n \in Nat, NEW ss, ss = [i \in 1..n |-> <<>>]
    PROVE  FlattenSeq(ss) = <<>>
<1> DEFINE off == [i \in 0..n |-> 0]
<1>1. ss \in Seq(Seq(Byte)) /\ Len(ss) = n
  <2>1. ss \in [1..n -> Seq(Byte)]
    OBVIOUS
  <2> QED BY <2>1, FunctionIsSeq
<1>2. PartsOf(<<>>, ss, off)
  <2>1. off \in [0..n -> Nat] /\ off[0] = 0 /\ Len(<<>>) = 0 /\ n \in 0..n /\ off[n] = 0
    OBVIOUS
  <2>2. ASSUME NEW i \in 1..n PROVE ss[i] = <<>> /\ off[i] = 0 /\ off[i - 1] = 0 /\ Len(ss[i]) = 0
    <3>1. i - 1 \in 0..n /\ i \in 0..n
      OBVIOUS
    <3> QED BY <3>1
  <2> HIDE DEF off
  <2>3. \A i \in 1..n : off[i] = off[i - 1] + Len(ss[i]) /\ off[i] <= 0
    BY <2>2
  <2>4. \A i \in 1..n : \A j \in 1..Len(ss[i]) : <<>>[off[i - 1] + j] = ss[i][j]
    BY <2>2
  <2> QED BY <1>1, <2>1, <2>3, <2>4 DEF PartsOf
<1>3. <<>> \in Seq(Byte)
  OBVIOUS
<1> QED BY <1>1, <1>2, <1>3, PartsFlatten

(* of descriptors,                                                            *)
LEMMA FdArray ==
    ASSUME NEW type, type = FD, NEW p, p = [array |-> TRUE, type |-> type], NEW v, Len(v) \in Lengths, Listed(v),
           NEW d \in Seq(Byte), NEW k \in Nat, k < Len(d), Stands(d, k, Argument(p, v))
    PROVE  FoundArgument(d, k, p, v)
<1> DEFINE n == Len(v)
           size == VarIntSize(n)
           items == Items(type, v)
           count == ParseVarInt(d, k + 2)
           l == 2 + size
           e == Len(d)
<1>1. e \in Nat /\ n \in Nat /\ type \in Kinds /\ ARRAY # END
  BY Magics DEF Kinds, Lengths
<1>2. items = <<>>
  <2>1. DOMAIN v = 1..n
    BY DEF Listed
  <2>2. [i \in DOMAIN v |-> Element(type, v[i])] = [i \in 1..n |-> <<>>]
    BY <2>1, ElementIs
  <2> HIDE DEF n
  <2> QED BY <1>1, <2>2, FlattenEmpty DEF Items
<1>3. items \in Seq(Byte) /\ Len(items) = 0
  BY <1>2
<1> HIDE DEF items, size, count
<1>4. /\ Argument(p, v) \in Seq(Byte)
      /\ Len(Argument(p, v)) = 2 + size + Len(items) /\ size \in 1..4
      /\ d[k + 1] = ARRAY /\ Descriptors(p, v) = IF type = FD THEN v ELSE <<>>
      /\ count.value \in Nat /\ count.len \in 1..4
      /\ \/ k + 1 >= e
         \/ /\ k + 1 < e /\ d[k + 2] = type /\ Stands(d, k + 2 + size, items)
            /\ \/ k + 2 + size <= e /\ count = [value |-> n, len |-> size]
               \/ k + 2 + size > e /\ k + 2 + count.len >= e
  <2>1. ArrayStarts(d, k, type, p, v)
    BY <1>1, <1>3, ArrayStart DEF items
  <2> QED BY <2>1 DEF items, size, count, ArrayStarts
<1>5. Len(Argument(p, v)) = l /\ l > 1 /\ l \in Nat /\ l > 0 /\ Descriptors(p, v) = v
  <2>1. Descriptors(p, v) = v
    BY DEF Descriptors
  <2> QED BY <1>1, <1>3, <1>4, <2>1
<1> HIDE DEF l
<1>6. CASE k + 1 >= e
  <2>1. k + l > e /\ ~(k + 1 < e)
    BY <1>1, <1>5, <1>6
  <2>2. ArgumentSize(d, k) = 0
    BY <1>4, <2>1, NoArraySize
  <2> QED BY <1>1, <1>4, <1>5, <2>1, <2>2, FoundCut
<1>7. CASE k + 1 < e /\ d[k + 2] = type /\ Stands(d, k + 2 + size, items)
  <2>1. ArgumentSize(d, k) = 2 + count.len /\ ArgumentFds(d, k) = count.value /\ ParamAt(d, k) = p
    BY <1>1, <1>4, <1>7, ArraySizeIs, FdsAre, ParamIs DEF count
  <2>2. CASE k + 2 + size <= e /\ count = [value |-> n, len |-> size]
    <3>1. count.value = n /\ count.len = size
      BY <2>2
    <3>2. ArgumentSize(d, k) = l /\ ArgumentFds(d, k) = Len(Descriptors(p, v))
      BY <1>5, <2>1, <3>1 DEF l
    <3>3. k + l <= e
      BY <1>1, <1>4, <2>2 DEF l
    <3>4. ASSUME NEW fds1, NEW fdNo, FdsStand(fds1, fdNo, v) PROVE ValueAt(d, k, fds1, fdNo) = v
      <4>1. ValueAt(d, k, fds1, fdNo) = SubSeq(fds1, fdNo + 1, fdNo + count.value)
        <5>1. d[k + 1] = ARRAY /\ d[k + 2] = FD /\ d[k + 2] \in Kinds
          BY <1>1, <1>4, <1>7
        <5> QED BY <5>1, ArrayIs DEF count
      <4>2. PICK S : fds1 \in Seq(S)
        BY <3>4 DEF FdsStand
      <4>3. fdNo \in Nat /\ fdNo + n <= Len(fds1) /\ \A i \in 1..n : fds1[fdNo + i] = v[i]
        BY <3>4 DEF FdsStand
      <4> HIDE DEF n
      <4>4. SubSeq(fds1, fdNo + 1, fdNo + n) = [i \in 1..n |-> fds1[fdNo + i]]
        BY <1>1, <4>2, <4>3
      <4>5. [i \in 1..n |-> fds1[fdNo + i]] = [i \in 1..n |-> v[i]]
        BY <4>3
      <4> QED BY <3>1, <4>1, <4>4, <4>5 DEF n, Listed
    <3> QED BY <1>1, <1>4, <1>5, <2>1, <3>2, <3>3, <3>4, FoundWhole
  <2>3. CASE k + 2 + size > e /\ k + 2 + count.len >= e
    <3> DEFINE c == count.len
    <3>0. c \in Nat /\ size \in Nat /\ k + 2 + size > e /\ k + 2 + c >= e
      BY <1>4, <2>3
    <3> HIDE DEF c, e
    <3>a. k + (2 + c) >= e /\ k + l > e
      BY <1>1, <3>0 DEF l
    <3>1. k + (2 + count.len) >= e /\ k + l > e
      BY <3>a DEF c
    <3> USE DEF e
    <3> QED BY <1>1, <1>4, <1>5, <2>1, <3>1, FoundCut
  <2> QED BY <1>1, <1>4, <1>7, <2>2, <2>3
<1> QED BY <1>4, <1>6, <1>7

(* and of strings.                                                            *)
LEMMA StringArray ==
    ASSUME NEW p, p = [array |-> TRUE, type |-> VARCHAR], NEW v \in Seq(Seq(Byte)), Len(v) \in Lengths,
           \A i \in 1..Len(v) : Len(v[i]) \in Lengths,
           NEW d \in Seq(Byte), NEW k \in Nat, k < Len(d), Stands(d, k, Argument(p, v))
    PROVE  FoundArgument(d, k, p, v)
<1> DEFINE n == Len(v)
           size == VarIntSize(n)
           items == Items(VARCHAR, v)
           count == ParseVarInt(d, k + 2)
           l == 2 + size + Len(Varchars(v))
           e == Len(d)
           found == VarcharsAt(d, k + 2 + count.len, count.value)
<1>1. e \in Nat /\ n \in Nat /\ VARCHAR \in Kinds /\ VARCHAR # FD /\ ARRAY # END
  BY Magics DEF Kinds
<1>2. items = Varchars(v)
  <2>1. [i \in DOMAIN v |-> Element(VARCHAR, v[i])] = [i \in DOMAIN v |-> Varchar(v[i])]
    BY ElementIs
  <2> QED BY <2>1 DEF Items, Varchars
<1>3. items \in Seq(Byte) /\ Len(items) = Len(Varchars(v)) /\ Len(items) \in Nat
  <2>1. Stands(<<>>, 0, Varchars(v)) /\ <<>> \in Seq(Byte) /\ 0 \in Nat
    BY DEF Stands
  <2>2. Varchars(v) \in Seq(Byte)
    BY <2>1, StringsStand
  <2> QED BY <1>2, <2>2
<1> HIDE DEF items, size, count
<1>4. /\ Argument(p, v) \in Seq(Byte)
      /\ Len(Argument(p, v)) = 2 + size + Len(items) /\ size \in 1..4
      /\ d[k + 1] = ARRAY /\ Descriptors(p, v) = IF VARCHAR = FD THEN v ELSE <<>>
      /\ count.value \in Nat /\ count.len \in 1..4
      /\ \/ k + 1 >= e
         \/ /\ k + 1 < e /\ d[k + 2] = VARCHAR /\ Stands(d, k + 2 + size, items)
            /\ \/ k + 2 + size <= e /\ count = [value |-> n, len |-> size]
               \/ k + 2 + size > e /\ k + 2 + count.len >= e
  <2>1. ArrayStarts(d, k, VARCHAR, p, v)
    BY <1>1, <1>3, ArrayStart DEF items
  <2> QED BY <2>1 DEF items, size, count, ArrayStarts
<1>5. Len(Argument(p, v)) = l /\ l > 1 /\ l \in Nat /\ l > 0 /\ Len(Descriptors(p, v)) = 0
  BY <1>1, <1>3, <1>4
<1> HIDE DEF l, found
<1>6. CASE k + 1 >= e
  <2>1. k + l > e /\ ~(k + 1 < e)
    BY <1>1, <1>5, <1>6
  <2>2. ArgumentSize(d, k) = 0
    BY <1>4, <2>1, NoArraySize
  <2> QED BY <1>1, <1>4, <1>5, <2>1, <2>2, FoundCut
<1>7. CASE k + 1 < e /\ d[k + 2] = VARCHAR /\ Stands(d, k + 2 + size, items)
  <2>1. ArgumentSize(d, k) = found.next - k /\ ArgumentFds(d, k) = 0 /\ ParamAt(d, k) = p
    BY <1>1, <1>4, <1>7, ArraySizeIs, FdsAre, ParamIs DEF count, found
  <2>2. CASE k + 2 + size <= e /\ count = [value |-> n, len |-> size]
    <3>1. count.value = n /\ count.len = size
      BY <2>2
    <3>2. found = VarcharsAt(d, k + 2 + size, n) /\ k + 2 + size \in Nat
      BY <1>4, <3>1 DEF found
    <3>3. \/ (k + 2 + size) + Len(Varchars(v)) <= e
             /\ found = [next |-> (k + 2 + size) + Len(Varchars(v)), strings |-> v]
          \/ (k + 2 + size) + Len(Varchars(v)) > e /\ found.next >= e
      BY <1>2, <1>7, <3>2, StringsStand
    <3>4. CASE (k + 2 + size) + Len(Varchars(v)) <= e
               /\ found = [next |-> (k + 2 + size) + Len(Varchars(v)), strings |-> v]
      <4>1. found.next = (k + 2 + size) + Len(Varchars(v)) /\ found.strings = v
        BY <3>4
      <4>2. found.next - k = l /\ k + l <= e
        BY <1>1, <1>3, <1>4, <3>4, <4>1 DEF l
      <4>3. ASSUME NEW fds1, NEW fdNo PROVE ValueAt(d, k, fds1, fdNo) = v
        <5>1. ValueAt(d, k, fds1, fdNo) = VarcharsAt(d, k + 2 + count.len, count.value).strings
          BY <1>1, <1>4, <1>7, ArrayIs DEF count
        <5> QED BY <4>1, <5>1 DEF found
      <4> QED BY <1>1, <1>4, <1>5, <2>1, <4>2, <4>3, FoundWhole
    <3>5. CASE (k + 2 + size) + Len(Varchars(v)) > e /\ found.next >= e
      <4>1. found.next \in Nat
        BY <3>2, <1>1, VarcharsGoOn DEF StringsRead
      <4>2. k + l > e
        BY <1>1, <1>3, <1>4, <3>5 DEF l
      <4>3. k + (found.next - k) >= e
        BY <1>1, <3>5, <4>1
      <4> QED BY <1>1, <1>4, <1>5, <2>1, <4>2, <4>3, FoundCut
    <3> QED BY <3>3, <3>4, <3>5
  <2>3. CASE k + 2 + size > e /\ k + 2 + count.len >= e
    <3>1. found.next \in Nat /\ found.next >= k + 2 + count.len
      <4>1. k + 2 + count.len \in Nat
        BY <1>4
      <4> QED BY <1>4, <4>1, VarcharsGoOn DEF StringsRead, found
    <3>2. k + (found.next - k) >= e
      <4> DEFINE next == found.next
                 front == k + 2 + count.len
      <4>1. next \in Nat /\ next >= front /\ front >= e /\ e \in Nat /\ k \in Nat /\ front \in Nat
        BY <1>1, <1>4, <2>3, <3>1
      <4> HIDE DEF next, front
      <4>2. k + (next - k) >= e
        BY <4>1
      <4> QED BY <4>2 DEF next
    <3>3. k + l > e
      BY <1>1, <1>3, <1>4, <2>3 DEF l
    <3> QED BY <1>1, <1>4, <1>5, <2>1, <3>2, <3>3, FoundCut
  <2> QED BY <1>1, <1>4, <1>7, <2>2, <2>3
<1> QED BY <1>4, <1>6, <1>7

(* Whatever it is, an argument is found where it stands.                      *)
LEMMA ArgumentStands ==
    ASSUME NEW p, NEW v, FitsParam(p, v), NEW d \in Seq(Byte), NEW k \in Nat, k < Len(d),
           Stands(d, k, Argument(p, v))
    PROVE  FoundArgument(d, k, p, v)
<1>1. p = [array |-> p.array, type |-> p.type] /\ p.array \in BOOLEAN /\ p.type \in Kinds
  BY DEF FitsParam
<1>2. p.type \in Words \/ p.type = VARCHAR \/ p.type = FD
  BY <1>1 DEF Kinds
<1>3. CASE p.array = FALSE
  <2>1. FitsKind(p.type, v) /\ p = [array |-> FALSE, type |-> p.type]
    BY <1>1, <1>3 DEF FitsParam
  <2>2. CASE p.type \in Words
    BY <2>1, <2>2, WordArgument DEF FitsKind
  <2>3. CASE p.type = VARCHAR
    BY <2>1, <2>3, StringArgument DEF FitsKind
  <2>4. CASE p.type = FD
    BY <2>1, <2>4, FdArgument
  <2> QED BY <1>2, <2>2, <2>3, <2>4
<1>4. CASE p.array = TRUE
  <2> DEFINE n == Len(v)
  <2>1. /\ n \in Lengths /\ Listed(v) /\ \A j \in 1..n : FitsKind(p.type, v[j])
        /\ p = [array |-> TRUE, type |-> p.type]
    BY <1>1, <1>4 DEF FitsParam
  <2>n. n \in Nat
    BY <2>1 DEF Lengths
  <2> HIDE DEF n
  <2>2. CASE p.type \in Words
    <3>1. \A j \in 1..n : v[j] \in U32
      BY <2>1, <2>2 DEF FitsKind
    <3>2. v \in [1..n -> U32]
      BY <2>1, <3>1 DEF Listed, n
    <3>3. v \in Seq(U32)
      BY <2>n, <3>2, FunctionIsSeq
    <3> QED BY <2>1, <2>2, <3>3, WordArray DEF n
  <2>3. CASE p.type = VARCHAR
    <3>1. \A j \in 1..n : v[j] \in Seq(Byte) /\ Len(v[j]) \in Lengths
      BY <2>1, <2>3 DEF FitsKind
    <3>2. v \in [1..n -> Seq(Byte)]
      BY <2>1, <3>1 DEF Listed, n
    <3>3. v \in Seq(Seq(Byte))
      BY <2>n, <3>2, FunctionIsSeq
    <3> QED BY <2>1, <2>3, <3>1, <3>3, StringArray DEF n
  <2>4. CASE p.type = FD
    BY <2>1, <2>4, FdArray DEF n
  <2> QED BY <1>2, <2>2, <2>3, <2>4
<1> QED BY <1>1, <1>3, <1>4

(* The bytes of an argument.                                                  *)
LEMMA ItemsAre ==
    ASSUME NEW p, NEW v, FitsParam(p, v), p.array = TRUE
    PROVE  Items(p.type, v) \in Seq(Byte)
<1> DEFINE n == Len(v)
<1>1. /\ n \in Lengths /\ Listed(v) /\ \A j \in 1..n : FitsKind(p.type, v[j])
      /\ p.type \in Kinds
  BY DEF FitsParam
<1>2. n \in Nat
  BY <1>1 DEF Lengths
<1> HIDE DEF n
<1>3. CASE p.type \in Words
  <2>1. \A j \in 1..n : v[j] \in U32
    BY <1>1, <1>3 DEF FitsKind
  <2>2. v \in [1..n -> U32]
    BY <1>1, <2>1 DEF Listed, n
  <2>3. v \in Seq(U32)
    BY <1>2, <2>2, FunctionIsSeq
  <2>4. [i \in DOMAIN v |-> Element(p.type, v[i])] = v
    <3>1. [i \in DOMAIN v |-> Element(p.type, v[i])] = [i \in DOMAIN v |-> v[i]]
      BY <1>3, ElementIs
    <3> QED BY <2>2, <3>1
  <2>5. Stands(<<>>, 0, FlattenSeq(v)) /\ Len(<<>>) \in Nat
    BY DEF Stands
  <2> QED BY <2>3, <2>4, <2>5, WordsStand DEF Items
<1>4. CASE p.type = VARCHAR
  <2>1. \A j \in 1..n : v[j] \in Seq(Byte) /\ Len(v[j]) \in Lengths
    BY <1>1, <1>4 DEF FitsKind
  <2>2. v \in [1..n -> Seq(Byte)]
    BY <1>1, <2>1 DEF Listed, n
  <2>3. v \in Seq(Seq(Byte))
    BY <1>2, <2>2, FunctionIsSeq
  <2>4. [i \in DOMAIN v |-> Element(VARCHAR, v[i])] = [i \in DOMAIN v |-> Varchar(v[i])]
    BY ElementIs
  <2>5. Stands(<<>>, 0, Varchars(v)) /\ <<>> \in Seq(Byte) /\ 0 \in Nat
    BY DEF Stands
  <2>6. Varchars(v) \in Seq(Byte)
    BY <2>1, <2>3, <2>5, StringsStand DEF n
  <2> QED BY <1>4, <2>4, <2>6 DEF Items, Varchars
<1>5. CASE p.type = FD
  <2>1. DOMAIN v = 1..n
    BY <1>1 DEF Listed, n
  <2>2. [i \in DOMAIN v |-> Element(FD, v[i])] = [i \in 1..n |-> <<>>]
    BY <2>1, ElementIs
  <2>3. FlattenSeq([i \in DOMAIN v |-> Element(FD, v[i])]) = <<>>
    BY <1>2, <2>2, FlattenEmpty
  <2> QED BY <1>5, <2>3 DEF Items
<1> QED BY <1>1, <1>3, <1>4, <1>5 DEF Kinds

(* An argument has some bytes.                                                *)
LEMMA ArgumentIs ==
    ASSUME NEW p, NEW v, FitsParam(p, v)
    PROVE  Argument(p, v) \in Seq(Byte) /\ Len(Argument(p, v)) \in Nat /\ Len(Argument(p, v)) > 0
<1>1. p.array \in BOOLEAN /\ p.type \in Kinds /\ p.type \in Byte /\ ARRAY \in Byte
  BY Magics DEF FitsParam
<1>2. CASE p.array = FALSE
  <2> DEFINE t == Element(p.type, v)
  <2>1. FitsKind(p.type, v)
    BY <1>2 DEF FitsParam
  <2>2. t \in Seq(Byte)
    <3>1. CASE p.type \in Words
      BY <2>1, <3>1, ElementIs, WordIs DEF FitsKind
    <3>2. CASE p.type = VARCHAR
      BY <2>1, <3>2, ElementIs, VarcharIs DEF FitsKind
    <3>3. CASE p.type = FD
      <4>1. <<>> \in Seq(Byte)
        OBVIOUS
      <4> QED BY <3>3, <4>1, ElementIs
    <3> QED BY <1>1, <3>1, <3>2, <3>3 DEF Kinds
  <2>3. Argument(p, v) = <<p.type>> \o t
    BY <1>2 DEF Argument
  <2> HIDE DEF t
  <2> QED BY <1>1, <2>2, <2>3
<1>3. CASE p.array = TRUE
  <2> DEFINE t == Items(p.type, v)
             c == EncodeVarInt(Len(v))
             w == <<ARRAY, p.type>> \o c
  <2>1. t \in Seq(Byte)
    BY <1>3, ItemsAre
  <2>2. c \in Seq(Byte)
    BY <1>3, CodeShape DEF FitsParam
  <2>3. Argument(p, v) = w \o t
    BY <1>3 DEF Argument, Items
  <2> HIDE DEF t, c
  <2>4. w \in Seq(Byte) /\ Len(w) = 2 + Len(c)
    BY <1>1, <2>2
  <2> HIDE DEF w
  <2>5. w \o t \in Seq(Byte) /\ Len(w \o t) = Len(w) + Len(t)
    BY <2>1, <2>4
  <2> QED BY <2>1, <2>2, <2>3, <2>4, <2>5
<1> QED BY <1>1, <1>2, <1>3

(* Whatever the data, sizes are natural numbers, and END has none.            *)
LEMMA SizesAre ==
    ASSUME NEW d \in Seq(Byte), NEW k \in Nat
    PROVE  /\ ArgumentSize(d, k) \in Nat /\ ArgumentFds(d, k) \in Nat
           /\ d[k + 1] = END => ArgumentSize(d, k) = 0
<1> DEFINE a == d[k + 1]
           b == d[k + 2]
           size == ParseVarInt(d, k + 1)
           count == ParseVarInt(d, k + 2)
<1>1. k + 1 \in Nat /\ k + 2 \in Nat
  OBVIOUS
<1>2. size.value \in Nat /\ size.len \in Nat /\ count.value \in Nat /\ count.len \in Nat
  <2>1. size.value \in Nat /\ size.len \in 1..4 /\ count.value \in Nat /\ count.len \in 1..4
    BY <1>1, NumberFound
  <2> HIDE DEF size, count
  <2> QED BY <2>1
<1>3. VarcharsAt(d, k + 2 + count.len, count.value).next - k \in Nat
  <2> HIDE DEF count
  <2>1. k + 2 + count.len \in Nat
    BY <1>2
  <2>2. /\ VarcharsAt(d, k + 2 + count.len, count.value).next \in Nat
        /\ VarcharsAt(d, k + 2 + count.len, count.value).next >= k + 2 + count.len
    BY <1>2, <2>1, VarcharsGoOn DEF StringsRead
  <2> QED BY <1>2, <2>2
<1>4. ArgumentFds(d, k) \in Nat
  BY <1>2 DEF ArgumentFds
<1>5. CASE a \in Words
  BY <1>4, <1>5, SizeIs, Magics DEF Kinds
<1>6. CASE a = VARCHAR
  <2>1. ArgumentSize(d, k) = 1 + size.len + size.value
    BY <1>6, SizeIs
  <2> HIDE DEF size
  <2>2. 1 + size.len + size.value \in Nat
    BY <1>2
  <2> QED BY <1>4, <1>6, <2>1, <2>2, Magics DEF Kinds
<1>7. CASE a = FD
  BY <1>4, <1>7, SizeIs, Magics DEF Kinds
<1>8. CASE a = ARRAY
  <2>0. a # END
    BY <1>8, Magics
  <2>1. CASE ~(k + 1 < Len(d))
    BY <1>4, <1>8, <2>0, <2>1, NoArraySize
  <2>2. CASE k + 1 < Len(d) /\ b \in Words
    <3>1. ArgumentSize(d, k) = 2 + count.len + 4 * count.value
      BY <1>8, <2>2, ArraySizeIs
    <3> HIDE DEF count
    <3>2. 2 + count.len + 4 * count.value \in Nat
      BY <1>2
    <3> QED BY <1>4, <2>0, <3>1, <3>2
  <2>3. CASE k + 1 < Len(d) /\ b = VARCHAR
    BY <1>3, <1>4, <1>8, <2>0, <2>3, ArraySizeIs
  <2>4. CASE k + 1 < Len(d) /\ b = FD
    <3>1. ArgumentSize(d, k) = 2 + count.len
      BY <1>8, <2>4, ArraySizeIs
    <3> HIDE DEF count
    <3>2. 2 + count.len \in Nat
      BY <1>2
    <3> QED BY <1>4, <2>0, <3>1, <3>2
  <2>5. CASE k + 1 < Len(d) /\ b \notin Words /\ b # VARCHAR /\ b # FD
    <3>1. ARRAY \notin Words /\ ARRAY # VARCHAR /\ ARRAY # FD
      BY Magics DEF Kinds
    <3>2. ArgumentSize(d, k) = 0
      BY <1>8, <2>5, <3>1 DEF ArgumentSize
    <3> QED BY <1>4, <2>0, <3>2
  <2> QED BY <2>1, <2>2, <2>3, <2>4, <2>5
<1>9. CASE a \notin Words /\ a # VARCHAR /\ a # FD /\ a # ARRAY
  <2>1. ArgumentSize(d, k) = 0
    BY <1>9 DEF ArgumentSize
  <2> QED BY <1>4, <2>1
<1> QED BY <1>5, <1>6, <1>7, <1>8, <1>9

-----------------------------------------------------------------------------
(* What Arguments returns is the first value from which a function that reads *)
(* one argument more each time stays where it is.                             *)
Walked == [next : Nat, fds : Nat, args : Seq([at : Nat, fdNo : Nat])]
Walks(f, d, k) ==
    /\ f \in [0..Len(d) -> Walked] /\ f[0] = [next |-> k, fds |-> 0, args |-> <<>>]
    /\ \A n \in 1..Len(d) : f[n] = IF Over(d, f[n - 1]) THEN f[n - 1] ELSE Further(d, f[n - 1])

(* Such a function exists,                                                    *)
LEMMA ArgumentsWalk ==
    ASSUME NEW d \in Seq(Byte), NEW k \in Nat
    PROVE  \E f : Walks(f, d, k) /\ Arguments(d, k) = f[CHOOSE n \in 0..Len(d) : Over(d, f[n])]
<1> DEFINE T == Walked
           L == Len(d)
           e == [next |-> k, fds |-> 0, args |-> <<>>]
           More(r) == IF Over(d, r) THEN r ELSE Further(d, r)
           step == [p \in (1..L) \X T |-> More(p[2])]
           Good(g) == g = [n \in 0..L |-> IF n = 0 THEN e ELSE More(g[n - 1])]
           F == CHOOSE g : Good(g)
<1>0. L \in Nat
  OBVIOUS
<1>1. e \in T
  BY DEF Walked
<1>2. Arguments(d, k) = F[CHOOSE n \in 0..L : Over(d, F[n])]
  BY DEF Arguments
<1>3. ASSUME NEW r \in T PROVE More(r) \in T
  <2>1. r.next \in Nat /\ r.fds \in Nat /\ r.args \in Seq([at : Nat, fdNo : Nat])
    BY DEF Walked
  <2>2. r.next + ArgumentSize(d, r.next) \in Nat /\ r.fds + ArgumentFds(d, r.next) \in Nat
    <3>1. ArgumentSize(d, r.next) \in Nat /\ ArgumentFds(d, r.next) \in Nat
      BY <2>1, SizesAre
    <3> QED BY <2>1, <3>1
  <2>3. Append(r.args, [at |-> r.next, fdNo |-> r.fds]) \in Seq([at : Nat, fdNo : Nat])
    <3>1. [at |-> r.next, fdNo |-> r.fds] \in [at : Nat, fdNo : Nat]
      BY <2>1
    <3> QED BY <2>1, <3>1
  <2>4. Further(d, r) \in T
    BY <2>2, <2>3 DEF Further, Walked
  <2> QED BY <2>4
<1> HIDE DEF T, e, More, L
<1>4. step \in [(1..L) \X T -> T] /\ \A n \in 1..L, r \in T : step[<<n, r>>] = More(r)
  BY <1>3
<1> HIDE DEF step
<1>5. PICK f : Recurs(f, L, T, e, step)
  BY <1>0, <1>1, <1>4, UptoRecursion
<1>6. \A n \in 1..L : n - 1 \in 0..L
  BY <1>0
<1>7. \A n \in 1..L : f[n] = More(f[n - 1])
  BY <1>4, <1>5, <1>6 DEF Recurs
<1>8. Good(f)
  <2>1. \A n \in 0..L : n # 0 => n \in 1..L
    BY <1>0
  <2>2. \A n \in 0..L : f[n] = IF n = 0 THEN e ELSE More(f[n - 1])
    BY <1>5, <1>7, <2>1 DEF Recurs
  <2> QED BY <1>5, <2>2 DEF Recurs
<1>9. Good(F)
  <2> HIDE DEF Good
  <2> QED BY <1>8
<1> HIDE DEF F
<1>10. F[0] = e /\ (\A n \in 1..L : F[n] = More(F[n - 1])) /\ F = [n \in 0..L |-> F[n]]
  <2>1. 0 \in 0..L /\ \A n \in 1..L : n \in 0..L /\ n # 0
    BY <1>0
  <2>2. F[0] = e
    BY <1>9, <2>1
  <2>3. \A n \in 1..L : F[n] = More(F[n - 1])
    BY <1>9, <2>1
  <2>4. F = [n \in 0..L |-> F[n]]
    BY <1>9
  <2> QED BY <2>2, <2>3, <2>4
<1>11. 0..L \subseteq {n \in 0..L : F[n] \in T}
  <2> DEFINE A == {n \in 0..L : F[n] \in T}
  <2>1. 0 \in A
    BY <1>0, <1>1, <1>10
  <2>2. ASSUME NEW n \in 1..L, n - 1 \in A PROVE n \in A
    <3>0. n \in 0..L
      BY <1>0
    <3>1. F[n - 1] \in T /\ F[n] = More(F[n - 1])
      BY <1>10, <2>2
    <3> QED BY <1>3, <3>0, <3>1
  <2> HIDE DEF A
  <2>3. 0..L \subseteq A
    BY <1>0, <2>1, <2>2, UptoInduction
  <2> QED BY <2>3 DEF A
<1>12. F \in [0..L -> T]
  BY <1>10, <1>11
<1>13. Walks(F, d, k)
  BY <1>10, <1>12 DEF Walks, T, e, More, L
<1> QED BY <1>2, <1>13 DEF L

(* and it does not matter from where on it stays.                             *)
LEMMA WalkStays ==
    ASSUME NEW d \in Seq(Byte), NEW k \in Nat, NEW f, Walks(f, d, k),
           Arguments(d, k) = f[CHOOSE n \in 0..Len(d) : Over(d, f[n])],
           NEW m \in 0..Len(d), Over(d, f[m])
    PROVE  Arguments(d, k) = f[m]
<1> DEFINE L == Len(d)
           c == CHOOSE n \in 0..L : Over(d, f[n])
<1>0. L \in Nat
  OBVIOUS
<1>1. c \in 0..L /\ Over(d, f[c])
  OBVIOUS
<1> HIDE DEF c
<1>2. ASSUME NEW n \in 0..L, Over(d, f[n]), NEW j \in 0..L, n <= j PROVE f[j] = f[n]
  <2> DEFINE A == {i \in 0..L : n <= i => f[i] = f[n]}
  <2>1. 0 \in A
    BY <1>0
  <2>2. ASSUME NEW i \in 1..L, i - 1 \in A PROVE i \in A
    <3>1. i \in 0..L /\ f[i] = IF Over(d, f[i - 1]) THEN f[i - 1] ELSE Further(d, f[i - 1])
      BY <1>0 DEF Walks
    <3>2. CASE n <= i - 1
      BY <1>2, <2>2, <3>1, <3>2
    <3>3. CASE ~(n <= i - 1)
      <4>1. n <= i => n = i
        BY <3>3
      <4> QED BY <3>1, <4>1
    <3> QED BY <3>2, <3>3
  <2> HIDE DEF A
  <2>3. 0..L \subseteq A
    BY <1>0, <2>1, <2>2, UptoInduction
  <2> QED BY <1>2, <2>3 DEF A
<1>3. c <= m \/ m <= c
  BY <1>0, <1>1
<1>4. f[c] = f[m]
  BY <1>1, <1>2, <1>3
<1> QED BY <1>4 DEF c

(* Arguments one behind the other: flat is their bytes, off says where each   *)
(* ends, foff how many descriptors are then given.                            *)
Laid(P, A, N, flat, off, foff) ==
    /\ N \in Nat /\ \A i \in 1..N : FitsParam(P[i], A[i])
    /\ flat \in Seq(Byte) /\ PartsOf(flat, [i \in 1..N |-> Argument(P[i], A[i])], off)
    /\ foff \in [0..N -> Nat] /\ foff[0] = 0
    /\ \A i \in 1..N : foff[i] = foff[i - 1] + Len(Descriptors(P[i], A[i]))

(* Every argument moves the offset.                                           *)
LEMMA LaidIs ==
    ASSUME NEW P, NEW A, NEW N, NEW flat, NEW off, NEW foff, Laid(P, A, N, flat, off, foff)
    PROVE  /\ off \in [0..N -> Nat] /\ off[0] = 0 /\ off[N] = Len(flat)
           /\ \A i \in 1..N : /\ off[i] = off[i - 1] + Len(Argument(P[i], A[i]))
                              /\ Argument(P[i], A[i]) \in Seq(Byte) /\ Len(Argument(P[i], A[i])) \in Nat \ {0}
           /\ \A i \in 0..N : i <= off[i] /\ off[i] <= off[N]
<1> DEFINE ss == [i \in 1..N |-> Argument(P[i], A[i])]
<1>1. N \in Nat /\ \A i \in 1..N : /\ Argument(P[i], A[i]) \in Seq(Byte)
                                   /\ Len(Argument(P[i], A[i])) \in Nat \ {0}
  BY ArgumentIs DEF Laid
<1>2. ss \in [1..N -> Seq(Byte)]
  BY <1>1
<1>3. Len(ss) = N /\ \A i \in 1..N : ss[i] = Argument(P[i], A[i])
  BY <1>1, <1>2, FunctionIsSeq
<1> HIDE DEF ss
<1>4. PartsOf(flat, ss, off) /\ Len(flat) \in Nat
  BY DEF Laid, ss
<1>5. off \in [0..N -> Nat] /\ off[0] = 0 /\ off[N] = Len(flat)
  BY <1>3, <1>4 DEF PartsOf
<1>6. \A i \in 1..N : off[i] = off[i - 1] + Len(Argument(P[i], A[i]))
  BY <1>3, <1>4 DEF PartsOf
<1>7. \A i \in 0..N : i <= off[i]
  <2> DEFINE B == {i \in 0..N : i <= off[i]}
  <2>1. 0 \in B
    BY <1>1, <1>5
  <2>2. ASSUME NEW i \in 1..N, i - 1 \in B PROVE i \in B
    <3>1. i \in 0..N /\ i - 1 \in 0..N
      BY <1>1
    <3> DEFINE l == Len(Argument(P[i], A[i]))
    <3>2. off[i] = off[i - 1] + l /\ l \in Nat \ {0} /\ off[i - 1] \in Nat /\ i - 1 <= off[i - 1]
      BY <1>1, <1>5, <1>6, <2>2, <3>1
    <3> HIDE DEF l
    <3>3. i <= off[i]
      BY <3>2
    <3> QED BY <3>1, <3>3
  <2> HIDE DEF B
  <2>3. 0..N \subseteq B
    BY <1>1, <2>1, <2>2, UptoInduction
  <2> QED BY <2>3 DEF B
<1>8. ASSUME NEW i \in 0..N PROVE off[i] <= off[N]
  <2>1. CASE i = 0
    BY <1>1, <1>5, <2>1
  <2>2. CASE i # 0
    <3>1. i \in 1..N
      BY <2>2
    <3> QED BY <1>3, <1>4, <1>5, <3>1 DEF PartsOf
  <2> QED BY <2>1, <2>2
<1> QED BY <1>1, <1>5, <1>6, <1>7, <1>8

(* Where the walk is behind i arguments.                                      *)
Behind(k, off, foff, i) ==
    [next |-> k + off[i], fds |-> foff[i],
     args |-> [j \in 1..i |-> [at |-> k + off[j - 1], fdNo |-> foff[j - 1]]]]

(* The walk is over and END is not there.                                     *)
Lost(d, r) == r.next >= Len(d) \/ (Over(d, r) /\ d[r.next + 1] # END)

(* It gets behind each argument that is whole, and no further.                *)
LEMMA WalkStep ==
    ASSUME NEW d \in Seq(Byte), NEW k \in Nat, NEW f, Walks(f, d, k),
           NEW P, NEW A, NEW N, NEW flat, NEW off, NEW foff, Laid(P, A, N, flat, off, foff), Stands(d, k, flat),
           NEW i \in 1..N, i <= Len(d),
           \/ k + off[i - 1] <= Len(d) /\ f[i - 1] = Behind(k, off, foff, i - 1)
           \/ k + off[i - 1] > Len(d) /\ Lost(d, f[i - 1])
    PROVE  \/ k + off[i] <= Len(d) /\ f[i] = Behind(k, off, foff, i)
           \/ k + off[i] > Len(d) /\ Lost(d, f[i])
<1> DEFINE L == Len(d)
           p == P[i]
           v == A[i]
           l == Len(Argument(p, v))
           a == off[i - 1]
           b == off[i]
           r == f[i - 1]
<1>0. L \in Nat /\ N \in Nat /\ i - 1 \in 0..N /\ i \in 0..N /\ i \in 1..L
  BY DEF Laid
<1>f. off \in [0..N -> Nat] /\ foff \in [0..N -> Nat]
  <2>1. off \in [0..N -> Nat]
    BY LaidIs
  <2>2. foff \in [0..N -> Nat]
    BY DEF Laid
  <2> QED BY <2>1, <2>2
<1>1. a \in Nat /\ b \in Nat /\ b = a + l /\ l \in Nat \ {0} /\ Argument(p, v) \in Seq(Byte)
  <2>1. b = a + l /\ l \in Nat \ {0} /\ Argument(p, v) \in Seq(Byte)
    BY LaidIs
  <2>2. a \in Nat /\ b \in Nat
    BY <1>0, <1>f
  <2> QED BY <2>1, <2>2
<1>2. f[i] = IF Over(d, r) THEN r ELSE Further(d, r)
  BY <1>0 DEF Walks
<1>3. FitsParam(p, v) /\ foff[i] = foff[i - 1] + Len(Descriptors(p, v))
  BY DEF Laid
<1>4. Stands(d, k + a, Argument(p, v))
  <2> DEFINE ss == [j \in 1..N |-> Argument(P[j], A[j])]
  <2>1. \A j \in 1..N : Argument(P[j], A[j]) \in Seq(Byte)
    BY LaidIs
  <2>2. ss \in [1..N -> Seq(Byte)]
    BY <2>1
  <2>3. ss \in Seq(Seq(Byte)) /\ Len(ss) = N /\ ss[i] = Argument(p, v)
    BY <1>0, <2>2, FunctionIsSeq
  <2> HIDE DEF ss
  <2>4. PartsOf(flat, ss, off)
    BY DEF Laid, ss
  <2>5. Len(ss) \in Nat /\ \A j \in 1..Len(ss) : Len(ss[j]) \in Nat
    BY <2>3
  <2>6. Stands(d, k + a, ss[i])
    BY <1>0, <2>3, <2>4, <2>5, StandsInParts
  <2> QED BY <2>3, <2>6
<1>5. CASE k + a > L /\ Lost(d, r)
  <2>1. Over(d, r)
    BY <1>5 DEF Lost, Over
  <2>2. f[i] = r /\ k + b > L
    BY <1>0, <1>1, <1>2, <1>5, <2>1
  <2> QED BY <1>5, <2>2
<1>6. CASE k + a <= L /\ r = Behind(k, off, foff, i - 1)
  <2>1. r.next = k + a /\ r.fds = foff[i - 1]
    BY <1>6 DEF Behind
  <2>2. CASE k + a = L
    <3>1. Over(d, r) /\ Lost(d, r)
      BY <1>0, <2>1, <2>2 DEF Over, Lost
    <3>2. k + b > L
      BY <1>0, <1>1, <2>2
    <3> QED BY <1>2, <3>1, <3>2
  <2>3. CASE k + a < L
    <3>0. k + a \in Nat
      BY <1>1
    <3>1. FoundArgument(d, k + a, p, v)
      BY <1>3, <1>4, <2>3, <3>0, ArgumentStands
    <3>2. d[(k + a) + 1] # END
      BY <3>1 DEF FoundArgument
    <3>3. CASE /\ (k + a) + l <= L /\ ArgumentSize(d, k + a) = l
               /\ ArgumentFds(d, k + a) = Len(Descriptors(p, v))
      <4>1. ~Over(d, r)
        <5>1. ~(k + a >= L) /\ l # 0
          BY <1>0, <1>1, <2>3
        <5> QED BY <2>1, <3>3, <5>1 DEF Over
      <4>2. f[i] = [next |-> (k + a) + l, fds |-> foff[i],
                    args |-> Append(r.args, [at |-> k + a, fdNo |-> foff[i - 1]])]
        BY <1>2, <1>3, <2>1, <3>3, <4>1 DEF Further
      <4>3. (k + a) + l = k + b
        BY <1>1
      <4>4. Append(r.args, [at |-> k + a, fdNo |-> foff[i - 1]])
              = [j \in 1..i |-> [at |-> k + off[j - 1], fdNo |-> foff[j - 1]]]
        <5> DEFINE h(j) == [at |-> k + off[j - 1], fdNo |-> foff[j - 1]]
                   U == [at : Nat, fdNo : Nat]
        <5>1. r.args = [j \in 1..(i - 1) |-> h(j)]
          BY <1>6 DEF Behind
        <5>2. ASSUME NEW j \in 1..i PROVE h(j) \in U
          <6>1. j - 1 \in 0..N
            BY <1>0
          <6>2. off[j - 1] \in Nat /\ foff[j - 1] \in Nat
            BY <1>f, <6>1
          <6> QED BY <6>2
        <5>3. h(i) = [at |-> k + a, fdNo |-> foff[i - 1]]
          OBVIOUS
        <5> HIDE DEF h, U, a
        <5>4. i - 1 \in Nat /\ \A j \in 1..(i - 1) : j \in 1..i
          OBVIOUS
        <5>5. [j \in 1..(i - 1) |-> h(j)] \in [1..(i - 1) -> U]
          BY <5>2, <5>4
        <5>6. [j \in 1..(i - 1) |-> h(j)] \in Seq(U) /\ Len([j \in 1..(i - 1) |-> h(j)]) = i - 1
          BY <5>4, <5>5, FunctionIsSeq
        <5>7. Append([j \in 1..(i - 1) |-> h(j)], h(i)) = [j \in 1..i |-> h(j)]
          BY <5>2, <5>4, <5>6
        <5> QED BY <5>1, <5>3, <5>7 DEF h
      <4>5. f[i] = Behind(k, off, foff, i)
        BY <4>2, <4>3, <4>4 DEF Behind
      <4>6. k + b <= L
        BY <3>3, <4>3
      <4> QED BY <4>5, <4>6
    <3>4. CASE (k + a) + l > L /\ ArgumentSize(d, k + a) = 0
      <4>1. Over(d, r)
        BY <2>1, <3>4 DEF Over
      <4>2. Lost(d, r)
        BY <2>1, <3>2, <4>1 DEF Lost
      <4>3. k + b > L
        BY <1>1, <3>4
      <4> QED BY <1>2, <4>1, <4>2, <4>3
    <3>5. CASE (k + a) + l > L /\ ArgumentSize(d, k + a) # 0 /\ (k + a) + ArgumentSize(d, k + a) >= L
      <4>1. ~Over(d, r)
        <5>1. ~(k + a >= L)
          BY <1>0, <1>1, <2>3
        <5> QED BY <2>1, <3>5, <5>1 DEF Over
      <4>2. f[i].next = (k + a) + ArgumentSize(d, k + a)
        BY <1>2, <2>1, <4>1 DEF Further
      <4>3. k + b > L
        BY <1>1, <3>5
      <4> QED BY <3>5, <4>2, <4>3 DEF Lost
    <3> QED BY <3>1, <3>3, <3>4, <3>5 DEF FoundArgument
  <2> QED BY <1>0, <1>1, <1>6, <2>2, <2>3
<1> QED BY <1>5, <1>6

(* So all arguments are found, and END behind them.                           *)
LEMMA ArgumentsFound ==
    ASSUME NEW d \in Seq(Byte), NEW k \in Nat,
           NEW P, NEW A, NEW N, NEW flat, NEW off, NEW foff, Laid(P, A, N, flat, off, foff), Stands(d, k, flat)
    PROVE  /\ k + Len(flat) < Len(d) /\ d[k + Len(flat) + 1] = END =>
                Arguments(d, k) = Behind(k, off, foff, N)
           /\ k + Len(flat) >= Len(d) => ~Has(d, Arguments(d, k).next, END)
<1> DEFINE L == Len(d)
<1>0. L \in Nat /\ N \in Nat /\ N \in 0..N
  BY DEF Laid
<1>1. PICK f : Walks(f, d, k) /\ Arguments(d, k) = f[CHOOSE n \in 0..L : Over(d, f[n])]
  BY ArgumentsWalk
<1>2. off \in [0..N -> Nat] /\ off[0] = 0 /\ off[N] = Len(flat) /\ \A i \in 0..N : i <= off[i] /\ off[i] <= off[N]
  BY LaidIs
<1> DEFINE Q(i) == \/ k + off[i] <= L /\ f[i] = Behind(k, off, foff, i)
                   \/ k + off[i] > L /\ Lost(d, f[i])
           B == {i \in 0..L : i <= N => Q(i)}
<1>3. 0 \in B
  <2>1. f[0] = [next |-> k, fds |-> 0, args |-> <<>>] /\ foff[0] = 0
    BY <1>1 DEF Walks, Laid
  <2>2. f[0] = Behind(k, off, foff, 0)
    <3>1. k + off[0] = k
      BY <1>2
    <3>2. [j \in 1..0 |-> [at |-> k + off[j - 1], fdNo |-> foff[j - 1]]] = <<>>
      OBVIOUS
    <3> QED BY <2>1, <3>1, <3>2 DEF Behind
  <2>3. CASE k <= L
    BY <1>0, <1>2, <2>2, <2>3
  <2>4. CASE k > L
    <3>1. Lost(d, f[0])
      BY <1>0, <2>1, <2>4 DEF Lost
    <3> QED BY <1>0, <1>2, <2>4, <3>1
  <2> QED BY <1>0, <2>3, <2>4
<1>4. ASSUME NEW i \in 1..L, i - 1 \in B PROVE i \in B
  <2>1. SUFFICES ASSUME i <= N PROVE Q(i)
    BY <1>0
  <2>2. i \in 1..N /\ i <= Len(d) /\ i - 1 <= N
    BY <1>0, <2>1
  <2>3. Q(i - 1)
    BY <1>4, <2>2
  <2> QED BY <1>1, <2>2, <2>3, WalkStep
<1> HIDE DEF B
<1>5. 0..L \subseteq B
  BY <1>0, <1>3, <1>4, UptoInduction
<1>6. \A i \in 0..L : i <= N => Q(i)
  BY <1>5 DEF B
<1> HIDE DEF Q
<1>7. ASSUME k + Len(flat) < L, d[k + Len(flat) + 1] = END PROVE Arguments(d, k) = Behind(k, off, foff, N)
  <2>1. N \in 0..L
    BY <1>0, <1>2, <1>7
  <2>2. Q(N) /\ k + off[N] < L /\ ~(k + off[N] > L)
    BY <1>0, <1>2, <1>6, <1>7, <2>1
  <2>3. f[N] = Behind(k, off, foff, N)
    BY <2>2 DEF Q
  <2>4. f[N].next = k + off[N] /\ k + off[N] \in Nat
    BY <1>0, <1>2, <2>3 DEF Behind
  <2>5. ArgumentSize(d, k + off[N]) = 0
    BY <1>2, <1>7, <2>4, SizesAre
  <2>6. Over(d, f[N])
    BY <2>4, <2>5 DEF Over
  <2> QED BY <1>1, <2>1, <2>3, <2>6, WalkStays
<1>8. ASSUME k + Len(flat) >= L PROVE ~Has(d, Arguments(d, k).next, END)
  <2>1. PICK m \in 0..L : m <= N /\ k + off[m] >= L
    <3>1. CASE N <= L
      BY <1>0, <1>2, <1>8, <3>1
    <3>2. CASE N > L
      <4>1. L \in 0..N
        BY <1>0, <3>2
      <4>2. off[L] \in Nat /\ L <= off[L] /\ L \in 0..L /\ L <= N
        BY <1>0, <1>2, <4>1
      <4>3. k + off[L] >= L
        BY <1>0, <4>2
      <4> QED BY <4>2, <4>3
    <3> QED BY <1>0, <3>1, <3>2
  <2>2. m \in 0..N /\ off[m] \in Nat
    BY <1>0, <1>2, <2>1
  <2>3. Lost(d, f[m])
    <3>1. Q(m)
      BY <1>6, <2>1
    <3>2. CASE k + off[m] > L /\ Lost(d, f[m])
      BY <3>2
    <3>3. CASE k + off[m] <= L /\ f[m] = Behind(k, off, foff, m)
      <4>1. f[m].next = k + off[m]
        BY <3>3 DEF Behind
      <4> QED BY <2>1, <4>1 DEF Lost
    <3> QED BY <3>1, <3>2, <3>3 DEF Q
  <2>4. Over(d, f[m])
    BY <2>3 DEF Lost, Over
  <2>5. Arguments(d, k) = f[m]
    BY <1>1, <2>1, <2>4, WalkStays
  <2>6. f[m].next \in Nat
    BY <1>1, <2>1 DEF Walks, Walked
  <2>7. ~Has(d, f[m].next, END)
    <3>1. f[m].next >= Len(d) => ~(f[m].next < Len(d))
      BY <1>0, <2>6
    <3> QED BY <2>3, <3>1 DEF Lost, Has
  <2> QED BY <2>5, <2>7
<1> QED BY <1>7, <1>8

(* Sequences may be joined in any order.                                      *)
LEMMA Associative ==
    ASSUME NEW S, NEW a \in Seq(S), NEW b \in Seq(S), NEW c \in Seq(S)
    PROVE  (a \o b) \o c = a \o (b \o c)
OBVIOUS

(* An element of a sequence.                                                  *)
LEMMA InSeq ==
    ASSUME NEW S, NEW s \in Seq(S), NEW i \in 1..Len(s)
    PROVE  s[i] \in S
OBVIOUS

(* A call on the wire: what its method expects, and what it carries.          *)
Params(m) == Expected(TheirMethods[m.method])
GenericHead(object, id) == <<100, OBJECT>> \o object \o <<UINT>> \o id

(* Its arguments are what the parameters ask for.                             *)
LEMMA ArgsFit ==
    ASSUME NEW params, NEW args, NEW N \in Nat, params \in Seq([array : BOOLEAN, type : Types]), N = Len(params),
           Fits(params, args), \A i \in DOMAIN args : ShortArgument(params[i], args[i])
    PROVE  /\ DOMAIN args = 1..N /\ args \in Seq({args[i] : i \in 1..N}) /\ Len(args) = N
           /\ \A i \in 1..N : FitsParam(params[i], args[i])
<1>1. DOMAIN params = 1..N
  OBVIOUS
<1>2. Listed(args) /\ DOMAIN args = 1..N
  <2>1. args = [i \in 1..Len(params) |-> args[i]]
    BY DEF Fits
  <2>2. DOMAIN args = 1..N
    BY <2>1
  <2>3. args \in [1..N -> {args[i] : i \in 1..N}]
    BY <2>1
  <2>4. Len(args) = N
    BY <2>3, FunctionIsSeq
  <2> QED BY <2>1, <2>2, <2>4 DEF Listed
<1>3. args \in [1..N -> {args[i] : i \in 1..N}]
  BY <1>2 DEF Listed, Fits
<1>4. args \in Seq({args[i] : i \in 1..N}) /\ Len(args) = N
  BY <1>3, FunctionIsSeq
<1>5. ASSUME NEW i \in 1..N PROVE FitsParam(params[i], args[i])
  <2>1. params[i] \in [array : BOOLEAN, type : Types]
    BY InSeq
  <2>2. params[i] \in [array : BOOLEAN, type : Kinds]
    BY <2>1, Magics
  <2>3. ShortArgument(params[i], args[i])
    BY <1>2
  <2> DEFINE p == params[i]
             v == args[i]
  <2>4. IF p.array THEN /\ v = [j \in 1..Len(v) |-> v[j]] /\ Len(v) \in Nat
                        /\ \A j \in DOMAIN v : Value(p.type, v[j])
        ELSE Value(p.type, v)
    BY <1>1 DEF Fits
  <2> HIDE DEF p, v
  <2>5. CASE p.array = TRUE
    <3>1. Listed(v) /\ Len(v) \in Nat
      BY <2>4, <2>5 DEF Listed
    <3>2. DOMAIN v = 1..Len(v)
      BY <3>1 DEF Listed
    <3>3. Len(v) \in Lengths /\ \A j \in 1..Len(v) : p.type = VARCHAR => Len(v[j]) \in Lengths
      BY <2>3, <2>5, <3>2 DEF ShortArgument, Short, p, v
    <3>4. \A j \in 1..Len(v) : FitsKind(p.type, v[j])
      BY <2>4, <2>5, <3>2, <3>3 DEF FitsKind, Value
    <3> QED BY <2>2, <2>5, <3>1, <3>3, <3>4 DEF FitsParam, p, v
  <2>6. CASE p.array = FALSE
    <3>1. Value(p.type, v)
      BY <2>4, <2>6
    <3>2. p.type = VARCHAR => Len(v) \in Lengths
      BY <2>3, <2>6 DEF ShortArgument, Short, p, v
    <3>3. FitsKind(p.type, v)
      BY <3>1, <3>2 DEF FitsKind, Value
    <3> QED BY <2>2, <2>6, <3>3 DEF FitsParam, p, v
  <2> QED BY <2>2, <2>5, <2>6 DEF p
<1> QED BY <1>2, <1>4, <1>5

(* The descriptors of an argument.                                            *)
LEMMA DescriptorsAre ==
    ASSUME NEW p, NEW v, FitsParam(p, v)
    PROVE  LET ds == Descriptors(p, v)
           IN  Len(ds) \in Nat /\ ds \in Seq({ds[j] : j \in 1..Len(ds)})
<1>1. CASE p.type # FD
  BY <1>1 DEF Descriptors
<1>2. CASE p.type = FD /\ p.array = FALSE
  <2>1. Descriptors(p, v) = <<v>>
    BY <1>2 DEF Descriptors
  <2>2. Len(<<v>>) = 1 /\ <<v>> \in Seq({<<v>>[j] : j \in 1..Len(<<v>>)})
    <3>1. Len(<<v>>) = 1 /\ <<v>>[1] = v
      OBVIOUS
    <3>2. {<<v>>[j] : j \in 1..Len(<<v>>)} = {v}
      BY <3>1
    <3>3. <<v>> \in Seq({v})
      OBVIOUS
    <3> QED BY <3>1, <3>2, <3>3
  <2> QED BY <2>1, <2>2
<1>3. CASE p.type = FD /\ p.array = TRUE
  <2>1. Descriptors(p, v) = v
    BY <1>3 DEF Descriptors
  <2>2. Listed(v) /\ Len(v) \in Nat
    BY <1>3 DEF FitsParam, Lengths
  <2> DEFINE U == {v[j] : j \in 1..Len(v)}
  <2>3. v \in [1..Len(v) -> U]
    BY <2>2 DEF Listed
  <2>4. v \in Seq(U)
    <3> HIDE DEF U
    <3> QED BY <2>2, <2>3, FunctionIsSeq
  <2> QED BY <2>1, <2>2, <2>4
<1> QED BY <1>1, <1>2, <1>3 DEF FitsParam

(* A sequence over a smaller set is one over a larger set.                    *)
LEMMA SeqWider ==
    ASSUME NEW S, NEW T, S \subseteq T, NEW s \in Seq(S)
    PROVE  s \in Seq(T)
OBVIOUS

(* One element in front of a sequence.                                        *)
LEMMA OneInFront ==
    ASSUME NEW S, NEW q, NEW s \in Seq(S)
    PROVE  /\ Len(<<q>> \o s) = Len(s) + 1 /\ (<<q>> \o s)[1] = q
           /\ \A k \in 1..(Len(s) + 1) : k # 1 => k - 1 \in 1..Len(s) /\ (<<q>> \o s)[k] = s[k - 1]
<1>1. s \in Seq(S \cup {q}) /\ <<q>> \in Seq(S \cup {q})
  BY SeqWider
<1> QED BY <1>1

(* What a call lays out for a method, and the same by its parameters with the *)
(* sequence among them.                                                       *)
Blocks(P, A) == [i \in 1..Len(P) |-> Argument(P[i], A[i])]
Handed(P, A) == [i \in 1..Len(P) |-> Descriptors(P[i], A[i])]
InParts(method, seq, args, P, A) ==
    /\ Len(P) \in Nat /\ Len(A) = Len(P) /\ Listed(A) /\ Listed(P)
    /\ \A i \in 1..Len(P) : FitsParam(P[i], A[i])
    /\ FlattenSeq([i \in DOMAIN args |-> Argument(method.params[i], args[i])]) \in Seq(Byte)
    /\ (IF method.returns THEN <<SEQ>> \o seq ELSE <<>>)
         \o FlattenSeq([i \in DOMAIN args |-> Argument(method.params[i], args[i])]) = FlattenSeq(Blocks(P, A))
    /\ CallFds(method, args) = FlattenSeq(Handed(P, A))

(* The blocks of bytes, and those of descriptors, are sequences.              *)
LEMMA BlocksAre ==
    ASSUME NEW P, NEW A, Len(P) \in Nat, \A i \in 1..Len(P) : FitsParam(P[i], A[i])
    PROVE  /\ Blocks(P, A) \in Seq(Seq(Byte)) /\ Len(Blocks(P, A)) = Len(P)
           /\ \E S : Handed(P, A) \in Seq(Seq(S)) /\ Len(Handed(P, A)) = Len(P)
<1>1. Blocks(P, A) \in [1..Len(P) -> Seq(Byte)]
  BY ArgumentIs DEF Blocks
<1>2. Blocks(P, A) \in Seq(Seq(Byte)) /\ Len(Blocks(P, A)) = Len(P)
  BY <1>1, FunctionIsSeq
<1> DEFINE D(i) == Descriptors(P[i], A[i])
           S == UNION {{D(i)[j] : j \in 1..Len(D(i))} : i \in 1..Len(P)}
<1>3. ASSUME NEW i \in 1..Len(P) PROVE D(i) \in Seq(S)
  <2>1. D(i) \in Seq({D(i)[j] : j \in 1..Len(D(i))})
    BY DescriptorsAre
  <2>2. {D(i)[j] : j \in 1..Len(D(i))} \subseteq S
    OBVIOUS
  <2> HIDE DEF S, D
  <2> QED BY <2>1, <2>2, SeqWider
<1>4. Handed(P, A) \in [1..Len(P) -> Seq(S)]
  <2> HIDE DEF S
  <2> QED BY <1>3 DEF Handed
<1>5. Handed(P, A) \in Seq(Seq(S)) /\ Len(Handed(P, A)) = Len(P)
  <2> HIDE DEF S
  <2> QED BY <1>4, FunctionIsSeq
<1> QED BY <1>2, <1>5

(* The sequence of a method that returns an object is its first argument.     *)
LEMMA SeqArgument ==
    ASSUME NEW q, q = [array |-> FALSE, type |-> SEQ], NEW v \in U32
    PROVE  /\ FitsParam(q, v) /\ Argument(q, v) = <<SEQ>> \o v /\ Descriptors(q, v) = <<>>
           /\ <<SEQ>> \o v \in Seq(Byte) /\ q \in [array : BOOLEAN, type : Kinds]
<1>1. SEQ \in Words /\ SEQ # FD /\ SEQ # VARCHAR /\ SEQ \in Kinds /\ SEQ \in Byte
  BY Magics DEF Kinds
<1>2. q.array = FALSE /\ q.type = SEQ /\ q \in [array : BOOLEAN, type : Kinds]
  BY <1>1
<1>3. Argument(q, v) = <<SEQ>> \o v
  <2>1. Element(SEQ, v) = v
    BY <1>1, ElementIs
  <2> QED BY <1>2, <2>1 DEF Argument
<1>4. <<SEQ>> \o v \in Seq(Byte)
  <2>1. v \in Seq(Byte)
    BY WordIs
  <2>2. <<SEQ>> \in Seq(Byte)
    BY <1>1
  <2> QED BY <2>1, <2>2
<1>5. Descriptors(q, v) = <<>>
  BY <1>1, <1>2 DEF Descriptors
<1>6. FitsParam(q, v)
  <2>1. FitsKind(SEQ, v)
    BY <1>1 DEF FitsKind
  <2> QED BY <1>2, <2>1 DEF FitsParam
<1> QED BY <1>2, <1>3, <1>4, <1>5, <1>6

(* A call with a sequence is made of it and of its arguments.                 *)
LEMMA PartsWithSeq ==
    ASSUME NEW method, NEW params, params = method.params, params \in Seq([array : BOOLEAN, type : Types]),
           method.returns = TRUE,
           NEW seq \in U32, NEW args, NEW N \in Nat, N = Len(params), DOMAIN args = 1..N, Len(args) = N,
           args \in Seq({args[i] : i \in 1..N}), \A i \in 1..N : FitsParam(params[i], args[i]),
           NEW P, P = <<[array |-> FALSE, type |-> SEQ]>> \o params, NEW A, A = <<seq>> \o args
    PROVE  InParts(method, seq, args, P, A)
<1> DEFINE q == [array |-> FALSE, type |-> SEQ]
<1>q. /\ FitsParam(q, seq) /\ Argument(q, seq) = <<SEQ>> \o seq /\ Descriptors(q, seq) = <<>>
      /\ <<SEQ>> \o seq \in Seq(Byte)
  BY SeqArgument
<1>1. P = <<q>> \o params
  OBVIOUS
<1> HIDE DEF q
<1>2. Len(P) = N + 1 /\ P[1] = q /\ \A k \in 1..(N + 1) : k # 1 => k - 1 \in 1..N /\ P[k] = params[k - 1]
  BY <1>1, OneInFront
<1>3. Len(A) = N + 1 /\ A[1] = seq /\ \A k \in 1..(N + 1) : k # 1 => k - 1 \in 1..N /\ A[k] = args[k - 1]
  <2>1. /\ Len(<<seq>> \o args) = Len(args) + 1 /\ (<<seq>> \o args)[1] = seq
        /\ \A k \in 1..(Len(args) + 1) : k # 1 => k - 1 \in 1..Len(args) /\ (<<seq>> \o args)[k] = args[k - 1]
    BY OneInFront
  <2> QED BY <2>1
<1>4. Listed(A)
  <2> DEFINE U == {args[i] : i \in 1..N} \cup {seq}
  <2>1. args \in Seq(U)
    <3>1. {args[i] : i \in 1..N} \subseteq U
      OBVIOUS
    <3> HIDE DEF U
    <3> QED BY <3>1, SeqWider
  <2>2. <<seq>> \in Seq(U)
    OBVIOUS
  <2> HIDE DEF U
  <2>3. A \in Seq(U)
    BY <2>1, <2>2
  <2> QED BY <2>3 DEF Listed
<1>5. \A i \in 1..Len(P) : FitsParam(P[i], A[i])
  <2> TAKE i \in 1..Len(P)
  <2>1. CASE i = 1
    BY <1>q, <1>2, <1>3, <2>1
  <2>2. CASE i # 1
    BY <1>2, <1>3, <2>2
  <2> QED BY <2>1, <2>2
<1> DEFINE bs == [i \in DOMAIN args |-> Argument(params[i], args[i])]
           hs == [i \in DOMAIN args |-> Descriptors(params[i], args[i])]
<1>6. bs = Blocks(params, args) /\ hs = Handed(params, args)
  BY DEF Blocks, Handed
<1>7. bs \in Seq(Seq(Byte)) /\ Len(bs) = N /\ \E S : hs \in Seq(Seq(S)) /\ Len(hs) = N
  <2>1. /\ Blocks(params, args) \in Seq(Seq(Byte)) /\ Len(Blocks(params, args)) = Len(params)
        /\ \E S : Handed(params, args) \in Seq(Seq(S)) /\ Len(Handed(params, args)) = Len(params)
    BY BlocksAre
  <2> HIDE DEF bs, hs
  <2> QED BY <1>6, <2>1
<1>8. Blocks(P, A) = [k \in 1..(Len(bs) + 1) |-> IF k = 1 THEN <<SEQ>> \o seq ELSE bs[k - 1]]
  <2>1. \A k \in 1..(N + 1) : Argument(P[k], A[k]) = IF k = 1 THEN <<SEQ>> \o seq ELSE bs[k - 1]
    <3> TAKE k \in 1..(N + 1)
    <3>1. CASE k = 1
      BY <1>q, <1>2, <1>3, <3>1
    <3>2. CASE k # 1
      BY <1>2, <1>3, <3>2
    <3> QED BY <3>1, <3>2
  <2> HIDE DEF bs
  <2> QED BY <1>2, <1>7, <2>1 DEF Blocks
<1>9. Handed(P, A) = [k \in 1..(Len(hs) + 1) |-> IF k = 1 THEN <<>> ELSE hs[k - 1]]
  <2>1. \A k \in 1..(N + 1) : Descriptors(P[k], A[k]) = IF k = 1 THEN <<>> ELSE hs[k - 1]
    <3> TAKE k \in 1..(N + 1)
    <3>1. CASE k = 1
      BY <1>q, <1>2, <1>3, <3>1
    <3>2. CASE k # 1
      BY <1>2, <1>3, <3>2
    <3> QED BY <3>1, <3>2
  <2> HIDE DEF hs
  <2> QED BY <1>2, <1>7, <2>1 DEF Handed
<1>10. FlattenSeq(Blocks(P, A)) = (<<SEQ>> \o seq) \o FlattenSeq(bs)
  <2> HIDE DEF bs
  <2> QED BY <1>q, <1>7, <1>8, FlattenBehind
<1>11. FlattenSeq(Handed(P, A)) = FlattenSeq(hs)
  <2> HIDE DEF hs
  <2>1. PICK S : hs \in Seq(Seq(S))
    BY <1>7
  <2>0. \A s \in Seq(S) : <<>> \o s = s
    BY ConcatEmptySeq
  <2>2. <<>> \in Seq(S)
    OBVIOUS
  <2>3. FlattenSeq(Handed(P, A)) = <<>> \o FlattenSeq(hs)
    BY <1>9, <2>1, <2>2, FlattenBehind
  <2>4. FlattenSeq(hs) \in Seq(S)
    BY <2>1, Flattened
  <2> QED BY <2>0, <2>3, <2>4
<1>12. CallFds(method, args) = FlattenSeq(hs)
  BY DEF CallFds
<1>13. [i \in DOMAIN args |-> Argument(method.params[i], args[i])] = bs
  OBVIOUS
<1>14. Len(P) \in Nat /\ Len(A) = Len(P)
  BY <1>2, <1>3
<1>16. Listed(P)
  <2> DEFINE U == [array : BOOLEAN, type : Types] \cup {q}
  <2>1. params \in Seq(U)
    <3>1. [array : BOOLEAN, type : Types] \subseteq U
      OBVIOUS
    <3> HIDE DEF U
    <3> QED BY <3>1, SeqWider
  <2>2. <<q>> \in Seq(U)
    OBVIOUS
  <2> HIDE DEF U
  <2>3. P \in Seq(U)
    <3>1. \A s, t \in Seq(U) : s \o t \in Seq(U)
      OBVIOUS
    <3>2. <<q>> \o params \in Seq(U)
      BY <2>1, <2>2, <3>1
    <3> QED BY <1>1, <3>2, Zenon
  <2> QED BY <2>3 DEF Listed
<1>15. FlattenSeq(bs) \in Seq(Byte)
  <2> HIDE DEF bs
  <2> QED BY <1>7, Flattened
<1> HIDE DEF bs, hs
<1> QED BY <1>4, <1>5, <1>10, <1>11, <1>12, <1>13, <1>14, <1>15, <1>16 DEF InParts

(* A call of a method that returns nothing is made of its arguments alone.    *)
LEMMA PartsWithoutSeq ==
    ASSUME NEW method, NEW params, params = method.params, params \in Seq([array : BOOLEAN, type : Types]),
           method.returns = FALSE,
           NEW seq \in U32, NEW args, NEW N \in Nat, N = Len(params), DOMAIN args = 1..N, Len(args) = N,
           args \in Seq({args[i] : i \in 1..N}), \A i \in 1..N : FitsParam(params[i], args[i]),
           NEW P, P = <<>> \o params, NEW A, A = <<>> \o args
    PROVE  InParts(method, seq, args, P, A)
<1>1. P = params /\ A = args
  OBVIOUS
<1>2. Listed(A) /\ Listed(P)
  <2>1. args = [j \in 1..Len(args) |-> args[j]]
    OBVIOUS
  <2>2. params = [j \in 1..Len(params) |-> params[j]]
    OBVIOUS
  <2> QED BY <1>1, <2>1, <2>2, Zenon DEF Listed
<1>3. [i \in DOMAIN args |-> Argument(params[i], args[i])] = Blocks(P, A)
  BY <1>1 DEF Blocks
<1>4. [i \in DOMAIN args |-> Descriptors(params[i], args[i])] = Handed(P, A)
  BY <1>1 DEF Handed
<1>5. Blocks(P, A) \in Seq(Seq(Byte))
  BY <1>1, BlocksAre
<1>6. FlattenSeq(Blocks(P, A)) \in Seq(Byte)
  BY <1>5, Flattened
<1>7. <<>> \o FlattenSeq(Blocks(P, A)) = FlattenSeq(Blocks(P, A))
  BY <1>6
<1>8. CallFds(method, args) = FlattenSeq(Handed(P, A))
  BY <1>4 DEF CallFds
<1> QED BY <1>1, <1>2, <1>3, <1>6, <1>7, <1>8 DEF InParts

(* So for every call that a peer makes.                                       *)
CallParts(m) == InParts(TheirMethods[m.method], m.seq, m.args, Params(m), Meaning(m).values)

(* Every call is.                                                             *)
LEMMA CallIsInParts ==
    ASSUME NEW m, FromBoth(m), Encodable(m)
    PROVE  CallParts(m) /\ m.object \in U32 /\ m.method \in U32 /\ m.code = "GENERIC" /\ m.deferred \in BOOLEAN
<1>1. /\ m.code = "GENERIC" /\ m.object \in U32 /\ m.method \in DOMAIN TheirMethods /\ m.seq \in U32
      /\ m.deferred \in BOOLEAN
      /\ Fits(TheirMethods[m.method].params, m.args)
  BY DEF FromBoth
<1> DEFINE method == TheirMethods[m.method]
           params == method.params
           args == m.args
           N == Len(params)
<1>2. method \in Method /\ m.method \in U32
  BY <1>1, CodecAssumption
<1>3. params \in Seq([array : BOOLEAN, type : Types]) /\ method.returns \in BOOLEAN
  BY <1>2 DEF Method
<1>4. \A i \in DOMAIN args : ShortArgument(params[i], args[i])
  BY <1>1 DEF Encodable
<1>5. Fits(params, args)
  BY <1>1
<1>6. Meaning(m).values = (IF method.returns THEN <<m.seq>> ELSE <<>>) \o args
  BY <1>1 DEF Meaning
<1>7. Params(m) = (IF method.returns THEN <<[array |-> FALSE, type |-> SEQ]>> ELSE <<>>) \o params
  BY DEF Params, Expected
<1>8. N \in Nat
  BY <1>3
<1> HIDE DEF args, N
<1>9. /\ DOMAIN args = 1..N /\ args \in Seq({args[i] : i \in 1..N}) /\ Len(args) = N
      /\ \A i \in 1..N : FitsParam(params[i], args[i])
  <2> HIDE DEF params
  <2>1. N = Len(params)
    BY DEF N
  <2> QED BY <1>3, <1>4, <1>5, <1>8, <2>1, ArgsFit
<1>10. InParts(method, m.seq, args, Params(m), Meaning(m).values)
  <2>1. CASE method.returns = TRUE
    <3>1. Params(m) = <<[array |-> FALSE, type |-> SEQ]>> \o params
      BY <1>7, <2>1
    <3>2. Meaning(m).values = <<m.seq>> \o args
      BY <1>6, <2>1
    <3>3. N = Len(params) /\ params = method.params
      BY DEF N
    <3> HIDE DEF method, params
    <3> QED BY <1>1, <1>3, <1>8, <1>9, <2>1, <3>1, <3>2, <3>3, PartsWithSeq
  <2>2. CASE method.returns = FALSE
    <3>1. Params(m) = <<>> \o params
      BY <1>7, <2>2
    <3>2. Meaning(m).values = <<>> \o args
      BY <1>6, <2>2
    <3>3. N = Len(params) /\ params = method.params
      BY DEF N
    <3> HIDE DEF method, params
    <3> QED BY <1>1, <1>3, <1>8, <1>9, <2>2, <3>1, <3>2, <3>3, PartsWithoutSeq
  <2> QED BY <1>3, <2>1, <2>2
<1> QED BY <1>1, <1>2, <1>10 DEF CallParts, args

JoinedAre(a, b, c) ==
    /\ c \in Seq(Byte) /\ Len(a) \in Nat /\ Len(b) \in Nat /\ Len(c) = Len(a) + Len(b)
    /\ \A i \in 1..Len(a) : c[i] = a[i]
    /\ \A i \in 1..Len(b) : c[Len(a) + i] = b[i]
    /\ \A p \in 1..(Len(a) + Len(b)) : c[p] = IF p <= Len(a) THEN a[p] ELSE b[p - Len(a)]

(* Bytes behind bytes.                                                        *)
LEMMA JoinedBytes ==
    ASSUME NEW a \in Seq(Byte), NEW b \in Seq(Byte)
    PROVE  JoinedAre(a, b, a \o b)
<1>1. /\ a \o b \in Seq(Byte) /\ Len(a) \in Nat /\ Len(b) \in Nat /\ Len(a \o b) = Len(a) + Len(b)
      /\ \A i \in 1..Len(a) : (a \o b)[i] = a[i]
      /\ \A i \in 1..Len(b) : (a \o b)[Len(a) + i] = b[i]
  OBVIOUS
<1>2. \A p \in 1..(Len(a) + Len(b)) : (a \o b)[p] = IF p <= Len(a) THEN a[p] ELSE b[p - Len(a)]
  OBVIOUS
<1> QED BY <1>1, <1>2 DEF JoinedAre

(* The bytes in front of the arguments.                                       *)
LEMMA HeadIs ==
    ASSUME NEW object \in U32, NEW id \in U32
    PROVE  LET h == GenericHead(object, id)
           IN /\ h \in Seq(Byte) /\ Len(h) = 11 /\ h[1] = 100 /\ h[2] = OBJECT /\ h[7] = UINT
              /\ \A i \in 1..4 : h[2 + i] = object[i] /\ h[7 + i] = id[i]
<1>1. object \in Seq(Byte) /\ Len(object) = 4 /\ id \in Seq(Byte) /\ Len(id) = 4
  BY WordIs
<1>2. <<100, OBJECT>> \in Seq(Byte) /\ <<UINT>> \in Seq(Byte)
  BY DEF Byte, OBJECT, UINT
<1> DEFINE a == <<100, OBJECT>> \o object
           b == a \o <<UINT>>
<1>3. a \in Seq(Byte) /\ Len(a) = 6 /\ a[1] = 100 /\ a[2] = OBJECT /\ \A i \in 1..4 : a[2 + i] = object[i]
  <2> DEFINE o == <<100, OBJECT>>
  <2>1. Len(o) = 2 /\ o[1] = 100 /\ o[2] = OBJECT /\ o \in Seq(Byte) /\ 1 \in 1..2 /\ 2 \in 1..2
    BY <1>2
  <2> HIDE DEF o
  <2>2. JoinedAre(o, object, o \o object)
    BY <1>1, <2>1, JoinedBytes
  <2>3. a = o \o object /\ 2 + 4 = 6
    BY DEF o
  <2> HIDE DEF a
  <2>4. JoinedAre(o, object, a)
    BY <2>2, <2>3
  <2>5. a \in Seq(Byte) /\ Len(a) = 2 + 4
    BY <1>1, <2>1, <2>4 DEF JoinedAre
  <2>6. a[1] = o[1] /\ a[2] = o[2]
    BY <2>1, <2>4 DEF JoinedAre
  <2>7. \A i \in 1..4 : a[2 + i] = object[i]
    BY <1>1, <2>1, <2>4 DEF JoinedAre
  <2> QED BY <2>1, <2>3, <2>5, <2>6, <2>7
<1> HIDE DEF a
<1>4. b \in Seq(Byte) /\ Len(b) = 7 /\ b[7] = UINT /\ \A i \in 1..6 : b[i] = a[i]
  <2> DEFINE o == <<UINT>>
  <2>1. Len(o) = 1 /\ o[1] = UINT /\ o \in Seq(Byte) /\ 1 \in 1..1 /\ 6 + 1 = 7
    BY <1>2
  <2> HIDE DEF o
  <2>2. JoinedAre(a, o, a \o o)
    BY <1>3, <2>1, JoinedBytes
  <2>3. b = a \o o
    BY DEF o
  <2> HIDE DEF b
  <2>4. b[7] = UINT
    <3>1. (a \o o)[6 + 1] = o[1]
      BY <1>3, <2>1, <2>2 DEF JoinedAre
    <3> QED BY <2>1, <2>3, <3>1
  <2> QED BY <1>3, <2>1, <2>2, <2>3, <2>4 DEF JoinedAre
<1> HIDE DEF b
<1>5. b \o id \in Seq(Byte) /\ Len(b \o id) = 11 /\ (\A i \in 1..7 : (b \o id)[i] = b[i])
      /\ \A i \in 1..4 : (b \o id)[7 + i] = id[i]
  <2>1. JoinedAre(b, id, b \o id)
    BY <1>1, <1>4, JoinedBytes
  <2> DEFINE w == b \o id
  <2>2. JoinedAre(b, id, w) /\ 7 + 4 = 11
    BY <2>1
  <2> HIDE DEF w
  <2>3. w \in Seq(Byte) /\ Len(w) = 7 + 4
    BY <1>1, <1>4, <2>2 DEF JoinedAre
  <2>4. \A i \in 1..7 : w[i] = b[i]
    BY <1>4, <2>2 DEF JoinedAre
  <2>5. \A i \in 1..4 : w[7 + i] = id[i]
    BY <1>1, <1>4, <2>2 DEF JoinedAre
  <2> QED BY <2>2, <2>3, <2>4, <2>5 DEF w
<1>6. GenericHead(object, id) = b \o id
  BY DEF GenericHead, a, b
<1>7. \A i \in 1..4 : 2 + i \in 1..6 /\ 2 + i \in 1..7
  OBVIOUS
<1>8. /\ b[1] = 100 /\ b[2] = OBJECT /\ \A i \in 1..4 : b[2 + i] = object[i]
  BY <1>3, <1>4, <1>7
<1> DEFINE h == GenericHead(object, id)
<1>9. h[1] = 100 /\ h[2] = OBJECT /\ h[7] = UINT
  <2>1. 1 \in 1..7 /\ 2 \in 1..7 /\ 7 \in 1..7
    OBVIOUS
  <2> DEFINE w == b \o id
  <2>2. h = w
    BY <1>6
  <2>3. w[1] = b[1] /\ w[2] = b[2] /\ w[7] = b[7]
    BY <1>5, <2>1
  <2> HIDE DEF w, h
  <2> QED BY <1>4, <1>8, <2>2, <2>3
<1>10. ASSUME NEW i \in 1..4 PROVE h[2 + i] = object[i] /\ h[7 + i] = id[i]
  <2>1. h = b \o id
    BY <1>6
  <2> HIDE DEF h
  <2>2. (b \o id)[2 + i] = b[2 + i]
    BY <1>5, <1>7
  <2> QED BY <1>5, <1>8, <2>1, <2>2
<1> QED BY <1>5, <1>6, <1>9, <1>10

LaidOut(object, id, method, seq, args, P, A) ==
    CallBytes(object, id, method, seq, args) = GenericHead(object, id) \o (FlattenSeq(Blocks(P, A)) \o <<END>>)

(* The layout of a call: head, arguments, END.                                *)
LEMMA CallLayout ==
    ASSUME NEW object \in U32, NEW id \in U32, NEW method, NEW seq, NEW args, NEW P, NEW A,
           InParts(method, seq, args, P, A), method.returns \in BOOLEAN, seq \in U32
    PROVE  LaidOut(object, id, method, seq, args, P, A)
<1> DEFINE sq == IF method.returns THEN <<SEQ>> \o seq ELSE <<>>
           flat == FlattenSeq([i \in DOMAIN args |-> Argument(method.params[i], args[i])])
           h == GenericHead(object, id)
<1>1. h \in Seq(Byte)
  BY HeadIs
<1>2. sq \in Seq(Byte)
  <2>1. <<SEQ>> \o seq \in Seq(Byte)
    BY SeqArgument
  <2>2. <<>> \in Seq(Byte)
    OBVIOUS
  <2> QED BY <2>1, <2>2
<1>3. flat \in Seq(Byte) /\ <<END>> \in Seq(Byte)
  BY Magics DEF InParts
<1>4. CallBytes(object, id, method, seq, args) = ((h \o sq) \o flat) \o <<END>>
  BY DEF CallBytes, GenericHead
<1>5. sq \o flat = FlattenSeq(Blocks(P, A))
  BY DEF InParts
<1> HIDE DEF sq, flat, h
<1>6. (h \o sq) \o flat = h \o (sq \o flat)
  BY <1>1, <1>2, <1>3, ConcatAssociative
<1>7. sq \o flat \in Seq(Byte)
  BY <1>2, <1>3
<1>8. (h \o (sq \o flat)) \o <<END>> = h \o ((sq \o flat) \o <<END>>)
  BY <1>1, <1>3, <1>7, ConcatAssociative
<1> QED BY <1>4, <1>5, <1>6, <1>8 DEF h, LaidOut

(* resolveSeq makes of a call for an object without an id one for the object. *)
LEMMA Resolved ==
    ASSUME NEW object \in U32, NEW id \in U32, NEW rest \in Seq(Byte), \A k \in 2..4 : object[k] = 0
    PROVE  ResolveSeq(GenericHead(Zero, id) \o rest, object) = GenericHead(object, id) \o rest
<1> DEFINE z == GenericHead(Zero, id)
           h == GenericHead(object, id)
           s == ResolveSeq(z \o rest, object)
           t == h \o rest
           n == 11 + Len(rest)
<1>0. Zero \in U32 /\ \A i \in 1..4 : Zero[i] = 0
  BY DEF Zero, U32, Byte
<1>1. /\ z \in Seq(Byte) /\ Len(z) = 11 /\ z[1] = 100 /\ z[2] = OBJECT /\ z[7] = UINT
      /\ \A i \in 1..4 : z[2 + i] = 0 /\ z[7 + i] = id[i]
  <2> DEFINE o == Zero
  <2>1. o \in U32 /\ \A i \in 1..4 : o[i] = 0
    BY <1>0
  <2> HIDE DEF o
  <2>2. LET g == GenericHead(o, id)
        IN /\ g \in Seq(Byte) /\ Len(g) = 11 /\ g[1] = 100 /\ g[2] = OBJECT /\ g[7] = UINT
           /\ \A i \in 1..4 : g[2 + i] = o[i] /\ g[7 + i] = id[i]
    BY <2>1, HeadIs
  <2> QED BY <2>1, <2>2 DEF o
<1>2. /\ h \in Seq(Byte) /\ Len(h) = 11 /\ h[1] = 100 /\ h[2] = OBJECT /\ h[7] = UINT
      /\ \A i \in 1..4 : h[2 + i] = object[i] /\ h[7 + i] = id[i]
  BY HeadIs
<1>3. object[1] \in Byte
  BY DEF U32
<1>4. s = [z \o rest EXCEPT ![3] = object[1]]
  BY DEF ResolveSeq
<1> HIDE DEF z, h, s
<1>5. /\ z \o rest \in Seq(Byte) /\ Len(z \o rest) = n
      /\ \A p \in 1..n : (z \o rest)[p] = IF p <= 11 THEN z[p] ELSE rest[p - 11]
  <2>1. JoinedAre(z, rest, z \o rest)
    BY <1>1, JoinedBytes
  <2> QED BY <1>1, <2>1 DEF JoinedAre
<1>6. /\ t \in Seq(Byte) /\ Len(t) = n
      /\ \A p \in 1..n : t[p] = IF p <= 11 THEN h[p] ELSE rest[p - 11]
  <2>1. JoinedAre(h, rest, t)
    BY <1>2, JoinedBytes
  <2> QED BY <1>2, <2>1 DEF JoinedAre
<1> HIDE DEF t
<1>7. n \in Nat /\ 3 \in 1..n
  OBVIOUS
<1>8. s \in [1..n -> Byte] /\ s[3] = object[1] /\ \A p \in 1..n : p # 3 => s[p] = (z \o rest)[p]
  <2> DEFINE w == z \o rest
  <2>1. w \in [1..n -> Byte]
    <3>1. w \in Seq(Byte) /\ Len(w) = n
      BY <1>5
    <3> HIDE DEF w
    <3> QED BY <3>1
  <2> HIDE DEF w, n
  <2>2. [w EXCEPT ![3] = object[1]] \in [1..n -> Byte]
    BY <2>1, <1>3, <1>7
  <2>3. [w EXCEPT ![3] = object[1]][3] = object[1] /\ \A p \in 1..n : p # 3 => [w EXCEPT ![3] = object[1]][p] = w[p]
    BY <2>1, <1>3, <1>7
  <2> QED BY <1>4, <2>2, <2>3 DEF w
<1>9. s \in Seq(Byte) /\ Len(s) = n
  <2> HIDE DEF n
  <2> QED BY <1>7, <1>8, FunctionIsSeq
<1>10. ASSUME NEW p \in 1..n PROVE s[p] = t[p]
  <2>0. h[3] = object[1] /\ h[4] = 0 /\ h[5] = 0 /\ h[6] = 0 /\ z[4] = 0 /\ z[5] = 0 /\ z[6] = 0
    <3>1. h[2 + 1] = object[1] /\ h[2 + 2] = object[2] /\ h[2 + 3] = object[3] /\ h[2 + 4] = object[4]
      BY <1>2
    <3>2. z[2 + 2] = 0 /\ z[2 + 3] = 0 /\ z[2 + 4] = 0
      BY <1>1
    <3>3. object[2] = 0 /\ object[3] = 0 /\ object[4] = 0
      OBVIOUS
    <3> QED BY <3>1, <3>2, <3>3
  <2>1. \A i \in 8..11 : h[i] = z[i]
    <3>1. h[7 + 1] = z[7 + 1] /\ h[7 + 2] = z[7 + 2] /\ h[7 + 3] = z[7 + 3] /\ h[7 + 4] = z[7 + 4]
      BY <1>1, <1>2
    <3> QED BY <3>1
  <2>2. \A i \in 1..11 : i # 3 => h[i] = z[i]
    <3> TAKE i \in 1..11
    <3>1. i \in {1, 2, 3, 4, 5, 6, 7} \/ i \in 8..11
      OBVIOUS
    <3> QED BY <3>1, <2>0, <2>1, <1>1, <1>2
  <2>3. CASE p = 3
    BY <1>6, <1>8, <2>0, <2>3
  <2>4. CASE p # 3 /\ p <= 11
    <3>1. p \in 1..11 /\ (z \o rest)[p] = z[p] /\ t[p] = h[p]
      BY <1>5, <1>6, <1>7, <2>4
    <3> QED BY <1>8, <2>2, <2>4, <3>1
  <2>5. CASE p > 11
    BY <1>5, <1>6, <1>8, <2>5
  <2> QED BY <2>3, <2>4, <2>5
<1>11. s = t
  <2> HIDE DEF n
  <2> QED BY <1>6, <1>9, <1>10, SameSeq
<1> QED BY <1>11 DEF s, t, z, h

(* Where the arguments of a call are in its layout, and its descriptors.      *)
CallLaid(m, flat, off, foff) ==
    /\ Laid(Params(m), Meaning(m).values, Len(Params(m)), flat, off, foff)
    /\ Len(Meaning(m).values) = Len(Params(m)) /\ Listed(Meaning(m).values)
    /\ Listed(Params(m))
    /\ PartsOf(Carried(m), Handed(Params(m), Meaning(m).values), foff)
    /\ \E S : Carried(m) \in Seq(S)
    /\ Layout(m) = GenericHead(m.object, m.method) \o (flat \o <<END>>)

(* Every call is laid out so.                                                 *)
LEMMA CallIsLaid ==
    ASSUME NEW m, FromBoth(m), Encodable(m)
    PROVE  \E flat, off, foff : CallLaid(m, flat, off, foff)
<1> DEFINE P == Params(m)
           A == Meaning(m).values
           N == Len(P)
           method == TheirMethods[m.method]
           flat == FlattenSeq(Blocks(P, A))
<1>1. /\ InParts(method, m.seq, m.args, P, A) /\ m.object \in U32 /\ m.method \in U32 /\ m.code = "GENERIC"
      /\ m.deferred \in BOOLEAN
  BY CallIsInParts DEF CallParts
<1>2. /\ N \in Nat /\ Len(A) = N /\ Listed(A) /\ Listed(P)
      /\ \A i \in 1..N : FitsParam(P[i], A[i])
  BY <1>1 DEF InParts
<1>3. Carried(m) = FlattenSeq(Handed(P, A))
  BY <1>1 DEF InParts, Carried
<1>4. method.returns \in BOOLEAN /\ m.seq \in U32
  BY CodecAssumption DEF FromBoth, Method
<1>5. \A object \in U32 : CallBytes(object, m.method, method, m.seq, m.args)
                            = GenericHead(object, m.method) \o (flat \o <<END>>)
  <2> HIDE DEF P, A, method, N
  <2> TAKE object \in U32
  <2>1. CallBytes(object, m.method, method, m.seq, m.args)
          = GenericHead(object, m.method) \o (FlattenSeq(Blocks(P, A)) \o <<END>>)
    <3>1. m.method \in U32 /\ InParts(method, m.seq, m.args, P, A) /\ method.returns \in BOOLEAN /\ m.seq \in U32
      BY <1>1, <1>4
    <3>2. LaidOut(object, m.method, method, m.seq, m.args, P, A)
      BY <3>1, CallLayout
    <3> QED BY <3>2 DEF LaidOut
  <2> QED BY <2>1
<1>6. /\ Blocks(P, A) \in Seq(Seq(Byte)) /\ Len(Blocks(P, A)) = N
      /\ \E S : Handed(P, A) \in Seq(Seq(S)) /\ Len(Handed(P, A)) = N
  BY <1>2, BlocksAre
<1>7. flat \in Seq(Byte) /\ \E off : PartsOf(flat, Blocks(P, A), off)
  <2> HIDE DEF P, A
  <2> QED BY <1>6, Flattened
<1>8. Layout(m) = GenericHead(m.object, m.method) \o (flat \o <<END>>)
  <2>1. CASE ~m.deferred
    <3>1. Layout(m) = CallBytes(m.object, m.method, method, m.seq, m.args)
      BY <1>1, <2>1 DEF Layout
    <3> QED BY <1>1, <1>5, <3>1
  <2>2. CASE m.deferred
    <3>1. Layout(m) = ResolveSeq(CallBytes(Zero, m.method, method, m.seq, m.args), m.object)
      BY <1>1, <2>2 DEF Layout
    <3>2. Zero \in U32
      BY DEF Zero, U32, Byte
    <3>3. \A k \in 2..4 : m.object[k] = 0
      BY <1>1, <2>2 DEF Encodable
    <3>4. flat \o <<END>> \in Seq(Byte)
      <4>1. <<END>> \in Seq(Byte)
        BY Magics
      <4> HIDE DEF flat
      <4> QED BY <1>7, <4>1
    <3> DEFINE rest == flat \o <<END>>
    <3>5. CallBytes(Zero, m.method, method, m.seq, m.args) = GenericHead(Zero, m.method) \o rest
      BY <1>5, <3>2
    <3>6. rest \in Seq(Byte)
      BY <3>4
    <3> HIDE DEF rest
    <3>7. ResolveSeq(GenericHead(Zero, m.method) \o rest, m.object) = GenericHead(m.object, m.method) \o rest
      BY <1>1, <3>3, <3>6, Resolved
    <3> QED BY <3>1, <3>5, <3>7 DEF rest
  <2> QED BY <1>1, <2>1, <2>2
<1>9. PICK S : Handed(P, A) \in Seq(Seq(S))
  BY <1>6
<1>10. Carried(m) \in Seq(S) /\ \E foff : PartsOf(Carried(m), Handed(P, A), foff)
  <2> HIDE DEF P, A
  <2> QED BY <1>3, <1>9, Flattened
<1>11. PICK off : PartsOf(flat, Blocks(P, A), off)
  BY <1>7
<1>12. PICK foff : PartsOf(Carried(m), Handed(P, A), foff)
  BY <1>10
<1>13. Laid(P, A, N, flat, off, foff)
  <2>1. PartsOf(flat, [i \in 1..N |-> Argument(P[i], A[i])], off)
    BY <1>11 DEF Blocks
  <2>2. /\ foff \in [0..N -> Nat] /\ foff[0] = 0 
        /\ \A i \in 1..N : foff[i] = foff[i - 1] + Len(Handed(P, A)[i])
    <3>1. Len(Handed(P, A)) = N
      BY <1>6
    <3> QED BY <1>12, <3>1 DEF PartsOf
  <2>3. \A i \in 1..N : Handed(P, A)[i] = Descriptors(P[i], A[i])
    BY DEF Handed
  <2>4. \A i \in 1..N : foff[i] = foff[i - 1] + Len(Descriptors(P[i], A[i]))
    BY <2>2, <2>3
  <2> HIDE DEF flat, P, A, N
  <2> QED BY <1>2, <1>7, <2>1, <2>2, <2>4 DEF Laid
<1>14. CallLaid(m, flat, off, foff)
  <2> HIDE DEF flat
  <2> QED BY <1>2, <1>8, <1>10, <1>12, <1>13 DEF CallLaid
<1> QED BY <1>14

(* What stands there can be cut out.                                          *)
LEMMA SameBytes ==
    ASSUME NEW d \in Seq(Byte), NEW k \in Nat, NEW s \in Seq(Byte), Stands(d, k, s), k + Len(s) <= Len(d)
    PROVE  SubSeq(d, k + 1, k + Len(s)) = s
<1> DEFINE l == Len(s)
           t == SubSeq(d, k + 1, k + l)
<1>1. l \in Nat /\ k + l <= Len(d)
  OBVIOUS
<1>2. \A i \in 1..l : d[k + i] = s[i]
  BY <1>1 DEF Stands
<1> HIDE DEF l
<1>3. t \in Seq(Byte) /\ Len(t) = l /\ \A i \in 1..l : t[i] = d[k + i]
  BY <1>1
<1> HIDE DEF t
<1>4. Len(s) = Len(t) /\ \A p \in 1..Len(s) : s[p] = t[p]
  BY <1>2, <1>3 DEF l
<1>5. s = t
  BY <1>3, <1>4, SameSeq
<1> QED BY <1>5 DEF t, l

(* The fields in front of the arguments.                                      *)
LEMMA HeadStands ==
    ASSUME NEW object \in U32, NEW id \in U32, NEW d \in Seq(Byte), Stands(d, 0, GenericHead(object, id))
    PROVE  /\ Len(d) > 0 => d[1] = 100
           /\ 11 <= Len(d) => /\ Has(d, 0, 100) /\ Has(d, 1, OBJECT) /\ Has(d, 6, UINT)
                              /\ U32At(d, 2) = object /\ U32At(d, 7) = id
<1> DEFINE h == GenericHead(object, id)
<1>1. /\ h \in Seq(Byte) /\ Len(h) = 11 /\ h[1] = 100 /\ h[2] = OBJECT /\ h[7] = UINT
      /\ \A i \in 1..4 : h[2 + i] = object[i] /\ h[7 + i] = id[i]
  BY HeadIs
<1>2. \A i \in 1..11 : i <= Len(d) => d[i] = h[i]
  <2>1. \A i \in 1..Len(h) : 0 + i <= Len(d) => d[0 + i] = h[i]
    BY DEF Stands
  <2> HIDE DEF h
  <2> QED BY <1>1, <2>1
<1> HIDE DEF h
<1>3. Len(d) > 0 => d[1] = 100
  BY <1>1, <1>2
<1>4. ASSUME 11 <= Len(d) PROVE d[1] = 100 /\ d[2] = OBJECT /\ d[7] = UINT
  BY <1>1, <1>2, <1>4
<1>5. ASSUME 11 <= Len(d) PROVE U32At(d, 2) = object /\ U32At(d, 7) = id
  <2>1. \A i \in 1..4 : 2 + i \in 1..11 /\ 7 + i \in 1..11 /\ 2 + i <= Len(d) /\ 7 + i <= Len(d)
    BY <1>5
  <2>2. \A i \in 1..4 : d[2 + i] = object[i] /\ d[7 + i] = id[i]
    <3> TAKE i \in 1..4
    <3>1. 2 + i \in 1..11 /\ 7 + i \in 1..11 /\ 2 + i <= Len(d) /\ 7 + i <= Len(d)
      BY <2>1
    <3>2. d[2 + i] = h[2 + i] /\ d[7 + i] = h[7 + i]
      BY <1>2, <3>1
    <3> QED BY <1>1, <3>2
  <2>3. Len(object) = 4 /\ Len(id) = 4
    BY WordIs
  <2>4. Stands(d, 2, object) /\ Stands(d, 7, id)
    BY <2>2, <2>3 DEF Stands
  <2>5. Len(d) \in Nat /\ 2 + 4 <= Len(d) /\ 7 + 4 <= Len(d)
    BY <1>5
  <2> QED BY <2>4, <2>5, WordStands
<1>6. ASSUME 11 <= Len(d) PROVE Has(d, 0, 100) /\ Has(d, 1, OBJECT) /\ Has(d, 6, UINT)
  <2>1. 0 < Len(d) /\ 1 < Len(d) /\ 6 < Len(d) /\ 0 + 1 = 1 /\ 1 + 1 = 2 /\ 6 + 1 = 7
    BY <1>6
  <2> QED BY <1>4, <1>6, <2>1 DEF Has
<1> QED BY <1>3, <1>5, <1>6

(* A call that is there to its end is parsed as it was laid out, and with its *)
(* own descriptors; one that is cut is no message.                            *)
FdsInFront(fds1, fds2) ==
    /\ \E S : fds1 \in Seq(S) /\ fds2 \in Seq(S)
    /\ Len(fds2) <= Len(fds1) /\ \A i \in 1..Len(fds2) : fds1[i] = fds2[i]
ParsedCall(m, flat) ==
    [len |-> Len(Layout(m)), fds |-> Len(Carried(m)),
     msg |-> [code |-> "GENERIC", object |-> m.object, method |-> m.method, data |-> flat \o <<END>>,
              fds |-> Carried(m)]]

(* A call that is there to its end is parsed as it was laid out, with its own *)
(* descriptors; one that is cut is not parsed.                                *)
LEMMA CallParses ==
    ASSUME NEW m, m.object \in U32, m.method \in U32, NEW flat, NEW off, NEW foff, CallLaid(m, flat, off, foff),
           NEW rest \in Seq(Byte), Stands(rest, 0, Layout(m)), NEW fds1, FdsInFront(fds1, Carried(m))
    PROVE  /\ Len(rest) > 0 => rest[1] = 100
           /\ Layout(m) \in Seq(Byte) /\ Len(Layout(m)) = 12 + Len(flat)
           /\ Len(Layout(m)) <= Len(rest) => ParseGeneric(rest, fds1) = ParsedCall(m, flat)
           /\ Len(Layout(m)) > Len(rest) => ParseGeneric(rest, fds1) = Failed
<1> DEFINE h == GenericHead(m.object, m.method)
           t == flat \o <<END>>
           N == Len(Params(m))
           L == Len(rest)
           F == Len(flat)
           body == Arguments(rest, 11)
<1>1. /\ Laid(Params(m), Meaning(m).values, N, flat, off, foff) /\ Layout(m) = h \o t
      /\ PartsOf(Carried(m), Handed(Params(m), Meaning(m).values), foff)
  BY DEF CallLaid
<1>2. flat \in Seq(Byte) /\ F \in Nat /\ L \in Nat /\ N \in Nat
  BY <1>1 DEF Laid
<1>3. h \in Seq(Byte) /\ Len(h) = 11
  <2> DEFINE object == m.object
             id == m.method
  <2>1. object \in U32 /\ id \in U32
    OBVIOUS
  <2> HIDE DEF object, id
  <2>2. GenericHead(object, id) \in Seq(Byte) /\ Len(GenericHead(object, id)) = 11
    BY <2>1, HeadIs
  <2> QED BY <2>2 DEF object, id
<1>4. t \in Seq(Byte) /\ Len(t) = F + 1
  <2>1. <<END>> \in Seq(Byte) /\ Len(<<END>>) = 1
    BY Magics
  <2>2. JoinedAre(flat, <<END>>, t)
    BY <1>2, <2>1, JoinedBytes
  <2> HIDE DEF t
  <2> QED BY <2>1, <2>2 DEF JoinedAre
<1> HIDE DEF h
<1>5. Layout(m) \in Seq(Byte) /\ Len(Layout(m)) = 12 + F
  <2> HIDE DEF t
  <2>1. JoinedAre(h, t, Layout(m))
    BY <1>1, <1>3, <1>4, JoinedBytes
  <2>2. F \in Nat
    BY <1>2
  <2> HIDE DEF F
  <2> QED BY <1>3, <1>4, <2>1, <2>2 DEF JoinedAre
<1>6. Stands(rest, 0, h) /\ Stands(rest, 11, t)
  <2> HIDE DEF t
  <2>1. Stands(rest, 0, h \o t) /\ Len(rest) \in Nat /\ 0 \in Nat
    BY <1>1
  <2>2. Stands(rest, 0, h) /\ Stands(rest, 0 + Len(h), t)
    BY <1>3, <1>4, <2>1, StandsBehind
  <2> QED BY <1>3, <2>2
<1>7. Stands(rest, 11, flat) /\ Stands(rest, 11 + F, <<END>>)
  <2>1. <<END>> \in Seq(Byte)
    BY Magics
  <2>2. Stands(rest, 11, flat \o <<END>>)
    BY <1>6
  <2> QED BY <1>2, <2>1, <2>2, StandsBehind
<1>8. Len(rest) > 0 => rest[1] = 100
  BY <1>6, HeadStands DEF h
<1>9. ASSUME Len(Layout(m)) <= L PROVE ParseGeneric(rest, fds1) = ParsedCall(m, flat)
  <2>0. 12 + F <= L
    BY <1>5, <1>9
  <2>1. 11 <= Len(rest) /\ 11 + F < L /\ 11 + F \in Nat
    BY <1>2, <2>0
  <2>2. rest[11 + F + 1] = END
    <3>1. Stands(rest, 11 + F, <<END>>)
      BY <1>7
    <3> HIDE DEF F
    <3> QED BY <2>1, <3>1, StandsOne
  <2>3. body = Behind(11, off, foff, N)
    <3> DEFINE k == 11
    <3>1. k \in Nat /\ k + Len(flat) < Len(rest) /\ rest[k + Len(flat) + 1] = END
      BY <2>1, <2>2
    <3>2. Laid(Params(m), Meaning(m).values, N, flat, off, foff) /\ Stands(rest, k, flat)
      BY <1>1, <1>7
    <3> HIDE DEF k, N
    <3>3. Arguments(rest, k) = Behind(k, off, foff, N)
      BY <3>1, <3>2, ArgumentsFound
    <3> QED BY <3>3 DEF k
  <2>4. off[N] = F /\ foff[N] = Len(Carried(m)) /\ foff[N] \in Nat
    <3>1. off[N] = F
      BY <1>1, LaidIs
    <3>2. foff \in [0..N -> Nat] /\ N \in 0..N
      BY <1>1, <1>2 DEF Laid
    <3>3. Len(Handed(Params(m), Meaning(m).values)) = N
      <4>1. \A i \in 1..N : FitsParam(Params(m)[i], Meaning(m).values[i])
        BY <1>1 DEF Laid
      <4> QED BY <1>2, <4>1, BlocksAre
    <3>4. Len(Carried(m)) = foff[N]
      BY <1>1, <3>3 DEF PartsOf
    <3> QED BY <3>1, <3>2, <3>4
  <2>5. body.next = 11 + F /\ body.fds = Len(Carried(m))
    BY <2>3, <2>4 DEF Behind
  <2>6. /\ Has(rest, 0, 100) /\ Has(rest, 1, OBJECT) /\ Has(rest, 6, UINT)
        /\ U32At(rest, 2) = m.object /\ U32At(rest, 7) = m.method
    BY <1>6, <2>1, HeadStands DEF h
  <2>7. Has(rest, body.next, END)
    BY <2>1, <2>2, <2>5 DEF Has
  <2>8. body.fds <= Len(fds1)
    BY <2>5 DEF FdsInFront
  <2>9. SubSeq(rest, 12, body.next + 1) = t
    <3>1. 11 + 1 = 12 /\ 11 + Len(t) = body.next + 1 /\ 11 + Len(t) <= Len(rest)
      BY <1>2, <1>4, <2>0, <2>5
    <3> HIDE DEF t
    <3>2. SubSeq(rest, 11 + 1, 11 + Len(t)) = t
      BY <1>4, <1>6, <3>1, SameBytes
    <3> QED BY <3>1, <3>2
  <2>10. SubSeq(fds1, 1, body.fds) = Carried(m)
    <3> DEFINE ds == Carried(m)
               u == SubSeq(fds1, 1, Len(ds))
    <3>1. PICK S : fds1 \in Seq(S) /\ ds \in Seq(S)
      BY DEF FdsInFront
    <3>2. Len(ds) <= Len(fds1) /\ \A i \in 1..Len(ds) : fds1[i] = ds[i]
      BY DEF FdsInFront
    <3> HIDE DEF ds
    <3>3. u \in Seq(S) /\ Len(u) = Len(ds) /\ \A i \in 1..Len(ds) : u[i] = fds1[i]
      BY <3>1, <3>2
    <3> HIDE DEF u
    <3>4. ds = u
      BY <3>1, <3>2, <3>3, SameSeq
    <3> QED BY <2>5, <3>4 DEF ds, u
  <2>11. body.next + 1 = Len(Layout(m))
    BY <1>2, <1>5, <2>5
  <2> HIDE DEF body, t
  <2>12. ParseGeneric(rest, fds1) =
           [len |-> body.next + 1, fds |-> body.fds,
            msg |-> [code |-> "GENERIC", object |-> U32At(rest, 2), method |-> U32At(rest, 7),
                     data |-> SubSeq(rest, 12, body.next + 1), fds |-> SubSeq(fds1, 1, body.fds)]]
    BY <2>6, <2>7, <2>8 DEF ParseGeneric, body
  <2> QED BY <2>5, <2>6, <2>9, <2>10, <2>11, <2>12 DEF ParsedCall, t
<1>10. ASSUME Len(Layout(m)) > L PROVE ParseGeneric(rest, fds1) = Failed
  <2>1. 11 + Len(flat) >= Len(rest) /\ 11 \in Nat
    BY <1>2, <1>5, <1>10
  <2>2. ~Has(rest, Arguments(rest, 11).next, END)
    BY <1>1, <1>7, <2>1, ArgumentsFound
  <2> QED BY <2>2 DEF ParseGeneric
<1> QED BY <1>5, <1>8, <1>9, <1>10

(* A sequence stands at the front of what begins with it.                     *)
LEMMA StandsInFront ==
    ASSUME NEW s \in Seq(Byte), NEW t \in Seq(Byte)
    PROVE  Stands(s \o t, 0, s) /\ Len(s \o t) = Len(s) + Len(t) /\ s \o t \in Seq(Byte)
<1>1. JoinedAre(s, t, s \o t)
  BY JoinedBytes
<1> DEFINE u == s \o t
<1>2. u \in Seq(Byte) /\ Len(u) = Len(s) + Len(t) /\ \A i \in 1..Len(s) : u[i] = s[i]
  BY <1>1 DEF JoinedAre
<1> HIDE DEF u
<1>3. \A i \in 1..Len(s) : 0 + i = i
  OBVIOUS
<1>4. Stands(u, 0, s)
  BY <1>2, <1>3 DEF Stands
<1> QED BY <1>2, <1>4 DEF u

(* Each argument is found in what the parser kept of a call.                  *)
FoundThere(m, data2, i, off, foff) ==
    /\ ParamAt(data2, off[i - 1]) = Params(m)[i]
    /\ ValueAt(data2, off[i - 1], Carried(m), foff[i - 1]) = Meaning(m).values[i]

(* Each argument is found in what was parsed, with its descriptors.           *)
LEMMA ArgumentThere ==
    ASSUME NEW m, NEW flat, NEW off, NEW foff, CallLaid(m, flat, off, foff),
           NEW data2, data2 = flat \o <<END>>, NEW i \in 1..Len(Params(m))
    PROVE  FoundThere(m, data2, i, off, foff)
<1> DEFINE P == Params(m)
           A == Meaning(m).values
           N == Len(P)
           F == Len(flat)
           C == Carried(m)
<1>1. Laid(P, A, N, flat, off, foff) /\ PartsOf(C, Handed(P, A), foff)
  BY DEF CallLaid
<1>2. flat \in Seq(Byte) /\ F \in Nat /\ N \in Nat /\ \A j \in 1..N : FitsParam(P[j], A[j])
  BY <1>1 DEF Laid
<1>3. Stands(data2, 0, flat) /\ Len(data2) = F + 1 /\ data2 \in Seq(Byte)
  <2>1. <<END>> \in Seq(Byte) /\ Len(<<END>>) = 1
    BY Magics
  <2> QED BY <1>2, <2>1, StandsInFront
<1>4. /\ off \in [0..N -> Nat] /\ off[N] = F
      /\ \A j \in 1..N : /\ off[j] = off[j - 1] + Len(Argument(P[j], A[j]))
                         /\ Argument(P[j], A[j]) \in Seq(Byte) /\ Len(Argument(P[j], A[j])) \in Nat \ {0}
      /\ \A j \in 0..N : off[j] <= off[N]
  BY <1>1, LaidIs
<1>5. PartsOf(flat, Blocks(P, A), off)
  BY <1>1 DEF Laid, Blocks
<1>6. /\ Blocks(P, A) \in Seq(Seq(Byte)) /\ Len(Blocks(P, A)) = N
      /\ Len(Handed(P, A)) = N
  BY <1>2, BlocksAre
<1>7. i \in 1..N /\ i - 1 \in 0..N /\ i \in 0..N
  BY <1>2
<1>8. Blocks(P, A)[i] = Argument(P[i], A[i]) /\ Handed(P, A)[i] = Descriptors(P[i], A[i])
  BY <1>7 DEF Blocks, Handed
<1> HIDE DEF P, A, N, F, C
<1>9. Stands(data2, off[i - 1], Argument(P[i], A[i]))
  <2> DEFINE ss == Blocks(P, A)
  <2>1. Len(ss) \in Nat /\ (\A j \in 1..Len(ss) : Len(ss[j]) \in Nat) /\ i \in 1..Len(ss)
    BY <1>2, <1>6, <1>7
  <2>2. PartsOf(flat, ss, off) /\ Len(data2) \in Nat /\ 0 \in Nat
    BY <1>3, <1>5
  <2> HIDE DEF ss
  <2>3. Stands(data2, 0 + off[i - 1], ss[i])
    BY <1>3, <2>1, <2>2, StandsInParts
  <2>4. 0 + off[i - 1] = off[i - 1]
    BY <1>4, <1>7
  <2> QED BY <1>8, <2>3, <2>4 DEF ss
<1>10. off[i - 1] \in Nat /\ off[i - 1] < Len(data2) /\ ~(off[i - 1] + Len(Argument(P[i], A[i])) > Len(data2))
  <2>1. /\ off[i] = off[i - 1] + Len(Argument(P[i], A[i])) /\ off[i] <= F /\ off[i - 1] <= F
        /\ off[i] \in Nat /\ off[i - 1] \in Nat
    BY <1>4, <1>7
  <2> QED BY <1>2, <1>3, <2>1
<1>11. FoundArgument(data2, off[i - 1], P[i], A[i])
  BY <1>2, <1>3, <1>7, <1>9, <1>10, ArgumentStands
<1>12. /\ ParamAt(data2, off[i - 1]) = P[i]
       /\ \A fds1, fdNo : FdsStand(fds1, fdNo, Descriptors(P[i], A[i]))
                            => ValueAt(data2, off[i - 1], fds1, fdNo) = A[i]
  BY <1>10, <1>11 DEF FoundArgument
<1>13. FdsStand(C, foff[i - 1], Descriptors(P[i], A[i]))
  <2>1. \E S : C \in Seq(S)
    BY DEF CallLaid, C
  <2>2. /\ foff \in [0..N -> Nat] /\ Len(C) = foff[N] /\ foff[i] = foff[i - 1] + Len(Handed(P, A)[i])
        /\ foff[i] <= Len(C)
        /\ \A k \in 1..Len(Handed(P, A)[i]) : C[foff[i - 1] + k] = Handed(P, A)[i][k]
    BY <1>1, <1>6, <1>7 DEF PartsOf
  <2>3. foff[i - 1] \in Nat
    BY <1>7, <2>2
  <2> QED BY <1>8, <2>1, <2>2, <2>3 DEF FdsStand
<1>14. ValueAt(data2, off[i - 1], C, foff[i - 1]) = A[i]
  BY <1>12, <1>13
<1> QED BY <1>12, <1>14 DEF FoundThere, P, A, C

(* So the call is accepted by its method and heard with its values.           *)
LEMMA CallHeard ==
    ASSUME NEW m, NEW flat, NEW off, NEW foff, CallLaid(m, flat, off, foff)
    PROVE  /\ TypesAgree(TheirMethods[m.method], flat \o <<END>>)
           /\ Values(flat \o <<END>>, Carried(m)) = Meaning(m).values
<1> DEFINE P == Params(m)
           A == Meaning(m).values
           N == Len(P)
           F == Len(flat)
           C == Carried(m)
           data2 == flat \o <<END>>
           args == Arguments(data2, 0).args
<1>1. Laid(P, A, N, flat, off, foff)
  BY DEF CallLaid
<1>2. flat \in Seq(Byte) /\ F \in Nat /\ N \in Nat
  BY <1>1 DEF Laid
<1>3. Stands(data2, 0, flat) /\ Len(data2) = F + 1 /\ data2 \in Seq(Byte) /\ data2[F + 1] = END
  <2>1. <<END>> \in Seq(Byte) /\ Len(<<END>>) = 1 /\ <<END>>[1] = END /\ 1 \in 1..1
    BY Magics
  <2>2. Stands(data2, 0, flat) /\ Len(data2) = F + 1 /\ data2 \in Seq(Byte)
    BY <1>2, <2>1, StandsInFront
  <2>3. JoinedAre(flat, <<END>>, data2)
    BY <1>2, <2>1, JoinedBytes
  <2>4. data2[F + 1] = END
    BY <2>1, <2>3 DEF JoinedAre
  <2> QED BY <2>2, <2>4
<1>4. off \in [0..N -> Nat] /\ \A j \in 1..N : j - 1 \in 0..N
  BY <1>1, <1>2, LaidIs
<1>5. DOMAIN args = 1..N /\ \A j \in 1..N : args[j].at = off[j - 1] /\ args[j].fdNo = foff[j - 1]
  <2> HIDE DEF data2, P, A, N
  <2> DEFINE k == 0
  <2>1. k \in Nat /\ k + Len(flat) < Len(data2) /\ data2[k + Len(flat) + 1] = END /\ Stands(data2, k, flat)
    BY <1>2, <1>3
  <2> HIDE DEF k, F
  <2>2. Arguments(data2, k) = Behind(k, off, foff, N)
    BY <1>1, <1>3, <2>1, ArgumentsFound
  <2>3. args = [j \in 1..N |-> [at |-> 0 + off[j - 1], fdNo |-> foff[j - 1]]]
    <3>1. args = Behind(k, off, foff, N).args
      BY <2>2 DEF k
    <3>2. Behind(k, off, foff, N).args = [j \in 1..N |-> [at |-> k + off[j - 1], fdNo |-> foff[j - 1]]]
      BY DEF Behind
    <3> HIDE DEF args
    <3> QED BY <3>1, <3>2 DEF k
  <2>4. \A j \in 1..N : 0 + off[j - 1] = off[j - 1]
    BY <1>4
  <2> HIDE DEF args
  <2> QED BY <2>3, <2>4
<1>6. \A i \in 1..N : FoundThere(m, data2, i, off, foff)
  BY ArgumentThere
<1>7. /\ \A i \in 1..N : ParamAt(data2, off[i - 1]) = P[i] /\ ValueAt(data2, off[i - 1], C, foff[i - 1]) = A[i]
  BY <1>6 DEF FoundThere
<1>8. TypesAgree(TheirMethods[m.method], data2)
  <2>1. DOMAIN P = 1..N
    <3>1. Listed(P)
      BY DEF CallLaid
    <3> QED BY <3>1 DEF Listed
  <2> QED BY <1>5, <1>7, <2>1 DEF TypesAgree, Params
<1>9. Values(data2, C) = A
  <2>1. Listed(A) /\ Len(A) = N
    BY DEF CallLaid
  <2>2. A = [i \in 1..N |-> A[i]]
    BY <2>1 DEF Listed
  <2>3. Values(data2, C) = [i \in DOMAIN args |-> ValueAt(data2, args[i].at, C, args[i].fdNo)]
    BY DEF Values
  <2> HIDE DEF args, data2, A, C, N
  <2>4. Values(data2, C) = [i \in 1..N |-> A[i]]
    BY <1>5, <1>7, <2>3
  <2> QED BY <2>2, <2>4
<1> QED BY <1>8, <1>9

-----------------------------------------------------------------------------
(* The messages that are not calls.                                           *)

(* A message is laid out by putting one field behind the others.              *)
Field(d, a, b, c) ==
    /\ c \in Seq(Byte) /\ Len(a) \in Nat /\ Len(b) \in Nat /\ Len(c) = Len(a) + Len(b)
    /\ Stands(d, 0, c) => Stands(d, 0, a) /\ Stands(d, Len(a), b)

(* A field behind others.                                                     *)
LEMMA NextField ==
    ASSUME NEW d \in Seq(Byte), NEW a \in Seq(Byte), NEW b \in Seq(Byte)
    PROVE  Field(d, a, b, a \o b)
<1>1. JoinedAre(a, b, a \o b)
  BY JoinedBytes
<1>2. ASSUME Stands(d, 0, a \o b) PROVE Stands(d, 0, a) /\ Stands(d, Len(a), b)
  <2>1. Len(d) \in Nat /\ 0 \in Nat
    OBVIOUS
  <2>2. Stands(d, 0, a) /\ Stands(d, 0 + Len(a), b)
    BY <1>2, <2>1, StandsBehind
  <2>3. 0 + Len(a) = Len(a)
    OBVIOUS
  <2> QED BY <2>2, <2>3
<1> QED BY <1>1, <1>2 DEF Field, JoinedAre

(* What a magic byte, a word, a pair or three of bytes tell when they stand   *)
(* there.                                                                     *)
LEMMA OneField ==
    ASSUME NEW d \in Seq(Byte), NEW k \in Nat, NEW x, Stands(d, k, <<x>>)
    PROVE  (k < Len(d) => Has(d, k, x)) /\ (k >= Len(d) => ~Has(d, k, x))
<1>1. Len(d) \in Nat
  OBVIOUS
<1>2. k < Len(d) => d[k + 1] = x
  BY <1>1, StandsOne
<1> QED BY <1>1, <1>2 DEF Has

(* Two bytes in front,                                                        *)
LEMMA TwoFields ==
    ASSUME NEW d \in Seq(Byte), NEW x, NEW y, Stands(d, 0, <<x, y>>)
    PROVE  /\ 2 <= Len(d) => Has(d, 0, x) /\ Has(d, 1, y)
           /\ Len(d) > 0 => d[1] = x
<1> DEFINE L == Len(d)
<1>1. L \in Nat /\ 0 \in Nat
  OBVIOUS
<1>2. (0 < L => d[0 + 1] = x) /\ (0 + 1 < L => d[0 + 2] = y)
  BY <1>1, StandsTwo
<1>3. (L > 0 => d[1] = x) /\ (2 <= L => 0 < L /\ 1 < L /\ d[1] = x /\ d[2] = y)
  <2> HIDE DEF L
  <2> QED BY <1>1, <1>2
<1>4. 0 + 1 = 1 /\ 1 + 1 = 2
  OBVIOUS
<1> QED BY <1>3, <1>4 DEF Has

(* and three.                                                                 *)
LEMMA ThreeFields ==
    ASSUME NEW d \in Seq(Byte), NEW x, NEW y, NEW z, Stands(d, 0, <<x, y, z>>)
    PROVE  /\ 3 <= Len(d) => Has(d, 0, x) /\ Has(d, 1, y) /\ Has(d, 2, z)
           /\ Len(d) > 0 => d[1] = x
<1> DEFINE L == Len(d)
           s == <<x, y, z>>
<1>1. L \in Nat /\ Len(s) = 3 /\ s[1] = x /\ s[2] = y /\ s[3] = z
  OBVIOUS
<1> HIDE DEF s
<1>2. \A i \in 1..3 : i <= L => d[i] = s[i]
  <2>1. \A i \in 1..Len(s) : 0 + i <= L => d[0 + i] = s[i]
    BY DEF Stands, s
  <2>2. \A i \in 1..3 : 0 + i = i
    OBVIOUS
  <2> HIDE DEF L
  <2> QED BY <1>1, <2>1, <2>2
<1>3. (L > 0 => d[1] = x) /\ (3 <= L => 0 < L /\ 1 < L /\ 2 < L /\ d[1] = x /\ d[2] = y /\ d[3] = z)
  <2> HIDE DEF L
  <2>1. 1 \in 1..3 /\ 2 \in 1..3 /\ 3 \in 1..3
    OBVIOUS
  <2>2. (L > 0 => 1 <= L) /\ (3 <= L => 1 <= L /\ 2 <= L /\ 0 < L /\ 1 < L /\ 2 < L)
    BY <1>1
  <2> QED BY <1>1, <1>2, <2>1, <2>2
<1>4. 0 + 1 = 1 /\ 1 + 1 = 2 /\ 2 + 1 = 3
  OBVIOUS
<1> QED BY <1>3, <1>4 DEF Has

(* A message that is there to its end is parsed as it was laid out; one that  *)
(* is cut is none.                                                            *)
Parses(bytes, d, parsed, m) ==
    /\ bytes \in Seq(Byte) /\ Len(bytes) \in Nat /\ Len(bytes) > 0
    /\ Len(bytes) <= Len(d) => parsed = [len |-> Len(bytes), msg |-> m]
    /\ Len(bytes) > Len(d) => parsed = Failed

(* To be parsed so.                                                           *)
LEMMA ParsesIs ==
    ASSUME NEW bytes \in Seq(Byte), NEW d, NEW parsed, NEW m, NEW n \in Nat, Len(bytes) = n, n > 0,
           n <= Len(d) => parsed = [len |-> n, msg |-> m], n > Len(d) => parsed = Failed
    PROVE  Parses(bytes, d, parsed, m)
BY DEF Parses

(* One word.                                                                  *)
WordBytes(code, word) == <<code, UINT>> \o word \o <<END>>

(* What stands where a message of one word does.                              *)
LEMMA WordFields ==
    ASSUME NEW code \in Byte, NEW word \in U32, NEW d \in Seq(Byte), Stands(d, 0, WordBytes(code, word))
    PROVE  /\ WordBytes(code, word) \in Seq(Byte) /\ Len(WordBytes(code, word)) = 7
           /\ Len(d) > 0 => d[1] = code
           /\ 7 <= Len(d) => Has(d, 0, code) /\ Has(d, 1, UINT) /\ Has(d, 6, END) /\ U32At(d, 2) = word
           /\ 7 > Len(d) => ~Has(d, 6, END)
<1> DEFINE a == <<code, UINT>>
           b == a \o word
           c == b \o <<END>>
           L == Len(d)
<1>0. a \in Seq(Byte) /\ Len(a) = 2 /\ word \in Seq(Byte) /\ Len(word) = 4 /\ <<END>> \in Seq(Byte)
      /\ Len(<<END>>) = 1
      /\ L \in Nat
  BY Magics, WordIs
<1>1. c = WordBytes(code, word) /\ Stands(d, 0, c)
  BY DEF WordBytes
<1> HIDE DEF a
<1>2. Field(d, a, word, b)
  BY <1>0, NextField
<1>3. b \in Seq(Byte) /\ Len(b) = 6 /\ (Stands(d, 0, b) => Stands(d, 0, a) /\ Stands(d, 2, word))
  <2> HIDE DEF b
  <2> QED BY <1>0, <1>2 DEF Field
<1> HIDE DEF b
<1>4. Field(d, b, <<END>>, c)
  BY <1>0, <1>3, NextField
<1>5. c \in Seq(Byte) /\ Len(c) = 7 /\ Stands(d, 0, b) /\ Stands(d, 6, <<END>>)
  <2> HIDE DEF c
  <2> QED BY <1>0, <1>1, <1>3, <1>4 DEF Field
<1>6. /\ Len(d) > 0 => d[1] = code
      /\ 2 <= Len(d) => Has(d, 0, code) /\ Has(d, 1, UINT)
  BY <1>3, <1>5, TwoFields DEF a
<1>7. (6 < L => Has(d, 6, END)) /\ (6 >= L => ~Has(d, 6, END))
  BY <1>5, OneField
<1>8. 2 + 4 <= L => U32At(d, 2) = word
  BY <1>0, <1>3, <1>5, WordStands
<1>9. (7 <= L => 2 <= L /\ 6 < L /\ 2 + 4 <= L) /\ (7 > L => 6 >= L)
  BY <1>0
<1> HIDE DEF c
<1> QED BY <1>1, <1>5, <1>6, <1>7, <1>8, <1>9

(* HANDSHAKE_ACK,                                                             *)
LEMMA AckParses ==
    ASSUME NEW version \in U32, NEW d \in Seq(Byte), Stands(d, 0, HandshakeAckBytes(version))
    PROVE  /\ Parses(HandshakeAckBytes(version), d, ParseHandshakeAck(d),
              [code |-> "HANDSHAKE_ACK", version |-> version])
           /\ Len(d) > 0 => d[1] = 3
<1>1. HandshakeAckBytes(version) = WordBytes(3, version) /\ 3 \in Byte
  BY DEF HandshakeAckBytes, WordBytes, Byte
<1> DEFINE w == WordBytes(3, version)
<1>2. /\ w \in Seq(Byte) /\ Len(w) = 7
      /\ Len(d) > 0 => d[1] = 3
      /\ 7 <= Len(d) => Has(d, 0, 3) /\ Has(d, 1, UINT) /\ Has(d, 6, END) /\ U32At(d, 2) = version
      /\ 7 > Len(d) => ~Has(d, 6, END)
  BY <1>1, WordFields
<1> HIDE DEF w
<1>3. 7 <= Len(d) => ParseHandshakeAck(d) = [len |-> 7, msg |-> [code |-> "HANDSHAKE_ACK", version |-> version]]
  BY <1>2 DEF ParseHandshakeAck
<1>4. 7 > Len(d) => ParseHandshakeAck(d) = Failed
  BY <1>2 DEF ParseHandshakeAck
<1>5. Parses(w, d, ParseHandshakeAck(d), [code |-> "HANDSHAKE_ACK", version |-> version])
  <2>1. w \in Seq(Byte) /\ Len(w) = 7 /\ 7 \in Nat /\ 7 > 0
    BY <1>2
  <2> QED BY <1>3, <1>4, <2>1, ParsesIs
<1> QED BY <1>1, <1>2, <1>5 DEF w

(* ROUNDTRIP_REQUEST                                                          *)
LEMMA RequestParses ==
    ASSUME NEW seq \in U32, NEW d \in Seq(Byte), Stands(d, 0, RoundtripRequestBytes(seq))
    PROVE  /\ Parses(RoundtripRequestBytes(seq), d, ParseRoundtripRequest(d),
              [code |-> "ROUNDTRIP_REQUEST", seq |-> seq])
           /\ Len(d) > 0 => d[1] = 13
<1>1. RoundtripRequestBytes(seq) = WordBytes(13, seq) /\ 13 \in Byte
  BY DEF RoundtripRequestBytes, WordBytes, Byte
<1> DEFINE w == WordBytes(13, seq)
<1>2. /\ w \in Seq(Byte) /\ Len(w) = 7
      /\ Len(d) > 0 => d[1] = 13
      /\ 7 <= Len(d) => Has(d, 0, 13) /\ Has(d, 1, UINT) /\ Has(d, 6, END) /\ U32At(d, 2) = seq
      /\ 7 > Len(d) => ~Has(d, 6, END)
  BY <1>1, WordFields
<1> HIDE DEF w
<1>3. 7 <= Len(d) => ParseRoundtripRequest(d) = [len |-> 7, msg |-> [code |-> "ROUNDTRIP_REQUEST", seq |-> seq]]
  BY <1>2 DEF ParseRoundtripRequest
<1>4. 7 > Len(d) => ParseRoundtripRequest(d) = Failed
  BY <1>2 DEF ParseRoundtripRequest
<1>5. Parses(w, d, ParseRoundtripRequest(d), [code |-> "ROUNDTRIP_REQUEST", seq |-> seq])
  <2>1. w \in Seq(Byte) /\ Len(w) = 7 /\ 7 \in Nat /\ 7 > 0
    BY <1>2
  <2> QED BY <1>3, <1>4, <2>1, ParsesIs
<1> QED BY <1>1, <1>2, <1>5 DEF w

(* and ROUNDTRIP_DONE.                                                        *)
LEMMA DoneParses ==
    ASSUME NEW seq \in U32, NEW d \in Seq(Byte), Stands(d, 0, RoundtripDoneBytes(seq))
    PROVE  /\ Parses(RoundtripDoneBytes(seq), d, ParseRoundtripDone(d), [code |-> "ROUNDTRIP_DONE", seq |-> seq])
           /\ Len(d) > 0 => d[1] = 14
<1>1. RoundtripDoneBytes(seq) = WordBytes(14, seq) /\ 14 \in Byte
  BY DEF RoundtripDoneBytes, WordBytes, Byte
<1> DEFINE w == WordBytes(14, seq)
<1>2. /\ w \in Seq(Byte) /\ Len(w) = 7
      /\ Len(d) > 0 => d[1] = 14
      /\ 7 <= Len(d) => Has(d, 0, 14) /\ Has(d, 1, UINT) /\ Has(d, 6, END) /\ U32At(d, 2) = seq
      /\ 7 > Len(d) => ~Has(d, 6, END)
  BY <1>1, WordFields
<1> HIDE DEF w
<1>3. 7 <= Len(d) => ParseRoundtripDone(d) = [len |-> 7, msg |-> [code |-> "ROUNDTRIP_DONE", seq |-> seq]]
  BY <1>2 DEF ParseRoundtripDone
<1>4. 7 > Len(d) => ParseRoundtripDone(d) = Failed
  BY <1>2 DEF ParseRoundtripDone
<1>5. Parses(w, d, ParseRoundtripDone(d), [code |-> "ROUNDTRIP_DONE", seq |-> seq])
  <2>1. w \in Seq(Byte) /\ Len(w) = 7 /\ 7 \in Nat /\ 7 > 0
    BY <1>2
  <2> QED BY <1>3, <1>4, <2>1, ParsesIs
<1> QED BY <1>1, <1>2, <1>5 DEF w

(* Nothing is behind the end.                                                 *)
LEMMA Outside ==
    ASSUME NEW d \in Seq(Byte), NEW k \in Nat, k >= Len(d)
    PROVE  \A x : ~Has(d, k, x)
<1>1. Len(d) \in Nat
  OBVIOUS
<1>2. ~(k < Len(d))
  BY <1>1
<1> QED BY <1>2 DEF Has

(* Two words.                                                                 *)
TwoWords(code, a, b) == <<code, UINT>> \o a \o <<UINT>> \o b

(* What stands where two words do.                                            *)
LEMMA TwoWordFields ==
    ASSUME NEW code \in Byte, NEW a \in U32, NEW b \in U32, NEW d \in Seq(Byte)
    PROVE  /\ TwoWords(code, a, b) \in Seq(Byte) /\ Len(TwoWords(code, a, b)) = 11
           /\ Stands(d, 0, TwoWords(code, a, b)) =>
                /\ Len(d) > 0 => d[1] = code
                /\ 11 <= Len(d) => /\ Has(d, 0, code) /\ Has(d, 1, UINT) /\ Has(d, 6, UINT)
                                   /\ U32At(d, 2) = a /\ U32At(d, 7) = b
<1> DEFINE o == <<code, UINT>>
           p == o \o a
           q == p \o <<UINT>>
           r == q \o b
           L == Len(d)
<1>0. /\ o \in Seq(Byte) /\ Len(o) = 2 /\ <<UINT>> \in Seq(Byte) /\ Len(<<UINT>>) = 1 /\ L \in Nat
      /\ a \in Seq(Byte) /\ Len(a) = 4 /\ b \in Seq(Byte) /\ Len(b) = 4
  BY Magics, WordIs
<1>1. r = TwoWords(code, a, b)
  BY DEF TwoWords
<1> HIDE DEF o
<1>2. Field(d, o, a, p)
  BY <1>0, NextField
<1>3. p \in Seq(Byte) /\ Len(p) = 6 /\ (Stands(d, 0, p) => Stands(d, 0, o) /\ Stands(d, 2, a))
  <2> HIDE DEF p
  <2> QED BY <1>0, <1>2 DEF Field
<1> HIDE DEF p
<1>4. Field(d, p, <<UINT>>, q)
  BY <1>0, <1>3, NextField
<1>5. q \in Seq(Byte) /\ Len(q) = 7 /\ (Stands(d, 0, q) => Stands(d, 0, p) /\ Stands(d, 6, <<UINT>>))
  <2> HIDE DEF q
  <2> QED BY <1>0, <1>3, <1>4 DEF Field
<1> HIDE DEF q
<1>6. Field(d, q, b, r)
  BY <1>0, <1>5, NextField
<1>7. r \in Seq(Byte) /\ Len(r) = 11 /\ (Stands(d, 0, r) => Stands(d, 0, q) /\ Stands(d, 7, b))
  <2> HIDE DEF r
  <2> QED BY <1>0, <1>5, <1>6 DEF Field
<1> HIDE DEF r
<1>8. ASSUME Stands(d, 0, r)
      PROVE  /\ Len(d) > 0 => d[1] = code
             /\ 11 <= Len(d) => /\ Has(d, 0, code) /\ Has(d, 1, UINT) /\ Has(d, 6, UINT)
                                /\ U32At(d, 2) = a /\ U32At(d, 7) = b
  <2>1. Stands(d, 0, o) /\ Stands(d, 2, a) /\ Stands(d, 6, <<UINT>>) /\ Stands(d, 7, b)
    BY <1>3, <1>5, <1>7, <1>8
  <2>2. /\ Len(d) > 0 => d[1] = code
        /\ 2 <= Len(d) => Has(d, 0, code) /\ Has(d, 1, UINT)
    BY <2>1, TwoFields DEF o
  <2>3. 6 < L => Has(d, 6, UINT)
    BY <2>1, OneField
  <2>4. (2 + 4 <= L => U32At(d, 2) = a) /\ (7 + 4 <= L => U32At(d, 7) = b)
    BY <1>0, <2>1, WordStands
  <2>5. 11 <= L => 2 <= L /\ 6 < L /\ 2 + 4 <= L /\ 7 + 4 <= L
    BY <1>0
  <2> QED BY <2>2, <2>3, <2>4, <2>5
<1> QED BY <1>1, <1>7, <1>8

(* NEW_OBJECT.                                                                *)
LEMMA NewObjectParses ==
    ASSUME NEW id \in U32, NEW seq \in U32, NEW d \in Seq(Byte), Stands(d, 0, NewObjectBytes(seq, id))
    PROVE  /\ Parses(NewObjectBytes(seq, id), d, ParseNewObject(d), [code |-> "NEW_OBJECT", id |-> id, seq |-> seq])
           /\ Len(d) > 0 => d[1] = 11
<1> DEFINE w == TwoWords(11, id, seq)
           t == w \o <<END>>
           L == Len(d)
<1>0. <<END>> \in Seq(Byte) /\ Len(<<END>>) = 1 /\ L \in Nat /\ 11 \in Byte
  BY Magics DEF Byte
<1>1. NewObjectBytes(seq, id) = t
  BY DEF NewObjectBytes, TwoWords
<1>2. /\ w \in Seq(Byte) /\ Len(w) = 11
      /\ Stands(d, 0, w) =>
          /\ Len(d) > 0 => d[1] = 11
          /\ 11 <= Len(d) => /\ Has(d, 0, 11) /\ Has(d, 1, UINT) /\ Has(d, 6, UINT)
                             /\ U32At(d, 2) = id /\ U32At(d, 7) = seq
  BY <1>0, TwoWordFields
<1> HIDE DEF w
<1>3. Field(d, w, <<END>>, t)
  BY <1>0, <1>2, NextField
<1>4. t \in Seq(Byte) /\ Len(t) = 12 /\ Stands(d, 0, w) /\ Stands(d, 11, <<END>>)
  <2>1. Stands(d, 0, t)
    BY <1>1
  <2> HIDE DEF t
  <2> QED BY <1>0, <1>2, <1>3, <2>1 DEF Field
<1>5. (11 < L => Has(d, 11, END)) /\ (11 >= L => ~Has(d, 11, END))
  BY <1>4, OneField
<1>6. (12 <= L => 11 <= L /\ 11 < L) /\ (12 > L => 11 >= L)
  BY <1>0
<1>7. 12 <= L => ParseNewObject(d) = [len |-> 12, msg |-> [code |-> "NEW_OBJECT", id |-> id, seq |-> seq]]
  BY <1>2, <1>4, <1>5, <1>6 DEF ParseNewObject
<1>8. 12 > L => ParseNewObject(d) = Failed
  BY <1>5, <1>6 DEF ParseNewObject
<1>9. Parses(t, d, ParseNewObject(d), [code |-> "NEW_OBJECT", id |-> id, seq |-> seq])
  <2>1. t \in Seq(Byte) /\ Len(t) = 12 /\ 12 \in Nat /\ 12 > 0
    BY <1>4
  <2> HIDE DEF t
  <2> QED BY <1>7, <1>8, <2>1, ParsesIs
<1> HIDE DEF t
<1> QED BY <1>1, <1>2, <1>4, <1>9

(* A string at k with one magic byte behind it.                               *)
StringAndEnd(d, k, string) ==
    LET next == k + Len(Varchar(string))
    IN /\ next < Len(d) => StringFound(d, k) = [next |-> next, string |-> string]
       /\ next >= Len(d) => \A x : ~Has(d, StringFound(d, k).next, x)

(* A string is found with the byte behind it, or that byte is not there.      *)
LEMMA StringThere ==
    ASSUME NEW string \in Seq(Byte), Len(string) \in Lengths, NEW d \in Seq(Byte), NEW k \in Nat,
           Stands(d, k, Varchar(string))
    PROVE  StringAndEnd(d, k, string)
<1> DEFINE v == Len(Varchar(string))
           L == Len(d)
           f == StringFound(d, k)
<1>1. v \in Nat /\ L \in Nat
  <2>1. Varchar(string) \in Seq(Byte)
    BY VarcharIs
  <2> QED BY <2>1
<1>2. \/ k + v <= L /\ f = [next |-> k + v, string |-> string]
      \/ k + v > L /\ f.next >= L
  BY StringStands
<1>3. f.next \in Nat
  <2>1. ParseVarInt(d, k).value \in Nat /\ ParseVarInt(d, k).len \in 1..4
    BY NumberFound
  <2> DEFINE a == ParseVarInt(d, k).value
             b == ParseVarInt(d, k).len
  <2>2. f.next = k + b + a
    BY DEF StringFound
  <2> HIDE DEF a, b, f
  <2> QED BY <2>1, <2>2 DEF a, b
<1> HIDE DEF f, v
<1>4. ASSUME k + v >= L PROVE \A x : ~Has(d, f.next, x)
  <2>1. f.next >= L
    <3>1. CASE k + v <= L /\ f = [next |-> k + v, string |-> string]
      <4>1. f.next = k + v
        BY <3>1
      <4> QED BY <1>4, <4>1
    <3> QED BY <1>2, <3>1
  <2> QED BY <1>3, <2>1, Outside
<1>5. ASSUME k + v < L PROVE f = [next |-> k + v, string |-> string]
  <2>1. ~(k + v > L)
    BY <1>1, <1>5
  <2> QED BY <1>2, <2>1
<1> QED BY <1>4, <1>5 DEF StringAndEnd, f, v

(* FATAL_PROTOCOL_ERROR.                                                      *)
LEMMA ErrorParses ==
    ASSUME NEW object \in U32, NEW error \in U32, NEW text \in Seq(Byte), Len(text) \in Lengths,
           NEW d \in Seq(Byte), Stands(d, 0, FatalErrorBytes(object, error, text))
    PROVE  /\ Parses(FatalErrorBytes(object, error, text), d, ParseFatalError(d),
                     [code |-> "FATAL_PROTOCOL_ERROR", object |-> object, error |-> error, text |-> text])
           /\ Len(d) > 0 => d[1] = 12
<1> DEFINE w == TwoWords(12, object, error)
           p == w \o <<VARCHAR>>
           q == p \o Varchar(text)
           t == q \o <<END>>
           L == Len(d)
           v == Len(Varchar(text))
           msg == [code |-> "FATAL_PROTOCOL_ERROR", object |-> object, error |-> error, text |-> text]
<1>0. /\ <<END>> \in Seq(Byte) /\ Len(<<END>>) = 1 /\ <<VARCHAR>> \in Seq(Byte) /\ Len(<<VARCHAR>>) = 1
      /\ L \in Nat /\ 12 \in Byte
  BY Magics DEF Byte, Kinds
<1>1. FatalErrorBytes(object, error, text) = t
  BY DEF FatalErrorBytes, TwoWords
<1>2. /\ w \in Seq(Byte) /\ Len(w) = 11
      /\ Stands(d, 0, w) =>
          /\ Len(d) > 0 => d[1] = 12
          /\ 11 <= Len(d) => /\ Has(d, 0, 12) /\ Has(d, 1, UINT) /\ Has(d, 6, UINT)
                             /\ U32At(d, 2) = object /\ U32At(d, 7) = error
  BY <1>0, TwoWordFields
<1>v. Varchar(text) \in Seq(Byte) /\ v \in Nat
  <2>1. Varchar(text) \in Seq(Byte)
    BY VarcharIs
  <2> QED BY <2>1
<1> HIDE DEF w
<1>3. Field(d, w, <<VARCHAR>>, p)
  BY <1>0, <1>2, NextField
<1>4. p \in Seq(Byte) /\ Len(p) = 12 /\ (Stands(d, 0, p) => Stands(d, 0, w) /\ Stands(d, 11, <<VARCHAR>>))
  <2> HIDE DEF p
  <2> QED BY <1>0, <1>2, <1>3 DEF Field
<1> HIDE DEF p
<1>5. Field(d, p, Varchar(text), q)
  BY <1>4, <1>v, NextField
<1>6. q \in Seq(Byte) /\ Len(q) = 12 + v /\ (Stands(d, 0, q) => Stands(d, 0, p) /\ Stands(d, 12, Varchar(text)))
  <2> HIDE DEF q
  <2> QED BY <1>4, <1>5 DEF Field
<1> HIDE DEF q
<1>7. Field(d, q, <<END>>, t)
  BY <1>0, <1>6, NextField
<1>8. t \in Seq(Byte) /\ Len(t) = 13 + v /\ Stands(d, 0, q) /\ Stands(d, 12 + v, <<END>>)
  <2>1. Stands(d, 0, t)
    BY <1>1
  <2>2. (12 + v) + 1 = 13 + v
    BY <1>v
  <2> HIDE DEF t, v
  <2> QED BY <1>0, <1>6, <1>7, <2>1, <2>2 DEF Field
<1>9. 12 + v < L => Has(d, 12 + v, END)
  <2>1. 12 + v \in Nat
    BY <1>v
  <2> HIDE DEF v
  <2> QED BY <1>8, <2>1, OneField
<1>10. (11 < L => Has(d, 11, VARCHAR))
  BY <1>4, <1>6, <1>8, OneField
<1>11. /\ 12 + v < L => StringFound(d, 12) = [next |-> 12 + v, string |-> text]
       /\ 12 + v >= L => ~Has(d, StringFound(d, 12).next, END)
  <2>1. StringAndEnd(d, 12, text)
    BY <1>6, <1>8, StringThere
  <2> QED BY <2>1 DEF StringAndEnd
<1>12. /\ 13 + v <= L => 12 + v < L /\ 11 < L /\ 11 <= L
       /\ 13 + v > L => 12 + v >= L
       /\ (12 + v) + 1 = 13 + v
  BY <1>0, <1>v
<1>13. ParseFatalError(d) =
         IF /\ Has(d, 0, 12) /\ Has(d, 1, UINT) /\ Has(d, 6, UINT)
            /\ Has(d, 11, VARCHAR) /\ Has(d, StringFound(d, 12).next, END)
         THEN [len |-> StringFound(d, 12).next + 1,
               msg |-> [code |-> "FATAL_PROTOCOL_ERROR", object |-> U32At(d, 2),
                        error |-> U32At(d, 7), text |-> StringFound(d, 12).string]]
         ELSE Failed
  BY DEF ParseFatalError, StringFound
<1> HIDE DEF v, t
<1>14. ASSUME 13 + v <= L PROVE ParseFatalError(d) = [len |-> 13 + v, msg |-> msg]
  <2>1. StringFound(d, 12).next = 12 + v /\ StringFound(d, 12).string = text
    BY <1>11, <1>12, <1>14
  <2>2. /\ Has(d, 0, 12) /\ Has(d, 1, UINT) /\ Has(d, 6, UINT) /\ U32At(d, 2) = object /\ U32At(d, 7) = error
        /\ Has(d, 11, VARCHAR) /\ Has(d, 12 + v, END)
    BY <1>2, <1>4, <1>6, <1>8, <1>9, <1>10, <1>12, <1>14
  <2> QED BY <1>12, <1>13, <2>1, <2>2
<1>15. 13 + v > L => ParseFatalError(d) = Failed
  BY <1>11, <1>12, <1>13
<1>16. Parses(t, d, ParseFatalError(d), msg)
  <2>1. 13 + v \in Nat /\ 13 + v > 0
    BY <1>v DEF v
  <2> HIDE DEF msg
  <2> QED BY <1>8, <1>14, <1>15, <2>1, ParsesIs
<1> QED BY <1>1, <1>2, <1>4, <1>6, <1>8, <1>16

(* BIND_PROTOCOL, for a version that is not 0.                               *)
LEMMA BindParses ==
    ASSUME NEW protocol \in Seq(Byte), Len(protocol) \in Lengths, NEW seq \in U32, NEW version \in U32,
           version # Zero, NEW d \in Seq(Byte), Stands(d, 0, BindProtocolBytes(protocol, seq, version))
    PROVE  /\ Parses(BindProtocolBytes(protocol, seq, version), d, ParseBindProtocol(d),
                     [code |-> "BIND_PROTOCOL", protocol |-> protocol, seq |-> seq, version |-> version])
           /\ Len(d) > 0 => d[1] = 10
<1> DEFINE o == <<10, UINT>>
           a == o \o seq
           b == a \o <<VARCHAR>>
           c == b \o Varchar(protocol)
           e == c \o <<UINT>>
           f == e \o version
           t == f \o <<END>>
           L == Len(d)
           v == Len(Varchar(protocol))
           msg == [code |-> "BIND_PROTOCOL", protocol |-> protocol, seq |-> seq, version |-> version]
<1>0. /\ <<END>> \in Seq(Byte) /\ Len(<<END>>) = 1 /\ <<VARCHAR>> \in Seq(Byte) /\ Len(<<VARCHAR>>) = 1
      /\ <<UINT>> \in Seq(Byte) /\ Len(<<UINT>>) = 1 /\ L \in Nat /\ o \in Seq(Byte) /\ Len(o) = 2
  BY Magics DEF Byte, Kinds
<1>w. seq \in Seq(Byte) /\ Len(seq) = 4 /\ version \in Seq(Byte) /\ Len(version) = 4
  BY WordIs
<1>v. Varchar(protocol) \in Seq(Byte) /\ v \in Nat
  <2>1. Varchar(protocol) \in Seq(Byte)
    BY VarcharIs
  <2> QED BY <2>1
<1>t. BindProtocolBytes(protocol, seq, version) = t
  BY DEF BindProtocolBytes
<1> HIDE DEF o
<1>1. Field(d, o, seq, a)
  BY <1>0, <1>w, NextField
<1>2. a \in Seq(Byte) /\ Len(a) = 6 /\ (Stands(d, 0, a) => Stands(d, 0, o) /\ Stands(d, 2, seq))
  <2> HIDE DEF a
  <2> QED BY <1>0, <1>w, <1>1 DEF Field
<1> HIDE DEF a
<1>3. Field(d, a, <<VARCHAR>>, b)
  BY <1>0, <1>2, NextField
<1>4. b \in Seq(Byte) /\ Len(b) = 7 /\ (Stands(d, 0, b) => Stands(d, 0, a) /\ Stands(d, 6, <<VARCHAR>>))
  <2> HIDE DEF b
  <2> QED BY <1>0, <1>2, <1>3 DEF Field
<1> HIDE DEF b
<1>5. Field(d, b, Varchar(protocol), c)
  BY <1>4, <1>v, NextField
<1>6. c \in Seq(Byte) /\ Len(c) = 7 + v /\ (Stands(d, 0, c) => Stands(d, 0, b) /\ Stands(d, 7, Varchar(protocol)))
  <2> HIDE DEF c
  <2> QED BY <1>4, <1>5 DEF Field
<1> HIDE DEF c
<1>7. Field(d, c, <<UINT>>, e)
  BY <1>0, <1>6, NextField
<1>8. e \in Seq(Byte) /\ Len(e) = 8 + v /\ (Stands(d, 0, e) => Stands(d, 0, c) /\ Stands(d, 7 + v, <<UINT>>))
  <2>1. (7 + v) + 1 = 8 + v
    BY <1>v
  <2> HIDE DEF e, v
  <2> QED BY <1>0, <1>6, <1>7, <2>1 DEF Field
<1> HIDE DEF e
<1>9. Field(d, e, version, f)
  BY <1>8, <1>w, NextField
<1>10. f \in Seq(Byte) /\ Len(f) = 12 + v /\ (Stands(d, 0, f) => Stands(d, 0, e) /\ Stands(d, 8 + v, version))
  <2>1. (8 + v) + 4 = 12 + v
    BY <1>v
  <2> HIDE DEF f, v
  <2> QED BY <1>w, <1>8, <1>9, <2>1 DEF Field
<1> HIDE DEF f
<1>11. Field(d, f, <<END>>, t)
  BY <1>0, <1>10, NextField
<1>12. t \in Seq(Byte) /\ Len(t) = 13 + v /\ Stands(d, 0, f) /\ Stands(d, 12 + v, <<END>>)
  <2>1. Stands(d, 0, t)
    BY <1>t
  <2>2. (12 + v) + 1 = 13 + v
    BY <1>v
  <2> HIDE DEF t, v
  <2> QED BY <1>0, <1>10, <1>11, <2>1, <2>2 DEF Field
<1>13. /\ Stands(d, 0, o) /\ Stands(d, 2, seq) /\ Stands(d, 6, <<VARCHAR>>) /\ Stands(d, 7, Varchar(protocol))
       /\ Stands(d, 7 + v, <<UINT>>) /\ Stands(d, 8 + v, version) /\ Stands(d, 12 + v, <<END>>)
  BY <1>2, <1>4, <1>6, <1>8, <1>10, <1>12
<1>14. /\ Len(d) > 0 => d[1] = 10
       /\ 2 <= Len(d) => Has(d, 0, 10) /\ Has(d, 1, UINT)
  BY <1>13, TwoFields DEF o
<1>15. 6 < L => Has(d, 6, VARCHAR)
  BY <1>13, OneField
<1>16. 2 + 4 <= L => U32At(d, 2) = seq
  BY <1>0, <1>13, WordStands
<1>17. 7 + v < L => Has(d, 7 + v, UINT)
  <2>1. 7 + v \in Nat
    BY <1>v
  <2> HIDE DEF v
  <2> QED BY <1>13, <2>1, OneField
<1>18. (8 + v) + 4 <= L => U32At(d, 8 + v) = version
  <2>1. 8 + v \in Nat
    BY <1>v
  <2> HIDE DEF v
  <2> QED BY <1>0, <1>13, <2>1, WordStands
<1>19. (12 + v < L => Has(d, 12 + v, END)) /\ (12 + v >= L => ~Has(d, 12 + v, END))
  <2>1. 12 + v \in Nat
    BY <1>v
  <2> HIDE DEF v
  <2> QED BY <1>13, <2>1, OneField
<1>20. /\ 7 + v < L => StringFound(d, 7) = [next |-> 7 + v, string |-> protocol]
       /\ 7 + v >= L => ~Has(d, StringFound(d, 7).next, UINT)
  <2>1. StringAndEnd(d, 7, protocol)
    BY <1>13, StringThere
  <2> QED BY <2>1 DEF StringAndEnd
<1>21. /\ 13 + v <= L => 2 <= L /\ 6 < L /\ 2 + 4 <= L /\ 7 + v < L /\ (8 + v) + 4 <= L /\ 12 + v < L
       /\ 13 + v > L => 12 + v >= L
       /\ ~(7 + v < L) => 7 + v >= L
       /\ (7 + v) + 1 = 8 + v /\ (7 + v) + 5 = 12 + v /\ (7 + v) + 6 = 13 + v
  BY <1>0, <1>v
<1>22. ParseBindProtocol(d) =
         IF /\ Has(d, 0, 10) /\ Has(d, 1, UINT) /\ Has(d, 6, VARCHAR)
            /\ Has(d, StringFound(d, 7).next, UINT) /\ U32At(d, StringFound(d, 7).next + 1) # Zero
            /\ Has(d, StringFound(d, 7).next + 5, END)
         THEN [len |-> StringFound(d, 7).next + 6,
               msg |-> [code |-> "BIND_PROTOCOL", protocol |-> StringFound(d, 7).string,
                        seq |-> U32At(d, 2), version |-> U32At(d, StringFound(d, 7).next + 1)]]
         ELSE Failed
  BY DEF ParseBindProtocol, StringFound
<1> HIDE DEF v, t
<1>23. ASSUME 13 + v <= L PROVE ParseBindProtocol(d) = [len |-> 13 + v, msg |-> msg]
  <2>1. StringFound(d, 7).next = 7 + v /\ StringFound(d, 7).string = protocol
    BY <1>20, <1>21, <1>23
  <2>2. /\ Has(d, 0, 10) /\ Has(d, 1, UINT) /\ Has(d, 6, VARCHAR) /\ Has(d, 7 + v, UINT)
        /\ U32At(d, 2) = seq /\ U32At(d, 8 + v) = version /\ Has(d, 12 + v, END)
    BY <1>14, <1>15, <1>16, <1>17, <1>18, <1>19, <1>21, <1>23
  <2> QED BY <1>21, <1>22, <2>1, <2>2
<1>24. ASSUME 13 + v > L PROVE ParseBindProtocol(d) = Failed
  <2>1. CASE 7 + v < L
    <3>1. StringFound(d, 7).next = 7 + v
      BY <1>20, <2>1
    <3>2. ~Has(d, 12 + v, END)
      BY <1>19, <1>21, <1>24
    <3> QED BY <1>21, <1>22, <3>1, <3>2
  <2>2. CASE ~(7 + v < L)
    BY <1>20, <1>21, <1>22, <2>2
  <2> QED BY <2>1, <2>2
<1>25. Parses(t, d, ParseBindProtocol(d), msg)
  <2>1. 13 + v \in Nat /\ 13 + v > 0
    BY <1>v DEF v
  <2> HIDE DEF msg
  <2> QED BY <1>12, <1>23, <1>24, <2>1, ParsesIs
<1> QED BY <1>t, <1>14, <1>25

(* HANDSHAKE_BEGIN.                                                           *)
LEMMA BeginParses ==
    ASSUME NEW versions \in Seq(U32), Len(versions) \in Lengths,
           NEW d \in Seq(Byte), Stands(d, 0, HandshakeBeginBytes(versions))
    PROVE  /\ Parses(HandshakeBeginBytes(versions), d, ParseHandshakeBegin(d),
                     [code |-> "HANDSHAKE_BEGIN", versions |-> versions])
           /\ Len(d) > 0 => d[1] = 2
<1> DEFINE o == <<2, ARRAY, UINT>>
           n == Len(versions)
           s == VarIntSize(n)
           a == o \o EncodeVarInt(n)
           b == a \o FlattenSeq(versions)
           t == b \o <<END>>
           L == Len(d)
           x == 4 * n
           msg == [code |-> "HANDSHAKE_BEGIN", versions |-> versions]
           count == ParseVarInt(d, 3)
           stop == 3 + count.len + 4 * count.value
<1>0. /\ <<END>> \in Seq(Byte) /\ Len(<<END>>) = 1 /\ L \in Nat /\ o \in Seq(Byte) /\ Len(o) = 3 /\ n \in Nat
      /\ x \in Nat
  BY Magics DEF Byte
<1>c. EncodeVarInt(n) \in Seq(Byte) /\ Len(EncodeVarInt(n)) = s /\ s \in 1..4
  <2>1. n \in Lengths
    OBVIOUS
  <2> HIDE DEF n
  <2>2. s \in 1..4 /\ Len(EncodeVarInt(n)) = s /\ EncodeVarInt(n) \in [1..s -> Byte]
    BY <2>1, CodeShape
  <2> HIDE DEF s
  <2>3. s \in Nat
    BY <2>2
  <2> QED BY <2>2, <2>3, FunctionIsSeq
<1>f. FlattenSeq(versions) \in Seq(Byte) /\ Len(FlattenSeq(versions)) = x
  <2>1. \A i \in 1..Len(FlattenSeq(versions)) : TRUE
    OBVIOUS
  <2> DEFINE far == Len(d)
  <2>3. Stands(d, far, FlattenSeq(versions))
    <3>1. \A i \in Nat : i > 0 => ~(far + i <= Len(d))
      BY <1>0
    <3>2. \A i \in 1..Len(FlattenSeq(versions)) : ~(far + i <= Len(d))
      BY <3>1
    <3> QED BY <3>2 DEF Stands
  <2> QED BY <1>0, <2>3, WordsStand
<1>t. HandshakeBeginBytes(versions) = t
  BY DEF HandshakeBeginBytes
<1> HIDE DEF o, n, s, x
<1>1. Field(d, o, EncodeVarInt(n), a)
  BY <1>0, <1>c, NextField
<1>2. a \in Seq(Byte) /\ Len(a) = 3 + s /\ (Stands(d, 0, a) => Stands(d, 0, o) /\ Stands(d, 3, EncodeVarInt(n)))
  <2> HIDE DEF a
  <2> QED BY <1>0, <1>c, <1>1 DEF Field
<1> HIDE DEF a
<1>3. Field(d, a, FlattenSeq(versions), b)
  BY <1>2, <1>f, NextField
<1>4. b \in Seq(Byte) /\ Len(b) = (3 + s) + x /\ (Stands(d, 0, b) => Stands(d, 0, a)
      /\ Stands(d, 3 + s, FlattenSeq(versions)))
  <2> HIDE DEF b
  <2> QED BY <1>2, <1>f, <1>3 DEF Field
<1> HIDE DEF b
<1>5. Field(d, b, <<END>>, t)
  BY <1>0, <1>4, NextField
<1> DEFINE e == (3 + s) + x
<1>e. e \in Nat /\ 3 + s \in Nat /\ 3 + s <= e
  BY <1>0, <1>c
<1>6. t \in Seq(Byte) /\ Len(t) = e + 1 /\ Stands(d, 0, b) /\ Stands(d, e, <<END>>)
  <2>1. Stands(d, 0, t)
    BY <1>t
  <2> HIDE DEF t
  <2> QED BY <1>0, <1>4, <1>5, <2>1 DEF Field
<1>7. Stands(d, 0, o) /\ Stands(d, 3, EncodeVarInt(n)) /\ Stands(d, 3 + s, FlattenSeq(versions))
      /\ Stands(d, e, <<END>>)
  BY <1>2, <1>4, <1>6
<1>8. /\ 3 <= Len(d) => Has(d, 0, 2) /\ Has(d, 1, ARRAY) /\ Has(d, 2, UINT)
      /\ Len(d) > 0 => d[1] = 2
  BY <1>7, ThreeFields DEF o
<1> HIDE DEF e
<1>9. (e < L => Has(d, e, END)) /\ (e >= L => ~Has(d, e, END))
  BY <1>7, <1>e, OneField
<1>10. \/ 3 + s <= L /\ count = [value |-> n, len |-> s]
       \/ 3 + s > L /\ 3 + count.len >= L
  <2>1. n \in Lengths
    BY DEF n
  <2>2. \/ 3 + VarIntSize(n) <= Len(d) /\ ParseVarInt(d, 3) = [value |-> n, len |-> VarIntSize(n)]
        \/ 3 + VarIntSize(n) > Len(d) /\ 3 + ParseVarInt(d, 3).len >= Len(d)
    BY <1>7, <2>1, NumberStands
  <2> QED BY <2>2 DEF s
<1>11. count.value \in Nat /\ count.len \in 1..4
  BY NumberFound
<1>12. ParseHandshakeBegin(d) =
         IF Has(d, 0, 2) /\ Has(d, 1, ARRAY) /\ Has(d, 2, UINT) /\ Has(d, stop, END)
         THEN [len |-> stop + 1,
               msg |-> [code |-> "HANDSHAKE_BEGIN",
                        versions |-> [i \in 1..count.value |-> U32At(d, (3 + count.len) + 4 * (i - 1))]]]
         ELSE Failed
  BY DEF ParseHandshakeBegin
<1> HIDE DEF t, count
<1>13. ASSUME 3 + s <= L, count = [value |-> n, len |-> s]
       PROVE  stop = e /\ count.value = n /\ count.len = s
  BY <1>13 DEF e, x
<1>14. ASSUME e + 1 <= L PROVE ParseHandshakeBegin(d) = [len |-> e + 1, msg |-> msg]
  <2>1. 3 + s <= L /\ ~(3 + s > L) /\ e < L /\ 3 <= L
    BY <1>0, <1>c, <1>e, <1>14
  <2>2. stop = e /\ count.value = n /\ count.len = s
    BY <1>10, <1>13, <2>1
  <2>3. versions = [i \in 1..n |-> U32At(d, (3 + s) + 4 * (i - 1))]
    <3>1. (3 + s) + 4 * Len(versions) <= Len(d)
      <4>1. x = 4 * Len(versions)
        BY DEF x, n
      <4>2. (3 + s) + x <= L
        BY <1>e, <2>1, <1>0 DEF e
      <4> HIDE DEF x
      <4> QED BY <4>1, <4>2
    <3>2. Len(d) \in Nat /\ 3 + s \in Nat
      BY <1>0, <1>e
    <3> DEFINE k == 3 + s
    <3>3. k \in Nat /\ k + 4 * Len(versions) <= Len(d) /\ Stands(d, k, FlattenSeq(versions))
      BY <1>7, <3>1, <3>2
    <3> HIDE DEF k
    <3>4. versions = [i \in 1..Len(versions) |-> U32At(d, k + 4 * (i - 1))]
      BY <3>2, <3>3, WordsStand
    <3> QED BY <3>4 DEF k, n
  <2>4. Has(d, 0, 2) /\ Has(d, 1, ARRAY) /\ Has(d, 2, UINT) /\ Has(d, e, END)
    BY <1>8, <1>9, <2>1
  <2> HIDE DEF stop
  <2>5. ParseHandshakeBegin(d) =
          [len |-> stop + 1,
           msg |-> [code |-> "HANDSHAKE_BEGIN",
                    versions |-> [i \in 1..count.value |-> U32At(d, (3 + count.len) + 4 * (i - 1))]]]
    BY <1>12, <2>2, <2>4
  <2>6. [i \in 1..count.value |-> U32At(d, (3 + count.len) + 4 * (i - 1))]
          = [i \in 1..n |-> U32At(d, (3 + s) + 4 * (i - 1))]
    BY <2>2
  <2>7. [i \in 1..count.value |-> U32At(d, (3 + count.len) + 4 * (i - 1))] = versions
    BY <2>3, <2>6, Zenon
  <2> QED BY <2>2, <2>5, <2>7, Zenon
<1>15. ASSUME e + 1 > L PROVE ParseHandshakeBegin(d) = Failed
  <2>1. CASE 3 + s <= L /\ count = [value |-> n, len |-> s]
    <3>1. stop = e /\ e >= L
      BY <1>0, <1>e, <1>13, <1>15, <2>1
    <3> HIDE DEF stop
    <3>2. ~Has(d, stop, END)
      BY <1>9, <3>1
    <3> QED BY <1>12, <3>2
  <2>2. CASE 3 + s > L /\ 3 + count.len >= L
    <3>1. stop \in Nat /\ stop >= L
      <4> DEFINE taken == count.len
                 many == count.value
      <4>1. taken \in Nat /\ many \in Nat /\ L \in Nat /\ 3 + taken >= L
        BY <1>0, <1>11, <2>2
      <4>2. stop = 3 + taken + 4 * many
        OBVIOUS
      <4> HIDE DEF stop, taken, many, L
      <4>3. 4 * many \in Nat
        BY <4>1
      <4> QED BY <4>1, <4>2, <4>3
    <3> HIDE DEF stop
    <3>2. ~Has(d, stop, END)
      BY <3>1, Outside
    <3> QED BY <1>12, <3>2
  <2> QED BY <1>10, <2>1, <2>2
<1>16. Parses(t, d, ParseHandshakeBegin(d), msg)
  <2>1. e + 1 \in Nat /\ e + 1 > 0
    BY <1>e
  <2> HIDE DEF msg
  <2> QED BY <1>6, <1>14, <1>15, <2>1, ParsesIs
<1> QED BY <1>t, <1>8, <1>16

(* The hello, which is never cut.                                             *)
LEMMA HelloParses ==
    ASSUME NEW d \in Seq(Byte), Stands(d, 0, HelloBytes)
    PROVE  /\ HelloBytes \in Seq(Byte) /\ Len(HelloBytes) = 7
           /\ Len(d) > 0 => d[1] = 1
           /\ 7 <= Len(d) => ParseHello(d) = [len |-> 7, msg |-> Hello]
<1>1. HelloBytes \in Seq(Byte) /\ Len(HelloBytes) = 7 /\ HelloBytes[1] = 1
  BY DEF HelloBytes, Byte, VARCHAR, END
<1>2. Len(d) \in Nat /\ 0 \in Nat
  OBVIOUS
<1>3. Len(d) > 0 => d[1] = 1
  <2>1. 1 \in 1..Len(HelloBytes) /\ 0 + 1 = 1
    BY <1>1
  <2>2. 0 + 1 <= Len(d) => d[0 + 1] = HelloBytes[1]
    BY <2>1 DEF Stands
  <2> QED BY <1>1, <1>2, <2>1, <2>2
<1>4. ASSUME 7 <= Len(d) PROVE Bytes(d, 0, 7) = HelloBytes
  <2> DEFINE h == HelloBytes
  <2>1. h \in Seq(Byte) /\ Len(h) = 7 /\ 0 + Len(h) <= Len(d) /\ Stands(d, 0, h)
    BY <1>1, <1>2, <1>4
  <2> HIDE DEF h
  <2>2. Bytes(d, 0, Len(h)) = h
    BY <1>2, <2>1, BytesStand
  <2> QED BY <2>1, <2>2 DEF h
<1> QED BY <1>1, <1>3, <1>4 DEF ParseHello

-----------------------------------------------------------------------------
(* Names of specs: name, '@' and a number in decimal.                         *)
DigitBytes == 48..57

(* A number without its last digit is smaller.                                *)
LEMMA Tenth ==
    ASSUME NEW k \in Nat
    PROVE  /\ k % 10 \in 0..9 /\ k \div 10 \in Nat /\ k = 10 * (k \div 10) + (k % 10)
           /\ k >= 10 => k \div 10 < k
           /\ k < 10 => k \in 0..9
OBVIOUS

DecimalStep(D, k) == IF k < 10 THEN <<48 + k>> ELSE Append(D[k \div 10], 48 + (k % 10))

(* So the digits are a function of the number.                                *)
LEMMA DecimalRecursion ==
    ASSUME NEW n \in Nat
    PROVE  \E D : D[n] = Decimal(n) /\ \A k \in 0..n : D[k] = DecimalStep(D, k)
<1> DEFINE T == Seq(DigitBytes)
           Good(g) == g = [k \in 0..n |-> IF k < 10 THEN <<48 + k>> ELSE Append(g[k \div 10], 48 + (k % 10))]
           F == CHOOSE g : Good(g)
           step == [p \in Nat \X [Nat -> T] |-> DecimalStep(p[2], p[1])]
<1>1. Decimal(n) = F[n]
  BY DEF Decimal
<1>2. \A k \in Nat, g \in [Nat -> T] : DecimalStep(g, k) \in T
  <2> TAKE k \in Nat, g \in [Nat -> T]
  <2>0. k % 10 \in 0..9 /\ k \div 10 \in Nat /\ (k < 10 => k \in 0..9)
    BY Tenth
  <2>1. \A i \in 0..9 : 48 + i \in DigitBytes
    BY DEF DigitBytes
  <2>2. CASE k < 10
    <3>1. 48 + k \in DigitBytes
      BY <2>0, <2>1, <2>2
    <3>2. <<48 + k>> \in T
      BY <3>1
    <3> QED BY <2>2, <3>2 DEF DecimalStep
  <2>3. CASE ~(k < 10)
    <3>1. g[k \div 10] \in T /\ 48 + (k % 10) \in DigitBytes
      BY <2>0, <2>1
    <3> DEFINE s == g[k \div 10]
               x == 48 + (k % 10)
    <3>2. s \in Seq(DigitBytes) /\ x \in DigitBytes
      BY <3>1
    <3> HIDE DEF s, x
    <3>3. Append(s, x) \in Seq(DigitBytes)
      BY <3>2
    <3> QED BY <2>3, <3>3 DEF DecimalStep, s, x
  <2> QED BY <2>2, <2>3
<1>3. <<>> \in T
  OBVIOUS
<1> HIDE DEF T
<1>4. step \in [Nat \X [Nat -> T] -> T]
  BY <1>2
<1>5. \A k \in Nat, g \in [Nat -> T] : step[<<k, g>>] = DecimalStep(g, k)
  OBVIOUS
<1> HIDE DEF step
<1>6. Determined(T, step)
  <2> SUFFICES ASSUME NEW k \in Nat, NEW g \in [Nat -> T], NEW h \in [Nat -> T],
                      \A j \in Nat : j < k => g[j] = h[j]
               PROVE  step[<<k, g>>] = step[<<k, h>>]
    BY DEF Determined
  <2>1. k \div 10 \in Nat /\ (k >= 10 => k \div 10 < k)
    BY Tenth
  <2>2. CASE k < 10
    <3>1. DecimalStep(g, k) = <<48 + k>> /\ DecimalStep(h, k) = <<48 + k>>
      BY <2>2 DEF DecimalStep
    <3> QED BY <1>5, <3>1
  <2>3. CASE k >= 10
    <3>1. g[k \div 10] = h[k \div 10] /\ ~(k < 10)
      BY <2>1, <2>3
    <3> QED BY <1>5, <3>1 DEF DecimalStep
  <2> QED BY <2>2, <2>3
<1>7. PICK f : Solves(f, T, step)
  BY <1>3, <1>4, <1>6, Recursion
<1>8. \A k \in Nat : f[k] = DecimalStep(f, k)
  BY <1>5, <1>7 DEF Solves
<1> DEFINE h == [k \in 0..n |-> f[k]]
<1>9. Good(h)
  <2>1. ASSUME NEW k \in 0..n PROVE h[k] = DecimalStep(h, k)
    <3>0. k \in Nat /\ h[k] = f[k]
      OBVIOUS
    <3>1. k \div 10 \in Nat /\ (k >= 10 => k \div 10 < k)
      BY <3>0, Tenth
    <3>2. CASE k < 10
      BY <1>8, <3>0, <3>2 DEF DecimalStep
    <3>3. CASE k >= 10
      <4>1. k \div 10 \in 0..n /\ ~(k < 10)
        BY <3>1, <3>3
      <4>2. h[k \div 10] = f[k \div 10]
        BY <4>1
      <4> HIDE DEF h
      <4> QED BY <1>8, <3>0, <4>1, <4>2 DEF DecimalStep
    <3> QED BY <3>0, <3>2, <3>3
  <2>2. h = [k \in 0..n |-> h[k]]
    OBVIOUS
  <2> HIDE DEF h
  <2>3. h = [k \in 0..n |-> DecimalStep(h, k)]
    BY <2>1, <2>2
  <2> QED BY <2>3 DEF DecimalStep
<1>10. Good(F)
  <2> HIDE DEF Good
  <2> QED BY <1>9
<1> HIDE DEF F
<1>11. \A k \in 0..n : F[k] = DecimalStep(F, k)
  BY <1>10 DEF DecimalStep
<1> QED BY <1>1, <1>11

(* The digits of a number count up to it, wherever they stand in what counts. *)
Counts(val, off, s) ==
    val[off] = 0 /\ \A j \in 1..Len(s) : val[off + j] = 10 * val[off + j - 1] + s[j] - 48
Counted(s, k) ==
    /\ s \in Seq(DigitBytes)
    /\ \A off \in Nat : \A val : Counts(val, off, s) => val[off + Len(s)] = k

(* What the digits count for: one more,                                       *)
LEMMA LastDigitCounted ==
    ASSUME NEW s, NEW m \in Nat, Counted(s, m), NEW x \in 0..9
    PROVE  Counted(Append(s, 48 + x), 10 * m + x)
<1> DEFINE t == Append(s, 48 + x)
           l == Len(s)
<1>0. s \in Seq(DigitBytes) /\ l \in Nat /\ 48 + x \in DigitBytes
  BY DEF Counted, DigitBytes
<1>1. t \in Seq(DigitBytes) /\ Len(t) = l + 1 /\ t[l + 1] = 48 + x /\ \A j \in 1..l : t[j] = s[j]
  <2> HIDE DEF DigitBytes
  <2> QED BY <1>0
<1> HIDE DEF t, l
<1>2. ASSUME NEW off \in Nat, NEW val, Counts(val, off, t) PROVE val[off + Len(t)] = 10 * m + x
  <2>1. val[off] = 0 /\ \A j \in 1..(l + 1) : val[off + j] = 10 * val[off + j - 1] + t[j] - 48
    BY <1>1, <1>2 DEF Counts
  <2>2. \A j \in 1..l : val[off + j] = 10 * val[off + j - 1] + s[j] - 48
    <3> TAKE j \in 1..l
    <3>1. j \in 1..(l + 1) /\ t[j] = s[j]
      BY <1>0, <1>1
    <3> QED BY <2>1, <3>1
  <2>3. Counts(val, off, s)
    BY <2>1, <2>2 DEF Counts, l
  <2>4. val[off + l] = m
    BY <2>3 DEF Counted, l
  <2>5. l + 1 \in 1..(l + 1) /\ off + (l + 1) - 1 = off + l
    BY <1>0
  <2>6. val[off + (l + 1)] = 10 * val[off + l] + (48 + x) - 48
    <3>1. val[off + (l + 1)] = 10 * val[off + (l + 1) - 1] + t[l + 1] - 48
      BY <2>1, <2>5
    <3> QED BY <1>1, <2>5, <3>1
  <2>7. 10 * m + (48 + x) - 48 = 10 * m + x
    OBVIOUS
  <2> QED BY <1>1, <2>4, <2>6, <2>7
<1> QED BY <1>1, <1>2 DEF Counted, t

(* one alone,                                                                 *)
LEMMA OneDigitCounted ==
    ASSUME NEW x \in 0..9
    PROVE  Counted(<<48 + x>>, x)
<1> DEFINE s == <<48 + x>>
<1>1. s \in Seq(DigitBytes) /\ Len(s) = 1 /\ s[1] = 48 + x
  <2>1. 48 + x \in DigitBytes
    BY DEF DigitBytes
  <2> QED BY <2>1
<1> HIDE DEF s
<1>2. ASSUME NEW off \in Nat, NEW val, Counts(val, off, s) PROVE val[off + Len(s)] = x
  <2>1. 1 \in 1..Len(s) /\ off + 1 - 1 = off
    BY <1>1
  <2>2. val[off + 1] = 10 * val[off + 1 - 1] + s[1] - 48 /\ val[off] = 0
    BY <1>2, <2>1 DEF Counts
  <2>3. 10 * 0 + (48 + x) - 48 = x
    OBVIOUS
  <2> QED BY <1>1, <2>1, <2>2, <2>3
<1> QED BY <1>1, <1>2 DEF Counted, s

(* and all of them.                                                           *)
LEMMA DecimalCounted ==
    ASSUME NEW n \in Nat
    PROVE  Counted(Decimal(n), n)
<1>1. PICK D : D[n] = Decimal(n) /\ \A k \in 0..n : D[k] = DecimalStep(D, k)
  BY DecimalRecursion
<1> DEFINE A == {m \in Nat : \A k \in 0..m : k <= n => Counted(D[k], k)}
<1>2. ASSUME NEW k \in 0..n, \A j \in 0..n : j < k => Counted(D[j], j) PROVE Counted(D[k], k)
  <2>0. k \in Nat /\ D[k] = DecimalStep(D, k)
    BY <1>1
  <2>1. /\ k % 10 \in 0..9 /\ k \div 10 \in Nat /\ k = 10 * (k \div 10) + (k % 10)
        /\ k >= 10 => k \div 10 < k
        /\ k < 10 => k \in 0..9
    BY <2>0, Tenth
  <2>2. CASE k < 10
    <3>1. D[k] = <<48 + k>>
      BY <2>0, <2>2 DEF DecimalStep
    <3> QED BY <2>1, <2>2, <3>1, OneDigitCounted
  <2>3. CASE k >= 10
    <3> DEFINE q == k \div 10
               x == k % 10
    <3>1. D[k] = Append(D[q], 48 + x)
      <4>1. ~(k < 10)
        BY <2>0, <2>3
      <4> QED BY <2>0, <4>1 DEF DecimalStep
    <3>2. q \in Nat /\ q < k /\ x \in 0..9 /\ k = 10 * q + x
      BY <2>1, <2>3
    <3> HIDE DEF q, x
    <3>3. Counted(D[q], q)
      <4>1. q \in 0..n
        BY <3>2
      <4> QED BY <1>2, <3>2, <4>1
    <3>4. Counted(Append(D[q], 48 + x), 10 * q + x)
      BY <3>2, <3>3, LastDigitCounted
    <3> QED BY <3>1, <3>2, <3>4
  <2> QED BY <2>0, <2>2, <2>3
<1>3. 0 \in A
  <2>1. 0 \in 0..n /\ \A j \in 0..n : ~(j < 0)
    OBVIOUS
  <2>2. Counted(D[0], 0)
    BY <1>2, <2>1
  <2>3. \A k \in 0..0 : k = 0
    OBVIOUS
  <2> QED BY <2>2, <2>3
<1>4. ASSUME NEW m \in Nat, m \in A PROVE m + 1 \in A
  <2> SUFFICES ASSUME NEW k \in 0..(m + 1), k <= n PROVE Counted(D[k], k)
    OBVIOUS
  <2>1. \A j \in 0..n : j < k => j \in 0..m /\ j <= n
    OBVIOUS
  <2>2. \A j \in 0..n : j < k => Counted(D[j], j)
    BY <1>4, <2>1
  <2>3. k \in 0..n
    OBVIOUS
  <2> QED BY <1>2, <2>2, <2>3
<1> HIDE DEF A
<1>5. n \in A
  BY <1>3, <1>4, Induction
<1>6. n \in 0..n /\ n <= n
  OBVIOUS
<1> QED BY <1>1, <1>5, <1>6 DEF A

Spec0 == [name : Seq(Byte), version : Nat]

(* A text with name, '@' and digits.                                          *)
SpecText(text, name, digits) ==
    /\ text \in Seq(Byte) /\ Len(name) \in Nat /\ Len(digits) \in Nat
    /\ Len(text) = (Len(name) + 1) + Len(digits)
    /\ (\A i \in 1..Len(name) : text[i] = name[i]) /\ text[Len(name) + 1] = At
    /\ \A j \in 1..Len(digits) : text[(Len(name) + 1) + j] = digits[j] /\ digits[j] \in DigitBytes

(* The text of a spec.                                                        *)
LEMMA SpecNameIs ==
    ASSUME NEW spec \in Spec0
    PROVE  SpecText(SpecName(spec), spec.name, Decimal(spec.version))
<1> DEFINE n == spec.name
           D == Decimal(spec.version)
           a == n \o <<At>>
           t == a \o D
<1>1. n \in Seq(Byte) /\ <<At>> \in Seq(Byte) /\ Len(<<At>>) = 1 /\ <<At>>[1] = At
  BY DEF Spec0, At, Byte
<1>2. D \in Seq(DigitBytes) /\ D \in Seq(Byte)
  <2>1. D \in Seq(DigitBytes)
    BY DecimalCounted DEF Spec0, Counted
  <2>2. DigitBytes \subseteq Byte
    BY DEF DigitBytes, Byte
  <2> HIDE DEF D
  <2> QED BY <2>1, <2>2, SeqWider
<1>3. SpecName(spec) = t
  BY DEF SpecName
<1> HIDE DEF n, D
<1>4. JoinedAre(n, <<At>>, a)
  BY <1>1, JoinedBytes
<1>5. a \in Seq(Byte) /\ Len(a) = Len(n) + 1 /\ Len(n) \in Nat /\ a[Len(n) + 1] = At
      /\ \A i \in 1..Len(n) : a[i] = n[i]
  <2> HIDE DEF a
  <2>1. a \in Seq(Byte) /\ Len(a) = Len(n) + 1 /\ Len(n) \in Nat /\ \A i \in 1..Len(n) : a[i] = n[i]
    BY <1>1, <1>4 DEF JoinedAre
  <2>2. 1 \in 1..Len(<<At>>)
    BY <1>1
  <2>3. a[Len(n) + 1] = <<At>>[1]
    BY <1>4, <2>2 DEF JoinedAre
  <2> QED BY <1>1, <2>1, <2>3
<1> HIDE DEF a
<1>6. JoinedAre(a, D, t)
  BY <1>2, <1>5, JoinedBytes
<1> HIDE DEF t
<1>7. /\ t \in Seq(Byte) /\ Len(D) \in Nat /\ Len(t) = (Len(n) + 1) + Len(D)
      /\ (\A i \in 1..(Len(n) + 1) : t[i] = a[i])
      /\ (\A j \in 1..Len(D) : t[(Len(n) + 1) + j] = D[j])
  BY <1>5, <1>6 DEF JoinedAre
<1>8. (\A i \in 1..Len(n) : t[i] = n[i]) /\ t[Len(n) + 1] = At
  BY <1>5, <1>7
<1>9. \A j \in 1..Len(D) : D[j] \in DigitBytes
  BY <1>2, InSeq
<1> QED BY <1>3, <1>5, <1>7, <1>8, <1>9 DEF SpecText, n, D

(* serverSpecs finds in it what was put together.                             *)
LEMMA ServerSpecIs ==
    ASSUME NEW spec \in Spec0
    PROVE  ServerSpec(SpecName(spec)) = spec
<1> DEFINE text == SpecName(spec)
           n == Len(spec.name)
           D == Decimal(spec.version)
           a == n + 1
           L == Len(text)
           IsAt(k) == k \in DOMAIN text /\ text[k] = At /\ \A j \in (k + 1)..Len(text) : text[j] # At
           atPos == CHOOSE k \in DOMAIN text : text[k] = At /\ \A j \in (k + 1)..Len(text) : text[j] # At
           Value0(g, k) == IF k <= atPos THEN 0 ELSE 10 * g[k - 1] + text[k] - 48
           Good(g) == g = [k \in 0..L |-> Value0(g, k)]
           F == CHOOSE g : Good(g)
<1>0. SpecText(text, spec.name, D)
  BY SpecNameIs
<1>1. /\ text \in Seq(Byte) /\ n \in Nat /\ Len(D) \in Nat /\ L = a + Len(D) /\ L \in Nat /\ a \in Nat
      /\ (\A i \in 1..n : text[i] = spec.name[i]) /\ text[a] = At
      /\ \A j \in 1..Len(D) : text[a + j] = D[j] /\ D[j] \in DigitBytes
  <2> HIDE DEF text, D
  <2>1. /\ text \in Seq(Byte) /\ n \in Nat /\ Len(D) \in Nat /\ Len(text) = (n + 1) + Len(D)
        /\ (\A i \in 1..n : text[i] = spec.name[i]) /\ text[n + 1] = At
        /\ \A j \in 1..Len(D) : text[(n + 1) + j] = D[j] /\ D[j] \in DigitBytes
    BY <1>0 DEF SpecText
  <2> HIDE DEF n
  <2>2. n + 1 \in Nat /\ Len(text) \in Nat
    BY <2>1
  <2> QED BY <2>1, <2>2
<1>2. ServerSpec(text) = [name |-> SubSeq(text, 1, atPos - 1), version |-> F[L]]
  BY DEF ServerSpec
<1> HIDE DEF text, D, a, n
<1>3. DOMAIN text = 1..L
  BY <1>1
<1>4. ASSUME NEW j \in (a + 1)..L PROVE text[j] # At
  <2>1. j - a \in 1..Len(D) /\ a + (j - a) = j
    BY <1>1
  <2>2. text[a + (j - a)] = D[j - a] /\ D[j - a] \in DigitBytes
    BY <1>1, <2>1
  <2> QED BY <2>1, <2>2 DEF DigitBytes, At
<1> HIDE DEF L
<1>5. a \in DOMAIN text /\ a <= L
  <2>1. a \in 1..L
    BY <1>1 DEF a
  <2> QED BY <1>3, <2>1
<1>6. atPos = a
  <2>1. IsAt(a)
    BY <1>1, <1>4, <1>5 DEF L
  <2>2. \A k : IsAt(k) => k = a
    <3> SUFFICES ASSUME NEW k, IsAt(k) PROVE k = a
      OBVIOUS
    <3>1. k \in 1..L /\ text[k] = At /\ \A j \in (k + 1)..L : text[j] # At
      BY <1>3 DEF L
    <3>2. ~(k < a)
      <4>1. k < a => a \in (k + 1)..L
        BY <1>1, <1>5, <3>1
      <4> QED BY <1>1, <3>1, <4>1
    <3>3. ~(k > a)
      <4>1. k > a => k \in (a + 1)..L
        BY <1>1, <1>5, <3>1
      <4> QED BY <1>4, <3>1, <4>1
    <3> QED BY <1>1, <3>1, <3>2, <3>3
  <2>3. IsAt(atPos)
    BY <2>1
  <2> HIDE DEF IsAt, atPos
  <2> QED BY <2>2, <2>3
<1> HIDE DEF atPos
<1>7. SubSeq(text, 1, a - 1) = spec.name
  <2> DEFINE s == spec.name
             u == SubSeq(text, 1, a - 1)
  <2>1. a - 1 = n /\ n <= L
    BY <1>1, <1>5 DEF a
  <2>2. u \in Seq(Byte) /\ Len(u) = n /\ \A i \in 1..n : u[i] = text[i]
    BY <1>1, <2>1 DEF L
  <2>3. s \in Seq(Byte) /\ Len(s) = n
    BY DEF Spec0, n
  <2> HIDE DEF u, s
  <2>4. \A p \in 1..Len(s) : s[p] = u[p]
    BY <1>1, <2>2, <2>3 DEF s
  <2>5. s = u
    BY <2>2, <2>3, <2>4, SameSeq
  <2> QED BY <2>5 DEF s, u
<1> DEFINE step == [p \in (1..L) \X Int |-> IF p[1] <= atPos THEN 0 ELSE 10 * p[2] + text[p[1]] - 48]
<1>8. step \in [(1..L) \X Int -> Int] /\ \A k \in 1..L, x \in Int : step[<<k, x>>] =
      IF k <= atPos THEN 0 ELSE 10 * x + text[k] - 48
  <2>1. \A k \in 1..L : text[k] \in Int
    <3>1. \A k \in 1..Len(text) : text[k] \in Byte
      BY <1>1, InSeq
    <3>2. Byte \subseteq Int
      BY DEF Byte
    <3> QED BY <3>1, <3>2 DEF L
  <2>2. \A k \in 1..L, x \in Int : (IF k <= atPos THEN 0 ELSE 10 * x + text[k] - 48) \in Int
    BY <2>1
  <2> QED BY <2>2
<1> HIDE DEF step
<1>9. PICK f : Recurs(f, L, Int, 0, step)
  <2>1. L \in Nat /\ 0 \in Int
    BY <1>1
  <2> QED BY <1>8, <2>1, UptoRecursion
<1>10. Good(f)
  <2>1. ASSUME NEW k \in 0..L PROVE f[k] = Value0(f, k)
    <3>1. CASE k = 0
      BY <1>1, <1>6, <1>9, <3>1 DEF Recurs
    <3>2. CASE k # 0
      <4>1. k \in 1..L /\ k - 1 \in 0..L
        BY <3>2, <1>1
      <4>2. f[k - 1] \in Int /\ f[k] = step[<<k, f[k - 1]>>]
        BY <1>9, <4>1 DEF Recurs
      <4> QED BY <1>8, <4>1, <4>2
    <3> QED BY <3>1, <3>2
  <2>2. f = [k \in 0..L |-> f[k]]
    BY <1>9 DEF Recurs
  <2> HIDE DEF Value0
  <2> QED BY <2>1, <2>2
<1>11. Good(F)
  <2> HIDE DEF Good
  <2> QED BY <1>10
<1> HIDE DEF F
<1>12. \A k \in 0..L : F[k] = IF k <= a THEN 0 ELSE 10 * F[k - 1] + text[k] - 48
  BY <1>6, <1>11
<1>13. Counts(F, a, D)
  <2>1. F[a] = 0
    <3>1. a \in 0..L /\ a <= a
      BY <1>1, <1>5
    <3> QED BY <1>12, <3>1
  <2>2. ASSUME NEW j \in 1..Len(D) PROVE F[a + j] = 10 * F[a + j - 1] + D[j] - 48
    <3>1. a + j \in 0..L /\ ~(a + j <= a)
      BY <1>1
    <3>2. F[a + j] = 10 * F[a + j - 1] + text[a + j] - 48
      <4>1. PICK k \in 0..L : k = a + j /\ ~(k <= a)
        BY <3>1
      <4>2. F[k] = 10 * F[k - 1] + text[k] - 48
        BY <1>12, <4>1
      <4>3. k - 1 = a + j - 1
        BY <1>1, <4>1
      <4> QED BY <4>1, <4>2, <4>3, Zenon
    <3> QED BY <1>1, <3>2
  <2> QED BY <2>1, <2>2 DEF Counts
<1>14. F[L] = spec.version
  <2>1. Counted(D, spec.version)
    BY DecimalCounted DEF Spec0, D
  <2>2. F[a + Len(D)] = spec.version
    BY <1>1, <1>13, <2>1 DEF Counted
  <2> QED BY <1>1, <2>2
<1>15. ServerSpec(text) = [name |-> spec.name, version |-> spec.version]
  BY <1>2, <1>6, <1>7, <1>14
<1>16. spec = [name |-> spec.name, version |-> spec.version]
  BY DEF Spec0
<1> QED BY <1>15, <1>16 DEF text

(* The code of a length.                                                      *)
LEMMA CodeIs ==
    ASSUME NEW n \in Lengths
    PROVE  EncodeVarInt(n) \in Seq(Byte) /\ Len(EncodeVarInt(n)) = VarIntSize(n) /\ VarIntSize(n) \in 1..4
<1> DEFINE s == VarIntSize(n)
<1>1. s \in 1..4 /\ Len(EncodeVarInt(n)) = s /\ EncodeVarInt(n) \in [1..s -> Byte]
  BY CodeShape
<1> HIDE DEF s
<1>2. s \in Nat
  BY <1>1
<1>3. EncodeVarInt(n) \in Seq(Byte)
  BY <1>1, <1>2, FunctionIsSeq
<1> QED BY <1>1, <1>3 DEF s

ProtocolsMessage(specs) == [code |-> "HANDSHAKE_PROTOCOLS", specs |-> specs]

(* HANDSHAKE_PROTOCOLS: serverSpecs finds name and version again.             *)
LEMMA ProtocolsParses ==
    ASSUME NEW specs \in Seq(Spec0), Len(specs) \in Lengths,
           \A i \in DOMAIN specs : Len(SpecName(specs[i])) \in Lengths,
           NEW d \in Seq(Byte), Stands(d, 0, HandshakeProtocolsBytes(specs))
    PROVE  /\ Parses(HandshakeProtocolsBytes(specs), d, ParseHandshakeProtocols(d), ProtocolsMessage(specs))
           /\ Len(d) > 0 => d[1] = 4
<1> DEFINE o == <<4, ARRAY, VARCHAR>>
           n == Len(specs)
           s == VarIntSize(n)
           protocols == [i \in DOMAIN specs |-> SpecName(specs[i])]
           strings == Varchars(protocols)
           x == Len(strings)
           a == o \o EncodeVarInt(n)
           b == a \o strings
           t == b \o <<END>>
           L == Len(d)
           els == ParseVarInt(d, 3)
           found == VarcharsAt(d, 3 + els.len, els.value)
<1>0. /\ <<END>> \in Seq(Byte) /\ Len(<<END>>) = 1 /\ L \in Nat /\ o \in Seq(Byte) /\ Len(o) = 3 /\ n \in Nat
  BY Magics DEF Byte, Kinds
<1>c. EncodeVarInt(n) \in Seq(Byte) /\ Len(EncodeVarInt(n)) = s /\ s \in 1..4
  BY CodeIs
<1>d. DOMAIN specs = 1..n
  OBVIOUS
<1>p. /\ protocols \in Seq(Seq(Byte)) /\ Len(protocols) = n
      /\ \A i \in 1..Len(protocols) : Len(protocols[i]) \in Lengths
  <2>1. \A i \in 1..n : SpecName(specs[i]) \in Seq(Byte)
    <3> TAKE i \in 1..n
    <3>1. specs[i] \in Spec0
      BY InSeq
    <3> QED BY <3>1, SpecNameIs DEF SpecText
  <2>2. protocols \in [1..n -> Seq(Byte)]
    BY <1>d, <2>1
  <2>3. \A i \in 1..n : protocols[i] = SpecName(specs[i])
    BY <1>d
  <2> HIDE DEF protocols
  <2>4. protocols \in Seq(Seq(Byte)) /\ Len(protocols) = n
    BY <1>0, <2>2, FunctionIsSeq
  <2> QED BY <1>d, <2>3, <2>4
<1>t. HandshakeProtocolsBytes(specs) = t
  BY DEF HandshakeProtocolsBytes
<1>m. \A i \in 1..n : ServerSpec(protocols[i]) = specs[i]
  <2> TAKE i \in 1..n
  <2>1. specs[i] \in Spec0
    BY InSeq
  <2>2. protocols[i] = SpecName(specs[i])
    BY <1>d
  <2> QED BY <2>1, <2>2, ServerSpecIs
<1> HIDE DEF protocols, o, n, s
<1>f. strings \in Seq(Byte) /\ x \in Nat
  <2>1. strings \in Seq(Byte)
    <3> DEFINE far == Len(d)
    <3>1. Stands(d, far, strings)
      <4>1. \A i \in Nat : i > 0 => ~(far + i <= Len(d))
        BY <1>0
      <4>2. \A i \in 1..Len(strings) : ~(far + i <= Len(d))
        BY <4>1
      <4> QED BY <4>2 DEF Stands
    <3>2. far \in Nat
      BY <1>0
    <3> QED BY <1>p, <3>1, <3>2, StringsStand
  <2> HIDE DEF strings
  <2> QED BY <2>1
<1> HIDE DEF strings, x
<1>1. Field(d, o, EncodeVarInt(n), a)
  BY <1>0, <1>c, NextField
<1>2. a \in Seq(Byte) /\ Len(a) = 3 + s /\ (Stands(d, 0, a) => Stands(d, 0, o) /\ Stands(d, 3, EncodeVarInt(n)))
  <2> HIDE DEF a
  <2> QED BY <1>0, <1>c, <1>1 DEF Field
<1> HIDE DEF a
<1>3. Field(d, a, strings, b)
  BY <1>2, <1>f, NextField
<1>4. b \in Seq(Byte) /\ Len(b) = (3 + s) + x /\ (Stands(d, 0, b) => Stands(d, 0, a) /\ Stands(d, 3 + s, strings))
  <2> HIDE DEF b
  <2> QED BY <1>2, <1>f, <1>3 DEF Field, x
<1> HIDE DEF b
<1>5. Field(d, b, <<END>>, t)
  BY <1>0, <1>4, NextField
<1> DEFINE e == (3 + s) + x
<1>e. e \in Nat /\ 3 + s \in Nat /\ 3 + s <= e
  BY <1>c, <1>f
<1>6. t \in Seq(Byte) /\ Len(t) = e + 1 /\ Stands(d, 0, b) /\ Stands(d, e, <<END>>)
  <2>1. Stands(d, 0, t)
    BY <1>t
  <2> HIDE DEF t
  <2> QED BY <1>0, <1>4, <1>5, <2>1 DEF Field
<1>7. Stands(d, 0, o) /\ Stands(d, 3, EncodeVarInt(n)) /\ Stands(d, 3 + s, strings) /\ Stands(d, e, <<END>>)
  BY <1>2, <1>4, <1>6
<1>8. /\ 3 <= Len(d) => Has(d, 0, 4) /\ Has(d, 1, ARRAY) /\ Has(d, 2, VARCHAR)
      /\ Len(d) > 0 => d[1] = 4
  BY <1>7, ThreeFields DEF o
<1> HIDE DEF e
<1>9. (e < L => Has(d, e, END)) /\ (e >= L => ~Has(d, e, END))
  BY <1>7, <1>e, OneField
<1>10. \/ 3 + s <= L /\ els = [value |-> n, len |-> s]
       \/ 3 + s > L /\ 3 + els.len >= L
  <2>1. n \in Lengths
    BY DEF n
  <2>2. \/ 3 + VarIntSize(n) <= Len(d) /\ ParseVarInt(d, 3) = [value |-> n, len |-> VarIntSize(n)]
        \/ 3 + VarIntSize(n) > Len(d) /\ 3 + ParseVarInt(d, 3).len >= Len(d)
    BY <1>7, <2>1, NumberStands
  <2> QED BY <2>2 DEF s
<1>11. els.value \in Nat /\ els.len \in 1..4
  BY NumberFound
<1>12. ParseHandshakeProtocols(d) =
         IF Has(d, 0, 4) /\ Has(d, 1, ARRAY) /\ Has(d, 2, VARCHAR) /\ Has(d, found.next, END)
         THEN [len |-> found.next + 1,
               msg |-> [code |-> "HANDSHAKE_PROTOCOLS",
                        specs |-> [i \in DOMAIN found.strings |-> ServerSpec(found.strings[i])]]]
         ELSE Failed
  BY DEF ParseHandshakeProtocols
<1>13. found.next \in Nat /\ found.next >= 3 + els.len
  <2>1. 3 + els.len \in Nat
    BY <1>11
  <2>2. found \in StringsRead /\ found.next >= 3 + els.len
    BY <1>11, <2>1, VarcharsGoOn
  <2> QED BY <2>2 DEF StringsRead
<1>14. \/ e <= L /\ VarcharsAt(d, 3 + s, n) = [next |-> e, strings |-> protocols]
       \/ e > L /\ VarcharsAt(d, 3 + s, n).next >= L
  <2> DEFINE k == 3 + s
  <2>1. k \in Nat /\ Stands(d, k, Varchars(protocols))
    BY <1>7, <1>e DEF strings
  <2> HIDE DEF k
  <2>2. \/ /\ k + Len(Varchars(protocols)) <= Len(d)
           /\ VarcharsAt(d, k, Len(protocols)) = [next |-> k + Len(Varchars(protocols)), strings |-> protocols]
        \/ /\ k + Len(Varchars(protocols)) > Len(d)
           /\ VarcharsAt(d, k, Len(protocols)).next >= Len(d)
    BY <1>p, <2>1, StringsStand
  <2>3. Len(protocols) = n /\ e = k + Len(Varchars(protocols))
    BY <1>p DEF e, x, strings, k
  <2> QED BY <2>2, <2>3 DEF k
<1> HIDE DEF t, els, found
<1>15. ASSUME e + 1 <= L PROVE ParseHandshakeProtocols(d) = [len |-> e + 1, msg |-> ProtocolsMessage(specs)]
  <2>1. 3 + s <= L /\ ~(3 + s > L) /\ e < L /\ 3 <= L /\ ~(e > L)
    BY <1>0, <1>c, <1>e, <1>15
  <2>2. els.value = n /\ els.len = s
    BY <1>10, <2>1
  <2>3. found = [next |-> e, strings |-> protocols]
    <3>1. found = VarcharsAt(d, 3 + s, n)
      BY <2>2 DEF found
    <3> QED BY <1>14, <2>1, <3>1
  <2>4. Has(d, 0, 4) /\ Has(d, 1, ARRAY) /\ Has(d, 2, VARCHAR) /\ Has(d, e, END)
    BY <1>8, <1>9, <2>1
  <2>5. found.next = e /\ found.strings = protocols
    BY <2>3
  <2>6. DOMAIN found.strings = 1..n /\ \A i \in 1..n : ServerSpec(found.strings[i]) = specs[i]
    BY <1>m, <1>p, <2>5
  <2>7. [i \in DOMAIN found.strings |-> ServerSpec(found.strings[i])] = specs
    <3>1. specs = [i \in 1..n |-> specs[i]]
      BY <1>d
    <3> DEFINE f == found.strings
    <3>2. DOMAIN f = 1..n /\ \A i \in 1..n : ServerSpec(f[i]) = specs[i]
      BY <2>6
    <3> HIDE DEF f
    <3>3. [i \in DOMAIN f |-> ServerSpec(f[i])] = [i \in 1..n |-> specs[i]]
      BY <3>2
    <3> QED BY <3>1, <3>3 DEF f
  <2>8. ParseHandshakeProtocols(d) =
          [len |-> found.next + 1,
           msg |-> [code |-> "HANDSHAKE_PROTOCOLS",
                    specs |-> [i \in DOMAIN found.strings |-> ServerSpec(found.strings[i])]]]
    BY <1>12, <2>4, <2>5
  <2> QED BY <2>5, <2>7, <2>8, Zenon DEF ProtocolsMessage
<1>16. ASSUME e + 1 > L PROVE ParseHandshakeProtocols(d) = Failed
  <2>1. ~Has(d, found.next, END)
    <3>1. CASE 3 + s > L /\ 3 + els.len >= L
      <4>1. found.next >= L
        BY <1>0, <1>11, <1>13, <3>1
      <4> QED BY <1>13, <4>1, Outside
    <3>2. CASE 3 + s <= L /\ els = [value |-> n, len |-> s]
      <4>1. found = VarcharsAt(d, 3 + s, n)
        BY <3>2 DEF found
      <4>2. CASE e <= L
        <5>1. found.next = e /\ e >= L
          <6>1. ~(e > L) /\ e >= L
            BY <1>0, <1>e, <1>16, <4>2
          <6> QED BY <1>14, <4>1, <6>1
        <5> QED BY <1>9, <5>1
      <4>3. CASE ~(e <= L)
        <5>1. found.next >= L
          BY <1>14, <4>1, <4>3
        <5> QED BY <1>13, <5>1, Outside
      <4> QED BY <4>2, <4>3
    <3> QED BY <1>10, <3>1, <3>2
  <2> QED BY <1>12, <2>1
<1>17. Parses(t, d, ParseHandshakeProtocols(d), ProtocolsMessage(specs))
  <2>1. e + 1 \in Nat /\ e + 1 > 0
    BY <1>e
  <2> QED BY <1>6, <1>15, <1>16, <2>1, ParsesIs DEF t
<1> QED BY <1>t, <1>8, <1>17

(* What handleMessage makes of a message that is no call.                     *)
CoreFound(m, d) ==
    /\ m.code # "GENERIC" /\ m.code # "REFUSED" /\ Meaning(m) = m /\ Carried(m) = <<>>
    /\ Layout(m) \in Seq(Byte) /\ Len(Layout(m)) \in Nat /\ Len(Layout(m)) > 0
    /\ Len(d) > 0 => d[1] # 100
    /\ Len(d) > 0 /\ Len(Layout(m)) <= Len(d) => ParseCore(d) = [len |-> Len(Layout(m)), msg |-> m]
    /\ Len(d) > 0 /\ Len(Layout(m)) > Len(d) /\ m # Hello => ParseCore(d) = Failed

(* It follows from what its parser makes of it.                               *)
LEMMA CoreFoundIs ==
    ASSUME NEW m, NEW d, NEW bytes, NEW parsed, m.code # "GENERIC", m.code # "REFUSED", Layout(m) = bytes,
           Parses(bytes, d, parsed, m), Len(d) > 0 => d[1] # 100, Len(d) > 0 => ParseCore(d) = parsed
    PROVE  CoreFound(m, d)
<1>1. Meaning(m) = m /\ Carried(m) = <<>>
  BY DEF Meaning, Carried
<1> QED BY <1>1 DEF CoreFound, Parses

(* The messages of a client,                                                  *)
LEMMA AckFound ==
    ASSUME NEW m, m \in [code : {"HANDSHAKE_ACK"}, version : U32], Encodable(m), receiver = "server",
           NEW d \in Seq(Byte), Stands(d, 0, Layout(m))
    PROVE  CoreFound(m, d)
<1> DEFINE msg == [code |-> "HANDSHAKE_ACK", version |-> m.version]
<1>1. m.code = "HANDSHAKE_ACK" /\ m.version \in U32 /\ m = msg
  OBVIOUS
<1>2. Layout(m) = HandshakeAckBytes(m.version)
  BY <1>1 DEF Layout
<1> HIDE DEF msg
<1>4. Parses(HandshakeAckBytes(m.version), d, ParseHandshakeAck(d), m) /\ (Len(d) > 0 => d[1] = 3)
  <2>1. Stands(d, 0, HandshakeAckBytes(m.version))
    BY <1>2
  <2>2. Parses(HandshakeAckBytes(m.version), d, ParseHandshakeAck(d), msg) /\ (Len(d) > 0 => d[1] = 3)
    BY <1>1, <2>1, AckParses DEF msg
  <2> QED BY <1>1, <2>2
<1>5. Len(d) > 0 => ParseCore(d) = ParseHandshakeAck(d)
  BY <1>4 DEF ParseCore
<1>6. (Len(d) > 0 => d[1] # 100) /\ m.code # "GENERIC" /\ m.code # "REFUSED"
  BY <1>1, <1>4
<1> QED BY <1>2, <1>4, <1>5, <1>6, CoreFoundIs

(* BIND_PROTOCOL,                                                             *)
LEMMA BindFound ==
    ASSUME NEW m, m \in [code : {"BIND_PROTOCOL"}, protocol : Seq(Byte), seq : U32, version : U32],
           Encodable(m), receiver = "server",
           NEW d \in Seq(Byte), Stands(d, 0, Layout(m))
    PROVE  CoreFound(m, d)
<1> DEFINE msg == [code |-> "BIND_PROTOCOL", protocol |-> m.protocol, seq |-> m.seq, version |-> m.version]
<1>1. m.code = "BIND_PROTOCOL" /\ m.protocol \in Seq(Byte) /\ m.seq \in U32 /\ m.version \in U32 /\ m = msg
  OBVIOUS
<1>2. Layout(m) = BindProtocolBytes(m.protocol, m.seq, m.version)
  BY <1>1 DEF Layout
<1>3. Len(m.protocol) \in Lengths /\ m.version # Zero
  BY <1>1 DEF Encodable, Short
<1> HIDE DEF msg
<1>4. Parses(BindProtocolBytes(m.protocol, m.seq, m.version), d, ParseBindProtocol(d), m) /\ (Len(d) > 0 => d[1] = 10)
  <2>1. Stands(d, 0, BindProtocolBytes(m.protocol, m.seq, m.version))
    BY <1>2
  <2>2. Parses(BindProtocolBytes(m.protocol, m.seq, m.version), d, ParseBindProtocol(d), msg)
        /\ (Len(d) > 0 => d[1] = 10)
    BY <1>1, <1>3, <2>1, BindParses DEF msg
  <2> QED BY <1>1, <2>2
<1>5. Len(d) > 0 => ParseCore(d) = ParseBindProtocol(d)
  BY <1>4 DEF ParseCore
<1>6. (Len(d) > 0 => d[1] # 100) /\ m.code # "GENERIC" /\ m.code # "REFUSED"
  BY <1>1, <1>4
<1> QED BY <1>2, <1>4, <1>5, <1>6, CoreFoundIs

(* and ROUNDTRIP_REQUEST;                                                     *)
LEMMA RequestFound ==
    ASSUME NEW m, m \in [code : {"ROUNDTRIP_REQUEST"}, seq : U32], Encodable(m), receiver = "server",
           NEW d \in Seq(Byte), Stands(d, 0, Layout(m))
    PROVE  CoreFound(m, d)
<1> DEFINE msg == [code |-> "ROUNDTRIP_REQUEST", seq |-> m.seq]
<1>1. m.code = "ROUNDTRIP_REQUEST" /\ m.seq \in U32 /\ m = msg
  OBVIOUS
<1>2. Layout(m) = RoundtripRequestBytes(m.seq)
  BY <1>1 DEF Layout
<1> HIDE DEF msg
<1>4. Parses(RoundtripRequestBytes(m.seq), d, ParseRoundtripRequest(d), m) /\ (Len(d) > 0 => d[1] = 13)
  <2>1. Stands(d, 0, RoundtripRequestBytes(m.seq))
    BY <1>2
  <2>2. Parses(RoundtripRequestBytes(m.seq), d, ParseRoundtripRequest(d), msg) /\ (Len(d) > 0 => d[1] = 13)
    BY <1>1, <2>1, RequestParses DEF msg
  <2> QED BY <1>1, <2>2
<1>5. Len(d) > 0 => ParseCore(d) = ParseRoundtripRequest(d)
  BY <1>4 DEF ParseCore
<1>6. (Len(d) > 0 => d[1] # 100) /\ m.code # "GENERIC" /\ m.code # "REFUSED"
  BY <1>1, <1>4
<1> QED BY <1>2, <1>4, <1>5, <1>6, CoreFoundIs

(* those of a server,                                                         *)
LEMMA BeginFound ==
    ASSUME NEW m, m \in [code : {"HANDSHAKE_BEGIN"}, versions : Seq(U32)], Encodable(m), receiver = "client",
           NEW d \in Seq(Byte), Stands(d, 0, Layout(m))
    PROVE  CoreFound(m, d)
<1> DEFINE msg == [code |-> "HANDSHAKE_BEGIN", versions |-> m.versions]
<1>1. m.code = "HANDSHAKE_BEGIN" /\ m.versions \in Seq(U32) /\ m = msg
  OBVIOUS
<1>2. Layout(m) = HandshakeBeginBytes(m.versions)
  BY <1>1 DEF Layout
<1>3. Len(m.versions) \in Lengths
  BY <1>1 DEF Encodable, Short
<1> HIDE DEF msg
<1>4. Parses(HandshakeBeginBytes(m.versions), d, ParseHandshakeBegin(d), m) /\ (Len(d) > 0 => d[1] = 2)
  <2>1. Stands(d, 0, HandshakeBeginBytes(m.versions))
    BY <1>2
  <2>2. Parses(HandshakeBeginBytes(m.versions), d, ParseHandshakeBegin(d), msg) /\ (Len(d) > 0 => d[1] = 2)
    BY <1>1, <1>3, <2>1, BeginParses DEF msg
  <2> QED BY <1>1, <2>2
<1>5. Len(d) > 0 => ParseCore(d) = ParseHandshakeBegin(d)
  BY <1>4 DEF ParseCore
<1>6. (Len(d) > 0 => d[1] # 100) /\ m.code # "GENERIC" /\ m.code # "REFUSED"
  BY <1>1, <1>4
<1> QED BY <1>2, <1>4, <1>5, <1>6, CoreFoundIs

(* HANDSHAKE_PROTOCOLS,                                                       *)
LEMMA ProtocolsFound ==
    ASSUME NEW m, m \in [code : {"HANDSHAKE_PROTOCOLS"}, specs : Seq([name : Seq(Byte), version : Nat])],
           Encodable(m), receiver = "client",
           NEW d \in Seq(Byte), Stands(d, 0, Layout(m))
    PROVE  CoreFound(m, d)
<1> DEFINE msg == [code |-> "HANDSHAKE_PROTOCOLS", specs |-> m.specs]
<1>1. m.code = "HANDSHAKE_PROTOCOLS" /\ m.specs \in Seq([name : Seq(Byte), version : Nat]) /\ m = msg
  OBVIOUS
<1>2. Layout(m) = HandshakeProtocolsBytes(m.specs)
  BY <1>1 DEF Layout
<1>3. Len(m.specs) \in Lengths /\ \A i \in DOMAIN m.specs : Len(SpecName(m.specs[i])) \in Lengths
  BY <1>1 DEF Encodable, Short
<1> HIDE DEF msg
<1>4. Parses(HandshakeProtocolsBytes(m.specs), d, ParseHandshakeProtocols(d), m) /\ (Len(d) > 0 => d[1] = 4)
  <2>1. Stands(d, 0, HandshakeProtocolsBytes(m.specs))
    BY <1>2
  <2>2. Parses(HandshakeProtocolsBytes(m.specs), d, ParseHandshakeProtocols(d), msg) /\ (Len(d) > 0 => d[1] = 4)
    BY <1>1, <1>3, <2>1, ProtocolsParses DEF msg, Spec0, ProtocolsMessage
  <2> QED BY <1>1, <2>2
<1>5. Len(d) > 0 => ParseCore(d) = ParseHandshakeProtocols(d)
  BY <1>4 DEF ParseCore
<1>6. (Len(d) > 0 => d[1] # 100) /\ m.code # "GENERIC" /\ m.code # "REFUSED"
  BY <1>1, <1>4
<1> QED BY <1>2, <1>4, <1>5, <1>6, CoreFoundIs

(* NEW_OBJECT,                                                                *)
LEMMA NewObjectFound ==
    ASSUME NEW m, m \in [code : {"NEW_OBJECT"}, id : U32, seq : U32], Encodable(m), receiver = "client",
           NEW d \in Seq(Byte), Stands(d, 0, Layout(m))
    PROVE  CoreFound(m, d)
<1> DEFINE msg == [code |-> "NEW_OBJECT", id |-> m.id, seq |-> m.seq]
<1>1. m.code = "NEW_OBJECT" /\ m.id \in U32 /\ m.seq \in U32 /\ m = msg
  OBVIOUS
<1>2. Layout(m) = NewObjectBytes(m.seq, m.id)
  BY <1>1 DEF Layout
<1> HIDE DEF msg
<1>4. Parses(NewObjectBytes(m.seq, m.id), d, ParseNewObject(d), m) /\ (Len(d) > 0 => d[1] = 11)
  <2>1. Stands(d, 0, NewObjectBytes(m.seq, m.id))
    BY <1>2
  <2>2. Parses(NewObjectBytes(m.seq, m.id), d, ParseNewObject(d), msg) /\ (Len(d) > 0 => d[1] = 11)
    BY <1>1, <2>1, NewObjectParses DEF msg
  <2> QED BY <1>1, <2>2
<1>5. Len(d) > 0 => ParseCore(d) = ParseNewObject(d)
  BY <1>4 DEF ParseCore
<1>6. (Len(d) > 0 => d[1] # 100) /\ m.code # "GENERIC" /\ m.code # "REFUSED"
  BY <1>1, <1>4
<1> QED BY <1>2, <1>4, <1>5, <1>6, CoreFoundIs

(* FATAL_PROTOCOL_ERROR,                                                      *)
LEMMA ErrorFound ==
    ASSUME NEW m, m \in [code : {"FATAL_PROTOCOL_ERROR"}, object : U32, error : U32, text : Seq(Byte)],
           Encodable(m), receiver = "client",
           NEW d \in Seq(Byte), Stands(d, 0, Layout(m))
    PROVE  CoreFound(m, d)
<1> DEFINE msg == [code |-> "FATAL_PROTOCOL_ERROR", object |-> m.object, error |-> m.error, text |-> m.text]
<1>1. m.code = "FATAL_PROTOCOL_ERROR" /\ m.object \in U32 /\ m.error \in U32 /\ m.text \in Seq(Byte) /\ m = msg
  OBVIOUS
<1>2. Layout(m) = FatalErrorBytes(m.object, m.error, m.text)
  BY <1>1 DEF Layout
<1>3. Len(m.text) \in Lengths
  BY <1>1 DEF Encodable, Short
<1> HIDE DEF msg
<1>4. Parses(FatalErrorBytes(m.object, m.error, m.text), d, ParseFatalError(d), m) /\ (Len(d) > 0 => d[1] = 12)
  <2>1. Stands(d, 0, FatalErrorBytes(m.object, m.error, m.text))
    BY <1>2
  <2>2. Parses(FatalErrorBytes(m.object, m.error, m.text), d, ParseFatalError(d), msg) /\ (Len(d) > 0 => d[1] = 12)
    BY <1>1, <1>3, <2>1, ErrorParses DEF msg
  <2> QED BY <1>1, <2>2
<1>5. Len(d) > 0 => ParseCore(d) = ParseFatalError(d)
  BY <1>4 DEF ParseCore
<1>6. (Len(d) > 0 => d[1] # 100) /\ m.code # "GENERIC" /\ m.code # "REFUSED"
  BY <1>1, <1>4
<1> QED BY <1>2, <1>4, <1>5, <1>6, CoreFoundIs

(* and ROUNDTRIP_DONE;                                                        *)
LEMMA DoneFound ==
    ASSUME NEW m, m \in [code : {"ROUNDTRIP_DONE"}, seq : U32], Encodable(m), receiver = "client",
           NEW d \in Seq(Byte), Stands(d, 0, Layout(m))
    PROVE  CoreFound(m, d)
<1> DEFINE msg == [code |-> "ROUNDTRIP_DONE", seq |-> m.seq]
<1>1. m.code = "ROUNDTRIP_DONE" /\ m.seq \in U32 /\ m = msg
  OBVIOUS
<1>2. Layout(m) = RoundtripDoneBytes(m.seq)
  BY <1>1 DEF Layout
<1> HIDE DEF msg
<1>4. Parses(RoundtripDoneBytes(m.seq), d, ParseRoundtripDone(d), m) /\ (Len(d) > 0 => d[1] = 14)
  <2>1. Stands(d, 0, RoundtripDoneBytes(m.seq))
    BY <1>2
  <2>2. Parses(RoundtripDoneBytes(m.seq), d, ParseRoundtripDone(d), msg) /\ (Len(d) > 0 => d[1] = 14)
    BY <1>1, <2>1, DoneParses DEF msg
  <2> QED BY <1>1, <2>2
<1>5. Len(d) > 0 => ParseCore(d) = ParseRoundtripDone(d)
  BY <1>4 DEF ParseCore
<1>6. (Len(d) > 0 => d[1] # 100) /\ m.code # "GENERIC" /\ m.code # "REFUSED"
  BY <1>1, <1>4
<1> QED BY <1>2, <1>4, <1>5, <1>6, CoreFoundIs

(* the hello,                                                                 *)
LEMMA HelloFound ==
    ASSUME receiver = "server", NEW d \in Seq(Byte), Stands(d, 0, Layout(Hello))
    PROVE  CoreFound(Hello, d)
<1>1. Hello.code = "SUP" /\ Layout(Hello) = HelloBytes
  BY DEF Hello, Layout
<1>2. /\ HelloBytes \in Seq(Byte) /\ Len(HelloBytes) = 7
      /\ Len(d) > 0 => d[1] = 1
      /\ 7 <= Len(d) => ParseHello(d) = [len |-> 7, msg |-> Hello]
  BY <1>1, HelloParses
<1>3. Len(d) > 0 => ParseCore(d) = ParseHello(d)
  BY <1>2 DEF ParseCore
<1>4. Meaning(Hello) = Hello /\ Carried(Hello) = <<>>
  BY <1>1 DEF Meaning, Carried
<1> QED BY <1>1, <1>2, <1>3, <1>4 DEF CoreFound

Mine == receiver = "server" \/ receiver = "client"
FromPeer(m) == IF receiver = "server" THEN FromClient(m) ELSE FromServer(m)

(* and so all of them.                                                        *)
LEMMA CoreIsFound ==
    ASSUME NEW m, Mine, FromPeer(m), Encodable(m), NEW d \in Seq(Byte), Stands(d, 0, Layout(m))
    PROVE  CoreFound(m, d)
<1>1. CASE receiver = "server"
  <2>1. FromClient(m)
    BY <1>1 DEF FromPeer
  <2>2. CASE m = Hello
    BY <1>1, <2>2, HelloFound
  <2>3. CASE m \in [code : {"HANDSHAKE_ACK"}, version : U32]
    BY <1>1, <2>3, AckFound
  <2>4. CASE m \in [code : {"BIND_PROTOCOL"}, protocol : Seq(Byte), seq : U32, version : U32]
    BY <1>1, <2>4, BindFound
  <2>5. CASE m \in [code : {"ROUNDTRIP_REQUEST"}, seq : U32]
    BY <1>1, <2>5, RequestFound
  <2> QED BY <2>1, <2>2, <2>3, <2>4, <2>5 DEF FromClient
<1>2. CASE receiver = "client"
  <2>1. FromServer(m)
    BY <1>2 DEF FromPeer
  <2>2. CASE m \in [code : {"HANDSHAKE_BEGIN"}, versions : Seq(U32)]
    BY <1>2, <2>2, BeginFound
  <2>3. CASE m \in [code : {"HANDSHAKE_PROTOCOLS"}, specs : Seq([name : Seq(Byte), version : Nat])]
    BY <1>2, <2>3, ProtocolsFound
  <2>4. CASE m \in [code : {"NEW_OBJECT"}, id : U32, seq : U32]
    BY <1>2, <2>4, NewObjectFound
  <2>5. CASE m \in [code : {"FATAL_PROTOCOL_ERROR"}, object : U32, error : U32, text : Seq(Byte)]
    BY <1>2, <2>5, ErrorFound
  <2>6. CASE m \in [code : {"ROUNDTRIP_DONE"}, seq : U32]
    BY <1>2, <2>6, DoneFound
  <2> QED BY <2>1, <2>2, <2>3, <2>4, <2>5, <2>6 DEF FromServer
<1> QED BY <1>1, <1>2 DEF Mine

(* What handleMessage, onGeneric and called make of a call.                   *)
HeardFrom(parsed) ==
    [code |-> "GENERIC", object |-> parsed.msg.object, method |-> parsed.msg.method,
     values |-> Values(parsed.msg.data, parsed.msg.fds)]
CallFound(m, d, fds1) ==
    /\ m # Hello /\ Meaning(m).code # "REFUSED"
    /\ \E S : Carried(m) \in Seq(S)
    /\ Layout(m) \in Seq(Byte) /\ Len(Layout(m)) \in Nat /\ Len(Layout(m)) > 0
    /\ Len(d) > 0 => d[1] = 100
    /\ Len(Layout(m)) <= Len(d) =>
          LET parsed == ParseGeneric(d, fds1)
          IN /\ parsed.len = Len(Layout(m)) /\ parsed.fds = Len(Carried(m))
             /\ Accepted(parsed.msg) /\ HeardFrom(parsed) = Meaning(m)
    /\ Len(Layout(m)) > Len(d) => ParseGeneric(d, fds1) = Failed

(* Every call is found, accepted, and means what it meant.                    *)
LEMMA CallIsFound ==
    ASSUME Agreed, NEW m, FromBoth(m), Encodable(m), NEW d \in Seq(Byte), Stands(d, 0, Layout(m)),
           NEW fds1, FdsInFront(fds1, Carried(m))
    PROVE  CallFound(m, d, fds1)
<1>1. m.object \in U32 /\ m.method \in U32 /\ m.code = "GENERIC"
  BY CallIsInParts
<1>2. PICK flat, off, foff : CallLaid(m, flat, off, foff)
  BY CallIsLaid
<1>3. /\ Len(d) > 0 => d[1] = 100
      /\ Layout(m) \in Seq(Byte) /\ Len(Layout(m)) = 12 + Len(flat)
      /\ Len(Layout(m)) <= Len(d) => ParseGeneric(d, fds1) = ParsedCall(m, flat)
      /\ Len(Layout(m)) > Len(d) => ParseGeneric(d, fds1) = Failed
  BY <1>1, <1>2, CallParses
<1>4. /\ TypesAgree(TheirMethods[m.method], flat \o <<END>>)
      /\ Values(flat \o <<END>>, Carried(m)) = Meaning(m).values
  BY <1>2, CallHeard
<1>5. Len(Layout(m)) \in Nat /\ Len(Layout(m)) > 0
  <2>1. flat \in Seq(Byte)
    BY <1>2 DEF CallLaid, Laid
  <2>2. Len(flat) \in Nat
    BY <2>1
  <2> QED BY <1>3, <2>2
<1>6. m # Hello
  BY <1>1 DEF Hello
<1>7. /\ Meaning(m) = [code |-> "GENERIC", object |-> m.object, method |-> m.method, values |-> Meaning(m).values]
      /\ Meaning(m).code # "REFUSED"
  BY <1>1 DEF Meaning
<1>8. \E S : Carried(m) \in Seq(S)
  BY <1>2 DEF CallLaid
<1>9. m.method \in DOMAIN TheirMethods
  BY DEF FromBoth
<1>10. m.method \in DOMAIN Methods /\ Methods[m.method] = TheirMethods[m.method]
  BY <1>9 DEF Agreed
<1>11. ASSUME Len(Layout(m)) <= Len(d)
       PROVE  LET parsed == ParseGeneric(d, fds1)
              IN /\ parsed.len = Len(Layout(m)) /\ parsed.fds = Len(Carried(m))
                 /\ Accepted(parsed.msg) /\ HeardFrom(parsed) = Meaning(m)
  <2> DEFINE p == ParsedCall(m, flat)
  <2>1. ParseGeneric(d, fds1) = p
    BY <1>3, <1>11
  <2>2. p.len = Len(Layout(m)) /\ p.fds = Len(Carried(m)) /\ p.msg.object = m.object /\ p.msg.method = m.method
        /\ p.msg.data = flat \o <<END>> /\ p.msg.fds = Carried(m)
    BY DEF ParsedCall
  <2> HIDE DEF p
  <2>3. Accepted(p.msg)
    BY <1>4, <1>10, <2>2 DEF Accepted
  <2>4. HeardFrom(p) = Meaning(m)
    <3>1. Values(p.msg.data, p.msg.fds) = Meaning(m).values
      BY <1>4, <2>2
    <3> QED BY <1>7, <2>2, <3>1 DEF HeardFrom
  <2> QED BY <2>1, <2>2, <2>3, <2>4
<1> QED BY <1>3, <1>5, <1>6, <1>7, <1>8, <1>11 DEF CallFound

(* Of any message.                                                            *)
Sendable(m) == (FromPeer(m) \/ FromBoth(m)) /\ Encodable(m)
Shaped(m) ==
    /\ Layout(m) \in Seq(Byte) /\ Len(Layout(m)) \in Nat /\ Len(Layout(m)) > 0
    /\ Meaning(m).code # "REFUSED"
    /\ \E S : Carried(m) \in Seq(S)

(* Descriptors are in front of themselves, and none in front of any.          *)
LEMMA FdsAreInFront ==
    ASSUME NEW S, NEW fds1 \in Seq(S)
    PROVE  FdsInFront(fds1, fds1) /\ FdsInFront(fds1, <<>>)
BY DEF FdsInFront

(* What a call carries is a sequence.                                         *)
LEMMA CarriedIs ==
    ASSUME NEW m, FromBoth(m), Encodable(m)
    PROVE  \E S : Carried(m) \in Seq(S)
<1>1. PICK flat, off, foff : CallLaid(m, flat, off, foff)
  BY CallIsLaid
<1> QED BY <1>1 DEF CallLaid

(* It is one or the other.                                                    *)
LEMMA MessageFound ==
    ASSUME Agreed, NEW m, Mine, Sendable(m), NEW d \in Seq(Byte), Stands(d, 0, Layout(m)),
           NEW fds1, FdsInFront(fds1, Carried(m))
    PROVE  CoreFound(m, d) \/ CallFound(m, d, fds1)
BY CoreIsFound, CallIsFound DEF Sendable

(* It has some bytes, and is not refused.                                     *)
LEMMA MessageShaped ==
    ASSUME Agreed, NEW m, Mine, Sendable(m)
    PROVE  Shaped(m)
<1> DEFINE d == SubSeq(<<END>>, 1, 0)
<1>1. d \in Seq(Byte) /\ Len(d) = 0
  BY Magics
<1> HIDE DEF d
<1>2. Stands(d, 0, Layout(m))
  BY <1>1 DEF Stands
<1>3. CASE FromPeer(m)
  <2>1. CoreFound(m, d)
    BY <1>1, <1>2, <1>3, CoreIsFound DEF Sendable
  <2>2. <<>> \in Seq(Byte)
    OBVIOUS
  <2> QED BY <2>1, <2>2 DEF CoreFound, Shaped
<1>4. CASE FromBoth(m)
  <2>1. \E S : Carried(m) \in Seq(S)
    BY <1>4, CarriedIs DEF Sendable
  <2>2. FdsInFront(Carried(m), Carried(m))
    BY <2>1, FdsAreInFront
  <2>3. CallFound(m, d, Carried(m))
    BY <1>1, <1>2, <1>4, <2>2, CallIsFound DEF Sendable
  <2> QED BY <2>3 DEF CallFound, Shaped
<1> QED BY <1>3, <1>4 DEF Sendable

(* The inductive invariant.  msgs are the messages that were sent: some were  *)
(* heard, those up to e are in the batch, the others in the channel; at is    *)
(* where each message of the batch ends.                                      *)
Peer == IF receiver = "server" THEN ToServer ELSE ToClient
Means == {Meaning(m) : m \in ToServer \cup ToClient}
Envelope(m) == [bytes |-> Layout(m), fds |-> Carried(m)]
Envelopes == {Envelope(m) : m \in ToServer \cup ToClient}

InOrder(msgs, e) ==
    /\ msgs \in Seq(Peer) /\ sent \in Seq(Means) /\ Len(sent) = Len(msgs)
    /\ \A i \in 1..Len(msgs) : sent[i] = Meaning(msgs[i])
    /\ e \in Nat /\ Len(heard) <= e /\ e <= Len(msgs)
    /\ heard \in Seq(Means)
    /\ \A i \in 1..Len(heard) : heard[i] = sent[i]
    /\ channel \in Seq(Envelopes) /\ Len(channel) = Len(msgs) - e
    /\ \A j \in 1..Len(channel) : channel[j] = Envelope(msgs[e + j])

InBatch(msgs, e, at, h) ==
    /\ data \in Seq(Byte) /\ needle \in Nat /\ torn \in BOOLEAN
    /\ at[h] = needle
    /\ \A i \in h..e : at[i] \in Nat /\ (i < e => at[i] <= at[e - 1])
    /\ \A i \in (h + 1)..e : /\ at[i] = at[i - 1] + Len(Layout(msgs[i]))
                             /\ Stands(data, at[i - 1], Layout(msgs[i]))
                             /\ i < e => Carried(msgs[i]) = <<>>
    /\ ~torn => Len(data) = at[e]
    /\ torn => h < e /\ at[e - 1] < Len(data) /\ Len(data) < at[e] /\ msgs[e] # Hello
    /\ fds = IF h < e THEN Carried(msgs[e]) ELSE <<>>

Well(msgs, e, at) == InOrder(msgs, e) /\ InBatch(msgs, e, at, Len(heard))
EndedTorn == torn /\ heard \in Seq(Means) /\ sent \in Seq(Means) /\ IsPrefix(heard, sent)
CodecInv ==
    /\ Mine
    /\ \/ verdict = "OK" /\ answers = <<>> /\ \E msgs, e, at : Well(msgs, e, at)
       \/ verdict # "OK" /\ EndedTorn

(* What the peer may send is such a message.                                  *)
LEMMA PeersSend ==
    ASSUME Sound, Mine, NEW m \in Peer
    PROVE  /\ Sendable(m) /\ Shaped(m) /\ Meaning(m) \in Means /\ Envelope(m) \in Envelopes
<1>1. m \in ToServer \cup ToClient /\ (FromPeer(m) \/ FromBoth(m))
  BY CodecAssumption DEF Peer, FromPeer, Mine
<1>2. Sendable(m) /\ Agreed
  BY <1>1 DEF Sound, Sendable
<1>3. Shaped(m)
  BY <1>2, MessageShaped
<1> QED BY <1>1, <1>2, <1>3 DEF Means, Envelopes

(* The invariant holds in the beginning.                                      *)
LEMMA InvInit ==
    ASSUME CodecInit
    PROVE  CodecInv
<1> DEFINE at0 == [i \in {0} |-> 0]
<1>1. /\ Mine /\ channel = <<>> /\ data = <<>> /\ fds = <<>> /\ needle = 0 /\ torn = FALSE /\ verdict = "OK"
      /\ sent = <<>> /\ heard = <<>> /\ answers = <<>>
  BY DEF CodecInit, Mine
<1>2. InOrder(<<>>, 0)
  <2> DEFINE S == Peer
             T == Envelopes
  <2> HIDE DEF S, T
  <2>1. <<>> \in Seq(S) /\ <<>> \in Seq(Means) /\ <<>> \in Seq(T) /\ Len(<<>>) = 0
    OBVIOUS
  <2>2. 1..0 = {} /\ 0 = 0 - 0 /\ 0 \in Nat /\ 0 <= 0
    OBVIOUS
  <2> QED BY <1>1, <2>1, <2>2 DEF InOrder, S, T
<1>3. InBatch(<<>>, 0, at0, 0)
  <2>0. <<>> \in Seq(Byte) /\ Len(<<>>) = 0
    OBVIOUS
  <2>1. data \in Seq(Byte) /\ needle \in Nat /\ torn \in BOOLEAN /\ Len(data) = 0
    BY <1>1, <2>0, Zenon
  <2>2. at0[0] = 0
    OBVIOUS
  <2>3. 0..0 = {0} /\ (0 + 1)..0 = {} /\ ~(0 < 0) /\ 0 \in Nat
    OBVIOUS
  <2> HIDE DEF at0
  <2> QED BY <1>1, <2>1, <2>2, <2>3 DEF InBatch
<1>4. Well(<<>>, 0, at0)
  BY <1>1, <1>2, <1>3 DEF Well
<1> HIDE DEF at0
<1> QED BY <1>1, <1>4 DEF CodecInv

(* A message more in the channel.                                             *)
LEMMA SendKeeps ==
    ASSUME Sound, CodecInv, NEW m \in Peer, Send(m)
    PROVE  CodecInv'
<1>1. Mine /\ verdict = "OK" /\ answers = <<>>
  BY DEF CodecInv, Send
<1>2. PICK msgs, e, at : Well(msgs, e, at)
  BY <1>1 DEF CodecInv
<1> DEFINE more == Append(msgs, m)
           N == Len(msgs)
           C == Len(channel)
<1>3. /\ channel' = Append(channel, Envelope(m)) /\ sent' = Append(sent, Meaning(m))
      /\ receiver' = receiver /\ data' = data /\ fds' = fds /\ needle' = needle /\ torn' = torn /\ verdict' = verdict
      /\ heard' = heard /\ answers' = answers
  BY DEF Send, Envelope
<1>4. Sendable(m) /\ Shaped(m) /\ Meaning(m) \in Means /\ Envelope(m) \in Envelopes
  BY <1>1, PeersSend
<1>5. /\ msgs \in Seq(Peer) /\ sent \in Seq(Means) /\ Len(sent) = N
      /\ \A i \in 1..N : sent[i] = Meaning(msgs[i])
      /\ e \in Nat /\ Len(heard) <= e /\ e <= N
      /\ heard \in Seq(Means)
      /\ \A i \in 1..Len(heard) : heard[i] = sent[i]
      /\ channel \in Seq(Envelopes) /\ C = N - e
      /\ \A j \in 1..C : channel[j] = Envelope(msgs[e + j])
  BY <1>2 DEF Well, InOrder
<1>6. N \in Nat /\ C \in Nat /\ Len(heard) \in Nat
  BY <1>5
<1>7. Peer' = Peer /\ Mine'
  BY <1>1, <1>3 DEF Peer, Mine
<1>8. more \in Seq(Peer) /\ Len(more) = N + 1 /\ more[N + 1] = m /\ \A i \in 1..N : more[i] = msgs[i]
  <2> DEFINE P == Peer
  <2>1. msgs \in Seq(P) /\ m \in P
    BY <1>5
  <2> HIDE DEF P
  <2>2. more \in Seq(P) /\ Len(more) = N + 1 /\ more[N + 1] = m /\ \A i \in 1..N : more[i] = msgs[i]
    BY <2>1
  <2> QED BY <2>2 DEF P
<1>9. sent' \in Seq(Means) /\ Len(sent') = N + 1 /\ sent'[N + 1] = Meaning(m) /\ \A i \in 1..N : sent'[i] = sent[i]
  <2> DEFINE P == Means
             v == Meaning(m)
  <2>1. sent \in Seq(P) /\ v \in P /\ Len(sent) = N /\ sent' = Append(sent, v)
    BY <1>3, <1>4, <1>5
  <2> HIDE DEF P, v, N
  <2>2. sent' \in Seq(P) /\ Len(sent') = N + 1 /\ sent'[N + 1] = v /\ \A i \in 1..N : sent'[i] = sent[i]
    BY <2>1
  <2> QED BY <2>2 DEF P, v
<1>10. /\ channel' \in Seq(Envelopes) /\ Len(channel') = C + 1 /\ channel'[C + 1] = Envelope(m)
       /\ \A i \in 1..C : channel'[i] = channel[i]
  <2> DEFINE P == Envelopes
             v == Envelope(m)
  <2>1. channel \in Seq(P) /\ v \in P /\ channel' = Append(channel, v)
    BY <1>3, <1>4, <1>5
  <2> HIDE DEF P, v
  <2>2. channel' \in Seq(P) /\ Len(channel') = C + 1 /\ channel'[C + 1] = v
        /\ \A i \in 1..C : channel'[i] = channel[i]
    BY <2>1
  <2> QED BY <2>2 DEF P, v
<1> HIDE DEF more, N, C
<1>11. InOrder(more, e)'
  <2>1. \A i \in 1..(N + 1) : i \in 1..N \/ i = N + 1
    BY <1>6
  <2>2. \A i \in 1..(N + 1) : sent'[i] = Meaning(more[i])
    BY <1>5, <1>8, <1>9, <2>1
  <2>3. \A j \in 1..(C + 1) : (j \in 1..C /\ e + j \in 1..N) \/ (j = C + 1 /\ e + j = N + 1)
    BY <1>5, <1>6
  <2>4. \A j \in 1..(C + 1) : channel'[j] = Envelope(more[e + j])
    BY <1>5, <1>8, <1>10, <2>3
  <2>5. \A i \in 1..Len(heard) : i \in 1..N
    BY <1>5, <1>6
  <2>6. e <= N + 1 /\ C + 1 = (N + 1) - e
    BY <1>5, <1>6
  <2> QED BY <1>3, <1>5, <1>7, <1>8, <1>9, <1>10, <2>2, <2>4, <2>5, <2>6 DEF InOrder
<1>12. InBatch(more, e, at, Len(heard))'
  <2>1. InBatch(msgs, e, at, Len(heard))
    BY <1>2 DEF Well
  <2>2. \A i \in (Len(heard) + 1)..e : more[i] = msgs[i]
    <3>1. \A i \in (Len(heard) + 1)..e : i \in 1..N
      BY <1>5, <1>6
    <3> QED BY <1>8, <3>1
  <2>3. Len(heard) < e => e \in (Len(heard) + 1)..e
    BY <1>5, <1>6
  <2>4. InBatch(more, e, at, Len(heard))
    BY <2>1, <2>2, <2>3 DEF InBatch
  <2> QED BY <1>3, <2>4 DEF InBatch
<1>13. Well(more, e, at)'
  BY <1>11, <1>12 DEF Well
<1> QED BY <1>1, <1>3, <1>7, <1>13 DEF CodecInv

(* Every message of the invariant is one that the peer may send.              *)
LEMMA MessagesShaped ==
    ASSUME Sound, Mine, NEW msgs, NEW e, InOrder(msgs, e), NEW i \in 1..Len(msgs)
    PROVE  Sendable(msgs[i]) /\ Shaped(msgs[i]) /\ msgs[i] \in Peer
<1>1. msgs \in Seq(Peer)
  BY DEF InOrder
<1>2. msgs[i] \in Peer
  <2> DEFINE P == Peer
  <2>1. msgs \in Seq(P)
    BY <1>1
  <2> HIDE DEF P
  <2>2. msgs[i] \in P
    BY <2>1
  <2> QED BY <2>2 DEF P
<1> QED BY <1>2, PeersSend

(* When the batch is used up, all of it was heard.                            *)
AllHeard(e) == e \in Nat /\ Len(heard) \in Nat /\ Len(heard) = e /\ ~torn /\ fds = <<>>

(* When the needle is at the end of the data, everything of the batch was     *)
(* heard.                                                                     *)
LEMMA BatchBehind ==
    ASSUME Sound, Mine, NEW msgs, NEW e, NEW at, Well(msgs, e, at), needle >= Len(data) \/ data = <<>>
    PROVE  AllHeard(e)
<1> DEFINE h == Len(heard)
<1>1. /\ e \in Nat /\ h \in Nat /\ h <= e /\ e <= Len(msgs) /\ Len(msgs) \in Nat
  <2>1. /\ e \in Nat /\ heard \in Seq(Means) /\ h <= e /\ e <= Len(msgs) /\ sent \in Seq(Means)
        /\ Len(sent) = Len(msgs)
    BY DEF Well, InOrder
  <2> QED BY <2>1
<1>2. /\ data \in Seq(Byte) /\ needle \in Nat /\ torn \in BOOLEAN /\ at[h] = needle
      /\ \A i \in h..e : at[i] \in Nat /\ (i < e => at[i] <= at[e - 1])
      /\ \A i \in (h + 1)..e : at[i] = at[i - 1] + Len(Layout(msgs[i]))
      /\ ~torn => Len(data) = at[e]
      /\ torn => h < e /\ at[e - 1] < Len(data)
      /\ fds = IF h < e THEN Carried(msgs[e]) ELSE <<>>
  BY DEF Well, InBatch
<1>3. ASSUME h < e PROVE FALSE
  <2>1. e \in 1..Len(msgs) /\ e \in (h + 1)..e /\ h \in h..e /\ e - 1 \in h..e /\ e \in h..e
    BY <1>1, <1>3
  <2>2. Shaped(msgs[e])
    BY <2>1, MessagesShaped DEF Well
  <2> DEFINE a == at[h]
             b == at[e - 1]
             c == at[e]
             l == Len(Layout(msgs[e]))
             L == Len(data)
  <2>3. a \in Nat /\ b \in Nat /\ c \in Nat /\ a <= b /\ c = b + l /\ l \in Nat /\ l > 0 /\ a = needle
    BY <1>2, <1>3, <2>1, <2>2 DEF Shaped
  <2>4. L \in Nat /\ (~torn => L = c) /\ (torn => b < L) /\ torn \in BOOLEAN
    BY <1>2
  <2>5. needle >= L \/ L = 0
    OBVIOUS
  <2> HIDE DEF a, b, c, l, L
  <2>6. b < L
    BY <2>3, <2>4
  <2> QED BY <2>3, <2>4, <2>5, <2>6
<1>4. h = e
  BY <1>1, <1>3
<1> QED BY <1>1, <1>2, <1>3, <1>4 DEF AllHeard

(* Offsets do not go down.                                                    *)
LEMMA OffsetsGrow ==
    ASSUME NEW k \in Nat, NEW off \in [0..k -> Nat], \A i \in 1..k : off[i - 1] <= off[i]
    PROVE  \A n \in 0..k : \A i \in 0..n : off[i] <= off[n]
<1> DEFINE A == {n \in 0..k : \A i \in 0..n : off[i] <= off[n]}
<1>1. 0 \in A
  OBVIOUS
<1>2. ASSUME NEW n \in 1..k, n - 1 \in A PROVE n \in A
  <2>1. \A i \in 0..(n - 1) : off[i] <= off[n - 1]
    BY <1>2
  <2>2. off[n - 1] \in Nat /\ off[n] \in Nat /\ off[n - 1] <= off[n] /\ n \in 0..k
    OBVIOUS
  <2>3. \A i \in 0..n : (i = n \/ i \in 0..(n - 1)) /\ i \in 0..k
    OBVIOUS
  <2>4. ASSUME NEW i \in 0..n PROVE off[i] <= off[n]
    <3>1. CASE i = n
      BY <2>2, <3>1
    <3>2. CASE i \in 0..(n - 1)
      <4>1. off[i] \in Nat /\ off[i] <= off[n - 1]
        BY <2>1, <2>3, <3>2
      <4> QED BY <2>2, <4>1
    <3> QED BY <2>3, <3>1, <3>2
  <2> QED BY <2>2, <2>4
<1> HIDE DEF A
<1>3. 0..k \subseteq A
  BY <1>1, <1>2, UptoInduction
<1> QED BY <1>3 DEF A

(* What a read of k messages puts together, without the last cut bytes.       *)
Gathered(msgs, e, k, cut, off) ==
    /\ off \in [0..k -> Nat] /\ off[0] = 0
    /\ data' \in Seq(Byte) /\ Len(data') = off[k] - cut
    /\ \A n \in 0..k : \A i \in 0..n : off[i] <= off[n]
    /\ \A j \in 1..k : /\ off[j] = off[j - 1] + Len(Layout(msgs[e + j]))
                       /\ Stands(data', off[j - 1], Layout(msgs[e + j]))

(* The bytes of the batch are those of its messages.                          *)
LEMMA ReadGathers ==
    ASSUME Sound, Mine, NEW msgs, NEW e, InOrder(msgs, e), NEW k \in DOMAIN channel, NEW cut \in Nat, Read(k, cut),
           cut < Len(channel[k].bytes)
    PROVE  \E off : Gathered(msgs, e, k, cut, off)
<1> DEFINE parts == [j \in 1..k |-> channel[j].bytes]
           T == Together(k)
           C == Len(channel)
<1>1. /\ e \in Nat /\ Len(msgs) \in Nat /\ C \in Nat /\ C = Len(msgs) - e /\ DOMAIN channel = 1..C
      /\ \A j \in 1..C : channel[j] = Envelope(msgs[e + j])
  <2>1. /\ e \in Nat /\ sent \in Seq(Means) /\ Len(sent) = Len(msgs) /\ channel \in Seq(Envelopes)
        /\ C = Len(msgs) - e /\ \A j \in 1..C : channel[j] = Envelope(msgs[e + j])
    BY DEF InOrder
  <2>2. Len(sent) \in Nat /\ C \in Nat /\ DOMAIN channel = 1..C
    BY <2>1
  <2> QED BY <2>1, <2>2
<1>2. k \in 1..C /\ k \in Nat
  BY <1>1
<1>3. \A j \in 1..k : /\ e + j \in 1..Len(msgs) /\ channel[j].bytes = Layout(msgs[e + j])
                      /\ Layout(msgs[e + j]) \in Seq(Byte) /\ Len(Layout(msgs[e + j])) \in Nat
  <2> TAKE j \in 1..k
  <2>1. e + j \in 1..Len(msgs) /\ j \in 1..C
    BY <1>1, <1>2
  <2>2. Shaped(msgs[e + j])
    BY <2>1, MessagesShaped
  <2> QED BY <1>1, <2>1, <2>2 DEF Shaped, Envelope
<1>4. parts \in Seq(Seq(Byte)) /\ Len(parts) = k
  <2> DEFINE S == Seq(Byte)
  <2>1. parts \in [1..k -> S]
    BY <1>3
  <2> HIDE DEF parts, S
  <2>2. parts \in Seq(S) /\ Len(parts) = k
    BY <1>2, <2>1, FunctionIsSeq
  <2> QED BY <2>2 DEF S
<1>5. T = FlattenSeq(parts)
  BY DEF Together
<1>6. \A j \in 1..k : parts[j] = Layout(msgs[e + j])
  BY <1>3
<1> HIDE DEF parts
<1>7. T \in Seq(Byte) /\ \E off : PartsOf(T, parts, off)
  BY <1>4, <1>5, Flattened
<1>8. PICK off : PartsOf(T, parts, off)
  BY <1>7
<1> HIDE DEF T
<1>9. /\ off \in [0..k -> Nat] /\ off[0] = 0 /\ Len(T) = off[k]
      /\ \A j \in 1..k : /\ off[j] = off[j - 1] + Len(Layout(msgs[e + j])) /\ off[j] <= Len(T)
                         /\ \A i \in 1..Len(Layout(msgs[e + j])) : T[off[j - 1] + i] = Layout(msgs[e + j])[i]
  <2>1. /\ off \in [0..k -> Nat] /\ off[0] = 0 /\ Len(T) = off[k]
        /\ \A j \in 1..k : /\ off[j] = off[j - 1] + Len(parts[j]) /\ off[j] <= Len(T)
                           /\ \A i \in 1..Len(parts[j]) : T[off[j - 1] + i] = parts[j][i]
    BY <1>4, <1>8, Zenon DEF PartsOf
  <2> QED BY <1>6, <2>1
<1>10. \A j \in 1..k : j - 1 \in 0..k /\ j \in 0..k /\ off[j - 1] \in Nat /\ off[j] \in Nat
  <2> TAKE j \in 1..k
  <2>1. j - 1 \in 0..k /\ j \in 0..k
    BY <1>2
  <2>2. off \in [0..k -> Nat]
    BY <1>9
  <2> QED BY <2>1, <2>2
<1>11. \A n \in 0..k : \A i \in 0..n : off[i] <= off[n]
  <2>1. ASSUME NEW j \in 1..k PROVE off[j - 1] <= off[j]
    <3> DEFINE l == Len(Layout(msgs[e + j]))
    <3>1. l \in Nat /\ off[j] = off[j - 1] + l /\ off[j - 1] \in Nat
      BY <1>3, <1>9, <1>10
    <3> HIDE DEF l
    <3> QED BY <3>1
  <2> QED BY <1>2, <1>9, <2>1, OffsetsGrow
<1>12. off[k] \in Nat /\ off[k] - cut \in Nat /\ off[k] - cut <= Len(T)
  <2>1. k \in 1..k
    BY <1>2
  <2>2. off[k - 1] \in Nat /\ off[k] \in Nat /\ off[k] = off[k - 1] + Len(Layout(msgs[e + k])) /\ Len(T) = off[k]
    BY <1>9, <1>10, <2>1
  <2>3. cut < Len(Layout(msgs[e + k])) /\ Len(Layout(msgs[e + k])) \in Nat
    BY <1>3, <2>1
  <2> QED BY <2>2, <2>3
<1>13. data' = SubSeq(T, 1, off[k] - cut)
  BY <1>9 DEF Read, T
<1>14. data' \in Seq(Byte) /\ Len(data') = off[k] - cut /\ \A p \in 1..Len(data') : data'[p] = T[p]
  <2> DEFINE q == off[k] - cut
  <2>1. q \in Nat /\ q <= Len(T) /\ data' = SubSeq(T, 1, q) /\ T \in Seq(Byte)
    BY <1>7, <1>12, <1>13
  <2> HIDE DEF q
  <2>2. SubSeq(T, 1, q) \in Seq(Byte) /\ Len(SubSeq(T, 1, q)) = q /\ \A p \in 1..q : SubSeq(T, 1, q)[p] = T[p]
    BY <2>1
  <2>3. data' \in Seq(Byte) /\ Len(data') = q /\ \A p \in 1..Len(data') : data'[p] = T[p]
    BY <2>1, <2>2
  <2> QED BY <2>3 DEF q
<1>15. \A j \in 1..k : Stands(data', off[j - 1], Layout(msgs[e + j]))
  <2> TAKE j \in 1..k
  <2>1. \A i \in 1..Len(Layout(msgs[e + j])) : off[j - 1] + i <= Len(data') => off[j - 1] + i \in 1..Len(data')
    <3>1. off[j - 1] \in Nat /\ Len(data') \in Nat /\ Len(Layout(msgs[e + j])) \in Nat
      BY <1>3, <1>10, <1>12, <1>14
    <3> QED BY <3>1
  <2> QED BY <1>9, <1>14, <2>1 DEF Stands
<1>16. Gathered(msgs, e, k, cut, off)
  BY <1>9, <1>11, <1>14, <1>15 DEF Gathered
<1> QED BY <1>16

(* A sequence without its first k elements.                                   *)
LEMMA TailIs ==
    ASSUME NEW S, NEW s \in Seq(S), NEW k \in 0..Len(s)
    PROVE  LET t == SubSeq(s, k + 1, Len(s))
           IN t \in Seq(S) /\ Len(t) = Len(s) - k /\ \A j \in 1..(Len(s) - k) : t[j] = s[k + j]
<1> DEFINE n == Len(s)
           t == SubSeq(s, k + 1, n)
<1>1. n \in Nat /\ k \in Nat /\ k <= n /\ n - k \in Nat
  OBVIOUS
<1>2. t \in Seq(S)
  <2>1. \A i \in (k + 1)..n : i \in 1..n
    BY <1>1
  <2>2. \A i \in (k + 1)..n : s[i] \in S
    BY <2>1
  <2> QED BY <1>1, <2>2
<1>3. Len(t) = n - k
  BY <1>1
<1>4. \A j \in 1..(n - k) : t[j] = s[k + j]
  BY <1>1
<1> QED BY <1>2, <1>3, <1>4

(* The bytes of the hello.                                                    *)
LEMMA HelloIs == Layout(Hello) = HelloBytes
BY DEF Layout, Hello

(* A read takes the first messages of the channel.                            *)
LEMMA ReadOrder ==
    ASSUME NEW msgs, NEW e, InOrder(msgs, e), NEW k \in DOMAIN channel, NEW cut, Read(k, cut)
    PROVE  InOrder(msgs, e + k)' /\ k \in Nat /\ k > 0 /\ e + k <= Len(msgs)
<1> DEFINE C == Len(channel)
           N == Len(msgs)
<1>1. /\ e \in Nat /\ N \in Nat /\ C \in Nat /\ C = N - e /\ DOMAIN channel = 1..C /\ Len(heard) \in Nat
      /\ \A j \in 1..C : channel[j] = Envelope(msgs[e + j])
  <2>1. /\ e \in Nat /\ sent \in Seq(Means) /\ Len(sent) = N /\ channel \in Seq(Envelopes)
        /\ C = N - e /\ \A j \in 1..C : channel[j] = Envelope(msgs[e + j]) /\ heard \in Seq(Means)
    BY DEF InOrder
  <2>2. Len(sent) \in Nat /\ C \in Nat /\ DOMAIN channel = 1..C /\ Len(heard) \in Nat
    BY <2>1
  <2> QED BY <2>1, <2>2
<1>2. k \in 1..C /\ k \in Nat /\ k > 0 /\ e + k <= N /\ e <= e + k /\ e + k \in Nat
  BY <1>1
<1>3. /\ channel' \in Seq(Envelopes) /\ Len(channel') = C - k
      /\ \A j \in 1..(C - k) : channel'[j] = channel[k + j]
  <2> DEFINE S == Envelopes
  <2>1. channel \in Seq(S) /\ channel' = SubSeq(channel, k + 1, C)
    BY DEF InOrder, Read
  <2> HIDE DEF S
  <2>2. SubSeq(channel, k + 1, C) \in Seq(S) /\ Len(SubSeq(channel, k + 1, C)) = C - k
        /\ \A j \in 1..(C - k) : SubSeq(channel, k + 1, C)[j] = channel[k + j]
    <3>1. k \in 0..Len(channel)
      BY <1>2
    <3> HIDE DEF N
    <3> QED BY <2>1, <3>1, TailIs
  <2> QED BY <2>1, <2>2 DEF S
<1>4. C - k = N - (e + k) /\ \A j \in 1..(C - k) : k + j \in 1..C /\ e + (k + j) = (e + k) + j
  BY <1>1, <1>2
<1>5. \A j \in 1..(C - k) : channel'[j] = Envelope(msgs[(e + k) + j])
  BY <1>1, <1>3, <1>4
<1>6. receiver' = receiver /\ sent' = sent /\ heard' = heard
  BY DEF Read
<1>7. Peer' = Peer
  BY <1>6 DEF Peer
<1> HIDE DEF C
<1>8. Len(heard) <= e /\ e <= e + k
  BY <1>1, <1>2 DEF InOrder
<1>9. Len(heard) <= e + k
  BY <1>1, <1>2, <1>8
<1> QED BY <1>2, <1>3, <1>4, <1>5, <1>6, <1>7, <1>9 DEF InOrder

(* They are in the batch, one behind the other, and the last may be cut.      *)
LEMMA ReadBatch ==
    ASSUME Sound, Mine, NEW msgs, NEW e, InOrder(msgs, e), NEW k \in DOMAIN channel, NEW cut \in Nat, Read(k, cut),
           cut < Len(channel[k].bytes), cut > 0 => channel[k].bytes # HelloBytes,
           NEW off, Gathered(msgs, e, k, cut, off), NEW at, at = [i \in e..(e + k) |-> off[i - e]]
    PROVE  InBatch(msgs, e + k, at, e)'
<1> DEFINE C == Len(channel)
           N == Len(msgs)
<1>1. /\ e \in Nat /\ N \in Nat /\ C \in Nat /\ C = N - e /\ DOMAIN channel = 1..C
      /\ \A j \in 1..C : channel[j] = Envelope(msgs[e + j])
  <2>1. /\ e \in Nat /\ sent \in Seq(Means) /\ Len(sent) = N /\ channel \in Seq(Envelopes)
        /\ C = N - e /\ \A j \in 1..C : channel[j] = Envelope(msgs[e + j])
    BY DEF InOrder
  <2>2. Len(sent) \in Nat /\ C \in Nat /\ DOMAIN channel = 1..C
    BY <2>1
  <2> QED BY <2>1, <2>2
<1>2. k \in 1..C /\ k \in Nat /\ k > 0 /\ e + k <= N /\ e < e + k /\ e + k \in Nat
  BY <1>1
<1>3. /\ off \in [0..k -> Nat] /\ off[0] = 0
      /\ data' \in Seq(Byte) /\ Len(data') = off[k] - cut
      /\ \A n \in 0..k : \A i \in 0..n : off[i] <= off[n]
      /\ \A j \in 1..k : /\ off[j] = off[j - 1] + Len(Layout(msgs[e + j]))
                         /\ Stands(data', off[j - 1], Layout(msgs[e + j]))
  BY DEF Gathered
<1>4. needle' = 0 /\ torn' = (cut > 0) /\ fds' = channel[k].fds /\ \A j \in 1..(k - 1) : channel[j].fds = <<>>
  BY DEF Read, Readable
<1>5. \A i \in e..(e + k) : at[i] = off[i - e] /\ i - e \in 0..k
  BY <1>1, <1>2
<1>6. \A i \in (e + 1)..(e + k) : /\ i - e \in 1..k /\ e + (i - e) = i /\ i \in e..(e + k) /\ i - 1 \in e..(e + k)
                                  /\ (i - 1) - e = (i - e) - 1 /\ (i < e + k => i - e \in 1..(k - 1))
  BY <1>1, <1>2
<1>7. \A i \in e..(e + k) : at[i] \in Nat
  BY <1>3, <1>5
<1>8. \A i \in e..(e + k) : i < e + k => at[i] <= at[(e + k) - 1]
  <2>1. (e + k) - 1 \in e..(e + k) /\ ((e + k) - 1) - e = k - 1 /\ k - 1 \in 0..k
    BY <1>1, <1>2
  <2>2. \A i \in e..(e + k) : i < e + k => i - e \in 0..(k - 1)
    BY <1>1, <1>2
  <2> QED BY <1>3, <1>5, <2>1, <2>2
<1>9. \A i \in (e + 1)..(e + k) : /\ at[i] = at[i - 1] + Len(Layout(msgs[i]))
                                  /\ Stands(data', at[i - 1], Layout(msgs[i]))
  <2> TAKE i \in (e + 1)..(e + k)
  <2> DEFINE j == i - e
  <2>1. j \in 1..k /\ e + j = i /\ at[i] = off[j] /\ at[i - 1] = off[j - 1]
    BY <1>5, <1>6
  <2> HIDE DEF j
  <2> QED BY <1>3, <2>1
<1>10. \A i \in (e + 1)..(e + k) : i < e + k => Carried(msgs[i]) = <<>>
  <2> TAKE i \in (e + 1)..(e + k)
  <2> HAVE i < e + k
  <2> DEFINE j == i - e
  <2>1. j \in 1..(k - 1) /\ e + j = i /\ j \in 1..C
    BY <1>1, <1>2, <1>6
  <2> HIDE DEF j
  <2>2. channel[j].fds = <<>> /\ channel[j] = Envelope(msgs[i])
    BY <1>1, <1>4, <2>1
  <2> QED BY <2>2 DEF Envelope
<1>11. channel[k].bytes = Layout(msgs[e + k]) /\ channel[k].fds = Carried(msgs[e + k])
  BY <1>1, <1>2 DEF Envelope
<1>12. e + k \in e..(e + k) /\ (e + k) - e = k /\ e \in e..(e + k) /\ e - e = 0 /\ e + k \in (e + 1)..(e + k)
  BY <1>1, <1>2
<1>13. at[e] = 0 /\ at[e + k] = off[k]
  BY <1>3, <1>5, <1>12
<1>14. ~torn' => Len(data') = at[e + k]
  <2>1. off[k] \in Nat
    BY <1>3, <1>12, <1>5
  <2>2. ASSUME ~(cut > 0) PROVE off[k] - cut = off[k]
    BY <2>1, <2>2
  <2> QED BY <1>3, <1>4, <1>13, <2>2
<1>15. torn' => at[(e + k) - 1] < Len(data') /\ Len(data') < at[e + k] /\ msgs[e + k] # Hello
  <2> SUFFICES ASSUME cut > 0 PROVE at[(e + k) - 1] < Len(data') /\ Len(data') < at[e + k] /\ msgs[e + k] # Hello
    BY <1>4
  <2>1. msgs[e + k] # Hello
    BY <1>11, HelloIs
  <2> DEFINE a == at[(e + k) - 1]
             b == at[e + k]
             l == Len(Layout(msgs[e + k]))
             L == Len(data')
  <2>2. b = a + l /\ (e + k) - 1 \in e..(e + k)
    BY <1>6, <1>9, <1>12
  <2>3. a \in Nat /\ b \in Nat /\ L = b - cut /\ cut < l
    BY <1>3, <1>7, <1>11, <1>12, <1>13, <2>2
  <2>4. l \in Nat
    <3>1. e + k \in 1..N
      BY <1>1, <1>2
    <3>2. Shaped(msgs[e + k])
      BY <3>1, MessagesShaped
    <3> QED BY <3>2 DEF Shaped
  <2> HIDE DEF a, b, l, L
  <2>5. a < L /\ L < b
    BY <2>2, <2>3, <2>4
  <2> QED BY <2>1, <2>5 DEF a, b, L
<1>16. torn' \in BOOLEAN /\ needle' \in Nat
  BY <1>4
<1> DEFINE f == e + k
<1>17. e < f /\ fds' = Carried(msgs[f]) /\ at[e] = needle'
  BY <1>2, <1>4, <1>11, <1>13
<1>18. /\ \A i \in e..f : at[i] \in Nat /\ (i < f => at[i] <= at[f - 1])
       /\ \A i \in (e + 1)..f : /\ at[i] = at[i - 1] + Len(Layout(msgs[i]))
                                /\ Stands(data', at[i - 1], Layout(msgs[i]))
                                /\ i < f => Carried(msgs[i]) = <<>>
  BY <1>7, <1>8, <1>9, <1>10
<1>19. /\ ~torn' => Len(data') = at[f]
       /\ torn' => at[f - 1] < Len(data') /\ Len(data') < at[f] /\ msgs[f] # Hello
  BY <1>14, <1>15
<1> HIDE DEF f
<1>20. InBatch(msgs, f, at, e)'
  BY <1>3, <1>16, <1>17, <1>18, <1>19 DEF InBatch
<1> QED BY <1>20 DEF f

(* So a read keeps the invariant.                                             *)
LEMMA ReadKeeps ==
    ASSUME Sound, CodecInv, NEW k \in DOMAIN channel, NEW cut \in Nat, Read(k, cut),
           cut < Len(channel[k].bytes), cut > 0 => channel[k].bytes # HelloBytes
    PROVE  CodecInv'
<1>1. Mine /\ verdict = "OK" /\ answers = <<>> /\ data = <<>>
  BY DEF CodecInv, Read, Idle
<1>2. PICK msgs, e, at : Well(msgs, e, at)
  BY <1>1 DEF CodecInv
<1>3. InOrder(msgs, e) /\ AllHeard(e)
  BY <1>1, <1>2, BatchBehind DEF Well
<1>4. PICK off : Gathered(msgs, e, k, cut, off)
  BY <1>1, <1>3, ReadGathers
<1> DEFINE at1 == [i \in e..(e + k) |-> off[i - e]]
<1>5. InOrder(msgs, e + k)'
  BY <1>3, ReadOrder
<1>6. InBatch(msgs, e + k, at1, e)'
  BY <1>1, <1>3, <1>4, ReadBatch
<1>7. receiver' = receiver /\ verdict' = verdict /\ answers' = answers /\ heard' = heard
  BY DEF Read
<1>8. Len(heard) = e
  BY <1>3 DEF AllHeard
<1> HIDE DEF at1
<1>9. Well(msgs, e + k, at1)'
  <2>1. Len(heard') = e
    BY <1>7, <1>8
  <2>2. InBatch(msgs, e + k, at1, Len(heard))'
    BY <1>6, <2>1 DEF InBatch
  <2> QED BY <1>5, <2>2 DEF Well
<1> QED BY <1>1, <1>7, <1>9 DEF CodecInv, Mine

(* What the data show while something of the batch is unhandled: the next     *)
(* message is in front of them, whole unless it is the one that is torn.      *)
NextIs(msgs, e, at, h) ==
    /\ h \in Nat /\ h < e /\ h + 1 \in 1..Len(msgs) /\ Sendable(msgs[h + 1])
    /\ Remaining \in Seq(Byte) /\ Len(Remaining) = Len(data) - needle /\ Len(Remaining) > 0
    /\ Stands(Remaining, 0, Layout(msgs[h + 1])) /\ FdsInFront(fds, Carried(msgs[h + 1]))
    /\ Len(Layout(msgs[h + 1])) \in Nat /\ at[h + 1] = needle + Len(Layout(msgs[h + 1])) /\ at[h + 1] \in Nat
    /\ \/ Len(Layout(msgs[h + 1])) <= Len(Remaining) /\ ~(torn /\ h + 1 = e)
       \/ torn /\ Len(Layout(msgs[h + 1])) > Len(Remaining) /\ msgs[h + 1] # Hello

(* What stands at the needle is in front of what remains.                     *)
LEMMA StandsInRest ==
    ASSUME NEW d \in Seq(Byte), NEW n \in 0..Len(d), NEW s, Len(s) \in Nat, Stands(d, n, s)
    PROVE  LET rest == SubSeq(d, n + 1, Len(d))
           IN rest \in Seq(Byte) /\ Len(rest) = Len(d) - n /\ Stands(rest, 0, s)
<1> DEFINE rest == SubSeq(d, n + 1, Len(d))
           L == Len(d)
           l == Len(s)
<1>1. L \in Nat /\ n \in Nat /\ n <= L
  OBVIOUS
<1>2. rest \in Seq(Byte) /\ Len(rest) = L - n /\ \A j \in 1..(L - n) : rest[j] = d[n + j]
  BY TailIs
<1>3. \A i \in 1..l : n + i <= L => d[n + i] = s[i]
  BY DEF Stands
<1> HIDE DEF rest, L, l
<1>4. \A i \in 1..l : 0 + i <= L - n => i \in 1..(L - n) /\ n + i <= L /\ 0 + i = i
  BY <1>1
<1>5. \A i \in 1..l : 0 + i <= Len(rest) => rest[0 + i] = s[i]
  BY <1>2, <1>3, <1>4
<1>6. Stands(rest, 0, s)
  BY <1>5 DEF Stands, l
<1> QED BY <1>2, <1>6 DEF rest, L

(* It is, by the invariant.                                                   *)
LEMMA NextMessage ==
    ASSUME Sound, Mine, NEW msgs, NEW e, NEW at, Well(msgs, e, at), Unhandled
    PROVE  NextIs(msgs, e, at, Len(heard))
<1> DEFINE h == Len(heard)
           m == msgs[h + 1]
           l == Len(Layout(m))
           L == Len(data)
<1>1. /\ e \in Nat /\ h \in Nat /\ h <= e /\ e <= Len(msgs) /\ Len(msgs) \in Nat
  <2>1. /\ e \in Nat /\ heard \in Seq(Means) /\ h <= e /\ e <= Len(msgs) /\ sent \in Seq(Means)
        /\ Len(sent) = Len(msgs)
    BY DEF Well, InOrder
  <2> QED BY <2>1
<1>2. /\ data \in Seq(Byte) /\ needle \in Nat /\ torn \in BOOLEAN /\ at[h] = needle
      /\ \A i \in h..e : at[i] \in Nat /\ (i < e => at[i] <= at[e - 1])
      /\ \A i \in (h + 1)..e : /\ at[i] = at[i - 1] + Len(Layout(msgs[i]))
                               /\ Stands(data, at[i - 1], Layout(msgs[i]))
                               /\ i < e => Carried(msgs[i]) = <<>>
      /\ ~torn => L = at[e]
      /\ torn => h < e /\ at[e - 1] < L /\ L < at[e] /\ msgs[e] # Hello
      /\ fds = IF h < e THEN Carried(msgs[e]) ELSE <<>>
  BY DEF Well, InBatch
<1>3. needle < L /\ L \in Nat
  BY <1>2 DEF Unhandled
<1>4. h < e
  <2>1. ASSUME h = e PROVE FALSE
    <3>1. at[e] = needle
      BY <1>2, <2>1
    <3>2. ~torn
      BY <1>1, <1>2, <2>1
    <3> QED BY <1>2, <1>3, <3>1, <3>2
  <2> QED BY <1>1, <2>1
<1>5. /\ h + 1 \in 1..Len(msgs) /\ h + 1 \in (h + 1)..e /\ h + 1 \in h..e /\ (h + 1) - 1 = h
      /\ e \in (h + 1)..e /\ e \in h..e /\ e - 1 \in h..e /\ (h + 1 < e \/ h + 1 = e) /\ e \in 1..Len(msgs)
  BY <1>1, <1>4
<1>6. Sendable(m) /\ Shaped(m) /\ Shaped(msgs[e])
  BY <1>5, MessagesShaped DEF Well
<1>7. l \in Nat /\ at[h + 1] = needle + l /\ at[h + 1] \in Nat /\ Stands(data, needle, Layout(m))
  BY <1>2, <1>5, <1>6 DEF Shaped
<1>8. /\ Remaining \in Seq(Byte) /\ Len(Remaining) = L - needle /\ Len(Remaining) > 0
      /\ Stands(Remaining, 0, Layout(m))
  <2>1. needle \in 0..L
    BY <1>2, <1>3
  <2>2. Remaining \in Seq(Byte) /\ Len(Remaining) = L - needle /\ Stands(Remaining, 0, Layout(m))
    BY <1>2, <1>7, <2>1, StandsInRest DEF Remaining
  <2>3. L - needle > 0
    BY <1>2, <1>3
  <2> QED BY <2>2, <2>3
<1>9. FdsInFront(fds, Carried(m))
  <2>1. fds = Carried(msgs[e]) /\ \E S : fds \in Seq(S)
    BY <1>2, <1>4, <1>6 DEF Shaped
  <2>2. CASE h + 1 = e
    <3>1. Carried(m) = fds
      BY <2>1, <2>2
    <3> QED BY <2>1, <3>1, FdsAreInFront
  <2>3. CASE h + 1 < e
    <3>1. Carried(m) = <<>>
      BY <1>2, <1>5, <2>3
    <3> QED BY <2>1, <3>1, FdsAreInFront
  <2> QED BY <1>5, <2>2, <2>3
<1>10. \/ l <= L - needle /\ ~(torn /\ h + 1 = e)
       \/ torn /\ l > L - needle /\ m # Hello
  <2> DEFINE a == at[h + 1]
             b == at[e - 1]
             c == at[e]
             x == Len(Layout(msgs[e]))
  <2>1. /\ a \in Nat /\ b \in Nat /\ c \in Nat /\ c = b + x /\ x \in Nat /\ x > 0 /\ a = needle + l
        /\ needle \in Nat /\ L \in Nat /\ l \in Nat
    BY <1>2, <1>3, <1>5, <1>6, <1>7 DEF Shaped
  <2>2. ~torn => L = c
    BY <1>2
  <2>3. torn => b < L /\ L < c
    BY <1>2
  <2>4. h + 1 < e => a <= b
    BY <1>2, <1>5
  <2>5. h + 1 = e => a = c
    OBVIOUS
  <2>6. torn /\ h + 1 = e => m # Hello
    BY <1>2
  <2>7. torn \in BOOLEAN /\ (h + 1 < e \/ h + 1 = e)
    BY <1>2, <1>5
  <2>8. (h + 1 < e) => ~(h + 1 = e)
    BY <1>1
  <2> HIDE DEF a, b, c, x, l, L, h, m
  <2>9. CASE h + 1 < e
    <3>1. a <= L
      BY <2>1, <2>2, <2>3, <2>4, <2>7, <2>9
    <3>2. l <= L - needle
      BY <2>1, <3>1
    <3> QED BY <2>8, <2>9, <3>2
  <2>10. CASE h + 1 = e
    <3>1. CASE torn
      <4>1. L < needle + l
        BY <2>1, <2>3, <2>5, <2>10, <3>1
      <4>2. l > L - needle
        BY <2>1, <4>1
      <4> QED BY <2>6, <2>10, <3>1, <4>2
    <3>2. CASE ~torn
      <4>1. L = needle + l
        BY <2>1, <2>2, <2>5, <2>10, <3>2
      <4>2. l <= L - needle
        BY <2>1, <4>1
      <4> QED BY <3>2, <4>2
    <3> QED BY <3>1, <3>2
  <2> QED BY <2>7, <2>9, <2>10
<1>11. \/ l <= Len(Remaining) /\ ~(torn /\ h + 1 = e)
       \/ torn /\ l > Len(Remaining) /\ m # Hello
  BY <1>8, <1>10
<1> QED BY <1>1, <1>4, <1>5, <1>6, <1>7, <1>8, <1>9, <1>11 DEF NextIs

(* Hearing it.                                                                *)
LEMMA HearingKeeps ==
    ASSUME Sound, Mine, NEW msgs, NEW e, NEW at, Well(msgs, e, at), NEW h, h = Len(heard), NextIs(msgs, e, at, h),
           Len(Layout(msgs[h + 1])) <= Len(Remaining),
           heard' = Append(heard, Meaning(msgs[h + 1])), needle' = needle + Len(Layout(msgs[h + 1])),
           fds' = SubSeq(fds, Len(Carried(msgs[h + 1])) + 1, Len(fds)),
           UNCHANGED <<receiver, channel, data, torn, sent>>
    PROVE  Well(msgs, e, at)'
<1> DEFINE m == msgs[h + 1]
<1>1. /\ h \in Nat /\ h < e /\ h + 1 \in 1..Len(msgs) /\ Sendable(m) /\ at[h + 1] = needle' /\ at[h + 1] \in Nat
  BY DEF NextIs
<1>2. ~(torn /\ h + 1 = e)
  <2>1. Len(Layout(m)) \in Nat /\ Len(Remaining) \in Nat
    BY DEF NextIs
  <2> QED BY <2>1 DEF NextIs
<1>3. Shaped(m) /\ Meaning(m) \in Means
  <2>1. InOrder(msgs, e)
    BY DEF Well
  <2>2. Shaped(m) /\ m \in Peer
    BY <1>1, <2>1, MessagesShaped
  <2> QED BY <2>2, PeersSend
<1>4. InOrder(msgs, e)
  BY DEF Well
<1>5. e \in Nat /\ Len(msgs) \in Nat /\ e <= Len(msgs)
  <2>1. e \in Nat /\ sent \in Seq(Means) /\ Len(sent) = Len(msgs) /\ e <= Len(msgs)
    BY <1>4 DEF InOrder
  <2> QED BY <2>1
<1>6. /\ heard' \in Seq(Means) /\ Len(heard') = h + 1 /\ heard'[h + 1] = Meaning(m)
      /\ \A i \in 1..h : heard'[i] = heard[i]
  <2> DEFINE S == Means
             v == Meaning(m)
  <2>1. heard \in Seq(S) /\ v \in S /\ heard' = Append(heard, v)
    BY <1>3, <1>4 DEF InOrder
  <2> HIDE DEF S, v
  <2>2. heard' \in Seq(S) /\ Len(heard') = h + 1 /\ heard'[h + 1] = v /\ \A i \in 1..h : heard'[i] = heard[i]
    BY <2>1
  <2> QED BY <2>2 DEF S, v
<1>7. InOrder(msgs, e)'
  <2>1. \A i \in 1..(h + 1) : i \in 1..h \/ i = h + 1
    BY <1>1
  <2>2. sent[h + 1] = Meaning(m) /\ \A i \in 1..h : heard[i] = sent[i]
    BY <1>1, <1>4 DEF InOrder
  <2>3. \A i \in 1..Len(heard') : heard'[i] = sent[i]
    BY <1>6, <2>1, <2>2
  <2>4. Len(heard') <= e
    BY <1>1, <1>5, <1>6
  <2>5. Peer' = Peer /\ sent' = sent /\ channel' = channel
    BY DEF Peer
  <2> QED BY <1>4, <1>6, <2>3, <2>4, <2>5 DEF InOrder
<1>8. InBatch(msgs, e, at, h)
  BY DEF Well
<1>9. /\ \A i \in (h + 1)..e : i \in h..e
      /\ \A i \in ((h + 1) + 1)..e : i \in (h + 1)..e
      /\ (h + 1 < e \/ h + 1 = e) /\ (torn => h + 1 < e)
  BY <1>1, <1>2, <1>5
<1>10. fds' = IF h + 1 < e THEN Carried(msgs[e]) ELSE <<>>
  <2>1. fds = Carried(msgs[e])
    BY <1>1, <1>8 DEF InBatch
  <2>2. PICK S : fds \in Seq(S)
    <3>1. FdsInFront(fds, Carried(m))
      BY DEF NextIs
    <3> QED BY <3>1 DEF FdsInFront
  <2>3. CASE h + 1 < e
    <3>1. h + 1 \in (h + 1)..e
      BY <1>1, <1>5
    <3>2. Carried(m) = <<>>
      BY <1>8, <2>3, <3>1 DEF InBatch
    <3>3. fds' = SubSeq(fds, 0 + 1, Len(fds))
      BY <3>2
    <3>4. SubSeq(fds, 0 + 1, Len(fds)) = fds
      BY <2>2
    <3> QED BY <2>1, <2>3, <3>3, <3>4
  <2>4. CASE h + 1 = e
    <3>1. Carried(m) = fds
      BY <2>1, <2>4
    <3>2. fds' = SubSeq(fds, Len(fds) + 1, Len(fds))
      BY <3>1
    <3>3. SubSeq(fds, Len(fds) + 1, Len(fds)) = <<>>
      BY <2>2
    <3>4. ~(h + 1 < e)
      BY <1>5, <2>4
    <3> QED BY <3>2, <3>3, <3>4
  <2> QED BY <1>9, <2>3, <2>4
<1> DEFINE g == h + 1
<1>11. InBatch(msgs, e, at, g)'
  <2>1. at[g] = needle' /\ needle' \in Nat
    BY <1>1
  <2> HIDE DEF g
  <2>2. data' = data /\ torn' = torn
    OBVIOUS
  <2>3. /\ \A i \in g..e : i \in h..e
        /\ \A i \in (g + 1)..e : i \in (h + 1)..e
        /\ torn => g < e
    BY <1>9 DEF g
  <2>4. fds' = IF g < e THEN Carried(msgs[e]) ELSE <<>>
    BY <1>10 DEF g
  <2>5. /\ data \in Seq(Byte) /\ torn \in BOOLEAN
        /\ \A i \in h..e : at[i] \in Nat /\ (i < e => at[i] <= at[e - 1])
        /\ \A i \in (h + 1)..e : /\ at[i] = at[i - 1] + Len(Layout(msgs[i]))
                                 /\ Stands(data, at[i - 1], Layout(msgs[i]))
                                 /\ i < e => Carried(msgs[i]) = <<>>
        /\ ~torn => Len(data) = at[e]
        /\ torn => at[e - 1] < Len(data) /\ Len(data) < at[e] /\ msgs[e] # Hello
    BY <1>8 DEF InBatch
  <2> QED BY <2>1, <2>2, <2>3, <2>4, <2>5 DEF InBatch
<1>12. InBatch(msgs, e, at, Len(heard))'
  <2>1. Len(heard') = g
    BY <1>6
  <2> HIDE DEF g
  <2> QED BY <1>11, <2>1 DEF InBatch
<1> QED BY <1>7, <1>12 DEF Well

(* To be a prefix,                                                            *)
LEMMA PrefixIs ==
    ASSUME NEW S, NEW s \in Seq(S), NEW t \in Seq(S), Len(s) <= Len(t), \A i \in 1..Len(s) : s[i] = t[i]
    PROVE  IsPrefix(s, t)
<1> DEFINE n == Len(s)
           a == SubSeq(s, 1, n)
           b == SubSeq(t, 1, n)
<1>1. n \in Nat /\ n <= Len(t)
  OBVIOUS
<1>2. a \in Seq(S) /\ Len(a) = n /\ \A i \in 1..n : a[i] = s[i]
  BY <1>1
<1>3. b \in Seq(S) /\ Len(b) = n /\ \A i \in 1..n : b[i] = t[i]
  BY <1>1
<1> HIDE DEF a, b
<1>4. Len(a) = Len(b) /\ \A p \in 1..Len(a) : a[p] = b[p]
  BY <1>2, <1>3
<1>5. a = b
  BY <1>2, <1>3, <1>4, SameSeq
<1> QED BY <1>1, <1>5 DEF IsPrefix, a, b

(* and to be all of it.                                                       *)
LEMMA WholeIsPrefix ==
    ASSUME NEW S, NEW s \in Seq(S), NEW t \in Seq(S), Len(s) = Len(t), IsPrefix(s, t)
    PROVE  s = t
<1>1. SubSeq(s, 1, Len(s)) = s /\ SubSeq(t, 1, Len(t)) = t
  OBVIOUS
<1> QED BY <1>1 DEF IsPrefix

(* What was heard is a prefix of what was sent.                               *)
LEMMA OrderIsPrefix ==
    ASSUME NEW msgs, NEW e, InOrder(msgs, e)
    PROVE  IsPrefix(heard, sent) /\ heard \in Seq(Means) /\ sent \in Seq(Means)
<1> DEFINE S == Means
<1>1. /\ heard \in Seq(S) /\ sent \in Seq(S) /\ Len(heard) <= e /\ e <= Len(sent) /\ e \in Nat
      /\ \A i \in 1..Len(heard) : heard[i] = sent[i]
  BY DEF InOrder
<1> HIDE DEF S
<1>2. Len(heard) \in Nat /\ Len(sent) \in Nat
  BY <1>1
<1>3. Len(heard) <= Len(sent)
  BY <1>1, <1>2
<1>4. IsPrefix(heard, sent)
  BY <1>1, <1>3, PrefixIs
<1> QED BY <1>1, <1>4 DEF S

(* A message that is not a call is parsed and heard.                          *)
LEMMA CoreKeeps ==
    ASSUME Sound, CodecInv, HandleCore
    PROVE  CodecInv'
<1>1. Mine /\ verdict = "OK" /\ answers = <<>> /\ Unhandled
  BY DEF CodecInv, HandleCore, Unhandled
<1>2. PICK msgs, e, at : Well(msgs, e, at)
  BY <1>1 DEF CodecInv
<1> DEFINE h == Len(heard)
           m == msgs[h + 1]
           parsed == ParseCore(Remaining)
<1>3. NextIs(msgs, e, at, h)
  BY <1>1, <1>2, NextMessage
<1>4. /\ Remaining[1] # 100 /\ parsed.len > 0 /\ needle' = needle + parsed.len /\ heard' = Append(heard, parsed.msg)
      /\ UNCHANGED <<receiver, channel, data, fds, torn, verdict, sent, answers>>
  BY DEF HandleCore
<1>5. /\ Remaining \in Seq(Byte) /\ Len(Remaining) > 0 /\ Sendable(m) /\ Stands(Remaining, 0, Layout(m))
      /\ FdsInFront(fds, Carried(m))
  BY <1>3 DEF NextIs
<1>6. Agreed
  BY DEF Sound
<1>7. CoreFound(m, Remaining)
  <2>1. CoreFound(m, Remaining) \/ CallFound(m, Remaining, fds)
    BY <1>1, <1>5, <1>6, MessageFound
  <2>2. ~CallFound(m, Remaining, fds)
    BY <1>4, <1>5 DEF CallFound
  <2> QED BY <2>1, <2>2
<1>8. Len(Layout(m)) <= Len(Remaining)
  <2>1. ASSUME Len(Layout(m)) > Len(Remaining), m # Hello PROVE FALSE
    <3>1. parsed = Failed
      BY <1>5, <1>7, <2>1 DEF CoreFound
    <3>2. parsed.len = 0
      BY <3>1 DEF Failed
    <3> QED BY <1>4, <3>2
  <2> QED BY <1>3, <2>1 DEF NextIs
<1>9. parsed = [len |-> Len(Layout(m)), msg |-> m] /\ Meaning(m) = m /\ Carried(m) = <<>>
  BY <1>5, <1>7, <1>8 DEF CoreFound
<1>10. parsed.len = Len(Layout(m)) /\ parsed.msg = Meaning(m)
  BY <1>9
<1>11. heard' = Append(heard, Meaning(m)) /\ needle' = needle + Len(Layout(m))
  <2> HIDE DEF m, parsed
  <2> QED BY <1>4, <1>10
<1>12. fds' = SubSeq(fds, Len(Carried(m)) + 1, Len(fds))
  <2>1. PICK S : fds \in Seq(S)
    BY <1>5 DEF FdsInFront
  <2>2. SubSeq(fds, 0 + 1, Len(fds)) = fds
    BY <2>1
  <2>3. Len(Carried(m)) = 0
    BY <1>9
  <2> QED BY <1>4, <2>2, <2>3
<1> HIDE DEF h
<1>13. Well(msgs, e, at)'
  BY <1>1, <1>2, <1>3, <1>4, <1>8, <1>11, <1>12, HearingKeeps DEF h
<1> QED BY <1>1, <1>4, <1>13 DEF CodecInv, Mine

(* A call is parsed, accepted and heard.                                      *)
LEMMA GenericKeeps ==
    ASSUME Sound, CodecInv, HandleGeneric
    PROVE  CodecInv'
<1>1. Mine /\ verdict = "OK" /\ answers = <<>> /\ Unhandled
  BY DEF CodecInv, HandleGeneric, Unhandled
<1>2. PICK msgs, e, at : Well(msgs, e, at)
  BY <1>1 DEF CodecInv
<1> DEFINE h == Len(heard)
           m == msgs[h + 1]
           parsed == ParseGeneric(Remaining, fds)
<1>3. NextIs(msgs, e, at, h)
  BY <1>1, <1>2, NextMessage
<1>4. /\ Remaining[1] = 100 /\ parsed.len > 0 /\ needle' = needle + parsed.len
      /\ fds' = SubSeq(fds, parsed.fds + 1, Len(fds))
      /\ Accepted(parsed.msg) => heard' = Append(heard, HeardFrom(parsed)) /\ answers' = answers
      /\ UNCHANGED <<receiver, channel, data, torn, verdict, sent>>
  BY DEF HandleGeneric, HeardFrom
<1>5. /\ Remaining \in Seq(Byte) /\ Len(Remaining) > 0 /\ Sendable(m) /\ Stands(Remaining, 0, Layout(m))
      /\ FdsInFront(fds, Carried(m))
  BY <1>3 DEF NextIs
<1>6. Agreed
  BY DEF Sound
<1>7. CallFound(m, Remaining, fds)
  <2>1. CoreFound(m, Remaining) \/ CallFound(m, Remaining, fds)
    BY <1>1, <1>5, <1>6, MessageFound
  <2>2. ~CoreFound(m, Remaining)
    BY <1>4, <1>5 DEF CoreFound
  <2> QED BY <2>1, <2>2
<1>8. Len(Layout(m)) <= Len(Remaining)
  <2>1. ASSUME Len(Layout(m)) > Len(Remaining) PROVE FALSE
    <3>1. parsed = Failed
      BY <1>7, <2>1 DEF CallFound
    <3>2. parsed.len = 0
      BY <3>1 DEF Failed
    <3> QED BY <1>4, <3>2
  <2> QED BY <1>3, <2>1 DEF NextIs
<1>9. /\ parsed.len = Len(Layout(m)) /\ parsed.fds = Len(Carried(m))
      /\ Accepted(parsed.msg) /\ HeardFrom(parsed) = Meaning(m)
  BY <1>7, <1>8 DEF CallFound
<1>10. /\ heard' = Append(heard, Meaning(m)) /\ needle' = needle + Len(Layout(m)) /\ answers' = answers
       /\ fds' = SubSeq(fds, Len(Carried(m)) + 1, Len(fds))
  <2> HIDE DEF m, parsed
  <2> QED BY <1>4, <1>9
<1> HIDE DEF h
<1>13. Well(msgs, e, at)'
  BY <1>1, <1>2, <1>3, <1>4, <1>8, <1>10, HearingKeeps DEF h
<1> QED BY <1>1, <1>4, <1>10, <1>13 DEF CodecInv, Mine

(* Only a message that is cut makes an error.                                 *)
LEMMA ErrorKeeps ==
    ASSUME Sound, CodecInv, HandleError
    PROVE  CodecInv'
<1>1. Mine /\ verdict = "OK" /\ answers = <<>> /\ Unhandled
  BY DEF CodecInv, HandleError, Unhandled
<1>2. PICK msgs, e, at : Well(msgs, e, at)
  BY <1>1 DEF CodecInv
<1> DEFINE h == Len(heard)
           m == msgs[h + 1]
<1>3. NextIs(msgs, e, at, h)
  BY <1>1, <1>2, NextMessage
<1>4. /\ (IF Remaining[1] = 100 THEN ParseGeneric(Remaining, fds) ELSE ParseCore(Remaining)).len = 0
      /\ verdict' = "ERROR" /\ UNCHANGED <<receiver, torn, sent, heard>>
  BY DEF HandleError
<1>5. /\ Remaining \in Seq(Byte) /\ Len(Remaining) > 0 /\ Sendable(m) /\ Stands(Remaining, 0, Layout(m))
      /\ FdsInFront(fds, Carried(m))
  BY <1>3 DEF NextIs
<1>6. Agreed
  BY DEF Sound
<1>7. CoreFound(m, Remaining) \/ CallFound(m, Remaining, fds)
  BY <1>1, <1>5, <1>6, MessageFound
<1>8. ASSUME Len(Layout(m)) <= Len(Remaining) PROVE FALSE
  <2>1. CASE CoreFound(m, Remaining)
    <3>1. Remaining[1] # 100 /\ ParseCore(Remaining) = [len |-> Len(Layout(m)), msg |-> m] /\ Len(Layout(m)) > 0
          /\ Len(Layout(m)) \in Nat
      BY <1>5, <1>8, <2>1 DEF CoreFound
    <3>2. ParseCore(Remaining).len = Len(Layout(m))
      BY <3>1
    <3> QED BY <1>4, <3>1, <3>2
  <2>2. CASE CallFound(m, Remaining, fds)
    <3>1. Remaining[1] = 100 /\ ParseGeneric(Remaining, fds).len = Len(Layout(m)) /\ Len(Layout(m)) > 0
          /\ Len(Layout(m)) \in Nat
      BY <1>5, <1>8, <2>2 DEF CallFound
    <3> QED BY <1>4, <3>1
  <2> QED BY <1>7, <2>1, <2>2
<1>9. torn
  BY <1>3, <1>8 DEF NextIs
<1>10. IsPrefix(heard, sent) /\ heard \in Seq(Means) /\ sent \in Seq(Means)
  BY <1>2, OrderIsPrefix DEF Well
<1>11. EndedTorn'
  BY <1>4, <1>9, <1>10 DEF EndedTorn
<1> QED BY <1>1, <1>4, <1>11 DEF CodecInv, Mine

(* A batch that ends well leaves nothing behind.                              *)
LEMMA BatchDoneKeeps ==
    ASSUME Sound, CodecInv, BatchDone
    PROVE  CodecInv'
<1>1. Mine /\ verdict = "OK" /\ answers = <<>> /\ data # <<>> /\ ~Unhandled
  BY DEF CodecInv, BatchDone
<1>2. PICK msgs, e, at : Well(msgs, e, at)
  BY <1>1 DEF CodecInv
<1>3. data \in Seq(Byte) /\ needle \in Nat /\ torn \in BOOLEAN
  BY <1>2 DEF Well, InBatch
<1>4. needle >= Len(data)
  <2>1. ~(needle < Len(data))
    BY <1>1 DEF Unhandled
  <2>2. Len(data) \in Nat
    BY <1>3
  <2> QED BY <1>3, <2>1, <2>2
<1>5. AllHeard(e)
  BY <1>1, <1>2, <1>4, BatchBehind
<1>6. fds = <<>> /\ ~torn /\ Len(heard) = e /\ e \in Nat
  BY <1>5 DEF AllHeard
<1>7. /\ data' = <<>> /\ needle' = 0 /\ verdict' = "OK" /\ answers' = <<>>
      /\ UNCHANGED <<receiver, channel, fds, torn, sent, heard>>
  BY <1>1, <1>6 DEF BatchDone
<1> DEFINE at0 == [i \in {e} |-> 0]
<1>8. InOrder(msgs, e)'
  <2>1. InOrder(msgs, e)
    BY <1>2 DEF Well
  <2>2. Peer' = Peer
    BY <1>7 DEF Peer
  <2> QED BY <1>7, <2>1, <2>2 DEF InOrder
<1>9. InBatch(msgs, e, at0, e)'
  <2>0. <<>> \in Seq(Byte) /\ Len(<<>>) = 0
    OBVIOUS
  <2>1. data' \in Seq(Byte) /\ needle' \in Nat /\ torn' \in BOOLEAN /\ Len(data') = 0 /\ ~torn' /\ fds' = <<>>
    BY <1>3, <1>6, <1>7, <2>0
  <2>2. at0[e] = 0
    OBVIOUS
  <2>3. e..e = {e} /\ (e + 1)..e = {} /\ ~(e < e)
    BY <1>6
  <2> HIDE DEF at0
  <2> QED BY <1>7, <2>1, <2>2, <2>3 DEF InBatch
<1> HIDE DEF at0
<1>10. InBatch(msgs, e, at0, Len(heard))'
  <2>1. Len(heard') = e
    BY <1>6, <1>7
  <2> QED BY <1>9, <2>1 DEF InBatch
<1>11. Well(msgs, e, at0)'
  BY <1>8, <1>10 DEF Well
<1> QED BY <1>1, <1>7, <1>11 DEF CodecInv, Mine

(* Every step keeps the invariant.                                            *)
LEMMA InvStep ==
    ASSUME Sound, CodecInv, [CodecNext]_codecVars
    PROVE  CodecInv'
<1>1. CASE UNCHANGED codecVars
  <2>1. /\ receiver' = receiver /\ channel' = channel /\ data' = data /\ fds' = fds /\ needle' = needle
           /\ torn' = torn
        /\ verdict' = verdict /\ sent' = sent /\ heard' = heard /\ answers' = answers
    BY <1>1 DEF codecVars
  <2>2. CASE verdict = "OK"
    <3>1. PICK msgs, e, at : Well(msgs, e, at)
      BY <2>2 DEF CodecInv
    <3>2. InOrder(msgs, e)'
      <4>1. Peer' = Peer
        BY <2>1 DEF Peer
      <4> QED BY <2>1, <3>1, <4>1 DEF Well, InOrder
    <3>3. InBatch(msgs, e, at, Len(heard))'
      BY <2>1, <3>1 DEF Well, InBatch
    <3>4. Well(msgs, e, at)'
      BY <3>2, <3>3 DEF Well
    <3> QED BY <2>1, <2>2, <3>4 DEF CodecInv, Mine
  <2>3. CASE verdict # "OK"
    BY <2>1, <2>3 DEF CodecInv, Mine, EndedTorn
  <2> QED BY <2>2, <2>3
<1>2. ASSUME NEW m \in (IF receiver = "server" THEN ToServer ELSE ToClient), Send(m) PROVE CodecInv'
  BY <1>2, SendKeeps DEF Peer
<1>3. ASSUME verdict = "OK" PROVE \A k \in DOMAIN channel : Len(channel[k].bytes) \in Nat /\ Len(channel[k].bytes) > 0
  <2>1. Mine
    BY DEF CodecInv
  <2>2. PICK msgs, e, at : Well(msgs, e, at)
    BY <1>3 DEF CodecInv
  <2>3. InOrder(msgs, e)
    BY <2>2 DEF Well
  <2>4. /\ e \in Nat /\ sent \in Seq(Means) /\ Len(sent) = Len(msgs) /\ channel \in Seq(Envelopes)
        /\ Len(channel) = Len(msgs) - e /\ \A j \in 1..Len(channel) : channel[j] = Envelope(msgs[e + j])
    BY <2>3 DEF InOrder
  <2>5. Len(sent) \in Nat /\ DOMAIN channel = 1..Len(channel) /\ Len(channel) \in Nat
    BY <2>4
  <2> TAKE k \in DOMAIN channel
  <2>6. e + k \in 1..Len(msgs) /\ k \in 1..Len(channel)
    BY <2>4, <2>5
  <2>7. Shaped(msgs[e + k])
    BY <2>1, <2>3, <2>6, MessagesShaped
  <2>8. channel[k].bytes = Layout(msgs[e + k])
    <3>1. channel[k] = Envelope(msgs[e + k])
      BY <2>4, <2>6
    <3> QED BY <3>1 DEF Envelope
  <2> QED BY <2>7, <2>8, Zenon DEF Shaped
<1>4. CASE Receive
  <2>1. PICK k \in DOMAIN channel : Read(k, 0)
    BY <1>4 DEF Receive
  <2>2. 0 < Len(channel[k].bytes) /\ 0 \in Nat /\ ~(0 > 0)
    BY <1>3, <2>1 DEF Read, Idle
  <2> QED BY <2>1, <2>2, ReadKeeps
<1>5. CASE ReceiveTorn
  <2>0. PICK k \in DOMAIN channel : \E cut \in 1..(Len(channel[k].bytes) - 1) :
            channel[k].bytes # HelloBytes /\ Read(k, cut)
    BY <1>5 DEF ReceiveTorn
  <2>1. PICK cut \in 1..(Len(channel[k].bytes) - 1) : channel[k].bytes # HelloBytes /\ Read(k, cut)
    BY <2>0
  <2>2. Len(channel[k].bytes) \in Nat
    BY <1>3, <2>1 DEF Read, Idle
  <2>3. cut \in Nat /\ cut < Len(channel[k].bytes)
    BY <2>1, <2>2
  <2> QED BY <2>1, <2>3, ReadKeeps
<1>6. CASE HandleCore
  BY <1>6, CoreKeeps
<1>7. CASE HandleGeneric
  BY <1>7, GenericKeeps
<1>8. CASE HandleError
  BY <1>8, ErrorKeeps
<1>9. CASE BatchDone
  BY <1>9, BatchDoneKeeps
<1> QED BY <1>1, <1>2, <1>4, <1>5, <1>6, <1>7, <1>8, <1>9 DEF CodecNext

(* The invariant holds.                                                       *)
LEMMA Invariant ==
    ASSUME Sound
    PROVE  CodecSpec => []CodecInv
<1>1. CodecInit => CodecInv
  BY InvInit
<1>2. CodecInv /\ [CodecNext]_codecVars => CodecInv'
  BY InvStep
<1> QED BY <1>1, <1>2, PTL DEF CodecSpec

(* What is heard is what was sent, in order and with the same arguments,      *)
(* whatever the methods, the messages, and the batches they fall into.        *)
THEOREM WhatIsHeardWasSent ==
    ASSUME Sound
    PROVE  CodecSpec => []HeardIsSent
<1>1. CodecInv => HeardIsSent
  <2> SUFFICES ASSUME CodecInv PROVE HeardIsSent
    OBVIOUS
  <2>1. CASE verdict # "OK"
    BY <2>1 DEF CodecInv, EndedTorn, HeardIsSent, Idle
  <2>2. CASE verdict = "OK"
    <3>1. PICK msgs, e, at : Well(msgs, e, at)
      BY <2>2 DEF CodecInv
    <3>2. IsPrefix(heard, sent) /\ heard \in Seq(Means) /\ sent \in Seq(Means)
      BY <3>1, OrderIsPrefix DEF Well
    <3>3. ASSUME Idle, channel = <<>> PROVE heard = sent
      <4>1. Mine /\ data = <<>>
        BY <3>3 DEF CodecInv, Idle
      <4>2. AllHeard(e)
        BY <3>1, <4>1, BatchBehind
      <4>3. Len(channel) = Len(sent) - e /\ Len(heard) = e /\ e \in Nat
        BY <3>1, <4>2 DEF Well, InOrder, AllHeard
      <4>4. Len(channel) = 0 /\ Len(sent) \in Nat
        BY <3>2, <3>3
      <4>5. Len(heard) = Len(sent)
        BY <4>3, <4>4
      <4> DEFINE S == Means
      <4>6. IsPrefix(heard, sent) /\ heard \in Seq(S) /\ sent \in Seq(S)
        BY <3>2
      <4> HIDE DEF S
      <4> QED BY <4>5, <4>6, WholeIsPrefix
    <3> QED BY <3>2, <3>3 DEF HeardIsSent
  <2> QED BY <2>1, <2>2
<1>2. CodecSpec => []CodecInv
  BY Invariant
<1> QED BY <1>1, <1>2, PTL

(* However whole messages fall into batches, none of them is malformed to the *)
(* parser, refused by the types of its method, or leaves a descriptor over.   *)
THEOREM NothingIsMalformed ==
    ASSUME Sound
    PROVE  CodecSpec => []NothingRefused
<1>1. CodecInv => NothingRefused
  <2> SUFFICES ASSUME CodecInv, ~torn PROVE verdict = "OK" /\ \A i \in DOMAIN heard : heard[i].code # "REFUSED"
    BY DEF NothingRefused
  <2>1. verdict = "OK" /\ Mine
    BY DEF CodecInv, EndedTorn
  <2>2. PICK msgs, e, at : Well(msgs, e, at)
    BY <2>1 DEF CodecInv
  <2>3. InOrder(msgs, e)
    BY <2>2 DEF Well
  <2>4. /\ heard \in Seq(Means) /\ sent \in Seq(Means) /\ Len(sent) = Len(msgs) /\ Len(heard) <= e /\ e <= Len(msgs)
        /\ e \in Nat /\ (\A i \in 1..Len(heard) : heard[i] = sent[i])
        /\ \A i \in 1..Len(msgs) : sent[i] = Meaning(msgs[i])
    BY <2>3 DEF InOrder
  <2>5. Len(heard) \in Nat /\ Len(msgs) \in Nat /\ DOMAIN heard = 1..Len(heard)
    BY <2>4
  <2>6. ASSUME NEW i \in DOMAIN heard PROVE heard[i].code # "REFUSED"
    <3>1. i \in 1..Len(heard) /\ i \in 1..Len(msgs)
      BY <2>4, <2>5
    <3>2. Shaped(msgs[i])
      BY <2>1, <2>3, <3>1, MessagesShaped
    <3> QED BY <2>4, <3>1, <3>2 DEF Shaped
  <2> QED BY <2>1, <2>6
<1>2. CodecSpec => []CodecInv
  BY Invariant
<1> QED BY <1>1, <1>2, PTL

(* No part of a message passes for a whole one: a batch that ends inside a    *)
(* message never ends well.                                                   *)
THEOREM NoPartPasses ==
    ASSUME Sound
    PROVE  CodecSpec => []TornIsError
<1>1. CodecInv => TornIsError
  <2> SUFFICES ASSUME CodecInv, torn, Idle PROVE FALSE
    BY DEF TornIsError
  <2>1. verdict = "OK" /\ data = <<>> /\ Mine
    BY DEF Idle, CodecInv
  <2>2. PICK msgs, e, at : Well(msgs, e, at)
    BY <2>1 DEF CodecInv
  <2>3. AllHeard(e)
    BY <2>1, <2>2, BatchBehind
  <2> QED BY <2>3 DEF AllHeard
<1>2. CodecSpec => []CodecInv
  BY Invariant
<1> QED BY <1>1, <1>2, PTL
=============================================================================
