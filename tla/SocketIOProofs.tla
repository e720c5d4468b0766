---------------------------- MODULE SocketIOProofs ----------------------------
(* No byte between the two peers is lost, what a reader handles ends at the   *)
(* end of a message, and the server never sleeps for want of room while few   *)
(* answers are open: for messages that the kernel keeps in one piece, of any  *)
(* size and number, and any buffer and socket.                                *)
EXTENDS SocketIO, SequenceTheorems, FiniteSetTheorems, TLAPS

Unit     == [of : Nat \ {0}, at : Nat \ {0}, piece : BOOLEAN]
Sendable == [size : Nat \ {0}, answer : BOOLEAN]

SocketIOTypes ==
    /\ sent \in [Directions -> Seq(Sendable)]
    /\ out \in [Directions -> Seq(Unit)]
    /\ queue \in [Directions -> Seq(Unit)]
    /\ batch \in [Directions -> Seq(Unit)]
    /\ again \in [Directions -> BOOLEAN]
    /\ heard \in [Directions -> Nat]
    /\ \A d \in Directions : heard[d] <= Len(sent[d])

(* sendmsg takes a request in one piece or not at all.                        *)
RequestsFit == \A size \in RequestSizes : size <= Chunk
AnswersFit  == \A size \in AnswerSizes : size <= Chunk

RequestsShort ==
    /\ \A i \in DOMAIN sent["c2s"] : sent["c2s"][i].size <= Chunk
    /\ Len(out["c2s"]) <= Chunk

Stream(d) == batch[d] \o queue[d] \o out[d]

(* What a step may do to the bytes of one direction: move them, add a message *)
(* behind them, take the first message away.                                  *)
Moved(d) == Stream(d)' = Stream(d) /\ sent'[d] = sent[d] /\ heard'[d] = heard[d]
Added(d) ==
    \E m \in Sendable :
        /\ sent'[d] = Append(sent[d], m) /\ heard'[d] = heard[d]
        /\ Stream(d)' = Stream(d) \o UnitsOf(Len(sent[d]) + 1, m.size)
TakenAway(d) ==
    LET size == sent[d][heard[d] + 1].size IN
    /\ heard[d] < Len(sent[d]) /\ size <= Len(Stream(d))
    /\ sent'[d] = sent[d] /\ heard'[d] = heard[d] + 1
    /\ Stream(d)' = SubSeq(Stream(d), size + 1, Len(Stream(d)))

-----------------------------------------------------------------------------
(* Sequences.                                                                 *)
LEMMA SmallerOfTwo ==
    ASSUME NEW a \in Nat, NEW b \in Nat
    PROVE  Min({a, b}) = IF a <= b THEN a ELSE b
<1> DEFINE c == IF a <= b THEN a ELSE b
<1>1. c \in {a, b} /\ \A y \in {a, b} : c <= y
  OBVIOUS
<1>2. \A x \in {a, b} : (\A y \in {a, b} : x <= y) => x = c
  OBVIOUS
<1> HIDE DEF c
<1>3. Min({a, b}) = c
  BY <1>1, <1>2 DEF Min
<1> QED BY <1>3 DEF c

LEMMA Cut ==
    ASSUME NEW S, NEW s \in Seq(S), NEW n \in 0..Len(s)
    PROVE  /\ SubSeq(s, 1, n) \in Seq(S) /\ Len(SubSeq(s, 1, n)) = n
           /\ SubSeq(s, n + 1, Len(s)) \in Seq(S) /\ Len(SubSeq(s, n + 1, Len(s))) = Len(s) - n
           /\ \A i \in 1..n : SubSeq(s, 1, n)[i] = s[i]
           /\ \A i \in 1..(Len(s) - n) : SubSeq(s, n + 1, Len(s))[i] = s[n + i]
           /\ SubSeq(s, 1, n) \o SubSeq(s, n + 1, Len(s)) = s
<1>1. \A i \in 1..Len(s) : s[i] \in S
  OBVIOUS
<1>2. /\ SubSeq(s, 1, n) \in Seq(S) /\ Len(SubSeq(s, 1, n)) = n
      /\ \A i \in 1..n : SubSeq(s, 1, n)[i] = s[i]
  <2>1. \A i \in 1..n : s[i] \in S
    BY <1>1
  <2> QED BY <2>1, SubSeqProperties
<1>3. /\ SubSeq(s, n + 1, Len(s)) \in Seq(S) /\ Len(SubSeq(s, n + 1, Len(s))) = Len(s) - n
      /\ \A i \in 1..(Len(s) - n) : SubSeq(s, n + 1, Len(s))[i] = s[n + i]
  <2>1. \A i \in n + 1..Len(s) : s[i] \in S
    BY <1>1
  <2>2. /\ SubSeq(s, n + 1, Len(s)) \in Seq(S)
        /\ Len(SubSeq(s, n + 1, Len(s))) = IF n + 1 <= Len(s) THEN Len(s) - (n + 1) + 1 ELSE 0
        /\ \A i \in 1..(Len(s) - (n + 1) + 1) : SubSeq(s, n + 1, Len(s))[i] = s[(n + 1) + i - 1]
    BY <2>1, SubSeqProperties
  <2> QED BY <2>2
<1>4. SubSeq(s, 1, n) \o SubSeq(s, n + 1, Len(s)) = SubSeq(s, 1, Len(s))
  <2>1. 1 \in 1..(Len(s) + 1) /\ n \in (1 - 1)..Len(s) /\ Len(s) \in n..Len(s)
    OBVIOUS
  <2> QED BY <2>1, ConcatAdjacentSubSeq
<1> QED BY <1>2, <1>3, <1>4, SubSeqFull

LEMMA UnitsType ==
    ASSUME NEW n \in Nat \ {0}, NEW size \in Nat \ {0}
    PROVE  /\ UnitsOf(n, size) \in Seq(Unit) /\ Len(UnitsOf(n, size)) = size
           /\ DOMAIN UnitsOf(n, size) = 1..size
           /\ \A k \in 1..size : UnitsOf(n, size)[k].of = n /\ UnitsOf(n, size)[k].at = k
<1>1. \A k \in 1..size : [of |-> n, at |-> k, piece |-> k = size \/ k % Chunk = 0] \in Unit
  BY DEF Unit
<1> QED BY <1>1 DEF UnitsOf

(* To cut the first of two sequences is to cut the two.                       *)
LEMMA CutFirst ==
    ASSUME NEW a \in Seq(Unit), NEW b \in Seq(Unit), NEW n \in 0..Len(a)
    PROVE  /\ SubSeq(a, n + 1, Len(a)) \o b = SubSeq(a \o b, n + 1, Len(a \o b))
           /\ n \in 0..Len(a \o b) /\ a \o b \in Seq(Unit)
<1> DEFINE s == a \o b
           r == SubSeq(a, n + 1, Len(a))
           u == SubSeq(s, n + 1, Len(s))
<1>1. s \in Seq(Unit) /\ Len(s) = Len(a) + Len(b)
      /\ \A i \in 1..Len(a) + Len(b) : s[i] = IF i <= Len(a) THEN a[i] ELSE b[i - Len(a)]
  BY ConcatProperties
<1>2. r \in Seq(Unit) /\ Len(r) = Len(a) - n /\ \A i \in 1..(Len(a) - n) : r[i] = a[n + i]
  BY Cut
<1>3. n \in 0..Len(s)
  BY <1>1
<1> HIDE DEF s, r
<1>4. u \in Seq(Unit) /\ Len(u) = Len(s) - n /\ \A i \in 1..(Len(s) - n) : u[i] = s[n + i]
  BY <1>1, <1>3, Cut
<1> HIDE DEF u
<1> DEFINE t == r \o b
<1>5. t \in Seq(Unit) /\ Len(t) = Len(r) + Len(b)
      /\ \A i \in 1..Len(r) + Len(b) : t[i] = IF i <= Len(r) THEN r[i] ELSE b[i - Len(r)]
  BY <1>2, ConcatProperties
<1> HIDE DEF t
<1>6. Len(t) = Len(u) /\ Len(a) \in Nat /\ Len(b) \in Nat
  BY <1>1, <1>2, <1>4, <1>5
<1>7. ASSUME NEW i \in 1..Len(t) PROVE t[i] = u[i]
  <2>1. CASE i <= Len(a) - n
    <3>1. t[i] = r[i] /\ r[i] = a[n + i]
      BY <2>1, <1>2, <1>5, <1>6
    <3>2. u[i] = s[n + i] /\ s[n + i] = a[n + i]
      BY <2>1, <1>1, <1>2, <1>4, <1>5, <1>6
    <3> QED BY <3>1, <3>2
  <2>2. CASE ~(i <= Len(a) - n)
    <3>1. t[i] = b[i - (Len(a) - n)]
      BY <2>2, <1>2, <1>5, <1>6
    <3>2. u[i] = s[n + i] /\ s[n + i] = b[(n + i) - Len(a)]
      BY <2>2, <1>1, <1>2, <1>4, <1>5, <1>6
    <3>3. i - (Len(a) - n) = (n + i) - Len(a)
      BY <1>6
    <3> QED BY <3>1, <3>2, <3>3
  <2> QED BY <2>1, <2>2
<1>8. t = u
  BY <1>4, <1>5, <1>6, <1>7, SeqEqual
<1> QED BY <1>1, <1>3, <1>8 DEF s, t, r, u


-----------------------------------------------------------------------------
(* Whole messages in order stay so when one is added or taken away.           *)
LEMMA AddedWhole ==
    ASSUME NEW b \in Seq(Unit), NEW ms \in Seq(Sendable), NEW h \in Nat, h <= Len(ms),
           NEW m \in Sendable, WholeInOrder(b, ms, h)
    PROVE  WholeInOrder(b \o UnitsOf(Len(ms) + 1, m.size), Append(ms, m), h)
<1> DEFINE n == Len(ms) + 1
           size == m.size
           u == UnitsOf(n, size)
           t == b \o u
           more == Append(ms, m)
<1>0. n \in Nat \ {0} /\ size \in Nat \ {0} /\ Len(ms) \in Nat
  BY DEF Sendable
<1>1. /\ more \in Seq(Sendable) /\ Len(more) = n /\ more[n] = m
      /\ \A i \in 1..Len(ms) : more[i] = ms[i]
  BY AppendProperties
<1>2. /\ u \in Seq(Unit) /\ Len(u) = size /\ DOMAIN u = 1..size
      /\ \A k \in 1..size : u[k].of = n /\ u[k].at = k
  BY <1>0, UnitsType
<1> HIDE DEF n, size, more
<1>3. /\ t \in Seq(Unit) /\ Len(t) = Len(b) + size /\ DOMAIN t = 1..(Len(b) + size)
      /\ \A i \in 1..Len(b) : t[i] = b[i]
      /\ \A i \in Len(b) + 1..Len(b) + size : t[i] = u[i - Len(b)]
  <2> HIDE DEF u
  <2>1. /\ t \in Seq(Unit) /\ Len(t) = Len(b) + Len(u)
        /\ \A i \in 1..Len(b) + Len(u) : t[i] = IF i <= Len(b) THEN b[i] ELSE u[i - Len(b)]
    BY <1>2, ConcatProperties
  <2> HIDE DEF t
  <2>2. Len(b) \in Nat /\ DOMAIN t = 1..Len(t)
    BY <2>1
  <2> QED BY <2>1, <2>2, <1>0, <1>2
<1>4. \A i \in DOMAIN b : b[i].of \in h + 1..Len(ms) /\ b[i].at \in 1..ms[b[i].of].size
  BY DEF WholeInOrder
<1>5. DOMAIN b = 1..Len(b) /\ Len(b) \in Nat
  OBVIOUS
<1>6. ASSUME NEW i \in DOMAIN t
      PROVE  \/ i \in DOMAIN b /\ t[i] = b[i] /\ more[t[i].of] = ms[t[i].of]
             \/ i \notin DOMAIN b /\ i - Len(b) \in 1..size /\ t[i] = u[i - Len(b)]
                /\ t[i].of = n /\ t[i].at = i - Len(b)
  <2>1. CASE i \in DOMAIN b
    <3>1. t[i] = b[i] /\ b[i].of \in 1..Len(ms)
      BY <2>1, <1>3, <1>4, <1>5, <1>0
    <3> QED BY <2>1, <3>1, <1>1
  <2>2. CASE i \notin DOMAIN b
    <3>1. i \in Len(b) + 1..Len(b) + size
      BY <2>2, <1>3, <1>5, <1>0
    <3>2. i - Len(b) \in 1..size /\ t[i] = u[i - Len(b)]
      BY <3>1, <1>3, <1>5, <1>0
    <3> QED BY <2>2, <3>2, <1>2
  <2> QED BY <2>1, <2>2
<1> HIDE DEF t
<1>7. ASSUME NEW i \in DOMAIN t
      PROVE  t[i].of \in h + 1..n /\ t[i].at \in 1..more[t[i].of].size
  <2>1. CASE i \in DOMAIN b
    <3>1. t[i] = b[i] /\ more[t[i].of] = ms[t[i].of]
      BY <2>1, <1>6
    <3>2. b[i].of \in h + 1..Len(ms) /\ b[i].at \in 1..ms[b[i].of].size
      BY <2>1, <1>4
    <3> QED BY <3>1, <3>2, <1>0 DEF n
  <2>2. CASE i \notin DOMAIN b
    <3>1. t[i].of = n /\ t[i].at \in 1..size /\ more[n].size = size
      BY <2>2, <1>6, <1>1 DEF size
    <3> QED BY <3>1, <1>0 DEF n
  <2> QED BY <2>1, <2>2
<1>8. ASSUME NEW k \in h + 1..n PROVE \E i \in DOMAIN t : t[i].of = k
  <2>1. CASE k = n
    <3>1. Len(b) + 1 \in DOMAIN t /\ Len(b) + 1 \notin DOMAIN b
      BY <1>3, <1>5, <1>0
    <3> QED BY <3>1, <2>1, <1>6
  <2>2. CASE k # n
    <3>1. k \in h + 1..Len(ms)
      BY <2>2, <1>0 DEF n
    <3>2. PICK i \in DOMAIN b : b[i].of = k
      BY <3>1 DEF WholeInOrder
    <3>3. i \in DOMAIN t /\ t[i] = b[i]
      BY <1>3, <1>5, <1>0
    <3> QED BY <3>2, <3>3
  <2> QED BY <2>1, <2>2
<1>9. ASSUME NEW i \in DOMAIN t, NEW j \in DOMAIN t, i < j
      PROVE  t[i].of < t[j].of \/ (t[i].of = t[j].of /\ t[i].at < t[j].at)
  <2>1. CASE j \in DOMAIN b
    <3>1. i \in DOMAIN b /\ t[i] = b[i] /\ t[j] = b[j]
      BY <2>1, <1>9, <1>3, <1>5
    <3> QED BY <2>1, <3>1, <1>9 DEF WholeInOrder
  <2>2. CASE i \in DOMAIN b /\ j \notin DOMAIN b
    <3>1. t[i].of \in h + 1..Len(ms) /\ t[j].of = n
      BY <2>2, <1>6, <1>4
    <3> QED BY <3>1, <1>0 DEF n
  <2>3. CASE i \notin DOMAIN b
    <3>1. j \notin DOMAIN b
      BY <2>3, <1>9, <1>3, <1>5
    <3>2. t[i].of = n /\ t[j].of = n /\ t[i].at = i - Len(b) /\ t[j].at = j - Len(b)
      BY <2>3, <3>1, <1>6
    <3> QED BY <3>2, <1>9, <1>3, <1>5
  <2> QED BY <2>1, <2>2, <2>3
<1>10. ASSUME NEW i \in DOMAIN t, NEW k \in DOMAIN UnitsOf(t[i].of, more[t[i].of].size)
       PROVE  /\ i - t[i].at + k \in DOMAIN t
              /\ t[i - t[i].at + k] = UnitsOf(t[i].of, more[t[i].of].size)[k]
  <2>1. CASE i \in DOMAIN b
    <3>1. t[i] = b[i] /\ more[t[i].of] = ms[t[i].of]
      BY <2>1, <1>6
    <3>2. /\ i - b[i].at + k \in DOMAIN b
          /\ b[i - b[i].at + k] = UnitsOf(b[i].of, ms[b[i].of].size)[k]
      BY <2>1, <3>1, <1>10 DEF WholeInOrder
    <3>3. \A p \in DOMAIN b : p \in DOMAIN t /\ t[p] = b[p]
      BY <1>3, <1>5, <1>0
    <3> QED BY <3>1, <3>2, <3>3
  <2>2. CASE i \notin DOMAIN b
    <3>1. t[i].of = n /\ t[i].at = i - Len(b) /\ more[n].size = size /\ i - Len(b) \in 1..size
      BY <2>2, <1>6, <1>1 DEF size
    <3>2. UnitsOf(t[i].of, more[t[i].of].size) = u
      BY <3>1
    <3>3. k \in 1..size
      BY <3>2, <1>2, <1>10
    <3>4. i - t[i].at + k = Len(b) + k /\ Len(b) + k \in Len(b) + 1..Len(b) + size
      BY <3>1, <3>3, <1>0, <1>5, <1>3
    <3>5. (Len(b) + k) - Len(b) = k /\ Len(b) + k \in 1..(Len(b) + size)
      BY <3>3, <1>5, <1>0
    <3>6. Len(b) + k \in DOMAIN t /\ t[Len(b) + k] = u[(Len(b) + k) - Len(b)]
      BY <3>4, <3>5, <1>3
    <3> QED BY <3>2, <3>4, <3>5, <3>6
  <2> QED BY <2>1, <2>2
<1>11. WholeInOrder(t, more, h)
  BY <1>1, <1>7, <1>8, <1>9, <1>10 DEF WholeInOrder
<1> QED BY <1>11 DEF t, more, u, n, size

(* The stream begins with the first unit of the first message not heard.      *)
LEMMA StreamStarts ==
    ASSUME NEW b \in Seq(Unit), NEW ms \in Seq(Sendable), NEW h \in Nat, h < Len(ms),
           WholeInOrder(b, ms, h)
    PROVE  /\ ms[h + 1].size \in 1..Len(b)
           /\ \A k \in 1..ms[h + 1].size : b[k] = UnitsOf(h + 1, ms[h + 1].size)[k]
<1> DEFINE n == h + 1
           size == ms[n].size
           u == UnitsOf(n, size)
<1>0. n \in 1..Len(ms) /\ Len(ms) \in Nat /\ DOMAIN b = 1..Len(b) /\ Len(b) \in Nat
  OBVIOUS
<1>1. ms[n] \in Sendable
  BY <1>0, ElementOfSeq
<1>2. size \in Nat \ {0} /\ n \in Nat \ {0}
  BY <1>0, <1>1 DEF Sendable
<1>3. /\ u \in Seq(Unit) /\ Len(u) = size /\ DOMAIN u = 1..size
      /\ \A k \in 1..size : u[k].of = n /\ u[k].at = k
  BY <1>2, UnitsType
<1> HIDE DEF n, size, u
<1>4. PICK i \in DOMAIN b : b[i].of = n
  <2>1. n \in h + 1..Len(ms)
    BY <1>0 DEF n
  <2> QED BY <2>1 DEF WholeInOrder
<1>5. /\ \A k \in 1..size : i - b[i].at + k \in DOMAIN b /\ b[i - b[i].at + k] = u[k]
      /\ b[i].at \in 1..size
  BY <1>3, <1>4 DEF WholeInOrder, size, u
<1>6. i = b[i].at
  <2> DEFINE p == i - b[i].at + 1
  <2>1. p \in DOMAIN b /\ b[p] = u[1] /\ u[1].of = n /\ u[1].at = 1
    BY <1>2, <1>3, <1>5
  <2>2. CASE p > 1
    <3>1. 1 \in DOMAIN b /\ 1 < p
      BY <2>1, <2>2, <1>0
    <3>2. b[1].of < b[p].of \/ (b[1].of = b[p].of /\ b[1].at < b[p].at)
      BY <2>1, <3>1 DEF WholeInOrder
    <3>3. b[1].of \in h + 1..Len(ms) /\ b[1].at \in 1..ms[b[1].of].size
      BY <3>1 DEF WholeInOrder
    <3>4. b[1].at \in Nat \ {0}
      <4>1. b[1] \in Unit
        BY <3>1, <1>0, ElementOfSeq
      <4> QED BY <4>1 DEF Unit
    <3> QED BY <2>1, <3>2, <3>3, <3>4 DEF n
  <2>3. CASE ~(p > 1)
    BY <2>1, <2>3, <1>0, <1>5, <1>4
  <2> QED BY <2>2, <2>3
<1>7. \A k \in 1..size : i - b[i].at + k = k
  BY <1>6, <1>0, <1>2
<1>8. \A k \in 1..size : k \in DOMAIN b /\ b[k] = u[k]
  BY <1>5, <1>7
<1>9. size \in 1..Len(b)
  BY <1>8, <1>2, <1>0
<1> QED BY <1>8, <1>9 DEF n, size, u

LEMMA TakenAwayWhole ==
    ASSUME NEW b \in Seq(Unit), NEW ms \in Seq(Sendable), NEW h \in Nat, h < Len(ms),
           WholeInOrder(b, ms, h)
    PROVE  WholeInOrder(SubSeq(b, ms[h + 1].size + 1, Len(b)), ms, h + 1)
<1> DEFINE n == h + 1
           size == ms[n].size
           t == SubSeq(b, size + 1, Len(b))
<1>0. n \in 1..Len(ms) /\ Len(ms) \in Nat /\ DOMAIN b = 1..Len(b) /\ Len(b) \in Nat
  OBVIOUS
<1>1. ms[n] \in Sendable
  BY <1>0, ElementOfSeq
<1>2. size \in Nat \ {0} /\ n \in Nat \ {0}
  BY <1>0, <1>1 DEF Sendable
<1>3. size \in 1..Len(b) /\ \A k \in 1..size : b[k].of = n /\ b[k].at = k
  <2>1. size \in 1..Len(b) /\ \A k \in 1..size : b[k] = UnitsOf(n, size)[k]
    BY StreamStarts
  <2>2. \A k \in 1..size : UnitsOf(n, size)[k].of = n /\ UnitsOf(n, size)[k].at = k
    BY <1>2, UnitsType
  <2> QED BY <2>1, <2>2
<1>4. t \in Seq(Unit) /\ Len(t) = Len(b) - size /\ \A i \in 1..(Len(b) - size) : t[i] = b[size + i]
  <2> HIDE DEF size
  <2>1. size \in 0..Len(b)
    BY <1>3
  <2> QED BY <2>1, Cut
<1> HIDE DEF n, size, t
<1>5. DOMAIN t = 1..(Len(b) - size) /\ \A i \in DOMAIN t : size + i \in DOMAIN b /\ t[i] = b[size + i]
  BY <1>0, <1>2, <1>3, <1>4
<1>6. ASSUME NEW i \in DOMAIN b
      PROVE  /\ b[i].of \in h + 1..Len(ms) /\ b[i].at \in 1..ms[b[i].of].size
             /\ i <= size => b[i].of = n /\ b[i].at = i
             /\ i > size => b[i].of # n
  <2>1. b[i].of \in h + 1..Len(ms) /\ b[i].at \in 1..ms[b[i].of].size
    BY DEF WholeInOrder
  <2>2. i <= size => b[i].of = n /\ b[i].at = i
    BY <1>0, <1>3
  <2>3. ASSUME i > size, b[i].of = n PROVE FALSE
    <3>1. size \in DOMAIN b /\ b[size].of = n /\ b[size].at = size
      BY <1>0, <1>2, <1>3
    <3>2. b[size].of < b[i].of \/ (b[size].of = b[i].of /\ b[size].at < b[i].at)
      BY <2>3, <3>1 DEF WholeInOrder
    <3>3. b[i].at \in 1..size
      BY <2>1, <2>3 DEF size
    <3> QED BY <2>3, <3>1, <3>2, <3>3, <1>2
  <2> QED BY <2>1, <2>2, <2>3
<1>7. ASSUME NEW i \in DOMAIN t
      PROVE  t[i].of \in n + 1..Len(ms) /\ t[i].at \in 1..ms[t[i].of].size
  <2>1. size + i \in DOMAIN b /\ t[i] = b[size + i] /\ size + i > size
    BY <1>5, <1>2
  <2> QED BY <2>1, <1>6, <1>0 DEF n
<1>8. ASSUME NEW k \in n + 1..Len(ms) PROVE \E i \in DOMAIN t : t[i].of = k
  <2>1. k \in h + 1..Len(ms) /\ k # n
    BY <1>0 DEF n
  <2>2. PICK i \in DOMAIN b : b[i].of = k
    BY <2>1 DEF WholeInOrder
  <2>3. i > size
    BY <2>1, <2>2, <1>6, <1>0, <1>2
  <2>4. i - size \in DOMAIN t /\ size + (i - size) = i
    BY <2>3, <1>0, <1>2, <1>5
  <2> QED BY <2>2, <2>4, <1>5
<1>9. ASSUME NEW i \in DOMAIN t, NEW j \in DOMAIN t, i < j
      PROVE  t[i].of < t[j].of \/ (t[i].of = t[j].of /\ t[i].at < t[j].at)
  <2>1. size + i \in DOMAIN b /\ size + j \in DOMAIN b /\ size + i < size + j
    BY <1>9, <1>5, <1>2
  <2>2. t[i] = b[size + i] /\ t[j] = b[size + j]
    BY <1>5
  <2> QED BY <2>1, <2>2 DEF WholeInOrder
<1>10. ASSUME NEW i \in DOMAIN t, NEW k \in DOMAIN UnitsOf(t[i].of, ms[t[i].of].size)
       PROVE  /\ i - t[i].at + k \in DOMAIN t
              /\ t[i - t[i].at + k] = UnitsOf(t[i].of, ms[t[i].of].size)[k]
  <2> DEFINE q == (size + i) - t[i].at + k
  <2>1. size + i \in DOMAIN b /\ t[i] = b[size + i]
    BY <1>5
  <2>2. q \in DOMAIN b /\ b[q] = UnitsOf(t[i].of, ms[t[i].of].size)[k]
    BY <2>1, <1>10 DEF WholeInOrder
  <2>3. t[i].of \in n + 1..Len(ms)
    BY <1>7
  <2>4. t[i].of \in Nat \ {0} /\ ms[t[i].of] \in Sendable
    BY <2>3, <1>0, <1>2, ElementOfSeq
  <2>5. ms[t[i].of].size \in Nat \ {0} /\ t[i].at \in 1..ms[t[i].of].size
    BY <2>4, <1>7 DEF Sendable
  <2>6. UnitsOf(t[i].of, ms[t[i].of].size)[k].of = t[i].of /\ k \in 1..ms[t[i].of].size
    <3>1. /\ DOMAIN UnitsOf(t[i].of, ms[t[i].of].size) = 1..ms[t[i].of].size
          /\ \A e \in 1..ms[t[i].of].size : UnitsOf(t[i].of, ms[t[i].of].size)[e].of = t[i].of
      <4> DEFINE of == t[i].of
                 long == ms[t[i].of].size
      <4>1. of \in Nat \ {0} /\ long \in Nat \ {0}
        BY <2>4, <2>5
      <4> HIDE DEF of, long
      <4>2. DOMAIN UnitsOf(of, long) = 1..long /\ \A e \in 1..long : UnitsOf(of, long)[e].of = of
        BY <4>1, UnitsType
      <4> QED BY <4>2 DEF of, long
    <3> QED BY <3>1, <1>10
  <2>7. q > size
    <3>1. b[q].of \in n + 1..Len(ms) /\ q \in Nat
      BY <2>2, <2>3, <2>6, <1>0
    <3>2. b[q].of # n
      BY <3>1, <1>0, <1>2
    <3> QED BY <2>2, <3>1, <3>2, <1>6, <1>2
  <2>8. q - size = i - t[i].at + k /\ size + (q - size) = q /\ q - size \in DOMAIN t
    <3>1. t[i].at \in Nat /\ k \in Nat /\ i \in Nat
      BY <2>5, <2>6, <1>0, <1>2, <1>5
    <3>2. q \in Int /\ q - size = i - t[i].at + k /\ size + (q - size) = q
      BY <3>1, <1>2
    <3> HIDE DEF q
    <3>3. q - size \in DOMAIN t
      <4>1. q \in 1..Len(b)
        BY <2>2, <1>0
      <4>2. q - size \in 1..Len(b) - size
        BY <4>1, <2>7, <1>0, <1>2
      <4> QED BY <4>2, <1>5
    <3> QED BY <3>2, <3>3
  <2> HIDE DEF q
  <2>9. t[q - size] = b[q]
    BY <2>8, <1>5
  <2> QED BY <2>2, <2>8, <2>9
<1>11. WholeInOrder(t, ms, n)
  BY <1>7, <1>8, <1>9, <1>10 DEF WholeInOrder
<1> QED BY <1>11 DEF n, size, t

LEMMA Associative ==
    ASSUME NEW a \in Seq(Unit), NEW b \in Seq(Unit), NEW c \in Seq(Unit)
    PROVE  (a \o b) \o c = a \o (b \o c)
BY ConcatAssociative

LEMMA Joined ==
    ASSUME NEW a \in Seq(Unit), NEW b \in Seq(Unit)
    PROVE  a \o b \in Seq(Unit)
BY ConcatProperties

LEMMA Regroup ==
    ASSUME NEW a \in Seq(Unit), NEW b \in Seq(Unit), NEW c \in Seq(Unit)
    PROVE  (a \o (b \o c)) \o <<>> = (a \o b) \o c
<1>1. a \o (b \o c) \in Seq(Unit) /\ b \o c \in Seq(Unit)
  BY ConcatProperties
<1>2. (a \o b) \o c = a \o (b \o c)
  BY ConcatAssociative
<1>3. (a \o (b \o c)) \o <<>> = a \o (b \o c)
  BY <1>1, ConcatEmptySeq
<1> QED BY <1>2, <1>3

-----------------------------------------------------------------------------
(* What each step does to the bytes of a direction.                           *)
LEMMA HeldType ==
    ASSUME SocketIOTypes, NEW d \in Directions
    PROVE  Held(d) \in Nat /\ Room(d) \in Nat /\ (Room(d) = 0 => Held(d) >= Capacity)
<1>1. queue[d] \in Seq(Unit) /\ DOMAIN queue[d] = 1..Len(queue[d]) /\ Len(queue[d]) \in Nat
  BY DEF SocketIOTypes
<1>2. IsFiniteSet(1..Len(queue[d]))
  BY <1>1, FS_Interval
<1>3. IsFiniteSet({i \in DOMAIN queue[d] : queue[d][i].piece})
  BY <1>1, <1>2, FS_Subset
<1>4. Held(d) \in Nat
  BY <1>3, FS_CardinalityType DEF Held
<1>5. Capacity \in Nat
  BY SocketIOAssumption
<1> QED BY <1>4, <1>5 DEF Room

(* What sendmsg takes of a message, and what it leaves.                       *)
LEMMA TakenType ==
    ASSUME SocketIOTypes, NEW d \in Directions, NEW pieces \in Nat \ {0}
    PROVE  /\ Taken(d, pieces) \in Seq(Unit) /\ Len(Taken(d, pieces)) \in 0..Len(out[d])
           /\ SubSeq(out[d], Len(Taken(d, pieces)) + 1, Len(out[d])) \in Seq(Unit)
           /\ Taken(d, pieces) \o SubSeq(out[d], Len(Taken(d, pieces)) + 1, Len(out[d])) = out[d]
           /\ Len(out[d]) <= Chunk => Taken(d, pieces) = out[d]
<1>1. out[d] \in Seq(Unit) /\ Len(out[d]) \in Nat
  BY DEF SocketIOTypes
<1>2. Chunk \in Nat /\ pieces * Chunk \in Nat /\ Chunk <= pieces * Chunk
  BY SocketIOAssumption
<1> DEFINE n == Min({Len(out[d]), pieces * Chunk})
<1>3. n \in 0..Len(out[d]) /\ (Len(out[d]) <= Chunk => n = Len(out[d]))
  <2>1. n = IF Len(out[d]) <= pieces * Chunk THEN Len(out[d]) ELSE pieces * Chunk
    BY <1>1, <1>2, SmallerOfTwo
  <2> HIDE DEF n
  <2> QED BY <2>1, <1>1, <1>2
<1> HIDE DEF n
<1>4. Taken(d, pieces) = SubSeq(out[d], 1, n)
  BY DEF Taken, n
<1>5. /\ SubSeq(out[d], 1, n) \in Seq(Unit) /\ Len(SubSeq(out[d], 1, n)) = n
      /\ SubSeq(out[d], n + 1, Len(out[d])) \in Seq(Unit)
      /\ SubSeq(out[d], 1, n) \o SubSeq(out[d], n + 1, Len(out[d])) = out[d]
  <2>1. out[d] \in Seq(Unit) /\ n \in 0..Len(out[d])
    BY <1>1, <1>3
  <2> QED BY <2>1, Cut, Zenon
<1>6. n = Len(out[d]) => SubSeq(out[d], 1, n) = out[d]
  BY <1>1, SubSeqFull
<1> QED BY <1>1, <1>3, <1>4, <1>5, <1>6

LEMMA ClientCallsSteps ==
    ASSUME SocketIOTypes, RequestsFit, RequestsShort,
           NEW size \in RequestSizes, NEW answer \in BOOLEAN, ClientCalls(size, answer)
    PROVE  SocketIOTypes' /\ RequestsShort' /\ Added("c2s") /\ Moved("s2c")
<1> DEFINE m == [size |-> size, answer |-> answer]
           ms == sent["c2s"]
<1>0. /\ ms \in Seq(Sendable) /\ Len(ms) \in Nat /\ heard["c2s"] <= Len(ms)
      /\ batch["c2s"] \in Seq(Unit) /\ queue["c2s"] \in Seq(Unit)
  BY DEF SocketIOTypes, Directions
<1>1. size \in Nat \ {0} /\ m \in Sendable
  BY SocketIOAssumption DEF Sendable
<1>2. /\ sent' = [sent EXCEPT !["c2s"] = Append(ms, m)]
      /\ out' = [out EXCEPT !["c2s"] = UnitsOf(Len(sent'["c2s"]), size)]
      /\ out["c2s"] = <<>>
      /\ UNCHANGED <<waits, queue, batch, again, heard, failed>>
  BY DEF ClientCalls, ClientIdle
<1> HIDE DEF m, ms
<1>3. /\ Append(ms, m) \in Seq(Sendable) /\ Len(Append(ms, m)) = Len(ms) + 1
      /\ \A i \in 1..Len(ms) : Append(ms, m)[i] = ms[i]
      /\ Append(ms, m)[Len(ms) + 1] = m
  BY <1>0, <1>1, AppendProperties
<1>4. sent'["c2s"] = Append(ms, m) /\ sent'["s2c"] = sent["s2c"] /\ m.size = size
  BY <1>2 DEF SocketIOTypes, Directions, m
<1> DEFINE units == UnitsOf(Len(ms) + 1, size)
<1>5. out' = [out EXCEPT !["c2s"] = units]
  BY <1>2, <1>3, <1>4
<1>6. units \in Seq(Unit) /\ Len(units) = size
  <2>1. Len(ms) + 1 \in Nat \ {0}
    BY <1>0
  <2> QED BY <2>1, <1>1, UnitsType
<1> HIDE DEF units
<1>7. out'["c2s"] = units /\ out'["s2c"] = out["s2c"]
  BY <1>5 DEF SocketIOTypes, Directions
<1>8. SocketIOTypes'
  <2>1. sent' \in [Directions -> Seq(Sendable)] /\ out' \in [Directions -> Seq(Unit)]
    BY <1>2, <1>3, <1>5, <1>6 DEF SocketIOTypes, Directions
  <2>2. /\ queue' \in [Directions -> Seq(Unit)] /\ batch' \in [Directions -> Seq(Unit)]
        /\ again' \in [Directions -> BOOLEAN] /\ heard' \in [Directions -> Nat]
    BY <1>2 DEF SocketIOTypes
  <2>3. \A d \in Directions : heard'[d] <= Len(sent'[d])
    <3>1. heard'["c2s"] \in Nat /\ heard'["c2s"] <= Len(ms) /\ Len(ms) \in Nat
      BY <1>0, <1>2 DEF SocketIOTypes, Directions, ms
    <3>2. heard'["c2s"] <= Len(sent'["c2s"])
      BY <3>1, <1>3, <1>4
    <3>3. heard'["s2c"] <= Len(sent'["s2c"])
      BY <1>2, <1>4 DEF SocketIOTypes, Directions
    <3> QED BY <3>2, <3>3 DEF Directions
  <2> QED BY <2>1, <2>2, <2>3 DEF SocketIOTypes
<1>9. RequestsShort'
  <2>1. size <= Chunk
    BY DEF RequestsFit
  <2>2. \A i \in DOMAIN Append(ms, m) : Append(ms, m)[i].size <= Chunk
    BY <2>1, <1>0, <1>3, <1>4 DEF RequestsShort, ms
  <2> QED BY <2>1, <2>2, <1>4, <1>6, <1>7 DEF RequestsShort
<1>10. Added("c2s")
  <2>1. Stream("c2s")' = (batch["c2s"] \o queue["c2s"]) \o units
    BY <1>2, <1>7 DEF Stream
  <2>2. Stream("c2s") = batch["c2s"] \o queue["c2s"]
    <3>1. batch["c2s"] \o queue["c2s"] \in Seq(Unit)
      BY <1>0, ConcatProperties
    <3> QED BY <3>1, <1>2, ConcatEmptySeq DEF Stream
  <2> QED BY <2>1, <2>2, <1>1, <1>2, <1>4 DEF Added, units, ms
<1>11. Moved("s2c")
  BY <1>2, <1>4, <1>7 DEF Moved, Stream
<1> QED BY <1>8, <1>9, <1>10, <1>11

LEMMA ClientSendsSteps ==
    ASSUME SocketIOTypes, RequestsShort, ClientSends
    PROVE  SocketIOTypes' /\ RequestsShort' /\ \A d \in Directions : Moved(d)
<1>0. UNCHANGED <<sent, batch, again, heard>>
  BY DEF ClientSends
<1>1. CASE UNCHANGED <<queue, out>>
  BY <1>0, <1>1 DEF SocketIOTypes, RequestsShort, Moved, Stream
<1>2. CASE /\ Room("c2s") # 0
           /\ queue' = [queue EXCEPT !["c2s"] = @ \o Taken("c2s", Room("c2s"))]
           /\ out' = [out EXCEPT !["c2s"] = <<>>]
  <2> DEFINE o == out["c2s"]
             q == queue["c2s"]
             b == batch["c2s"]
  <2>1. o \in Seq(Unit) /\ q \in Seq(Unit) /\ b \in Seq(Unit)
    BY DEF SocketIOTypes, Directions
  <2>2. Room("c2s") \in Nat \ {0} /\ "c2s" \in Directions
    BY <1>2, HeldType DEF Directions
  <2>3. Taken("c2s", Room("c2s")) = o
    BY <2>2, TakenType DEF RequestsShort
  <2> HIDE DEF o, q, b
  <2>4. /\ queue' = [queue EXCEPT !["c2s"] = q \o o]
        /\ out' = [out EXCEPT !["c2s"] = <<>>]
    BY <1>2, <2>3 DEF q
  <2>5. q \o o \in Seq(Unit) /\ <<>> \in Seq(Unit)
    BY <2>1, ConcatProperties
  <2>6. /\ queue'["c2s"] = q \o o /\ queue'["s2c"] = queue["s2c"]
        /\ out'["c2s"] = <<>> /\ out'["s2c"] = out["s2c"]
    BY <2>4 DEF SocketIOTypes, Directions
  <2>7. SocketIOTypes'
    BY <1>0, <2>4, <2>5 DEF SocketIOTypes, Directions
  <2>8. RequestsShort'
    BY <1>0, <2>6, SocketIOAssumption DEF RequestsShort
  <2>9. Stream("c2s")' = Stream("c2s")
    <3>1. (b \o (q \o o)) \o <<>> = (b \o q) \o o
      BY <2>1, Regroup
    <3> QED BY <3>1, <1>0, <2>6 DEF Stream, b, q, o
  <2>10. Stream("s2c")' = Stream("s2c")
    BY <1>0, <2>6 DEF Stream
  <2> QED BY <1>0, <2>7, <2>8, <2>9, <2>10 DEF Moved, Directions
<1> QED BY <1>1, <1>2 DEF ClientSends

LEMMA ServerSendsSteps ==
    ASSUME SocketIOTypes, RequestsShort, ServerSends
    PROVE  SocketIOTypes' /\ RequestsShort' /\ \A d \in Directions : Moved(d)
<1> DEFINE o == out["s2c"]
           q == queue["s2c"]
           b == batch["s2c"]
           t == Taken("s2c", 1)
           r == SubSeq(o, Len(t) + 1, Len(o))
<1>0. UNCHANGED <<sent, batch, again, heard>>
  BY DEF ServerSends
<1>1. o \in Seq(Unit) /\ q \in Seq(Unit) /\ b \in Seq(Unit)
  BY DEF SocketIOTypes, Directions
<1>2. t \in Seq(Unit) /\ r \in Seq(Unit) /\ t \o r = o
  <2>1. "s2c" \in Directions /\ 1 \in Nat \ {0}
    BY DEF Directions
  <2> QED BY <2>1, TakenType
<1>3. /\ queue' = [queue EXCEPT !["s2c"] = q \o t]
      /\ out' = [out EXCEPT !["s2c"] = r]
  BY DEF ServerSends
<1> HIDE DEF o, q, b, t, r
<1>4. q \o t \in Seq(Unit)
  BY <1>1, <1>2, ConcatProperties
<1>5. /\ queue'["s2c"] = q \o t /\ queue'["c2s"] = queue["c2s"]
      /\ out'["s2c"] = r /\ out'["c2s"] = out["c2s"]
  BY <1>3 DEF SocketIOTypes, Directions
<1>6. SocketIOTypes'
  BY <1>0, <1>2, <1>3, <1>4 DEF SocketIOTypes, Directions
<1>7. RequestsShort'
  BY <1>0, <1>5 DEF RequestsShort
<1>8. Stream("s2c")' = Stream("s2c")
  <2>1. (b \o (q \o t)) \o r = (b \o q) \o (t \o r)
    <3>1. b \in Seq(Unit) /\ q \in Seq(Unit) /\ t \in Seq(Unit) /\ r \in Seq(Unit)
      BY <1>1, <1>2
    <3>2. PICK bq : bq = b \o q
      OBVIOUS
    <3>3. bq \in Seq(Unit)
      BY <3>1, <3>2, Joined
    <3>4. bq \o t = b \o (q \o t)
      BY ONLY <3>1, <3>2, Associative
    <3>5. (bq \o t) \o r = bq \o (t \o r)
      BY ONLY <3>1, <3>3, Associative
    <3> QED BY ONLY <3>2, <3>4, <3>5
  <2> QED BY <2>1, <1>0, <1>2, <1>5 DEF Stream, b, q, o
<1>9. Stream("c2s")' = Stream("c2s")
  BY <1>0, <1>5 DEF Stream
<1> QED BY <1>0, <1>6, <1>7, <1>8, <1>9 DEF Moved, Directions

LEMMA ReceiveSteps ==
    ASSUME SocketIOTypes, RequestsShort, UNCHANGED <<sent, out, heard>>,
           NEW d \in Directions, Receive(d)
    PROVE  SocketIOTypes' /\ RequestsShort' /\ \A e \in Directions : Moved(e)
<1> DEFINE q == queue[d]
           b == batch[d]
           o == out[d]
           n == Min({Len(q), Buffer})
           t == SubSeq(q, 1, n)
           r == SubSeq(q, n + 1, Len(q))
<1>1. o \in Seq(Unit) /\ q \in Seq(Unit) /\ b \in Seq(Unit) /\ Len(q) \in Nat /\ Buffer \in Nat
  BY SocketIOAssumption DEF SocketIOTypes
<1>2. /\ batch' = [batch EXCEPT ![d] = b \o t]
      /\ queue' = [queue EXCEPT ![d] = r]
      /\ again' = [again EXCEPT ![d] = n = Buffer]
  BY DEF Receive
<1> HIDE DEF q, b, o
<1>3. n \in 0..Len(q)
  <2>1. Min({Len(q), Buffer}) = IF Len(q) <= Buffer THEN Len(q) ELSE Buffer
    BY <1>1, SmallerOfTwo
  <2> QED BY <2>1, <1>1
<1> HIDE DEF n
<1>4. t \in Seq(Unit) /\ r \in Seq(Unit) /\ t \o r = q
  BY <1>1, <1>3, Cut
<1> HIDE DEF t, r
<1>5. b \o t \in Seq(Unit)
  BY <1>1, <1>4, ConcatProperties
<1>6. /\ batch'[d] = b \o t /\ queue'[d] = r
      /\ \A e \in Directions : e # d => batch'[e] = batch[e] /\ queue'[e] = queue[e]
  BY <1>2 DEF SocketIOTypes
<1>7. SocketIOTypes'
  <2>1. batch' \in [Directions -> Seq(Unit)] /\ queue' \in [Directions -> Seq(Unit)]
    BY <1>2, <1>4, <1>5 DEF SocketIOTypes
  <2>2. again' \in [Directions -> BOOLEAN]
    <3>1. (n = Buffer) \in BOOLEAN /\ again \in [Directions -> BOOLEAN]
      BY DEF SocketIOTypes
    <3> QED BY <3>1, <1>2
  <2> QED BY <2>1, <2>2 DEF SocketIOTypes
<1>8. RequestsShort'
  BY DEF RequestsShort
<1>9. Stream(d)' = Stream(d)
  <2>1. (b \o t) \o r = b \o (t \o r)
    <3>1. b \in Seq(Unit) /\ t \in Seq(Unit) /\ r \in Seq(Unit)
      BY <1>1, <1>4
    <3> QED BY ONLY <3>1, ConcatAssociative
  <2> QED BY <2>1, <1>4, <1>6 DEF Stream, b, q, o
<1>10. \A e \in Directions : e # d => Stream(e)' = Stream(e)
  BY <1>6 DEF Stream
<1> QED BY <1>7, <1>8, <1>9, <1>10 DEF Moved

(* A message that is whole at the start of the batch is at the start of the   *)
(* stream.                                                                    *)
LEMMA HandledSteps ==
    ASSUME SocketIOTypes, UNCHANGED <<queue, again>>,
           NEW d \in Directions, Whole(d), Handled(d)
    PROVE  LET size == sent[d][heard[d] + 1].size IN
           /\ heard[d] < Len(sent[d]) /\ size <= Len(Stream(d))
           /\ heard' \in [Directions -> Nat] /\ batch' \in [Directions -> Seq(Unit)]
           /\ heard'[d] = heard[d] + 1
           /\ batch'[d] \o queue'[d] \o out[d] = SubSeq(Stream(d), size + 1, Len(Stream(d)))
           /\ batch'[d] = SubSeq(batch[d], size + 1, Len(batch[d])) /\ size <= Len(batch[d])
           /\ \A e \in Directions : e # d => batch'[e] = batch[e] /\ heard'[e] = heard[e]
<1> DEFINE q == queue[d]
           b == batch[d]
           o == out[d]
           h == heard[d]
           size == sent[d][h + 1].size
           r == SubSeq(b, size + 1, Len(b))
<1>0. /\ o \in Seq(Unit) /\ q \in Seq(Unit) /\ b \in Seq(Unit)
      /\ sent[d] \in Seq(Sendable) /\ h \in Nat
  BY DEF SocketIOTypes
<1>1. h < Len(sent[d]) /\ IsPrefix(UnitsOf(h + 1, size), b)
  BY DEF Whole, Awaited
<1>2. size \in Nat \ {0}
  <2>1. h + 1 \in 1..Len(sent[d])
    BY <1>0, <1>1
  <2>2. sent[d][h + 1] \in Sendable
    BY <2>1, <1>0, ElementOfSeq
  <2> QED BY <2>2 DEF Sendable
<1>3. Len(UnitsOf(h + 1, size)) = size
  <2> HIDE DEF size, h
  <2>1. h + 1 \in Nat \ {0}
    BY <1>0
  <2> QED BY <2>1, <1>2, UnitsType
<1>4. /\ heard' = [heard EXCEPT ![d] = h + 1]
      /\ batch' = [batch EXCEPT ![d] = r]
  BY <1>3 DEF Handled, Awaited
<1> HIDE DEF q, b, o, h, size
<1>5. size \in 0..Len(b)
  <2>1. size <= Len(b)
    BY <1>1, <1>3 DEF IsPrefix
  <2> QED BY <2>1, <1>0, <1>2
<1>6. r \in Seq(Unit)
  BY <1>0, <1>5, Cut
<1> HIDE DEF r
<1>7. /\ heard' \in [Directions -> Nat] /\ batch' \in [Directions -> Seq(Unit)]
      /\ heard'[d] = h + 1 /\ batch'[d] = r
      /\ \A e \in Directions : e # d => batch'[e] = batch[e] /\ heard'[e] = heard[e]
  BY <1>0, <1>4, <1>6 DEF SocketIOTypes
<1>8. /\ r \o q = SubSeq(b \o q, size + 1, Len(b \o q))
      /\ size \in 0..Len(b \o q) /\ b \o q \in Seq(Unit)
  <2>1. b \in Seq(Unit) /\ q \in Seq(Unit) /\ size \in 0..Len(b)
    BY <1>0, <1>5
  <2> QED BY ONLY <2>1, CutFirst DEF r
<1>9. /\ SubSeq(b \o q, size + 1, Len(b \o q)) \o o = SubSeq((b \o q) \o o, size + 1, Len((b \o q) \o o))
      /\ size \in 0..Len((b \o q) \o o)
  <2> DEFINE both == b \o q
  <2>1. both \in Seq(Unit) /\ o \in Seq(Unit) /\ size \in 0..Len(both)
    BY <1>0, <1>8
  <2> HIDE DEF both
  <2>2. /\ SubSeq(both, size + 1, Len(both)) \o o = SubSeq(both \o o, size + 1, Len(both \o o))
        /\ size \in 0..Len(both \o o)
    BY ONLY <2>1, CutFirst
  <2> QED BY <2>2 DEF both
<1>10. Stream(d) = (b \o q) \o o
  BY DEF Stream, b, q, o
<1>11. size <= Len(Stream(d)) /\ size <= Len(b)
  BY <1>5, <1>9, <1>10
<1> QED BY <1>1, <1>7, <1>8, <1>9, <1>10, <1>11 DEF b, q, o, h, size, r

LEMMA ClientHandlesSteps ==
    ASSUME SocketIOTypes, RequestsShort, ClientHandles
    PROVE  SocketIOTypes' /\ RequestsShort' /\ \A d \in Directions : Moved(d) \/ TakenAway(d)
<1>0. UNCHANGED <<sent, out, queue, again>> /\ "s2c" \in Directions
  BY DEF ClientHandles, Directions
<1>1. CASE Whole("s2c") /\ Handled("s2c")
  <2> DEFINE size == sent["s2c"][heard["s2c"] + 1].size
  <2>1. /\ heard["s2c"] < Len(sent["s2c"]) /\ size <= Len(Stream("s2c"))
        /\ heard' \in [Directions -> Nat] /\ batch' \in [Directions -> Seq(Unit)]
        /\ heard'["s2c"] = heard["s2c"] + 1
        /\ batch'["s2c"] \o queue'["s2c"] \o out["s2c"]
             = SubSeq(Stream("s2c"), size + 1, Len(Stream("s2c")))
        /\ \A e \in Directions : e # "s2c" => batch'[e] = batch[e] /\ heard'[e] = heard[e]
    BY <1>0, <1>1, HandledSteps
  <2>2. TakenAway("s2c")
    BY <1>0, <2>1 DEF TakenAway, Stream
  <2>3. \A e \in Directions : e # "s2c" => Moved(e)
    BY <1>0, <2>1 DEF Moved, Stream
  <2>4. \A e \in Directions : heard'[e] <= Len(sent[e])
    <3>1. heard["s2c"] \in Nat /\ Len(sent["s2c"]) \in Nat
      BY <1>0 DEF SocketIOTypes
    <3>2. heard'["s2c"] <= Len(sent["s2c"])
      BY <2>1, <3>1
    <3>3. \A e \in Directions : e # "s2c" => heard'[e] <= Len(sent[e])
      BY <2>1 DEF SocketIOTypes
    <3> QED BY <3>2, <3>3
  <2>5. SocketIOTypes'
    BY <1>0, <2>1, <2>4 DEF SocketIOTypes
  <2> QED BY <1>0, <2>2, <2>3, <2>5 DEF RequestsShort
<1>2. CASE UNCHANGED <<heard, batch>>
  BY <1>0, <1>2 DEF SocketIOTypes, RequestsShort, Moved, Stream
<1> QED BY <1>1, <1>2 DEF ClientHandles

LEMMA ServerHandlesSteps ==
    ASSUME SocketIOTypes, RequestsShort, NEW size \in AnswerSizes, ServerHandles(size)
    PROVE  /\ SocketIOTypes' /\ RequestsShort'
           /\ \A d \in Directions : Moved(d) \/ Added(d) \/ TakenAway(d)
<1>0. UNCHANGED <<queue, again>> /\ "c2s" \in Directions /\ out["s2c"] = <<>>
  BY DEF ServerHandles, Directions
<1>1. CASE Whole("c2s") /\ Handled("c2s") /\ (Answer(size) \/ UNCHANGED <<sent, out>>)
  <2> DEFINE units == UnitsOf(Len(sent["s2c"]) + 1, size)
             m == [size |-> size, answer |-> FALSE]
             ms == sent["s2c"]
             taken == sent["c2s"][heard["c2s"] + 1].size
  <2>1. /\ heard["c2s"] < Len(sent["c2s"]) /\ taken <= Len(Stream("c2s"))
        /\ heard' \in [Directions -> Nat] /\ batch' \in [Directions -> Seq(Unit)]
        /\ heard'["c2s"] = heard["c2s"] + 1
        /\ batch'["c2s"] \o queue'["c2s"] \o out["c2s"]
             = SubSeq(Stream("c2s"), taken + 1, Len(Stream("c2s")))
        /\ \A e \in Directions : e # "c2s" => batch'[e] = batch[e] /\ heard'[e] = heard[e]
    BY <1>0, <1>1, HandledSteps
  <2>2. /\ ms \in Seq(Sendable) /\ Len(ms) \in Nat /\ heard["s2c"] <= Len(ms)
        /\ heard["c2s"] \in Nat /\ Len(sent["c2s"]) \in Nat
        /\ batch["s2c"] \in Seq(Unit) /\ queue["s2c"] \in Seq(Unit)
        /\ sent \in [Directions -> Seq(Sendable)] /\ out \in [Directions -> Seq(Unit)]
    BY DEF SocketIOTypes, Directions
  <2>3. m \in Sendable /\ m.size = size /\ size \in Nat \ {0}
    BY SocketIOAssumption DEF Sendable
  <2> HIDE DEF m, ms, taken
  <2>4. /\ Append(ms, m) \in Seq(Sendable) /\ Len(Append(ms, m)) = Len(ms) + 1
    BY <2>2, <2>3, AppendProperties
  <2>5. units \in Seq(Unit)
    <3>1. Len(ms) + 1 \in Nat \ {0}
      BY <2>2
    <3> QED BY <3>1, <2>3, UnitsType DEF ms
  <2>6. Answer(size) => /\ sent' = [sent EXCEPT !["s2c"] = Append(ms, m)]
                        /\ out' = [out EXCEPT !["s2c"] = units]
    <3> SUFFICES ASSUME Answer(size) PROVE /\ sent' = [sent EXCEPT !["s2c"] = Append(ms, m)]
                                           /\ out' = [out EXCEPT !["s2c"] = units]
      OBVIOUS
    <3>1. sent' = [sent EXCEPT !["s2c"] = Append(ms, m)]
      BY DEF Answer, ms, m
    <3>2. sent'["s2c"] = Append(ms, m)
      BY <3>1, <2>2 DEF Directions
    <3> QED BY <3>1, <3>2, <2>4 DEF Answer, ms
  <2> HIDE DEF units
  <2>7. /\ sent' \in [Directions -> Seq(Sendable)] /\ out' \in [Directions -> Seq(Unit)]
        /\ sent'["c2s"] = sent["c2s"] /\ out'["c2s"] = out["c2s"]
        /\ \/ sent'["s2c"] = Append(ms, m) /\ out'["s2c"] = units
           \/ sent'["s2c"] = ms /\ out'["s2c"] = out["s2c"]
    <3>1. CASE Answer(size)
      BY <3>1, <2>2, <2>4, <2>5, <2>6 DEF Directions
    <3>2. CASE UNCHANGED <<sent, out>>
      BY <3>2, <2>2 DEF ms
    <3> QED BY <3>1, <3>2, <1>1
  <2>8. \A e \in Directions : heard'[e] <= Len(sent'[e])
    <3>1. heard'["c2s"] <= Len(sent'["c2s"])
      BY <2>1, <2>2, <2>7
    <3>2. heard'["s2c"] = heard["s2c"] /\ heard["s2c"] \in Nat /\ heard["s2c"] <= Len(ms)
      BY <2>1, <2>2 DEF SocketIOTypes, Directions, ms
    <3>3. heard'["s2c"] <= Len(sent'["s2c"])
      BY <3>2, <2>2, <2>4, <2>7
    <3> QED BY <3>1, <3>3 DEF Directions
  <2>9. SocketIOTypes'
    BY <1>0, <2>1, <2>7, <2>8 DEF SocketIOTypes
  <2>10. RequestsShort'
    BY <2>7 DEF RequestsShort
  <2>11. TakenAway("c2s")
    BY <1>0, <2>1, <2>7 DEF TakenAway, Stream, taken
  <2>12. Moved("s2c") \/ Added("s2c")
    <3>1. "s2c" \in Directions /\ batch'["s2c"] = batch["s2c"] /\ heard'["s2c"] = heard["s2c"]
      BY <2>1 DEF Directions
    <3>2. CASE sent'["s2c"] = ms /\ out'["s2c"] = out["s2c"]
      BY <1>0, <3>1, <3>2 DEF Moved, Stream, ms
    <3>3. CASE sent'["s2c"] = Append(ms, m) /\ out'["s2c"] = units
      <4>1. Stream("s2c")' = (batch["s2c"] \o queue["s2c"]) \o units
        BY <1>0, <3>1, <3>3 DEF Stream
      <4>2. Stream("s2c") = batch["s2c"] \o queue["s2c"]
        <5>1. batch["s2c"] \o queue["s2c"] \in Seq(Unit)
          BY <2>2, ConcatProperties
        <5> QED BY <5>1, <1>0, ConcatEmptySeq DEF Stream
      <4> QED BY <4>1, <4>2, <2>3, <3>1, <3>3 DEF Added, units, ms
    <3> QED BY <3>2, <3>3, <2>7
  <2> QED BY <2>9, <2>10, <2>11, <2>12 DEF Directions
<1>2. CASE UNCHANGED <<heard, batch, sent, out>>
  BY <1>0, <1>2 DEF SocketIOTypes, RequestsShort, Moved, Stream
<1> QED BY <1>1, <1>2 DEF ServerHandles

LEMMA StreamSteps ==
    ASSUME SocketIOTypes, RequestsFit, RequestsShort, [SocketIONext]_ioVars
    PROVE  /\ SocketIOTypes' /\ RequestsShort'
           /\ \A d \in Directions : Moved(d) \/ Added(d) \/ TakenAway(d)
<1>1. ASSUME NEW size \in RequestSizes, NEW answer \in BOOLEAN, ClientCalls(size, answer)
      PROVE  /\ SocketIOTypes' /\ RequestsShort'
             /\ \A d \in Directions : Moved(d) \/ Added(d) \/ TakenAway(d)
  BY <1>1, ClientCallsSteps DEF Directions
<1>2. CASE ClientWritable \/ UNCHANGED ioVars
  BY <1>2 DEF ClientWritable, ioVars, SocketIOTypes, RequestsShort, Moved, Stream
<1>3. CASE ClientReads
  <2>1. CASE Receive("s2c")
    BY <1>3, <2>1, ReceiveSteps DEF ClientReads, Directions
  <2>2. CASE UNCHANGED <<queue, batch, again>>
    BY <1>3, <2>2 DEF ClientReads, SocketIOTypes, RequestsShort, Moved, Stream
  <2> QED BY <1>3, <2>1, <2>2 DEF ClientReads
<1>4. CASE ServerReads
  BY <1>4, ReceiveSteps DEF ServerReads, Directions
<1> QED
  BY <1>1, <1>2, <1>3, <1>4, ClientSendsSteps, ServerSendsSteps, ClientHandlesSteps, ServerHandlesSteps
     DEF SocketIONext, ClientSteps, ServerSteps

LEMMA NothingIsLostStep ==
    ASSUME SocketIOTypes, NothingIsLost, NEW d \in Directions, Moved(d) \/ Added(d) \/ TakenAway(d)
    PROVE  WholeInOrder(Stream(d)', sent'[d], heard'[d])
<1>1. /\ batch[d] \in Seq(Unit) /\ queue[d] \in Seq(Unit) /\ out[d] \in Seq(Unit)
      /\ sent[d] \in Seq(Sendable) /\ heard[d] \in Nat /\ heard[d] <= Len(sent[d])
  BY DEF SocketIOTypes
<1>2. Stream(d) \in Seq(Unit)
  BY <1>1 DEF Stream
<1>3. WholeInOrder(Stream(d), sent[d], heard[d])
  BY DEF NothingIsLost, Stream
<1>4. CASE Moved(d)
  BY <1>3, <1>4 DEF Moved
<1>5. CASE Added(d)
  BY <1>1, <1>2, <1>3, <1>5, AddedWhole DEF Added
<1>6. CASE TakenAway(d)
  BY <1>1, <1>2, <1>3, <1>6, TakenAwayWhole DEF TakenAway
<1> QED BY <1>4, <1>5, <1>6

LEMMA SocketIOInvariant ==
    ASSUME RequestsFit
    PROVE  SocketIOSpec => [](SocketIOTypes /\ RequestsShort /\ NothingIsLost)
<1>1. SocketIOInit => SocketIOTypes /\ RequestsShort /\ NothingIsLost
  BY SocketIOAssumption
     DEF SocketIOInit, SocketIOTypes, RequestsShort, NothingIsLost, WholeInOrder, Directions
<1>2. SocketIOTypes /\ RequestsShort /\ NothingIsLost /\ [SocketIONext]_ioVars
        => SocketIOTypes' /\ RequestsShort' /\ NothingIsLost'
  <2> SUFFICES ASSUME SocketIOTypes, RequestsShort, NothingIsLost, [SocketIONext]_ioVars
               PROVE  SocketIOTypes' /\ RequestsShort' /\ NothingIsLost'
    OBVIOUS
  <2>1. SocketIOTypes' /\ RequestsShort'
    BY StreamSteps
  <2>2. \A d \in Directions : WholeInOrder(Stream(d)', sent'[d], heard'[d])
    BY StreamSteps, NothingIsLostStep
  <2> QED BY <2>1, <2>2 DEF NothingIsLost, Stream
<1> QED BY <1>1, <1>2, PTL DEF SocketIOSpec

(* As long as the kernel takes a request in one piece, the bytes of every     *)
(* message that was sent and not handled are still there, whole and in order, *)
(* in either direction, whatever the sizes of buffer and sockets are: also    *)
(* when a full socket stopped a send, and when a read ended inside a message. *)
(* Answers may be of any size, because the server's sendmsg takes them whole. *)
THEOREM BytesAreKept == RequestsFit => (SocketIOSpec => []NothingIsLost)
<1>1. ASSUME RequestsFit PROVE SocketIOSpec => []NothingIsLost
  BY <1>1, SocketIOInvariant, PTL
<1> QED BY <1>1

-----------------------------------------------------------------------------
(* Where messages fit a piece, the kernel holds whole messages, and a read    *)
(* that found less than a buffer full ends behind one.                        *)
MessagesFit == RequestsFit /\ AnswersFit

LastEnds(d, units) == units # <<>> =>
    units[Len(units)].at = sent[d][units[Len(units)].of].size

Ends(d) ==
    /\ LastEnds(d, queue[d])
    /\ ~again[d] => LastEnds(d, batch[d])
    /\ LastEnds(d, out[d])

EndsInv == (\A d \in Directions : Ends(d)) /\ Len(out["s2c"]) <= Chunk

(* Of the messages in the stream, the sender knows the size.                  *)
LEMMA StreamSizes ==
    ASSUME SocketIOTypes, NothingIsLost, NEW d \in Directions
    PROVE  /\ \A i \in DOMAIN batch[d] : batch[d][i].of \in 1..Len(sent[d])
           /\ \A i \in DOMAIN queue[d] : queue[d][i].of \in 1..Len(sent[d])
           /\ \A i \in DOMAIN out[d] : out[d][i].of \in 1..Len(sent[d])
<1> DEFINE b == batch[d]
           q == queue[d]
           o == out[d]
           s == (b \o q) \o o
<1>1. /\ b \in Seq(Unit) /\ q \in Seq(Unit) /\ o \in Seq(Unit)
      /\ Len(b) \in Nat /\ Len(q) \in Nat /\ Len(o) \in Nat
      /\ heard[d] \in Nat /\ Len(sent[d]) \in Nat
  BY DEF SocketIOTypes
<1>2. \A i \in DOMAIN s : s[i].of \in heard[d] + 1..Len(sent[d])
  BY DEF NothingIsLost, WholeInOrder
<1> HIDE DEF b, q, o
<1> DEFINE t == b \o q
<1>3. /\ t \in Seq(Unit) /\ Len(t) = Len(b) + Len(q)
      /\ \A i \in 1..Len(b) + Len(q) : t[i] = IF i <= Len(b) THEN b[i] ELSE q[i - Len(b)]
  BY <1>1, ConcatProperties
<1>4. s = t \o o
  OBVIOUS
<1> HIDE DEF t, s
<1>5. /\ s \in Seq(Unit) /\ Len(s) = Len(t) + Len(o)
      /\ \A i \in 1..Len(t) + Len(o) : s[i] = IF i <= Len(t) THEN t[i] ELSE o[i - Len(t)]
  <2>1. t \in Seq(Unit) /\ o \in Seq(Unit)
    BY <1>1, <1>3
  <2>2. /\ t \o o \in Seq(Unit) /\ Len(t \o o) = Len(t) + Len(o)
        /\ \A i \in 1..Len(t) + Len(o) : (t \o o)[i] = IF i <= Len(t) THEN t[i] ELSE o[i - Len(t)]
    BY ONLY <2>1, ConcatProperties
  <2> QED BY <1>4, <2>2
<1>6. DOMAIN s = 1..(Len(b) + Len(q) + Len(o)) /\ \A n \in heard[d] + 1..Len(sent[d]) : n \in 1..Len(sent[d])
  BY <1>1, <1>3, <1>5
<1>7. ASSUME NEW i \in DOMAIN b PROVE b[i].of \in 1..Len(sent[d])
  <2>1. i \in 1..Len(b)
    BY <1>1
  <2>2. s[i] = b[i] /\ i \in DOMAIN s
    BY <2>1, <1>1, <1>3, <1>5, <1>6
  <2> QED BY <2>2, <1>2, <1>6
<1>8. ASSUME NEW i \in DOMAIN q PROVE q[i].of \in 1..Len(sent[d])
  <2>1. i \in 1..Len(q)
    BY <1>1
  <2>2. (Len(b) + i) - Len(b) = i /\ Len(b) + i \in 1..Len(b) + Len(q) /\ ~(Len(b) + i <= Len(b))
    BY <2>1, <1>1
  <2>3. t[Len(b) + i] = q[i]
    BY <2>2, <1>3
  <2>4. s[Len(b) + i] = q[i] /\ Len(b) + i \in DOMAIN s
    BY <2>2, <2>3, <1>1, <1>3, <1>5, <1>6
  <2> QED BY <2>4, <1>2, <1>6
<1>9. ASSUME NEW i \in DOMAIN o PROVE o[i].of \in 1..Len(sent[d])
  <2>1. i \in 1..Len(o)
    BY <1>1
  <2>2. /\ (Len(t) + i) - Len(t) = i /\ Len(t) + i \in 1..Len(t) + Len(o) /\ ~(Len(t) + i <= Len(t))
        /\ Len(t) + i \in DOMAIN s
    BY <2>1, <1>1, <1>3, <1>6
  <2>3. s[Len(t) + i] = o[i]
    BY <2>2, <1>5
  <2> QED BY <2>2, <2>3, <1>2, <1>6
<1> QED BY <1>7, <1>8, <1>9 DEF b, q, o

LEMMA LastOfConcat ==
    ASSUME NEW s \in Seq(Unit), NEW t \in Seq(Unit)
    PROVE  /\ t # <<>> => s \o t # <<>> /\ (s \o t)[Len(s \o t)] = t[Len(t)]
           /\ s \o t \in Seq(Unit)
<1>1. /\ s \o t \in Seq(Unit) /\ Len(s \o t) = Len(s) + Len(t)
      /\ \A i \in 1..Len(s) + Len(t) : (s \o t)[i] = IF i <= Len(s) THEN s[i] ELSE t[i - Len(s)]
  BY ConcatProperties
<1>2. ASSUME t # <<>> PROVE s \o t # <<>> /\ (s \o t)[Len(s \o t)] = t[Len(t)]
  <2>1. Len(t) \in Nat \ {0} /\ Len(s) \in Nat
    BY <1>2, EmptySeq, LenProperties
  <2>2. Len(s) + Len(t) \in 1..Len(s) + Len(t) /\ ~(Len(s) + Len(t) <= Len(s)) /\ (Len(s) + Len(t)) - Len(s) = Len(t)
    BY <2>1
  <2>3. s \o t # <<>>
    BY <2>1, <1>1, EmptySeq
  <2> QED BY <2>2, <2>3, <1>1
<1> QED BY <1>1, <1>2

LEMMA LastOfCut ==
    ASSUME NEW s \in Seq(Unit), NEW n \in 0..Len(s), SubSeq(s, n + 1, Len(s)) # <<>>
    PROVE  /\ s # <<>>
           /\ SubSeq(s, n + 1, Len(s))[Len(SubSeq(s, n + 1, Len(s)))] = s[Len(s)]
<1> DEFINE r == SubSeq(s, n + 1, Len(s))
<1>1. r \in Seq(Unit) /\ Len(r) = Len(s) - n /\ \A i \in 1..(Len(s) - n) : r[i] = s[n + i]
  BY Cut
<1> HIDE DEF r
<1>2. Len(r) \in Nat \ {0} /\ Len(s) \in Nat
  BY <1>1, EmptySeq, LenProperties DEF r
<1>3. Len(r) \in 1..(Len(s) - n) /\ n + Len(r) = Len(s)
  BY <1>1, <1>2
<1>4. s # <<>>
  BY <1>2, <1>3, EmptySeq
<1> QED BY <1>1, <1>3, <1>4 DEF r

LEMMA EndsSame ==
    ASSUME NEW d \in Directions, Ends(d), sent'[d] = sent[d], queue'[d] = queue[d],
           batch'[d] = batch[d], again'[d] = again[d], out'[d] = out[d] \/ out'[d] = <<>>
    PROVE  Ends(d)'
  BY DEF Ends, LastEnds

LEMMA EndsSent ==
    ASSUME SocketIOTypes, NothingIsLost, NEW d \in Directions, Ends(d), NEW m \in Sendable,
           sent'[d] = Append(sent[d], m), out'[d] = UnitsOf(Len(sent[d]) + 1, m.size),
           queue'[d] = queue[d], batch'[d] = batch[d], again'[d] = again[d]
    PROVE  Ends(d)'
<1> DEFINE ms == sent[d]
           u == UnitsOf(Len(ms) + 1, m.size)
<1>1. ms \in Seq(Sendable) /\ Len(ms) \in Nat /\ queue[d] \in Seq(Unit) /\ batch[d] \in Seq(Unit)
  BY DEF SocketIOTypes
<1>2. m.size \in Nat \ {0} /\ Len(ms) + 1 \in Nat \ {0}
  BY <1>1 DEF Sendable
<1>3. \A i \in 1..Len(ms) : sent'[d][i] = ms[i]
  BY <1>1, AppendProperties
<1>4. sent'[d][Len(ms) + 1] = m
  BY <1>1, AppendProperties
<1>5. ASSUME NEW s \in Seq(Unit), \A i \in DOMAIN s : s[i].of \in 1..Len(ms), LastEnds(d, s)
      PROVE  s # <<>> => s[Len(s)].at = sent'[d][s[Len(s)].of].size
  <2> SUFFICES ASSUME s # <<>> PROVE s[Len(s)].at = sent'[d][s[Len(s)].of].size
    OBVIOUS
  <2>1. Len(s) \in DOMAIN s
    BY EmptySeq, LenProperties
  <2>2. s[Len(s)].at = ms[s[Len(s)].of].size
    BY <1>5 DEF LastEnds
  <2>3. s[Len(s)].of \in 1..Len(ms)
    BY <2>1, <1>5
  <2> QED BY <2>2, <2>3, <1>3
<1>6. LastEnds(d, queue[d])' /\ (~again'[d] => LastEnds(d, batch[d])')
  <2>1. /\ \A i \in DOMAIN batch[d] : batch[d][i].of \in 1..Len(ms)
        /\ \A i \in DOMAIN queue[d] : queue[d][i].of \in 1..Len(ms)
    BY StreamSizes
  <2>2. LastEnds(d, queue[d]) /\ (~again'[d] => LastEnds(d, batch[d]))
    BY DEF Ends
  <2> HIDE DEF ms
  <2> QED BY <1>1, <1>5, <2>1, <2>2 DEF LastEnds
<1>7. u[Len(u)].of = Len(ms) + 1 /\ u[Len(u)].at = m.size
  <2>1. Len(u) = m.size /\ \A k \in 1..m.size : u[k].of = Len(ms) + 1 /\ u[k].at = k
    BY <1>2, UnitsType
  <2>2. m.size \in 1..m.size
    BY <1>2
  <2> QED BY <2>1, <2>2
<1>8. LastEnds(d, out[d])'
  BY <1>4, <1>7 DEF LastEnds
<1> QED BY <1>6, <1>8 DEF Ends

LEMMA EndsPassed ==
    ASSUME SocketIOTypes, NEW d \in Directions, Ends(d),
           sent'[d] = sent[d], queue'[d] = queue[d] \o out[d], out'[d] = <<>>,
           batch'[d] = batch[d], again'[d] = again[d]
    PROVE  Ends(d)'
<1>1. queue[d] \in Seq(Unit) /\ out[d] \in Seq(Unit)
  BY DEF SocketIOTypes
<1>2. CASE out[d] = <<>>
  <2>1. queue'[d] = queue[d]
    BY <1>1, <1>2, ConcatEmptySeq
  <2> QED BY <2>1, EndsSame
<1>3. CASE out[d] # <<>>
  <2>1. (queue[d] \o out[d])[Len(queue[d] \o out[d])] = out[d][Len(out[d])]
    BY <1>1, <1>3, LastOfConcat
  <2>2. LastEnds(d, queue[d])'
    BY <1>3, <2>1 DEF LastEnds, Ends
  <2> QED BY <2>2 DEF Ends, LastEnds
<1> QED BY <1>2, <1>3

LEMMA EndsHandled ==
    ASSUME SocketIOTypes, NEW d \in Directions, Ends(d), ~again[d], NEW n \in 0..Len(batch[d]),
           sent'[d] = sent[d], queue'[d] = queue[d], out'[d] = out[d], again'[d] = again[d],
           batch'[d] = SubSeq(batch[d], n + 1, Len(batch[d]))
    PROVE  Ends(d)'
<1>1. batch[d] \in Seq(Unit)
  BY DEF SocketIOTypes
<1>2. batch'[d] # <<>> => batch[d] # <<>> /\ batch'[d][Len(batch'[d])] = batch[d][Len(batch[d])]
  BY <1>1, LastOfCut
<1>3. LastEnds(d, batch[d])'
  BY <1>2 DEF LastEnds, Ends
<1> QED BY <1>3 DEF Ends, LastEnds

LEMMA EndsReceived ==
    ASSUME SocketIOTypes, NEW d \in Directions, Ends(d), Receive(d),
           sent'[d] = sent[d], out'[d] = out[d]
    PROVE  Ends(d)'
<1> DEFINE q == queue[d]
           b == batch[d]
           n == Min({Len(q), Buffer})
           t == SubSeq(q, 1, n)
           r == SubSeq(q, n + 1, Len(q))
<1>1. q \in Seq(Unit) /\ b \in Seq(Unit) /\ Len(q) \in Nat /\ Buffer \in Nat
  BY SocketIOAssumption DEF SocketIOTypes
<1>2. batch'[d] = b \o t /\ queue'[d] = r /\ again'[d] = (n = Buffer) /\ q # <<>>
  BY DEF Receive, SocketIOTypes
<1> HIDE DEF q, b
<1>3. n \in 0..Len(q) /\ (n # Buffer => n = Len(q))
  BY <1>1, SmallerOfTwo
<1> HIDE DEF n
<1>4. r # <<>> => r[Len(r)] = q[Len(q)]
  BY <1>1, <1>3, LastOfCut
<1>5. n = Len(q) => t = q
  BY <1>1, SubSeqFull
<1> HIDE DEF t, r
<1>6. q[Len(q)].at = sent[d][q[Len(q)].of].size
  BY <1>2 DEF Ends, LastEnds, q
<1>7. LastEnds(d, queue[d])'
  BY <1>2, <1>4, <1>6 DEF LastEnds
<1>8. ~again'[d] => LastEnds(d, batch[d])'
  <2> SUFFICES ASSUME ~again'[d] PROVE LastEnds(d, batch[d])'
    OBVIOUS
  <2>1. batch'[d] = b \o q
    BY <1>2, <1>3, <1>5
  <2>2. (b \o q)[Len(b \o q)] = q[Len(q)]
    BY <1>1, <1>2, LastOfConcat
  <2> QED BY <2>1, <2>2, <1>6 DEF LastEnds
<1>9. LastEnds(d, out[d])'
  BY DEF Ends, LastEnds
<1> QED BY <1>7, <1>8, <1>9 DEF Ends

(* What takes whole messages in, and what hands them on, keeps the ends.      *)
LEMMA EndsStep ==
    ASSUME MessagesFit, SocketIOTypes, RequestsShort, NothingIsLost, EndsInv, [SocketIONext]_ioVars
    PROVE  EndsInv'
<1>0. /\ \A d \in Directions : Ends(d)
      /\ Len(out["s2c"]) <= Chunk /\ Len(out["c2s"]) <= Chunk
      /\ "c2s" \in Directions /\ "s2c" \in Directions
      /\ \A d \in Directions : d = "c2s" \/ d = "s2c"
      /\ Len(<<>>) <= Chunk
  BY SocketIOAssumption DEF EndsInv, RequestsShort, Directions
<1>f. sent \in [Directions -> Seq(Sendable)] /\ out \in [Directions -> Seq(Unit)]
      /\ queue \in [Directions -> Seq(Unit)] /\ batch \in [Directions -> Seq(Unit)]
      /\ heard \in [Directions -> Nat]
  BY DEF SocketIOTypes
<1>s. ASSUME UNCHANGED <<sent, queue, batch, again, out>> PROVE EndsInv'
  BY <1>s, <1>0, EndsSame DEF EndsInv
<1>1. ASSUME NEW size \in RequestSizes, NEW answer \in BOOLEAN, ClientCalls(size, answer)
      PROVE  EndsInv'
  <2> DEFINE m == [size |-> size, answer |-> answer]
  <2>1. m \in Sendable /\ m.size = size
    BY SocketIOAssumption DEF Sendable
  <2>2. /\ sent' = [sent EXCEPT !["c2s"] = Append(sent["c2s"], m)]
        /\ out' = [out EXCEPT !["c2s"] = UnitsOf(Len(sent'["c2s"]), size)]
        /\ UNCHANGED <<queue, batch, again>>
    BY <1>1 DEF ClientCalls
  <2> HIDE DEF m
  <2>3. sent'["c2s"] = Append(sent["c2s"], m) /\ sent'["s2c"] = sent["s2c"] /\ out'["s2c"] = out["s2c"]
    BY <2>2, <1>0, <1>f
  <2>4. Len(Append(sent["c2s"], m)) = Len(sent["c2s"]) + 1
    BY <1>0, <1>f, <2>1, AppendProperties
  <2>5. out'["c2s"] = UnitsOf(Len(sent["c2s"]) + 1, m.size)
    BY <2>1, <2>2, <2>3, <2>4, <1>0, <1>f
  <2>6. Ends("c2s")'
    BY <2>1, <2>2, <2>3, <2>5, <1>0, EndsSent
  <2>7. Ends("s2c")'
    BY <2>2, <2>3, <1>0, EndsSame
  <2> QED BY <2>3, <2>6, <2>7, <1>0 DEF EndsInv
<1>2. CASE ClientSends
  <2>1. CASE UNCHANGED <<queue, out>>
    BY <1>2, <1>s, <2>1 DEF ClientSends
  <2>2. CASE ~UNCHANGED <<queue, out>>
    <3>1. /\ Room("c2s") \in Nat \ {0}
          /\ queue' = [queue EXCEPT !["c2s"] = @ \o Taken("c2s", Room("c2s"))]
          /\ out' = [out EXCEPT !["c2s"] = <<>>]
          /\ UNCHANGED <<sent, batch, again>>
      BY <1>2, <2>2, <1>0, HeldType DEF ClientSends
    <3>2. Taken("c2s", Room("c2s")) = out["c2s"]
      BY <3>1, <1>0, TakenType
    <3>3. /\ queue'["c2s"] = queue["c2s"] \o out["c2s"] /\ out'["c2s"] = <<>>
          /\ queue'["s2c"] = queue["s2c"] /\ out'["s2c"] = out["s2c"]
      BY <3>1, <3>2, <1>0, <1>f
    <3>4. Ends("c2s")'
      BY <3>1, <3>3, <1>0, EndsPassed
    <3>5. Ends("s2c")'
      BY <3>1, <3>3, <1>0, EndsSame
    <3> QED BY <3>3, <3>4, <3>5, <1>0 DEF EndsInv
  <2> QED BY <2>1, <2>2
<1>3. CASE ClientWritable \/ UNCHANGED ioVars
  BY <1>3, <1>s DEF ClientWritable, ioVars
<1>4. CASE ServerSends
  <2> DEFINE t == Taken("s2c", 1)
  <2>1. t = out["s2c"]
    <3>1. 1 \in Nat \ {0}
      OBVIOUS
    <3> QED BY <3>1, <1>0, TakenType
  <2>2. /\ queue' = [queue EXCEPT !["s2c"] = @ \o t]
        /\ out' = [out EXCEPT !["s2c"] = SubSeq(@, Len(t) + 1, Len(@))]
        /\ UNCHANGED <<sent, batch, again>>
    BY <1>4 DEF ServerSends
  <2> HIDE DEF t
  <2>3. /\ queue'["s2c"] = queue["s2c"] \o out["s2c"]
        /\ out'["s2c"] = SubSeq(out["s2c"], Len(out["s2c"]) + 1, Len(out["s2c"]))
        /\ queue'["c2s"] = queue["c2s"] /\ out'["c2s"] = out["c2s"]
    BY <2>1, <2>2, <1>0, <1>f
  <2>4. out'["s2c"] = <<>>
    <3>1. Len(out["s2c"]) \in Nat
      BY <1>0, <1>f
    <3> QED BY <2>3, <3>1, SubSeqEmpty
  <2>5. Ends("s2c")'
    BY <2>2, <2>3, <2>4, <1>0, EndsPassed
  <2>6. Ends("c2s")'
    BY <2>2, <2>3, <1>0, EndsSame
  <2> QED BY <2>4, <2>5, <2>6, <1>0 DEF EndsInv
<1>5. ASSUME NEW d \in Directions, Receive(d), UNCHANGED <<sent, out>> PROVE EndsInv'
  <2>1. Ends(d)'
    BY <1>5, <1>0, EndsReceived
  <2>2. \A e \in Directions : e # d => queue'[e] = queue[e] /\ batch'[e] = batch[e] /\ again'[e] = again[e]
    BY <1>5, <1>f DEF Receive, SocketIOTypes
  <2>3. \A e \in Directions : e # d => Ends(e)'
    BY <2>2, <1>5, <1>0, EndsSame
  <2> QED BY <2>1, <2>3, <1>5, <1>0 DEF EndsInv
<1>6. ASSUME NEW d \in Directions, Whole(d), Handled(d), ~again[d], UNCHANGED <<queue, again>>,
             sent'[d] = sent[d], out'[d] = out[d]
      PROVE  Ends(d)' /\ \A e \in Directions : e # d => batch'[e] = batch[e]
  <2> DEFINE n == sent[d][heard[d] + 1].size
  <2>1. /\ heard[d] < Len(sent[d]) /\ n <= Len(batch[d])
        /\ batch'[d] = SubSeq(batch[d], n + 1, Len(batch[d]))
        /\ \A e \in Directions : e # d => batch'[e] = batch[e]
    BY <1>6, HandledSteps
  <2>2. n \in 0..Len(batch[d])
    <3>1. heard[d] + 1 \in 1..Len(sent[d]) /\ sent[d] \in Seq(Sendable) /\ Len(batch[d]) \in Nat
      BY <2>1, <1>f
    <3>2. sent[d][heard[d] + 1] \in Sendable
      BY <3>1, ElementOfSeq
    <3>3. n \in Nat
      BY <3>2 DEF Sendable
    <3> QED BY <2>1, <3>1, <3>3
  <2> HIDE DEF n
  <2>3. Ends(d)'
    BY <1>6, <1>0, <2>1, <2>2, EndsHandled
  <2> QED BY <2>1, <2>3
<1>7. CASE ClientHandles
  <2>1. CASE Whole("s2c") /\ Handled("s2c")
    <3>1. ~again["s2c"] /\ UNCHANGED <<queue, again, sent, out>>
      BY <1>7 DEF ClientHandles
    <3>2. Ends("s2c")' /\ batch'["c2s"] = batch["c2s"]
      BY <2>1, <3>1, <1>0, <1>6 DEF Directions
    <3>3. Ends("c2s")'
      BY <3>1, <3>2, <1>0, EndsSame
    <3> QED BY <3>1, <3>2, <3>3, <1>0 DEF EndsInv
  <2>2. CASE UNCHANGED <<heard, batch>>
    BY <1>7, <2>2, <1>s DEF ClientHandles
  <2> QED BY <1>7, <2>1, <2>2 DEF ClientHandles
<1>8. ASSUME NEW size \in AnswerSizes, ServerHandles(size) PROVE EndsInv'
  <2> DEFINE m == [size |-> size, answer |-> FALSE]
  <2>1. CASE Whole("c2s") /\ Handled("c2s") /\ (Answer(size) \/ UNCHANGED <<sent, out>>)
    <3>0. ~again["c2s"] /\ UNCHANGED <<queue, again>> /\ out["s2c"] = <<>>
      BY <1>8 DEF ServerHandles
    <3>1. m \in Sendable /\ m.size = size /\ size <= Chunk
      BY SocketIOAssumption DEF Sendable, MessagesFit, AnswersFit
    <3>2. Answer(size) => /\ sent' = [sent EXCEPT !["s2c"] = Append(sent["s2c"], m)]
                          /\ out' = [out EXCEPT !["s2c"] = UnitsOf(Len(sent'["s2c"]), size)]
      BY DEF Answer
    <3> HIDE DEF m
    <3>3. sent'["c2s"] = sent["c2s"] /\ out'["c2s"] = out["c2s"]
      BY <2>1, <3>2, <1>0, <1>f
    <3>4. Ends("c2s")' /\ batch'["s2c"] = batch["s2c"]
      BY <2>1, <3>0, <3>3, <1>0, <1>6 DEF Directions
    <3>5. CASE UNCHANGED <<sent, out>>
      <4>1. Ends("s2c")'
        BY <3>0, <3>4, <3>5, <1>0, EndsSame
      <4> QED BY <3>4, <3>5, <4>1, <1>0 DEF EndsInv
    <3>6. CASE Answer(size)
      <4>1. sent'["s2c"] = Append(sent["s2c"], m)
        BY <3>2, <3>6, <1>0, <1>f
      <4>2. Len(Append(sent["s2c"], m)) = Len(sent["s2c"]) + 1
        BY <3>1, <1>0, <1>f, AppendProperties
      <4>3. out'["s2c"] = UnitsOf(Len(sent["s2c"]) + 1, m.size)
        BY <3>1, <3>2, <3>6, <4>1, <4>2, <1>0, <1>f
      <4>4. Ends("s2c")'
        BY <3>0, <3>1, <3>4, <4>1, <4>3, <1>0, EndsSent
      <4>5. Len(out'["s2c"]) <= Chunk
        <5>1. Len(sent["s2c"]) + 1 \in Nat \ {0} /\ m.size \in Nat \ {0}
          BY <3>1, <1>0, <1>f DEF Sendable
        <5>2. Len(UnitsOf(Len(sent["s2c"]) + 1, m.size)) = m.size
          BY <5>1, UnitsType
        <5> QED BY <5>2, <4>3, <3>1
      <4> QED BY <3>4, <4>4, <4>5, <1>0 DEF EndsInv
    <3> QED BY <2>1, <3>5, <3>6
  <2>2. CASE UNCHANGED <<heard, batch, sent, out>>
    BY <1>8, <2>2, <1>s DEF ServerHandles
  <2> QED BY <1>8, <2>1, <2>2 DEF ServerHandles
<1>9. CASE ClientReads
  BY <1>9, <1>5, <1>s, <1>0 DEF ClientReads
<1>10. CASE ServerReads
  BY <1>10, <1>5, <1>0 DEF ServerReads
<1> QED
  BY <1>1, <1>2, <1>3, <1>4, <1>7, <1>8, <1>9, <1>10 DEF SocketIONext, ClientSteps, ServerSteps

(* A batch that ends behind a message begins with a whole one.                *)
LEMMA BatchIsWhole ==
    ASSUME SocketIOTypes, NothingIsLost, NEW d \in Directions,
           batch[d] # <<>>, LastEnds(d, batch[d])
    PROVE  Whole(d)
<1> DEFINE b == batch[d]
           rest == queue[d] \o out[d]
           s == (b \o queue[d]) \o out[d]
           h == heard[d]
           size == sent[d][h + 1].size
           u == UnitsOf(h + 1, size)
<1>1. /\ b \in Seq(Unit) /\ queue[d] \in Seq(Unit) /\ out[d] \in Seq(Unit) /\ sent[d] \in Seq(Sendable)
      /\ h \in Nat /\ Len(sent[d]) \in Nat
  BY DEF SocketIOTypes
<1>2. Len(b) \in Nat \ {0} /\ DOMAIN b = 1..Len(b)
  BY <1>1, EmptySeq, LenProperties
<1>t. batch[d] \in Seq(Unit) /\ queue[d] \in Seq(Unit) /\ out[d] \in Seq(Unit)
  BY <1>1
<1>3. s = b \o rest /\ rest \in Seq(Unit)
  <2>1. s = b \o rest
    BY ONLY <1>t, Associative
  <2>2. rest \in Seq(Unit)
    BY ONLY <1>t, Joined
  <2> QED BY <2>1, <2>2
<1>4. WholeInOrder(s, sent[d], h)
  BY DEF NothingIsLost
<1> HIDE DEF b, rest, s, h
<1>5. s \in Seq(Unit) /\ Len(b) <= Len(s) /\ \A i \in 1..Len(b) : i \in DOMAIN s /\ s[i] = b[i]
  <2>1. /\ b \o rest \in Seq(Unit) /\ Len(b \o rest) = Len(b) + Len(rest)
        /\ \A i \in 1..Len(b) + Len(rest) : (b \o rest)[i] = IF i <= Len(b) THEN b[i] ELSE rest[i - Len(b)]
    BY <1>1, <1>3, ConcatProperties
  <2>2. Len(rest) \in Nat /\ DOMAIN s = 1..Len(s)
    BY <1>3, <2>1, LenProperties
  <2> QED BY <1>2, <1>3, <2>1, <2>2
<1>6. h < Len(sent[d])
  <2>1. 1 \in DOMAIN s
    BY <1>2, <1>5
  <2>2. s[1].of \in h + 1..Len(sent[d])
    BY <2>1, <1>4 DEF WholeInOrder
  <2> QED BY <2>2, <1>1
<1>7. size \in 1..Len(s) /\ \A k \in 1..size : s[k] = u[k]
  BY <1>1, <1>4, <1>5, <1>6, StreamStarts
<1>8. size \in Nat \ {0} /\ h + 1 \in Nat \ {0}
  BY <1>7, <1>1
<1> HIDE DEF size
<1>9. u \in Seq(Unit) /\ Len(u) = size /\ \A k \in 1..size : u[k].of = h + 1 /\ u[k].at = k
  BY <1>8, UnitsType
<1> HIDE DEF u
<1>10. size <= Len(b)
  <2> SUFFICES ASSUME Len(b) < size PROVE FALSE
    BY <1>2, <1>8
  <2>1. Len(b) \in 1..size /\ Len(b) \in 1..Len(b)
    BY <1>2, <1>8
  <2>2. b[Len(b)] = u[Len(b)]
    BY <2>1, <1>5, <1>7
  <2>3. b[Len(b)].of = h + 1 /\ b[Len(b)].at = Len(b)
    BY <2>1, <2>2, <1>9
  <2>4. b[Len(b)].at = sent[d][b[Len(b)].of].size
    BY <1>2 DEF LastEnds, b
  <2> QED BY <2>3, <2>4, <1>2, <1>8 DEF size
<1>11. SubSeq(u, 1, Len(u)) = SubSeq(b, 1, Len(u))
  <2>1. SubSeq(u, 1, size) = u
    BY <1>9, SubSeqFull
  <2>2. size \in 0..Len(b)
    BY <1>8, <1>10
  <2>3. /\ SubSeq(b, 1, size) \in Seq(Unit) /\ Len(SubSeq(b, 1, size)) = size
        /\ \A i \in 1..size : SubSeq(b, 1, size)[i] = b[i]
    BY <1>1, <2>2, Cut DEF b
  <2>4. \A i \in 1..size : u[i] = SubSeq(b, 1, size)[i]
    BY <2>3, <1>2, <1>5, <1>7, <1>8, <1>10
  <2>5. u = SubSeq(b, 1, size)
    BY <2>3, <2>4, <1>9, SeqEqual
  <2> QED BY <2>1, <2>5, <1>9
<1>12. IsPrefix(u, b)
  BY <1>9, <1>10, <1>11 DEF IsPrefix
<1> QED BY <1>6, <1>12 DEF Whole, Awaited, u, b, h, size

LEMMA EndsInvariant ==
    ASSUME MessagesFit
    PROVE  SocketIOSpec => [](SocketIOTypes /\ RequestsShort /\ NothingIsLost /\ EndsInv)
<1>1. SocketIOInit => EndsInv
  BY SocketIOAssumption DEF SocketIOInit, EndsInv, Ends, LastEnds, Directions
<1>2. SocketIOTypes /\ RequestsShort /\ NothingIsLost /\ EndsInv /\ [SocketIONext]_ioVars => EndsInv'
  BY EndsStep
<1>3. RequestsFit
  BY DEF MessagesFit
<1> QED BY <1>1, <1>2, <1>3, SocketIOInvariant, PTL DEF SocketIOSpec

(* A peer that takes what the other sent for malformed has done so behind a   *)
(* read that filled its buffer exactly, so that it tried to read more and     *)
(* found nothing: where no read ends like that, messages of any length that   *)
(* the kernel keeps in one piece are read as they were sent, however reads    *)
(* cut the stream in between.                                                 *)
THEOREM OnlyFullReadsFail ==
    MessagesFit =>
        (SocketIOSpec /\ [](again["s2c"] => queue["s2c"] # <<>>) => []AnyLengthIsRead)
<1> SUFFICES ASSUME MessagesFit
             PROVE  SocketIOSpec /\ [](again["s2c"] => queue["s2c"] # <<>>) => []AnyLengthIsRead
  OBVIOUS
<1>1. SocketIOInit => AnyLengthIsRead
  BY DEF SocketIOInit, AnyLengthIsRead
<1>2. ASSUME SocketIOTypes, NothingIsLost, EndsInv, AnyLengthIsRead,
             again["s2c"] => queue["s2c"] # <<>>, [SocketIONext]_ioVars
      PROVE  AnyLengthIsRead'
  <2>1. \A d \in Directions : batch[d] # <<>> /\ ~again[d] => Whole(d)
    BY <1>2, BatchIsWhole DEF EndsInv, Ends
  <2>2. "c2s" \in Directions /\ "s2c" \in Directions
    BY DEF Directions
  <2>3. CASE ClientHandles
    <3>1. Whole("s2c")
      BY <2>1, <2>2, <2>3 DEF ClientHandles
    <3> QED BY <1>2, <2>3, <3>1 DEF ClientHandles, AnyLengthIsRead
  <2>4. ASSUME NEW size \in AnswerSizes, ServerHandles(size) PROVE AnyLengthIsRead'
    <3>1. Whole("c2s")
      BY <2>1, <2>2, <2>4 DEF ServerHandles
    <3> QED BY <1>2, <2>4, <3>1 DEF ServerHandles, AnyLengthIsRead
  <2>5. CASE ClientReads
    <3>1. queue["s2c"] # <<>>
      BY <1>2, <2>5 DEF ClientReads
    <3> QED BY <1>2, <2>5, <3>1 DEF ClientReads, AnyLengthIsRead
  <2>6. ASSUME NEW size \in RequestSizes, NEW answer \in BOOLEAN, ClientCalls(size, answer)
        PROVE  AnyLengthIsRead'
    BY <1>2, <2>6 DEF ClientCalls, AnyLengthIsRead
  <2>7. CASE ClientSends \/ ClientWritable \/ ServerSends \/ ServerReads \/ UNCHANGED ioVars
    BY <1>2, <2>7
       DEF ClientSends, ClientWritable, ServerSends, ServerReads, ioVars, AnyLengthIsRead
  <2> QED
    BY <1>2, <2>3, <2>4, <2>5, <2>6, <2>7 DEF SocketIONext, ClientSteps, ServerSteps
<1>3. SocketIOTypes /\ NothingIsLost /\ EndsInv /\ AnyLengthIsRead
        /\ (again["s2c"] => queue["s2c"] # <<>>) /\ [SocketIONext]_ioVars => AnyLengthIsRead'
  BY <1>2
<1> QED BY <1>1, <1>3, EndsInvariant, PTL DEF SocketIOSpec


-----------------------------------------------------------------------------
(* The server answers what the client asked for and nothing else, so that the *)
(* answers under way are at most those the client's application left open.    *)
Asked(messages, last) == {n \in 1..last : messages[n].answer}

OpenInv ==
    /\ Len(sent["s2c"]) = Cardinality(Asked(sent["c2s"], heard["c2s"]))
    /\ Outstanding <= Window
    /\ \A n \in DOMAIN sent["s2c"] : sent["s2c"][n].size \in AnswerSizes

LEMMA AskedType ==
    ASSUME NEW ms, NEW last \in Nat
    PROVE  /\ IsFiniteSet(Asked(ms, last)) /\ Cardinality(Asked(ms, last)) \in Nat
           /\ \A n \in Nat : n <= last => Cardinality(Asked(ms, n)) <= Cardinality(Asked(ms, last))
<1>1. IsFiniteSet(1..last)
  BY FS_Interval
<1>2. Asked(ms, last) \in SUBSET (1..last)
  BY DEF Asked
<1>3. IsFiniteSet(Asked(ms, last))
  BY <1>1, <1>2, FS_Subset
<1>4. ASSUME NEW n \in Nat, n <= last PROVE Cardinality(Asked(ms, n)) <= Cardinality(Asked(ms, last))
  <2>1. Asked(ms, n) \in SUBSET Asked(ms, last)
    BY <1>4 DEF Asked
  <2> QED BY <2>1, <1>3, FS_Subset
<1> QED BY <1>3, <1>4, FS_CardinalityType

LEMMA AskedOneMore ==
    ASSUME NEW ms, NEW n \in Nat
    PROVE  Cardinality(Asked(ms, n + 1)) =
               IF ms[n + 1].answer THEN Cardinality(Asked(ms, n)) + 1 ELSE Cardinality(Asked(ms, n))
<1>1. IsFiniteSet(Asked(ms, n)) /\ n + 1 \notin Asked(ms, n) /\ n + 1 \in 1..n + 1
  BY AskedType DEF Asked
<1>2. CASE ms[n + 1].answer
  <2>1. Asked(ms, n + 1) = Asked(ms, n) \cup {n + 1}
    BY <1>1, <1>2 DEF Asked
  <2> QED BY <2>1, <1>1, <1>2, FS_AddElement
<1>3. CASE ~ms[n + 1].answer
  <2>1. Asked(ms, n + 1) = Asked(ms, n)
    BY <1>1, <1>3 DEF Asked
  <2> QED BY <2>1, <1>3
<1> QED BY <1>2, <1>3

LEMMA AnswersUnderWay ==
    ASSUME SocketIOTypes, OpenInv
    PROVE  Len(sent["s2c"]) - heard["s2c"] <= Window
<1>1. heard["c2s"] \in Nat /\ heard["s2c"] \in Nat /\ Len(sent["c2s"]) \in Nat /\ Len(sent["s2c"]) \in Nat
      /\ heard["c2s"] <= Len(sent["c2s"]) /\ DOMAIN sent["c2s"] = 1..Len(sent["c2s"])
  BY DEF SocketIOTypes, Directions
<1>2. Cardinality(Asked(sent["c2s"], heard["c2s"])) <= Cardinality(Asked(sent["c2s"], Len(sent["c2s"])))
      /\ Cardinality(Asked(sent["c2s"], Len(sent["c2s"]))) \in Nat
  BY <1>1, AskedType
<1>3. Outstanding = Cardinality(Asked(sent["c2s"], Len(sent["c2s"]))) - heard["s2c"]
  BY <1>1 DEF Outstanding, Asked
<1>4. Window \in Nat
  BY SocketIOAssumption
<1> QED BY <1>1, <1>2, <1>3, <1>4 DEF OpenInv

LEMMA OpenSame ==
    ASSUME OpenInv, UNCHANGED <<sent, heard>>
    PROVE  OpenInv'
BY DEF OpenInv, Asked, Outstanding

LEMMA OpenCalled ==
    ASSUME SocketIOTypes, OpenInv,
           NEW size \in RequestSizes, NEW answer \in BOOLEAN, ClientCalls(size, answer)
    PROVE  OpenInv'
<1> DEFINE ms == sent["c2s"]
           m == [size |-> size, answer |-> answer]
<1>1. /\ ms \in Seq(Sendable) /\ Len(ms) \in Nat /\ heard["c2s"] \in 0..Len(ms) /\ heard["s2c"] \in Nat
      /\ sent \in [Directions -> Seq(Sendable)] /\ "c2s" \in Directions /\ "s2c" \in Directions
  BY DEF SocketIOTypes, Directions
<1>2. m \in Sendable /\ m.answer = answer
  BY SocketIOAssumption DEF Sendable
<1>3. sent' = [sent EXCEPT !["c2s"] = Append(ms, m)] /\ heard' = heard
      /\ (answer => Outstanding < Window)
  BY DEF ClientCalls
<1> HIDE DEF m, ms
<1>4. /\ Append(ms, m) \in Seq(Sendable) /\ Len(Append(ms, m)) = Len(ms) + 1
      /\ \A i \in 1..Len(ms) : Append(ms, m)[i] = ms[i]
      /\ Append(ms, m)[Len(ms) + 1] = m
  BY ONLY <1>1, <1>2, AppendProperties
<1>5. sent'["c2s"] = Append(ms, m) /\ sent'["s2c"] = sent["s2c"]
  BY <1>1, <1>3
<1>6. Asked(sent'["c2s"], heard["c2s"]) = Asked(ms, heard["c2s"])
      /\ Asked(sent'["c2s"], Len(ms)) = Asked(ms, Len(ms))
  <2>1. \A n \in 0..Len(ms) : \A i \in 1..n : Append(ms, m)[i].answer = ms[i].answer
    BY <1>1, <1>4
  <2> QED BY <2>1, <1>1, <1>5 DEF Asked
<1>7. Cardinality(Asked(sent'["c2s"], Len(ms) + 1)) =
        IF answer THEN Cardinality(Asked(ms, Len(ms))) + 1 ELSE Cardinality(Asked(ms, Len(ms)))
  <2>1. sent'["c2s"][Len(ms) + 1].answer = answer
    BY <1>2, <1>4, <1>5
  <2> QED BY <2>1, <1>1, <1>6, AskedOneMore
<1>8. Outstanding = Cardinality(Asked(ms, Len(ms))) - heard["s2c"]
  <2>1. DOMAIN ms = 1..Len(ms)
    BY <1>1
  <2> QED BY <2>1 DEF Outstanding, Asked, ms
<1>9. Outstanding' = Cardinality(Asked(sent'["c2s"], Len(ms) + 1)) - heard["s2c"]
  <2>1. DOMAIN sent'["c2s"] = 1..Len(ms) + 1
    BY <1>4, <1>5
  <2> QED BY <2>1, <1>3 DEF Outstanding, Asked
<1>10. Outstanding' <= Window
  <2>1. Cardinality(Asked(ms, Len(ms))) \in Nat /\ Window \in Nat
    BY <1>1, AskedType, SocketIOAssumption
  <2> QED BY <2>1, <1>1, <1>3, <1>7, <1>8, <1>9 DEF OpenInv
<1> QED BY <1>3, <1>5, <1>6, <1>10 DEF OpenInv, ms

LEMMA OpenHandled ==
    ASSUME SocketIOTypes, OpenInv, ClientHandles
    PROVE  OpenInv'
<1>1. CASE Whole("s2c") /\ Handled("s2c")
  <2>1. heard["s2c"] \in Nat /\ heard \in [Directions -> Nat] /\ "c2s" \in Directions /\ "s2c" \in Directions
    BY DEF SocketIOTypes, Directions
  <2>2. sent' = sent /\ heard'["s2c"] = heard["s2c"] + 1 /\ heard'["c2s"] = heard["c2s"]
    BY <1>1, <2>1 DEF ClientHandles, Handled
  <2>3. Cardinality(Asked(sent["c2s"], Len(sent["c2s"]))) \in Nat /\ Window \in Nat
        /\ Asked(sent["c2s"], Len(sent["c2s"])) = {n \in DOMAIN sent["c2s"] : sent["c2s"][n].answer}
    <3>1. Len(sent["c2s"]) \in Nat /\ DOMAIN sent["c2s"] = 1..Len(sent["c2s"])
      BY DEF SocketIOTypes, Directions
    <3> QED BY <3>1, AskedType, SocketIOAssumption DEF Asked
  <2>4. Outstanding' = Outstanding - 1 /\ Outstanding \in Int
    BY <2>1, <2>2, <2>3 DEF Outstanding
  <2> QED BY <2>2, <2>3, <2>4 DEF OpenInv
<1>2. CASE UNCHANGED <<heard, batch>>
  BY <1>2, OpenSame DEF ClientHandles
<1> QED BY <1>1, <1>2 DEF ClientHandles

LEMMA OpenAnswered ==
    ASSUME SocketIOTypes, OpenInv, NEW size \in AnswerSizes, ServerHandles(size)
    PROVE  OpenInv'
<1> DEFINE ms == sent["s2c"]
           h  == heard["c2s"]
           m  == [size |-> size, answer |-> FALSE]
<1>1. /\ ms \in Seq(Sendable) /\ Len(ms) \in Nat /\ h \in Nat /\ DOMAIN ms = 1..Len(ms)
      /\ sent \in [Directions -> Seq(Sendable)] /\ heard \in [Directions -> Nat]
      /\ "c2s" \in Directions /\ "s2c" \in Directions
  BY DEF SocketIOTypes, Directions
<1>2. CASE Whole("c2s") /\ Handled("c2s")
            /\ IF sent["c2s"][h + 1].answer THEN Answer(size) ELSE UNCHANGED <<sent, out>>
  <2>1. heard'["c2s"] = h + 1 /\ heard'["s2c"] = heard["s2c"]
    BY <1>1, <1>2 DEF Handled
  <2>2. sent["c2s"][h + 1].answer => sent' = [sent EXCEPT !["s2c"] = Append(ms, m)]
    BY <1>2 DEF Answer
  <2>3. ~sent["c2s"][h + 1].answer => sent' = sent
    BY <1>2
  <2>4. m \in Sendable /\ m.size = size
    BY SocketIOAssumption DEF Sendable
  <2> HIDE DEF m, ms, h
  <2>5. /\ Append(ms, m) \in Seq(Sendable) /\ Len(Append(ms, m)) = Len(ms) + 1
        /\ \A i \in 1..Len(ms) : Append(ms, m)[i] = ms[i]
        /\ Append(ms, m)[Len(ms) + 1] = m
    BY ONLY <1>1, <2>4, AppendProperties
  <2>6. sent'["c2s"] = sent["c2s"]
        /\ sent'["s2c"] = IF sent["c2s"][h + 1].answer THEN Append(ms, m) ELSE ms
    BY <1>1, <2>2, <2>3 DEF ms
  <2>7. Cardinality(Asked(sent["c2s"], h + 1)) = Len(sent'["s2c"])
    BY <1>1, <2>5, <2>6, AskedOneMore DEF OpenInv, ms, h
  <2>8. Outstanding' = Outstanding
    BY <2>1, <2>6 DEF Outstanding
  <2>9. \A n \in DOMAIN sent'["s2c"] : sent'["s2c"][n].size \in AnswerSizes
    <3>1. \A n \in DOMAIN Append(ms, m) : Append(ms, m)[n].size \in AnswerSizes
      <4>1. DOMAIN Append(ms, m) = 1..Len(ms) + 1
        BY <2>5, LenProperties
      <4>2. \A n \in 1..Len(ms) + 1 : n = Len(ms) + 1 \/ n \in 1..Len(ms)
        BY <1>1
      <4>3. \A n \in 1..Len(ms) : ms[n].size \in AnswerSizes
        BY <1>1 DEF OpenInv, ms
      <4> QED BY <2>4, <2>5, <4>1, <4>2, <4>3
    <3> QED BY <3>1, <2>6 DEF OpenInv, ms
  <2> QED BY <2>1, <2>6, <2>7, <2>8, <2>9 DEF OpenInv
<1>3. CASE UNCHANGED <<heard, sent>>
  BY <1>3, OpenSame
<1> QED BY <1>2, <1>3 DEF ServerHandles

LEMMA OpenInvariant ==
    ASSUME RequestsFit
    PROVE  SocketIOSpec => [](SocketIOTypes /\ RequestsShort /\ NothingIsLost /\ OpenInv)
<1>1. SocketIOInit => OpenInv
  <2> SUFFICES ASSUME SocketIOInit PROVE OpenInv
    OBVIOUS
  <2>1. sent["c2s"] = <<>> /\ sent["s2c"] = <<>> /\ heard["c2s"] = 0 /\ heard["s2c"] = 0
    BY DEF SocketIOInit, Directions
  <2>2. Asked(sent["c2s"], 0) = {} /\ {n \in DOMAIN sent["c2s"] : sent["c2s"][n].answer} = {}
    BY <2>1 DEF Asked
  <2>3. Cardinality({}) = 0 /\ Window \in Nat
    BY FS_EmptySet, SocketIOAssumption
  <2>4. Outstanding = 0
    BY <2>1, <2>2, <2>3 DEF Outstanding
  <2>5. Len(sent["s2c"]) = Cardinality(Asked(sent["c2s"], heard["c2s"]))
    BY <2>1, <2>2, <2>3
  <2>6. DOMAIN sent["s2c"] = {}
    BY <2>1
  <2> QED BY <2>3, <2>4, <2>5, <2>6 DEF OpenInv
<1>2. SocketIOTypes /\ OpenInv /\ [SocketIONext]_ioVars => OpenInv'
  <2> SUFFICES ASSUME SocketIOTypes, OpenInv, [SocketIONext]_ioVars PROVE OpenInv'
    OBVIOUS
  <2>1. CASE ClientSends \/ ClientWritable \/ ServerSends \/ ClientReads \/ ServerReads \/ UNCHANGED ioVars
    BY <2>1, OpenSame DEF ClientSends, ClientWritable, ServerSends, ClientReads, ServerReads, ioVars
  <2> QED
    BY <2>1, OpenCalled, OpenHandled, OpenAnswered DEF SocketIONext, ClientSteps, ServerSteps
<1> QED BY <1>1, <1>2, SocketIOInvariant, PTL DEF SocketIOSpec


-----------------------------------------------------------------------------
(* Where the units of the kernel and of sendMessage are in the stream.        *)
LEMMA StreamParts ==
    ASSUME SocketIOTypes, NothingIsLost, NEW d \in Directions
    PROVE  \E s \in Seq(Unit), b \in Nat :
             /\ WholeInOrder(s, sent[d], heard[d])
             /\ DOMAIN s = 1..b + Len(queue[d]) + Len(out[d])
             /\ \A i \in 1..Len(queue[d]) : s[b + i] = queue[d][i]
             /\ \A i \in 1..Len(out[d]) : s[b + Len(queue[d]) + i] = out[d][i]
<1> DEFINE b == batch[d]
           q == queue[d]
           o == out[d]
           s == (b \o q) \o o
           t == b \o q
<1>1. /\ b \in Seq(Unit) /\ q \in Seq(Unit) /\ o \in Seq(Unit)
      /\ Len(b) \in Nat /\ Len(q) \in Nat /\ Len(o) \in Nat
  BY DEF SocketIOTypes
<1>2. WholeInOrder(s, sent[d], heard[d])
  BY DEF NothingIsLost
<1> HIDE DEF b, q, o
<1>3. /\ t \in Seq(Unit) /\ Len(t) = Len(b) + Len(q)
      /\ \A i \in 1..Len(b) + Len(q) : t[i] = IF i <= Len(b) THEN b[i] ELSE q[i - Len(b)]
  BY <1>1, ConcatProperties
<1>4. s = t \o o
  OBVIOUS
<1> HIDE DEF t, s
<1>5. /\ s \in Seq(Unit) /\ Len(s) = Len(t) + Len(o)
      /\ \A i \in 1..Len(t) + Len(o) : s[i] = IF i <= Len(t) THEN t[i] ELSE o[i - Len(t)]
  <2>1. t \in Seq(Unit) /\ o \in Seq(Unit)
    BY <1>1, <1>3
  <2>2. /\ t \o o \in Seq(Unit) /\ Len(t \o o) = Len(t) + Len(o)
        /\ \A i \in 1..Len(t) + Len(o) : (t \o o)[i] = IF i <= Len(t) THEN t[i] ELSE o[i - Len(t)]
    BY ONLY <2>1, ConcatProperties
  <2> QED BY <1>4, <2>2
<1>6. DOMAIN s = 1..Len(b) + Len(q) + Len(o)
  BY <1>1, <1>3, <1>5
<1>7. ASSUME NEW i \in 1..Len(q) PROVE s[Len(b) + i] = q[i]
  <2>1. /\ (Len(b) + i) - Len(b) = i /\ Len(b) + i \in 1..Len(b) + Len(q) /\ ~(Len(b) + i <= Len(b))
        /\ Len(b) + i \in 1..Len(t) + Len(o) /\ Len(b) + i <= Len(t)
    BY <1>1, <1>3
  <2>2. t[Len(b) + i] = q[i]
    BY <2>1, <1>3
  <2> QED BY <2>1, <2>2, <1>5
<1>8. ASSUME NEW i \in 1..Len(o) PROVE s[Len(b) + Len(q) + i] = o[i]
  <2>1. /\ (Len(b) + Len(q) + i) - Len(t) = i /\ Len(b) + Len(q) + i \in 1..Len(t) + Len(o)
        /\ ~(Len(b) + Len(q) + i <= Len(t))
    BY <1>1, <1>3
  <2> QED BY <2>1, <1>5
<1> QED BY <1>1, <1>2, <1>5, <1>6, <1>7, <1>8 DEF b, q, o

LEMMA MiddleIsInside ==
    ASSUME NEW b \in Nat, NEW q \in Nat, NEW o \in Nat
    PROVE  /\ \A i \in 1..q : b + i \in 1..b + q + o
           /\ o # 0 => b + q + o \in 1..b + q + o /\ \A i \in 1..q : b + i < b + q + o
OBVIOUS

(* The kernel's pieces are of different messages, and while a message is on   *)
(* its way into the kernel none of them is of that one.                       *)
LEMMA HeldBound ==
    ASSUME SocketIOTypes, NothingIsLost, NEW d \in Directions, out[d] # <<>>,
           \A n \in DOMAIN sent[d] : sent[d][n].size <= Chunk
    PROVE  Held(d) < Len(sent[d]) - heard[d]
<1> DEFINE q == queue[d]
           ms == sent[d]
           h == heard[d]
           pieces == {i \in DOMAIN q : q[i].piece}
<1>1. /\ q \in Seq(Unit) /\ DOMAIN q = 1..Len(q) /\ Len(q) \in Nat
      /\ ms \in Seq(Sendable) /\ Len(ms) \in Nat /\ DOMAIN ms = 1..Len(ms)
      /\ h \in Nat /\ out[d] \in Seq(Unit) /\ Len(out[d]) \in Nat \ {0}
  BY EmptySeq DEF SocketIOTypes
<1>2. PICK s \in Seq(Unit), b \in Nat :
        /\ WholeInOrder(s, sent[d], heard[d])
        /\ DOMAIN s = 1..b + Len(queue[d]) + Len(out[d])
        /\ \A i \in 1..Len(queue[d]) : s[b + i] = queue[d][i]
        /\ \A i \in 1..Len(out[d]) : s[b + Len(queue[d]) + i] = out[d][i]
  BY StreamParts
<1>3. Held(d) = Cardinality(pieces)
  BY DEF Held
<1> HIDE DEF q, ms, h, pieces
<1> DEFINE last == b + Len(q) + Len(out[d])
<1>4. /\ WholeInOrder(s, ms, h) /\ DOMAIN s = 1..last /\ last \in DOMAIN s
      /\ \A i \in 1..Len(q) : s[b + i] = q[i] /\ b + i \in DOMAIN s /\ b + i < last
  <2>1. WholeInOrder(s, ms, h) /\ DOMAIN s = 1..last /\ \A i \in 1..Len(q) : s[b + i] = q[i]
    BY <1>2 DEF q, ms, h
  <2>2. Len(q) \in Nat /\ Len(out[d]) \in Nat /\ Len(out[d]) # 0 /\ b \in Nat
    BY <1>1
  <2>3. last \in 1..last /\ \A i \in 1..Len(q) : b + i \in 1..last /\ b + i < last
    BY ONLY <2>2, MiddleIsInside
  <2> QED BY ONLY <2>1, <2>3
<1> HIDE DEF last
<1>5. \A i \in DOMAIN s : /\ s[i].of \in h + 1..Len(ms) /\ s[i].at \in 1..ms[s[i].of].size
                          /\ s[i].of \in Nat /\ s[i].at \in Nat
  BY <1>1, <1>4 DEF WholeInOrder
<1>6. ASSUME NEW i \in pieces PROVE s[b + i].at = ms[s[b + i].of].size
  <2> DEFINE of == s[b + i].of
             at == s[b + i].at
             size == ms[of].size
  <2>1. i \in 1..Len(q) /\ b + i \in DOMAIN s /\ s[b + i].piece
    BY <1>1, <1>4 DEF pieces
  <2>2. of \in 1..Len(ms) /\ at \in 1..size /\ of \in Nat \ {0} /\ at \in Nat \ {0}
    BY <1>1, <1>5, <2>1
  <2>3. size \in Nat \ {0} /\ size <= Chunk /\ Chunk \in Nat \ {0}
    <3>1. ms[of] \in Sendable
      BY <1>1, <2>2, ElementOfSeq
    <3> QED BY <3>1, <1>1, <2>2, SocketIOAssumption DEF Sendable, ms
  <2>4. s[b + i] = UnitsOf(of, size)[at]
    <3>0. i \in Nat /\ b \in Nat
      BY <1>1, <2>1
    <3>1. (b + i) - at + at = b + i /\ at \in DOMAIN UnitsOf(of, size)
      <4>1. DOMAIN UnitsOf(of, size) = 1..size
        BY <2>2, <2>3, UnitsType
      <4> QED BY <4>1, <3>0, <2>2
    <3>2. \A k \in DOMAIN UnitsOf(of, size) : s[(b + i) - at + k] = UnitsOf(of, size)[k]
      BY <1>4, <2>1 DEF WholeInOrder
    <3>3. s[(b + i) - at + at] = UnitsOf(of, size)[at]
      BY <3>1, <3>2
    <3> QED BY <3>1, <3>3
  <2>5. UnitsOf(of, size)[at].piece <=> at = size \/ at % Chunk = 0
    BY <2>2, <2>3 DEF UnitsOf
  <2>6. at = size \/ at % Chunk = 0
    BY <2>1, <2>4, <2>5
  <2> HIDE DEF of, at
  <2>7. at \in 1..Chunk
    BY <2>2, <2>3
  <2>8. at % Chunk = 0 => at = Chunk
    BY <2>3, <2>7
  <2> QED BY <2>2, <2>3, <2>6, <2>7, <2>8 DEF of, at
<1>7. \A i \in DOMAIN s, j \in DOMAIN s : i < j =>
        s[i].of < s[j].of \/ (s[i].of = s[j].of /\ s[i].at < s[j].at)
  BY <1>4 DEF WholeInOrder
<1>8. ASSUME NEW i \in pieces, NEW j \in DOMAIN s, b + i < j
      PROVE  s[b + i].of < s[j].of
  <2>1. i \in 1..Len(q) /\ b + i \in DOMAIN s
    BY <1>1, <1>4 DEF pieces
  <2>2. s[b + i].at = ms[s[b + i].of].size /\ s[j].at \in 1..ms[s[j].of].size
    BY <1>5, <1>6
  <2>3. s[b + i].at \in Nat /\ s[j].at \in Nat
    BY <1>5, <2>1
  <2>4. ASSUME s[b + i].of = s[j].of PROVE ~(s[b + i].at < s[j].at)
    <3>1. s[j].at \in 1..s[b + i].at
      BY <2>2, <2>4
    <3> QED BY <2>3, <3>1
  <2> QED BY <2>1, <2>4, <1>7, <1>8
<1> DEFINE f == [i \in pieces |-> s[b + i].of]
           T == h + 1..Len(ms) - 1
<1>9. f \in Injection(pieces, T)
  <2>1. ASSUME NEW i \in pieces PROVE s[b + i].of \in T
    <3>1. b + i \in DOMAIN s /\ b + i < last
      BY <1>1, <1>4 DEF pieces
    <3>2. s[b + i].of < s[last].of /\ s[b + i].of \in h + 1..Len(ms) /\ s[last].of \in h + 1..Len(ms)
      <4>1. s[b + i].of < s[last].of
        BY <3>1, <1>4, <1>8
      <4> QED BY <4>1, <3>1, <1>4, <1>5
    <3>3. h + 1 \in Nat /\ Len(ms) \in Nat
      BY <1>1
    <3> QED BY ONLY <3>2, <3>3
  <2>2. ASSUME NEW i \in pieces, NEW j \in pieces, s[b + i].of = s[b + j].of PROVE i = j
    <3>1. i \in Nat /\ j \in Nat /\ b + i \in DOMAIN s /\ b + j \in DOMAIN s
      BY <1>1, <1>4 DEF pieces
    <3>2. s[b + i].of \in Nat
      BY <3>1, <1>5
    <3>3. ~(b + i < b + j) /\ ~(b + j < b + i)
      BY <3>1, <3>2, <2>2, <1>8
    <3> QED BY <3>1, <3>3
  <2> QED BY <2>1, <2>2 DEF Injection, IsInjective
<1>10. IsFiniteSet(T) /\ Cardinality(T) = IF h + 1 > Len(ms) - 1 THEN 0 ELSE (Len(ms) - 1) - (h + 1) + 1
  <2>1. h + 1 \in Int /\ Len(ms) - 1 \in Int
    BY <1>1
  <2> QED BY <2>1, FS_Interval
<1>11. Cardinality(pieces) <= Cardinality(T)
  BY <1>9, <1>10, FS_Injection
<1>12. h + 1 <= Len(ms)
  BY <1>1, <1>4, <1>5
<1>13. Cardinality(T) = Len(ms) - h - 1 /\ Cardinality(pieces) \in Nat
  <2>1. Cardinality(T) = Len(ms) - h - 1
    BY <1>1, <1>10, <1>12
  <2>2. IsFiniteSet(pieces)
    BY <1>9, <1>10, FS_Injection
  <2> QED BY <2>1, <2>2, FS_CardinalityType
<1> QED BY <1>1, <1>3, <1>11, <1>13 DEF ms, h

(* While the client leaves no more answers open than its socket holds pieces, *)
(* and every message fits one, sendmsg never makes the server wait for room:  *)
(* the two sides, which both send from the thread that reads, never wait for  *)
(* each other.                                                                *)
THEOREM ServerNeverWaits ==
    MessagesFit /\ Window <= Capacity => (SocketIOSpec => []NeverBothWait)
<1> SUFFICES ASSUME MessagesFit, Window <= Capacity PROVE SocketIOSpec => []NeverBothWait
  OBVIOUS
<1>1. SocketIOTypes /\ NothingIsLost /\ OpenInv => NeverBothWait
  <2> SUFFICES ASSUME SocketIOTypes, NothingIsLost, OpenInv, out["s2c"] # <<>>
               PROVE  Room("s2c") # 0
    BY DEF NeverBothWait
  <2>1. \A n \in DOMAIN sent["s2c"] : sent["s2c"][n].size <= Chunk
    BY DEF OpenInv, MessagesFit, AnswersFit
  <2>2. "s2c" \in Directions /\ heard["s2c"] \in Nat /\ Len(sent["s2c"]) \in Nat
    BY DEF SocketIOTypes, Directions
  <2>3. Held("s2c") < Len(sent["s2c"]) - heard["s2c"] /\ Held("s2c") \in Nat
    BY <2>1, <2>2, HeldBound, HeldType
  <2>4. Window \in Nat /\ Capacity \in Nat
    BY SocketIOAssumption
  <2> QED BY <2>2, <2>3, <2>4, AnswersUnderWay DEF Room
<1>2. RequestsFit
  BY DEF MessagesFit
<1> QED BY <1>1, <1>2, OpenInvariant, PTL


-----------------------------------------------------------------------------
(* The kernel holds no more units than the messages under way are long.       *)
LEMMA QueueBound ==
    ASSUME SocketIOTypes, NothingIsLost, NEW d \in Directions, NEW longest \in Nat,
           \A n \in DOMAIN sent[d] : sent[d][n].size <= longest
    PROVE  Len(queue[d]) <= (Len(sent[d]) - heard[d]) * longest
<1> DEFINE q == queue[d]
           ms == sent[d]
           h == heard[d]
           T == (h + 1..Len(ms)) \X (1..longest)
<1>1. /\ Len(q) \in Nat /\ ms \in Seq(Sendable) /\ Len(ms) \in Nat /\ DOMAIN ms = 1..Len(ms)
      /\ h \in Nat /\ h <= Len(ms) /\ Len(out[d]) \in Nat
  BY DEF SocketIOTypes
<1>2. PICK s \in Seq(Unit), b \in Nat :
        /\ WholeInOrder(s, sent[d], heard[d])
        /\ DOMAIN s = 1..b + Len(queue[d]) + Len(out[d])
        /\ \A i \in 1..Len(queue[d]) : s[b + i] = queue[d][i]
        /\ \A i \in 1..Len(out[d]) : s[b + Len(queue[d]) + i] = out[d][i]
  BY StreamParts
<1> HIDE DEF q, ms, h
<1>3. \A i \in 1..Len(q) : b + i \in DOMAIN s
  <2>1. DOMAIN s = 1..b + Len(q) + Len(out[d])
    BY <1>2 DEF q
  <2>2. Len(q) \in Nat /\ Len(out[d]) \in Nat /\ b \in Nat
    BY <1>1
  <2>3. \A i \in 1..Len(q) : b + i \in 1..b + Len(q) + Len(out[d])
    BY ONLY <2>2, MiddleIsInside
  <2> QED BY <2>1, <2>3
<1>4. WholeInOrder(s, ms, h)
  BY <1>2 DEF ms, h
<1>5. ASSUME NEW i \in DOMAIN s
      PROVE  s[i].of \in h + 1..Len(ms) /\ s[i].at \in 1..longest
  <2>1. s[i].of \in h + 1..Len(ms) /\ s[i].at \in 1..ms[s[i].of].size
    BY <1>4 DEF WholeInOrder
  <2>2. s[i].of \in DOMAIN ms
    BY <1>1, <2>1
  <2>3. ms[s[i].of] \in Sendable /\ ms[s[i].of].size <= longest
    BY <1>1, <2>2, ElementOfSeq DEF ms
  <2>4. ms[s[i].of].size \in Nat
    BY <2>3 DEF Sendable
  <2> QED BY <2>1, <2>3, <2>4
<1>6. ASSUME NEW i \in DOMAIN s, NEW j \in DOMAIN s, i < j
      PROVE  s[i].of # s[j].of \/ s[i].at # s[j].at
  <2>1. s[i].of < s[j].of \/ (s[i].of = s[j].of /\ s[i].at < s[j].at)
    BY <1>4, <1>6 DEF WholeInOrder
  <2>2. s[i].of \in Nat /\ s[j].of \in Nat /\ s[i].at \in Nat /\ s[j].at \in Nat
    BY <1>1, <1>5
  <2> QED BY <2>1, <2>2
<1> DEFINE f == [i \in 1..Len(q) |-> <<s[b + i].of, s[b + i].at>>]
<1>7. f \in Injection(1..Len(q), T)
  <2>1. ASSUME NEW i \in 1..Len(q) PROVE <<s[b + i].of, s[b + i].at>> \in T
    BY <1>3, <1>5
  <2>2. ASSUME NEW i \in 1..Len(q), NEW j \in 1..Len(q), f[i] = f[j] PROVE i = j
    <3>1. s[b + i].of = s[b + j].of /\ s[b + i].at = s[b + j].at
      BY <2>2
    <3>2. b + i \in DOMAIN s /\ b + j \in DOMAIN s
      BY <1>3
    <3>3. ~(b + i < b + j) /\ ~(b + j < b + i)
      BY <3>1, <3>2, <1>6
    <3> QED BY <3>3
  <2> QED BY <2>1, <2>2 DEF Injection, IsInjective
<1>8. /\ IsFiniteSet(h + 1..Len(ms)) /\ Cardinality(h + 1..Len(ms)) = Len(ms) - h
      /\ IsFiniteSet(1..longest) /\ Cardinality(1..longest) = longest
      /\ IsFiniteSet(1..Len(q)) /\ Cardinality(1..Len(q)) = Len(q)
  <2>1. h + 1 \in Int /\ Len(ms) \in Int /\ longest \in Int /\ Len(q) \in Int /\ 1 \in Int
    BY <1>1
  <2>2. /\ Cardinality(h + 1..Len(ms)) = IF h + 1 > Len(ms) THEN 0 ELSE Len(ms) - (h + 1) + 1
        /\ Cardinality(1..longest) = IF 1 > longest THEN 0 ELSE longest - 1 + 1
        /\ Cardinality(1..Len(q)) = IF 1 > Len(q) THEN 0 ELSE Len(q) - 1 + 1
    BY <2>1, FS_Interval
  <2>3. IsFiniteSet(h + 1..Len(ms)) /\ IsFiniteSet(1..longest) /\ IsFiniteSet(1..Len(q))
    BY <2>1, FS_Interval
  <2> QED BY <2>2, <2>3, <1>1
<1>9. IsFiniteSet(T) /\ Cardinality(T) = (Len(ms) - h) * longest
  <2>1. IsFiniteSet(T) /\ Cardinality(T) = Cardinality(h + 1..Len(ms)) * Cardinality(1..longest)
    BY <1>8, FS_Product, Zenon
  <2> QED BY <2>1, <1>8, Zenon
<1>10. Cardinality(1..Len(q)) <= Cardinality(T)
  BY <1>7, <1>9, FS_Injection
<1> QED BY <1>8, <1>9, <1>10 DEF q, ms, h

(* Answers so short that all those left open come to less than the buffer.    *)
AnswersShort ==
    \E longest \in Nat : Window * longest < Buffer /\ \A size \in AnswerSizes : size <= longest

ReadsAtOnce == ~again["s2c"]

(* No read of the client fills its buffer then, so that neither side ever     *)
(* takes what the other sent for malformed: messages of any length that the   *)
(* kernel keeps in one piece, any number of them, and requests that do fill   *)
(* the server's buffer.                                                       *)
THEOREM ShortAnswersAreRead ==
    MessagesFit /\ AnswersShort => (SocketIOSpec => []AnyLengthIsRead)
<1> SUFFICES ASSUME MessagesFit, AnswersShort PROVE SocketIOSpec => []AnyLengthIsRead
  OBVIOUS
<1>1. SocketIOInit => ReadsAtOnce
  BY DEF SocketIOInit, Directions, ReadsAtOnce
<1>2. ASSUME SocketIOTypes, NothingIsLost, OpenInv, ReadsAtOnce, [SocketIONext]_ioVars
      PROVE  ReadsAtOnce'
  <2>1. again \in [Directions -> BOOLEAN] /\ "s2c" \in Directions /\ "c2s" \in Directions
    BY <1>2 DEF SocketIOTypes, Directions
  <2>2. Len(queue["s2c"]) < Buffer /\ Len(queue["s2c"]) \in Nat /\ Buffer \in Nat
    <3>1. PICK longest \in Nat : Window * longest < Buffer /\ \A size \in AnswerSizes : size <= longest
      BY DEF AnswersShort
    <3>2. \A n \in DOMAIN sent["s2c"] : sent["s2c"][n].size <= longest
      BY <1>2, <3>1 DEF OpenInv
    <3> DEFINE away == Len(sent["s2c"]) - heard["s2c"]
    <3>3. away \in Nat /\ away <= Window /\ Window \in Nat /\ Buffer \in Nat
          /\ Len(queue["s2c"]) \in Nat
      <4>1. /\ Len(sent["s2c"]) \in Nat /\ heard["s2c"] \in Nat
            /\ heard["s2c"] <= Len(sent["s2c"]) /\ Len(queue["s2c"]) \in Nat
        BY <1>2, <2>1 DEF SocketIOTypes
      <4>2. away <= Window
        BY <1>2, AnswersUnderWay
      <4> QED BY <4>1, <4>2, SocketIOAssumption
    <3>4. Len(queue["s2c"]) <= away * longest
      BY <1>2, <2>1, <3>2, QueueBound
    <3> HIDE DEF away
    <3>5. away * longest <= Window * longest /\ away * longest \in Nat /\ Window * longest \in Nat
      BY ONLY <3>3, longest \in Nat
    <3> QED BY <3>1, <3>3, <3>4, <3>5
  <2>3. CASE ClientReads
    <3>1. again' = again \/ Receive("s2c")
      BY <2>3 DEF ClientReads
    <3>2. ASSUME Receive("s2c") PROVE ~again'["s2c"]
      <4>1. Min({Len(queue["s2c"]), Buffer}) = Len(queue["s2c"])
        BY <2>2, SmallerOfTwo
      <4>2. again' = [again EXCEPT !["s2c"] = Len(queue["s2c"]) = Buffer]
        BY <3>2, <4>1 DEF Receive
      <4>3. ~(Len(queue["s2c"]) = Buffer)
        BY <2>2
      <4> QED BY <4>2, <4>3, <2>1
    <3> QED BY <3>1, <3>2, <1>2 DEF ReadsAtOnce
  <2>4. CASE ServerReads
    <3>1. again' = [again EXCEPT !["c2s"] = Min({Len(queue["c2s"]), Buffer}) = Buffer]
      BY <2>4 DEF ServerReads, Receive
    <3> QED BY <3>1, <2>1, <1>2 DEF ReadsAtOnce
  <2>5. CASE UNCHANGED again
    BY <2>5, <1>2 DEF ReadsAtOnce
  <2>6. ClientReads \/ ServerReads \/ UNCHANGED again
    BY <1>2 DEF SocketIONext, ClientSteps, ServerSteps, ioVars, ClientCalls, ClientSends,
                ClientWritable, ClientHandles, ServerSends, ServerHandles
  <2> QED BY <2>3, <2>4, <2>5, <2>6
<1>3. SocketIOTypes /\ NothingIsLost /\ OpenInv /\ ReadsAtOnce /\ [SocketIONext]_ioVars
        => ReadsAtOnce'
  BY <1>2
<1>4. RequestsFit
  BY DEF MessagesFit
<1>5. SocketIOSpec => []ReadsAtOnce
  BY <1>1, <1>3, <1>4, OpenInvariant, PTL DEF SocketIOSpec
<1>6. ReadsAtOnce => (again["s2c"] => queue["s2c"] # <<>>)
  BY DEF ReadsAtOnce
<1> QED BY <1>5, <1>6, OnlyFullReadsFail, PTL
===============================================================================
