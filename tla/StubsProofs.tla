----------------------------- MODULE StubsProofs -----------------------------
(* What generated programs of different releases understand of each other,    *)
(* for any document, any methods and any number of releases and calls.  The   *)
(* first parts are about the sequences that the generated code takes apart    *)
(* and puts together again (RecursionProofs has what they have in common with *)
(* the messages); the last part is the inductive invariant StubsInv.          *)
EXTENDS Stubs, RecursionProofs, FiniteSetTheorems, TLAPS

-----------------------------------------------------------------------------
(* What scanProtocol makes of a document.                                     *)
Scanned(M) == [idx : Nat, method : M]

(* f[n] is what has been scanned when n elements have been read.              *)
Scans(f, M, methods, side) ==
    /\ f \in [0..Len(methods) -> Seq(Scanned(M))] /\ f[0] = <<>>
    /\ \A n \in 1..Len(methods) :
        f[n] = IF methods[n].side # side THEN f[n - 1]
               ELSE Append(f[n - 1], [idx |-> Len(f[n - 1]), method |-> methods[n]])

(* Scan is such a function's last value.                                      *)
LEMMA ScanFunction ==
    ASSUME NEW M, NEW methods \in Seq(M), NEW side
    PROVE  \E f : Scans(f, M, methods, side) /\ Scan(methods, side) = f[Len(methods)]
<1> DEFINE N == Len(methods)
           T == Seq(Scanned(M))
           More(n, s) == Append(s, [idx |-> Len(s), method |-> methods[n]])
           step(n, s) == IF methods[n].side # side THEN s ELSE More(n, s)
           next == [p \in Nat \X T |-> IF p[1] + 1 \in 1..N THEN step(p[1] + 1, p[2]) ELSE p[2]]
           Good(g) == g = [n \in 0..N |-> IF n = 0 THEN <<>> ELSE
                             IF methods[n].side # side THEN g[n - 1] ELSE More(n, g[n - 1])]
           F == CHOOSE g : Good(g)
<1>1. N \in Nat /\ <<>> \in T
  OBVIOUS
<1>2. ASSUME NEW n \in 1..N, NEW s \in T PROVE step(n, s) \in T
  <2>1. [idx |-> Len(s), method |-> methods[n]] \in Scanned(M)
    BY DEF Scanned
  <2>2. \A e \in Scanned(M) : Append(s, e) \in T
    OBVIOUS
  <2>3. More(n, s) \in T
    BY <2>1, <2>2
  <2> QED BY <2>3
<1>3. Scan(methods, side) = F[N]
  BY DEF Scan
<1> HIDE DEF step, T
<1>4. \A n \in Nat, s \in T : next[<<n, s>>] = IF n + 1 \in 1..N THEN step(n + 1, s) ELSE s
  OBVIOUS
<1>5. next \in [Nat \X T -> T]
  <2>1. ASSUME NEW n \in Nat, NEW s \in T PROVE (IF n + 1 \in 1..N THEN step(n + 1, s) ELSE s) \in T
    BY <1>2
  <2> QED BY <2>1
<1> HIDE DEF next
<1>6. PICK f : Iterates(f, T, <<>>, next)
  BY <1>1, <1>5, Iteration
<1>7. ASSUME NEW n \in 1..N PROVE f[n] = step(n, f[n - 1])
  <2>1. n - 1 \in Nat /\ (n - 1) + 1 = n
    OBVIOUS
  <2>2. f[n] = next[<<n - 1, f[n - 1]>>] /\ f[n - 1] \in T
    BY <1>6, <2>1 DEF Iterates
  <2> QED BY <1>4, <2>1, <2>2
<1>8. Good([n \in 0..N |-> f[n]])
  <2> DEFINE h == [n \in 0..N |-> f[n]]
  <2>1. ASSUME NEW n \in 0..N
        PROVE  h[n] = IF n = 0 THEN <<>> ELSE IF methods[n].side # side THEN h[n - 1] ELSE More(n, h[n - 1])
    <3>1. CASE n = 0
      BY <1>6, <3>1 DEF Iterates
    <3>2. CASE n # 0
      <4>1. n \in 1..N /\ n - 1 \in 0..N
        BY <3>2
      <4>2. h[n] = step(n, h[n - 1])
        BY <1>7, <4>1
      <4> QED BY <3>2, <4>2 DEF step
    <3> QED BY <3>1, <3>2
  <2> HIDE DEF More
  <2> QED BY <2>1
<1>9. Good(F)
  <2> HIDE DEF Good
  <2> QED BY <1>8
<1> HIDE DEF F
<1>10. F[0] = <<>> /\ \A n \in 1..N : F[n] = step(n, F[n - 1])
  <2> HIDE DEF More
  <2>1. \A n \in 0..N : F[n] = IF n = 0 THEN <<>> ELSE
                          IF methods[n].side # side THEN F[n - 1] ELSE More(n, F[n - 1])
    BY <1>9
  <2>2. 0 \in 0..N /\ \A n \in 1..N : n \in 0..N /\ n # 0
    OBVIOUS
  <2> QED BY <2>1, <2>2 DEF step
<1>11. DOMAIN F = 0..N /\ F = [n \in 0..N |-> F[n]]
  <2> HIDE DEF More
  <2> QED BY <1>9
<1>12. \A n \in 0..N : F[n] \in T
  <2> DEFINE A == {n \in Nat : n <= N => F[n] \in T}
  <2>1. 0 \in A
    BY <1>1, <1>10
  <2>2. ASSUME NEW n \in Nat, n \in A PROVE n + 1 \in A
    <3>1. ASSUME n + 1 <= N PROVE F[n + 1] \in T
      <4>1. n + 1 \in 1..N /\ (n + 1) - 1 = n /\ F[n] \in T
        BY <2>2, <3>1
      <4> QED BY <1>2, <1>10, <4>1
    <3> QED BY <3>1
  <2> HIDE DEF A
  <2>3. Nat \subseteq A
    BY <2>1, <2>2, Induction
  <2> QED BY <2>3 DEF A
<1>13. F \in [0..N -> T]
  BY <1>11, <1>12
<1> QED BY <1>3, <1>10, <1>13 DEF Scans, T, step

(* What is scanned are methods of the side, with ids in their order.          *)
LEMMA ScanShape ==
    ASSUME NEW M, NEW methods \in Seq(M), NEW side
    PROVE  /\ Scan(methods, side) \in Seq(Scanned(M))
           /\ \A i \in DOMAIN Scan(methods, side) :
                /\ Scan(methods, side)[i].idx = i - 1
                /\ Scan(methods, side)[i].method \in M
                /\ Scan(methods, side)[i].method.side = side
                /\ \E n \in DOMAIN methods : Scan(methods, side)[i].method = methods[n]
<1> DEFINE N == Len(methods)
           T == Seq(Scanned(M))
           Ok(s) == \A i \in 1..Len(s) :
                      /\ s[i].idx = i - 1 /\ s[i].method.side = side
                      /\ \E n \in 1..N : s[i].method = methods[n]
<1>1. PICK f : Scans(f, M, methods, side) /\ Scan(methods, side) = f[N]
  BY ScanFunction
<1>n. N \in Nat /\ N \in 0..N /\ DOMAIN methods = 1..N
  OBVIOUS
<1>2. ASSUME NEW n \in 1..N, NEW s \in T, Ok(s), methods[n].side = side
      PROVE  Ok(Append(s, [idx |-> Len(s), method |-> methods[n]]))
  <2> DEFINE e == [idx |-> Len(s), method |-> methods[n]]
  <2>1. e \in Scanned(M) /\ e.idx = Len(s) /\ e.method = methods[n]
    BY DEF Scanned
  <2> HIDE DEF e
  <2>2. Len(Append(s, e)) = Len(s) + 1 /\ Append(s, e)[Len(s) + 1] = e
        /\ \A i \in 1..Len(s) : Append(s, e)[i] = s[i]
    BY <2>1
  <2>3. ASSUME NEW i \in 1..(Len(s) + 1)
        PROVE  /\ Append(s, e)[i].idx = i - 1 /\ Append(s, e)[i].method.side = side
               /\ \E m \in 1..N : Append(s, e)[i].method = methods[m]
    <3>1. CASE i = Len(s) + 1
      BY <1>2, <2>1, <2>2, <3>1
    <3>2. CASE i # Len(s) + 1
      <4>1. i \in 1..Len(s) /\ Append(s, e)[i] = s[i]
        BY <2>2, <3>2
      <4> QED BY <1>2, <4>1
    <3> QED BY <3>1, <3>2
  <2> QED BY <2>2, <2>3 DEF e
<1> DEFINE A == {n \in Nat : n <= N => Ok(f[n])}
<1>3. 0 \in A
  BY <1>1 DEF Scans
<1>4. ASSUME NEW n \in Nat, n \in A PROVE n + 1 \in A
  <2>1. ASSUME n + 1 <= N PROVE Ok(f[n + 1])
    <3>0. n + 1 \in 1..N /\ (n + 1) - 1 = n /\ n \in 0..N /\ n <= N
      BY <2>1, <1>n
    <3> HIDE DEF Ok
    <3>1. n + 1 \in 1..N /\ (n + 1) - 1 = n /\ n \in 0..N /\ Ok(f[n])
      BY <1>4, <3>0
    <3>2. f[n + 1] = IF methods[n + 1].side # side THEN f[n]
                     ELSE Append(f[n], [idx |-> Len(f[n]), method |-> methods[n + 1]])
      BY <1>1, <3>1 DEF Scans
    <3>3. f[n] \in T
      BY <1>1, <3>1 DEF Scans
    <3> QED BY <1>2, <3>1, <3>2, <3>3
  <2> QED BY <2>1
<1> HIDE DEF A
<1>5. N \in A
  BY <1>n, <1>3, <1>4, Induction
<1>6. Ok(f[N])
  BY <1>5 DEF A
<1>7. f[N] \in T
  BY <1>1, <1>n DEF Scans
<1>8. DOMAIN f[N] = 1..Len(f[N])
  BY <1>7
<1>9. \A n \in 1..N : methods[n] \in M
  OBVIOUS
<1> QED BY <1>1, <1>6, <1>7, <1>8, <1>9, <1>n

(* InsertAt puts one element between the others.                              *)
Extends(t, s, k, m) ==
    /\ Len(t) = Len(s) + 1
    /\ \A j \in 1..(Len(s) + 1) : t[j] = IF j < k THEN s[j] ELSE IF j = k THEN m ELSE s[j - 1]

LEMMA Inserted ==
    ASSUME NEW M, NEW s \in Seq(M), NEW m \in M, NEW k \in 1..(Len(s) + 1)
    PROVE  InsertAt(s, k, m) \in Seq(M) /\ Extends(InsertAt(s, k, m), s, k, m)
<1> DEFINE a == SubSeq(s, 1, k - 1)
           b == SubSeq(s, k, Len(s))
<1>1. Len(s) \in Nat
  OBVIOUS
<1>2. a \in Seq(M) /\ Len(a) = k - 1 /\ \A j \in 1..(k - 1) : a[j] = s[j]
  BY <1>1
<1>3. b \in Seq(M) /\ Len(b) = Len(s) + 1 - k /\ \A j \in 1..(Len(s) + 1 - k) : b[j] = s[j + k - 1]
  BY <1>1
<1>4. InsertAt(s, k, m) = (a \o <<m>>) \o b
  BY DEF InsertAt
<1> HIDE DEF a, b
<1> DEFINE c == a \o <<m>>
<1>5. c \in Seq(M) /\ Len(c) = k /\ (\A j \in 1..(k - 1) : c[j] = a[j]) /\ c[k] = m
  BY <1>2
<1> HIDE DEF c
<1>6. c \o b \in Seq(M) /\ Len(c \o b) = Len(s) + 1
  BY <1>1, <1>3, <1>5
<1>7. ASSUME NEW j \in 1..(Len(s) + 1)
      PROVE  (c \o b)[j] = IF j < k THEN s[j] ELSE IF j = k THEN m ELSE s[j - 1]
  <2>1. CASE j <= k
    <3>1. (c \o b)[j] = c[j]
      BY <1>1, <1>3, <1>5, <2>1
    <3>2. j < k => j \in 1..(k - 1)
      BY <2>1
    <3>3. CASE j < k
      BY <1>2, <1>5, <3>1, <3>2, <3>3
    <3>4. CASE j = k
      BY <1>5, <3>1, <3>4
    <3>5. j < k \/ j = k
      BY <1>1, <2>1
    <3>6. j = k => ~(j < k)
      BY <1>1
    <3> QED BY <3>3, <3>4, <3>5, <3>6, Zenon
  <2>2. CASE j > k
    <3>1. j - k \in 1..(Len(s) + 1 - k) /\ (j - k) + k - 1 = j - 1
      BY <1>1, <2>2
    <3>2. (c \o b)[j] = b[j - k]
      BY <1>1, <1>3, <1>5, <2>2
    <3>3. b[j - k] = s[(j - k) + k - 1]
      BY <1>3, <3>1
    <3> QED BY <2>2, <3>1, <3>2, <3>3
  <2>3. j <= k \/ j > k
    BY <1>1
  <2> QED BY <2>1, <2>2, <2>3
<1>8. Extends(c \o b, s, k, m)
  BY <1>6, <1>7, Zenon DEF Extends
<1> QED BY <1>4, <1>6, <1>8 DEF c

(* A method that is added behind those of its side is scanned last, and those *)
(* of the other side are as before.                                           *)
LEMMA ScanGrows ==
    ASSUME NEW M, NEW methods \in Seq(M), NEW m \in M, NEW k \in 1..(Len(methods) + 1),
           \A j \in k..Len(methods) : methods[j].side # m.side, NEW side
    PROVE  Scan(InsertAt(methods, k, m), side) =
             IF m.side # side THEN Scan(methods, side)
             ELSE Append(Scan(methods, side), [idx |-> Len(Scan(methods, side)), method |-> m])
<1> DEFINE N == Len(methods)
           more == InsertAt(methods, k, m)
<1>0. N \in Nat
  OBVIOUS
<1>1. /\ N \in Nat /\ more \in Seq(M) /\ Len(more) = N + 1
      /\ \A j \in 1..(N + 1) : more[j] = IF j < k THEN methods[j] ELSE IF j = k THEN m ELSE methods[j - 1]
  <2>1. more \in Seq(M) /\ Extends(more, methods, k, m)
    BY Inserted, Zenon
  <2> QED BY <1>0, <2>1, Zenon DEF Extends
<1> HIDE DEF more
<1>2. PICK f : Scans(f, M, methods, side) /\ Scan(methods, side) = f[N]
  BY ScanFunction
<1>3. PICK g : Scans(g, M, more, side) /\ Scan(more, side) = g[N + 1]
  <2>1. \E g : Scans(g, M, more, side) /\ Scan(more, side) = g[Len(more)]
    BY <1>1, ScanFunction
  <2> QED BY <1>1, <2>1
<1> HIDE DEF N
<1> DEFINE More(s, x) == IF x.side # side THEN s ELSE Append(s, [idx |-> Len(s), method |-> x])
           base == f[k - 1]
<1>4. f[0] = <<>> /\ \A n \in 1..N : f[n] = More(f[n - 1], methods[n])
  BY <1>2 DEF Scans, N
<1>5. g[0] = <<>> /\ \A n \in 1..(N + 1) : g[n] = More(g[n - 1], more[n])
  BY <1>1, <1>3 DEF Scans
<1>k. k \in Nat /\ k >= 1 /\ k <= N + 1
  BY <1>1 DEF N
<1> HIDE DEF More
<1> DEFINE A == {n \in Nat : n < k => g[n] = f[n]}
<1>6. Nat \subseteq A
  <2>1. 0 \in A
    BY <1>4, <1>5
  <2>2. ASSUME NEW n \in Nat, n \in A PROVE n + 1 \in A
    <3>1. ASSUME n + 1 < k PROVE g[n + 1] = f[n + 1]
      <4>1. n + 1 \in 1..N /\ n + 1 \in 1..(N + 1) /\ (n + 1) - 1 = n /\ g[n] = f[n]
        BY <1>1, <1>k, <2>2, <3>1
      <4>2. more[n + 1] = methods[n + 1]
        BY <1>1, <3>1, <4>1
      <4>3. f[n + 1] = More(f[n], methods[n + 1])
        BY <1>4, <4>1
      <4>4. g[n + 1] = More(g[n], more[n + 1])
        BY <1>5, <4>1
      <4> QED BY <4>1, <4>2, <4>3, <4>4
    <3> QED BY <3>1
  <2> HIDE DEF A
  <2> QED BY <2>1, <2>2, Induction
<1>7. g[k - 1] = f[k - 1]
  BY <1>6, <1>k
<1>8. g[k] = More(f[k - 1], m)
  <2>1. k \in 1..(N + 1) /\ more[k] = m
    BY <1>1, <1>k
  <2>2. g[k] = More(g[k - 1], more[k])
    BY <1>5, <2>1
  <2> QED BY <1>7, <2>1, <2>2
<1>9. \A n \in k..N : n + 1 \in 1..(N + 1) /\ more[n + 1] = methods[n]
  BY <1>1, <1>k
<1>10. CASE m.side # side
  <2> DEFINE B == {n \in Nat : n <= N /\ n >= k - 1 => g[n + 1] = f[n]}
  <2>0. g[k] = f[k - 1]
    BY <1>8, <1>10 DEF More
  <2>1. 0 \in B
    <3>1. ASSUME 0 >= k - 1 PROVE g[0 + 1] = f[0]
      <4>1. k = 1
        BY <1>k, <3>1
      <4> QED BY <2>0, <4>1
    <3> QED BY <3>1
  <2>2. ASSUME NEW n \in Nat, n \in B PROVE n + 1 \in B
    <3>1. ASSUME n + 1 <= N, n + 1 >= k - 1 PROVE g[(n + 1) + 1] = f[n + 1]
      <4>1. CASE n + 1 = k - 1
        <5>1. (n + 1) + 1 = k
          BY <1>k, <4>1
        <5> QED BY <2>0, <4>1, <5>1
      <4>2. CASE n + 1 # k - 1
        <5>1. n >= k - 1 /\ n <= N /\ n + 1 \in 1..N /\ n + 1 \in k..N /\ (n + 1) - 1 = n
              /\ ((n + 1) + 1) - 1 = n + 1
          BY <1>1, <1>k, <3>1, <4>2
        <5>2. g[n + 1] = f[n]
          BY <2>2, <5>1
        <5>3. f[n + 1] = More(f[n], methods[n + 1])
          BY <1>4, <5>1
        <5>4. (n + 1) + 1 \in 1..(N + 1) /\ more[(n + 1) + 1] = methods[n + 1]
          BY <1>9, <5>1
        <5>5. g[(n + 1) + 1] = More(g[n + 1], more[(n + 1) + 1])
          BY <1>5, <5>1, <5>4
        <5> QED BY <5>2, <5>3, <5>4, <5>5
      <4> QED BY <4>1, <4>2
    <3> QED BY <3>1
  <2> HIDE DEF B
  <2>3. Nat \subseteq B
    BY <2>1, <2>2, Induction
  <2>4. g[N + 1] = f[N]
    <3>1. N \in Nat /\ N >= k - 1 /\ N <= N
      BY <1>1, <1>k
    <3> QED BY <2>3, <3>1 DEF B
  <2> QED BY <1>2, <1>3, <1>10, <2>4 DEF more
<1>11. CASE m.side = side
  <2> DEFINE B == {n \in Nat : n <= N /\ n >= k - 1 => f[n] = f[k - 1] /\ g[n + 1] = g[k]}
  <2>1. 0 \in B
    <3>1. ASSUME 0 >= k - 1 PROVE f[0] = f[k - 1] /\ g[0 + 1] = g[k]
      <4>1. k = 1
        BY <1>k, <3>1
      <4> QED BY <4>1
    <3> QED BY <3>1
  <2>2. ASSUME NEW n \in Nat, n \in B PROVE n + 1 \in B
    <3>1. ASSUME n + 1 <= N, n + 1 >= k - 1 PROVE f[n + 1] = f[k - 1] /\ g[(n + 1) + 1] = g[k]
      <4>1. CASE n + 1 = k - 1
        <5>1. (n + 1) + 1 = k
          BY <1>k, <4>1
        <5> QED BY <4>1, <5>1
      <4>2. CASE n + 1 # k - 1
        <5>1. n >= k - 1 /\ n <= N /\ n + 1 \in 1..N /\ n + 1 \in k..N /\ (n + 1) - 1 = n
              /\ ((n + 1) + 1) - 1 = n + 1
          BY <1>1, <1>k, <3>1, <4>2
        <5>2. f[n] = f[k - 1] /\ g[n + 1] = g[k]
          BY <2>2, <5>1
        <5>3. f[n + 1] = More(f[n], methods[n + 1])
          BY <1>4, <5>1
        <5>4. (n + 1) + 1 \in 1..(N + 1) /\ more[(n + 1) + 1] = methods[n + 1]
          BY <1>9, <5>1
        <5>5. g[(n + 1) + 1] = More(g[n + 1], more[(n + 1) + 1])
          BY <1>5, <5>1, <5>4
        <5>6. methods[n + 1].side # side
          BY <1>11, <5>1 DEF N
        <5>7. f[n + 1] = f[n] /\ g[(n + 1) + 1] = g[n + 1]
          BY <5>3, <5>4, <5>5, <5>6 DEF More
        <5> QED BY <5>2, <5>7
      <4> QED BY <4>1, <4>2
    <3> QED BY <3>1
  <2> HIDE DEF B
  <2>3. Nat \subseteq B
    BY <2>1, <2>2, Induction
  <2>4. f[N] = f[k - 1] /\ g[N + 1] = g[k]
    <3>1. N \in Nat /\ N >= k - 1 /\ N <= N
      BY <1>1, <1>k
    <3> QED BY <2>3, <3>1 DEF B
  <2>5. g[N + 1] = Append(f[N], [idx |-> Len(f[N]), method |-> m])
    BY <1>8, <1>11, <2>4 DEF More
  <2> QED BY <1>2, <1>3, <1>11, <2>5 DEF more
<1> QED BY <1>10, <1>11

-----------------------------------------------------------------------------
(* The arguments of a call, from the sender to the listener.                  *)
Argument == [array : BOOLEAN, type : Types]

(* What stands in tables and on the wire.                                     *)
Magics == Types \cup {"array", "seq"}

LEMMA MagicOf ==
    ASSUME NEW arg \in Argument
    PROVE  Magic(arg.type) \in Magics /\ Magic(arg.type) # "array"
<1>1. arg.type \in Types
  BY DEF Argument
<1>2. ASSUME NEW t \in Types PROVE Magic(t) \in Magics /\ Magic(t) # "array"
  <2>1. t \in Magics /\ t # "array"
    BY <1>2 DEF Magics, Types
  <2>2. "uint" \in Magics /\ "uint" # "array"
    BY DEF Magics, Types
  <2>3. CASE t = "enum"
    BY <2>2, <2>3 DEF Magic
  <2>4. CASE t # "enum"
    BY <2>1, <2>4 DEF Magic
  <2> QED BY <2>3, <2>4
<1> QED BY <1>1, <1>2

(* What a call of a method is given: a value for every argument, a sequence   *)
(* for an array.                                                              *)
Fits(args, values) ==
    /\ values = [i \in 1..Len(args) |-> values[i]] /\ Len(values) = Len(args)
    /\ \A i \in 1..Len(args) : args[i].array => values[i] \in Seq({values[i][k] : k \in DOMAIN values[i]})

(* What StubsNext calls a method with fits.                                   *)
LEMMA ArgumentsFit ==
    ASSUME NEW args \in Seq(Argument), NEW values \in Arguments(args),
           \A i \in DOMAIN args : args[i].array =>
               \A v \in Values[args[i]] : v \in Seq({v[k] : k \in DOMAIN v})
    PROVE  Fits(args, values)
<1> DEFINE N == Len(args)
           V == UNION {Values[args[i]] : i \in 1..N}
           T == SUBSET Seq(V)
           more(n, S) == {Append(before, last) : before \in S, last \in Values[args[n]]}
           next == [p \in Nat \X T |-> IF p[1] + 1 \in 1..N THEN more(p[1] + 1, p[2]) ELSE p[2]]
           Good(g) == g = [n \in 0..N |-> IF n = 0 THEN {<<>>} ELSE more(n, g[n - 1])]
           F == CHOOSE g : Good(g)
<1>1. N \in Nat /\ {<<>>} \in T /\ DOMAIN args = 1..N
  OBVIOUS
<1>2. ASSUME NEW n \in 1..N, NEW S \in T PROVE more(n, S) \in T
  <2>1. Values[args[n]] \subseteq V
    OBVIOUS
  <2> HIDE DEF V
  <2>2. \A s \in Seq(V), e \in V : Append(s, e) \in Seq(V)
    OBVIOUS
  <2> QED BY <2>1, <2>2
<1>3. Arguments(args) = F[N]
  BY DEF Arguments
<1> HIDE DEF more, T
<1>4. \A n \in Nat, S \in T : next[<<n, S>>] = IF n + 1 \in 1..N THEN more(n + 1, S) ELSE S
  OBVIOUS
<1>5. next \in [Nat \X T -> T]
  <2>1. ASSUME NEW n \in Nat, NEW S \in T PROVE (IF n + 1 \in 1..N THEN more(n + 1, S) ELSE S) \in T
    BY <1>2
  <2> QED BY <2>1
<1> HIDE DEF next
<1>6. PICK f : Iterates(f, T, {<<>>}, next)
  BY <1>1, <1>5, Iteration
<1>7. ASSUME NEW n \in 1..N PROVE f[n] = more(n, f[n - 1])
  <2>1. n - 1 \in Nat /\ (n - 1) + 1 = n
    OBVIOUS
  <2>2. f[n] = next[<<n - 1, f[n - 1]>>] /\ f[n - 1] \in T
    BY <1>6, <2>1 DEF Iterates
  <2> QED BY <1>4, <2>1, <2>2
<1>8. Good([n \in 0..N |-> f[n]])
  <2> DEFINE h == [n \in 0..N |-> f[n]]
  <2>1. ASSUME NEW n \in 0..N PROVE h[n] = IF n = 0 THEN {<<>>} ELSE more(n, h[n - 1])
    <3>1. CASE n = 0
      BY <1>6, <3>1 DEF Iterates
    <3>2. CASE n # 0
      <4>1. n \in 1..N /\ n - 1 \in 0..N
        BY <3>2
      <4> QED BY <1>7, <3>2, <4>1
    <3> QED BY <3>1, <3>2
  <2> QED BY <2>1
<1>9. Good(F)
  <2> HIDE DEF Good
  <2> QED BY <1>8
<1> HIDE DEF F
<1>10. F[0] = {<<>>} /\ \A n \in 1..N : F[n] = more(n, F[n - 1])
  <2>1. \A n \in 0..N : F[n] = IF n = 0 THEN {<<>>} ELSE more(n, F[n - 1])
    BY <1>9
  <2>2. 0 \in 0..N /\ \A n \in 1..N : n \in 0..N /\ n # 0
    OBVIOUS
  <2> QED BY <2>1, <2>2
<1> DEFINE Ok(n, s) == s \in Seq(V) /\ Len(s) = n /\ \A i \in 1..n : s[i] \in Values[args[i]]
           A == {n \in Nat : n <= N => \A s \in F[n] : Ok(n, s)}
<1>11. 0 \in A
  <2> HIDE DEF V
  <2>1. <<>> \in Seq(V) /\ Len(<<>>) = 0
    OBVIOUS
  <2>2. \A i \in 1..0 : <<>>[i] \in Values[args[i]]
    OBVIOUS
  <2>3. Ok(0, <<>>)
    BY <2>1, <2>2
  <2> HIDE DEF Ok
  <2>4. 0 \in Nat
    OBVIOUS
  <2> QED BY <1>10, <2>3, <2>4, Zenon
<1>12. ASSUME NEW n \in Nat, n \in A PROVE n + 1 \in A
  <2>1. ASSUME n + 1 <= N, NEW s \in F[n + 1] PROVE Ok(n + 1, s)
    <3>1. n + 1 \in 1..N /\ (n + 1) - 1 = n /\ n <= N
      BY <2>1
    <3>2. F[n + 1] = more(n + 1, F[n])
      BY <1>10, <3>1
    <3>3. PICK before \in F[n], last \in Values[args[n + 1]] : s = Append(before, last)
      BY <2>1, <3>2 DEF more
    <3>4. Ok(n, before)
      <4> HIDE DEF Ok
      <4> QED BY <1>12, <3>1, <3>3
    <3>5. last \in V
      BY <3>1
    <3> HIDE DEF V
    <3>6. s \in Seq(V) /\ Len(s) = n + 1 /\ s[n + 1] = last /\ \A i \in 1..n : s[i] = before[i]
      BY <3>3, <3>4, <3>5
    <3>7. ASSUME NEW i \in 1..(n + 1) PROVE s[i] \in Values[args[i]]
      <4>1. CASE i = n + 1
        BY <3>3, <3>6, <4>1
      <4>2. CASE i # n + 1
        <5>1. i \in 1..n
          BY <4>2
        <5> QED BY <3>4, <3>6, <5>1
      <4> QED BY <4>1, <4>2
    <3> QED BY <3>6, <3>7 DEF V
  <2> HIDE DEF Ok
  <2> QED BY <2>1
<1> HIDE DEF A
<1>13. N \in A
  BY <1>1, <1>11, <1>12, Induction
<1> HIDE DEF Ok
<1>14. Ok(N, values)
  BY <1>3, <1>13 DEF A
<1> USE DEF Ok
<1> HIDE DEF V
<1>15. values = [i \in 1..N |-> values[i]] /\ Len(values) = N
  BY <1>14
<1>16. \A i \in 1..N : values[i] \in Values[args[i]]
  BY <1>14
<1>17. \A i \in 1..N : args[i].array => values[i] \in Seq({values[i][k] : k \in DOMAIN values[i]})
  BY <1>1, <1>16
<1> QED BY <1>15, <1>17 DEF Fits

(* The C parameters that an argument takes.                                   *)
Width(arg) == IF arg.array THEN 2 ELSE 1
Widths(args) == [i \in 1..Len(args) |-> Width(args[i])]

(* What the table says of an argument, and what a sender gives for it.        *)
Said(arg) == (IF arg.array THEN <<"array">> ELSE <<>>) \o <<Magic(arg.type)>>
Handed(arg, v) == IF arg.array THEN <<v, Len(v)>> ELSE <<v>>

(* Sequences of one and of two.                                               *)
LEMMA Pair ==
    ASSUME NEW S, NEW a \in S, NEW b \in S
    PROVE  /\ <<a>> \o <<b>> = <<a, b>> /\ <<>> \o <<b>> = <<b>>
           /\ <<b>> \in Seq(S) /\ Len(<<b>>) = 1 /\ <<b>>[1] = b
           /\ <<a, b>> \in Seq(S) /\ Len(<<a, b>>) = 2 /\ <<a, b>>[1] = a /\ <<a, b>>[2] = b
<1>1. <<a>> \o <<b>> = <<a, b>>
  <2> DEFINE s == <<a>> \o <<b>>
             t == <<a, b>>
  <2>1. s \in Seq(S) /\ Len(s) = 2 /\ s[1] = a /\ s[2] = b
    OBVIOUS
  <2>2. t \in Seq(S) /\ Len(t) = 2 /\ t[1] = a /\ t[2] = b
    OBVIOUS
  <2> HIDE DEF s, t
  <2>3. \A p \in 1..Len(s) : s[p] = t[p]
    <3>1. \A p \in 1..2 : p = 1 \/ p = 2
      OBVIOUS
    <3> QED BY <2>1, <2>2, <3>1
  <2>4. s = t
    BY <2>1, <2>2, <2>3, SameSeq
  <2> QED BY <2>4 DEF s, t
<1>2. <<>> \o <<b>> = <<b>>
  OBVIOUS
<1>3. <<b>> \in Seq(S) /\ Len(<<b>>) = 1 /\ <<b>>[1] = b
  OBVIOUS
<1>4. <<a, b>> \in Seq(S) /\ Len(<<a, b>>) = 2 /\ <<a, b>>[1] = a /\ <<a, b>>[2] = b
  OBVIOUS
<1> QED BY <1>1, <1>2, <1>3, <1>4, Zenon

LEMMA SaidOf ==
    ASSUME NEW arg \in Argument
    PROVE  /\ Said(arg) \in Seq(Magics) /\ Len(Said(arg)) = Width(arg)
           /\ arg.array => Said(arg)[1] = "array" /\ Said(arg)[2] = Magic(arg.type)
           /\ ~arg.array => Said(arg)[1] = Magic(arg.type)
           /\ Said(arg) = IF arg.array THEN <<"array", Magic(arg.type)>> ELSE <<Magic(arg.type)>>
<1> DEFINE m == Magic(arg.type)
<1>1. m \in Magics
  BY MagicOf
<1> HIDE DEF m
<1>a. "array" \in Magics
  BY DEF Magics
<1>2. CASE arg.array
  <2>1. Said(arg) = <<"array">> \o <<m>>
    BY <1>2 DEF Said, m
  <2>2. Said(arg) = <<"array", m>>
    BY <1>1, <2>1, <1>a, Pair
  <2>3. Said(arg) \in Seq(Magics) /\ Len(Said(arg)) = 2 /\ Said(arg)[1] = "array" /\ Said(arg)[2] = m
    <3>1. <<"array", m>> \in Seq(Magics) /\ Len(<<"array", m>>) = 2
          /\ <<"array", m>>[1] = "array" /\ <<"array", m>>[2] = m
      BY <1>1, <1>a, Pair, Zenon
    <3> QED BY <2>2, <3>1, Zenon
  <2> QED BY <1>2, <2>2, <2>3 DEF Width, m
<1>3. CASE ~arg.array
  <2>1. Said(arg) = <<>> \o <<m>>
    BY <1>3 DEF Said, m
  <2>2. Said(arg) = <<m>>
    BY <1>1, <2>1
  <2>3. Said(arg) \in Seq(Magics) /\ Len(Said(arg)) = 1 /\ Said(arg)[1] = m
    BY <1>1, <2>2, Pair, Zenon
  <2> QED BY <1>3, <2>2, <2>3 DEF Width, m
<1> QED BY <1>2, <1>3

(* The table's line and what a sender gives are cut at the same places.       *)
LEMMA ParamsParts ==
    ASSUME NEW args \in Seq(Argument)
    PROVE  /\ Params(args) \in Seq(Magics)
           /\ \E off : /\ Ends(off, Widths(args), Len(args))
                       /\ PartsOf(Params(args), [i \in 1..Len(args) |-> Said(args[i])], off)
<1> DEFINE N == Len(args)
           ss == [i \in 1..N |-> Said(args[i])]
<1>1. N \in Nat /\ DOMAIN args = 1..N /\ \A i \in 1..N : args[i] \in Argument
  OBVIOUS
<1>2. Params(args) = FlattenSeq(ss)
  BY <1>1 DEF Params, Said
<1>3. \A i \in 1..N : ss[i] \in Seq(Magics) /\ Len(ss[i]) = Widths(args)[i]
  BY <1>1, SaidOf DEF Widths
<1>4. ss \in Seq(Seq(Magics)) /\ Len(ss) = N
  BY <1>1, <1>3
<1> HIDE DEF ss
<1>5. FlattenSeq(ss) \in Seq(Magics)
  BY <1>4, Flattened
<1>6. PICK off : PartsOf(FlattenSeq(ss), ss, off)
  BY <1>4, Flattened
<1>7. Ends(off, Widths(args), N)
  <2>1. Widths(args) \in [1..N -> Nat]
    BY DEF Widths, Width
  <2> QED BY <1>3, <1>4, <1>6, <2>1 DEF PartsOf, Ends
<1> QED BY <1>2, <1>5, <1>6, <1>7 DEF ss

LEMMA HandedParts ==
    ASSUME NEW args \in Seq(Argument), NEW values, Fits(args, values)
    PROVE  \E off : /\ Ends(off, Widths(args), Len(args))
                    /\ PartsOf(CArguments(args, values), [i \in 1..Len(args) |-> Handed(args[i], values[i])], off)
<1> DEFINE N == Len(args)
           ss == [i \in 1..N |-> Handed(args[i], values[i])]
           S == {values[i] : i \in 1..N} \cup {Len(values[i]) : i \in 1..N}
<1>1. N \in Nat /\ DOMAIN args = 1..N
  OBVIOUS
<1>2. CArguments(args, values) = FlattenSeq(ss)
  BY <1>1 DEF CArguments, Handed
<1>3. ASSUME NEW i \in 1..N PROVE ss[i] \in Seq(S) /\ Len(ss[i]) = Widths(args)[i]
  <2>1. values[i] \in S /\ Len(values[i]) \in S
    OBVIOUS
  <2>2. ss[i] = Handed(args[i], values[i]) /\ Widths(args)[i] = Width(args[i])
    BY DEF Widths
  <2> HIDE DEF S, ss
  <2> QED BY <2>1, <2>2 DEF Handed, Width
<1> HIDE DEF S
<1>4. ss \in Seq(Seq(S)) /\ Len(ss) = N
  BY <1>1, <1>3
<1> HIDE DEF ss
<1>6. PICK off : PartsOf(FlattenSeq(ss), ss, off)
  BY <1>4, Flattened
<1>7. Ends(off, Widths(args), N)
  <2>1. Widths(args) \in [1..N -> Nat]
    BY DEF Widths, Width
  <2> QED BY <1>3, <1>4, <1>6, <2>1 DEF PartsOf, Ends
<1> QED BY <1>2, <1>6, <1>7 DEF ss

(* Where the parameters of an argument stand in the table and in a call.      *)
Chopped(off, args, values, params, given) ==
    /\ Ends(off, Widths(args), Len(args)) /\ Len(params) = off[Len(args)]
    /\ \A i \in 1..Len(args) :
        /\ args[i].array =>
            /\ params[off[i - 1] + 1] = "array" /\ params[off[i - 1] + 2] = Magic(args[i].type)
            /\ given[off[i - 1] + 1] = values[i] /\ given[off[i - 1] + 2] = Len(values[i])
        /\ ~args[i].array =>
            /\ params[off[i - 1] + 1] = Magic(args[i].type) /\ given[off[i - 1] + 1] = values[i]

(* So call finds at every place what belongs to the argument.                 *)
LEMMA Chop ==
    ASSUME NEW args \in Seq(Argument), NEW values, Fits(args, values)
    PROVE  \E off : Chopped(off, args, values, Params(args), CArguments(args, values))
<1> DEFINE N == Len(args)
           said == [i \in 1..N |-> Said(args[i])]
           handed == [i \in 1..N |-> Handed(args[i], values[i])]
           params == Params(args)
           given == CArguments(args, values)
<1>1. N \in Nat /\ \A i \in 1..N : args[i] \in Argument
  OBVIOUS
<1>2. PICK off : Ends(off, Widths(args), N) /\ PartsOf(params, said, off)
  BY ParamsParts
<1>3. PICK on : Ends(on, Widths(args), N) /\ PartsOf(given, handed, on)
  BY HandedParts
<1>4. on = off
  BY <1>1, <1>2, <1>3, SameEnds
<1>5. Len(said) = N /\ Len(handed) = N
  BY <1>1
<1> HIDE DEF params, given
<1>6. ASSUME NEW i \in 1..N, args[i].array
      PROVE  /\ params[off[i - 1] + 1] = "array" /\ params[off[i - 1] + 2] = Magic(args[i].type)
             /\ given[off[i - 1] + 1] = values[i] /\ given[off[i - 1] + 2] = Len(values[i])
  <2>1. said[i] = Said(args[i]) /\ handed[i] = <<values[i], Len(values[i])>>
    BY <1>6 DEF Handed
  <2>2. Len(said[i]) = 2 /\ said[i][1] = "array" /\ said[i][2] = Magic(args[i].type)
    BY <1>1, <1>6, <2>1, SaidOf DEF Width
  <2>3. Len(handed[i]) = 2 /\ handed[i][1] = values[i] /\ handed[i][2] = Len(values[i])
    BY <2>1
  <2> HIDE DEF said, handed
  <2>4. 1 \in 1..2 /\ 2 \in 1..2
    OBVIOUS
  <2>5. \A k \in 1..2 : params[off[i - 1] + k] = said[i][k]
    BY <1>2, <1>5, <2>2 DEF PartsOf
  <2>6. \A k \in 1..2 : given[off[i - 1] + k] = handed[i][k]
    BY <1>3, <1>4, <1>5, <2>3 DEF PartsOf
  <2> QED BY <2>2, <2>3, <2>4, <2>5, <2>6
<1>7. ASSUME NEW i \in 1..N, ~args[i].array
      PROVE  params[off[i - 1] + 1] = Magic(args[i].type) /\ given[off[i - 1] + 1] = values[i]
  <2>1. said[i] = Said(args[i]) /\ handed[i] = <<values[i]>>
    BY <1>7 DEF Handed
  <2>2. Len(said[i]) = 1 /\ said[i][1] = Magic(args[i].type)
    BY <1>1, <1>7, <2>1, SaidOf DEF Width
  <2>3. Len(handed[i]) = 1 /\ handed[i][1] = values[i]
    BY <2>1
  <2> HIDE DEF said, handed
  <2>4. 1 \in 1..1
    OBVIOUS
  <2>5. \A k \in 1..1 : params[off[i - 1] + k] = said[i][k]
    BY <1>2, <1>5, <2>2 DEF PartsOf
  <2>6. \A k \in 1..1 : given[off[i - 1] + k] = handed[i][k]
    BY <1>3, <1>4, <1>5, <2>3 DEF PartsOf
  <2> QED BY <2>2, <2>3, <2>4, <2>5, <2>6
<1>8. Len(params) = off[N]
  <2> HIDE DEF said
  <2> QED BY <1>2, <1>5 DEF PartsOf
<1> QED BY <1>2, <1>6, <1>7, <1>8 DEF Chopped, params, given

(* One argument on the wire.                                                  *)
Piece(arg, v) ==
    [magics |-> IF arg.array THEN <<"array", Magic(arg.type)>> ELSE <<Magic(arg.type)>>, value |-> v]

(* One step of the loop in call.                                              *)
Cell(params, given, i) ==
    IF params[i] = "array"
    THEN <<[magics |-> <<"array", params[i + 1]>>, value |-> SubSeq(given[i], 1, given[i + 1])]>>
    ELSE IF i > 1 /\ params[i - 1] = "array" THEN <<>>
    ELSE <<[magics |-> <<params[i]>>, value |-> given[i]]>>

(* The first place of an argument makes the piece, the second of an array     *)
(* none.                                                                      *)
LEMMA Cells ==
    ASSUME NEW args \in Seq(Argument), NEW values, Fits(args, values),
           NEW params, NEW given, NEW off, Chopped(off, args, values, params, given),
           NEW i \in 1..Len(args)
    PROVE  /\ off[i - 1] \in Nat /\ off[i] \in Nat /\ off[i] <= Len(params)
           /\ Cell(params, given, off[i - 1] + 1) = <<Piece(args[i], values[i])>>
           /\ args[i].array => off[i] = off[i - 1] + 2 /\ Cell(params, given, off[i - 1] + 2) = <<>>
           /\ ~args[i].array => off[i] = off[i - 1] + 1
<1> DEFINE N == Len(args)
           j == off[i - 1] + 1
<1>1. N \in Nat /\ \A k \in 1..N : args[k] \in Argument
  OBVIOUS
<1>2. \A k \in 1..N : Magic(args[k].type) # "array"
  BY <1>1, MagicOf
<1>3. \A k \in 1..N : /\ off[k - 1] \in Nat /\ off[k] \in Nat
                      /\ off[k] = off[k - 1] + Width(args[k])
  BY <1>1, SMTT(30) DEF Chopped, Ends, Widths
<1>4. ASSUME NEW k \in 1..N PROVE params[off[k]] # "array"
  <2>1. CASE args[k].array
    <3>1. off[k] = off[k - 1] + 2
      BY <1>3, <2>1 DEF Width
    <3> QED BY <1>2, <2>1, <3>1 DEF Chopped
  <2>2. CASE ~args[k].array
    <3>1. off[k] = off[k - 1] + 1
      BY <1>3, <2>2 DEF Width
    <3> QED BY <1>2, <2>2, <3>1 DEF Chopped
  <2> QED BY <2>1, <2>2
<1>5. ~(j > 1 /\ params[j - 1] = "array")
  <2>1. SUFFICES ASSUME j > 1, params[j - 1] = "array" PROVE FALSE
    OBVIOUS
  <2>2. j - 1 = off[i - 1]
    BY <1>3
  <2>3. i # 1
    <3>1. i = 1 => off[i - 1] = 0
      BY DEF Chopped, Ends
    <3> QED BY <2>1, <3>1
  <2>4. i - 1 \in 1..N
    BY <1>1, <2>3
  <2> QED BY <1>4, <2>1, <2>2, <2>4
<1>6. off[i] <= Len(params)
  <2> DEFINE A == {n \in Nat : n <= N => \A k \in 1..n : off[k] <= off[n]}
  <2>1. 0 \in A
    OBVIOUS
  <2>2. ASSUME NEW n \in Nat, n \in A PROVE n + 1 \in A
    <3>1. ASSUME n + 1 <= N, NEW k \in 1..(n + 1) PROVE off[k] <= off[n + 1]
      <4>1. n + 1 \in 1..N /\ (n + 1) - 1 = n
        BY <1>1, <3>1
      <4>2. off[n] \in Nat /\ off[n + 1] \in Nat /\ off[n] <= off[n + 1]
        <5>1. off[n] \in Nat /\ off[n + 1] \in Nat /\ off[n + 1] = off[n] + Width(args[n + 1])
          BY <1>3, <4>1
        <5> QED BY <5>1 DEF Width
      <4>3. CASE k = n + 1
        BY <4>2, <4>3
      <4>4. CASE k # n + 1
        <5>1. k \in 1..n /\ k \in 1..N /\ n <= N
          BY <1>1, <3>1, <4>4
        <5>2. off[k] <= off[n] /\ off[k] \in Nat
          BY <1>3, <2>2, <5>1
        <5> QED BY <4>2, <5>2
      <4> QED BY <4>3, <4>4
    <3> QED BY <3>1
  <2> HIDE DEF A
  <2>3. N \in A
    BY <1>1, <2>1, <2>2, Induction
  <2> QED BY <1>1, <2>3 DEF A, Chopped
<1>7. CASE args[i].array
  <2>1. params[j] = "array" /\ given[j] = values[i]
    BY <1>7 DEF Chopped
  <2>2. params[j + 1] = Magic(args[i].type) /\ given[j + 1] = Len(values[i])
    <3>1. j + 1 = off[i - 1] + 2
      BY <1>3
    <3> QED BY <1>7, <3>1 DEF Chopped
  <2>3. SubSeq(values[i], 1, Len(values[i])) = values[i]
    <3>1. values[i] \in Seq({values[i][k] : k \in DOMAIN values[i]})
      BY <1>7 DEF Fits
    <3>2. \A S : \A s \in Seq(S) : SubSeq(s, 1, Len(s)) = s
      OBVIOUS
    <3> QED BY <3>1, <3>2, Zenon
  <2> HIDE DEF j
  <2>4. Cell(params, given, j) = <<Piece(args[i], values[i])>>
    BY <1>7, <2>1, <2>2, <2>3 DEF Cell, Piece
  <2> USE DEF j
  <2>5. off[i - 1] \in Nat /\ off[i] = off[i - 1] + 2
    BY <1>3, <1>7 DEF Width
  <2> DEFINE n == off[i - 1] + 2
  <2>6. n > 1 /\ n - 1 = j
    BY <2>5
  <2>7. params[n] # "array"
    BY <1>4, <2>5
  <2> HIDE DEF n, j
  <2>8. Cell(params, given, n) = <<>>
    BY <2>1, <2>6, <2>7 DEF Cell
  <2> QED BY <1>3, <1>6, <1>7, <2>4, <2>5, <2>8 DEF n, j
<1>8. CASE ~args[i].array
  <2>1. params[j] = Magic(args[i].type) /\ given[j] = values[i]
    BY <1>8 DEF Chopped
  <2>2. params[j] # "array"
    BY <1>2, <2>1
  <2>3. off[i - 1] \in Nat /\ off[i] = off[i - 1] + 1
    BY <1>3, <1>8 DEF Width
  <2> HIDE DEF j
  <2>4. Cell(params, given, j) = <<Piece(args[i], values[i])>>
    BY <1>5, <1>8, <2>1, <2>2 DEF Cell, Piece
  <2> QED BY <1>3, <1>6, <1>8, <2>3, <2>4 DEF j
<1> QED BY <1>7, <1>8

(* What call puts on the wire are the arguments, one by one.                  *)
LEMMA MarshalledPieces ==
    ASSUME NEW args \in Seq(Argument), NEW values, Fits(args, values)
    PROVE  Marshalled(Params(args), CArguments(args, values)) = [i \in 1..Len(args) |-> Piece(args[i], values[i])]
<1> DEFINE N == Len(args)
           params == Params(args)
           given == CArguments(args, values)
           S == {[magics |-> <<"array", params[i + 1]>>, value |-> SubSeq(given[i], 1, given[i + 1])] : i \in DOMAIN params}
                    \cup {[magics |-> <<params[i]>>, value |-> given[i]] : i \in DOMAIN params}
           cells == [i \in DOMAIN params |-> Cell(params, given, i)]
<1>1. PICK off : Chopped(off, args, values, params, given)
  BY Chop
<1>2. N \in Nat
  OBVIOUS
<1>3. params \in Seq(Magics)
  BY ParamsParts
<1>4. Marshalled(params, given) = FlattenSeq(cells)
  BY DEF Marshalled, Cell
<1> HIDE DEF params, given
<1>5. Len(params) \in Nat /\ DOMAIN params = 1..Len(params)
  BY <1>3
<1>6. \A i \in DOMAIN params : Cell(params, given, i) \in Seq(S)
  <2>1. ASSUME NEW i \in DOMAIN params PROVE Cell(params, given, i) \in Seq(S)
    <3> DEFINE a == [magics |-> <<"array", params[i + 1]>>, value |-> SubSeq(given[i], 1, given[i + 1])]
               b == [magics |-> <<params[i]>>, value |-> given[i]]
    <3>1. a \in S /\ b \in S
      OBVIOUS
    <3>2. Cell(params, given, i) \in {<<a>>, <<>>, <<b>>}
      BY DEF Cell
    <3> HIDE DEF a, b, S
    <3>3. <<a>> \in Seq(S) /\ <<b>> \in Seq(S) /\ <<>> \in Seq(S)
      BY <3>1
    <3> QED BY <3>2, <3>3
  <2> QED BY <2>1
<1> HIDE DEF S
<1>7. cells \in Seq(Seq(S)) /\ Len(cells) = Len(params) /\ \A i \in 1..Len(params) : cells[i] = Cell(params, given, i)
  BY <1>5, <1>6
<1> HIDE DEF cells
<1> DEFINE flat == FlattenSeq(cells)
<1>8. flat \in Seq(S)
  BY <1>7, Flattened
<1>9. PICK on : PartsOf(flat, cells, on)
  BY <1>7, Flattened
<1> HIDE DEF flat, N
<1>10. ASSUME NEW i \in 1..N
       PROVE  /\ off[i - 1] \in Nat /\ off[i] \in Nat /\ off[i] <= Len(params)
              /\ cells[off[i - 1] + 1] = <<Piece(args[i], values[i])>>
              /\ off[i - 1] + 1 \in 1..Len(params) /\ off[i] \in 0..Len(params)
              /\ args[i].array => off[i] = off[i - 1] + 2 /\ cells[off[i - 1] + 2] = <<>>
              /\ ~args[i].array => off[i] = off[i - 1] + 1
  <2>1. /\ off[i - 1] \in Nat /\ off[i] \in Nat /\ off[i] <= Len(params)
        /\ Cell(params, given, off[i - 1] + 1) = <<Piece(args[i], values[i])>>
        /\ args[i].array => off[i] = off[i - 1] + 2 /\ Cell(params, given, off[i - 1] + 2) = <<>>
        /\ ~args[i].array => off[i] = off[i - 1] + 1
    BY <1>1, Cells DEF N
  <2>2. /\ off[i - 1] + 1 \in 1..Len(params) /\ off[i] \in 0..Len(params)
        /\ args[i].array => off[i - 1] + 2 \in 1..Len(params)
    BY <1>5, <2>1
  <2>3. cells[off[i - 1] + 1] = <<Piece(args[i], values[i])>>
    BY <1>7, <2>1, <2>2
  <2>4. args[i].array => cells[off[i - 1] + 2] = <<>>
    BY <1>7, <2>1, <2>2
  <2> QED BY <2>1, <2>2, <2>3, <2>4, Zenon
<1>11. ASSUME NEW i \in 1..N
       PROVE  on[off[i - 1]] \in Nat /\ on[off[i]] = on[off[i - 1]] + 1 /\ flat[on[off[i - 1]] + 1] = Piece(args[i], values[i])
  <2> DEFINE j == off[i - 1] + 1
  <2>1. j \in 1..Len(params) /\ j - 1 = off[i - 1] /\ j - 1 \in 0..Len(params) /\ cells[j] = <<Piece(args[i], values[i])>>
    <3>1. off[i - 1] \in Nat /\ off[i - 1] + 1 \in 1..Len(params) /\ cells[off[i - 1] + 1] = <<Piece(args[i], values[i])>>
      BY <1>10
    <3>2. j - 1 = off[i - 1] /\ j - 1 \in 0..Len(params)
      BY <1>5, <3>1
    <3> QED BY <3>1, <3>2, Zenon
  <2>2. Len(cells[j]) = 1 /\ cells[j][1] = Piece(args[i], values[i])
    BY <2>1
  <2> HIDE DEF j
  <2>3. on[j - 1] \in Nat /\ on[j] = on[j - 1] + 1 /\ flat[on[j - 1] + 1] = cells[j][1]
    <3>1. 1 \in 1..1
      OBVIOUS
    <3> QED BY <1>7, <1>9, <2>1, <2>2, <3>1 DEF PartsOf
  <2>4. CASE ~args[i].array
    <3>1. off[i] = j
      BY <1>10, <2>4 DEF j
    <3> QED BY <2>1, <2>2, <2>3, <3>1
  <2>5. CASE args[i].array
    <3>1. off[i] = j + 1 /\ cells[j + 1] = <<>>
      BY <1>10, <2>5 DEF j
    <3>2. j + 1 \in 1..Len(params) /\ (j + 1) - 1 = j /\ Len(cells[j + 1]) = 0
      BY <1>10, <1>5, <2>1, <3>1
    <3>3. on[j + 1] = on[j] + 0
      BY <1>7, <1>9, <3>2 DEF PartsOf
    <3> QED BY <2>1, <2>2, <2>3, <3>1, <3>3
  <2> QED BY <2>4, <2>5
<1> DEFINE A == {n \in Nat : n <= N => on[off[n]] = n}
<1>12. Nat \subseteq A
  <2>1. 0 \in A
    BY <1>1, <1>9 DEF Chopped, Ends, PartsOf
  <2>2. ASSUME NEW n \in Nat, n \in A PROVE n + 1 \in A
    <3>1. ASSUME n + 1 <= N PROVE on[off[n + 1]] = n + 1
      <4>1. n + 1 \in 1..N /\ (n + 1) - 1 = n /\ on[off[n]] = n
        BY <1>2, <2>2, <3>1
      <4> QED BY <1>11, <4>1
    <3> QED BY <3>1
  <2> HIDE DEF A
  <2> QED BY <2>1, <2>2, Induction
<1>13. Len(flat) = N
  <2>1. Len(flat) = on[Len(params)] /\ Len(params) = off[N]
    BY <1>1, <1>7, <1>9 DEF Chopped, PartsOf, N
  <2>2. N \in Nat /\ on[off[N]] = N
    BY <1>2, <1>12 DEF N
  <2> QED BY <2>1, <2>2
<1>14. ASSUME NEW i \in 1..N PROVE flat[i] = Piece(args[i], values[i])
  <2>1. i - 1 \in Nat /\ i - 1 <= N /\ (i - 1) + 1 = i
    BY <1>2 DEF N
  <2>2. on[off[i - 1]] = i - 1
    BY <1>12, <2>1
  <2> QED BY <1>11, <2>1, <2>2
<1>15. flat = [i \in 1..N |-> Piece(args[i], values[i])]
  BY <1>8, <1>13, <1>14
<1> QED BY <1>4, <1>15 DEF flat, N, params, given

(* Sequences by their elements.                                               *)
LEMMA Elements ==
    ASSUME NEW S, NEW s \in Seq(S)
    PROVE  Len(s) \in Nat /\ DOMAIN s = 1..Len(s) /\ s = [k \in 1..Len(s) |-> s[k]]
OBVIOUS

LEMMA Widened ==
    ASSUME NEW A, NEW B, A \subseteq B, NEW s \in Seq(A)
    PROVE  s \in Seq(B)
<1>1. Len(s) \in Nat /\ s = [k \in 1..Len(s) |-> s[k]] /\ \A k \in 1..Len(s) : s[k] \in A
  BY Elements
<1>2. [k \in 1..Len(s) |-> s[k]] \in Seq(B)
  BY <1>1
<1> QED BY <1>1, <1>2

LEMMA Joined ==
    ASSUME NEW S, NEW s \in Seq(S), NEW t \in Seq(S)
    PROVE  /\ s \o t \in Seq(S) /\ Len(s) \in Nat /\ Len(t) \in Nat /\ Len(s \o t) = Len(s) + Len(t)
           /\ \A k \in 1..Len(s) : (s \o t)[k] = s[k]
           /\ \A k \in 1..Len(t) : (s \o t)[Len(s) + k] = t[k]
OBVIOUS

(* What a call puts on the wire: the sequence if it returns something, and    *)
(* its arguments.                                                             *)
Carries(payload, ret, args, values) ==
    /\ ret = <<>> \/ \E q \in Nat : ret = <<q>>
    /\ payload = [k \in 1..(Len(ret) + Len(args)) |->
                    IF k <= Len(ret) THEN [magics |-> <<"seq">>, value |-> ret[k]]
                    ELSE Piece(args[k - Len(ret)], values[k - Len(ret)])]

(* A call carries what it was made with.                                      *)
LEMMA CallCarries ==
    ASSUME NEW args \in Seq(Argument), NEW values, Fits(args, values), NEW ret,
           ret = <<>> \/ \E q \in Nat : ret = <<q>>
    PROVE  Carries([k \in DOMAIN ret |-> [magics |-> <<"seq">>, value |-> ret[k]]]
                       \o Marshalled(Params(args), CArguments(args, values)), ret, args, values)
<1> DEFINE N == Len(args)
           back == [i \in 1..N |-> Piece(args[i], values[i])]
           front == [k \in DOMAIN ret |-> [magics |-> <<"seq">>, value |-> ret[k]]]
           S == {Piece(args[i], values[i]) : i \in 1..N} \cup {[magics |-> <<"seq">>, value |-> ret[k]] : k \in DOMAIN ret}
<1>1. Marshalled(Params(args), CArguments(args, values)) = back
  BY MarshalledPieces
<1>2. N \in Nat
  OBVIOUS
<1>3. back \in Seq(S) /\ Len(back) = N /\ \A i \in 1..N : back[i] = Piece(args[i], values[i])
  BY <1>2
<1>4. front \in Seq(S) /\ Len(front) = Len(ret) /\ Len(ret) \in Nat /\ DOMAIN ret = 1..Len(ret)
      /\ \A k \in 1..Len(ret) : front[k] = [magics |-> <<"seq">>, value |-> ret[k]]
  <2>1. Len(ret) \in Nat /\ DOMAIN ret = 1..Len(ret)
    OBVIOUS
  <2>2. \A k \in DOMAIN ret : [magics |-> <<"seq">>, value |-> ret[k]] \in S
    OBVIOUS
  <2> HIDE DEF S
  <2> QED BY <2>1, <2>2
<1> HIDE DEF back, front, S, N
<1> DEFINE both == front \o back
<1>5. /\ both \in Seq(S) /\ Len(both) = Len(ret) + N
      /\ \A k \in 1..Len(ret) : both[k] = front[k]
      /\ \A k \in 1..N : both[Len(ret) + k] = back[k]
  <2>1. front \in Seq(S) /\ back \in Seq(S) /\ Len(front) = Len(ret) /\ Len(back) = N
    BY <1>3, <1>4
  <2>2. /\ both \in Seq(S) /\ Len(both) = Len(front) + Len(back)
        /\ \A k \in 1..Len(front) : both[k] = front[k]
        /\ \A k \in 1..Len(back) : both[Len(front) + k] = back[k]
    <3>1. front \o back \in Seq(S) /\ Len(front \o back) = Len(front) + Len(back)
      BY <2>1, Joined
    <3>2. \A k \in 1..Len(front) : (front \o back)[k] = front[k]
      BY <2>1, Joined
    <3>3. \A k \in 1..Len(back) : (front \o back)[Len(front) + k] = back[k]
      BY <2>1, Joined
    <3> QED BY <3>1, <3>2, <3>3, Zenon
  <2> QED BY <2>1, <2>2, Zenon
<1> HIDE DEF both
<1>6. ASSUME NEW k \in 1..(Len(ret) + N)
      PROVE  both[k] = IF k <= Len(ret) THEN [magics |-> <<"seq">>, value |-> ret[k]]
                       ELSE Piece(args[k - Len(ret)], values[k - Len(ret)])
  <2>1. CASE k <= Len(ret)
    <3>1. k \in 1..Len(ret)
      BY <1>2, <1>4, <2>1
    <3> QED BY <1>4, <1>5, <2>1, <3>1
  <2>2. CASE ~(k <= Len(ret))
    <3> DEFINE i == k - Len(ret)
    <3>1. i \in 1..N /\ k = Len(ret) + i
      BY <1>2, <1>4, <2>2
    <3> HIDE DEF i
    <3>2. both[k] = Piece(args[i], values[i])
      BY <1>3, <1>5, <3>1
    <3> QED BY <2>2, <3>2 DEF i
  <2> QED BY <2>1, <2>2
<1>7. both = [k \in 1..(Len(ret) + N) |-> both[k]]
  BY <1>5, Elements, Zenon
<1>8. both = [k \in 1..(Len(ret) + N) |->
                 IF k <= Len(ret) THEN [magics |-> <<"seq">>, value |-> ret[k]]
                 ELSE Piece(args[k - Len(ret)], values[k - Len(ret)])]
  BY <1>6, <1>7
<1> QED BY <1>1, <1>8 DEF Carries, both, front, N

(* A piece says of its argument what the table says.                          *)
LEMMA PieceOf ==
    ASSUME NEW arg \in Argument, NEW v
    PROVE  /\ Piece(arg, v).magics = Said(arg) /\ Piece(arg, v).value = v
           /\ Piece(arg, v).magics[1] = "array" <=> arg.array
<1>1. Said(arg) = IF arg.array THEN <<"array", Magic(arg.type)>> ELSE <<Magic(arg.type)>>
  BY SaidOf
<1>2. Piece(arg, v).magics = Said(arg) /\ Piece(arg, v).value = v
  BY <1>1 DEF Piece
<1>3. CASE arg.array
  <2>1. Said(arg)[1] = "array"
    BY <1>3, SaidOf
  <2> QED BY <1>2, <1>3, <2>1
<1>4. CASE ~arg.array
  <2>1. Said(arg)[1] # "array"
    BY <1>4, SaidOf, MagicOf
  <2> QED BY <1>2, <1>4, <2>1
<1> QED BY <1>3, <1>4

(* A payload without a sequence, and one with it.                             *)
Plain(payload, args, values) ==
    /\ DOMAIN payload = 1..Len(args)
    /\ \A i \in 1..Len(args) : payload[i] = Piece(args[i], values[i])
Numbered(payload, q, args, values) ==
    /\ payload[1] = [magics |-> <<"seq">>, value |-> q]
    /\ DOMAIN payload = 1..(Len(args) + 1)
    /\ \A i \in 2..(Len(args) + 1) : payload[i] = Piece(args[i - 1], values[i - 1])

LEMMA CarriesParts ==
    ASSUME NEW args \in Seq(Argument), NEW payload, NEW ret, NEW values, Carries(payload, ret, args, values)
    PROVE  \/ ret = <<>> /\ Plain(payload, args, values)
           \/ \E q \in Nat : ret = <<q>> /\ Numbered(payload, q, args, values)
<1> DEFINE N == Len(args)
<1>1. N \in Nat
  OBVIOUS
<1> HIDE DEF N
<1>2. payload = [k \in 1..(Len(ret) + N) |->
                    IF k <= Len(ret) THEN [magics |-> <<"seq">>, value |-> ret[k]]
                    ELSE Piece(args[k - Len(ret)], values[k - Len(ret)])]
  BY DEF Carries, N
<1>3. CASE ret = <<>>
  <2>1. Len(ret) = 0 /\ 0 + N = N
    BY <1>1, <1>3
  <2>2. DOMAIN payload = 1..N
    BY <1>2, <2>1
  <2>3. \A i \in 1..N : ~(i <= 0) /\ i - 0 = i
    BY <1>1
  <2>4. \A i \in 1..N : payload[i] = Piece(args[i], values[i])
    BY <1>2, <2>1, <2>3
  <2> QED BY <1>3, <2>2, <2>4 DEF N, Plain
<1>4. CASE \E q \in Nat : ret = <<q>>
  <2>1. PICK q \in Nat : ret = <<q>>
    BY <1>4
  <2>2. Len(ret) = 1 /\ ret[1] = q /\ 1 + N = N + 1
    BY <1>1, <2>1
  <2>3. DOMAIN payload = 1..(N + 1)
    BY <1>2, <2>2
  <2>4. payload[1] = [magics |-> <<"seq">>, value |-> q]
    <3>1. 1 \in 1..(N + 1) /\ 1 <= 1
      BY <1>1
    <3> QED BY <1>2, <2>2, <3>1
  <2>5. \A i \in 2..(N + 1) : payload[i] = Piece(args[i - 1], values[i - 1])
    <3>1. \A i \in 2..(N + 1) : i \in 1..(N + 1) /\ ~(i <= 1)
      BY <1>1
    <3> QED BY <1>2, <2>2, <3>1
  <2> QED BY <2>1, <2>3, <2>4, <2>5 DEF N, Numbered
<1> QED BY <1>3, <1>4 DEF Carries

(* The types of a call are those the table has.                               *)
LEMMA Understood ==
    ASSUME NEW args \in Seq(Argument), NEW payload, NEW ret, NEW values, Carries(payload, ret, args, values)
    PROVE  IsPrefix((IF ret # <<>> THEN <<"seq">> ELSE <<>>) \o Params(args),
                    FlattenSeq([k \in DOMAIN payload |-> payload[k].magics]))
<1> DEFINE N == Len(args)
           said == [i \in 1..N |-> Said(args[i])]
           mm == [k \in DOMAIN payload |-> payload[k].magics]
<1>1. N \in Nat /\ DOMAIN args = 1..N /\ \A i \in 1..N : args[i] \in Argument
  OBVIOUS
<1>2. Params(args) = FlattenSeq(said)
  BY <1>1 DEF Params, Said
<1>3. \A i \in 1..N : said[i] \in Seq(Magics)
  BY <1>1, SaidOf
<1>4. said \in Seq(Seq(Magics)) /\ Len(said) = N
  BY <1>1, <1>3
<1>5. \A i \in 1..N : Piece(args[i], values[i]).magics = said[i]
  BY <1>1, PieceOf
<1>6. Params(args) \in Seq(Magics)
  BY ParamsParts
<1>7. \A s \in Seq(Magics) : IsPrefix(s, s)
  BY DEF IsPrefix
<1>8. CASE ret = <<>>
  <2>1. DOMAIN payload = 1..N /\ \A i \in 1..N : payload[i] = Piece(args[i], values[i])
    <3>1. ~(\E q \in Nat : ret = <<q>>)
      BY <1>8
    <3>2. Plain(payload, args, values)
      BY <3>1, CarriesParts
    <3> QED BY <3>2 DEF Plain
  <2>2. mm = said
    <3>1. \A i \in 1..N : payload[i].magics = said[i]
      BY <1>5, <2>1
    <3>2. said = [i \in 1..N |-> said[i]]
      BY <1>4
    <3> HIDE DEF said
    <3> QED BY <2>1, <3>1, <3>2
  <2>3. <<>> \o Params(args) = Params(args)
    BY <1>6
  <2> QED BY <1>2, <1>6, <1>7, <1>8, <2>2, <2>3
<1>9. CASE \E q \in Nat : ret = <<q>>
  <2>1. PICK q \in Nat : ret = <<q>>
    BY <1>9
  <2>2. ret # <<>>
    BY <2>1
  <2>3. /\ payload[1].magics = <<"seq">>
        /\ DOMAIN payload = 1..(N + 1)
        /\ \A i \in 2..(N + 1) : payload[i] = Piece(args[i - 1], values[i - 1])
    <3>1. PICK n \in Nat : ret = <<n>> /\ Numbered(payload, n, args, values)
      BY <2>2, CarriesParts
    <3> QED BY <3>1 DEF Numbered
  <2>4. \A k \in 1..(N + 1) : k = 1 \/ (k \in 2..(N + 1) /\ k - 1 \in 1..N /\ k # 1)
    BY <1>1
  <2>5. \A k \in 1..(N + 1) : payload[k].magics = IF k = 1 THEN <<"seq">> ELSE said[k - 1]
    <3> HIDE DEF said, N
    <3> QED BY <1>5, <2>3, <2>4
  <2>6. mm = [k \in 1..(Len(said) + 1) |-> IF k = 1 THEN <<"seq">> ELSE said[k - 1]]
    <3> HIDE DEF said, N
    <3> QED BY <1>4, <2>3, <2>5
  <2>7. <<"seq">> \in Seq(Magics)
    <3>1. "seq" \in Magics
      BY DEF Magics
    <3> QED BY <3>1, Pair
  <2> HIDE DEF mm, said
  <2>8. FlattenSeq(mm) = <<"seq">> \o FlattenSeq(said)
    BY <1>4, <2>6, <2>7, FlattenBehind
  <2>9. <<"seq">> \o Params(args) \in Seq(Magics)
    BY <1>6, <2>7
  <2> QED BY <1>2, <1>7, <2>2, <2>8, <2>9 DEF mm
<1> QED BY <1>8, <1>9 DEF Carries

(* What ffi passes is what the sender was called with, after the sequence.    *)
LEMMA PassedOn ==
    ASSUME NEW args \in Seq(Argument), NEW payload, NEW ret, NEW values, Carries(payload, ret, args, values)
    PROVE  /\ \E S : CArguments(args, values) \in Seq(S)
           /\ \/ ret = <<>> /\ Passed(payload) = CArguments(args, values)
              \/ \E q \in Nat : ret = <<q>> /\ Passed(payload) = <<q>> \o CArguments(args, values)
<1> DEFINE N == Len(args)
           handed == [i \in 1..N |-> Handed(args[i], values[i])]
           of(k) == IF payload[k].magics[1] = "array" THEN <<payload[k].value, Len(payload[k].value)>>
                    ELSE <<payload[k].value>>
           parts == [k \in DOMAIN payload |-> of(k)]
           S == ({values[i] : i \in 1..N} \cup {Len(values[i]) : i \in 1..N}) \cup Nat
<1>1. N \in Nat /\ DOMAIN args = 1..N /\ \A i \in 1..N : args[i] \in Argument
  OBVIOUS
<1>2. CArguments(args, values) = FlattenSeq(handed)
  BY <1>1 DEF CArguments, Handed
<1>3. Passed(payload) = FlattenSeq(parts)
  BY DEF Passed
<1>4. ASSUME NEW i \in 1..N PROVE handed[i] \in Seq(S)
  <2>1. values[i] \in S /\ Len(values[i]) \in S
    OBVIOUS
  <2>2. handed[i] = Handed(args[i], values[i])
    OBVIOUS
  <2> HIDE DEF S, handed
  <2> QED BY <2>1, <2>2, Pair DEF Handed
<1>n. Nat \subseteq S
  OBVIOUS
<1> HIDE DEF S
<1>5. handed \in Seq(Seq(S)) /\ Len(handed) = N
  BY <1>1, <1>4
<1>6. ASSUME NEW i \in 1..N, NEW k, payload[k] = Piece(args[i], values[i]) PROVE of(k) = handed[i]
  <2>1. payload[k].value = values[i] /\ (payload[k].magics[1] = "array" <=> args[i].array)
    BY <1>1, <1>6, PieceOf
  <2>2. handed[i] = Handed(args[i], values[i])
    OBVIOUS
  <2> HIDE DEF handed
  <2> QED BY <2>1, <2>2 DEF Handed
<1> HIDE DEF of
<1>a. CArguments(args, values) \in Seq(S)
  BY <1>2, <1>5, Flattened
<1>7. CASE ret = <<>>
  <2>1. DOMAIN payload = 1..N /\ \A i \in 1..N : payload[i] = Piece(args[i], values[i])
    <3>1. ~(\E q \in Nat : ret = <<q>>)
      BY <1>7
    <3>2. Plain(payload, args, values)
      BY <3>1, CarriesParts
    <3> QED BY <3>2 DEF Plain
  <2>2. \A i \in 1..N : of(i) = handed[i]
    BY <1>6, <2>1
  <2>3. handed = [i \in 1..N |-> handed[i]]
    BY <1>5
  <2> HIDE DEF handed
  <2>4. parts = handed
    BY <2>1, <2>2, <2>3
  <2> QED BY <1>2, <1>3, <1>7, <1>a, <2>4
<1>8. CASE \E q \in Nat : ret = <<q>>
  <2>1. ret # <<>>
    BY <1>8
  <2>2. PICK q \in Nat : ret = <<q>> /\ Numbered(payload, q, args, values)
    BY <2>1, CarriesParts
  <2>3. /\ DOMAIN payload = 1..(N + 1)
        /\ \A i \in 2..(N + 1) : payload[i] = Piece(args[i - 1], values[i - 1])
    BY <2>2 DEF Numbered
  <2>4. \A k \in 1..(N + 1) : k = 1 \/ (k \in 2..(N + 1) /\ k - 1 \in 1..N /\ k # 1)
    BY <1>1
  <2>5. of(1) = <<q>>
    <3>1. payload[1].value = q /\ payload[1].magics = <<"seq">>
      BY <2>2 DEF Numbered
    <3>2. payload[1].magics[1] # "array"
      <4>1. <<"seq">>[1] = "seq"
        OBVIOUS
      <4> QED BY <3>1, <4>1
    <3> QED BY <3>1, <3>2 DEF of
  <2> HIDE DEF handed, N
  <2>6. \A k \in 1..(N + 1) : of(k) = IF k = 1 THEN <<q>> ELSE handed[k - 1]
    BY <1>6, <2>3, <2>4, <2>5
  <2>7. parts = [k \in 1..(Len(handed) + 1) |-> IF k = 1 THEN <<q>> ELSE handed[k - 1]]
    BY <1>5, <2>3, <2>6
  <2>8. <<q>> \in Seq(S)
    BY <1>n, Pair
  <2> HIDE DEF parts
  <2>9. FlattenSeq(parts) = <<q>> \o FlattenSeq(handed)
    BY <1>5, <2>7, <2>8, FlattenBehind
  <2> QED BY <1>2, <1>3, <1>a, <2>2, <2>9
<1> QED BY <1>7, <1>8 DEF Carries

(* An argument stands behind those before it, of which an array takes two     *)
(* places.                                                                    *)
LEMMA Places ==
    ASSUME NEW args \in Seq(Argument), NEW off, Ends(off, Widths(args), Len(args)), NEW n \in 0..Len(args)
    PROVE  off[n] = n + Cardinality({j \in 1..n : args[j].array})
<1> DEFINE N == Len(args)
           Arrays(m) == {j \in 1..m : args[j].array}
           A == {m \in Nat : m <= N => IsFiniteSet(Arrays(m)) /\ off[m] = m + Cardinality(Arrays(m))}
<1>1. N \in Nat
  OBVIOUS
<1>2. 0 \in A
  <2>1. Arrays(0) = {}
    OBVIOUS
  <2>2. off[0] = 0
    BY DEF Ends
  <2> HIDE DEF Arrays
  <2>3. IsFiniteSet(Arrays(0)) /\ Cardinality(Arrays(0)) = 0
    BY <2>1, FS_EmptySet
  <2> QED BY <2>2, <2>3
<1>3. ASSUME NEW m \in Nat, m \in A PROVE m + 1 \in A
  <2>1. ASSUME m + 1 <= N PROVE IsFiniteSet(Arrays(m + 1)) /\ off[m + 1] = (m + 1) + Cardinality(Arrays(m + 1))
    <3>1. m + 1 \in 1..N /\ (m + 1) - 1 = m /\ m <= N
      BY <1>1, <2>1
    <3>2. off[m + 1] = off[m] + Width(args[m + 1])
      BY <3>1 DEF Ends, Widths
    <3>3. IsFiniteSet(Arrays(m)) /\ off[m] = m + Cardinality(Arrays(m))
      <4> HIDE DEF Arrays
      <4> QED BY <1>3, <3>1
    <3>4. Cardinality(Arrays(m)) \in Nat
      BY <3>3, FS_CardinalityType
    <3>5. m + 1 \notin Arrays(m)
      OBVIOUS
    <3>6. CASE args[m + 1].array
      <4>1. Arrays(m + 1) = Arrays(m) \cup {m + 1}
        BY <3>6
      <4> HIDE DEF Arrays
      <4>2. IsFiniteSet(Arrays(m + 1)) /\ Cardinality(Arrays(m + 1)) = Cardinality(Arrays(m)) + 1
        BY <3>3, <3>5, <4>1, FS_AddElement
      <4> QED BY <3>2, <3>3, <3>4, <3>6, <4>2 DEF Width
    <3>7. CASE ~args[m + 1].array
      <4>1. Arrays(m + 1) = Arrays(m)
        BY <3>7
      <4> HIDE DEF Arrays
      <4> QED BY <3>2, <3>3, <3>4, <3>7, <4>1 DEF Width
    <3> QED BY <3>6, <3>7
  <2> HIDE DEF Arrays
  <2> QED BY <2>1
<1> HIDE DEF A
<1>4. n \in A
  BY <1>2, <1>3, Induction
<1> QED BY <1>1, <1>4 DEF A

(* A stub makes of the parameters it is given the arguments of the call.      *)
LEMMA VectorsBack ==
    ASSUME NEW args \in Seq(Argument), NEW values, Fits(args, values), NEW first \in {0, 1}, NEW given,
           NEW S, CArguments(args, values) \in Seq(S),
           \A p \in 1..Len(CArguments(args, values)) : given[first + p] = CArguments(args, values)[p]
    PROVE  Vectors(args, given, first) = values
<1> DEFINE N == Len(args)
           handed == CArguments(args, values)
           at == [i \in DOMAIN args |-> first + i + Cardinality({j \in 1..(i - 1) : args[j].array})]
<1>1. N \in Nat /\ DOMAIN args = 1..N /\ \A i \in 1..N : args[i] \in Argument
  OBVIOUS
<1>2. PICK off : Chopped(off, args, values, Params(args), handed)
  BY Chop
<1>3. Ends(off, Widths(args), N)
  BY <1>2 DEF Chopped
<1>4. PICK on : Ends(on, Widths(args), N) /\ PartsOf(handed, [i \in 1..N |-> Handed(args[i], values[i])], on)
  BY HandedParts
<1>5. on = off
  BY <1>1, <1>3, <1>4, SameEnds
<1>6. ASSUME NEW i \in 1..N
      PROVE  /\ at[i] = first + (off[i - 1] + 1) /\ off[i - 1] \in Nat
             /\ off[i] = off[i - 1] + Width(args[i]) /\ off[i] <= Len(handed)
  <2>1. i - 1 \in 0..N
    BY <1>1
  <2> DEFINE c == Cardinality({j \in 1..(i - 1) : args[j].array})
  <2>2. off[i - 1] = (i - 1) + c
    BY <1>3, <2>1, Places
  <2>3. at[i] = first + i + c
    BY <1>1
  <2>4. off[i - 1] \in Nat
    BY <1>3, <2>1 DEF Ends
  <2> HIDE DEF c, at, handed
  <2>5. IsFiniteSet({j \in 1..(i - 1) : args[j].array})
    <3>1. IsFiniteSet(1..(i - 1)) /\ {j \in 1..(i - 1) : args[j].array} \subseteq 1..(i - 1)
      BY FS_Interval
    <3> QED BY <3>1, FS_Subset
  <2>6. c \in Nat
    BY <2>5, FS_CardinalityType DEF c
  <2>7. at[i] = first + (off[i - 1] + 1)
    BY <2>2, <2>3, <2>6
  <2>8. off[i] = off[i - 1] + Width(args[i])
    BY <1>3 DEF Ends, Widths
  <2>9. off[i] <= Len(handed)
    <3> DEFINE ss == [k \in 1..N |-> Handed(args[k], values[k])]
    <3>1. Len(ss) = N
      BY <1>1
    <3> HIDE DEF ss
    <3>2. PartsOf(handed, ss, off)
      BY <1>4, <1>5 DEF ss
    <3> QED BY <3>1, <3>2 DEF PartsOf
  <2> QED BY <2>4, <2>7, <2>8, <2>9
<1> HIDE DEF at
<1>7. ASSUME NEW i \in 1..N
      PROVE  (IF args[i].array THEN SubSeq(given[at[i]], 1, given[at[i] + 1]) ELSE given[at[i]]) = values[i]
  <2> DEFINE o == off[i - 1] + 1
  <2>1. at[i] = first + o /\ o \in Nat /\ o >= 1
    BY <1>6
  <2>2. CASE args[i].array
    <3>1. o \in 1..Len(handed) /\ o + 1 \in 1..Len(handed) /\ o + 1 = off[i - 1] + 2
      <4>1. off[i] = off[i - 1] + 2 /\ off[i - 1] \in Nat /\ off[i] <= Len(handed) /\ Len(handed) \in Nat
        BY <1>6, <2>2 DEF Width
      <4> HIDE DEF handed
      <4> QED BY <4>1, SMTT(30)
    <3>2. given[first + o] = handed[o] /\ given[first + (o + 1)] = handed[o + 1]
      BY <3>1
    <3>3. handed[o] = values[i] /\ handed[o + 1] = Len(values[i])
      <4> HIDE DEF handed
      <4> QED BY <1>2, <2>2, <3>1 DEF Chopped
    <3>4. at[i] + 1 = first + (o + 1)
      BY <2>1
    <3>5. SubSeq(values[i], 1, Len(values[i])) = values[i]
      <4>1. values[i] \in Seq({values[i][k] : k \in DOMAIN values[i]})
        BY <2>2 DEF Fits
      <4>2. \A T : \A s \in Seq(T) : SubSeq(s, 1, Len(s)) = s
        OBVIOUS
      <4> QED BY <4>1, <4>2, Zenon
    <3> HIDE DEF o, handed
    <3> QED BY <2>1, <2>2, <3>2, <3>3, <3>4, <3>5
  <2>3. CASE ~args[i].array
    <3>1. o \in 1..Len(handed)
      <4>1. off[i] = off[i - 1] + 1 /\ off[i - 1] \in Nat /\ off[i] <= Len(handed) /\ Len(handed) \in Nat
        BY <1>6, <2>3 DEF Width
      <4> HIDE DEF handed
      <4> QED BY <4>1
    <3>2. given[first + o] = handed[o]
      BY <3>1
    <3>3. handed[o] = values[i]
      <4> HIDE DEF handed
      <4> QED BY <1>2, <2>3 DEF Chopped
    <3> HIDE DEF o, handed
    <3> QED BY <2>1, <2>3, <3>2, <3>3
  <2> QED BY <2>2, <2>3
<1>8. Vectors(args, given, first) =
        [i \in 1..N |-> IF args[i].array THEN SubSeq(given[at[i]], 1, given[at[i] + 1]) ELSE given[at[i]]]
  BY <1>1, Zenon DEF Vectors, at
<1>9. values = [i \in 1..N |-> values[i]]
  BY DEF Fits
<1> QED BY <1>7, <1>8, <1>9

(* The listener is called with the sequence and the arguments.                *)
LEMMA HeardArguments ==
    ASSUME NEW method, method.args \in Seq(Argument), NEW payload, NEW ret, NEW values,
           Fits(method.args, values), Carries(payload, ret, method.args, values),
           ret # <<>> <=> method.side = "c2s" /\ method.returns
    PROVE  StubArguments(method, Passed(payload)) = ret \o values
<1> DEFINE args == method.args
           handed == CArguments(args, values)
           given == Passed(payload)
<1> HIDE DEF args
<1>1. args \in Seq(Argument) /\ Fits(args, values) /\ Carries(payload, ret, args, values)
  BY DEF args
<1>2. /\ \E S : handed \in Seq(S)
      /\ \/ ret = <<>> /\ given = handed
         \/ \E q \in Nat : ret = <<q>> /\ given = <<q>> \o handed
  BY <1>1, PassedOn
<1>s. PICK S : handed \in Seq(S)
  BY <1>2
<1> USE DEF handed
<1>v. ASSUME NEW first \in {0, 1}, \A p \in 1..Len(handed) : given[first + p] = handed[p]
      PROVE  Vectors(args, given, first) = values
  BY <1>1, <1>s, <1>v, VectorsBack, ZenonT(30)
<1> HIDE DEF given, handed
<1>3. \E V : values \in Seq(V)
  <2>1. values = [i \in 1..Len(args) |-> values[i]] /\ Len(args) \in Nat
    BY <1>1 DEF Fits
  <2>2. values \in Seq({values[i] : i \in 1..Len(args)})
    <3> DEFINE V == {values[i] : i \in 1..Len(args)}
    <3>1. \A i \in 1..Len(args) : values[i] \in V
      OBVIOUS
    <3> HIDE DEF V
    <3>2. [i \in 1..Len(args) |-> values[i]] \in Seq(V)
      BY <2>1, <3>1
    <3> QED BY <2>1, <3>2 DEF V
  <2> QED BY <2>2
<1>4. CASE ret = <<>>
  <2>1. given = handed
    BY <1>2, <1>4
  <2>2. \A p \in 1..Len(handed) : given[0 + p] = handed[p]
    BY <2>1
  <2>3. Vectors(args, given, 0) = values
    BY <1>v, <2>2
  <2>4. StubArguments(method, given) = Vectors(args, given, 0)
    BY <1>4 DEF StubArguments, args
  <2>5. <<>> \o values = values
    BY <1>3
  <2> QED BY <1>4, <2>3, <2>4, <2>5 DEF given
<1>5. CASE ret # <<>>
  <2>1. PICK q \in Nat : ret = <<q>> /\ given = <<q>> \o handed
    BY <1>2, <1>5
  <2> DEFINE T == S \cup {q}
  <2>2. handed \in Seq(T) /\ <<q>> \in Seq(T)
    <3>1. S \subseteq T /\ q \in T
      OBVIOUS
    <3> HIDE DEF T
    <3>2. <<q>> \in Seq(T)
      BY <3>1
    <3>3. handed \in Seq(T)
      <4> HIDE DEF handed
      <4> QED BY <1>s, <3>1, Widened
    <3> QED BY <3>2, <3>3
  <2> HIDE DEF T
  <2>3. given[1] = q
    BY <2>1, <2>2
  <2>4. \A p \in 1..Len(handed) : given[1 + p] = handed[p]
    <3>1. Len(<<q>>) = 1
      OBVIOUS
    <3>2. \A p \in 1..Len(handed) : given[Len(<<q>>) + p] = handed[p]
      BY <2>1, <2>2, Joined
    <3> QED BY <3>1, <3>2
  <2>5. Vectors(args, given, 1) = values
    BY <1>v, <2>4
  <2>6. StubArguments(method, given) = <<given[1]>> \o Vectors(args, given, 1)
    BY <1>5 DEF StubArguments, args
  <2> QED BY <2>1, <2>3, <2>5, <2>6 DEF given
<1> QED BY <1>4, <1>5

-----------------------------------------------------------------------------
(* The inductive invariant.                                                   *)
Method ==
    {m \in [side : Sides, name : Nat, since : Nat, args : Seq(Argument), returns : BOOLEAN, destructor : BOOLEAN] :
        \A i \in DOMAIN m.args : m.args[i].array =>
            \A v \in Values[m.args[i]] : v \in Seq({v[k] : k \in DOMAIN v})}

(* The document: no method is from a release that is still to come.           *)
DocumentInv ==
    /\ release \in Nat \ {0} /\ seq \in Nat
    /\ doc \in Seq(Method) /\ \A j \in 1..Len(doc) : doc[j].since \in 1..release

(* What a program was generated from is how the document began: it has the    *)
(* methods up to its version and none that came later.                        *)
Follows(program, document, side) ==
    LET mine == Scan(program.methods, side)
        all == Scan(document, side)
    IN /\ Len(mine) <= Len(all)
       /\ \A i \in 1..Len(mine) : mine[i] = all[i] /\ all[i].method.since <= program.specVer
       /\ \A i \in (Len(mine) + 1)..Len(all) : all[i].method.since > program.specVer
ProgramInv(program, document, next) ==
    /\ program.methods \in Seq(Method) /\ program.specVer \in Nat /\ program.specVer < next
    /\ \A side \in Sides : Follows(program, document, side)

(* Both programs know the version of the object, and nothing was said before  *)
(* there was one.                                                             *)
BoundInv ==
    /\ version \in Nat
    /\ version > 0 => /\ client # NoProgram /\ server # NoProgram
                      /\ version <= client.specVer /\ version <= server.specVer
    /\ wrapped => version > 0
    /\ version = 0 => \A side \in Sides : wire[side] = <<>> /\ issued[side] = <<>> /\ heard[side] = <<>>

(* A message on its way: the method it is of, which is not newer than the     *)
(* object, and the call it was made for.                                      *)
Sent(side, scanned, bound, msg, call) ==
    \E i \in DOMAIN scanned : \E ret, values :
        /\ msg.id = i - 1 /\ scanned[i].method.since <= bound
        /\ Fits(scanned[i].method.args, values) /\ Carries(msg.payload, ret, scanned[i].method.args, values)
        /\ ret # <<>> <=> side = "c2s" /\ scanned[i].method.returns
        /\ call = [name |-> scanned[i].method.name, args |-> ret \o values,
                   destructor |-> scanned[i].method.destructor]

IsSeq(s) == Len(s) \in Nat /\ s = [k \in 1..Len(s) |-> s[k]]

(* The calls that were made are those that were heard and those on their way; *)
(* of the events some may have come too early.                                *)
QueueInv(side, scanned, bound, ready, sent, made, got) ==
    /\ IsSeq(sent) /\ IsSeq(made) /\ IsSeq(got)
    /\ Len(got) + Len(sent) <= Len(made)
    /\ side = "c2s" => Len(got) + Len(sent) = Len(made)
    /\ side = "s2c" /\ ~ready => got = <<>>
    /\ \A i \in 1..Len(got) : got[i] = made[i + (Len(made) - Len(sent) - Len(got))]
    /\ \A p \in 1..Len(sent) : Sent(side, scanned, bound, sent[p], made[p + (Len(made) - Len(sent))])

(* The inductive invariant.                                                   *)
Queue(side) ==
    QueueInv(side, Scan(Sender(side), side), version, wrapped, wire[side], issued[side], heard[side])

StubsInv ==
    /\ DocumentInv /\ ProgramInv(client, doc, release) /\ ProgramInv(server, doc, release) /\ BoundInv
    /\ wire = [side \in Sides |-> wire[side]] /\ issued = [side \in Sides |-> issued[side]]
    /\ heard = [side \in Sides |-> heard[side]]
    /\ \A side \in Sides : Queue(side)
    /\ ~refused

-----------------------------------------------------------------------------
(* Sequences of whatever they consist of.                                     *)
LEMMA IsSeqOf ==
    ASSUME NEW s, IsSeq(s)
    PROVE  s \in Seq({s[k] : k \in 1..Len(s)})
<1> DEFINE S == {s[k] : k \in 1..Len(s)}
<1>1. \A k \in 1..Len(s) : s[k] \in S
  OBVIOUS
<1>2. Len(s) \in Nat
  BY DEF IsSeq
<1> HIDE DEF S
<1>3. [k \in 1..Len(s) |-> s[k]] \in Seq(S)
  BY <1>1, <1>2
<1>4. s \in Seq(S)
  BY <1>3 DEF IsSeq
<1> QED BY <1>4 DEF S

LEMMA SeqIs ==
    ASSUME NEW S, NEW s \in Seq(S)
    PROVE  IsSeq(s)
BY Elements, Zenon DEF IsSeq

LEMMA Appended ==
    ASSUME NEW s, IsSeq(s), NEW e
    PROVE  /\ IsSeq(Append(s, e)) /\ Len(Append(s, e)) = Len(s) + 1 /\ Append(s, e)[Len(s) + 1] = e
           /\ \A k \in 1..Len(s) : Append(s, e)[k] = s[k]
<1> DEFINE S == {s[k] : k \in 1..Len(s)} \cup {e}
<1>1. e \in S /\ {s[k] : k \in 1..Len(s)} \subseteq S
  OBVIOUS
<1> HIDE DEF S
<1>2. s \in Seq(S)
  <2> DEFINE A == {s[k] : k \in 1..Len(s)}
  <2>1. s \in Seq(A) /\ A \subseteq S
    BY <1>1, IsSeqOf
  <2> HIDE DEF A
  <2> QED BY <2>1, Widened
<1>3. /\ Append(s, e) \in Seq(S) /\ Len(Append(s, e)) = Len(s) + 1 /\ Append(s, e)[Len(s) + 1] = e
      /\ \A k \in 1..Len(s) : Append(s, e)[k] = s[k]
  BY <1>1, <1>2
<1>4. IsSeq(Append(s, e))
  BY <1>3, SeqIs
<1> QED BY <1>3, <1>4

LEMMA Tailed ==
    ASSUME NEW s, IsSeq(s), s # <<>>
    PROVE  /\ IsSeq(Tail(s)) /\ Len(Tail(s)) = Len(s) - 1 /\ Len(s) > 0 /\ Head(s) = s[1]
           /\ \A k \in 1..Len(Tail(s)) : Tail(s)[k] = s[k + 1]
<1> DEFINE S == {s[k] : k \in 1..Len(s)}
<1>1. s \in Seq(S)
  BY IsSeqOf
<1> HIDE DEF S
<1>2. /\ Tail(s) \in Seq(S) /\ Len(Tail(s)) = Len(s) - 1 /\ Len(s) > 0 /\ Head(s) = s[1]
      /\ \A k \in 1..Len(Tail(s)) : Tail(s)[k] = s[k + 1]
  BY <1>1
<1>3. IsSeq(Tail(s))
  BY <1>2, SeqIs
<1> QED BY <1>2, <1>3

-----------------------------------------------------------------------------
(* The queues.                                                                *)
LEMMA QueueEmpty ==
    ASSUME NEW side \in Sides, NEW scanned, NEW bound, NEW ready
    PROVE  QueueInv(side, scanned, bound, ready, <<>>, <<>>, <<>>)
<1>1. IsSeq(<<>>)
  <2>1. <<>> \in Seq(Nat)
    OBVIOUS
  <2> QED BY <2>1, SeqIs
<1>2. Len(<<>>) = 0
  OBVIOUS
<1> QED BY <1>1, <1>2 DEF QueueInv

(* A call joins the queue behind the others.                                  *)
LEMMA QueueCall ==
    ASSUME NEW side \in Sides, NEW scanned, NEW bound, NEW ready, NEW sent, NEW made, NEW got, NEW msg, NEW call,
           QueueInv(side, scanned, bound, ready, sent, made, got), Sent(side, scanned, bound, msg, call)
    PROVE  QueueInv(side, scanned, bound, ready, Append(sent, msg), Append(made, call), got)
<1> DEFINE s == Append(sent, msg)
           m == Append(made, call)
<1>1. /\ IsSeq(sent) /\ IsSeq(made) /\ IsSeq(got)
      /\ Len(sent) \in Nat /\ Len(made) \in Nat /\ Len(got) \in Nat
      /\ Len(got) + Len(sent) <= Len(made)
      /\ side = "c2s" => Len(got) + Len(sent) = Len(made)
      /\ side = "s2c" /\ ~ready => got = <<>>
  BY DEF QueueInv, IsSeq
<1>2. /\ IsSeq(s) /\ Len(s) = Len(sent) + 1 /\ s[Len(sent) + 1] = msg
      /\ \A k \in 1..Len(sent) : s[k] = sent[k]
  BY <1>1, Appended
<1>3. /\ IsSeq(m) /\ Len(m) = Len(made) + 1 /\ m[Len(made) + 1] = call
      /\ \A k \in 1..Len(made) : m[k] = made[k]
  BY <1>1, Appended
<1> HIDE DEF s, m
<1>4. ASSUME NEW i \in 1..Len(got) PROVE got[i] = m[i + (Len(m) - Len(s) - Len(got))]
  <2> DEFINE p == i + (Len(made) - Len(sent) - Len(got))
  <2>1. got[i] = made[p]
    BY DEF QueueInv
  <2>2. p \in 1..Len(made) /\ i + (Len(m) - Len(s) - Len(got)) = p
    BY <1>1, <1>2, <1>3
  <2> HIDE DEF p
  <2> QED BY <1>3, <2>1, <2>2
<1>5. ASSUME NEW p \in 1..Len(s) PROVE Sent(side, scanned, bound, s[p], m[p + (Len(m) - Len(s))])
  <2>1. CASE p = Len(sent) + 1
    <3>1. p + (Len(m) - Len(s)) = Len(made) + 1
      BY <1>1, <1>2, <1>3, <2>1
    <3> QED BY <1>2, <1>3, <2>1, <3>1
  <2>2. CASE p # Len(sent) + 1
    <3> DEFINE q == p + (Len(made) - Len(sent))
    <3>1. p \in 1..Len(sent) /\ q \in 1..Len(made) /\ p + (Len(m) - Len(s)) = q
      BY <1>1, <1>2, <1>3, <2>2
    <3>2. Sent(side, scanned, bound, sent[p], made[q])
      BY <3>1 DEF QueueInv
    <3> HIDE DEF q
    <3> QED BY <1>2, <1>3, <3>1, <3>2
  <2> QED BY <2>1, <2>2
<1>6. Len(got) + Len(s) <= Len(m) /\ (side = "c2s" => Len(got) + Len(s) = Len(m))
  BY <1>1, <1>2, <1>3
<1> QED BY <1>1, <1>2, <1>3, <1>4, <1>5, <1>6 DEF QueueInv, s, m

(* The first message is taken, and what it was made for is heard.             *)
LEMMA QueueHear ==
    ASSUME NEW side \in Sides, NEW scanned, NEW bound, NEW ready, NEW sent, NEW made, NEW got, NEW call,
           QueueInv(side, scanned, bound, ready, sent, made, got), sent # <<>>, side = "s2c" => ready,
           call = made[1 + (Len(made) - Len(sent))]
    PROVE  QueueInv(side, scanned, bound, ready, Tail(sent), made, Append(got, call))
<1> DEFINE s == Tail(sent)
           g == Append(got, call)
<1>1. /\ IsSeq(sent) /\ IsSeq(made) /\ IsSeq(got)
      /\ Len(sent) \in Nat /\ Len(made) \in Nat /\ Len(got) \in Nat
      /\ Len(got) + Len(sent) <= Len(made)
      /\ side = "c2s" => Len(got) + Len(sent) = Len(made)
  BY DEF QueueInv, IsSeq
<1>2. /\ IsSeq(s) /\ Len(s) = Len(sent) - 1 /\ Len(sent) > 0
      /\ \A k \in 1..Len(s) : s[k] = sent[k + 1]
  BY <1>1, Tailed
<1>3. /\ IsSeq(g) /\ Len(g) = Len(got) + 1 /\ g[Len(got) + 1] = call
      /\ \A k \in 1..Len(got) : g[k] = got[k]
  BY <1>1, Appended
<1> HIDE DEF s, g
<1>4. ASSUME NEW i \in 1..Len(g) PROVE g[i] = made[i + (Len(made) - Len(s) - Len(g))]
  <2>1. i + (Len(made) - Len(s) - Len(g)) = i + (Len(made) - Len(sent) - Len(got))
    BY <1>1, <1>2, <1>3
  <2>2. CASE i = Len(got) + 1
    <3>1. i + (Len(made) - Len(sent) - Len(got)) = 1 + (Len(made) - Len(sent))
      BY <1>1, <2>2
    <3> QED BY <1>3, <2>1, <2>2, <3>1
  <2>3. CASE i # Len(got) + 1
    <3>1. i \in 1..Len(got)
      BY <1>1, <1>3, <2>3
    <3>2. got[i] = made[i + (Len(made) - Len(sent) - Len(got))]
      BY <3>1 DEF QueueInv
    <3> QED BY <1>3, <2>1, <3>1, <3>2
  <2> QED BY <2>2, <2>3
<1>5. ASSUME NEW p \in 1..Len(s) PROVE Sent(side, scanned, bound, s[p], made[p + (Len(made) - Len(s))])
  <2>1. p + 1 \in 1..Len(sent) /\ p + (Len(made) - Len(s)) = (p + 1) + (Len(made) - Len(sent))
    BY <1>1, <1>2
  <2>2. Sent(side, scanned, bound, sent[p + 1], made[(p + 1) + (Len(made) - Len(sent))])
    BY <2>1 DEF QueueInv
  <2> QED BY <1>2, <2>1, <2>2
<1>6. Len(g) + Len(s) <= Len(made) /\ (side = "c2s" => Len(g) + Len(s) = Len(made))
  <2>1. Len(g) + Len(s) = Len(got) + Len(sent)
    BY <1>1, <1>2, <1>3
  <2> QED BY <1>1, <2>1
<1> QED BY <1>1, <1>2, <1>3, <1>4, <1>5, <1>6 DEF QueueInv, s, g

(* An event that comes before the client has wrapped its object is dropped.   *)
LEMMA QueueDrop ==
    ASSUME NEW side \in Sides, NEW scanned, NEW bound, NEW ready, NEW sent, NEW made, NEW got,
           QueueInv(side, scanned, bound, ready, sent, made, got), sent # <<>>, side = "s2c", ~ready
    PROVE  QueueInv(side, scanned, bound, ready, Tail(sent), made, got)
<1> DEFINE s == Tail(sent)
<1>1. /\ IsSeq(sent) /\ IsSeq(made) /\ IsSeq(got)
      /\ Len(sent) \in Nat /\ Len(made) \in Nat /\ Len(got) \in Nat
      /\ Len(got) + Len(sent) <= Len(made) /\ got = <<>>
  BY DEF QueueInv, IsSeq
<1>2. /\ IsSeq(s) /\ Len(s) = Len(sent) - 1 /\ Len(sent) > 0
      /\ \A k \in 1..Len(s) : s[k] = sent[k + 1]
  BY <1>1, Tailed
<1> HIDE DEF s
<1>5. ASSUME NEW p \in 1..Len(s) PROVE Sent(side, scanned, bound, s[p], made[p + (Len(made) - Len(s))])
  <2>1. p + 1 \in 1..Len(sent) /\ p + (Len(made) - Len(s)) = (p + 1) + (Len(made) - Len(sent))
    BY <1>1, <1>2
  <2>2. Sent(side, scanned, bound, sent[p + 1], made[(p + 1) + (Len(made) - Len(sent))])
    BY <2>1 DEF QueueInv
  <2> QED BY <1>2, <2>1, <2>2
<1>6. Len(got) + Len(s) <= Len(made) /\ side # "c2s" /\ Len(got) = 0
  BY <1>1, <1>2
<1>7. \A i \in 1..Len(got) : got[i] = made[i + (Len(made) - Len(s) - Len(got))]
  BY <1>6
<1> QED BY <1>1, <1>2, <1>5, <1>6, <1>7 DEF QueueInv, s

(* A client that listens from now on has missed nothing it will hear.         *)
LEMMA QueueWrap ==
    ASSUME NEW side \in Sides, NEW scanned, NEW bound, NEW ready, NEW sent, NEW made, NEW got,
           QueueInv(side, scanned, bound, ready, sent, made, got)
    PROVE  QueueInv(side, scanned, bound, TRUE, sent, made, got)
BY DEF QueueInv

-----------------------------------------------------------------------------
(* The programs.                                                              *)
LEMMA ScannedFrom ==
    ASSUME NEW methods \in Seq(Method), NEW side
    PROVE  /\ Len(Scan(methods, side)) \in Nat /\ DOMAIN Scan(methods, side) = 1..Len(Scan(methods, side))
           /\ \A i \in 1..Len(Scan(methods, side)) :
                /\ Scan(methods, side)[i].idx = i - 1 /\ Scan(methods, side)[i].method \in Method
                /\ Scan(methods, side)[i].method.side = side
                /\ \E n \in 1..Len(methods) : Scan(methods, side)[i].method = methods[n]
<1>1. Scan(methods, side) \in Seq(Scanned(Method))
  BY ScanShape
<1>2. Len(Scan(methods, side)) \in Nat /\ DOMAIN Scan(methods, side) = 1..Len(Scan(methods, side))
  BY <1>1, Elements
<1>3. DOMAIN methods = 1..Len(methods)
  OBVIOUS
<1>4. \A i \in 1..Len(Scan(methods, side)) :
         /\ Scan(methods, side)[i].idx = i - 1 /\ Scan(methods, side)[i].method.side = side
         /\ \E n \in 1..Len(methods) : Scan(methods, side)[i].method = methods[n]
  <2> TAKE i \in 1..Len(Scan(methods, side))
  <2>1. i \in DOMAIN Scan(methods, side)
    BY <1>2, Zenon
  <2>2. /\ Scan(methods, side)[i].idx = i - 1 /\ Scan(methods, side)[i].method.side = side
        /\ \E n \in DOMAIN methods : Scan(methods, side)[i].method = methods[n]
    BY <2>1, ScanShape
  <2> QED BY <1>3, <2>2, Zenon
<1>5. \A n \in 1..Len(methods) : methods[n] \in Method
  OBVIOUS
<1> QED BY <1>2, <1>4, <1>5, Zenon

(* A method that is added in a later release leaves the programs as they are. *)
LEMMA Grown ==
    ASSUME NEW program, NEW document \in Seq(Method), NEW m \in Method, NEW k \in 1..(Len(document) + 1),
           \A j \in k..Len(document) : document[j].side # m.side,
           ProgramInv(program, document, m.since)
    PROVE  ProgramInv(program, InsertAt(document, k, m), m.since)
<1> DEFINE more == InsertAt(document, k, m)
<1>1. ASSUME NEW side \in Sides PROVE Follows(program, more, side)
  <2> DEFINE mine == Scan(program.methods, side)
             all == Scan(document, side)
             e == [idx |-> Len(all), method |-> m]
  <2>1. Follows(program, document, side)
    BY DEF ProgramInv
  <2>2. Scan(more, side) = IF m.side # side THEN all ELSE Append(all, e)
    BY ScanGrows
  <2>3. IsSeq(all)
    BY ScanShape, SeqIs
  <2>4. Len(mine) \in Nat /\ Len(all) \in Nat
    BY ScannedFrom DEF ProgramInv
  <2>5. /\ Len(mine) <= Len(all)
        /\ \A i \in 1..Len(mine) : mine[i] = all[i] /\ all[i].method.since <= program.specVer
        /\ \A i \in (Len(mine) + 1)..Len(all) : all[i].method.since > program.specVer
    BY <2>1 DEF Follows
  <2>6. e.method.since > program.specVer
    BY DEF ProgramInv, Method
  <2> HIDE DEF mine, all, e, more
  <2>7. CASE m.side # side
    BY <2>2, <2>5, <2>7 DEF Follows, mine
  <2>8. CASE m.side = side
    <3> DEFINE both == Append(all, e)
    <3>1. /\ IsSeq(both) /\ Len(both) = Len(all) + 1 /\ both[Len(all) + 1] = e
          /\ \A i \in 1..Len(all) : both[i] = all[i]
      BY <2>3, Appended
    <3> HIDE DEF both
    <3>2. Len(mine) <= Len(both)
      BY <2>4, <2>5, <3>1
    <3>3. \A i \in 1..Len(mine) : mine[i] = both[i] /\ both[i].method.since <= program.specVer
      <4>1. \A i \in 1..Len(mine) : i \in 1..Len(all)
        BY <2>4, <2>5
      <4> QED BY <2>5, <3>1, <4>1
    <3>4. ASSUME NEW i \in (Len(mine) + 1)..Len(both) PROVE both[i].method.since > program.specVer
      <4>1. CASE i = Len(all) + 1
        BY <2>6, <3>1, <4>1
      <4>2. CASE i # Len(all) + 1
        <5>1. i \in 1..Len(all) /\ i \in (Len(mine) + 1)..Len(all)
          BY <2>4, <3>1, <4>2
        <5> QED BY <2>5, <3>1, <5>1
      <4> QED BY <4>1, <4>2
    <3>5. Scan(more, side) = both
      BY <2>2, <2>8 DEF both
    <3> QED BY <3>2, <3>3, <3>4, <3>5 DEF Follows, mine
  <2> QED BY <2>7, <2>8
<1> QED BY <1>1 DEF ProgramInv

LEMMA Released ==
    ASSUME NEW program, NEW document, NEW next \in Nat, ProgramInv(program, document, next)
    PROVE  ProgramInv(program, document, next + 1)
BY DEF ProgramInv

LEMMA Generated ==
    ASSUME NEW document \in Seq(Method), NEW next \in Nat, \A j \in 1..Len(document) : document[j].since \in 1..next
    PROVE  ProgramInv([methods |-> document, specVer |-> next], document, next + 1)
<1> DEFINE program == [methods |-> document, specVer |-> next]
<1>1. program.methods = document /\ program.specVer = next
  OBVIOUS
<1> HIDE DEF program
<1>2. ASSUME NEW side \in Sides PROVE Follows(program, document, side)
  <2> DEFINE all == Scan(document, side)
  <2>1. Len(all) \in Nat /\ \A i \in 1..Len(all) : \E n \in 1..Len(document) : all[i].method = document[n]
    BY ScannedFrom
  <2> HIDE DEF all
  <2>2. \A i \in 1..Len(all) : all[i].method.since <= next
    BY <2>1
  <2> QED BY <1>1, <2>1, <2>2 DEF Follows, all
<1> QED BY <1>1, <1>2 DEF ProgramInv, program

(* A method that is not newer than both programs is the same in both.         *)
LEMMA Agreed ==
    ASSUME NEW one, NEW other, NEW document \in Seq(Method), NEW next, NEW side \in Sides, NEW bound \in Nat,
           ProgramInv(one, document, next), ProgramInv(other, document, next), bound <= other.specVer,
           NEW i \in DOMAIN Scan(one.methods, side), Scan(one.methods, side)[i].method.since <= bound
    PROVE  i \in DOMAIN Scan(other.methods, side) /\ Scan(other.methods, side)[i] = Scan(one.methods, side)[i]
<1> DEFINE mine == Scan(one.methods, side)
           theirs == Scan(other.methods, side)
           all == Scan(document, side)
<1>1. /\ one.methods \in Seq(Method) /\ other.methods \in Seq(Method) /\ other.specVer \in Nat
      /\ Follows(one, document, side) /\ Follows(other, document, side)
  BY DEF ProgramInv
<1>2. /\ Len(mine) \in Nat /\ Len(theirs) \in Nat /\ Len(all) \in Nat
      /\ DOMAIN mine = 1..Len(mine) /\ DOMAIN theirs = 1..Len(theirs)
  BY <1>1, ScannedFrom
<1>3. all[i].method \in Method
  <2>1. i \in 1..Len(all)
    BY <1>1, <1>2 DEF Follows
  <2> QED BY <2>1, ScannedFrom
<1>4. all[i].method.since \in Nat
  BY <1>3 DEF Method
<1>5. i \in 1..Len(all) /\ mine[i] = all[i]
  BY <1>1, <1>2 DEF Follows
<1>6. i \in 1..Len(theirs)
  <2>1. SUFFICES ASSUME i \notin 1..Len(theirs) PROVE FALSE
    OBVIOUS
  <2>2. i \in (Len(theirs) + 1)..Len(all)
    BY <1>2, <1>5, <2>1
  <2>3. all[i].method.since > other.specVer
    BY <1>1, <2>2 DEF Follows
  <2> HIDE DEF mine, all, theirs
  <2> QED BY <1>1, <1>4, <1>5, <2>3 DEF mine
<1>7. theirs[i] = all[i]
  BY <1>1, <1>6 DEF Follows
<1> QED BY <1>2, <1>5, <1>6, <1>7

-----------------------------------------------------------------------------
(* The steps.                                                                 *)
LEMMA StubsInitInv == StubsInit => StubsInv
<1> SUFFICES ASSUME StubsInit PROVE StubsInv
  OBVIOUS
<1>1. Scan(<<>>, "c2s") = <<>> /\ Scan(<<>>, "s2c") = <<>>
  <2>1. \A side : Scan(<<>>, side) = <<>>
    <3> TAKE side
    <3>0. <<>> \in Seq(Method) /\ Len(<<>>) = 0
      OBVIOUS
    <3>1. PICK f : Scans(f, Method, <<>>, side) /\ Scan(<<>>, side) = f[Len(<<>>)]
      BY <3>0, ScanFunction
    <3> QED BY <3>0, <3>1 DEF Scans
  <2> QED BY <2>1
<1>2. DocumentInv
  BY DEF DocumentInv, StubsInit
<1>3. ProgramInv(NoProgram, doc, release)
  <2>1. NoProgram.methods = <<>> /\ NoProgram.specVer = 0 /\ <<>> \in Seq(Method) /\ 0 \in Nat /\ 0 < release
    BY DEF NoProgram, StubsInit
  <2>2. ASSUME NEW side \in Sides PROVE Follows(NoProgram, doc, side)
    <3>1. Scan(<<>>, side) = <<>> /\ Len(<<>>) = 0 /\ doc = <<>>
      BY <1>1 DEF Sides, StubsInit
    <3> QED BY <2>1, <3>1 DEF Follows
  <2> QED BY <2>1, <2>2 DEF ProgramInv
<1>4. BoundInv
  BY DEF BoundInv, StubsInit
<1>5. ASSUME NEW side \in Sides PROVE Queue(side)
  <2>1. wire[side] = <<>> /\ issued[side] = <<>> /\ heard[side] = <<>>
    BY DEF StubsInit
  <2> QED BY <2>1, QueueEmpty DEF Queue
<1>6. /\ wire = [side \in Sides |-> wire[side]] /\ issued = [side \in Sides |-> issued[side]]
      /\ heard = [side \in Sides |-> heard[side]]
  BY DEF StubsInit
<1> QED BY <1>2, <1>3, <1>4, <1>5, <1>6 DEF StubsInv, StubsInit

LEMMA AddMethodInv ==
    ASSUME StubsInv, NEW side \in Sides, NEW shape \in Shapes, AddMethod(side, shape)
    PROVE  StubsInv'
<1>1. PICK k \in 1..(Len(doc) + 1) :
        /\ \A j \in k..Len(doc) : doc[j].side # side
        /\ doc' = InsertAt(doc, k, [side |-> side, name |-> Len(doc), since |-> release,
                                    args |-> shape.args, returns |-> shape.returns,
                                    destructor |-> shape.destructor])
  BY DEF AddMethod
<1> DEFINE m == [side |-> side, name |-> Len(doc), since |-> release, args |-> shape.args,
                 returns |-> shape.returns, destructor |-> shape.destructor]
<1>2. UNCHANGED <<release, client, server, version, wrapped, wire, seq, issued, heard, refused>>
  BY DEF AddMethod
<1>3. /\ release \in Nat \ {0} /\ seq \in Nat /\ doc \in Seq(Method) /\ Len(doc) \in Nat
      /\ \A j \in 1..Len(doc) : doc[j].since \in 1..release
  BY DEF StubsInv, DocumentInv
<1>4. m \in Method /\ m.side = side /\ m.since = release
  <2>1. /\ shape.args \in Seq(Argument) /\ shape.returns \in BOOLEAN /\ shape.destructor \in BOOLEAN
        /\ \A i \in DOMAIN shape.args : shape.args[i].array =>
             \A v \in Values[shape.args[i]] : v \in Seq({v[j] : j \in DOMAIN v})
    BY StubsAssumption DEF Argument
  <2>2. release \in Nat
    BY <1>3
  <2> QED BY <1>3, <2>1, <2>2 DEF Method
<1> HIDE DEF m
<1>5. doc' = InsertAt(doc, k, m)
  BY <1>1 DEF m
<1>6. doc' \in Seq(Method) /\ \A j \in 1..Len(doc') : doc'[j].since \in 1..release
  <2>1. /\ doc' \in Seq(Method) /\ Len(doc') = Len(doc) + 1
        /\ \A j \in 1..(Len(doc) + 1) : doc'[j] = IF j < k THEN doc[j] ELSE IF j = k THEN m ELSE doc[j - 1]
    <3>1. doc \in Seq(Method) /\ m \in Method
      BY <1>3, <1>4
    <3>2. InsertAt(doc, k, m) \in Seq(Method) /\ Extends(InsertAt(doc, k, m), doc, k, m)
      BY <3>1, Inserted, Zenon
    <3> QED BY <1>5, <3>2, Zenon DEF Extends
  <2>2. ASSUME NEW j \in 1..(Len(doc) + 1) PROVE doc'[j].since \in 1..release
    <3>1. CASE j < k
      <4>1. j \in 1..Len(doc) /\ doc'[j] = doc[j]
        BY <1>3, <2>1, <3>1
      <4> QED BY <1>3, <4>1
    <3>2. CASE j = k
      <4>1. doc'[j] = m
        BY <1>3, <2>1, <3>2
      <4> QED BY <1>3, <1>4, <4>1
    <3>3. CASE j > k
      <4>1. j - 1 \in 1..Len(doc) /\ doc'[j] = doc[j - 1]
        BY <1>3, <2>1, <3>3
      <4> QED BY <1>3, <4>1
    <3> QED BY <1>3, <3>1, <3>2, <3>3
  <2> QED BY <2>1, <2>2
<1>7. DocumentInv'
  BY <1>2, <1>3, <1>6 DEF DocumentInv
<1>8. ProgramInv(client, doc', release) /\ ProgramInv(server, doc', release)
  <2>1. ProgramInv(client, doc, m.since) /\ ProgramInv(server, doc, m.since)
    BY <1>4 DEF StubsInv
  <2>2. \A j \in k..Len(doc) : doc[j].side # m.side
    BY <1>1, <1>4, Zenon
  <2>3. /\ ProgramInv(client, InsertAt(doc, k, m), m.since)
        /\ ProgramInv(server, InsertAt(doc, k, m), m.since)
    BY <1>3, <1>4, <2>1, <2>2, Grown, Zenon
  <2> QED BY <1>4, <1>5, <2>3, Zenon
<1>9. BoundInv'
  BY <1>2 DEF BoundInv, StubsInv
<1>10. ASSUME NEW s \in Sides PROVE Queue(s)'
  BY <1>2 DEF Queue, Sender, StubsInv
<1> QED BY <1>2, <1>7, <1>8, <1>9, <1>10 DEF StubsInv

LEMMA ReleaseInv ==
    ASSUME StubsInv, Release
    PROVE  StubsInv'
<1>1. /\ release' = release + 1
      /\ client' = client \/ client' = [methods |-> doc, specVer |-> release]
      /\ server' = server \/ server' = [methods |-> doc, specVer |-> release]
      /\ UNCHANGED <<doc, version, wrapped, wire, seq, issued, heard, refused>>
  BY DEF Release
<1>2. version = 0
  BY DEF Release, Unfinished, StubsInv, BoundInv
<1>3. /\ release \in Nat \ {0} /\ seq \in Nat /\ doc \in Seq(Method)
      /\ \A j \in 1..Len(doc) : doc[j].since \in 1..release
  BY DEF StubsInv, DocumentInv
<1>4. DocumentInv'
  <2>1. release + 1 \in Nat \ {0} /\ \A n \in 1..release : n \in 1..(release + 1)
    BY <1>3
  <2> QED BY <1>1, <1>3, <2>1 DEF DocumentInv
<1>5. ProgramInv([methods |-> doc, specVer |-> release], doc, release + 1)
  BY <1>3, Generated
<1>6. ProgramInv(client, doc, release + 1) /\ ProgramInv(server, doc, release + 1)
  BY <1>3, Released DEF StubsInv
<1>7. ProgramInv(client', doc', release') /\ ProgramInv(server', doc', release')
  BY <1>1, <1>5, <1>6
<1>8. \A side \in Sides : wire[side] = <<>> /\ issued[side] = <<>> /\ heard[side] = <<>>
  BY <1>2 DEF StubsInv, BoundInv
<1>9. BoundInv'
  BY <1>1, <1>2, <1>8 DEF BoundInv, StubsInv
<1>10. ASSUME NEW s \in Sides PROVE Queue(s)'
  <2>1. wire'[s] = <<>> /\ issued'[s] = <<>> /\ heard'[s] = <<>>
    BY <1>1, <1>8
  <2> QED BY <2>1, QueueEmpty DEF Queue
<1> QED BY <1>1, <1>4, <1>7, <1>9, <1>10 DEF StubsInv

LEMMA BindInv ==
    ASSUME StubsInv, NEW v \in 1..MaxReleases, Bind(v)
    PROVE  StubsInv'
<1>1. /\ version = 0 /\ version' = v /\ v \in Nat /\ v > 0 /\ v <= client.specVer /\ v <= server.specVer
      /\ client # NoProgram /\ server # NoProgram
      /\ UNCHANGED <<doc, release, client, server, wrapped, wire, seq, issued, heard, refused>>
  BY DEF Bind
<1>2. \A side \in Sides : wire[side] = <<>> /\ issued[side] = <<>> /\ heard[side] = <<>>
  BY <1>1 DEF StubsInv, BoundInv
<1>3. BoundInv'
  BY <1>1 DEF BoundInv, StubsInv
<1>4. ASSUME NEW s \in Sides PROVE Queue(s)'
  <2>1. wire'[s] = <<>> /\ issued'[s] = <<>> /\ heard'[s] = <<>>
    BY <1>1, <1>2
  <2> QED BY <2>1, QueueEmpty DEF Queue
<1>5. DocumentInv'
  BY <1>1 DEF DocumentInv, StubsInv
<1>6. ProgramInv(client, doc, release)' /\ ProgramInv(server, doc, release)'
  BY <1>1 DEF StubsInv
<1> QED BY <1>1, <1>3, <1>4, <1>5, <1>6 DEF StubsInv

LEMMA WrapInv ==
    ASSUME StubsInv, Wrap
    PROVE  StubsInv'
<1>1. /\ version > 0 /\ wrapped' = TRUE
      /\ UNCHANGED <<doc, release, client, server, version, wire, seq, issued, heard, refused>>
  BY DEF Wrap
<1>2. BoundInv'
  BY <1>1 DEF BoundInv, StubsInv
<1>3. ASSUME NEW s \in Sides PROVE Queue(s)'
  <2>1. QueueInv(s, Scan(Sender(s), s), version, TRUE, wire[s], issued[s], heard[s])
    BY QueueWrap DEF StubsInv, Queue
  <2> QED BY <1>1, <2>1 DEF Queue, Sender
<1>4. DocumentInv'
  BY <1>1 DEF DocumentInv, StubsInv
<1>5. ProgramInv(client, doc, release)' /\ ProgramInv(server, doc, release)'
  BY <1>1 DEF StubsInv
<1> QED BY <1>1, <1>2, <1>3, <1>4, <1>5 DEF StubsInv

LEMMA CallTooNewInv ==
    ASSUME StubsInv, UNCHANGED <<doc, release, client, server, version, wrapped, wire, seq, issued, heard, refused>>
    PROVE  StubsInv'
<1>1. BoundInv'
  BY DEF BoundInv, StubsInv
<1>2. ASSUME NEW s \in Sides PROVE Queue(s)'
  BY DEF Queue, Sender, StubsInv
<1>3. DocumentInv'
  BY DEF DocumentInv, StubsInv
<1>4. ProgramInv(client, doc, release)' /\ ProgramInv(server, doc, release)'
  BY DEF StubsInv
<1> QED BY <1>1, <1>2, <1>3, <1>4 DEF StubsInv

(* The programs of the two sides.                                             *)
LEMMA Programs ==
    ASSUME StubsInv, version > 0, NEW side \in Sides
    PROVE  /\ Sender(side) \in Seq(Method) /\ Receiver(side) \in Seq(Method)
           /\ \A i \in DOMAIN Scan(Sender(side), side) :
                Scan(Sender(side), side)[i].method.since <= version =>
                    /\ i \in DOMAIN Scan(Receiver(side), side)
                    /\ Scan(Receiver(side), side)[i] = Scan(Sender(side), side)[i]
<1>1. /\ ProgramInv(client, doc, release) /\ ProgramInv(server, doc, release)
      /\ version \in Nat /\ version <= client.specVer /\ version <= server.specVer
      /\ doc \in Seq(Method)
  BY DEF StubsInv, BoundInv, DocumentInv
<1>2. CASE side = "c2s"
  <2>1. Sender(side) = client.methods /\ Receiver(side) = server.methods
    BY <1>2 DEF Sender, Receiver
  <2>2. client.methods \in Seq(Method) /\ server.methods \in Seq(Method)
    BY <1>1 DEF ProgramInv
  <2>3. ASSUME NEW i \in DOMAIN Scan(client.methods, side), Scan(client.methods, side)[i].method.since <= version
        PROVE  i \in DOMAIN Scan(server.methods, side) /\ Scan(server.methods, side)[i] = Scan(client.methods, side)[i]
    BY <1>1, <2>3, Agreed, ZenonT(30)
  <2> QED BY <2>1, <2>2, <2>3, Zenon
<1>3. CASE side # "c2s"
  <2>1. Sender(side) = server.methods /\ Receiver(side) = client.methods
    BY <1>3 DEF Sender, Receiver
  <2>2. client.methods \in Seq(Method) /\ server.methods \in Seq(Method)
    BY <1>1 DEF ProgramInv
  <2>3. ASSUME NEW i \in DOMAIN Scan(server.methods, side), Scan(server.methods, side)[i].method.since <= version
        PROVE  i \in DOMAIN Scan(client.methods, side) /\ Scan(client.methods, side)[i] = Scan(server.methods, side)[i]
    BY <1>1, <2>3, Agreed, ZenonT(30)
  <2> QED BY <2>1, <2>2, <2>3, Zenon
<1> QED BY <1>2, <1>3

(* The table has an entry for every method of the side.                       *)
LEMMA TableOf ==
    ASSUME NEW methods \in Seq(Method), NEW side
    PROVE  /\ Len(Table(methods, side)) = Len(Scan(methods, side))
           /\ \A i \in DOMAIN Scan(methods, side) :
                Table(methods, side)[i] =
                    [params |-> Params(Scan(methods, side)[i].method.args), since |-> Scan(methods, side)[i].method.since,
                     returns |-> side = "c2s" /\ Scan(methods, side)[i].method.returns]
<1> DEFINE scanned == Scan(methods, side)
           row(i) == [params |-> Params(scanned[i].method.args), since |-> scanned[i].method.since,
                      returns |-> side = "c2s" /\ scanned[i].method.returns]
<1>1. Len(scanned) \in Nat /\ DOMAIN scanned = 1..Len(scanned)
  BY ScannedFrom
<1>2. Table(methods, side) = [i \in DOMAIN scanned |-> row(i)]
  BY Zenon DEF Table
<1> HIDE DEF scanned, row
<1>3. Len([i \in DOMAIN scanned |-> row(i)]) = Len(scanned)
  BY <1>1
<1> QED BY <1>1, <1>2, <1>3 DEF scanned, row

LEMMA CallInv ==
    ASSUME StubsInv, NEW side \in Sides, NEW i \in DOMAIN Scan(Sender(side), side),
           NEW values \in Arguments(Scan(Sender(side), side)[i].method.args), Call(side, i, values)
    PROVE  StubsInv'
<1> DEFINE scanned == Scan(Sender(side), side)
           sender == scanned[i]
           m == sender.method
           entry == Table(Sender(side), side)[sender.idx + 1]
           ret == IF entry.returns THEN <<seq + 1>> ELSE <<>>
           msg == [id |-> sender.idx,
                   payload |-> [k \in DOMAIN ret |-> [magics |-> <<"seq">>, value |-> ret[k]]]
                                  \o Marshalled(entry.params, CArguments(m.args, values))]
           call == [name |-> m.name, args |-> ret \o values, destructor |-> m.destructor]
<1>1. /\ version > 0 /\ entry.since <= version
      /\ wire' = [wire EXCEPT ![side] = Append(@, msg)]
      /\ seq' = seq + Len(ret)
      /\ issued' = [issued EXCEPT ![side] = Append(@, call)]
      /\ UNCHANGED <<doc, release, client, server, version, wrapped, heard, refused, dead>>
  BY DEF Call
<1>2. Sender(side) \in Seq(Method)
  BY <1>1, Programs
<1>3. sender.idx = i - 1 /\ m \in Method /\ i \in Nat
  BY <1>2, ScannedFrom
<1>4. sender.idx + 1 = i
  BY <1>3
<1>5. entry = [params |-> Params(m.args), since |-> m.since, returns |-> side = "c2s" /\ m.returns]
  BY <1>2, <1>4, TableOf
<1>s. seq \in Nat
  BY DEF StubsInv, DocumentInv
<1>6. ret = <<>> \/ \E q \in Nat : ret = <<q>>
  <2>1. seq + 1 \in Nat
    BY <1>s
  <2> HIDE DEF entry
  <2> QED BY <2>1
<1>7. ret # <<>> <=> side = "c2s" /\ m.returns
  <2>1. entry.returns <=> side = "c2s" /\ m.returns
    <3> DEFINE b == side = "c2s" /\ m.returns
    <3>1. entry = [params |-> Params(m.args), since |-> m.since, returns |-> b]
      BY <1>5
    <3> HIDE DEF b, entry
    <3>2. entry.returns = b
      BY <3>1
    <3> QED BY <3>2, Zenon DEF b
  <2>2. <<seq + 1>> # <<>>
    OBVIOUS
  <2> HIDE DEF entry, m
  <2> QED BY <2>1, <2>2
<1>8. m.args \in Seq(Argument) /\ Fits(m.args, values)
  <2>1. /\ m.args \in Seq(Argument)
        /\ \A j \in DOMAIN m.args : m.args[j].array =>
             \A v \in Values[m.args[j]] : v \in Seq({v[k] : k \in DOMAIN v})
    BY <1>3 DEF Method
  <2> QED BY <2>1, ArgumentsFit
<1> HIDE DEF ret
<1>9. Carries(msg.payload, ret, m.args, values)
  <2>1. entry.params = Params(m.args)
    BY <1>5
  <2>2. msg.payload = [k \in DOMAIN ret |-> [magics |-> <<"seq">>, value |-> ret[k]]]
                          \o Marshalled(Params(m.args), CArguments(m.args, values))
    BY <2>1
  <2> QED BY <1>6, <1>8, <2>2, CallCarries
<1>10. Sent(side, scanned, version, msg, call)
  <2>1. m.since <= version
    BY <1>1, <1>5
  <2>2. msg.id = i - 1
    BY <1>3
  <2> HIDE DEF msg, entry
  <2> QED BY <1>7, <1>8, <1>9, <2>1, <2>2 DEF Sent
<1> HIDE DEF msg, call, entry, scanned
<1>11. Queue(side) /\ wire = [s \in Sides |-> wire[s]] /\ issued = [s \in Sides |-> issued[s]]
  BY DEF StubsInv
<1>12. /\ wire' = [s \in Sides |-> wire'[s]] /\ issued' = [s \in Sides |-> issued'[s]]
       /\ wire'[side] = Append(wire[side], msg) /\ issued'[side] = Append(issued[side], call)
       /\ \A s \in Sides : s # side => wire'[s] = wire[s] /\ issued'[s] = issued[s]
  BY <1>1, <1>11
<1>13. ASSUME NEW s \in Sides PROVE Queue(s)'
  <2>1. CASE s = side
    <3>1. QueueInv(side, Scan(Sender(side), side), version, wrapped, wire[side], issued[side], heard[side])
      BY <1>11 DEF Queue
    <3>2. QueueInv(side, Scan(Sender(side), side), version, wrapped, Append(wire[side], msg),
                   Append(issued[side], call), heard[side])
      BY <1>10, <3>1, QueueCall DEF scanned
    <3> QED BY <1>1, <1>12, <2>1, <3>2 DEF Queue, Sender
  <2>2. CASE s # side
    BY <1>1, <1>12, <2>2 DEF Queue, Sender, StubsInv
  <2> QED BY <2>1, <2>2
<1>14. BoundInv'
  BY <1>1 DEF BoundInv, StubsInv
<1>15. DocumentInv'
  <2>1. Len(ret) \in Nat
    BY <1>6
  <2>2. seq' \in Nat
    BY <1>1, <1>s, <2>1
  <2> QED BY <1>1, <2>2 DEF DocumentInv, StubsInv
<1>16. ProgramInv(client, doc, release)' /\ ProgramInv(server, doc, release)'
  BY <1>1 DEF StubsInv
<1> QED BY <1>1, <1>12, <1>13, <1>14, <1>15, <1>16 DEF StubsInv

LEMMA CalledInv ==
    ASSUME StubsInv, NEW side \in Sides, Called(side)
    PROVE  StubsInv'
<1> DEFINE scanned == Scan(Sender(side), side)
           theirs == Scan(Receiver(side), side)
           msg == Head(wire[side])
           table == Table(Receiver(side), side)
           stubs == {k \in DOMAIN theirs : theirs[k].idx = msg.id}
           known == msg.id < Len(table)
           listens == (side = "s2c" => wrapped) /\ stubs # {}
           given(k) == [name |-> theirs[k].method.name,
                        args |-> StubArguments(theirs[k].method, Passed(msg.payload)),
                        destructor |-> theirs[k].method.destructor]
<1>1. /\ wire[side] # <<>>
      /\ wire' = [wire EXCEPT ![side] = Tail(@)]
      /\ IF known /\ ~listens THEN UNCHANGED <<heard, refused, dead>>
         ELSE IF known /\ Accepts(table[msg.id + 1], msg.payload)
         THEN /\ \E k \in stubs : heard' = [heard EXCEPT ![side] = Append(@, given(k))]
              /\ UNCHANGED <<refused, dead>>
         ELSE refused' = TRUE /\ dead' = (side = "c2s") /\ UNCHANGED heard
      /\ UNCHANGED <<doc, release, client, server, version, wrapped, seq, issued>>
  BY Zenon DEF Called
<1>2. /\ Queue(side) /\ wire = [s \in Sides |-> wire[s]] /\ heard = [s \in Sides |-> heard[s]]
      /\ ~refused /\ version \in Nat
  BY DEF StubsInv, BoundInv
<1>3. version > 0
  BY <1>1, <1>2 DEF StubsInv, BoundInv
<1> DEFINE call == issued[side][1 + (Len(issued[side]) - Len(wire[side]))]
<1>4. IsSeq(wire[side]) /\ 1 \in 1..Len(wire[side]) /\ msg = wire[side][1]
  <2>1. IsSeq(wire[side])
    BY <1>2 DEF Queue, QueueInv
  <2>2. Len(wire[side]) > 0 /\ Head(wire[side]) = wire[side][1]
    BY <1>1, <2>1, Tailed
  <2>3. Len(wire[side]) \in Nat
    BY <2>1 DEF IsSeq
  <2> QED BY <2>1, <2>2, <2>3
<1>5. Sent(side, scanned, version, msg, call)
  BY <1>2, <1>4 DEF Queue, QueueInv
<1> HIDE DEF call, msg
<1>6. PICK i \in DOMAIN scanned : \E ret, values :
        /\ msg.id = i - 1 /\ scanned[i].method.since <= version
        /\ Fits(scanned[i].method.args, values) /\ Carries(msg.payload, ret, scanned[i].method.args, values)
        /\ ret # <<>> <=> side = "c2s" /\ scanned[i].method.returns
        /\ call = [name |-> scanned[i].method.name, args |-> ret \o values,
                   destructor |-> scanned[i].method.destructor]
  BY <1>5 DEF Sent
<1>7. PICK ret, values :
        /\ msg.id = i - 1 /\ scanned[i].method.since <= version
        /\ Fits(scanned[i].method.args, values) /\ Carries(msg.payload, ret, scanned[i].method.args, values)
        /\ ret # <<>> <=> side = "c2s" /\ scanned[i].method.returns
        /\ call = [name |-> scanned[i].method.name, args |-> ret \o values,
                   destructor |-> scanned[i].method.destructor]
  BY <1>6
<1>8. Receiver(side) \in Seq(Method) /\ i \in DOMAIN theirs /\ theirs[i] = scanned[i]
  BY <1>3, <1>7, Programs
<1> DEFINE m == theirs[i].method
<1>9. /\ DOMAIN theirs = 1..Len(theirs) /\ Len(theirs) \in Nat /\ i \in Nat /\ i <= Len(theirs) /\ i >= 1
      /\ \A k \in DOMAIN theirs : theirs[k].idx = k - 1
      /\ m \in Method /\ m.side = side
  BY <1>8, ScannedFrom
<1> HIDE DEF scanned, theirs
<1>10. stubs = {i}
  BY <1>7, <1>8, <1>9
<1> HIDE DEF stubs
<1>11. known /\ msg.id + 1 = i
  <2>1. Len(table) = Len(theirs)
    BY <1>8, TableOf DEF theirs
  <2> HIDE DEF table
  <2> QED BY <1>7, <1>9, <2>1
<1>12. Accepts(table[i], msg.payload)
  <2> DEFINE b == side = "c2s" /\ m.returns
             entry == table[i]
  <2>1. entry = [params |-> Params(m.args), since |-> m.since, returns |-> b]
    BY <1>8, TableOf DEF theirs
  <2> HIDE DEF b, entry, m
  <2>2. entry.params = Params(m.args) /\ entry.since = m.since /\ entry.returns = b
    BY <2>1
  <2>3. m.since <= version /\ Carries(msg.payload, ret, m.args, values) /\ m.args \in Seq(Argument)
    BY <1>7, <1>8, <1>9 DEF m, Method
  <2>4. b <=> ret # <<>>
    BY <1>7, <1>8 DEF b, m
  <2>5. IsPrefix((IF ret # <<>> THEN <<"seq">> ELSE <<>>) \o Params(m.args),
                 FlattenSeq([k \in DOMAIN msg.payload |-> msg.payload[k].magics]))
    BY <2>3, Understood
  <2>6. (IF entry.returns THEN <<"seq">> ELSE <<>>) = IF ret # <<>> THEN <<"seq">> ELSE <<>>
    BY <2>2, <2>4
  <2> HIDE DEF table
  <2>7. Accepts(entry, msg.payload)
    BY <2>2, <2>3, <2>5, <2>6, Zenon DEF Accepts
  <2> QED BY <2>7 DEF entry
<1>13. given(i) = call
  <2>1. /\ m.args \in Seq(Argument) /\ Fits(m.args, values) /\ Carries(msg.payload, ret, m.args, values)
        /\ ret # <<>> <=> m.side = "c2s" /\ m.returns
    BY <1>7, <1>8, <1>9 DEF Method
  <2>2. StubArguments(m, Passed(msg.payload)) = ret \o values
    <3> HIDE DEF m
    <3> QED BY <2>1, HeardArguments
  <2> QED BY <1>7, <1>8, <2>2
<1> HIDE DEF given, m, known, table
<1>14. \/ /\ ~(side = "s2c" => wrapped) /\ UNCHANGED <<heard, refused>>
       \/ /\ side = "s2c" => wrapped
          /\ heard' = [heard EXCEPT ![side] = Append(@, call)] /\ UNCHANGED refused
  <2>1. stubs # {}
    BY <1>10
  <2>2. CASE side = "s2c" => wrapped
    <3>1. Accepts(table[msg.id + 1], msg.payload)
      BY <1>11, <1>12
    <3>2. /\ \E k \in stubs : heard' = [heard EXCEPT ![side] = Append(@, given(k))]
          /\ UNCHANGED <<refused, dead>>
      BY <1>1, <1>11, <2>1, <2>2, <3>1, Zenon
    <3> QED BY <1>10, <1>13, <2>2, <3>2
  <2>3. CASE ~(side = "s2c" => wrapped)
    BY <1>1, <1>11, <2>3
  <2> QED BY <2>2, <2>3
<1>15. /\ wire' = [s \in Sides |-> wire'[s]] /\ wire'[side] = Tail(wire[side])
       /\ \A s \in Sides : s # side => wire'[s] = wire[s]
  BY <1>1, <1>2
<1>16. /\ heard' = [s \in Sides |-> heard'[s]]
       /\ \A s \in Sides : s # side => heard'[s] = heard[s]
  BY <1>2, <1>14
<1>17. Queue(side)'
  <2>1. QueueInv(side, scanned, version, wrapped, wire[side], issued[side], heard[side])
    BY <1>2 DEF Queue, scanned
  <2>2. Scan(Sender(side), side)' = scanned
    BY <1>1 DEF scanned, Sender
  <2>3. CASE side = "s2c" => wrapped
    <3>1. heard'[side] = Append(heard[side], call)
      BY <1>2, <1>14, <2>3
    <3>2. QueueInv(side, scanned, version, wrapped, Tail(wire[side]), issued[side], Append(heard[side], call))
      BY <1>1, <2>1, <2>3, QueueHear DEF call
    <3> QED BY <1>1, <1>15, <2>2, <3>1, <3>2 DEF Queue
  <2>4. CASE ~(side = "s2c" => wrapped)
    <3>1. heard'[side] = heard[side]
      BY <1>14, <2>4
    <3>2. QueueInv(side, scanned, version, wrapped, Tail(wire[side]), issued[side], heard[side])
      BY <1>1, <2>1, <2>4, QueueDrop
    <3> QED BY <1>1, <1>15, <2>2, <3>1, <3>2 DEF Queue
  <2> QED BY <2>3, <2>4
<1>18. ASSUME NEW s \in Sides PROVE Queue(s)'
  <2>1. CASE s = side
    BY <1>17, <2>1
  <2>2. CASE s # side
    BY <1>1, <1>15, <1>16, <2>2 DEF Queue, Sender, StubsInv
  <2> QED BY <2>1, <2>2
<1>19. BoundInv'
  BY <1>1, <1>3 DEF BoundInv, StubsInv
<1>20. DocumentInv'
  BY <1>1 DEF DocumentInv, StubsInv
<1>21. ProgramInv(client, doc, release)' /\ ProgramInv(server, doc, release)'
  BY <1>1 DEF StubsInv
<1>22. /\ ~refused' /\ issued' = [s \in Sides |-> issued'[s]]
  BY <1>1, <1>2, <1>14 DEF StubsInv
<1> QED BY <1>15, <1>16, <1>18, <1>19, <1>20, <1>21, <1>22 DEF StubsInv

(* Every step keeps it.                                                       *)
LEMMA StubsNextInv == StubsInv /\ [StubsNext]_stubsVars => StubsInv'
<1> SUFFICES ASSUME StubsInv, [StubsNext]_stubsVars PROVE StubsInv'
  OBVIOUS
<1>1. CASE \E side \in Sides, shape \in Shapes : AddMethod(side, shape)
  BY <1>1, AddMethodInv
<1>2. CASE Release
  BY <1>2, ReleaseInv
<1>3. CASE \E v \in 1..MaxReleases : Bind(v)
  BY <1>3, BindInv
<1>4. CASE Wrap
  BY <1>4, WrapInv
<1>5. CASE \E side \in Sides : \E i \in DOMAIN Scan(Sender(side), side) :
              \E values \in Arguments(Scan(Sender(side), side)[i].method.args) : Call(side, i, values)
  BY <1>5, CallInv
<1>6. CASE \E side \in Sides : \E i \in DOMAIN Scan(Sender(side), side) : CallTooNew(side, i)
  BY <1>6, CallTooNewInv DEF CallTooNew
<1>7. CASE \E side \in Sides : Called(side)
  BY <1>7, CalledInv
<1>8. CASE UNCHANGED stubsVars
  BY <1>8, CallTooNewInv DEF stubsVars
<1> QED BY <1>1, <1>2, <1>3, <1>4, <1>5, <1>6, <1>7, <1>8 DEF StubsNext

LEMMA StubsInvariant == StubsSpec => []StubsInv
BY StubsInitInv, StubsNextInv, PTL DEF StubsSpec

(* Whatever the document says and whichever releases the programs come from,  *)
(* what one lets through the other does not refuse: a method that is not      *)
(* newer than the bound object is in both tables at the same place, and the   *)
(* types that call puts on the wire are those that called expects.            *)
THEOREM NothingIsRefused == StubsSpec => []ReleasesAgree
<1>1. StubsInv => ReleasesAgree
  BY DEF StubsInv, ReleasesAgree
<1> QED BY <1>1, StubsInvariant, PTL

(* A listener is given the method that was called and its arguments, in the   *)
(* order of the calls, whatever the types of the arguments are; and no call   *)
(* of a client is lost.                                                       *)
THEOREM CallsArriveAsMade == StubsSpec => []CallsMeanTheSame
<1>1. StubsInv => CallsMeanTheSame
  <2> SUFFICES ASSUME StubsInv PROVE CallsMeanTheSame
    OBVIOUS
  <2>1. ASSUME NEW side \in Sides, NEW i \in DOMAIN heard[side]
        PROVE  heard[side][i] = issued[side][i + (Len(issued[side]) - Len(wire[side]) - Len(heard[side]))]
    <3>1. DOMAIN heard[side] = 1..Len(heard[side])
      <4>1. IsSeq(heard[side])
        BY DEF StubsInv, Queue, QueueInv
      <4> QED BY <4>1 DEF IsSeq
    <3> QED BY <3>1 DEF StubsInv, Queue, QueueInv
  <2>2. Len(heard["c2s"]) + Len(wire["c2s"]) = Len(issued["c2s"])
    BY DEF StubsInv, Queue, QueueInv, Sides
  <2> QED BY <2>1, <2>2 DEF CallsMeanTheSame
<1> QED BY <1>1, StubsInvariant, PTL
=============================================================================
