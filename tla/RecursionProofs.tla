--------------------------- MODULE RecursionProofs ----------------------------
(* Recursion without an operator parameter: what the proofs about generated   *)
(* code and about messages know of sequences of sequences and of functions    *)
(* that are defined by recursion.                                             *)
EXTENDS Naturals, SequencesExt, WellFoundedInduction, TLAPS

-----------------------------------------------------------------------------
(* Induction and recursion over the natural numbers, stated with sets and     *)
(* functions, and what FlattenSeq makes of a sequence of sequences.           *)

(* A non-empty set of natural numbers has a least element.                    *)
LEMMA Least ==
    ASSUME NEW B \in SUBSET Nat, B # {}
    PROVE  \E m \in B : \A k \in B : m <= k
<1> DEFINE R == OpToRel(<, Nat)
<1>1. IsWellFoundedOn(R, Nat)
  BY NatLessThanWellFounded
<1>2. \A k, m \in Nat : k < m => <<k, m>> \in R
  BY DEF OpToRel
<1> HIDE DEF R
<1>3. \E m \in B : \A k \in B : <<k, m>> \notin R
  BY <1>1, WFMin
<1>4. PICK m \in B : \A k \in B : <<k, m>> \notin R
  BY <1>3
<1>5. \A k \in B : k \in Nat /\ m \in Nat /\ ~(k < m)
  BY <1>2, <1>4
<1>6. \A k \in B : m <= k
  BY <1>5
<1> QED BY <1>6

(* What holds of 0 and passes from each number to the next holds of all.      *)
LEMMA Induction ==
    ASSUME NEW A, 0 \in A, \A n \in Nat : n \in A => n + 1 \in A
    PROVE  Nat \subseteq A
<1> DEFINE B == Nat \ A
<1>1. SUFFICES ASSUME B # {} PROVE FALSE
  OBVIOUS
<1>2. PICK m \in B : \A k \in B : m <= k
  BY <1>1, Least
<1>3. m # 0 /\ m - 1 \in Nat /\ m - 1 \notin B
  BY <1>2
<1> QED BY <1>2, <1>3

(* A function on the natural numbers whose value at n depends on its values   *)
(* before n only.                                                             *)
Determined(T, step) ==
    \A n \in Nat : \A g, h \in [Nat -> T] :
        (\A k \in Nat : k < n => g[k] = h[k]) => step[<<n, g>>] = step[<<n, h>>]

Solves(f, T, step) == f \in [Nat -> T] /\ \A n \in Nat : f[n] = step[<<n, f>>]

(* Such a function exists.                                                    *)
LEMMA Recursion ==
    ASSUME NEW T, NEW t \in T, NEW step \in [Nat \X [Nat -> T] -> T], Determined(T, step)
    PROVE  \E f : Solves(f, T, step)
<1> DEFINE Upto(n, g) == \A k \in Nat : k < n => g[k] = step[<<k, g>>]
           A == {n \in Nat : \E g \in [Nat -> T] : Upto(n, g)}
<1>1. 0 \in A
  <2>1. [n \in Nat |-> t] \in [Nat -> T] /\ 0 \in Nat
    OBVIOUS
  <2>2. \A g \in [Nat -> T] : Upto(0, g)
    OBVIOUS
  <2> HIDE DEF Upto
  <2> QED BY <2>1, <2>2
<1>2. ASSUME NEW n \in Nat, n \in A PROVE n + 1 \in A
  <2>1. PICK g \in [Nat -> T] : Upto(n, g)
    BY <1>2
  <2> DEFINE h == [g EXCEPT ![n] = step[<<n, g>>]]
  <2>2. h \in [Nat -> T] /\ h[n] = step[<<n, g>>] /\ \A k \in Nat : k # n => h[k] = g[k]
    OBVIOUS
  <2> HIDE DEF h
  <2>3. ASSUME NEW k \in Nat, k < n + 1 PROVE h[k] = step[<<k, h>>]
    <3>1. step[<<k, g>>] = step[<<k, h>>]
      <4>1. \A j \in Nat : j < k => g[j] = h[j]
        BY <2>2, <2>3
      <4> QED BY <4>1, <2>2 DEF Determined
    <3>2. h[k] = step[<<k, g>>]
      BY <2>1, <2>2, <2>3
    <3> QED BY <3>1, <3>2
  <2> QED BY <2>2, <2>3
<1> HIDE DEF A
<1>3. Nat \subseteq A
  BY <1>1, <1>2, Induction
<1> USE DEF A
<1>4. ASSUME NEW m \in Nat, NEW g \in [Nat -> T], NEW h \in [Nat -> T], Upto(m, g), Upto(m, h),
             NEW k \in Nat, k < m
      PROVE  g[k] = h[k]
  <2> DEFINE B == {j \in Nat : j < m /\ g[j] # h[j]}
  <2>1. SUFFICES ASSUME B # {} PROVE FALSE
    BY <1>4
  <2>2. PICK j \in B : \A i \in B : j <= i
    BY <2>1, Least
  <2>3. \A i \in Nat : i < j => g[i] = h[i]
    BY <2>2
  <2>4. step[<<j, g>>] = step[<<j, h>>]
    BY <2>3 DEF Determined
  <2> QED BY <1>4, <2>2, <2>4
<1> DEFINE G(n) == CHOOSE g \in [Nat -> T] : Upto(n, g)
           f == [n \in Nat |-> G(n + 1)[n]]
<1>5. ASSUME NEW n \in Nat PROVE G(n) \in [Nat -> T] /\ Upto(n, G(n))
  <2>1. \E g \in [Nat -> T] : Upto(n, g)
    BY <1>3
  <2> QED BY <2>1
<1> HIDE DEF G, Upto
<1>6. f \in [Nat -> T]
  BY <1>5
<1>7. ASSUME NEW n \in Nat PROVE f[n] = step[<<n, f>>]
  <2>1. f[n] = step[<<n, G(n + 1)>>]
    <3>1. G(n + 1) \in [Nat -> T] /\ Upto(n + 1, G(n + 1))
      BY <1>5
    <3> QED BY <3>1 DEF Upto
  <2>2. ASSUME NEW k \in Nat, k < n PROVE f[k] = G(n + 1)[k]
    <3>1. G(k + 1) \in [Nat -> T] /\ Upto(k + 1, G(k + 1))
      BY <1>5
    <3>2. G(n + 1) \in [Nat -> T] /\ Upto(k + 1, G(n + 1))
      <4>1. G(n + 1) \in [Nat -> T] /\ Upto(n + 1, G(n + 1))
        BY <1>5
      <4>2. \A j \in Nat : j < k + 1 => j < n + 1
        BY <2>2
      <4> QED BY <4>1, <4>2 DEF Upto
    <3>3. G(k + 1)[k] = G(n + 1)[k]
      BY <1>4, <3>1, <3>2
    <3> QED BY <3>3
  <2>3. G(n + 1) \in [Nat -> T]
    BY <1>5
  <2> QED BY <1>6, <2>1, <2>2, <2>3 DEF Determined
<1> QED BY <1>6, <1>7 DEF Solves

(* A function whose value at n + 1 depends on its value at n only.            *)
Iterates(f, T, e, next) ==
    f \in [Nat -> T] /\ f[0] = e /\ \A n \in Nat : f[n + 1] = next[<<n, f[n]>>]

LEMMA Iteration ==
    ASSUME NEW T, NEW e \in T, NEW next \in [Nat \X T -> T]
    PROVE  \E f : Iterates(f, T, e, next)
<1> DEFINE step == [p \in Nat \X [Nat -> T] |->
                      IF p[1] = 0 THEN e ELSE next[<<p[1] - 1, p[2][p[1] - 1]>>]]
<1>1. ASSUME NEW n \in Nat, NEW g \in [Nat -> T]
      PROVE  step[<<n, g>>] = IF n = 0 THEN e ELSE next[<<n - 1, g[n - 1]>>]
  OBVIOUS
<1>2. ASSUME NEW n \in Nat, NEW g \in [Nat -> T]
      PROVE  (IF n = 0 THEN e ELSE next[<<n - 1, g[n - 1]>>]) \in T
  <2>1. CASE n = 0
    BY <2>1
  <2>2. CASE n # 0
    <3>1. n - 1 \in Nat
      BY <2>2
    <3>2. <<n - 1, g[n - 1]>> \in Nat \X T
      BY <3>1
    <3> QED BY <2>2, <3>2
  <2> QED BY <2>1, <2>2
<1>3. step \in [Nat \X [Nat -> T] -> T]
  BY <1>2
<1> HIDE DEF step
<1>4. Determined(T, step)
  <2>1. \A n \in Nat : n # 0 => n - 1 \in Nat /\ n - 1 < n
    OBVIOUS
  <2>2. ASSUME NEW n \in Nat, NEW g \in [Nat -> T], NEW h \in [Nat -> T],
               \A k \in Nat : k < n => g[k] = h[k]
        PROVE  step[<<n, g>>] = step[<<n, h>>]
    <3>1. n # 0 => g[n - 1] = h[n - 1]
      BY <2>1, <2>2
    <3>2. /\ step[<<n, g>>] = IF n = 0 THEN e ELSE next[<<n - 1, g[n - 1]>>]
          /\ step[<<n, h>>] = IF n = 0 THEN e ELSE next[<<n - 1, h[n - 1]>>]
      BY <1>1
    <3> QED BY <3>1, <3>2
  <2> QED BY <2>2 DEF Determined
<1>5. PICK f : Solves(f, T, step)
  BY <1>3, <1>4, Recursion
<1>f. f \in [Nat -> T]
  BY <1>5 DEF Solves
<1>6. f[0] = e
  <2>1. f[0] = step[<<0, f>>]
    BY <1>5 DEF Solves
  <2> QED BY <1>1, <1>f, <2>1
<1>7. ASSUME NEW n \in Nat PROVE f[n + 1] = next[<<n, f[n]>>]
  <2>1. n + 1 \in Nat /\ n + 1 # 0 /\ (n + 1) - 1 = n
    OBVIOUS
  <2>2. f[n + 1] = step[<<n + 1, f>>]
    BY <1>5, <2>1 DEF Solves
  <2> QED BY <1>1, <1>f, <2>1, <2>2
<1> QED BY <1>f, <1>6, <1>7 DEF Iterates

-----------------------------------------------------------------------------
(* FlattenSeq(ss) is in parts: off[i] is where the i-th one ends.             *)
PartsOf(flat, ss, off) ==
    /\ off \in [0..Len(ss) -> Nat] /\ off[0] = 0 /\ Len(flat) = off[Len(ss)]
    /\ \A i \in 1..Len(ss) :
        /\ off[i] = off[i - 1] + Len(ss[i])
        /\ off[i] <= Len(flat)
        /\ \A k \in 1..Len(ss[i]) : flat[off[i - 1] + k] = ss[i][k]

(* Sequences that are each longer by one part than the one before.            *)
Joins(f, T, e, ss, N) ==
    f \in [Nat -> T] /\ f[0] = e /\ \A n \in 1..N : f[n] = f[n - 1] \o ss[n]
Closed(T) == \A s, t \in T : s \o t \in T
Neutral(T) == <<>> \in T /\ \A t \in T : <<>> \o t = t

(* Sequences can be joined one after the other.                               *)
LEMMA Joining ==
    ASSUME NEW T, NEW e \in T, NEW N \in Nat, NEW ss \in [1..N -> T], Closed(T)
    PROVE  \E f : Joins(f, T, e, ss, N)
<1> DEFINE next == [p \in Nat \X T |-> IF p[1] + 1 \in 1..N THEN p[2] \o ss[p[1] + 1] ELSE p[2]]
<1>1. \A n \in Nat, s \in T : next[<<n, s>>] = IF n + 1 \in 1..N THEN s \o ss[n + 1] ELSE s
  OBVIOUS
<1>2. next \in [Nat \X T -> T]
  <2>1. ASSUME NEW n \in Nat, NEW s \in T
        PROVE  (IF n + 1 \in 1..N THEN s \o ss[n + 1] ELSE s) \in T
    BY DEF Closed
  <2> QED BY <2>1
<1> HIDE DEF next
<1>3. PICK f : Iterates(f, T, e, next)
  BY <1>2, Iteration
<1>4. ASSUME NEW n \in 1..N PROVE f[n] = f[n - 1] \o ss[n]
  <2>1. n - 1 \in Nat /\ (n - 1) + 1 = n
    OBVIOUS
  <2>2. f[n] = next[<<n - 1, f[n - 1]>>] /\ f[n - 1] \in T
    BY <1>3, <2>1 DEF Iterates
  <2> QED BY <1>1, <2>1, <2>2
<1> QED BY <1>3, <1>4 DEF Joins, Iterates

(* The recursive function in FlattenSeq computes them.                        *)
LEMMA FlattenJoins ==
    ASSUME NEW N \in Nat \ {0}, NEW T, NEW ss \in [1..N -> T], NEW f \in [Nat -> T],
           Len(ss) = N, f[1] = ss[1], \A n \in 2..N : f[n] = f[n - 1] \o ss[n]
    PROVE  FlattenSeq(ss) = f[N]
<1> DEFINE Good(g) == g = [i \in 1..N |-> IF i = 1 THEN ss[i] ELSE g[i - 1] \o ss[i]]
           F == CHOOSE g : Good(g)
<1>1. Good([i \in 1..N |-> f[i]])
  <2> DEFINE h == [i \in 1..N |-> f[i]]
  <2>1. ASSUME NEW i \in 1..N PROVE h[i] = IF i = 1 THEN ss[i] ELSE h[i - 1] \o ss[i]
    <3>1. CASE i = 1
      BY <3>1
    <3>2. CASE i # 1
      <4>1. i \in 2..N /\ i - 1 \in 1..N
        BY <3>2
      <4> QED BY <3>2, <4>1
    <3> QED BY <3>1, <3>2
  <2> QED BY <2>1
<1>2. Good(F)
  <2> HIDE DEF Good
  <2> QED BY <1>1
<1>3. FlattenSeq(ss) = F[N]
  BY DEF FlattenSeq
<1> HIDE DEF F
<1>4. \A n \in 1..N : F[n] = IF n = 1 THEN ss[n] ELSE F[n - 1] \o ss[n]
  BY <1>2
<1>5. \A n \in 1..N : F[n] = f[n]
  <2> DEFINE B == {n \in 1..N : F[n] # f[n]}
  <2>1. SUFFICES ASSUME B # {} PROVE FALSE
    OBVIOUS
  <2>2. B \in SUBSET Nat
    OBVIOUS
  <2> HIDE DEF B
  <2>3. PICK m \in B : \A k \in B : m <= k
    BY <2>1, <2>2, Least
  <2> USE DEF B
  <2>4. CASE m = 1
    BY <1>4, <2>3, <2>4
  <2>5. CASE m # 1
    <3>1. m - 1 \in 1..N /\ m \in 2..N /\ m - 1 \notin B
      BY <2>3, <2>5
    <3>2. F[m - 1] = f[m - 1]
      BY <3>1
    <3>3. F[m] = F[m - 1] \o ss[m]
      BY <1>4, <2>5
    <3> QED BY <3>1, <3>2, <3>3
  <2> QED BY <2>4, <2>5
<1>6. N \in 1..N
  OBVIOUS
<1> QED BY <1>3, <1>5, <1>6

(* FlattenSeq is what such a joining ends with.                               *)
LEMMA FlattenFunction ==
    ASSUME NEW T, NEW N \in Nat \ {0}, NEW ss \in [1..N -> T], Len(ss) = N,
           Closed(T), Neutral(T)
    PROVE  \E f : Joins(f, T, <<>>, ss, N) /\ FlattenSeq(ss) = f[N]
<1>1. PICK f : Joins(f, T, <<>>, ss, N)
  <2>1. <<>> \in T
    BY DEF Neutral
  <2> QED BY <2>1, Joining
<1>2. f \in [Nat -> T] /\ \A n \in 2..N : f[n] = f[n - 1] \o ss[n]
  <2>1. \A n \in 2..N : n \in 1..N
    OBVIOUS
  <2> QED BY <1>1, <2>1 DEF Joins
<1>3. f[1] = ss[1]
  <2>1. f[1] = f[0] \o ss[1] /\ f[0] = <<>> /\ ss[1] \in T
    <3>1. 1 \in 1..N /\ 1 - 1 = 0
      OBVIOUS
    <3>2. f[1] = f[1 - 1] \o ss[1] /\ f[0] = <<>>
      BY <1>1, <3>1 DEF Joins
    <3> QED BY <3>1, <3>2
  <2> QED BY <2>1 DEF Neutral
<1>4. FlattenSeq(ss) = f[N]
  BY <1>2, <1>3, FlattenJoins
<1> QED BY <1>1, <1>4

(* f[i] is f[i - 1] with ss[i] behind it, up to off[i].                       *)
Grows(f, ss, off, i) ==
    /\ off[i - 1] \in Nat /\ Len(ss[i]) \in Nat /\ off[i] = off[i - 1] + Len(ss[i])
    /\ \A k \in 1..off[i - 1] : f[i][k] = f[i - 1][k]
    /\ \A k \in 1..Len(ss[i]) : f[i][off[i - 1] + k] = ss[i][k]

(* f[n] holds ss[i] in its place.                                             *)
Keeps(f, ss, off, i, n) ==
    /\ off[i] <= off[n]
    /\ \A k \in 1..Len(ss[i]) : f[n][off[i - 1] + k] = ss[i][k]

(* What is joined behind a part leaves the part where it is.                  *)
LEMMA KeepsOne ==
    ASSUME NEW f, NEW ss, NEW off, NEW i, NEW n, n \in Nat,
           Grows(f, ss, off, i), Grows(f, ss, off, n + 1), Keeps(f, ss, off, i, n)
    PROVE  Keeps(f, ss, off, i, n + 1)
<1>1. (n + 1) - 1 = n
  OBVIOUS
<1> DEFINE l == Len(ss[i])
           m == Len(ss[n + 1])
<1>2. /\ off[n] \in Nat /\ m \in Nat /\ off[n + 1] = off[n] + m
      /\ \A k \in 1..off[n] : f[n + 1][k] = f[n][k]
  BY <1>1 DEF Grows
<1>3. off[i - 1] \in Nat /\ l \in Nat /\ off[i] = off[i - 1] + l
  BY DEF Grows
<1>4. off[i] <= off[n] /\ \A k \in 1..l : f[n][off[i - 1] + k] = ss[i][k]
  BY DEF Keeps
<1> HIDE DEF l, m
<1>5. \A k \in 1..l : off[i - 1] + k \in 1..off[n]
  BY <1>2, <1>3, <1>4
<1>6. off[i] <= off[n + 1] /\ \A k \in 1..l : f[n + 1][off[i - 1] + k] = ss[i][k]
  BY <1>2, <1>3, <1>4, <1>5
<1> QED BY <1>6 DEF Keeps, l

LEMMA KeepsAll ==
    ASSUME NEW N \in Nat, NEW f, NEW ss, NEW off, \A i \in 1..N : Grows(f, ss, off, i)
    PROVE  \A i \in 1..N : Keeps(f, ss, off, i, N)
<1> DEFINE A == {n \in Nat : n <= N => \A i \in 1..N : i <= n => Keeps(f, ss, off, i, n)}
<1>1. 0 \in A
  OBVIOUS
<1>2. ASSUME NEW n \in Nat, n \in A PROVE n + 1 \in A
  <2>1. ASSUME n + 1 <= N, NEW i \in 1..N, i <= n + 1 PROVE Keeps(f, ss, off, i, n + 1)
    <3>1. n + 1 \in 1..N
      BY <2>1
    <3>2. CASE i = n + 1
      <4>1. off[i] <= off[i]
        BY <2>1, SMTT(30) DEF Grows
      <4>2. Grows(f, ss, off, i)
        BY <2>1
      <4> QED BY <3>2, <4>1, <4>2 DEF Keeps, Grows
    <3>3. CASE i # n + 1
      BY <1>2, <2>1, <3>1, <3>3, KeepsOne
    <3> QED BY <3>2, <3>3
  <2> QED BY <2>1
<1> HIDE DEF A
<1>3. N \in A
  BY <1>1, <1>2, Induction
<1> QED BY <1>3 DEF A

(* Every flattened sequence has its parts somewhere in it, one behind the     *)
(* other and nothing between them.                                            *)
LEMMA Flattened ==
    ASSUME NEW S, NEW ss \in Seq(Seq(S))
    PROVE  /\ FlattenSeq(ss) \in Seq(S)
           /\ \E off : PartsOf(FlattenSeq(ss), ss, off)
<1>1. CASE ss = <<>>
  <2>1. FlattenSeq(ss) = <<>>
    BY <1>1 DEF FlattenSeq
  <2>2. PartsOf(<<>>, ss, [i \in 0..0 |-> 0])
    BY <1>1 DEF PartsOf
  <2> QED BY <2>1, <2>2
<1>2. CASE ss # <<>>
  <2> DEFINE N == Len(ss)
             T == Seq(S)
  <2>1. N \in Nat \ {0} /\ ss \in [1..N -> T] /\ Len(ss) = N
    BY <1>2
  <2>2. Closed(T) /\ Neutral(T)
    BY DEF Closed, Neutral
  <2>3. \A t \in T : Len(t) \in Nat
    OBVIOUS
  <2>4. Len(<<>>) = 0
    OBVIOUS
  <2>5. \A s, t \in T :
           /\ Len(s \o t) = Len(s) + Len(t)
           /\ \A k \in 1..Len(s) : (s \o t)[k] = s[k]
           /\ \A k \in 1..Len(t) : (s \o t)[Len(s) + k] = t[k]
    OBVIOUS
  <2> SUFFICES FlattenSeq(ss) \in T /\ \E off : PartsOf(FlattenSeq(ss), ss, off)
    OBVIOUS
  <2> HIDE DEF N, T
  <2>6. PICK f : Joins(f, T, <<>>, ss, N) /\ FlattenSeq(ss) = f[N]
    BY <2>1, <2>2, FlattenFunction
  <2>7. \A n \in Nat : f[n] \in T
    BY <2>6 DEF Joins
  <2> DEFINE off == [i \in 0..N |-> Len(f[i])]
  <2>8. off \in [0..N -> Nat] /\ off[0] = 0 /\ \A i \in 0..N : off[i] = Len(f[i])
    BY <2>1, <2>3, <2>4, <2>6, <2>7 DEF Joins
  <2> HIDE DEF off
  <2>9. ASSUME NEW i \in 1..N PROVE Grows(f, ss, off, i)
    <3> DEFINE s == f[i - 1]
               t == ss[i]
    <3>1. i \in 0..N /\ i - 1 \in 0..N /\ i - 1 \in Nat
      BY <2>1
    <3>2. s \in T /\ t \in T
      BY <2>1, <2>7, <3>1
    <3>3. f[i] = s \o t
      BY <2>6 DEF Joins
    <3>4. off[i - 1] = Len(s) /\ off[i] = Len(s \o t)
      BY <2>8, <3>1, <3>3
    <3>5. Len(s) \in Nat /\ Len(t) \in Nat
      BY <2>3, <3>2
    <3>6. /\ Len(s \o t) = Len(s) + Len(t)
          /\ \A k \in 1..Len(s) : (s \o t)[k] = s[k]
          /\ \A k \in 1..Len(t) : (s \o t)[Len(s) + k] = t[k]
      BY <2>5, <3>2
    <3>7. \A k \in 1..off[i - 1] : f[i][k] = f[i - 1][k]
      BY <3>3, <3>4, <3>6
    <3>8. \A k \in 1..Len(ss[i]) : f[i][off[i - 1] + k] = ss[i][k]
      BY <3>3, <3>4, <3>6
    <3> QED BY <3>4, <3>5, <3>6, <3>7, <3>8 DEF Grows
  <2>10. \A i \in 1..N : Keeps(f, ss, off, i, N)
    BY <2>1, <2>9, KeepsAll
  <2>11. Len(f[N]) = off[N] /\ Len(ss) = N
    BY <2>1, <2>8
  <2>12. PartsOf(f[N], ss, off)
    BY <2>8, <2>9, <2>10, <2>11 DEF PartsOf, Grows, Keeps
  <2> QED BY <2>1, <2>6, <2>7, <2>12
<1> QED BY <1>1, <1>2

(* Numbers that grow by the lengths L of the parts reach every place in them. *)
Ends(off, L, N) ==
    /\ off \in [0..N -> Nat] /\ L \in [1..N -> Nat] /\ off[0] = 0
    /\ \A i \in 1..N : off[i] = off[i - 1] + L[i]

(* Every place lies in one of the parts.                                      *)
LEMMA Covered ==
    ASSUME NEW N \in Nat, NEW off, NEW L, Ends(off, L, N), NEW p \in 1..off[N]
    PROVE  \E i \in 1..N : \E k \in 1..L[i] : p = off[i - 1] + k
<1> DEFINE In(q, n) == \E i \in 1..n : \E k \in 1..L[i] : q = off[i - 1] + k
           A == {n \in Nat : n <= N => \A q \in 1..off[n] : In(q, n)}
<1>1. 0 \in A
  BY DEF Ends
<1>2. ASSUME NEW n \in Nat, n \in A PROVE n + 1 \in A
  <2>1. ASSUME n + 1 <= N, NEW q \in 1..off[n + 1] PROVE In(q, n + 1)
    <3>1. n \in 0..N /\ n + 1 \in 1..N /\ n + 1 \in 0..N /\ (n + 1) - 1 = n
      BY <2>1
    <3>2. off[n] \in Nat /\ L[n + 1] \in Nat
      BY <3>1 DEF Ends
    <3>3. off[n + 1] = off[n] + L[n + 1]
      <4> HIDE DEF In
      <4> QED BY <3>1 DEF Ends
    <3>4. CASE q <= off[n]
      <4>1. q \in 1..off[n]
        BY <2>1, <3>2, <3>3, <3>4
      <4>2. In(q, n)
        BY <1>2, <2>1, <4>1
      <4>3. \A i \in 1..n : i \in 1..(n + 1)
        OBVIOUS
      <4> QED BY <4>2, <4>3
    <3>5. CASE q > off[n]
      <4> DEFINE k == q - off[n]
      <4>1. k \in 1..L[n + 1] /\ q = off[n] + k
        BY <2>1, <3>2, <3>3, <3>5
      <4>2. n + 1 \in 1..(n + 1)
        OBVIOUS
      <4>3. q = off[(n + 1) - 1] + k
        BY <3>1, <4>1
      <4> HIDE DEF k
      <4> QED BY <4>1, <4>2, <4>3
    <3> QED BY <2>1, <3>2, <3>4, <3>5
  <2> QED BY <2>1
<1> HIDE DEF A
<1>3. N \in A
  BY <1>1, <1>2, Induction
<1>4. In(p, N)
  BY <1>3 DEF A
<1> QED BY <1>4

(* The parts' lengths say where they end.                                     *)
LEMMA SameEnds ==
    ASSUME NEW N \in Nat, NEW L, NEW off, NEW on, Ends(off, L, N), Ends(on, L, N)
    PROVE  off = on
<1> DEFINE A == {n \in Nat : n <= N => off[n] = on[n]}
<1>1. 0 \in A
  BY DEF Ends
<1>2. ASSUME NEW n \in Nat, n \in A PROVE n + 1 \in A
  <2>1. ASSUME n + 1 <= N PROVE off[n + 1] = on[n + 1]
    <3>1. n + 1 \in 1..N /\ (n + 1) - 1 = n /\ off[n] = on[n]
      BY <1>2, <2>1
    <3>2. off[n + 1] = off[(n + 1) - 1] + L[n + 1] /\ on[n + 1] = on[(n + 1) - 1] + L[n + 1]
      BY <3>1 DEF Ends
    <3> QED BY <3>1, <3>2
  <2> QED BY <2>1
<1> HIDE DEF A
<1>3. Nat \subseteq A
  BY <1>1, <1>2, Induction
<1>4. \A n \in 0..N : off[n] = on[n]
  BY <1>3 DEF A
<1> QED BY <1>4 DEF Ends

LengthsOf(ss) == [i \in 1..Len(ss) |-> Len(ss[i])]

LEMMA PartsEnd ==
    ASSUME NEW S, NEW ss \in Seq(Seq(S)), NEW flat, NEW off, PartsOf(flat, ss, off)
    PROVE  Ends(off, LengthsOf(ss), Len(ss)) /\ Len(ss) \in Nat
<1>1. Len(ss) \in Nat /\ \A i \in 1..Len(ss) : Len(ss[i]) \in Nat
  OBVIOUS
<1>2. LengthsOf(ss) \in [1..Len(ss) -> Nat] /\ \A i \in 1..Len(ss) : LengthsOf(ss)[i] = Len(ss[i])
  BY <1>1 DEF LengthsOf
<1> QED BY <1>1, <1>2 DEF PartsOf, Ends

LEMMA SameSeq ==
    ASSUME NEW S, NEW s \in Seq(S), NEW t \in Seq(S), Len(s) = Len(t), \A p \in 1..Len(s) : s[p] = t[p]
    PROVE  s = t
OBVIOUS

(* What is in the same parts is the same sequence.                            *)
LEMMA SameParts ==
    ASSUME NEW S, NEW ss \in Seq(Seq(S)), NEW s \in Seq(S), NEW t \in Seq(S),
           NEW off, NEW on, PartsOf(s, ss, off), PartsOf(t, ss, on)
    PROVE  s = t
<1> DEFINE N == Len(ss)
           L == LengthsOf(ss)
<1>1. N \in Nat /\ Ends(off, L, N) /\ Ends(on, L, N)
  BY PartsEnd
<1>2. off = on
  BY <1>1, SameEnds
<1>3. \A i \in 1..N : L[i] = Len(ss[i])
  BY DEF LengthsOf
<1>4. Len(s) = off[N] /\ Len(t) = off[N]
  BY <1>2 DEF PartsOf
<1> HIDE DEF L
<1>5. ASSUME NEW p \in 1..Len(s) PROVE s[p] = t[p]
  <2>0. p \in 1..off[N]
    BY <1>4
  <2>1. PICK i \in 1..N : \E k \in 1..L[i] : p = off[i - 1] + k
    <3> HIDE DEF N
    <3> QED BY <1>1, <2>0, Covered
  <2>2. PICK k \in 1..Len(ss[i]) : p = off[i - 1] + k
    BY <1>3, <2>1
  <2>3. s[off[i - 1] + k] = ss[i][k]
    BY <2>2 DEF PartsOf
  <2>4. t[off[i - 1] + k] = ss[i][k]
    BY <1>2, <2>2 DEF PartsOf
  <2> QED BY <2>2, <2>3, <2>4
<1>6. Len(s) = Len(t)
  BY <1>4
<1> QED BY <1>5, <1>6, SameSeq

(* A sequence with these parts is the flattened one.                          *)
LEMMA PartsFlatten ==
    ASSUME NEW S, NEW ss \in Seq(Seq(S)), NEW s \in Seq(S), NEW off, PartsOf(s, ss, off)
    PROVE  FlattenSeq(ss) = s
<1>1. PICK on : FlattenSeq(ss) \in Seq(S) /\ PartsOf(FlattenSeq(ss), ss, on)
  BY Flattened
<1> QED BY <1>1, SameParts

(* What stands at a + j in one sequence stands at r + a + j behind another.   *)
Shifted(r, a, b, l, f) ==
    /\ r + b = (r + a) + l /\ r + b <= r + f
    /\ \A j \in 1..l : a + j \in 1..f /\ (r + a) + j = r + (a + j)

LEMMA Shift ==
    ASSUME NEW r \in Nat, NEW a \in Nat, NEW b \in Nat, NEW l \in Nat, NEW f \in Nat, b = a + l, b <= f
    PROVE  Shifted(r, a, b, l, f)
BY DEF Shifted

(* One more part in front.                                                    *)
LEMMA FlattenBehind ==
    ASSUME NEW S, NEW ss \in Seq(Seq(S)), NEW r \in Seq(S), NEW tt,
           tt = [k \in 1..(Len(ss) + 1) |-> IF k = 1 THEN r ELSE ss[k - 1]]
    PROVE  FlattenSeq(tt) = r \o FlattenSeq(ss)
<1> DEFINE T == Seq(S)
           N == Len(ss)
           F == FlattenSeq(ss)
           w == r \o F
<1>1. PICK off : F \in Seq(S) /\ PartsOf(F, ss, off)
  BY Flattened
<1>2. N \in Nat /\ \A k \in 1..N : ss[k] \in T /\ Len(ss[k]) \in Nat
  OBVIOUS
<1>3. tt \in Seq(T) /\ Len(tt) = N + 1 /\ tt[1] = r /\ \A k \in 2..(N + 1) : tt[k] = ss[k - 1]
  <2>1. \A k \in 1..(N + 1) : (IF k = 1 THEN r ELSE ss[k - 1]) \in T
    BY <1>2
  <2> HIDE DEF T, N
  <2>2. N + 1 \in Nat /\ 1 \in 1..(N + 1) /\ \A k \in 2..(N + 1) : k \in 1..(N + 1) /\ k # 1
    BY <1>2
  <2> QED BY <2>1, <2>2 DEF N
<1> HIDE DEF F
<1>4. /\ w \in T /\ Len(w) = Len(r) + Len(F) /\ Len(r) \in Nat /\ Len(F) \in Nat
      /\ \A j \in 1..Len(r) : w[j] = r[j]
      /\ \A j \in 1..Len(F) : w[Len(r) + j] = F[j]
  BY <1>1
<1> DEFINE R == Len(r)
           on == [k \in 0..(N + 1) |-> IF k = 0 THEN 0 ELSE R + off[k - 1]]
<1> HIDE DEF w
<1>5. /\ off \in [0..N -> Nat] /\ off[0] = 0 /\ Len(F) = off[N]
  BY <1>1 DEF PartsOf
<1>6. /\ on \in [0..(N + 1) -> Nat] /\ on[0] = 0 /\ \A k \in 1..(N + 1) : on[k] = R + off[k - 1]
  <2>1. \A k \in 0..(N + 1) : k = 0 \/ (k \in 1..(N + 1) /\ k - 1 \in 0..N /\ k # 0)
    BY <1>2
  <2>2. \A k \in 1..(N + 1) : k \in 0..(N + 1) /\ k # 0 /\ k - 1 \in 0..N
    BY <1>2
  <2>3. 0 \in 0..(N + 1)
    BY <1>2
  <2> HIDE DEF N
  <2>4. \A k \in 0..N : R + off[k] \in Nat
    BY <1>4, <1>5
  <2> HIDE DEF R
  <2> QED BY <2>1, <2>2, <2>3, <2>4
<1> HIDE DEF on
<1>7. Len(w) = on[Len(tt)]
  <2>1. N + 1 \in 1..(N + 1) /\ (N + 1) - 1 = N
    BY <1>2
  <2> QED BY <1>3, <1>4, <1>5, <1>6, <2>1
<1>8. ASSUME NEW k \in 1..(N + 1)
      PROVE  /\ on[k] = on[k - 1] + Len(tt[k]) /\ on[k] <= Len(w)
             /\ \A j \in 1..Len(tt[k]) : w[on[k - 1] + j] = tt[k][j]
  <2>1. CASE k = 1
    <3>1. 1 - 1 = 0 /\ on[1] = R
      <4>1. on[1] = R + off[1 - 1]
        BY <1>6, <2>1
      <4> QED BY <1>4, <1>5, <4>1
    <3>2. on[1] = on[1 - 1] + Len(tt[1]) /\ on[1] <= Len(w)
      BY <1>3, <1>4, <1>6, <3>1
    <3>3. \A j \in 1..Len(r) : w[on[1 - 1] + j] = tt[1][j]
      <4>1. \A j \in 1..Len(r) : 0 + j = j
        OBVIOUS
      <4> QED BY <1>3, <1>4, <1>6, <3>1, <4>1
    <3> QED BY <1>3, <2>1, <3>2, <3>3
  <2>2. CASE k # 1
    <3> DEFINE i == k - 1
    <3>1. i \in 1..N /\ i - 1 \in 0..N /\ i \in 1..(N + 1) /\ k \in 2..(N + 1) /\ i \in 0..N
      BY <1>2, <2>2
    <3>2. tt[k] = ss[i] /\ on[k] = R + off[i] /\ on[i] = R + off[i - 1]
      BY <1>3, <1>6, <3>1
    <3> HIDE DEF i
    <3>3. /\ off[i] = off[i - 1] + Len(ss[i]) /\ off[i] <= Len(F)
          /\ \A j \in 1..Len(ss[i]) : F[off[i - 1] + j] = ss[i][j]
      BY <1>1, <3>1 DEF PartsOf
    <3>4. off[i] \in Nat /\ off[i - 1] \in Nat /\ Len(ss[i]) \in Nat
      <4> HIDE DEF T, N
      <4> QED BY <1>2, <1>5, <3>1
    <3>a. Len(r) \in Nat /\ Len(F) \in Nat /\ Len(w) = Len(r) + Len(F)
      BY <1>4
    <3>5. on[k] = on[i] + Len(tt[k]) /\ on[k] <= Len(w)
      <4> HIDE DEF T, N
      <4>1. on[k] = Len(r) + off[i] /\ on[i] = Len(r) + off[i - 1]
        BY <3>2
      <4>2. off[i] = off[i - 1] + Len(ss[i]) /\ off[i] <= Len(F)
        BY <3>3
      <4>3. tt[k] = ss[i]
        BY <3>2
      <4>4. Shifted(Len(r), off[i - 1], off[i], Len(ss[i]), Len(F))
        BY <3>a, <3>4, <4>2, Shift, Zenon
      <4>5. Len(r) + off[i] = (Len(r) + off[i - 1]) + Len(ss[i]) /\ Len(r) + off[i] <= Len(r) + Len(F)
        BY <4>4, Zenon DEF Shifted
      <4> QED BY <3>a, <4>1, <4>3, <4>5, Zenon
    <3>6. ASSUME NEW j \in 1..Len(ss[i]) PROVE w[on[i] + j] = ss[i][j]
      <4> DEFINE q == off[i - 1] + j
      <4>1. q \in 1..Len(F) /\ on[i] + j = Len(r) + q
        <5> HIDE DEF T, N
        <5>1. on[i] = Len(r) + off[i - 1] /\ off[i] = off[i - 1] + Len(ss[i]) /\ off[i] <= Len(F)
          BY <3>2, <3>3
        <5>2. Shifted(Len(r), off[i - 1], off[i], Len(ss[i]), Len(F))
          BY <3>a, <3>4, <5>1, Shift, Zenon
        <5> QED BY <5>1, <5>2, Zenon DEF Shifted
      <4> HIDE DEF q
      <4>2. w[on[i] + j] = F[q]
        BY <1>4, <4>1
      <4>3. F[q] = ss[i][j]
        BY <3>3 DEF q
      <4> QED BY <4>2, <4>3
    <3> QED BY <3>2, <3>5, <3>6 DEF i
  <2> QED BY <2>1, <2>2
<1>9. PartsOf(w, tt, on)
  BY <1>3, <1>6, <1>7, <1>8 DEF PartsOf
<1>10. FlattenSeq(tt) = w
  BY <1>3, <1>4, <1>9, PartsFlatten
<1> QED BY <1>10 DEF w, F

=============================================================================
