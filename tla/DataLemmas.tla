----------------------------- MODULE DataLemmas -----------------------------
(***************************************************************************)
(* Facts about sequences, finite sets and numbers that the proofs about    *)
(* several components rest on.  They name no state.                        *)
(***************************************************************************)
EXTENDS Integers, SequencesExt, SequenceTheorems, FiniteSetTheorems,
        WellFoundedInduction, TLAPS

(* A set of numbers that is not empty has a least one: what a loop over a  *)
(* static array finds, when it finds anything.                             *)
LEMMA LeastExists ==
  ASSUME NEW S \in SUBSET Nat, S # {}
  PROVE  \E i \in S : \A j \in S : i <= j
<1>1. PICK x \in S : \A y \in S : ~(<<y, x>> \in OpToRel(<, Nat))
  BY NatLessThanWellFounded, WFMin, Zenon
<1>2. \A y \in S : ~(y < x)
  BY <1>1 DEF OpToRel
<1>. QED
  BY <1>2

(* A function that tells the members of a finite set apart has as many     *)
(* values: slots in use are as many as what is in them.                    *)
LEMMA DistinctValues ==
  ASSUME NEW f, NEW S, IsFiniteSet(S), \A i, j \in S : f[i] = f[j] => i = j
  PROVE  Cardinality(S) = Cardinality({f[i] : i \in S})
<1> DEFINE T == {f[i] : i \in S}
           g == [i \in S |-> f[i]]
<1>1. g \in [S -> T] /\ \A i \in S : g[i] = f[i]
  OBVIOUS
<1> HIDE DEF g
<1>2. g \in Injection(S, T)
  BY <1>1 DEF Injection, IsInjective
<1>3. g \in Surjection(S, T)
  BY <1>1 DEF Surjection
<1>4. g \in Bijection(S, T)
  BY <1>2, <1>3 DEF Bijection
<1>. QED
  BY <1>4, FS_Bijection DEF ExistsBijection

(* What a list holds after a node has been unlinked: the others, in order. *)
LEMMA RemoveAtElements ==
  ASSUME NEW S, NEW s \in Seq(S), NEW k \in 1 .. Len(s)
  PROVE  /\ RemoveAt(s, k) \in Seq(S)
         /\ Len(RemoveAt(s, k)) = Len(s) - 1
         /\ \A j \in 1 .. Len(s) - 1 :
               RemoveAt(s, k)[j] = IF j < k THEN s[j] ELSE s[j + 1]
<1> DEFINE a == SubSeq(s, 1, k - 1)
           b == SubSeq(s, k + 1, Len(s))
<1>1. a \in Seq(S) /\ Len(a) = k - 1 /\ \A j \in 1 .. k - 1 : a[j] = s[j]
  OBVIOUS
<1>2. b \in Seq(S) /\ Len(b) = Len(s) - k /\ \A j \in 1 .. Len(s) - k : b[j] = s[k + j]
  OBVIOUS
<1>3. RemoveAt(s, k) = a \o b
  BY DEF RemoveAt
<1> HIDE DEF a, b
<1>4. Len(a \o b) = Len(s) - 1 /\ a \o b \in Seq(S)
  <2>1. a \o b \in Seq(S) /\ Len(a \o b) = Len(a) + Len(b)
    BY <1>1, <1>2, ConcatProperties
  <2>2. Len(s) \in Nat
    OBVIOUS
  <2>. QED  BY <1>1, <1>2, <2>1, <2>2
<1>5. ASSUME NEW j \in 1 .. Len(s) - 1
      PROVE  (a \o b)[j] = IF j < k THEN s[j] ELSE s[j + 1]
  <2>1. CASE j < k
    BY <1>1, <1>2, <2>1
  <2>2. CASE ~(j < k)
    <3>1. (a \o b)[j] = b[j - (k - 1)]
      BY <1>1, <1>2, <2>2
    <3>2. j - (k - 1) \in 1 .. Len(s) - k /\ k + (j - (k - 1)) = j + 1
      BY <2>2
    <3>. QED  BY <1>2, <2>2, <3>1, <3>2
  <2>. QED  BY <2>1, <2>2
<1>. QED  BY <1>3, <1>4, <1>5

(* What a stack of calls holds after the innermost has returned.           *)
LEMMA FrontElements ==
  ASSUME NEW S, NEW s \in Seq(S), s # <<>>
  PROVE  /\ Len(s) \in Nat \ {0}
         /\ DOMAIN s = 1 .. Len(s)
         /\ Front(s) \in Seq(S)
         /\ DOMAIN Front(s) = 1 .. Len(s) - 1
         /\ \A i \in 1 .. Len(s) - 1 : Front(s)[i] = s[i]
<1> DEFINE n == Len(s) - 1
<1>1. Len(s) \in Nat \ {0} /\ DOMAIN s = 1 .. Len(s)
  BY EmptySeq, LenProperties
<1>2. n \in Nat /\ Front(s) = SubSeq(s, 1, n) /\ \A i \in 1 .. n : i \in 1 .. Len(s)
  BY <1>1 DEF Front
<1>3. \A i \in 1 .. n : s[i] \in S
  BY <1>2, ElementOfSeq
<1> HIDE DEF n
<1>4. /\ Front(s) \in Seq(S)
      /\ Len(Front(s)) = IF 1 <= n THEN n - 1 + 1 ELSE 0
      /\ \A i \in 1 .. n - 1 + 1 : Front(s)[i] = s[1 + i - 1]
  BY <1>2, <1>3, SubSeqProperties
<1>5. n - 1 + 1 = n /\ (IF 1 <= n THEN n - 1 + 1 ELSE 0) = n /\ \A i \in 1 .. n : 1 + i - 1 = i
  BY <1>2
<1>6. Len(Front(s)) = n /\ \A i \in 1 .. n : Front(s)[i] = s[i]
  BY <1>4, <1>5
<1>7. DOMAIN Front(s) = 1 .. n
  BY <1>4, <1>6, LenProperties
<1>. QED
  BY <1>1, <1>4, <1>6, <1>7 DEF n

(* Induction up to a bound, for a set in the place of a property.          *)
LEMMA InductionTo ==
  ASSUME NEW n \in Nat, NEW S, 0 \in S, \A i \in 0 .. n - 1 : i \in S => i + 1 \in S
  PROVE  \A i \in 0 .. n : i \in S
<1> DEFINE N == {i \in 0 .. n : i \notin S}
<1>1. SUFFICES N = {}
  OBVIOUS
<1>2. SUFFICES ASSUME N # {} PROVE FALSE
  OBVIOUS
<1>3. N \in SUBSET Nat
  OBVIOUS
<1>4. PICK i \in N : \A j \in N : i <= j
  <2> HIDE DEF N
  <2>. QED
    BY <1>2, <1>3, LeastExists
<1>5. i \in 1 .. n /\ i \notin S
  OBVIOUS
<1>6. i - 1 \notin N /\ i - 1 \in 0 .. n - 1
  <2>1. i - 1 \in 0 .. n - 1 /\ ~ (i <= i - 1)
    BY <1>5
  <2>2. i - 1 \notin N
    <3> HIDE DEF N
    <3>. QED
      BY <1>4, <2>1
  <2>. QED
    BY <2>1, <2>2
<1>7. i - 1 \in S
  BY <1>6
<1>8. (i - 1) + 1 \in S
  BY <1>6, <1>7
<1>. QED
  BY <1>5, <1>8

(* The states after each of n steps from a first one.                      *)
Stepwise(f, n, S, base, step) ==
    /\ f \in [0 .. n -> S]
    /\ f[0] = base
    /\ \A i \in 1 .. n : f[i] = step[<<i, f[i - 1]>>]

(* A loop of n steps has a result after each of them: the recursive        *)
(* functions of the models, which are chosen by their equation, exist.     *)
LEMMA RecursionExists ==
  ASSUME NEW n, n \in Nat, NEW S, NEW base, base \in S,
         NEW step, step \in [(1 .. n) \X S -> S]
  PROVE  \E f : Stepwise(f, n, S, base, step)
<1> DEFINE Upto(m, f) == f[0] = base /\ \A i \in 1 .. m : f[i] = step[<<i, f[i - 1]>>]
           R == {m \in 0 .. n : \E f \in [0 .. m -> S] : Upto(m, f)}
<1>1. 0 \in R
  <2> DEFINE g == [i \in 0 .. 0 |-> base]
  <2>1. g \in [0 .. 0 -> S] /\ Upto(0, g)
    OBVIOUS
  <2>2. 0 \in 0 .. n
    OBVIOUS
  <2> HIDE DEF g, Upto
  <2>. QED
    BY <2>1, <2>2
<1>2. ASSUME NEW m \in 0 .. n - 1, m \in R PROVE m + 1 \in R
  <2>1. PICK f \in [0 .. m -> S] : Upto(m, f)
    BY <1>2
  <2> DEFINE g == [i \in 0 .. m + 1 |-> IF i <= m THEN f[i] ELSE step[<<m + 1, f[m]>>]]
  <2>2. f[m] \in S
    BY <2>1
  <2>3. <<m + 1, f[m]>> \in (1 .. n) \X S
    BY <2>2
  <2>4. step[<<m + 1, f[m]>>] \in S
    BY <2>3
  <2>5. g \in [0 .. m + 1 -> S]
    BY <2>1, <2>4
  <2>6. \A i \in 0 .. m : g[i] = f[i]
    OBVIOUS
  <2>7. g[m + 1] = step[<<m + 1, f[m]>>]
    OBVIOUS
  <2> HIDE DEF g
  <2>8. g[0] = base
    BY <2>1, <2>6
  <2>9. ASSUME NEW i \in 1 .. m + 1 PROVE g[i] = step[<<i, g[i - 1]>>]
    <3>1. CASE i = m + 1
      <4>1. i - 1 = m /\ m \in 0 .. m
        BY <3>1
      <4>. QED
        BY <3>1, <4>1, <2>6, <2>7
    <3>2. CASE i # m + 1
      <4>1. i \in 1 .. m /\ i \in 0 .. m /\ i - 1 \in 0 .. m
        BY <3>2
      <4>2. f[i] = step[<<i, f[i - 1]>>]
        BY <2>1, <4>1
      <4>. QED
        BY <4>1, <4>2, <2>6
    <3>. QED
      BY <3>1, <3>2
  <2>10. Upto(m + 1, g)
    BY <2>8, <2>9
  <2>11. m + 1 \in 0 .. n
    OBVIOUS
  <2> HIDE DEF Upto
  <2>. QED
    BY <2>5, <2>10, <2>11
<1>3. n \in R
  <2> HIDE DEF R
  <2>. QED
    BY <1>1, <1>2, InductionTo
<1>. QED
  BY <1>3 DEF Stepwise

(* Where the elements of two sequences are in their concatenation.         *)
LEMMA ConcatParts ==
  ASSUME NEW S, NEW a \in Seq(S), NEW b \in Seq(S)
  PROVE  /\ a \o b \in Seq(S) /\ Len(a) \in Nat /\ Len(b) \in Nat
         /\ Len(a \o b) = Len(a) + Len(b)
         /\ \A k \in 1 .. Len(a) : (a \o b)[k] = a[k]
         /\ \A j \in 1 .. Len(b) : (a \o b)[Len(a) + j] = b[j]
<1>1. a \o b \in Seq(S) /\ Len(a \o b) = Len(a) + Len(b)
  BY ConcatProperties
<1>2. Len(a) \in Nat /\ Len(b) \in Nat
  BY LenProperties
<1>3. \A k \in 1 .. Len(a) + Len(b) :
         (a \o b)[k] = IF k <= Len(a) THEN a[k] ELSE b[k - Len(a)]
  BY ConcatProperties
<1> DEFINE m == Len(a)
           n == Len(b)
<1>4. \A k \in 1 .. m : k \in 1 .. m + n /\ k <= m
  <2>1. m \in Nat /\ n \in Nat
    BY <1>2
  <2> HIDE DEF m, n
  <2>. QED
    BY <2>1
<1>5. \A j \in 1 .. n : m + j \in 1 .. m + n /\ ~ (m + j <= m) /\ (m + j) - m = j
  <2>1. m \in Nat /\ n \in Nat
    BY <1>2
  <2> HIDE DEF m, n
  <2>. QED
    BY <2>1
<1>6. ASSUME NEW k \in 1 .. Len(a) PROVE (a \o b)[k] = a[k]
  BY <1>3, <1>4
<1>7. ASSUME NEW j \in 1 .. Len(b) PROVE (a \o b)[Len(a) + j] = b[j]
  BY <1>3, <1>5
<1>. QED
  BY <1>1, <1>2, <1>6, <1>7

(* Concatenated sequences lie one behind the other, from places that their *)
(* lengths give.                                                           *)
LEMMA FlattenPlaces ==
  ASSUME NEW S, NEW s \in Seq(Seq(S))
  PROVE  /\ FlattenSeq(s) \in Seq(S)
         /\ \E o \in [1 .. Len(s) + 1 -> Nat] :
               /\ o[1] = 0
               /\ \A i \in 1 .. Len(s) : o[i + 1] = o[i] + Len(s[i])
               /\ o[Len(s) + 1] = Len(FlattenSeq(s))
               /\ \A i \in 1 .. Len(s) : \A j \in 1 .. Len(s[i]) :
                     o[i] + j \in 1 .. Len(FlattenSeq(s)) /\ FlattenSeq(s)[o[i] + j] = s[i][j]
<1>1. CASE Len(s) = 0
  <2>1. s = <<>> /\ FlattenSeq(s) = s
    BY <1>1 DEF FlattenSeq
  <2> DEFINE o == [i \in 1 .. 1 |-> 0]
  <2>2. FlattenSeq(s) \in Seq(S) /\ Len(FlattenSeq(s)) = 0
    BY <2>1, EmptySeq
  <2>3. o \in [1 .. 1 -> Nat] /\ o[1] = 0
    OBVIOUS
  <2> HIDE DEF o
  <2>. QED
    BY <1>1, <2>2, <2>3
<1>2. CASE Len(s) # 0
  <2> DEFINE n == Len(s)
  <2>1. n \in Nat \ {0} /\ n \in 1 .. n /\ \A i \in 1 .. n : s[i] \in Seq(S) /\ Len(s[i]) \in Nat
    BY <1>2, ElementOfSeq, LenProperties
  <2> DEFINE step == [x \in (1 .. n) \X Seq(S) |-> x[2] \o s[x[1]]]
  <2>2. step \in [(1 .. n) \X Seq(S) -> Seq(S)]
    BY <2>1, ConcatProperties
  <2>3. \A i \in 1 .. n : \A x \in Seq(S) : step[<<i, x>>] = x \o s[i]
    OBVIOUS
  <2>4. <<>> \in Seq(S)
    OBVIOUS
  <2> HIDE DEF step, n
  <2>21. PICK g : Stepwise(g, n, Seq(S), <<>>, step)
    <3>1. n \in Nat
      BY <2>1
    <3>. QED
      BY <3>1, <2>2, <2>4, RecursionExists, Zenon
  <2>5. /\ g \in [0 .. n -> Seq(S)] /\ g[0] = <<>>
        /\ \A i \in 1 .. n : g[i] = step[<<i, g[i - 1]>>]
    BY <2>21 DEF Stepwise
  <2>6. \A i \in 1 .. n : i - 1 \in 0 .. n /\ g[i - 1] \in Seq(S) /\ g[i] = g[i - 1] \o s[i]
    <3> TAKE i \in 1 .. n
    <3>1. i - 1 \in 0 .. n
      BY <2>1
    <3>2. g[i - 1] \in Seq(S)
      BY <2>5, <3>1
    <3>. QED
      BY <2>3, <2>5, <3>1, <3>2
  <2> DEFINE Flat(f) == f = [i \in 1 .. n |-> IF i = 1 THEN s[i] ELSE f[i - 1] \o s[i]]
             h == [i \in 1 .. n |-> g[i]]
             flatten == CHOOSE f : Flat(f)
  <2>7. Flat(h)
    <3>1. ASSUME NEW i \in 1 .. n PROVE g[i] = IF i = 1 THEN s[i] ELSE h[i - 1] \o s[i]
      <4>1. CASE i = 1
        <5>1. s[1] \in Seq(S) /\ g[1] = g[0] \o s[1]
          <6>1. 1 \in 1 .. n /\ 1 - 1 = 0
            BY <2>1
          <6>. QED
            BY <6>1, <2>1, <2>6
        <5>2. <<>> \o s[1] = s[1]
          BY <5>1, ConcatEmptySeq
        <5>. QED
          BY <2>5, <4>1, <5>1, <5>2
      <4>2. CASE i # 1
        <5>1. i - 1 \in 1 .. n
          BY <4>2, <2>1
        <5>2. h[i - 1] = g[i - 1]
          BY <5>1
        <5>. QED
          BY <2>6, <4>2, <5>2
      <4>. QED
        BY <4>1, <4>2
    <3>2. h = [i \in 1 .. n |-> IF i = 1 THEN s[i] ELSE h[i - 1] \o s[i]]
      BY <3>1
    <3>. QED
      BY <3>2
  <2>8. Flat(flatten)
    <3> HIDE DEF Flat, h
    <3>. QED
      BY <2>7
  <2>9. FlattenSeq(s) = flatten[n]
    BY <1>2 DEF FlattenSeq, n
  <2>10. /\ flatten[1] = s[1]
         /\ \A i \in 1 .. n - 1 : flatten[i + 1] = flatten[i] \o s[i + 1]
    <3> HIDE DEF flatten
    <3>1. \A i \in 1 .. n : flatten[i] = IF i = 1 THEN s[i] ELSE flatten[i - 1] \o s[i]
      BY <2>8
    <3> HIDE DEF Flat
    <3>2. 1 \in 1 .. n /\ \A i \in 1 .. n - 1 : i + 1 \in 1 .. n /\ i + 1 # 1 /\ (i + 1) - 1 = i
      BY <2>1
    <3>. QED
      BY <3>1, <3>2
  <2> HIDE DEF flatten, Flat, h
  <2> DEFINE o == [i \in 1 .. n + 1 |-> IF i = 1 THEN 0 ELSE Len(flatten[i - 1])]
             In(m, i) == /\ o[i] \in Nat /\ o[i] + Len(s[i]) <= Len(flatten[m])
                         /\ \A j \in 1 .. Len(s[i]) : flatten[m][o[i] + j] = s[i][j]
             R == {m \in 0 .. n : m # 0 =>
                      /\ flatten[m] \in Seq(S)
                      /\ o[m] + Len(s[m]) = Len(flatten[m])
                      /\ \A i \in 1 .. m : In(m, i)}
  <2>11. o[1] = 0 /\ \A i \in 1 .. n : o[i + 1] = Len(flatten[i])
    <3>1. 1 \in 1 .. n + 1 /\ \A i \in 1 .. n : i + 1 \in 1 .. n + 1 /\ i + 1 # 1 /\ (i + 1) - 1 = i
      BY <2>1
    <3>. QED
      BY <3>1
  <2>12. o = [i \in 1 .. n + 1 |-> o[i]]
    OBVIOUS
  <2> HIDE DEF o
  <2>13. 0 \in R
    BY <2>1
  <2>14. ASSUME NEW m \in 0 .. n - 1, m \in R PROVE m + 1 \in R
    <3>0. m + 1 \in 1 .. n /\ m + 1 # 0
      BY <2>1
    <3>1. CASE m = 0
      <4>1. flatten[1] \in Seq(S) /\ o[1] + Len(s[1]) = Len(flatten[1])
        <5>1. s[1] \in Seq(S) /\ Len(s[1]) \in Nat
          BY <2>1, <3>0, <3>1
        <5>. QED
          BY <5>1, <2>10, <2>11
      <4>2. In(1, 1)
        <5>1. Len(s[1]) \in Nat
          BY <2>1, <3>0, <3>1
        <5>. QED
          BY <5>1, <2>10, <2>11
      <4> HIDE DEF In
      <4>3. \A i \in 1 .. 1 : In(1, i)
        BY <4>2
      <4>. QED
        BY <3>0, <3>1, <4>1, <4>3
    <3>2. CASE m # 0
      <4>1. m \in 1 .. n - 1 /\ m \in 1 .. n
        BY <3>2, <2>1
      <4>11. \A i \in 1 .. m : In(m, i)
        <5> HIDE DEF In
        <5>. QED
          BY <2>14, <3>2
      <4>2. flatten[m] \in Seq(S) /\ Len(flatten[m]) \in Nat
        <5>1. flatten[m] \in Seq(S)
          <6> HIDE DEF In
          <6>. QED
            BY <2>14, <3>2
        <5>. QED
          BY <5>1, LenProperties
      <4>3. flatten[m + 1] = flatten[m] \o s[m + 1] /\ o[m + 1] = Len(flatten[m])
        BY <2>10, <2>11, <4>1
      <4>4. s[m + 1] \in Seq(S) /\ Len(s[m + 1]) \in Nat
        BY <2>1, <3>0
      <4>5. /\ flatten[m + 1] \in Seq(S)
            /\ Len(flatten[m + 1]) = Len(flatten[m]) + Len(s[m + 1])
            /\ \A k \in 1 .. Len(flatten[m]) : flatten[m + 1][k] = flatten[m][k]
            /\ \A j \in 1 .. Len(s[m + 1]) : flatten[m + 1][Len(flatten[m]) + j] = s[m + 1][j]
        <5> DEFINE a == flatten[m]
                   b == s[m + 1]
        <5> HIDE DEF In, R
        <5>1. /\ a \o b \in Seq(S)
              /\ Len(a \o b) = Len(a) + Len(b)
              /\ \A k \in 1 .. Len(a) : (a \o b)[k] = a[k]
              /\ \A j \in 1 .. Len(b) : (a \o b)[Len(a) + j] = b[j]
          <6>1. a \in Seq(S) /\ b \in Seq(S)
            BY <4>2, <4>4
          <6> HIDE DEF a, b
          <6>. QED
            BY <6>1, ConcatParts
        <5>2. flatten[m + 1] = a \o b
          BY <4>3
        <5>3. flatten[m + 1] \in Seq(S) /\ Len(flatten[m + 1]) = Len(a) + Len(b)
          BY <5>1, <5>2, Zenon
        <5>4. /\ \A k \in 1 .. Len(a) : flatten[m + 1][k] = a[k]
              /\ \A j \in 1 .. Len(b) : flatten[m + 1][Len(a) + j] = b[j]
          BY <5>1, <5>2, Zenon
        <5>. QED
          BY <5>3, <5>4, Zenon
      <4>6. ASSUME NEW i \in 1 .. m PROVE In(m + 1, i)
        <5>1. In(m, i)
          <6> HIDE DEF In
          <6>. QED
            BY <4>11
        <5>2. i \in 1 .. n
          BY <2>1, <4>1
        <5>3. Len(s[i]) \in Nat
          BY <5>2, <2>1
        <5>4. o[i] + Len(s[i]) <= Len(flatten[m + 1])
          <6>1. o[i] \in Nat /\ o[i] + Len(s[i]) <= Len(flatten[m])
            BY <5>1
          <6> HIDE DEF In, R
          <6>. QED
            <7>1. Len(flatten[m]) \in Nat /\ Len(s[m + 1]) \in Nat /\ Len(s[i]) \in Nat
              BY <5>3, <4>2, <4>4
            <7>2. Len(flatten[m + 1]) = Len(flatten[m]) + Len(s[m + 1])
              BY <4>5
            <7>3. \A x, y, z \in Nat : x <= y => x <= y + z
              OBVIOUS
            <7>4. o[i] + Len(s[i]) \in Nat
              BY <6>1, <7>1
            <7>. QED
              BY <6>1, <7>1, <7>2, <7>3, <7>4, Zenon
        <5>5. ASSUME NEW j \in 1 .. Len(s[i]) PROVE flatten[m + 1][o[i] + j] = s[i][j]
          <6>1. o[i] + j \in 1 .. Len(flatten[m])
            <7>1. o[i] \in Nat /\ o[i] + Len(s[i]) <= Len(flatten[m])
              BY <5>1
            <7>2. Len(s[i]) \in Nat /\ Len(flatten[m]) \in Nat
              BY <5>3, <4>2
            <7>3. \A x, y, z \in Nat : x + y <= z => \A k \in 1 .. y : x + k \in 1 .. z
              OBVIOUS
            <7> HIDE DEF In, R
            <7>. QED
              BY <7>1, <7>2, <7>3, Zenon
          <6>. QED
            BY <5>1, <6>1, <4>5
        <5>. QED
          BY <5>1, <5>4, <5>5
      <4>7. In(m + 1, m + 1)
        <5>1. ASSUME NEW j \in 1 .. Len(s[m + 1]) PROVE flatten[m + 1][o[m + 1] + j] = s[m + 1][j]
          <6> HIDE DEF In, R
          <6>. QED
            BY <4>3, <4>5
        <5>2. o[m + 1] \in Nat /\ o[m + 1] + Len(s[m + 1]) <= Len(flatten[m + 1])
          <6> HIDE DEF In, R
          <6>. QED
            BY <4>2, <4>3, <4>4, <4>5
        <5>. QED
          BY <5>1, <5>2
      <4>8. \A i \in 1 .. m + 1 : In(m + 1, i)
        <5> TAKE i \in 1 .. m + 1
        <5>1. i \in 1 .. m \/ i = m + 1
          BY <2>1
        <5> HIDE DEF In
        <5>. QED
          BY <5>1, <4>6, <4>7
      <4>9. o[m + 1] + Len(s[m + 1]) = Len(flatten[m + 1])
        BY <4>3, <4>5
      <4>10. flatten[m + 1] \in Seq(S)
        BY <4>5
      <4> HIDE DEF In
      <4>. QED
        BY <3>0, <4>8, <4>9, <4>10
    <3>. QED
      BY <3>1, <3>2
  <2>15. \A m \in 1 .. n : /\ flatten[m] \in Seq(S)
                           /\ o[m] + Len(s[m]) = Len(flatten[m])
                           /\ \A i \in 1 .. m : In(m, i)
    <3>1. \A m \in 0 .. n : m \in R
      <4> HIDE DEF R
      <4>. QED
        BY <2>1, <2>13, <2>14, InductionTo
    <3>2. \A m \in 1 .. n : m \in 0 .. n /\ m # 0
      BY <2>1
    <3> HIDE DEF In
    <3>. QED
      BY <3>1, <3>2
  <2>16. o \in [1 .. n + 1 -> Nat]
    <3>1. ASSUME NEW i \in 1 .. n + 1 PROVE o[i] \in Nat
      <4>1. \/ i = 1
            \/ i - 1 \in 1 .. n /\ (i - 1) + 1 = i
        BY <2>1
      <4>2. \A m \in 1 .. n : Len(flatten[m]) \in Nat
        <5> HIDE DEF In
        <5>. QED
          BY <2>15, LenProperties
      <4>3. CASE i - 1 \in 1 .. n /\ (i - 1) + 1 = i
        <5>1. o[(i - 1) + 1] = Len(flatten[i - 1])
          BY <2>11, <4>3, Zenon
        <5>2. Len(flatten[i - 1]) \in Nat
          BY <4>2, <4>3, Zenon
        <5>. QED
          BY <5>1, <5>2, <4>3
      <4>. QED
        BY <4>1, <4>3, <2>11
    <3>. QED
      BY <3>1, <2>12
  <2>17. \A i \in 1 .. n : o[i + 1] = o[i] + Len(s[i])
    <3> HIDE DEF In
    <3>. QED
      BY <2>11, <2>15
  <2>18. o[n + 1] = Len(FlattenSeq(s)) /\ FlattenSeq(s) \in Seq(S)
    <3> HIDE DEF In
    <3>. QED
      BY <2>1, <2>9, <2>11, <2>15
  <2>19. ASSUME NEW i \in 1 .. n, NEW j \in 1 .. Len(s[i])
         PROVE  o[i] + j \in 1 .. Len(FlattenSeq(s)) /\ FlattenSeq(s)[o[i] + j] = s[i][j]
    <3>1. In(n, i)
      <4> HIDE DEF In
      <4>. QED
        BY <2>1, <2>15
    <3>2. Len(s[i]) \in Nat /\ Len(flatten[n]) \in Nat
      BY <2>1, <2>9, <2>18, LenProperties
    <3>3. o[i] + j \in 1 .. Len(flatten[n])
      BY <3>1, <3>2
    <3>. QED
      BY <3>1, <3>3, <2>9
  <2> HIDE DEF R, In
  <2>20. n = Len(s)
    BY DEF n
  <2>. QED
    BY <2>16, <2>11, <2>17, <2>18, <2>19, <2>20
<1>. QED
  BY <1>1, <1>2
=============================================================================
