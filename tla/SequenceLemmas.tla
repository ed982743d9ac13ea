----------------------------- MODULE SequenceLemmas -----------------------------
(***************************************************************************)
(* What the operators on sequences return that the models take from the    *)
(* community modules, and the least element of a set of numbers: the form  *)
(* in which induction is used in the proofs.  Then chains of nodes: what a *)
(* walk along next pointers finds, and what the stores of the list modules *)
(* make of a chain.  A chain is given by its nodes c[1..m], the pointers   *)
(* by functions, as the list modules keep them.                            *)
(***************************************************************************)
EXTENDS Walks, SequencesExt, Integers, TLAPS, SequenceTheorems, FiniteSetTheorems,
        FunctionTheorems, NaturalsInduction, WellFoundedInduction

(* A set of natural numbers has a least one. *)
LEMMA LeastNumber ==
  ASSUME NEW T \in SUBSET Nat, T # {}
  PROVE  \E x \in T : \A y \in T : x <= y
<1> DEFINE R == OpToRel(<, Nat)
<1>1. IsWellFoundedOn(R, Nat)
  BY NatLessThanWellFounded
<1>2. \A x, y \in Nat : <<y, x>> \in R <=> y < x
  BY DEF OpToRel
<1> HIDE DEF R
<1>3. PICK x \in T : \A y \in T : ~(<<y, x>> \in R)
  BY <1>1, WFMin
<1>4. \A y \in T : y \in Nat /\ x \in Nat /\ ~(y < x)
  BY <1>2, <1>3
<1>5. \A y \in T : x <= y
  BY <1>4
<1>6. QED
  BY <1>5

(* Min of such a set is that one. *)
LEMMA MinIsLeast ==
  ASSUME NEW T \in SUBSET Nat, T # {}
  PROVE  Min(T) \in T /\ \A y \in T : Min(T) <= y
BY LeastNumber DEF Min

(* Front drops the last element and nothing else. *)
LEMMA FrontIs ==
  ASSUME NEW S, NEW s \in Seq(S), s # <<>>
  PROVE  /\ Front(s) \in Seq(S) /\ Len(s) \in Nat \ {0} /\ Len(Front(s)) = Len(s) - 1
         /\ \A i \in 1..Len(s) - 1 : Front(s)[i] = s[i]
         /\ Last(s) = s[Len(s)]
<1>1. Len(s) \in Nat \ {0}
  BY EmptySeq
<1>2. \A i \in 1..Len(s) - 1 : s[i] \in S
  BY <1>1, ElementOfSeq
<1> DEFINE f == SubSeq(s, 1, Len(s) - 1)
<1>3. /\ f \in Seq(S)
      /\ Len(f) = IF 1 <= Len(s) - 1 THEN (Len(s) - 1) - 1 + 1 ELSE 0
      /\ \A i \in 1..(Len(s) - 1) - 1 + 1 : f[i] = s[1 + i - 1]
  BY <1>1, <1>2, SubSeqProperties
<1>4. Front(s) = f
  BY DEF Front
<1> HIDE DEF f
<1>5. Len(f) = Len(s) - 1
  <2>1. Len(f) = IF 1 <= Len(s) - 1 THEN (Len(s) - 1) - 1 + 1 ELSE 0
    BY <1>3
  <2> DEFINE n == Len(s)
  <2>2. n \in Nat \ {0} /\ Len(f) = IF 1 <= n - 1 THEN (n - 1) - 1 + 1 ELSE 0
    BY <1>1, <2>1
  <2> HIDE DEF n
  <2>3. Len(f) = n - 1
    BY <2>2, SMT
  <2>4. QED
    BY <2>3 DEF n
<1>6. \A i \in 1..Len(s) - 1 : i \in 1..(Len(s) - 1) - 1 + 1 /\ 1 + i - 1 = i
  BY <1>1
<1>7. \A i \in 1..Len(s) - 1 : f[i] = s[i]
  BY <1>3, <1>6
<1>8. QED
  BY <1>1, <1>3, <1>4, <1>5, <1>7 DEF Last

(* A part of a sequence. *)
LEMMA SubSeqOf ==
  ASSUME NEW S, NEW s \in Seq(S), NEW a \in Nat \ {0}, NEW b \in Nat, b <= Len(s)
  PROVE  SubSeq(s, a, b) \in Seq(S)
<1> DEFINE n == Len(s)
<1>1. n \in Nat /\ b <= n
  BY LenProperties
<1>2. \A i \in 1..n : s[i] \in S
  BY ElementOfSeq
<1> HIDE DEF n
<1>3. \A i \in a..b : s[i] \in S
  BY <1>1, <1>2
<1>4. QED
  BY <1>3, SubSeqProperties

(* A sequence of which everything after a up to b is cut out. *)
CutOut(s, a, b) == SubSeq(s, 1, a) \o SubSeq(s, b + 1, Len(s))

(* What is left of a sequence s when the elements after a up to b are gone. *)
IsCut(S, c, s, a, b) ==
  /\ c \in Seq(S)
  /\ Len(c) = IF b <= Len(s) THEN Len(s) - (b - a) ELSE a
  /\ \A k \in 1..Len(c) : c[k] = IF k <= a THEN s[k] ELSE s[k + (b - a)]

(* A sequence s with v before its i-th element. *)
IsInsertion(S, t, s, i, v) ==
  /\ t \in Seq(S)
  /\ Len(t) = Len(s) + 1
  /\ \A k \in 1..Len(s) + 1 :
       t[k] = IF k < i THEN s[k] ELSE IF k = i THEN v ELSE s[k - 1]

(* What is left are the elements up to a and those behind b. *)
LEMMA CutOutIs ==
  ASSUME NEW S, NEW s \in Seq(S), NEW a \in Nat, a <= Len(s), NEW b \in Nat, a <= b
  PROVE  IsCut(S, CutOut(s, a, b), s, a, b)
<1> DEFINE n == Len(s)
           f == SubSeq(s, 1, a)
           g == SubSeq(s, b + 1, n)
<1>1. n \in Nat /\ a \in Nat /\ a <= n
  BY LenProperties
<1>2. \A i \in 1..n : s[i] \in S
  BY ElementOfSeq
<1> HIDE DEF n
<1>3. \A i \in 1..a : s[i] \in S
  BY <1>1, <1>2
<1>4. \A i \in b + 1..n : s[i] \in S
  BY <1>1, <1>2
<1>5. /\ f \in Seq(S) /\ Len(f) = IF 1 <= a THEN a - 1 + 1 ELSE 0
      /\ \A i \in 1..a - 1 + 1 : f[i] = s[1 + i - 1]
  BY <1>1, <1>3, SubSeqProperties
<1>6. /\ g \in Seq(S) /\ Len(g) = IF b + 1 <= n THEN n - (b + 1) + 1 ELSE 0
      /\ \A i \in 1..n - (b + 1) + 1 : g[i] = s[b + 1 + i - 1]
  BY <1>1, <1>4, SubSeqProperties
<1> HIDE DEF f, g
<1>7. /\ f \o g \in Seq(S) /\ Len(f \o g) = Len(f) + Len(g)
      /\ \A i \in 1..Len(f) + Len(g) : (f \o g)[i] = IF i <= Len(f) THEN f[i] ELSE g[i - Len(f)]
  BY <1>5, <1>6, ConcatProperties
<1> DEFINE lf == Len(f)
           lg == Len(g)
<1>8. lf = a /\ (\A i \in 1..a : f[i] = s[i])
  <2>1. lf = a
    BY <1>1, <1>5
  <2>2. \A i \in 1..a : i \in 1..a - 1 + 1 /\ 1 + i - 1 = i
    BY <1>1
  <2>3. \A i \in 1..a : f[i] = s[i]
    BY <1>5, <2>2
  <2>4. QED
    BY <2>1, <2>3
<1>9. lg = (IF b <= n THEN n - b ELSE 0) /\ \A i \in 1..lg : g[i] = s[b + i]
  <2>1. lg = IF b <= n THEN n - b ELSE 0
    BY <1>1, <1>6
  <2>2. \A i \in 1..lg : i \in 1..n - (b + 1) + 1 /\ b + 1 + i - 1 = b + i
    BY <1>1, <2>1
  <2>3. \A i \in 1..lg : g[i] = s[b + i]
    BY <1>6, <2>2
  <2>4. QED
    BY <2>1, <2>3
<1> DEFINE h == f \o g
           lh == Len(h)
<1>10. lh = lf + lg /\ \A i \in 1..lf + lg : h[i] = IF i <= lf THEN f[i] ELSE g[i - lf]
  BY <1>7
<1>11. h \in Seq(S)
  BY <1>7
<1> HIDE DEF h, lf, lg, lh
<1>12. lh = IF b <= n THEN n - (b - a) ELSE a
  BY <1>1, <1>8, <1>9, <1>10
<1>13. \A k \in 1..lh : h[k] = IF k <= a THEN s[k] ELSE s[k + (b - a)]
  <2> SUFFICES ASSUME NEW k \in 1..lh PROVE h[k] = IF k <= a THEN s[k] ELSE s[k + (b - a)]
    OBVIOUS
  <2>1. CASE k <= a
    BY <1>1, <1>8, <1>9, <1>10, <2>1
  <2>2. CASE ~(k <= a)
    <3>1. h[k] = g[k - a] /\ k - a \in 1..lg /\ b + (k - a) = k + (b - a)
      BY <1>1, <1>8, <1>9, <1>10, <2>2
    <3>2. g[k - a] = s[b + (k - a)]
      BY <1>9, <3>1
    <3>3. QED
      BY <2>2, <3>1, <3>2
  <2>3. QED
    BY <2>1, <2>2
<1>14. CutOut(s, a, b) = h
  BY DEF CutOut, h, f, g, n
<1>15. QED
  BY <1>11, <1>12, <1>13, <1>14 DEF lh, n, IsCut

(* An element inserted at position i pushes up those from there on. *)
LEMMA InsertAtIs ==
  ASSUME NEW S, NEW s \in Seq(S), NEW i \in Nat, 1 <= i, i <= Len(s) + 1, NEW v \in S
  PROVE  IsInsertion(S, InsertAt(s, i, v), s, i, v)
<1> DEFINE n == Len(s)
           f == SubSeq(s, 1, i - 1)
           g == SubSeq(s, i, n)
           e == <<v>>
<1>1. n \in Nat /\ i \in 1..n + 1
  BY LenProperties
<1>2. \A k \in 1..n : s[k] \in S
  BY ElementOfSeq
<1>e. e \in Seq(S) /\ Len(e) = 1 /\ e[1] = v
  OBVIOUS
<1> HIDE DEF n, e
<1>3. \A k \in 1..i - 1 : s[k] \in S
  BY <1>1, <1>2
<1>4. \A k \in i..n : s[k] \in S
  BY <1>1, <1>2
<1>5. /\ f \in Seq(S) /\ Len(f) = IF 1 <= i - 1 THEN i - 1 - 1 + 1 ELSE 0
      /\ \A k \in 1..i - 1 - 1 + 1 : f[k] = s[1 + k - 1]
  BY <1>1, <1>3, SubSeqProperties
<1>6. /\ g \in Seq(S) /\ Len(g) = IF i <= n THEN n - i + 1 ELSE 0
      /\ \A k \in 1..n - i + 1 : g[k] = s[i + k - 1]
  BY <1>1, <1>4, SubSeqProperties
<1> HIDE DEF f, g
<1>7. /\ f \o e \in Seq(S) /\ Len(f \o e) = Len(f) + Len(e)
      /\ \A k \in 1..Len(f) + Len(e) : (f \o e)[k] = IF k <= Len(f) THEN f[k] ELSE e[k - Len(f)]
  BY <1>5, <1>e, ConcatProperties
<1> DEFINE d == f \o e
           lf == Len(f)
           lg == Len(g)
           ld == Len(d)
<1>d. d \in Seq(S)
  BY <1>7
<1> HIDE DEF d
<1>8. /\ d \o g \in Seq(S) /\ Len(d \o g) = ld + lg
      /\ \A k \in 1..ld + lg : (d \o g)[k] = IF k <= ld THEN d[k] ELSE g[k - ld]
  BY <1>6, <1>d, ConcatProperties
<1>9. lf = i - 1 /\ \A k \in 1..i - 1 : f[k] = s[k]
  <2>1. lf = i - 1
    BY <1>1, <1>5
  <2>2. \A k \in 1..i - 1 : k \in 1..i - 1 - 1 + 1 /\ 1 + k - 1 = k
    BY <1>1
  <2>3. QED
    BY <1>5, <2>1, <2>2
<1>10. lg = n - i + 1 /\ \A k \in 1..n - i + 1 : g[k] = s[i + k - 1]
  BY <1>1, <1>6
<1>11. ld = i /\ (\A k \in 1..i - 1 : d[k] = f[k]) /\ d[i] = v
  <2>1. ld = lf + 1 /\ \A k \in 1..lf + 1 : d[k] = IF k <= lf THEN f[k] ELSE e[k - lf]
    BY <1>7, <1>e DEF d
  <2> HIDE DEF lf, ld
  <2>2. ld = i /\ i \in 1..lf + 1 /\ ~(i <= lf) /\ i - lf = 1
    BY <1>1, <1>9, <2>1
  <2>3. \A k \in 1..i - 1 : k \in 1..lf + 1 /\ k <= lf
    BY <1>1, <1>9
  <2>4. d[i] = v
    BY <1>e, <2>1, <2>2
  <2>5. QED
    BY <2>1, <2>2, <2>3, <2>4
<1> DEFINE h == d \o g
           lh == Len(h)
<1>12. h \in Seq(S) /\ lh = ld + lg /\ \A k \in 1..ld + lg : h[k] = IF k <= ld THEN d[k] ELSE g[k - ld]
  BY <1>8
<1> HIDE DEF lf, ld, lg, h, lh
<1>13. lh = n + 1
  BY <1>1, <1>10, <1>11, <1>12
<1>14. \A k \in 1..n + 1 : h[k] = IF k < i THEN s[k] ELSE IF k = i THEN v ELSE s[k - 1]
  <2> SUFFICES ASSUME NEW k \in 1..n + 1
               PROVE  h[k] = IF k < i THEN s[k] ELSE IF k = i THEN v ELSE s[k - 1]
    OBVIOUS
  <2>0. k \in 1..ld + lg
    BY <1>1, <1>10, <1>11
  <2>1. CASE k < i
    <3>1. k <= ld /\ k \in 1..i - 1
      BY <1>1, <1>11, <2>1
    <3>2. QED
      BY <1>9, <1>11, <1>12, <2>0, <2>1, <3>1
  <2>2. CASE k = i
    BY <1>1, <1>11, <1>12, <2>0, <2>2
  <2>3. CASE ~(k < i) /\ k # i
    <3>1. ~(k <= ld) /\ k - i \in 1..n - i + 1 /\ i + (k - i) - 1 = k - 1
      BY <1>1, <1>11, <2>3
    <3>2. h[k] = g[k - i]
      BY <1>11, <1>12, <2>0, <3>1
    <3>3. g[k - i] = s[i + (k - i) - 1]
      BY <1>10, <3>1
    <3>4. QED
      BY <2>3, <3>1, <3>2, <3>3
  <2>4. QED
    BY <2>1, <2>2, <2>3
<1>15. h = InsertAt(s, i, v)
  BY DEF InsertAt, h, d, f, g, e, n
<1>16. QED
  BY <1>12, <1>13, <1>14, <1>15 DEF lh, n, IsInsertion

(* A sequence that a one-to-one map of positions rearranges holds the same *)
(* elements equally often.                                                 *)
LEMMA RearrangedBag ==
  ASSUME NEW S, NEW s \in Seq(S), NEW t \in Seq(S), Len(t) = Len(s),
         NEW p \in [1..Len(s) -> 1..Len(s)],
         \A i, j \in 1..Len(s) : i # j => p[i] # p[j],
         \A i \in 1..Len(s) : t[i] = s[p[i]]
  PROVE  ToBag(t) = ToBag(s)
<1> DEFINE n == Len(s)
           D == 1..n
<1>1. n \in Nat /\ DOMAIN s = D /\ DOMAIN t = D
  BY LenProperties
<1>2. p \in [D -> D] /\ (\A i, j \in D : p[i] = p[j] => i = j) /\ (\A i \in D : t[i] = s[p[i]])
  OBVIOUS
<1>3. IsFiniteSet(D)
  BY <1>1, FS_Interval
<1> HIDE DEF n, D
<1>4. \A j \in D : \E i \in D : p[i] = j
  <2>1. p \in Injection(D, D)
    BY <1>2, Fun_IsInj
  <2>2. p \in Surjection(D, D)
    BY <1>3, <2>1, FS_Injection
  <2>3. \A j \in D : \E i \in D : p[i] = j
    BY <2>2, Zenon DEF Surjection
  <2>4. QED
    BY <2>3
<1>5. Range(t) = Range(s)
  <2>1. \A i \in D : \E j \in D : t[i] = s[j]
    BY <1>2
  <2>2. \A j \in D : \E i \in D : t[i] = s[j]
    <3> SUFFICES ASSUME NEW j \in D PROVE \E i \in D : t[i] = s[j]
      OBVIOUS
    <3>1. PICK i \in D : p[i] = j
      BY <1>4
    <3>2. QED
      BY <1>2, <3>1, Zenon
  <2>3. ASSUME NEW x PROVE x \in Range(t) <=> x \in Range(s)
    <3>1. x \in Range(t) <=> \E i \in D : x = t[i]
      BY <1>1, Zenon DEF Range
    <3>2. x \in Range(s) <=> \E i \in D : x = s[i]
      BY <1>1, Zenon DEF Range
    <3>3. CASE x \in Range(t)
      <4>1. PICK i \in D : x = t[i]
        BY <3>1, <3>3, Zenon
      <4>2. QED
        BY <2>1, <3>2, <3>3, <4>1, Zenon
    <3>4. CASE x \in Range(s)
      <4>1. PICK j \in D : x = s[j]
        BY <3>2, <3>4, Zenon
      <4>2. QED
        BY <2>2, <3>1, <3>4, <4>1, Zenon
    <3>5. QED
      BY <3>3, <3>4, Zenon
  <2>4. QED
    BY <2>3, Zenon
<1>6. ASSUME NEW x
      PROVE  Cardinality({i \in D : t[i] = x}) = Cardinality({i \in D : s[i] = x})
  <2> DEFINE A == {i \in D : t[i] = x}
             B == {i \in D : s[i] = x}
             q == [i \in A |-> p[i]]
  <2>1. IsFiniteSet(A)
    BY <1>3, FS_Subset
  <2>2. q \in [A -> B]
    BY <1>2
  <2>3. \A i, j \in A : q[i] = q[j] => i = j
    BY <1>2
  <2>4. \A j \in B : \E i \in A : q[i] = j
    <3> SUFFICES ASSUME NEW j \in B PROVE \E i \in A : q[i] = j
      OBVIOUS
    <3>1. PICK i \in D : p[i] = j
      BY <1>4
    <3>2. i \in A /\ q[i] = j
      BY <1>2, <3>1
    <3>3. QED
      BY <3>2
  <2> HIDE DEF A, B, q
  <2>5. q \in Bijection(A, B)
    BY <2>2, <2>3, <2>4, Fun_IsBij
  <2>6. ExistsBijection(A, B)
    BY <2>5, Fun_ExistsBij
  <2>7. Cardinality(A) = Cardinality(B)
    BY <2>1, <2>6, FS_Bijection
  <2>8. QED
    BY <2>7 DEF A, B
<1>7. QED
  <2>1. ToBag(t) = [x \in Range(t) |-> Cardinality({i \in D : t[i] = x})]
    BY <1>1, Zenon DEF ToBag
  <2>2. ToBag(s) = [x \in Range(s) |-> Cardinality({i \in D : s[i] = x})]
    BY <1>1, Zenon DEF ToBag
  <2> DEFINE R == Range(s)
             F(u) == [x \in R |-> Cardinality({i \in D : u[i] = x})]
  <2>3. F(t) = F(s)
    <3> DEFINE times(u, x) == Cardinality({i \in D : u[i] = x})
    <3>1. \A x : times(t, x) = times(s, x)
      BY <1>6, Zenon
    <3> HIDE DEF times
    <3>2. [x \in R |-> times(t, x)] = [x \in R |-> times(s, x)]
      BY <3>1
    <3>3. QED
      BY <3>2, Zenon DEF times
  <2>4. QED
    BY <1>5, <2>1, <2>2, <2>3, Zenon

(* Max of a set of positions is its greatest element. *)
LEMMA MaxIsGreatest ==
  ASSUME NEW m \in Nat, NEW T \in SUBSET (1..m), T # {}
  PROVE  Max(T) \in T /\ \A y \in T : Max(T) >= y
<1> DEFINE U == {d \in Nat : m - d \in T}
<1>1. PICK x \in T : TRUE
  OBVIOUS
<1>2. m - x \in U /\ U \in SUBSET Nat
  BY <1>1
<1>3. PICK d \in U : \A e \in U : d <= e
  BY <1>2, LeastNumber
<1>4. m - d \in T /\ \A y \in T : m - d >= y
  <2> SUFFICES ASSUME NEW y \in T PROVE m - d >= y
    BY <1>3
  <2>1. m - y \in U
    OBVIOUS
  <2>2. QED
    BY <1>3, <2>1
<1>5. QED
  BY <1>4 DEF Max

(* src lists the n elements of K in ascending order. *)
Enumerates(src, K, n) ==
  /\ n \in Nat /\ n = Cardinality(K) /\ src \in [1..n -> K]
  /\ \A i, j \in 1..n : i < j => src[i] < src[j]
  /\ \A x \in K : \E i \in 1..n : src[i] = x

(* Any set of positions can be so listed. *)
LEMMA EnumerationExists ==
  ASSUME NEW m \in Nat, NEW K \in SUBSET (1..m)
  PROVE  \E src : Enumerates(src, K, Cardinality(K))
<1> DEFINE T == {b \in Nat : \E L \in SUBSET (1..b) : ~\E src : Enumerates(src, L, Cardinality(L))}
<1>1. SUFFICES ASSUME T # {} PROVE FALSE
  OBVIOUS
<1>2. T \in SUBSET Nat
  OBVIOUS
<1>3. PICK b \in T : \A e \in T : b <= e
  BY <1>1, <1>2, LeastNumber
<1>4. PICK L \in SUBSET (1..b) : ~\E src : Enumerates(src, L, Cardinality(L))
  BY <1>3
<1>5. IsFiniteSet(L) /\ Cardinality(L) \in Nat
  <2>1. IsFiniteSet(1..b)
    BY <1>2, <1>3, FS_Interval
  <2>2. QED
    BY <2>1, FS_Subset, FS_CardinalityType
<1>6. L # {}
  <2> SUFFICES ASSUME L = {} PROVE FALSE
    OBVIOUS
  <2> DEFINE f == [i \in 1..0 |-> 0]
  <2>1. Cardinality(L) = 0
    BY FS_EmptySet
  <2>2. Enumerates(f, L, 0)
    BY <2>1 DEF Enumerates
  <2>3. QED
    BY <1>4, <2>1, <2>2
<1>n. b \in Nat /\ b # 0
  <2>1. b \in Nat
    BY <1>2, <1>3
  <2>2. PICK x \in L : TRUE
    BY <1>6
  <2>3. x \in 1..b
    BY <1>4
  <2>4. QED
    BY <2>1, <2>3
<1>o. \A e \in T : b <= e
  BY <1>3
<1> HIDE DEF T
<1>7. b \in Nat /\ b # 0 /\ b - 1 \in Nat /\ b - 1 \notin T
  BY <1>n, <1>o
<1>8. CASE b \notin L
  <2>1. L \in SUBSET (1..b - 1)
    BY <1>7, <1>8
  <2>2. QED
    BY <1>4, <1>7, <2>1 DEF T
<1>9. CASE b \in L
  <2> DEFINE M == L \ {b}
             n == Cardinality(M)
  <2>1. M \in SUBSET (1..b - 1)
    BY <1>7
  <2>2. PICK g : Enumerates(g, M, n)
    BY <1>7, <2>1 DEF T
  <2>3. Cardinality(L) = n + 1 /\ n \in Nat
    <3>1. n = Cardinality(L) - 1
      BY <1>5, <1>9, FS_RemoveElement
    <3>2. n \in Nat
      BY <2>2 DEF Enumerates
    <3> HIDE DEF n
    <3>3. QED
      BY <1>5, <3>1, <3>2
  <2> DEFINE f == [i \in 1..n + 1 |-> IF i <= n THEN g[i] ELSE b]
  <2>4. /\ g \in [1..n -> M]
        /\ \A i, j \in 1..n : i < j => g[i] < g[j]
        /\ \A x \in M : \E i \in 1..n : g[i] = x
    BY <2>2 DEF Enumerates
  <2> HIDE DEF n
  <2>5. f \in [1..n + 1 -> L]
    BY <1>9, <2>3, <2>4
  <2>6. \A i, j \in 1..n + 1 : i < j => f[i] < f[j]
    <3> SUFFICES ASSUME NEW i \in 1..n + 1, NEW j \in 1..n + 1, i < j PROVE f[i] < f[j]
      OBVIOUS
    <3>1. i \in 1..n /\ f[i] = g[i] /\ g[i] \in M
      BY <2>3, <2>4
    <3>b. g[i] \in Nat /\ g[i] < b
      <4>1. g[i] \in 1..b - 1
        BY <2>1, <3>1
      <4> HIDE DEF M
      <4>2. QED
        BY <1>7, <4>1
    <3>2. CASE j <= n
      BY <2>3, <2>4, <3>1, <3>2
    <3>3. CASE ~(j <= n)
      BY <2>3, <3>1, <3>b, <3>3
    <3>4. QED
      BY <3>2, <3>3
  <2>7. \A x \in L : \E i \in 1..n + 1 : f[i] = x
    <3> SUFFICES ASSUME NEW x \in L PROVE \E i \in 1..n + 1 : f[i] = x
      OBVIOUS
    <3>1. CASE x = b
      BY <2>3, <3>1
    <3>2. CASE x # b
      <4>1. PICK i \in 1..n : g[i] = x
        BY <2>4, <3>2
      <4>2. QED
        BY <2>3, <4>1
    <3>3. QED
      BY <3>1, <3>2
  <2> HIDE DEF f
  <2>8. Enumerates(f, L, n + 1)
    BY <2>3, <2>5, <2>6, <2>7 DEF Enumerates
  <2>9. QED
    BY <1>4, <2>3, <2>8
<1>10. QED
  BY <1>8, <1>9

(* From h the pointers nx lead along c[1], ..., c[m], nodes of N, to NULL. *)
Run(N, c, m, nx, h) ==
  /\ m \in Nat /\ \A i \in 1..m : c[i] \in N
  /\ h = IF m = 0 THEN NULL ELSE c[1]
  /\ \A i \in 1..m : nx[c[i]] = IF i = m THEN NULL ELSE c[i + 1]

(* The pointers pv lead back from each to the one before, and t is last. *)
Back(c, m, pv, t) ==
  /\ t = IF m = 0 THEN NULL ELSE c[m]
  /\ \A i \in 1..m : pv[c[i]] = IF i = 1 THEN NULL ELSE c[i - 1]

(* What curr is after i steps from h. *)
IsSteps(at, nx, h, n) ==
  at = [i \in 0..n |-> IF i = 0 THEN h ELSE IF at[i - 1] = NULL THEN NULL ELSE nx[at[i - 1]]]

Steps(nx, h, n) == CHOOSE at : IsSteps(at, nx, h, n)

(* A walk of any length can be taken. *)
LEMMA StepsExist ==
  ASSUME NEW nx, NEW h, NEW n \in Nat
  PROVE  IsSteps(Steps(nx, h, n), nx, h, n)
<1> DEFINE T == {k \in Nat : ~\E at : IsSteps(at, nx, h, k)}
<1>1. SUFFICES T = {}
  <2>1. \E at : IsSteps(at, nx, h, n)
    BY <1>1
  <2>2. QED
    BY <2>1 DEF Steps
<1>2. SUFFICES ASSUME T # {} PROVE FALSE
  OBVIOUS
<1>3. T \in SUBSET Nat
  OBVIOUS
<1>4. PICK k \in T : \A j \in T : k <= j
  BY <1>2, <1>3, LeastNumber
<1>5. k # 0
  <2> DEFINE f == [i \in 0..0 |-> h]
  <2>1. IsSteps(f, nx, h, 0)
    BY DEF IsSteps
  <2>2. QED
    BY <1>4, <2>1
<1>6. k - 1 \in Nat /\ k - 1 \notin T
  BY <1>4, <1>5
<1>7. PICK g : IsSteps(g, nx, h, k - 1)
  BY <1>6
<1> DEFINE f == [i \in 0..k |-> IF i < k THEN g[i]
                                ELSE IF g[k - 1] = NULL THEN NULL ELSE nx[g[k - 1]]]
<1>8. \A i \in 0..k - 1 : g[i] = IF i = 0 THEN h ELSE IF g[i - 1] = NULL THEN NULL ELSE nx[g[i - 1]]
  BY <1>7, <1>6 DEF IsSteps
<1>9. \A i \in 0..k : f[i] = IF i = 0 THEN h ELSE IF f[i - 1] = NULL THEN NULL ELSE nx[f[i - 1]]
  BY <1>5, <1>6, <1>8
<1>f. f = [i \in 0..k |-> f[i]]
  OBVIOUS
<1> HIDE DEF f, T
<1>10. IsSteps(f, nx, h, k)
  <2>1. [i \in 0..k |-> f[i]] =
          [i \in 0..k |-> IF i = 0 THEN h ELSE IF f[i - 1] = NULL THEN NULL ELSE nx[f[i - 1]]]
    BY <1>9, Zenon
  <2>2. QED
    BY <1>f, <2>1, Zenon DEF IsSteps
<1> USE DEF T
<1>11. QED
  BY <1>4, <1>10

(* After which of them curr is NULL. *)
Ends(nx, h, n) == {i \in 0..n : Steps(nx, h, n)[i] = NULL}

IsWalk(w, nx, h, n) ==
  w = [i \in 1..(IF Ends(nx, h, n) = {} THEN n + 1 ELSE Min(Ends(nx, h, n))) |->
         Steps(nx, h, n)[i - 1]]

(* Walk is the nodes of these steps. *)
LEMMA WalkIsSteps ==
  ASSUME NEW nx, NEW h, NEW n \in Nat
  PROVE  IsWalk(Walk(nx, h, n), nx, h, n)
BY Zenon DEF IsWalk, Walk, Steps, IsSteps, Ends

(* The sequence w is the m nodes c. *)
Shows(w, c, m) == w = [i \in 1..m |-> c[i]]

(* The walk along a run visits its nodes, as many as it has steps for. *)
LEMMA WalkOfRun ==
  ASSUME NEW N, NULL \notin N, NEW c, NEW m, NEW nx, NEW h, Run(N, c, m, nx, h),
         NEW n \in Nat
  PROVE  Shows(Walk(nx, h, n), c, IF m <= n THEN m ELSE n + 1)
<1> DEFINE at == Steps(nx, h, n)
           ends == Ends(nx, h, n)
<1>1. \A i \in 0..n :
        at[i] = IF i = 0 THEN h ELSE IF at[i - 1] = NULL THEN NULL ELSE nx[at[i - 1]]
  BY StepsExist DEF IsSteps
<1>2. Walk(nx, h, n) = [i \in 1..(IF ends = {} THEN n + 1 ELSE Min(ends)) |-> at[i - 1]]
  <2>1. IsWalk(Walk(nx, h, n), nx, h, n)
    BY WalkIsSteps
  <2>2. QED
    BY <2>1, Zenon DEF IsWalk
<1>e. ends = {i \in 0..n : at[i] = NULL}
  BY DEF Ends
<1>3. /\ m \in Nat /\ h = IF m = 0 THEN NULL ELSE c[1]
      /\ \A i \in 1..m : c[i] # NULL /\ nx[c[i]] = IF i = m THEN NULL ELSE c[i + 1]
  BY DEF Run
<1> HIDE DEF at, ends
<1>4. \A i \in 0..n : at[i] = IF i < m THEN c[i + 1] ELSE NULL
  <2> DEFINE T == {i \in 0..n : at[i] # IF i < m THEN c[i + 1] ELSE NULL}
  <2>1. SUFFICES ASSUME T # {} PROVE FALSE
    OBVIOUS
  <2>2. T \in SUBSET Nat
    OBVIOUS
  <2>3. PICK k \in T : \A j \in T : k <= j
    BY <2>1, <2>2, LeastNumber
  <2>4. k # 0
    BY <1>1, <1>3, <2>3
  <2>5. k - 1 \in 0..n /\ k - 1 \notin T
    BY <2>3, <2>4
  <2>6. at[k - 1] = IF k - 1 < m THEN c[(k - 1) + 1] ELSE NULL
    BY <2>5
  <2>7. at[k] = IF at[k - 1] = NULL THEN NULL ELSE nx[at[k - 1]]
    BY <1>1, <2>3, <2>4
  <2>8. CASE k - 1 < m
    <3>1. at[k - 1] = c[k] /\ k \in 1..m
      <4>1. k \in Nat /\ (k - 1) + 1 = k /\ k \in 1..m
        BY <1>3, <2>3, <2>4, <2>8
      <4>2. QED
        BY <2>6, <2>8, <4>1
    <3>2. at[k] = IF k = m THEN NULL ELSE c[k + 1]
      BY <1>3, <2>7, <3>1
    <3>3. QED
      BY <1>3, <2>3, <3>1, <3>2
  <2>9. CASE ~(k - 1 < m)
    BY <1>3, <2>3, <2>5, <2>6, <2>7, <2>9
  <2>10. QED
    BY <2>8, <2>9
<1>5. ends = {i \in 0..n : m <= i}
  BY <1>3, <1>4, <1>e
<1>6. (IF ends = {} THEN n + 1 ELSE Min(ends)) = IF m <= n THEN m ELSE n + 1
  <2>1. CASE m <= n
    <3>1. ends \in SUBSET Nat /\ ends # {} /\ m \in ends /\ \A i \in ends : m <= i
      BY <1>3, <1>5, <2>1
    <3>2. Min(ends) \in ends /\ \A y \in ends : Min(ends) <= y
      BY <3>1, MinIsLeast
    <3>3. m <= Min(ends) /\ Min(ends) <= m /\ Min(ends) \in Nat
      BY <3>1, <3>2
    <3>4. Min(ends) = m
      BY <1>3, <3>3
    <3>5. QED
      BY <2>1, <3>1, <3>4
  <2>2. CASE ~(m <= n)
    <3>1. ends = {}
      BY <1>3, <1>5, <2>2
    <3>2. QED
      BY <2>2, <3>1
  <2>3. QED
    BY <2>1, <2>2
<1> DEFINE u == IF m <= n THEN m ELSE n + 1
<1>7. Walk(nx, h, n) = [i \in 1..u |-> at[i - 1]]
  BY <1>2, <1>6
<1>8. \A i \in 1..u : at[i - 1] = c[i]
  BY <1>3, <1>4
<1> HIDE DEF u
<1>9. [i \in 1..u |-> at[i - 1]] = [i \in 1..u |-> c[i]]
  BY <1>8
<1>10. QED
  BY <1>7, <1>9 DEF u, Shows

(* A run that ends visits no node twice: it would go round for ever. *)
LEMMA RunInjective ==
  ASSUME NEW N, NULL \notin N, NEW c, NEW m, NEW nx, NEW h, Run(N, c, m, nx, h)
  PROVE  \A i, j \in 1..m : c[i] = c[j] => i = j
<1>1. /\ m \in Nat
      /\ \A i \in 1..m : c[i] # NULL /\ nx[c[i]] = IF i = m THEN NULL ELSE c[i + 1]
  BY DEF Run
<1> DEFINE T == {d \in Nat : \E i \in 1..m : i < m - d /\ c[i] = c[m - d]}
<1>2. T = {}
  <2>1. SUFFICES ASSUME T # {} PROVE FALSE
    OBVIOUS
  <2>2. T \in SUBSET Nat
    OBVIOUS
  <2>3. PICK d \in T : \A e \in T : d <= e
    BY <2>1, <2>2, LeastNumber
  <2>4. PICK i \in 1..m : i < m - d /\ c[i] = c[m - d]
    BY <2>3
  <2>5. m - d \in 1..m /\ nx[c[i]] = nx[c[m - d]]
    BY <1>1, <2>2, <2>3, <2>4
  <2>6. nx[c[i]] = c[i + 1] /\ i + 1 \in 1..m
    BY <1>1, <2>4, <2>5
  <2>7. d # 0
    BY <1>1, <2>5, <2>6
  <2>8. nx[c[m - d]] = c[m - (d - 1)] /\ d - 1 \in Nat /\ m - (d - 1) = (m - d) + 1
    BY <1>1, <2>2, <2>3, <2>5, <2>7
  <2>9. i + 1 < m - (d - 1) /\ c[i + 1] = c[m - (d - 1)]
    BY <1>1, <2>4, <2>5, <2>6, <2>8
  <2>10. d - 1 \in T
    BY <2>6, <2>8, <2>9
  <2>11. QED
    BY <2>3, <2>8, <2>10
<1>3. \A i, j \in 1..m : i < j => c[i] # c[j]
  <2> SUFFICES ASSUME NEW i \in 1..m, NEW j \in 1..m, i < j, c[i] = c[j] PROVE FALSE
    OBVIOUS
  <2>1. m - j \in Nat /\ m - (m - j) = j
    BY <1>1
  <2>2. m - j \in T
    BY <2>1
  <2>3. QED
    BY <1>2, <2>2
<1>4. QED
  BY <1>3

(* So it is no longer than there are nodes. *)
LEMMA RunBounded ==
  ASSUME NEW N, IsFiniteSet(N), NULL \notin N, NEW c, NEW m, NEW nx, NEW h,
         Run(N, c, m, nx, h)
  PROVE  m <= Cardinality(N) /\ Cardinality(N) \in Nat
<1>1. m \in Nat /\ \A i \in 1..m : c[i] \in N
  BY DEF Run
<1> DEFINE f == [i \in 1..m |-> c[i]]
<1>2. f \in [1..m -> N] /\ \A i, j \in 1..m : f[i] = f[j] => i = j
  BY <1>1, RunInjective
<1> HIDE DEF f
<1>3. f \in Injection(1..m, N)
  BY <1>2 DEF Injection, IsInjective
<1>4. IsFiniteSet(1..m) /\ Cardinality(1..m) = m
  BY <1>1, FS_Interval
<1>5. Cardinality(1..m) <= Cardinality(N)
  BY <1>3, <1>4, FS_Injection
<1>6. QED
  BY <1>4, <1>5, FS_CardinalityType

(* The p-th node, or the end of the chain. *)
At(c, m, p) == IF p = m + 1 THEN NULL ELSE c[p]

(* The sequence w is the nodes c from the p-th on. *)
ShowsFrom(w, c, m, p) == w = [i \in 1..m + 1 - p |-> c[p + i - 1]]

(* A walk that starts at the p-th node visits these. *)
LEMMA WalkFrom ==
  ASSUME NEW N, NULL \notin N, NEW c, NEW m, NEW nx, NEW h, Run(N, c, m, nx, h),
         NEW n \in Nat, m <= n, NEW p \in 1..m + 1,
         NEW x, x = At(c, m, p)
  PROVE  ShowsFrom(Walk(nx, x, n), c, m, p)
<1>1. PICK d : d = [i \in 1..m + 1 - p |-> c[p + i - 1]]
  OBVIOUS
<1>2. PICK k : k = m + 1 - p
  OBVIOUS
<1>3. /\ m \in Nat /\ \A i \in 1..m : c[i] \in N
      /\ \A i \in 1..m : nx[c[i]] = IF i = m THEN NULL ELSE c[i + 1]
  BY DEF Run
<1>4. k \in Nat /\ k <= n /\ (k = 0 <=> p = m + 1)
  BY <1>2, <1>3
<1>5. \A i \in 1..k : d[i] = c[p + i - 1] /\ p + i - 1 \in 1..m
  BY <1>1, <1>2, <1>3
<1>6. \A i \in 1..k : nx[d[i]] = IF i = k THEN NULL ELSE d[i + 1]
  <2> SUFFICES ASSUME NEW i \in 1..k PROVE nx[d[i]] = IF i = k THEN NULL ELSE d[i + 1]
    OBVIOUS
  <2>1. d[i] = c[p + i - 1] /\ p + i - 1 \in 1..m
    BY <1>5
  <2>2. CASE i = k
    <3>1. p + i - 1 = m
      BY <1>2, <1>3, <2>2
    <3>2. QED
      BY <1>3, <2>1, <2>2, <3>1
  <2>3. CASE i # k
    <3>1. p + i - 1 # m /\ i + 1 \in 1..k /\ p + (i + 1) - 1 = (p + i - 1) + 1
      BY <1>2, <1>3, <2>3
    <3>2. d[i + 1] = c[p + (i + 1) - 1]
      BY <1>5, <3>1
    <3>3. QED
      BY <1>3, <2>1, <2>3, <3>1, <3>2
  <2>4. QED
    BY <2>2, <2>3
<1>7. x = IF k = 0 THEN NULL ELSE d[1]
  <2>1. CASE k = 0
    BY <1>4, <2>1 DEF At
  <2>2. CASE k # 0
    <3>1. 1 \in 1..k /\ p + 1 - 1 = p /\ p # m + 1
      BY <1>4, <2>2
    <3>2. d[1] = c[p + 1 - 1]
      BY <1>5, <3>1
    <3>3. QED
      BY <2>2, <3>1, <3>2 DEF At
  <2>3. QED
    BY <2>1, <2>2
<1>8. Run(N, d, k, nx, x)
  BY <1>3, <1>4, <1>5, <1>6, <1>7 DEF Run
<1>9. Shows(Walk(nx, x, n), d, IF k <= n THEN k ELSE n + 1)
  BY <1>8, WalkOfRun
<1>10. Walk(nx, x, n) = [i \in 1..k |-> d[i]]
  BY <1>4, <1>9 DEF Shows
<1>11. QED
  BY <1>1, <1>2, <1>10 DEF ShowsFrom

-------------------------------------------------------------------------------
(* A doubly linked list: header h and t, pointers nx and pv, nodes c.      *)
Linked(N, c, m, nx, pv, h, t) == Run(N, c, m, nx, h) /\ Back(c, m, pv, t)

(* The nodes next to the gap behind the i-th. *)
Before(c, i) == IF i = 0 THEN NULL ELSE c[i]
Behind(c, m, i) == IF i = m THEN NULL ELSE c[i + 1]

(* Node x is on a chain c of m nodes. *)
On(x, c, m) == \E i \in 1..m : c[i] = x

(* Stores into other nodes do not disturb a list. *)
LEMMA OthersLinked ==
  ASSUME NEW N, NEW c, NEW m, NEW nx, NEW pv, NEW h, NEW t, Linked(N, c, m, nx, pv, h, t),
         NEW nx2, NEW pv2,
         \A i \in 1..m : nx2[c[i]] = nx[c[i]] /\ pv2[c[i]] = pv[c[i]]
  PROVE  Linked(N, c, m, nx2, pv2, h, t)
BY DEF Linked, Run, Back

(* The stores that put a new node n into the gap behind the i-th; d are    *)
(* the nodes then.                                                         *)
Inserted(N, c, m, i, n, nx, pv, h, t, nx2, pv2, h2, t2, d) ==
  LET p == Before(c, i)
      q == Behind(c, m, i)
  IN  /\ i \in Nat /\ i <= m /\ n \in N /\ \A k \in 1..m : c[k] # n
      /\ \A x \in N : nx2[x] = IF x = n THEN q ELSE IF x = p THEN n ELSE nx[x]
      /\ \A x \in N : pv2[x] = IF x = n THEN p ELSE IF x = q THEN n ELSE pv[x]
      /\ h2 = IF p = NULL THEN n ELSE h
      /\ t2 = IF q = NULL THEN n ELSE t
      /\ \A k \in 1..m + 1 : d[k] = IF k <= i THEN c[k] ELSE IF k = i + 1 THEN n ELSE c[k - 1]

(* They make a list of these nodes. *)
LEMMA InsertLinked ==
  ASSUME NEW N, NULL \notin N, NEW c, NEW m, NEW nx, NEW pv, NEW h, NEW t,
         Linked(N, c, m, nx, pv, h, t),
         NEW i, NEW n, NEW nx2, NEW pv2, NEW h2, NEW t2, NEW d,
         Inserted(N, c, m, i, n, nx, pv, h, t, nx2, pv2, h2, t2, d)
  PROVE  Linked(N, d, m + 1, nx2, pv2, h2, t2)
<1> DEFINE p == Before(c, i)
           q == Behind(c, m, i)
<1>d. /\ i \in Nat /\ i <= m /\ n \in N /\ \A k \in 1..m : c[k] # n
      /\ \A x \in N : nx2[x] = IF x = n THEN q ELSE IF x = p THEN n ELSE nx[x]
      /\ \A x \in N : pv2[x] = IF x = n THEN p ELSE IF x = q THEN n ELSE pv[x]
      /\ h2 = IF p = NULL THEN n ELSE h
      /\ t2 = IF q = NULL THEN n ELSE t
      /\ \A k \in 1..m + 1 : d[k] = IF k <= i THEN c[k] ELSE IF k = i + 1 THEN n ELSE c[k - 1]
  BY DEF Inserted
<1>1. /\ m \in Nat /\ h = IF m = 0 THEN NULL ELSE c[1]
      /\ t = IF m = 0 THEN NULL ELSE c[m]
      /\ \A k \in 1..m : c[k] \in N /\ c[k] # NULL
      /\ \A k \in 1..m : nx[c[k]] = IF k = m THEN NULL ELSE c[k + 1]
      /\ \A k \in 1..m : pv[c[k]] = IF k = 1 THEN NULL ELSE c[k - 1]
  BY DEF Linked, Run, Back
<1>2. \A j, k \in 1..m : c[j] = c[k] => j = k
  BY RunInjective DEF Linked
<1>3. n # NULL /\ p = (IF i = 0 THEN NULL ELSE c[i]) /\ q = IF i = m THEN NULL ELSE c[i + 1]
  BY <1>d DEF Before, Behind
<1> HIDE DEF p, q
<1> USE <1>d
<1>4. \A k \in 1..m + 1 : d[k] \in N
  BY <1>1
<1>5. h2 = d[1] /\ t2 = d[m + 1]
  <2>1. h2 = d[1]
    BY <1>1, <1>3
  <2>2. t2 = d[m + 1]
    BY <1>1, <1>3
  <2>3. QED
    BY <2>1, <2>2
<1>6. \A k \in 1..m + 1 : nx2[d[k]] = IF k = m + 1 THEN NULL ELSE d[k + 1]
  <2> SUFFICES ASSUME NEW k \in 1..m + 1
               PROVE  nx2[d[k]] = IF k = m + 1 THEN NULL ELSE d[k + 1]
    OBVIOUS
  <2>1. CASE k < i
    BY <1>1, <1>2, <1>3, <2>1
  <2>2. CASE k = i
    BY <1>1, <1>3, <2>2
  <2>3. CASE k = i + 1
    <3>1. d[k] = n /\ nx2[d[k]] = q
      BY <1>1, <2>3
    <3>2. k # m + 1 => d[k + 1] = c[i + 1]
      BY <1>1, <2>3
    <3>3. QED
      BY <1>1, <1>3, <2>3, <3>1, <3>2
  <2>4. CASE k > i + 1
    <3>1. k - 1 \in 1..m /\ d[k] = c[k - 1] /\ (i > 0 => i \in 1..m /\ k - 1 # i)
      BY <1>1, <2>4
    <3>2. c[k - 1] # n /\ c[k - 1] # p
      BY <1>1, <1>2, <1>3, <3>1
    <3>3. nx2[d[k]] = nx[c[k - 1]]
      BY <1>1, <3>1, <3>2
    <3>4. k # m + 1 => d[k + 1] = c[(k - 1) + 1]
      BY <1>1, <2>4
    <3>5. QED
      BY <1>1, <3>1, <3>3, <3>4
  <2>5. QED
    BY <1>1, <2>1, <2>2, <2>3, <2>4
<1>7. \A k \in 1..m + 1 : pv2[d[k]] = IF k = 1 THEN NULL ELSE d[k - 1]
  <2> SUFFICES ASSUME NEW k \in 1..m + 1
               PROVE  pv2[d[k]] = IF k = 1 THEN NULL ELSE d[k - 1]
    OBVIOUS
  <2>1. CASE k <= i
    <3>1. k \in 1..m /\ d[k] = c[k] /\ (i < m => i + 1 \in 1..m /\ k # i + 1)
      BY <1>1, <2>1
    <3>2. c[k] # n /\ c[k] # q
      BY <1>1, <1>2, <1>3, <3>1
    <3>3. pv2[d[k]] = pv[c[k]] /\ (k # 1 => d[k - 1] = c[k - 1])
      BY <1>1, <2>1, <3>1, <3>2
    <3>4. QED
      BY <1>1, <3>1, <3>3
  <2>2. CASE k = i + 1
    BY <1>1, <1>3, <2>2
  <2>3. CASE k = i + 2
    <3>1. k - 1 \in 1..m /\ k - 1 = i + 1 /\ d[k] = c[k - 1] /\ i # m
      BY <1>1, <2>3
    <3>2. d[k] = q /\ d[k] # n /\ d[k - 1] = n
      BY <1>1, <1>3, <3>1, <2>3
    <3>3. QED
      BY <1>1, <2>3, <3>1, <3>2
  <2>4. CASE k > i + 2
    <3>1. k - 1 \in 1..m /\ d[k] = c[k - 1] /\ i + 1 \in 1..m /\ k - 1 # i + 1 /\ k # 1
      BY <1>1, <2>4
    <3>2. c[k - 1] # n /\ c[k - 1] # q
      BY <1>1, <1>2, <1>3, <3>1
    <3>3. pv2[d[k]] = pv[c[k - 1]] /\ d[k - 1] = c[(k - 1) - 1]
      BY <1>1, <2>4, <3>1, <3>2
    <3>4. QED
      BY <1>1, <2>4, <3>1, <3>3
  <2>5. QED
    BY <1>1, <2>1, <2>2, <2>3, <2>4
<1>8. QED
  BY <1>1, <1>4, <1>5, <1>6, <1>7 DEF Linked, Run, Back

(* The stores that take the i-th node out; d are the nodes then. *)
ChainRemoved(N, c, m, i, nx, pv, h, t, nx2, pv2, h2, t2, d) ==
  LET n == c[i]
      p == Before(c, i - 1)
      q == Behind(c, m, i)
  IN  /\ i \in Nat /\ 1 <= i /\ i <= m
      /\ \A x \in N : nx2[x] = IF x = n THEN NULL ELSE IF x = p THEN q ELSE nx[x]
      /\ \A x \in N : pv2[x] = IF x = n THEN NULL ELSE IF x = q THEN p ELSE pv[x]
      /\ h2 = IF p = NULL THEN q ELSE h
      /\ t2 = IF q = NULL THEN p ELSE t
      /\ \A k \in 1..m - 1 : d[k] = IF k < i THEN c[k] ELSE c[k + 1]

(* They make a list of these nodes. *)
LEMMA UnlinkLinked ==
  ASSUME NEW N, NULL \notin N, NEW c, NEW m, NEW nx, NEW pv, NEW h, NEW t,
         Linked(N, c, m, nx, pv, h, t),
         NEW i, NEW nx2, NEW pv2, NEW h2, NEW t2, NEW d,
         ChainRemoved(N, c, m, i, nx, pv, h, t, nx2, pv2, h2, t2, d)
  PROVE  Linked(N, d, m - 1, nx2, pv2, h2, t2)
<1> DEFINE n == c[i]
           p == Before(c, i - 1)
           q == Behind(c, m, i)
<1>d. /\ i \in Nat /\ 1 <= i /\ i <= m /\ n = c[i]
      /\ \A x \in N : nx2[x] = IF x = n THEN NULL ELSE IF x = p THEN q ELSE nx[x]
      /\ \A x \in N : pv2[x] = IF x = n THEN NULL ELSE IF x = q THEN p ELSE pv[x]
      /\ h2 = IF p = NULL THEN q ELSE h
      /\ t2 = IF q = NULL THEN p ELSE t
      /\ \A k \in 1..m - 1 : d[k] = IF k < i THEN c[k] ELSE c[k + 1]
  BY DEF ChainRemoved
<1>1. /\ m \in Nat /\ h = IF m = 0 THEN NULL ELSE c[1]
      /\ t = IF m = 0 THEN NULL ELSE c[m]
      /\ \A k \in 1..m : c[k] \in N /\ c[k] # NULL
      /\ \A k \in 1..m : nx[c[k]] = IF k = m THEN NULL ELSE c[k + 1]
      /\ \A k \in 1..m : pv[c[k]] = IF k = 1 THEN NULL ELSE c[k - 1]
  BY DEF Linked, Run, Back
<1>2. \A j, k \in 1..m : c[j] = c[k] => j = k
  BY RunInjective DEF Linked
<1>3. /\ p = (IF i = 1 THEN NULL ELSE c[i - 1]) /\ q = IF i = m THEN NULL ELSE c[i + 1]
      /\ i \in 1..m
  BY <1>1, <1>d DEF Before, Behind
<1> HIDE DEF n, p, q
<1> USE <1>d
<1>4. \A k \in 1..m - 1 : d[k] \in N
  BY <1>1, <1>3
<1>5. h2 = IF m - 1 = 0 THEN NULL ELSE d[1]
  BY <1>1, <1>3
<1>6. t2 = IF m - 1 = 0 THEN NULL ELSE d[m - 1]
  BY <1>1, <1>3
<1>7. \A k \in 1..m - 1 : nx2[d[k]] = IF k = m - 1 THEN NULL ELSE d[k + 1]
  <2> SUFFICES ASSUME NEW k \in 1..m - 1
               PROVE  nx2[d[k]] = IF k = m - 1 THEN NULL ELSE d[k + 1]
    OBVIOUS
  <2>1. CASE k < i - 1
    <3>1. k \in 1..m /\ d[k] = c[k] /\ i - 1 \in 1..m /\ c[k] # n /\ c[k] # p
      BY <1>1, <1>2, <1>3, <2>1
    <3>2. nx2[d[k]] = c[k + 1] /\ d[k + 1] = c[k + 1] /\ k # m - 1
      BY <1>1, <1>3, <2>1, <3>1
    <3>3. QED
      BY <3>2
  <2>2. CASE k = i - 1
    <3>1. k \in 1..m /\ d[k] = p /\ p # n /\ p # NULL /\ p \in N
      BY <1>1, <1>2, <1>3, <2>2
    <3>2. nx2[d[k]] = q
      BY <3>1
    <3>3. k # m - 1 => d[k + 1] = c[i + 1] /\ i # m
      BY <1>1, <1>3, <2>2
    <3>4. k = m - 1 => i = m
      BY <1>1, <1>3, <2>2
    <3>5. QED
      BY <1>3, <3>2, <3>3, <3>4
  <2>3. CASE k >= i
    <3>1. k + 1 \in 1..m /\ d[k] = c[k + 1] /\ k + 1 # i /\ (i > 1 => i - 1 \in 1..m /\ k + 1 # i - 1)
      BY <1>1, <1>3, <2>3
    <3>2. c[k + 1] # n /\ c[k + 1] # p
      BY <1>1, <1>2, <1>3, <3>1
    <3>3. nx2[d[k]] = IF k + 1 = m THEN NULL ELSE c[(k + 1) + 1]
      BY <1>1, <3>1, <3>2
    <3>4. k # m - 1 => d[k + 1] = c[(k + 1) + 1]
      BY <1>1, <1>3, <2>3
    <3>5. QED
      BY <1>1, <3>3, <3>4
  <2>4. QED
    BY <1>1, <1>3, <2>1, <2>2, <2>3
<1>8. \A k \in 1..m - 1 : pv2[d[k]] = IF k = 1 THEN NULL ELSE d[k - 1]
  <2> SUFFICES ASSUME NEW k \in 1..m - 1
               PROVE  pv2[d[k]] = IF k = 1 THEN NULL ELSE d[k - 1]
    OBVIOUS
  <2>1. CASE k < i
    <3>1. k \in 1..m /\ d[k] = c[k] /\ (i < m => i + 1 \in 1..m /\ k # i + 1)
      BY <1>1, <1>3, <2>1
    <3>2. c[k] # n /\ c[k] # q
      BY <1>1, <1>2, <1>3, <2>1, <3>1
    <3>3. pv2[d[k]] = pv[c[k]] /\ (k # 1 => d[k - 1] = c[k - 1])
      BY <1>1, <1>3, <2>1, <3>1, <3>2
    <3>4. QED
      BY <1>1, <3>1, <3>3
  <2>2. CASE k = i
    <3>1. i + 1 \in 1..m /\ d[k] = q /\ q # n /\ q \in N
      BY <1>1, <1>2, <1>3, <2>2
    <3>2. pv2[d[k]] = p
      BY <3>1
    <3>3. k # 1 => d[k - 1] = c[i - 1]
      BY <1>1, <1>3, <2>2
    <3>4. QED
      BY <1>3, <2>2, <3>2, <3>3
  <2>3. CASE k > i
    <3>1. k + 1 \in 1..m /\ d[k] = c[k + 1] /\ i + 1 \in 1..m /\ k + 1 # i + 1 /\ k # 1
      BY <1>1, <1>3, <2>3
    <3>2. c[k + 1] # n /\ c[k + 1] # q
      BY <1>1, <1>2, <1>3, <3>1
    <3>3. pv2[d[k]] = c[(k + 1) - 1] /\ d[k - 1] = c[(k - 1) + 1]
      BY <1>1, <1>3, <2>3, <3>1, <3>2
    <3>4. (k + 1) - 1 = k /\ (k - 1) + 1 = k
      OBVIOUS
    <3>5. QED
      BY <3>1, <3>3, <3>4
  <2>4. QED
    BY <1>1, <1>3, <2>1, <2>2, <2>3
<1>9. QED
  BY <1>1, <1>3, <1>4, <1>5, <1>6, <1>7, <1>8 DEF Linked, Run, Back

(* next and prev trade places in every node; d are the nodes from the end. *)
ChainTurned(c, m, nx, pv, nx2, pv2, d) ==
  /\ \A k \in 1..m : nx2[c[k]] = pv[c[k]] /\ pv2[c[k]] = nx[c[k]]
  /\ \A k \in 1..m : d[k] = c[(m + 1) - k]

(* That turns the list round. *)
LEMMA TurnLinked ==
  ASSUME NEW N, NEW c, NEW m, NEW nx, NEW pv, NEW h, NEW t, Linked(N, c, m, nx, pv, h, t),
         NEW nx2, NEW pv2, NEW d, ChainTurned(c, m, nx, pv, nx2, pv2, d)
  PROVE  Linked(N, d, m, nx2, pv2, t, h)
<1>d. /\ \A k \in 1..m : nx2[c[k]] = pv[c[k]] /\ pv2[c[k]] = nx[c[k]]
      /\ \A k \in 1..m : d[k] = c[(m + 1) - k]
  BY DEF ChainTurned
<1> USE <1>d
<1>1. /\ m \in Nat /\ h = IF m = 0 THEN NULL ELSE c[1]
      /\ t = IF m = 0 THEN NULL ELSE c[m]
      /\ \A k \in 1..m : c[k] \in N
      /\ \A k \in 1..m : nx[c[k]] = IF k = m THEN NULL ELSE c[k + 1]
      /\ \A k \in 1..m : pv[c[k]] = IF k = 1 THEN NULL ELSE c[k - 1]
  BY DEF Linked, Run, Back
<1>2. \A k \in 1..m : (m + 1) - k \in 1..m /\ d[k] \in N
  BY <1>1
<1>3. m # 0 => d[1] = c[m] /\ d[m] = c[1]
  BY <1>1
<1>4. \A k \in 1..m : nx2[d[k]] = IF k = m THEN NULL ELSE d[k + 1]
  <2> SUFFICES ASSUME NEW k \in 1..m PROVE nx2[d[k]] = IF k = m THEN NULL ELSE d[k + 1]
    OBVIOUS
  <2>1. nx2[d[k]] = IF (m + 1) - k = 1 THEN NULL ELSE c[((m + 1) - k) - 1]
    BY <1>1, <1>2
  <2>2. k # m => d[k + 1] = c[(m + 1) - (k + 1)] /\ (m + 1) - (k + 1) = ((m + 1) - k) - 1
    BY <1>1
  <2>3. QED
    BY <1>1, <2>1, <2>2
<1>5. \A k \in 1..m : pv2[d[k]] = IF k = 1 THEN NULL ELSE d[k - 1]
  <2> SUFFICES ASSUME NEW k \in 1..m PROVE pv2[d[k]] = IF k = 1 THEN NULL ELSE d[k - 1]
    OBVIOUS
  <2>1. pv2[d[k]] = IF (m + 1) - k = m THEN NULL ELSE c[((m + 1) - k) + 1]
    BY <1>1, <1>2
  <2>2. k # 1 => d[k - 1] = c[(m + 1) - (k - 1)] /\ (m + 1) - (k - 1) = ((m + 1) - k) + 1
    BY <1>1
  <2>3. QED
    BY <1>1, <2>1, <2>2
<1>6. QED
  BY <1>1, <1>2, <1>3, <1>4, <1>5 DEF Linked, Run, Back

(* The stores that hang list c2 behind list c1; d are the nodes then. *)
Joined(N, c1, m1, c2, m2, nx, pv, t1, h2, nx2, pv2, d) ==
  /\ m1 # 0 /\ m2 # 0
  /\ \A i \in 1..m1, j \in 1..m2 : c1[i] # c2[j]
  /\ \A x \in N : nx2[x] = IF x = t1 THEN h2 ELSE nx[x]
  /\ \A x \in N : pv2[x] = IF x = h2 THEN t1 ELSE pv[x]
  /\ \A k \in 1..m1 + m2 : d[k] = IF k <= m1 THEN c1[k] ELSE c2[k - m1]

(* They make a list of these nodes. *)
LEMMA JoinLinked ==
  ASSUME NEW N, NULL \notin N,
         NEW c1, NEW m1, NEW nx, NEW pv, NEW h1, NEW t1, Linked(N, c1, m1, nx, pv, h1, t1),
         NEW c2, NEW m2, NEW h2, NEW t2, Linked(N, c2, m2, nx, pv, h2, t2),
         NEW nx2, NEW pv2, NEW d,
         Joined(N, c1, m1, c2, m2, nx, pv, t1, h2, nx2, pv2, d)
  PROVE  Linked(N, d, m1 + m2, nx2, pv2, h1, t2)
<1>d. /\ m1 # 0 /\ m2 # 0
      /\ \A i \in 1..m1, j \in 1..m2 : c1[i] # c2[j]
      /\ \A x \in N : nx2[x] = IF x = t1 THEN h2 ELSE nx[x]
      /\ \A x \in N : pv2[x] = IF x = h2 THEN t1 ELSE pv[x]
      /\ \A k \in 1..m1 + m2 : d[k] = IF k <= m1 THEN c1[k] ELSE c2[k - m1]
  BY DEF Joined
<1> USE <1>d
<1>1. /\ m1 \in Nat /\ m1 > 0 /\ h1 = c1[1] /\ t1 = c1[m1]
      /\ \A k \in 1..m1 : c1[k] \in N
      /\ \A k \in 1..m1 : nx[c1[k]] = IF k = m1 THEN NULL ELSE c1[k + 1]
      /\ \A k \in 1..m1 : pv[c1[k]] = IF k = 1 THEN NULL ELSE c1[k - 1]
  BY DEF Linked, Run, Back
<1>2. /\ m2 \in Nat /\ m2 > 0 /\ h2 = c2[1] /\ t2 = c2[m2]
      /\ \A k \in 1..m2 : c2[k] \in N
      /\ \A k \in 1..m2 : nx[c2[k]] = IF k = m2 THEN NULL ELSE c2[k + 1]
      /\ \A k \in 1..m2 : pv[c2[k]] = IF k = 1 THEN NULL ELSE c2[k - 1]
  BY DEF Linked, Run, Back
<1>3. \A j, k \in 1..m1 : c1[j] = c1[k] => j = k
  BY RunInjective DEF Linked
<1>4. \A j, k \in 1..m2 : c2[j] = c2[k] => j = k
  BY RunInjective DEF Linked
<1>5. \A k \in 1..m1 + m2 : d[k] \in N
  BY <1>1, <1>2
<1>6. d[1] = h1 /\ d[m1 + m2] = t2
  BY <1>1, <1>2
<1>7. \A k \in 1..m1 + m2 : nx2[d[k]] = IF k = m1 + m2 THEN NULL ELSE d[k + 1]
  <2> SUFFICES ASSUME NEW k \in 1..m1 + m2
               PROVE  nx2[d[k]] = IF k = m1 + m2 THEN NULL ELSE d[k + 1]
    OBVIOUS
  <2>1. CASE k < m1
    BY <1>1, <1>2, <1>3, <2>1
  <2>2. CASE k = m1
    <3>1. d[k] = t1 /\ nx2[d[k]] = h2 /\ d[k + 1] = c2[(k + 1) - m1] /\ (k + 1) - m1 = 1
      BY <1>1, <1>2, <2>2
    <3>2. QED
      BY <1>1, <1>2, <2>2, <3>1
  <2>3. CASE k > m1
    <3>1. k - m1 \in 1..m2 /\ d[k] = c2[k - m1] /\ d[k] # t1
      BY <1>1, <1>2, <2>3
    <3>2. nx2[d[k]] = IF k - m1 = m2 THEN NULL ELSE c2[(k - m1) + 1]
      BY <1>2, <3>1
    <3>3. k # m1 + m2 => d[k + 1] = c2[(k + 1) - m1] /\ (k + 1) - m1 = (k - m1) + 1
      BY <1>1, <1>2, <2>3
    <3>4. QED
      BY <1>1, <1>2, <3>2, <3>3
  <2>4. QED
    BY <1>1, <2>1, <2>2, <2>3
<1>8. \A k \in 1..m1 + m2 : pv2[d[k]] = IF k = 1 THEN NULL ELSE d[k - 1]
  <2> SUFFICES ASSUME NEW k \in 1..m1 + m2
               PROVE  pv2[d[k]] = IF k = 1 THEN NULL ELSE d[k - 1]
    OBVIOUS
  <2>1. CASE k <= m1
    <3>1. d[k] = c1[k] /\ k \in 1..m1 /\ d[k] # h2
      BY <1>1, <1>2, <2>1
    <3>2. pv2[d[k]] = pv[c1[k]] /\ (k # 1 => d[k - 1] = c1[k - 1])
      BY <1>1, <1>2, <2>1, <3>1
    <3>3. QED
      BY <1>1, <3>1, <3>2
  <2>2. CASE k = m1 + 1
    <3>1. d[k] = c2[k - m1] /\ k - m1 = 1 /\ k # 1 /\ d[k - 1] = c1[k - 1] /\ k - 1 = m1
      BY <1>1, <1>2, <2>2
    <3>2. d[k] = h2 /\ h2 \in N /\ d[k - 1] = t1
      BY <1>1, <1>2, <3>1
    <3>3. QED
      BY <3>1, <3>2
  <2>3. CASE k > m1 + 1
    <3>1. k - m1 \in 1..m2 /\ k - m1 # 1 /\ d[k] = c2[k - m1] /\ 1 \in 1..m2 /\ k # 1
      BY <1>1, <1>2, <2>3
    <3>2. d[k] # h2 /\ d[k] \in N
      BY <1>2, <1>4, <3>1
    <3>3. pv2[d[k]] = c2[(k - m1) - 1]
      BY <1>2, <3>1, <3>2
    <3>4. d[k - 1] = c2[(k - 1) - m1] /\ (k - 1) - m1 = (k - m1) - 1
      BY <1>1, <1>2, <2>3
    <3>5. QED
      BY <3>1, <3>3, <3>4
  <2>4. QED
    BY <1>1, <2>1, <2>2, <2>3
<1>9. QED
  BY <1>1, <1>2, <1>5, <1>6, <1>7, <1>8 DEF Linked, Run, Back

(* The nodes at[i], for the positions i of K up to m, in ascending order:  *)
(* next and prev lead from one to the next.                                *)
Threaded(N, m, K, at, nx, pv, h, t) ==
  /\ m \in Nat /\ K \subseteq 1..m /\ at \in [K -> N]
  /\ \A i \in K : LET later == {j \in K : j > i}
                  IN  nx[at[i]] = IF later = {} THEN NULL ELSE at[Min(later)]
  /\ \A i \in K : LET earlier == {j \in K : j < i}
                  IN  pv[at[i]] = IF earlier = {} THEN NULL ELSE at[Max(earlier)]
  /\ h = IF K = {} THEN NULL ELSE at[Min(K)]
  /\ t = IF K = {} THEN NULL ELSE at[Max(K)]

(* They make a list. *)
LEMMA ThreadLinked ==
  ASSUME NEW N, NEW m, NEW K, NEW at, NEW nx, NEW pv, NEW h, NEW t,
         Threaded(N, m, K, at, nx, pv, h, t),
         NEW src, NEW n, Enumerates(src, K, n),
         NEW c, \A i \in 1..n : c[i] = at[src[i]]
  PROVE  Linked(N, c, n, nx, pv, h, t)
<1>c. m \in Nat /\ K \subseteq 1..m /\ at \in [K -> N]
  BY Zenon DEF Threaded
<1>d. m \in Nat /\ K \in SUBSET (1..m) /\ at \in [K -> N]
  BY <1>c
<1> USE <1>d
<1>1. /\ n \in Nat /\ src \in [1..n -> K]
      /\ \A i, j \in 1..n : i < j => src[i] < src[j]
      /\ \A x \in K : \E i \in 1..n : src[i] = x
  BY DEF Enumerates
<1>2. K \in SUBSET Nat /\ \A i \in 1..n : src[i] \in K /\ src[i] \in Nat
  <2>1. K \in SUBSET Nat
    OBVIOUS
  <2>2. \A i \in 1..n : src[i] \in K
    BY <1>1
  <2>3. QED
    BY <2>1, <2>2
<1>3. \A i \in 1..n - 1 : src[i + 1] \in K /\ src[i] < src[i + 1]
  BY <1>1
<1>4. \A i, j \in 1..n : i <= j <=> src[i] <= src[j]
  <2> SUFFICES ASSUME NEW i \in 1..n, NEW j \in 1..n PROVE i <= j <=> src[i] <= src[j]
    OBVIOUS
  <2>1. i \in Nat /\ j \in Nat /\ src[i] \in Nat /\ src[j] \in Nat
    BY <1>1, <1>2
  <2>2. CASE i < j
    BY <1>1, <2>1, <2>2
  <2>3. CASE i = j
    BY <2>1, <2>3
  <2>4. CASE j < i
    BY <1>1, <2>1, <2>4
  <2>5. QED
    BY <2>1, <2>2, <2>3, <2>4
<1> DEFINE later(i) == {j \in K : j > i}
           earlier(i) == {j \in K : j < i}
<1>5. \A i \in 1..n : IF i = n THEN later(src[i]) = {}
                      ELSE later(src[i]) # {} /\ Min(later(src[i])) = src[i + 1]
  <2> SUFFICES ASSUME NEW i \in 1..n
               PROVE  IF i = n THEN later(src[i]) = {}
                      ELSE later(src[i]) # {} /\ Min(later(src[i])) = src[i + 1]
    OBVIOUS
  <2> DEFINE L == later(src[i])
  <2>1. \A j \in 1..n : src[j] \in L <=> i < j
    BY <1>1, <1>2, <1>4
  <2>2. L \subseteq K
    OBVIOUS
  <2> HIDE DEF L
  <2>3. CASE i = n
    <3>1. L = {}
      BY <1>1, <2>1, <2>2, <2>3
    <3>2. QED
      BY <2>3, <3>1 DEF L
  <2>4. CASE i # n
    <3>1. i + 1 \in 1..n /\ src[i + 1] \in L
      BY <1>1, <2>1, <2>4
    <3>2. L \in SUBSET Nat /\ L # {}
      BY <1>2, <2>2, <3>1
    <3>3. Min(L) \in L /\ \A y \in L : Min(L) <= y
      BY <3>2, MinIsLeast
    <3>4. PICK j \in 1..n : src[j] = Min(L)
      BY <1>1, <2>2, <3>3
    <3>5. i < j
      BY <2>1, <3>3, <3>4
    <3>6. src[j] <= src[i + 1]
      BY <3>1, <3>3, <3>4
    <3>7. j <= i + 1
      BY <1>4, <3>1, <3>4, <3>6
    <3>8. j = i + 1
      BY <3>5, <3>7
    <3>9. QED
      BY <2>4, <3>2, <3>4, <3>8 DEF L
  <2>5. QED
    BY <2>3, <2>4 DEF L
<1>6. \A i \in 1..n : IF i = 1 THEN earlier(src[i]) = {}
                      ELSE earlier(src[i]) # {} /\ Max(earlier(src[i])) = src[i - 1]
  <2> SUFFICES ASSUME NEW i \in 1..n
               PROVE  IF i = 1 THEN earlier(src[i]) = {}
                      ELSE earlier(src[i]) # {} /\ Max(earlier(src[i])) = src[i - 1]
    OBVIOUS
  <2> DEFINE L == earlier(src[i])
  <2>1. \A j \in 1..n : src[j] \in L <=> j < i
    BY <1>1, <1>2, <1>4
  <2>2. L \subseteq K
    OBVIOUS
  <2> HIDE DEF L
  <2>3. CASE i = 1
    <3>1. L = {}
      BY <1>1, <2>1, <2>2, <2>3
    <3>2. QED
      BY <2>3, <3>1 DEF L
  <2>4. CASE i # 1
    <3>1. i - 1 \in 1..n /\ src[i - 1] \in L
      BY <1>1, <2>1, <2>4
    <3>2. L \in SUBSET (1..m) /\ L # {}
      BY <2>2, <3>1
    <3>3. Max(L) \in L /\ \A y \in L : Max(L) >= y
      BY <3>2, MaxIsGreatest
    <3>4. PICK j \in 1..n : src[j] = Max(L)
      BY <1>1, <2>2, <3>3
    <3>5. j < i
      BY <2>1, <3>3, <3>4
    <3>6. src[i - 1] <= src[j]
      BY <1>2, <3>1, <3>3, <3>4
    <3>7. i - 1 <= j
      BY <1>4, <3>1, <3>4, <3>6
    <3>8. j = i - 1
      BY <3>5, <3>7
    <3>9. QED
      BY <2>4, <3>2, <3>4, <3>8 DEF L
  <2>5. QED
    BY <2>3, <2>4 DEF L
<1>7. IF n = 0 THEN K = {} ELSE K # {} /\ Min(K) = src[1] /\ Max(K) = src[n]
  <2>1. CASE n = 0
    BY <1>1, <2>1
  <2>2. CASE n # 0
    <3>1. 1 \in 1..n /\ n \in 1..n /\ src[1] \in K /\ src[n] \in K
      BY <1>1, <2>2
    <3>2. \A x \in K : src[1] <= x /\ x <= src[n]
      <4> SUFFICES ASSUME NEW x \in K PROVE src[1] <= x /\ x <= src[n]
        OBVIOUS
      <4>1. PICK j \in 1..n : src[j] = x
        BY <1>1
      <4>2. QED
        BY <1>4, <3>1, <4>1
    <3>3. Min(K) \in K /\ (\A y \in K : Min(K) <= y)
      BY <1>2, <3>1, MinIsLeast
    <3>4. Max(K) \in K /\ (\A y \in K : Max(K) >= y)
      BY <3>1, MaxIsGreatest
    <3>5. Min(K) = src[1]
      <4>1. src[1] <= Min(K) /\ Min(K) <= src[1]
        BY <3>1, <3>2, <3>3
      <4>2. Min(K) \in Nat /\ src[1] \in Nat
        BY <1>2, <3>1, <3>3
      <4>3. QED
        BY <4>1, <4>2
    <3>6. Max(K) = src[n]
      <4>1. Max(K) <= src[n] /\ Max(K) >= src[n]
        BY <3>1, <3>2, <3>4
      <4>2. Max(K) \in Nat /\ src[n] \in Nat
        BY <1>2, <3>1, <3>4
      <4>3. QED
        BY <4>1, <4>2
    <3>7. QED
      BY <2>2, <3>1, <3>5, <3>6
  <2>3. QED
    BY <2>1, <2>2
<1>8. /\ \A i \in K : nx[at[i]] = IF later(i) = {} THEN NULL ELSE at[Min(later(i))]
      /\ \A i \in K : pv[at[i]] = IF earlier(i) = {} THEN NULL ELSE at[Max(earlier(i))]
      /\ h = IF K = {} THEN NULL ELSE at[Min(K)]
      /\ t = IF K = {} THEN NULL ELSE at[Max(K)]
  BY DEF Threaded
<1> HIDE DEF later, earlier
<1>9. \A i \in 1..n : c[i] = at[src[i]] /\ c[i] \in N
  BY <1>1
<1>10. \A i \in 1..n : nx[c[i]] = IF i = n THEN NULL ELSE c[i + 1]
  <2> SUFFICES ASSUME NEW i \in 1..n PROVE nx[c[i]] = IF i = n THEN NULL ELSE c[i + 1]
    OBVIOUS
  <2>1. nx[c[i]] = IF later(src[i]) = {} THEN NULL ELSE at[Min(later(src[i]))]
    BY <1>2, <1>8, <1>9
  <2>2. i # n => i + 1 \in 1..n
    BY <1>1
  <2>3. QED
    BY <1>5, <1>9, <2>1, <2>2
<1>11. \A i \in 1..n : pv[c[i]] = IF i = 1 THEN NULL ELSE c[i - 1]
  <2> SUFFICES ASSUME NEW i \in 1..n PROVE pv[c[i]] = IF i = 1 THEN NULL ELSE c[i - 1]
    OBVIOUS
  <2>1. pv[c[i]] = IF earlier(src[i]) = {} THEN NULL ELSE at[Max(earlier(src[i]))]
    BY <1>2, <1>8, <1>9
  <2>2. i # 1 => i - 1 \in 1..n
    BY <1>1
  <2>3. QED
    BY <1>6, <1>9, <2>1, <2>2
<1>12. h = (IF n = 0 THEN NULL ELSE c[1]) /\ t = IF n = 0 THEN NULL ELSE c[n]
  <2>1. n # 0 => 1 \in 1..n /\ n \in 1..n
    BY <1>1
  <2>2. QED
    BY <1>7, <1>8, <1>9, <2>1
<1>13. QED
  BY <1>1, <1>9, <1>10, <1>11, <1>12 DEF Linked, Run, Back

(* A list whose j-th node forgets what is behind it ends there. *)
LEMMA CutLinked ==
  ASSUME NEW N, NULL \notin N, NEW c, NEW m, NEW nx, NEW pv, NEW h, NEW t,
         Linked(N, c, m, nx, pv, h, t),
         NEW j \in 1..m, NEW nx2, nx2[c[j]] = NULL,
         \A i \in 1..j - 1 : nx2[c[i]] = nx[c[i]]
  PROVE  Linked(N, c, j, nx2, pv, h, c[j])
<1>1. /\ m \in Nat /\ h = (IF m = 0 THEN NULL ELSE c[1])
      /\ \A k \in 1..m : c[k] \in N
      /\ \A k \in 1..m : nx[c[k]] = IF k = m THEN NULL ELSE c[k + 1]
      /\ \A k \in 1..m : pv[c[k]] = IF k = 1 THEN NULL ELSE c[k - 1]
  BY DEF Linked, Run, Back
<1>2. j \in Nat /\ j # 0 /\ h = c[1] /\ \A k \in 1..j : k \in 1..m
  BY <1>1
<1>3. \A k \in 1..j : nx2[c[k]] = IF k = j THEN NULL ELSE c[k + 1]
  BY <1>1, <1>2
<1>4. QED
  BY <1>1, <1>2, <1>3 DEF Linked, Run, Back

(* The stores that put the first j nodes of list b behind the i-th of list *)
(* c; d are the nodes then.                                                *)
ChainSpliced(N, c, m, i, b, j, nx, pv, nx2, pv2, d) ==
  /\ \A x \in 1..m, y \in 1..j : c[x] # b[y]
  /\ \A x \in N : nx2[x] = IF x = c[i] THEN b[1] ELSE IF x = b[j] THEN c[i + 1] ELSE nx[x]
  /\ \A x \in N : pv2[x] = IF x = b[1] THEN c[i] ELSE IF x = c[i + 1] THEN b[j] ELSE pv[x]
  /\ \A k \in 1..m + j : d[k] = IF k <= i THEN c[k] ELSE IF k <= i + j THEN b[k - i] ELSE c[k - j]

(* They make a list of these nodes. *)
LEMMA SpliceLinked ==
  ASSUME NEW N, NULL \notin N,
         NEW c, NEW m, NEW nx, NEW pv, NEW h, NEW t, Linked(N, c, m, nx, pv, h, t),
         NEW b, NEW n, NEW h2, NEW t2, Linked(N, b, n, nx, pv, h2, t2),
         NEW i \in 1..m - 1, NEW j \in 1..n,
         NEW nx2, NEW pv2, NEW d, ChainSpliced(N, c, m, i, b, j, nx, pv, nx2, pv2, d)
  PROVE  Linked(N, d, m + j, nx2, pv2, h, t)
<1>d. /\ \A x \in 1..m, y \in 1..j : c[x] # b[y]
      /\ \A x \in N : nx2[x] = IF x = c[i] THEN b[1] ELSE IF x = b[j] THEN c[i + 1] ELSE nx[x]
      /\ \A x \in N : pv2[x] = IF x = b[1] THEN c[i] ELSE IF x = c[i + 1] THEN b[j] ELSE pv[x]
      /\ \A k \in 1..m + j : d[k] = IF k <= i THEN c[k] ELSE IF k <= i + j THEN b[k - i] ELSE c[k - j]
  BY DEF ChainSpliced
<1> USE <1>d
<1>1. /\ m \in Nat /\ m # 0 /\ h = c[1] /\ t = c[m]
      /\ \A k \in 1..m : c[k] \in N
      /\ \A k \in 1..m : nx[c[k]] = IF k = m THEN NULL ELSE c[k + 1]
      /\ \A k \in 1..m : pv[c[k]] = IF k = 1 THEN NULL ELSE c[k - 1]
  BY DEF Linked, Run, Back
<1>2. /\ n \in Nat
      /\ \A k \in 1..n : b[k] \in N
      /\ \A k \in 1..n : nx[b[k]] = IF k = n THEN NULL ELSE b[k + 1]
      /\ \A k \in 1..n : pv[b[k]] = IF k = 1 THEN NULL ELSE b[k - 1]
  BY DEF Linked, Run, Back
<1>3. \A k, r \in 1..m : c[k] = c[r] => k = r
  BY RunInjective DEF Linked
<1>4. \A k, r \in 1..n : b[k] = b[r] => k = r
  BY RunInjective DEF Linked
<1>n. /\ i \in Nat /\ i >= 1 /\ i < m /\ j \in Nat /\ j >= 1 /\ j <= n
      /\ i \in 1..m /\ i + 1 \in 1..m /\ j \in 1..n /\ 1 \in 1..n /\ 1 \in 1..j /\ j \in 1..j
  BY <1>1, <1>2
<1>5. \A k \in 1..m + j :
        \/ k <= i /\ k \in 1..m /\ d[k] = c[k]
        \/ k > i /\ k <= i + j /\ k - i \in 1..j /\ k - i \in 1..n /\ d[k] = b[k - i]
        \/ k > i + j /\ k - j \in 1..m /\ k - j > i /\ d[k] = c[k - j]
  BY <1>1, <1>2, <1>n
<1>6. \A k \in 1..m + j : d[k] \in N
  BY <1>1, <1>2, <1>5
<1>7. d[1] = h /\ d[m + j] = t
  <2>1. d[1] = c[1]
    BY <1>1, <1>n
  <2>2. d[m + j] = c[(m + j) - j] /\ (m + j) - j = m
    BY <1>1, <1>n
  <2>3. QED
    BY <1>1, <2>1, <2>2
<1>8. \A k \in 1..m + j : nx2[d[k]] = IF k = m + j THEN NULL ELSE d[k + 1]
  <2> SUFFICES ASSUME NEW k \in 1..m + j
               PROVE  nx2[d[k]] = IF k = m + j THEN NULL ELSE d[k + 1]
    OBVIOUS
  <2>1. CASE k < i
    <3>1. k \in 1..m /\ d[k] = c[k] /\ d[k + 1] = c[k + 1] /\ k # m /\ k # m + j
      BY <1>1, <1>n, <2>1
    <3>2. d[k] # c[i] /\ d[k] # b[j]
      BY <1>3, <1>n, <2>1, <3>1
    <3>3. QED
      BY <1>1, <3>1, <3>2
  <2>2. CASE k = i
    <3>1. d[k] = c[i] /\ d[k + 1] = b[(k + 1) - i] /\ (k + 1) - i = 1 /\ k # m + j
      BY <1>1, <1>n, <2>2
    <3>2. QED
      BY <1>1, <1>n, <3>1
  <2>3. CASE k > i /\ k < i + j
    <3> DEFINE r == k - i
    <3>0. k - i \in 1..j /\ k - i \in 1..n /\ d[k] = b[k - i]
      BY <1>5, <1>n, <2>3
    <3>1. r \in 1..j /\ r \in 1..n /\ r < j /\ d[k] = b[r] /\ k # m + j
      BY <1>1, <1>n, <2>3, <3>0
    <3>2. d[k + 1] = b[(k + 1) - i] /\ (k + 1) - i = r + 1
      BY <1>1, <1>n, <2>3
    <3> HIDE DEF r
    <3>3. d[k] # c[i] /\ d[k] # b[j]
      BY <1>4, <1>n, <3>1
    <3>4. nx[b[r]] = b[r + 1] /\ b[r] \in N
      BY <1>2, <1>n, <3>1
    <3>5. QED
      BY <3>1, <3>2, <3>3, <3>4
  <2>4. CASE k = i + j
    <3>1. d[k] = b[k - i] /\ k - i = j /\ k # m + j
      BY <1>1, <1>n, <2>4
    <3>2. d[k + 1] = c[(k + 1) - j] /\ (k + 1) - j = i + 1
      BY <1>1, <1>n, <2>4
    <3>3. b[j] \in N /\ b[j] # c[i]
      BY <1>2, <1>n
    <3>4. QED
      BY <3>1, <3>2, <3>3
  <2>5. CASE k > i + j
    <3> DEFINE r == k - j
    <3>1. r \in 1..m /\ r > i /\ d[k] = c[r] /\ (k = m + j <=> r = m)
      BY <1>1, <1>n, <2>5
    <3>2. k # m + j => d[k + 1] = c[(k + 1) - j] /\ (k + 1) - j = r + 1
      BY <1>1, <1>n, <2>5
    <3> HIDE DEF r
    <3>3. d[k] # c[i] /\ d[k] # b[j]
      BY <1>3, <1>n, <3>1
    <3>4. nx[c[r]] = (IF r = m THEN NULL ELSE c[r + 1]) /\ c[r] \in N
      BY <1>1, <3>1
    <3>5. nx2[d[k]] = IF r = m THEN NULL ELSE c[r + 1]
      BY <3>1, <3>3, <3>4
    <3>6. QED
      BY <3>1, <3>2, <3>5
  <2>6. QED
    BY <1>1, <1>n, <2>1, <2>2, <2>3, <2>4, <2>5
<1>9. \A k \in 1..m + j : pv2[d[k]] = IF k = 1 THEN NULL ELSE d[k - 1]
  <2> SUFFICES ASSUME NEW k \in 1..m + j
               PROVE  pv2[d[k]] = IF k = 1 THEN NULL ELSE d[k - 1]
    OBVIOUS
  <2>1. CASE k <= i
    <3>1. k \in 1..m /\ d[k] = c[k] /\ (k # 1 => d[k - 1] = c[k - 1])
      BY <1>1, <1>n, <2>1
    <3>2. d[k] # b[1] /\ d[k] # c[i + 1]
      BY <1>3, <1>n, <2>1, <3>1
    <3>3. QED
      BY <1>1, <3>1, <3>2
  <2>2. CASE k = i + 1
    <3>1. d[k] = b[k - i] /\ k - i = 1 /\ d[k - 1] = c[k - 1] /\ k - 1 = i /\ k # 1
      BY <1>1, <1>n, <2>2
    <3>2. b[1] \in N
      BY <1>2, <1>n
    <3>3. QED
      BY <3>1, <3>2
  <2>3. CASE k > i + 1 /\ k <= i + j
    <3> DEFINE r == k - i
    <3>0. k - i \in 1..j /\ k - i \in 1..n /\ d[k] = b[k - i]
      BY <1>5, <1>n, <2>3
    <3>1. r \in 1..j /\ r \in 1..n /\ r > 1 /\ d[k] = b[r] /\ k # 1
      BY <1>1, <1>n, <2>3, <3>0
    <3>2. d[k - 1] = b[(k - 1) - i] /\ (k - 1) - i = r - 1
      BY <1>1, <1>n, <2>3
    <3> HIDE DEF r
    <3>3. d[k] # b[1] /\ d[k] # c[i + 1]
      BY <1>4, <1>n, <3>1
    <3>4. pv[b[r]] = b[r - 1] /\ b[r] \in N
      BY <1>2, <3>1
    <3>5. QED
      BY <3>1, <3>2, <3>3, <3>4
  <2>4. CASE k = i + j + 1
    <3>1. d[k] = c[k - j] /\ k - j = i + 1 /\ k # 1
      BY <1>1, <1>n, <2>4
    <3>2. d[k - 1] = b[(k - 1) - i] /\ (k - 1) - i = j
      BY <1>1, <1>n, <2>4
    <3>3. c[i + 1] \in N /\ c[i + 1] # b[1]
      BY <1>1, <1>n
    <3>4. QED
      BY <3>1, <3>2, <3>3
  <2>5. CASE k > i + j + 1
    <3> DEFINE r == k - j
    <3>1. r \in 1..m /\ r > i + 1 /\ d[k] = c[r] /\ k # 1 /\ r # 1
      BY <1>1, <1>n, <2>5
    <3>2. d[k - 1] = c[(k - 1) - j] /\ (k - 1) - j = r - 1
      BY <1>1, <1>n, <2>5
    <3> HIDE DEF r
    <3>3. d[k] # b[1] /\ d[k] # c[i + 1]
      BY <1>3, <1>n, <3>1
    <3>4. pv[c[r]] = c[r - 1] /\ c[r] \in N
      BY <1>1, <3>1
    <3>5. QED
      BY <3>1, <3>2, <3>3, <3>4
  <2>6. QED
    BY <1>1, <1>n, <2>1, <2>2, <2>3, <2>4, <2>5
<1>10. m + j \in Nat /\ m + j # 0
  BY <1>1, <1>n
<1>11. QED
  BY <1>1, <1>6, <1>7, <1>8, <1>9, <1>10 DEF Linked, Run, Back

-------------------------------------------------------------------------------
(* A ring: a list of which the ends are tied together.  Open unties one.   *)
Open(N, f, e) == [x \in N |-> IF x = e THEN NULL ELSE f[x]]

Ringed(N, c, m, nx, pv, h, t) ==
  /\ Linked(N, c, m, Open(N, nx, t), Open(N, pv, h), h, t)
  /\ m # 0 => nx[t] = h /\ pv[h] = t

(* The pointers of a ring. *)
LEMMA RingIs ==
  ASSUME NEW N, NULL \notin N, NEW c, NEW m, NEW nx, NEW pv, NEW h, NEW t,
         Ringed(N, c, m, nx, pv, h, t)
  PROVE  /\ m \in Nat /\ \A i \in 1..m : c[i] \in N /\ c[i] # NULL
         /\ \A i, j \in 1..m : c[i] = c[j] => i = j
         /\ h = (IF m = 0 THEN NULL ELSE c[1]) /\ t = (IF m = 0 THEN NULL ELSE c[m])
         /\ \A i \in 1..m : nx[c[i]] = IF i = m THEN c[1] ELSE c[i + 1]
         /\ \A i \in 1..m : pv[c[i]] = IF i = 1 THEN c[m] ELSE c[i - 1]
<1> DEFINE nx0 == Open(N, nx, t)
           pv0 == Open(N, pv, h)
<1>1. Linked(N, c, m, nx0, pv0, h, t) /\ (m # 0 => nx[t] = h /\ pv[h] = t)
  BY DEF Ringed
<1>2. /\ \A x \in N : nx0[x] = IF x = t THEN NULL ELSE nx[x]
      /\ \A x \in N : pv0[x] = IF x = h THEN NULL ELSE pv[x]
  BY DEF Open
<1> HIDE DEF nx0, pv0
<1>3. \A i, j \in 1..m : c[i] = c[j] => i = j
  BY <1>1, RunInjective DEF Linked
<1>4. /\ m \in Nat /\ h = (IF m = 0 THEN NULL ELSE c[1]) /\ t = (IF m = 0 THEN NULL ELSE c[m])
      /\ \A i \in 1..m : c[i] \in N /\ c[i] # NULL
      /\ \A i \in 1..m : nx0[c[i]] = IF i = m THEN NULL ELSE c[i + 1]
      /\ \A i \in 1..m : pv0[c[i]] = IF i = 1 THEN NULL ELSE c[i - 1]
  BY <1>1 DEF Linked, Run, Back
<1>5. \A i \in 1..m : nx[c[i]] = IF i = m THEN c[1] ELSE c[i + 1]
  <2> SUFFICES ASSUME NEW i \in 1..m PROVE nx[c[i]] = IF i = m THEN c[1] ELSE c[i + 1]
    OBVIOUS
  <2>1. m # 0 /\ m \in 1..m
    BY <1>4
  <2>2. CASE i = m
    BY <1>1, <1>4, <2>1, <2>2
  <2>3. CASE i # m
    <3>1. c[i] # t
      BY <1>3, <1>4, <2>1, <2>3
    <3>2. QED
      BY <1>2, <1>4, <2>3, <3>1
  <2>4. QED
    BY <2>2, <2>3
<1>6. \A i \in 1..m : pv[c[i]] = IF i = 1 THEN c[m] ELSE c[i - 1]
  <2> SUFFICES ASSUME NEW i \in 1..m PROVE pv[c[i]] = IF i = 1 THEN c[m] ELSE c[i - 1]
    OBVIOUS
  <2>1. m # 0 /\ 1 \in 1..m
    BY <1>4
  <2>2. CASE i = 1
    BY <1>1, <1>4, <2>1, <2>2
  <2>3. CASE i # 1
    <3>1. c[i] # h
      BY <1>3, <1>4, <2>1, <2>3
    <3>2. QED
      BY <1>2, <1>4, <2>3, <3>1
  <2>4. QED
    BY <2>2, <2>3
<1>7. QED
  BY <1>3, <1>4, <1>5, <1>6

(* Stores into other nodes do not disturb a ring. *)
LEMMA OthersRinged ==
  ASSUME NEW N, NULL \notin N, NEW c, NEW m, NEW nx, NEW pv, NEW h, NEW t,
         Ringed(N, c, m, nx, pv, h, t), NEW nx2, NEW pv2,
         \A i \in 1..m : nx2[c[i]] = nx[c[i]] /\ pv2[c[i]] = pv[c[i]]
  PROVE  Ringed(N, c, m, nx2, pv2, h, t)
<1> DEFINE nx0 == Open(N, nx, t)
           pv0 == Open(N, pv, h)
           nx3 == Open(N, nx2, t)
           pv3 == Open(N, pv2, h)
<1>1. Linked(N, c, m, nx0, pv0, h, t) /\ (m # 0 => nx[t] = h /\ pv[h] = t)
  BY DEF Ringed
<1>2. /\ m \in Nat /\ h = (IF m = 0 THEN NULL ELSE c[1]) /\ t = (IF m = 0 THEN NULL ELSE c[m])
      /\ \A i \in 1..m : c[i] \in N
  BY RingIs
<1>3. \A i \in 1..m : nx3[c[i]] = nx0[c[i]] /\ pv3[c[i]] = pv0[c[i]]
  BY <1>2 DEF Open
<1> HIDE DEF nx0, pv0, nx3, pv3
<1>4. Linked(N, c, m, nx3, pv3, h, t)
  BY <1>1, <1>3, OthersLinked
<1>5. m # 0 => nx2[t] = h /\ pv2[h] = t
  BY <1>1, <1>2
<1>6. QED
  BY <1>4, <1>5 DEF Ringed, nx3, pv3

(* A node put behind the last: first and last are what the ends are then. *)
LEMMA RingPut ==
  ASSUME NEW N, NULL \notin N, NEW c, NEW m, NEW nx, NEW pv, NEW h, NEW t,
         Ringed(N, c, m, nx, pv, h, t),
         NEW n \in N, \A i \in 1..m : c[i] # n,
         NEW first, first = IF h = NULL THEN n ELSE h,
         NEW last, last = IF h = NULL THEN n ELSE t,
         NEW nx2, \A x \in N : nx2[x] = IF x = n THEN first ELSE IF x = last THEN n ELSE nx[x],
         NEW pv2, \A x \in N : pv2[x] = IF x = n THEN last ELSE IF x = first THEN n ELSE pv[x],
         NEW d, \A k \in 1..m + 1 : d[k] = IF k <= m THEN c[k] ELSE n
  PROVE  Ringed(N, d, m + 1, nx2, pv2, first, n)
<1> DEFINE nx0 == Open(N, nx, t)
           pv0 == Open(N, pv, h)
           nx3 == Open(N, nx2, n)
           pv3 == Open(N, pv2, first)
<1>1. Linked(N, c, m, nx0, pv0, h, t)
  BY DEF Ringed
<1>2. /\ m \in Nat /\ h = (IF m = 0 THEN NULL ELSE c[1]) /\ t = (IF m = 0 THEN NULL ELSE c[m])
      /\ \A i \in 1..m : c[i] \in N /\ c[i] # NULL
  BY RingIs
<1>3. /\ h = NULL => m = 0 /\ t = NULL /\ first = n /\ last = n
      /\ h # NULL => m # 0 /\ h \in N /\ t \in N /\ first = h /\ last = t /\ h # n /\ t # n
  BY <1>2
<1>4. Before(c, m) = t /\ Behind(c, m, m) = NULL /\ n # NULL
  BY <1>2 DEF Before, Behind
<1>5. \A x \in N : nx3[x] = IF x = n THEN NULL ELSE IF x = t THEN n ELSE nx0[x]
  BY <1>3 DEF Open
<1>6. \A x \in N : pv3[x] = IF x = n THEN t ELSE IF x = NULL THEN n ELSE pv0[x]
  BY <1>3 DEF Open
<1>7. \A k \in 1..m + 1 : d[k] = IF k <= m THEN c[k] ELSE IF k = m + 1 THEN n ELSE c[k - 1]
  BY <1>2
<1> HIDE DEF nx0, pv0, nx3, pv3
<1>8. Inserted(N, c, m, m, n, nx0, pv0, h, t, nx3, pv3, first, n, d)
  <2>1. first = (IF t = NULL THEN n ELSE h) /\ n = IF NULL = NULL THEN n ELSE t
    BY <1>3
  <2>2. m \in Nat /\ m <= m
    BY <1>2
  <2>3. QED
    BY <1>4, <1>5, <1>6, <1>7, <2>1, <2>2 DEF Inserted
<1>9. Linked(N, d, m + 1, nx3, pv3, first, n)
  BY <1>1, <1>8, InsertLinked
<1>10. nx2[n] = first /\ pv2[first] = n
  BY <1>3
<1>11. QED
  BY <1>9, <1>10 DEF Ringed, nx3, pv3

(* The first node taken out of a ring of more than one. *)
LEMMA RingTake ==
  ASSUME NEW N, NULL \notin N, NEW c, NEW m, NEW nx, NEW pv, NEW h, NEW t,
         Ringed(N, c, m, nx, pv, h, t), m >= 2,
         NEW nx2, \A x \in N : nx2[x] = IF x = h THEN NULL ELSE IF x = t THEN nx[h] ELSE nx[x],
         NEW pv2, \A x \in N : pv2[x] = IF x = h THEN NULL ELSE IF x = nx[h] THEN t ELSE pv[x],
         NEW d, \A k \in 1..m - 1 : d[k] = c[k + 1]
  PROVE  Ringed(N, d, m - 1, nx2, pv2, nx[h], t)
<1> DEFINE q == nx[h]
           nx0 == Open(N, nx, t)
           pv0 == Open(N, pv, h)
           nx3 == Open(N, nx2, t)
           pv3 == Open(N, pv2, q)
<1>1. Linked(N, c, m, nx0, pv0, h, t)
  BY DEF Ringed
<1>2. /\ m \in Nat /\ h = c[1] /\ t = c[m] /\ 1 \in 1..m /\ 2 \in 1..m /\ m \in 1..m
      /\ \A i \in 1..m : c[i] \in N /\ c[i] # NULL
      /\ \A i, j \in 1..m : c[i] = c[j] => i = j
      /\ \A i \in 1..m : nx[c[i]] = IF i = m THEN c[1] ELSE c[i + 1]
  BY RingIs
<1>3. q = c[2] /\ h # t /\ q # h /\ h \in N /\ t \in N /\ q \in N
  BY <1>2
<1>4. Before(c, 1 - 1) = NULL /\ Behind(c, m, 1) = q
  BY <1>2, <1>3 DEF Before, Behind
<1>5. \A x \in N : nx3[x] = IF x = h THEN NULL ELSE IF x = NULL THEN q ELSE nx0[x]
  BY <1>3 DEF Open
<1>6. \A x \in N : pv3[x] = IF x = h THEN NULL ELSE IF x = q THEN NULL ELSE pv0[x]
  BY <1>3 DEF Open
<1>7. \A k \in 1..m - 1 : d[k] = IF k < 1 THEN c[k] ELSE c[k + 1]
  BY <1>2
<1>8. nx2[t] = q /\ pv2[q] = t
  BY <1>3
<1> HIDE DEF q, nx0, pv0, nx3, pv3
<1>9. ChainRemoved(N, c, m, 1, nx0, pv0, h, t, nx3, pv3, q, t, d)
  <2>1. 1 \in Nat /\ 1 <= 1 /\ 1 <= m /\ c[1] = h /\ q # NULL
    BY <1>2, <1>3
  <2>2. QED
    BY <1>4, <1>5, <1>6, <1>7, <2>1 DEF ChainRemoved
<1>10. Linked(N, d, m - 1, nx3, pv3, q, t)
  BY <1>1, <1>9, UnlinkLinked
<1>11. QED
  BY <1>8, <1>10 DEF Ringed, nx3, pv3, q

(* A walk of at least as many steps goes round a ring, once at first. *)
LEMMA WalkOfRing ==
  ASSUME NEW N, NULL \notin N, NEW c, NEW m, NEW nx, NEW pv, NEW h, NEW t,
         Ringed(N, c, m, nx, pv, h, t), NEW n \in Nat, m <= n
  PROVE  Shows(SubSeq(Walk(nx, h, n), 1, m), c, m)
<1> DEFINE at == Steps(nx, h, n)
           ends == Ends(nx, h, n)
           w == Walk(nx, h, n)
<1>1. /\ m \in Nat /\ \A i \in 1..m : c[i] \in N /\ c[i] # NULL
      /\ h = (IF m = 0 THEN NULL ELSE c[1])
      /\ \A i \in 1..m : nx[c[i]] = IF i = m THEN c[1] ELSE c[i + 1]
  BY RingIs
<1>2. \A i \in 0..n :
        at[i] = IF i = 0 THEN h ELSE IF at[i - 1] = NULL THEN NULL ELSE nx[at[i - 1]]
  BY StepsExist DEF IsSteps
<1>3. w = [i \in 1..(IF ends = {} THEN n + 1 ELSE Min(ends)) |-> at[i - 1]]
  <2>1. IsWalk(Walk(nx, h, n), nx, h, n)
    BY WalkIsSteps
  <2>2. QED
    BY <2>1, Zenon DEF IsWalk
<1>4. ends = {i \in 0..n : at[i] = NULL}
  BY DEF Ends
<1>s. SubSeq(w, 1, m) = [i \in 1..m |-> w[i]]
  BY <1>1
<1> HIDE DEF at, ends, w
<1>5. CASE m = 0
  <2>1. SubSeq(w, 1, m) = [i \in 1..m |-> c[i]]
    BY <1>s, <1>5
  <2>2. QED
    BY <2>1 DEF Shows, w
<1>6. CASE m # 0
  <2>1. \A i \in 0..n : \E k \in 1..m : at[i] = c[k]
    <3> DEFINE T == {i \in 0..n : ~\E k \in 1..m : at[i] = c[k]}
    <3>1. SUFFICES ASSUME T # {} PROVE FALSE
      OBVIOUS
    <3>2. T \in SUBSET Nat
      OBVIOUS
    <3>3. PICK i \in T : \A j \in T : i <= j
      BY <3>1, <3>2, LeastNumber
    <3>4. i \in 0..n /\ ~\E k \in 1..m : at[i] = c[k]
      BY <3>3
    <3>5. i # 0
      BY <1>1, <1>2, <1>6, <3>4
    <3>6. i - 1 \in 0..n /\ i - 1 \notin T
      BY <3>3, <3>4, <3>5
    <3>7. PICK k \in 1..m : at[i - 1] = c[k]
      BY <3>6
    <3>8. at[i] = nx[c[k]]
      BY <1>1, <1>2, <3>4, <3>5, <3>7
    <3>9. 1 \in 1..m /\ (k # m => k + 1 \in 1..m)
      BY <1>1, <1>6
    <3>10. QED
      BY <1>1, <3>4, <3>8, <3>9
  <2>2. ends = {}
    BY <1>1, <1>4, <2>1
  <2>3. \A i \in 0..m - 1 : at[i] = c[i + 1]
    <3> DEFINE T == {i \in 0..m - 1 : at[i] # c[i + 1]}
    <3>1. SUFFICES ASSUME T # {} PROVE FALSE
      OBVIOUS
    <3>2. T \in SUBSET Nat
      OBVIOUS
    <3>3. PICK i \in T : \A j \in T : i <= j
      BY <3>1, <3>2, LeastNumber
    <3>4. i \in 0..m - 1 /\ at[i] # c[i + 1] /\ i \in 0..n
      BY <1>1, <3>3
    <3>5. i # 0
      BY <1>1, <1>2, <1>6, <3>4
    <3>6. i - 1 \in 0..m - 1 /\ i - 1 \notin T /\ (i - 1) + 1 = i
      BY <1>1, <3>3, <3>4, <3>5
    <3>7. at[i - 1] = c[i]
      BY <3>6
    <3>8. i \in 1..m /\ i # m
      BY <1>1, <3>4, <3>5
    <3>9. at[i] = nx[c[i]]
      BY <1>1, <1>2, <3>4, <3>5, <3>7, <3>8
    <3>10. QED
      BY <1>1, <3>4, <3>8, <3>9
  <2>4. w = [i \in 1..n + 1 |-> at[i - 1]]
    BY <1>3, <2>2
  <2>5. \A i \in 1..m : i \in 1..n + 1 /\ i - 1 \in 0..m - 1 /\ (i - 1) + 1 = i
    BY <1>1, m <= n
  <2>6. \A i \in 1..m : w[i] = c[i]
    BY <2>3, <2>4, <2>5
  <2>7. SubSeq(w, 1, m) = [i \in 1..m |-> c[i]]
    BY <1>s, <2>6
  <2>8. QED
    BY <2>7 DEF Shows, w
<1>7. QED
  BY <1>5, <1>6
===============================================================================
