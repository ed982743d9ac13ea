----------------------------- MODULE HashmapProofs -----------------------------
(***************************************************************************)
(* Proofs about Hashmap: for every set of keys, hash function, load        *)
(* factor and heap, no key is stored twice, the count is right and within  *)
(* the maximal load, no node is freed twice or lost but by a resize that   *)
(* failed half way, and foreach visits every entry once.                   *)
(*                                                                         *)
(* The invariant adds that every entry is in the slot its hash selects     *)
(* and that the hash is the one of the bytes its key leads to, as long as  *)
(* the caller wrote to no stored key: only then a search in one slot can   *)
(* tell that a key is on no other.                                         *)
(***************************************************************************)
EXTENDS Hashmap, SequenceLemmas

(* The entries e and f differ, as pointer and hash and as bytes. *)
Apart(e, f, ct, sp) == Id(e) # Id(f) /\ (sp \/ ct[e.key] # ct[f.key])

(* The hash of e is still that of its bytes. *)
Current(e, ct, sp) == sp \/ e.hash = Hash[ct[e.key]]

Table(t, c) == c \in Nat /\ DOMAIN t = 0..c - 1 /\ \A i \in 0..c - 1 : t[i] \in Seq(Entry)

(* The table t of capacity c, for the bytes ct of the keys. *)
Good(t, c, ct, sp) ==
  /\ Table(t, c)
  /\ \A i \in 0..c - 1 : \A p \in 1..Len(t[i]) :
       t[i][p].hash % c = i /\ Current(t[i][p], ct, sp)
  /\ \A i, j \in 0..c - 1 : \A p \in 1..Len(t[i]), q \in 1..Len(t[j]) :
       i # j \/ p # q => Apart(t[i][p], t[j][q], ct, sp)

(* A running foreach: what is due is behind the entry it visits, what was  *)
(* seen is not.                                                            *)
Later(lp, i, p) == i > lp.slot \/ (i = lp.slot /\ p > lp.pos)

Visiting(lp, t, c) ==
  /\ lp.slot \in 0..c - 1 /\ lp.pos \in 1..Len(t[lp.slot])
  /\ \A d \in lp.due : \E i \in 0..c - 1 : \E p \in 1..Len(t[i]) :
       d = Id(t[i][p]) /\ Later(lp, i, p)
  /\ \A d \in lp.seen : \E i \in 0..c - 1 : \E p \in 1..Len(t[i]) :
       d = Id(t[i][p]) /\ ~Later(lp, i, p)

Flags == /\ exists \in BOOLEAN /\ spoiled \in BOOLEAN /\ starved \in BOOLEAN
         /\ content \in [Keys -> Contents]

(* n is the number of entries of table t, and h that of its nodes, or more *)
(* when a resize failed half way.                                          *)
Held(t, c, ct, sp, n, h, st) ==
  /\ Good(t, c, ct, sp)
  /\ n = Cardinality(PlacesFrom(t, 1))
  /\ h \in 0..HeapNodes /\ h >= Chained(t) /\ (st \/ h = Chained(t))

Finished == << <<"foreach">>, TRUE>>

(* The inductive invariant. *)
IInv ==
  /\ Flags
  /\ Held(slots, capacity, content, spoiled, count, heapNodes, starved)
  /\ ~exists => capacity = 0
  /\ exists => capacity >= MinCapacity /\ count <= MaxLoad(capacity)
  /\ loop.on \in BOOLEAN
  /\ loop.on => exists /\ Visiting(loop, slots, capacity) /\ ret # Finished

-------------------------------------------------------------------------------
(* Tables and how many places they have. *)

(* Hashes and capacities are natural numbers. *)
LEMMA HashFacts ==
  /\ \A x \in Contents : Hash[x] \in Nat /\ Hash[x] \in Range(Hash)
  /\ Range(Hash) \subseteq Nat
  /\ \A e \in Entry : e.key \in Keys /\ e.hash \in Nat
  /\ MinCapacity \in Nat /\ MinCapacity # 0
<1>1. Hash \in [Contents -> Nat]
  BY HashmapAssumption
<1>2. (\A x \in Contents : Hash[x] \in Nat /\ Hash[x] \in Range(Hash)) /\ Range(Hash) \subseteq Nat
  BY <1>1 DEF Range
<1>3. \A e \in Entry : e.key \in Keys /\ e.hash \in Nat
  BY <1>2 DEF Entry
<1>4. MinCapacity \in Nat /\ MinCapacity # 0
  <2>1. MinCapacity \in Nat /\ LoadFactor \in Nat /\ MinCapacity * LoadFactor >= 100
    BY HashmapAssumption
  <2>2. CASE MinCapacity = 0
    BY <2>1, <2>2
  <2>3. QED
    BY <2>1, <2>2
<1>5. QED
  BY <1>2, <1>3, <1>4

(* One slot of a table. *)
LEMMA SlotFacts ==
  ASSUME NEW t, NEW c, Table(t, c), NEW i \in 0..c - 1
  PROVE  /\ t[i] \in Seq(Entry) /\ Len(t[i]) \in Nat /\ DOMAIN t[i] = 1..Len(t[i])
         /\ \A p \in 1..Len(t[i]) : t[i][p] \in Entry
<1>1. t[i] \in Seq(Entry)
  BY DEF Table
<1>2. Len(t[i]) \in Nat /\ DOMAIN t[i] = 1..Len(t[i])
  BY <1>1, LenProperties
<1>3. \A p \in 1..Len(t[i]) : t[i][p] \in Entry
  BY <1>1, ElementOfSeq
<1>4. QED
  BY <1>1, <1>2, <1>3

ArePlaces(P, t, c, n) ==
  \A x : x \in P <=> \E i \in 0..c - 1 : \E p \in n..Len(t[i]) : x = <<i, p>>

(* The places of a table, one by one. *)
LEMMA PlacesAre ==
  ASSUME NEW t, NEW c, Table(t, c), NEW n \in Nat
  PROVE  /\ ArePlaces(PlacesFrom(t, n), t, c, n)
         /\ IsFiniteSet(PlacesFrom(t, n)) /\ Cardinality(PlacesFrom(t, n)) \in Nat
<1>1. DOMAIN t = 0..c - 1 /\ c \in Nat
  BY DEF Table
<1> DEFINE row(i) == {<<i, p>> : p \in n..Len(t[i])}
           f == [i \in 0..c - 1 |-> row(i)]
           R == {row(i) : i \in 0..c - 1}
<1>2. PlacesFrom(t, n) = UNION R
  BY <1>1 DEF PlacesFrom
<1>3. \A x : x \in PlacesFrom(t, n) <=> \E i \in 0..c - 1 : \E p \in n..Len(t[i]) : x = <<i, p>>
  BY <1>2
<1>4. \A i \in 0..c - 1 : IsFiniteSet(row(i))
  <2> SUFFICES ASSUME NEW i \in 0..c - 1 PROVE IsFiniteSet(row(i))
    OBVIOUS
  <2>1. IsFiniteSet(n..Len(t[i]))
    <3>1. Len(t[i]) \in Nat
      BY SlotFacts
    <3>2. QED
      BY <3>1, FS_Interval
  <2> DEFINE g == [p \in n..Len(t[i]) |-> <<i, p>>]
  <2>2. g \in Surjection(n..Len(t[i]), row(i))
    BY DEF Surjection
  <2>3. QED
    BY <2>1, <2>2, FS_Surjection
<1>5. IsFiniteSet(R)
  <2>1. f \in Surjection(0..c - 1, R)
    <3>1. f \in [0..c - 1 -> R] /\ \A r \in R : \E i \in 0..c - 1 : f[i] = r
      OBVIOUS
    <3> HIDE DEF f, R
    <3>2. QED
      BY <3>1 DEF Surjection
  <2>2. IsFiniteSet(0..c - 1)
    BY <1>1, FS_Interval
  <2>3. QED
    BY <2>1, <2>2, FS_Surjection
<1>6. \A r \in R : IsFiniteSet(r)
  BY <1>4
<1>7. IsFiniteSet(UNION R)
  BY <1>5, <1>6, FS_UNION
<1>8. QED
  BY <1>2, <1>3, <1>7, FS_CardinalityType DEF ArePlaces

(* A table whose slots are as long has as many places. *)
LEMMA SamePlaces ==
  ASSUME NEW t, NEW c, Table(t, c), NEW u, Table(u, c), NEW n \in Nat,
         \A i \in 0..c - 1 : Len(u[i]) = Len(t[i])
  PROVE  PlacesFrom(u, n) = PlacesFrom(t, n)
<1>1. DOMAIN t = 0..c - 1 /\ DOMAIN u = 0..c - 1
  BY DEF Table
<1>2. QED
  BY <1>1 DEF PlacesFrom

(* A slot one longer is one place more, if it is counted. *)
LEMMA OneMorePlace ==
  ASSUME NEW t, NEW c, Table(t, c), NEW u, Table(u, c), NEW i \in 0..c - 1,
         Len(u[i]) = Len(t[i]) + 1, \A j \in 0..c - 1 : j # i => Len(u[j]) = Len(t[j]),
         NEW n \in Nat
  PROVE  Cardinality(PlacesFrom(u, n)) =
           Cardinality(PlacesFrom(t, n)) + (IF Len(u[i]) >= n THEN 1 ELSE 0)
<1> DEFINE P == PlacesFrom(t, n)
           U == PlacesFrom(u, n)
           y == <<i, Len(u[i])>>
<1>1. /\ \A x : x \in P <=> \E j \in 0..c - 1 : \E p \in n..Len(t[j]) : x = <<j, p>>
      /\ \A x : x \in U <=> \E j \in 0..c - 1 : \E p \in n..Len(u[j]) : x = <<j, p>>
      /\ IsFiniteSet(P) /\ Cardinality(P) \in Nat
  <2>1. ArePlaces(P, t, c, n) /\ ArePlaces(U, u, c, n) /\ IsFiniteSet(P) /\ Cardinality(P) \in Nat
    BY PlacesAre
  <2>2. QED
    BY <2>1 DEF ArePlaces
<1>2. \A j \in 0..c - 1 : Len(t[j]) \in Nat
  BY SlotFacts
<1> HIDE DEF P, U
<1>3. y \notin P
  <2> SUFFICES ASSUME NEW j \in 0..c - 1, NEW p \in n..Len(t[j]), y = <<j, p>> PROVE FALSE
    BY <1>1
  <2>1. j = i /\ p = Len(t[i]) + 1
    OBVIOUS
  <2>2. QED
    BY <1>2, <2>1
<1>4. CASE Len(u[i]) >= n
  <2>1. U = P \cup {y}
    <3>1. \A x \in P : x \in U
      <4> SUFFICES ASSUME NEW j \in 0..c - 1, NEW p \in n..Len(t[j]) PROVE <<j, p>> \in U
        BY <1>1
      <4>1. p \in n..Len(u[j])
        BY <1>2
      <4>2. QED
        BY <1>1, <4>1
    <3>2. y \in U
      <4>1. Len(u[i]) \in n..Len(u[i])
        BY <1>2, <1>4
      <4>2. QED
        BY <1>1, <4>1
    <3>3. \A x \in U : x \in P \cup {y}
      <4> SUFFICES ASSUME NEW j \in 0..c - 1, NEW p \in n..Len(u[j]) PROVE <<j, p>> \in P \cup {y}
        BY <1>1
      <4>1. p \in n..Len(t[j]) \/ (j = i /\ p = Len(u[i]))
        BY <1>2
      <4>2. QED
        BY <1>1, <4>1
    <3>4. QED
      BY <3>1, <3>2, <3>3
  <2>2. Cardinality(U) = Cardinality(P) + 1
    BY <1>1, <1>3, <2>1, FS_AddElement
  <2>3. QED
    BY <1>4, <2>2 DEF P, U
<1>5. CASE ~(Len(u[i]) >= n)
  <2>1. \A j \in 0..c - 1 : n..Len(u[j]) = n..Len(t[j])
    BY <1>2, <1>5
  <2>2. U = P
    BY <1>1, <2>1
  <2>3. QED
    BY <1>1, <1>5, <2>2 DEF P, U
<1>6. QED
  BY <1>4, <1>5

(* The slots with an entry. *)
Occupied(t, c) == {i \in 0..c - 1 : Len(t[i]) # 0}

(* Every entry is the one in place of its slot or a node behind it. *)
LEMMA FirstsAndNodes ==
  ASSUME NEW t, NEW c, Table(t, c)
  PROVE  /\ IsFiniteSet(Occupied(t, c)) /\ Cardinality(Occupied(t, c)) \in Nat
         /\ Cardinality(PlacesFrom(t, 1)) = Chained(t) + Cardinality(Occupied(t, c))
         /\ Chained(t) \in Nat
<1> DEFINE P == PlacesFrom(t, 1)
           N == PlacesFrom(t, 2)
           O == Occupied(t, c)
           F == {<<i, 1>> : i \in O}
<1>1. ArePlaces(P, t, c, 1) /\ ArePlaces(N, t, c, 2)
      /\ IsFiniteSet(P) /\ IsFiniteSet(N) /\ Cardinality(N) \in Nat
  BY PlacesAre
<1>2. IsFiniteSet(O) /\ Cardinality(O) \in Nat
  <2>1. IsFiniteSet(0..c - 1)
    BY FS_Interval DEF Table
  <2>2. O \in SUBSET (0..c - 1)
    BY DEF Occupied
  <2>3. QED
    BY <2>1, <2>2, FS_Subset, FS_CardinalityType
<1>3. \A i \in 0..c - 1 : Len(t[i]) \in Nat
  BY SlotFacts
<1>4. \A i : i \in O <=> i \in 0..c - 1 /\ Len(t[i]) # 0
  BY DEF Occupied
<1> HIDE DEF O, P, N
<1>5. IsFiniteSet(F) /\ Cardinality(F) = Cardinality(O)
  <2> DEFINE f == [i \in O |-> <<i, 1>>]
  <2>1. f \in [O -> F] /\ (\A i, j \in O : f[i] = f[j] => i = j) /\ \A x \in F : \E i \in O : f[i] = x
    OBVIOUS
  <2> HIDE DEF f, F
  <2>2. f \in Bijection(O, F)
    BY <2>1, Fun_IsBij
  <2>3. ExistsBijection(O, F)
    BY <2>2 DEF ExistsBijection
  <2>4. QED
    BY <1>2, <2>3, FS_Bijection
<1>6. P = N \cup F
  <2>1. \A x : x \in P <=> x \in N \/ x \in F
    <3> SUFFICES ASSUME NEW x PROVE x \in P <=> x \in N \/ x \in F
      OBVIOUS
    <3>1. ASSUME x \in P PROVE x \in N \/ x \in F
      <4>0. PICK i \in 0..c - 1 : \E p \in 1..Len(t[i]) : x = <<i, p>>
        BY <1>1, <3>1 DEF ArePlaces
      <4>1. PICK p \in 1..Len(t[i]) : x = <<i, p>>
        BY <4>0
      <4>2. CASE p = 1
        <5>1. Len(t[i]) # 0
          BY <1>3
        <5>2. QED
          BY <1>4, <4>1, <4>2, <5>1
      <4>3. CASE p # 1
        <5>1. p \in 2..Len(t[i])
          BY <1>3, <4>3
        <5>2. QED
          BY <1>1, <4>1, <5>1 DEF ArePlaces
      <4>4. QED
        BY <4>2, <4>3
    <3>2. ASSUME x \in N PROVE x \in P
      <4>0. PICK i \in 0..c - 1 : \E p \in 2..Len(t[i]) : x = <<i, p>>
        BY <1>1, <3>2 DEF ArePlaces
      <4>1. PICK p \in 2..Len(t[i]) : x = <<i, p>>
        BY <4>0
      <4>2. p \in 1..Len(t[i])
        BY <1>3
      <4>3. QED
        BY <1>1, <4>1, <4>2 DEF ArePlaces
    <3>3. ASSUME x \in F PROVE x \in P
      <4>1. PICK i \in O : x = <<i, 1>>
        BY <3>3
      <4>2. i \in 0..c - 1 /\ 1 \in 1..Len(t[i])
        BY <1>3, <1>4
      <4>3. QED
        BY <1>1, <4>1, <4>2 DEF ArePlaces
    <3>4. QED
      BY <3>1, <3>2, <3>3
  <2>2. QED
    BY <2>1
<1>7. N \cap F = {}
  <2> SUFFICES ASSUME NEW x \in N, x \in F PROVE FALSE
    OBVIOUS
  <2>0. PICK i \in 0..c - 1 : \E p \in 2..Len(t[i]) : x = <<i, p>>
    BY <1>1 DEF ArePlaces
  <2>1. PICK p \in 2..Len(t[i]) : x = <<i, p>>
    BY <2>0
  <2>2. PICK j \in O : x = <<j, 1>>
    OBVIOUS
  <2>3. p = 1 /\ p # 1
    BY <1>3, <2>1, <2>2
  <2>4. QED
    BY <2>3
<1>8. Cardinality(P) = Cardinality(N) + Cardinality(F) - Cardinality({})
  BY <1>1, <1>5, <1>6, <1>7, FS_Union
<1>9. Cardinality({}) = 0
  BY FS_EmptySet
<1>10. Cardinality(P) = Cardinality(N) + Cardinality(O)
  BY <1>1, <1>2, <1>5, <1>8, <1>9
<1>11. QED
  BY <1>1, <1>2, <1>10 DEF Chained, P, N, O

(* The table u is t with entry e behind those of slot i. *)
Appended(u, t, c, i, e) ==
  /\ DOMAIN u = 0..c - 1 /\ u[i] = Append(t[i], e)
  /\ \A j \in 0..c - 1 : j # i => u[j] = t[j]

(* The entries of u are those of t, each in its place, and e. *)
OneLonger(u, t, c, i, e) ==
  /\ Table(u, c) /\ Len(u[i]) = Len(t[i]) + 1 /\ Len(t[i]) \in Nat
  /\ u[i][Len(t[i]) + 1] = e
  /\ \A j \in 0..c - 1 : j # i => Len(u[j]) = Len(t[j])
  /\ \A j \in 0..c - 1 : \A p \in 1..Len(u[j]) :
       IF j = i /\ p = Len(t[i]) + 1 THEN u[j][p] = e
       ELSE p \in 1..Len(t[j]) /\ u[j][p] = t[j][p]
  /\ \A j \in 0..c - 1 : \A p \in 1..Len(t[j]) : p \in 1..Len(u[j]) /\ u[j][p] = t[j][p]

LEMMA AppendedIs ==
  ASSUME NEW t, NEW c, Table(t, c), NEW i \in 0..c - 1, NEW e \in Entry, NEW u, Appended(u, t, c, i, e)
  PROVE  OneLonger(u, t, c, i, e)
<1>1. /\ t[i] \in Seq(Entry) /\ Len(t[i]) \in Nat
  BY SlotFacts
<1>2. /\ u[i] \in Seq(Entry) /\ Len(u[i]) = Len(t[i]) + 1
      /\ u[i][Len(t[i]) + 1] = e
      /\ \A p \in 1..Len(t[i]) : u[i][p] = t[i][p]
  BY <1>1, AppendProperties DEF Appended
<1>3. \A j \in 0..c - 1 : j # i => u[j] = t[j]
  BY DEF Appended
<1>4. Table(u, c)
  BY <1>2, <1>3 DEF Table, Appended
<1>5. \A p \in 1..Len(u[i]) : p # Len(t[i]) + 1 => p \in 1..Len(t[i])
  BY <1>1, <1>2
<1>6. \A p \in 1..Len(t[i]) : p \in 1..Len(u[i])
  BY <1>1, <1>2
<1>7. QED
  BY <1>1, <1>2, <1>3, <1>4, <1>5, <1>6 DEF OneLonger

(* A new entry that differs from all others may be put into its slot. *)
LEMMA AppendGood ==
  ASSUME NEW t, NEW c, NEW ct, NEW sp, Good(t, c, ct, sp), NEW i \in 0..c - 1,
         NEW e \in Entry, e.hash % c = i, Current(e, ct, sp),
         \A j \in 0..c - 1 : \A p \in 1..Len(t[j]) : Apart(e, t[j][p], ct, sp),
         NEW u, Appended(u, t, c, i, e)
  PROVE  Good(u, c, ct, sp)
<1>1. /\ Table(t, c)
      /\ \A j \in 0..c - 1 : \A p \in 1..Len(t[j]) :
           t[j][p].hash % c = j /\ Current(t[j][p], ct, sp)
      /\ \A j, k \in 0..c - 1 : \A p \in 1..Len(t[j]), q \in 1..Len(t[k]) :
           j # k \/ p # q => Apart(t[j][p], t[k][q], ct, sp)
  BY DEF Good
<1>2. /\ Table(u, c)
      /\ \A j \in 0..c - 1 : \A p \in 1..Len(u[j]) :
           IF j = i /\ p = Len(t[i]) + 1 THEN u[j][p] = e
           ELSE p \in 1..Len(t[j]) /\ u[j][p] = t[j][p]
  <2>1. OneLonger(u, t, c, i, e)
    BY <1>1, AppendedIs
  <2>2. QED
    BY <2>1 DEF OneLonger
<1>3. \A f : Apart(e, f, ct, sp) => Apart(f, e, ct, sp)
  BY DEF Apart
<1>4. \A j \in 0..c - 1 : \A p \in 1..Len(u[j]) :
        u[j][p].hash % c = j /\ Current(u[j][p], ct, sp)
  BY <1>1, <1>2
<1>5. \A j, k \in 0..c - 1 : \A p \in 1..Len(u[j]), q \in 1..Len(u[k]) :
        j # k \/ p # q => Apart(u[j][p], u[k][q], ct, sp)
  <2> SUFFICES ASSUME NEW j \in 0..c - 1, NEW k \in 0..c - 1,
                      NEW p \in 1..Len(u[j]), NEW q \in 1..Len(u[k]), j # k \/ p # q
               PROVE  Apart(u[j][p], u[k][q], ct, sp)
    OBVIOUS
  <2>1. CASE j = i /\ p = Len(t[i]) + 1
    <3>1. u[j][p] = e /\ q \in 1..Len(t[k]) /\ u[k][q] = t[k][q]
      BY <1>2, <2>1
    <3>2. QED
      BY <3>1
  <2>2. CASE k = i /\ q = Len(t[i]) + 1
    <3>1. u[k][q] = e /\ p \in 1..Len(t[j]) /\ u[j][p] = t[j][p]
      BY <1>2, <2>2
    <3>2. QED
      BY <1>3, <3>1
  <2>3. CASE ~(j = i /\ p = Len(t[i]) + 1) /\ ~(k = i /\ q = Len(t[i]) + 1)
    <3>1. u[j][p] = t[j][p] /\ u[k][q] = t[k][q] /\ p \in 1..Len(t[j]) /\ q \in 1..Len(t[k])
      BY <1>2, <2>3
    <3>2. QED
      BY <1>1, <3>1
  <2>4. QED
    BY <2>1, <2>2, <2>3
<1>6. QED
  BY <1>2, <1>4, <1>5 DEF Good

(* e, or e and f at different places, are in the table t. *)
In(e, t, c) == \E j \in 0..c - 1 : \E q \in 1..Len(t[j]) : e = t[j][q]

BothIn(e, f, t, c) ==
  \E j, l \in 0..c - 1 : \E q \in 1..Len(t[j]) : \E s \in 1..Len(t[l]) :
    (j # l \/ q # s) /\ e = t[j][q] /\ f = t[l][s]

(* The entries of u are those of t, and different ones at different places. *)
Copies(u, d, t, c) ==
  /\ \A i \in 0..d - 1 : \A p \in 1..Len(u[i]) : In(u[i][p], t, c)
  /\ \A i, k \in 0..d - 1 : \A p \in 1..Len(u[i]), r \in 1..Len(u[k]) :
       i # k \/ p # r => BothIn(u[i][p], u[k][r], t, c)

(* Such a table is as good, if it has each in its slot. *)
LEMMA CopyGood ==
  ASSUME NEW t, NEW c, NEW ct, NEW sp, Good(t, c, ct, sp), NEW u, NEW d, Table(u, d), Copies(u, d, t, c),
         \A i \in 0..d - 1 : \A p \in 1..Len(u[i]) : u[i][p].hash % d = i
  PROVE  Good(u, d, ct, sp)
<1>1. \A e : In(e, t, c) => Current(e, ct, sp)
  <2> SUFFICES ASSUME NEW j \in 0..c - 1, NEW q \in 1..Len(t[j]) PROVE Current(t[j][q], ct, sp)
    BY DEF In
  <2>1. QED
    BY DEF Good
<1>2. \A e, f : BothIn(e, f, t, c) => Apart(e, f, ct, sp)
  <2> SUFFICES ASSUME NEW j \in 0..c - 1, NEW l \in 0..c - 1, NEW q \in 1..Len(t[j]),
                      NEW s \in 1..Len(t[l]), j # l \/ q # s
               PROVE  Apart(t[j][q], t[l][s], ct, sp)
    BY DEF BothIn
  <2>1. QED
    BY DEF Good
<1>3. QED
  BY <1>1, <1>2 DEF Good, Copies

-------------------------------------------------------------------------------
(* Capacities and remainders. *)

LEMMA Division ==
  ASSUME NEW h \in Nat, NEW c \in Nat, c # 0
  PROVE  h % c \in 0..c - 1 /\ h = c * (h \div c) + (h % c) /\ h \div c \in Nat
OBVIOUS

LEMMA OneRemainder ==
  ASSUME NEW q \in Int, NEW r \in Int, NEW c \in Nat, c # 0, 0 <= r, r < c
  PROVE  (c * q + r) % c = r
OBVIOUS

(* Entries that part in a table part in the table of twice its capacity. *)
LEMMA PartsAgain ==
  ASSUME NEW h \in Nat, NEW c \in Nat, c # 0
  PROVE  (h % (2 * c)) % c = h % c
<1> DEFINE d == 2 * c
           r == h % d
           q == h \div d
<1>1. d \in Nat /\ d # 0 /\ d = 2 * c
  OBVIOUS
<1> HIDE DEF d
<1>2. r \in 0..d - 1 /\ h = d * q + r /\ q \in Nat
  BY <1>1, Division
<1>3. r \in 0..d - 1 /\ q \in Int /\ h = d * q + r
  BY <1>2
<1> HIDE DEF r, q
<1>4. CASE r < c
  <2>1. r % c = r
    BY <1>1, <1>3, <1>4
  <2>2. h = c * (2 * q) + r
    BY <1>1, <1>3
  <2>3. (c * (2 * q) + r) % c = r
    BY <1>1, <1>3, <1>4, OneRemainder
  <2>4. QED
    BY <2>1, <2>2, <2>3 DEF r, d
<1>5. CASE ~(r < c)
  <2> DEFINE o == 2 * q + 1
             s == r - c
  <2>1. r = c * 1 + (r - c)
    BY <1>1, <1>3
  <2>2. h = c * (2 * q + 1) + (r - c)
    BY <1>1, <1>3
  <2>3. o \in Int /\ s \in Int /\ 0 <= s /\ s < c
    BY <1>1, <1>3, <1>5
  <2> HIDE DEF o, s
  <2>4. (c * o + s) % c = s
    BY <2>3, OneRemainder
  <2>5. (c * (2 * q + 1) + (r - c)) % c = r - c
    BY <2>4 DEF o, s
  <2>6. (c * 1 + (r - c)) % c = r - c
    BY <1>1, <1>3, <1>5, OneRemainder
  <2>7. QED
    BY <2>1, <2>2, <2>5, <2>6 DEF r, d
<1>6. QED
  BY <1>4, <1>5

(* A table may hold an entry, and one of twice the capacity one more. *)
LEMMA MaxLoadGrows ==
  ASSUME NEW c \in Nat, c >= MinCapacity
  PROVE  /\ MaxLoad(c) \in Nat /\ MaxLoad(2 * c) \in Nat
         /\ MaxLoad(c) >= 1 /\ MaxLoad(c) + 1 <= MaxLoad(2 * c)
<1>1. MinCapacity \in Nat /\ LoadFactor \in Nat /\ MinCapacity * LoadFactor >= 100
  BY HashmapAssumption
<1> DEFINE x == c * LoadFactor
<1>2. x \in Nat /\ x >= 100 /\ (2 * c) * LoadFactor = 2 * x
  BY <1>1
<1> HIDE DEF x
<1>3. /\ x \div 100 \in Nat /\ (2 * x) \div 100 \in Nat
      /\ x \div 100 >= 1 /\ x \div 100 + 1 <= (2 * x) \div 100
  BY <1>2
<1>4. QED
  BY <1>2, <1>3 DEF x, MaxLoad

-------------------------------------------------------------------------------
(* Going through a table entry by entry, and copying it. *)

(* The first n of es are the entries of table t, the a-th of them the one  *)
(* at position ps[a] of slot sl[a].                                        *)
Listing(es, n, t, c, sl, ps) ==
  /\ \A a \in 1..n : sl[a] \in 0..c - 1 /\ ps[a] \in 1..Len(t[sl[a]]) /\ es[a] = t[sl[a]][ps[a]]
  /\ \A a, b \in 1..n : a # b => sl[a] # sl[b] \/ ps[a] # ps[b]
  /\ \A i \in 0..c - 1 : \A p \in 1..Len(t[i]) : \E a \in 1..n : sl[a] = i /\ ps[a] = p

(* There are as many of them as the table has places. *)
LEMMA ListingCounts ==
  ASSUME NEW t, NEW c, Table(t, c), NEW n \in Nat, NEW es, NEW sl, NEW ps,
         Listing(es, n, t, c, sl, ps)
  PROVE  Cardinality(PlacesFrom(t, 1)) = n
<1> DEFINE P == PlacesFrom(t, 1)
           at == [a \in 1..n |-> <<sl[a], ps[a]>>]
<1>1. ArePlaces(P, t, c, 1) /\ IsFiniteSet(P)
  BY PlacesAre
<1>2. \A x : x \in P <=> \E i \in 0..c - 1 : \E p \in 1..Len(t[i]) : x = <<i, p>>
  BY <1>1 DEF ArePlaces
<1> HIDE DEF P
<1>3. at \in [1..n -> P]
  BY <1>2 DEF Listing
<1>4. \A a, b \in 1..n : at[a] = at[b] => a = b
  BY DEF Listing
<1>5. \A x \in P : \E a \in 1..n : at[a] = x
  <2> SUFFICES ASSUME NEW x \in P PROVE \E a \in 1..n : at[a] = x
    OBVIOUS
  <2>a. PICK i \in 0..c - 1 : \E p \in 1..Len(t[i]) : x = <<i, p>>
    BY <1>2
  <2>b. PICK p \in 1..Len(t[i]) : x = <<i, p>>
    BY <2>a
  <2>1. PICK a \in 1..n : sl[a] = i /\ ps[a] = p
    BY DEF Listing
  <2>2. QED
    BY <2>1, <2>b
<1> HIDE DEF at
<1>6. at \in Bijection(1..n, P)
  BY <1>3, <1>4, <1>5, Fun_IsBij
<1>7. IsFiniteSet(1..n) /\ Cardinality(1..n) = n
  BY FS_Interval
<1>8. ExistsBijection(1..n, P)
  BY <1>6, Fun_ExistsBij
<1>9. QED
  BY <1>7, <1>8, FS_Bijection DEF P

(* Two tables with one listing have the same entries. *)
LEMMA ListingCopies ==
  ASSUME NEW n \in Nat, NEW es, NEW t, NEW c, NEW sl, NEW ps, Listing(es, n, t, c, sl, ps),
         NEW u, NEW d, NEW slu, NEW psu, Listing(es, n, u, d, slu, psu)
  PROVE  Copies(u, d, t, c)
<1>1. ASSUME NEW i \in 0..d - 1, NEW p \in 1..Len(u[i]) PROVE In(u[i][p], t, c)
  <2>1. PICK a \in 1..n : slu[a] = i /\ psu[a] = p
    BY DEF Listing
  <2>2. u[i][p] = t[sl[a]][ps[a]] /\ sl[a] \in 0..c - 1 /\ ps[a] \in 1..Len(t[sl[a]])
    BY <2>1 DEF Listing
  <2>3. QED
    BY <2>2 DEF In
<1>2. ASSUME NEW i \in 0..d - 1, NEW k \in 0..d - 1, NEW p \in 1..Len(u[i]), NEW r \in 1..Len(u[k]),
             i # k \/ p # r
      PROVE  BothIn(u[i][p], u[k][r], t, c)
  <2>1. PICK a \in 1..n : slu[a] = i /\ psu[a] = p
    BY DEF Listing
  <2>2. PICK b \in 1..n : slu[b] = k /\ psu[b] = r
    BY DEF Listing
  <2>3. u[i][p] = t[sl[a]][ps[a]] /\ sl[a] \in 0..c - 1 /\ ps[a] \in 1..Len(t[sl[a]])
    BY <2>1 DEF Listing
  <2>4. u[k][r] = t[sl[b]][ps[b]] /\ sl[b] \in 0..c - 1 /\ ps[b] \in 1..Len(t[sl[b]])
    BY <2>2 DEF Listing
  <2>5. sl[a] # sl[b] \/ ps[a] # ps[b]
    BY <1>2, <2>1, <2>2 DEF Listing
  <2>6. QED
    BY <2>3, <2>4, <2>5 DEF BothIn
<1>3. QED
  BY <1>1, <1>2 DEF Copies

(* An appended entry is one more on the list. *)
LEMMA ListingGrows ==
  ASSUME NEW t, NEW c, Table(t, c), NEW n \in Nat, NEW es, NEW sl, NEW ps, Listing(es, n, t, c, sl, ps),
         NEW i \in 0..c - 1, es[n + 1] \in Entry, NEW u, Appended(u, t, c, i, es[n + 1])
  PROVE  \E slu, psu : Listing(es, n + 1, u, c, slu, psu)
<1> DEFINE e == es[n + 1]
           m == Len(t[i]) + 1
           slu == [a \in 1..n + 1 |-> IF a <= n THEN sl[a] ELSE i]
           psu == [a \in 1..n + 1 |-> IF a <= n THEN ps[a] ELSE m]
<1>1. /\ Len(u[i]) = m /\ m \in Nat \ {0} /\ u[i][m] = e
      /\ \A j \in 0..c - 1 : \A p \in 1..Len(u[j]) :
           IF j = i /\ p = m THEN u[j][p] = e
           ELSE p \in 1..Len(t[j]) /\ u[j][p] = t[j][p]
      /\ \A j \in 0..c - 1 : \A p \in 1..Len(t[j]) : p \in 1..Len(u[j]) /\ u[j][p] = t[j][p]
  <2>1. OneLonger(u, t, c, i, es[n + 1])
    BY AppendedIs
  <2> HIDE DEF slu, psu
  <2>2. QED
    BY <2>1 DEF OneLonger
<1>2. /\ \A a \in 1..n : sl[a] \in 0..c - 1 /\ ps[a] \in 1..Len(t[sl[a]]) /\ es[a] = t[sl[a]][ps[a]]
      /\ \A a, b \in 1..n : a # b => sl[a] # sl[b] \/ ps[a] # ps[b]
      /\ \A j \in 0..c - 1 : \A p \in 1..Len(t[j]) : \E a \in 1..n : sl[a] = j /\ ps[a] = p
  BY DEF Listing
<1>3. \A a \in 1..n : ~(sl[a] = i /\ ps[a] = m)
  BY <1>1, <1>2
<1>4. (\A a \in 1..n : slu[a] = sl[a] /\ psu[a] = ps[a]) /\ slu[n + 1] = i /\ psu[n + 1] = m
  OBVIOUS
<1>5. \A a \in 1..n + 1 : a \in 1..n \/ a = n + 1
  OBVIOUS
<1>6. n + 1 \in 1..n + 1 /\ \A a \in 1..n : a \in 1..n + 1
  OBVIOUS
<1> HIDE DEF slu, psu, m, e
<1>7. \A a \in 1..n + 1 : slu[a] \in 0..c - 1 /\ psu[a] \in 1..Len(u[slu[a]]) /\ es[a] = u[slu[a]][psu[a]]
  <2>1. ASSUME NEW a \in 1..n
        PROVE  slu[a] \in 0..c - 1 /\ psu[a] \in 1..Len(u[slu[a]]) /\ es[a] = u[slu[a]][psu[a]]
    <3>1. sl[a] \in 0..c - 1 /\ ps[a] \in 1..Len(t[sl[a]]) /\ es[a] = t[sl[a]][ps[a]]
      BY <1>2
    <3>2. ps[a] \in 1..Len(u[sl[a]]) /\ u[sl[a]][ps[a]] = t[sl[a]][ps[a]]
      BY <1>1, <3>1
    <3>3. QED
      BY <1>4, <3>1, <3>2
  <2>2. i \in 0..c - 1 /\ m \in 1..Len(u[i]) /\ es[n + 1] = u[i][m]
    BY <1>1 DEF e
  <2>3. QED
    BY <1>4, <1>5, <2>1, <2>2
<1>8. \A a, b \in 1..n + 1 : a # b => slu[a] # slu[b] \/ psu[a] # psu[b]
  <2> SUFFICES ASSUME NEW a \in 1..n + 1, NEW b \in 1..n + 1, a # b
               PROVE  slu[a] # slu[b] \/ psu[a] # psu[b]
    OBVIOUS
  <2>1. CASE a \in 1..n /\ b \in 1..n
    BY <1>2, <1>4, <2>1
  <2>2. CASE a = n + 1 /\ b \in 1..n
    BY <1>3, <1>4, <2>2
  <2>3. CASE b = n + 1 /\ a \in 1..n
    BY <1>3, <1>4, <2>3
  <2>4. QED
    BY <1>5, <2>1, <2>2, <2>3
<1>9. \A j \in 0..c - 1 : \A p \in 1..Len(u[j]) : \E a \in 1..n + 1 : slu[a] = j /\ psu[a] = p
  <2> SUFFICES ASSUME NEW j \in 0..c - 1, NEW p \in 1..Len(u[j])
               PROVE  \E a \in 1..n + 1 : slu[a] = j /\ psu[a] = p
    OBVIOUS
  <2>1. CASE j = i /\ p = m
    BY <1>4, <1>6, <2>1
  <2>2. CASE ~(j = i /\ p = m)
    <3>1. PICK a \in 1..n : sl[a] = j /\ ps[a] = p
      BY <1>1, <1>2, <2>2
    <3>2. QED
      BY <1>4, <1>6, <3>1
  <2>3. QED
    BY <2>1, <2>2
<1>10. Listing(es, n + 1, u, c, slu, psu)
  BY <1>7, <1>8, <1>9 DEF Listing
<1>11. QED
  BY <1>10

(* The next slot behind those gone through. *)
LEMMA ListingJoins ==
  ASSUME NEW k \in Nat, NEW t, t[k] \in Seq(Entry), NEW es \in Seq(Entry), NEW sl, NEW ps,
         Listing(es, Len(es), t, k, sl, ps)
  PROVE  /\ es \o t[k] \in Seq(Entry)
         /\ \E slu, psu : Listing(es \o t[k], Len(es \o t[k]), t, k + 1, slu, psu)
<1> DEFINE n == Len(es)
           m == Len(t[k])
           j == es \o t[k]
           slu == [a \in 1..n + m |-> IF a <= n THEN sl[a] ELSE k]
           psu == [a \in 1..n + m |-> IF a <= n THEN ps[a] ELSE a - n]
<1>1. n \in Nat /\ m \in Nat
  BY LenProperties
<1>2. j \in Seq(Entry) /\ Len(j) = n + m /\ \A a \in 1..n + m : j[a] = IF a <= n THEN es[a] ELSE t[k][a - n]
  BY ConcatProperties
<1>3. /\ \A a \in 1..n : sl[a] \in 0..k - 1 /\ ps[a] \in 1..Len(t[sl[a]]) /\ es[a] = t[sl[a]][ps[a]]
      /\ \A a, b \in 1..n : a # b => sl[a] # sl[b] \/ ps[a] # ps[b]
      /\ \A i \in 0..k - 1 : \A p \in 1..Len(t[i]) : \E a \in 1..n : sl[a] = i /\ ps[a] = p
  BY DEF Listing
<1> HIDE DEF n, j
<1>m. m = Len(t[k])
  OBVIOUS
<1> HIDE DEF m
<1>4. \A a \in 1..n : a \in 1..n + m /\ slu[a] = sl[a] /\ psu[a] = ps[a]
  BY <1>1
<1>5. \A p \in 1..m : n + p \in 1..n + m /\ slu[n + p] = k /\ psu[n + p] = p
  BY <1>1
<1>6. \A a \in 1..n + m : a \in 1..n \/ (a - n \in 1..m /\ ~(a <= n) /\ slu[a] = k /\ psu[a] = a - n)
  BY <1>1
<1> HIDE DEF slu, psu
<1>7. \A a \in 1..n + m : slu[a] \in 0..k /\ psu[a] \in 1..Len(t[slu[a]]) /\ j[a] = t[slu[a]][psu[a]]
  <2> SUFFICES ASSUME NEW a \in 1..n + m
               PROVE  slu[a] \in 0..k /\ psu[a] \in 1..Len(t[slu[a]]) /\ j[a] = t[slu[a]][psu[a]]
    OBVIOUS
  <2>1. CASE a \in 1..n
    <3>1. j[a] = es[a]
      BY <1>1, <1>2, <2>1
    <3>2. sl[a] \in 0..k
      BY <1>3, <2>1
    <3>3. QED
      BY <1>3, <1>4, <2>1, <3>1, <3>2
  <2>2. CASE a \notin 1..n
    <3>1. a - n \in 1..m /\ j[a] = t[k][a - n] /\ slu[a] = k /\ psu[a] = a - n
      BY <1>2, <1>6, <2>2
    <3>2. k \in 0..k
      OBVIOUS
    <3>3. QED
      BY <1>m, <3>1, <3>2
  <2>3. QED
    BY <2>1, <2>2
<1>8. \A a, b \in 1..n + m : a # b => slu[a] # slu[b] \/ psu[a] # psu[b]
  <2> SUFFICES ASSUME NEW a \in 1..n + m, NEW b \in 1..n + m, a # b
               PROVE  slu[a] # slu[b] \/ psu[a] # psu[b]
    OBVIOUS
  <2>0. \A x \in 1..n : sl[x] # k
    BY <1>3
  <2>1. CASE a \in 1..n /\ b \in 1..n
    BY <1>3, <1>4, <2>1
  <2>2. CASE a \in 1..n /\ b \notin 1..n
    BY <1>4, <1>6, <2>0, <2>2
  <2>3. CASE a \notin 1..n /\ b \in 1..n
    BY <1>4, <1>6, <2>0, <2>3
  <2>4. CASE a \notin 1..n /\ b \notin 1..n
    BY <1>1, <1>6, <2>4
  <2>5. QED
    BY <2>1, <2>2, <2>3, <2>4
<1>9. \A i \in 0..k : \A p \in 1..Len(t[i]) : \E a \in 1..n + m : slu[a] = i /\ psu[a] = p
  <2> SUFFICES ASSUME NEW i \in 0..k, NEW p \in 1..Len(t[i])
               PROVE  \E a \in 1..n + m : slu[a] = i /\ psu[a] = p
    OBVIOUS
  <2>1. CASE i = k
    <3>1. p \in 1..m
      BY <1>m, <2>1
    <3>2. QED
      BY <1>5, <2>1, <3>1
  <2>2. CASE i # k
    <3>1. i \in 0..k - 1
      BY <2>2
    <3>2. PICK a \in 1..n : sl[a] = i /\ ps[a] = p
      BY <1>3, <3>1
    <3>3. QED
      BY <1>4, <3>2
  <2>3. QED
    BY <2>1, <2>2
<1>10. (k + 1) - 1 = k
  OBVIOUS
<1>11. Listing(j, n + m, t, k + 1, slu, psu)
  BY <1>7, <1>8, <1>9, <1>10 DEF Listing
<1>12. QED
  BY <1>2, <1>11 DEF j

(* The concatenation of the first k of the sequences q, for k up to n. *)
IsJoins(g, q, n) == g = [i \in 1..n |-> IF i = 1 THEN q[i] ELSE g[i - 1] \o q[i]]

Joins(q, n) == CHOOSE g : IsJoins(g, q, n)

LEMMA JoinsExist ==
  ASSUME NEW q, NEW n \in Nat
  PROVE  IsJoins(Joins(q, n), q, n)
<1> DEFINE T == {k \in Nat : ~\E g : IsJoins(g, q, k)}
<1>1. SUFFICES T = {}
  <2>1. \E g : IsJoins(g, q, n)
    BY <1>1
  <2>2. QED
    BY <2>1 DEF Joins
<1>2. SUFFICES ASSUME T # {} PROVE FALSE
  OBVIOUS
<1>3. T \in SUBSET Nat
  OBVIOUS
<1>4. PICK k \in T : \A i \in T : k <= i
  BY <1>2, <1>3, LeastNumber
<1>5. k # 0
  <2> DEFINE f == [i \in 1..0 |-> q[i]]
  <2>1. IsJoins(f, q, 0)
    BY DEF IsJoins
  <2>2. QED
    BY <1>4, <2>1
<1>6. k - 1 \in Nat /\ k - 1 \notin T /\ k \in Nat
  BY <1>4, <1>5
<1>7. PICK g : IsJoins(g, q, k - 1)
  BY <1>6
<1> DEFINE f == [i \in 1..k |-> IF i < k THEN g[i] ELSE IF i = 1 THEN q[i] ELSE g[i - 1] \o q[i]]
<1>8. \A i \in 1..k - 1 : g[i] = IF i = 1 THEN q[i] ELSE g[i - 1] \o q[i]
  BY <1>7, <1>6 DEF IsJoins
<1>9. \A i \in 1..k : f[i] = IF i = 1 THEN q[i] ELSE f[i - 1] \o q[i]
  <2> SUFFICES ASSUME NEW i \in 1..k PROVE f[i] = IF i = 1 THEN q[i] ELSE f[i - 1] \o q[i]
    OBVIOUS
  <2>1. i # 1 => i - 1 \in 1..k /\ i - 1 < k
    BY <1>6
  <2>2. i # 1 => f[i - 1] = g[i - 1]
    BY <2>1
  <2>3. i < k => i \in 1..k - 1
    BY <1>6
  <2>4. f[i] = IF i = 1 THEN q[i] ELSE g[i - 1] \o q[i]
    BY <1>8, <2>3
  <2> HIDE DEF f
  <2>5. QED
    BY <2>2, <2>4
<1>10. IsJoins(f, q, k)
  <2>1. f = [i \in 1..k |-> f[i]]
    OBVIOUS
  <2> HIDE DEF f
  <2>2. [i \in 1..k |-> f[i]] = [i \in 1..k |-> IF i = 1 THEN q[i] ELSE f[i - 1] \o q[i]]
    BY <1>9
  <2>3. QED
    BY <2>1, <2>2, Zenon DEF IsJoins
<1>11. QED
  BY <1>4, <1>10

(* FlattenSeq of sequences of which there are any is the last of these. *)
LEMMA FlattenIs ==
  ASSUME NEW q, Len(q) # 0
  PROVE  FlattenSeq(q) = Joins(q, Len(q))[Len(q)]
BY Zenon DEF FlattenSeq, Joins, IsJoins

(* es is the entries of table t, in some order. *)
Lists(es, t, c) == es \in Seq(Entry) /\ \E sl, ps : Listing(es, Len(es), t, c, sl, ps)

(* The slots one after another are the entries of the table. *)
LEMMA FlattenLists ==
  ASSUME NEW t, NEW c, Table(t, c), NEW q, q = [i \in 1..c |-> t[i - 1]]
  PROVE  Lists(FlattenSeq(q), t, c)
<1>1. c \in Nat /\ \A i \in 0..c - 1 : t[i] \in Seq(Entry)
  BY DEF Table
<1>2. Len(q) = c /\ \A k \in 1..c : q[k] = t[k - 1]
  BY <1>1
<1>3. CASE c = 0
  <2>1. FlattenSeq(q) = q
    BY <1>2, <1>3 DEF FlattenSeq
  <2>2. q \in Seq(Entry)
    BY <1>3
  <2>3. Listing(q, Len(q), t, c, q, q)
    BY <1>2, <1>3 DEF Listing
  <2>4. QED
    BY <2>1, <2>2, <2>3 DEF Lists
<1>4. CASE c # 0
  <2> DEFINE g == Joins(q, c)
             T == {k \in 1..c : ~Lists(g[k], t, k)}
  <2>1. \A k \in 1..c : g[k] = IF k = 1 THEN t[0] ELSE g[k - 1] \o t[k - 1]
    <3>1. IsJoins(g, q, c)
      BY <1>1, JoinsExist
    <3> HIDE DEF g
    <3>2. \A k \in 1..c : g[k] = IF k = 1 THEN q[k] ELSE g[k - 1] \o q[k]
      BY <3>1 DEF IsJoins
    <3>3. QED
      BY <1>2, <3>2
  <2>2. FlattenSeq(q) = g[c]
    BY <1>2, <1>4, FlattenIs
  <2> HIDE DEF g
  <2>3. SUFFICES T = {}
    <3>1. c \in 1..c
      BY <1>1, <1>4
    <3>2. QED
      BY <2>2, <2>3, <3>1
  <2>4. SUFFICES ASSUME T # {} PROVE FALSE
    OBVIOUS
  <2>5. T \in SUBSET Nat
    OBVIOUS
  <2>6. PICK k \in T : \A i \in T : k <= i
    BY <2>4, <2>5, LeastNumber
  <2>7. k \in 1..c /\ ~Lists(g[k], t, k)
    BY <2>6
  <2>8. CASE k = 1
    <3>1. g[k] = t[0] /\ t[0] \in Seq(Entry)
      BY <1>1, <2>1, <2>7, <2>8
    <3> DEFINE m == Len(t[0])
               sl == [a \in 1..m |-> 0]
               ps == [a \in 1..m |-> a]
    <3>2. Listing(t[0], m, t, 1, sl, ps)
      <4>1. \A i \in 0..1 - 1 : i = 0
        OBVIOUS
      <4>2. 0 \in 0..1 - 1
        OBVIOUS
      <4>3. QED
        BY <4>1, <4>2 DEF Listing
    <3>3. QED
      BY <2>7, <2>8, <3>1, <3>2 DEF Lists
  <2>9. CASE k # 1
    <3>1. k - 1 \in 1..c /\ k - 1 \notin T /\ k - 1 \in Nat /\ (k - 1) + 1 = k /\ k - 1 \in 0..c - 1
      BY <1>1, <2>6, <2>7, <2>9
    <3>2. Lists(g[k - 1], t, k - 1)
      BY <3>1
    <3>3. g[k - 1] \in Seq(Entry) /\ t[k - 1] \in Seq(Entry)
      BY <1>1, <3>1, <3>2 DEF Lists
    <3>4. PICK sl, ps : Listing(g[k - 1], Len(g[k - 1]), t, k - 1, sl, ps)
      BY <3>2 DEF Lists
    <3>5. g[k] = g[k - 1] \o t[k - 1]
      BY <2>1, <2>7, <2>9
    <3>6. Lists(g[k - 1] \o t[k - 1], t, (k - 1) + 1)
      BY <3>1, <3>3, <3>4, ListingJoins DEF Lists
    <3>7. QED
      BY <2>7, <3>1, <3>5, <3>6
  <2>10. QED
    BY <2>8, <2>9
<1>5. QED
  BY <1>3, <1>4

(* One pass of the loop of hashmap_resize: e is put behind the entries of  *)
(* its slot.                                                               *)
OneCopied(t, e, d) == [i \in 0..d - 1 |-> IF i = e.hash % d THEN Append(t[i], e) ELSE t[i]]

IsCopied(g, es, n, d) ==
  g = [k \in 0..n |-> IF k = 0 THEN Vacant(d) ELSE OneCopied(g[k - 1], es[k], d)]

Copied(es, n, d) == CHOOSE g : IsCopied(g, es, n, d)

LEMMA CopiedExist ==
  ASSUME NEW es, NEW d, NEW n \in Nat
  PROVE  IsCopied(Copied(es, n, d), es, n, d)
<1> DEFINE T == {k \in Nat : ~\E g : IsCopied(g, es, k, d)}
<1>1. SUFFICES T = {}
  <2>1. \E g : IsCopied(g, es, n, d)
    BY <1>1
  <2>2. QED
    BY <2>1 DEF Copied
<1>2. SUFFICES ASSUME T # {} PROVE FALSE
  OBVIOUS
<1>3. T \in SUBSET Nat
  OBVIOUS
<1>4. PICK k \in T : \A i \in T : k <= i
  BY <1>2, <1>3, LeastNumber
<1>5. k # 0
  <2> DEFINE f == [i \in 0..0 |-> Vacant(d)]
  <2>1. IsCopied(f, es, 0, d)
    BY DEF IsCopied
  <2>2. QED
    BY <1>4, <2>1
<1>6. k - 1 \in Nat /\ k - 1 \notin T /\ k \in Nat
  BY <1>4, <1>5
<1>7. PICK g : IsCopied(g, es, k - 1, d)
  BY <1>6
<1> DEFINE f == [i \in 0..k |-> IF i < k THEN g[i] ELSE OneCopied(g[k - 1], es[k], d)]
<1>8. \A i \in 0..k - 1 : g[i] = IF i = 0 THEN Vacant(d) ELSE OneCopied(g[i - 1], es[i], d)
  BY <1>7, <1>6 DEF IsCopied
<1>9. \A i \in 0..k : f[i] = IF i = 0 THEN Vacant(d) ELSE OneCopied(f[i - 1], es[i], d)
  <2> SUFFICES ASSUME NEW i \in 0..k
               PROVE  f[i] = IF i = 0 THEN Vacant(d) ELSE OneCopied(f[i - 1], es[i], d)
    OBVIOUS
  <2>1. i # 0 => i - 1 \in 0..k /\ i - 1 < k
    BY <1>6
  <2>2. i # 0 => f[i - 1] = g[i - 1]
    BY <2>1
  <2>3. i < k => i \in 0..k - 1
    BY <1>6
  <2>4. f[i] = IF i = 0 THEN Vacant(d) ELSE OneCopied(g[i - 1], es[i], d)
    <3>1. CASE i < k
      BY <1>8, <2>3, <3>1
    <3>2. CASE ~(i < k)
      <4>1. i = k
        BY <1>6, <3>2
      <4>2. QED
        BY <1>5, <3>2, <4>1
    <3>3. QED
      BY <3>1, <3>2
  <2> HIDE DEF f
  <2>5. QED
    BY <2>2, <2>4
<1>10. IsCopied(f, es, k, d)
  <2>1. f = [i \in 0..k |-> f[i]]
    OBVIOUS
  <2> HIDE DEF f
  <2>2. [i \in 0..k |-> f[i]] = [i \in 0..k |-> IF i = 0 THEN Vacant(d) ELSE OneCopied(f[i - 1], es[i], d)]
    BY <1>9
  <2>3. QED
    BY <2>1, <2>2, Zenon DEF IsCopied
<1>11. QED
  BY <1>4, <1>10

(* The new table is what is there after the last pass. *)
LEMMA RehashIs ==
  ASSUME NEW es, NEW d
  PROVE  Rehash(es, d) = Copied(es, Len(es), d)[Len(es)]
BY Zenon DEF Rehash, Copied, IsCopied, OneCopied

(* Every entry is in the slot its hash selects. *)
InSlots(t, c) == \A i \in 0..c - 1 : \A p \in 1..Len(t[i]) : t[i][p].hash % c = i

(* The new table has the entries copied to it, each in its slot. *)
LEMMA RehashLists ==
  ASSUME NEW es \in Seq(Entry), NEW d \in Nat, d # 0
  PROVE  Table(Rehash(es, d), d) /\ InSlots(Rehash(es, d), d) /\ Lists(es, Rehash(es, d), d)
<1> DEFINE m == Len(es)
           g == Copied(es, m, d)
           J(n) == Table(g[n], d) /\ InSlots(g[n], d) /\ \E sl, ps : Listing(es, n, g[n], d, sl, ps)
           T == {n \in 0..m : ~J(n)}
<1>1. m \in Nat /\ \A n \in 1..m : es[n] \in Entry
  BY LenProperties, ElementOfSeq
<1>2. g[0] = Vacant(d) /\ \A n \in 1..m : g[n] = OneCopied(g[n - 1], es[n], d)
  <2>1. IsCopied(g, es, m, d)
    BY <1>1, CopiedExist
  <2> HIDE DEF g, m
  <2>2. QED
    BY <1>1, <2>1 DEF IsCopied
<1>3. Rehash(es, d) = g[m]
  BY RehashIs
<1> HIDE DEF g, m
<1>4. SUFFICES T = {}
  <2>1. m \in 0..m
    BY <1>1
  <2>2. J(m)
    BY <1>4, <2>1
  <2>3. QED
    BY <1>3, <2>2 DEF Lists, m
<1>5. SUFFICES ASSUME T # {} PROVE FALSE
  OBVIOUS
<1>6. T \in SUBSET Nat
  OBVIOUS
<1>7. PICK k \in T : \A i \in T : k <= i
  BY <1>5, <1>6, LeastNumber
<1>8. k \in 0..m /\ ~J(k)
  BY <1>7
<1>9. CASE k = 0
  <2>1. DOMAIN g[0] = 0..d - 1 /\ \A i \in 0..d - 1 : g[0][i] = <<>>
    BY <1>2 DEF Vacant
  <2>2. Table(g[0], d)
    <3>1. <<>> \in Seq(Entry)
      OBVIOUS
    <3> HIDE DEF T, J
    <3>2. QED
      BY <2>1, <3>1 DEF Table
  <2>3. InSlots(g[0], d)
    BY <2>1 DEF InSlots
  <2>4. Listing(es, 0, g[0], d, es, es)
    BY <2>1 DEF Listing
  <2>5. QED
    BY <1>8, <1>9, <2>2, <2>3, <2>4
<1>10. CASE k # 0
  <2>1. k - 1 \in 0..m /\ k - 1 \notin T /\ k \in 1..m /\ k - 1 \in Nat /\ (k - 1) + 1 = k
    BY <1>1, <1>7, <1>8, <1>10
  <2>2. J(k - 1)
    BY <2>1
  <2> DEFINE t == g[k - 1]
             u == g[k]
             e == es[k]
             i == e.hash % d
  <2>3. Table(t, d) /\ InSlots(t, d)
    BY <2>2
  <2>4. PICK sl, ps : Listing(es, k - 1, t, d, sl, ps)
    BY <2>2
  <2>5. e \in Entry /\ e.hash \in Nat
    BY <1>1, <2>1, HashFacts
  <2>6. i \in 0..d - 1
    BY <2>5, Division
  <2>7. u = OneCopied(t, e, d)
    BY <1>2, <2>1
  <2>8. i = e.hash % d
    OBVIOUS
  <2> HIDE DEF T, t, u, e, i
  <2>9. Appended(u, t, d, i, e)
    BY <2>6, <2>7, <2>8 DEF OneCopied, Appended
  <2>10. OneLonger(u, t, d, i, e)
    BY <2>3, <2>5, <2>6, <2>9, AppendedIs
  <2>11. Table(u, d)
    BY <2>10 DEF OneLonger
  <2>12. InSlots(u, d)
    <3> HIDE DEF J
    <3> SUFFICES ASSUME NEW j \in 0..d - 1, NEW p \in 1..Len(u[j]) PROVE u[j][p].hash % d = j
      BY DEF InSlots
    <3>1. CASE j = i /\ p = Len(t[i]) + 1
      BY <2>8, <2>10, <3>1 DEF OneLonger
    <3>2. CASE ~(j = i /\ p = Len(t[i]) + 1)
      <4>1. p \in 1..Len(t[j]) /\ u[j][p] = t[j][p]
        BY <2>10, <3>2 DEF OneLonger
      <4>2. QED
        BY <2>3, <4>1 DEF InSlots
    <3>3. QED
      BY <3>1, <3>2
  <2>13. es[(k - 1) + 1] = e
    BY <2>1 DEF e
  <2>14. \E slu, psu : Listing(es, (k - 1) + 1, u, d, slu, psu)
    BY <2>1, <2>3, <2>4, <2>5, <2>6, <2>9, <2>13, ListingGrows
  <2>15. \E slu, psu : Listing(es, k, u, d, slu, psu)
    BY <2>1, <2>14
  <2>16. QED
    BY <1>8, <2>11, <2>12, <2>15 DEF u
<1>11. QED
  BY <1>9, <1>10

(* A table of twice the capacity is as good, holds as many entries and     *)
(* has no more nodes.                                                      *)
LEMMA ResizeKeeps ==
  ASSUME NEW t, NEW c, NEW ct, NEW sp, Good(t, c, ct, sp), c # 0, NEW es, Lists(es, t, c)
  PROVE  /\ Good(Rehash(es, 2 * c), 2 * c, ct, sp)
         /\ Cardinality(PlacesFrom(Rehash(es, 2 * c), 1)) = Cardinality(PlacesFrom(t, 1))
         /\ Chained(Rehash(es, 2 * c)) <= Chained(t)
<1> DEFINE d == 2 * c
           u == Rehash(es, d)
           n == Len(es)
<1>1. Table(t, c) /\ c \in Nat /\ InSlots(t, c)
  BY DEF Good, Table, InSlots
<1>2. d \in Nat /\ d # 0 /\ d = 2 * c
  BY <1>1
<1> HIDE DEF d
<1>3. es \in Seq(Entry) /\ n \in Nat
  BY LenProperties DEF Lists
<1>4. Table(u, d) /\ InSlots(u, d) /\ Lists(es, u, d)
  BY <1>2, <1>3, RehashLists
<1>5. PICK sl, ps : Listing(es, n, t, c, sl, ps)
  BY DEF Lists
<1>6. PICK slu, psu : Listing(es, n, u, d, slu, psu)
  BY <1>4 DEF Lists
<1> HIDE DEF u, n
<1>7. Good(u, d, ct, sp)
  <2>1. Copies(u, d, t, c)
    BY <1>3, <1>5, <1>6, ListingCopies
  <2>2. \A i \in 0..d - 1 : \A p \in 1..Len(u[i]) : u[i][p].hash % d = i
    BY <1>4 DEF InSlots
  <2>3. QED
    BY <1>4, <2>1, <2>2, CopyGood
<1>8. Cardinality(PlacesFrom(u, 1)) = n /\ Cardinality(PlacesFrom(t, 1)) = n
  BY <1>1, <1>3, <1>4, <1>5, <1>6, ListingCounts
<1>9. Cardinality(Occupied(t, c)) <= Cardinality(Occupied(u, d))
  <2> DEFINE A == Occupied(t, c)
             B == Occupied(u, d)
             f == [i \in A |-> t[i][1].hash % d]
  <2>1. \A i \in A : i \in 0..c - 1 /\ 1 \in 1..Len(t[i]) /\ t[i][1] \in Entry /\ t[i][1].hash \in Nat
    <3> SUFFICES ASSUME NEW i \in A
                 PROVE  i \in 0..c - 1 /\ 1 \in 1..Len(t[i]) /\ t[i][1] \in Entry /\ t[i][1].hash \in Nat
      OBVIOUS
    <3>1. i \in 0..c - 1 /\ Len(t[i]) # 0
      BY DEF Occupied
    <3>2. Len(t[i]) \in Nat /\ \A p \in 1..Len(t[i]) : t[i][p] \in Entry
      BY <1>1, <3>1, SlotFacts
    <3>3. 1 \in 1..Len(t[i])
      BY <3>1, <3>2
    <3>4. QED
      BY <3>1, <3>2, <3>3, HashFacts
  <2>2. \A j : j \in B <=> j \in 0..d - 1 /\ Len(u[j]) # 0
    BY DEF Occupied
  <2> HIDE DEF A, B
  <2>3. \A i \in A : t[i][1].hash % d \in B
    <3> SUFFICES ASSUME NEW i \in A PROVE t[i][1].hash % d \in B
      OBVIOUS
    <3>1. PICK a \in 1..n : sl[a] = i /\ ps[a] = 1
      BY <1>5, <2>1 DEF Listing
    <3>2. es[a] = t[i][1]
      BY <1>5, <3>1 DEF Listing
    <3>3. slu[a] \in 0..d - 1 /\ psu[a] \in 1..Len(u[slu[a]]) /\ es[a] = u[slu[a]][psu[a]]
      BY <1>6 DEF Listing
    <3>4. u[slu[a]][psu[a]].hash % d = slu[a]
      BY <1>4, <3>3 DEF InSlots
    <3>5. Len(u[slu[a]]) # 0
      BY <3>3
    <3>6. QED
      BY <2>2, <3>2, <3>3, <3>4, <3>5
  <2>4. \A i, j \in A : t[i][1].hash % d = t[j][1].hash % d => i = j
    <3> SUFFICES ASSUME NEW i \in A, NEW j \in A, t[i][1].hash % d = t[j][1].hash % d PROVE i = j
      OBVIOUS
    <3>1. t[i][1].hash % c = i /\ t[j][1].hash % c = j
      BY <1>1, <2>1 DEF InSlots
    <3>2. (t[i][1].hash % d) % c = t[i][1].hash % c /\ (t[j][1].hash % d) % c = t[j][1].hash % c
      BY <1>1, <2>1, PartsAgain DEF d
    <3>3. QED
      BY <3>1, <3>2
  <2>5. f \in [A -> B] /\ \A i, j \in A : f[i] = f[j] => i = j
    BY <2>3, <2>4
  <2> HIDE DEF f
  <2>6. f \in Injection(A, B)
    BY <2>5, Fun_IsInj
  <2>7. IsFiniteSet(B)
    BY <1>4, FirstsAndNodes DEF B
  <2>8. Cardinality(A) <= Cardinality(B)
    BY <2>6, <2>7, FS_Injection
  <2>9. QED
    BY <2>8 DEF A, B
<1>10. Chained(u) <= Chained(t)
  <2>1. /\ Cardinality(PlacesFrom(t, 1)) = Chained(t) + Cardinality(Occupied(t, c))
        /\ Chained(t) \in Nat /\ Cardinality(Occupied(t, c)) \in Nat
    BY <1>1, FirstsAndNodes
  <2>2. /\ Cardinality(PlacesFrom(u, 1)) = Chained(u) + Cardinality(Occupied(u, d))
        /\ Chained(u) \in Nat /\ Cardinality(Occupied(u, d)) \in Nat
    BY <1>4, FirstsAndNodes
  <2>3. QED
    BY <1>8, <1>9, <2>1, <2>2
<1>11. QED
  BY <1>7, <1>8, <1>10 DEF u, d

-------------------------------------------------------------------------------
(* What the calls do to one slot. *)

(* u is t but for what no key or hash is about. *)
SameKeys(u, t, c) ==
  /\ Table(u, c)
  /\ \A i \in 0..c - 1 : Len(u[i]) = Len(t[i])
  /\ \A i \in 0..c - 1 : \A p \in 1..Len(t[i]) : u[i][p].key = t[i][p].key /\ u[i][p].hash = t[i][p].hash

LEMMA SameKeysGood ==
  ASSUME NEW t, NEW c, NEW ct, NEW sp, Good(t, c, ct, sp), NEW u, SameKeys(u, t, c)
  PROVE  Good(u, c, ct, sp)
<1>1. \A e, f : e.key = f.key /\ e.hash = f.hash /\ Current(f, ct, sp) => Current(e, ct, sp)
  BY DEF Current
<1>2. \A a, b, e, f : a.key = e.key /\ a.hash = e.hash /\ b.key = f.key /\ b.hash = f.hash
                      /\ Apart(e, f, ct, sp) => Apart(a, b, ct, sp)
  BY DEF Apart, Id
<1>3. /\ Table(u, c)
      /\ \A i \in 0..c - 1 : Len(u[i]) = Len(t[i])
      /\ \A i \in 0..c - 1 : \A p \in 1..Len(t[i]) : u[i][p].key = t[i][p].key /\ u[i][p].hash = t[i][p].hash
  BY DEF SameKeys
<1>4. \A i \in 0..c - 1 : \A p \in 1..Len(u[i]) : u[i][p].hash % c = i /\ Current(u[i][p], ct, sp)
  BY <1>1, <1>3 DEF Good
<1>5. \A i, j \in 0..c - 1 : \A p \in 1..Len(u[i]), q \in 1..Len(u[j]) :
        i # j \/ p # q => Apart(u[i][p], u[j][q], ct, sp)
  <2> SUFFICES ASSUME NEW i \in 0..c - 1, NEW j \in 0..c - 1, NEW p \in 1..Len(u[i]),
                      NEW q \in 1..Len(u[j]), i # j \/ p # q
               PROVE  Apart(u[i][p], u[j][q], ct, sp)
    OBVIOUS
  <2>1. p \in 1..Len(t[i]) /\ q \in 1..Len(t[j])
    BY <1>3
  <2>2. Apart(t[i][p], t[j][q], ct, sp)
    BY <2>1 DEF Good
  <2>3. QED
    BY <1>2, <1>3, <2>1, <2>2
<1>6. QED
  BY <1>3, <1>4, <1>5 DEF Good

(* A value is replaced. *)
LEMMA UpdateSame ==
  ASSUME NEW t, NEW c, Table(t, c), NEW i \in 0..c - 1, NEW p \in 1..Len(t[i]), NEW v \in Elem,
         NEW u, u = [t EXCEPT ![i][p].val = v]
  PROVE  SameKeys(u, t, c)
<1> DEFINE s == t[i]
           e == [s[p] EXCEPT !.val = v]
           w == [s EXCEPT ![p] = e]
<1>1. s \in Seq(Entry) /\ Len(s) \in Nat /\ DOMAIN s = 1..Len(s) /\ s[p] \in Entry
  BY SlotFacts
<1>2. e \in Entry /\ e.key = s[p].key /\ e.hash = s[p].hash
  BY <1>1 DEF Entry
<1>3. u = [t EXCEPT ![i] = w]
  OBVIOUS
<1> HIDE DEF e
<1>4. w \in Seq(Entry) /\ Len(w) = Len(s) /\ \A q \in 1..Len(s) : w[q] = IF q = p THEN e ELSE s[q]
  BY <1>1, <1>2, ExceptSeq
<1>5. /\ DOMAIN t = 0..c - 1 /\ c \in Nat
      /\ \A j \in 0..c - 1 : t[j] \in Seq(Entry)
  BY DEF Table
<1> HIDE DEF w
<1>6. DOMAIN u = 0..c - 1 /\ u[i] = w /\ \A j \in 0..c - 1 : j # i => u[j] = t[j]
  BY <1>3, <1>5
<1>7. Table(u, c)
  BY <1>4, <1>5, <1>6 DEF Table
<1>8. \A j \in 0..c - 1 : Len(u[j]) = Len(t[j])
  BY <1>4, <1>6
<1>9. \A j \in 0..c - 1 : \A q \in 1..Len(t[j]) : u[j][q].key = t[j][q].key /\ u[j][q].hash = t[j][q].hash
  <2> SUFFICES ASSUME NEW j \in 0..c - 1, NEW q \in 1..Len(t[j])
               PROVE  u[j][q].key = t[j][q].key /\ u[j][q].hash = t[j][q].hash
    OBVIOUS
  <2>1. CASE j # i
    BY <1>6, <2>1
  <2>2. CASE j = i
    BY <1>2, <1>4, <1>6, <2>2
  <2>3. QED
    BY <2>1, <2>2
<1>10. QED
  BY <1>7, <1>8, <1>9 DEF SameKeys

(* The table u is t without the entry at position p of slot i. *)
Removed(u, t, c, i, p) ==
  /\ DOMAIN u = 0..c - 1 /\ u[i] = RemoveAt(t[i], p)
  /\ \A j \in 0..c - 1 : j # i => u[j] = t[j]

(* What is left is as good. *)
LEMMA RemoveGood ==
  ASSUME NEW t, NEW c, NEW ct, NEW sp, Good(t, c, ct, sp), NEW i \in 0..c - 1, NEW p \in 1..Len(t[i]),
         NEW u, Removed(u, t, c, i, p)
  PROVE  /\ Good(u, c, ct, sp) /\ Len(t[i]) = Len(u[i]) + 1
         /\ \A j \in 0..c - 1 : j # i => Len(t[j]) = Len(u[j])
<1> DEFINE s == t[i]
           w == RemoveAt(s, p)
<1>1. Table(t, c) /\ InSlots(t, c)
  BY DEF Good, InSlots
<1>2. s \in Seq(Entry) /\ Len(s) \in Nat
  BY <1>1, SlotFacts
<1>3. p - 1 \in Nat /\ p \in Nat /\ p - 1 <= Len(s) /\ p - 1 <= p /\ p <= Len(s)
  BY <1>2
<1>4. w = CutOut(s, p - 1, p)
  BY DEF CutOut, RemoveAt
<1>5. IsCut(Entry, w, s, p - 1, p)
  BY <1>2, <1>3, <1>4, CutOutIs
<1> HIDE DEF w
<1>6. /\ w \in Seq(Entry) /\ Len(w) = Len(s) - 1
      /\ \A k \in 1..Len(w) : w[k] = s[IF k < p THEN k ELSE k + 1]
  <2>1. w \in Seq(Entry) /\ Len(w) = Len(s) - 1
    BY <1>2, <1>3, <1>5 DEF IsCut
  <2>2. ASSUME NEW k \in 1..Len(w) PROVE w[k] = s[IF k < p THEN k ELSE k + 1]
    <3>1. w[k] = IF k <= p - 1 THEN s[k] ELSE s[k + (p - (p - 1))]
      BY <1>5 DEF IsCut
    <3>2. k \in Nat /\ (k <= p - 1 <=> k < p) /\ k + (p - (p - 1)) = k + 1
      BY <1>2, <1>3, <2>1
    <3>3. QED
      BY <3>1, <3>2
  <2>3. QED
    BY <2>1, <2>2
<1>7. DOMAIN u = 0..c - 1 /\ u[i] = w /\ \A j \in 0..c - 1 : j # i => u[j] = t[j]
  BY DEF Removed, w
<1>8. Table(u, c)
  BY <1>1, <1>6, <1>7 DEF Table
<1>9. /\ Len(t[i]) = Len(u[i]) + 1
      /\ \A j \in 0..c - 1 : j # i => Len(t[j]) = Len(u[j])
  BY <1>2, <1>6, <1>7
<1> DEFINE from(j, q) == IF j = i /\ ~(q < p) THEN q + 1 ELSE q
<1>10. \A j \in 0..c - 1 : \A q \in 1..Len(u[j]) : from(j, q) \in 1..Len(t[j]) /\ u[j][q] = t[j][from(j, q)]
  <2> SUFFICES ASSUME NEW j \in 0..c - 1, NEW q \in 1..Len(u[j])
               PROVE  from(j, q) \in 1..Len(t[j]) /\ u[j][q] = t[j][from(j, q)]
    OBVIOUS
  <2>1. CASE j # i
    BY <1>7, <2>1
  <2>2. CASE j = i
    <3>1. q \in 1..Len(w) /\ u[j][q] = w[q]
      BY <1>7, <2>2
    <3>2. from(j, q) = (IF q < p THEN q ELSE q + 1) /\ from(j, q) \in 1..Len(s)
      BY <1>2, <1>3, <1>6, <2>2, <3>1
    <3>3. QED
      BY <1>6, <2>2, <3>1, <3>2
  <2>3. QED
    BY <2>1, <2>2
<1>11. \A j \in 0..c - 1 : \A q, r \in 1..Len(u[j]) : q # r => from(j, q) # from(j, r)
  <2> SUFFICES ASSUME NEW j \in 0..c - 1, NEW q \in 1..Len(u[j]), NEW r \in 1..Len(u[j]), q # r
               PROVE  from(j, q) # from(j, r)
    OBVIOUS
  <2>1. q \in Int /\ r \in Int /\ p \in Int
    BY <1>3
  <2>2. QED
    BY <2>1
<1> HIDE DEF from
<1>12. Copies(u, c, t, c)
  <2>1. ASSUME NEW j \in 0..c - 1, NEW q \in 1..Len(u[j]) PROVE In(u[j][q], t, c)
    BY <1>10 DEF In
  <2>2. ASSUME NEW j \in 0..c - 1, NEW k \in 0..c - 1, NEW q \in 1..Len(u[j]), NEW r \in 1..Len(u[k]),
               j # k \/ q # r
        PROVE  BothIn(u[j][q], u[k][r], t, c)
    <3>1. from(j, q) \in 1..Len(t[j]) /\ u[j][q] = t[j][from(j, q)]
      BY <1>10
    <3>2. from(k, r) \in 1..Len(t[k]) /\ u[k][r] = t[k][from(k, r)]
      BY <1>10
    <3>3. j # k \/ from(j, q) # from(k, r)
      BY <1>11, <2>2
    <3>4. QED
      BY <3>1, <3>2, <3>3 DEF BothIn
  <2>3. QED
    BY <2>1, <2>2 DEF Copies
<1>13. \A j \in 0..c - 1 : \A q \in 1..Len(u[j]) : u[j][q].hash % c = j
  <2> SUFFICES ASSUME NEW j \in 0..c - 1, NEW q \in 1..Len(u[j]) PROVE u[j][q].hash % c = j
    OBVIOUS
  <2>1. from(j, q) \in 1..Len(t[j]) /\ u[j][q] = t[j][from(j, q)]
    BY <1>10
  <2>2. QED
    BY <1>1, <2>1 DEF InSlots
<1>14. Good(u, c, ct, sp)
  BY <1>8, <1>12, <1>13, CopyGood
<1>15. QED
  BY <1>9, <1>14

(* p is the first entry of the chain that matches k, or 0. *)
IsPosition(p, chain, k) ==
  \/ p \in 1..Len(chain) /\ p > 0 /\ Matches(chain[p], k)
  \/ p = 0 /\ \A q \in 1..Len(chain) : ~Matches(chain[q], k)

LEMMA PositionIs ==
  ASSUME NEW chain \in Seq(Entry), NEW k
  PROVE  IsPosition(Position(chain, k), chain, k)
<1> DEFINE I == {q \in 1..Len(chain) : Matches(chain[q], k)}
<1>1. Position(chain, k) = IF I # {} THEN Min(I) ELSE 0
  BY DEF Position, SelectInSeq
<1>2. I \in SUBSET Nat
  OBVIOUS
<1>3. CASE I # {}
  <2>1. Min(I) \in I
    BY <1>2, <1>3, MinIsLeast
  <2>2. Position(chain, k) \in I
    BY <1>1, <1>3, <2>1
  <2>3. QED
    BY <2>2 DEF IsPosition
<1>4. CASE I = {}
  BY <1>1, <1>4 DEF IsPosition
<1>5. QED
  BY <1>3, <1>4

-------------------------------------------------------------------------------
(* Tables with their counts. *)

LEMMA HeldSame ==
  ASSUME NEW t, NEW c, NEW ct, NEW sp, NEW n, NEW h, NEW st, Held(t, c, ct, sp, n, h, st),
         NEW u, SameKeys(u, t, c)
  PROVE  Held(u, c, ct, sp, n, h, st)
<1>1. Good(u, c, ct, sp)
  BY SameKeysGood DEF Held
<1>2. Table(t, c) /\ Table(u, c) /\ \A i \in 0..c - 1 : Len(u[i]) = Len(t[i])
  BY DEF Held, Good, SameKeys
<1>3. PlacesFrom(u, 1) = PlacesFrom(t, 1) /\ PlacesFrom(u, 2) = PlacesFrom(t, 2)
  BY <1>2, SamePlaces
<1>4. Chained(u) = Chained(t)
  BY <1>3 DEF Chained
<1>5. QED
  BY <1>1, <1>3, <1>4 DEF Held

(* One more entry, which is a node unless its slot was empty. *)
LEMMA HeldAppend ==
  ASSUME NEW t, NEW c, NEW ct, NEW sp, NEW n, NEW h, NEW st, Held(t, c, ct, sp, n, h, st),
         NEW i \in 0..c - 1, NEW e, NEW u, Good(u, c, ct, sp), OneLonger(u, t, c, i, e),
         NEW h2, h2 = h + (IF Len(t[i]) = 0 THEN 0 ELSE 1), h2 <= HeapNodes
  PROVE  Held(u, c, ct, sp, n + 1, h2, st)
<1>1. Table(t, c) /\ Table(u, c)
  BY DEF Held, Good
<1>2. /\ Len(u[i]) = Len(t[i]) + 1 /\ Len(t[i]) \in Nat
      /\ \A j \in 0..c - 1 : j # i => Len(u[j]) = Len(t[j])
  BY DEF OneLonger
<1>3. /\ Cardinality(PlacesFrom(u, 1)) = Cardinality(PlacesFrom(t, 1)) + (IF Len(u[i]) >= 1 THEN 1 ELSE 0)
      /\ Cardinality(PlacesFrom(u, 2)) = Cardinality(PlacesFrom(t, 2)) + (IF Len(u[i]) >= 2 THEN 1 ELSE 0)
  BY <1>1, <1>2, OneMorePlace
<1>4. Chained(u) = Chained(t) + (IF Len(t[i]) = 0 THEN 0 ELSE 1) /\ Chained(t) \in Nat
  <2>1. Chained(t) \in Nat
    BY <1>1, FirstsAndNodes
  <2>2. Len(u[i]) >= 2 <=> Len(t[i]) # 0
    BY <1>2
  <2>3. QED
    BY <1>3, <2>1, <2>2 DEF Chained
<1>5. n + 1 = Cardinality(PlacesFrom(u, 1))
  <2>1. Len(u[i]) >= 1
    BY <1>2
  <2>2. QED
    BY <1>3, <2>1 DEF Held
<1>6. h2 \in 0..HeapNodes /\ h2 >= Chained(u) /\ (st \/ h2 = Chained(u))
  <2>1. h \in 0..HeapNodes /\ h >= Chained(t) /\ (st \/ h = Chained(t)) /\ HeapNodes \in Nat
    BY HashmapAssumption DEF Held
  <2>2. QED
    BY <1>4, <2>1
<1>7. QED
  BY <1>5, <1>6 DEF Held

(* One entry less: a node goes unless it was alone in its slot. *)
LEMMA HeldRemove ==
  ASSUME NEW t, NEW c, NEW ct, NEW sp, NEW n, NEW h, NEW st, Held(t, c, ct, sp, n, h, st),
         NEW i \in 0..c - 1, NEW p \in 1..Len(t[i]), NEW u, Removed(u, t, c, i, p),
         NEW h2, h2 = h - (IF Len(t[i]) > 1 THEN 1 ELSE 0)
  PROVE  Held(u, c, ct, sp, n - 1, h2, st) /\ n \in Nat /\ n # 0
<1>1. /\ Good(u, c, ct, sp) /\ Len(t[i]) = Len(u[i]) + 1
      /\ \A j \in 0..c - 1 : j # i => Len(t[j]) = Len(u[j])
  BY RemoveGood DEF Held
<1>2. Table(t, c) /\ Table(u, c)
  BY <1>1 DEF Held, Good
<1>3. /\ Cardinality(PlacesFrom(t, 1)) = Cardinality(PlacesFrom(u, 1)) + (IF Len(t[i]) >= 1 THEN 1 ELSE 0)
      /\ Cardinality(PlacesFrom(t, 2)) = Cardinality(PlacesFrom(u, 2)) + (IF Len(t[i]) >= 2 THEN 1 ELSE 0)
  BY <1>1, <1>2, OneMorePlace
<1>4. Len(u[i]) \in Nat /\ Chained(u) \in Nat /\ Chained(t) \in Nat /\ Cardinality(PlacesFrom(u, 1)) \in Nat
  BY <1>2, SlotFacts, FirstsAndNodes, PlacesAre
<1>5. Chained(t) = Chained(u) + (IF Len(t[i]) > 1 THEN 1 ELSE 0)
  BY <1>1, <1>3, <1>4 DEF Chained
<1>6. n = Cardinality(PlacesFrom(u, 1)) + 1
  <2>1. Len(t[i]) >= 1
    BY <1>1, <1>4
  <2>2. QED
    BY <1>3, <2>1 DEF Held
<1>7. h2 \in 0..HeapNodes /\ h2 >= Chained(u) /\ (st \/ h2 = Chained(u))
  <2>1. h \in 0..HeapNodes /\ h >= Chained(t) /\ (st \/ h = Chained(t)) /\ HeapNodes \in Nat
    BY HashmapAssumption DEF Held
  <2>2. QED
    BY <1>4, <1>5, <2>1
<1>8. n - 1 = Cardinality(PlacesFrom(u, 1)) /\ n \in Nat /\ n # 0
  BY <1>4, <1>6
<1>9. QED
  BY <1>1, <1>7, <1>8 DEF Held

(* An empty table, of which every node was freed. *)
LEMMA HeldVacant ==
  ASSUME NEW c \in Nat, NEW ct, NEW sp, NEW h, h \in 0..HeapNodes, NEW st, st \/ h = 0
  PROVE  Held(Vacant(c), c, ct, sp, 0, h, st) /\ Chained(Vacant(c)) = 0
<1> DEFINE t == Vacant(c)
<1>1. DOMAIN t = 0..c - 1 /\ \A i \in 0..c - 1 : t[i] = <<>>
  BY DEF Vacant
<1>2. <<>> \in Seq(Entry) /\ Len(<<>>) = 0
  OBVIOUS
<1> HIDE DEF t
<1>3. Table(t, c)
  BY <1>1, <1>2 DEF Table
<1>4. \A i \in 0..c - 1 : Len(t[i]) = 0
  BY <1>1, <1>2
<1>5. Good(t, c, ct, sp)
  BY <1>3, <1>4 DEF Good
<1>6. ASSUME NEW n \in Nat, n # 0 PROVE Cardinality(PlacesFrom(t, n)) = 0
  <2>1. ArePlaces(PlacesFrom(t, n), t, c, n)
    BY <1>3, PlacesAre
  <2>2. PlacesFrom(t, n) = {}
    BY <1>4, <1>6, <2>1 DEF ArePlaces
  <2>3. QED
    BY <2>2, FS_EmptySet
<1>7. Cardinality(PlacesFrom(t, 1)) = 0 /\ Chained(t) = 0
  BY <1>6 DEF Chained
<1>8. h >= 0
  BY HashmapAssumption
<1>9. QED
  BY <1>5, <1>7, <1>8 DEF Held, t

(* The table of twice the capacity takes over the entries. *)
LEMMA HeldResize ==
  ASSUME NEW t, NEW c, NEW ct, NEW sp, NEW n, NEW h, NEW st, Held(t, c, ct, sp, n, h, st),
         c # 0, NEW es, Lists(es, t, c)
  PROVE  Held(Rehash(es, 2 * c), 2 * c, ct, sp, n, h - Chained(t) + Chained(Rehash(es, 2 * c)), st)
<1> DEFINE u == Rehash(es, 2 * c)
<1>1. /\ Good(u, 2 * c, ct, sp)
      /\ Cardinality(PlacesFrom(u, 1)) = Cardinality(PlacesFrom(t, 1))
      /\ Chained(u) <= Chained(t)
  BY ResizeKeeps DEF Held
<1> HIDE DEF u
<1>2. Chained(u) \in Nat /\ Chained(t) \in Nat
  BY <1>1, FirstsAndNodes DEF Held, Good
<1>3. h \in 0..HeapNodes /\ h >= Chained(t) /\ (st \/ h = Chained(t)) /\ HeapNodes \in Nat
  BY HashmapAssumption DEF Held
<1> DEFINE h2 == h - Chained(t) + Chained(u)
<1>4. h2 \in 0..HeapNodes /\ h2 >= Chained(u) /\ (st \/ h2 = Chained(u))
  BY <1>1, <1>2, <1>3
<1> HIDE DEF h2
<1>5. Held(u, 2 * c, ct, sp, n, h2, st)
  BY <1>1, <1>4 DEF Held
<1>6. QED
  BY <1>5 DEF h2, u

-------------------------------------------------------------------------------
(* The calls, one by one: each keeps the invariant, and while foreach runs *)
(* none visits an entry again or ends it before everything was visited.    *)

VisitedOnce ==
  /\ loop'.on /\ loop.on /\ loop' # loop =>
       Id(slots[loop'.slot][loop'.pos]) \notin loop.seen
  /\ loop.on /\ ret' = Finished => loop.due = {}

(* hashmap_resize and foreach come to all entries. *)
LEMMA InOrderLists ==
  ASSUME Table(slots, capacity)
  PROVE  /\ Lists(InOrder, slots, capacity)
         /\ InOrder \in Seq(Entry) /\ Len(InOrder) = Cardinality(PlacesFrom(slots, 1))
<1> DEFINE q == [i \in 1..capacity |-> slots[i - 1]]
<1>1. InOrder = FlattenSeq(q)
  BY DEF InOrder
<1>2. q = [i \in 1..capacity |-> slots[i - 1]]
  OBVIOUS
<1> HIDE DEF q
<1>3. Lists(InOrder, slots, capacity)
  BY <1>1, <1>2, FlattenLists
<1>4. InOrder \in Seq(Entry)
  BY <1>3 DEF Lists
<1>5. PICK sl, ps : Listing(InOrder, Len(InOrder), slots, capacity, sl, ps)
  BY <1>3 DEF Lists
<1>6. Len(InOrder) \in Nat
  BY <1>4, LenProperties
<1>7. QED
  BY <1>3, <1>4, <1>5, <1>6, ListingCounts

(* What the table gains behind or before the visited entry does not matter *)
(* to a foreach that runs.                                                 *)
LEMMA VisitingKept ==
  ASSUME NEW t, NEW c, NEW lp, Visiting(lp, t, c), NEW u,
         \A j \in 0..c - 1 : \A p \in 1..Len(t[j]) :
           p \in 1..Len(u[j]) /\ u[j][p].key = t[j][p].key /\ u[j][p].hash = t[j][p].hash
  PROVE  Visiting(lp, u, c)
<1>1. \A j \in 0..c - 1 : \A p \in 1..Len(t[j]) : p \in 1..Len(u[j]) /\ Id(u[j][p]) = Id(t[j][p])
  BY DEF Id
<1>2. lp.slot \in 0..c - 1 /\ lp.pos \in 1..Len(u[lp.slot])
  BY <1>1 DEF Visiting
<1>3. \A d \in lp.due : \E j \in 0..c - 1 : \E p \in 1..Len(u[j]) : d = Id(u[j][p]) /\ Later(lp, j, p)
  <2> SUFFICES ASSUME NEW d \in lp.due
               PROVE  \E j \in 0..c - 1 : \E p \in 1..Len(u[j]) : d = Id(u[j][p]) /\ Later(lp, j, p)
    OBVIOUS
  <2>1. PICK j \in 0..c - 1 : \E p \in 1..Len(t[j]) : d = Id(t[j][p]) /\ Later(lp, j, p)
    BY DEF Visiting
  <2>2. QED
    BY <1>1, <2>1
<1>4. \A d \in lp.seen : \E j \in 0..c - 1 : \E p \in 1..Len(u[j]) : d = Id(u[j][p]) /\ ~Later(lp, j, p)
  <2> SUFFICES ASSUME NEW d \in lp.seen
               PROVE  \E j \in 0..c - 1 : \E p \in 1..Len(u[j]) : d = Id(u[j][p]) /\ ~Later(lp, j, p)
    OBVIOUS
  <2>1. PICK j \in 0..c - 1 : \E p \in 1..Len(t[j]) : d = Id(t[j][p]) /\ ~Later(lp, j, p)
    BY DEF Visiting
  <2>2. QED
    BY <1>1, <2>1
<1>5. QED
  BY <1>2, <1>3, <1>4 DEF Visiting

(* No call but foreach returns what foreach does. *)
LEMMA OtherCalls ==
  ASSUME NEW k, NEW v, NEW r
  PROVE  << <<"put", k, v>>, r>> # Finished /\ << <<"get", k>>, r>> # Finished
<1>1. Len(<<"put", k, v>>) = 3 /\ Len(<<"get", k>>) = 2 /\ Len(<<"foreach">>) = 1
  OBVIOUS
<1>2. Finished[1] = <<"foreach">>
  BY DEF Finished
<1>3. << <<"put", k, v>>, r>>[1] = <<"put", k, v>> /\ << <<"get", k>>, r>>[1] = <<"get", k>>
  OBVIOUS
<1>4. <<"put", k, v>> # <<"foreach">> /\ <<"get", k>> # <<"foreach">>
  BY <1>1
<1>5. QED
  BY <1>2, <1>3, <1>4

(* A key that matches no entry of its slot differs from every key stored:  *)
(* equal bytes have equal hashes, and those select the slot.               *)
LEMMA NewKeyApart ==
  ASSUME Flags, NEW t, NEW c, Good(t, c, content, spoiled), NEW k \in Keys, NEW i,
         i = Hash[content[k]] % c, \A q \in 1..Len(t[i]) : ~Matches(t[i][q], k),
         NEW e, e.key = k, e.hash = Hash[content[k]]
  PROVE  \A j \in 0..c - 1 : \A p \in 1..Len(t[j]) : Apart(e, t[j][p], content, spoiled)
<1> SUFFICES ASSUME NEW j \in 0..c - 1, NEW p \in 1..Len(t[j])
             PROVE  Apart(e, t[j][p], content, spoiled)
  OBVIOUS
<1> DEFINE f == t[j][p]
<1>1. f.hash % c = j /\ Current(f, content, spoiled)
  BY DEF Good
<1>2. ~(f.hash = Hash[content[k]] /\ content[f.key] = content[k])
  <2> SUFFICES ASSUME f.hash = Hash[content[k]], content[f.key] = content[k] PROVE FALSE
    OBVIOUS
  <2>1. j = i
    BY <1>1
  <2>2. Matches(f, k)
    BY DEF Matches
  <2>3. QED
    BY <2>1, <2>2
<1> HIDE DEF f
<1>3. Id(e) # Id(f)
  <2> SUFFICES ASSUME Id(e) = Id(f) PROVE FALSE
    OBVIOUS
  <2>1. e.key = f.key /\ e.hash = f.hash
    BY DEF Id
  <2>2. QED
    BY <1>2, <2>1
<1>4. spoiled \/ content[e.key] # content[f.key]
  <2> SUFFICES ASSUME ~spoiled, content[e.key] = content[f.key] PROVE FALSE
    BY DEF Flags
  <2>1. f.hash = Hash[content[f.key]]
    BY <1>1 DEF Current
  <2>2. QED
    BY <1>2, <2>1
<1>5. QED
  BY <1>3, <1>4 DEF Apart, f

(* The rest of put keeps the invariant, whatever table it works on. *)
LEMMA StoreSafe ==
  ASSUME Flags, exists, loop.on \in BOOLEAN, NEW t, NEW c, NEW h,
         Held(t, c, content, spoiled, count, h, starved),
         c >= MinCapacity, count + 1 <= MaxLoad(c), loop.on => Visiting(loop, t, c),
         NEW k \in Keys, NEW v \in Elem, Store(k, v, t, c, h)
  PROVE  IInv' /\ loop' = loop /\ ret' # Finished
<1> DEFINE i == Hash[content[k]] % c
           p == Position(t[i], k)
           new == [key |-> k, val |-> v, hash |-> Hash[content[k]]]
           h2 == h + IF t[i] = <<>> THEN 0 ELSE 1
<1>1. /\ capacity' = c
      /\ \/ /\ p > 0
            /\ slots' = [t EXCEPT ![i][p].val = v]
            /\ heapNodes' = h /\ UNCHANGED count /\ Returns(<<"put", k, v>>, TRUE)
         \/ /\ p = 0 /\ h2 <= HeapNodes
            /\ slots' = [t EXCEPT ![i] = Append(@, new)]
            /\ heapNodes' = h2 /\ count' = count + 1 /\ Returns(<<"put", k, v>>, TRUE)
         \/ /\ p = 0 /\ t[i] # <<>>
            /\ slots' = t /\ heapNodes' = h /\ UNCHANGED count /\ Returns(<<"put", k, v>>, FALSE)
      /\ UNCHANGED <<exists, content, loop, spoiled, starved>>
  BY Zenon DEF Store
<1>2. Good(t, c, content, spoiled) /\ Table(t, c) /\ c \in Nat /\ c # 0
  <2>1. Good(t, c, content, spoiled) /\ Table(t, c) /\ c \in Nat
    BY DEF Held, Good, Table
  <2>2. c # 0
    BY <2>1, HashFacts
  <2>3. QED
    BY <2>1, <2>2
<1>3. content[k] \in Contents /\ Hash[content[k]] \in Nat /\ Hash[content[k]] \in Range(Hash)
  <2>1. content[k] \in Contents
    BY DEF Flags
  <2>2. QED
    BY <2>1, HashFacts
<1>4. i \in 0..c - 1
  BY <1>2, <1>3, Division
<1>5. i = Hash[content[k]] % c
  OBVIOUS
<1>6. t[i] \in Seq(Entry) /\ Len(t[i]) \in Nat
  BY <1>2, <1>4, SlotFacts
<1>7. IsPosition(p, t[i], k)
  BY <1>6, PositionIs
<1>8. new \in Entry /\ new.key = k /\ new.hash = Hash[content[k]]
  BY <1>3 DEF Entry
<1>9. h2 = h + IF Len(t[i]) = 0 THEN 0 ELSE 1
  <2>1. t[i] = <<>> <=> Len(t[i]) = 0
    BY <1>6, EmptySeq
  <2>2. QED
    BY <2>1
<1>10. /\ exists' = exists /\ content' = content /\ loop' = loop /\ spoiled' = spoiled
       /\ starved' = starved /\ capacity' = c
  BY <1>1
<1>11. Flags'
  BY <1>10 DEF Flags
<1>12. ret' # Finished
  <2>1. \E r : ret' = << <<"put", k, v>>, r>>
    BY <1>1 DEF Returns
  <2>2. QED
    BY <2>1, OtherCalls
<1> HIDE DEF p, i, new, h2
<1>13. ASSUME NEW u, NEW n, NEW m, Held(u, c, content, spoiled, n, m, starved),
              slots' = u, count' = n, heapNodes' = m, n <= MaxLoad(c),
              \A j \in 0..c - 1 : \A q \in 1..Len(t[j]) :
                q \in 1..Len(u[j]) /\ u[j][q].key = t[j][q].key /\ u[j][q].hash = t[j][q].hash
       PROVE  IInv'
  <2>1. Held(slots', capacity', content', spoiled', count', heapNodes', starved')
    BY <1>10, <1>13
  <2>2. loop.on => Visiting(loop', slots', capacity')
    BY <1>10, <1>13, VisitingKept
  <2>3. QED
    BY <1>10, <1>11, <1>12, <1>13, <2>1, <2>2 DEF IInv
<1>14. count \in Nat /\ MaxLoad(c) \in Nat /\ count <= MaxLoad(c)
  <2>1. count \in Nat
    BY <1>2, PlacesAre DEF Held
  <2>2. MaxLoad(c) \in Nat
    BY <1>2, MaxLoadGrows
  <2>3. QED
    BY <2>1, <2>2
<1>15. CASE p > 0 /\ slots' = [t EXCEPT ![i][p].val = v] /\ heapNodes' = h /\ UNCHANGED count
  <2>1. p \in 1..Len(t[i])
    BY <1>7, <1>15 DEF IsPosition
  <2>2. SameKeys(slots', t, c)
    BY <1>2, <1>4, <1>15, <2>1, UpdateSame
  <2>3. Held(slots', c, content, spoiled, count, h, starved)
    BY <2>2, HeldSame
  <2>4. \A j \in 0..c - 1 : \A q \in 1..Len(t[j]) :
          q \in 1..Len(slots'[j]) /\ slots'[j][q].key = t[j][q].key /\ slots'[j][q].hash = t[j][q].hash
    BY <2>2 DEF SameKeys
  <2>5. QED
    BY <1>10, <1>12, <1>13, <1>14, <1>15, <2>3, <2>4
<1>16. CASE /\ p = 0 /\ h2 <= HeapNodes
            /\ slots' = [t EXCEPT ![i] = Append(@, new)]
            /\ heapNodes' = h2 /\ count' = count + 1
  <2> DEFINE u == slots'
  <2>1. Appended(u, t, c, i, new)
    BY <1>2, <1>4, <1>16 DEF Appended, Table
  <2>2. OneLonger(u, t, c, i, new)
    BY <1>2, <1>4, <1>8, <2>1, AppendedIs
  <2>3. \A q \in 1..Len(t[i]) : ~Matches(t[i][q], k)
    BY <1>7, <1>16 DEF IsPosition
  <2>4. \A j \in 0..c - 1 : \A q \in 1..Len(t[j]) : Apart(new, t[j][q], content, spoiled)
    <3>1. i = Hash[content[k]] % c
      BY DEF i
    <3>2. QED
      BY <1>2, <1>8, <2>3, <3>1, NewKeyApart
  <2>5. Current(new, content, spoiled) /\ new.hash % c = i
    BY <1>8 DEF Current, i
  <2>6. Good(u, c, content, spoiled)
    BY <1>2, <1>4, <1>8, <2>1, <2>4, <2>5, AppendGood
  <2>7. Held(u, c, content, spoiled, count + 1, h2, starved)
    BY <1>4, <1>9, <1>16, <2>2, <2>6, HeldAppend DEF h2
  <2>8. \A j \in 0..c - 1 : \A q \in 1..Len(t[j]) :
          q \in 1..Len(u[j]) /\ u[j][q].key = t[j][q].key /\ u[j][q].hash = t[j][q].hash
    BY <2>2 DEF OneLonger
  <2> HIDE DEF u
  <2>9. u = slots'
    BY DEF u
  <2>10. QED
    BY <1>10, <1>12, <1>13, <1>16, <2>7, <2>8, <2>9
<1>17. CASE slots' = t /\ heapNodes' = h /\ UNCHANGED count
  BY <1>10, <1>12, <1>13, <1>14, <1>17
<1>18. QED
  BY <1>1, <1>15, <1>16, <1>17

LEMMA PutSafe ==
  ASSUME IInv, NEW k \in Keys, NEW v \in Elem, Put(k, v)
  PROVE  IInv' /\ VisitedOnce
<1>1. /\ exists
      /\ IF count < MaxLoad(capacity)
         THEN Store(k, v, slots, capacity, heapNodes)
         ELSE /\ ~loop.on
              /\ \/ ResizeFails(k, v)
                 \/ Store(k, v, Rehash(InOrder, 2 * capacity), 2 * capacity,
                          heapNodes - Chained(slots) + Chained(Rehash(InOrder, 2 * capacity)))
  BY Zenon DEF Put
<1>2. /\ Flags /\ Held(slots, capacity, content, spoiled, count, heapNodes, starved)
      /\ capacity >= MinCapacity /\ count <= MaxLoad(capacity)
      /\ loop.on \in BOOLEAN /\ (loop.on => Visiting(loop, slots, capacity))
  BY <1>1 DEF IInv
<1>3. /\ Table(slots, capacity) /\ capacity \in Nat /\ capacity # 0
      /\ count \in Nat /\ count = Cardinality(PlacesFrom(slots, 1))
  <2>1. Table(slots, capacity) /\ capacity \in Nat /\ count = Cardinality(PlacesFrom(slots, 1))
    BY <1>2 DEF Held, Good, Table
  <2>2. count \in Nat
    BY <2>1, PlacesAre
  <2>3. capacity # 0
    BY <1>2, <2>1, HashFacts
  <2>4. QED
    BY <2>1, <2>2, <2>3
<1>4. /\ MaxLoad(capacity) \in Nat /\ MaxLoad(2 * capacity) \in Nat
      /\ MaxLoad(capacity) + 1 <= MaxLoad(2 * capacity)
  BY <1>2, <1>3, MaxLoadGrows
<1>5. InOrder \in Seq(Entry) /\ Len(InOrder) = count /\ Lists(InOrder, slots, capacity)
  BY <1>3, InOrderLists
<1>6. ASSUME loop' = loop, ret' # Finished PROVE VisitedOnce
  BY <1>6 DEF VisitedOnce
<1>7. CASE count < MaxLoad(capacity)
  <2>1. count + 1 <= MaxLoad(capacity)
    BY <1>3, <1>4, <1>7
  <2>2. IInv' /\ loop' = loop /\ ret' # Finished
    BY <1>1, <1>2, <1>7, <2>1, StoreSafe
  <2>3. QED
    BY <1>6, <2>2
<1>8. CASE ~(count < MaxLoad(capacity)) /\ ResizeFails(k, v)
  <2>1. /\ UNCHANGED <<exists, capacity, count, slots, content, loop, spoiled>>
        /\ ret' = << <<"put", k, v>>, FALSE>>
    BY <1>8 DEF ResizeFails, Returns
  <2>2. Held(slots, capacity, content, spoiled, count, heapNodes', starved') /\ starved' \in BOOLEAN
    <3>1. CASE UNCHANGED <<heapNodes, starved>>
      BY <1>2, <3>1 DEF Flags
    <3>2. CASE \E n \in 0..count - 1 :
                 /\ heapNodes' = heapNodes + LostBy(n)
                 /\ heapNodes' <= HeapNodes
                 /\ starved' = TRUE
      <4>1. PICK n \in 0..count - 1 : heapNodes' = heapNodes + LostBy(n) /\ heapNodes' <= HeapNodes /\ starved'
        BY <3>2
      <4>2. LostBy(n) \in Nat
        <5> DEFINE es == SubSeq(InOrder, 1, n)
        <5>1. \A i \in 1..n : InOrder[i] \in Entry
          <6>1. \A i \in 1..n : i \in 1..Len(InOrder)
            BY <1>3, <1>5
          <6>2. QED
            BY <1>5, <6>1, ElementOfSeq
        <5>2. es \in Seq(Entry)
          BY <1>3, <5>1, SubSeqProperties
        <5> HIDE DEF es
        <5>3. Table(Rehash(es, 2 * capacity), 2 * capacity)
          BY <1>3, <5>2, RehashLists
        <5>4. Cardinality(PlacesFrom(Rehash(es, 2 * capacity), 3)) \in Nat
          BY <5>3, PlacesAre
        <5>5. QED
          BY <5>4 DEF LostBy, es
      <4>3. heapNodes \in 0..HeapNodes /\ heapNodes >= Chained(slots) /\ Chained(slots) \in Nat
        BY <1>2, <1>3, FirstsAndNodes DEF Held
      <4>4. heapNodes' \in 0..HeapNodes /\ heapNodes' >= Chained(slots)
        BY <4>1, <4>2, <4>3, HashmapAssumption
      <4>5. QED
        BY <1>2, <4>1, <4>4 DEF Held
    <3>3. QED
      BY <1>8, <3>1, <3>2 DEF ResizeFails
  <2>3. ret' # Finished
    BY <2>1, OtherCalls
  <2>4. Held(slots', capacity', content', spoiled', count', heapNodes', starved')
    BY <2>1, <2>2
  <2>5. Flags'
    BY <1>2, <2>1, <2>2 DEF Flags
  <2>6. ~loop'.on
    BY <1>1, <1>8, <2>1
  <2>7. IInv'
    BY <1>1, <1>2, <2>1, <2>4, <2>5, <2>6 DEF IInv
  <2>8. QED
    BY <1>6, <2>1, <2>3, <2>7
<1>9. CASE /\ ~(count < MaxLoad(capacity)) /\ ~loop.on
           /\ Store(k, v, Rehash(InOrder, 2 * capacity), 2 * capacity,
                    heapNodes - Chained(slots) + Chained(Rehash(InOrder, 2 * capacity)))
  <2> DEFINE t == Rehash(InOrder, 2 * capacity)
             h == heapNodes - Chained(slots) + Chained(t)
             c == 2 * capacity
  <2>1. Held(t, c, content, spoiled, count, h, starved)
    BY <1>2, <1>3, <1>5, HeldResize
  <2>2. c >= MinCapacity /\ count + 1 <= MaxLoad(c)
    BY <1>2, <1>3, <1>4, HashFacts
  <2>3. Store(k, v, t, c, h)
    BY <1>9
  <2> HIDE DEF t, h, c
  <2>4. IInv' /\ loop' = loop /\ ret' # Finished
    BY <1>1, <1>2, <1>9, <2>1, <2>2, <2>3, StoreSafe
  <2>5. QED
    BY <1>6, <2>4
<1>10. QED
  BY <1>1, <1>7, <1>8, <1>9

LEMMA CreateSafe ==
  ASSUME IInv, NEW asked \in Nat, Create(asked)
  PROVE  IInv' /\ VisitedOnce
<1> DEFINE c == Max({asked, MinCapacity})
<1>1. /\ ~exists
      /\ \/ /\ Returns(<<"create">>, TRUE)
            /\ exists' = TRUE /\ capacity' = c /\ slots' = Vacant(c) /\ count' = 0
         \/ Returns(<<"create">>, FALSE) /\ UNCHANGED <<exists, capacity, slots, count>>
      /\ UNCHANGED <<heapNodes, content, loop, spoiled, starved>>
  BY Zenon DEF Create
<1>2. /\ Flags /\ Held(slots, capacity, content, spoiled, count, heapNodes, starved)
      /\ capacity = 0 /\ loop.on \in BOOLEAN /\ ~loop.on
  BY <1>1 DEF IInv
<1>3. c \in Nat /\ c >= MinCapacity
  <2>1. asked \in Nat /\ MinCapacity \in Nat
    BY HashFacts
  <2>2. \E x \in {asked, MinCapacity} : \A y \in {asked, MinCapacity} : x >= y
    BY <2>1
  <2>3. c \in {asked, MinCapacity} /\ \A y \in {asked, MinCapacity} : c >= y
    BY <2>2 DEF Max
  <2>4. QED
    BY <2>1, <2>3
<1> HIDE DEF c
<1>4. VisitedOnce
  BY <1>2 DEF VisitedOnce
<1>5. CASE exists' = TRUE /\ capacity' = c /\ slots' = Vacant(c) /\ count' = 0
  <2>1. heapNodes \in 0..HeapNodes /\ (starved \/ heapNodes = 0)
    <3>1. Table(slots, 0)
      BY <1>2 DEF Held, Good
    <3>2. PlacesFrom(slots, 2) = {}
      BY <3>1 DEF PlacesFrom, Table
    <3>3. Chained(slots) = 0
      BY <3>2, FS_EmptySet DEF Chained
    <3>4. QED
      BY <1>2, <3>3 DEF Held
  <2>2. Held(Vacant(c), c, content, spoiled, 0, heapNodes, starved)
    BY <1>3, <2>1, HeldVacant
  <2>3. Held(slots', capacity', content', spoiled', count', heapNodes', starved')
    BY <1>1, <1>5, <2>2
  <2>4. Flags' /\ ~loop'.on /\ loop'.on \in BOOLEAN
    BY <1>1, <1>2, <1>5 DEF Flags
  <2>5. capacity' >= MinCapacity /\ count' <= MaxLoad(capacity')
    BY <1>3, <1>5, MaxLoadGrows
  <2>6. QED
    BY <1>4, <1>5, <2>3, <2>4, <2>5 DEF IInv
<1>6. CASE UNCHANGED <<exists, capacity, slots, count>>
  BY <1>1, <1>2, <1>4, <1>6 DEF IInv, Flags
<1>7. QED
  BY <1>1, <1>5, <1>6

LEMMA EmptySafe ==
  ASSUME IInv, NEW op, Empty(op)
  PROVE  IInv' /\ VisitedOnce
<1>1. /\ exists /\ ~loop.on
      /\ heapNodes' = heapNodes - Chained(slots) /\ count' = 0
      /\ \/ slots' = Vacant(capacity) /\ UNCHANGED <<exists, capacity>>
         \/ slots' = Vacant(0) /\ capacity' = 0 /\ exists' = FALSE
      /\ UNCHANGED <<content, loop, starved>> /\ spoiled' = FALSE
  <2>1. /\ Idle /\ heapNodes' = heapNodes - Chained(slots) /\ count' = 0
        /\ IF op \in {"clear", "clear_with"}
           THEN slots' = Vacant(capacity) /\ UNCHANGED <<exists, capacity>>
           ELSE slots' = Vacant(0) /\ capacity' = 0 /\ exists' = FALSE
        /\ UNCHANGED <<content, loop, starved>> /\ spoiled' = FALSE
    BY Zenon DEF Empty
  <2>2. exists /\ ~loop.on
    BY <2>1 DEF Idle
  <2>3. QED
    BY <2>1, <2>2
<1>2. /\ Flags /\ Held(slots, capacity, content, spoiled, count, heapNodes, starved)
      /\ capacity >= MinCapacity /\ loop.on \in BOOLEAN
  BY <1>1 DEF IInv
<1>3. Table(slots, capacity) /\ capacity \in Nat
  BY <1>2 DEF Held, Good, Table
<1>4. heapNodes' \in 0..HeapNodes /\ (starved \/ heapNodes' = 0)
  <2>1. /\ heapNodes \in 0..HeapNodes /\ heapNodes >= Chained(slots)
        /\ (starved \/ heapNodes = Chained(slots))
    BY <1>2 DEF Held
  <2>2. Chained(slots) \in Nat /\ HeapNodes \in Nat
    BY <1>3, FirstsAndNodes, HashmapAssumption
  <2>3. QED
    BY <1>1, <2>1, <2>2
<1>5. VisitedOnce
  BY <1>1 DEF VisitedOnce
<1>6. Flags' /\ loop'.on \in BOOLEAN /\ ~loop'.on
  BY <1>1, <1>2 DEF Flags
<1>7. CASE slots' = Vacant(capacity) /\ UNCHANGED <<exists, capacity>>
  <2>1. Held(Vacant(capacity), capacity, content, FALSE, 0, heapNodes', starved)
    BY <1>3, <1>4, HeldVacant
  <2>2. Held(slots', capacity', content', spoiled', count', heapNodes', starved')
    BY <1>1, <1>7, <2>1
  <2>3. capacity' >= MinCapacity /\ count' <= MaxLoad(capacity')
    BY <1>1, <1>2, <1>3, <1>7, MaxLoadGrows
  <2>4. QED
    BY <1>1, <1>5, <1>6, <1>7, <2>2, <2>3 DEF IInv
<1>8. CASE slots' = Vacant(0) /\ capacity' = 0 /\ exists' = FALSE
  <2>1. Held(Vacant(0), 0, content, FALSE, 0, heapNodes', starved)
    BY <1>4, HeldVacant
  <2>2. Held(slots', capacity', content', spoiled', count', heapNodes', starved')
    BY <1>1, <1>8, <2>1
  <2>3. QED
    BY <1>1, <1>5, <1>6, <1>8, <2>2 DEF IInv
<1>9. QED
  BY <1>1, <1>7, <1>8

LEMMA GetSafe ==
  ASSUME IInv, NEW k \in Keys, Get(k)
  PROVE  IInv' /\ VisitedOnce
<1>1. Keep /\ UNCHANGED loop /\ \E r : ret' = << <<"get", k>>, r>>
  BY Zenon DEF Get, Returns
<1>2. ret' # Finished
  BY <1>1, OtherCalls
<1>3. UNCHANGED <<exists, capacity, count, slots, heapNodes, content, spoiled, starved, loop>>
  BY <1>1 DEF Keep
<1>4. VisitedOnce
  BY <1>2, <1>3 DEF VisitedOnce
<1>5. IInv'
  BY <1>2, <1>3 DEF IInv, Flags
<1>6. QED
  BY <1>4, <1>5

LEMMA RemoveSafe ==
  ASSUME IInv, NEW k \in Keys, RemoveKey(k)
  PROVE  IInv' /\ VisitedOnce
<1> DEFINE i == Slot(k)
           p == Position(slots[i], k)
<1>1. /\ Idle
      /\ IF p = 0
         THEN UNCHANGED <<slots, count, heapNodes>>
         ELSE /\ slots' = [slots EXCEPT ![i] = RemoveAt(@, p)]
              /\ count' = count - 1
              /\ heapNodes' = heapNodes - IF Len(slots[i]) > 1 THEN 1 ELSE 0
      /\ UNCHANGED <<exists, capacity, content, loop, spoiled, starved>>
  BY Zenon DEF RemoveKey
<1>2. exists /\ ~loop.on
  BY <1>1 DEF Idle
<1>3. /\ Flags /\ Held(slots, capacity, content, spoiled, count, heapNodes, starved)
      /\ capacity >= MinCapacity /\ count <= MaxLoad(capacity) /\ loop.on \in BOOLEAN
  BY <1>2 DEF IInv
<1>4. Table(slots, capacity) /\ capacity \in Nat /\ capacity # 0
  <2>1. Table(slots, capacity) /\ capacity \in Nat
    BY <1>3 DEF Held, Good, Table
  <2>2. QED
    BY <1>3, <2>1, HashFacts
<1>5. VisitedOnce
  BY <1>1, <1>2 DEF VisitedOnce
<1>6. Flags' /\ ~loop'.on /\ loop'.on \in BOOLEAN
  BY <1>1, <1>2, <1>3 DEF Flags
<1>7. i \in 0..capacity - 1
  <2>1. content[k] \in Contents
    BY <1>3 DEF Flags
  <2>2. Hash[content[k]] \in Nat
    BY <2>1, HashFacts
  <2>3. QED
    BY <1>4, <2>2, Division DEF Slot
<1>8. IsPosition(p, slots[i], k)
  <2>1. slots[i] \in Seq(Entry)
    BY <1>4, <1>7, SlotFacts
  <2>2. QED
    BY <2>1, PositionIs
<1> HIDE DEF p, i
<1>9. CASE p = 0
  <2>1. UNCHANGED <<exists, capacity, count, slots, heapNodes, content, spoiled, starved>>
    BY <1>1, <1>9
  <2>2. Held(slots', capacity', content', spoiled', count', heapNodes', starved')
    BY <1>3, <2>1
  <2>3. QED
    BY <1>2, <1>3, <1>5, <1>6, <2>1, <2>2 DEF IInv
<1>10. CASE p # 0
  <2>1. p \in 1..Len(slots[i])
    BY <1>8, <1>10 DEF IsPosition
  <2> DEFINE u == slots'
             h2 == heapNodes'
  <2>2. Removed(u, slots, capacity, i, p)
    BY <1>1, <1>4, <1>7, <1>10 DEF Removed, Table
  <2>3. h2 = heapNodes - (IF Len(slots[i]) > 1 THEN 1 ELSE 0) /\ count' = count - 1
    BY <1>1, <1>10
  <2> HIDE DEF u, h2
  <2>4. Held(u, capacity, content, spoiled, count - 1, h2, starved) /\ count \in Nat /\ count # 0
    BY <1>3, <1>7, <2>1, <2>2, <2>3, HeldRemove
  <2>5. Held(slots', capacity', content', spoiled', count', heapNodes', starved')
    BY <1>1, <2>3, <2>4 DEF u, h2
  <2>6. MaxLoad(capacity) \in Nat
    BY <1>3, <1>4, MaxLoadGrows
  <2>7. capacity' = capacity /\ exists' = exists /\ count' <= MaxLoad(capacity')
    BY <1>1, <1>3, <2>3, <2>4, <2>6
  <2>8. QED
    BY <1>2, <1>3, <1>5, <1>6, <2>5, <2>7 DEF IInv
<1>11. QED
  BY <1>9, <1>10

(* Bytes that change under a stored key count as spoiled; others are the   *)
(* bytes of no entry.                                                      *)
LEMMA OverwriteSafe ==
  ASSUME IInv, NEW k \in Writable, NEW c \in Scribbles, Overwrite(k, c)
  PROVE  IInv' /\ VisitedOnce
<1>1. /\ content' = [content EXCEPT ![k] = c]
      /\ spoiled' = (spoiled \/ \E e \in Stored : e.key = k /\ content[k] # c)
      /\ UNCHANGED <<exists, capacity, count, slots, heapNodes, loop, ret, starved>>
  BY DEF Overwrite
<1>2. Flags /\ Held(slots, capacity, content, spoiled, count, heapNodes, starved)
  BY DEF IInv
<1>3. Table(slots, capacity)
  BY <1>2 DEF Held, Good
<1>4. \A i \in 0..capacity - 1 : \A p \in 1..Len(slots[i]) : slots[i][p] \in Stored
  <2> SUFFICES ASSUME NEW i \in 0..capacity - 1, NEW p \in 1..Len(slots[i]) PROVE slots[i][p] \in Stored
    OBVIOUS
  <2>1. i \in DOMAIN slots /\ p \in DOMAIN slots[i]
    BY <1>3, SlotFacts DEF Table
  <2>2. slots[i][p] \in ToSet(slots[i])
    BY <2>1 DEF ToSet
  <2>3. QED
    BY <2>1, <2>2 DEF Stored
<1>5. spoiled' \in BOOLEAN /\ (spoiled => spoiled')
  BY <1>1, <1>2 DEF Flags
<1>6. content' \in [Keys -> Contents]
  <2>1. c \in Contents
    BY HashmapAssumption
  <2>2. QED
    BY <1>1, <1>2, <2>1 DEF Flags
<1>7. \A i \in 0..capacity - 1 : \A p \in 1..Len(slots[i]) :
        spoiled' \/ content'[slots[i][p].key] = content[slots[i][p].key]
  <2> SUFFICES ASSUME NEW i \in 0..capacity - 1, NEW p \in 1..Len(slots[i]), ~spoiled'
               PROVE  content'[slots[i][p].key] = content[slots[i][p].key]
    BY <1>5
  <2>1. slots[i][p].key = k => content[k] = c
    BY <1>1, <1>4
  <2>2. slots[i][p].key \in Keys
    BY <1>3, SlotFacts, HashFacts
  <2>3. QED
    BY <1>1, <1>2, <2>1, <2>2 DEF Flags
<1>8. Good(slots, capacity, content', spoiled')
  <2>1. \A i \in 0..capacity - 1 : \A p \in 1..Len(slots[i]) :
          slots[i][p].hash % capacity = i /\ Current(slots[i][p], content', spoiled')
    <3> SUFFICES ASSUME NEW i \in 0..capacity - 1, NEW p \in 1..Len(slots[i])
                 PROVE  slots[i][p].hash % capacity = i /\ Current(slots[i][p], content', spoiled')
      OBVIOUS
    <3>1. slots[i][p].hash % capacity = i /\ Current(slots[i][p], content, spoiled)
      BY <1>2 DEF Held, Good
    <3>2. spoiled' \/ content'[slots[i][p].key] = content[slots[i][p].key]
      BY <1>7
    <3>3. QED
      BY <1>5, <3>1, <3>2 DEF Current
  <2>2. \A i, j \in 0..capacity - 1 : \A p \in 1..Len(slots[i]), q \in 1..Len(slots[j]) :
          i # j \/ p # q => Apart(slots[i][p], slots[j][q], content', spoiled')
    <3> SUFFICES ASSUME NEW i \in 0..capacity - 1, NEW j \in 0..capacity - 1,
                        NEW p \in 1..Len(slots[i]), NEW q \in 1..Len(slots[j]), i # j \/ p # q
                 PROVE  Apart(slots[i][p], slots[j][q], content', spoiled')
      OBVIOUS
    <3>1. Apart(slots[i][p], slots[j][q], content, spoiled)
      BY <1>2 DEF Held, Good
    <3>2. /\ spoiled' \/ content'[slots[i][p].key] = content[slots[i][p].key]
          /\ spoiled' \/ content'[slots[j][q].key] = content[slots[j][q].key]
      BY <1>7
    <3>3. QED
      BY <1>5, <3>1, <3>2 DEF Apart
  <2>3. QED
    BY <1>3, <2>1, <2>2 DEF Good
<1>9. Held(slots, capacity, content', spoiled', count, heapNodes, starved)
  BY <1>2, <1>8 DEF Held
<1>10. Held(slots', capacity', content', spoiled', count', heapNodes', starved')
  BY <1>1, <1>9
<1>11. Flags'
  BY <1>1, <1>2, <1>5, <1>6 DEF Flags
<1>12. IInv'
  BY <1>1, <1>10, <1>11 DEF IInv
<1>13. VisitedOnce
  BY <1>1 DEF VisitedOnce, IInv
<1>14. QED
  BY <1>12, <1>13

(* foreach goes on from position p of slot i: what is due is there or      *)
(* behind, what was seen is not.                                           *)
Ahead(i, p, j, q) == j > i \/ (j = i /\ q >= p)

Between(i, p, due, seen) ==
  /\ i \in 0..capacity - 1 /\ p \in 1..Len(slots[i]) + 1
  /\ \A d \in due : \E j \in 0..capacity - 1 : \E q \in 1..Len(slots[j]) :
       d = Id(slots[j][q]) /\ Ahead(i, p, j, q)
  /\ \A d \in seen : \E j \in 0..capacity - 1 : \E q \in 1..Len(slots[j]) :
       d = Id(slots[j][q]) /\ ~Ahead(i, p, j, q)

(* What is visited next was not seen before, and nothing due is passed.    *)
LEMMA VisitIs ==
  ASSUME Good(slots, capacity, content, spoiled), NEW i, NEW p, NEW due, NEW seen,
         Between(i, p, due, seen), VisitFrom(i, p, due, seen)
  PROVE  \/ loop' = NoLoop /\ due = {}
         \/ /\ loop'.on = TRUE /\ Visiting(loop', slots, capacity)
            /\ Id(slots[loop'.slot][loop'.pos]) \notin seen /\ ret' # Finished
<1> DEFINE later == {j \in i + 1..capacity - 1 : slots[j] # <<>>}
           at    == IF i \in DOMAIN slots /\ p <= Len(slots[i]) THEN <<i, p>>
                    ELSE IF later # {} THEN <<Min(later), 1>> ELSE <<>>
           e     == slots[at[1]][at[2]]
<1>1. IF at = <<>>
      THEN loop' = NoLoop /\ Returns(<<"foreach">>, TRUE)
      ELSE /\ loop' = [on |-> TRUE, slot |-> at[1], pos |-> at[2],
                       due |-> due \ {Id(e)}, seen |-> seen \cup {Id(e)}]
           /\ Returns(<<"visit">>, [key |-> e.key, val |-> e.val])
  BY Zenon DEF VisitFrom
<1>2. Table(slots, capacity) /\ capacity \in Nat /\ DOMAIN slots = 0..capacity - 1
  BY DEF Good, Table
<1>3. /\ i \in 0..capacity - 1 /\ p \in 1..Len(slots[i]) + 1
      /\ \A d \in due : \E j \in 0..capacity - 1 : \E q \in 1..Len(slots[j]) :
           d = Id(slots[j][q]) /\ Ahead(i, p, j, q)
      /\ \A d \in seen : \E j \in 0..capacity - 1 : \E q \in 1..Len(slots[j]) :
           d = Id(slots[j][q]) /\ ~Ahead(i, p, j, q)
  BY DEF Between
<1>4. \A j \in 0..capacity - 1 : Len(slots[j]) \in Nat /\ (slots[j] = <<>> <=> Len(slots[j]) = 0)
  <2> SUFFICES ASSUME NEW j \in 0..capacity - 1
               PROVE  Len(slots[j]) \in Nat /\ (slots[j] = <<>> <=> Len(slots[j]) = 0)
    OBVIOUS
  <2>1. slots[j] \in Seq(Entry) /\ Len(slots[j]) \in Nat
    BY <1>2, SlotFacts
  <2>2. QED
    BY <2>1, EmptySeq
(* The place it comes to: nothing is between. *)
<1>5. ASSUME NEW a \in 0..capacity - 1, NEW b \in 1..Len(slots[a]), at = <<a, b>>, Ahead(i, p, a, b),
             \A j \in 0..capacity - 1 : \A q \in 1..Len(slots[j]) :
               Ahead(i, p, j, q) => (j = a /\ q = b) \/ j > a \/ (j = a /\ q > b)
      PROVE  /\ loop'.on = TRUE /\ Visiting(loop', slots, capacity)
             /\ Id(slots[loop'.slot][loop'.pos]) \notin seen /\ ret' # Finished
  <2>1. at # <<>> /\ at[1] = a /\ at[2] = b
    BY <1>5
  <2> DEFINE f == slots[a][b]
  <2>2. /\ loop'.on = TRUE /\ loop'.slot = a /\ loop'.pos = b
        /\ loop'.due = due \ {Id(f)} /\ loop'.seen = seen \cup {Id(f)}
        /\ ret' = << <<"visit">>, [key |-> f.key, val |-> f.val]>>
    <3>1. e = f
      BY <2>1
    <3> HIDE DEF at, e, f
    <3>2. /\ loop' = [on |-> TRUE, slot |-> at[1], pos |-> at[2],
                      due |-> due \ {Id(e)}, seen |-> seen \cup {Id(e)}]
          /\ ret' = << <<"visit">>, [key |-> e.key, val |-> e.val]>>
      BY <1>1, <2>1 DEF Returns
    <3>3. QED
      BY <2>1, <3>1, <3>2
  <2> HIDE DEF at, e, later
  <2>3. ret' # Finished
    <3>1. <<"visit">> # <<"foreach">>
      OBVIOUS
    <3>2. QED
      BY <2>2, <3>1 DEF Finished
  <2>4. \A d \in seen : d # Id(f)
    <3> SUFFICES ASSUME NEW d \in seen PROVE d # Id(f)
      OBVIOUS
    <3>1. PICK j \in 0..capacity - 1 : \E q \in 1..Len(slots[j]) : d = Id(slots[j][q]) /\ ~Ahead(i, p, j, q)
      BY <1>3
    <3>2. PICK q \in 1..Len(slots[j]) : d = Id(slots[j][q]) /\ ~Ahead(i, p, j, q)
      BY <3>1
    <3>3. j # a \/ q # b
      BY <1>5, <3>2
    <3>4. Apart(slots[j][q], slots[a][b], content, spoiled)
      BY <3>3 DEF Good
    <3>5. QED
      BY <3>2, <3>4 DEF Apart
  <2>5. Visiting(loop', slots, capacity)
    <3>1. loop'.slot \in 0..capacity - 1 /\ loop'.pos \in 1..Len(slots[loop'.slot])
      BY <2>2
    <3>2. \A j, q : Later(loop', j, q) <=> j > a \/ (j = a /\ q > b)
      BY <2>2 DEF Later
    <3>3. \A d \in loop'.due : \E j \in 0..capacity - 1 : \E q \in 1..Len(slots[j]) :
            d = Id(slots[j][q]) /\ Later(loop', j, q)
      <4> SUFFICES ASSUME NEW d \in loop'.due
                   PROVE  \E j \in 0..capacity - 1 : \E q \in 1..Len(slots[j]) :
                            d = Id(slots[j][q]) /\ Later(loop', j, q)
        OBVIOUS
      <4>1. d \in due /\ d # Id(f)
        BY <2>2
      <4>2. PICK j \in 0..capacity - 1 : \E q \in 1..Len(slots[j]) : d = Id(slots[j][q]) /\ Ahead(i, p, j, q)
        BY <1>3, <4>1
      <4>3. PICK q \in 1..Len(slots[j]) : d = Id(slots[j][q]) /\ Ahead(i, p, j, q)
        BY <4>2
      <4>4. ~(j = a /\ q = b)
        BY <4>1, <4>3
      <4>5. j > a \/ (j = a /\ q > b)
        BY <1>5, <4>3, <4>4
      <4>6. QED
        BY <3>2, <4>3, <4>5
    <3>4. \A d \in loop'.seen : \E j \in 0..capacity - 1 : \E q \in 1..Len(slots[j]) :
            d = Id(slots[j][q]) /\ ~Later(loop', j, q)
      <4> SUFFICES ASSUME NEW d \in loop'.seen
                   PROVE  \E j \in 0..capacity - 1 : \E q \in 1..Len(slots[j]) :
                            d = Id(slots[j][q]) /\ ~Later(loop', j, q)
        OBVIOUS
      <4>1. CASE d = Id(f)
        <5>1. ~Later(loop', a, b)
          BY <1>4, <3>2
        <5>2. QED
          BY <4>1, <5>1
      <4>2. CASE d # Id(f)
        <5>1. d \in seen
          BY <2>2, <4>2
        <5>2. PICK j \in 0..capacity - 1 : \E q \in 1..Len(slots[j]) : d = Id(slots[j][q]) /\ ~Ahead(i, p, j, q)
          BY <1>3, <5>1
        <5>3. PICK q \in 1..Len(slots[j]) : d = Id(slots[j][q]) /\ ~Ahead(i, p, j, q)
          BY <5>2
        <5>4. ~(j > a \/ (j = a /\ q > b))
          <6>1. /\ i \in Int /\ p \in Int /\ j \in Int /\ q \in Int /\ a \in Int /\ b \in Int
                /\ a > i \/ (a = i /\ b >= p)
                /\ ~(j > i \/ (j = i /\ q >= p))
            BY <1>2, <1>3, <1>4, <1>5, <5>3 DEF Ahead
          <6>2. QED
            BY <6>1
        <5>5. QED
          BY <3>2, <5>3, <5>4
      <4>3. QED
        BY <4>1, <4>2
    <3>5. QED
      BY <3>1, <3>3, <3>4 DEF Visiting
  <2>6. QED
    BY <2>2, <2>3, <2>4, <2>5
<1>6. CASE p <= Len(slots[i])
  <2>1. at = <<i, p>>
    BY <1>2, <1>3, <1>6
  <2>2. p \in 1..Len(slots[i]) /\ Ahead(i, p, i, p)
    BY <1>3, <1>4, <1>6 DEF Ahead
  <2>3. \A j \in 0..capacity - 1 : \A q \in 1..Len(slots[j]) :
          Ahead(i, p, j, q) => (j = i /\ q = p) \/ j > i \/ (j = i /\ q > p)
    <3> SUFFICES ASSUME NEW j \in 0..capacity - 1, NEW q \in 1..Len(slots[j]), Ahead(i, p, j, q)
                 PROVE  (j = i /\ q = p) \/ j > i \/ (j = i /\ q > p)
      OBVIOUS
    <3>1. (j > i \/ (j = i /\ q >= p)) /\ q \in Int /\ p \in Int
      BY <2>2 DEF Ahead
    <3>2. QED
      BY <3>1
  <2> HIDE DEF at
  <2>4. QED
    BY <1>3, <1>5, <2>1, <2>2, <2>3
<1>7. CASE ~(p <= Len(slots[i]))
  <2>1. \A j \in 0..capacity - 1 : \A q \in 1..Len(slots[j]) : Ahead(i, p, j, q) => j \in later
    <3> SUFFICES ASSUME NEW j \in 0..capacity - 1, NEW q \in 1..Len(slots[j]), Ahead(i, p, j, q)
                 PROVE  j \in later
      OBVIOUS
    <3>1. j > i
      BY <1>3, <1>4, <1>7 DEF Ahead
    <3>2. slots[j] # <<>>
      BY <1>4
    <3>3. QED
      BY <1>2, <1>3, <3>1, <3>2
  <2>2. CASE later = {}
    <3>1. at = <<>>
      BY <1>7, <2>2
    <3>2. loop' = NoLoop
      BY <1>1, <3>1
    <3>3. due = {}
      BY <1>3, <2>1, <2>2
    <3>4. QED
      BY <3>2, <3>3
  <2>3. CASE later # {}
    <3> DEFINE a == Min(later)
    <3>1. at = <<a, 1>>
      BY <1>7, <2>3
    <3>2. later \in SUBSET Nat
      BY <1>2, <1>3
    <3>3. a \in later /\ \A y \in later : a <= y
      BY <2>3, <3>2, MinIsLeast
    <3>4. a \in 0..capacity - 1 /\ a > i /\ slots[a] # <<>>
      BY <1>2, <1>3, <3>3
    <3> HIDE DEF a
    <3>5. 1 \in 1..Len(slots[a]) /\ Ahead(i, p, a, 1)
      BY <1>4, <3>4 DEF Ahead
    <3>6. \A j \in 0..capacity - 1 : \A q \in 1..Len(slots[j]) :
            Ahead(i, p, j, q) => (j = a /\ q = 1) \/ j > a \/ (j = a /\ q > 1)
      <4> SUFFICES ASSUME NEW j \in 0..capacity - 1, NEW q \in 1..Len(slots[j]), Ahead(i, p, j, q)
                   PROVE  (j = a /\ q = 1) \/ j > a \/ (j = a /\ q > 1)
        OBVIOUS
      <4>1. a <= j
        BY <2>1, <3>3
      <4> HIDE DEF later, at
      <4>2. QED
        BY <1>4, <3>4, <4>1
    <3> HIDE DEF at
    <3>7. QED
      BY <1>5, <3>1, <3>4, <3>5, <3>6
  <2>4. QED
    BY <2>2, <2>3
<1>8. QED
  BY <1>6, <1>7

(* The cases of VisitIs for the calls that go on with a foreach. *)
LEMMA VisitSafe ==
  ASSUME IInv, exists, NEW i, NEW p, NEW due, NEW seen, Between(i, p, due, seen),
         VisitFrom(i, p, due, seen), Keep
  PROVE  /\ IInv'
         /\ loop'.on => Id(slots[loop'.slot][loop'.pos]) \notin seen /\ ret' # Finished
         /\ ~loop'.on => due = {}
<1>1. UNCHANGED <<exists, capacity, count, slots, heapNodes, content, spoiled, starved>>
  BY DEF Keep
<1>2. Good(slots, capacity, content, spoiled)
  BY DEF IInv, Held
<1>3. \/ loop' = NoLoop /\ due = {}
      \/ /\ loop'.on = TRUE /\ Visiting(loop', slots, capacity)
         /\ Id(slots[loop'.slot][loop'.pos]) \notin seen /\ ret' # Finished
  BY <1>2, VisitIs
<1>4. Flags' /\ Held(slots', capacity', content', spoiled', count', heapNodes', starved')
  BY <1>1 DEF IInv, Flags
<1>5. CASE loop' = NoLoop /\ due = {}
  <2>1. loop'.on = FALSE
    BY <1>5 DEF NoLoop
  <2>2. QED
    BY <1>1, <1>4, <1>5, <2>1 DEF IInv
<1>6. CASE /\ loop'.on = TRUE /\ Visiting(loop', slots, capacity)
           /\ Id(slots[loop'.slot][loop'.pos]) \notin seen /\ ret' # Finished
  BY <1>1, <1>4, <1>6 DEF IInv
<1>7. QED
  BY <1>3, <1>5, <1>6

LEMMA BeginSafe ==
  ASSUME IInv, ForeachBegin
  PROVE  IInv' /\ VisitedOnce
<1> DEFINE due == {Id(e) : e \in Stored}
<1>1. exists /\ ~loop.on /\ VisitFrom(0, 1, due, {}) /\ Keep
  BY DEF ForeachBegin, Idle
<1>2. Table(slots, capacity) /\ capacity \in Nat /\ capacity # 0
  <2>1. Table(slots, capacity) /\ capacity \in Nat
    BY DEF IInv, Held, Good, Table
  <2>2. QED
    BY <1>1, <2>1, HashFacts DEF IInv
<1>3. 0 \in 0..capacity - 1 /\ 1 \in 1..Len(slots[0]) + 1
  <2>1. 0 \in 0..capacity - 1
    BY <1>2
  <2>2. QED
    BY <1>2, <2>1, SlotFacts
<1>4. \A d \in due : \E j \in 0..capacity - 1 : \E q \in 1..Len(slots[j]) :
        d = Id(slots[j][q]) /\ Ahead(0, 1, j, q)
  <2> SUFFICES ASSUME NEW e \in Stored
               PROVE  \E j \in 0..capacity - 1 : \E q \in 1..Len(slots[j]) :
                        Id(e) = Id(slots[j][q]) /\ Ahead(0, 1, j, q)
    OBVIOUS
  <2>1. PICK j \in DOMAIN slots : e \in ToSet(slots[j])
    BY DEF Stored
  <2>2. PICK q \in DOMAIN slots[j] : e = slots[j][q]
    BY <2>1 DEF ToSet
  <2>3. j \in 0..capacity - 1
    BY <1>2 DEF Table
  <2>4. q \in 1..Len(slots[j])
    BY <1>2, <2>2, <2>3, SlotFacts
  <2>5. Ahead(0, 1, j, q)
    BY <1>2, <2>3, <2>4 DEF Ahead
  <2>6. QED
    BY <2>2, <2>3, <2>4, <2>5
<1> HIDE DEF due
<1>5. Between(0, 1, due, {})
  BY <1>3, <1>4 DEF Between
<1>6. IInv'
  BY <1>1, <1>5, VisitSafe
<1>7. VisitedOnce
  BY <1>1 DEF VisitedOnce
<1>8. QED
  BY <1>6, <1>7

LEMMA StepSafe ==
  ASSUME IInv, ForeachStep
  PROVE  IInv' /\ VisitedOnce
<1> DEFINE i == loop.slot
           p == loop.pos
<1>1. loop.on /\ VisitFrom(i, p + 1, loop.due, loop.seen) /\ Keep
  BY DEF ForeachStep
<1>2. exists /\ Visiting(loop, slots, capacity) /\ Table(slots, capacity)
  BY <1>1 DEF IInv, Held, Good
<1>3. /\ i \in 0..capacity - 1 /\ p \in 1..Len(slots[i])
      /\ \A d \in loop.due : \E j \in 0..capacity - 1 : \E q \in 1..Len(slots[j]) :
           d = Id(slots[j][q]) /\ Later(loop, j, q)
      /\ \A d \in loop.seen : \E j \in 0..capacity - 1 : \E q \in 1..Len(slots[j]) :
           d = Id(slots[j][q]) /\ ~Later(loop, j, q)
  BY <1>2 DEF Visiting
<1>4. \A j \in 0..capacity - 1 : Len(slots[j]) \in Nat
  BY <1>2, SlotFacts
<1>5. p + 1 \in 1..Len(slots[i]) + 1
  BY <1>3, <1>4
<1>6. \A j \in 0..capacity - 1 : \A q \in 1..Len(slots[j]) : Later(loop, j, q) <=> Ahead(i, p + 1, j, q)
  <2> SUFFICES ASSUME NEW j \in 0..capacity - 1, NEW q \in 1..Len(slots[j])
               PROVE  Later(loop, j, q) <=> Ahead(i, p + 1, j, q)
    OBVIOUS
  <2>1. p \in Int /\ q \in Int
    BY <1>3
  <2>2. q > p <=> q >= p + 1
    BY <2>1
  <2>3. QED
    BY <2>2 DEF Later, Ahead
<1>7. Between(i, p + 1, loop.due, loop.seen)
  <2>1. \A d \in loop.due : \E j \in 0..capacity - 1 : \E q \in 1..Len(slots[j]) :
          d = Id(slots[j][q]) /\ Ahead(i, p + 1, j, q)
    BY <1>3, <1>6
  <2>2. \A d \in loop.seen : \E j \in 0..capacity - 1 : \E q \in 1..Len(slots[j]) :
          d = Id(slots[j][q]) /\ ~Ahead(i, p + 1, j, q)
    BY <1>3, <1>6
  <2>3. QED
    BY <1>3, <1>5, <2>1, <2>2 DEF Between
<1> HIDE DEF i, p
<1>8. /\ IInv'
      /\ loop'.on => Id(slots[loop'.slot][loop'.pos]) \notin loop.seen /\ ret' # Finished
      /\ ~loop'.on => loop.due = {}
  BY <1>1, <1>2, <1>7, VisitSafe
<1>9. VisitedOnce
  BY <1>8 DEF VisitedOnce
<1>10. QED
  BY <1>8, <1>9

LEMMA StopSafe ==
  ASSUME IInv, ForeachStop
  PROVE  IInv' /\ VisitedOnce
<1>1. /\ loop' = NoLoop /\ ret' = << <<"foreach">>, FALSE>>
      /\ UNCHANGED <<exists, capacity, count, slots, heapNodes, content, spoiled, starved>>
  BY DEF ForeachStop, Returns, Keep
<1>2. loop'.on = FALSE
  BY <1>1 DEF NoLoop
<1>3. ret' # Finished
  <2>1. ret'[2] = FALSE /\ Finished[2] = TRUE
    BY <1>1 DEF Finished
  <2>2. QED
    BY <2>1
<1>4. VisitedOnce
  BY <1>2, <1>3 DEF VisitedOnce
<1>5. IInv'
  BY <1>1, <1>2 DEF IInv, Flags
<1>6. QED
  BY <1>4, <1>5

-------------------------------------------------------------------------------
(* The theorems. *)

LEMMA InitSafe == Init => IInv
<1> SUFFICES ASSUME Init PROVE IInv
  OBVIOUS
<1>1. /\ exists = FALSE /\ capacity = 0 /\ count = 0 /\ slots = Vacant(0) /\ heapNodes = 0
      /\ loop.on = FALSE /\ content = Given /\ spoiled = FALSE /\ starved = FALSE
  BY DEF Init, NoLoop
<1>2. 0 \in 0..HeapNodes
  BY HashmapAssumption
<1>3. Held(Vacant(0), 0, content, spoiled, 0, 0, starved)
  BY <1>2, HeldVacant
<1>4. Flags
  BY <1>1, HashmapAssumption DEF Flags
<1>5. QED
  BY <1>1, <1>3, <1>4 DEF IInv

LEMMA NextSafe == IInv /\ [Next]_vars => IInv' /\ (VisitedOnce \/ UNCHANGED vars)
<1> SUFFICES ASSUME IInv, [Next]_vars PROVE IInv' /\ (VisitedOnce \/ UNCHANGED vars)
  OBVIOUS
<1>1. ASSUME NEW asked \in Capacities, Create(asked) PROVE IInv' /\ VisitedOnce
  BY <1>1, CreateSafe, HashmapAssumption
<1>2. ASSUME NEW op \in {"clear", "destroy", "clear_with", "destroy_with"}, Empty(op)
      PROVE  IInv' /\ VisitedOnce
  BY <1>2, EmptySafe
<1>3. ASSUME NEW k \in Keys, Get(k) PROVE IInv' /\ VisitedOnce
  BY <1>3, GetSafe
<1>4. ASSUME NEW k \in Keys, RemoveKey(k) PROVE IInv' /\ VisitedOnce
  BY <1>4, RemoveSafe
<1>5. ASSUME NEW k \in Keys, NEW v \in Elem, Put(k, v) PROVE IInv' /\ VisitedOnce
  BY <1>5, PutSafe
<1>6. ASSUME NEW k \in Writable, NEW c \in Scribbles, Overwrite(k, c) PROVE IInv' /\ VisitedOnce
  BY <1>6, OverwriteSafe
<1>7. CASE ForeachBegin
  BY <1>7, BeginSafe
<1>8. CASE ForeachStep
  BY <1>8, StepSafe
<1>9. CASE ForeachStop
  BY <1>9, StopSafe
<1>10. CASE UNCHANGED vars
  BY <1>10 DEF vars, IInv, Flags
<1>11. QED
  BY <1>1, <1>2, <1>3, <1>4, <1>5, <1>6, <1>7, <1>8, <1>9, <1>10 DEF Next

(* The invariant holds whatever calls are made in whatever order. *)
LEMMA Inductive == Spec => []IInv
<1>1. Init => IInv
  BY InitSafe
<1>2. IInv /\ [Next]_vars => IInv'
  BY NextSafe
<1>3. QED
  BY <1>1, <1>2, PTL DEF Spec

(* The variables keep their types, and the table the length of its         *)
(* capacity, through every resize.                                         *)
THEOREM TypeCorrect == Spec => []TypeOK
<1>1. IInv => TypeOK
  <2> SUFFICES ASSUME IInv PROVE TypeOK
    OBVIOUS
  <2>1. /\ Flags /\ Table(slots, capacity) /\ heapNodes \in 0..HeapNodes
        /\ count = Cardinality(PlacesFrom(slots, 1))
    BY DEF IInv, Held, Good
  <2>2. count \in Nat
    BY <2>1, PlacesAre
  <2>3. QED
    BY <2>1, <2>2 DEF TypeOK, Flags, Table
<1>2. QED
  BY <1>1, Inductive, PTL

(* hashmap_put, _remove and _resize keep every entry in the slot of its    *)
(* hash and store no key twice, by pointer or, unless the caller wrote to  *)
(* a stored key, by bytes: for every hash function and load factor.        *)
THEOREM KeysUnique == Spec => []UniqueKeys
<1>1. IInv => UniqueKeys
  <2> SUFFICES ASSUME IInv, NEW i \in DOMAIN slots, NEW j \in DOMAIN slots,
                      NEW p \in DOMAIN slots[i], NEW q \in DOMAIN slots[j]
               PROVE  /\ slots[i][p].hash % capacity = i
                      /\ <<i, p>> # <<j, q>> =>
                           /\ Id(slots[i][p]) # Id(slots[j][q])
                           /\ spoiled \/ content[slots[i][p].key] # content[slots[j][q].key]
    BY DEF UniqueKeys
  <2>1. Good(slots, capacity, content, spoiled) /\ Table(slots, capacity)
    BY DEF IInv, Held, Good
  <2>2. i \in 0..capacity - 1 /\ j \in 0..capacity - 1
    BY <2>1 DEF Table
  <2>3. p \in 1..Len(slots[i]) /\ q \in 1..Len(slots[j])
    BY <2>1, <2>2, SlotFacts
  <2>4. slots[i][p].hash % capacity = i
    BY <2>1, <2>2, <2>3 DEF Good
  <2>5. i # j \/ p # q => Apart(slots[i][p], slots[j][q], content, spoiled)
    BY <2>1, <2>2, <2>3 DEF Good
  <2>6. QED
    BY <2>4, <2>5 DEF Apart
<1>2. QED
  BY <1>1, Inductive, PTL

(* map->count is the number of entries that foreach and resize go through, *)
(* and a put never takes it over max_load, even when resizing failed.      *)
THEOREM LoadWithinBounds == Spec => []LoadBounded
<1>1. IInv => LoadBounded
  <2> SUFFICES ASSUME IInv PROVE LoadBounded
    OBVIOUS
  <2>1. Table(slots, capacity) /\ count = Cardinality(PlacesFrom(slots, 1))
    BY DEF IInv, Held, Good
  <2>2. count = Len(InOrder)
    BY <2>1, InOrderLists
  <2>3. QED
    BY <2>2 DEF LoadBounded, IInv
<1>2. QED
  BY <1>1, Inductive, PTL

(* No chained node is freed twice or lost by put, remove, clear, destroy   *)
(* or a resize that succeeds: only one that ran out of memory half way     *)
(* loses some.                                                             *)
THEOREM NodesKept == Spec => []NodesAccounted
<1>1. IInv => NodesAccounted
  BY DEF IInv, Held, NodesAccounted
<1>2. QED
  BY <1>1, Inductive, PTL

(* foreach comes to every entry that was there when it began, and to none  *)
(* twice, whatever its callback puts.                                      *)
THEOREM EveryEntryVisitedOnce == Spec => ForeachVisitsOnce
<1>1. IInv /\ [Next]_vars =>
        [ /\ loop'.on /\ loop.on /\ loop' # loop =>
               Id(slots[loop'.slot][loop'.pos]) \notin loop.seen
          /\ loop.on /\ ret' = << <<"foreach">>, TRUE>> => loop.due = {} ]_vars
  BY NextSafe DEF VisitedOnce, Finished
<1>2. QED
  BY <1>1, Inductive, PTL DEF Spec, ForeachVisitsOnce

-------------------------------------------------------------------------------
(***************************************************************************)
(* Hashmap implements MapSpec: seen through the bytes of its keys, every   *)
(* call on the table is one on the map, with the same answer, until the    *)
(* caller writes to a stored key.                                          *)
(***************************************************************************)

(* The pair of pointers that an entry holds. *)
Pair(e) == [key |-> e.key, val |-> e.val]

(* The entries of table t. *)
Entries(t) == UNION {ToSet(t[i]) : i \in DOMAIN t}

(* The map that a set S of entries is, when the keys have the bytes ct. *)
MapOf(S, ct) ==
  [b \in {ct[e.key] : e \in S} |-> Pair(CHOOSE e \in S : ct[e.key] = b)]

(* The entries of S differ in the bytes of their keys. *)
Distinct(S, ct) == \A e, f \in S : ct[e.key] = ct[f.key] => e = f

-------------------------------------------------------------------------------
(* The map of a set of entries. *)

LEMMA AsMapIs == AsMap = MapOf(Entries(slots), content)
BY Zenon DEF AsMap, Bytes, Stored, MapOf, Entries, Pair

LEMMA AsMapNext == AsMap' = MapOf(Entries(slots'), content')
BY Zenon DEF AsMap, Bytes, Stored, MapOf, Entries, Pair

(* m leads from the bytes of each key to its entry, and from nothing else. *)
IsMap(m, S, ct) ==
  /\ m = [b \in DOMAIN m |-> m[b]]
  /\ \A b : b \in DOMAIN m <=> \E e \in S : b = ct[e.key]
  /\ \A e \in S : m[ct[e.key]] = Pair(e)

LEMMA MapIs ==
  ASSUME NEW S, NEW ct, Distinct(S, ct)
  PROVE  IsMap(MapOf(S, ct), S, ct)
<1> DEFINE m == MapOf(S, ct)
           of(b) == CHOOSE e \in S : ct[e.key] = b
<1>1. m = [b \in {ct[e.key] : e \in S} |-> Pair(of(b))]
  BY DEF MapOf
<1>2. \A e \in S : of(ct[e.key]) = e
  <2> SUFFICES ASSUME NEW e \in S PROVE of(ct[e.key]) = e
    OBVIOUS
  <2>1. of(ct[e.key]) \in S /\ ct[of(ct[e.key]).key] = ct[e.key]
    OBVIOUS
  <2> HIDE DEF of
  <2>2. QED
    BY <2>1 DEF Distinct
<1> HIDE DEF m, of
<1>3. m = [b \in DOMAIN m |-> m[b]]
  BY <1>1
<1>4. \A b : b \in DOMAIN m <=> \E e \in S : b = ct[e.key]
  BY <1>1
<1>5. \A e \in S : m[ct[e.key]] = Pair(e)
  BY <1>1, <1>2
<1>6. QED
  BY <1>3, <1>4, <1>5 DEF IsMap, m

(* There is one such map. *)
LEMMA MapUnique ==
  ASSUME NEW S, NEW ct, NEW m, IsMap(m, S, ct), NEW n, IsMap(n, S, ct)
  PROVE  m = n
<1>1. DOMAIN m = DOMAIN n
  BY DEF IsMap
<1>2. \A b \in DOMAIN m : m[b] = n[b]
  <2> SUFFICES ASSUME NEW b \in DOMAIN m PROVE m[b] = n[b]
    OBVIOUS
  <2>1. PICK e \in S : b = ct[e.key]
    BY DEF IsMap
  <2>2. QED
    BY <2>1 DEF IsMap
<1>3. m = [b \in DOMAIN m |-> m[b]] /\ n = [b \in DOMAIN n |-> n[b]]
  BY DEF IsMap
<1>4. QED
  BY <1>1, <1>2, <1>3

(* What callers may see of the entries is what the map leads to. *)
LEMMA MapRange ==
  ASSUME NEW S, NEW ct, NEW m, IsMap(m, S, ct)
  PROVE  Range(m) = {Pair(e) : e \in S}
<1>1. \A b \in DOMAIN m : \E e \in S : m[b] = Pair(e)
  <2> SUFFICES ASSUME NEW b \in DOMAIN m PROVE \E e \in S : m[b] = Pair(e)
    OBVIOUS
  <2>1. PICK e \in S : b = ct[e.key]
    BY DEF IsMap
  <2>2. QED
    BY <2>1 DEF IsMap
<1>2. \A e \in S : \E b \in DOMAIN m : m[b] = Pair(e)
  <2> SUFFICES ASSUME NEW e \in S PROVE \E b \in DOMAIN m : m[b] = Pair(e)
    OBVIOUS
  <2>1. ct[e.key] \in DOMAIN m /\ m[ct[e.key]] = Pair(e)
    BY DEF IsMap
  <2>2. QED
    BY <2>1
<1>3. Range(m) = {m[b] : b \in DOMAIN m}
  BY DEF Range
<1> HIDE DEF Pair
<1>4. QED
  BY <1>1, <1>2, <1>3

(* A new entry is one more key, and replaces one of the same bytes. *)
Put1(m, b, x) == [d \in DOMAIN m \cup {b} |-> IF d = b THEN x ELSE m[d]]

LEMMA MapPut ==
  ASSUME NEW S, NEW ct, NEW m, IsMap(m, S, ct), NEW R \in SUBSET S, NEW f,
         \A e \in S : ct[e.key] = ct[f.key] <=> e \notin R
  PROVE  IsMap(Put1(m, ct[f.key], Pair(f)), R \cup {f}, ct)
<1> DEFINE x == Pair(f)
           c == ct[f.key]
           n == Put1(m, c, x)
<1>1. n = [d \in DOMAIN m \cup {c} |-> IF d = c THEN x ELSE m[d]]
  BY DEF Put1
<1>2. /\ \A b : b \in DOMAIN m <=> \E e \in S : b = ct[e.key]
      /\ \A e \in S : m[ct[e.key]] = Pair(e)
  BY DEF IsMap
<1>3. x = Pair(f) /\ c = ct[f.key]
  OBVIOUS
<1> HIDE DEF n, x, c
<1>4. DOMAIN n = DOMAIN m \cup {c} /\ n[c] = x /\ \A d \in DOMAIN m : d # c => n[d] = m[d]
  BY <1>1
<1>5. n = [d \in DOMAIN n |-> n[d]]
  BY <1>1
<1>6. \A b : b \in DOMAIN n <=> \E e \in R \cup {f} : b = ct[e.key]
  <2> SUFFICES ASSUME NEW b PROVE b \in DOMAIN n <=> \E e \in R \cup {f} : b = ct[e.key]
    OBVIOUS
  <2>1. CASE b = c
    BY <1>3, <1>4, <2>1
  <2>2. CASE b # c
    <3>1. ASSUME b \in DOMAIN n PROVE \E e \in R \cup {f} : b = ct[e.key]
      <4>1. b \in DOMAIN m
        BY <1>4, <2>2, <3>1
      <4>2. PICK e \in S : b = ct[e.key]
        BY <1>2, <4>1
      <4>3. e \in R
        BY <1>3, <2>2, <4>2
      <4>4. QED
        BY <4>2, <4>3
    <3>2. ASSUME NEW e \in R \cup {f}, b = ct[e.key] PROVE b \in DOMAIN n
      <4>1. e \in S
        BY <1>3, <2>2, <3>2
      <4>2. QED
        BY <1>2, <1>4, <3>2, <4>1
    <3>3. QED
      BY <3>1, <3>2
  <2>3. QED
    BY <2>1, <2>2
<1>7. \A e \in R \cup {f} : n[ct[e.key]] = Pair(e)
  <2> SUFFICES ASSUME NEW e \in R \cup {f} PROVE n[ct[e.key]] = Pair(e)
    OBVIOUS
  <2>1. CASE e = f
    BY <1>3, <1>4, <2>1
  <2>2. CASE e # f
    <3>1. e \in R /\ e \in S
      BY <2>2
    <3>2. ct[e.key] # c /\ ct[e.key] \in DOMAIN m
      BY <1>2, <1>3, <3>1
    <3>3. QED
      BY <1>2, <1>4, <3>1, <3>2
  <2>3. QED
    BY <2>1, <2>2
<1>8. IsMap(n, R \cup {f}, ct)
  BY <1>5, <1>6, <1>7 DEF IsMap
<1>9. QED
  BY <1>8 DEF n, c, x

(* An entry that goes takes its key from the map. *)
LEMMA MapRemove ==
  ASSUME NEW S, NEW ct, NEW m, IsMap(m, S, ct), Distinct(S, ct), NEW f \in S
  PROVE  IsMap(Restrict(m, DOMAIN m \ {ct[f.key]}), S \ {f}, ct)
<1> DEFINE c == ct[f.key]
           n == Restrict(m, DOMAIN m \ {c})
<1>1. n = [d \in DOMAIN m \ {c} |-> m[d]]
  BY DEF Restrict
<1>2. /\ \A b : b \in DOMAIN m <=> \E e \in S : b = ct[e.key]
      /\ \A e \in S : m[ct[e.key]] = Pair(e)
  BY DEF IsMap
<1>3. \A e \in S : ct[e.key] = c <=> e = f
  BY DEF Distinct
<1> HIDE DEF n, c
<1>4. DOMAIN n = DOMAIN m \ {c} /\ \A d \in DOMAIN n : n[d] = m[d]
  BY <1>1
<1>5. n = [d \in DOMAIN n |-> n[d]]
  BY <1>1
<1>6. \A b : b \in DOMAIN n <=> \E e \in S \ {f} : b = ct[e.key]
  BY <1>2, <1>3, <1>4
<1>7. \A e \in S \ {f} : n[ct[e.key]] = Pair(e)
  BY <1>2, <1>3, <1>4, <1>6
<1>8. QED
  BY <1>5, <1>6, <1>7 DEF IsMap, n, c

-------------------------------------------------------------------------------
(* The entries of a table. *)

EntriesAre(S, t, c) ==
  \A e : e \in S <=> \E i \in 0..c - 1 : \E p \in 1..Len(t[i]) : e = t[i][p]

LEMMA EntriesByPlace ==
  ASSUME NEW t, NEW c, Table(t, c)
  PROVE  EntriesAre(Entries(t), t, c)
<1>1. DOMAIN t = 0..c - 1
  BY DEF Table
<1>2. \A e : e \in Entries(t) <=> \E i \in 0..c - 1 : e \in ToSet(t[i])
  BY <1>1 DEF Entries
<1>3. \A i \in 0..c - 1 : DOMAIN t[i] = 1..Len(t[i])
  BY SlotFacts
<1>4. \A i \in 0..c - 1 : \A e : e \in ToSet(t[i]) <=> \E p \in 1..Len(t[i]) : e = t[i][p]
  BY <1>3 DEF ToSet
<1>5. ASSUME NEW e, e \in Entries(t)
      PROVE  \E i \in 0..c - 1 : \E p \in 1..Len(t[i]) : e = t[i][p]
  <2>1. PICK i \in 0..c - 1 : e \in ToSet(t[i])
    BY <1>2, <1>5
  <2>2. PICK p \in 1..Len(t[i]) : e = t[i][p]
    BY <1>4, <2>1
  <2>3. QED
    BY <2>2
<1>6. ASSUME NEW i \in 0..c - 1, NEW p \in 1..Len(t[i]) PROVE t[i][p] \in Entries(t)
  BY <1>2, <1>4
<1>7. QED
  BY <1>5, <1>6 DEF EntriesAre

(* In a good table they differ in the bytes of their keys. *)
LEMMA EntriesDistinct ==
  ASSUME NEW t, NEW c, NEW ct, NEW sp, Good(t, c, ct, sp), ~sp
  PROVE  Distinct(Entries(t), ct)
<1>1. EntriesAre(Entries(t), t, c)
  BY EntriesByPlace DEF Good
<1> SUFFICES ASSUME NEW e \in Entries(t), NEW f \in Entries(t), ct[e.key] = ct[f.key] PROVE e = f
  BY DEF Distinct
<1>2. PICK i \in 0..c - 1 : \E p \in 1..Len(t[i]) : e = t[i][p]
  BY <1>1 DEF EntriesAre
<1>3. PICK p \in 1..Len(t[i]) : e = t[i][p]
  BY <1>2
<1>4. PICK j \in 0..c - 1 : \E q \in 1..Len(t[j]) : f = t[j][q]
  BY <1>1 DEF EntriesAre
<1>5. PICK q \in 1..Len(t[j]) : f = t[j][q]
  BY <1>4
<1>6. i # j \/ p # q => Apart(t[i][p], t[j][q], ct, sp)
  BY DEF Good
<1>7. QED
  BY <1>3, <1>5, <1>6 DEF Apart

(* The entries by place, as In says it. *)
LEMMA EntryIn ==
  ASSUME NEW t, NEW c, Table(t, c), NEW e
  PROVE  e \in Entries(t) <=> In(e, t, c)
BY EntriesByPlace DEF EntriesAre, In

(* No table is empty but of entries. *)
LEMMA EntriesVacant ==
  ASSUME NEW c \in Nat
  PROVE  Entries(Vacant(c)) = {}
<1>1. ToSet(<<>>) = {}
  BY DEF ToSet
<1>2. \A i \in DOMAIN Vacant(c) : Vacant(c)[i] = <<>>
  BY DEF Vacant
<1>3. QED
  BY <1>1, <1>2 DEF Entries

LEMMA EntriesAppend ==
  ASSUME NEW t, NEW c, Table(t, c), NEW i \in 0..c - 1, NEW e \in Entry, NEW u, Appended(u, t, c, i, e)
  PROVE  Entries(u) = Entries(t) \cup {e}
<1>1. OneLonger(u, t, c, i, e)
  BY AppendedIs
<1>2. Table(u, c)
  BY <1>1 DEF OneLonger
<1>3. ASSUME NEW f, In(f, u, c) PROVE f = e \/ In(f, t, c)
  <2>1. PICK j \in 0..c - 1 : \E p \in 1..Len(u[j]) : f = u[j][p]
    BY <1>3 DEF In
  <2>2. PICK p \in 1..Len(u[j]) : f = u[j][p]
    BY <2>1
  <2>3. IF j = i /\ p = Len(t[i]) + 1 THEN u[j][p] = e
        ELSE p \in 1..Len(t[j]) /\ u[j][p] = t[j][p]
    BY <1>1 DEF OneLonger
  <2>4. QED
    BY <2>2, <2>3 DEF In
<1>4. ASSUME NEW f, In(f, t, c) PROVE In(f, u, c)
  <2>1. PICK j \in 0..c - 1 : \E p \in 1..Len(t[j]) : f = t[j][p]
    BY <1>4 DEF In
  <2>2. PICK p \in 1..Len(t[j]) : f = t[j][p]
    BY <2>1
  <2>3. p \in 1..Len(u[j]) /\ u[j][p] = t[j][p]
    BY <1>1 DEF OneLonger
  <2>4. QED
    BY <2>2, <2>3 DEF In
<1>5. In(e, u, c)
  <2>1. Len(t[i]) + 1 \in 1..Len(u[i]) /\ u[i][Len(t[i]) + 1] = e
    BY <1>1 DEF OneLonger
  <2>2. QED
    BY <2>1 DEF In
<1>6. \A f : (f \in Entries(t) <=> In(f, t, c)) /\ (f \in Entries(u) <=> In(f, u, c))
  BY <1>2, EntryIn
<1>7. QED
  BY <1>3, <1>4, <1>5, <1>6

(* f is at a place of table t that is not position p of slot i. *)
Elsewhere(f, t, c, i, p) ==
  \E j \in 0..c - 1 : \E q \in 1..Len(t[j]) : (j # i \/ q # p) /\ f = t[j][q]

(* In a good table these are all entries but the one there. *)
LEMMA ElsewhereIs ==
  ASSUME NEW t, NEW c, NEW ct, NEW sp, Good(t, c, ct, sp), NEW i \in 0..c - 1, NEW p \in 1..Len(t[i]), NEW f
  PROVE  Elsewhere(f, t, c, i, p) <=> f \in Entries(t) /\ f # t[i][p]
<1>1. f \in Entries(t) <=> In(f, t, c)
  BY EntryIn DEF Good
<1>2. ASSUME Elsewhere(f, t, c, i, p) PROVE In(f, t, c) /\ f # t[i][p]
  <2>1. PICK j \in 0..c - 1 : \E q \in 1..Len(t[j]) : (j # i \/ q # p) /\ f = t[j][q]
    BY <1>2 DEF Elsewhere
  <2>2. PICK q \in 1..Len(t[j]) : (j # i \/ q # p) /\ f = t[j][q]
    BY <2>1
  <2>3. Apart(t[j][q], t[i][p], ct, sp)
    BY <2>2 DEF Good
  <2>4. f # t[i][p]
    BY <2>2, <2>3 DEF Apart
  <2>5. QED
    BY <2>2, <2>4 DEF In
<1>3. ASSUME In(f, t, c), f # t[i][p] PROVE Elsewhere(f, t, c, i, p)
  <2>1. PICK j \in 0..c - 1 : \E q \in 1..Len(t[j]) : f = t[j][q]
    BY <1>3 DEF In
  <2>2. PICK q \in 1..Len(t[j]) : f = t[j][q]
    BY <2>1
  <2>3. j # i \/ q # p
    BY <1>3, <2>2
  <2>4. QED
    BY <2>2, <2>3 DEF Elsewhere
<1>4. QED
  BY <1>1, <1>2, <1>3

(* A value replaced is an entry replaced. *)
Updated(u, t, i, p, v, f) == u = [t EXCEPT ![i][p].val = v] /\ f = [t[i][p] EXCEPT !.val = v]

LEMMA EntriesUpdate ==
  ASSUME NEW t, NEW c, NEW ct, NEW sp, Good(t, c, ct, sp), NEW i \in 0..c - 1, NEW p \in 1..Len(t[i]),
         NEW v \in Elem, NEW u, NEW f, Updated(u, t, i, p, v, f)
  PROVE  Entries(u) = (Entries(t) \ {t[i][p]}) \cup {f}
<1>0. u = [t EXCEPT ![i][p].val = v] /\ f = [t[i][p] EXCEPT !.val = v]
  BY DEF Updated
<1>1. Table(t, c) /\ DOMAIN t = 0..c - 1
  BY DEF Good, Table
<1>2. SameKeys(u, t, c)
  BY <1>0, <1>1, UpdateSame
<1>3. Table(u, c) /\ \A j \in 0..c - 1 : Len(u[j]) = Len(t[j])
  BY <1>2 DEF SameKeys
<1>4. \A j \in 0..c - 1 : \A q \in 1..Len(t[j]) : u[j][q] = IF j = i /\ q = p THEN f ELSE t[j][q]
  <2> SUFFICES ASSUME NEW j \in 0..c - 1, NEW q \in 1..Len(t[j])
               PROVE  u[j][q] = IF j = i /\ q = p THEN f ELSE t[j][q]
    OBVIOUS
  <2>1. DOMAIN t[j] = 1..Len(t[j]) /\ DOMAIN t[i] = 1..Len(t[i])
    BY <1>1, SlotFacts
  <2>2. QED
    BY <1>0, <1>1, <2>1
<1>5. ASSUME NEW g PROVE In(g, u, c) <=> g = f \/ Elsewhere(g, t, c, i, p)
  <2>1. ASSUME In(g, u, c) PROVE g = f \/ Elsewhere(g, t, c, i, p)
    <3>1. PICK j \in 0..c - 1 : \E q \in 1..Len(u[j]) : g = u[j][q]
      BY <2>1 DEF In
    <3>2. PICK q \in 1..Len(u[j]) : g = u[j][q]
      BY <3>1
    <3>3. q \in 1..Len(t[j])
      BY <1>3
    <3>4. CASE j = i /\ q = p
      BY <1>4, <3>2, <3>3, <3>4
    <3>5. CASE ~(j = i /\ q = p)
      <4>1. g = t[j][q]
        BY <1>4, <3>2, <3>3, <3>5
      <4>2. QED
        BY <3>3, <3>5, <4>1 DEF Elsewhere
    <3>6. QED
      BY <3>4, <3>5
  <2>2. ASSUME Elsewhere(g, t, c, i, p) PROVE In(g, u, c)
    <3>1. PICK j \in 0..c - 1 : \E q \in 1..Len(t[j]) : (j # i \/ q # p) /\ g = t[j][q]
      BY <2>2 DEF Elsewhere
    <3>2. PICK q \in 1..Len(t[j]) : (j # i \/ q # p) /\ g = t[j][q]
      BY <3>1
    <3>3. q \in 1..Len(u[j]) /\ g = u[j][q]
      BY <1>3, <1>4, <3>2
    <3>4. QED
      BY <3>3 DEF In
  <2>3. In(f, u, c)
    <3>1. p \in 1..Len(u[i]) /\ u[i][p] = f
      BY <1>3, <1>4
    <3>2. QED
      BY <3>1 DEF In
  <2>4. QED
    BY <2>1, <2>2, <2>3
<1>6. \A g : g \in Entries(u) <=> In(g, u, c)
  BY <1>3, EntryIn
<1>7. \A g : Elsewhere(g, t, c, i, p) <=> g \in Entries(t) /\ g # t[i][p]
  BY ElsewhereIs
<1>8. QED
  BY <1>5, <1>6, <1>7

(* One entry less. *)
LEMMA EntriesRemove ==
  ASSUME NEW t, NEW c, NEW ct, NEW sp, Good(t, c, ct, sp), NEW i \in 0..c - 1, NEW p \in 1..Len(t[i]),
         NEW u, Removed(u, t, c, i, p)
  PROVE  Entries(u) = Entries(t) \ {t[i][p]}
<1> DEFINE s == t[i]
           w == RemoveAt(s, p)
<1>1. Table(t, c)
  BY DEF Good
<1>2. Table(u, c)
  BY RemoveGood DEF Good
<1>3. s \in Seq(Entry) /\ Len(s) \in Nat
  BY <1>1, SlotFacts
<1>4. p - 1 \in Nat /\ p \in Nat /\ p - 1 <= Len(s) /\ p - 1 <= p /\ p <= Len(s)
  BY <1>3
<1>5. w = CutOut(s, p - 1, p)
  BY DEF CutOut, RemoveAt
<1>6. IsCut(Entry, w, s, p - 1, p)
  BY <1>3, <1>4, <1>5, CutOutIs
<1> HIDE DEF w
<1>7. Len(w) = Len(s) - 1
  BY <1>3, <1>4, <1>6 DEF IsCut
<1>8. \A k \in 1..Len(w) : w[k] = IF k < p THEN s[k] ELSE s[k + 1]
  <2> SUFFICES ASSUME NEW k \in 1..Len(w) PROVE w[k] = IF k < p THEN s[k] ELSE s[k + 1]
    OBVIOUS
  <2>1. w[k] = IF k <= p - 1 THEN s[k] ELSE s[k + (p - (p - 1))]
    BY <1>6 DEF IsCut
  <2>2. k \in Nat /\ (k <= p - 1 <=> k < p) /\ k + (p - (p - 1)) = k + 1
    BY <1>3, <1>4, <1>7
  <2>3. QED
    BY <2>1, <2>2
<1>9. u[i] = w /\ \A j \in 0..c - 1 : j # i => u[j] = t[j]
  BY DEF Removed, w
<1>10. ASSUME NEW g, In(g, u, c) PROVE Elsewhere(g, t, c, i, p)
  <2>1. PICK j \in 0..c - 1 : \E q \in 1..Len(u[j]) : g = u[j][q]
    BY <1>10 DEF In
  <2>2. PICK q \in 1..Len(u[j]) : g = u[j][q]
    BY <2>1
  <2>3. CASE j # i
    <3>1. q \in 1..Len(t[j]) /\ g = t[j][q]
      BY <1>9, <2>2, <2>3
    <3>2. QED
      BY <2>3, <3>1 DEF Elsewhere
  <2>4. CASE j = i
    <3>1. q \in 1..Len(w) /\ g = w[q] /\ q \in Nat
      BY <1>9, <2>2, <2>4
    <3>2. CASE q < p
      <4>1. q \in 1..Len(s) /\ q # p /\ g = s[q]
        BY <1>3, <1>4, <1>7, <1>8, <3>1, <3>2
      <4>2. QED
        BY <4>1 DEF Elsewhere
    <3>3. CASE ~(q < p)
      <4>1. q + 1 \in 1..Len(s) /\ q + 1 # p /\ g = s[q + 1]
        BY <1>3, <1>4, <1>7, <1>8, <3>1, <3>3
      <4>2. QED
        BY <4>1 DEF Elsewhere
    <3>4. QED
      BY <3>2, <3>3
  <2>5. QED
    BY <2>3, <2>4
<1>11. ASSUME NEW g, Elsewhere(g, t, c, i, p) PROVE In(g, u, c)
  <2>1. PICK j \in 0..c - 1 : \E q \in 1..Len(t[j]) : (j # i \/ q # p) /\ g = t[j][q]
    BY <1>11 DEF Elsewhere
  <2>2. PICK q \in 1..Len(t[j]) : (j # i \/ q # p) /\ g = t[j][q]
    BY <2>1
  <2>3. CASE j # i
    <3>1. q \in 1..Len(u[j]) /\ g = u[j][q]
      BY <1>9, <2>2, <2>3
    <3>2. QED
      BY <3>1 DEF In
  <2>4. CASE j = i
    <3>1. q \in 1..Len(s) /\ g = s[q] /\ q # p
      BY <2>2, <2>4
    <3>2. CASE q < p
      <4>1. q \in 1..Len(w) /\ g = w[q]
        BY <1>3, <1>4, <1>7, <1>8, <3>1, <3>2
      <4>2. QED
        BY <1>9, <4>1 DEF In
    <3>3. CASE ~(q < p)
      <4>1. q - 1 \in 1..Len(w) /\ ~(q - 1 < p) /\ (q - 1) + 1 = q
        BY <1>3, <1>4, <1>7, <3>1, <3>3
      <4>2. g = w[q - 1]
        BY <1>8, <3>1, <4>1
      <4>3. QED
        BY <1>9, <4>1, <4>2 DEF In
    <3>4. QED
      BY <3>2, <3>3
  <2>5. QED
    BY <2>3, <2>4
<1>12. \A g : g \in Entries(u) <=> In(g, u, c)
  BY <1>2, EntryIn
<1>13. \A g : Elsewhere(g, t, c, i, p) <=> g \in Entries(t) /\ g # t[i][p]
  BY ElsewhereIs
<1>14. QED
  BY <1>10, <1>11, <1>12, <1>13

(* A resize keeps the entries. *)
LEMMA EntriesRehash ==
  ASSUME NEW t, NEW c, NEW ct, NEW sp, Good(t, c, ct, sp), c # 0, NEW es, Lists(es, t, c)
  PROVE  Entries(Rehash(es, 2 * c)) = Entries(t)
<1> DEFINE d == 2 * c
           u == Rehash(es, d)
           n == Len(es)
<1>1. Table(t, c) /\ c \in Nat
  BY DEF Good, Table
<1>2. d \in Nat /\ d # 0 /\ d = 2 * c
  BY <1>1
<1> HIDE DEF d
<1>3. es \in Seq(Entry) /\ n \in Nat
  BY LenProperties DEF Lists
<1>4. Table(u, d) /\ Lists(es, u, d)
  BY <1>2, <1>3, RehashLists
<1>5. PICK sl, ps : Listing(es, n, t, c, sl, ps)
  BY DEF Lists
<1>6. PICK slu, psu : Listing(es, n, u, d, slu, psu)
  BY <1>4 DEF Lists
<1> HIDE DEF u, n
<1>7. Copies(u, d, t, c) /\ Copies(t, c, u, d)
  BY <1>3, <1>5, <1>6, ListingCopies
<1>8. ASSUME NEW g, In(g, u, d) PROVE In(g, t, c)
  <2>1. PICK j \in 0..d - 1 : \E q \in 1..Len(u[j]) : g = u[j][q]
    BY <1>8 DEF In
  <2>2. QED
    BY <1>7, <2>1 DEF Copies
<1>9. ASSUME NEW g, In(g, t, c) PROVE In(g, u, d)
  <2>1. PICK j \in 0..c - 1 : \E q \in 1..Len(t[j]) : g = t[j][q]
    BY <1>9 DEF In
  <2>2. QED
    BY <1>7, <2>1 DEF Copies
<1>10. \A g : (g \in Entries(u) <=> In(g, u, d)) /\ (g \in Entries(t) <=> In(g, t, c))
  BY <1>1, <1>4, EntryIn
<1>11. QED
  BY <1>8, <1>9, <1>10 DEF u, d

-------------------------------------------------------------------------------
(* What the table is seen as. *)

(* m is what table t is seen as. *)
Seen(m, t, ct) == IsMap(m, Entries(t), ct) /\ Distinct(Entries(t), ct)

LEMMA SeenIs ==
  ASSUME IInv, ~spoiled
  PROVE  Seen(AsMap, slots, content) /\ Good(slots, capacity, content, spoiled)
<1>1. Good(slots, capacity, content, spoiled)
  BY DEF IInv, Held
<1>2. Distinct(Entries(slots), content)
  BY <1>1, EntriesDistinct
<1>3. IsMap(MapOf(Entries(slots), content), Entries(slots), content)
  BY <1>2, MapIs
<1>4. QED
  BY <1>1, <1>2, <1>3, AsMapIs DEF Seen

LEMMA SeenNext ==
  ASSUME IInv', ~spoiled'
  PROVE  Seen(AsMap', slots', content')
<1>1. Good(slots', capacity', content', spoiled')
  BY DEF IInv, Held
<1>2. Distinct(Entries(slots'), content')
  BY <1>1, EntriesDistinct
<1>3. IsMap(MapOf(Entries(slots'), content'), Entries(slots'), content')
  BY <1>2, MapIs
<1>4. QED
  BY <1>2, <1>3, AsMapNext DEF Seen

(* A step after which m is the map of the entries makes the map m. *)
LEMMA MapNext ==
  ASSUME IInv', ~spoiled', NEW m, IsMap(m, Entries(slots'), content')
  PROVE  AsMap' = m
<1>1. IsMap(AsMap', Entries(slots'), content')
  BY SeenNext DEF Seen
<1>2. QED
  BY <1>1, MapUnique

(* A step that leaves the table and the bytes alone leaves the map alone. *)
LEMMA MapKept ==
  ASSUME UNCHANGED <<slots, content>>
  PROVE  AsMap' = AsMap
BY AsMapIs, AsMapNext

(* A search in the slot of a key finds it or shows that it is nowhere. *)
FoundOrNew(t, c, i, p, k) ==
  /\ i \in 0..c - 1
  /\ \/ /\ p > 0 /\ p \in 1..Len(t[i]) /\ content[t[i][p].key] = content[k]
        /\ t[i][p] \in Entries(t)
     \/ p = 0 /\ \A e \in Entries(t) : content[e.key] # content[k]

LEMMA SearchTells ==
  ASSUME Flags, ~spoiled, NEW t, NEW c, c # 0, Good(t, c, content, spoiled), NEW k \in Keys,
         NEW i, i = Hash[content[k]] % c, NEW p, p = Position(t[i], k)
  PROVE  FoundOrNew(t, c, i, p, k)
<1>1. Table(t, c) /\ c \in Nat
  BY DEF Good, Table
<1>2. content[k] \in Contents /\ Hash[content[k]] \in Nat
  <2>1. content[k] \in Contents
    BY DEF Flags
  <2>2. QED
    BY <2>1, HashFacts
<1>3. i \in 0..c - 1
  BY <1>1, <1>2, Division
<1>4. IsPosition(p, t[i], k)
  BY <1>1, <1>3, SlotFacts, PositionIs
<1>5. \A e : e \in Entries(t) <=> In(e, t, c)
  BY <1>1, EntryIn
<1>6. CASE p \in 1..Len(t[i]) /\ p > 0 /\ Matches(t[i][p], k)
  <2>1. In(t[i][p], t, c)
    BY <1>3, <1>6 DEF In
  <2>2. content[t[i][p].key] = content[k]
    BY <1>6 DEF Matches
  <2>3. QED
    BY <1>3, <1>5, <1>6, <2>1, <2>2 DEF FoundOrNew
<1>7. CASE p = 0 /\ \A q \in 1..Len(t[i]) : ~Matches(t[i][q], k)
  <2> DEFINE new == [key |-> k, hash |-> Hash[content[k]]]
  <2>1. new.key = k /\ new.hash = Hash[content[k]]
    OBVIOUS
  <2> HIDE DEF new
  <2>2. \A j \in 0..c - 1 : \A q \in 1..Len(t[j]) : Apart(new, t[j][q], content, spoiled)
    BY <1>7, <2>1, NewKeyApart
  <2>3. ASSUME NEW e \in Entries(t) PROVE content[e.key] # content[k]
    <3>1. In(e, t, c)
      BY <1>5
    <3>2. PICK j \in 0..c - 1 : \E q \in 1..Len(t[j]) : e = t[j][q]
      BY <3>1 DEF In
    <3>3. Apart(new, e, content, spoiled)
      BY <2>2, <3>2
    <3>4. QED
      BY <2>1, <3>3 DEF Apart
  <2>4. QED
    BY <1>3, <1>7, <2>3 DEF FoundOrNew
<1>8. QED
  BY <1>4, <1>6, <1>7 DEF IsPosition

(* What the map leads to is what the search finds. *)
LEMMA LookupIs ==
  ASSUME NEW t, Seen(AsMap, t, content), NEW c, NEW i, NEW p, NEW k, FoundOrNew(t, c, i, p, k)
  PROVE  Abstract!Lookup(k) = IF p = 0 THEN NULL ELSE t[i][p].val
<1>1. /\ \A b : b \in DOMAIN AsMap <=> \E e \in Entries(t) : b = content[e.key]
      /\ \A e \in Entries(t) : AsMap[content[e.key]] = Pair(e)
  BY DEF Seen, IsMap
<1> DEFINE m == AsMap
<1>2. Abstract!Lookup(k) = IF content[k] \in DOMAIN m THEN m[content[k]].val ELSE NULL
  BY Zenon DEF Abstract!Lookup
<1> HIDE DEF m
<1>3. CASE /\ p > 0 /\ p \in 1..Len(t[i]) /\ content[t[i][p].key] = content[k]
           /\ t[i][p] \in Entries(t)
  <2>1. content[k] \in DOMAIN m /\ m[content[k]] = Pair(t[i][p])
    BY <1>1, <1>3 DEF m
  <2>2. p # 0
    BY <1>3
  <2>3. QED
    BY <1>2, <2>1, <2>2 DEF Pair
<1>4. CASE p = 0 /\ \A e \in Entries(t) : content[e.key] # content[k]
  <2>1. content[k] \notin DOMAIN m
    BY <1>1, <1>4 DEF m
  <2>2. QED
    BY <1>2, <1>4, <2>1
<1>5. QED
  BY <1>3, <1>4 DEF FoundOrNew

-------------------------------------------------------------------------------
(* The calls, one by one. *)

LEMMA CreateRefines ==
  ASSUME IInv, IInv', ~spoiled, ~spoiled', NEW asked \in Nat, Create(asked)
  PROVE  Abstract!Create
<1> DEFINE c == Max({asked, MinCapacity})
<1>1. /\ ~exists
      /\ \/ /\ ret' = << <<"create">>, TRUE>>
            /\ exists' = TRUE /\ capacity' = c /\ slots' = Vacant(c) /\ count' = 0
         \/ ret' = << <<"create">>, FALSE>> /\ UNCHANGED <<exists, capacity, slots, count>>
      /\ UNCHANGED <<heapNodes, content, loop, spoiled, starved>>
  BY Zenon DEF Create, Returns
<1> HIDE DEF c
<1>2. exists \in BOOLEAN /\ exists' \in BOOLEAN /\ capacity = 0 /\ Table(slots, capacity)
      /\ Table(slots', capacity')
  BY <1>1 DEF IInv, Flags, Held, Good
<1>3. ret' = << <<"create">>, exists'>>
  BY <1>1, <1>2
<1>4. Entries(slots') = Entries(slots)
  <2>1. CASE slots' = Vacant(c) /\ capacity' = c
    <3>1. Entries(slots) = {}
      BY <1>2 DEF Entries, Table
    <3>2. c \in Nat
      BY <1>2, <2>1 DEF Table
    <3>3. QED
      BY <2>1, <3>1, <3>2, EntriesVacant
  <2>2. QED
    BY <1>1, <2>1
<1>5. AsMap' = AsMap
  BY <1>1, <1>4, AsMapIs, AsMapNext
<1>6. ret'[1] = <<"create">>
  BY <1>3
<1>7. QED
  BY <1>1, <1>2, <1>3, <1>5, <1>6, Zenon DEF Abstract!Create, Abstract!Returns

LEMMA EmptyRefines ==
  ASSUME IInv, IInv', ~spoiled, ~spoiled', NEW op, Empty(op)
  PROVE  Abstract!Empty(op)
<1> DEFINE r == IF op \in {"clear_with", "destroy_with"}
                THEN {[key |-> e.key, val |-> e.val] : e \in Stored} ELSE {}
<1>1. /\ Idle /\ ret' = << <<op>>, r>>
      /\ IF op \in {"clear", "clear_with"}
         THEN slots' = Vacant(capacity) /\ UNCHANGED <<exists, capacity>>
         ELSE slots' = Vacant(0) /\ capacity' = 0 /\ exists' = FALSE
      /\ UNCHANGED <<content, loop, starved>>
  BY Zenon DEF Empty, Returns
<1>2. exists = TRUE
  BY <1>1 DEF Idle, IInv, Flags
<1>3. exists' = (op \in {"clear", "clear_with"})
  <2> DEFINE b == op \in {"clear", "clear_with"}
  <2>1. b \in BOOLEAN
    OBVIOUS
  <2>2. (b => exists' = TRUE) /\ (~b => exists' = FALSE)
    BY <1>1, <1>2
  <2> HIDE DEF b
  <2>3. exists' = b
    <3>1. CASE b = TRUE
      BY <2>2, <3>1
    <3>2. CASE b = FALSE
      BY <2>2, <3>2
    <3>3. QED
      BY <2>1, <3>1, <3>2
  <2>4. QED
    BY <2>3 DEF b
<1>4. Range(AsMap) = {Pair(e) : e \in Entries(slots)}
  BY SeenIs, MapRange DEF Seen
<1>5. r = IF op \in {"clear_with", "destroy_with"} THEN Abstract!Range(AsMap) ELSE {}
  <2>1. Abstract!Range(AsMap) = Range(AsMap)
    BY Zenon DEF Range, Abstract!Range
  <2>2. {[key |-> e.key, val |-> e.val] : e \in Stored} = {Pair(e) : e \in Entries(slots)}
    BY Zenon DEF Stored, Entries, Pair
  <2>3. QED
    BY <1>4, <2>1, <2>2
<1> HIDE DEF r
<1>6. Entries(slots') = {}
  <2>1. capacity \in Nat
    BY DEF IInv, Held, Good, Table
  <2>2. QED
    BY <1>1, <2>1, EntriesVacant
<1>7. AsMap' = Abstract!None
  <2> DEFINE m == Abstract!None
  <2>1. DOMAIN m = {} /\ m = [b \in DOMAIN m |-> m[b]]
    BY DEF Abstract!None
  <2> HIDE DEF m
  <2>2. IsMap(m, Entries(slots'), content')
    BY <1>6, <2>1 DEF IsMap
  <2>3. QED
    BY <2>2, MapNext DEF m
<1>8. ret'[1] = <<op>>
  BY <1>1
<1>9. Abstract!Returns(<<op>>, IF op \in {"clear_with", "destroy_with"} THEN Abstract!Range(AsMap) ELSE {})
  BY <1>1, <1>5, <1>8, Zenon DEF Abstract!Returns
<1>10. content' = content
  BY <1>1
<1>11. QED
  BY <1>2, <1>3, <1>7, <1>9, <1>10, Zenon DEF Abstract!Empty

LEMMA GetRefines ==
  ASSUME IInv, ~spoiled, NEW k \in Keys, Get(k)
  PROVE  Abstract!Get(k)
<1> DEFINE i == Hash[content[k]] % capacity
           p == Position(slots[i], k)
<1>1. /\ exists /\ ret' = << <<"get", k>>, IF p = 0 THEN NULL ELSE slots[i][p].val>>
      /\ Keep
  BY Zenon DEF Get, Slot, Returns
<1>2. Seen(AsMap, slots, content) /\ Good(slots, capacity, content, spoiled)
  BY SeenIs
<1>3. capacity # 0 /\ Flags
  <2>1. capacity \in Nat /\ capacity >= MinCapacity /\ Flags
    BY <1>1, <1>2 DEF IInv, Good, Table
  <2>2. QED
    BY <2>1, HashFacts
<1>4. FoundOrNew(slots, capacity, i, p, k)
  BY <1>2, <1>3, SearchTells
<1> HIDE DEF p, i
<1>5. Abstract!Lookup(k) = IF p = 0 THEN NULL ELSE slots[i][p].val
  BY <1>2, <1>4, LookupIs
<1>6. exists' = exists /\ content' = content /\ slots' = slots
  BY <1>1 DEF Keep
<1>7. AsMap' = AsMap
  BY <1>6, MapKept
<1>8. ret' = << <<"get", k>>, Abstract!Lookup(k)>>
  BY <1>1, <1>5
<1>9. ret'[1] = <<"get", k>>
  BY <1>8
<1>10. Abstract!Keep
  BY <1>6, <1>7 DEF Abstract!Keep
<1>11. QED
  BY <1>1, <1>8, <1>9, <1>10, Zenon DEF Abstract!Get, Abstract!Returns

LEMMA RemoveRefines ==
  ASSUME IInv, IInv', ~spoiled, ~spoiled', NEW k \in Keys, RemoveKey(k)
  PROVE  Abstract!RemoveKey(k)
<1> DEFINE i == Hash[content[k]] % capacity
           p == Position(slots[i], k)
<1>1. /\ Idle /\ ret' = << <<"remove", k>>, IF p = 0 THEN NULL ELSE slots[i][p].val>>
      /\ IF p = 0
         THEN UNCHANGED <<slots, count, heapNodes>>
         ELSE /\ slots' = [slots EXCEPT ![i] = RemoveAt(@, p)]
              /\ count' = count - 1
              /\ heapNodes' = heapNodes - IF Len(slots[i]) > 1 THEN 1 ELSE 0
      /\ UNCHANGED <<exists, capacity, content, loop, spoiled, starved>>
  BY Zenon DEF RemoveKey, Slot, Returns
<1>2. Seen(AsMap, slots, content) /\ Good(slots, capacity, content, spoiled)
  BY SeenIs
<1>3. capacity # 0 /\ Flags /\ exists /\ DOMAIN slots = 0..capacity - 1
  <2>1. capacity \in Nat /\ capacity >= MinCapacity /\ Flags /\ exists /\ DOMAIN slots = 0..capacity - 1
    BY <1>1, <1>2 DEF IInv, Good, Table, Idle
  <2>2. QED
    BY <2>1, HashFacts
<1>4. FoundOrNew(slots, capacity, i, p, k)
  BY <1>2, <1>3, SearchTells
<1> HIDE DEF p, i
<1>5. Abstract!Lookup(k) = IF p = 0 THEN NULL ELSE slots[i][p].val
  BY <1>2, <1>4, LookupIs
<1> DEFINE m == Restrict(AsMap, DOMAIN AsMap \ {content[k]})
<1>6. IsMap(m, Entries(slots'), content)
  <2>1. CASE p = 0
    <3>1. \A e \in Entries(slots) : content[e.key] # content[k]
      BY <1>4, <2>1 DEF FoundOrNew
    <3>2. slots' = slots
      BY <1>1, <2>1
    <3> DEFINE a == AsMap
    <3>3. IsMap(a, Entries(slots), content)
      BY <1>2 DEF Seen
    <3> HIDE DEF a
    <3>4. a = [b \in DOMAIN a |-> a[b]] /\ content[k] \notin DOMAIN a
      BY <3>1, <3>3 DEF IsMap
    <3>5. Restrict(a, DOMAIN a \ {content[k]}) = a
      <4>1. DOMAIN a \ {content[k]} = DOMAIN a
        BY <3>4
      <4>2. QED
        BY <3>4, <4>1 DEF Restrict
    <3>6. QED
      BY <3>2, <3>3, <3>5 DEF a
  <2>2. CASE p # 0
    <3>1. i \in 0..capacity - 1 /\ p \in 1..Len(slots[i]) /\ content[slots[i][p].key] = content[k]
          /\ slots[i][p] \in Entries(slots)
      BY <1>4, <2>2 DEF FoundOrNew
    <3>2. Removed(slots', slots, capacity, i, p)
      BY <1>1, <1>3, <2>2, <3>1 DEF Removed
    <3>3. Entries(slots') = Entries(slots) \ {slots[i][p]}
      BY <1>2, <3>1, <3>2, EntriesRemove
    <3> DEFINE a == AsMap
               S == Entries(slots)
               f == slots[i][p]
    <3>4. IsMap(a, S, content) /\ Distinct(S, content) /\ f \in S
      BY <1>2, <3>1 DEF Seen
    <3> HIDE DEF a, S, f
    <3>5. IsMap(Restrict(a, DOMAIN a \ {content[f.key]}), S \ {f}, content)
      BY <3>4, MapRemove
    <3>6. QED
      BY <3>1, <3>3, <3>5 DEF a, S, f
  <2>3. QED
    BY <2>1, <2>2
<1>7. exists' = exists /\ content' = content
  BY <1>1
<1>8. AsMap' = Abstract!Restrict(AsMap, DOMAIN AsMap \ {content[k]})
  <2>1. AsMap' = m
    <3> HIDE DEF m
    <3>1. QED
      BY <1>6, <1>7, MapNext
  <2>2. QED
    BY <2>1, Zenon DEF m, Restrict, Abstract!Restrict
<1>9. ret' = << <<"remove", k>>, Abstract!Lookup(k)>>
  BY <1>1, <1>5
<1>10. ret'[1] = <<"remove", k>>
  BY <1>9
<1>11. QED
  BY <1>3, <1>7, <1>8, <1>9, <1>10, Zenon DEF Abstract!RemoveKey, Abstract!Returns

(* A put that stores: the key leads to the new pair. *)
LEMMA PutIs ==
  ASSUME exists, exists' = exists, content' = content, NEW k, NEW v,
         NEW x, x = [key |-> IF content[k] \in DOMAIN AsMap THEN AsMap[content[k]].key ELSE k, val |-> v],
         ret' = << <<"put", k, v>>, TRUE>>, AsMap' = Put1(AsMap, content[k], x)
  PROVE  Abstract!Put(k, v)
<1>1. ret'[1] = <<"put", k, v>>
  OBVIOUS
<1>2. AsMap' = [d \in DOMAIN AsMap \cup {content[k]} |-> IF d = content[k] THEN x ELSE AsMap[d]]
  BY Zenon DEF Put1
<1>3. QED
  BY <1>1, <1>2, Zenon DEF Abstract!Put, Abstract!Returns

(* One that fails. *)
LEMMA NoPut ==
  ASSUME exists, exists' = exists, content' = content, NEW k, NEW v,
         ret' = << <<"put", k, v>>, FALSE>>, AsMap' = AsMap
  PROVE  Abstract!Put(k, v)
<1>1. ret'[1] = <<"put", k, v>>
  OBVIOUS
<1>2. QED
  BY <1>1, Zenon DEF Abstract!Put, Abstract!Returns

(* put works on a table t that is seen as the map: the one there was, or   *)
(* the one of twice the capacity.                                          *)
LEMMA StoreRefines ==
  ASSUME Flags, exists, IInv', ~spoiled, ~spoiled', NEW t, NEW c, c # 0, NEW h,
         Good(t, c, content, spoiled), Seen(AsMap, t, content),
         NEW k \in Keys, NEW v \in Elem, Store(k, v, t, c, h)
  PROVE  Abstract!Put(k, v)
<1> DEFINE i == Hash[content[k]] % c
           p == Position(t[i], k)
           new == [key |-> k, val |-> v, hash |-> Hash[content[k]]]
<1>1. /\ \/ p > 0 /\ slots' = [t EXCEPT ![i][p].val = v] /\ Returns(<<"put", k, v>>, TRUE)
         \/ p = 0 /\ slots' = [t EXCEPT ![i] = Append(@, new)] /\ Returns(<<"put", k, v>>, TRUE)
         \/ slots' = t /\ Returns(<<"put", k, v>>, FALSE)
      /\ UNCHANGED <<exists, content, loop, spoiled, starved>>
  BY Zenon DEF Store
<1>2. exists' = exists /\ content' = content
  BY <1>1
<1>3. FoundOrNew(t, c, i, p, k)
  BY SearchTells
<1>4. new \in Entry /\ new.key = k /\ Pair(new) = [key |-> k, val |-> v]
  <2>1. content[k] \in Contents
    BY DEF Flags
  <2>2. Hash[content[k]] \in Range(Hash)
    BY <2>1, HashFacts
  <2>3. QED
    BY <2>2 DEF Entry, Pair
<1> DEFINE S == Entries(t)
           a == AsMap
           x == [key |-> IF content[k] \in DOMAIN a THEN a[content[k]].key ELSE k, val |-> v]
<1>5. IsMap(a, S, content) /\ Distinct(S, content)
  BY DEF Seen
<1>6. ASSUME IsMap(Put1(a, content[k], x), Entries(slots'), content), ret' = << <<"put", k, v>>, TRUE>>
      PROVE  Abstract!Put(k, v)
  <2> DEFINE m == Put1(a, content[k], x)
  <2> HIDE DEF m
  <2>1. AsMap' = m
    BY <1>2, <1>6, MapNext DEF m
  <2>2. QED
    BY <1>2, <1>6, <2>1, PutIs DEF m
<1> HIDE DEF i, p, new
<1>7. CASE p > 0 /\ slots' = [t EXCEPT ![i][p].val = v] /\ Returns(<<"put", k, v>>, TRUE)
  <2> DEFINE e == t[i][p]
             f == [e EXCEPT !.val = v]
  <2>1. i \in 0..c - 1 /\ p \in 1..Len(t[i]) /\ content[e.key] = content[k] /\ e \in S
    BY <1>3, <1>7 DEF FoundOrNew
  <2>2. Entries(slots') = (S \ {e}) \cup {f}
    <3> DEFINE u == slots'
    <3>1. Updated(u, t, i, p, v, f)
      BY <1>7 DEF Updated
    <3> HIDE DEF u, f
    <3>2. Entries(u) = (Entries(t) \ {t[i][p]}) \cup {f}
      BY <2>1, <3>1, EntriesUpdate
    <3>3. QED
      BY <3>2 DEF u
  <2>3. e \in Entry
    BY <2>1, SlotFacts DEF Good
  <2>4. f.key = e.key /\ f.val = v
    BY <2>3 DEF Entry
  <2>5. content[k] \in DOMAIN a /\ a[content[k]] = Pair(e)
    BY <1>5, <2>1 DEF IsMap
  <2>6. Pair(f) = x
    BY <2>4, <2>5 DEF Pair
  <2> HIDE DEF e, f, S, a, x
  <2>7. \A g \in S : content[g.key] = content[f.key] <=> g \notin S \ {e}
    BY <1>5, <2>1, <2>4 DEF Distinct
  <2>8. IsMap(Put1(a, content[f.key], Pair(f)), (S \ {e}) \cup {f}, content)
    BY <1>5, <2>7, MapPut
  <2>9. IsMap(Put1(a, content[k], x), Entries(slots'), content)
    BY <2>1, <2>2, <2>4, <2>6, <2>8
  <2>10. QED
    BY <1>6, <1>7, <2>9 DEF Returns
<1>8. CASE p = 0 /\ slots' = [t EXCEPT ![i] = Append(@, new)] /\ Returns(<<"put", k, v>>, TRUE)
  <2>1. i \in 0..c - 1 /\ \A g \in S : content[g.key] # content[k]
    BY <1>3, <1>8 DEF FoundOrNew
  <2>2. Table(t, c) /\ DOMAIN t = 0..c - 1
    BY DEF Good, Table
  <2>3. Appended(slots', t, c, i, new)
    BY <1>8, <2>1, <2>2 DEF Appended
  <2>4. Entries(slots') = S \cup {new}
    BY <1>4, <2>1, <2>2, <2>3, EntriesAppend
  <2>5. content[k] \notin DOMAIN a
    BY <1>5, <2>1 DEF IsMap
  <2>6. Pair(new) = x
    BY <1>4, <2>5
  <2> HIDE DEF S, a, x
  <2>7. \A g \in S : content[g.key] = content[new.key] <=> g \notin S
    BY <1>4, <2>1
  <2>8. IsMap(Put1(a, content[new.key], Pair(new)), S \cup {new}, content)
    BY <1>5, <2>7, MapPut
  <2>9. IsMap(Put1(a, content[k], x), Entries(slots'), content)
    BY <1>4, <2>4, <2>6, <2>8
  <2>10. QED
    BY <1>6, <1>8, <2>9 DEF Returns
<1>9. CASE slots' = t /\ Returns(<<"put", k, v>>, FALSE)
  <2>1. AsMap' = a
    <3> HIDE DEF a
    <3>1. QED
      BY <1>2, <1>5, <1>9, MapNext DEF S
  <2>2. QED
    BY <1>2, <1>9, <2>1, NoPut DEF Returns
<1>10. QED
  BY <1>1, <1>7, <1>8, <1>9

LEMMA PutRefines ==
  ASSUME IInv, IInv', ~spoiled, ~spoiled', NEW k \in Keys, NEW v \in Elem, Put(k, v)
  PROVE  Abstract!Put(k, v)
<1>1. /\ exists
      /\ \/ Store(k, v, slots, capacity, heapNodes)
         \/ ResizeFails(k, v)
         \/ Store(k, v, Rehash(InOrder, 2 * capacity), 2 * capacity,
                  heapNodes - Chained(slots) + Chained(Rehash(InOrder, 2 * capacity)))
  BY Zenon DEF Put
<1>2. Seen(AsMap, slots, content) /\ Good(slots, capacity, content, spoiled) /\ Flags
  BY SeenIs DEF IInv
<1>3. capacity \in Nat /\ capacity # 0 /\ Table(slots, capacity)
  <2>1. capacity \in Nat /\ capacity >= MinCapacity /\ Table(slots, capacity)
    BY <1>1, <1>2 DEF IInv, Good, Table
  <2>2. QED
    BY <2>1, HashFacts
<1>4. CASE Store(k, v, slots, capacity, heapNodes)
  BY <1>1, <1>2, <1>3, <1>4, StoreRefines
<1>5. CASE ResizeFails(k, v)
  <2>1. /\ exists' = exists /\ content' = content /\ slots' = slots
        /\ ret' = << <<"put", k, v>>, FALSE>>
    BY <1>5 DEF ResizeFails, Returns
  <2>2. AsMap' = AsMap
    BY <2>1, MapKept
  <2>3. QED
    BY <1>1, <2>1, <2>2, NoPut
<1>6. CASE Store(k, v, Rehash(InOrder, 2 * capacity), 2 * capacity,
                 heapNodes - Chained(slots) + Chained(Rehash(InOrder, 2 * capacity)))
  <2> DEFINE t == Rehash(InOrder, 2 * capacity)
             c == 2 * capacity
             h == heapNodes - Chained(slots) + Chained(t)
  <2>1. Lists(InOrder, slots, capacity)
    BY <1>3, InOrderLists
  <2>2. Good(t, c, content, spoiled)
    BY <1>2, <1>3, <2>1, ResizeKeeps
  <2>3. Entries(t) = Entries(slots)
    BY <1>2, <1>3, <2>1, EntriesRehash
  <2>4. Seen(AsMap, t, content)
    BY <1>2, <2>3 DEF Seen
  <2>5. c # 0
    BY <1>3
  <2>6. Store(k, v, t, c, h)
    BY <1>6
  <2> HIDE DEF t, c, h
  <2>7. QED
    BY <1>1, <1>2, <2>2, <2>4, <2>5, <2>6, StoreRefines
<1>7. QED
  BY <1>1, <1>4, <1>5, <1>6

(* Writing to a key that is not stored is the caller's right, and writing  *)
(* the same bytes to a stored one changes nothing.                         *)
LEMMA OverwriteRefines ==
  ASSUME IInv, IInv', ~spoiled, ~spoiled', NEW k \in Writable, NEW c \in Scribbles, Overwrite(k, c)
  PROVE  Abstract!Overwrite(k) \/ UNCHANGED <<exists, slots, content, ret>>
<1>1. /\ content' = [content EXCEPT ![k] = c]
      /\ spoiled' = (spoiled \/ \E e \in Stored : e.key = k /\ content[k] # c)
      /\ UNCHANGED <<exists, capacity, count, slots, heapNodes, loop, ret, starved>>
  BY DEF Overwrite
<1>2. k \in Keys /\ c \in Contents /\ content \in [Keys -> Contents]
  BY HashmapAssumption DEF IInv, Flags
<1>3. \A e \in Entries(slots) : e.key = k => content[k] = c
  BY <1>1 DEF Stored, Entries
<1>4. CASE content[k] = c
  <2>1. content' = content
    BY <1>1, <1>2, <1>4
  <2>2. QED
    BY <1>1, <2>1
<1>5. CASE content[k] # c
  <2>1. \A e \in Entries(slots) : e.key # k
    BY <1>3, <1>5
  <2>2. Seen(AsMap, slots, content) /\ Good(slots, capacity, content, spoiled)
    BY SeenIs
  <2>3. \A e \in Entries(slots) : content'[e.key] = content[e.key]
    BY <1>1, <1>2, <2>1
  <2> DEFINE a == AsMap
             S == Entries(slots)
             ct == content'
  <2>4. IsMap(a, S, content) /\ \A e \in S : ct[e.key] = content[e.key]
    BY <2>2, <2>3 DEF Seen
  <2>5. ct = content' /\ slots' = slots
    BY <1>1
  <2> HIDE DEF a, S, ct
  <2>6. IsMap(a, S, ct)
    BY <2>4 DEF IsMap
  <2>7. AsMap' = a
    BY <2>5, <2>6, MapNext DEF S
  <2>8. \A q \in Abstract!Range(AsMap) : q.key # k
    <3>1. Range(a) = {Pair(e) : e \in S}
      BY <2>4, MapRange
    <3>2. \A q \in Range(a) : q.key # k
      BY <2>1, <3>1 DEF Pair, S
    <3>3. QED
      BY <3>2, Zenon DEF a, Range, Abstract!Range
  <2>9. \E d \in Contents : content' = [content EXCEPT ![k] = d]
    BY <1>1, <1>2
  <2>10. exists' = exists /\ ret' = ret /\ AsMap' = AsMap
    BY <1>1, <2>7 DEF a
  <2>11. QED
    BY <2>8, <2>9, <2>10, Zenon DEF Abstract!Overwrite
<1>6. QED
  BY <1>4, <1>5

(* foreach visits pairs of the map, and then tells that it is at the end.  *)
LEMMA VisitRefines ==
  ASSUME IInv, IInv', ~spoiled, exists, NEW i \in 0..capacity - 1, NEW p \in Nat \ {0}, NEW due, NEW seen,
         VisitFrom(i, p, due, seen), Keep
  PROVE  Abstract!Foreach
<1> DEFINE later == {j \in i + 1..capacity - 1 : slots[j] # <<>>}
           at    == IF i \in DOMAIN slots /\ p <= Len(slots[i]) THEN <<i, p>>
                    ELSE IF later # {} THEN <<Min(later), 1>> ELSE <<>>
           e     == slots[at[1]][at[2]]
<1>1. IF at = <<>>
      THEN loop' = NoLoop /\ Returns(<<"foreach">>, TRUE)
      ELSE /\ loop' = [on |-> TRUE, slot |-> at[1], pos |-> at[2],
                       due |-> due \ {Id(e)}, seen |-> seen \cup {Id(e)}]
           /\ Returns(<<"visit">>, [key |-> e.key, val |-> e.val])
  BY Zenon DEF VisitFrom
<1>2. Seen(AsMap, slots, content) /\ Table(slots, capacity) /\ capacity \in Nat
  BY SeenIs DEF Good, Table
<1>3. UNCHANGED <<exists, slots, content>>
  BY DEF Keep
<1>4. Abstract!Keep
  BY <1>3, MapKept DEF Abstract!Keep
<1>5. \/ ret' = << <<"foreach">>, TRUE>>
      \/ ret' = << <<"visit">>, Pair(e)>> /\ In(e, slots, capacity)
  <2>1. CASE i \in DOMAIN slots /\ p <= Len(slots[i])
    <3>1. at = <<i, p>> /\ at # <<>> /\ at[1] = i /\ at[2] = p
      BY <2>1
    <3>2. p \in 1..Len(slots[i])
      BY <1>2, <2>1, SlotFacts
    <3> HIDE DEF at
    <3>3. In(e, slots, capacity)
      BY <3>1, <3>2 DEF In
    <3>4. QED
      BY <1>1, <3>1, <3>3 DEF Returns, Pair
  <2>2. CASE ~(i \in DOMAIN slots /\ p <= Len(slots[i])) /\ later # {}
    <3>1. Min(later) \in later
      <4>1. later \in SUBSET Nat
        BY <1>2
      <4>2. QED
        BY <2>2, <4>1, MinIsLeast
    <3> DEFINE j == Min(later)
    <3>2. j \in 0..capacity - 1 /\ slots[j] # <<>>
      BY <1>2, <3>1
    <3>3. at = <<j, 1>>
      BY <2>2
    <3> HIDE DEF j, later
    <3>4. at # <<>> /\ at[1] = j /\ at[2] = 1
      BY <3>3
    <3>5. 1 \in 1..Len(slots[j])
      <4>1. slots[j] \in Seq(Entry) /\ Len(slots[j]) \in Nat
        BY <1>2, <3>2, SlotFacts
      <4>2. Len(slots[j]) # 0
        BY <3>2, <4>1, EmptySeq
      <4>3. QED
        BY <4>1, <4>2
    <3> HIDE DEF at
    <3>6. In(e, slots, capacity)
      BY <3>2, <3>4, <3>5 DEF In
    <3>7. QED
      BY <1>1, <3>4, <3>6 DEF Returns, Pair
  <2>3. CASE ~(i \in DOMAIN slots /\ p <= Len(slots[i])) /\ later = {}
    <3>1. at = <<>>
      BY <2>3
    <3> HIDE DEF at
    <3>2. QED
      BY <1>1, <3>1 DEF Returns
  <2>4. QED
    BY <2>1, <2>2, <2>3
<1> HIDE DEF e, at, later
<1>6. CASE ret' = << <<"foreach">>, TRUE>>
  <2>1. ret'[1] = <<"foreach">>
    BY <1>6
  <2>2. \E done \in BOOLEAN : ret'[1] = <<"foreach">> /\ ret' = << <<"foreach">>, done>>
    BY <1>6, <2>1
  <2>3. QED
    BY <1>4, <2>2, Zenon DEF Abstract!Foreach, Abstract!Returns
<1>7. CASE ret' = << <<"visit">>, Pair(e)>> /\ In(e, slots, capacity)
  <2>1. Pair(e) \in Range(AsMap)
    <3>1. e \in Entries(slots)
      BY <1>2, <1>7, EntryIn
    <3>2. Range(AsMap) = {Pair(f) : f \in Entries(slots)}
      BY <1>2, MapRange DEF Seen
    <3>3. QED
      BY <3>1, <3>2
  <2>2. Pair(e) \in Abstract!Range(AsMap)
    BY <2>1, Zenon DEF Range, Abstract!Range
  <2>3. ret'[1] = <<"visit">>
    BY <1>7
  <2>4. QED
    BY <1>4, <1>7, <2>2, <2>3, Zenon DEF Abstract!Foreach, Abstract!Returns
<1>8. QED
  BY <1>5, <1>6, <1>7

LEMMA ForeachRefines ==
  ASSUME IInv, IInv', ~spoiled, ForeachBegin \/ ForeachStep \/ ForeachStop
  PROVE  Abstract!Foreach
<1>1. CASE ForeachBegin
  <2>1. exists /\ VisitFrom(0, 1, {Id(e) : e \in Stored}, {}) /\ Keep
    BY <1>1 DEF ForeachBegin, Idle
  <2>2. 0 \in 0..capacity - 1
    <3>1. capacity \in Nat /\ capacity >= MinCapacity
      BY <2>1 DEF IInv, Held, Good, Table
    <3>2. QED
      BY <3>1, HashFacts
  <2> DEFINE due == {Id(e) : e \in Stored}
  <2>3. VisitFrom(0, 1, due, {})
    BY <2>1
  <2> HIDE DEF due
  <2>4. QED
    BY <2>1, <2>2, <2>3, VisitRefines
<1>2. CASE ForeachStep
  <2>1. loop.on /\ VisitFrom(loop.slot, loop.pos + 1, loop.due, loop.seen) /\ Keep
    BY <1>2 DEF ForeachStep
  <2>2. exists /\ loop.slot \in 0..capacity - 1 /\ loop.pos \in 1..Len(slots[loop.slot])
    BY <2>1 DEF IInv, Visiting
  <2>3. loop.pos + 1 \in Nat \ {0}
    BY <2>2
  <2>4. QED
    BY <2>1, <2>2, <2>3, VisitRefines
<1>3. CASE ForeachStop
  <2>1. loop.on /\ Keep /\ ret' = << <<"foreach">>, FALSE>>
    BY <1>3 DEF ForeachStop, Returns
  <2>2. exists
    BY <2>1 DEF IInv
  <2>3. Abstract!Keep
    BY <2>1, MapKept DEF Abstract!Keep, Keep
  <2>4. ret'[1] = <<"foreach">>
    BY <2>1
  <2>5. \E done \in BOOLEAN : ret'[1] = <<"foreach">> /\ ret' = << <<"foreach">>, done>>
    BY <2>1, <2>4
  <2>6. QED
    BY <2>2, <2>3, <2>5, Zenon DEF Abstract!Foreach, Abstract!Returns
<1>4. QED
  BY <1>1, <1>2, <1>3

-------------------------------------------------------------------------------
(* A step of the table that does not spoil it is one of the map, or        *)
(* changes nothing that is seen of it.                                     *)
LEMMA StepRefines ==
  ASSUME IInv, IInv', [Next]_vars
  PROVE  spoiled \/ spoiled' \/ Abstract!Next \/ UNCHANGED <<exists, slots, content, ret>>
<1> SUFFICES ASSUME ~spoiled, ~spoiled', Next
             PROVE  Abstract!Next \/ UNCHANGED <<exists, slots, content, ret>>
  BY DEF vars
<1>0. Abstract!Elem = Elem
  BY DEF Elem, Abstract!Elem
<1>1. ASSUME NEW asked \in Capacities, Create(asked) PROVE Abstract!Next
  <2>1. asked \in Nat
    BY HashmapAssumption
  <2>2. Abstract!Create
    BY <1>1, <2>1, CreateRefines
  <2>3. QED
    BY <2>2, Zenon DEF Abstract!Next
<1>2. ASSUME NEW op \in {"clear", "destroy", "clear_with", "destroy_with"}, Empty(op)
      PROVE  Abstract!Next
  <2>1. Abstract!Empty(op)
    BY <1>2, EmptyRefines
  <2>2. ret'[1] = <<op>>
    BY <2>1, Zenon DEF Abstract!Empty, Abstract!Returns
  <2>3. QED
    BY <2>1, <2>2, Zenon DEF Abstract!Next
<1>3. ASSUME NEW k \in Keys, Get(k) \/ RemoveKey(k) PROVE Abstract!Next
  BY <1>3, GetRefines, RemoveRefines, Zenon DEF Abstract!Next
<1>4. ASSUME NEW k \in Keys, NEW v \in Elem, Put(k, v) PROVE Abstract!Next
  BY <1>0, <1>4, PutRefines, Zenon DEF Abstract!Next
<1>5. ASSUME NEW k \in Writable, NEW c \in Scribbles, Overwrite(k, c)
      PROVE  Abstract!Next \/ UNCHANGED <<exists, slots, content, ret>>
  <2>1. k \in Keys
    BY HashmapAssumption
  <2>2. QED
    BY <1>5, <2>1, OverwriteRefines, Zenon DEF Abstract!Next
<1>6. CASE ForeachBegin \/ ForeachStep \/ ForeachStop
  BY <1>6, ForeachRefines, Zenon DEF Abstract!Next
<1>7. QED
  BY <1>1, <1>2, <1>3, <1>4, <1>5, <1>6, Zenon DEF Next

(* hashmap.c keeps the promise of hashmap.h, that the table is a finite    *)
(* map from key bytes to pointers, until the caller writes to a stored     *)
(* key: for every hash function, load factor and heap, with collisions,    *)
(* resizes and failed allocations as they come.                            *)
THEOREM ImplementsMap == Spec => RefinesMap
<1>1. Init => Abstract!Init
  <2> SUFFICES ASSUME Init PROVE Abstract!Init
    OBVIOUS
  <2>1. /\ exists = FALSE /\ slots = Vacant(0) /\ content = Given /\ ret = << <<"none">>, NULL>>
    BY DEF Init
  <2>2. Entries(slots) = {}
    BY <2>1, EntriesVacant
  <2>3. AsMap = Abstract!None
    <3>1. AsMap = [b \in {} |-> [key |-> NULL, val |-> NULL]]
      BY <2>2, AsMapIs DEF MapOf
    <3>2. QED
      BY <3>1 DEF Abstract!None
  <2>4. QED
    BY <2>1, <2>3, HashmapAssumption, Zenon DEF Abstract!Init
<1>2. IInv /\ IInv' /\ [Next]_vars
        => [spoiled \/ spoiled' \/ Abstract!Next]_<<exists, slots, content, ret>>
  BY StepRefines
<1>3. QED
  BY Inductive, <1>1, <1>2, PTL DEF Spec, RefinesMap
================================================================================
