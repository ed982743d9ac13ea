--------------------------- MODULE LinkedListProofs ---------------------------
(***************************************************************************)
(* Proofs about the lists of LinkedList and the queues of CircularQueue on *)
(* one heap: for any number of lists, queues, nodes and values and         *)
(* whatever calls are made in whatever order, lists stay linked in both    *)
(* directions, queues stay closed circles that are first in, first out,    *)
(* and an iterator gives out the nodes it found.                           *)
(*                                                                         *)
(* The invariant speaks of the nodes of all lists and queues at once, for  *)
(* a call on one stores into nodes and must not disturb another.  Of a     *)
(* list that addALL lengthened at its end it keeps what is still true: the *)
(* tail is somewhere on the chain, and no more nodes are on it than count  *)
(* says.                                                                   *)
(***************************************************************************)
EXTENDS CircularQueue, SequenceLemmas

Types == TypeOK /\ max \in [Rings -> Nat]

(* A list with the nodes c[1..m]. *)
PlainShape(l, c, m) ==
  /\ Linked(Nodes, c, m, next, prev, head[l], Before(c, m))
  /\ m <= count[l]
  /\ IF m = 0 THEN tail[l] = NULL ELSE On(tail[l], c, m)
  /\ l \notin stale => tail[l] = Before(c, m) /\ count[l] = m
  /\ ~exists[l] => m = 0 /\ count[l] = 0

(* A queue with the nodes c[1..m]. *)
RingShape(l, c, m) ==
  /\ Ringed(Nodes, c, m, next, prev, head[l], tail[l])
  /\ m = count[l] /\ m <= max[l]
  /\ ~exists[l] => m = 0

(* A header whose nodes were given away has none of its own. *)
Shape(l, c, m) ==
  /\ m \in Nat
  /\ l \in Plain \ lent => PlainShape(l, c, m)
  /\ l \in Rings => RingShape(l, c, m)
  /\ l \in lent => m = 0 /\ exists[l]

(* No node is on two lists or queues. *)
Apart(ch, sz) ==
  \A l, k \in Lists : l # k => \A i \in 1..sz[l], j \in 1..sz[k] : ch[l][i] # ch[k][j]

(* Every allocated node is on one. *)
Owned(ch, sz) == \A n \in alive : \E l \in Lists : On(n, ch[l], sz[l])

(* The nodes of every list and queue. *)
Picture(ch, sz) ==
  /\ \A l \in Lists : Shape(l, ch[l], sz[l])
  /\ \A l \in Lists : \A i \in 1..sz[l] : ch[l][i] \in alive
  /\ Apart(ch, sz)
  /\ stale = {} => Owned(ch, sz)

(* The nodes s are on the chain from the p-th on, in this order. *)
Follows(s, c, m, p) ==
  \E e \in [1..Len(s) -> p..m] :
    /\ \A i, j \in 1..Len(s) : i < j => e[i] < e[j]
    /\ \A i \in 1..Len(s) : s[i] = c[e[i]]

(* The iterator it is at the p-th node, or at the end, and what it has to  *)
(* give out is still ahead.                                                *)
Pending(c, m, it) ==
  \E p \in 1..m + 1 : /\ it.position = IF p = m + 1 THEN NULL ELSE c[p]
                      /\ Follows(it.due, c, m, p)

Looping(ch, sz) ==
  /\ iter = [list |-> iter.list, position |-> iter.position, due |-> iter.due]
  /\ iter.position \in Nodes \cup {NULL} /\ iter.due \in Seq(Nodes)
  /\ iter.list = NULL => iter = NoIter
  /\ iter.list # NULL =>
       /\ iter.list \in Plain \ lent /\ exists[iter.list]
       /\ iter.list \notin stale => Pending(ch[iter.list], sz[iter.list], iter)

(* The inductive invariant. *)
IInv == Types /\ \E ch, sz : Picture(ch, sz) /\ Looping(ch, sz)

-------------------------------------------------------------------------------
(* What a step leaves alone. *)

(* Neither the header of l nor its nodes c[1..m] are stored to. *)
Untouched(l, c, m) ==
  /\ exists'[l] = exists[l] /\ head'[l] = head[l] /\ tail'[l] = tail[l] /\ count'[l] = count[l]
  /\ l \in Rings => max'[l] = max[l]
  /\ (l \in lent') = (l \in lent) /\ (l \in stale') = (l \in stale)
  /\ \A i \in 1..m : next'[c[i]] = next[c[i]] /\ prev'[c[i]] = prev[c[i]] /\ c[i] \in alive'

(* Then the list keeps its shape. *)
LEMMA ShapeKept ==
  ASSUME NEW l \in Lists, NEW c, NEW m, Shape(l, c, m), Untouched(l, c, m)
  PROVE  Shape(l, c, m)'
<1>1. NULL \notin Nodes
  BY NodesAssumption
<1>2. /\ exists'[l] = exists[l] /\ head'[l] = head[l] /\ tail'[l] = tail[l] /\ count'[l] = count[l]
      /\ l \in Rings => max'[l] = max[l]
      /\ (l \in lent') = (l \in lent) /\ (l \in stale') = (l \in stale)
      /\ \A i \in 1..m : next'[c[i]] = next[c[i]] /\ prev'[c[i]] = prev[c[i]]
  BY DEF Untouched
<1>3. l \in Plain \ lent' => PlainShape(l, c, m)'
  <2> SUFFICES ASSUME l \in Plain \ lent PROVE PlainShape(l, c, m)'
    BY <1>2
  <2>1. PlainShape(l, c, m)
    BY DEF Shape
  <2>2. Linked(Nodes, c, m, next', prev', head[l], Before(c, m))
    BY <1>2, <2>1, OthersLinked DEF PlainShape
  <2>3. QED
    BY <1>2, <2>1, <2>2 DEF PlainShape
<1>4. l \in Rings => RingShape(l, c, m)'
  <2> SUFFICES ASSUME l \in Rings PROVE RingShape(l, c, m)'
    OBVIOUS
  <2>1. RingShape(l, c, m)
    BY DEF Shape
  <2>2. Ringed(Nodes, c, m, next', prev', head[l], tail[l])
    BY <1>1, <1>2, <2>1, OthersRinged DEF RingShape
  <2>3. QED
    BY <1>2, <2>1, <2>2 DEF RingShape
<1>5. QED
  BY <1>2, <1>3, <1>4 DEF Shape

(* A step that changes the lists S and leaves the others alone. *)
LEMMA Repicture ==
  ASSUME NEW ch, NEW sz, Picture(ch, sz), NEW S, NEW d, NEW z,
         \A l \in Lists \cap S : Shape(l, d[l], z[l])' /\ \A i \in 1..z[l] : d[l][i] \in alive',
         \A l \in Lists \ S : d[l] = ch[l] /\ z[l] = sz[l] /\ Untouched(l, ch[l], sz[l]),
         Apart(d, z), stale' = {} => Owned(d, z)'
  PROVE  Picture(d, z)'
<1>1. \A l \in Lists : Shape(l, d[l], z[l])'
  <2> SUFFICES ASSUME NEW l \in Lists PROVE Shape(l, d[l], z[l])'
    OBVIOUS
  <2>1. CASE l \in S
    BY <2>1
  <2>2. CASE l \notin S
    <3>1. Shape(l, ch[l], sz[l]) /\ Untouched(l, ch[l], sz[l])
      BY <2>2 DEF Picture
    <3>2. Shape(l, ch[l], sz[l])'
      BY <3>1, ShapeKept
    <3>3. QED
      BY <2>2, <3>2
  <2>3. QED
    BY <2>1, <2>2
<1>2. \A l \in Lists : \A i \in 1..z[l] : d[l][i] \in alive'
  <2> SUFFICES ASSUME NEW l \in Lists, NEW i \in 1..z[l] PROVE d[l][i] \in alive'
    OBVIOUS
  <2>1. CASE l \in S
    BY <2>1
  <2>2. CASE l \notin S
    BY <2>2 DEF Untouched
  <2>3. QED
    BY <2>1, <2>2
<1>3. QED
  BY <1>1, <1>2 DEF Picture

(* One list gets the nodes e[1..k]. *)
With(ch, l, e) == [j \in Lists |-> IF j = l THEN e ELSE ch[j]]

(* A step that gives the nodes e[1..k] to the list l. *)
LEMMA OneChanges ==
  ASSUME NEW ch, NEW sz, Picture(ch, sz), NEW l \in Lists, NEW e, NEW k,
         Shape(l, e, k)', \A i \in 1..k : e[i] \in alive',
         \A j \in Lists \ {l} :
           Untouched(j, ch[j], sz[j]) /\ \A i \in 1..sz[j] : \A r \in 1..k : e[r] # ch[j][i],
         stale' = {} => \A n \in alive' :
           On(n, e, k) \/ \E j \in Lists \ {l} : On(n, ch[j], sz[j])
  PROVE  Picture(With(ch, l, e), With(sz, l, k))'
<1> DEFINE d == With(ch, l, e)
           z == With(sz, l, k)
<1>1. /\ d[l] = e /\ z[l] = k
      /\ \A j \in Lists \ {l} : d[j] = ch[j] /\ z[j] = sz[j]
  BY DEF With
<1> HIDE DEF d, z
<1>2. Apart(d, z)
  <2>1. \A i, j \in Lists \ {l} : i # j =>
          \A r \in 1..sz[i], s \in 1..sz[j] : ch[i][r] # ch[j][s]
    BY DEF Picture, Apart
  <2>2. QED
    BY <1>1, <2>1 DEF Apart
<1>3. stale' = {} => Owned(d, z)'
  <2> SUFFICES ASSUME stale' = {}, NEW n \in alive'
               PROVE  \E j \in Lists : On(n, d[j], z[j])
    BY DEF Owned
  <2>1. On(n, e, k) \/ \E j \in Lists \ {l} : On(n, ch[j], sz[j])
    OBVIOUS
  <2>2. QED
    BY <1>1, <2>1
<1>4. Picture(d, z)'
  <2> DEFINE S == {l}
  <2>1. \A j \in Lists \cap S : Shape(j, d[j], z[j])' /\ \A i \in 1..z[j] : d[j][i] \in alive'
    BY <1>1
  <2>2. \A j \in Lists \ S : d[j] = ch[j] /\ z[j] = sz[j] /\ Untouched(j, ch[j], sz[j])
    BY <1>1
  <2> HIDE DEF S
  <2>3. QED
    BY <1>2, <1>3, <2>1, <2>2, Repicture
<1>5. QED
  BY <1>4 DEF d, z

(* Queues keep their nodes. *)
RingsKept(ch, sz, d, z) == \A q \in Rings : d[q] = ch[q] /\ z[q] = sz[q]

(* What a call on lists has to make of the picture. *)
ListStep(ch, sz) ==
  /\ Types'
  /\ \E d, z : Picture(d, z)' /\ Looping(d, z)' /\ RingsKept(ch, sz, d, z)

(* A step that changes no pointer. *)
LEMMA PictureKept ==
  ASSUME NEW ch, NEW sz, Picture(ch, sz), UNCHANGED <<headers, alive, next, prev, notes, max>>
  PROVE  Picture(ch, sz)'
<1>1. UNCHANGED <<exists, head, tail, count, alive, next, prev, lent, stale, max>>
  BY DEF headers, notes
<1>2. \A l \in Lists : Untouched(l, ch[l], sz[l])
  BY <1>1 DEF Untouched, Picture
<1>3. Apart(ch, sz) /\ (stale' = {} => Owned(ch, sz)')
  BY <1>1 DEF Picture, Owned
<1> DEFINE S == {}
<1>4. /\ \A l \in Lists \cap S : Shape(l, ch[l], sz[l])' /\ \A i \in 1..sz[l] : ch[l][i] \in alive'
      /\ \A l \in Lists \ S : ch[l] = ch[l] /\ sz[l] = sz[l] /\ Untouched(l, ch[l], sz[l])
  BY <1>2
<1> HIDE DEF S
<1>5. QED
  BY <1>3, <1>4, Repicture

(* An iterator nobody touches, over chains that stay as they are. *)
LEMMA LoopingKept ==
  ASSUME NEW ch, NEW sz, Looping(ch, sz), UNCHANGED <<iter, exists, lent, stale>>
  PROVE  Looping(ch, sz)'
BY DEF Looping

(* A call that changes nothing. *)
LEMMA KeepStep ==
  ASSUME Types, NEW ch, NEW sz, Picture(ch, sz), Looping(ch, sz),
         UNCHANGED <<headers, heap, notes, iter, max>>, fault' \in BOOLEAN
  PROVE  ListStep(ch, sz)
<1>1. UNCHANGED <<exists, head, tail, count, alive, next, prev, data, lent, stale>>
  BY DEF headers, heap, notes
<1>2. Types'
  BY <1>1 DEF Types, TypeOK
<1>3. Picture(ch, sz)' /\ Looping(ch, sz)'
  BY <1>1, PictureKept, LoopingKept DEF headers, notes
<1>4. QED
  BY <1>2, <1>3 DEF ListStep, RingsKept

-------------------------------------------------------------------------------
(* What the picture says of one list. *)
LEMMA PlainFacts ==
  ASSUME Types, NEW ch, NEW sz, Picture(ch, sz), NEW l \in Plain \ lent,
         NEW c, c = ch[l], NEW m, m = sz[l]
  PROVE  /\ l \in Lists /\ l \notin Rings /\ m \in Nat
         /\ head[l] = Behind(c, m, 0)
         /\ \A i \in 1..m : /\ c[i] \in Nodes /\ c[i] \in alive /\ c[i] # NULL
                            /\ next[c[i]] = Behind(c, m, i) /\ prev[c[i]] = Before(c, i - 1)
         /\ \A i, j \in 1..m : c[i] = c[j] => i = j
         /\ Shows(Chain(l), c, m) /\ m <= Cardinality(Nodes) /\ Cardinality(Nodes) \in Nat
<1>1. l \in Lists /\ l \notin Rings
  BY DEF Plain
<1>2. Shape(l, c, m) /\ \A i \in 1..m : c[i] \in alive
  BY <1>1 DEF Picture
<1>3. m \in Nat /\ Linked(Nodes, c, m, next, prev, head[l], Before(c, m))
  BY <1>2 DEF Shape, PlainShape
<1>4. NULL \notin Nodes /\ IsFiniteSet(Nodes)
  BY NodesAssumption
<1>5. Run(Nodes, c, m, next, head[l]) /\ Back(c, m, prev, Before(c, m))
  BY <1>3 DEF Linked
<1>6. m <= Cardinality(Nodes) /\ Cardinality(Nodes) \in Nat
  BY <1>4, <1>5, RunBounded
<1>7. Shows(Chain(l), c, m)
  <2> DEFINE n == Cardinality(Nodes)
             h == head[l]
  <2>1. n \in Nat /\ m <= n /\ Run(Nodes, c, m, next, h)
    BY <1>5, <1>6
  <2> HIDE DEF n, h
  <2>2. Shows(Walk(next, h, n), c, IF m <= n THEN m ELSE n + 1)
    BY <1>4, <2>1, WalkOfRun
  <2>3. QED
    BY <2>1, <2>2 DEF Chain, n, h
<1>8. \A i, j \in 1..m : c[i] = c[j] => i = j
  BY <1>4, <1>5, RunInjective
<1>9. \A i \in 1..m : /\ c[i] \in Nodes /\ c[i] # NULL
                      /\ next[c[i]] = Behind(c, m, i) /\ prev[c[i]] = Before(c, i - 1)
  BY <1>3, <1>4, <1>5 DEF Run, Back, Behind, Before
<1>10. head[l] = Behind(c, m, 0)
  BY <1>3, <1>5 DEF Run, Behind
<1>11. QED
  BY <1>1, <1>2, <1>3, <1>6, <1>7, <1>8, <1>9, <1>10

(* The chain as a sequence. *)
LEMMA ChainFacts ==
  ASSUME Types, NEW ch, NEW sz, Picture(ch, sz), NEW l \in Plain \ lent
  PROVE  /\ Chain(l) = [i \in 1..sz[l] |-> ch[l][i]] /\ Len(Chain(l)) = sz[l]
         /\ DOMAIN Chain(l) = 1..sz[l] /\ ToSet(Chain(l)) = {ch[l][i] : i \in 1..sz[l]}
         /\ Chain(l) \in Seq(Nodes) /\ \A i \in 1..sz[l] : Chain(l)[i] = ch[l][i]
<1> DEFINE c == ch[l]
           m == sz[l]
<1>1. m \in Nat /\ Shows(Chain(l), c, m) /\ \A i \in 1..m : c[i] \in Nodes
  BY PlainFacts
<1> HIDE DEF c, m
<1>2. PICK w : w = Chain(l)
  OBVIOUS
<1>3. w = [i \in 1..m |-> c[i]]
  BY <1>1, <1>2 DEF Shows
<1>4. Len(w) = m /\ DOMAIN w = 1..m /\ (\A i \in 1..m : w[i] = c[i]) /\ w \in Seq(Nodes)
  BY <1>1, <1>3
<1>5. ToSet(w) = {c[i] : i \in 1..m}
  BY <1>4 DEF ToSet
<1>6. QED
  BY <1>2, <1>3, <1>4, <1>5 DEF c, m
-------------------------------------------------------------------------------
(* What becomes of an iterator when the chain under it changes. *)

(* A node comes in behind the i-th. *)
Widened(e, c, m, i, n) ==
  \A k \in 1..m + 1 : e[k] = IF k <= i THEN c[k] ELSE IF k = i + 1 THEN n ELSE c[k - 1]

(* What the iterator has to give out is still ahead. *)
LEMMA PendingInserted ==
  ASSUME NEW c, NEW m \in Nat, NEW it, Pending(c, m, it), NEW i \in 0..m, NEW n,
         NEW e, Widened(e, c, m, i, n)
  PROVE  Pending(e, m + 1, it)
<1>w. \A k \in 1..m + 1 : e[k] = IF k <= i THEN c[k] ELSE IF k = i + 1 THEN n ELSE c[k - 1]
  BY DEF Widened
<1> DEFINE s == it.due
           u == Len(s)
<1>1. PICK p \in 1..m + 1 : /\ it.position = IF p = m + 1 THEN NULL ELSE c[p]
                            /\ Follows(s, c, m, p)
  BY DEF Pending
<1>2. PICK f \in [1..u -> p..m] : /\ \A x, y \in 1..u : x < y => f[x] < f[y]
                                  /\ \A x \in 1..u : s[x] = c[f[x]]
  BY <1>1 DEF Follows
<1> DEFINE p2 == IF i < p THEN p + 1 ELSE p
           g == [x \in 1..u |-> IF f[x] <= i THEN f[x] ELSE f[x] + 1]
<1>u. PICK w : w = u
  OBVIOUS
<1> HIDE DEF u
<1>f. \A x \in 1..w : f[x] \in p..m /\ f[x] \in Nat
  BY <1>1, <1>2, <1>u
<1>g. g \in [1..w -> {IF f[x] <= i THEN f[x] ELSE f[x] + 1 : x \in 1..w}]
      /\ \A x \in 1..w : g[x] = IF f[x] <= i THEN f[x] ELSE f[x] + 1
  BY <1>u
<1> HIDE DEF g
<1>3. p2 \in 1..m + 2 /\ it.position = IF p2 = m + 2 THEN NULL ELSE e[p2]
  <2>1. CASE i < p
    <3>1. p2 = p + 1 /\ ~(p + 1 <= i) /\ (p + 1) - 1 = p /\ (p + 1 = m + 2 <=> p = m + 1)
      BY <1>1, <2>1
    <3>2. CASE p = m + 1
      BY <1>1, <3>1, <3>2
    <3>3. CASE p # m + 1
      <4>1. p + 1 \in 1..m + 1 /\ p + 1 \in 1..m + 2
        BY <1>1, <3>3
      <4>2. e[p + 1] = IF p + 1 = i + 1 THEN n ELSE c[p]
        BY <1>w, <3>1, <4>1
      <4>3. p + 1 # i + 1
        BY <1>1, <2>1
      <4>4. QED
        BY <1>1, <3>1, <3>3, <4>1, <4>2, <4>3
    <3>4. QED
      BY <3>2, <3>3
  <2>2. CASE ~(i < p)
    <3>1. p2 = p /\ p <= i /\ p # m + 1 /\ p # m + 2 /\ p \in 1..m + 1 /\ p \in 1..m + 2
      BY <1>1, <2>2
    <3>2. QED
      BY <1>1, <1>w, <3>1
  <2>3. QED
    BY <2>1, <2>2
<1>4. \A x \in 1..w : /\ g[x] = (IF f[x] <= i THEN f[x] ELSE f[x] + 1) /\ g[x] \in p2..m + 1
                      /\ e[g[x]] = c[f[x]]
  <2> SUFFICES ASSUME NEW x \in 1..w
               PROVE  /\ g[x] = (IF f[x] <= i THEN f[x] ELSE f[x] + 1) /\ g[x] \in p2..m + 1
                      /\ e[g[x]] = c[f[x]]
    OBVIOUS
  <2>1. g[x] = IF f[x] <= i THEN f[x] ELSE f[x] + 1
    BY <1>g
  <2>2. CASE f[x] <= i
    <3>1. g[x] = f[x] /\ f[x] \in 1..m + 1 /\ p <= f[x] /\ f[x] <= m
      BY <1>1, <1>f, <2>1, <2>2
    <3>2. p2 = p
      BY <1>1, <2>2, <3>1
    <3>3. e[f[x]] = c[f[x]]
      BY <1>w, <2>2, <3>1
    <3>4. f[x] \in p..m + 1
      BY <1>1, <1>f, <3>1
    <3>5. QED
      BY <2>1, <2>2, <3>1, <3>2, <3>3, <3>4
  <2>3. CASE ~(f[x] <= i)
    <3>1. PICK y : y = f[x]
      OBVIOUS
    <3>2. y \in Nat /\ p <= y /\ y <= m /\ i < y /\ g[x] = y + 1
      BY <1>1, <1>f, <2>1, <2>3, <3>1
    <3>3. y + 1 \in 1..m + 1 /\ (y + 1) - 1 = y /\ ~(y + 1 <= i) /\ y + 1 \in p2..m + 1
      BY <1>1, <3>2
    <3>4. e[y + 1] = c[y]
      <4>1. CASE y + 1 = i + 1
        BY <1>w, <3>2, <4>1
      <4>2. CASE y + 1 # i + 1
        BY <1>w, <3>3, <4>2
      <4>3. QED
        BY <4>1, <4>2
    <3>5. QED
      BY <2>1, <3>1, <3>2, <3>3, <3>4
  <2>4. QED
    BY <2>2, <2>3
<1> HIDE DEF p2
<1>5. g \in [1..w -> p2..m + 1]
  BY <1>4, <1>g
<1>6. \A x, y \in 1..w : x < y => g[x] < g[y]
  BY <1>2, <1>4, <1>f, <1>u
<1>7. \A x \in 1..w : s[x] = e[g[x]]
  BY <1>2, <1>4, <1>u
<1>8. Follows(s, e, m + 1, p2)
  BY <1>5, <1>6, <1>7, <1>u DEF Follows, u
<1>9. m + 2 = (m + 1) + 1
  OBVIOUS
<1>10. QED
  BY <1>3, <1>8, <1>9 DEF Pending

(* The r-th node leaves, one that the iterator has passed. *)
Narrowed(e, c, m, r) == \A k \in 1..m - 1 : e[k] = IF k < r THEN c[k] ELSE c[k + 1]

Passed(it, c, r) == \A k \in 1..r : it.position # c[k]

(* What the iterator has to give out is still ahead. *)
LEMMA PendingRemoved ==
  ASSUME NEW c, NEW m \in Nat, NEW it, Pending(c, m, it), NEW r \in 1..m, Passed(it, c, r),
         NEW e, Narrowed(e, c, m, r)
  PROVE  Pending(e, m - 1, it)
<1>w. /\ \A k \in 1..r : it.position # c[k]
      /\ \A k \in 1..m - 1 : e[k] = IF k < r THEN c[k] ELSE c[k + 1]
  BY DEF Passed, Narrowed
<1> DEFINE s == it.due
           u == Len(s)
<1>1. PICK p \in 1..m + 1 : /\ it.position = IF p = m + 1 THEN NULL ELSE c[p]
                            /\ Follows(s, c, m, p)
  BY DEF Pending
<1>2. PICK f \in [1..u -> p..m] : /\ \A x, y \in 1..u : x < y => f[x] < f[y]
                                  /\ \A x \in 1..u : s[x] = c[f[x]]
  BY <1>1 DEF Follows
<1>3. r < p
  BY <1>1, <1>w
<1> DEFINE g == [x \in 1..u |-> f[x] - 1]
<1>u. PICK w : w = u
  OBVIOUS
<1> HIDE DEF u
<1>f. \A x \in 1..w : f[x] \in p..m /\ f[x] \in Nat
  BY <1>1, <1>2, <1>u
<1>4. /\ p - 1 \in 1..(m - 1) + 1
      /\ it.position = IF p - 1 = (m - 1) + 1 THEN NULL ELSE e[p - 1]
  <2>1. p - 1 \in 1..(m - 1) + 1 /\ (p - 1 = (m - 1) + 1 <=> p = m + 1)
    BY <1>1, <1>3
  <2>2. CASE p = m + 1
    BY <1>1, <2>1, <2>2
  <2>3. CASE p # m + 1
    <3>1. p - 1 \in 1..m - 1 /\ ~(p - 1 < r) /\ (p - 1) + 1 = p
      BY <1>1, <1>3, <2>3
    <3>2. QED
      BY <1>1, <1>w, <2>1, <2>3, <3>1
  <2>4. QED
    BY <2>2, <2>3
<1>5. \A x \in 1..w : g[x] = f[x] - 1 /\ g[x] \in p - 1..m - 1 /\ e[g[x]] = c[f[x]]
  <2> SUFFICES ASSUME NEW x \in 1..w
               PROVE  g[x] = f[x] - 1 /\ g[x] \in p - 1..m - 1 /\ e[g[x]] = c[f[x]]
    OBVIOUS
  <2>1. g[x] = f[x] - 1
    BY <1>u
  <2>2. f[x] - 1 \in 1..m - 1 /\ ~(f[x] - 1 < r) /\ (f[x] - 1) + 1 = f[x] /\ f[x] - 1 \in p - 1..m - 1
    BY <1>1, <1>3, <1>f
  <2>3. QED
    BY <1>w, <2>1, <2>2
<1>6. g \in [1..w -> p - 1..m - 1]
  BY <1>5, <1>u
<1>7. \A x, y \in 1..w : x < y => g[x] < g[y]
  BY <1>2, <1>5, <1>f, <1>u
<1>8. \A x \in 1..w : s[x] = e[g[x]]
  BY <1>2, <1>5, <1>u
<1> HIDE DEF g
<1>9. Follows(s, e, m - 1, p - 1)
  BY <1>6, <1>7, <1>8, <1>u DEF Follows, u
<1>10. QED
  BY <1>4, <1>9 DEF Pending

(* The iterator gives out the node it is at. *)
LEMMA PendingGiven ==
  ASSUME NEW c, NEW m \in Nat, NEW it, it.due \in Seq(Nodes), Pending(c, m, it), NEW r \in 1..m,
         it.position = c[r], \A i \in 1..m : c[i] # NULL,
         \A i, j \in 1..m : c[i] = c[j] => i = j,
         NEW it2, it2.position = Behind(c, m, r), it2.due = Rest(it.due, c[r])
  PROVE  it2.due \in Seq(Nodes) /\ Pending(c, m, it2)
<1> DEFINE s == it.due
           t == it2.due
<1>1. PICK p \in 1..m + 1 : /\ it.position = IF p = m + 1 THEN NULL ELSE c[p]
                            /\ Follows(s, c, m, p)
  BY DEF Pending
<1>p. p = r
  <2>1. p # m + 1
    BY <1>1
  <2>2. p \in 1..m /\ c[p] = c[r]
    BY <1>1, <2>1
  <2>3. QED
    BY <2>2
<1>u. PICK u : u = Len(s)
  OBVIOUS
<1>2. u \in Nat
  BY <1>u, LenProperties
<1>3. PICK f \in [1..u -> r..m] : /\ \A x, y \in 1..u : x < y => f[x] < f[y]
                                  /\ \A x \in 1..u : s[x] = c[f[x]]
  BY <1>1, <1>p, <1>u DEF Follows
<1>4. /\ r + 1 \in 1..m + 1
      /\ it2.position = IF r + 1 = m + 1 THEN NULL ELSE c[r + 1]
  BY DEF Behind
<1>5. CASE u # 0 /\ s[1] = c[r]
  <2> DEFINE g == [x \in 1..u - 1 |-> f[x + 1]]
  <2>1. s # <<>>
    BY <1>2, <1>5, <1>u
  <2>2. Head(s) = s[1]
    BY <2>1
  <2>3. t = Tail(s)
    BY <1>5, <2>1, <2>2 DEF Rest
  <2>4. t \in Seq(Nodes) /\ Len(t) = u - 1 /\ \A x \in 1..u - 1 : t[x] = s[x + 1]
    BY <1>2, <1>u, <2>1, <2>3
  <2>5. f[1] = r
    BY <1>2, <1>3, <1>5
  <2>6. \A x \in 1..u - 1 : g[x] = f[x + 1] /\ f[x + 1] \in r + 1..m /\ t[x] = c[f[x + 1]]
    <3> SUFFICES ASSUME NEW x \in 1..u - 1
                 PROVE  g[x] = f[x + 1] /\ f[x + 1] \in r + 1..m /\ t[x] = c[f[x + 1]]
      OBVIOUS
    <3>1. x + 1 \in 1..u /\ 1 \in 1..u /\ 1 < x + 1
      BY <1>2
    <3>2. f[x + 1] \in r..m /\ f[1] < f[x + 1]
      BY <1>3, <3>1
    <3>3. QED
      BY <1>3, <2>4, <2>5, <3>1, <3>2
  <2>7. g \in [1..u - 1 -> r + 1..m]
    BY <2>6
  <2>8. \A x, y \in 1..u - 1 : x < y => g[x] < g[y]
    BY <1>2, <1>3, <2>6
  <2>9. \A x \in 1..u - 1 : t[x] = c[g[x]]
    BY <2>6
  <2> HIDE DEF g
  <2>10. Follows(t, c, m, r + 1)
    BY <2>4, <2>7, <2>8, <2>9 DEF Follows
  <2>11. QED
    BY <1>4, <2>4, <2>10 DEF Pending
<1>6. CASE ~(u # 0 /\ s[1] = c[r])
  <2>1. t = s
    <3>1. CASE s = <<>>
      BY <3>1 DEF Rest
    <3>2. CASE s # <<>>
      <4>1. u # 0
        BY <1>u, <3>2, EmptySeq
      <4>2. Head(s) = s[1]
        BY <3>2
      <4>3. Head(s) # c[r]
        BY <1>6, <4>1, <4>2
      <4>4. QED
        BY <4>3 DEF Rest
    <3>3. QED
      BY <3>1, <3>2
  <2>2. \A x \in 1..u : f[x] # r
    <3> SUFFICES ASSUME NEW x \in 1..u, f[x] = r PROVE FALSE
      OBVIOUS
    <3>1. u # 0 /\ 1 \in 1..u /\ f[1] \in r..m /\ s[1] = c[f[1]] /\ f[1] # r
      BY <1>2, <1>3, <1>6
    <3>2. f[1] > r /\ x # 1
      BY <3>1
    <3>3. f[1] < f[x]
      BY <1>2, <1>3, <3>1, <3>2
    <3>4. QED
      BY <3>1, <3>2, <3>3
  <2>3. f \in [1..u -> r + 1..m]
    <3>1. \A x \in 1..u : f[x] \in r + 1..m
      BY <1>3, <2>2
    <3>2. QED
      BY <1>3, <3>1
  <2>4. Follows(t, c, m, r + 1)
    <3>1. Len(t) = u /\ t = s
      BY <1>u, <2>1
    <3>2. (\A x, y \in 1..u : x < y => f[x] < f[y]) /\ \A x \in 1..u : t[x] = c[f[x]]
      BY <1>3, <2>1
    <3> HIDE DEF t
    <3>3. QED
      BY <2>3, <3>1, <3>2 DEF Follows
  <2>5. QED
    BY <1>4, <2>1, <2>4 DEF Pending
<1>7. QED
  BY <1>5, <1>6

-------------------------------------------------------------------------------
(* One call, one list. *)

(* A call that changes the list l alone. *)
LEMMA OneListStep ==
  ASSUME Types', NEW ch, NEW sz, Picture(ch, sz), Looping(ch, sz),
         NEW l \in Plain, NEW e, NEW k,
         Shape(l, e, k)', \A i \in 1..k : e[i] \in alive',
         \A j \in Lists \ {l} :
           Untouched(j, ch[j], sz[j]) /\ \A i \in 1..sz[j] : \A r \in 1..k : e[r] # ch[j][i],
         stale' = {} => \A n \in alive' :
           On(n, e, k) \/ \E j \in Lists \ {l} : On(n, ch[j], sz[j]),
         iter' = iter,
         iter.list = l => exists'[l] /\ l \notin lent' /\ (l \notin stale' => Pending(e, k, iter))
  PROVE  ListStep(ch, sz)
<1> DEFINE d == With(ch, l, e)
           z == With(sz, l, k)
<1>1. l \in Lists /\ Rings \subseteq Lists /\ l \notin Rings
  BY RingsAssumption DEF Plain
<1>2. /\ d[l] = e /\ z[l] = k
      /\ \A j \in Lists \ {l} : d[j] = ch[j] /\ z[j] = sz[j]
  BY <1>1 DEF With
<1>3. Picture(d, z)'
  BY <1>1, OneChanges
<1> HIDE DEF d, z
<1>4. RingsKept(ch, sz, d, z)
  BY <1>1, <1>2 DEF RingsKept
<1>5. Looping(d, z)'
  <2>1. /\ iter' = [list |-> iter'.list, position |-> iter'.position, due |-> iter'.due]
        /\ iter'.position \in Nodes \cup {NULL} /\ iter'.due \in Seq(Nodes)
        /\ iter'.list = NULL => iter' = NoIter
    BY DEF Looping
  <2>2. ASSUME iter'.list # NULL
        PROVE  /\ iter'.list \in Plain \ lent' /\ exists'[iter'.list]
               /\ iter'.list \notin stale' => Pending(d[iter'.list], z[iter'.list], iter')
    <3>1. CASE iter.list = l
      BY <1>2, <3>1
    <3>2. CASE iter.list # l
      <4> DEFINE j == iter.list
      <4>1. j \in Plain \ lent /\ exists[j] /\ (j \notin stale => Pending(ch[j], sz[j], iter))
        BY <2>2 DEF Looping
      <4>2. j \in Lists \ {l}
        BY <3>2, <4>1 DEF Plain
      <4>3. exists'[j] = exists[j] /\ (j \in lent') = (j \in lent) /\ (j \in stale') = (j \in stale)
        BY <4>2 DEF Untouched
      <4>4. d[j] = ch[j] /\ z[j] = sz[j]
        BY <1>2, <4>2
      <4>5. QED
        BY <4>1, <4>3, <4>4
    <3>3. QED
      BY <3>1, <3>2
  <2>3. QED
    BY <2>1, <2>2 DEF Looping
<1>6. QED
  BY <1>3, <1>4, <1>5 DEF ListStep

(* Stores to the nodes of l and to free nodes leave the others alone. *)
LEMMA OthersUntouched ==
  ASSUME NEW ch, NEW sz, Picture(ch, sz), NEW l \in Lists,
         \A j \in Lists \ {l} :
           /\ exists'[j] = exists[j] /\ head'[j] = head[j] /\ tail'[j] = tail[j] /\ count'[j] = count[j]
           /\ j \in Rings => max'[j] = max[j]
           /\ (j \in lent') = (j \in lent) /\ (j \in stale') = (j \in stale),
         \A x \in alive : ~On(x, ch[l], sz[l]) => next'[x] = next[x] /\ prev'[x] = prev[x] /\ x \in alive'
  PROVE  \A j \in Lists \ {l} : Untouched(j, ch[j], sz[j])
<1> SUFFICES ASSUME NEW j \in Lists \ {l} PROVE Untouched(j, ch[j], sz[j])
  OBVIOUS
<1>1. \A i \in 1..sz[j] : ch[j][i] \in alive /\ ~On(ch[j][i], ch[l], sz[l])
  BY DEF Picture, Apart, On
<1>2. QED
  BY <1>1 DEF Untouched

(* A node with value v comes between p and q, the nodes next to a gap of   *)
(* c[1..j]; what is behind the j-th is cut off when it comes in there.     *)
LEMMA LinkStep ==
  ASSUME Types, NEW ch, NEW sz, Picture(ch, sz), Looping(ch, sz),
         NEW l \in Plain \ lent, exists[l], NEW c, c = ch[l], NEW m, m = sz[l],
         NEW j \in 0..m, l \notin stale => j = m,
         NEW nx, Linked(Nodes, c, j, nx, prev, head[l], Before(c, j)),
         NEW i \in 0..j, NEW p, p = Before(c, i), NEW q, q = Behind(c, j, i),
         \A x \in Nodes : x # p => nx[x] = next[x], q = NULL \/ j = m,
         NEW v \in Elem, Link(l, p, q, v), UNCHANGED <<iter, fault, max>>
  PROVE  ListStep(ch, sz)
<1>1. /\ l \in Lists /\ l \notin Rings /\ m \in Nat
      /\ \A k \in 1..m : c[k] \in Nodes /\ c[k] \in alive /\ c[k] # NULL
      /\ \A r, k \in 1..m : c[r] = c[k] => r = k
  BY PlainFacts
<1>2. PICK n \in Nodes \ alive :
        /\ alive' = alive \cup {n}
        /\ next' = [x \in Nodes |-> IF x = n THEN q ELSE IF x = p THEN n ELSE next[x]]
        /\ prev' = [x \in Nodes |-> IF x = n THEN p ELSE IF x = q THEN n ELSE prev[x]]
        /\ data' = [data EXCEPT ![n] = v]
        /\ head' = [head EXCEPT ![l] = IF p = NULL THEN n ELSE @]
        /\ tail' = [tail EXCEPT ![l] = IF q = NULL THEN n ELSE @]
        /\ count' = [count EXCEPT ![l] = @ + 1]
        /\ exists' = exists /\ lent' = lent /\ stale' = stale
  BY DEF Link, notes
<1>3. j \in Nat /\ i \in Nat /\ i <= j /\ j <= m /\ \A k \in 1..j : k \in 1..m
  BY <1>1
<1> DEFINE e == [k \in 1..j + 1 |-> IF k <= i THEN c[k] ELSE IF k = i + 1 THEN n ELSE c[k - 1]]
           h2 == IF p = NULL THEN n ELSE head[l]
           t2 == IF q = NULL THEN n ELSE Before(c, j)
<1>4. \A k \in 1..j + 1 : e[k] = IF k <= i THEN c[k] ELSE IF k = i + 1 THEN n ELSE c[k - 1]
  OBVIOUS
<1>n. NULL \notin Nodes /\ n \in Nodes /\ n # NULL /\ \A k \in 1..m : c[k] # n
  BY <1>1, <1>2, NodesAssumption
<1>5. Linked(Nodes, e, j + 1, next', prev', h2, t2)
  <2> HIDE DEF e
  <2>1. \A x \in Nodes : next'[x] = IF x = n THEN q ELSE IF x = p THEN n ELSE nx[x]
    BY <1>2
  <2>2. \A x \in Nodes : prev'[x] = IF x = n THEN p ELSE IF x = q THEN n ELSE prev[x]
    BY <1>2
  <2>3. \A k \in 1..j : c[k] # n
    BY <1>3, <1>n
  <2>4. Inserted(Nodes, c, j, i, n, nx, prev, head[l], Before(c, j), next', prev', h2, t2, e)
    BY <1>3, <1>4, <1>n, <2>1, <2>2, <2>3 DEF Inserted
  <2> HIDE DEF h2, t2
  <2>5. QED
    BY <1>n, <2>4, InsertLinked
<1>6. t2 = e[j + 1] /\ Before(e, j + 1) = e[j + 1]
  <2>1. j + 1 # 0
    BY <1>3
  <2> HIDE DEF e, t2
  <2>2. QED
    BY <1>5, <2>1 DEF Linked, Back, Before
<1>7. Types'
  BY <1>2, <1>3, <1>1 DEF Types, TypeOK, Before, Behind, Elem
<1>s. PlainShape(l, c, m)
  BY <1>1 DEF Picture, Shape
<1>8. Shape(l, e, j + 1)'
  <2>1. head'[l] = h2 /\ tail'[l] = (IF q = NULL THEN n ELSE tail[l]) /\ count'[l] = count[l] + 1
    BY <1>1, <1>2 DEF Types, TypeOK
  <2>2. count[l] \in Nat /\ m <= count[l]
    BY <1>1, <1>s DEF PlainShape, Types, TypeOK
  <2>3. On(tail'[l], e, j + 1)
    <3>1. CASE q = NULL
      <4>1. j + 1 \in 1..j + 1
        BY <1>3
      <4>2. QED
        BY <1>6, <2>1, <3>1, <4>1 DEF On
    <3>2. CASE q # NULL
      <4>1. j = m /\ tail'[l] = tail[l]
        BY <2>1, <3>2
      <4>2. m # 0
        BY <1>3, <3>2, <4>1 DEF Behind, Before
      <4>3. PICK r \in 1..m : c[r] = tail[l]
        BY <1>s, <4>2 DEF PlainShape, On
      <4>4. CASE r <= i
        <5>1. r \in 1..j + 1 /\ e[r] = c[r]
          BY <1>3, <4>1, <4>4
        <5>2. QED
          BY <4>1, <4>3, <5>1 DEF On
      <4>5. CASE ~(r <= i)
        <5>1. r + 1 \in 1..j + 1 /\ e[r + 1] = c[r]
          BY <1>3, <4>1, <4>5
        <5>2. QED
          BY <4>1, <4>3, <5>1 DEF On
      <4>6. QED
        BY <4>4, <4>5
    <3>3. QED
      BY <3>1, <3>2
  <2>4. l \notin stale => tail'[l] = Before(e, j + 1) /\ count'[l] = j + 1
    BY <1>6, <1>s, <2>1 DEF PlainShape
  <2>5. j + 1 # 0 /\ j + 1 \in Nat /\ j + 1 <= count'[l]
    <3>1. PICK k : k = count[l]
      OBVIOUS
    <3>2. k \in Nat /\ m <= k /\ count'[l] = k + 1
      BY <2>1, <2>2, <3>1
    <3>3. QED
      BY <1>1, <1>3, <3>2
  <2>6. exists'[l] /\ l \notin lent' /\ l \in Plain
    BY <1>2
  <2> HIDE DEF e
  <2>7. Linked(Nodes, e, j + 1, next', prev', head'[l], Before(e, j + 1))
    BY <1>5, <1>6, <2>1
  <2>8. PlainShape(l, e, j + 1)'
    BY <1>2, <2>3, <2>4, <2>5, <2>6, <2>7 DEF PlainShape
  <2>9. QED
    BY <1>1, <2>5, <2>6, <2>8 DEF Shape
<1>9. \A k \in 1..j + 1 : e[k] \in alive' /\ (e[k] = n \/ \E r \in 1..m : e[k] = c[r])
  <2> SUFFICES ASSUME NEW k \in 1..j + 1
               PROVE  e[k] \in alive' /\ (e[k] = n \/ \E r \in 1..m : e[k] = c[r])
    OBVIOUS
  <2>1. CASE k <= i
    BY <1>1, <1>2, <1>3, <2>1
  <2>2. CASE k = i + 1
    BY <1>1, <1>2, <1>3, <2>2
  <2>3. CASE k > i + 1
    <3>1. k - 1 \in 1..m /\ e[k] = c[k - 1]
      BY <1>3, <2>3
    <3>2. QED
      BY <1>1, <1>2, <3>1
  <2>4. QED
    BY <1>3, <2>1, <2>2, <2>3
<1>10. ASSUME NEW k \in Lists \ {l}
       PROVE  Untouched(k, ch[k], sz[k]) /\ \A a \in 1..sz[k] : \A r \in 1..j + 1 : e[r] # ch[k][a]
  <2>1. \A a \in 1..sz[k] : ch[k][a] \in alive /\ \A r \in 1..m : c[r] # ch[k][a]
    BY <1>1 DEF Picture, Apart
  <2>2. \A a \in 1..sz[k] : \A r \in 1..j + 1 : e[r] # ch[k][a]
    BY <1>2, <1>9, <2>1
  <2>3. p = NULL \/ On(p, c, m)
    BY <1>3 DEF Before, On
  <2>4. q = NULL \/ On(q, c, m)
    BY <1>3 DEF Behind, On
  <2>5. \A a \in 1..sz[k] : ch[k][a] # p /\ ch[k][a] # q /\ ch[k][a] # n /\ ch[k][a] \in Nodes
    BY <1>2, <1>n, <2>1, <2>3, <2>4 DEF On, Types, TypeOK
  <2>6. \A a \in 1..sz[k] : /\ next'[ch[k][a]] = next[ch[k][a]] /\ prev'[ch[k][a]] = prev[ch[k][a]]
                            /\ ch[k][a] \in alive'
    BY <1>2, <2>1, <2>5
  <2>7. /\ exists'[k] = exists[k] /\ head'[k] = head[k] /\ tail'[k] = tail[k] /\ count'[k] = count[k]
        /\ k \in Rings => max'[k] = max[k]
        /\ lent' = lent /\ stale' = stale
    BY <1>1, <1>2 DEF Types, TypeOK
  <2>8. QED
    BY <2>2, <2>6, <2>7 DEF Untouched
<1>11. ASSUME stale' = {}, NEW x \in alive'
       PROVE  On(x, e, j + 1) \/ \E k \in Lists \ {l} : On(x, ch[k], sz[k])
  <2>1. j = m
    BY <1>2, <1>11
  <2>2. CASE x = n
    <3>1. i + 1 \in 1..j + 1 /\ e[i + 1] = n
      BY <1>3
    <3>2. QED
      BY <2>2, <3>1 DEF On
  <2>3. CASE x \in alive
    <3>1. PICK k \in Lists : On(x, ch[k], sz[k])
      BY <1>2, <1>11, <2>3 DEF Picture, Owned
    <3>2. CASE k = l
      <4>1. PICK r \in 1..m : c[r] = x
        BY <3>1, <3>2 DEF On
      <4>2. CASE r <= i
        <5>1. r \in 1..j + 1 /\ e[r] = c[r]
          BY <1>3, <2>1, <4>2
        <5>2. QED
          BY <4>1, <5>1 DEF On
      <4>3. CASE ~(r <= i)
        <5>1. r + 1 \in 1..j + 1 /\ e[r + 1] = c[r]
          BY <1>3, <2>1, <4>3
        <5>2. QED
          BY <4>1, <5>1 DEF On
      <4>4. QED
        BY <4>2, <4>3
    <3>3. QED
      BY <3>1, <3>2
  <2>4. QED
    BY <1>2, <2>2, <2>3
<1>12. iter.list = l => exists'[l] /\ l \notin lent' /\ (l \notin stale' => Pending(e, j + 1, iter))
  <2> SUFFICES ASSUME iter.list = l, l \notin stale PROVE Pending(e, j + 1, iter)
    BY <1>2
  <2>1. j = m /\ l # NULL
    BY <1>1, NodesAssumption
  <2>2. Pending(c, m, iter)
    BY <2>1 DEF Looping
  <2>w. Widened(e, c, m, i, n)
    BY <2>1 DEF Widened
  <2> HIDE DEF e
  <2>4. i \in 0..m
    BY <2>1
  <2>5. Pending(e, m + 1, iter)
    BY <1>1, <2>2, <2>w, <2>4, PendingInserted
  <2>6. QED
    BY <2>1, <2>5
<1> HIDE DEF e
<1>13. QED
  BY <1>7, <1>8, <1>9, <1>10, <1>11, <1>12, OneListStep

(* What a call that crashes leaves is what was there. *)
LEMMA CrashStep ==
  ASSUME Types, NEW ch, NEW sz, Picture(ch, sz), Looping(ch, sz), UNCHANGED max,
         NEW op, NEW owed, Crash(op, owed)
  PROVE  ListStep(ch, sz)
<1>1. UNCHANGED <<headers, heap, notes, iter>> /\ fault' \in BOOLEAN
  BY DEF Crash
<1>2. QED
  BY <1>1, KeepStep

(* A call that returns and stores nothing. *)
LEMMA KeepReturnsStep ==
  ASSUME Types, NEW ch, NEW sz, Picture(ch, sz), Looping(ch, sz), UNCHANGED max,
         NEW op, NEW r, Keep, Returns(op, r)
  PROVE  ListStep(ch, sz)
<1>1. UNCHANGED <<headers, heap, notes, iter>> /\ fault' \in BOOLEAN
  BY DEF Keep, Returns, Types, TypeOK
<1>2. QED
  BY <1>1, KeepStep

(* push_back puts a node behind the tail, wherever the tail is. *)
LEMMA PushStep ==
  ASSUME Types, NEW ch, NEW sz, Picture(ch, sz), Looping(ch, sz), UNCHANGED max,
         NEW l \in Plain, NEW v \in Elem, Push(l, v)
  PROVE  ListStep(ch, sz)
<1>1. /\ l \in Plain \ lent /\ exists[l] /\ UNCHANGED <<iter, fault, max>>
      /\ Link(l, tail[l], NULL, v) \/ Keep
      /\ Returns("push", NULL)
  BY DEF Push, Live, Returns
<1>2. CASE Keep
  BY <1>1, <1>2, KeepReturnsStep
<1>3. CASE Link(l, tail[l], NULL, v)
  <2>1. PICK c, m : c = ch[l] /\ m = sz[l]
    OBVIOUS
  <2>2. /\ l \in Lists /\ m \in Nat
        /\ \A k \in 1..m : c[k] \in Nodes /\ c[k] # NULL
        /\ \A r, k \in 1..m : c[r] = c[k] => r = k
    BY <1>1, <2>1, PlainFacts
  <2>3. PlainShape(l, c, m) /\ NULL \notin Nodes
    BY <1>1, <2>1, <2>2, NodesAssumption DEF Picture, Shape
  <2>4. Linked(Nodes, c, m, next, prev, head[l], Before(c, m))
    BY <2>3 DEF PlainShape
  <2>5. CASE m = 0
    <3> DEFINE p == tail[l]
               j == 0
    <3>1. p = NULL /\ Before(c, j) = NULL /\ Behind(c, j, j) = NULL
      BY <2>3, <2>5 DEF PlainShape, Before, Behind
    <3>2. j \in 0..m /\ j \in 0..j /\ j = m
      BY <2>2, <2>5
    <3>3. Link(l, p, NULL, v) /\ p = Before(c, j) /\ NULL = Behind(c, j, j)
      BY <1>3, <3>1
    <3> HIDE DEF p, j
    <3>4. QED
      BY <1>1, <2>1, <2>4, <3>2, <3>3, LinkStep
  <2>6. CASE m # 0
    <3>1. PICK j \in 1..m : c[j] = tail[l]
      BY <2>3, <2>6 DEF PlainShape, On
    <3> DEFINE p == tail[l]
               nx == [x \in Nodes |-> IF x = p THEN NULL ELSE next[x]]
    <3>2. j \in 0..m /\ j \in 0..j /\ j # 0 /\ j \in Nat
      BY <2>2
    <3>3. p = Before(c, j) /\ NULL = Behind(c, j, j) /\ p \in Nodes
      BY <2>2, <3>1, <3>2 DEF Before, Behind
    <3>4. l \notin stale => j = m
      <4>1. ASSUME l \notin stale PROVE c[j] = c[m] /\ m \in 1..m
        BY <2>2, <2>3, <2>6, <3>1, <4>1 DEF PlainShape, Before
      <4>2. QED
        BY <2>2, <4>1
    <3>5. \A x \in Nodes : x # p => nx[x] = next[x]
      OBVIOUS
    <3>6. nx[c[j]] = NULL /\ \A i \in 1..j - 1 : nx[c[i]] = next[c[i]]
      <4>1. \A i \in 1..j - 1 : i \in 1..m /\ i # j
        BY <2>2
      <4>2. QED
        BY <2>2, <3>1, <3>3, <4>1
    <3> HIDE DEF nx, p
    <3>7. Linked(Nodes, c, j, nx, prev, head[l], c[j])
      BY <2>3, <2>4, <3>6, CutLinked
    <3>8. Linked(Nodes, c, j, nx, prev, head[l], Before(c, j))
      BY <3>2, <3>7 DEF Before
    <3>9. Link(l, p, NULL, v)
      BY <1>3 DEF p
    <3>10. QED
      BY <1>1, <2>1, <3>2, <3>3, <3>4, <3>5, <3>8, <3>9, LinkStep
  <2>7. QED
    BY <2>5, <2>6
<1>4. QED
  BY <1>1, <1>2, <1>3

(* add_first puts a node in front of the head. *)
LEMMA AddFirstStep ==
  ASSUME Types, NEW ch, NEW sz, Picture(ch, sz), Looping(ch, sz), UNCHANGED max,
         NEW l \in Plain, NEW v \in Elem, AddFirst(l, v)
  PROVE  ListStep(ch, sz)
<1>1. /\ l \in Plain \ lent /\ exists[l] /\ UNCHANGED <<iter, fault, max>>
      /\ Link(l, NULL, head[l], v) \/ Keep
      /\ Returns("addFirst", NULL)
  BY DEF AddFirst, Live, Returns
<1>2. CASE Keep
  BY <1>1, <1>2, KeepReturnsStep
<1>3. CASE Link(l, NULL, head[l], v)
  <2>1. PICK c, m : c = ch[l] /\ m = sz[l]
    OBVIOUS
  <2>2. l \in Lists /\ m \in Nat /\ head[l] = Behind(c, m, 0)
    BY <1>1, <2>1, PlainFacts
  <2>3. Linked(Nodes, c, m, next, prev, head[l], Before(c, m))
    BY <1>1, <2>1, <2>2 DEF Picture, Shape, PlainShape
  <2> DEFINE p == NULL
             q == head[l]
             i == 0
  <2>4. m \in 0..m /\ i \in 0..m /\ p = Before(c, i) /\ q = Behind(c, m, i) /\ Link(l, p, q, v)
    BY <1>3, <2>2 DEF Before
  <2>5. \A x \in Nodes : x # p => next[x] = next[x]
    OBVIOUS
  <2> HIDE DEF p, q, i
  <2>6. QED
    BY <1>1, <2>1, <2>3, <2>4, <2>5, LinkStep
<1>4. QED
  BY <1>1, <1>2, <1>3

(* The i-th node is found, if there is one. *)
LEMMA NodeAtFacts ==
  ASSUME Types, NEW ch, NEW sz, Picture(ch, sz), NEW l \in Plain \ lent, NEW i \in Int
  PROVE  \/ NodeAt(l, i) = NULL
         \/ i + 1 \in 1..sz[l] /\ NodeAt(l, i) = ch[l][i + 1]
<1>1. PICK w : w = Chain(l)
  OBVIOUS
<1>2. Len(w) = sz[l] /\ \A k \in 1..sz[l] : w[k] = ch[l][k]
  BY <1>1, ChainFacts
<1>3. NodeAt(l, i) = IF 0 <= i /\ i <= count[l] /\ i < Len(w) THEN w[i + 1] ELSE NULL
  BY <1>1 DEF NodeAt
<1>4. sz[l] \in Nat
  BY PlainFacts
<1>5. QED
  BY <1>2, <1>3, <1>4

(* add_with_index puts one in front of the node it walked to. *)
LEMMA AddWithIndexStep ==
  ASSUME Types, NEW ch, NEW sz, Picture(ch, sz), Looping(ch, sz), UNCHANGED max,
         NEW l \in Plain, NEW i \in Nat, NEW v \in Elem, AddWithIndex(l, i, v)
  PROVE  ListStep(ch, sz)
<1> DEFINE n == NodeAt(l, i)
<1>1. /\ l \in Plain \ lent /\ exists[l]
      /\ \/ Keep /\ Returns("addWithIndex", NULL)
         \/ n # NULL /\ Link(l, prev[n], n, v) /\ Returns("addWithIndex", NULL)
         \/ \E owed : Crash("addWithIndex", owed)
  BY DEF AddWithIndex, Live
<1>2. CASE Keep /\ Returns("addWithIndex", NULL)
  BY <1>2, KeepReturnsStep
<1>3. CASE n # NULL /\ Link(l, prev[n], n, v) /\ Returns("addWithIndex", NULL)
  <2>1. PICK c, m : c = ch[l] /\ m = sz[l]
    OBVIOUS
  <2>2. /\ l \in Lists /\ m \in Nat
        /\ \A k \in 1..m : prev[c[k]] = Before(c, k - 1)
    BY <1>1, <2>1, PlainFacts
  <2>3. Linked(Nodes, c, m, next, prev, head[l], Before(c, m))
    BY <1>1, <2>1, <2>2 DEF Picture, Shape, PlainShape
  <2>4. i + 1 \in 1..m /\ n = c[i + 1]
    BY <1>1, <1>3, <2>1, NodeAtFacts
  <2>5. i \in 0..m /\ i # m /\ (i + 1) - 1 = i /\ m \in 0..m
    BY <2>2, <2>4
  <2> DEFINE p == prev[n]
             q == n
  <2>6. p = Before(c, i) /\ q = Behind(c, m, i) /\ Link(l, p, q, v)
    BY <1>3, <2>2, <2>4, <2>5 DEF Behind
  <2>7. \A x \in Nodes : x # p => next[x] = next[x]
    OBVIOUS
  <2>8. UNCHANGED <<iter, fault, max>>
    BY <1>3 DEF Returns
  <2> HIDE DEF p, q
  <2>9. QED
    BY <1>1, <2>1, <2>3, <2>5, <2>6, <2>7, <2>8, LinkStep
<1>4. QED
  BY <1>1, <1>2, <1>3, CrashStep

(* The r-th node is taken out of c[1..j]; what is behind the j-th is cut   *)
(* off when it is the one that is taken out.                               *)
LEMMA UnlinkStep ==
  ASSUME Types, NEW ch, NEW sz, Picture(ch, sz), Looping(ch, sz), UNCHANGED <<iter, fault, max>>,
         NEW l \in Plain \ lent, exists[l], NEW c, c = ch[l], NEW m, m = sz[l],
         NEW r \in 1..m, NEW n, n = c[r], tail[l] = n \/ next[n] \in alive, Unlink(l, n),
         iter.list = l /\ l \notin stale => Passed(iter, c, r)
  PROVE  ListStep(ch, sz)
<1>j. PICK j : j = IF tail[l] = n THEN r ELSE m
  OBVIOUS
<1>x. PICK nx : nx = [x \in Nodes |-> IF tail[l] = n /\ x = n THEN NULL ELSE next[x]]
  OBVIOUS
<1> DEFINE p == Before(c, r - 1)
           q == Behind(c, j, r)
           e == [k \in 1..j - 1 |-> IF k < r THEN c[k] ELSE c[k + 1]]
<1>1. /\ l \in Lists /\ l \notin Rings /\ m \in Nat /\ head[l] = Behind(c, m, 0)
      /\ \A k \in 1..m : /\ c[k] \in Nodes /\ c[k] \in alive /\ c[k] # NULL
                         /\ next[c[k]] = Behind(c, m, k) /\ prev[c[k]] = Before(c, k - 1)
      /\ \A x, k \in 1..m : c[x] = c[k] => x = k
  BY PlainFacts
<1>2. PlainShape(l, c, m) /\ NULL \notin Nodes /\ NULL \notin alive
  BY <1>1, NodesAssumption DEF Picture, Shape, Types, TypeOK
<1>3. Linked(Nodes, c, m, next, prev, head[l], Before(c, m))
  BY <1>2 DEF PlainShape
<1>4. /\ r \in Nat /\ 1 <= r /\ r <= j /\ j <= m /\ j \in Nat
      /\ tail[l] = n => j = r
      /\ tail[l] # n => j = m /\ r # m
      /\ l \notin stale => j = m
  <2>1. CASE tail[l] = n
    <3>1. ASSUME l \notin stale PROVE r = m
      <4>1. m \in 1..m /\ c[m] = c[r]
        BY <1>1, <1>2, <2>1, <3>1 DEF PlainShape, Before
      <4>2. QED
        BY <1>1, <4>1
    <3>2. QED
      BY <1>1, <1>j, <2>1, <3>1
  <2>2. CASE tail[l] # n
    <3>1. r # m
      BY <1>1, <1>2, <2>2 DEF Behind
    <3>2. QED
      BY <1>1, <1>j, <2>2, <3>1
  <2>3. QED
    BY <2>1, <2>2
<1>5. /\ n \in Nodes /\ n \in alive
      /\ q = (IF tail[l] = n THEN NULL ELSE next[n]) /\ prev[n] = p
      /\ (head[l] = n <=> p = NULL) /\ (tail[l] = n <=> q = NULL)
  <2>1. n \in Nodes /\ n \in alive /\ next[n] = Behind(c, m, r) /\ prev[n] = p
    BY <1>1
  <2>2. q = IF tail[l] = n THEN NULL ELSE next[n]
    BY <1>4, <2>1 DEF Behind
  <2>3. tail[l] # n => next[n] # NULL
    BY <1>2
  <2>4. head[l] = c[1] /\ 1 \in 1..m
    BY <1>1 DEF Behind
  <2>5. head[l] = n <=> r = 1
    BY <1>1, <2>4
  <2>6. p = NULL <=> r = 1
    <3>1. r # 1 => r - 1 \in 1..m /\ r - 1 # 0
      BY <1>1
    <3>2. QED
      BY <1>1, <3>1 DEF Before
  <2>7. QED
    BY <2>1, <2>2, <2>3, <2>5, <2>6
<1>6. Linked(Nodes, c, j, nx, prev, head[l], Before(c, j))
  <2>1. CASE tail[l] = n
    <3>1. j = r /\ r # 0
      BY <1>4, <2>1
    <3>2. nx[c[r]] = NULL /\ \A i \in 1..r - 1 : nx[c[i]] = next[c[i]]
      <4>1. \A i \in 1..r - 1 : i \in 1..m /\ i # r
        BY <1>1
      <4>2. QED
        BY <1>1, <1>5, <1>x, <2>1, <4>1
    <3>3. Linked(Nodes, c, r, nx, prev, head[l], c[r])
      BY <1>2, <1>3, <3>2, CutLinked
    <3>4. QED
      BY <3>1, <3>3 DEF Before
  <2>2. CASE tail[l] # n
    <3>1. \A i \in 1..m : nx[c[i]] = next[c[i]] /\ prev[c[i]] = prev[c[i]]
      BY <1>1, <1>x, <2>2
    <3>2. j = m
      BY <1>j, <2>2
    <3>3. Linked(Nodes, c, m, nx, prev, head[l], Before(c, m))
      BY <1>3, <3>1, OthersLinked
    <3>4. QED
      BY <3>2, <3>3
  <2>3. QED
    BY <2>1, <2>2
<1>7. /\ head' = [head EXCEPT ![l] = IF ~(head[l] = n) THEN @ ELSE IF tail[l] = n THEN NULL ELSE next[n]]
      /\ tail' = [tail EXCEPT ![l] = IF ~(tail[l] = n) THEN @ ELSE IF head[l] = n THEN NULL ELSE prev[n]]
      /\ next' = [x \in Nodes |-> IF x = n THEN NULL
                                  ELSE IF x = prev[n] /\ ~(head[l] = n)
                                  THEN IF tail[l] = n THEN NULL ELSE next[n]
                                  ELSE next[x]]
      /\ prev' = [x \in Nodes |-> IF x = n THEN NULL
                                  ELSE IF x = next[n] /\ ~(tail[l] = n)
                                  THEN IF head[l] = n THEN NULL ELSE prev[n]
                                  ELSE prev[x]]
      /\ data' = [data EXCEPT ![n] = NULL]
      /\ alive' = alive \ {n}
      /\ count' = [count EXCEPT ![l] = @ - 1]
      /\ exists' = exists /\ lent' = lent /\ stale' = stale
  BY Zenon DEF Unlink, notes
<1> HIDE DEF p, q
<1>8. /\ \A x \in Nodes : next'[x] = IF x = n THEN NULL ELSE IF x = p THEN q ELSE next[x]
      /\ \A x \in Nodes : prev'[x] = IF x = n THEN NULL ELSE IF x = q THEN p ELSE prev[x]
  BY <1>2, <1>5, <1>7
<1>9. /\ head'[l] = IF p = NULL THEN q ELSE head[l]
      /\ tail'[l] = IF q = NULL THEN p ELSE tail[l]
      /\ count'[l] = count[l] - 1
  BY <1>1, <1>5, <1>7 DEF Types, TypeOK
<1> DEFINE h2 == IF p = NULL THEN q ELSE head[l]
           t2 == IF q = NULL THEN p ELSE Before(c, j)
<1>10. \A k \in 1..j - 1 : e[k] = IF k < r THEN c[k] ELSE c[k + 1]
  OBVIOUS
<1>11. Linked(Nodes, e, j - 1, next', prev', h2, t2)
  <2> HIDE DEF e
  <2>1. \A x \in Nodes : x # n => nx[x] = next[x]
    BY <1>x
  <2>2. \A x \in Nodes : next'[x] = IF x = n THEN NULL ELSE IF x = p THEN q ELSE nx[x]
    BY <1>8, <2>1
  <2>3. ChainRemoved(Nodes, c, j, r, nx, prev, head[l], Before(c, j), next', prev', h2, t2, e)
    BY <1>4, <1>8, <1>10, <2>2 DEF ChainRemoved, p, q
  <2> HIDE DEF h2, t2
  <2>4. QED
    BY <1>2, <1>6, <2>3, UnlinkLinked
<1>12. t2 = Before(e, j - 1)
  <2> HIDE DEF e, t2
  <2>1. QED
    BY <1>11 DEF Linked, Back, Before
<1>13. /\ p = NULL \/ On(p, c, m)
       /\ q = NULL \/ On(q, c, m)
  <2>1. p = NULL \/ r - 1 \in 1..m
    BY <1>1 DEF p, Before
  <2>2. q = NULL \/ r + 1 \in 1..m
    BY <1>1, <1>4 DEF q, Behind
  <2>3. QED
    BY <2>1, <2>2 DEF p, q, Before, Behind, On
<1>14. count[l] \in Nat /\ m <= count[l] /\ count'[l] \in Nat /\ j - 1 \in Nat /\ j - 1 <= count'[l]
  <2>1. PICK k : k = count[l]
    OBVIOUS
  <2>2. k \in Nat /\ m <= k /\ count'[l] = k - 1
    BY <1>1, <1>2, <1>9, <2>1 DEF PlainShape, Types, TypeOK
  <2>3. k - 1 \in Nat /\ j - 1 \in Nat /\ j - 1 <= k - 1
    BY <1>1, <1>4, <2>2
  <2>4. QED
    BY <2>1, <2>2, <2>3
<1>15. Types'
  <2>1. head' \in [Lists -> Nodes \cup {NULL}] /\ tail' \in [Lists -> Nodes \cup {NULL}]
    BY <1>5, <1>7 DEF Types, TypeOK
  <2>2. next' \in [Nodes -> Nodes \cup {NULL}] /\ prev' \in [Nodes -> Nodes \cup {NULL}]
    BY <1>5, <1>7 DEF Types, TypeOK
  <2>3. count' \in [Lists -> Nat]
    BY <1>1, <1>7, <1>9, <1>14 DEF Types, TypeOK
  <2>4. data' \in [Nodes -> Elem] /\ alive' \subseteq Nodes
    BY <1>7 DEF Types, TypeOK, Elem
  <2>5. QED
    BY <1>7, <2>1, <2>2, <2>3, <2>4 DEF Types, TypeOK
<1>16. ASSUME NEW k \in 1..m, k # r, k <= j
       PROVE  \E x \in 1..j - 1 : e[x] = c[k]
  <2>1. CASE k < r
    <3>1. k \in 1..j - 1 /\ e[k] = c[k]
      BY <1>4, <2>1
    <3>2. QED
      BY <3>1
  <2>2. CASE ~(k < r)
    <3>1. k - 1 \in 1..j - 1 /\ ~(k - 1 < r) /\ (k - 1) + 1 = k
      BY <1>1, <1>4, <1>16, <2>2
    <3>2. e[k - 1] = c[k]
      BY <3>1
    <3>3. QED
      BY <3>1, <3>2
  <2>3. QED
    BY <2>1, <2>2
<1>17. Shape(l, e, j - 1)'
  <2>1. IF j - 1 = 0 THEN tail'[l] = NULL ELSE On(tail'[l], e, j - 1)
    <3>1. CASE q = NULL
      <4>1. tail'[l] = Before(e, j - 1)
        BY <1>9, <1>12, <3>1
      <4>2. j - 1 # 0 => j - 1 \in 1..j - 1
        BY <1>4
      <4>3. QED
        BY <4>1, <4>2 DEF Before, On
    <3>2. CASE q # NULL
      <4>1. j = m /\ m # 1 /\ tail'[l] = tail[l] /\ tail[l] # n
        BY <1>4, <1>5, <1>9, <3>2
      <4>2. PICK k \in 1..m : c[k] = tail[l]
        BY <1>2, <1>4, <4>1 DEF PlainShape, On
      <4>3. k # r
        BY <4>1, <4>2
      <4>4. k <= j
        BY <1>1, <4>1
      <4>5. j - 1 # 0
        BY <1>4, <4>1
      <4>6. PICK x \in 1..j - 1 : e[x] = c[k]
        BY <1>16, <4>3, <4>4
      <4>7. On(tail'[l], e, j - 1)
        BY <4>1, <4>2, <4>6 DEF On
      <4>8. QED
        BY <4>5, <4>7
    <3>3. QED
      BY <3>1, <3>2
  <2>2. l \notin stale => tail'[l] = Before(e, j - 1) /\ count'[l] = j - 1
    <3> SUFFICES ASSUME l \notin stale PROVE tail'[l] = Before(e, j - 1) /\ count'[l] = j - 1
      OBVIOUS
    <3>1. j = m /\ tail[l] = Before(c, m) /\ count[l] = m
      BY <1>2, <1>4 DEF PlainShape
    <3> HIDE DEF e
    <3>2. QED
      BY <1>9, <1>12, <3>1
  <2> HIDE DEF e
  <2>3. Linked(Nodes, e, j - 1, next', prev', head'[l], Before(e, j - 1))
    BY <1>9, <1>11, <1>12
  <2>4. exists'[l] /\ l \notin lent' /\ stale' = stale
    BY <1>7
  <2>5. PlainShape(l, e, j - 1)'
    BY <1>14, <2>1, <2>2, <2>3, <2>4 DEF PlainShape
  <2>6. QED
    BY <1>1, <1>14, <2>4, <2>5 DEF Shape
<1>18. \A k \in 1..j - 1 : e[k] \in alive' /\ \E x \in 1..m : e[k] = c[x]
  <2> SUFFICES ASSUME NEW k \in 1..j - 1 PROVE e[k] \in alive' /\ \E x \in 1..m : e[k] = c[x]
    OBVIOUS
  <2>1. CASE k < r
    <3>1. k \in 1..m /\ k # r /\ e[k] = c[k]
      BY <1>1, <1>4, <2>1
    <3>2. QED
      BY <1>1, <1>7, <3>1
  <2>2. CASE ~(k < r)
    <3>1. k + 1 \in 1..m /\ k + 1 # r /\ e[k] = c[k + 1]
      BY <1>1, <1>4, <2>2
    <3>2. QED
      BY <1>1, <1>7, <3>1
  <2>3. QED
    BY <2>1, <2>2
<1>19. ASSUME NEW k \in Lists \ {l}
       PROVE  Untouched(k, ch[k], sz[k]) /\ \A a \in 1..sz[k] : \A x \in 1..j - 1 : e[x] # ch[k][a]
  <2>1. \A a \in 1..sz[k] : ch[k][a] \in alive /\ \A x \in 1..m : c[x] # ch[k][a]
    BY <1>1 DEF Picture, Apart
  <2>2. \A a \in 1..sz[k] : \A x \in 1..j - 1 : e[x] # ch[k][a]
    BY <1>18, <2>1
  <2> HIDE DEF e
  <2>3. \A a \in 1..sz[k] : ch[k][a] # p /\ ch[k][a] # q /\ ch[k][a] # n /\ ch[k][a] \in Nodes
    BY <1>2, <1>13, <2>1 DEF On, Types, TypeOK
  <2>4. \A a \in 1..sz[k] : /\ next'[ch[k][a]] = next[ch[k][a]] /\ prev'[ch[k][a]] = prev[ch[k][a]]
                            /\ ch[k][a] \in alive'
    BY <1>7, <1>8, <2>1, <2>3
  <2>5. /\ exists'[k] = exists[k] /\ head'[k] = head[k] /\ tail'[k] = tail[k] /\ count'[k] = count[k]
        /\ k \in Rings => max'[k] = max[k]
        /\ lent' = lent /\ stale' = stale
    BY <1>1, <1>7 DEF Types, TypeOK
  <2>6. QED
    BY <2>2, <2>4, <2>5 DEF Untouched
<1>20. ASSUME stale' = {}, NEW x \in alive'
       PROVE  On(x, e, j - 1) \/ \E k \in Lists \ {l} : On(x, ch[k], sz[k])
  <2>1. j = m /\ x \in alive /\ x # n
    BY <1>4, <1>7, <1>20
  <2>2. PICK k \in Lists : On(x, ch[k], sz[k])
    BY <1>7, <1>20, <2>1 DEF Picture, Owned
  <2>3. CASE k = l
    <3>1. PICK a \in 1..m : c[a] = x
      BY <2>2, <2>3 DEF On
    <3>2. a # r /\ a <= j
      BY <1>1, <2>1, <3>1
    <3>3. QED
      BY <1>16, <3>1, <3>2 DEF On
  <2>4. QED
    BY <2>2, <2>3
<1>21. iter.list = l => exists'[l] /\ l \notin lent' /\ (l \notin stale' => Pending(e, j - 1, iter))
  <2> SUFFICES ASSUME iter.list = l, l \notin stale PROVE Pending(e, j - 1, iter)
    BY <1>7
  <2>1. j = m /\ l # NULL
    BY <1>1, <1>4, NodesAssumption
  <2>2. Pending(c, m, iter) /\ Passed(iter, c, r)
    BY <2>1 DEF Looping
  <2>3. Narrowed(e, c, m, r)
    BY <2>1 DEF Narrowed
  <2> HIDE DEF e
  <2>4. Pending(e, m - 1, iter)
    BY <1>1, <2>2, <2>3, PendingRemoved
  <2>5. QED
    BY <2>1, <2>4
<1> HIDE DEF e
<1> DEFINE k == j - 1
<1>22. Shape(l, e, k)' /\ \A i \in 1..k : e[i] \in alive'
  BY <1>17, <1>18
<1>23. \A a \in Lists \ {l} :
         Untouched(a, ch[a], sz[a]) /\ \A i \in 1..sz[a] : \A x \in 1..k : e[x] # ch[a][i]
  BY <1>19
<1>24. stale' = {} => \A x \in alive' : On(x, e, k) \/ \E a \in Lists \ {l} : On(x, ch[a], sz[a])
  BY <1>20
<1>25. iter.list = l => exists'[l] /\ l \notin lent' /\ (l \notin stale' => Pending(e, k, iter))
  BY <1>21
<1> HIDE DEF k
<1>26. QED
  BY <1>15, <1>22, <1>23, <1>24, <1>25, OneListStep

-------------------------------------------------------------------------------
(* Calls that take a node out. *)

(* Where it may be, for the iterator that is under way. *)
Removable(l, c, m, n) ==
  n = NULL \/ \E r \in 1..m : c[r] = n /\ (iter.list = l /\ l \notin stale => Passed(iter, c, r))

(* Each of the calls that remove the node n, or crash for NULL. *)
LEMMA RemoveCallStep ==
  ASSUME Types, NEW ch, NEW sz, Picture(ch, sz), Looping(ch, sz), UNCHANGED max,
         NEW l \in Plain \ lent, exists[l], NEW n, Removable(l, ch[l], sz[l], n),
         NEW op, RemoveCall(l, op, n)
  PROVE  ListStep(ch, sz)
<1>1. CASE n = NULL
  BY <1>1, KeepReturnsStep DEF RemoveCall
<1>2. CASE Crash(op, data[n])
  BY <1>2, CrashStep
<1>3. CASE /\ n # NULL
           /\ ~(\/ n \notin alive
                \/ head[l] # n /\ prev[n] \notin alive
                \/ tail[l] # n /\ next[n] \notin alive)
           /\ Unlink(l, n) /\ Returns(op, data[n])
  <2>1. PICK c, m : c = ch[l] /\ m = sz[l]
    OBVIOUS
  <2>2. PICK r \in 1..m : c[r] = n /\ (iter.list = l /\ l \notin stale => Passed(iter, c, r))
    BY <1>3, <2>1 DEF Removable
  <2>3. UNCHANGED <<iter, fault, max>>
    BY <1>3 DEF Returns
  <2>4. tail[l] = n \/ next[n] \in alive
    BY <1>3
  <2>5. Unlink(l, n)
    BY <1>3
  <2>6. QED
    BY <2>1, <2>2, <2>3, <2>4, <2>5, UnlinkStep
<1>4. QED
  BY <1>1, <1>2, <1>3 DEF RemoveCall

(* pop takes the node at the tail. *)
LEMMA PopStep ==
  ASSUME Types, NEW ch, NEW sz, Picture(ch, sz), Looping(ch, sz), UNCHANGED max,
         NEW l \in Plain, Pop(l)
  PROVE  ListStep(ch, sz)
<1>1. l \in Plain \ lent /\ exists[l] /\ iter.list # l /\ RemoveCall(l, "pop", tail[l])
  BY DEF Pop, Idle, Live
<1>2. PlainShape(l, ch[l], sz[l])
  BY <1>1, PlainFacts DEF Picture, Shape
<1> DEFINE n == tail[l]
<1>3. Removable(l, ch[l], sz[l], n)
  BY <1>1, <1>2 DEF PlainShape, On, Removable
<1>4. RemoveCall(l, "pop", n)
  BY <1>1
<1> HIDE DEF n
<1>5. QED
  BY <1>1, <1>3, <1>4, RemoveCallStep

(* shift takes the node at the head. *)
LEMMA ShiftStep ==
  ASSUME Types, NEW ch, NEW sz, Picture(ch, sz), Looping(ch, sz), UNCHANGED max,
         NEW l \in Plain, Shift(l)
  PROVE  ListStep(ch, sz)
<1>1. l \in Plain \ lent /\ exists[l] /\ iter.list # l /\ RemoveCall(l, "shift", head[l])
  BY DEF Shift, Idle, Live
<1>2. head[l] = Behind(ch[l], sz[l], 0) /\ sz[l] \in Nat
  BY <1>1, PlainFacts
<1> DEFINE n == head[l]
<1>3. Removable(l, ch[l], sz[l], n)
  <2>1. sz[l] = 0 \/ 1 \in 1..sz[l]
    BY <1>2
  <2>2. QED
    BY <1>1, <1>2, <2>1 DEF Behind, Removable
<1>4. RemoveCall(l, "shift", n)
  BY <1>1
<1> HIDE DEF n
<1>5. QED
  BY <1>1, <1>3, <1>4, RemoveCallStep

(* remove_index takes the one it walked to. *)
LEMMA RemoveIndexStep ==
  ASSUME Types, NEW ch, NEW sz, Picture(ch, sz), Looping(ch, sz), UNCHANGED max,
         NEW l \in Plain, NEW i \in Nat, RemoveIndex(l, i)
  PROVE  ListStep(ch, sz)
<1> DEFINE n == NodeAt(l, i)
<1>1. l \in Plain \ lent /\ exists[l] /\ iter.list # l /\ RemoveCall(l, "remove_index", n)
  BY DEF RemoveIndex, Idle, Live
<1>2. n = NULL \/ (i + 1 \in 1..sz[l] /\ n = ch[l][i + 1])
  BY <1>1, NodeAtFacts
<1> HIDE DEF n
<1>3. Removable(l, ch[l], sz[l], n)
  BY <1>1, <1>2 DEF Removable
<1>4. QED
  BY <1>1, <1>3, RemoveCallStep

(* find_node gives a node of the list, or NULL. *)
LEMMA FindNodeFacts ==
  ASSUME Types, NEW ch, NEW sz, Picture(ch, sz), NEW l \in Plain \ lent, NEW v
  PROVE  FindNode(l, v) = NULL \/ \E r \in 1..sz[l] : FindNode(l, v) = ch[l][r]
<1>1. PICK w : w = Chain(l)
  OBVIOUS
<1>2. Len(w) = sz[l] /\ \A k \in 1..sz[l] : w[k] = ch[l][k]
  BY <1>1, ChainFacts
<1> DEFINE I == {i \in 1..Len(w) : Equal(data[w[i]], v)}
           i == IF I # {} THEN Min(I) ELSE 0
<1>3. FindNode(l, v) = IF i = 0 THEN NULL ELSE w[i]
  BY <1>1, Zenon DEF FindNode, SelectInSeq
<1>4. CASE I = {}
  BY <1>3, <1>4
<1>5. CASE I # {}
  <2>1. sz[l] \in Nat
    BY PlainFacts
  <2>2. I \in SUBSET Nat
    BY <1>2, <2>1
  <2>3. \E a \in I : \A b \in I : a <= b
    <3> HIDE DEF I
    <3>1. QED
      BY <1>5, <2>2, LeastNumber
  <2>4. Min(I) \in I
    <3> HIDE DEF I
    <3>1. QED
      BY <2>3 DEF Min
  <2>5. i \in I
    BY <1>5, <2>4
  <2>6. i \in 1..sz[l]
    BY <1>2, <2>5
  <2> HIDE DEF i
  <2>7. QED
    BY <1>2, <1>3, <2>6
<1>6. QED
  BY <1>4, <1>5

(* remove_data takes the one that find_node gives. *)
LEMMA RemoveDataStep ==
  ASSUME Types, NEW ch, NEW sz, Picture(ch, sz), Looping(ch, sz), UNCHANGED max,
         NEW l \in Plain, NEW v, RemoveData(l, v)
  PROVE  ListStep(ch, sz)
<1> DEFINE n == FindNode(l, v)
<1>1. l \in Plain \ lent /\ exists[l] /\ iter.list # l /\ RemoveCall(l, "remove_data", n)
  BY DEF RemoveData, Idle, Live
<1>2. n = NULL \/ \E r \in 1..sz[l] : n = ch[l][r]
  BY <1>1, FindNodeFacts
<1> HIDE DEF n
<1>3. Removable(l, ch[l], sz[l], n)
  BY <1>1, <1>2 DEF Removable
<1>4. QED
  BY <1>1, <1>3, RemoveCallStep

(* What the iterator is going to reach when it is at the p-th node. *)
LEMMA AheadFacts ==
  ASSUME Types, NEW ch, NEW sz, Picture(ch, sz), NEW l \in Plain \ lent,
         NEW c, c = ch[l], NEW m, m = sz[l], NEW p \in 1..m + 1,
         NEW x, x = At(c, m, p)
  PROVE  ShowsFrom(Walk(next, x, Cardinality(Nodes)), c, m, p)
<1>1. l \in Lists /\ m \in Nat /\ m <= Cardinality(Nodes) /\ Cardinality(Nodes) \in Nat
  BY PlainFacts
<1>2. Linked(Nodes, c, m, next, prev, head[l], Before(c, m)) /\ NULL \notin Nodes
  BY <1>1, NodesAssumption DEF Picture, Shape, PlainShape
<1>3. Run(Nodes, c, m, next, head[l])
  BY <1>2 DEF Linked
<1> DEFINE n == Cardinality(Nodes)
           h == head[l]
<1>4. n \in Nat /\ m <= n /\ Run(Nodes, c, m, next, h)
  BY <1>1, <1>3
<1> HIDE DEF n, h
<1>5. ShowsFrom(Walk(next, x, n), c, m, p)
  BY <1>2, <1>4, WalkFrom
<1>6. QED
  BY <1>5 DEF n

(* remove_node takes one that the iterator has passed. *)
LEMMA RemoveNodeStep ==
  ASSUME Types, NEW ch, NEW sz, Picture(ch, sz), Looping(ch, sz), UNCHANGED max,
         NEW l \in Plain, NEW n, RemoveNode(l, n)
  PROVE  ListStep(ch, sz)
<1>1. /\ l \in Plain \ lent /\ exists[l] /\ RemoveCall(l, "remove", n) /\ n \in ToSet(Chain(l))
      /\ iter.list = l => n \notin ToSet(Walk(next, iter.position, Cardinality(Nodes)))
  BY DEF RemoveNode, Live
<1>2. PICK c, m : c = ch[l] /\ m = sz[l]
  OBVIOUS
<1>3. PICK r \in 1..m : c[r] = n
  <2>1. ToSet(Chain(l)) = {c[i] : i \in 1..m}
    BY <1>1, <1>2, ChainFacts
  <2>2. QED
    BY <1>1, <2>1
<1>4. /\ m \in Nat /\ l # NULL /\ \A k \in 1..m : c[k] # NULL
      /\ \A a, b \in 1..m : c[a] = c[b] => a = b
  BY <1>1, <1>2, PlainFacts, NodesAssumption
<1>5. ASSUME iter.list = l, l \notin stale PROVE Passed(iter, c, r)
  <2>1. Pending(c, m, iter)
    BY <1>2, <1>4, <1>5 DEF Looping
  <2>2. PICK p \in 1..m + 1 : iter.position = IF p = m + 1 THEN NULL ELSE c[p]
    BY <2>1 DEF Pending
  <2>3. PICK x, w : x = iter.position /\ w = Walk(next, x, Cardinality(Nodes))
    OBVIOUS
  <2>a. x = At(c, m, p)
    BY <2>2, <2>3 DEF At
  <2>b. ShowsFrom(Walk(next, x, Cardinality(Nodes)), c, m, p)
    BY <1>1, <1>2, <2>a, AheadFacts
  <2>4. w = [i \in 1..m + 1 - p |-> c[p + i - 1]]
    BY <2>3, <2>b DEF ShowsFrom
  <2>5. DOMAIN w = 1..m + 1 - p /\ n \notin {w[i] : i \in DOMAIN w}
    <3>1. n \notin ToSet(w)
      BY <1>1, <1>5, <2>3
    <3>2. QED
      BY <2>4, <3>1 DEF ToSet
  <2>6. r < p
    <3> SUFFICES ASSUME p <= r PROVE FALSE
      BY <1>4
    <3>1. r - p + 1 \in 1..m + 1 - p /\ p + (r - p + 1) - 1 = r
      BY <1>4
    <3>2. w[r - p + 1] = c[r]
      BY <2>4, <3>1
    <3>3. QED
      BY <1>3, <2>5, <3>1, <3>2
  <2>7. \A k \in 1..r : iter.position # c[k]
    <3> SUFFICES ASSUME NEW k \in 1..r PROVE iter.position # c[k]
      OBVIOUS
    <3>1. k \in 1..m /\ k < p
      BY <1>4, <2>6
    <3>2. QED
      BY <1>4, <2>2, <3>1
  <2>8. QED
    BY <2>7 DEF Passed
<1>6. Removable(l, ch[l], sz[l], n)
  BY <1>2, <1>3, <1>5 DEF Removable
<1>7. QED
  BY <1>1, <1>6, RemoveCallStep

-------------------------------------------------------------------------------
(* Headers come and go. *)

(* A list that ends up without nodes. *)
LEMMA EmptyShape ==
  ASSUME Types', NEW l \in Plain, l \notin lent', NEW c,
         head'[l] = NULL, tail'[l] = NULL, count'[l] = 0
  PROVE  Shape(l, c, 0)'
<1>1. l \notin Rings
  BY DEF Plain
<1>2. Linked(Nodes, c, 0, next', prev', NULL, NULL)
  BY DEF Linked, Run, Back
<1>3. PlainShape(l, c, 0)'
  BY <1>2 DEF PlainShape, Before
<1>4. QED
  BY <1>1, <1>3 DEF Shape

(* A list that is not allocated is empty and nobody iterates over it. *)
LEMMA AbsentFacts ==
  ASSUME Types, NEW ch, NEW sz, Picture(ch, sz), Looping(ch, sz), NEW l \in Plain, ~exists[l]
  PROVE  /\ l \in Lists /\ l \notin lent /\ sz[l] = 0 /\ head[l] = NULL /\ tail[l] = NULL
         /\ count[l] = 0 /\ iter.list # l
<1>1. l \in Lists /\ l # NULL
  BY NodesAssumption DEF Plain
<1>2. Shape(l, ch[l], sz[l])
  BY <1>1 DEF Picture
<1>3. l \notin lent
  BY <1>2 DEF Shape
<1>4. PlainShape(l, ch[l], sz[l])
  BY <1>2, <1>3 DEF Shape
<1>5. sz[l] = 0 /\ count[l] = 0 /\ tail[l] = NULL
  BY <1>4 DEF PlainShape
<1>6. head[l] = NULL
  BY <1>4, <1>5 DEF PlainShape, Linked, Run
<1>7. iter.list # l
  BY <1>1 DEF Looping
<1>8. QED
  BY <1>1, <1>3, <1>5, <1>6, <1>7

(* A new header, without nodes. *)
LEMMA NewStep ==
  ASSUME Types, NEW ch, NEW sz, Picture(ch, sz), Looping(ch, sz), UNCHANGED max,
         NEW l \in Plain, New(l)
  PROVE  ListStep(ch, sz)
<1>1. /\ ~exists[l] /\ UNCHANGED <<head, tail, count, heap, notes, iter, fault>>
      /\ exists' = [exists EXCEPT ![l] = TRUE] \/ UNCHANGED exists
  BY DEF New, Returns
<1>2. UNCHANGED <<head, tail, count, alive, next, prev, data, lent, stale, iter, fault>>
  BY <1>1 DEF heap, notes
<1>3. CASE UNCHANGED exists
  <2>1. UNCHANGED <<headers, heap, notes, iter, max>> /\ fault' \in BOOLEAN
    BY <1>1, <1>3 DEF headers, Types, TypeOK
  <2>2. QED
    BY <2>1, KeepStep
<1>4. CASE exists' = [exists EXCEPT ![l] = TRUE]
  <2>1. /\ l \in Lists /\ l \notin lent /\ sz[l] = 0 /\ head[l] = NULL /\ tail[l] = NULL
        /\ count[l] = 0 /\ iter.list # l
    BY <1>1, AbsentFacts
  <2>2. Types'
    BY <1>2, <1>4, <2>1 DEF Types, TypeOK
  <2> DEFINE e == ch[l]
             k == 0
  <2>3. Shape(l, e, k)'
    <3> HIDE DEF e
    <3>1. QED
      BY <1>2, <2>1, <2>2, EmptyShape
  <2>4. /\ \A i \in 1..k : e[i] \in alive'
        /\ \A j \in Lists \ {l} : \A i \in 1..sz[j] : \A r \in 1..k : e[r] # ch[j][i]
    OBVIOUS
  <2>5. \A j \in Lists \ {l} : Untouched(j, ch[j], sz[j])
    BY <1>2, <1>4, <2>1 DEF Untouched, Picture, Types, TypeOK
  <2>6. stale' = {} => \A n \in alive' :
          On(n, e, k) \/ \E j \in Lists \ {l} : On(n, ch[j], sz[j])
    BY <1>2, <2>1 DEF Picture, Owned, On
  <2> HIDE DEF e, k
  <2>7. QED
    BY <1>2, <2>1, <2>2, <2>3, <2>4, <2>5, <2>6, OneListStep
<1>5. QED
  BY <1>1, <1>3, <1>4

(* destroy frees the nodes on the chain and the header. *)
LEMMA DestroyStep ==
  ASSUME Types, NEW ch, NEW sz, Picture(ch, sz), Looping(ch, sz), UNCHANGED max,
         NEW l \in Plain, Destroy(l)
  PROVE  ListStep(ch, sz)
<1>1. PICK w : w = Chain(l)
  OBVIOUS
<1>2. l \in Plain \ lent /\ exists[l] /\ iter.list # l
  BY DEF Destroy, Idle, Live
<1>3. \/ Crash("destroy", NULL)
      \/ /\ alive' = alive \ ToSet(w)
         /\ next' = [n \in Nodes |-> IF n \in ToSet(w) THEN NULL ELSE next[n]]
         /\ prev' = [n \in Nodes |-> IF n \in ToSet(w) THEN NULL ELSE prev[n]]
         /\ data' = [n \in Nodes |-> IF n \in ToSet(w) THEN NULL ELSE data[n]]
         /\ exists' = [exists EXCEPT ![l] = FALSE]
         /\ head' = [head EXCEPT ![l] = NULL]
         /\ tail' = [tail EXCEPT ![l] = NULL]
         /\ count' = [count EXCEPT ![l] = 0]
         /\ UNCHANGED notes
         /\ Returns("destroy", NULL)
  BY <1>1, Zenon DEF Destroy
<1>4. CASE Crash("destroy", NULL)
  BY <1>4, CrashStep
<1>5. CASE /\ alive' = alive \ ToSet(w)
           /\ next' = [n \in Nodes |-> IF n \in ToSet(w) THEN NULL ELSE next[n]]
           /\ prev' = [n \in Nodes |-> IF n \in ToSet(w) THEN NULL ELSE prev[n]]
           /\ data' = [n \in Nodes |-> IF n \in ToSet(w) THEN NULL ELSE data[n]]
           /\ exists' = [exists EXCEPT ![l] = FALSE]
           /\ head' = [head EXCEPT ![l] = NULL]
           /\ tail' = [tail EXCEPT ![l] = NULL]
           /\ count' = [count EXCEPT ![l] = 0]
           /\ UNCHANGED notes
           /\ Returns("destroy", NULL)
  <2>1. l \in Lists /\ l \notin Rings /\ sz[l] \in Nat
    BY <1>2, PlainFacts
  <2>2. ToSet(w) = {ch[l][i] : i \in 1..sz[l]}
    BY <1>1, <1>2, ChainFacts
  <2>3. \A x : x \in ToSet(w) <=> On(x, ch[l], sz[l])
    BY <2>2 DEF On
  <2>4. lent' = lent /\ stale' = stale /\ iter' = iter /\ fault' = fault
    BY <1>5 DEF notes, Returns
  <2>5. Types'
    <3>1. /\ next' \in [Nodes -> Nodes \cup {NULL}] /\ prev' \in [Nodes -> Nodes \cup {NULL}]
          /\ data' \in [Nodes -> Elem] /\ alive' \subseteq Nodes
      BY <1>5 DEF Types, TypeOK, Elem
    <3>2. QED
      BY <1>5, <2>1, <2>4, <3>1 DEF Types, TypeOK
  <2> DEFINE e == ch[l]
             k == 0
  <2>6. Shape(l, e, k)'
    <3>1. head'[l] = NULL /\ tail'[l] = NULL /\ count'[l] = 0 /\ l \notin lent'
      BY <1>2, <1>5, <2>1, <2>4 DEF Types, TypeOK
    <3> HIDE DEF e
    <3>2. QED
      BY <2>5, <3>1, EmptyShape
  <2>7. /\ \A i \in 1..k : e[i] \in alive'
        /\ \A j \in Lists \ {l} : \A i \in 1..sz[j] : \A r \in 1..k : e[r] # ch[j][i]
    OBVIOUS
  <2>8. \A j \in Lists \ {l} : Untouched(j, ch[j], sz[j])
    <3>1. \A j \in Lists \ {l} :
            /\ exists'[j] = exists[j] /\ head'[j] = head[j] /\ tail'[j] = tail[j] /\ count'[j] = count[j]
            /\ j \in Rings => max'[j] = max[j]
            /\ (j \in lent') = (j \in lent) /\ (j \in stale') = (j \in stale)
      BY <1>5, <2>1, <2>4 DEF Types, TypeOK
    <3>2. \A x \in alive : ~On(x, ch[l], sz[l]) =>
            next'[x] = next[x] /\ prev'[x] = prev[x] /\ x \in alive'
      BY <1>5, <2>3 DEF Types, TypeOK
    <3>3. QED
      BY <2>1, <3>1, <3>2, OthersUntouched
  <2>9. stale' = {} => \A n \in alive' :
          On(n, e, k) \/ \E j \in Lists \ {l} : On(n, ch[j], sz[j])
    BY <1>5, <2>3, <2>4 DEF Picture, Owned
  <2> HIDE DEF e, k
  <2>10. QED
    BY <1>2, <2>4, <2>5, <2>6, <2>7, <2>8, <2>9, OneListStep
<1>6. QED
  BY <1>3, <1>4, <1>5

(* clear writes to the values alone. *)
LEMMA ClearStep ==
  ASSUME Types, NEW ch, NEW sz, Picture(ch, sz), Looping(ch, sz), UNCHANGED max,
         NEW l \in Plain, Clear(l)
  PROVE  ListStep(ch, sz)
<1>1. /\ data' \in [Nodes -> Elem] /\ iter' = iter /\ fault' = fault
      /\ UNCHANGED <<headers, alive, next, prev, notes>>
  BY DEF Clear, Returns, Types, TypeOK, Elem
<1>2. Picture(ch, sz)'
  BY <1>1, PictureKept
<1>3. UNCHANGED <<exists, head, tail, count, alive, next, prev, lent, stale, iter, fault>>
  BY <1>1 DEF headers, notes
<1>4. Looping(ch, sz)'
  BY <1>3, LoopingKept
<1>5. Types'
  BY <1>1, <1>3 DEF Types, TypeOK
<1>6. QED
  BY <1>2, <1>4, <1>5 DEF ListStep, RingsKept

(* The header alone is freed, its nodes being elsewhere. *)
LEMMA FreeHeaderStep ==
  ASSUME Types, NEW ch, NEW sz, Picture(ch, sz), Looping(ch, sz), UNCHANGED max,
         NEW l \in Plain, FreeHeader(l)
  PROVE  ListStep(ch, sz)
<1>1. /\ l \in lent
      /\ exists' = [exists EXCEPT ![l] = FALSE]
      /\ head' = [head EXCEPT ![l] = NULL]
      /\ tail' = [tail EXCEPT ![l] = NULL]
      /\ count' = [count EXCEPT ![l] = 0]
      /\ lent' = lent \ {l}
      /\ UNCHANGED <<alive, next, prev, data, stale, iter, fault>>
  BY DEF FreeHeader, heap, Returns
<1>2. l \in Lists /\ l # NULL /\ l \notin Rings
  BY NodesAssumption DEF Plain
<1>3. sz[l] = 0 /\ iter.list # l
  BY <1>1, <1>2 DEF Picture, Shape, Looping
<1>4. Types'
  BY <1>1, <1>2 DEF Types, TypeOK
<1> DEFINE e == ch[l]
           k == 0
<1>5. Shape(l, e, k)'
  <2>1. head'[l] = NULL /\ tail'[l] = NULL /\ count'[l] = 0 /\ l \notin lent'
    BY <1>1, <1>2 DEF Types, TypeOK
  <2> HIDE DEF e
  <2>2. QED
    BY <1>4, <2>1, EmptyShape
<1>6. /\ \A i \in 1..k : e[i] \in alive'
      /\ \A j \in Lists \ {l} : \A i \in 1..sz[j] : \A r \in 1..k : e[r] # ch[j][i]
  OBVIOUS
<1>7. \A j \in Lists \ {l} : Untouched(j, ch[j], sz[j])
  BY <1>1, <1>2 DEF Untouched, Picture, Types, TypeOK
<1>8. stale' = {} => \A n \in alive' :
        On(n, e, k) \/ \E j \in Lists \ {l} : On(n, ch[j], sz[j])
  BY <1>1, <1>3 DEF Picture, Owned, On
<1> HIDE DEF e, k
<1>9. QED
  BY <1>1, <1>3, <1>4, <1>5, <1>6, <1>7, <1>8, OneListStep

-------------------------------------------------------------------------------
(* The iterator. *)

(* A call that changes the iterator alone. *)
LEMMA IterStep ==
  ASSUME Types, NEW ch, NEW sz, Picture(ch, sz), UNCHANGED <<headers, heap, notes, fault, max>>,
         Looping(ch, sz)'
  PROVE  ListStep(ch, sz)
<1>1. UNCHANGED <<exists, head, tail, count, alive, next, prev, data, lent, stale>>
  BY DEF headers, heap, notes
<1>2. Types'
  BY <1>1 DEF Types, TypeOK
<1>3. Picture(ch, sz)'
  BY <1>1, PictureKept DEF headers, notes
<1>4. QED
  BY <1>2, <1>3 DEF ListStep, RingsKept

(* An iterator starts at the head with the whole chain to give out. *)
LEMMA InitializeIteratorStep ==
  ASSUME Types, NEW ch, NEW sz, Picture(ch, sz), Looping(ch, sz), UNCHANGED max,
         NEW l \in Plain, InitializeIterator(l)
  PROVE  ListStep(ch, sz)
<1>1. PICK w : w = Chain(l)
  OBVIOUS
<1>2. /\ l \in Plain \ lent /\ exists[l]
      /\ iter' = [list |-> l, position |-> head[l], due |-> w]
      /\ UNCHANGED <<headers, heap, fault, notes, exists, lent, stale>>
  BY <1>1 DEF InitializeIterator, Live, headers, notes
<1>3. PICK c, m : c = ch[l] /\ m = sz[l]
  OBVIOUS
<1>4. m \in Nat /\ head[l] = Behind(c, m, 0) /\ l # NULL /\ head[l] \in Nodes \cup {NULL}
  BY <1>2, <1>3, PlainFacts, NodesAssumption DEF Types, TypeOK
<1>5. w \in Seq(Nodes) /\ Len(w) = m /\ \A i \in 1..m : w[i] = c[i]
  BY <1>1, <1>2, <1>3, ChainFacts
<1>6. Pending(c, m, iter')
  <2> DEFINE e == [i \in 1..m |-> i]
  <2>1. e \in [1..Len(w) -> 1..m] /\ \A i \in 1..m : e[i] = i
    BY <1>5
  <2> HIDE DEF e
  <2>2. Follows(w, c, m, 1)
    BY <1>4, <1>5, <2>1 DEF Follows
  <2>3. 1 \in 1..m + 1 /\ iter'.position = (IF 1 = m + 1 THEN NULL ELSE c[1]) /\ iter'.due = w
    BY <1>2, <1>4 DEF Behind
  <2>4. Follows(iter'.due, c, m, 1)
    BY <2>2, <2>3
  <2>5. QED
    BY <2>3, <2>4 DEF Pending
<1>7. Looping(ch, sz)'
  BY <1>2, <1>3, <1>4, <1>5, <1>6 DEF Looping
<1>8. QED
  BY <1>2, <1>7, IterStep

(* The caller stops iterating. *)
LEMMA AbandonStep ==
  ASSUME Types, NEW ch, NEW sz, Picture(ch, sz), Looping(ch, sz), UNCHANGED max, Abandon
  PROVE  ListStep(ch, sz)
<1>1. iter' = NoIter /\ UNCHANGED <<headers, heap, fault, notes>>
  BY DEF Abandon
<1>2. Looping(ch, sz)'
  BY <1>1 DEF Looping, NoIter
<1>3. QED
  BY <1>1, <1>2, IterStep

(* The iterator gives out its node and moves on to next. *)
LEMMA IterateStep ==
  ASSUME Types, NEW ch, NEW sz, Picture(ch, sz), Looping(ch, sz), UNCHANGED max, Iterate
  PROVE  ListStep(ch, sz)
<1> DEFINE n == iter.position
           l == iter.list
<1>1. CASE Crash("iterate", NULL)
  BY <1>1, CrashStep
<1>2. CASE UNCHANGED <<iter, headers, heap, fault, notes>>
  <2>1. fault' \in BOOLEAN
    BY <1>2 DEF Types, TypeOK
  <2>2. QED
    BY <1>2, <2>1, KeepStep
<1>3. CASE /\ n # NULL /\ n \in alive /\ iter # NoIter
           /\ iter' = [iter EXCEPT !.position = next[n], !.due = Rest(@, n)]
           /\ UNCHANGED <<headers, heap, fault, notes>>
  <2>1. /\ iter = [list |-> l, position |-> n, due |-> iter.due]
        /\ n \in Nodes \cup {NULL} /\ iter.due \in Seq(Nodes)
        /\ l \in Plain \ lent /\ exists[l]
        /\ l \notin stale => Pending(ch[l], sz[l], iter)
    BY <1>3 DEF Looping
  <2>2. iter' = [list |-> l, position |-> next[n], due |-> Rest(iter.due, n)]
    BY <1>3, <2>1
  <2>3. next[n] \in Nodes \cup {NULL} /\ n \in Nodes
    BY <1>3 DEF Types, TypeOK
  <2>4. Rest(iter.due, n) \in Seq(Nodes)
    <3>1. CASE iter.due # <<>>
      <4>1. Tail(iter.due) \in Seq(Nodes)
        BY <2>1, <3>1
      <4>2. QED
        BY <2>1, <4>1 DEF Rest
    <3>2. CASE iter.due = <<>>
      BY <2>1, <3>2 DEF Rest
    <3>3. QED
      BY <3>1, <3>2
  <2>5. ASSUME l \notin stale PROVE Pending(ch[l], sz[l], iter')
    <3>1. PICK c, m, it2 : c = ch[l] /\ m = sz[l] /\ it2 = iter'
      OBVIOUS
    <3>2. /\ m \in Nat
          /\ \A i \in 1..m : c[i] # NULL /\ next[c[i]] = Behind(c, m, i)
          /\ \A i, j \in 1..m : c[i] = c[j] => i = j
      BY <2>1, <3>1, PlainFacts
    <3>3. Pending(c, m, iter)
      BY <2>1, <2>5, <3>1
    <3>4. PICK r \in 1..m : n = c[r]
      <4>1. PICK p \in 1..m + 1 : n = IF p = m + 1 THEN NULL ELSE c[p]
        BY <3>3 DEF Pending
      <4>2. p \in 1..m /\ n = c[p]
        BY <1>3, <3>2, <4>1
      <4>3. QED
        BY <4>2
    <3>5. it2.position = Behind(c, m, r) /\ it2.due = Rest(iter.due, c[r]) /\ iter.position = c[r]
      BY <2>2, <3>1, <3>2, <3>4
    <3>6. Pending(c, m, it2)
      BY <2>1, <3>2, <3>3, <3>5, PendingGiven
    <3>7. QED
      BY <3>1, <3>6
  <2>6. exists' = exists /\ lent' = lent /\ stale' = stale
    BY <1>3 DEF headers, notes
  <2>7. /\ iter' = [list |-> iter'.list, position |-> iter'.position, due |-> iter'.due]
        /\ iter'.position \in Nodes \cup {NULL} /\ iter'.due \in Seq(Nodes)
        /\ iter'.list = l /\ l # NULL
    <3>1. l # NULL
      BY <2>1, NodesAssumption DEF Plain
    <3>2. QED
      BY <2>2, <2>3, <2>4, <3>1
  <2>8. Looping(ch, sz)'
    BY <2>1, <2>5, <2>6, <2>7 DEF Looping
  <2>9. QED
    BY <1>3, <2>8, IterStep
<1>4. QED
  BY <1>1, <1>2, <1>3 DEF Iterate

-------------------------------------------------------------------------------
(* Lists that are built of values. *)

(* A new list of the values s gets as many new nodes, linked in order. *)
LEMMA BuildStep ==
  ASSUME Types, NEW ch, NEW sz, Picture(ch, sz), Looping(ch, sz), UNCHANGED <<iter, fault, max>>,
         NEW k \in Plain, ~exists[k], NEW s, NEW from, IsFiniteSet(from),
         \A i \in from : s[i] \in Elem, Build(k, s, from)
  PROVE  ListStep(ch, sz)
<1>1. Cardinality(from) \in Nat
  BY FS_CardinalityType
<1>2. PICK size \in 0..Cardinality(from) :
      \E src \in [1..size -> from], at \in Injection(1..size, Nodes \ alive) :
        LET pos == AntiFunction(at)
            new == Range(at)
        IN  /\ \A i \in 2..size : src[i - 1] < src[i]
            /\ alive' = alive \cup new
            /\ next' = [n \in Nodes |-> IF n \notin new THEN next[n]
                                        ELSE IF pos[n] < size THEN at[pos[n] + 1] ELSE NULL]
            /\ prev' = [n \in Nodes |-> IF n \notin new THEN prev[n]
                                        ELSE IF pos[n] > 1 THEN at[pos[n] - 1] ELSE NULL]
            /\ data' = [n \in Nodes |-> IF n \in new THEN s[src[pos[n]]] ELSE data[n]]
            /\ exists' = [exists EXCEPT ![k] = TRUE]
            /\ head' = [head EXCEPT ![k] = IF size = 0 THEN NULL ELSE at[1]]
            /\ tail' = [tail EXCEPT ![k] = IF size = 0 THEN NULL ELSE at[size]]
            /\ count' = [count EXCEPT ![k] = size]
            /\ UNCHANGED notes
  BY Zenon DEF Build
<1>3. PICK src \in [1..size -> from], at \in Injection(1..size, Nodes \ alive) :
        LET pos == AntiFunction(at)
            new == Range(at)
        IN  /\ \A i \in 2..size : src[i - 1] < src[i]
            /\ alive' = alive \cup new
            /\ next' = [n \in Nodes |-> IF n \notin new THEN next[n]
                                        ELSE IF pos[n] < size THEN at[pos[n] + 1] ELSE NULL]
            /\ prev' = [n \in Nodes |-> IF n \notin new THEN prev[n]
                                        ELSE IF pos[n] > 1 THEN at[pos[n] - 1] ELSE NULL]
            /\ data' = [n \in Nodes |-> IF n \in new THEN s[src[pos[n]]] ELSE data[n]]
            /\ exists' = [exists EXCEPT ![k] = TRUE]
            /\ head' = [head EXCEPT ![k] = IF size = 0 THEN NULL ELSE at[1]]
            /\ tail' = [tail EXCEPT ![k] = IF size = 0 THEN NULL ELSE at[size]]
            /\ count' = [count EXCEPT ![k] = size]
            /\ UNCHANGED notes
  BY <1>2, Zenon
<1>4. PICK pos, new : pos = AntiFunction(at) /\ new = Range(at)
  OBVIOUS
<1>5. /\ alive' = alive \cup new
      /\ next' = [n \in Nodes |-> IF n \notin new THEN next[n]
                                  ELSE IF pos[n] < size THEN at[pos[n] + 1] ELSE NULL]
      /\ prev' = [n \in Nodes |-> IF n \notin new THEN prev[n]
                                  ELSE IF pos[n] > 1 THEN at[pos[n] - 1] ELSE NULL]
      /\ data' = [n \in Nodes |-> IF n \in new THEN s[src[pos[n]]] ELSE data[n]]
      /\ exists' = [exists EXCEPT ![k] = TRUE]
      /\ head' = [head EXCEPT ![k] = IF size = 0 THEN NULL ELSE at[1]]
      /\ tail' = [tail EXCEPT ![k] = IF size = 0 THEN NULL ELSE at[size]]
      /\ count' = [count EXCEPT ![k] = size]
      /\ lent' = lent /\ stale' = stale
  BY <1>3, <1>4, Zenon DEF notes
<1>6. size \in Nat
  BY <1>1, <1>2
<1>7. /\ \A i \in 1..size : at[i] \in Nodes /\ at[i] \notin alive
      /\ \A i, j \in 1..size : at[i] = at[j] => i = j
      /\ DOMAIN at = 1..size
  BY DEF Injection, IsInjective
<1>8. \A n : n \in new <=> \E i \in 1..size : at[i] = n
  BY <1>4, <1>7 DEF Range
<1>9. \A i \in 1..size : at[i] \in new /\ pos[at[i]] = i
  <2> SUFFICES ASSUME NEW i \in 1..size PROVE at[i] \in new /\ pos[at[i]] = i
    OBVIOUS
  <2>1. at[i] \in Range(at)
    BY <1>4, <1>8
  <2>2. pos[at[i]] = CHOOSE d \in DOMAIN at : at[i] \in Range(at) => at[d] = at[i]
    BY <1>4, <2>1 DEF AntiFunction, Inverse
  <2>3. pos[at[i]] \in DOMAIN at /\ at[pos[at[i]]] = at[i]
    BY <1>7, <2>1, <2>2
  <2>4. QED
    BY <1>4, <1>7, <2>1, <2>3
<1>10. /\ k \in Lists /\ k \notin lent /\ sz[k] = 0 /\ head[k] = NULL /\ tail[k] = NULL
       /\ count[k] = 0 /\ iter.list # k /\ k \notin Rings
  BY AbsentFacts DEF Plain
<1>11. Types'
  <2>1. \A n \in new : \E i \in 1..size : n = at[i] /\ pos[n] = i
    BY <1>8, <1>9
  <2>2. next' \in [Nodes -> Nodes \cup {NULL}]
    <3>1. \A n \in new : pos[n] < size => at[pos[n] + 1] \in Nodes
      BY <1>6, <1>7, <2>1
    <3>2. QED
      BY <1>5, <3>1 DEF Types, TypeOK
  <2>3. prev' \in [Nodes -> Nodes \cup {NULL}]
    <3>1. \A n \in new : pos[n] > 1 => at[pos[n] - 1] \in Nodes
      BY <1>6, <1>7, <2>1
    <3>2. QED
      BY <1>5, <3>1 DEF Types, TypeOK
  <2>4. data' \in [Nodes -> Elem]
    <3>1. \A n \in new : s[src[pos[n]]] \in Elem
      BY <2>1
    <3>2. QED
      BY <1>5, <3>1 DEF Types, TypeOK
  <2>5. /\ exists' \in [Lists -> BOOLEAN] /\ count' \in [Lists -> Nat]
        /\ head' \in [Lists -> Nodes \cup {NULL}] /\ tail' \in [Lists -> Nodes \cup {NULL}]
    <3>1. size # 0 => at[1] \in Nodes /\ at[size] \in Nodes
      BY <1>6, <1>7
    <3>2. QED
      BY <1>5, <1>6, <3>1 DEF Types, TypeOK
  <2>6. alive' \subseteq Nodes
    <3>1. new \subseteq Nodes
      <4>1. SUFFICES ASSUME NEW n \in new PROVE n \in Nodes
        OBVIOUS
      <4>2. PICK i \in 1..size : at[i] = n
        BY <1>8
      <4>3. at[i] \in Nodes
        BY <1>7
      <4>4. QED
        BY <4>2, <4>3
    <3>2. alive \subseteq Nodes
      BY DEF Types, TypeOK
    <3>3. alive' = alive \cup new
      BY <1>5, Zenon
    <3>4. QED
      BY <3>1, <3>2, <3>3, Zenon
  <2>7. QED
    BY <1>5, <2>2, <2>3, <2>4, <2>5, <2>6 DEF Types, TypeOK
<1>12. Shape(k, at, size)'
  <2>1. /\ head'[k] = (IF size = 0 THEN NULL ELSE at[1]) /\ tail'[k] = Before(at, size)
        /\ count'[k] = size /\ exists'[k]
    BY <1>5, <1>10 DEF Types, TypeOK, Before
  <2>2. \A i \in 1..size : next'[at[i]] = IF i = size THEN NULL ELSE at[i + 1]
    BY <1>5, <1>6, <1>7, <1>9
  <2>3. \A i \in 1..size : prev'[at[i]] = IF i = 1 THEN NULL ELSE at[i - 1]
    BY <1>5, <1>6, <1>7, <1>9
  <2>4. Linked(Nodes, at, size, next', prev', head'[k], Before(at, size))
    BY <1>6, <1>7, <2>1, <2>2, <2>3 DEF Linked, Run, Back, Before
  <2>5. IF size = 0 THEN tail'[k] = NULL ELSE On(tail'[k], at, size)
    <3>1. size # 0 => size \in 1..size
      BY <1>6
    <3>2. QED
      BY <2>1, <3>1 DEF On, Before
  <2>6. PlainShape(k, at, size)'
    BY <1>6, <2>1, <2>4, <2>5 DEF PlainShape
  <2>7. QED
    BY <1>5, <1>6, <1>10, <2>6 DEF Shape
<1>13. \A i \in 1..size : at[i] \in alive'
  BY <1>5, <1>9
<1>14. ASSUME NEW j \in Lists \ {k}
       PROVE  Untouched(j, ch[j], sz[j]) /\ \A i \in 1..sz[j] : \A r \in 1..size : at[r] # ch[j][i]
  <2>1. \A i \in 1..sz[j] : ch[j][i] \in alive /\ ch[j][i] \in Nodes /\ ch[j][i] \notin new
    BY <1>7, <1>8 DEF Picture, Types, TypeOK
  <2>2. \A i \in 1..sz[j] : \A r \in 1..size : at[r] # ch[j][i]
    BY <1>9, <2>1
  <2>3. QED
    BY <1>5, <1>10, <2>1, <2>2 DEF Untouched, Types, TypeOK
<1>15. stale' = {} => \A n \in alive' :
         On(n, at, size) \/ \E j \in Lists \ {k} : On(n, ch[j], sz[j])
  BY <1>5, <1>8, <1>10 DEF Picture, Owned, On
<1>16. QED
  BY <1>10, <1>11, <1>12, <1>13, <1>14, <1>15, OneListStep

(* The values of a list as a sequence. *)
LEMMA ValuesFacts ==
  ASSUME Types, NEW ch, NEW sz, Picture(ch, sz), NEW l \in Plain \ lent
  PROVE  /\ ValuesOf(l) \in Seq(Elem) /\ Len(ValuesOf(l)) = sz[l]
         /\ DOMAIN ValuesOf(l) = 1..sz[l] /\ \A i \in 1..sz[l] : ValuesOf(l)[i] \in Elem
<1>1. PICK w, m : w = Chain(l) /\ m = sz[l]
  OBVIOUS
<1>2. m \in Nat /\ DOMAIN w = 1..m /\ \A i \in 1..m : w[i] \in Nodes
  BY <1>1, ChainFacts, PlainFacts
<1>3. ValuesOf(l) = [i \in 1..m |-> data[w[i]]]
  BY <1>1, <1>2 DEF ValuesOf
<1>4. \A i \in 1..m : data[w[i]] \in Elem
  BY <1>2 DEF Types, TypeOK
<1>5. QED
  BY <1>1, <1>2, <1>3, <1>4

(* deep_copy is such a list, of the values of another. *)
LEMMA DeepCopyStep ==
  ASSUME Types, NEW ch, NEW sz, Picture(ch, sz), Looping(ch, sz), UNCHANGED max,
         NEW l \in Plain, NEW k \in Plain, DeepCopy(l, k)
  PROVE  ListStep(ch, sz)
<1>1. PICK s, from : s = ValuesOf(l) /\ from = {i \in DOMAIN s : s[i] # NULL}
  OBVIOUS
<1>2. /\ l \in Plain \ lent /\ ~exists[k]
      /\ \/ Build(k, s, from) /\ Returns("deep_copy", k)
         \/ Keep /\ Returns("deep_copy", NULL)
         \/ Crash("deep_copy", NULL)
  BY <1>1, Zenon DEF DeepCopy, Live
<1>3. CASE Keep /\ Returns("deep_copy", NULL)
  BY <1>3, KeepReturnsStep
<1>4. CASE Crash("deep_copy", NULL)
  BY <1>4, CrashStep
<1>5. CASE Build(k, s, from) /\ Returns("deep_copy", k)
  <2>1. /\ sz[l] \in Nat /\ DOMAIN s = 1..sz[l] /\ \A i \in 1..sz[l] : s[i] \in Elem
    BY <1>1, <1>2, PlainFacts, ValuesFacts
  <2>2. IsFiniteSet(from)
    <3>1. IsFiniteSet(1..sz[l])
      BY <2>1, FS_Interval
    <3>2. from \subseteq 1..sz[l]
      BY <1>1, <2>1
    <3>3. QED
      BY <3>1, <3>2, FS_Subset
  <2>3. \A i \in from : s[i] \in Elem
    BY <1>1, <2>1
  <2>4. UNCHANGED <<iter, fault, max>>
    BY <1>5 DEF Returns
  <2>5. QED
    BY <1>2, <1>5, <2>2, <2>3, <2>4, BuildStep
<1>6. QED
  BY <1>2, <1>3, <1>4, <1>5

-------------------------------------------------------------------------------
(* What merge sort returns: a sequence of values of the list. *)

(* How many of the first k shifted values are of s. *)
IsLeft(left, s, t, n) ==
  left = [k \in 0..n |->
            IF k = 0 THEN 0
            ELSE LET i == left[k - 1]
                     j == k - 1 - i
                 IN  IF i < Len(s) /\ (j < Len(t) => Rank(s[i + 1]) <= Rank(t[j + 1]))
                     THEN i + 1 ELSE i]

Left(s, t, n) == CHOOSE left : IsLeft(left, s, t, n)

IsMerge(w, s, t) ==
  LET left == Left(s, t, Len(s) + Len(t))
  IN  w = [k \in 1..Len(s) + Len(t) |->
             IF left[k] > left[k - 1] THEN s[left[k]] ELSE t[k - left[k]]]

(* Merge is the merging that IsMerge describes. *)
LEMMA MergeIs == ASSUME NEW s, NEW t PROVE IsMerge(Algorithm!Merge(s, t), s, t)
BY Zenon DEF IsMerge, Left, IsLeft, Algorithm!Merge, Algorithm!Shifted

(* These numbers exist. *)
LEMMA LeftExists ==
  ASSUME NEW s, NEW t, NEW n \in Nat
  PROVE  IsLeft(Left(s, t, n), s, t, n)
<1> DEFINE T == {k \in Nat : ~\E left : IsLeft(left, s, t, k)}
           Step(i, k) == IF i < Len(s) /\ (k - 1 - i < Len(t) =>
                                             Rank(s[i + 1]) <= Rank(t[k - 1 - i + 1]))
                         THEN i + 1 ELSE i
<1>s. \A left, k : IsLeft(left, s, t, k) <=>
                     left = [x \in 0..k |-> IF x = 0 THEN 0 ELSE Step(left[x - 1], x)]
  BY Zenon DEF IsLeft
<1> HIDE DEF Step
<1>1. SUFFICES ASSUME T # {} PROVE FALSE
  <2>1. \E left : IsLeft(left, s, t, n)
    BY <1>1
  <2>2. QED
    BY <2>1 DEF Left
<1>2. T \in SUBSET Nat
  OBVIOUS
<1>3. PICK k \in T : \A j \in T : k <= j
  BY <1>1, <1>2, LeastNumber
<1>4. k # 0
  <2> DEFINE f == [x \in 0..0 |-> 0]
  <2>1. f = [x \in 0..0 |-> IF x = 0 THEN 0 ELSE Step(f[x - 1], x)]
    OBVIOUS
  <2>2. IsLeft(f, s, t, 0)
    BY <1>s, <2>1
  <2>3. QED
    BY <1>3, <2>2
<1>5. k - 1 \in Nat /\ k - 1 \notin T
  BY <1>3, <1>4
<1>6. PICK g : IsLeft(g, s, t, k - 1)
  BY <1>5
<1>7. g = [x \in 0..k - 1 |-> IF x = 0 THEN 0 ELSE Step(g[x - 1], x)]
  BY <1>6, <1>s
<1> DEFINE f == [x \in 0..k |-> IF x < k THEN g[x] ELSE Step(g[k - 1], k)]
<1>8. \A x \in 0..k : f[x] = IF x = 0 THEN 0 ELSE Step(f[x - 1], x)
  <2> SUFFICES ASSUME NEW x \in 0..k PROVE f[x] = IF x = 0 THEN 0 ELSE Step(f[x - 1], x)
    OBVIOUS
  <2>1. CASE x < k
    <3>1. x \in 0..k - 1 /\ f[x] = g[x] /\ (x # 0 => x - 1 \in 0..k /\ x - 1 < k)
      BY <1>5, <2>1
    <3>2. x # 0 => f[x - 1] = g[x - 1]
      BY <3>1
    <3>3. g[x] = IF x = 0 THEN 0 ELSE Step(g[x - 1], x)
      BY <1>7, <3>1
    <3>4. QED
      BY <3>1, <3>2, <3>3
  <2>2. CASE ~(x < k)
    <3>1. x = k /\ x # 0 /\ k - 1 \in 0..k /\ k - 1 < k
      BY <1>4, <1>5, <2>2
    <3>2. f[k - 1] = g[k - 1] /\ f[k] = Step(g[k - 1], k)
      BY <3>1
    <3>3. QED
      BY <3>1, <3>2
  <2>3. QED
    BY <2>1, <2>2
<1>9. f = [x \in 0..k |-> IF x = 0 THEN 0 ELSE Step(f[x - 1], x)]
  BY <1>8
<1>10. IsLeft(f, s, t, k)
  BY <1>9, <1>s
<1>11. QED
  BY <1>3, <1>10

(* Merging two sequences of values gives a sequence of values. *)
LEMMA MergeSeq ==
  ASSUME NEW S, NEW s \in Seq(S), NEW t \in Seq(S)
  PROVE  Algorithm!Merge(s, t) \in Seq(S)
<1>1. PICK p, r, w : p = Len(s) /\ r = Len(t) /\ w = Algorithm!Merge(s, t)
  OBVIOUS
<1>2. p \in Nat /\ r \in Nat /\ (\A i \in 1..p : s[i] \in S) /\ (\A i \in 1..r : t[i] \in S)
  BY <1>1
<1>3. PICK n : n = p + r
  OBVIOUS
<1>4. n \in Nat
  BY <1>2, <1>3
<1>5. PICK left : left = Left(s, t, n)
  OBVIOUS
<1>6. IsLeft(left, s, t, n) /\ IsMerge(w, s, t)
  BY <1>1, <1>4, <1>5, LeftExists, MergeIs
<1>7. \A k \in 0..n :
        left[k] = IF k = 0 THEN 0
                  ELSE IF left[k - 1] < p /\ (k - 1 - left[k - 1] < r =>
                            Rank(s[left[k - 1] + 1]) <= Rank(t[k - 1 - left[k - 1] + 1]))
                       THEN left[k - 1] + 1 ELSE left[k - 1]
  BY <1>1, <1>6 DEF IsLeft
<1>8. w = [k \in 1..n |-> IF left[k] > left[k - 1] THEN s[left[k]] ELSE t[k - left[k]]]
  BY <1>1, <1>3, <1>5, <1>6 DEF IsMerge
<1>9. ASSUME NEW k \in 1..n, NEW i, i = left[k - 1], i \in 0..p, k - 1 - i \in 0..r
      PROVE  /\ left[k] \in 0..p /\ k - left[k] \in 0..r
             /\ left[k] > left[k - 1] => left[k] \in 1..p
             /\ ~(left[k] > left[k - 1]) => k - left[k] \in 1..r
  <2> DEFINE b == i < p /\ (k - 1 - i < r => Rank(s[i + 1]) <= Rank(t[k - 1 - i + 1]))
  <2>1. PICK v : v = left[k]
    OBVIOUS
  <2>2. v = IF b THEN i + 1 ELSE i
    <3>1. k \in 0..n /\ k # 0
      BY <1>4
    <3>2. QED
      BY <1>7, <1>9, <2>1, <3>1, Zenon
  <2>3. k \in Int /\ i \in 0..p /\ k - 1 - i \in 0..r
    BY <1>4, <1>9
  <2>4. b => i < p
    OBVIOUS
  <2>5. ~b => ~(i < p) \/ k - 1 - i < r
    OBVIOUS
  <2> HIDE DEF b
  <2>6. ~b => k - 1 - i < r
    BY <1>2, <1>3, <1>4, <2>3, <2>5
  <2>7. v \in 0..p /\ k - v \in 0..r
    BY <1>2, <2>2, <2>3, <2>4, <2>6
  <2>8. (v > i => v \in 1..p) /\ (~(v > i) => k - v \in 1..r)
    BY <1>2, <2>2, <2>3, <2>4, <2>6
  <2>9. QED
    BY <1>9, <2>1, <2>7, <2>8
<1>10. \A k \in 0..n : left[k] \in 0..p /\ k - left[k] \in 0..r
  <2> DEFINE T == {k \in 0..n : ~(left[k] \in 0..p /\ k - left[k] \in 0..r)}
  <2>1. SUFFICES ASSUME T # {} PROVE FALSE
    OBVIOUS
  <2>2. T \in SUBSET Nat
    OBVIOUS
  <2>3. PICK k \in T : \A j \in T : k <= j
    BY <2>1, <2>2, LeastNumber
  <2>4. k # 0
    BY <1>2, <1>4, <1>7, <2>3
  <2>5. k \in 1..n /\ k - 1 \in 0..n /\ k - 1 \notin T
    BY <1>4, <2>3, <2>4
  <2>6. left[k - 1] \in 0..p /\ k - 1 - left[k - 1] \in 0..r
    BY <2>5
  <2>7. left[k] \in 0..p /\ k - left[k] \in 0..r
    BY <1>9, <2>5, <2>6
  <2>8. QED
    BY <2>3, <2>7
<1>11. \A k \in 1..n : w[k] \in S
  <2> SUFFICES ASSUME NEW k \in 1..n PROVE w[k] \in S
    OBVIOUS
  <2>1. k - 1 \in 0..n
    BY <1>4
  <2>2. left[k - 1] \in 0..p /\ k - 1 - left[k - 1] \in 0..r
    BY <1>10, <2>1
  <2>3. /\ left[k] > left[k - 1] => left[k] \in 1..p
        /\ ~(left[k] > left[k - 1]) => k - left[k] \in 1..r
    BY <1>9, <2>2
  <2>4. w[k] = IF left[k] > left[k - 1] THEN s[left[k]] ELSE t[k - left[k]]
    BY <1>8
  <2>5. QED
    BY <1>2, <2>3, <2>4
<1>12. w \in Seq(S)
  BY <1>4, <1>8, <1>11
<1>13. QED
  BY <1>1, <1>12

(* The values in front of the first NULL. *)
LEMMA BeforeNullSeq ==
  ASSUME NEW S, NEW s \in Seq(S)
  PROVE  Algorithm!BeforeNull(s) \in Seq(S)
<1> DEFINE I == {i \in 1..Len(s) : s[i] = NULL}
           p == IF I # {} THEN Min(I) ELSE 0
<1>1. Algorithm!BeforeNull(s) = IF p = 0 THEN s ELSE SubSeq(s, 1, p - 1)
  BY Zenon DEF Algorithm!BeforeNull, Algorithm!SelectInSeq, Algorithm!Min, Min
<1>2. CASE I = {}
  BY <1>1, <1>2
<1>3. CASE I # {}
  <2>1. I \in SUBSET Nat
    OBVIOUS
  <2>2. \E a \in I : \A b \in I : a <= b
    <3> HIDE DEF I
    <3>1. QED
      BY <1>3, <2>1, LeastNumber
  <2>3. Min(I) \in I
    <3> HIDE DEF I
    <3>1. QED
      BY <2>2 DEF Min
  <2>4. p \in 1..Len(s)
    BY <1>3, <2>3
  <2> HIDE DEF p
  <2>5. p # 0 /\ Algorithm!BeforeNull(s) = SubSeq(s, 1, p - 1)
    BY <1>1, <2>4
  <2>6. SubSeq(s, 1, p - 1) \in Seq(S)
    BY <2>4, SubSeqOf
  <2>7. QED
    BY <2>5, <2>6
<1>4. QED
  BY <1>2, <1>3

(* So does one turn of the sort, when its two calls do. *)
LEMMA SplitAndMergeSeq ==
  ASSUME NEW S, NEW s \in Seq(S), NEW h \in Nat, NEW f, \A t \in Seq(S) : f[t] \in Seq(S)
  PROVE  Algorithm!SplitAndMerge(f, s, h) \in Seq(S)
<1>1. PICK u : u = Algorithm!BeforeNull(s)
  OBVIOUS
<1>2. u \in Seq(S)
  BY <1>1, BeforeNullSeq
<1>3. PICK n : n = Len(u)
  OBVIOUS
<1>4. n \in Nat
  BY <1>2, <1>3
<1>5. PICK a1, a2, k : /\ k = (IF h < n THEN h ELSE n)
                       /\ a1 = SubSeq(u, 1, k) /\ a2 = SubSeq(u, h + 1, n)
  OBVIOUS
<1>6. a1 \in Seq(S) /\ a2 \in Seq(S)
  <2>1. 1 \in Nat \ {0} /\ h + 1 \in Nat \ {0} /\ k \in Nat /\ k <= n /\ n <= n
    BY <1>4, <1>5
  <2>2. QED
    BY <1>2, <1>3, <1>5, <2>1, SubSeqOf
<1>7. Algorithm!SplitAndMerge(f, s, h) = IF h = 0 THEN s ELSE Algorithm!Merge(f[a1], f[a2])
  BY <1>1, <1>3, <1>5, Zenon DEF Algorithm!SplitAndMerge
<1>8. Algorithm!Merge(f[a1], f[a2]) \in Seq(S)
  BY <1>6, MergeSeq
<1>9. QED
  BY <1>7, <1>8

(* sorted[d] for d up to n. *)
SortsUpTo(sorted, S, n) ==
  sorted = [d \in 0..n |->
              [t \in Seq(S) |->
                 IF d = 0 THEN t
                 ELSE Algorithm!SplitAndMerge(sorted[d - 1], t, Len(t) \div 2)]]

Sorted(S, n) == CHOOSE sorted : SortsUpTo(sorted, S, n)

(* MergeSorted uses such functions. *)
LEMMA MergeSortedIs ==
  ASSUME NEW s, NEW half
  PROVE  Algorithm!MergeSorted(s, half)
           = Algorithm!SplitAndMerge(Sorted(ToSet(s), Len(s))[Len(s)], s, half)
BY Zenon DEF Algorithm!MergeSorted, Algorithm!ToSet, ToSet, Sorted, SortsUpTo

(* These functions exist. *)
LEMMA SortedExists ==
  ASSUME NEW S, NEW n \in Nat
  PROVE  SortsUpTo(Sorted(S, n), S, n)
<1> DEFINE T == {k \in Nat : ~\E f : SortsUpTo(f, S, k)}
           Step(g, d) == [t \in Seq(S) |->
                            IF d = 0 THEN t
                            ELSE Algorithm!SplitAndMerge(g, t, Len(t) \div 2)]
<1>s. \A f, k : SortsUpTo(f, S, k) <=> f = [d \in 0..k |-> Step(f[d - 1], d)]
  BY Zenon DEF SortsUpTo
<1>z. \A g, h : Step(g, 0) = Step(h, 0)
  OBVIOUS
<1> HIDE DEF Step
<1>1. SUFFICES ASSUME T # {} PROVE FALSE
  <2>1. \E f : SortsUpTo(f, S, n)
    BY <1>1
  <2>2. QED
    BY <2>1 DEF Sorted
<1>2. T \in SUBSET Nat
  OBVIOUS
<1>3. PICK k \in T : \A j \in T : k <= j
  BY <1>1, <1>2, LeastNumber
<1>4. k # 0
  <2> DEFINE f == [d \in 0..0 |-> Step(0, 0)]
  <2>1. f = [d \in 0..0 |-> Step(f[d - 1], d)]
    <3>1. \A d \in 0..0 : Step(0, 0) = Step(f[d - 1], d)
      BY <1>z
    <3>2. QED
      BY <3>1
  <2>2. SortsUpTo(f, S, 0)
    BY <1>s, <2>1
  <2>3. QED
    BY <1>3, <2>2
<1>5. k - 1 \in Nat /\ k - 1 \notin T
  BY <1>3, <1>4
<1>6. PICK g : SortsUpTo(g, S, k - 1)
  BY <1>5
<1>7. g = [d \in 0..k - 1 |-> Step(g[d - 1], d)]
  BY <1>6, <1>s
<1> DEFINE f == [d \in 0..k |-> IF d < k THEN g[d] ELSE Step(g[k - 1], k)]
<1>8. \A d \in 0..k : f[d] = Step(f[d - 1], d)
  <2> SUFFICES ASSUME NEW d \in 0..k PROVE f[d] = Step(f[d - 1], d)
    OBVIOUS
  <2>1. CASE d < k /\ d # 0
    <3>1. d \in 0..k - 1 /\ f[d] = g[d] /\ d - 1 \in 0..k /\ d - 1 < k
      BY <1>5, <2>1
    <3>2. f[d - 1] = g[d - 1]
      BY <3>1
    <3>3. g[d] = Step(g[d - 1], d)
      BY <1>7, <3>1
    <3>4. QED
      BY <3>1, <3>2, <3>3
  <2>2. CASE ~(d < k)
    <3>1. d = k /\ k - 1 \in 0..k /\ k - 1 < k
      BY <1>4, <1>5, <2>2
    <3>2. f[k - 1] = g[k - 1] /\ f[k] = Step(g[k - 1], k)
      BY <3>1
    <3>3. QED
      BY <3>1, <3>2
  <2>3. CASE d = 0
    <3>1. 0 \in 0..k - 1 /\ 0 \in 0..k /\ 0 < k
      BY <1>4, <1>5
    <3>2. f[0] = g[0] /\ g[0] = Step(g[0 - 1], 0)
      BY <1>7, <3>1
    <3> HIDE DEF f
    <3>3. QED
      BY <1>z, <2>3, <3>2
  <2>4. QED
    BY <2>1, <2>2, <2>3
<1>9. f = [d \in 0..k |-> Step(f[d - 1], d)]
  BY <1>8
<1>10. SortsUpTo(f, S, k)
  BY <1>9, <1>s
<1>11. QED
  BY <1>3, <1>10

(* The result holds values of the list alone. *)
LEMMA MergeSortedSeq ==
  ASSUME NEW S, NEW s \in Seq(S), NEW half \in Nat
  PROVE  Algorithm!MergeSorted(s, half) \in Seq(S)
<1>1. PICK n, U, f : n = Len(s) /\ U = ToSet(s) /\ f = Sorted(U, n)
  OBVIOUS
<1>2. n \in Nat /\ s \in Seq(U) /\ \A u : u \in U => u \in S
  <2>1. n \in Nat /\ U = {s[i] : i \in 1..n}
    BY <1>1 DEF ToSet
  <2>2. \A i \in 1..n : s[i] \in U /\ s[i] \in S
    BY <1>1, <2>1
  <2>3. s = [i \in 1..n |-> s[i]]
    BY <1>1
  <2>4. s \in Seq(U)
    BY <2>1, <2>2, <2>3
  <2>5. QED
    BY <2>1, <2>2, <2>4
<1>3. SortsUpTo(f, U, n)
  BY <1>1, <1>2, SortedExists
<1>4. \A d \in 0..n, t \in Seq(U) :
        f[d][t] = IF d = 0 THEN t ELSE Algorithm!SplitAndMerge(f[d - 1], t, Len(t) \div 2)
  <2>1. \A d \in 0..n :
          f[d] = [t \in Seq(U) |->
                    IF d = 0 THEN t ELSE Algorithm!SplitAndMerge(f[d - 1], t, Len(t) \div 2)]
    BY <1>3 DEF SortsUpTo
  <2>2. QED
    BY <2>1, Zenon
<1>5. \A d \in 0..n : \A t \in Seq(U) : f[d][t] \in Seq(U)
  <2> DEFINE T == {d \in 0..n : ~\A t \in Seq(U) : f[d][t] \in Seq(U)}
  <2>1. SUFFICES ASSUME T # {} PROVE FALSE
    OBVIOUS
  <2>2. T \in SUBSET Nat
    OBVIOUS
  <2>3. PICK d \in T : \A j \in T : d <= j
    BY <2>1, <2>2, LeastNumber
  <2>4. d # 0
    BY <1>2, <1>4, <2>3
  <2>5. d - 1 \in 0..n /\ d - 1 \notin T
    BY <1>2, <2>3, <2>4
  <2>6. PICK g : g = f[d - 1]
    OBVIOUS
  <2>7. \A t \in Seq(U) : g[t] \in Seq(U)
    BY <2>5, <2>6
  <2>8. ASSUME NEW t \in Seq(U) PROVE f[d][t] \in Seq(U)
    <3>1. PICK h : h = Len(t) \div 2
      OBVIOUS
    <3>2. h \in Nat
      <4>1. PICK q : q = Len(t)
        OBVIOUS
      <4>2. q \in Nat
        BY <4>1
      <4>3. q \div 2 \in Nat
        BY <4>2
      <4>4. QED
        BY <3>1, <4>1, <4>3
    <3>3. Algorithm!SplitAndMerge(g, t, h) \in Seq(U)
      BY <2>7, <3>2, SplitAndMergeSeq
    <3>4. f[d][t] = Algorithm!SplitAndMerge(g, t, h)
      BY <1>4, <2>3, <2>4, <2>6, <3>1
    <3>5. QED
      BY <3>3, <3>4
  <2>9. QED
    BY <2>3, <2>8
<1>6. Algorithm!SplitAndMerge(f[n], s, half) \in Seq(U)
  <2>1. PICK g : g = f[n]
    OBVIOUS
  <2>2. \A t \in Seq(U) : g[t] \in Seq(U)
    BY <1>2, <1>5, <2>1
  <2>3. Algorithm!SplitAndMerge(g, s, half) \in Seq(U)
    BY <1>2, <2>2, SplitAndMergeSeq
  <2>4. QED
    BY <2>1, <2>3
<1>7. Algorithm!MergeSorted(s, half) = Algorithm!SplitAndMerge(f[n], s, half)
  BY <1>1, MergeSortedIs
<1>8. QED
  <2>1. PICK w : w = Algorithm!MergeSorted(s, half)
    OBVIOUS
  <2>2. w \in Seq(U)
    BY <1>6, <1>7, <2>1
  <2>3. w \in Seq(S)
    BY <1>2, <2>2
  <2>4. QED
    BY <2>1, <2>3

(* merge_sort is a new list of what the sort returns. *)
LEMMA MergeSortStep ==
  ASSUME Types, NEW ch, NEW sz, Picture(ch, sz), Looping(ch, sz), UNCHANGED max,
         NEW l \in Plain, NEW k \in Plain, MergeSort(l, k)
  PROVE  ListStep(ch, sz)
<1>1. PICK half, v, s : half = count[l] \div 2 /\ v = ValuesOf(l) /\ s = Algorithm!MergeSorted(v, half)
  OBVIOUS
<1>2. /\ l \in Plain \ lent
      /\ \/ ~exists[k] /\ Build(k, s, DOMAIN s) /\ Returns("merge_sort", k)
         \/ Keep /\ Returns("merge_sort", l)
         \/ Crash("merge_sort", NULL)
  BY <1>1, Zenon DEF MergeSort, Live
<1>3. CASE Keep /\ Returns("merge_sort", l)
  BY <1>3, KeepReturnsStep
<1>4. CASE Crash("merge_sort", NULL)
  BY <1>4, CrashStep
<1>5. CASE ~exists[k] /\ Build(k, s, DOMAIN s) /\ Returns("merge_sort", k)
  <2>1. half \in Nat
    <3>1. PICK q : q = count[l]
      OBVIOUS
    <3>2. q \in Nat
      BY <3>1 DEF Types, TypeOK, Plain
    <3>3. q \div 2 \in Nat
      BY <3>2
    <3>4. QED
      BY <1>1, <3>1, <3>3
  <2>2. v \in Seq(Elem)
    BY <1>1, <1>2, ValuesFacts
  <2>3. s \in Seq(Elem)
    BY <1>1, <2>1, <2>2, MergeSortedSeq
  <2>4. PICK n, from : n = Len(s) /\ from = DOMAIN s
    OBVIOUS
  <2>5. n \in Nat /\ from = 1..n /\ \A i \in 1..n : s[i] \in Elem
    BY <2>3, <2>4
  <2>6. IsFiniteSet(from)
    BY <2>5, FS_Interval
  <2>7. UNCHANGED <<iter, fault, max>> /\ Build(k, s, from) /\ \A i \in from : s[i] \in Elem
    BY <1>5, <2>4, <2>5 DEF Returns
  <2>8. QED
    BY <1>5, <2>6, <2>7, BuildStep
<1>6. QED
  BY <1>2, <1>3, <1>4, <1>5

-------------------------------------------------------------------------------
(* One list takes over the nodes of another. *)

(* The list l takes nodes of the list a and has the nodes e[1..k] then;    *)
(* a has none left.                                                        *)
Gives(ch, sz, l, a, e, k) ==
  /\ \A i \in 1..k : On(e[i], ch[l], sz[l]) \/ On(e[i], ch[a], sz[a])
  /\ stale' = {} => \A x : On(x, ch[l], sz[l]) \/ On(x, ch[a], sz[a]) => On(x, e, k)
  /\ \A j \in Plain \ {l} : (j \in stale') = (j \in stale)
  /\ stale \subseteq stale' /\ stale' \subseteq Plain
  /\ \A j \in Lists \ {l} : head'[j] = head[j] /\ tail'[j] = tail[j] /\ count'[j] = count[j]
  /\ \A x \in alive : ~On(x, ch[l], sz[l]) /\ ~On(x, ch[a], sz[a]) =>
       next'[x] = next[x] /\ prev'[x] = prev[x]

(* A call by which l takes over all nodes of a. *)
LEMMA GiveStep ==
  ASSUME Types, Types', NEW ch, NEW sz, Picture(ch, sz), Looping(ch, sz),
         NEW l \in Plain \ lent, NEW a \in Plain \ lent, a # l, iter' = iter,
         iter.list # l, iter.list # a, exists[a],
         NEW e, NEW k \in Nat, PlainShape(l, e, k)', Gives(ch, sz, l, a, e, k),
         lent' = lent \cup {a}, UNCHANGED <<exists, alive, max>>
  PROVE  ListStep(ch, sz)
<1>g. /\ \A i \in 1..k : On(e[i], ch[l], sz[l]) \/ On(e[i], ch[a], sz[a])
      /\ stale' = {} => \A x : On(x, ch[l], sz[l]) \/ On(x, ch[a], sz[a]) => On(x, e, k)
      /\ \A j \in Plain \ {l} : (j \in stale') = (j \in stale)
      /\ stale \subseteq stale' /\ stale' \subseteq Plain
      /\ \A j \in Lists \ {l} : head'[j] = head[j] /\ tail'[j] = tail[j] /\ count'[j] = count[j]
      /\ \A x \in alive : ~On(x, ch[l], sz[l]) /\ ~On(x, ch[a], sz[a]) =>
           next'[x] = next[x] /\ prev'[x] = prev[x]
  BY DEF Gives
<1> DEFINE d == With(ch, l, e)
           z == With(With(sz, l, k), a, 0)
<1>1. /\ l \in Lists /\ a \in Lists /\ l \notin Rings /\ a \notin Rings /\ Rings \subseteq Lists
      /\ l \notin lent' /\ a \in lent'
  BY RingsAssumption DEF Plain
<1>2. /\ d[l] = e /\ z[l] = k /\ z[a] = 0
      /\ \A j \in Lists \ {l, a} : d[j] = ch[j] /\ z[j] = sz[j]
  BY <1>1 DEF With
<1> HIDE DEF d, z
<1>3. \A j \in Lists \ {l, a} : Untouched(j, ch[j], sz[j])
  <2> SUFFICES ASSUME NEW j \in Lists \ {l, a} PROVE Untouched(j, ch[j], sz[j])
    OBVIOUS
  <2>1. \A i \in 1..sz[j] : /\ ch[j][i] \in alive
                            /\ ~On(ch[j][i], ch[l], sz[l]) /\ ~On(ch[j][i], ch[a], sz[a])
    BY <1>1 DEF Picture, Apart, On
  <2>2. (j \in stale') = (j \in stale) /\ (j \in lent') = (j \in lent)
    <3>1. CASE j \in Plain
      BY <1>g, <3>1
    <3>2. CASE j \notin Plain
      BY <1>g, <3>2 DEF Types, TypeOK
    <3>3. QED
      BY <3>1, <3>2
  <2>3. QED
    BY <1>g, <2>1, <2>2 DEF Untouched
<1>4. Shape(l, d[l], z[l])' /\ \A i \in 1..z[l] : d[l][i] \in alive'
  <2>1. Shape(l, e, k)'
    BY <1>1 DEF Shape
  <2>2. \A i \in 1..k : e[i] \in alive'
    BY <1>1, <1>g DEF Picture, On
  <2>3. QED
    BY <1>2, <2>1, <2>2
<1>5. Shape(a, d[a], z[a])' /\ \A i \in 1..z[a] : d[a][i] \in alive'
  <2>1. PICK x : x = d[a]
    OBVIOUS
  <2>2. Shape(a, x, 0)'
    BY <1>1 DEF Shape
  <2>3. QED
    BY <1>2, <2>1, <2>2
<1>6. Apart(d, z)
  <2>1. \A i, j \in Lists \ {l, a} : i # j => \A r \in 1..sz[i], s \in 1..sz[j] : ch[i][r] # ch[j][s]
    BY DEF Picture, Apart
  <2>2. \A j \in Lists \ {l, a} : \A r \in 1..k, s \in 1..sz[j] : e[r] # ch[j][s]
    BY <1>1, <1>g DEF Picture, Apart, On
  <2>3. QED
    BY <1>2, <2>1, <2>2 DEF Apart
<1>7. stale' = {} => Owned(d, z)'
  <2> SUFFICES ASSUME stale' = {}, NEW n \in alive PROVE \E j \in Lists : On(n, d[j], z[j])
    BY DEF Owned
  <2>1. PICK j \in Lists : On(n, ch[j], sz[j])
    BY <1>g DEF Picture, Owned
  <2>2. CASE j \in {l, a}
    <3>1. On(n, e, k)
      BY <1>g, <2>1, <2>2
    <3>2. QED
      BY <1>1, <1>2, <3>1
  <2>3. CASE j \notin {l, a}
    <3>1. d[j] = ch[j] /\ z[j] = sz[j]
      BY <1>2, <2>3
    <3>2. QED
      BY <2>1, <3>1
  <2>4. QED
    BY <2>2, <2>3
<1>8. Picture(d, z)'
  <2> DEFINE S == {l, a}
  <2>1. \A j \in Lists \cap S : Shape(j, d[j], z[j])' /\ \A i \in 1..z[j] : d[j][i] \in alive'
    BY <1>4, <1>5
  <2>2. \A j \in Lists \ S : d[j] = ch[j] /\ z[j] = sz[j] /\ Untouched(j, ch[j], sz[j])
    BY <1>2, <1>3
  <2> HIDE DEF S
  <2>3. QED
    BY <1>6, <1>7, <2>1, <2>2, Repicture
<1>9. RingsKept(ch, sz, d, z)
  BY <1>1, <1>2 DEF RingsKept
<1>10. Looping(d, z)'
  <2>1. iter.list # NULL => /\ iter.list \in Lists \ {l, a} /\ iter.list \in Plain \ lent'
                            /\ exists'[iter.list]
    BY DEF Looping, Plain
  <2>2. /\ iter' = [list |-> iter'.list, position |-> iter'.position, due |-> iter'.due]
        /\ iter'.position \in Nodes \cup {NULL} /\ iter'.due \in Seq(Nodes)
        /\ iter'.list = NULL => iter' = NoIter
    BY DEF Looping
  <2>3. ASSUME iter.list # NULL, iter.list \notin stale'
        PROVE  Pending(d[iter.list], z[iter.list], iter')
    <3> DEFINE j == iter.list
    <3>1. d[j] = ch[j] /\ z[j] = sz[j]
      BY <1>2, <2>1, <2>3
    <3>2. Pending(ch[j], sz[j], iter)
      BY <1>g, <2>1, <2>3 DEF Looping
    <3>3. QED
      BY <3>1, <3>2
  <2>4. QED
    BY <2>1, <2>2, <2>3 DEF Looping
<1>11. QED
  BY <1>8, <1>9, <1>10 DEF ListStep

(* Behind the last node. *)
LEMMA JoinStep ==
  ASSUME Types, NEW ch, NEW sz, Picture(ch, sz), Looping(ch, sz), UNCHANGED <<iter, fault, max>>,
         NEW l \in Plain \ lent, NEW a \in Plain \ lent, a # l, exists[l], exists[a],
         iter.list # l, iter.list # a, head[a] # NULL,
         NEW n \in Nodes, n = Before(ch[l], sz[l]), sz[l] # 0,
         next' = [next EXCEPT ![n] = head[a]], prev' = [prev EXCEPT ![head[a]] = n],
         stale' = stale \cup {l}, count' = [count EXCEPT ![l] = @ + count[a]],
         lent' = lent \cup {a}, UNCHANGED <<exists, head, tail, alive, data>>
  PROVE  ListStep(ch, sz)
<1>1. PICK c, m, b, m2, h2, t2 : /\ c = ch[l] /\ m = sz[l] /\ b = ch[a] /\ m2 = sz[a]
                                 /\ h2 = head[a] /\ t2 = Before(b, m2)
  OBVIOUS
<1>2. /\ l \in Lists /\ l \notin Rings /\ m \in Nat
      /\ \A k \in 1..m : c[k] \in Nodes /\ c[k] \in alive /\ c[k] # NULL
  BY <1>1, PlainFacts
<1>3. /\ a \in Lists /\ m2 \in Nat /\ h2 = Behind(b, m2, 0)
      /\ \A k \in 1..m2 : b[k] \in Nodes /\ b[k] \in alive /\ b[k] # NULL
  BY <1>1, PlainFacts
<1>4. m2 # 0 /\ h2 \in Nodes /\ h2 = b[1] /\ 1 \in 1..m2 /\ n = c[m] /\ m \in 1..m
  BY <1>1, <1>2, <1>3 DEF Behind, Before
<1>5. PlainShape(l, c, m) /\ PlainShape(a, b, m2) /\ NULL \notin Nodes
  BY <1>1, <1>2, <1>3, NodesAssumption DEF Picture, Shape
<1>6. /\ Linked(Nodes, c, m, next, prev, head[l], n)
      /\ Linked(Nodes, b, m2, next, prev, h2, t2)
  BY <1>1, <1>5 DEF PlainShape
<1>7. \A i \in 1..m, j \in 1..m2 : c[i] # b[j]
  BY <1>1, <1>2, <1>3 DEF Picture, Apart
<1> DEFINE e == [y \in 1..m + m2 |-> IF y <= m THEN c[y] ELSE b[y - m]]
           k == m + m2
<1>8. /\ \A y \in 1..m + m2 : e[y] = IF y <= m THEN c[y] ELSE b[y - m]
      /\ k \in Nat /\ k # 0 /\ m <= k /\ k \in 1..k
  BY <1>2, <1>3, <1>4
<1>9. \A y \in 1..k : On(e[y], c, m) \/ On(e[y], b, m2)
  <2> SUFFICES ASSUME NEW y \in 1..k PROVE On(e[y], c, m) \/ On(e[y], b, m2)
    OBVIOUS
  <2>1. CASE y <= m
    <3>1. y \in 1..m /\ e[y] = c[y]
      BY <1>2, <1>8, <2>1
    <3>2. QED
      BY <3>1 DEF On
  <2>2. CASE ~(y <= m)
    <3>1. y - m \in 1..m2 /\ e[y] = b[y - m]
      BY <1>2, <1>3, <1>8, <2>2
    <3>2. QED
      BY <3>1 DEF On
  <2>3. QED
    BY <2>1, <2>2
<1>10. /\ \A x : On(x, c, m) => On(x, e, k)
       /\ \A x : On(x, b, m2) => On(x, e, k)
  <2>1. \A y \in 1..m : y \in 1..k /\ e[y] = c[y]
    BY <1>2, <1>3, <1>8
  <2>2. \A y \in 1..m2 : y + m \in 1..k /\ e[y + m] = b[y]
    <3> SUFFICES ASSUME NEW y \in 1..m2 PROVE y + m \in 1..k /\ e[y + m] = b[y]
      OBVIOUS
    <3>1. y + m \in 1..m + m2 /\ ~(y + m <= m) /\ (y + m) - m = y
      BY <1>2, <1>3
    <3>2. e[y + m] = b[(y + m) - m]
      BY <1>8, <3>1
    <3>3. QED
      BY <3>1, <3>2
  <2> HIDE DEF e, k
  <2>3. QED
    BY <2>1, <2>2 DEF On
<1>11. Linked(Nodes, e, k, next', prev', head[l], t2)
  <2>1. /\ \A x \in Nodes : next'[x] = IF x = n THEN h2 ELSE next[x]
        /\ \A x \in Nodes : prev'[x] = IF x = h2 THEN n ELSE prev[x]
    BY <1>1, <1>4 DEF Types, TypeOK
  <2> HIDE DEF e
  <2>2. Joined(Nodes, c, m, b, m2, next, prev, n, h2, next', prev', e)
    BY <1>1, <1>4, <1>7, <1>8, <2>1 DEF Joined
  <2>3. QED
    BY <1>5, <1>6, <2>2, JoinLinked
<1> HIDE DEF e
<1>12. Before(e, k) = t2
  BY <1>11 DEF Linked, Back, Before
<1>13. PICK cl, ca : /\ cl = count[l] /\ ca = count[a] /\ cl \in Nat /\ ca \in Nat /\ m <= cl /\ m2 <= ca
                     /\ count'[l] = cl + ca
  BY <1>2, <1>3, <1>5 DEF PlainShape, Types, TypeOK
<1>14. PlainShape(l, e, k)'
  <2>1. On(tail[l], e, k)
    BY <1>1, <1>5, <1>10 DEF PlainShape
  <2>2. k <= count'[l]
    BY <1>2, <1>3, <1>13
  <2>3. l \in stale' /\ exists'[l] /\ tail'[l] = tail[l] /\ head'[l] = head[l] /\ k # 0
    BY <1>8
  <2> HIDE DEF k
  <2>4. QED
    BY <1>11, <1>12, <2>1, <2>2, <2>3 DEF PlainShape
<1>15. Types'
  <2>1. count' \in [Lists -> Nat]
    <3>1. cl + ca \in Nat
      BY <1>13
    <3>2. QED
      BY <1>2, <1>13, <3>1 DEF Types, TypeOK
  <2>2. next' \in [Nodes -> Nodes \cup {NULL}] /\ prev' \in [Nodes -> Nodes \cup {NULL}]
    BY <1>1, <1>4 DEF Types, TypeOK
  <2>3. lent' \subseteq Plain /\ stale' \subseteq Plain
    BY DEF Types, TypeOK
  <2>4. QED
    BY <2>1, <2>2, <2>3 DEF Types, TypeOK
<1>16. \A i \in 1..k : On(e[i], ch[l], sz[l]) \/ On(e[i], ch[a], sz[a])
  BY <1>1, <1>9
<1>17. stale' = {} => \A x : On(x, ch[l], sz[l]) \/ On(x, ch[a], sz[a]) => On(x, e, k)
  OBVIOUS
<1>18. /\ \A j \in Plain \ {l} : (j \in stale') = (j \in stale)
       /\ stale \subseteq stale' /\ stale' \subseteq Plain
       /\ \A j \in Lists \ {l} : head'[j] = head[j] /\ tail'[j] = tail[j] /\ count'[j] = count[j]
  BY <1>2, <1>15 DEF Types, TypeOK
<1>19. \A x \in alive : ~On(x, ch[l], sz[l]) /\ ~On(x, ch[a], sz[a]) =>
         next'[x] = next[x] /\ prev'[x] = prev[x]
  <2>1. On(n, ch[l], sz[l]) /\ On(head[a], ch[a], sz[a])
    BY <1>1, <1>4 DEF On
  <2>2. QED
    BY <2>1 DEF Types, TypeOK
<1>20. Gives(ch, sz, l, a, e, k)
  BY <1>16, <1>17, <1>18, <1>19 DEF Gives
<1>21. k \in Nat
  BY <1>8
<1> HIDE DEF k
<1>22. QED
  BY <1>14, <1>15, <1>20, <1>21, GiveStep

(* Behind a node in the middle. *)
LEMMA SpliceStep ==
  ASSUME Types, NEW ch, NEW sz, Picture(ch, sz), Looping(ch, sz), UNCHANGED <<iter, fault, max>>,
         NEW l \in Plain \ lent, NEW a \in Plain \ lent, a # l, exists[l], exists[a],
         iter.list # l, iter.list # a, head[a] # NULL,
         NEW n, NEW q \in 1..sz[l] - 1, n = ch[l][q],
         next' = [next EXCEPT ![n] = head[a], ![tail[a]] = next[n]],
         prev' = [prev EXCEPT ![head[a]] = n, ![next[n]] = tail[a]],
         stale' = (IF a \in stale THEN stale \cup {l} ELSE stale),
         count' = [count EXCEPT ![l] = @ + count[a]],
         lent' = lent \cup {a}, UNCHANGED <<exists, head, tail, alive, data>>
  PROVE  ListStep(ch, sz)
<1>1. PICK c, m, b, m2, h, t, h2, t2 :
        /\ c = ch[l] /\ m = sz[l] /\ b = ch[a] /\ m2 = sz[a]
        /\ h = head[l] /\ t = Before(c, m) /\ h2 = head[a] /\ t2 = Before(b, m2)
  OBVIOUS
<1>2. /\ l \in Lists /\ l \notin Rings /\ m \in Nat
      /\ \A x \in 1..m : /\ c[x] \in Nodes /\ c[x] \in alive /\ c[x] # NULL
                         /\ next[c[x]] = Behind(c, m, x)
      /\ \A x, y \in 1..m : c[x] = c[y] => x = y
  BY <1>1, PlainFacts
<1>3. /\ a \in Lists /\ m2 \in Nat /\ h2 = Behind(b, m2, 0)
      /\ \A x \in 1..m2 : b[x] \in Nodes /\ b[x] \in alive /\ b[x] # NULL
      /\ \A x, y \in 1..m2 : b[x] = b[y] => x = y
  BY <1>1, PlainFacts
<1>4. PlainShape(l, c, m) /\ PlainShape(a, b, m2) /\ NULL \notin Nodes
  BY <1>1, <1>2, <1>3, NodesAssumption DEF Picture, Shape
<1>5. m2 # 0 /\ h2 = b[1] /\ 1 \in 1..m2 /\ m2 \in 1..m2
  BY <1>1, <1>3 DEF Behind
<1>6. /\ q \in Nat /\ q >= 1 /\ q < m /\ q \in 1..m /\ q + 1 \in 1..m /\ m # 0 /\ m \in 1..m
      /\ n = c[q] /\ next[n] = c[q + 1]
  BY <1>1, <1>2 DEF Behind
<1>7. PICK j \in 1..m2 : b[j] = tail[a]
  BY <1>4, <1>5 DEF PlainShape, On
<1>8. /\ Linked(Nodes, c, m, next, prev, h, t)
      /\ Linked(Nodes, b, m2, next, prev, h2, t2)
  BY <1>1, <1>4 DEF PlainShape
<1>9. \A x \in 1..m, y \in 1..m2 : c[x] # b[y]
  BY <1>1, <1>2, <1>3 DEF Picture, Apart
<1>j. j \in Nat /\ 1 <= j /\ j <= m2
  BY <1>3
<1> DEFINE e == [y \in 1..m + j |-> IF y <= q THEN c[y] ELSE IF y <= q + j THEN b[y - q] ELSE c[y - j]]
           k == m + j
<1>10. /\ \A y \in 1..m + j : e[y] = IF y <= q THEN c[y] ELSE IF y <= q + j THEN b[y - q] ELSE c[y - j]
       /\ k \in Nat /\ k # 0 /\ k \in 1..k
  BY <1>2, <1>j
<1>11. \A y \in 1..k : On(e[y], c, m) \/ On(e[y], b, m2)
  <2> SUFFICES ASSUME NEW y \in 1..k PROVE On(e[y], c, m) \/ On(e[y], b, m2)
    OBVIOUS
  <2>1. CASE y <= q
    <3>1. y \in 1..m /\ e[y] = c[y]
      BY <1>2, <1>6, <1>10, <2>1
    <3>2. QED
      BY <3>1 DEF On
  <2>2. CASE ~(y <= q) /\ y <= q + j
    <3>1. y - q \in 1..m2 /\ e[y] = b[y - q]
      BY <1>2, <1>3, <1>6, <1>j, <1>10, <2>2
    <3>2. QED
      BY <3>1 DEF On
  <2>3. CASE ~(y <= q) /\ ~(y <= q + j)
    <3>1. y - j \in 1..m /\ e[y] = c[y - j]
      BY <1>2, <1>3, <1>6, <1>j, <1>10, <2>3
    <3>2. QED
      BY <3>1 DEF On
  <2>4. QED
    BY <2>1, <2>2, <2>3
<1>12. \A x : On(x, c, m) => On(x, e, k)
  <2> SUFFICES ASSUME NEW y \in 1..m PROVE \E x \in 1..k : e[x] = c[y]
    BY DEF On
  <2>1. CASE y <= q
    <3>1. y \in 1..k /\ e[y] = c[y]
      BY <1>2, <1>j, <1>10, <2>1
    <3>2. QED
      BY <3>1
  <2>2. CASE ~(y <= q)
    <3>1. y + j \in 1..k /\ ~(y + j <= q) /\ ~(y + j <= q + j) /\ (y + j) - j = y
      BY <1>2, <1>6, <1>j, <2>2
    <3>2. e[y + j] = c[(y + j) - j]
      BY <1>10, <3>1
    <3>3. QED
      BY <3>1, <3>2
  <2>3. QED
    BY <2>1, <2>2
<1>13. j = m2 => \A x : On(x, b, m2) => On(x, e, k)
  <2> SUFFICES ASSUME j = m2, NEW y \in 1..m2 PROVE \E x \in 1..k : e[x] = b[y]
    BY DEF On
  <2>1. y + q \in 1..k /\ ~(y + q <= q) /\ y + q <= q + j /\ (y + q) - q = y
    BY <1>2, <1>6, <1>j
  <2>2. e[y + q] = b[(y + q) - q]
    BY <1>10, <2>1
  <2>3. QED
    BY <2>1, <2>2
<1>14. b[1] # c[q + 1] /\ c[q] # b[j] /\ b[1] \in Nodes /\ c[q] \in Nodes /\ c[q + 1] \in Nodes /\ b[j] \in Nodes
  BY <1>2, <1>3, <1>5, <1>6, <1>9
<1>15. /\ \A x \in Nodes : next'[x] = IF x = c[q] THEN b[1] ELSE IF x = b[j] THEN c[q + 1] ELSE next[x]
       /\ \A x \in Nodes : prev'[x] = IF x = b[1] THEN c[q] ELSE IF x = c[q + 1] THEN b[j] ELSE prev[x]
  <2>1. /\ next' = [next EXCEPT ![c[q]] = b[1], ![b[j]] = c[q + 1]]
        /\ prev' = [prev EXCEPT ![b[1]] = c[q], ![c[q + 1]] = b[j]]
    BY <1>1, <1>5, <1>6, <1>7
  <2>2. QED
    BY <1>14, <2>1 DEF Types, TypeOK
<1>16. Linked(Nodes, e, k, next', prev', h, t)
  <2> HIDE DEF e
  <2>1. \A x \in 1..m, y \in 1..j : c[x] # b[y]
    BY <1>3, <1>9, <1>j
  <2>2. ChainSpliced(Nodes, c, m, q, b, j, next, prev, next', prev', e)
    BY <1>10, <1>15, <2>1 DEF ChainSpliced
  <2>3. q \in 1..m - 1
    BY <1>1
  <2>4. QED
    BY <1>4, <1>8, <2>2, <2>3, SpliceLinked
<1> HIDE DEF e
<1>17. Before(e, k) = t
  BY <1>16 DEF Linked, Back, Before
<1>18. PICK cl, ca : /\ cl = count[l] /\ ca = count[a] /\ cl \in Nat /\ ca \in Nat /\ m <= cl /\ m2 <= ca
                     /\ count'[l] = cl + ca
  BY <1>2, <1>3, <1>4 DEF PlainShape, Types, TypeOK
<1>19. a \notin stale => j = m2 /\ ca = m2
  <2> SUFFICES ASSUME a \notin stale PROVE j = m2 /\ ca = m2
    OBVIOUS
  <2>1. tail[a] = b[m2] /\ ca = m2
    BY <1>4, <1>5, <1>18 DEF PlainShape, Before
  <2>2. QED
    BY <1>3, <1>5, <1>7, <2>1
<1>20. PlainShape(l, e, k)'
  <2>1. On(tail[l], e, k)
    BY <1>4, <1>6, <1>12 DEF PlainShape
  <2>2. k <= count'[l]
    BY <1>2, <1>3, <1>j, <1>18
  <2>3. exists'[l] /\ tail'[l] = tail[l] /\ head'[l] = h /\ k # 0
    BY <1>1, <1>10
  <2>4. l \notin stale' => tail[l] = t /\ count'[l] = k
    <3> SUFFICES ASSUME l \notin stale' PROVE tail[l] = t /\ count'[l] = k
      OBVIOUS
    <3>1. a \notin stale /\ l \notin stale
      OBVIOUS
    <3>2. tail[l] = t /\ cl = m
      BY <1>1, <1>4, <1>18, <3>1 DEF PlainShape
    <3>3. QED
      BY <1>18, <1>19, <3>1, <3>2
  <2> HIDE DEF k
  <2>5. QED
    BY <1>16, <1>17, <2>1, <2>2, <2>3, <2>4 DEF PlainShape
<1>21. Types'
  <2>1. count' \in [Lists -> Nat]
    <3>1. cl + ca \in Nat
      BY <1>18
    <3>2. QED
      BY <1>2, <1>18, <3>1 DEF Types, TypeOK
  <2>2. next' \in [Nodes -> Nodes \cup {NULL}] /\ prev' \in [Nodes -> Nodes \cup {NULL}]
    BY <1>1, <1>5, <1>6, <1>7, <1>14 DEF Types, TypeOK
  <2>3. lent' \subseteq Plain /\ stale' \subseteq Plain
    BY DEF Types, TypeOK
  <2>4. QED
    BY <2>1, <2>2, <2>3 DEF Types, TypeOK
<1>22. \A i \in 1..k : On(e[i], ch[l], sz[l]) \/ On(e[i], ch[a], sz[a])
  BY <1>1, <1>11
<1>23. stale' = {} => \A x : On(x, ch[l], sz[l]) \/ On(x, ch[a], sz[a]) => On(x, e, k)
  <2>1. stale' = {} => a \notin stale
    OBVIOUS
  <2>2. QED
    BY <1>1, <1>12, <1>13, <1>19, <2>1
<1>24. /\ \A x \in Plain \ {l} : (x \in stale') = (x \in stale)
       /\ stale \subseteq stale' /\ stale' \subseteq Plain
       /\ \A x \in Lists \ {l} : head'[x] = head[x] /\ tail'[x] = tail[x] /\ count'[x] = count[x]
  BY <1>2, <1>21 DEF Types, TypeOK
<1>25. \A x \in alive : ~On(x, ch[l], sz[l]) /\ ~On(x, ch[a], sz[a]) =>
         next'[x] = next[x] /\ prev'[x] = prev[x]
  <2>1. /\ On(c[q], ch[l], sz[l]) /\ On(c[q + 1], ch[l], sz[l])
        /\ On(b[1], ch[a], sz[a]) /\ On(b[j], ch[a], sz[a])
    BY <1>1, <1>5, <1>6 DEF On
  <2>2. alive \subseteq Nodes
    BY DEF Types, TypeOK
  <2> SUFFICES ASSUME NEW x \in alive, ~On(x, ch[l], sz[l]), ~On(x, ch[a], sz[a])
               PROVE  next'[x] = next[x] /\ prev'[x] = prev[x]
    OBVIOUS
  <2>3. x \in Nodes /\ x # c[q] /\ x # c[q + 1] /\ x # b[1] /\ x # b[j]
    BY <2>1, <2>2, Zenon
  <2>4. next'[x] = IF x = c[q] THEN b[1] ELSE IF x = b[j] THEN c[q + 1] ELSE next[x]
    BY <1>15, <2>3, Zenon
  <2>5. prev'[x] = IF x = b[1] THEN c[q] ELSE IF x = c[q + 1] THEN b[j] ELSE prev[x]
    BY <1>15, <2>3, Zenon
  <2>6. QED
    BY <2>3, <2>4, <2>5, Zenon
<1>26. Gives(ch, sz, l, a, e, k)
  BY <1>22, <1>23, <1>24, <1>25 DEF Gives
<1>27. k \in Nat
  BY <1>10
<1> HIDE DEF k
<1>28. QED
  BY <1>20, <1>21, <1>26, <1>27, GiveStep

(* addALL_with_index joins at the end or splices in the middle. *)
LEMMA AddAllWithIndexStep ==
  ASSUME Types, NEW ch, NEW sz, Picture(ch, sz), Looping(ch, sz), UNCHANGED max,
         NEW l \in Plain, NEW i \in Int, NEW a \in Plain, AddAllWithIndex(l, i, a)
  PROVE  ListStep(ch, sz)
<1>1. PICK n : n = NodeAt(l, i)
  OBVIOUS
<1>2. /\ l \in Plain \ lent /\ exists[l] /\ iter.list # l
      /\ a \in Plain \ lent /\ exists[a] /\ iter.list # a
      /\ \/ Keep /\ Returns("addALL", NULL)
         \/ Crash("addALL", NULL)
         \/ /\ Returns("addALL", NULL)
            /\ a # l /\ head[a] # NULL /\ n # NULL /\ Splice(l, n, a)
            /\ count' = [count EXCEPT ![l] = @ + count[a]]
            /\ lent' = lent \cup {a}
            /\ UNCHANGED <<exists, head, tail, alive, data>>
  BY <1>1, Zenon DEF AddAllWithIndex, Idle, Live
<1>3. CASE Keep /\ Returns("addALL", NULL)
  BY <1>3, KeepReturnsStep
<1>4. CASE Crash("addALL", NULL)
  BY <1>4, CrashStep
<1>5. CASE /\ Returns("addALL", NULL)
           /\ a # l /\ head[a] # NULL /\ n # NULL /\ Splice(l, n, a)
           /\ count' = [count EXCEPT ![l] = @ + count[a]]
           /\ lent' = lent \cup {a}
           /\ UNCHANGED <<exists, head, tail, alive, data>>
  <2>1. UNCHANGED <<iter, fault, max>>
    BY <1>5 DEF Returns
  <2>2. /\ sz[l] \in Nat
        /\ \A x \in 1..sz[l] : /\ ch[l][x] \in Nodes /\ ch[l][x] # NULL
                               /\ next[ch[l][x]] = Behind(ch[l], sz[l], x)
    BY <1>2, PlainFacts
  <2>3. PICK q \in 1..sz[l] : n = ch[l][q]
    <3>1. i + 1 \in 1..sz[l] /\ n = ch[l][i + 1]
      BY <1>1, <1>2, <1>5, NodeAtFacts
    <3>2. QED
      BY <3>1
  <2>4. CASE next[n] = NULL
    <3>1. q = sz[l] /\ sz[l] # 0
      <4>1. q # sz[l] => q + 1 \in 1..sz[l]
        BY <2>2
      <4>2. QED
        BY <2>2, <2>3, <2>4, <4>1 DEF Behind
    <3>2. n \in Nodes /\ n = Before(ch[l], sz[l])
      BY <2>2, <2>3, <3>1 DEF Before
    <3>3. /\ next' = [next EXCEPT ![n] = head[a]] /\ prev' = [prev EXCEPT ![head[a]] = n]
          /\ stale' = stale \cup {l}
      BY <1>5, <2>4 DEF Splice
    <3>4. QED
      BY <1>2, <1>5, <2>1, <3>1, <3>2, <3>3, JoinStep
  <2>5. CASE next[n] # NULL
    <3>1. q \in 1..sz[l] - 1
      BY <2>2, <2>3, <2>5 DEF Behind
    <3>2. /\ next' = [next EXCEPT ![n] = head[a], ![tail[a]] = next[n]]
          /\ prev' = [prev EXCEPT ![head[a]] = n, ![next[n]] = tail[a]]
          /\ stale' = (IF a \in stale THEN stale \cup {l} ELSE stale)
      BY <1>5, <2>5, Zenon DEF Splice
    <3>3. QED
      BY <1>2, <1>5, <2>1, <2>3, <3>1, <3>2, SpliceStep
  <2>6. QED
    BY <2>4, <2>5
<1>6. QED
  BY <1>2, <1>3, <1>4, <1>5

-------------------------------------------------------------------------------
(* The calls on queues. *)

(* What a call may make of the nodes c[1..m] of a queue: they are e[1..k]. *)
Serves(c, m, e, k) ==
  \/ e = c /\ k = m
  \/ /\ call' = "enqueue" /\ result' = 0
     /\ k = m + 1 /\ \A i \in 1..m : e[i] = c[i]
  \/ /\ call' = "dequeue" /\ m # 0 /\ result' = data[c[1]]
     /\ k = m - 1 /\ \A i \in 1..k : e[i] = c[i + 1]
  \/ call' = "destroy_queue" /\ k = 0

Served(ch, sz, d, z) == \A q \in Rings : Serves(ch[q], sz[q], d[q], z[q])

(* What any call has to make of the picture. *)
QueueStep(ch, sz) ==
  /\ Types'
  /\ \E d, z : Picture(d, z)' /\ Looping(d, z)' /\ Served(ch, sz, d, z)

(* A call on a list serves the queues by leaving them alone. *)
LEMMA ListStepServes == ASSUME NEW ch, NEW sz, ListStep(ch, sz) PROVE QueueStep(ch, sz)
BY DEF ListStep, QueueStep, RingsKept, Served, Serves

(* A call that changes the queue q alone. *)
LEMMA OneRingStep ==
  ASSUME Types', NEW ch, NEW sz, Picture(ch, sz), Looping(ch, sz),
         NEW q \in Rings, NEW e, NEW k \in Nat,
         RingShape(q, e, k)', \A i \in 1..k : e[i] \in alive',
         \A j \in Lists \ {q} :
           Untouched(j, ch[j], sz[j]) /\ \A i \in 1..sz[j] : \A r \in 1..k : e[r] # ch[j][i],
         stale' = {} => \A n \in alive' :
           On(n, e, k) \/ \E j \in Lists \ {q} : On(n, ch[j], sz[j]),
         iter' = iter, Serves(ch[q], sz[q], e, k)
  PROVE  QueueStep(ch, sz)
<1> DEFINE d == With(ch, q, e)
           z == With(sz, q, k)
<1>1. q \in Lists /\ q \notin Plain /\ q \notin lent' /\ Rings \subseteq Lists
  BY RingsAssumption DEF Plain, Types, TypeOK
<1>2. /\ d[q] = e /\ z[q] = k
      /\ \A j \in Lists \ {q} : d[j] = ch[j] /\ z[j] = sz[j]
  BY <1>1 DEF With
<1>3. Shape(q, e, k)'
  BY <1>1 DEF Shape
<1>4. Picture(d, z)'
  BY <1>1, <1>3, OneChanges
<1> HIDE DEF d, z
<1>5. Looping(d, z)'
  <2>1. iter.list # NULL => iter.list \in Lists \ {q} /\ iter.list \in Plain \ lent /\ exists[iter.list]
    BY <1>1 DEF Looping, Plain
  <2>2. ASSUME iter.list # NULL
        PROVE  /\ iter.list \in Plain \ lent' /\ exists'[iter.list]
               /\ iter.list \notin stale' => Pending(d[iter.list], z[iter.list], iter)
    <3> DEFINE j == iter.list
    <3>1. Untouched(j, ch[j], sz[j]) /\ d[j] = ch[j] /\ z[j] = sz[j]
      BY <1>2, <2>1, <2>2
    <3>2. exists'[j] = exists[j] /\ (j \in lent') = (j \in lent) /\ (j \in stale') = (j \in stale)
      BY <3>1 DEF Untouched
    <3>3. j \notin stale => Pending(ch[j], sz[j], iter)
      BY <2>2 DEF Looping
    <3>4. QED
      BY <2>1, <2>2, <3>1, <3>2, <3>3
  <2>3. /\ iter' = [list |-> iter'.list, position |-> iter'.position, due |-> iter'.due]
        /\ iter'.position \in Nodes \cup {NULL} /\ iter'.due \in Seq(Nodes)
        /\ iter'.list = NULL => iter' = NoIter
    BY DEF Looping
  <2>4. QED
    BY <2>2, <2>3 DEF Looping
<1>6. Served(ch, sz, d, z)
  <2> SUFFICES ASSUME NEW r \in Rings PROVE Serves(ch[r], sz[r], d[r], z[r])
    BY DEF Served
  <2>1. CASE r = q
    BY <1>2, <2>1
  <2>2. CASE r # q
    BY <1>1, <1>2, <2>2 DEF Serves
  <2>3. QED
    BY <2>1, <2>2
<1>7. QED
  BY <1>4, <1>5, <1>6 DEF QueueStep

(* A queue with the nodes c[1..m], pointer by pointer. *)
Around(q, c, m) ==
  /\ q \in Lists /\ q \notin Plain /\ m \in Nat /\ RingShape(q, c, m)
  /\ \A i \in 1..m : c[i] \in Nodes /\ c[i] \in alive /\ c[i] # NULL
  /\ \A i, j \in 1..m : c[i] = c[j] => i = j
  /\ head[q] = (IF m = 0 THEN NULL ELSE c[1]) /\ tail[q] = (IF m = 0 THEN NULL ELSE c[m])
  /\ \A i \in 1..m : next[c[i]] = IF i = m THEN c[1] ELSE c[i + 1]
  /\ \A i \in 1..m : prev[c[i]] = IF i = 1 THEN c[m] ELSE c[i - 1]

(* What the picture says of a queue. *)
LEMMA RingFacts ==
  ASSUME Types, NEW ch, NEW sz, Picture(ch, sz), NEW q \in Rings,
         NEW c, c = ch[q], NEW m, m = sz[q]
  PROVE  Around(q, c, m)
<1>1. q \in Lists /\ q \notin Plain /\ NULL \notin Nodes
  BY RingsAssumption, NodesAssumption DEF Plain
<1>2. m \in Nat /\ RingShape(q, c, m) /\ \A i \in 1..m : c[i] \in alive
  BY <1>1 DEF Picture, Shape
<1>3. Ringed(Nodes, c, m, next, prev, head[q], tail[q])
  BY <1>2 DEF RingShape
<1> DEFINE h == head[q]
           t == tail[q]
<1>4. Ringed(Nodes, c, m, next, prev, h, t)
  BY <1>3
<1> HIDE DEF h, t
<1>5. /\ m \in Nat /\ \A i \in 1..m : c[i] \in Nodes /\ c[i] # NULL
      /\ \A i, j \in 1..m : c[i] = c[j] => i = j
      /\ h = (IF m = 0 THEN NULL ELSE c[1]) /\ t = (IF m = 0 THEN NULL ELSE c[m])
      /\ \A i \in 1..m : next[c[i]] = IF i = m THEN c[1] ELSE c[i + 1]
      /\ \A i \in 1..m : prev[c[i]] = IF i = 1 THEN c[m] ELSE c[i - 1]
  BY <1>1, <1>4, RingIs
<1>6. QED
  BY <1>1, <1>2, <1>5 DEF h, t, Around

(* A walk along the next pointers nx of a ring, once around. *)
LEMMA OnceAround ==
  ASSUME NEW c, NEW m, NEW nx, NEW pv, NEW h, NEW t, Ringed(Nodes, c, m, nx, pv, h, t)
  PROVE  SubSeq(Walk(nx, h, Cardinality(Nodes)), 1, m) = [i \in 1..m |-> c[i]]
<1>1. NULL \notin Nodes /\ IsFiniteSet(Nodes)
  BY NodesAssumption
<1> DEFINE n == Cardinality(Nodes)
<1>2. m <= n /\ n \in Nat
  <2> DEFINE nx0 == Open(Nodes, nx, t)
  <2>1. Run(Nodes, c, m, nx0, h)
    BY DEF Ringed, Linked
  <2> HIDE DEF nx0
  <2>2. QED
    BY <1>1, <2>1, RunBounded
<1> HIDE DEF n
<1>3. Shows(SubSeq(Walk(nx, h, n), 1, m), c, m)
  BY <1>1, <1>2, WalkOfRing
<1>4. QED
  BY <1>3 DEF Shows, n

(* Circle gives the nodes of a queue in their order. *)
LEMMA CircleFacts ==
  ASSUME Types, NEW ch, NEW sz, Picture(ch, sz), NEW q \in Rings
  PROVE  Circle(q) = [i \in 1..sz[q] |-> ch[q][i]]
<1>1. PICK c, m, h, t : c = ch[q] /\ m = sz[q] /\ h = head[q] /\ t = tail[q]
  OBVIOUS
<1>2. RingShape(q, c, m)
  BY <1>1, RingFacts DEF Around
<1>3. Ringed(Nodes, c, m, next, prev, h, t) /\ m = count[q]
  BY <1>1, <1>2 DEF RingShape
<1>4. SubSeq(Walk(next, h, Cardinality(Nodes)), 1, m) = [i \in 1..m |-> c[i]]
  BY <1>3, OnceAround
<1>5. QED
  BY <1>1, <1>3, <1>4 DEF Circle, Chain

(* A new queue, without nodes. *)
LEMMA NewQueueStep ==
  ASSUME Types, NEW ch, NEW sz, Picture(ch, sz), Looping(ch, sz),
         NEW q \in Rings, NEW m \in Maxima, NewQueue(q, m)
  PROVE  QueueStep(ch, sz)
<1>1. /\ ~exists[q] /\ UNCHANGED <<head, tail, count, alive, next, prev, data, lent, stale, iter, fault>>
      /\ \/ exists' = [exists EXCEPT ![q] = TRUE] /\ max' = [max EXCEPT ![q] = m]
         \/ UNCHANGED <<exists, max>>
  BY DEF NewQueue, Returns, heap, notes
<1>2. CASE UNCHANGED <<exists, max>>
  <2>1. UNCHANGED <<headers, heap, notes, iter, max>> /\ fault' \in BOOLEAN
    BY <1>1, <1>2 DEF headers, heap, notes, Types, TypeOK
  <2>2. QED
    BY <2>1, KeepStep, ListStepServes
<1>3. CASE exists' = [exists EXCEPT ![q] = TRUE] /\ max' = [max EXCEPT ![q] = m]
  <2>1. PICK e, k : e = ch[q] /\ k = sz[q]
    OBVIOUS
  <2>2. q \in Lists /\ RingShape(q, e, k) /\ k \in Nat
    BY <2>1, RingFacts DEF Around
  <2>3. k = 0 /\ m \in Nat
    BY <1>1, <2>2, MaximaAssumption DEF RingShape
  <2>4. Types'
    BY <1>1, <1>3, <2>2, <2>3 DEF Types, TypeOK
  <2>5. max'[q] = m
    BY <1>3 DEF Types
  <2>6. RingShape(q, e, k)'
    BY <1>1, <1>3, <2>2, <2>3, <2>5 DEF RingShape, Types, TypeOK
  <2>7. \A j \in Lists \ {q} :
          Untouched(j, ch[j], sz[j]) /\ \A i \in 1..sz[j] : \A r \in 1..k : e[r] # ch[j][i]
    BY <1>1, <1>3, <2>2, <2>3 DEF Untouched, Picture, Types, TypeOK
  <2>8. stale' = {} => \A n \in alive' : On(n, e, k) \/ \E j \in Lists \ {q} : On(n, ch[j], sz[j])
    BY <1>1, <2>1, <2>3 DEF Picture, Owned, On
  <2>9. Serves(ch[q], sz[q], e, k) /\ \A i \in 1..k : e[i] \in alive'
    BY <2>1, <2>3 DEF Serves
  <2>10. QED
    BY <1>1, <2>2, <2>4, <2>6, <2>7, <2>8, <2>9, OneRingStep
<1>4. QED
  BY <1>1, <1>2, <1>3

(* Stores to the header and the nodes of a queue and to free nodes: e are  *)
(* its own nodes and new ones.                                             *)
Within(ch, sz, q, e, k) ==
  /\ \A j \in Lists \ {q} :
       /\ exists'[j] = exists[j] /\ head'[j] = head[j] /\ tail'[j] = tail[j] /\ count'[j] = count[j]
       /\ j \in Rings => max'[j] = max[j]
  /\ lent' = lent /\ stale' = stale
  /\ \A x \in alive : ~On(x, ch[q], sz[q]) => next'[x] = next[x] /\ prev'[x] = prev[x] /\ x \in alive'
  /\ \A r \in 1..k : On(e[r], ch[q], sz[q]) \/ e[r] \notin alive

(* They leave the rest alone. *)
LEMMA RingAlone ==
  ASSUME NEW ch, NEW sz, Picture(ch, sz), NEW q \in Lists, NEW e, NEW k, Within(ch, sz, q, e, k)
  PROVE  \A j \in Lists \ {q} :
           Untouched(j, ch[j], sz[j]) /\ \A i \in 1..sz[j] : \A r \in 1..k : e[r] # ch[j][i]
<1>1. \A j \in Lists \ {q} : Untouched(j, ch[j], sz[j])
  BY OthersUntouched DEF Within
<1>2. ASSUME NEW j \in Lists \ {q}, NEW i \in 1..sz[j], NEW r \in 1..k
      PROVE  e[r] # ch[j][i]
  <2>1. ch[j][i] \in alive /\ ~On(ch[j][i], ch[q], sz[q])
    BY DEF Picture, Apart, On
  <2>2. QED
    BY <2>1 DEF Within
<1>3. QED
  BY <1>1, <1>2

(* enqueue puts a node between the tail and the head of the circle. *)
LEMMA EnqueueStep ==
  ASSUME Types, NEW ch, NEW sz, Picture(ch, sz), Looping(ch, sz),
         NEW q \in Rings, NEW v \in Elem, Enqueue(q, v)
  PROVE  QueueStep(ch, sz)
<1>1. /\ exists[q] /\ max' = max
      /\ \/ \E r : Keep /\ Returns("enqueue", r)
         \/ Crash("enqueue", 0)
         \/ /\ count[q] # max[q]
            /\ \E n \in Nodes \ alive :
                 /\ alive' = alive \cup {n}
                 /\ data' = [data EXCEPT ![n] = v]
                 /\ Tie(q, n)
                 /\ head' = [head EXCEPT ![q] = IF @ = NULL THEN n ELSE @]
                 /\ tail' = [tail EXCEPT ![q] = n]
                 /\ count' = [count EXCEPT ![q] = @ + 1]
                 /\ UNCHANGED <<exists, notes>>
                 /\ Returns("enqueue", 0)
  BY Zenon DEF Enqueue, InUse
<1>2. CASE \E r : Keep /\ Returns("enqueue", r)
  BY <1>1, <1>2, KeepReturnsStep, ListStepServes
<1>3. CASE Crash("enqueue", 0)
  BY <1>1, <1>3, CrashStep, ListStepServes
<1>4. ASSUME count[q] # max[q], NEW n \in Nodes \ alive,
             alive' = alive \cup {n}, data' = [data EXCEPT ![n] = v], Tie(q, n),
             head' = [head EXCEPT ![q] = IF @ = NULL THEN n ELSE @],
             tail' = [tail EXCEPT ![q] = n], count' = [count EXCEPT ![q] = @ + 1],
             UNCHANGED <<exists, notes>>, Returns("enqueue", 0)
      PROVE  QueueStep(ch, sz)
  <2>1. PICK c, m, h, t, first, last :
          /\ c = ch[q] /\ m = sz[q] /\ h = head[q] /\ t = tail[q]
          /\ first = (IF h = NULL THEN n ELSE h) /\ last = (IF h = NULL THEN n ELSE t)
    OBVIOUS
  <2>2. /\ q \in Lists /\ m \in Nat /\ RingShape(q, c, m)
        /\ \A i \in 1..m : c[i] \in Nodes /\ c[i] \in alive /\ c[i] # NULL
        /\ h = (IF m = 0 THEN NULL ELSE c[1]) /\ t = (IF m = 0 THEN NULL ELSE c[m])
    BY <2>1, RingFacts DEF Around
  <2>3. NULL \notin Nodes /\ n # NULL /\ \A i \in 1..m : c[i] # n
    BY <1>4, <2>2, NodesAssumption
  <2>4. /\ next' = [x \in Nodes |-> IF x = n THEN first ELSE IF x = last THEN n ELSE next[x]]
        /\ prev' = [x \in Nodes |-> IF x = n THEN last ELSE IF x = first THEN n ELSE prev[x]]
    BY <1>4, <2>1, Zenon DEF Tie
  <2>5. first \in Nodes /\ last \in Nodes
    <3>1. m # 0 => 1 \in 1..m /\ m \in 1..m
      BY <2>2
    <3>2. QED
      BY <1>4, <2>1, <2>2, <3>1
  <2>6. PICK e : e = [i \in 1..m + 1 |-> IF i <= m THEN c[i] ELSE n]
    OBVIOUS
  <2>7. \A i \in 1..m + 1 : e[i] = IF i <= m THEN c[i] ELSE n
    BY <2>6
  <2>8. Ringed(Nodes, e, m + 1, next', prev', first, n)
    <3>1. Ringed(Nodes, c, m, next, prev, h, t)
      BY <2>1, <2>2 DEF RingShape
    <3>2. /\ \A x \in Nodes : next'[x] = IF x = n THEN first ELSE IF x = last THEN n ELSE next[x]
          /\ \A x \in Nodes : prev'[x] = IF x = n THEN last ELSE IF x = first THEN n ELSE prev[x]
      BY <2>4
    <3>3. QED
      BY <1>4, <2>1, <2>3, <2>7, <3>1, <3>2, RingPut
  <2>9. head'[q] = first /\ tail'[q] = n /\ count'[q] = count[q] + 1
    BY <1>4, <2>1, <2>2 DEF Types, TypeOK
  <2>10. Types'
    <3>1. next' \in [Nodes -> Nodes \cup {NULL}] /\ prev' \in [Nodes -> Nodes \cup {NULL}]
      BY <2>4, <2>5 DEF Types, TypeOK
    <3>2. head' \in [Lists -> Nodes \cup {NULL}] /\ tail' \in [Lists -> Nodes \cup {NULL}]
      BY <1>4 DEF Types, TypeOK
    <3>3. count' \in [Lists -> Nat]
      <4>1. count[q] + 1 \in Nat
        BY <2>2 DEF Types, TypeOK
      <4>2. QED
        BY <1>4, <4>1 DEF Types, TypeOK
    <3>4. data' \in [Nodes -> Elem] /\ alive' \subseteq Nodes
      BY <1>4 DEF Types, TypeOK
    <3>5. exists' = exists /\ lent' = lent /\ stale' = stale /\ fault' = fault /\ max' = max
      BY <1>1, <1>4 DEF notes, Returns
    <3>6. QED
      BY <3>1, <3>2, <3>3, <3>4, <3>5 DEF Types, TypeOK
  <2>11. RingShape(q, e, m + 1)'
    <3>1. PICK x, y : x = count[q] /\ y = max[q]
      OBVIOUS
    <3>2. x \in Nat /\ y \in Nat /\ m = x /\ x <= y /\ x # y
      BY <1>4, <2>2, <3>1 DEF RingShape, Types, TypeOK
    <3>3. m + 1 = count'[q] /\ m + 1 <= max'[q]
      BY <1>1, <2>9, <3>1, <3>2
    <3>4. exists'[q] /\ Ringed(Nodes, e, m + 1, next', prev', head'[q], tail'[q])
      BY <1>1, <1>4, <2>8, <2>9
    <3>5. QED
      BY <3>3, <3>4 DEF RingShape
  <2>12. \A i \in 1..m + 1 : e[i] \in alive' /\ (On(e[i], c, m) \/ e[i] \notin alive)
    BY <1>4, <2>2, <2>7 DEF On
  <2>13. \A j \in Lists \ {q} :
           Untouched(j, ch[j], sz[j]) /\ \A i \in 1..sz[j] : \A r \in 1..m + 1 : e[r] # ch[j][i]
    <3>1. \A j \in Lists \ {q} :
            /\ exists'[j] = exists[j] /\ head'[j] = head[j] /\ tail'[j] = tail[j] /\ count'[j] = count[j]
            /\ j \in Rings => max'[j] = max[j]
      BY <1>1, <1>4 DEF Types, TypeOK
    <3>2. lent' = lent /\ stale' = stale
      BY <1>4 DEF notes
    <3>3. \A x \in alive : ~On(x, ch[q], sz[q]) => next'[x] = next[x] /\ prev'[x] = prev[x] /\ x \in alive'
      <4> SUFFICES ASSUME NEW x \in alive, ~On(x, c, m)
                   PROVE  next'[x] = next[x] /\ prev'[x] = prev[x] /\ x \in alive'
        BY <2>1
      <4>1. x # n /\ x \in Nodes
        BY <1>4 DEF Types, TypeOK
      <4>2. x # first /\ x # last
        <5>1. CASE m = 0
          BY <2>1, <2>2, <4>1, <5>1
        <5>2. CASE m # 0
          <6>1. 1 \in 1..m /\ m \in 1..m
            BY <2>2, <5>2
          <6>2. On(c[1], c, m) /\ On(c[m], c, m)
            BY <6>1 DEF On
          <6>3. QED
            BY <2>1, <2>2, <4>1, <5>2, <6>1, <6>2
        <5>3. QED
          BY <5>1, <5>2
      <4>3. QED
        BY <1>4, <2>4, <4>1, <4>2
    <3>4. \A r \in 1..m + 1 : On(e[r], ch[q], sz[q]) \/ e[r] \notin alive
      BY <2>1, <2>12
    <3>5. Within(ch, sz, q, e, m + 1)
      BY <3>1, <3>2, <3>3, <3>4 DEF Within
    <3>6. QED
      BY <2>2, <3>5, RingAlone
  <2>14. stale' = {} => \A x \in alive' : On(x, e, m + 1) \/ \E j \in Lists \ {q} : On(x, ch[j], sz[j])
    <3> SUFFICES ASSUME stale' = {}, NEW x \in alive'
                 PROVE  On(x, e, m + 1) \/ \E j \in Lists \ {q} : On(x, ch[j], sz[j])
      OBVIOUS
    <3>1. CASE x = n
      <4>1. m + 1 \in 1..m + 1 /\ ~(m + 1 <= m)
        BY <2>2
      <4>2. e[m + 1] = n
        BY <2>7, <4>1
      <4>3. QED
        BY <3>1, <4>1, <4>2 DEF On
    <3>2. CASE x # n
      <4>1. x \in alive /\ stale = {}
        BY <1>4, <3>2 DEF notes
      <4>2. PICK j \in Lists : On(x, ch[j], sz[j])
        BY <4>1 DEF Picture, Owned
      <4>3. CASE j = q
        <5>1. PICK i \in 1..m : c[i] = x
          BY <2>1, <4>2, <4>3 DEF On
        <5>2. i \in 1..m + 1 /\ e[i] = c[i]
          BY <2>2, <2>7
        <5>3. QED
          BY <5>1, <5>2 DEF On
      <4>4. QED
        BY <4>2, <4>3
    <3>3. QED
      BY <3>1, <3>2
  <2>15. Serves(ch[q], sz[q], e, m + 1)
    <3>1. call' = "enqueue" /\ result' = 0
      BY <1>4 DEF Returns
    <3>2. \A i \in 1..m : e[i] = c[i]
      BY <2>2, <2>7
    <3>3. QED
      BY <2>1, <3>1, <3>2 DEF Serves
  <2>16. iter' = iter /\ m + 1 \in Nat
    BY <1>4, <2>2 DEF Returns
  <2>17. PICK k : k = m + 1
    OBVIOUS
  <2>18. \A i \in 1..k : e[i] \in alive'
    BY <2>12, <2>17
  <2>19. RingShape(q, e, k)' /\ Serves(ch[q], sz[q], e, k) /\ k \in Nat
    BY <2>11, <2>15, <2>16, <2>17
  <2>20. QED
    BY <2>10, <2>13, <2>14, <2>16, <2>17, <2>18, <2>19, OneRingStep
<1>5. QED
  BY <1>1, <1>2, <1>3, <1>4

(* dequeue takes the head out and closes the circle over it. *)
LEMMA DequeueStep ==
  ASSUME Types, NEW ch, NEW sz, Picture(ch, sz), Looping(ch, sz),
         NEW q \in Rings, Dequeue(q)
  PROVE  QueueStep(ch, sz)
<1>1. PICK n : n = head[q]
  OBVIOUS
<1>2. /\ exists[q] /\ max' = max
      /\ \/ \E owed : Crash("dequeue", owed)
         \/ /\ n # tail[q]
            /\ next' = [x \in Nodes |-> IF x = n THEN NULL
                                        ELSE IF x = tail[q] THEN next[n] ELSE next[x]]
            /\ prev' = [x \in Nodes |-> IF x = n THEN NULL
                                        ELSE IF x = next[n] THEN tail[q] ELSE prev[x]]
            /\ data' = [data EXCEPT ![n] = NULL]
            /\ alive' = alive \ {n}
            /\ head' = [head EXCEPT ![q] = next[n]]
            /\ count' = [count EXCEPT ![q] = @ - 1]
            /\ UNCHANGED <<exists, tail, notes>>
            /\ Returns("dequeue", data[n])
  BY <1>1, Zenon DEF Dequeue, InUse
<1>3. CASE \E owed : Crash("dequeue", owed)
  BY <1>2, <1>3, CrashStep, ListStepServes
<1>4. CASE /\ n # tail[q]
           /\ next' = [x \in Nodes |-> IF x = n THEN NULL
                                       ELSE IF x = tail[q] THEN next[n] ELSE next[x]]
           /\ prev' = [x \in Nodes |-> IF x = n THEN NULL
                                       ELSE IF x = next[n] THEN tail[q] ELSE prev[x]]
           /\ data' = [data EXCEPT ![n] = NULL]
           /\ alive' = alive \ {n}
           /\ head' = [head EXCEPT ![q] = next[n]]
           /\ count' = [count EXCEPT ![q] = @ - 1]
           /\ UNCHANGED <<exists, tail, notes>>
           /\ Returns("dequeue", data[n])
  <2>1. PICK c, m, t : c = ch[q] /\ m = sz[q] /\ t = tail[q]
    OBVIOUS
  <2>2. /\ q \in Lists /\ m \in Nat /\ RingShape(q, c, m)
        /\ \A i \in 1..m : c[i] \in Nodes /\ c[i] \in alive /\ c[i] # NULL
        /\ \A i, j \in 1..m : c[i] = c[j] => i = j
        /\ n = (IF m = 0 THEN NULL ELSE c[1]) /\ t = (IF m = 0 THEN NULL ELSE c[m])
        /\ \A i \in 1..m : next[c[i]] = IF i = m THEN c[1] ELSE c[i + 1]
    BY <1>1, <2>1, RingFacts DEF Around
  <2>3. m >= 2 /\ 1 \in 1..m /\ 2 \in 1..m /\ m \in 1..m
    BY <1>4, <2>1, <2>2
  <2>4. /\ n = c[1] /\ t = c[m] /\ next[n] = c[2] /\ n \in Nodes /\ t \in Nodes /\ c[2] \in Nodes
        /\ NULL \notin Nodes /\ exists' = exists /\ tail' = tail /\ lent' = lent /\ stale' = stale
        /\ iter' = iter /\ fault' = fault
    BY <1>4, <2>2, <2>3, NodesAssumption DEF notes, Returns
  <2>5. PICK e, k : k = m - 1 /\ e = [i \in 1..m - 1 |-> c[i + 1]]
    OBVIOUS
  <2>6. k \in Nat /\ \A i \in 1..k : i + 1 \in 1..m /\ i + 1 # 1 /\ e[i] = c[i + 1]
    BY <2>2, <2>3, <2>5
  <2>7. Ringed(Nodes, e, k, next', prev', c[2], t)
    <3>1. Ringed(Nodes, c, m, next, prev, n, t)
      BY <1>1, <2>1, <2>2 DEF RingShape
    <3>2. /\ \A x \in Nodes : next'[x] = IF x = n THEN NULL ELSE IF x = t THEN next[n] ELSE next[x]
          /\ \A x \in Nodes : prev'[x] = IF x = n THEN NULL ELSE IF x = next[n] THEN t ELSE prev[x]
      BY <1>4, <2>1
    <3>3. \A i \in 1..m - 1 : e[i] = c[i + 1]
      BY <2>5
    <3>4. Ringed(Nodes, e, m - 1, next', prev', next[n], t)
      BY <2>3, <2>4, <3>1, <3>2, <3>3, RingTake
    <3>5. QED
      BY <2>4, <2>5, <3>4
  <2>8. PICK y : y = count[q] /\ y = m /\ m <= max[q] /\ max[q] \in Nat
    BY <2>2 DEF RingShape, Types
  <2>9. head'[q] = c[2] /\ count'[q] = k
    BY <1>4, <2>2, <2>4, <2>5, <2>8 DEF Types, TypeOK
  <2>10. Types'
    <3>1. next' \in [Nodes -> Nodes \cup {NULL}] /\ prev' \in [Nodes -> Nodes \cup {NULL}]
      BY <1>4, <2>1, <2>4 DEF Types, TypeOK
    <3>2. head' \in [Lists -> Nodes \cup {NULL}]
      BY <1>4, <2>4 DEF Types, TypeOK
    <3>3. count' \in [Lists -> Nat]
      <4>1. count[q] - 1 \in Nat
        BY <2>5, <2>6, <2>8
      <4>2. QED
        BY <1>4, <4>1 DEF Types, TypeOK
    <3>4. data' \in [Nodes -> Elem] /\ alive' \subseteq Nodes
      BY <1>4 DEF Types, TypeOK, Elem
    <3>5. QED
      BY <1>2, <2>4, <3>1, <3>2, <3>3, <3>4 DEF Types, TypeOK
  <2>11. RingShape(q, e, k)'
    <3>1. k <= max'[q]
      BY <1>2, <2>2, <2>5, <2>8
    <3>2. exists'[q] /\ Ringed(Nodes, e, k, next', prev', head'[q], tail'[q])
      BY <1>2, <2>1, <2>4, <2>7, <2>9
    <3>3. QED
      BY <2>9, <3>1, <3>2 DEF RingShape
  <2>12. \A i \in 1..k : e[i] \in alive' /\ On(e[i], c, m)
    <3> SUFFICES ASSUME NEW i \in 1..k PROVE e[i] \in alive' /\ On(e[i], c, m)
      OBVIOUS
    <3>1. i + 1 \in 1..m /\ i + 1 # 1 /\ e[i] = c[i + 1]
      BY <2>6
    <3>2. c[i + 1] # c[1] /\ c[i + 1] \in alive
      BY <2>2, <2>3, <3>1
    <3>3. QED
      BY <1>4, <2>4, <3>1, <3>2 DEF On
  <2>13. \A j \in Lists \ {q} :
           Untouched(j, ch[j], sz[j]) /\ \A i \in 1..sz[j] : \A r \in 1..k : e[r] # ch[j][i]
    <3>1. \A j \in Lists \ {q} :
            /\ exists'[j] = exists[j] /\ head'[j] = head[j] /\ tail'[j] = tail[j] /\ count'[j] = count[j]
            /\ j \in Rings => max'[j] = max[j]
      BY <1>2, <1>4, <2>4 DEF Types, TypeOK
    <3>2. \A x \in alive : ~On(x, ch[q], sz[q]) => next'[x] = next[x] /\ prev'[x] = prev[x] /\ x \in alive'
      <4>1. On(c[1], c, m) /\ On(c[2], c, m) /\ On(c[m], c, m)
        BY <2>3 DEF On
      <4>2. alive \subseteq Nodes
        BY DEF Types, TypeOK
      <4>3. QED
        BY <1>4, <2>1, <2>4, <4>1, <4>2
    <3>3. \A r \in 1..k : On(e[r], ch[q], sz[q]) \/ e[r] \notin alive
      BY <2>1, <2>12
    <3>4. lent' = lent /\ stale' = stale
      BY <2>4
    <3>5. Within(ch, sz, q, e, k)
      BY <3>1, <3>2, <3>3, <3>4 DEF Within
    <3>6. QED
      BY <2>2, <3>5, RingAlone
  <2>14. stale' = {} => \A x \in alive' : On(x, e, k) \/ \E j \in Lists \ {q} : On(x, ch[j], sz[j])
    <3> SUFFICES ASSUME stale' = {}, NEW x \in alive'
                 PROVE  On(x, e, k) \/ \E j \in Lists \ {q} : On(x, ch[j], sz[j])
      OBVIOUS
    <3>1. x \in alive /\ x # c[1]
      BY <1>4, <2>4
    <3>2. PICK j \in Lists : On(x, ch[j], sz[j])
      BY <2>4, <3>1 DEF Picture, Owned
    <3>3. CASE j = q
      <4>1. PICK i \in 1..m : c[i] = x
        BY <2>1, <3>2, <3>3 DEF On
      <4>2. i - 1 \in 1..k /\ (i - 1) + 1 = i
        BY <2>2, <2>5, <3>1, <4>1
      <4>3. e[i - 1] = c[(i - 1) + 1]
        BY <2>6, <4>2
      <4>4. QED
        BY <4>1, <4>2, <4>3 DEF On
    <3>4. QED
      BY <3>2, <3>3
  <2>15. Serves(ch[q], sz[q], e, k)
    <3>1. call' = "dequeue" /\ m # 0 /\ result' = data[c[1]]
      BY <1>4, <2>3, <2>4 DEF Returns
    <3>2. QED
      BY <2>1, <2>5, <2>6, <3>1 DEF Serves
  <2>16. QED
    BY <2>4, <2>6, <2>10, <2>11, <2>12, <2>13, <2>14, <2>15, OneRingStep
<1>5. QED
  BY <1>2, <1>3, <1>4

(* destroy frees the circle once around. *)
LEMMA DestroyQueueStep ==
  ASSUME Types, NEW ch, NEW sz, Picture(ch, sz), Looping(ch, sz),
         NEW q \in Rings, DestroyQueue(q)
  PROVE  QueueStep(ch, sz)
<1>1. PICK gone : gone = ToSet(Circle(q))
  OBVIOUS
<1>2. \/ UNCHANGED max /\ Keep /\ Returns("destroy_queue", NULL)
      \/ UNCHANGED max /\ Crash("destroy_queue", NULL)
      \/ /\ alive' = alive \ gone
         /\ next' = [n \in Nodes |-> IF n \in gone THEN NULL ELSE next[n]]
         /\ prev' = [n \in Nodes |-> IF n \in gone THEN NULL ELSE prev[n]]
         /\ data' = [n \in Nodes |-> IF n \in gone THEN NULL ELSE data[n]]
         /\ exists' = [exists EXCEPT ![q] = FALSE]
         /\ head' = [head EXCEPT ![q] = NULL]
         /\ tail' = [tail EXCEPT ![q] = NULL]
         /\ count' = [count EXCEPT ![q] = 0]
         /\ max' = [max EXCEPT ![q] = 0]
         /\ UNCHANGED notes
         /\ Returns("destroy_queue", NULL)
  BY <1>1, Zenon DEF DestroyQueue
<1>3. CASE UNCHANGED max /\ Keep /\ Returns("destroy_queue", NULL)
  BY <1>3, KeepReturnsStep, ListStepServes
<1>4. CASE UNCHANGED max /\ Crash("destroy_queue", NULL)
  BY <1>4, CrashStep, ListStepServes
<1>5. CASE /\ alive' = alive \ gone
           /\ next' = [n \in Nodes |-> IF n \in gone THEN NULL ELSE next[n]]
           /\ prev' = [n \in Nodes |-> IF n \in gone THEN NULL ELSE prev[n]]
           /\ data' = [n \in Nodes |-> IF n \in gone THEN NULL ELSE data[n]]
           /\ exists' = [exists EXCEPT ![q] = FALSE]
           /\ head' = [head EXCEPT ![q] = NULL]
           /\ tail' = [tail EXCEPT ![q] = NULL]
           /\ count' = [count EXCEPT ![q] = 0]
           /\ max' = [max EXCEPT ![q] = 0]
           /\ UNCHANGED notes
           /\ Returns("destroy_queue", NULL)
  <2>1. q \in Lists /\ sz[q] \in Nat
    BY RingFacts DEF Around
  <2>2. gone = {ch[q][i] : i \in 1..sz[q]}
    <3>1. PICK w : w = Circle(q)
      OBVIOUS
    <3>2. w = [i \in 1..sz[q] |-> ch[q][i]]
      BY <3>1, CircleFacts
    <3>3. DOMAIN w = 1..sz[q] /\ \A i \in 1..sz[q] : w[i] = ch[q][i]
      BY <3>2
    <3>4. QED
      BY <1>1, <3>1, <3>3 DEF ToSet
  <2>3. \A x : x \in gone <=> On(x, ch[q], sz[q])
    BY <2>2 DEF On
  <2>4. UNCHANGED <<lent, stale, iter, fault>>
    BY <1>5 DEF notes, Returns
  <2>5. Types'
    BY <1>5, <2>1, <2>4 DEF Types, TypeOK, Elem
  <2>6. PICK e, k : e = ch[q] /\ k = 0
    OBVIOUS
  <2>7. RingShape(q, e, k)'
    <3>1. head'[q] = NULL /\ tail'[q] = NULL /\ count'[q] = 0 /\ max'[q] = 0
      BY <1>5, <2>1 DEF Types, TypeOK
    <3>2. Ringed(Nodes, e, 0, next', prev', NULL, NULL)
      BY DEF Ringed, Linked, Run, Back
    <3>3. QED
      BY <2>6, <3>1, <3>2 DEF RingShape
  <2>8. \A j \in Lists \ {q} :
          Untouched(j, ch[j], sz[j]) /\ \A i \in 1..sz[j] : \A r \in 1..k : e[r] # ch[j][i]
    <3>1. \A j \in Lists \ {q} :
            /\ exists'[j] = exists[j] /\ head'[j] = head[j] /\ tail'[j] = tail[j] /\ count'[j] = count[j]
            /\ j \in Rings => max'[j] = max[j]
      BY <1>5 DEF Types, TypeOK
    <3>2. \A x \in alive : ~On(x, ch[q], sz[q]) => next'[x] = next[x] /\ prev'[x] = prev[x] /\ x \in alive'
      BY <1>5, <2>3 DEF Types, TypeOK
    <3>3. \A r \in 1..k : On(e[r], ch[q], sz[q]) \/ e[r] \notin alive
      BY <2>6
    <3>4. Within(ch, sz, q, e, k)
      BY <2>4, <3>1, <3>2, <3>3 DEF Within
    <3>5. QED
      BY <2>1, <3>4, RingAlone
  <2>9. stale' = {} => \A x \in alive' : On(x, e, k) \/ \E j \in Lists \ {q} : On(x, ch[j], sz[j])
    <3> SUFFICES ASSUME stale' = {}, NEW x \in alive'
                 PROVE  \E j \in Lists \ {q} : On(x, ch[j], sz[j])
      OBVIOUS
    <3>1. x \in alive /\ ~On(x, ch[q], sz[q]) /\ stale = {}
      BY <1>5, <2>3, <2>4
    <3>2. QED
      BY <3>1 DEF Picture, Owned
  <2>10. Serves(ch[q], sz[q], e, k) /\ k \in Nat /\ \A i \in 1..k : e[i] \in alive'
    BY <1>5, <2>6 DEF Serves, Returns
  <2>11. QED
    BY <2>4, <2>5, <2>7, <2>8, <2>9, <2>10, OneRingStep
<1>6. QED
  BY <1>2, <1>3, <1>4, <1>5

(* clear writes to the values alone. *)
LEMMA ClearQueueStep ==
  ASSUME Types, NEW ch, NEW sz, Picture(ch, sz), Looping(ch, sz),
         NEW q \in Rings, ClearQueue(q)
  PROVE  QueueStep(ch, sz)
<1>1. /\ data' \in [Nodes -> Elem] /\ iter' = iter /\ fault' = fault
      /\ UNCHANGED <<headers, alive, next, prev, notes, max>>
  BY DEF ClearQueue, Returns, Types, TypeOK, Elem
<1>2. Picture(ch, sz)'
  BY <1>1, PictureKept
<1>3. UNCHANGED <<exists, head, tail, count, alive, next, prev, lent, stale, iter, fault, max>>
  BY <1>1 DEF headers, notes
<1>4. Looping(ch, sz)'
  BY <1>3, LoopingKept
<1>5. Types'
  BY <1>1, <1>3 DEF Types, TypeOK
<1>6. QED
  BY <1>2, <1>4, <1>5 DEF QueueStep, Served, Serves

-------------------------------------------------------------------------------
(* Every step. *)
LEMMA ListCallStep ==
  ASSUME Types, NEW ch, NEW sz, Picture(ch, sz), Looping(ch, sz), UNCHANGED max,
         NEW l \in Plain, ListCall(l)
  PROVE  ListStep(ch, sz)
<1>1. Cardinality(Nodes) \in Nat
  BY NodesAssumption, FS_CardinalityType
<1>2. CASE New(l)
  BY <1>2, NewStep
<1>3. CASE Destroy(l)
  BY <1>3, DestroyStep
<1>4. CASE Clear(l)
  BY <1>4, ClearStep
<1>5. CASE Pop(l)
  BY <1>5, PopStep
<1>6. CASE Shift(l)
  BY <1>6, ShiftStep
<1>7. CASE FreeHeader(l)
  BY <1>7, FreeHeaderStep
<1>8. CASE InitializeIterator(l)
  BY <1>8, InitializeIteratorStep
<1>9. ASSUME NEW v \in Elem, Push(l, v) PROVE ListStep(ch, sz)
  BY <1>9, PushStep
<1>10. ASSUME NEW v \in Elem, AddFirst(l, v) PROVE ListStep(ch, sz)
  BY <1>10, AddFirstStep
<1>11. ASSUME NEW v \in Elem, FindValue(l, v) PROVE ListStep(ch, sz)
  <2>1. \E op, r : Keep /\ Returns(op, r)
    BY <1>11 DEF FindValue
  <2>2. QED
    BY <2>1, KeepReturnsStep
<1>12. ASSUME NEW v \in Elem, RemoveData(l, v) PROVE ListStep(ch, sz)
  BY <1>12, RemoveDataStep
<1>13. ASSUME NEW v \in Elem, ItemExists(l, v) PROVE ListStep(ch, sz)
  <2>1. \E op, r : Keep /\ Returns(op, r)
    BY <1>13 DEF ItemExists
  <2>2. QED
    BY <2>1, KeepReturnsStep
<1>14. ASSUME NEW n \in Nodes, RemoveNode(l, n) PROVE ListStep(ch, sz)
  BY <1>14, RemoveNodeStep
<1>15. ASSUME NEW i \in 0..Cardinality(Nodes), Get(l, i) PROVE ListStep(ch, sz)
  <2>1. \E op, r : Keep /\ Returns(op, r)
    BY <1>15 DEF Get
  <2>2. QED
    BY <2>1, KeepReturnsStep
<1>16. ASSUME NEW i \in 0..Cardinality(Nodes), RemoveIndex(l, i) PROVE ListStep(ch, sz)
  BY <1>1, <1>16, RemoveIndexStep
<1>17. ASSUME NEW i \in 0..Cardinality(Nodes), NEW v \in Elem, AddWithIndex(l, i, v)
       PROVE  ListStep(ch, sz)
  BY <1>1, <1>17, AddWithIndexStep
<1>18. ASSUME NEW i \in 0..Cardinality(Nodes), NEW a \in Plain, AddAllWithIndex(l, i - 1, a)
       PROVE  ListStep(ch, sz)
  BY <1>1, <1>18, AddAllWithIndexStep
<1>19. ASSUME NEW k \in Plain, DeepCopy(l, k) PROVE ListStep(ch, sz)
  BY <1>19, DeepCopyStep
<1>20. ASSUME NEW k \in Plain, MergeSort(l, k) PROVE ListStep(ch, sz)
  BY <1>20, MergeSortStep
<1>21. QED
  BY <1>2, <1>3, <1>4, <1>5, <1>6, <1>7, <1>8, <1>9, <1>10, <1>11, <1>12, <1>13, <1>14, <1>15,
     <1>16, <1>17, <1>18, <1>19, <1>20 DEF ListCall

(* Every step of the specification keeps some picture. *)
LEMMA AnyStep ==
  ASSUME Types, NEW ch, NEW sz, Picture(ch, sz), Looping(ch, sz), [QNext]_qvars
  PROVE  QueueStep(ch, sz)
<1>1. CASE Next /\ UNCHANGED max
  <2> SUFFICES ListStep(ch, sz)
    BY ListStepServes
  <2>1. ASSUME NEW l \in Plain, ListCall(l) PROVE ListStep(ch, sz)
    BY <1>1, <2>1, ListCallStep
  <2>2. CASE Iterate
    BY <1>1, <2>2, IterateStep
  <2>3. CASE Abandon
    BY <1>1, <2>3, AbandonStep
  <2>4. QED
    BY <1>1, <2>1, <2>2, <2>3 DEF Next
<1>2. ASSUME NEW q \in Rings, QueueCall(q) PROVE QueueStep(ch, sz)
  <2>1. CASE Dequeue(q)
    BY <2>1, DequeueStep
  <2>2. CASE DestroyQueue(q)
    BY <2>2, DestroyQueueStep
  <2>3. CASE ClearQueue(q)
    BY <2>3, ClearQueueStep
  <2>4. ASSUME NEW m \in Maxima, NewQueue(q, m) PROVE QueueStep(ch, sz)
    BY <2>4, NewQueueStep
  <2>5. ASSUME NEW v \in Elem, Enqueue(q, v) PROVE QueueStep(ch, sz)
    BY <2>5, EnqueueStep
  <2>6. QED
    BY <1>2, <2>1, <2>2, <2>3, <2>4, <2>5 DEF QueueCall
<1>3. CASE UNCHANGED qvars
  <2>1. UNCHANGED <<headers, heap, notes, iter, max>> /\ fault' \in BOOLEAN
    BY <1>3 DEF qvars, vars, Types, TypeOK
  <2>2. QED
    BY <2>1, KeepStep, ListStepServes
<1>4. QED
  BY <1>1, <1>2, <1>3 DEF QNext

(* At first there are no nodes. *)
LEMMA InitInv == QInit => IInv
<1> SUFFICES ASSUME QInit PROVE IInv
  OBVIOUS
<1>1. PICK ch, sz : ch = [l \in Lists |-> <<>>] /\ sz = [l \in Lists |-> 0]
  OBVIOUS
<1>2. Types
  BY RingsAssumption DEF QInit, Init, Types, TypeOK, Elem, Plain
<1>3. \A l \in Lists : Shape(l, ch[l], sz[l])
  <2> SUFFICES ASSUME NEW l \in Lists PROVE Shape(l, ch[l], sz[l])
    OBVIOUS
  <2>1. PICK c : c = ch[l]
    OBVIOUS
  <2>2. PlainShape(l, c, 0)
    <3>1. Linked(Nodes, c, 0, next, prev, NULL, NULL)
      BY DEF Linked, Run, Back
    <3>2. QED
      BY <3>1 DEF QInit, Init, PlainShape, Before
  <2>3. l \in Rings => RingShape(l, c, 0)
    <3>1. Ringed(Nodes, c, 0, next, prev, NULL, NULL)
      BY DEF Ringed, Linked, Run, Back
    <3>2. QED
      BY <3>1 DEF QInit, Init, RingShape
  <2>4. Shape(l, c, 0)
    BY <2>2, <2>3 DEF Shape, QInit, Init
  <2>5. QED
    BY <1>1, <2>1, <2>4
<1>4. Picture(ch, sz)
  BY <1>1, <1>3 DEF Picture, Apart, Owned, QInit, Init
<1>5. Looping(ch, sz)
  BY DEF Looping, QInit, Init, NoIter
<1>6. QED
  BY <1>2, <1>4, <1>5 DEF IInv

(* The invariant is inductive. *)
LEMMA NextInv == IInv /\ [QNext]_qvars => IInv'
<1> SUFFICES ASSUME IInv, [QNext]_qvars PROVE IInv'
  OBVIOUS
<1>1. Types
  BY DEF IInv
<1>2. PICK ch, sz : Picture(ch, sz) /\ Looping(ch, sz)
  BY DEF IInv
<1>3. QueueStep(ch, sz)
  BY <1>1, <1>2, AnyStep
<1>4. QED
  BY <1>3 DEF QueueStep, IInv

(* It holds in every reachable state. *)
LEMMA AlwaysInv == QSpec => []IInv
<1>1. QED
  BY InitInv, NextInv, PTL DEF QSpec

-------------------------------------------------------------------------------
(* What the invariant says of lists, queues and the iterator. *)

(* Every variable keeps its type: no call stores anything but a node or    *)
(* NULL into a pointer, and no count falls below zero.                     *)
THEOREM TypesKept == QSpec => []TypeOK
<1>1. IInv => TypeOK
  BY DEF IInv, Types
<1>2. QED
  BY <1>1, AlwaysInv, PTL

(* The chain of a list.c list is one of allocated nodes on which prev      *)
(* undoes next, with the tail and the count of its header unless addALL    *)
(* has lengthened it at its end.                                           *)
THEOREM AlwaysWellLinked == QSpec => []WellLinked
<1>1. IInv => WellLinked
  <2> SUFFICES ASSUME IInv, NEW l \in Plain \ lent, NEW w, w = Chain(l)
               PROVE  /\ ~Cyclic(l) /\ ToSet(w) \subseteq alive
                      /\ \A i \in DOMAIN w : prev[w[i]] = IF i = 1 THEN NULL ELSE w[i - 1]
                      /\ l \notin stale =>
                           count[l] = Len(w) /\ tail[l] = IF w = <<>> THEN NULL ELSE Last(w)
    BY DEF WellLinked
  <2>1. Types
    BY DEF IInv
  <2>2. PICK ch, sz : Picture(ch, sz)
    BY DEF IInv
  <2>3. PICK c, m : c = ch[l] /\ m = sz[l]
    OBVIOUS
  <2>4. /\ l \in Lists /\ m \in Nat /\ m <= Cardinality(Nodes) /\ Cardinality(Nodes) \in Nat
        /\ \A i \in 1..m : c[i] \in alive /\ prev[c[i]] = Before(c, i - 1)
    BY <2>1, <2>2, <2>3, PlainFacts
  <2>5. /\ w = [i \in 1..m |-> c[i]] /\ Len(w) = m /\ DOMAIN w = 1..m
        /\ ToSet(w) = {c[i] : i \in 1..m} /\ \A i \in 1..m : w[i] = c[i]
    BY <2>1, <2>2, <2>3, ChainFacts
  <2>6. ~Cyclic(l)
    <3>1. PICK u, n : u = Len(w) /\ n = Cardinality(Nodes)
      OBVIOUS
    <3>2. u \in Nat /\ n \in Nat /\ u <= n
      BY <2>4, <2>5, <3>1
    <3>3. ~(u > n)
      BY <3>2
    <3>4. QED
      BY <3>1, <3>3 DEF Cyclic
  <2>7. \A i \in 1..m : prev[w[i]] = IF i = 1 THEN NULL ELSE w[i - 1]
    <3> SUFFICES ASSUME NEW i \in 1..m PROVE prev[w[i]] = IF i = 1 THEN NULL ELSE w[i - 1]
      OBVIOUS
    <3>1. w[i] = c[i] /\ (i # 1 => i - 1 \in 1..m /\ i - 1 # 0 /\ w[i - 1] = c[i - 1])
      BY <2>4, <2>5
    <3>2. QED
      BY <2>4, <3>1 DEF Before
  <2>8. l \notin stale => count[l] = m /\ tail[l] = Before(c, m)
    BY <2>2, <2>3, <2>4 DEF Picture, Shape, PlainShape
  <2>9. IF w = <<>> THEN m = 0 ELSE m # 0 /\ Last(w) = c[m]
    <3>1. m = 0 <=> w = <<>>
      BY <2>4, <2>5
    <3>2. Last(w) = w[Len(w)]
      BY DEF Last
    <3>3. m # 0 => w[m] = c[m]
      BY <2>4, <2>5
    <3>4. QED
      BY <2>5, <3>1, <3>2, <3>3
  <2>10. ToSet(w) \subseteq alive
    BY <2>4, <2>5
  <2>11. \A i \in DOMAIN w : prev[w[i]] = IF i = 1 THEN NULL ELSE w[i - 1]
    BY <2>5, <2>7
  <2>12. l \notin stale =>
           count[l] = Len(w) /\ tail[l] = IF w = <<>> THEN NULL ELSE Last(w)
    <3>1. PICK z : z = Last(w)
      OBVIOUS
    <3>2. Before(c, m) = IF w = <<>> THEN NULL ELSE z
      BY <2>9, <3>1, Zenon DEF Before
    <3>3. Len(w) = m
      BY <2>5
    <3>4. QED
      BY <2>8, <3>1, <3>2, <3>3, Zenon
  <2>13. QED
    BY <2>6, <2>10, <2>11, <2>12
<1>2. QED
  BY <1>1, AlwaysInv, PTL

(* The sequence of m different things has m elements. *)
LEMMA CountDistinct ==
  ASSUME NEW c, NEW m \in Nat, \A i, j \in 1..m : c[i] = c[j] => i = j
  PROVE  Cardinality({c[i] : i \in 1..m}) = m
<1> DEFINE f == [i \in 1..m |-> c[i]]
           S == {c[i] : i \in 1..m}
<1>1. f \in Bijection(1..m, S)
  BY DEF Bijection, Injection, Surjection, IsInjective
<1>2. ExistsBijection(1..m, S)
  BY <1>1 DEF ExistsBijection
<1> HIDE DEF f, S
<1>3. Cardinality(S) = m
  BY <1>2, FS_CountingElements
<1>4. QED
  BY <1>3 DEF S

(* Queues stay closed circles of no more nodes than their capacity, no     *)
(* node is on two lists or queues, and none is lost.                       *)
THEOREM AlwaysRingClosed == QSpec => []RingClosed
<1>1. IInv => RingClosed
  <2> SUFFICES ASSUME IInv PROVE RingClosed
    OBVIOUS
  <2>1. Types
    BY DEF IInv
  <2>2. PICK ch, sz : Picture(ch, sz)
    BY DEF IInv
  <2>3. ASSUME NEW q \in Rings PROVE Closed(q) /\ ToSet(Circle(q)) = {ch[q][i] : i \in 1..sz[q]}
    <3>m. PICK c, m : c = ch[q] /\ m = sz[q]
      OBVIOUS
    <3>1. PICK w, k : c = ch[q] /\ m = sz[q] /\ w = Circle(q) /\ k = Len(w)
      BY <3>m
    <3>2. /\ m \in Nat /\ RingShape(q, c, m)
          /\ \A i \in 1..m : c[i] \in Nodes /\ c[i] \in alive /\ c[i] # NULL
          /\ \A i, j \in 1..m : c[i] = c[j] => i = j
          /\ head[q] = (IF m = 0 THEN NULL ELSE c[1]) /\ tail[q] = (IF m = 0 THEN NULL ELSE c[m])
          /\ \A i \in 1..m : next[c[i]] = IF i = m THEN c[1] ELSE c[i + 1]
          /\ \A i \in 1..m : prev[c[i]] = IF i = 1 THEN c[m] ELSE c[i - 1]
      <4>1. Around(q, c, m)
        BY <2>1, <2>2, <3>m, RingFacts, Zenon
      <4>2. QED
        BY <4>1 DEF Around
    <3>3. w = [i \in 1..m |-> c[i]]
      BY <2>1, <2>2, <3>1, CircleFacts
    <3>4. k = m /\ DOMAIN w = 1..m /\ \A i \in 1..m : w[i] = c[i]
      BY <3>1, <3>2, <3>3
    <3>5. ToSet(w) = {c[i] : i \in 1..m}
      BY <3>4 DEF ToSet
    <3>6. Cardinality(ToSet(w)) = k
      <4>1. m \in Nat /\ \A i, j \in 1..m : c[i] = c[j] => i = j
        BY <3>2
      <4>2. Cardinality({c[i] : i \in 1..m}) = m
        BY <4>1, CountDistinct
      <4>3. QED
        BY <3>4, <3>5, <4>2
    <3>7. \A i \in 1..m : (i % m) + 1 = IF i = m THEN 1 ELSE i + 1
      <4> SUFFICES ASSUME NEW i \in 1..m PROVE (i % m) + 1 = IF i = m THEN 1 ELSE i + 1
        OBVIOUS
      <4>1. CASE i = m
        BY <3>2, <4>1
      <4>2. CASE i # m
        <5>1. i \in 0..m - 1 /\ m > 0
          BY <3>2, <4>2
        <5>2. i % m = i
          BY <3>2, <5>1
        <5>3. QED
          BY <4>2, <5>2
      <4>3. QED
        BY <4>1, <4>2
    <3>8. ASSUME NEW i \in 1..k
          PROVE  next[w[i]] = w[(i % k) + 1] /\ prev[w[(i % k) + 1]] = w[i]
      <4>1. i \in 1..m /\ 1 \in 1..m /\ m \in 1..m
        BY <3>2, <3>4
      <4>2. CASE i = m
        BY <3>2, <3>4, <3>7, <4>1, <4>2
      <4>3. CASE i # m
        <5>1. i + 1 \in 1..m /\ i + 1 # 1 /\ (i + 1) - 1 = i
          BY <3>2, <4>1, <4>3
        <5>2. (i % k) + 1 = i + 1
          BY <3>4, <3>7, <4>1, <4>3
        <5>3. prev[c[i + 1]] = c[i] /\ next[c[i]] = c[i + 1]
          BY <3>2, <4>1, <4>3, <5>1
        <5>4. QED
          BY <3>4, <4>1, <5>1, <5>2, <5>3
      <4>4. QED
        BY <4>2, <4>3
    <3>9. k = count[q] /\ k <= max[q]
      BY <3>2, <3>4 DEF RingShape
    <3>10. ToSet(w) \subseteq alive
      BY <3>2, <3>5
    <3>11. IF k = 0 THEN head[q] = NULL /\ tail[q] = NULL ELSE head[q] = w[1] /\ tail[q] = w[k]
      BY <3>2, <3>4
    <3>12. Closed(q)
      BY <3>1, <3>6, <3>8, <3>9, <3>10, <3>11, Zenon DEF Closed
    <3>13. QED
      BY <3>1, <3>5, <3>12
  <2> DEFINE on == [l \in Lists \ lent |->
                      IF l \in Rings THEN ToSet(Circle(l)) ELSE ToSet(Chain(l))]
  <2>4. DOMAIN on = Lists \ lent
    OBVIOUS
  <2>5. \A l \in Lists \ lent : on[l] = {ch[l][i] : i \in 1..sz[l]}
    <3> SUFFICES ASSUME NEW l \in Lists \ lent PROVE on[l] = {ch[l][i] : i \in 1..sz[l]}
      OBVIOUS
    <3>1. CASE l \in Rings
      BY <2>3, <3>1
    <3>2. CASE l \notin Rings
      <4>1. l \in Plain \ lent
        BY <3>2 DEF Plain
      <4>2. ToSet(Chain(l)) = {ch[l][i] : i \in 1..sz[l]}
        BY <2>1, <2>2, <4>1, ChainFacts
      <4>3. QED
        BY <3>2, <4>2
    <3>3. QED
      BY <3>1, <3>2
  <2> HIDE DEF on
  <2>6. \A l, k \in Lists \ lent : l # k => on[l] \cap on[k] = {}
    BY <2>2, <2>5 DEF Picture, Apart
  <2>7. stale = {} => alive = UNION Range(on)
    <3> SUFFICES ASSUME stale = {} PROVE alive = UNION Range(on)
      OBVIOUS
    <3>1. \A x : x \in UNION Range(on) <=> \E l \in Lists \ lent : x \in on[l]
      BY <2>4 DEF Range
    <3>2. \A l \in lent : sz[l] = 0
      BY <2>1, <2>2 DEF Picture, Shape, Types, TypeOK, Plain
    <3>3. ASSUME NEW x \in alive PROVE \E l \in Lists \ lent : x \in on[l]
      <4>1. PICK l \in Lists : On(x, ch[l], sz[l])
        BY <2>2 DEF Picture, Owned
      <4>2. l \notin lent
        BY <3>2, <4>1 DEF On
      <4>3. QED
        BY <2>5, <4>1, <4>2 DEF On
    <3>4. ASSUME NEW l \in Lists \ lent, NEW x \in on[l] PROVE x \in alive
      BY <2>2, <2>5 DEF Picture
    <3>5. QED
      BY <3>1, <3>3, <3>4
  <2>8. QED
    BY <2>3, <2>6, <2>7 DEF RingClosed, on
<1>2. QED
  BY <1>1, AlwaysInv, PTL

(* Whichever nodes come in, or are removed behind it, the nodes that an    *)
(* iterator found on the list and has not given out are still ahead of it, *)
(* each once and in their order.                                           *)
THEOREM AlwaysVisitsAll == QSpec => []IterateVisitsAll
<1>1. IInv => IterateVisitsAll
  <2> SUFFICES ASSUME IInv, iter.list \notin stale,
                      NEW due, due = iter.due,
                      NEW ahead, ahead = Walk(next, iter.position, Cardinality(Nodes))
               PROVE  \E at \in [DOMAIN due -> DOMAIN ahead] :
                        /\ \A i, j \in DOMAIN at : i < j => at[i] < at[j]
                        /\ \A i \in DOMAIN at : ahead[at[i]] = due[i]
    BY DEF IterateVisitsAll
  <2>1. Types
    BY DEF IInv
  <2>2. PICK ch, sz : Picture(ch, sz) /\ Looping(ch, sz)
    BY DEF IInv
  <2>3. PICK u : u = Len(due)
    OBVIOUS
  <2>4. u \in Nat /\ DOMAIN due = 1..u
    BY <2>2, <2>3, LenProperties DEF Looping
  <2>5. CASE iter.list = NULL
    <3>1. DOMAIN due = {}
      BY <2>2, <2>5 DEF Looping, NoIter
    <3> DEFINE at == [i \in DOMAIN due |-> i]
    <3>2. at \in [DOMAIN due -> DOMAIN ahead] /\ DOMAIN at = {}
      BY <3>1
    <3>3. QED
      BY <3>2
  <2>6. CASE iter.list # NULL
    <3>1. PICK l, c, m : l = iter.list /\ c = ch[l] /\ m = sz[l]
      OBVIOUS
    <3>2. l \in Plain \ lent /\ Pending(c, m, iter)
      BY <2>2, <2>6, <3>1 DEF Looping
    <3>3. PICK p \in 1..m + 1 : /\ iter.position = IF p = m + 1 THEN NULL ELSE c[p]
                                /\ Follows(due, c, m, p)
      BY <3>2 DEF Pending
    <3>4. m \in Nat
      BY <2>1, <2>2, <3>1, <3>2, PlainFacts
    <3>5. PICK x : x = iter.position /\ x = At(c, m, p)
      BY <3>3 DEF At
    <3>6. ShowsFrom(ahead, c, m, p)
      BY <2>1, <2>2, <3>1, <3>2, <3>5, AheadFacts
    <3>7. ahead = [i \in 1..m + 1 - p |-> c[p + i - 1]]
      BY <3>6 DEF ShowsFrom
    <3>8. PICK e \in [1..u -> p..m] : /\ \A i, j \in 1..u : i < j => e[i] < e[j]
                                      /\ \A i \in 1..u : due[i] = c[e[i]]
      BY <2>3, <3>3 DEF Follows
    <3> DEFINE at == [i \in 1..u |-> e[i] - p + 1]
    <3>9. DOMAIN ahead = 1..m + 1 - p
      BY <3>7
    <3>10. \A i \in 1..u : /\ at[i] = e[i] - p + 1 /\ at[i] \in 1..m + 1 - p
                           /\ ahead[at[i]] = c[e[i]]
      <4> SUFFICES ASSUME NEW i \in 1..u
                   PROVE  /\ at[i] = e[i] - p + 1 /\ at[i] \in 1..m + 1 - p
                          /\ ahead[at[i]] = c[e[i]]
        OBVIOUS
      <4>1. PICK y : y = e[i]
        OBVIOUS
      <4>2. y \in p..m /\ p \in Nat /\ y - p + 1 \in 1..m + 1 - p /\ p + (y - p + 1) - 1 = y
        BY <3>3, <3>4, <3>8, <4>1
      <4>3. ahead[y - p + 1] = c[p + (y - p + 1) - 1]
        BY <3>7, <4>2
      <4>4. QED
        BY <4>1, <4>2, <4>3
    <3>11. at \in [1..u -> 1..m + 1 - p] /\ DOMAIN at = 1..u
      BY <3>10
    <3>12. \A i, j \in 1..u : i < j => at[i] < at[j]
      <4> SUFFICES ASSUME NEW i \in 1..u, NEW j \in 1..u, i < j PROVE at[i] < at[j]
        OBVIOUS
      <4>1. PICK y, z : y = e[i] /\ z = e[j]
        OBVIOUS
      <4>2. y \in Int /\ z \in Int /\ y < z /\ p \in Int
        BY <3>3, <3>4, <3>8, <4>1
      <4>3. y - p + 1 < z - p + 1
        BY <4>2
      <4>4. QED
        BY <4>1, <4>3
    <3> HIDE DEF at
    <3>13. at \in [DOMAIN due -> DOMAIN ahead]
      BY <2>4, <3>9, <3>11
    <3>14. \A i, j \in DOMAIN at : i < j => at[i] < at[j]
      BY <3>11, <3>12
    <3>15. \A i \in DOMAIN at : ahead[at[i]] = due[i]
      BY <3>8, <3>10, <3>11
    <3>16. QED
      BY <3>13, <3>14, <3>15
  <2>7. QED
    BY <2>5, <2>6
<1>2. QED
  BY <1>1, AlwaysInv, PTL

-------------------------------------------------------------------------------
(* No call on a list that is linked right follows a bad pointer. *)

(* The neighbours of a node on a list are allocated. *)
LEMMA RemovesSafely ==
  ASSUME Types, NEW ch, NEW sz, Picture(ch, sz), stale = {}, ~fault, NEW l \in Plain \ lent,
         NEW n, n = NULL \/ On(n, ch[l], sz[l]), NEW op, RemoveCall(l, op, n)
  PROVE  ~fault'
<1>1. CASE n = NULL
  BY <1>1 DEF RemoveCall, Returns
<1>2. CASE n # NULL
  <2>1. PICK c, m : c = ch[l] /\ m = sz[l]
    OBVIOUS
  <2>2. PICK r \in 1..m : c[r] = n
    BY <1>2, <2>1 DEF On
  <2>3. /\ l \in Lists /\ m \in Nat /\ head[l] = Behind(c, m, 0)
        /\ \A i \in 1..m : c[i] \in alive /\ next[c[i]] = Behind(c, m, i) /\ prev[c[i]] = Before(c, i - 1)
    BY <2>1, PlainFacts
  <2>4. tail[l] = Before(c, m)
    BY <2>1, <2>3 DEF Picture, Shape, PlainShape
  <2>5. head[l] = n \/ prev[n] \in alive
    <3>1. CASE r = 1
      <4>1. 0 # m /\ head[l] = c[1]
        BY <2>2, <2>3, <3>1 DEF Behind
      <4>2. QED
        BY <2>2, <3>1, <4>1
    <3>2. CASE r # 1
      <4>1. r - 1 \in 1..m /\ r - 1 # 0
        BY <2>3, <3>2
      <4>2. QED
        BY <2>2, <2>3, <4>1 DEF Before
    <3>3. QED
      BY <3>1, <3>2
  <2>6. tail[l] = n \/ next[n] \in alive
    <3>1. CASE r = m
      BY <2>2, <2>3, <2>4, <3>1 DEF Before
    <3>2. CASE r # m
      <4>1. r + 1 \in 1..m
        BY <2>3, <3>2
      <4>2. QED
        BY <2>2, <2>3, <3>2, <4>1 DEF Behind
    <3>3. QED
      BY <3>1, <3>2
  <2>7. n \in alive
    BY <2>2, <2>3
  <2>8. Returns(op, data[n])
    BY <1>2, <2>5, <2>6, <2>7 DEF RemoveCall
  <2>9. QED
    BY <2>8 DEF Returns
<1>3. QED
  BY <1>1, <1>2

(* The calls that take nodes away, and the iterator. *)
Careful == {"destroy", "pop", "shift", "remove", "remove_index", "remove_data", "iterate"}

Faultless == fault' => call' \notin Careful

(* A call on a list, with no stale list about. *)
LEMMA ListCallFaultless ==
  ASSUME Types, NEW ch, NEW sz, Picture(ch, sz), stale = {}, ~fault, NEW l \in Plain, ListCall(l)
  PROVE  Faultless
<1>1. Cardinality(Nodes) \in Nat
  BY NodesAssumption, FS_CardinalityType
<1>2. ASSUME NEW op, NEW r, Returns(op, r) PROVE Faultless
  BY <1>2 DEF Returns, Faultless
<1>3. CASE New(l)
  BY <1>2, <1>3 DEF New
<1>4. CASE Destroy(l)
  <2>1. PICK w : w = Chain(l)
    OBVIOUS
  <2>2. l \in Plain \ lent /\ ((w # <<>> /\ tail[l] # Last(w)) \/ Returns("destroy", NULL))
    BY <1>4, <2>1, Zenon DEF Destroy, Idle, Live
  <2>3. PICK c, m : c = ch[l] /\ m = sz[l]
    OBVIOUS
  <2>4. m \in Nat /\ l \in Lists
    BY <2>2, <2>3, PlainFacts
  <2>5. w = [i \in 1..m |-> c[i]] /\ Len(w) = m /\ \A i \in 1..m : w[i] = c[i]
    BY <2>1, <2>2, <2>3, ChainFacts
  <2>6. tail[l] = Before(c, m)
    BY <2>2, <2>3, <2>4 DEF Picture, Shape, PlainShape
  <2>7. w = <<>> \/ tail[l] = Last(w)
    <3>1. CASE m = 0
      BY <2>5, <3>1
    <3>2. CASE m # 0
      <4>1. Last(w) = w[Len(w)]
        BY DEF Last
      <4>2. m \in 1..m
        BY <2>4, <3>2
      <4>3. QED
        BY <2>5, <2>6, <3>2, <4>1, <4>2 DEF Before
    <3>3. QED
      BY <3>1, <3>2
  <2>8. QED
    BY <1>2, <2>2, <2>7
<1>5. CASE Clear(l)
  BY <1>2, <1>5 DEF Clear
<1>6. ASSUME l \in Plain \ lent, NEW n, n = NULL \/ On(n, ch[l], sz[l]), NEW op, RemoveCall(l, op, n)
      PROVE  Faultless
  BY <1>6, RemovesSafely DEF Faultless
<1>7. CASE Pop(l)
  <2>1. l \in Plain \ lent /\ RemoveCall(l, "pop", tail[l])
    BY <1>7 DEF Pop, Idle, Live
  <2>2. PICK c, m : c = ch[l] /\ m = sz[l]
    OBVIOUS
  <2>3. m \in Nat /\ l \in Lists
    BY <2>1, <2>2, PlainFacts
  <2>4. tail[l] = Before(c, m)
    BY <2>1, <2>2, <2>3 DEF Picture, Shape, PlainShape
  <2>5. tail[l] = NULL \/ On(tail[l], ch[l], sz[l])
    BY <2>2, <2>3, <2>4 DEF Before, On
  <2>6. QED
    BY <1>6, <2>1, <2>5
<1>8. CASE Shift(l)
  <2>1. l \in Plain \ lent /\ RemoveCall(l, "shift", head[l])
    BY <1>8 DEF Shift, Idle, Live
  <2>2. PICK c, m : c = ch[l] /\ m = sz[l]
    OBVIOUS
  <2>3. m \in Nat /\ l \in Lists /\ head[l] = Behind(c, m, 0)
    BY <2>1, <2>2, PlainFacts
  <2>4. head[l] = NULL \/ On(head[l], ch[l], sz[l])
    BY <2>2, <2>3 DEF Behind, On
  <2>5. QED
    BY <1>6, <2>1, <2>4
<1>9. CASE FreeHeader(l)
  BY <1>2, <1>9 DEF FreeHeader
<1>10. CASE InitializeIterator(l)
  BY <1>10 DEF InitializeIterator, Faultless
<1>11. ASSUME NEW v \in Elem, Push(l, v) PROVE Faultless
  BY <1>2, <1>11 DEF Push
<1>12. ASSUME NEW v \in Elem, AddFirst(l, v) PROVE Faultless
  BY <1>2, <1>12 DEF AddFirst
<1>13. ASSUME NEW v \in Elem, FindValue(l, v) PROVE Faultless
  BY <1>2, <1>13 DEF FindValue
<1>14. ASSUME NEW v \in Elem, RemoveData(l, v) PROVE Faultless
  <2>1. l \in Plain \ lent /\ RemoveCall(l, "remove_data", FindNode(l, v))
    BY <1>14 DEF RemoveData, Idle, Live
  <2>2. FindNode(l, v) = NULL \/ On(FindNode(l, v), ch[l], sz[l])
    BY <2>1, FindNodeFacts DEF On
  <2>3. QED
    BY <1>6, <2>1, <2>2
<1>15. ASSUME NEW v \in Elem, ItemExists(l, v) PROVE Faultless
  BY <1>2, <1>15 DEF ItemExists
<1>16. ASSUME NEW n \in Nodes, RemoveNode(l, n) PROVE Faultless
  <2>1. l \in Plain \ lent /\ RemoveCall(l, "remove", n) /\ n \in ToSet(Chain(l))
    BY <1>16 DEF RemoveNode, Live
  <2>2. ToSet(Chain(l)) = {ch[l][i] : i \in 1..sz[l]}
    BY <2>1, ChainFacts
  <2>3. On(n, ch[l], sz[l])
    BY <2>1, <2>2 DEF On
  <2>4. QED
    BY <1>6, <2>1, <2>3
<1>17. ASSUME NEW i \in 0..Cardinality(Nodes), Get(l, i) PROVE Faultless
  BY <1>2, <1>17 DEF Get
<1>18. ASSUME NEW i \in 0..Cardinality(Nodes), RemoveIndex(l, i) PROVE Faultless
  <2>1. l \in Plain \ lent /\ RemoveCall(l, "remove_index", NodeAt(l, i)) /\ i \in Int
    BY <1>1, <1>18 DEF RemoveIndex, Idle, Live
  <2>2. NodeAt(l, i) = NULL \/ On(NodeAt(l, i), ch[l], sz[l])
    BY <2>1, NodeAtFacts DEF On
  <2>3. QED
    BY <1>6, <2>1, <2>2
<1>19. ASSUME NEW i \in 0..Cardinality(Nodes), NEW v \in Elem, AddWithIndex(l, i, v) PROVE Faultless
  <2>1. Returns("addWithIndex", NULL) \/ call' = "addWithIndex"
    BY <1>19 DEF AddWithIndex, Crash
  <2>2. QED
    BY <1>2, <2>1 DEF Faultless, Careful
<1>20. ASSUME NEW i \in 0..Cardinality(Nodes), NEW a \in Plain, AddAllWithIndex(l, i - 1, a)
       PROVE  Faultless
  <2>1. Returns("addALL", NULL) \/ call' = "addALL"
    BY <1>20, Zenon DEF AddAllWithIndex, Crash
  <2>2. QED
    BY <1>2, <2>1 DEF Faultless, Careful
<1>21. ASSUME NEW k \in Plain, DeepCopy(l, k) PROVE Faultless
  <2>1. Returns("deep_copy", k) \/ Returns("deep_copy", NULL) \/ call' = "deep_copy"
    BY <1>21 DEF DeepCopy, Crash
  <2>2. QED
    BY <1>2, <2>1 DEF Faultless, Careful
<1>22. ASSUME NEW k \in Plain, MergeSort(l, k) PROVE Faultless
  <2>1. Returns("merge_sort", k) \/ Returns("merge_sort", l) \/ call' = "merge_sort"
    BY <1>22 DEF MergeSort, Crash
  <2>2. QED
    BY <1>2, <2>1 DEF Faultless, Careful
<1>23. QED
  BY <1>3, <1>4, <1>5, <1>7, <1>8, <1>9, <1>10, <1>11, <1>12, <1>13, <1>14, <1>15,
     <1>16, <1>17, <1>18, <1>19, <1>20, <1>21, <1>22 DEF ListCall

(* The iterator stands on an allocated node. *)
LEMMA IterateFaultless ==
  ASSUME Types, NEW ch, NEW sz, Picture(ch, sz), Looping(ch, sz), stale = {}, ~fault, Iterate
  PROVE  Faultless
<1>1. PICK n, l : n = iter.position /\ l = iter.list
  OBVIOUS
<1>2. /\ iter # NoIter
      /\ IF n # NULL /\ n \notin alive
         THEN Crash("iterate", NULL)
         ELSE UNCHANGED <<headers, heap, fault, notes>>
  BY <1>1, Zenon DEF Iterate
<1>3. l \in Plain \ lent /\ Pending(ch[l], sz[l], iter)
  BY <1>1, <1>2 DEF Looping
<1>4. \A i \in 1..sz[l] : ch[l][i] \in alive
  BY <1>3, PlainFacts
<1>5. PICK p \in 1..sz[l] + 1 : n = IF p = sz[l] + 1 THEN NULL ELSE ch[l][p]
  BY <1>1, <1>3 DEF Pending
<1>6. n = NULL \/ n \in alive
  <2>1. sz[l] \in Nat
    BY <1>3, PlainFacts
  <2>2. p # sz[l] + 1 => p \in 1..sz[l]
    BY <2>1
  <2>3. QED
    BY <1>4, <1>5, <2>2
<1>7. fault' = fault
  BY <1>2, <1>6
<1>8. QED
  BY <1>7 DEF Faultless

(* Calls on queues are not among these calls. *)
LEMMA QueueCallFaultless ==
  ASSUME ~fault, NEW q \in Rings, QueueCall(q)
  PROVE  Faultless
<1>1. ASSUME NEW op, NEW r, Returns(op, r) PROVE Faultless
  BY <1>1 DEF Returns, Faultless
<1>2. CASE Dequeue(q)
  <2>1. (\E r : Returns("dequeue", r)) \/ call' = "dequeue"
    BY <1>2, Zenon DEF Dequeue, Crash
  <2>2. QED
    BY <1>1, <2>1 DEF Faultless, Careful
<1>3. CASE DestroyQueue(q)
  <2>1. Returns("destroy_queue", NULL) \/ call' = "destroy_queue"
    BY <1>3, Zenon DEF DestroyQueue, Crash
  <2>2. QED
    BY <1>1, <2>1 DEF Faultless, Careful
<1>4. CASE ClearQueue(q)
  BY <1>1, <1>4 DEF ClearQueue
<1>5. ASSUME NEW m \in Maxima, NewQueue(q, m) PROVE Faultless
  BY <1>1, <1>5 DEF NewQueue
<1>6. ASSUME NEW v \in Elem, Enqueue(q, v) PROVE Faultless
  <2>1. (\E r : Returns("enqueue", r)) \/ call' = "enqueue"
    BY <1>6, Zenon DEF Enqueue, Crash
  <2>2. QED
    BY <1>1, <2>1 DEF Faultless, Careful
<1>7. QED
  BY <1>2, <1>3, <1>4, <1>5, <1>6 DEF QueueCall

(* After a fault no call is made. *)
LEMMA FaultStops ==
  ASSUME QNext
  PROVE  ~fault
<1>1. ASSUME NEW l \in Plain, ListCall(l) PROVE ~fault
  BY <1>1 DEF ListCall, New, Destroy, Clear, Pop, Shift, FreeHeader, InitializeIterator, Push,
     AddFirst, FindValue, RemoveData, ItemExists, RemoveNode, Get, RemoveIndex, AddWithIndex,
     AddAllWithIndex, DeepCopy, MergeSort, Idle, Live
<1>2. ASSUME NEW q \in Rings, QueueCall(q) PROVE ~fault
  BY <1>2 DEF QueueCall, Dequeue, DestroyQueue, ClearQueue, NewQueue, Enqueue, InUse
<1>3. QED
  BY <1>1, <1>2 DEF QNext, Next, Iterate, Abandon

(* As long as addALL has not left a list with the wrong tail, no call that *)
(* takes nodes away, destroys or iterates follows a bad pointer or frees a *)
(* node twice.                                                             *)
THEOREM AlwaysOnlyKnownFaults == QSpec => OnlyKnownFaults
<1>1. IInv /\ [QNext]_qvars =>
        [fault' /\ call' \in {"destroy", "pop", "shift", "remove", "remove_index",
                              "remove_data", "iterate"}
           => stale # {}]_vars
  <2> SUFFICES ASSUME IInv, QNext, stale = {} PROVE Faultless
    BY DEF Faultless, Careful, qvars
  <2>1. Types /\ ~fault
    BY FaultStops DEF IInv
  <2>2. PICK ch, sz : Picture(ch, sz) /\ Looping(ch, sz)
    BY DEF IInv
  <2>3. ASSUME NEW l \in Plain, ListCall(l) PROVE Faultless
    BY <2>1, <2>2, <2>3, ListCallFaultless
  <2>4. CASE Iterate
    BY <2>1, <2>2, <2>4, IterateFaultless
  <2>5. CASE Abandon
    BY <2>1, <2>5 DEF Abandon, Faultless
  <2>6. ASSUME NEW q \in Rings, QueueCall(q) PROVE Faultless
    BY <2>1, <2>6, QueueCallFaultless
  <2>7. QED
    BY <2>3, <2>4, <2>5, <2>6 DEF QNext, Next
<1>2. QED
  BY <1>1, AlwaysInv, PTL DEF QSpec, OnlyKnownFaults

(* Queues are first in, first out, whatever happens to the other queues    *)
(* and to the lists on the same heap: a call appends one node, or takes    *)
(* the first and returns its value, or empties the queue, or changes no    *)
(* node of it.                                                             *)
THEOREM AlwaysFirstInFirstOut == QSpec => FirstInFirstOut
<1> DEFINE Fifo(q, old, new) ==
             \/ new = old
             \/ call' = "enqueue" /\ result' = 0 /\ new # <<>> /\ Front(new) = old
             \/ call' = "dequeue" /\ new = Tail(old) /\ result' = data[Head(old)]
             \/ call' = "destroy_queue" /\ new = <<>>
<1>1. ASSUME IInv, [QNext]_qvars, NEW q \in Rings PROVE Fifo(q, Circle(q), Circle(q)')
  <2>1. PICK ch, sz : Picture(ch, sz) /\ Looping(ch, sz)
    BY <1>1 DEF IInv
  <2>2. Types
    BY <1>1 DEF IInv
  <2>3. PICK d, z : Picture(d, z)' /\ Served(ch, sz, d, z)
    BY <1>1, <2>1, <2>2, AnyStep DEF QueueStep
  <2>4. PICK c, m, e, k, old, new : /\ c = ch[q] /\ m = sz[q] /\ e = d[q] /\ k = z[q]
                                    /\ old = Circle(q) /\ new = Circle(q)'
    OBVIOUS
  <2>5. m \in Nat /\ old = [i \in 1..m |-> c[i]]
    BY <2>1, <2>2, <2>4, RingFacts, CircleFacts DEF Around
  <2>6. k \in Nat /\ new = [i \in 1..k |-> e[i]]
    <3>1. PICK h, t : h = head'[q] /\ t = tail'[q]
      OBVIOUS
    <3>2. k \in Nat /\ RingShape(q, e, k)'
      BY <2>3, <2>4, RingsAssumption DEF Picture, Shape
    <3>3. Ringed(Nodes, e, k, next', prev', h, t) /\ k = count'[q]
      BY <3>1, <3>2 DEF RingShape
    <3>4. SubSeq(Walk(next', h, Cardinality(Nodes)), 1, k) = [i \in 1..k |-> e[i]]
      BY <3>3, OnceAround
    <3>5. QED
      BY <2>4, <3>1, <3>2, <3>3, <3>4 DEF Circle, Chain
  <2>7. /\ Len(old) = m /\ \A i \in 1..m : old[i] = c[i]
        /\ Len(new) = k /\ \A i \in 1..k : new[i] = e[i]
    BY <2>5, <2>6
  <2>8. Serves(c, m, e, k)
    BY <2>3, <2>4 DEF Served
  <2>9. CASE e = c /\ k = m
    BY <2>4, <2>5, <2>6, <2>9
  <2>10. CASE /\ call' = "enqueue" /\ result' = 0
              /\ k = m + 1 /\ \A i \in 1..m : e[i] = c[i]
    <3>1. new # <<>>
      BY <2>5, <2>7, <2>10
    <3>2. Front(new) = [i \in 1..m |-> new[i]]
      <4>1. Front(new) = SubSeq(new, 1, m)
        BY <2>5, <2>7, <2>10 DEF Front
      <4>2. new \in Seq({e[i] : i \in 1..k})
        BY <2>6
      <4>3. QED
        BY <2>5, <2>7, <2>10, <4>1, <4>2
    <3>3. \A i \in 1..m : new[i] = c[i]
      BY <2>5, <2>7, <2>10
    <3>4. Front(new) = old
      BY <2>5, <3>2, <3>3
    <3>5. QED
      BY <2>4, <2>10, <3>1, <3>4
  <2>11. CASE /\ call' = "dequeue" /\ m # 0 /\ result' = data[c[1]]
              /\ k = m - 1 /\ \A i \in 1..k : e[i] = c[i + 1]
    <3>1. old \in Seq({c[i] : i \in 1..m}) /\ old # <<>>
      <4>1. old \in Seq({c[i] : i \in 1..m})
        BY <2>5
      <4>2. Len(old) # 0
        BY <2>7, <2>11
      <4>3. QED
        BY <4>1, <4>2
    <3>2. Head(old) = c[1]
      BY <2>5, <2>7, <2>11, <3>1
    <3>3. Tail(old) = [i \in 1..m - 1 |-> old[i + 1]]
      <4>1. PICK S, t : S = {c[i] : i \in 1..m} /\ t = Tail(old)
        OBVIOUS
      <4>2. old \in Seq(S) /\ old # <<>> /\ Len(old) = m /\ m \in Nat
        BY <2>5, <2>7, <3>1, <4>1
      <4>3. t \in Seq(S) /\ Len(t) = m - 1 /\ \A i \in 1..m - 1 : t[i] = old[i + 1]
        BY <4>1, <4>2, HeadTailProperties
      <4>4. t = [i \in 1..m - 1 |-> t[i]]
        BY <4>3
      <4>5. QED
        BY <4>1, <4>3, <4>4
    <3>4. \A i \in 1..m - 1 : old[i + 1] = e[i]
      <4> SUFFICES ASSUME NEW i \in 1..m - 1 PROVE old[i + 1] = e[i]
        OBVIOUS
      <4>1. i + 1 \in 1..m
        BY <2>5
      <4>2. QED
        BY <2>7, <2>11, <4>1
    <3>5. new = Tail(old)
      BY <2>6, <2>11, <3>3, <3>4
    <3>6. QED
      BY <2>4, <2>11, <3>2, <3>5
  <2>12. CASE call' = "destroy_queue" /\ k = 0
    <3>1. new = <<>>
      BY <2>6, <2>12
    <3>2. QED
      BY <2>4, <2>12, <3>1
  <2>13. QED
    BY <2>8, <2>9, <2>10, <2>11, <2>12 DEF Serves
<1>2. IInv /\ [QNext]_qvars =>
        [\A q \in Rings :
           LET old == Circle(q)
               new == Circle(q)'
           IN  \/ new = old
               \/ call' = "enqueue" /\ result' = 0 /\ new # <<>> /\ Front(new) = old
               \/ call' = "dequeue" /\ new = Tail(old) /\ result' = data[Head(old)]
               \/ call' = "destroy_queue" /\ new = <<>>]_<<head, next, count>>
  BY <1>1
<1>3. QED
  BY <1>2, AlwaysInv, PTL DEF QSpec, FirstInFirstOut
===============================================================================
