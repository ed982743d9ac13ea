------------------------------ MODULE DListProofs ------------------------------
(***************************************************************************)
(* Proofs about DList: for any number of lists, nodes and values, and      *)
(* however the calls and the loop interleave, every list stays a chain     *)
(* linked in both directions, no node is lost or on two lists, no bad      *)
(* pointer is followed, and the safe loop visits what it found.            *)
(*                                                                         *)
(* The invariant speaks of the chains of all lists at once, for a call on  *)
(* one list stores into nodes and must not disturb another; and it keeps   *)
(* of the running loop that the node read ahead is on the list, not the    *)
(* one the loop is at, unless the body has freed it.                       *)
(***************************************************************************)
EXTENDS DList, SequenceLemmas

(* ch[l] are the nodes of list l, for the fields given: allocated, linked  *)
(* both ways, and on no other list.                                        *)
Picture(ch, ex, hd, tl, ct, al, nx, pv) ==
  /\ \A l \in Lists : Linked(Nodes, ch[l], ct[l], nx, pv, hd[l], tl[l])
  /\ \A l \in Lists : \A i \in 1..ct[l] : ch[l][i] \in al
  /\ \A l \in Lists : ~ex[l] => ct[l] = 0
  /\ \A l, k \in Lists : l # k =>
       \A i \in 1..ct[l], j \in 1..ct[k] : ch[l][i] # ch[k][j]

(* Every allocated node is on a list. *)
Owned(ch, ct, al) == \A n \in al : \E l \in Lists : On(n, ch[l], ct[l])

(* The running loop it: tmp is on the list and is not the node the loop is *)
(* at; the nodes due are distinct, start with node, go on with tmp and     *)
(* follow one another on the list.                                         *)
Loop(ch, ct, nx, it) ==
  /\ it = [list |-> it.list, node |-> it.node, tmp |-> it.tmp, due |-> it.due, trapped |-> it.trapped]
  /\ it.list = NULL => it = NoIter
  /\ it.list # NULL =>
       /\ it.list \in Lists
       /\ it.tmp # NULL => it.tmp # it.node /\ On(it.tmp, ch[it.list], ct[it.list])
  /\ it.tmp \in Ref /\ it.due \in Seq(Nodes)
  /\ Len(it.due) >= 1 => it.node = it.due[1]
  /\ Len(it.due) >= 2 => it.tmp = it.due[2]
  /\ \A i, j \in 1..Len(it.due) : i # j => it.due[i] # it.due[j]
  /\ \A j \in 2..Len(it.due) : On(it.due[j], ch[it.list], ct[it.list])
  /\ \A j \in 2..Len(it.due) - 1 : nx[it.due[j]] = it.due[j + 1]

(* So is every loop whose body has not freed the node read ahead. *)
OnTrack(ch, ct, nx, it) ==
  /\ it = [list |-> it.list, node |-> it.node, tmp |-> it.tmp, due |-> it.due, trapped |-> it.trapped]
  /\ it.trapped \in BOOLEAN
  /\ ~it.trapped => Loop(ch, ct, nx, it)

Chains == [l \in Lists |-> Chain(l)]

(* The inductive invariant. *)
IInv ==
  /\ TypeOK /\ (fault => iter.trapped)
  /\ Picture(Chains, exists, head, tail, count, alive, next, prev)
  /\ merged \/ Owned(Chains, count, alive)
  /\ OnTrack(Chains, count, next, iter)


(* What is said of chains holds of any that agree on the nodes they count. *)
LEMMA SamePicture ==
  ASSUME NEW ch, NEW d, NEW ex, NEW hd, NEW tl, NEW ct, NEW al, NEW nx, NEW pv, NEW it,
         Picture(ch, ex, hd, tl, ct, al, nx, pv),
         \A l \in Lists : \A i \in 1..ct[l] : d[l][i] = ch[l][i]
  PROVE  /\ Picture(d, ex, hd, tl, ct, al, nx, pv)
         /\ Owned(ch, ct, al) => Owned(d, ct, al)
         /\ OnTrack(ch, ct, nx, it) => OnTrack(d, ct, nx, it)
<1>1. \A l \in Lists : Linked(Nodes, d[l], ct[l], nx, pv, hd[l], tl[l])
  <2> SUFFICES ASSUME NEW l \in Lists
               PROVE  Linked(Nodes, d[l], ct[l], nx, pv, hd[l], tl[l])
    OBVIOUS
  <2>1. Linked(Nodes, ch[l], ct[l], nx, pv, hd[l], tl[l])
        /\ \A i \in 1..ct[l] : d[l][i] = ch[l][i]
    BY DEF Picture
  <2>2. QED
    BY <2>1 DEF Linked, Run, Back
<1>2. \A x : \A l \in Lists : On(x, ch[l], ct[l]) => On(x, d[l], ct[l])
  BY DEF On
<1>3. Picture(d, ex, hd, tl, ct, al, nx, pv)
  BY <1>1 DEF Picture
<1>4. Owned(ch, ct, al) => Owned(d, ct, al)
  BY <1>2 DEF Owned
<1>5. Loop(ch, ct, nx, it) => Loop(d, ct, nx, it)
  <2> SUFFICES ASSUME Loop(ch, ct, nx, it) PROVE Loop(d, ct, nx, it)
    OBVIOUS
  <2>1. it.list = NULL => it.due = <<>>
    BY DEF Loop, NoIter
  <2>2. \A j \in 2..Len(it.due) : On(it.due[j], d[it.list], ct[it.list])
    <3>1. CASE it.list = NULL
      BY <2>1, <3>1
    <3>2. CASE it.list # NULL
      BY <1>2, <3>2 DEF Loop
    <3>3. QED
      BY <3>1, <3>2
  <2>3. it.list # NULL => it.list \in Lists /\ (it.tmp # NULL => On(it.tmp, d[it.list], ct[it.list]))
    BY <1>2 DEF Loop
  <2>4. QED
    BY <2>2, <2>3 DEF Loop
<1>6. OnTrack(ch, ct, nx, it) => OnTrack(d, ct, nx, it)
  BY <1>5 DEF OnTrack
<1>7. QED
  BY <1>3, <1>4, <1>6

(* The chain of a list is what the picture shows. *)
LEMMA ChainIs ==
  ASSUME NEW ch, NEW ex, NEW hd, NEW tl, NEW ct, NEW al, NEW nx, NEW pv,
         Picture(ch, ex, hd, tl, ct, al, nx, pv), NEW l \in Lists
  PROVE  /\ Shows(Walk(nx, hd[l], Cardinality(Nodes)), ch[l], ct[l])
         /\ ct[l] \in 0..Cardinality(Nodes) /\ Cardinality(Nodes) \in Nat
<1>1. Run(Nodes, ch[l], ct[l], nx, hd[l]) /\ ct[l] \in Nat
  BY DEF Picture, Linked, Run
<1>2. IsFiniteSet(Nodes) /\ NULL \notin Nodes
  BY NodesAssumption
<1> DEFINE c == ch[l]
           m == ct[l]
           h == hd[l]
           n == Cardinality(Nodes)
<1>3. Run(Nodes, c, m, nx, h) /\ m \in Nat
  BY <1>1
<1> HIDE DEF c, m, h
<1>4. m <= n /\ n \in Nat
  BY <1>2, <1>3, RunBounded
<1> HIDE DEF n
<1>5. Shows(Walk(nx, h, n), c, IF m <= n THEN m ELSE n + 1)
  BY <1>2, <1>3, <1>4, WalkOfRun
<1>6. Shows(Walk(nx, h, n), c, m) /\ m \in 0..n
  BY <1>3, <1>4, <1>5
<1>7. QED
  BY <1>4, <1>6 DEF c, m, h, n

(* To restore the invariant it is enough to tell the new chains. *)
LEMMA Restore ==
  ASSUME NEW ch, Picture(ch, exists', head', tail', count', alive', next', prev'),
         merged' \/ Owned(ch, count', alive'), OnTrack(ch, count', next', iter'),
         exists' \in [Lists -> BOOLEAN], head' \in [Lists -> Ref], tail' \in [Lists -> Ref],
         count' = [l \in Lists |-> count'[l]], alive' \subseteq Nodes,
         next' \in [Nodes -> Ref], prev' \in [Nodes -> Ref], data' \in [Nodes -> Elem],
         fault' \in BOOLEAN, fault' => iter'.trapped, merged' \in BOOLEAN
  PROVE  IInv'
<1>1. \A l \in Lists : /\ Shows(Walk(next', head'[l], Cardinality(Nodes)), ch[l], count'[l])
                       /\ count'[l] \in 0..Cardinality(Nodes)
  BY ChainIs
<1>2. Chains' = [l \in Lists |-> Walk(next', head'[l], Cardinality(Nodes))]
  BY DEF Chains, Chain, WalkTo
<1>3. \A l \in Lists : \A i \in 1..count'[l] : (Chains')[l][i] = ch[l][i]
  BY <1>1, <1>2 DEF Shows
<1>4. PICK d : d = Chains'
  OBVIOUS
<1>5. \A l \in Lists : \A i \in 1..count'[l] : d[l][i] = ch[l][i]
  BY <1>3, <1>4
<1>6. /\ Picture(d, exists', head', tail', count', alive', next', prev')
      /\ Owned(ch, count', alive') => Owned(d, count', alive')
      /\ OnTrack(ch, count', next', iter') => OnTrack(d, count', next', iter')
  BY <1>5, SamePicture
<1>7. count' \in [Lists -> 0..Cardinality(Nodes)]
  BY <1>1
<1>8. TypeOK'
  BY <1>7 DEF TypeOK
<1>9. Picture(Chains, exists, head, tail, count, alive, next, prev)'
  BY <1>4, <1>6
<1>10. QED
  BY <1>4, <1>6, <1>8, <1>9 DEF IInv

(* The loop stays right while the nodes other than the one it is at stay   *)
(* on its list, followed by what followed them.                            *)
LEMMA LoopKept ==
  ASSUME NEW ch, NEW ct, NEW nx, NEW it, Loop(ch, ct, nx, it), NEW d, NEW ct2, NEW nx2,
         it.list \in Lists =>
           \A x \in Nodes : On(x, ch[it.list], ct[it.list]) /\ x # it.node =>
             /\ On(x, d[it.list], ct2[it.list])
             /\ nx[x] \notin {NULL, it.node} => nx2[x] = nx[x]
  PROVE  Loop(d, ct2, nx2, it)
<1> DEFINE n == Len(it.due)
<1>1. n \in Nat /\ (\A j \in 1..n : it.due[j] \in Nodes) /\ NULL \notin Nodes
  BY LenProperties, ElementOfSeq, NodesAssumption DEF Loop
<1>2. it.list = NULL => n = 0
  BY DEF Loop, NoIter
<1>3. n >= 1 => it.node = it.due[1]
  BY DEF Loop
<1>4. \A i, j \in 1..n : i # j => it.due[i] # it.due[j]
  BY DEF Loop
<1>5. \A j \in 2..n : On(it.due[j], ch[it.list], ct[it.list])
  BY DEF Loop
<1>6. \A j \in 2..n - 1 : nx[it.due[j]] = it.due[j + 1]
  BY DEF Loop
<1> HIDE DEF n
<1>7. \A j \in 2..n : it.due[j] # it.node /\ it.due[j] \in Nodes /\ it.list \in Lists
  <2> SUFFICES ASSUME NEW j \in 2..n
               PROVE  it.due[j] # it.node /\ it.due[j] \in Nodes /\ it.list \in Lists
    OBVIOUS
  <2>1. j \in 1..n /\ 1 \in 1..n /\ j # 1 /\ n >= 1 /\ n # 0
    BY <1>1
  <2>2. it.list # NULL
    BY <1>2, <2>1
  <2>3. it.list \in Lists
    BY <2>2 DEF Loop
  <2>4. QED
    BY <1>1, <1>3, <1>4, <2>1, <2>3
<1>8. \A j \in 2..n : On(it.due[j], d[it.list], ct2[it.list])
  BY <1>5, <1>7
<1>9. \A j \in 2..n - 1 : nx2[it.due[j]] = it.due[j + 1]
  <2> SUFFICES ASSUME NEW j \in 2..n - 1 PROVE nx2[it.due[j]] = it.due[j + 1]
    OBVIOUS
  <2>1. j \in 2..n /\ j + 1 \in 2..n /\ j + 1 \in 1..n
    BY <1>1
  <2>2. nx[it.due[j]] = it.due[j + 1] /\ it.due[j + 1] # NULL /\ it.due[j + 1] # it.node
    BY <1>1, <1>6, <1>7, <2>1
  <2>3. QED
    BY <1>5, <1>7, <2>1, <2>2
<1>10. it.list # NULL => it.list \in Lists /\ (it.tmp # NULL => it.tmp # it.node /\ On(it.tmp, d[it.list], ct2[it.list]))
  BY DEF Loop, Ref
<1>11. QED
  BY <1>8, <1>9, <1>10 DEF Loop, n

(* A loop that lost its way stays lost. *)
LEMMA TrackKept ==
  ASSUME NEW ch, NEW ct, NEW nx, NEW it, OnTrack(ch, ct, nx, it), NEW d, NEW ct2, NEW nx2,
         it.list \in Lists =>
           \A x \in Nodes : On(x, ch[it.list], ct[it.list]) /\ x # it.node =>
             /\ On(x, d[it.list], ct2[it.list])
             /\ nx[x] \notin {NULL, it.node} => nx2[x] = nx[x]
  PROVE  OnTrack(d, ct2, nx2, it)
<1>1. Loop(ch, ct, nx, it) => Loop(d, ct2, nx2, it)
  BY LoopKept
<1>2. QED
  BY <1>1 DEF OnTrack

(* What the invariant says of the present chains. *)
LEMMA Present ==
  ASSUME IInv
  PROVE  \E ch : /\ ch = Chains
                 /\ Picture(ch, exists, head, tail, count, alive, next, prev)
                 /\ merged \/ Owned(ch, count, alive)
                 /\ OnTrack(ch, count, next, iter)
                 /\ \A l \in Lists : ch[l] = Chain(l) /\ Shows(Chain(l), ch[l], count[l])
<1>1. PICK ch : ch = Chains
  OBVIOUS
<1>2. Picture(ch, exists, head, tail, count, alive, next, prev)
  BY <1>1 DEF IInv
<1>3. \A l \in Lists : Shows(Chain(l), ch[l], count[l])
  BY <1>2, ChainIs DEF Chain, WalkTo
<1>4. \A l \in Lists : ch[l] = Chain(l)
  BY <1>1 DEF Chains
<1>5. QED
  BY <1>1, <1>2, <1>3, <1>4 DEF IInv

(* The fields of a list, one node at a time. *)
LEMMA Fields ==
  ASSUME NEW ch, NEW ex, NEW hd, NEW tl, NEW ct, NEW al, NEW nx, NEW pv,
         Picture(ch, ex, hd, tl, ct, al, nx, pv), al \subseteq Nodes, NEW l \in Lists
  PROVE  /\ ct[l] \in Nat
         /\ hd[l] = Behind(ch[l], ct[l], 0) /\ tl[l] = Before(ch[l], ct[l])
         /\ \A i \in 1..ct[l] :
              /\ ch[l][i] \in Nodes /\ ch[l][i] \in al /\ ch[l][i] # NULL
              /\ nx[ch[l][i]] = Behind(ch[l], ct[l], i)
              /\ pv[ch[l][i]] = Before(ch[l], i - 1)
         /\ \A i, j \in 1..ct[l] : ch[l][i] = ch[l][j] => i = j
<1>1. Linked(Nodes, ch[l], ct[l], nx, pv, hd[l], tl[l]) /\ NULL \notin Nodes
  BY NodesAssumption DEF Picture
<1>2. Run(Nodes, ch[l], ct[l], nx, hd[l]) /\ Back(ch[l], ct[l], pv, tl[l])
  BY <1>1 DEF Linked
<1>3. \A i, j \in 1..ct[l] : ch[l][i] = ch[l][j] => i = j
  BY <1>1, <1>2, RunInjective
<1>4. \A i \in 1..ct[l] : ch[l][i] \in al
  BY DEF Picture
<1> DEFINE c == ch[l]
           m == ct[l]
<1>5. Run(Nodes, c, m, nx, hd[l]) /\ Back(c, m, pv, tl[l]) /\ \A i \in 1..m : c[i] \in al
  BY <1>2, <1>4
<1> HIDE DEF c, m
<1>6. m \in Nat /\ hd[l] = Behind(c, m, 0) /\ tl[l] = Before(c, m)
  BY <1>5 DEF Run, Back, Behind, Before
<1>7. \A i \in 1..m : /\ c[i] \in Nodes /\ c[i] \in al /\ c[i] # NULL
                      /\ nx[c[i]] = Behind(c, m, i)
                      /\ pv[c[i]] = Before(c, i - 1)
  BY <1>1, <1>5, <1>6 DEF Run, Back, Behind, Before
<1>8. QED
  BY <1>3, <1>6, <1>7 DEF c, m

(* The same of all lists of the state at once. *)
LEMMA AllFields ==
  ASSUME TypeOK, NEW ch, Picture(ch, exists, head, tail, count, alive, next, prev)
  PROVE  \A k \in Lists :
           /\ count[k] \in Nat
           /\ head[k] = Behind(ch[k], count[k], 0) /\ tail[k] = Before(ch[k], count[k])
           /\ \A j \in 1..count[k] :
                /\ ch[k][j] \in Nodes /\ ch[k][j] \in alive /\ ch[k][j] # NULL
                /\ next[ch[k][j]] = Behind(ch[k], count[k], j)
                /\ prev[ch[k][j]] = Before(ch[k], j - 1)
           /\ \A j, r \in 1..count[k] : ch[k][j] = ch[k][r] => j = r
<1>1. alive \subseteq Nodes
  BY DEF TypeOK
<1>2. QED
  BY <1>1, Fields

-------------------------------------------------------------------------------
(* The shapes the operations share keep the invariant. *)

(* A step that makes e the nodes of list l and leaves every other list     *)
(* alone.                                                                  *)
LEMMA OneListChanges ==
  ASSUME NEW ch, Picture(ch, exists, head, tail, count, alive, next, prev),
         NEW l \in Lists, NEW e,
         Linked(Nodes, e, count'[l], next', prev', head'[l], tail'[l]),
         \A j \in 1..count'[l] : e[j] \in alive',
         ~exists'[l] => count'[l] = 0,
         \A k \in Lists \ {l} :
           /\ exists'[k] = exists[k] /\ count'[k] = count[k]
           /\ head'[k] = head[k] /\ tail'[k] = tail[k]
           /\ \A j \in 1..count[k] :
                /\ next'[ch[k][j]] = next[ch[k][j]] /\ prev'[ch[k][j]] = prev[ch[k][j]]
                /\ ch[k][j] \in alive'
                /\ \A s \in 1..count'[l] : e[s] # ch[k][j]
  PROVE  Picture([k \in Lists |-> IF k = l THEN e ELSE ch[k]],
                 exists', head', tail', count', alive', next', prev')
<1> DEFINE d == [k \in Lists |-> IF k = l THEN e ELSE ch[k]]
<1>1. d[l] = e /\ \A k \in Lists \ {l} : d[k] = ch[k]
  OBVIOUS
<1> HIDE DEF d
<1>2. \A k \in Lists : Linked(Nodes, d[k], count'[k], next', prev', head'[k], tail'[k])
  <2> SUFFICES ASSUME NEW k \in Lists
               PROVE  Linked(Nodes, d[k], count'[k], next', prev', head'[k], tail'[k])
    OBVIOUS
  <2>1. CASE k = l
    BY <1>1, <2>1
  <2>2. CASE k # l
    <3>1. Linked(Nodes, ch[k], count[k], next, prev, head[k], tail[k])
      BY DEF Picture
    <3>2. \A j \in 1..count[k] : next'[ch[k][j]] = next[ch[k][j]] /\ prev'[ch[k][j]] = prev[ch[k][j]]
      BY <2>2
    <3>3. Linked(Nodes, ch[k], count[k], next', prev', head[k], tail[k])
      BY <3>1, <3>2, OthersLinked
    <3>4. QED
      BY <1>1, <2>2, <3>3
  <2>3. QED
    BY <2>1, <2>2
<1>3. \A k \in Lists : \A j \in 1..count'[k] : d[k][j] \in alive'
  BY <1>1
<1>4. \A k \in Lists : ~exists'[k] => count'[k] = 0
  BY DEF Picture
<1>5. \A k, r \in Lists : k # r => \A j \in 1..count'[k], s \in 1..count'[r] : d[k][j] # d[r][s]
  <2>1. \A k, r \in Lists \ {l} : k # r => \A j \in 1..count[k], s \in 1..count[r] : ch[k][j] # ch[r][s]
    BY DEF Picture
  <2>2. QED
    BY <1>1, <2>1
<1>6. Picture(d, exists', head', tail', count', alive', next', prev')
  BY <1>2, <1>3, <1>4, <1>5 DEF Picture
<1>7. QED
  BY <1>6 DEF d

(* A new node in the gap behind the i-th; at the ends only while a loop    *)
(* runs on the list.                                                       *)
LEMMA LinkStep ==
  ASSUME IInv, NEW l \in Lists, exists[l], NEW i \in Nat, i <= count[l],
         NEW p, p = Before(Chain(l), i), NEW q, q = Behind(Chain(l), count[l], i),
         NEW v \in Elem, Link(l, p, q, v), UNCHANGED <<iter, fault, merged>>,
         iter.list = l => i \in {0, count[l]}
  PROVE  IInv'
<1>1. PICK ch : /\ Picture(ch, exists, head, tail, count, alive, next, prev)
                /\ merged \/ Owned(ch, count, alive)
                /\ OnTrack(ch, count, next, iter)
                /\ \A k \in Lists : ch[k] = Chain(k)
  BY Present
<1>2. TypeOK /\ (fault => iter.trapped) /\ NULL \notin Nodes /\ IsFiniteSet(Nodes)
  BY NodesAssumption DEF IInv
<1> DEFINE c == ch[l]
           m == count[l]
<1>3. p = Before(c, i) /\ q = Behind(c, m, i)
  BY <1>1
<1>4. PICK n \in Nodes \ alive :
        /\ alive' = alive \cup {n}
        /\ next' = [x \in Nodes |-> IF x = n THEN q ELSE IF x = p THEN n ELSE next[x]]
        /\ prev' = [x \in Nodes |-> IF x = n THEN p ELSE IF x = q THEN n ELSE prev[x]]
        /\ data' = [data EXCEPT ![n] = v]
        /\ Header(l, IF p = NULL THEN n ELSE head[l], IF q = NULL THEN n ELSE tail[l], m + 1)
  BY DEF Link
<1>5. /\ head' = [head EXCEPT ![l] = IF p = NULL THEN n ELSE head[l]]
      /\ tail' = [tail EXCEPT ![l] = IF q = NULL THEN n ELSE tail[l]]
      /\ count' = [count EXCEPT ![l] = m + 1] /\ exists' = exists
  BY <1>4 DEF Header
<1>6. \A k \in Lists :
        /\ count[k] \in Nat
        /\ head[k] = Behind(ch[k], count[k], 0) /\ tail[k] = Before(ch[k], count[k])
        /\ \A j \in 1..count[k] :
             /\ ch[k][j] \in Nodes /\ ch[k][j] \in alive /\ ch[k][j] # NULL
             /\ next[ch[k][j]] = Behind(ch[k], count[k], j)
             /\ prev[ch[k][j]] = Before(ch[k], j - 1)
        /\ \A j, r \in 1..count[k] : ch[k][j] = ch[k][r] => j = r
  BY <1>1, <1>2, AllFields
<1>7. p \in Ref /\ q \in Ref /\ (p # NULL => On(p, c, m)) /\ (q # NULL => On(q, c, m))
  BY <1>3, <1>6 DEF Before, Behind, Ref, On
<1> DEFINE e == [k \in 1..m + 1 |-> IF k <= i THEN c[k] ELSE IF k = i + 1 THEN n ELSE c[k - 1]]
           d == [k \in Lists |-> IF k = l THEN e ELSE ch[k]]
<1>8. \A k \in Lists : count'[k] = IF k = l THEN m + 1 ELSE count[k]
  BY <1>2, <1>5 DEF TypeOK
<1>9. d[l] = e /\ (\A k \in Lists \ {l} : d[k] = ch[k])
      /\ (\A k \in 1..m + 1 : e[k] = IF k <= i THEN c[k] ELSE IF k = i + 1 THEN n ELSE c[k - 1])
  OBVIOUS
<1>10. \A x \in Nodes : /\ next'[x] = IF x = n THEN q ELSE IF x = p THEN n ELSE next[x]
                        /\ prev'[x] = IF x = n THEN p ELSE IF x = q THEN n ELSE prev[x]
  BY <1>4
<1>11. Linked(Nodes, c, m, next, prev, head[l], tail[l])
  BY <1>1 DEF Picture
<1>12. m \in Nat /\ \A k \in 1..m : c[k] # n
  BY <1>4, <1>6
<1>13. head'[l] = (IF p = NULL THEN n ELSE head[l]) /\ tail'[l] = IF q = NULL THEN n ELSE tail[l]
  BY <1>2, <1>5 DEF TypeOK
<1> HIDE DEF c, m, e, d
<1>14. Linked(Nodes, e, m + 1, next', prev', head'[l], tail'[l])
  <2>1. Inserted(Nodes, c, m, i, n, next, prev, head[l], tail[l],
                 next', prev', head'[l], tail'[l], e)
    BY <1>3, <1>4, <1>9, <1>10, <1>12, <1>13, i <= m DEF Inserted, m
  <2>2. QED
    BY <1>2, <1>11, <2>1, InsertLinked
<1>i. i <= m
  BY DEF m
<1>15. \A k \in Lists \ {l} : \A j \in 1..count[k] :
         /\ next'[ch[k][j]] = next[ch[k][j]] /\ prev'[ch[k][j]] = prev[ch[k][j]]
         /\ ch[k][j] # n
  <2> SUFFICES ASSUME NEW k \in Lists \ {l}, NEW j \in 1..count[k]
               PROVE  /\ next'[ch[k][j]] = next[ch[k][j]] /\ prev'[ch[k][j]] = prev[ch[k][j]]
                      /\ ch[k][j] # n
    OBVIOUS
  <2>1. \A r \in 1..m : c[r] # ch[k][j]
    BY <1>1 DEF Picture, c, m
  <2>2. ch[k][j] # n /\ ch[k][j] # p /\ ch[k][j] # q /\ ch[k][j] \in Nodes
    BY <1>4, <1>6, <1>7, <2>1 DEF On
  <2>3. QED
    BY <1>10, <2>2
<1>16. Picture(d, exists', head', tail', count', alive', next', prev')
  <2>1. \A j \in 1..m + 1 : e[j] \in alive'
    BY <1>4, <1>6, <1>9, <1>12, <1>i DEF c, m
  <2>2. \A k \in Lists \ {l} : \A j \in 1..count[k], s \in 1..m + 1 : e[s] # ch[k][j]
    <3> SUFFICES ASSUME NEW k \in Lists \ {l}, NEW j \in 1..count[k], NEW s \in 1..m + 1
                 PROVE  e[s] # ch[k][j]
      OBVIOUS
    <3>1. \A r \in 1..m : c[r] # ch[k][j]
      BY <1>1 DEF Picture, c, m
    <3>2. QED
      BY <1>9, <1>12, <1>15, <1>i, <3>1
  <2>3. \A k \in Lists \ {l} : /\ exists'[k] = exists[k] /\ count'[k] = count[k]
                               /\ head'[k] = head[k] /\ tail'[k] = tail[k]
    BY <1>2, <1>5, <1>8 DEF TypeOK
  <2>4. \A k \in Lists \ {l} : \A j \in 1..count[k] :
          /\ next'[ch[k][j]] = next[ch[k][j]] /\ prev'[ch[k][j]] = prev[ch[k][j]]
          /\ ch[k][j] \in alive'
          /\ \A s \in 1..m + 1 : e[s] # ch[k][j]
    BY <1>4, <1>6, <1>15, <2>2
  <2>5. count'[l] = m + 1 /\ exists'[l]
    BY <1>5, <1>8
  <2>6. Picture([k \in Lists |-> IF k = l THEN e ELSE ch[k]],
                exists', head', tail', count', alive', next', prev')
    BY <1>1, <1>14, <2>1, <2>3, <2>4, <2>5, OneListChanges
  <2>7. QED
    BY <2>6 DEF d
<1>17. \A x : \A k \in Lists : On(x, ch[k], count[k]) => On(x, d[k], count'[k])
  <2> SUFFICES ASSUME NEW x, NEW k \in Lists, On(x, ch[k], count[k])
               PROVE  On(x, d[k], count'[k])
    OBVIOUS
  <2>1. CASE k # l
    BY <1>8, <1>9, <2>1
  <2>2. CASE k = l
    <3>1. PICK j \in 1..m : c[j] = x
      BY <2>2 DEF On, c, m
    <3>2. CASE j <= i
      <4>1. j \in 1..m + 1 /\ e[j] = x
        BY <1>9, <1>12, <3>1, <3>2
      <4>2. QED
        BY <1>8, <1>9, <2>2, <4>1 DEF On
    <3>3. CASE ~(j <= i)
      <4>1. j + 1 \in 1..m + 1 /\ e[j + 1] = x
        BY <1>9, <1>12, <3>1, <3>3
      <4>2. QED
        BY <1>8, <1>9, <2>2, <4>1 DEF On
    <3>4. QED
      BY <3>2, <3>3
  <2>3. QED
    BY <2>1, <2>2
<1>18. On(n, d[l], count'[l])
  <2>1. i + 1 \in 1..m + 1 /\ e[i + 1] = n
    BY <1>9, <1>12, <1>i
  <2>2. QED
    BY <1>8, <1>9, <2>1 DEF On
<1>19. merged' \/ Owned(d, count', alive')
  BY <1>1, <1>4, <1>17, <1>18 DEF Owned
<1>20. OnTrack(d, count', next', iter')
  <2>1. iter.list \in Lists =>
          \A x \in Nodes : On(x, ch[iter.list], count[iter.list]) /\ x # iter.node =>
            /\ On(x, d[iter.list], count'[iter.list])
            /\ next[x] \notin {NULL, iter.node} => next'[x] = next[x]
    <3> SUFFICES ASSUME iter.list \in Lists, NEW x \in Nodes,
                        On(x, ch[iter.list], count[iter.list]),
                        next[x] # NULL
                 PROVE  next'[x] = next[x]
      BY <1>17
    <3>1. CASE iter.list # l
      BY <1>15, <3>1 DEF On
    <3>2. CASE iter.list = l
      <4>1. PICK j \in 1..m : c[j] = x
        BY <3>2 DEF On, c, m
      <4>2. j # m
        BY <1>6, <4>1 DEF Behind, c, m
      <4>3. p = NULL \/ (p = c[m] /\ m \in 1..m)
        BY <1>3, <1>12, <3>2 DEF Before, m
      <4>4. x # p /\ x # n
        BY <1>2, <1>6, <1>12, <4>1, <4>2, <4>3 DEF c, m
      <4>5. QED
        BY <1>10, <4>4
    <3>3. QED
      BY <3>1, <3>2
  <2>2. iter' = iter
    OBVIOUS
  <2>3. QED
    BY <1>1, <2>1, <2>2, TrackKept
<1>21. /\ exists' \in [Lists -> BOOLEAN] /\ head' \in [Lists -> Ref] /\ tail' \in [Lists -> Ref]
       /\ count' = [k \in Lists |-> count'[k]] /\ alive' \subseteq Nodes
  BY <1>2, <1>4, <1>5 DEF TypeOK, Ref
<1>22. next' \in [Nodes -> Ref] /\ prev' \in [Nodes -> Ref] /\ data' \in [Nodes -> Elem]
  <2>1. next' \in [Nodes -> Ref] /\ prev' \in [Nodes -> Ref]
    BY <1>2, <1>4, <1>7 DEF TypeOK, Ref
  <2>2. data' \in [Nodes -> Elem]
    BY <1>2, <1>4 DEF TypeOK
  <2>3. QED
    BY <2>1, <2>2
<1>23. fault' \in BOOLEAN /\ (fault' => iter'.trapped) /\ merged' \in BOOLEAN
  BY <1>2 DEF TypeOK
<1>24. QED
  BY <1>16, <1>19, <1>20, <1>21, <1>22, <1>23, Restore

(* The sequence s of distinct elements without n: what stood behind it     *)
(* moves up.                                                               *)
LEMMA RemoveFirstIs ==
  ASSUME NEW S, NEW s \in Seq(S), NEW n,
         \A i, j \in 1..Len(s) : i # j => s[i] # s[j]
  PROVE  /\ (\A i \in 1..Len(s) : s[i] # n) => RemoveFirst(s, n) = s
         /\ \A k \in 1..Len(s) : s[k] = n =>
              /\ RemoveFirst(s, n) \in Seq(S) /\ Len(RemoveFirst(s, n)) = Len(s) - 1
              /\ \A j \in 1..Len(s) - 1 :
                   RemoveFirst(s, n)[j] = IF j < k THEN s[j] ELSE s[j + 1]
<1>1. (\A i \in 1..Len(s) : s[i] # n) => RemoveFirst(s, n) = s
  BY DEF RemoveFirst
<1>2. ASSUME NEW k \in 1..Len(s), s[k] = n
      PROVE  /\ RemoveFirst(s, n) \in Seq(S) /\ Len(RemoveFirst(s, n)) = Len(s) - 1
             /\ \A j \in 1..Len(s) - 1 :
                  RemoveFirst(s, n)[j] = IF j < k THEN s[j] ELSE s[j + 1]
  <2> DEFINE at == {i \in 1..Len(s) : s[i] = n}
             w == RemoveAt(s, k)
  <2>1. Len(s) \in Nat
    BY LenProperties
  <2>2. at = {k}
    BY <1>2
  <2>3. RemoveFirst(s, n) = RemoveAt(s, IF at # {} THEN Min(at) ELSE 0)
    BY <1>2, Zenon DEF RemoveFirst, SelectInSeq
  <2>4. at \in SUBSET Nat /\ at # {}
    BY <2>1, <2>2
  <2> HIDE DEF at
  <2>5. Min(at) = k
    BY <2>2, <2>4, MinIsLeast
  <2>6. RemoveFirst(s, n) = w
    BY <2>3, <2>4, <2>5, Zenon
  <2>7. k - 1 \in Nat /\ k \in Nat /\ k - 1 <= Len(s) /\ k - 1 <= k /\ k <= Len(s)
    BY <2>1
  <2>8. w = CutOut(s, k - 1, k)
    BY DEF CutOut, RemoveAt
  <2>9. IsCut(S, w, s, k - 1, k)
    BY <2>7, <2>8, CutOutIs
  <2> HIDE DEF w
  <2>10. w \in Seq(S) /\ Len(w) = Len(s) - 1
    BY <2>1, <2>7, <2>9 DEF IsCut
  <2>11. ASSUME NEW j \in 1..Len(s) - 1 PROVE w[j] = IF j < k THEN s[j] ELSE s[j + 1]
    <3>1. w[j] = IF j <= k - 1 THEN s[j] ELSE s[j + (k - (k - 1))]
      BY <2>9, <2>10 DEF IsCut
    <3>2. j \in Nat /\ (j <= k - 1 <=> j < k) /\ j + (k - (k - 1)) = j + 1
      BY <2>1, <2>7
    <3>3. QED
      BY <3>1, <3>2
  <2>12. QED
    BY <2>6, <2>10, <2>11
<1>3. QED
  BY <1>1, <1>2

(* A node n leaves the chain c of m nodes: the others stay, d, and what    *)
(* came before n is followed by what came behind it.                       *)
Leaves(n, c, m, nx, d, m2, nx2) ==
  \A x \in Nodes : On(x, c, m) /\ x # n =>
    /\ On(x, d, m2)
    /\ nx2[x] = IF nx[x] = n THEN nx[n] ELSE nx[x]

(* The loop it2 is it without n among the nodes due. *)
Shortened(it2, it, n) ==
  it2 = [list |-> it.list, node |-> it.node, tmp |-> it.tmp,
         due |-> RemoveFirst(it.due, n), trapped |-> it.trapped]

(* The loop stays right when a node leaves that it neither is at nor has   *)
(* read ahead, and its neighbours are linked.                              *)
LEMMA LoopShortened ==
  ASSUME NEW ch, NEW ct, NEW nx, NEW it, Loop(ch, ct, nx, it), it.list \in Lists,
         NEW n \in Nodes, n # it.node, n # it.tmp, NEW d, NEW ct2, NEW nx2,
         Leaves(n, ch[it.list], ct[it.list], nx, d[it.list], ct2[it.list], nx2),
         NEW it2, Shortened(it2, it, n)
  PROVE  Loop(d, ct2, nx2, it2)
<1> DEFINE s == it.due
           m == Len(it.due)
           w == RemoveFirst(s, n)
<1>1. /\ s \in Seq(Nodes) /\ m \in Nat /\ (\A j \in 1..m : s[j] \in Nodes) /\ m = Len(s)
      /\ (m >= 1 => it.node = s[1]) /\ (m >= 2 => it.tmp = s[2])
      /\ \A i, j \in 1..m : i # j => s[i] # s[j]
      /\ \A j \in 2..m : On(s[j], ch[it.list], ct[it.list])
      /\ \A j \in 2..m - 1 : nx[s[j]] = s[j + 1]
  BY LenProperties, ElementOfSeq DEF Loop
<1>2. /\ it2.list = it.list /\ it2.node = it.node /\ it2.tmp = it.tmp /\ it2.due = w
      /\ it2 = [list |-> it2.list, node |-> it2.node, tmp |-> it2.tmp, due |-> it2.due,
                trapped |-> it2.trapped]
  BY DEF Shortened
<1>n. \A x \in Nodes : On(x, ch[it.list], ct[it.list]) /\ x # n =>
        /\ On(x, d[it.list], ct2[it.list])
        /\ nx2[x] = IF nx[x] = n THEN nx[n] ELSE nx[x]
  BY DEF Leaves
<1>3. /\ it.list # NULL /\ it.tmp \in Ref
      /\ it.tmp # NULL => it.tmp # it.node /\ On(it.tmp, ch[it.list], ct[it.list])
  BY NodesAssumption DEF Loop
<1>4. it.tmp # NULL => On(it.tmp, d[it.list], ct2[it.list])
  BY <1>3, <1>n DEF Ref
<1> HIDE DEF s, m
<1>5. /\ (\A i \in 1..m : s[i] # n) => w = s
      /\ \A k \in 1..m : s[k] = n =>
           /\ w \in Seq(Nodes) /\ Len(w) = m - 1
           /\ \A j \in 1..m - 1 : w[j] = IF j < k THEN s[j] ELSE s[j + 1]
  BY <1>1, RemoveFirstIs
<1> HIDE DEF w
<1>f. ASSUME w \in Seq(Nodes), NEW r \in Nat, Len(w) = r,
             r >= 1 => it.node = w[1], r >= 2 => it.tmp = w[2],
             \A i, j \in 1..r : i # j => w[i] # w[j],
             \A j \in 2..r : On(w[j], d[it.list], ct2[it.list]),
             \A j \in 2..r - 1 : nx2[w[j]] = w[j + 1]
      PROVE  Loop(d, ct2, nx2, it2)
  <2>1. it2.list \in Lists /\ it2.list # NULL
    BY <1>2, <1>3
  <2>2. it2.tmp # NULL => it2.tmp # it2.node /\ On(it2.tmp, d[it2.list], ct2[it2.list])
    BY <1>2, <1>3, <1>4
  <2>3. it2.tmp \in Ref /\ it2.due \in Seq(Nodes) /\ Len(it2.due) = r
    BY <1>2, <1>3, <1>f
  <2>4. (r >= 1 => it2.node = it2.due[1]) /\ (r >= 2 => it2.tmp = it2.due[2])
    BY <1>2, <1>f
  <2>5. \A i, j \in 1..r : i # j => it2.due[i] # it2.due[j]
    BY <1>2, <1>f
  <2>6. \A j \in 2..r : On(it2.due[j], d[it2.list], ct2[it2.list])
    BY <1>2, <1>f
  <2>7. \A j \in 2..r - 1 : nx2[it2.due[j]] = it2.due[j + 1]
    BY <1>2, <1>f
  <2>8. QED
    BY <1>2, <2>1, <2>2, <2>3, <2>4, <2>5, <2>6, <2>7 DEF Loop
<1>6. CASE \A i \in 1..m : s[i] # n
  <2>1. w = s /\ Len(w) = m
    BY <1>1, <1>5, <1>6
  <2>2. \A j \in 2..m : On(s[j], d[it.list], ct2[it.list])
    BY <1>1, <1>6, <1>n
  <2>3. \A j \in 2..m - 1 : nx2[s[j]] = s[j + 1]
    <3> SUFFICES ASSUME NEW j \in 2..m - 1 PROVE nx2[s[j]] = s[j + 1]
      OBVIOUS
    <3>1. j \in 2..m /\ j \in 1..m /\ j + 1 \in 1..m
      BY <1>1
    <3>2. nx[s[j]] = s[j + 1] /\ s[j + 1] # n /\ s[j] # n /\ s[j] \in Nodes
      BY <1>1, <1>6, <3>1
    <3>3. QED
      BY <1>1, <1>n, <3>1, <3>2
  <2>4. QED
    BY <1>1, <1>f, <2>1, <2>2, <2>3
<1>7. ASSUME NEW k \in 1..m, s[k] = n PROVE Loop(d, ct2, nx2, it2)
  <2>1. k >= 3 /\ k \in Nat /\ k <= m
    BY <1>1, <1>7
  <2>2. /\ w \in Seq(Nodes) /\ Len(w) = m - 1
        /\ \A j \in 1..m - 1 : w[j] = IF j < k THEN s[j] ELSE s[j + 1]
    BY <1>5, <1>7
  <2>3. w[1] = s[1] /\ w[2] = s[2] /\ m - 1 >= 2
    BY <1>1, <2>1, <2>2
  <2> DEFINE at(j) == IF j < k THEN j ELSE j + 1
  <2>4. \A j \in 1..m - 1 : w[j] = s[at(j)] /\ at(j) \in 1..m /\ at(j) # k
                           /\ (j >= 2 => at(j) \in 2..m)
    BY <1>1, <2>1, <2>2
  <2>5. \A i, j \in 1..m - 1 : i # j => w[i] # w[j]
    <3> SUFFICES ASSUME NEW i \in 1..m - 1, NEW j \in 1..m - 1, i # j PROVE w[i] # w[j]
      OBVIOUS
    <3>1. at(i) # at(j)
      BY <1>1, <2>1
    <3>2. QED
      BY <1>1, <2>4, <3>1
  <2>6. \A j \in 2..m - 1 : On(w[j], d[it.list], ct2[it.list])
    <3> SUFFICES ASSUME NEW j \in 2..m - 1 PROVE On(w[j], d[it.list], ct2[it.list])
      OBVIOUS
    <3>1. j \in 1..m - 1 /\ j >= 2
      BY <1>1
    <3>2. PICK a \in 2..m : w[j] = s[a] /\ a # k /\ a \in 1..m
      BY <2>4, <3>1
    <3>3. s[a] # n /\ s[a] \in Nodes /\ On(s[a], ch[it.list], ct[it.list])
      BY <1>1, <1>7, <3>2
    <3>4. QED
      BY <1>n, <3>2, <3>3
  <2>7. \A j \in 2..m - 2 : nx2[w[j]] = w[j + 1]
    <3> SUFFICES ASSUME NEW j \in 2..m - 2 PROVE nx2[w[j]] = w[j + 1]
      OBVIOUS
    <3>1. j \in 2..m - 1 /\ j \in 1..m - 1 /\ j + 1 \in 1..m - 1 /\ j \in Nat
      BY <1>1
    <3>2. CASE j < k
      <4>1. w[j] = s[j] /\ j # k /\ j \in 1..m /\ j \in 2..m /\ nx[s[j]] = s[j + 1]
        BY <1>1, <2>2, <3>1, <3>2
      <4>2. s[j] # n /\ s[j] \in Nodes /\ On(s[j], ch[it.list], ct[it.list])
        BY <1>1, <1>7, <4>1
      <4>3. CASE j + 1 < k
        <5>1. w[j + 1] = s[j + 1] /\ j + 1 \in 1..m /\ j + 1 # k
          BY <1>1, <2>2, <3>1, <4>3
        <5>2. s[j + 1] # n
          BY <1>1, <1>7, <5>1
        <5>3. QED
          BY <1>n, <4>1, <4>2, <5>1, <5>2
      <4>4. CASE j + 1 = k
        <5>1. w[j + 1] = s[k + 1] /\ k \in 2..m - 1
          BY <1>1, <2>1, <2>2, <3>1, <4>4
        <5>2. nx[s[j]] = n /\ nx[n] = s[k + 1]
          BY <1>1, <1>7, <4>1, <4>4, <5>1
        <5>3. QED
          BY <1>n, <4>1, <4>2, <5>1, <5>2
      <4>5. QED
        BY <2>1, <3>1, <3>2, <4>3, <4>4
    <3>3. CASE ~(j < k)
      <4>1. /\ w[j] = s[j + 1] /\ w[j + 1] = s[(j + 1) + 1]
            /\ j + 1 \in 2..m - 1 /\ j + 1 \in 1..m /\ j + 1 # k
            /\ (j + 1) + 1 \in 1..m /\ (j + 1) + 1 # k
        BY <1>1, <2>1, <2>2, <3>1, <3>3
      <4>2. nx[s[j + 1]] = s[(j + 1) + 1] /\ On(s[j + 1], ch[it.list], ct[it.list])
        BY <1>1, <4>1
      <4>3. s[j + 1] # n /\ s[(j + 1) + 1] # n /\ s[j + 1] \in Nodes
        BY <1>1, <1>7, <4>1
      <4>4. QED
        BY <1>n, <4>1, <4>2, <4>3
    <3>4. QED
      BY <3>2, <3>3
  <2>8. (m - 1) - 1 = m - 2 /\ m >= 3 /\ m - 1 >= 2 /\ m - 1 >= 1
    BY <1>1, <2>1
  <2>9. it.node = w[1] /\ it.tmp = w[2] /\ m - 1 \in Nat
    BY <1>1, <2>3, <2>8
  <2>10. QED
    BY <1>f, <2>2, <2>5, <2>6, <2>7, <2>8, <2>9
<1>8. QED
  BY <1>6, <1>7

(* The i-th node leaves, also from under a loop.                           *)
LEMMA UnlinkStep ==
  ASSUME IInv, NEW l \in Lists, exists[l], NEW i \in Nat, 1 <= i, i <= count[l],
         NEW n, n = Chain(l)[i],
         NEW p, p = Before(Chain(l), i - 1), NEW q, q = Behind(Chain(l), count[l], i),
         Unlink(l, n, p, q), UNCHANGED <<fault, merged>>, LoopLoses(l, n)
  PROVE  IInv'
<1>1. PICK ch : /\ Picture(ch, exists, head, tail, count, alive, next, prev)
                /\ merged \/ Owned(ch, count, alive)
                /\ OnTrack(ch, count, next, iter)
                /\ \A k \in Lists : ch[k] = Chain(k)
  BY Present
<1>2. TypeOK /\ (fault => iter.trapped) /\ NULL \notin Nodes /\ IsFiniteSet(Nodes)
  BY NodesAssumption DEF IInv
<1> DEFINE c == ch[l]
           m == count[l]
<1>3. p = Before(c, i - 1) /\ q = Behind(c, m, i) /\ n = c[i]
  BY <1>1
<1>4. /\ alive' = alive \ {n}
      /\ next' = [x \in Nodes |-> IF x = n THEN NULL ELSE IF x = p THEN q ELSE next[x]]
      /\ prev' = [x \in Nodes |-> IF x = n THEN NULL ELSE IF x = q THEN p ELSE prev[x]]
      /\ data' = [data EXCEPT ![n] = NULL]
      /\ Header(l, IF p = NULL THEN q ELSE head[l], IF q = NULL THEN p ELSE tail[l], m - 1)
  BY DEF Unlink
<1>5. /\ head' = [head EXCEPT ![l] = IF p = NULL THEN q ELSE head[l]]
      /\ tail' = [tail EXCEPT ![l] = IF q = NULL THEN p ELSE tail[l]]
      /\ count' = [count EXCEPT ![l] = m - 1] /\ exists' = exists
  BY <1>4 DEF Header
<1>6. \A k \in Lists :
        /\ count[k] \in Nat
        /\ head[k] = Behind(ch[k], count[k], 0) /\ tail[k] = Before(ch[k], count[k])
        /\ \A j \in 1..count[k] :
             /\ ch[k][j] \in Nodes /\ ch[k][j] \in alive /\ ch[k][j] # NULL
             /\ next[ch[k][j]] = Behind(ch[k], count[k], j)
             /\ prev[ch[k][j]] = Before(ch[k], j - 1)
        /\ \A j, r \in 1..count[k] : ch[k][j] = ch[k][r] => j = r
  BY <1>1, <1>2, AllFields
<1>7. m \in Nat /\ 1 <= i /\ i <= m /\ i \in 1..m
  BY <1>6
<1>8. /\ p \in Ref /\ q \in Ref /\ n \in Nodes /\ On(n, c, m)
      /\ (p # NULL => On(p, c, m)) /\ (q # NULL => On(q, c, m))
  BY <1>3, <1>6, <1>7 DEF Before, Behind, Ref, On
<1> DEFINE e == [k \in 1..m - 1 |-> IF k < i THEN c[k] ELSE c[k + 1]]
           d == [k \in Lists |-> IF k = l THEN e ELSE ch[k]]
<1>9. \A k \in Lists : count'[k] = IF k = l THEN m - 1 ELSE count[k]
  BY <1>2, <1>5 DEF TypeOK
<1>10. d[l] = e /\ (\A k \in Lists \ {l} : d[k] = ch[k])
       /\ (\A k \in 1..m - 1 : e[k] = IF k < i THEN c[k] ELSE c[k + 1])
  OBVIOUS
<1>11. \A x \in Nodes : /\ next'[x] = IF x = n THEN NULL ELSE IF x = p THEN q ELSE next[x]
                        /\ prev'[x] = IF x = n THEN NULL ELSE IF x = q THEN p ELSE prev[x]
  BY <1>4
<1>12. Linked(Nodes, c, m, next, prev, head[l], tail[l])
  BY <1>1 DEF Picture
<1>13. head'[l] = (IF p = NULL THEN q ELSE head[l]) /\ tail'[l] = IF q = NULL THEN p ELSE tail[l]
  BY <1>2, <1>5 DEF TypeOK
<1>14. /\ \A j, r \in 1..m : c[j] = c[r] => j = r
       /\ \A j \in 1..m : c[j] \in Nodes /\ c[j] \in alive /\ c[j] # NULL /\ next[c[j]] = Behind(c, m, j)
  BY <1>6
<1> HIDE DEF c, m, e, d
<1>15. Linked(Nodes, e, m - 1, next', prev', head'[l], tail'[l])
  <2>1. ChainRemoved(Nodes, c, m, i, next, prev, head[l], tail[l],
                next', prev', head'[l], tail'[l], e)
    BY <1>3, <1>7, <1>10, <1>11, <1>13 DEF ChainRemoved
  <2>2. QED
    BY <1>2, <1>12, <2>1, UnlinkLinked
<1>16. \A s \in 1..m - 1 : On(e[s], c, m) /\ e[s] # n
  <2> SUFFICES ASSUME NEW s \in 1..m - 1 PROVE On(e[s], c, m) /\ e[s] # n
    OBVIOUS
  <2>1. CASE s < i
    BY <1>3, <1>7, <1>10, <1>14, <2>1 DEF On
  <2>2. CASE ~(s < i)
    <3>1. s + 1 \in 1..m /\ s + 1 # i /\ e[s] = c[s + 1]
      BY <1>7, <1>10, <2>2
    <3>2. QED
      BY <1>3, <1>7, <1>14, <3>1 DEF On
  <2>3. QED
    BY <2>1, <2>2
<1>17. \A k \in Lists \ {l} : \A j \in 1..count[k] :
         /\ next'[ch[k][j]] = next[ch[k][j]] /\ prev'[ch[k][j]] = prev[ch[k][j]]
         /\ ch[k][j] \in alive'
         /\ \A s \in 1..m - 1 : e[s] # ch[k][j]
  <2> SUFFICES ASSUME NEW k \in Lists \ {l}, NEW j \in 1..count[k]
               PROVE  /\ next'[ch[k][j]] = next[ch[k][j]] /\ prev'[ch[k][j]] = prev[ch[k][j]]
                      /\ ch[k][j] \in alive'
                      /\ \A s \in 1..m - 1 : e[s] # ch[k][j]
    OBVIOUS
  <2>1. \A r \in 1..m : c[r] # ch[k][j]
    BY <1>1 DEF Picture, c, m
  <2>2. ~On(ch[k][j], c, m)
    BY <2>1 DEF On
  <2>3. ch[k][j] # n /\ ch[k][j] # p /\ ch[k][j] # q /\ ch[k][j] \in Nodes /\ ch[k][j] \in alive
    BY <1>6, <1>8, <2>2
  <2>4. QED
    BY <1>4, <1>11, <1>16, <2>2, <2>3
<1>18. Picture(d, exists', head', tail', count', alive', next', prev')
  <2>1. \A j \in 1..m - 1 : e[j] \in alive'
    BY <1>4, <1>14, <1>16 DEF On
  <2>2. \A k \in Lists \ {l} : /\ exists'[k] = exists[k] /\ count'[k] = count[k]
                               /\ head'[k] = head[k] /\ tail'[k] = tail[k]
    BY <1>2, <1>5, <1>9 DEF TypeOK
  <2>3. count'[l] = m - 1 /\ exists'[l]
    BY <1>5, <1>9
  <2>4. Picture([k \in Lists |-> IF k = l THEN e ELSE ch[k]],
                exists', head', tail', count', alive', next', prev')
    BY <1>1, <1>15, <1>17, <2>1, <2>2, <2>3, OneListChanges
  <2>5. QED
    BY <2>4 DEF d
<1>19. \A x : \A k \in Lists : On(x, ch[k], count[k]) /\ x # n => On(x, d[k], count'[k])
  <2> SUFFICES ASSUME NEW x, NEW k \in Lists, On(x, ch[k], count[k]), x # n
               PROVE  On(x, d[k], count'[k])
    OBVIOUS
  <2>1. CASE k # l
    BY <1>9, <1>10, <2>1
  <2>2. CASE k = l
    <3>1. PICK j \in 1..m : c[j] = x
      BY <2>2 DEF On, c, m
    <3>2. j # i
      BY <1>3, <3>1
    <3>3. CASE j < i
      <4>1. j \in 1..m - 1 /\ e[j] = x
        BY <1>7, <1>10, <3>1, <3>3
      <4>2. QED
        BY <1>9, <1>10, <2>2, <4>1 DEF On
    <3>4. CASE j > i
      <4>1. j - 1 \in 1..m - 1 /\ (j - 1) + 1 = j /\ ~(j - 1 < i)
        BY <1>7, <3>1, <3>4
      <4>2. e[j - 1] = x
        BY <1>10, <3>1, <4>1
      <4>3. QED
        BY <1>9, <1>10, <2>2, <4>1, <4>2 DEF On
    <3>5. QED
      BY <1>7, <3>1, <3>2, <3>3, <3>4
  <2>3. QED
    BY <2>1, <2>2
<1>20. merged' \/ Owned(d, count', alive')
  BY <1>1, <1>4, <1>19 DEF Owned
<1>r. /\ iter.trapped \in BOOLEAN
      /\ iter = [list |-> iter.list, node |-> iter.node, tmp |-> iter.tmp, due |-> iter.due,
                trapped |-> iter.trapped]
  BY <1>1 DEF OnTrack
<1>21. OnTrack(d, count', next', iter')
  <2>1. \A x \in Nodes : x = p => next[x] = n
    <3>1. CASE i = 1
      BY <1>2, <1>3, <3>1 DEF Before
    <3>2. CASE i # 1
      <4>1. i - 1 \in 1..m /\ p = c[i - 1] /\ i - 1 # m /\ (i - 1) + 1 = i
        BY <1>3, <1>7, <3>2 DEF Before
      <4>2. next[p] = c[i]
        BY <1>14, <4>1 DEF Behind
      <4>3. QED
        BY <1>3, <4>2
    <3>3. QED
      BY <3>1, <3>2
  <2>2. iter.list \in Lists /\ iter.list # l =>
          \A x \in Nodes : On(x, ch[iter.list], count[iter.list]) =>
            On(x, d[iter.list], count'[iter.list]) /\ next'[x] = next[x]
    <3> SUFFICES ASSUME iter.list \in Lists, iter.list # l, NEW x \in Nodes,
                        On(x, ch[iter.list], count[iter.list])
                 PROVE  On(x, d[iter.list], count'[iter.list]) /\ next'[x] = next[x]
      OBVIOUS
    <3>1. PICK j \in 1..count[iter.list] : ch[iter.list][j] = x
      BY DEF On
    <3>2. \A r \in 1..m : c[r] # x
      BY <1>1, <3>1 DEF Picture, c, m
    <3>3. x # n
      BY <1>3, <1>7, <3>2
    <3>4. QED
      BY <1>17, <1>19, <3>1, <3>3
  <2>3. iter.list = l =>
          \A x \in Nodes : On(x, ch[l], count[l]) /\ x # n =>
            /\ On(x, d[l], count'[l])
            /\ next[x] # n => next'[x] = next[x]
    BY <1>11, <1>19, <2>1
  <2>4. CASE iter.list # l \/ n = iter.node
    <3>1. iter' = iter
      BY <2>4 DEF LoopLoses
    <3>2. iter.list \in Lists =>
            \A x \in Nodes : On(x, ch[iter.list], count[iter.list]) /\ x # iter.node =>
              /\ On(x, d[iter.list], count'[iter.list])
              /\ next[x] \notin {NULL, iter.node} => next'[x] = next[x]
      BY <2>2, <2>3, <2>4
    <3>3. QED
      BY <1>1, <3>1, <3>2, TrackKept
  <2>5. CASE iter.list = l /\ n # iter.node
    <3>1. iter' = [list |-> iter.list, node |-> iter.node, tmp |-> iter.tmp,
                   due |-> RemoveFirst(iter.due, n), trapped |-> iter.trapped \/ n = iter.tmp]
      <4>1. iter' = [iter EXCEPT !.due = RemoveFirst(@, n), !.trapped = @ \/ n = iter.tmp]
        BY <2>5 DEF LoopLoses
      <4>2. PICK w : w = RemoveFirst(iter.due, n)
        OBVIOUS
      <4>3. iter' = [iter EXCEPT !.due = w, !.trapped = @ \/ n = iter.tmp]
        BY <4>1, <4>2
      <4>4. iter' = [list |-> iter.list, node |-> iter.node, tmp |-> iter.tmp,
                     due |-> w, trapped |-> iter.trapped \/ n = iter.tmp]
        BY <1>r, <4>3
      <4>5. QED
        BY <4>2, <4>4
    <3>2. CASE iter.trapped \/ n = iter.tmp
      BY <3>1, <3>2 DEF OnTrack
    <3>3. CASE ~iter.trapped /\ n # iter.tmp
      <4>1. Loop(ch, count, next, iter)
        BY <1>1, <3>3 DEF OnTrack
      <4>2. next[n] = q
        BY <1>3, <1>7, <1>14
      <4>3. \A x \in Nodes : On(x, ch[iter.list], count[iter.list]) /\ x # n =>
              /\ On(x, d[iter.list], count'[iter.list])
              /\ next'[x] = IF next[x] = n THEN next[n] ELSE next[x]
        <5> SUFFICES ASSUME NEW x \in Nodes, On(x, ch[l], count[l]), x # n, next[x] = n
                     PROVE  next'[x] = q
          BY <2>3, <2>5, <4>2
        <5>1. PICK j \in 1..m : c[j] = x
          BY DEF On, c, m
        <5>2. j # m /\ c[j + 1] = c[i] /\ j + 1 \in 1..m
          BY <1>2, <1>3, <1>7, <1>8, <1>14, <5>1 DEF Behind
        <5>3. j + 1 = i
          BY <1>7, <1>14, <5>2
        <5>4. x = p
          BY <1>3, <1>7, <5>1, <5>3 DEF Before
        <5>5. QED
          BY <1>11, <5>4
      <4>4. iter' = [list |-> iter.list, node |-> iter.node, tmp |-> iter.tmp,
                     due |-> RemoveFirst(iter.due, n), trapped |-> iter.trapped]
        BY <1>r, <3>1, <3>3
      <4>5. Loop(d, count', next', iter')
        <5>1. PICK it2 : it2 = iter'
          OBVIOUS
        <5>2. iter.list \in Lists /\ n \in Nodes /\ n # iter.node /\ n # iter.tmp
          BY <1>8, <2>5, <3>3
        <5>3. Shortened(it2, iter, n)
          BY <4>4, <5>1 DEF Shortened
        <5>4. Leaves(n, ch[iter.list], count[iter.list], next, d[iter.list], count'[iter.list], next')
          BY <4>3 DEF Leaves
        <5>5. Loop(d, count', next', it2)
          BY <4>1, <5>2, <5>3, <5>4, LoopShortened, Zenon
        <5>6. QED
          BY <5>1, <5>5
      <4>6. QED
        BY <1>r, <4>4, <4>5 DEF OnTrack
    <3>4. QED
      BY <3>2, <3>3
  <2>6. QED
    BY <2>4, <2>5
<1>t. iter.trapped => iter'.trapped
  BY <1>r DEF LoopLoses
<1>22. /\ exists' \in [Lists -> BOOLEAN] /\ head' \in [Lists -> Ref] /\ tail' \in [Lists -> Ref]
       /\ count' = [k \in Lists |-> count'[k]] /\ alive' \subseteq Nodes
  BY <1>2, <1>4, <1>5, <1>8 DEF TypeOK
<1>23. next' \in [Nodes -> Ref] /\ prev' \in [Nodes -> Ref] /\ data' \in [Nodes -> Elem]
  <2>1. next' \in [Nodes -> Ref] /\ prev' \in [Nodes -> Ref]
    BY <1>2, <1>4, <1>8 DEF TypeOK, Ref
  <2>2. data' \in [Nodes -> Elem]
    BY <1>2, <1>4 DEF TypeOK, Elem
  <2>3. QED
    BY <2>1, <2>2
<1>24. fault' \in BOOLEAN /\ (fault' => iter'.trapped) /\ merged' \in BOOLEAN
  BY <1>2, <1>t DEF TypeOK
<1>25. QED
  BY <1>18, <1>20, <1>21, <1>22, <1>23, <1>24, Restore

(* A call that changes neither lists nor heap. *)
LEMMA KeepStep ==
  ASSUME IInv, Keep, UNCHANGED <<iter, fault, merged>>
  PROVE  IInv'
<1>1. UNCHANGED <<exists, head, tail, count, alive, next, prev, data>>
  BY DEF Keep, headers, heap
<1>2. TypeOK' /\ (fault' => iter'.trapped)
  BY <1>1 DEF IInv, TypeOK
<1>3. \A l \in Lists : Chain(l)' = Chain(l)
  BY <1>1 DEF Chain, WalkTo
<1>4. Chains' = Chains
  BY <1>3 DEF Chains
<1>5. PICK ch : ch = Chains
  OBVIOUS
<1>6. /\ Picture(ch, exists, head, tail, count, alive, next, prev)
      /\ merged \/ Owned(ch, count, alive)
      /\ OnTrack(ch, count, next, iter)
  BY <1>5 DEF IInv
<1>7. Chains' = ch
  BY <1>4, <1>5
<1>8. Picture(Chains, exists, head, tail, count, alive, next, prev)'
  BY <1>1, <1>6, <1>7
<1>9. merged' \/ Owned(Chains, count, alive)'
  BY <1>1, <1>6, <1>7
<1>10. OnTrack(Chains, count, next, iter)'
  BY <1>1, <1>6, <1>7
<1>11. QED
  BY <1>2, <1>8, <1>9, <1>10 DEF IInv

(* An insertion into a gap of the list finds its neighbours alive. *)
LEMMA InsertStep ==
  ASSUME IInv, NEW l \in Lists, exists[l], NEW i \in Nat, i <= count[l],
         NEW p, p = Before(Chain(l), i), NEW q, q = Behind(Chain(l), count[l], i),
         NEW v \in Elem, NEW cc, Insert(l, cc, p, q, v),
         iter.list = l => i \in {0, count[l]}
  PROVE  IInv'
<1>1. PICK ch : /\ Picture(ch, exists, head, tail, count, alive, next, prev)
                /\ \A k \in Lists : ch[k] = Chain(k)
  BY Present
<1>2. count[l] \in Nat /\ \A j \in 1..count[l] : ch[l][j] \in alive
  BY <1>1, AllFields DEF IInv
<1>3. p \in alive \cup {NULL} /\ q \in alive \cup {NULL}
  BY <1>1, <1>2 DEF Before, Behind
<1>4. (Link(l, p, q, v) \/ Keep) /\ UNCHANGED <<iter, fault, merged>>
  BY <1>3 DEF Insert, Returns, Answers
<1>5. CASE Link(l, p, q, v)
  BY <1>4, <1>5, LinkStep
<1>6. CASE Keep
  BY <1>4, <1>6, KeepStep
<1>7. QED
  BY <1>4, <1>5, <1>6

(* So does the removal of the i-th node. *)
LEMMA RemoveStep ==
  ASSUME IInv, NEW l \in Lists, exists[l], NEW i \in Nat, 1 <= i, i <= count[l],
         NEW n, n = Chain(l)[i],
         NEW p, p = Before(Chain(l), i - 1), NEW q, q = Behind(Chain(l), count[l], i),
         NEW cc, NEW r, Remove1(l, cc, n, p, q, r)
  PROVE  IInv'
<1>1. PICK ch : /\ Picture(ch, exists, head, tail, count, alive, next, prev)
                /\ \A k \in Lists : ch[k] = Chain(k)
  BY Present
<1>2. count[l] \in Nat /\ \A j \in 1..count[l] : ch[l][j] \in alive
  BY <1>1, AllFields DEF IInv
<1>3. n \in alive /\ p \in alive \cup {NULL} /\ q \in alive \cup {NULL}
  BY <1>1, <1>2 DEF Before, Behind
<1>4. Unlink(l, n, p, q) /\ UNCHANGED <<fault, merged>> /\ LoopLoses(l, n)
  BY <1>3, Zenon DEF Remove1, Answers
<1>5. QED
  BY <1>4, UnlinkStep

(* A step of the walk to position i reaches the node there, if any. *)
LEMMA NodeAtIs ==
  ASSUME IInv, NEW l \in Lists, NEW i \in Nat
  PROVE  NodeAt(l, i) = IF i < count[l] THEN Chain(l)[i + 1] ELSE NULL
<1>1. PICK ch : /\ Picture(ch, exists, head, tail, count, alive, next, prev)
                /\ \A k \in Lists : ch[k] = Chain(k)
  BY Present
<1> DEFINE c == ch[l]
           m == count[l]
           w == WalkTo(l, i)
<1>2. Run(Nodes, c, m, next, head[l]) /\ m \in Nat
  BY <1>1 DEF Picture, Linked, Run
<1>3. c = Chain(l)
  BY <1>1
<1>w. w = Walk(next, head[l], i)
  BY DEF WalkTo
<1> HIDE DEF c, m, w
<1>4. Shows(w, c, IF m <= i THEN m ELSE i + 1)
  BY <1>2, <1>w, NodesAssumption, WalkOfRun
<1>5. NodeAt(l, i) = IF i < Len(w) THEN w[i + 1] ELSE NULL
  BY DEF NodeAt, w
<1>6. CASE m <= i
  <2>1. w = [k \in 1..m |-> c[k]]
    BY <1>4, <1>6 DEF Shows
  <2>2. Len(w) = m
    BY <1>2, <2>1
  <2>3. QED
    BY <1>2, <1>5, <1>6, <2>2 DEF m
<1>7. CASE ~(m <= i)
  <2>1. w = [k \in 1..i + 1 |-> c[k]]
    BY <1>4, <1>7 DEF Shows
  <2>2. Len(w) = i + 1 /\ w[i + 1] = c[i + 1]
    BY <2>1
  <2>3. QED
    BY <1>2, <1>3, <1>5, <1>7, <2>2 DEF m
<1>8. QED
  BY <1>6, <1>7

(* What the invariant says of one list. *)
LEMMA ListFacts ==
  ASSUME IInv, NEW l \in Lists
  PROVE  /\ count[l] \in Nat /\ count[l] <= Cardinality(Nodes) /\ Cardinality(Nodes) \in Nat
         /\ Len(Chain(l)) = count[l] /\ DOMAIN Chain(l) = 1..count[l] /\ ~Cyclic(l)
         /\ head[l] = Behind(Chain(l), count[l], 0) /\ tail[l] = Before(Chain(l), count[l])
         /\ \A i \in 1..count[l] :
              /\ Chain(l)[i] \in Nodes /\ Chain(l)[i] \in alive /\ Chain(l)[i] # NULL
              /\ next[Chain(l)[i]] = Behind(Chain(l), count[l], i)
              /\ prev[Chain(l)[i]] = Before(Chain(l), i - 1)
         /\ \A i, j \in 1..count[l] : Chain(l)[i] = Chain(l)[j] => i = j
         /\ ~exists[l] => count[l] = 0
<1>1. PICK ch : /\ Picture(ch, exists, head, tail, count, alive, next, prev)
                /\ \A k \in Lists : ch[k] = Chain(k) /\ Shows(Chain(k), ch[k], count[k])
  BY Present
<1>2. count[l] \in 0..Cardinality(Nodes) /\ Cardinality(Nodes) \in Nat
  BY <1>1, ChainIs
<1>3. Chain(l) = [i \in 1..count[l] |-> ch[l][i]]
  BY <1>1 DEF Shows
<1>4. Len(Chain(l)) = count[l] /\ DOMAIN Chain(l) = 1..count[l]
  BY <1>2, <1>3
<1>5. ~Cyclic(l)
  BY <1>2, <1>4 DEF Cyclic
<1>6. ch[l] = Chain(l) /\ alive \subseteq Nodes
  BY <1>1 DEF IInv, TypeOK
<1>7. /\ head[l] = Behind(ch[l], count[l], 0) /\ tail[l] = Before(ch[l], count[l])
      /\ \A i \in 1..count[l] :
           /\ ch[l][i] \in Nodes /\ ch[l][i] \in alive /\ ch[l][i] # NULL
           /\ next[ch[l][i]] = Behind(ch[l], count[l], i)
           /\ prev[ch[l][i]] = Before(ch[l], i - 1)
      /\ \A i, j \in 1..count[l] : ch[l][i] = ch[l][j] => i = j
  BY <1>1, <1>6, Fields
<1>8. ~exists[l] => count[l] = 0
  BY <1>1 DEF Picture
<1>9. QED
  BY <1>2, <1>4, <1>5, <1>6, <1>7, <1>8

-------------------------------------------------------------------------------
(* One lemma per operation. *)

(* A push at either end, one that finds no memory included. *)
LEMMA PushSafe ==
  ASSUME IInv, NEW l \in Lists, NEW v \in Elem, Push(l, v) \/ PushFront(l, v)
  PROVE  IInv'
<1>1. count[l] \in Nat /\ head[l] = Behind(Chain(l), count[l], 0)
      /\ tail[l] = Before(Chain(l), count[l])
  BY ListFacts
<1>2. NULL = Before(Chain(l), 0) /\ NULL = Behind(Chain(l), count[l], count[l])
  BY DEF Before, Behind
<1>3. CASE Push(l, v)
  <2>1. exists[l] /\ Insert(l, <<"push", l, v>>, tail[l], NULL, v)
    BY <1>3 DEF Push, Live
  <2>2. QED
    BY <1>1, <1>2, <2>1, InsertStep
<1>4. CASE PushFront(l, v)
  <2>1. exists[l] /\ Insert(l, <<"push_front", l, v>>, NULL, head[l], v)
    BY <1>4 DEF PushFront, Live
  <2>2. QED
    BY <1>1, <1>2, <2>1, InsertStep
<1>5. QED
  BY <1>3, <1>4

(* An insertion in the middle finds its place by a walk that stays on the  *)
(* list.                                                                   *)
LEMMA PushAtSafe ==
  ASSUME IInv, NEW l \in Lists, NEW v \in Elem, NEW i \in 0..Cardinality(Nodes), PushAt(l, v, i)
  PROVE  IInv'
<1> DEFINE c == Chain(l)
           m == count[l]
<1>1. /\ m \in Nat /\ head[l] = Behind(c, m, 0) /\ tail[l] = Before(c, m)
      /\ \A k \in 1..m : c[k] # NULL /\ next[c[k]] = Behind(c, m, k)
      /\ Cardinality(Nodes) \in Nat
  BY ListFacts
<1>2. NULL = Before(c, 0) /\ NULL = Behind(c, m, m) /\ i \in Nat
  BY <1>1 DEF Before, Behind
<1>3. exists[l] /\ iter.list # l
  BY DEF PushAt, Idle
<1>4. CASE i >= m
  <2>1. Insert(l, <<"push_at", l, v, i>>, tail[l], NULL, v)
    BY <1>4 DEF PushAt
  <2>2. m \in Nat /\ m <= m /\ tail[l] = Before(c, m) /\ NULL = Behind(c, m, m)
    BY <1>1, <1>2
  <2>3. QED
    BY <1>3, <2>1, <2>2, InsertStep
<1>5. CASE ~(i >= m) /\ i = 0
  <2>1. Insert(l, <<"push_at", l, v, i>>, NULL, head[l], v)
    BY <1>5 DEF PushAt
  <2>2. QED
    BY <1>1, <1>2, <1>3, <2>1, InsertStep
<1>6. CASE ~(i >= m) /\ i # 0
  <2>1. i - 1 \in Nat /\ i - 1 < m /\ (i - 1) + 1 = i /\ i \in 1..m /\ i # m /\ i + 1 \in 1..m
    BY <1>1, <1>2, <1>6
  <2> DEFINE curr == NodeAt(l, i - 1)
  <2>2. curr = c[i]
    BY <2>1, NodeAtIs
  <2>3. next[curr] = Behind(c, m, i) /\ curr # NULL /\ curr = Before(c, i)
    BY <1>1, <1>6, <2>1, <2>2 DEF Before
  <2>4. next[curr] # NULL
    BY <1>1, <2>1, <2>3 DEF Behind
  <2>5. Insert(l, <<"push_at", l, v, i>>, curr, next[curr], v)
    BY <1>6, <2>3, <2>4 DEF PushAt
  <2> HIDE DEF curr
  <2>6. i <= m
    BY <2>1
  <2>7. QED
    BY <1>2, <1>3, <2>3, <2>5, <2>6, InsertStep
<1>7. QED
  BY <1>4, <1>5, <1>6

(* A pop at either end, also of the last node. *)
LEMMA PopSafe ==
  ASSUME IInv, NEW l \in Lists, Pop(l) \/ PopFront(l)
  PROVE  IInv'
<1> DEFINE c == Chain(l)
           m == count[l]
<1>1. /\ m \in Nat /\ head[l] = Behind(c, m, 0) /\ tail[l] = Before(c, m)
      /\ \A k \in 1..m : /\ c[k] # NULL /\ next[c[k]] = Behind(c, m, k)
                         /\ prev[c[k]] = Before(c, k - 1)
  BY ListFacts
<1>2. exists[l]
  BY DEF Pop, PopFront, Live
<1>3. CASE m = 0
  <2>1. head[l] = NULL /\ tail[l] = NULL
    BY <1>1, <1>3 DEF Before, Behind
  <2>2. Keep /\ UNCHANGED <<iter, fault, merged>>
    BY <2>1 DEF Pop, PopFront, Returns, Answers
  <2>3. QED
    BY <2>2, KeepStep
<1>4. CASE m # 0
  <2>1. 1 \in 1..m /\ m \in 1..m /\ 1 <= m
    BY <1>1, <1>4
  <2>2. tail[l] = c[m] /\ head[l] = c[1] /\ head[l] # NULL /\ tail[l] # NULL
    BY <1>1, <1>4, <2>1 DEF Before, Behind
  <2>3. CASE Pop(l)
    <3>1. Remove1(l, <<"pop", l>>, tail[l], prev[tail[l]], NULL, data[tail[l]])
      BY <2>2, <2>3 DEF Pop
    <3>2. prev[tail[l]] = Before(c, m - 1) /\ NULL = Behind(c, m, m)
      BY <1>1, <2>1, <2>2 DEF Behind
    <3>3. QED
      BY <1>1, <1>2, <2>1, <2>2, <3>1, <3>2, RemoveStep
  <2>4. CASE PopFront(l)
    <3>1. Remove1(l, <<"pop_front", l>>, head[l], NULL, next[head[l]], data[head[l]])
      BY <2>2, <2>4 DEF PopFront
    <3>2. next[head[l]] = Behind(c, m, 1) /\ NULL = Before(c, 1 - 1)
      BY <1>1, <2>1, <2>2 DEF Before
    <3>3. QED
      BY <1>2, <2>1, <2>2, <3>1, <3>2, RemoveStep
  <2>5. QED
    BY <2>3, <2>4
<1>5. QED
  BY <1>3, <1>4

(* A node of the list is taken out, wherever it is. *)
LEMMA TakeStep ==
  ASSUME IInv, NEW l \in Lists, exists[l], NEW i \in 1..count[l], NEW n, n = Chain(l)[i],
         NEW cc, NEW r, Remove1(l, cc, n, prev[n], next[n], r)
  PROVE  IInv'
<1> DEFINE c == Chain(l)
           m == count[l]
<1>1. /\ m \in Nat
      /\ \A k \in 1..m : next[c[k]] = Behind(c, m, k) /\ prev[c[k]] = Before(c, k - 1)
  BY ListFacts
<1>2. i \in Nat /\ 1 <= i /\ i <= m /\ prev[n] = Before(c, i - 1) /\ next[n] = Behind(c, m, i)
  BY <1>1
<1>3. QED
  BY <1>2, RemoveStep

(* The walk to the node that pop_at removes ends on the list. *)
LEMMA PopAtSafe ==
  ASSUME IInv, NEW l \in Lists, NEW i \in 0..Cardinality(Nodes), PopAt(l, i)
  PROVE  IInv'
<1>1. count[l] \in Nat /\ Cardinality(Nodes) \in Nat
      /\ \A k \in 1..count[l] : Chain(l)[k] # NULL
  BY ListFacts
<1>2. exists[l] /\ i \in Nat
  BY <1>1 DEF PopAt, Live
<1>3. CASE i >= count[l]
  <2>1. Keep /\ UNCHANGED <<iter, fault, merged>>
    BY <1>3 DEF PopAt, Returns, Answers
  <2>2. QED
    BY <2>1, KeepStep
<1>4. CASE ~(i >= count[l])
  <2>1. i + 1 \in 1..count[l] /\ i < count[l]
    BY <1>1, <1>2, <1>4
  <2> DEFINE n == NodeAt(l, i)
  <2>2. n = Chain(l)[i + 1] /\ n # NULL
    BY <1>1, <1>2, <2>1, NodeAtIs
  <2>3. Remove1(l, <<"pop_at", l, i>>, n, prev[n], next[n], data[n])
    BY <1>4, <2>2 DEF PopAt
  <2> HIDE DEF n
  <2>4. QED
    BY <1>2, <2>1, <2>2, <2>3, TakeStep
<1>5. QED
  BY <1>3, <1>4

(* So does that of get, which changes nothing. *)
LEMMA GetSafe ==
  ASSUME IInv, NEW l \in Lists, NEW i \in 0..Cardinality(Nodes), Get(l, i)
  PROVE  IInv'
<1>1. count[l] \in Nat /\ Cardinality(Nodes) \in Nat
      /\ \A k \in 1..count[l] : Chain(l)[k] # NULL
  BY ListFacts
<1>2. i \in Nat
  BY <1>1
<1>3. ~(i >= count[l]) => NodeAt(l, i) # NULL
  <2> SUFFICES ASSUME ~(i >= count[l]) PROVE NodeAt(l, i) # NULL
    OBVIOUS
  <2>1. i + 1 \in 1..count[l] /\ i < count[l]
    BY <1>1, <1>2
  <2>2. NodeAt(l, i) = Chain(l)[i + 1]
    BY <1>2, <2>1, NodeAtIs
  <2>3. QED
    BY <1>1, <2>1, <2>2
<1>4. Keep /\ UNCHANGED <<iter, fault, merged>>
  BY <1>3 DEF Get, Returns, Answers
<1>5. QED
  BY <1>4, KeepStep

(* What find returns is a node of the list. *)
LEMMA FoundIs ==
  ASSUME IInv, NEW l \in Lists, NEW v, Found(l, v) # NULL
  PROVE  \E i \in 1..count[l] : Found(l, v) = Chain(l)[i]
<1> DEFINE c == Chain(l)
           hits == {i \in DOMAIN c : data[c[i]] = v}
<1>1. DOMAIN c = 1..count[l] /\ count[l] \in Nat
  BY ListFacts
<1>2. hits \in SUBSET Nat /\ hits \subseteq 1..count[l]
  BY <1>1
<1>3. hits # {} /\ Found(l, v) = c[Min(hits)]
  BY DEF Found
<1> HIDE DEF hits, c
<1>4. Min(hits) \in hits
  BY <1>2, <1>3, MinIsLeast
<1>5. QED
  BY <1>2, <1>3, <1>4 DEF c

(* A search, and a removal of what it finds. *)
LEMMA FindSafe ==
  ASSUME IInv, NEW l \in Lists, NEW v \in Elem, Find(l, v) \/ RemoveData(l, v)
  PROVE  IInv'
<1>1. CASE Find(l, v) \/ Found(l, v) = NULL
  <2>1. Keep /\ UNCHANGED <<iter, fault, merged>>
    BY <1>1 DEF Find, RemoveData, Returns, Answers
  <2>2. QED
    BY <2>1, KeepStep
<1>2. CASE RemoveData(l, v) /\ Found(l, v) # NULL
  <2> DEFINE n == Found(l, v)
  <2>1. PICK i \in 1..count[l] : n = Chain(l)[i]
    BY <1>2, FoundIs
  <2>2. Remove1(l, <<"remove_data", l, v>>, n, prev[n], next[n], TRUE)
        /\ exists[l]
    BY <1>2 DEF RemoveData, Live
  <2> HIDE DEF n
  <2>3. QED
    BY <2>1, <2>2, TakeStep
<1>3. QED
  BY <1>1, <1>2

(* A node the caller holds is taken out, those of a loop included. *)
LEMMA RemoveNodeSafe ==
  ASSUME IInv, NEW l \in Lists, NEW n \in Nodes, RemoveNode(l, n)
  PROVE  IInv'
<1>1. /\ Remove1(l, <<"remove_node", l, n>>, n, prev[n], next[n], NULL)
      /\ exists[l] /\ n \in ToSet(Chain(l))
  BY DEF RemoveNode, Live
<1>2. PICK i \in 1..count[l] : n = Chain(l)[i]
  BY <1>1, ListFacts DEF ToSet
<1>3. QED
  BY <1>1, <1>2, TakeStep

(* A list begins empty. *)
LEMMA CreateSafe ==
  ASSUME IInv, NEW l \in Lists, Create(l)
  PROVE  IInv'
<1>1. PICK ch : /\ Picture(ch, exists, head, tail, count, alive, next, prev)
                /\ merged \/ Owned(ch, count, alive)
                /\ OnTrack(ch, count, next, iter)
  BY Present
<1>2. TypeOK /\ (fault => iter.trapped)
  BY DEF IInv
<1>3. UNCHANGED <<head, tail, count, alive, next, prev, data, iter, fault, merged>>
  BY DEF Create, heap, Returns, Answers
<1>4. exists' = [exists EXCEPT ![l] = TRUE] \/ exists' = exists
  BY DEF Create
<1>5. \A k \in Lists : exists[k] => exists'[k]
  BY <1>2, <1>4 DEF TypeOK
<1>6. Picture(ch, exists', head', tail', count', alive', next', prev')
  BY <1>1, <1>3, <1>5 DEF Picture
<1>7. exists' \in [Lists -> BOOLEAN]
  BY <1>2, <1>4 DEF TypeOK
<1>8. count' = [k \in Lists |-> count'[k]]
  BY <1>2, <1>3 DEF TypeOK
<1>9. merged' \/ Owned(ch, count', alive')
  BY <1>1, <1>3
<1>10. OnTrack(ch, count', next', iter')
  BY <1>1, <1>3
<1>11. /\ head' \in [Lists -> Ref] /\ tail' \in [Lists -> Ref] /\ alive' \subseteq Nodes
       /\ next' \in [Nodes -> Ref] /\ prev' \in [Nodes -> Ref] /\ data' \in [Nodes -> Elem]
       /\ fault' \in BOOLEAN /\ (fault' => iter'.trapped) /\ merged' \in BOOLEAN
  BY <1>2, <1>3 DEF TypeOK
<1>12. QED
  BY <1>6, <1>7, <1>8, <1>9, <1>10, <1>11, Restore

(* Emptying a list frees the nodes of its chain and no others. *)
LEMMA ClearSafe ==
  ASSUME IInv, NEW l \in Lists, NEW op, NEW released, Clear(l, op, released)
  PROVE  IInv'
<1>1. PICK ch : /\ Picture(ch, exists, head, tail, count, alive, next, prev)
                /\ merged \/ Owned(ch, count, alive)
                /\ OnTrack(ch, count, next, iter)
                /\ \A k \in Lists : ch[k] = Chain(k)
  BY Present
<1>2. TypeOK /\ (fault => iter.trapped) /\ NULL \notin Nodes
  BY NodesAssumption DEF IInv
<1> DEFINE S == ToSet(Chain(l))
<1>3. /\ ~Cyclic(l) /\ DOMAIN Chain(l) = 1..count[l] /\ count[l] \in Nat
      /\ \A i \in 1..count[l] : Chain(l)[i] \in alive
  BY ListFacts
<1>4. S = {Chain(l)[i] : i \in 1..count[l]}
  BY <1>3 DEF ToSet
<1>5. S \subseteq alive
  BY <1>3, <1>4
<1> HIDE DEF S
<1>6. /\ Free(S)
      /\ head' = [head EXCEPT ![l] = NULL] /\ tail' = [tail EXCEPT ![l] = NULL]
      /\ count' = [count EXCEPT ![l] = 0]
      /\ exists' = [exists EXCEPT ![l] = op \in {"clear", "clear_with"}]
      /\ iter' = [iter EXCEPT !.trapped = @ \/ (iter.list = l /\ iter.tmp # NULL)]
      /\ UNCHANGED <<fault, merged>>
  BY <1>3, <1>5, Zenon DEF Clear, Answers, S
<1>7. /\ alive' = alive \ S
      /\ next' = [n \in Nodes |-> IF n \in S THEN NULL ELSE next[n]]
      /\ prev' = [n \in Nodes |-> IF n \in S THEN NULL ELSE prev[n]]
      /\ data' = [n \in Nodes |-> IF n \in S THEN NULL ELSE data[n]]
  BY <1>6 DEF Free
<1>8. \A k \in Lists : \A j \in 1..count[k] : ch[k][j] \in Nodes /\ ch[k][j] \in alive
  BY <1>1, <1>2, AllFields
<1>9. \A k \in Lists \ {l} : \A j \in 1..count[k] :
        /\ next'[ch[k][j]] = next[ch[k][j]] /\ prev'[ch[k][j]] = prev[ch[k][j]]
        /\ ch[k][j] \in alive'
  <2> SUFFICES ASSUME NEW k \in Lists \ {l}, NEW j \in 1..count[k]
               PROVE  /\ next'[ch[k][j]] = next[ch[k][j]] /\ prev'[ch[k][j]] = prev[ch[k][j]]
                      /\ ch[k][j] \in alive'
    OBVIOUS
  <2>1. \A i \in 1..count[l] : ch[l][i] # ch[k][j]
    BY <1>1 DEF Picture
  <2>2. ch[k][j] \notin S
    BY <1>1, <1>4, <2>1
  <2>3. QED
    BY <1>7, <1>8, <2>2
<1> DEFINE e == <<>>
           d == [k \in Lists |-> IF k = l THEN e ELSE ch[k]]
<1>10. /\ count'[l] = 0 /\ head'[l] = NULL /\ tail'[l] = NULL
       /\ \A k \in Lists \ {l} : /\ exists'[k] = exists[k] /\ count'[k] = count[k]
                                 /\ head'[k] = head[k] /\ tail'[k] = tail[k]
  BY <1>2, <1>6 DEF TypeOK
<1>11. Picture(d, exists', head', tail', count', alive', next', prev')
  <2>1. Linked(Nodes, e, count'[l], next', prev', head'[l], tail'[l])
    BY <1>10 DEF Linked, Run, Back
  <2>2. \A j \in 1..count'[l] : e[j] \in alive'
    BY <1>10
  <2>3. \A k \in Lists \ {l} :
          /\ exists'[k] = exists[k] /\ count'[k] = count[k]
          /\ head'[k] = head[k] /\ tail'[k] = tail[k]
          /\ \A j \in 1..count[k] :
               /\ next'[ch[k][j]] = next[ch[k][j]] /\ prev'[ch[k][j]] = prev[ch[k][j]]
               /\ ch[k][j] \in alive'
               /\ \A s \in 1..count'[l] : e[s] # ch[k][j]
    BY <1>9, <1>10
  <2>4. ~exists'[l] => count'[l] = 0
    BY <1>10
  <2> HIDE DEF e
  <2>5. QED
    BY <1>1, <2>1, <2>2, <2>3, <2>4, OneListChanges
<1>12. \A k \in Lists \ {l} : d[k] = ch[k] /\ count'[k] = count[k]
  BY <1>10
<1> HIDE DEF d
<1>13. merged' \/ Owned(d, count', alive')
  <2> SUFFICES ASSUME Owned(ch, count, alive) PROVE Owned(d, count', alive')
    BY <1>1, <1>6
  <2> SUFFICES ASSUME NEW n \in alive' PROVE \E k \in Lists : On(n, d[k], count'[k])
    BY DEF Owned
  <2>1. n \in alive /\ n \notin S
    BY <1>7
  <2>2. PICK k \in Lists : On(n, ch[k], count[k])
    BY <2>1 DEF Owned
  <2>3. k # l
    BY <1>1, <1>4, <2>1, <2>2 DEF On
  <2>4. QED
    BY <1>12, <2>2, <2>3
<1>r. /\ iter.trapped \in BOOLEAN
      /\ iter = [list |-> iter.list, node |-> iter.node, tmp |-> iter.tmp, due |-> iter.due,
                trapped |-> iter.trapped]
  BY <1>1 DEF OnTrack
<1>t. iter' = [list |-> iter.list, node |-> iter.node, tmp |-> iter.tmp, due |-> iter.due,
               trapped |-> iter.trapped \/ (iter.list = l /\ iter.tmp # NULL)]
  BY <1>6, <1>r
<1>14. OnTrack(d, count', next', iter')
  <2>1. CASE iter.trapped \/ (iter.list = l /\ iter.tmp # NULL)
    BY <1>t, <2>1 DEF OnTrack
  <2>2. CASE ~(iter.trapped \/ (iter.list = l /\ iter.tmp # NULL))
    <3>1. iter' = iter
      BY <1>r, <1>t, <2>2
    <3>2. CASE iter.list # l
      <4>1. iter.list \in Lists =>
              \A x \in Nodes : On(x, ch[iter.list], count[iter.list]) /\ x # iter.node =>
                /\ On(x, d[iter.list], count'[iter.list])
                /\ next[x] \notin {NULL, iter.node} => next'[x] = next[x]
        BY <1>9, <1>12, <3>2 DEF On
      <4>2. QED
        BY <1>1, <3>1, <4>1, TrackKept
    <3>3. CASE iter.list = l
      <4>1. Loop(ch, count, next, iter) /\ iter.tmp = NULL
        BY <1>1, <2>2, <3>3 DEF OnTrack
      <4>2. Len(iter.due) \in Nat /\ \A i \in 1..Len(iter.due) : iter.due[i] \in Nodes
        BY <4>1, LenProperties, ElementOfSeq DEF Loop
      <4>3. ~(Len(iter.due) >= 2)
        <5> SUFFICES ASSUME Len(iter.due) >= 2 PROVE FALSE
          OBVIOUS
        <5>1. iter.tmp = iter.due[2] /\ 2 \in 1..Len(iter.due)
          BY <4>1, <4>2 DEF Loop
        <5>2. QED
          BY <1>2, <4>1, <4>2, <5>1
      <4>4. Loop(d, count', next', iter)
        BY <4>1, <4>2, <4>3 DEF Loop
      <4>5. QED
        BY <1>r, <3>1, <4>4 DEF OnTrack
    <3>4. QED
      BY <3>2, <3>3
  <2>3. QED
    BY <2>1, <2>2
<1>15. /\ exists' \in [Lists -> BOOLEAN] /\ head' \in [Lists -> Ref] /\ tail' \in [Lists -> Ref]
       /\ count' = [k \in Lists |-> count'[k]] /\ alive' \subseteq Nodes
  <2>1. exists' \in [Lists -> BOOLEAN]
    BY <1>2, <1>6 DEF TypeOK
  <2>2. QED
    BY <1>2, <1>6, <1>7, <2>1 DEF TypeOK, Ref
<1>16. next' \in [Nodes -> Ref] /\ prev' \in [Nodes -> Ref] /\ data' \in [Nodes -> Elem]
  BY <1>2, <1>7 DEF TypeOK, Ref, Elem
<1>17. fault' \in BOOLEAN /\ (fault' => iter'.trapped) /\ merged' \in BOOLEAN
  BY <1>2, <1>6, <1>t DEF TypeOK
<1>18. QED
  BY <1>11, <1>13, <1>14, <1>15, <1>16, <1>17, Restore

(* A list turned round has the same nodes in the opposite order. *)
LEMMA TurnSafe ==
  ASSUME IInv, NEW l \in Lists, TurnAround(l)
  PROVE  IInv'
<1>1. PICK ch : /\ Picture(ch, exists, head, tail, count, alive, next, prev)
                /\ merged \/ Owned(ch, count, alive)
                /\ OnTrack(ch, count, next, iter)
                /\ \A k \in Lists : ch[k] = Chain(k)
  BY Present
<1>2. TypeOK /\ (fault => iter.trapped) /\ NULL \notin Nodes
  BY NodesAssumption DEF IInv
<1>3. UNCHANGED <<iter, fault, merged>> /\ iter.list # l
  BY DEF TurnAround, Returns, Answers, Idle
<1>4. CASE count[l] <= 1
  <2>1. Keep
    BY <1>4 DEF TurnAround
  <2>2. QED
    BY <1>3, <2>1, KeepStep
<1>5. CASE ~(count[l] <= 1)
  <2> DEFINE c == Chain(l)
             m == count[l]
             S == ToSet(c)
  <2>1. /\ m \in Nat /\ m > 1 /\ DOMAIN c = 1..m /\ Len(c) = m
        /\ head[l] = Behind(c, m, 0) /\ tail[l] = Before(c, m)
        /\ \A k \in 1..m : c[k] \in Nodes /\ c[k] \in alive
    BY <1>5, ListFacts
  <2>2. S = {c[i] : i \in 1..m} /\ Last(c) = c[m]
    BY <2>1 DEF ToSet, Last
  <2> HIDE DEF S
  <2>3. /\ next' = [n \in Nodes |-> IF n \in S THEN prev[n] ELSE next[n]]
        /\ prev' = [n \in Nodes |-> IF n \in S THEN next[n] ELSE prev[n]]
        /\ tail' = [tail EXCEPT ![l] = head[l]]
        /\ head' = [head EXCEPT ![l] = IF Len(c) > 1 THEN Last(c) ELSE @]
        /\ UNCHANGED <<exists, count, alive, data>>
    BY <1>5 DEF TurnAround, S
  <2>4. Last(c) = tail[l]
    BY <2>1, <2>2 DEF Before
  <2>5. head' = [head EXCEPT ![l] = tail[l]]
    BY <2>1, <2>3, <2>4
  <2>6. head'[l] = tail[l] /\ tail'[l] = head[l]
        /\ \A k \in Lists \ {l} : head'[k] = head[k] /\ tail'[k] = tail[k]
    BY <1>2, <2>3, <2>5 DEF TypeOK
  <2> DEFINE e == [k \in 1..m |-> c[(m + 1) - k]]
             d == [k \in Lists |-> IF k = l THEN e ELSE ch[k]]
  <2>7. \A k \in 1..m : next'[c[k]] = prev[c[k]] /\ prev'[c[k]] = next[c[k]]
    BY <2>1, <2>2, <2>3
  <2>8. \A k \in 1..m : e[k] = c[(m + 1) - k] /\ (m + 1) - k \in 1..m
    BY <2>1
  <2>9. Linked(Nodes, c, m, next, prev, head[l], tail[l])
    BY <1>1 DEF Picture
  <2>10. d[l] = e /\ \A k \in Lists \ {l} : d[k] = ch[k]
    OBVIOUS
  <2> HIDE DEF c, m, e, d
  <2>11. Linked(Nodes, e, m, next', prev', tail[l], head[l])
    <3>1. ChainTurned(c, m, next, prev, next', prev', e)
      BY <2>7, <2>8 DEF ChainTurned
    <3>2. QED
      BY <2>9, <3>1, TurnLinked
  <2>12. \A k \in Lists \ {l} : \A j \in 1..count[k] :
           /\ next'[ch[k][j]] = next[ch[k][j]] /\ prev'[ch[k][j]] = prev[ch[k][j]]
           /\ ch[k][j] \in alive' /\ \A i \in 1..m : ch[k][j] # c[i]
    <3> SUFFICES ASSUME NEW k \in Lists \ {l}, NEW j \in 1..count[k]
                 PROVE  /\ next'[ch[k][j]] = next[ch[k][j]] /\ prev'[ch[k][j]] = prev[ch[k][j]]
                        /\ ch[k][j] \in alive' /\ \A i \in 1..m : ch[k][j] # c[i]
      OBVIOUS
    <3>1. \A i \in 1..m : c[i] # ch[k][j]
      BY <1>1 DEF Picture, c, m
    <3>2. ch[k][j] \notin S
      BY <2>2, <3>1
    <3>3. ch[k][j] \in Nodes /\ ch[k][j] \in alive
      BY <1>1, <1>2, AllFields
    <3>4. QED
      BY <2>3, <3>1, <3>2, <3>3
  <2>13. Picture(d, exists', head', tail', count', alive', next', prev')
    <3>1. count' = count /\ exists' = exists /\ alive' = alive
      BY <2>3
    <3>2. count'[l] = m
      BY <3>1 DEF m
    <3>3. Linked(Nodes, e, count'[l], next', prev', head'[l], tail'[l])
      BY <2>6, <2>11, <3>2
    <3>4. \A j \in 1..count'[l] : e[j] \in alive'
      BY <2>1, <2>8, <3>1, <3>2
    <3>5. \A k \in Lists \ {l} :
            /\ exists'[k] = exists[k] /\ count'[k] = count[k]
            /\ head'[k] = head[k] /\ tail'[k] = tail[k]
            /\ \A j \in 1..count[k] :
                 /\ next'[ch[k][j]] = next[ch[k][j]] /\ prev'[ch[k][j]] = prev[ch[k][j]]
                 /\ ch[k][j] \in alive'
                 /\ \A s \in 1..count'[l] : e[s] # ch[k][j]
      BY <2>6, <2>8, <2>12, <3>1, <3>2
    <3>6. ~exists'[l] => count'[l] = 0
      BY <1>1, <3>1 DEF Picture
    <3>7. QED
      BY <1>1, <3>3, <3>4, <3>5, <3>6, OneListChanges DEF d
  <2>14. \A x : \A k \in Lists : On(x, ch[k], count[k]) => On(x, d[k], count'[k])
    <3> SUFFICES ASSUME NEW x, NEW k \in Lists, On(x, ch[k], count[k])
                 PROVE  On(x, d[k], count'[k])
      OBVIOUS
    <3>1. CASE k # l
      BY <2>3, <2>10, <3>1
    <3>2. CASE k = l
      <4>1. PICK j \in 1..m : c[j] = x
        BY <1>1, <3>2 DEF On, c, m
      <4>2. (m + 1) - j \in 1..m /\ (m + 1) - ((m + 1) - j) = j
        BY <2>1
      <4>3. e[(m + 1) - j] = x
        BY <2>8, <4>1, <4>2
      <4>4. count'[l] = m
        BY <2>3 DEF m
      <4>5. QED
        BY <2>10, <3>2, <4>2, <4>3, <4>4 DEF On
    <3>3. QED
      BY <3>1, <3>2
  <2>15. merged' \/ Owned(d, count', alive')
    BY <1>1, <1>3, <2>3, <2>14 DEF Owned
  <2>16. OnTrack(d, count', next', iter')
    <3>1. iter.list \in Lists =>
            \A x \in Nodes : On(x, ch[iter.list], count[iter.list]) /\ x # iter.node =>
              /\ On(x, d[iter.list], count'[iter.list])
              /\ next[x] \notin {NULL, iter.node} => next'[x] = next[x]
      BY <1>3, <2>12, <2>14 DEF On
    <3>2. iter' = iter
      BY <1>3
    <3>3. QED
      BY <1>1, <3>1, <3>2, TrackKept
  <2>17. /\ exists' \in [Lists -> BOOLEAN] /\ head' \in [Lists -> Ref] /\ tail' \in [Lists -> Ref]
         /\ count' = [k \in Lists |-> count'[k]] /\ alive' \subseteq Nodes
    BY <1>2, <2>3, <2>5 DEF TypeOK
  <2>18. next' \in [Nodes -> Ref] /\ prev' \in [Nodes -> Ref] /\ data' \in [Nodes -> Elem]
    BY <1>2, <2>3 DEF TypeOK
  <2>19. fault' \in BOOLEAN /\ (fault' => iter'.trapped) /\ merged' \in BOOLEAN
    BY <1>2, <1>3 DEF TypeOK
  <2>20. QED
    BY <2>13, <2>15, <2>16, <2>17, <2>18, <2>19, Restore
<1>6. QED
  BY <1>4, <1>5

(* A clone is a list of its own, of new nodes threaded in the order of the *)
(* positions that were copied.                                             *)
LEMMA CloneSafe ==
  ASSUME IInv, NEW l \in Lists, NEW k \in Lists, Clone(l, k)
  PROVE  IInv'
<1>1. PICK ch : /\ Picture(ch, exists, head, tail, count, alive, next, prev)
                /\ merged \/ Owned(ch, count, alive)
                /\ OnTrack(ch, count, next, iter)
                /\ \A r \in Lists : ch[r] = Chain(r)
  BY Present
<1>2. TypeOK /\ (fault => iter.trapped) /\ NULL \notin Nodes
  BY NodesAssumption DEF IInv
<1>3. UNCHANGED <<iter, fault, merged>> /\ ~exists[k]
  BY DEF Clone, Returns, Answers
<1>4. CASE Keep
  BY <1>3, <1>4, KeepStep
<1>5. CASE ~Keep
  <2> DEFINE c == Chain(l)
  <2>1. PICK kept \in SUBSET DOMAIN c : \E at \in Injection(kept, Nodes \ alive) :
          LET new == Range(at)
              pos == AntiFunction(at)
              later(n) == {i \in kept : i > pos[n]}
              earlier(n) == {i \in kept : i < pos[n]}
          IN  /\ alive' = alive \cup new
              /\ next' = [n \in Nodes |-> IF n \notin new THEN next[n]
                            ELSE IF later(n) = {} THEN NULL ELSE at[Min(later(n))]]
              /\ prev' = [n \in Nodes |-> IF n \notin new THEN prev[n]
                            ELSE IF earlier(n) = {} THEN NULL ELSE at[Max(earlier(n))]]
              /\ data' = [n \in Nodes |-> IF n \notin new THEN data[n] ELSE data[c[pos[n]]]]
              /\ exists' = [exists EXCEPT ![k] = TRUE]
              /\ head' = [head EXCEPT ![k] = IF kept = {} THEN NULL ELSE at[Min(kept)]]
              /\ tail' = [tail EXCEPT ![k] = IF kept = {} THEN NULL ELSE at[Max(kept)]]
              /\ count' = [count EXCEPT ![k] = Cardinality(kept)]
    BY <1>5, Zenon DEF Clone
  <2>2. PICK at \in Injection(kept, Nodes \ alive) :
          LET new == Range(at)
              pos == AntiFunction(at)
              later(n) == {i \in kept : i > pos[n]}
              earlier(n) == {i \in kept : i < pos[n]}
          IN  /\ alive' = alive \cup new
              /\ next' = [n \in Nodes |-> IF n \notin new THEN next[n]
                            ELSE IF later(n) = {} THEN NULL ELSE at[Min(later(n))]]
              /\ prev' = [n \in Nodes |-> IF n \notin new THEN prev[n]
                            ELSE IF earlier(n) = {} THEN NULL ELSE at[Max(earlier(n))]]
              /\ data' = [n \in Nodes |-> IF n \notin new THEN data[n] ELSE data[c[pos[n]]]]
              /\ exists' = [exists EXCEPT ![k] = TRUE]
              /\ head' = [head EXCEPT ![k] = IF kept = {} THEN NULL ELSE at[Min(kept)]]
              /\ tail' = [tail EXCEPT ![k] = IF kept = {} THEN NULL ELSE at[Max(kept)]]
              /\ count' = [count EXCEPT ![k] = Cardinality(kept)]
    BY <2>1, Zenon
  <2> DEFINE new == Range(at)
             pos == AntiFunction(at)
             later(n) == {i \in kept : i > pos[n]}
             earlier(n) == {i \in kept : i < pos[n]}
  <2>3. /\ alive' = alive \cup new
        /\ next' = [n \in Nodes |-> IF n \notin new THEN next[n]
                      ELSE IF later(n) = {} THEN NULL ELSE at[Min(later(n))]]
        /\ prev' = [n \in Nodes |-> IF n \notin new THEN prev[n]
                      ELSE IF earlier(n) = {} THEN NULL ELSE at[Max(earlier(n))]]
        /\ data' = [n \in Nodes |-> IF n \notin new THEN data[n] ELSE data[c[pos[n]]]]
        /\ exists' = [exists EXCEPT ![k] = TRUE]
        /\ head' = [head EXCEPT ![k] = IF kept = {} THEN NULL ELSE at[Min(kept)]]
        /\ tail' = [tail EXCEPT ![k] = IF kept = {} THEN NULL ELSE at[Max(kept)]]
        /\ count' = [count EXCEPT ![k] = Cardinality(kept)]
    BY <2>2, Zenon
  <2>4. /\ at \in [kept -> Nodes \ alive] /\ DOMAIN at = kept
        /\ \A i, j \in kept : at[i] = at[j] => i = j
    BY DEF Injection, IsInjective
  <2>5. DOMAIN c = 1..count[l] /\ count[l] \in Nat /\ count[k] = 0
        /\ \A i \in 1..count[l] : c[i] \in Nodes
    BY <1>3, ListFacts
  <2>6. new = {at[i] : i \in kept} /\ new \subseteq Nodes \ alive
    BY <2>4 DEF Range
  <2>7. \A i \in kept : pos[at[i]] = i
    <3> SUFFICES ASSUME NEW i \in kept PROVE pos[at[i]] = i
      OBVIOUS
    <3>1. at[i] \in Range(at)
      BY <2>6
    <3>2. pos[at[i]] = CHOOSE s \in kept : at[i] \in Range(at) => at[s] = at[i]
      BY <2>4, <3>1 DEF AntiFunction, Inverse
    <3>3. \A s \in kept : (at[i] \in Range(at) => at[s] = at[i]) <=> s = i
      BY <2>4, <3>1
    <3>4. QED
      BY <3>2, <3>3
  <2> HIDE DEF new, pos, c
  <2>8. PICK src : Enumerates(src, kept, Cardinality(kept))
    BY <2>5, EnumerationExists
  <2> DEFINE m == Cardinality(kept)
             e == [i \in 1..m |-> at[src[i]]]
             d == [r \in Lists |-> IF r = k THEN e ELSE ch[r]]
  <2>9. m \in Nat /\ (\A i \in 1..m : src[i] \in kept) /\ \A i \in kept : \E j \in 1..m : src[j] = i
    BY <2>8 DEF Enumerates
  <2>10. \A i \in kept : /\ at[i] \in Nodes /\ at[i] \in new /\ at[i] \notin alive
                         /\ pos[at[i]] = i
    BY <2>4, <2>6, <2>7
  <2>11. kept \in SUBSET Nat /\ kept \in SUBSET (1..count[l])
    BY <2>5
  <2>12. \A n \in new : (later(n) # {} => Min(later(n)) \in kept)
                        /\ (earlier(n) # {} => Max(earlier(n)) \in kept)
    <3> SUFFICES ASSUME NEW n \in new
                 PROVE  /\ later(n) # {} => Min(later(n)) \in kept
                        /\ earlier(n) # {} => Max(earlier(n)) \in kept
      OBVIOUS
    <3>1. later(n) \in SUBSET Nat /\ later(n) \subseteq kept
      BY <2>11
    <3>2. earlier(n) \in SUBSET (1..count[l]) /\ earlier(n) \subseteq kept
      BY <2>11
    <3> HIDE DEF later, earlier
    <3>3. later(n) # {} => Min(later(n)) \in later(n)
      BY <3>1, MinIsLeast
    <3>4. earlier(n) # {} => Max(earlier(n)) \in earlier(n)
      BY <2>5, <3>2, MaxIsGreatest
    <3>5. QED
      BY <3>1, <3>2, <3>3, <3>4
  <2>13. head'[k] = (IF kept = {} THEN NULL ELSE at[Min(kept)])
         /\ tail'[k] = (IF kept = {} THEN NULL ELSE at[Max(kept)])
         /\ count'[k] = m /\ exists'[k]
    BY <1>2, <2>3 DEF TypeOK
  <2>14. Threaded(Nodes, count[l], kept, at, next', prev', head'[k], tail'[k])
    <3>1. \A i \in kept : LET aft == {j \in kept : j > i}
                          IN  next'[at[i]] = IF aft = {} THEN NULL ELSE at[Min(aft)]
      BY <2>3, <2>10
    <3>2. \A i \in kept : LET bef == {j \in kept : j < i}
                          IN  prev'[at[i]] = IF bef = {} THEN NULL ELSE at[Max(bef)]
      BY <2>3, <2>10
    <3>3. QED
      BY <2>4, <2>5, <2>11, <2>13, <3>1, <3>2 DEF Threaded
  <2>15. Linked(Nodes, e, m, next', prev', head'[k], tail'[k])
    <3>1. \A i \in 1..m : e[i] = at[src[i]]
      OBVIOUS
    <3> HIDE DEF e, m, later, earlier
    <3>2. Enumerates(src, kept, m)
      BY <2>8 DEF m
    <3>3. QED
      BY <2>14, <3>1, <3>2, ThreadLinked
  <2>17. (\A i \in 1..m : e[i] \in new) /\ d[k] = e /\ \A r \in Lists \ {k} : d[r] = ch[r]
    BY <2>9, <2>10
  <2>18. \A n \in new : On(n, e, m)
    <3> SUFFICES ASSUME NEW n \in new PROVE On(n, e, m)
      OBVIOUS
    <3>1. PICK i \in kept : at[i] = n
      BY <2>6
    <3>2. PICK j \in 1..m : src[j] = i
      BY <2>9
    <3>3. e[j] = n
      BY <3>1, <3>2
    <3>4. QED
      BY <3>3 DEF On
  <2> HIDE DEF e, d, m, later, earlier
  <2>19. \A r \in Lists : \A j \in 1..count[r] :
           /\ ch[r][j] \in Nodes /\ ch[r][j] \in alive /\ ch[r][j] \notin new
           /\ next'[ch[r][j]] = next[ch[r][j]] /\ prev'[ch[r][j]] = prev[ch[r][j]]
    <3> SUFFICES ASSUME NEW r \in Lists, NEW j \in 1..count[r]
                 PROVE  /\ ch[r][j] \in Nodes /\ ch[r][j] \in alive /\ ch[r][j] \notin new
                        /\ next'[ch[r][j]] = next[ch[r][j]] /\ prev'[ch[r][j]] = prev[ch[r][j]]
      OBVIOUS
    <3>1. ch[r][j] \in Nodes /\ ch[r][j] \in alive
      BY <1>1, <1>2, AllFields
    <3>2. QED
      BY <2>3, <2>6, <3>1
  <2>20. \A r \in Lists \ {k} : /\ exists'[r] = exists[r] /\ count'[r] = count[r]
                                /\ head'[r] = head[r] /\ tail'[r] = tail[r]
    BY <1>2, <2>3 DEF TypeOK
  <2>21. Picture(d, exists', head', tail', count', alive', next', prev')
    <3>1. Linked(Nodes, e, count'[k], next', prev', head'[k], tail'[k])
      BY <2>13, <2>15
    <3>2. \A j \in 1..count'[k] : e[j] \in alive'
      BY <2>3, <2>13, <2>17
    <3>3. \A r \in Lists \ {k} :
            /\ exists'[r] = exists[r] /\ count'[r] = count[r]
            /\ head'[r] = head[r] /\ tail'[r] = tail[r]
            /\ \A j \in 1..count[r] :
                 /\ next'[ch[r][j]] = next[ch[r][j]] /\ prev'[ch[r][j]] = prev[ch[r][j]]
                 /\ ch[r][j] \in alive'
                 /\ \A s \in 1..count'[k] : e[s] # ch[r][j]
      <4>1. alive' = alive \cup new /\ count'[k] = m
        BY <2>3, <2>13
      <4>2. \A r \in Lists : \A j \in 1..count[r] : \A s \in 1..m : e[s] # ch[r][j]
        BY <2>17, <2>19
      <4>3. QED
        BY <2>19, <2>20, <4>1, <4>2
    <3>4. ~exists'[k] => count'[k] = 0
      BY <2>13
    <3>5. QED
      BY <1>1, <3>1, <3>2, <3>3, <3>4, OneListChanges DEF d
  <2>22. \A x : \A r \in Lists : On(x, ch[r], count[r]) => On(x, d[r], count'[r])
    <3>1. \A x : ~On(x, ch[k], count[k])
      BY <2>5 DEF On
    <3>2. QED
      BY <2>17, <2>20, <3>1
  <2>23. merged' \/ Owned(d, count', alive')
    <3>1. \A n \in new : On(n, d[k], count'[k])
      BY <2>13, <2>17, <2>18
    <3>2. QED
      BY <1>1, <1>3, <2>3, <2>22, <3>1 DEF Owned
  <2>24. OnTrack(d, count', next', iter')
    <3>1. iter.list \in Lists =>
            \A x \in Nodes : On(x, ch[iter.list], count[iter.list]) /\ x # iter.node =>
              /\ On(x, d[iter.list], count'[iter.list])
              /\ next[x] \notin {NULL, iter.node} => next'[x] = next[x]
      BY <2>19, <2>22 DEF On
    <3>2. iter' = iter
      BY <1>3
    <3>3. QED
      BY <1>1, <3>1, <3>2, TrackKept
  <2>25. (kept # {} => at[Min(kept)] \in Nodes) /\ (kept # {} => at[Max(kept)] \in Nodes)
    <3>1. kept # {} => Min(kept) \in kept
      BY <2>11, MinIsLeast
    <3>2. kept # {} => Max(kept) \in kept
      BY <2>5, <2>11, MaxIsGreatest
    <3>3. QED
      BY <2>10, <3>1, <3>2
  <2>26. /\ exists' \in [Lists -> BOOLEAN] /\ head' \in [Lists -> Ref] /\ tail' \in [Lists -> Ref]
         /\ count' = [r \in Lists |-> count'[r]] /\ alive' \subseteq Nodes
    BY <1>2, <2>3, <2>6, <2>25 DEF TypeOK, Ref
  <2>27. next' \in [Nodes -> Ref] /\ prev' \in [Nodes -> Ref]
    BY <1>2, <2>3, <2>10, <2>12 DEF TypeOK, Ref
  <2>28. data' \in [Nodes -> Elem]
    <3>1. \A n \in new : c[pos[n]] \in Nodes
      BY <2>5, <2>6, <2>10, <2>11
    <3>2. QED
      BY <1>2, <2>3, <3>1 DEF TypeOK
  <2>29. fault' \in BOOLEAN /\ (fault' => iter'.trapped) /\ merged' \in BOOLEAN
    BY <1>2, <1>3 DEF TypeOK
  <2>30. QED
    BY <2>21, <2>23, <2>24, <2>26, <2>27, <2>28, <2>29, Restore
<1>6. QED
  BY <1>4, <1>5

(* A merge: the nodes of s go behind those of l, and s is left with none;  *)
(* a list merged into itself loses them.                                   *)
LEMMA MergeSafe ==
  ASSUME IInv, NEW l \in Lists, NEW s \in Lists, Merge(l, s)
  PROVE  IInv'
<1>1. PICK ch : /\ Picture(ch, exists, head, tail, count, alive, next, prev)
                /\ merged \/ Owned(ch, count, alive)
                /\ OnTrack(ch, count, next, iter)
                /\ \A r \in Lists : ch[r] = Chain(r)
  BY Present
<1>2. TypeOK /\ (fault => iter.trapped) /\ NULL \notin Nodes
  BY NodesAssumption DEF IInv
<1>3. UNCHANGED <<exists, alive, data, iter, fault>> /\ iter.list # l /\ iter.list # s
      /\ exists[l] /\ exists[s]
  BY DEF Merge, Idle
<1>4. CASE count[s] = 0
  <2>1. Keep /\ UNCHANGED <<iter, fault, merged>>
    BY <1>3, <1>4, Zenon DEF Merge, Keep, headers, heap
  <2>2. QED
    BY <2>1, KeepStep
<1>5. CASE count[s] # 0
  <2>1. /\ IF tail[l] # NULL
           THEN /\ next' = [next EXCEPT ![tail[l]] = head[s]]
                /\ prev' = [prev EXCEPT ![head[s]] = tail[l]]
           ELSE UNCHANGED <<next, prev>>
        /\ head' = [head EXCEPT ![l] = IF tail[l] = NULL THEN head[s] ELSE @, ![s] = NULL]
        /\ tail' = [tail EXCEPT ![l] = tail[s], ![s] = NULL]
        /\ count' = [count EXCEPT ![l] = @ + count[s], ![s] = 0]
        /\ merged' = (merged \/ l = s)
    BY <1>5, Zenon DEF Merge
  <2>2. \A k \in Lists :
          /\ count[k] \in Nat
          /\ head[k] = Behind(ch[k], count[k], 0) /\ tail[k] = Before(ch[k], count[k])
          /\ \A j \in 1..count[k] : ch[k][j] \in Nodes /\ ch[k][j] \in alive /\ ch[k][j] # NULL
          /\ Linked(Nodes, ch[k], count[k], next, prev, head[k], tail[k])
    <3>1. \A k \in Lists : Linked(Nodes, ch[k], count[k], next, prev, head[k], tail[k])
      BY <1>1 DEF Picture
    <3>2. \A k \in Lists :
            /\ count[k] \in Nat
            /\ head[k] = Behind(ch[k], count[k], 0) /\ tail[k] = Before(ch[k], count[k])
            /\ \A j \in 1..count[k] : ch[k][j] \in Nodes /\ ch[k][j] \in alive /\ ch[k][j] # NULL
      BY <1>1, <1>2, AllFields
    <3>3. QED
      BY <3>1, <3>2
  <2>3. /\ head'[s] = NULL /\ tail'[s] = NULL /\ count'[s] = 0
        /\ l # s => /\ head'[l] = IF tail[l] = NULL THEN head[s] ELSE head[l]
                    /\ tail'[l] = tail[s] /\ count'[l] = count[l] + count[s]
        /\ \A k \in Lists \ {l, s} :
             head'[k] = head[k] /\ tail'[k] = tail[k] /\ count'[k] = count[k]
    BY <1>2, <2>1 DEF TypeOK
  <2> DEFINE c1 == ch[l]
             m1 == count[l]
             c2 == ch[s]
             m2 == count[s]
  <2>4. m1 \in Nat /\ m2 \in Nat /\ m2 # 0 /\ 1 \in 1..m2
    BY <1>5, <2>2
  <2>5. On(head[s], c2, m2) /\ (tail[l] # NULL => On(tail[l], c1, m1) /\ m1 # 0)
        /\ (tail[l] = NULL => m1 = 0)
    BY <2>2, <2>4 DEF Before, Behind, On
  <2>6. \A x \in Nodes : /\ next'[x] = IF tail[l] # NULL /\ x = tail[l] THEN head[s] ELSE next[x]
                         /\ prev'[x] = IF tail[l] # NULL /\ x = head[s] THEN tail[l] ELSE prev[x]
    BY <1>2, <2>1 DEF TypeOK
  <2>7. \A k \in Lists \ {l, s} : \A j \in 1..count[k] :
          /\ next'[ch[k][j]] = next[ch[k][j]] /\ prev'[ch[k][j]] = prev[ch[k][j]]
          /\ (\A i \in 1..m1 : c1[i] # ch[k][j]) /\ (\A i \in 1..m2 : c2[i] # ch[k][j])
    <3> SUFFICES ASSUME NEW k \in Lists \ {l, s}, NEW j \in 1..count[k]
                 PROVE  /\ next'[ch[k][j]] = next[ch[k][j]] /\ prev'[ch[k][j]] = prev[ch[k][j]]
                        /\ (\A i \in 1..m1 : c1[i] # ch[k][j])
                        /\ (\A i \in 1..m2 : c2[i] # ch[k][j])
      OBVIOUS
    <3>1. (\A i \in 1..m1 : c1[i] # ch[k][j]) /\ (\A i \in 1..m2 : c2[i] # ch[k][j])
      BY <1>1 DEF Picture
    <3>2. ch[k][j] \in Nodes /\ ch[k][j] # head[s] /\ (tail[l] # NULL => ch[k][j] # tail[l])
      BY <2>2, <2>5, <3>1 DEF On
    <3>3. QED
      BY <2>6, <3>1, <3>2
  <2>8. iter.list \in Lists => iter.list \in Lists \ {l, s}
    BY <1>3
  <2>9. /\ exists' \in [Lists -> BOOLEAN] /\ head' \in [Lists -> Ref] /\ tail' \in [Lists -> Ref]
        /\ count' = [k \in Lists |-> count'[k]] /\ alive' \subseteq Nodes
    BY <1>2, <1>3, <2>1 DEF TypeOK, Ref
  <2>10. next' \in [Nodes -> Ref] /\ prev' \in [Nodes -> Ref] /\ data' \in [Nodes -> Elem]
    BY <1>2, <1>3, <2>1 DEF TypeOK
  <2>11. fault' \in BOOLEAN /\ (fault' => iter'.trapped) /\ merged' \in BOOLEAN
    BY <1>2, <1>3, <2>1 DEF TypeOK
  <2> HIDE DEF c1, m1, c2, m2
  <2>12. CASE l = s
    <3> DEFINE d == [k \in Lists |-> IF k = l THEN <<>> ELSE ch[k]]
    <3>1. d[l] = <<>> /\ \A k \in Lists \ {l} : d[k] = ch[k]
      OBVIOUS
    <3> HIDE DEF d
    <3>2. Picture(d, exists', head', tail', count', alive', next', prev')
      <4> DEFINE e == <<>>
      <4> HIDE DEF e
      <4>1. Linked(Nodes, e, count'[l], next', prev', head'[l], tail'[l])
        BY <2>3, <2>12 DEF Linked, Run, Back
      <4>2. \A j \in 1..count'[l] : e[j] \in alive'
        BY <2>3, <2>12
      <4>3. ~exists'[l] => count'[l] = 0
        BY <2>3, <2>12
      <4>4. \A k \in Lists \ {l} :
              /\ exists'[k] = exists[k] /\ count'[k] = count[k]
              /\ head'[k] = head[k] /\ tail'[k] = tail[k]
              /\ \A j \in 1..count[k] :
                   /\ next'[ch[k][j]] = next[ch[k][j]] /\ prev'[ch[k][j]] = prev[ch[k][j]]
                   /\ ch[k][j] \in alive'
                   /\ \A i \in 1..count'[l] : e[i] # ch[k][j]
        BY <1>3, <2>2, <2>3, <2>7, <2>12
      <4>5. QED
        BY <1>1, <4>1, <4>2, <4>3, <4>4, OneListChanges DEF d, e
    <3>3. OnTrack(d, count', next', iter')
      <4>1. iter.list \in Lists =>
              \A x \in Nodes : On(x, ch[iter.list], count[iter.list]) /\ x # iter.node =>
                /\ On(x, d[iter.list], count'[iter.list])
                /\ next[x] \notin {NULL, iter.node} => next'[x] = next[x]
        BY <2>3, <2>7, <2>8, <2>12, <3>1 DEF On
      <4>2. iter' = iter
        BY <1>3
      <4>3. QED
        BY <1>1, <4>1, <4>2, TrackKept
    <3>4. merged'
      BY <2>1, <2>12
    <3>5. QED
      BY <2>9, <2>10, <2>11, <3>2, <3>3, <3>4, Restore
  <2>13. CASE l # s
    <3> DEFINE e == [k \in 1..m1 + m2 |-> IF k <= m1 THEN c1[k] ELSE c2[k - m1]]
               d == [k \in Lists |-> IF k = l THEN e ELSE IF k = s THEN <<>> ELSE ch[k]]
    <3>1. \A k \in 1..m1 + m2 : e[k] = IF k <= m1 THEN c1[k] ELSE c2[k - m1]
      OBVIOUS
    <3>2. d[l] = e /\ \A k \in Lists \ {l, s} : d[k] = ch[k]
      OBVIOUS
    <3> HIDE DEF e, d
    <3>3. \A i \in 1..m1, j \in 1..m2 : c1[i] # c2[j]
      BY <1>1, <2>13 DEF Picture, c1, m1, c2, m2
    <3>4. Linked(Nodes, c1, m1, next, prev, head[l], tail[l])
          /\ Linked(Nodes, c2, m2, next, prev, head[s], tail[s])
      BY <2>2 DEF c1, m1, c2, m2
    <3>5. count'[l] = m1 + m2
      BY <2>3, <2>13 DEF m1, m2
    <3>6. Linked(Nodes, e, count'[l], next', prev', head'[l], tail'[l])
      <4>1. CASE tail[l] = NULL
        <5>1. m1 = 0 /\ m1 + m2 = m2 /\ \A k \in 1..m2 : e[k] = c2[k]
          BY <2>4, <2>5, <3>1, <4>1
        <5>2. head'[l] = head[s] /\ tail'[l] = tail[s] /\ count'[l] = m2
          BY <2>3, <2>13, <3>5, <4>1, <5>1
        <5>3. next' = next /\ prev' = prev
          BY <2>1, <4>1
        <5>4. QED
          BY <3>4, <5>1, <5>2, <5>3 DEF Linked, Run, Back
      <4>2. CASE tail[l] # NULL
        <5>1. head'[l] = head[l] /\ tail'[l] = tail[s]
          BY <2>3, <2>13, <4>2
        <5>2. Joined(Nodes, c1, m1, c2, m2, next, prev, tail[l], head[s], next', prev', e)
          BY <2>4, <2>5, <2>6, <3>1, <3>3, <4>2 DEF Joined
        <5>3. Linked(Nodes, e, m1 + m2, next', prev', head[l], tail[s])
          BY <1>2, <3>4, <5>2, JoinLinked
        <5>4. QED
          BY <3>5, <5>1, <5>3
      <4>3. QED
        BY <4>1, <4>2
    <3>7. \A j \in 1..m1 + m2 : On(e[j], c1, m1) \/ On(e[j], c2, m2)
      <4> SUFFICES ASSUME NEW j \in 1..m1 + m2 PROVE On(e[j], c1, m1) \/ On(e[j], c2, m2)
        OBVIOUS
      <4>1. CASE j <= m1
        BY <2>4, <3>1, <4>1 DEF On
      <4>2. CASE ~(j <= m1)
        <5>1. j - m1 \in 1..m2 /\ e[j] = c2[j - m1]
          BY <2>4, <3>1, <4>2
        <5>2. QED
          BY <5>1 DEF On
      <4>3. QED
        BY <4>1, <4>2
    <3>8. \A k \in Lists \ {l, s} : Linked(Nodes, ch[k], count[k], next', prev', head[k], tail[k])
      <4> SUFFICES ASSUME NEW k \in Lists \ {l, s}
                   PROVE  Linked(Nodes, ch[k], count[k], next', prev', head[k], tail[k])
        OBVIOUS
      <4>1. Linked(Nodes, ch[k], count[k], next, prev, head[k], tail[k])
        BY <2>2
      <4>2. \A j \in 1..count[k] : next'[ch[k][j]] = next[ch[k][j]] /\ prev'[ch[k][j]] = prev[ch[k][j]]
        BY <2>7
      <4>3. QED
        BY <4>1, <4>2, OthersLinked
    <3>9. Picture(d, exists', head', tail', count', alive', next', prev')
      <4>1. \A k \in Lists : Linked(Nodes, d[k], count'[k], next', prev', head'[k], tail'[k])
        <5>1. \A k \in Lists \ {l, s} : Linked(Nodes, d[k], count'[k], next', prev', head'[k], tail'[k])
          BY <2>3, <3>2, <3>8
        <5>2. Linked(Nodes, d[s], count'[s], next', prev', head'[s], tail'[s])
          BY <2>3 DEF Linked, Run, Back
        <5>3. QED
          BY <3>2, <3>6, <5>1, <5>2
      <4>2. \A k \in Lists : \A j \in 1..count'[k] : d[k][j] \in alive'
        <5>1. \A j \in 1..count'[l] : d[l][j] \in alive
          BY <2>2, <3>2, <3>5, <3>7 DEF On, c1, m1, c2, m2
        <5>2. \A k \in Lists \ {l, s} : \A j \in 1..count'[k] : d[k][j] \in alive
          BY <2>2, <2>3, <3>2
        <5>3. QED
          BY <1>3, <2>3, <5>1, <5>2
      <4>3. \A k \in Lists : ~exists'[k] => count'[k] = 0
        BY <1>1, <1>3, <2>3 DEF Picture
      <4>4. \A k, r \in Lists : k # r =>
              \A i \in 1..count'[k], j \in 1..count'[r] : d[k][i] # d[r][j]
        <5>1. \A k, r \in Lists \ {l, s} : k # r =>
                \A i \in 1..count'[k], j \in 1..count'[r] : d[k][i] # d[r][j]
          BY <1>1, <2>3, <3>2 DEF Picture
        <5>2. \A k \in Lists \ {l, s} :
                \A i \in 1..count'[k], j \in 1..count'[l] : d[k][i] # d[l][j]
          BY <2>3, <2>7, <3>2, <3>5, <3>7 DEF On
        <5>3. QED
          BY <2>3, <5>1, <5>2
      <4>5. QED
        BY <4>1, <4>2, <4>3, <4>4 DEF Picture
    <3>10. OnTrack(d, count', next', iter')
      <4>1. iter.list \in Lists =>
              \A x \in Nodes : On(x, ch[iter.list], count[iter.list]) /\ x # iter.node =>
                /\ On(x, d[iter.list], count'[iter.list])
                /\ next[x] \notin {NULL, iter.node} => next'[x] = next[x]
        BY <2>3, <2>7, <2>8, <3>2 DEF On
      <4>2. iter' = iter
        BY <1>3
      <4>3. QED
        BY <1>1, <4>1, <4>2, TrackKept
    <3>11. \A x : \A k \in Lists : On(x, ch[k], count[k]) => \E r \in Lists : On(x, d[r], count'[r])
      <4> SUFFICES ASSUME NEW x, NEW k \in Lists, On(x, ch[k], count[k])
                   PROVE  \E r \in Lists : On(x, d[r], count'[r])
        OBVIOUS
      <4>1. CASE k \in Lists \ {l, s}
        BY <2>3, <3>2, <4>1
      <4>2. CASE k = l
        <5>1. PICK j \in 1..m1 : c1[j] = x
          BY <4>2 DEF On, c1, m1
        <5>2. j \in 1..m1 + m2 /\ e[j] = x
          BY <2>4, <3>1, <5>1
        <5>3. QED
          BY <3>2, <3>5, <5>2 DEF On
      <4>3. CASE k = s
        <5>1. PICK j \in 1..m2 : c2[j] = x
          BY <4>3 DEF On, c2, m2
        <5>2. j + m1 \in 1..m1 + m2 /\ ~(j + m1 <= m1) /\ (j + m1) - m1 = j
          BY <2>4
        <5>3. e[j + m1] = x
          BY <3>1, <5>1, <5>2
        <5>4. QED
          BY <3>2, <3>5, <5>2, <5>3 DEF On
      <4>4. QED
        BY <4>1, <4>2, <4>3
    <3>12. merged' \/ Owned(d, count', alive')
      BY <1>1, <1>3, <2>1, <3>11 DEF Owned
    <3>13. QED
      BY <2>9, <2>10, <2>11, <3>9, <3>10, <3>12, Restore
  <2>14. QED
    BY <2>12, <2>13
<1>6. QED
  BY <1>4, <1>5

-------------------------------------------------------------------------------
(* The loop changes nothing but its own place. *)
LEMMA LoopStep ==
  ASSUME IInv, UNCHANGED <<headers, heap, merged>>, fault' \in BOOLEAN, fault' => iter'.trapped,
         NEW ch, ch = Chains, OnTrack(ch, count, next, iter')
  PROVE  IInv'
<1>1. UNCHANGED <<exists, head, tail, count, alive, next, prev, data>>
  BY DEF headers, heap
<1>2. TypeOK' /\ (fault' => iter'.trapped)
  BY <1>1 DEF IInv, TypeOK
<1>3. \A l \in Lists : Chain(l)' = Chain(l)
  BY <1>1 DEF Chain, WalkTo
<1>4. Chains' = ch
  BY <1>3 DEF Chains
<1>5. Picture(ch, exists, head, tail, count, alive, next, prev) /\ (merged \/ Owned(ch, count, alive))
  BY DEF IInv
<1>6. Picture(Chains, exists, head, tail, count, alive, next, prev)'
  BY <1>1, <1>4, <1>5
<1>7. merged' \/ Owned(Chains, count, alive)'
  BY <1>1, <1>4, <1>5
<1>8. OnTrack(Chains, count, next, iter)'
  BY <1>1, <1>4
<1>9. QED
  BY <1>2, <1>6, <1>7, <1>8 DEF IInv

(* A loop begins at the head, its nodes due those of the list. *)
LEMMA IterBeginSafe ==
  ASSUME IInv, NEW l \in Lists, IterBegin(l)
  PROVE  IInv'
<1>1. PICK ch : ch = Chains
  OBVIOUS
<1>2. iter' = [list |-> l, node |-> head[l], tmp |-> NextOf(head[l]), due |-> Chain(l),
                trapped |-> FALSE]
      /\ UNCHANGED <<headers, heap, fault, merged>>
  BY DEF IterBegin
<1>3. ch[l] = Chain(l)
  BY <1>1 DEF Chains
<1> DEFINE c == Chain(l)
           m == count[l]
           it == iter'
<1>4. /\ m \in Nat /\ Len(c) = m /\ DOMAIN c = 1..m /\ head[l] = Behind(c, m, 0)
      /\ \A i \in 1..m : c[i] \in Nodes /\ c[i] # NULL /\ next[c[i]] = Behind(c, m, i)
      /\ \A i, j \in 1..m : c[i] = c[j] => i = j
  BY ListFacts
<1>5. c \in Seq(Nodes)
  <2>1. PICK d : Shows(c, d, m)
    BY Present
  <2>2. c = [i \in 1..m |-> c[i]]
    BY <2>1 DEF Shows
  <2> HIDE DEF c
  <2>3. QED
    BY <1>4, <2>2
<1>6. /\ it.list = l /\ it.node = head[l] /\ it.tmp = NextOf(head[l]) /\ it.due = c
      /\ it = [list |-> it.list, node |-> it.node, tmp |-> it.tmp, due |-> it.due, trapped |-> it.trapped]
      /\ l # NULL
  BY <1>2, NodesAssumption
<1> HIDE DEF c, m, it
<1>7. head[l] = IF m = 0 THEN NULL ELSE c[1]
  BY <1>4 DEF Behind
<1>8. m # 0 => 1 \in 1..m /\ next[c[1]] = (IF m = 1 THEN NULL ELSE c[2]) /\ c[1] # NULL
  BY <1>4 DEF Behind
<1>9. it.tmp = IF m >= 2 THEN c[2] ELSE NULL
  BY <1>4, <1>6, <1>7, <1>8 DEF NextOf
<1>10. m >= 2 => 2 \in 1..m /\ c[2] \in Nodes /\ c[2] # c[1] /\ On(c[2], c, m)
  BY <1>4, <1>8 DEF On
<1>11. \A j \in 2..m : j \in 1..m /\ On(c[j], c, m)
  BY <1>4 DEF On
<1>12. \A j \in 2..m - 1 : next[c[j]] = c[j + 1]
  BY <1>4 DEF Behind
<1>13. Loop(ch, count, next, it)
  <2>1. ch[it.list] = c /\ count[it.list] = m
    BY <1>3, <1>6 DEF c, m
  <2>2. it.list \in Lists /\ it.list # NULL
    BY <1>6
  <2>3. it.tmp # NULL => it.tmp # it.node /\ On(it.tmp, ch[it.list], count[it.list])
    BY <1>4, <1>6, <1>7, <1>9, <1>10, <2>1
  <2>4. it.tmp \in Ref /\ it.due \in Seq(Nodes)
    BY <1>5, <1>6, <1>9, <1>10 DEF Ref
  <2>5. Len(it.due) = m
    BY <1>4, <1>6 DEF c, m
  <2>6. (m >= 1 => it.node = it.due[1]) /\ (m >= 2 => it.tmp = it.due[2])
    BY <1>4, <1>6, <1>7, <1>9
  <2>7. \A i, j \in 1..m : i # j => it.due[i] # it.due[j]
    BY <1>4, <1>6
  <2>8. \A j \in 2..m : On(it.due[j], ch[it.list], count[it.list])
    BY <1>6, <1>11, <2>1
  <2>9. \A j \in 2..m - 1 : next[it.due[j]] = it.due[j + 1]
    BY <1>6, <1>12
  <2>10. QED
    BY <1>6, <2>2, <2>3, <2>4, <2>5, <2>6, <2>7, <2>8, <2>9 DEF Loop
<1>14. it.trapped = FALSE /\ fault = FALSE
  BY <1>2 DEF it, IterBegin, Idle, IInv, TypeOK
<1>15. OnTrack(ch, count, next, it)
  BY <1>6, <1>13, <1>14 DEF OnTrack
<1>16. QED
  BY <1>1, <1>2, <1>14, <1>15, LoopStep DEF it

(* A loop on its track finds the node read ahead still allocated: it moves *)
(* there and reads ahead the next.                                         *)
LEMMA IterStepOnTrack ==
  ASSUME IInv, IterStep, ~iter.trapped
  PROVE  IInv'
<1>1. PICK ch : /\ ch = Chains
                /\ Picture(ch, exists, head, tail, count, alive, next, prev)
                /\ Loop(ch, count, next, iter)
  BY Present DEF OnTrack
<1>2. iter.list # NULL /\ iter.list \in Lists
  BY <1>1 DEF IterStep, Loop, NoIter
<1> DEFINE l == iter.list
           c == ch[l]
           m == count[l]
           n == Len(iter.due)
           t == iter.tmp
           due == iter.due
<1>3. /\ m \in Nat
      /\ \A i \in 1..m : c[i] \in Nodes /\ c[i] \in alive /\ c[i] # NULL /\ next[c[i]] = Behind(c, m, i)
      /\ \A i, j \in 1..m : c[i] = c[j] => i = j
  BY <1>1, <1>2, AllFields DEF IInv
<1>4. t # NULL => \E i \in 1..m : c[i] = t
  BY <1>1, <1>2 DEF Loop, On
<1>5. t \in alive \cup {NULL}
  BY <1>3, <1>4
<1>6. /\ iter' = [iter EXCEPT !.node = iter.tmp, !.tmp = NextOf(iter.tmp), !.due = Rest(@)]
      /\ UNCHANGED <<headers, heap, call, result, fault, merged>>
  BY <1>5, Zenon DEF IterStep
<1>7. NextOf(t) # NULL => NextOf(t) \in Nodes /\ NextOf(t) # t /\ On(NextOf(t), c, m)
  <2> SUFFICES ASSUME NextOf(t) # NULL
               PROVE  NextOf(t) \in Nodes /\ NextOf(t) # t /\ On(NextOf(t), c, m)
    OBVIOUS
  <2>1. t # NULL /\ NextOf(t) = next[t]
    BY DEF NextOf
  <2>2. PICK i \in 1..m : c[i] = t
    BY <1>4, <2>1
  <2>3. next[t] = Behind(c, m, i)
    BY <1>3, <2>2
  <2> HIDE DEF c, m, t
  <2>4. i # m /\ next[t] = c[i + 1]
    BY <2>1, <2>3 DEF Behind
  <2>5. i + 1 \in 1..m /\ i + 1 # i
    BY <1>3, <2>4
  <2>6. QED
    BY <1>3, <2>1, <2>2, <2>4, <2>5 DEF On
<1>8. /\ due \in Seq(Nodes) /\ n \in Nat
      /\ n >= 2 => t = due[2]
      /\ \A i, j \in 1..n : i # j => due[i] # due[j]
      /\ \A j \in 2..n : On(due[j], c, m)
      /\ \A j \in 2..n - 1 : next[due[j]] = due[j + 1]
  BY <1>1, LenProperties DEF Loop
<1>9. \A j \in 1..n : due[j] \in Nodes /\ due[j] # NULL
  BY <1>8, ElementOfSeq, NodesAssumption
<1> DEFINE it == iter'
           r == Rest(due)
<1>10. it.list = l /\ it.node = t /\ it.tmp = NextOf(t) /\ it.due = r
  BY <1>2, <1>6, <1>1 DEF Loop
<1>11. (n = 0 => r = due) /\ r \in Seq(Nodes)
       /\ (n # 0 => Len(r) = n - 1 /\ \A j \in 1..n - 1 : r[j] = due[j + 1])
  <2>1. CASE due = <<>>
    BY <1>8, <2>1 DEF Rest
  <2>2. CASE due # <<>>
    <3>1. Len(due) # 0
      BY <1>8, <2>2, EmptySeq
    <3>2. r = Tail(due)
      BY <2>2 DEF Rest
    <3>3. /\ Tail(due) \in Seq(Nodes) /\ Len(Tail(due)) = Len(due) - 1
          /\ \A j \in 1..Len(Tail(due)) : Tail(due)[j] = due[j + 1]
      BY <1>8, <2>2, HeadTailProperties
    <3>4. QED
      BY <3>1, <3>2, <3>3
  <2>3. QED
    BY <2>1, <2>2
<1> DEFINE k == Len(r)
<1>12. k \in Nat /\ k = (IF n = 0 THEN 0 ELSE n - 1) /\ \A j \in 1..k : r[j] = due[j + 1] /\ j + 1 \in 2..n
  BY <1>8, <1>11
<1>13. it = [list |-> it.list, node |-> it.node, tmp |-> it.tmp, due |-> it.due, trapped |-> it.trapped]
  BY <1>6, <1>1 DEF Loop
<1> HIDE DEF l, c, m, n, t, due, it, r, k
<1>14. k >= 1 => n >= 2 /\ r[1] = due[2]
  BY <1>8, <1>12
<1>15. k >= 2 => t # NULL /\ NextOf(t) = r[2]
  <2> SUFFICES ASSUME k >= 2 PROVE t # NULL /\ NextOf(t) = r[2]
    OBVIOUS
  <2>1. n >= 3 /\ 2 \in 1..n /\ 2 \in 2..n - 1 /\ r[2] = due[3]
    BY <1>8, <1>12
  <2>2. t = due[2] /\ t # NULL /\ next[t] = due[3]
    BY <1>8, <1>9, <2>1
  <2>3. QED
    BY <2>1, <2>2 DEF NextOf
<1>16. Loop(ch, count, next, it)
  <2>1. it.list = l /\ l # NULL /\ l \in Lists /\ c = ch[it.list] /\ m = count[it.list]
    BY <1>2, <1>10 DEF l, c, m
  <2>2. it.tmp # NULL => it.tmp # it.node /\ On(it.tmp, ch[it.list], count[it.list])
    BY <1>7, <1>10, <2>1
  <2>3. it.tmp \in Ref /\ it.due \in Seq(Nodes) /\ Len(it.due) = k
    BY <1>7, <1>10, <1>11 DEF Ref, k
  <2>4. (k >= 1 => it.node = it.due[1]) /\ (k >= 2 => it.tmp = it.due[2])
    BY <1>8, <1>10, <1>14, <1>15
  <2>5. \A i, j \in 1..k : i # j => it.due[i] # it.due[j]
    <3>1. \A j \in 1..k : j + 1 \in 1..n /\ it.due[j] = due[j + 1]
      BY <1>8, <1>10, <1>12
    <3>2. \A i, j \in 1..k : i # j => i + 1 # j + 1
      BY <1>12
    <3>3. QED
      BY <1>8, <3>1, <3>2
  <2>6. \A j \in 2..k : On(it.due[j], ch[it.list], count[it.list])
    <3>1. \A j \in 2..k : j \in 1..k
      BY <1>12
    <3>2. QED
      BY <1>8, <1>10, <1>12, <2>1, <3>1
  <2>7. \A j \in 2..k - 1 : next[it.due[j]] = it.due[j + 1]
    <3> SUFFICES ASSUME NEW j \in 2..k - 1 PROVE next[it.due[j]] = it.due[j + 1]
      OBVIOUS
    <3>1. j \in 1..k /\ j + 1 \in 1..k /\ j + 1 \in 2..n - 1
      BY <1>8, <1>12
    <3>2. r[j] = due[j + 1] /\ r[j + 1] = due[(j + 1) + 1]
      BY <1>12, <3>1
    <3>3. QED
      BY <1>8, <1>10, <3>1, <3>2
  <2>8. QED
    BY <1>13, <2>1, <2>2, <2>3, <2>4, <2>5, <2>6, <2>7 DEF Loop
<1>17. it.trapped = FALSE /\ fault = FALSE /\ fault' = FALSE
  BY <1>1, <1>6, Present DEF it, IterStep, OnTrack, IInv, TypeOK
<1>18. OnTrack(ch, count, next, it)
  BY <1>13, <1>16, <1>17 DEF OnTrack
<1>19. QED
  BY <1>1, <1>6, <1>17, <1>18, LoopStep DEF it

(* One whose body has freed the node read ahead may crash, and no list is  *)
(* the worse for it.                                                       *)
LEMMA IterStepSafe ==
  ASSUME IInv, IterStep
  PROVE  IInv'
<1>1. CASE ~iter.trapped
  BY <1>1, IterStepOnTrack
<1>2. CASE iter.trapped
  <2>1. PICK ch : ch = Chains /\ OnTrack(ch, count, next, iter)
    BY Present
  <2>2. iter = [list |-> iter.list, node |-> iter.node, tmp |-> iter.tmp, due |-> iter.due,
                trapped |-> iter.trapped]
    BY <2>1 DEF OnTrack
  <2>3. CASE Crash
    <3>1. UNCHANGED <<headers, heap, merged>> /\ fault' = TRUE /\ iter' = iter
      BY <2>3 DEF Crash
    <3>2. OnTrack(ch, count, next, iter') /\ iter'.trapped
      BY <1>2, <2>1, <3>1
    <3>3. QED
      BY <2>1, <3>1, <3>2, LoopStep
  <2>4. CASE /\ iter' = [iter EXCEPT !.node = iter.tmp, !.tmp = NextOf(iter.tmp), !.due = Rest(@)]
             /\ UNCHANGED <<headers, heap, call, result, fault, merged>>
    <3>1. PICK x, y : x = NextOf(iter.tmp) /\ y = Rest(iter.due)
      OBVIOUS
    <3>2. iter' = [iter EXCEPT !.node = iter.tmp, !.tmp = x, !.due = y]
      BY <2>4, <3>1
    <3>3. iter' = [list |-> iter.list, node |-> iter.tmp, tmp |-> x, due |-> y, trapped |-> TRUE]
      BY <1>2, <2>1, <2>2, <3>2 DEF OnTrack
    <3>4. OnTrack(ch, count, next, iter') /\ iter'.trapped
      BY <3>3 DEF OnTrack
    <3>5. fault' = fault /\ fault \in BOOLEAN
      BY <2>4 DEF IInv, TypeOK
    <3>6. QED
      BY <2>1, <2>4, <3>4, <3>5, LoopStep
  <2>5. QED
    BY <2>3, <2>4, Zenon DEF IterStep
<1>3. QED
  BY <1>1, <1>2

(* A loop that is over leaves none. *)
LEMMA IterEndSafe ==
  ASSUME IInv, IterEnd
  PROVE  IInv'
<1>1. PICK ch : ch = Chains
  OBVIOUS
<1>2. iter' = NoIter /\ UNCHANGED <<headers, heap, fault, merged>>
  BY DEF IterEnd
<1> DEFINE it == iter'
<1>3. /\ it = [list |-> it.list, node |-> it.node, tmp |-> it.tmp, due |-> it.due, trapped |-> it.trapped]
      /\ it = NoIter /\ it.list = NULL /\ it.tmp = NULL /\ it.due = <<>> /\ Len(it.due) = 0
  BY <1>2 DEF NoIter
<1> HIDE DEF it
<1>4. it.trapped = FALSE /\ fault = FALSE
  BY <1>2 DEF it, NoIter, IterEnd, IInv, TypeOK
<1>5. Loop(ch, count, next, it)
  BY <1>3 DEF Loop, Ref
<1>6. OnTrack(ch, count, next, it)
  BY <1>3, <1>4, <1>5 DEF OnTrack
<1>7. QED
  BY <1>1, <1>2, <1>4, <1>6, LoopStep DEF it

-------------------------------------------------------------------------------
(* At the start there are no nodes and no loop. *)
LEMMA InitSafe ==
  ASSUME Init
  PROVE  IInv
<1>1. TypeOK /\ (fault => iter.trapped)
  <2>1. IsFiniteSet(Nodes)
    BY NodesAssumption
  <2>2. Cardinality(Nodes) \in Nat
    BY <2>1, FS_CardinalityType
  <2>3. /\ head \in [Lists -> Ref] /\ tail \in [Lists -> Ref]
        /\ count \in [Lists -> 0..Cardinality(Nodes)] /\ alive \subseteq Nodes
        /\ next \in [Nodes -> Ref] /\ prev \in [Nodes -> Ref] /\ data \in [Nodes -> Elem]
    BY <2>2 DEF Init, Ref, Elem
  <2>4. exists \in [Lists -> BOOLEAN] /\ fault \in BOOLEAN /\ merged \in BOOLEAN /\ ~fault
    BY DEF Init
  <2>5. QED
    BY <2>3, <2>4, Zenon DEF TypeOK
<1>2. PICK ch : ch = Chains
  OBVIOUS
<1>3. \A l \in Lists : head[l] = NULL /\ tail[l] = NULL /\ count[l] = 0
  BY DEF Init
<1>4. \A l \in Lists : Linked(Nodes, ch[l], count[l], next, prev, head[l], tail[l])
  BY <1>3 DEF Linked, Run, Back
<1>5. Picture(ch, exists, head, tail, count, alive, next, prev)
  BY <1>3, <1>4 DEF Picture
<1>6. Owned(ch, count, alive)
  BY DEF Init, Owned
<1>7. /\ iter = [list |-> iter.list, node |-> iter.node, tmp |-> iter.tmp, due |-> iter.due,
                trapped |-> iter.trapped]
      /\ iter = NoIter /\ iter.list = NULL /\ iter.tmp = NULL /\ iter.due = <<>> /\ Len(iter.due) = 0
  BY DEF Init, NoIter
<1>8. OnTrack(ch, count, next, iter)
  <2>1. iter.trapped = FALSE
    BY <1>7 DEF NoIter
  <2>2. Loop(ch, count, next, iter)
    BY <1>7 DEF Loop, Ref
  <2>3. QED
    BY <1>7, <2>1, <2>2 DEF OnTrack
<1>9. QED
  BY <1>1, <1>2, <1>5, <1>6, <1>8 DEF IInv

(* Every step keeps the invariant. *)
LEMMA StepSafe ==
  ASSUME IInv, [Next]_vars
  PROVE  IInv'
<1>1. CASE UNCHANGED vars
  <2>1. Keep /\ UNCHANGED <<iter, fault, merged>>
    BY <1>1 DEF vars, Keep
  <2>2. QED
    BY <2>1, KeepStep
<1>2. CASE IterStep
  BY <1>2, IterStepSafe
<1>3. CASE IterEnd
  BY <1>3, IterEndSafe
<1>4. ASSUME NEW l \in Lists, Create(l) PROVE IInv'
  BY <1>4, CreateSafe
<1>5. ASSUME NEW l \in Lists, Pop(l) \/ PopFront(l) PROVE IInv'
  BY <1>5, PopSafe
<1>6. ASSUME NEW l \in Lists, TurnAround(l) PROVE IInv'
  BY <1>6, TurnSafe
<1>7. ASSUME NEW l \in Lists, IterBegin(l) PROVE IInv'
  BY <1>7, IterBeginSafe
<1>8. ASSUME NEW l \in Lists, NEW op, NEW released, Clear(l, op, released) PROVE IInv'
  BY <1>8, ClearSafe
<1>9. ASSUME NEW l \in Lists, NEW v \in Elem, Push(l, v) \/ PushFront(l, v) PROVE IInv'
  BY <1>9, PushSafe
<1>10. ASSUME NEW l \in Lists, NEW v \in Elem, Find(l, v) \/ RemoveData(l, v) PROVE IInv'
  BY <1>10, FindSafe
<1>11. ASSUME NEW l \in Lists, NEW i \in 0..Cardinality(Nodes), PopAt(l, i) PROVE IInv'
  BY <1>11, PopAtSafe
<1>12. ASSUME NEW l \in Lists, NEW i \in 0..Cardinality(Nodes), Get(l, i) PROVE IInv'
  BY <1>12, GetSafe
<1>13. ASSUME NEW l \in Lists, NEW i \in 0..Cardinality(Nodes), NEW v \in Elem, PushAt(l, v, i)
       PROVE  IInv'
  BY <1>13, PushAtSafe
<1>14. ASSUME NEW l \in Lists, NEW n \in Nodes, RemoveNode(l, n) PROVE IInv'
  BY <1>14, RemoveNodeSafe
<1>15. ASSUME NEW l \in Lists, NEW k \in Lists, Clone(l, k) PROVE IInv'
  BY <1>15, CloneSafe
<1>16. ASSUME NEW l \in Lists, NEW k \in Lists, Merge(l, k) PROVE IInv'
  BY <1>16, MergeSafe
<1>17. CASE Next
  BY <1>2, <1>3, <1>4, <1>5, <1>6, <1>7, <1>8, <1>9, <1>10, <1>11, <1>12, <1>13, <1>14, <1>15,
     <1>16, <1>17, Zenon DEF Next
<1>18. QED
  BY <1>1, <1>17

(* The invariant holds of every state of every behavior. *)
LEMMA AlwaysIInv == Spec => []IInv
<1>1. Init => IInv
  BY InitSafe
<1>2. IInv /\ [Next]_vars => IInv'
  BY StepSafe
<1>3. QED
  BY <1>1, <1>2, PTL DEF Spec

(* Every field keeps its type; count does not pass the number of nodes. *)
THEOREM TypeCorrect == Spec => []TypeOK
<1>1. IInv => TypeOK
  BY DEF IInv
<1>2. QED
  BY <1>1, AlwaysIInv, PTL

(* However the exported calls of list.c interleave with each other and     *)
(* with the loop, and whichever allocations fail, every list is the same   *)
(* chain of count allocated nodes forwards from head and back from tail.   *)
THEOREM ListsLinkedBothWays == Spec => []WellLinked
<1>1. ASSUME IInv, NEW l \in Lists
      PROVE  LET c == Chain(l)
             IN  /\ ~Cyclic(l) /\ ToSet(c) \subseteq alive
                 /\ count[l] = Len(c)
                 /\ tail[l] = IF c = <<>> THEN NULL ELSE Last(c)
                 /\ \A i \in DOMAIN c : prev[c[i]] = IF i = 1 THEN NULL ELSE c[i - 1]
  <2> DEFINE c == Chain(l)
  <2>1. /\ count[l] \in Nat /\ Len(c) = count[l] /\ DOMAIN c = 1..count[l] /\ ~Cyclic(l)
        /\ tail[l] = Before(c, count[l])
        /\ \A i \in 1..count[l] : c[i] \in alive /\ prev[c[i]] = Before(c, i - 1)
    BY <1>1, ListFacts
  <2>2. c = <<>> <=> count[l] = 0
    <3>1. PICK d : Shows(c, d, count[l])
      BY <1>1, Present
    <3>2. c = [i \in 1..count[l] |-> d[i]]
      BY <3>1 DEF Shows
    <3> HIDE DEF c
    <3>3. QED
      BY <2>1, <3>2
  <2> HIDE DEF c
  <2>3. ToSet(c) \subseteq alive
    BY <2>1 DEF ToSet
  <2>4. tail[l] = IF c = <<>> THEN NULL ELSE Last(c)
    BY <2>1, <2>2 DEF Before, Last
  <2>5. \A i \in DOMAIN c : prev[c[i]] = IF i = 1 THEN NULL ELSE c[i - 1]
    BY <2>1 DEF Before
  <2>6. QED
    BY <2>1, <2>3, <2>4, <2>5 DEF c
<1>2. IInv => WellLinked
  BY <1>1 DEF WellLinked
<1>3. QED
  BY <1>2, AlwaysIInv, PTL

(* No node is on two lists; and an allocated node is always on one, so     *)
(* that every call frees or hands on what it unlinks, unless a list was    *)
(* merged into itself.                                                     *)
THEOREM NoNodeLost == Spec => []NodesAccounted
<1>1. ASSUME IInv PROVE NodesAccounted
  <2>1. PICK ch : /\ Picture(ch, exists, head, tail, count, alive, next, prev)
                  /\ merged \/ Owned(ch, count, alive)
                  /\ \A l \in Lists : ch[l] = Chain(l)
    BY <1>1, Present
  <2>2. \A l \in Lists : DOMAIN Chain(l) = 1..count[l]
    BY <1>1, ListFacts
  <2>3. \A l \in Lists : ToSet(Chain(l)) = {ch[l][i] : i \in 1..count[l]}
    BY <2>1, <2>2 DEF ToSet
  <2>4. \A l, k \in Lists : l # k => ToSet(Chain(l)) \cap ToSet(Chain(k)) = {}
    BY <2>1, <2>3 DEF Picture
  <2>5. \A l \in Lists : ToSet(Chain(l)) \subseteq alive
    BY <2>1, <2>3 DEF Picture
  <2>6. ~merged => \A n \in alive : \E l \in Lists : n \in ToSet(Chain(l))
    BY <2>1, <2>3 DEF Owned, On
  <2>7. ~merged => alive = UNION {ToSet(Chain(l)) : l \in Lists}
    BY <2>5, <2>6
  <2>8. QED
    BY <2>4, <2>7 DEF NodesAccounted
<1>2. QED
  BY <1>1, AlwaysIInv, PTL

(* No call follows NULL or a freed node, and no step of the loop does so   *)
(* unless its body has freed the node read ahead: it may remove any other  *)
(* node of the list, insert, or clear the list from the last node on.      *)
THEOREM NoBadPointer == Spec => []MemorySafe
<1>1. IInv => MemorySafe
  BY DEF IInv, MemorySafe
<1>2. QED
  BY <1>1, AlwaysIInv, PTL

(* MYLIB_LIST_FOREACH_SAFE comes to every node that was on the list when   *)
(* it began and is not removed before, in order and once, though the body  *)
(* removes nodes, inserts at the ends and works on other lists: unless it  *)
(* frees the node read ahead.                                              *)
THEOREM LoopComplete == Spec => []LoopVisitsAll
<1>1. ASSUME IInv, iter.due # <<>>, ~iter.trapped PROVE iter.node = Head(iter.due)
  <2>1. PICK ch : Loop(ch, count, next, iter)
    BY <1>1, Present DEF OnTrack
  <2>2. iter.due \in Seq(Nodes) /\ (Len(iter.due) >= 1 => iter.node = iter.due[1])
    BY <2>1 DEF Loop
  <2>3. Len(iter.due) \in Nat /\ Len(iter.due) # 0
    BY <1>1, <2>2, EmptySeq, LenProperties
  <2>4. QED
    BY <2>2, <2>3
<1>2. IInv => LoopVisitsAll
  BY <1>1 DEF LoopVisitsAll
<1>3. QED
  BY <1>2, AlwaysIInv, PTL
===============================================================================
