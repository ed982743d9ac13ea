----------------------------- MODULE RBTreeColours -----------------------------
(***************************************************************************)
(* Proofs about the colours of the red-black tree: both fixup loops leave  *)
(* a balanced tree behind until a delete hands over the wrong parent, and  *)
(* the stack of clear never runs over while the tree is balanced.          *)
(***************************************************************************)
EXTENDS RBTreeProofs

-------------------------------------------------------------------------------
(* Colours. *)

Weight(t, n) == IF t.red[n] THEN 0 ELSE 1

Owing(n, s, px, side) == IF n = px /\ s = side THEN 1 ELSE 0

(* bh[n] black nodes are on every path down from n, itself included; on    *)
(* this side of px there is one too few, on none if px is NULL.            *)
Counted(t, A, bh, px, side) ==
  /\ bh \in [Ref -> Nat] /\ bh[NULL] = 0
  /\ \A n \in A : \A s \in Sides : bh[n] = bh[t[s][n]] + Weight(t, n) + Owing(n, s, px, side)

(* No red node has a red child. *)
RedApart(t, A) == \A n \in A : \A s \in Sides : t.red[n] => ~Red(t, t[s][n])

(* The black heights of x and y changed over. *)
SwapLabels(bh, x, y) == [bh EXCEPT ![y] = bh[x], ![x] = bh[y]]

(* q is t with the colours of x and its red child y changed over. *)
Swapped(t, q, x, y) ==
  /\ SameLinks(t, q) /\ q.red[x] = TRUE /\ q.red[y] = t.red[x]
  /\ \A m \in Nodes : m # x /\ m # y => q.red[m] = t.red[m]

(* A rotation of x and its red child y, after their colours are changed    *)
(* over, leaves as many black nodes on every path.                         *)
LEMMA RotatedCounted ==
  ASSUME NEW t, NEW A, NEW sub, NEW ky, Shape(t, A, sub, ky), RBTreeAssumption,
         NEW bh, NEW px, NEW side \in Sides, Counted(t, A, bh, px, side),
         NEW x \in A, NEW up \in Sides, NEW y, y = t[up][x], y # NULL, t.red[y] = TRUE,
         NEW q, Swapped(t, q, x, y), NEW r, Rotated(q, r, x, y, up),
         px # y, px = x => side # up
  PROVE  Counted(r, A, SwapLabels(bh, x, y), px, side)
<1> DEFINE down == Other(up)
           inner == t[down][y]
           outer == t[up][y]
           low == t[down][x]
           new == SwapLabels(bh, x, y)
<1>1. /\ A \in SUBSET Nodes /\ NULL \notin A /\ down \in Sides /\ down # up /\ t \in Tree
      /\ \A s \in Sides : s = up \/ s = down
  BY OtherSide DEF Shape, Typed, RBTreeAssumption, Sides
<1>2. y \in A /\ x # y /\ y \in Ref /\ x \in Ref /\ NULL \in Ref /\ low # y /\ t.parent[y] = x
  BY <1>1, Children DEF Ref
<1>3. \A n \in A : \A s \in Sides : t[s][n] \in Ref /\ (t[s][n] # NULL => t.parent[t[s][n]] = n /\ t[s][n] # n)
  BY Children
<1>4. inner # x /\ inner # y /\ outer # x /\ outer # y /\ low # x /\ t[down][x] # y
  <2>1. x \notin sub[y] /\ inner # y /\ outer # y /\ low # x
    BY <1>1, <1>2, <1>3, Children
  <2>2. (inner # NULL => inner \in sub[inner] /\ inner \in A) /\ (outer # NULL => outer \in sub[outer] /\ outer \in A)
    BY <1>1, <1>2, Children
  <2>3. sub[y] = {y} \cup sub[inner] \cup sub[outer]
    BY <1>2, OtherSide, Children
  <2>4. QED
    BY <1>1, <1>2, <2>1, <2>2, <2>3
<1>5. /\ bh \in [Ref -> Nat] /\ bh[NULL] = 0
      /\ \A n \in A : \A s \in Sides : bh[n] = bh[t[s][n]] + Weight(t, n) + Owing(n, s, px, side)
  BY DEF Counted
<1>6. /\ r.red[x] = TRUE /\ r.red[y] = t.red[x] /\ \A m \in A : m # x /\ m # y => r.red[m] = t.red[m]
  BY <1>1 DEF Swapped, Rotated
<1>7. /\ Weight(r, x) = 0 /\ Weight(r, y) = Weight(t, x) /\ Weight(t, y) = 0 /\ Weight(t, x) \in Nat
      /\ \A m \in A : m # x /\ m # y => Weight(r, m) = Weight(t, m)
      /\ \A m \in A : Weight(t, m) \in Nat
  BY <1>6 DEF Weight
<1>8. /\ q.parent = t.parent /\ \A s \in Sides : q[s] = t[s]
  BY DEF Swapped, SameLinks
<1>9. \A s \in Sides : \A m \in A :
       r[s][m] = IF m = x /\ s = up THEN inner
                 ELSE IF m = y /\ s # up THEN x
                 ELSE IF m = t.parent[x] /\ t[s][m] = x THEN y
                 ELSE t[s][m]
  BY <1>1, <1>8 DEF Rotated
<1>10. /\ new \in [Ref -> Nat] /\ new[x] = bh[y] /\ new[y] = bh[x]
       /\ \A m \in Ref : m # x /\ m # y => new[m] = bh[m]
  BY <1>2, <1>5 DEF SwapLabels
<1>11. /\ inner \in Ref /\ outer \in Ref /\ low \in Ref
  BY <1>1, <1>2, <1>3
<1>12. /\ bh[y] = bh[inner] /\ bh[y] = bh[outer] /\ bh[x] = bh[y] + Weight(t, x)
       /\ bh[x] = bh[low] + Weight(t, x) + Owing(x, down, px, side)
       /\ Owing(x, up, px, side) = 0
  <2>1. Owing(y, up, px, side) = 0 /\ Owing(y, down, px, side) = 0 /\ Owing(x, up, px, side) = 0
    BY DEF Owing
  <2>2. bh[y] = bh[inner] + Weight(t, y) + 0 /\ bh[y] = bh[outer] + Weight(t, y) + 0
        /\ bh[x] = bh[y] + Weight(t, x) + 0 /\ bh[x] = bh[low] + Weight(t, x) + Owing(x, down, px, side)
    BY <1>1, <1>2, <1>5, <2>1
  <2>3. bh[inner] \in Nat /\ bh[outer] \in Nat /\ bh[y] \in Nat
    BY <1>2, <1>5, <1>11
  <2>4. QED
    BY <1>7, <2>1, <2>2, <2>3
<1> HIDE DEF new, inner, outer, low
<1>13. Owing(x, down, px, side) \in Nat
  BY DEF Owing
<1>14. ASSUME NEW n \in A, NEW s \in Sides
       PROVE  new[n] = new[r[s][n]] + Weight(r, n) + Owing(n, s, px, side)
  <2>0. bh[y] \in Nat /\ bh[x] \in Nat /\ bh[low] \in Nat
    BY <1>2, <1>5, <1>11
  <2>1. CASE n = x /\ s = up
    <3>1. r[s][n] = inner /\ new[inner] = bh[inner]
      BY <1>4, <1>9, <1>10, <1>11, <2>1
    <3>2. new[n] = bh[y] /\ Weight(r, n) = 0 /\ Owing(n, s, px, side) = 0
      BY <1>7, <1>10, <1>12, <2>1
    <3>3. new[n] = new[r[s][n]] /\ new[n] \in Nat
      BY <1>12, <2>0, <3>1, <3>2
    <3>4. QED
      BY <3>2, <3>3
  <2>2. CASE n = x /\ s = down
    <3>1. r[s][n] = low /\ new[low] = bh[low]
      BY <1>1, <1>2, <1>4, <1>9, <1>10, <1>11, <2>2 DEF low
    <3>2. QED
      BY <1>7, <1>10, <1>12, <1>13, <2>0, <2>2, <3>1
  <2>3. CASE n = y /\ s = down
    <3>1. r[s][n] = x /\ Owing(n, s, px, side) = 0
      BY <1>1, <1>2, <1>9, <2>3 DEF Owing
    <3>2. QED
      BY <1>7, <1>10, <1>12, <2>0, <2>3, <3>1
  <2>4. CASE n = y /\ s = up
    <3>1. r[s][n] = outer /\ new[outer] = bh[outer] /\ Owing(n, s, px, side) = 0
      BY <1>2, <1>4, <1>9, <1>10, <1>11, <2>4 DEF Owing, outer
    <3>2. QED
      BY <1>7, <1>10, <1>12, <2>0, <2>4, <3>1
  <2>5. CASE n # x /\ n # y
    <3>1. new[n] = bh[n] /\ Weight(r, n) = Weight(t, n)
      BY <1>1, <1>7, <1>10, <2>5 DEF Ref
    <3>2. new[r[s][n]] = bh[t[s][n]]
      <4>1. t[s][n] # y
        BY <1>2, <1>3, <2>5
      <4>2. CASE t[s][n] = x
        <5>1. t.parent[x] = n
          BY <1>1, <1>3, <4>2
        <5>2. QED
          BY <1>9, <1>10, <2>5, <4>2, <5>1
      <4>3. CASE t[s][n] # x
        BY <1>3, <1>9, <1>10, <2>5, <4>1, <4>3
      <4>4. QED
        BY <4>2, <4>3
    <3>3. QED
      BY <1>5, <3>1, <3>2
  <2>6. QED
    BY <1>1, <2>1, <2>2, <2>3, <2>4, <2>5
<1>15. new[NULL] = 0
  BY <1>1, <1>2, <1>5, <1>10
<1>16. QED
  BY <1>10, <1>14, <1>15 DEF Counted, new

(* r is t with x painted. *)
Painted(t, r, x, c) ==
  /\ SameLinks(t, r) /\ r.red[x] = c
  /\ \A m \in Nodes : m # x => r.red[m] = t.red[m]

(* Paint paints. *)
LEMMA PaintPaints ==
  ASSUME NEW t \in Tree, NEW n \in Nodes, NEW c \in BOOLEAN, RBTreeAssumption
  PROVE  Painted(t, Paint(t, n, c), n, c)
<1>1. n \in Ref
  BY DEF Ref
<1>2. PICK r : r = Paint(t, n, c)
  OBVIOUS
<1>3. SameLinks(t, r) /\ \A m \in Nodes : r.red[m] = IF m = n THEN c ELSE t.red[m]
  BY <1>1, <1>2, PaintLinks
<1>4. r.red[n] = c
  BY <1>3
<1>5. Painted(t, r, n, c)
  BY <1>3, <1>4 DEF Painted
<1>6. QED
  BY <1>2, <1>5

(* A rotation above which the two colours were changed over. *)
LEMMA SwapRotate ==
  ASSUME NEW t, NEW A, NEW sub, NEW ky, Shape(t, A, sub, ky), RBTreeAssumption,
         NEW bh, NEW px, NEW side \in Sides, Counted(t, A, bh, px, side),
         NEW x \in A, NEW up \in Sides, NEW y, y = t[up][x], y # NULL, t.red[y] = TRUE,
         NEW q, Swapped(t, q, x, y), px # y, px = x => side # up
  PROVE  /\ Rotated(q, Rotate(q, x, up), x, y, up)
         /\ Counted(Rotate(q, x, up), A, SwapLabels(bh, x, y), px, side)
<1>1. Shape(q, A, sub, ky)
  BY SameLinksShape DEF Swapped
<1>2. q[up][x] = y
  BY DEF Swapped, SameLinks
<1>3. Rotated(q, Rotate(q, x, up), x, y, up)
  BY <1>1, <1>2, RotateIs
<1>4. PICK r : r = Rotate(q, x, up)
  OBVIOUS
<1>5. Rotated(q, r, x, y, up)
  BY <1>3, <1>4
<1>7. Counted(r, A, SwapLabels(bh, x, y), px, side)
  BY <1>5, RotatedCounted
<1>6. QED
  BY <1>3, <1>4, <1>7

(* q is t with a and b painted. *)
TwoPainted(t, q, a, b, c, d) ==
  /\ SameLinks(t, q) /\ q.red[a] = c /\ q.red[b] = d
  /\ \A m \in Nodes : m # a /\ m # b => q.red[m] = t.red[m]

(* Two nodes painted, one after the other. *)
LEMMA PaintTwo ==
  ASSUME NEW t \in Tree, NEW a \in Nodes, NEW b \in Nodes, NEW c \in BOOLEAN, NEW d \in BOOLEAN,
         RBTreeAssumption, a # b
  PROVE  TwoPainted(t, Paint(Paint(t, a, c), b, d), a, b, c, d)
<1> DEFINE e == Paint(t, a, c)
           q == Paint(e, b, d)
<1>0. a \in Ref /\ b \in Ref
  BY DEF Ref
<1>1. SameLinks(t, e) /\ \A m \in Nodes : e.red[m] = IF m = a THEN c ELSE t.red[m]
  BY <1>0, PaintLinks
<1> HIDE DEF e
<1>2. e \in Tree
  BY <1>1 DEF SameLinks
<1>3. SameLinks(e, q) /\ \A m \in Nodes : q.red[m] = IF m = b THEN d ELSE e.red[m]
  BY <1>0, <1>2, PaintLinks
<1> HIDE DEF q
<1>4. SameLinks(t, q)
  BY <1>1, <1>3, SameLinksTrans
<1>5. q.red[a] = c /\ q.red[b] = d /\ \A m \in Nodes : m # a /\ m # b => q.red[m] = t.red[m]
  BY <1>1, <1>3
<1>6. QED
  BY <1>4, <1>5 DEF q, e, TwoPainted

(* A node painted black pays what is owing above it. *)
LEMMA PaintPays ==
  ASSUME NEW t, NEW A, NEW sub, NEW ky, Shape(t, A, sub, ky), RBTreeAssumption,
         NEW bh, NEW px, NEW side \in Sides, Counted(t, A, bh, px, side),
         NEW x \in A, t.parent[x] = px, px # NULL => t[side][px] = x /\ t.red[x],
         NEW r, Painted(t, r, x, FALSE)
  PROVE  \E bk : Counted(r, A, bk, NULL, "left")
<1>1. /\ A \in SUBSET Nodes /\ NULL \notin A /\ t \in Tree /\ x \in Ref /\ x \in Nodes /\ x # NULL
      /\ FALSE \in BOOLEAN /\ t.red[x] \in BOOLEAN
  BY DEF Shape, Typed, RBTreeAssumption, Ref, Tree
<1>2. SameLinks(t, r) /\ r.red[x] = FALSE /\ \A m \in Nodes : m # x => r.red[m] = t.red[m]
  BY DEF Painted
<1>3. \A n \in A : \A s \in Sides : /\ t[s][n] \in Ref
                                    /\ t[s][n] # NULL => t.parent[t[s][n]] = n /\ t[s][n] # n
                                    /\ t[s][n] # NULL => t[Other(s)][n] # t[s][n]
  BY Children
<1>4. /\ bh \in [Ref -> Nat] /\ bh[NULL] = 0
      /\ \A n \in A : \A s \in Sides : bh[n] = bh[t[s][n]] + Weight(t, n) + Owing(n, s, px, side)
  BY DEF Counted
<1>5. CASE ~t.red[x]
  <2>1. px = NULL
    BY <1>5
  <2>2. \A n \in A : r.red[n] = t.red[n]
    BY <1>1, <1>2, <1>5
  <2>3. Counted(r, A, bh, NULL, "left")
    <3>1. \A n \in A : Weight(r, n) = Weight(t, n)
      BY <2>2 DEF Weight
    <3>2. \A n \in A : \A s \in Sides : Owing(n, s, px, side) = 0 /\ Owing(n, s, NULL, "left") = 0
      BY <1>1, <2>1 DEF Owing
    <3>3. \A n \in A : \A s \in Sides : bh[n] = bh[r[s][n]] + Weight(r, n) + Owing(n, s, NULL, "left")
      BY <1>2, <1>4, <3>1, <3>2 DEF SameLinks
    <3>4. QED
      BY <1>4, <3>3 DEF Counted
  <2>4. QED
    BY <2>3
<1>6. CASE t.red[x]
  <2> DEFINE bk == [bh EXCEPT ![x] = bh[x] + 1]
  <2>1. bk \in [Ref -> Nat] /\ bk[x] = bh[x] + 1 /\ (\A m \in Ref : m # x => bk[m] = bh[m]) /\ bk[NULL] = 0
    BY <1>1, <1>4 DEF Ref
  <2> HIDE DEF bk
  <2>2. ASSUME NEW n \in A, NEW s \in Sides
        PROVE  bk[n] = bk[r[s][n]] + Weight(r, n) + Owing(n, s, NULL, "left")
    <3>1. r[s][n] = t[s][n] /\ Owing(n, s, NULL, "left") = 0 /\ n \in Ref /\ t[s][n] \in Ref
      BY <1>1, <1>2, <1>3 DEF SameLinks, Owing, Ref
    <3>0. bh[n] = bh[t[s][n]] + Weight(t, n) + Owing(n, s, px, side) /\ bh[n] \in Nat /\ bh[t[s][n]] \in Nat
      BY <1>4, <3>1
    <3>2. CASE n = x
      <4>1. t[s][n] # x /\ Weight(r, n) = 1 /\ Weight(t, n) = 0 /\ Owing(n, s, px, side) = 0
        BY <1>1, <1>2, <1>3, <1>6, <3>2 DEF Weight, Owing
      <4>2. bh[x] = bh[t[s][n]] /\ bk[n] = bh[x] + 1 /\ bk[t[s][n]] = bh[t[s][n]]
        BY <2>1, <3>0, <3>1, <3>2, <4>1
      <4>3. QED
        BY <3>0, <3>1, <4>1, <4>2
    <3>3. CASE n # x /\ t[s][n] = x
      <4>1. n = px /\ s = side /\ Weight(r, n) = Weight(t, n) /\ Owing(n, s, px, side) = 1
        <5>1. n = px
          BY <1>1, <1>3, <3>3
        <5>2. px # NULL /\ t[side][n] = x
          BY <1>1, <5>1
        <5>3. s = side
          BY <1>1, <1>3, <3>3, <5>2, OtherSide
        <5>4. Weight(r, n) = Weight(t, n)
          BY <1>1, <1>2, <3>3 DEF Weight
        <5>5. QED
          BY <5>1, <5>3, <5>4 DEF Owing
      <4>2. Weight(t, n) \in Nat
        BY DEF Weight
      <4>3. bk[n] = bh[n] /\ bk[x] = bh[x] + 1
        BY <2>1, <3>1, <3>3
      <4>4. QED
        BY <3>0, <3>1, <3>3, <4>1, <4>2, <4>3
    <3>4. CASE n # x /\ t[s][n] # x
      <4>1. Weight(r, n) = Weight(t, n) /\ Owing(n, s, px, side) = 0
        <5>1. Weight(r, n) = Weight(t, n)
          BY <1>1, <1>2, <3>4 DEF Weight
        <5>2. ~(n = px /\ s = side)
          BY <1>1, <3>4
        <5>3. QED
          BY <5>1, <5>2 DEF Owing
      <4>2. bk[n] = bh[n] /\ bk[t[s][n]] = bh[t[s][n]]
        BY <2>1, <3>1, <3>4
      <4>3. QED
        BY <3>0, <3>1, <4>1, <4>2
    <3>5. QED
      BY <3>2, <3>3, <3>4
  <2>3. Counted(r, A, bk, NULL, "left")
    BY <2>1, <2>2 DEF Counted
  <2>4. QED
    BY <2>3
<1>7. QED
  BY <1>1, <1>5, <1>6

(* The links below x and its child y on side up, and below the others,     *)
(* before and after y has taken the place of x.                            *)
Turned(t, r, A, x, y, up, down) ==
  /\ y \in A /\ x # y /\ t.parent[y] = x
  /\ r[up][x] = t[down][y] /\ r[down][x] = t[down][x]
  /\ r[down][y] = x /\ r[up][y] = t[up][y]
  /\ r[up][x] # x /\ r[up][x] # y /\ r[down][x] # x /\ r[down][x] # y
  /\ r[up][y] # x /\ r[up][y] # y
  /\ \A m \in A : m # x /\ m # y => \A s \in Sides :
       t[s][m] # y /\ r[s][m] # x /\ r[s][m] = IF t[s][m] = x THEN y ELSE t[s][m]

(* A rotation turns those links. *)
LEMMA RotatedLinks ==
  ASSUME NEW t, NEW A, NEW sub, NEW ky, Shape(t, A, sub, ky), RBTreeAssumption,
         NEW x \in A, NEW up \in Sides, NEW y, y = t[up][x], y # NULL,
         NEW r, Rotated(t, r, x, y, up)
  PROVE  Turned(t, r, A, x, y, up, Other(up))
<1> DEFINE down == Other(up)
           inner == t[down][y]
           outer == t[up][y]
           low == t[down][x]
<1>1. /\ A \in SUBSET Nodes /\ NULL \notin A /\ down \in Sides /\ down # up
      /\ \A s \in Sides : s = up \/ s = down
  BY OtherSide DEF Shape, Typed, RBTreeAssumption, Sides
<1>2. y \in A /\ x # y /\ low # y /\ t.parent[y] = x
  BY <1>1, Children
<1>3. \A n \in A : \A s \in Sides : t[s][n] # NULL => t.parent[t[s][n]] = n /\ t[s][n] # n
  BY Children
<1>4. inner # x /\ inner # y /\ outer # x /\ outer # y /\ low # x
  <2>1. x \notin sub[y] /\ inner # y /\ outer # y /\ low # x
    BY <1>1, <1>2, <1>3, Children
  <2>2. (inner # NULL => inner \in sub[inner]) /\ (outer # NULL => outer \in sub[outer])
    BY <1>1, <1>2, Children
  <2>3. sub[y] = {y} \cup sub[inner] \cup sub[outer]
    BY <1>2, OtherSide, Children
  <2>4. QED
    BY <1>1, <1>2, <2>1, <2>2, <2>3
<1>5. \A s \in Sides : \A m \in A :
       r[s][m] = IF m = x /\ s = up THEN inner
                 ELSE IF m = y /\ s # up THEN x
                 ELSE IF m = t.parent[x] /\ t[s][m] = x THEN y
                 ELSE t[s][m]
  BY <1>1 DEF Rotated
<1>6. t.parent[x] # x
  BY <1>1, OneSide
<1>7. r[up][x] = inner /\ r[down][y] = x /\ r[down][x] = low /\ r[up][y] = outer
  BY <1>1, <1>2, <1>4, <1>5, <1>6
<1>8. ASSUME NEW m \in A, m # x, m # y, NEW s \in Sides
      PROVE  t[s][m] # y /\ r[s][m] # x /\ r[s][m] = IF t[s][m] = x THEN y ELSE t[s][m]
  <2>1. t[s][m] # y
    BY <1>2, <1>3, <1>8
  <2>2. t[s][m] = x => t.parent[x] = m
    BY <1>1, <1>3
  <2>3. QED
    BY <1>2, <1>5, <1>8, <2>1, <2>2
<1>9. QED
  BY <1>2, <1>4, <1>7, <1>8 DEF Turned

-------------------------------------------------------------------------------
(* The fixup after an insertion. *)

(* Only node n may be red below a red node. *)
RedBelow(t, A, n) == \A m \in A : \A s \in Sides : t.red[m] /\ Red(t, t[s][m]) => t[s][m] = n

(* The colours are right but for n, which is red. *)
Fixing(t, A, bh, n) ==
  /\ Counted(t, A, bh, NULL, "left")
  /\ n \in A /\ t.red[n] = TRUE /\ RedBelow(t, A, n)
  /\ Red(t, t.root) => t.root = n

(* The colours are right. *)
Coloured(t, A) ==
  /\ ~Red(t, t.root) /\ RedApart(t, A)
  /\ \E bh : Counted(t, A, bh, NULL, "left")

(* g with two red children p and u, and the same with the colours changed. *)
Lifted(t, r, g, p, u) ==
  /\ SameLinks(t, r) /\ r.red[p] = FALSE /\ r.red[u] = FALSE /\ r.red[g] = TRUE
  /\ \A m \in Nodes : m # g /\ m # p /\ m # u => r.red[m] = t.red[m]

(* A red uncle: the blackness of g moves down to its two children. *)
LEMMA LiftCounted ==
  ASSUME NEW t, NEW A, NEW sub, NEW ky, Shape(t, A, sub, ky), RBTreeAssumption,
         NEW bh, Counted(t, A, bh, NULL, "left"),
         NEW g \in A, NEW side \in Sides, NEW p, NEW u, p = t[side][g], u = t[Other(side)][g],
         p # NULL, u # NULL, t.red[p] = TRUE, t.red[u] = TRUE, t.red[g] = FALSE,
         NEW r, Lifted(t, r, g, p, u)
  PROVE  \E bk : Counted(r, A, bk, NULL, "left")
<1> DEFINE bk == [bh EXCEPT ![p] = bh[p] + 1, ![u] = bh[u] + 1]
<1>1. /\ A \in SUBSET Nodes /\ NULL \notin A /\ NULL \in Ref /\ A \in SUBSET Ref
      /\ Other(side) \in Sides /\ side # Other(side) /\ \A s \in Sides : s = side \/ s = Other(side)
  BY OtherSide DEF Shape, Typed, RBTreeAssumption, Ref, Sides
<1>2. p \in A /\ u \in A /\ p # u /\ p # g /\ u # g /\ t.parent[p] = g /\ t.parent[u] = g
  <2>1. p \in A /\ p # g /\ t.parent[p] = g /\ u # p
    BY Children
  <2>2. u \in A /\ u # g /\ t.parent[u] = g
    BY <1>1, Children
  <2>3. QED
    BY <2>1, <2>2
<1>3. \A n \in A : \A s \in Sides : t[s][n] \in Ref /\ (t[s][n] # NULL => t.parent[t[s][n]] = n /\ t[s][n] # n)
  BY Children
<1>4. /\ bh \in [Ref -> Nat] /\ bh[NULL] = 0
      /\ \A n \in A : \A s \in Sides : bh[n] = bh[t[s][n]] + Weight(t, n) + Owing(n, s, NULL, "left")
  BY DEF Counted
<1>5. /\ bk \in [Ref -> Nat] /\ bk[p] = bh[p] + 1 /\ bk[u] = bh[u] + 1 /\ bk[NULL] = 0
      /\ \A m \in Ref : m # p /\ m # u => bk[m] = bh[m]
  BY <1>1, <1>2, <1>4
<1> HIDE DEF bk
<1>6. \A n \in A, s \in Sides : Owing(n, s, NULL, "left") = 0
  BY <1>1 DEF Owing
<1>7. /\ r.red[p] = FALSE /\ r.red[u] = FALSE /\ r.red[g] = TRUE
      /\ \A m \in A : m # g /\ m # p /\ m # u => r.red[m] = t.red[m]
      /\ \A s \in Sides : r[s] = t[s]
  BY <1>1 DEF Lifted, SameLinks
<1>8. /\ Weight(t, p) = 0 /\ Weight(t, u) = 0 /\ Weight(t, g) = 1
      /\ Weight(r, p) = 1 /\ Weight(r, u) = 1 /\ Weight(r, g) = 0
      /\ \A m \in A : m # g /\ m # p /\ m # u => Weight(r, m) = Weight(t, m)
      /\ \A m \in A : Weight(t, m) \in Nat
  BY <1>7 DEF Weight
<1>9. ASSUME NEW n \in A, NEW s \in Sides
      PROVE  bk[n] = bk[r[s][n]] + Weight(r, n) + Owing(n, s, NULL, "left")
  <2>1. r[s][n] = t[s][n] /\ t[s][n] \in Ref /\ n \in Ref /\ Owing(n, s, NULL, "left") = 0
    BY <1>1, <1>3, <1>6, <1>7
  <2>2. bh[n] = bh[t[s][n]] + Weight(t, n) /\ bh[n] \in Nat /\ bh[t[s][n]] \in Nat /\ Weight(t, n) \in Nat
    BY <1>4, <1>8, <2>1
  <2>3. CASE n = p \/ n = u
    <3>1. t[s][n] # p /\ t[s][n] # u
      BY <1>1, <1>2, <1>3, <2>3
    <3>2. bk[t[s][n]] = bh[t[s][n]] /\ bk[n] = bh[n] + 1 /\ Weight(t, n) = 0 /\ Weight(r, n) = 1
      BY <1>5, <1>8, <2>1, <2>3, <3>1
    <3>3. QED
      BY <2>1, <2>2, <3>2
  <2>4. CASE n = g
    <3>1. t[s][n] = p \/ t[s][n] = u
      BY <1>1, <2>4
    <3>2. bk[t[s][n]] = bh[t[s][n]] + 1 /\ bk[n] = bh[n] /\ Weight(t, n) = 1 /\ Weight(r, n) = 0
      BY <1>2, <1>5, <1>8, <2>1, <2>4, <3>1
    <3>3. QED
      BY <2>1, <2>2, <3>2
  <2>5. CASE n # p /\ n # u /\ n # g
    <3>1. t[s][n] # p /\ t[s][n] # u
      BY <1>1, <1>2, <1>3, <2>5
    <3>2. bk[t[s][n]] = bh[t[s][n]] /\ bk[n] = bh[n] /\ Weight(r, n) = Weight(t, n)
      BY <1>5, <1>8, <2>1, <2>5, <3>1
    <3>3. QED
      BY <2>1, <2>2, <3>2
  <2>6. QED
    BY <2>3, <2>4, <2>5
<1>10. Counted(r, A, bk, NULL, "left")
  BY <1>5, <1>9 DEF Counted
<1>11. QED
  BY <1>10

(* A red uncle: only g may be wrong from here on. *)
LEMMA LiftFixing ==
  ASSUME NEW t, NEW A, NEW sub, NEW ky, Shape(t, A, sub, ky), RBTreeAssumption,
         NEW bh, NEW n, Fixing(t, A, bh, n),
         NEW p, t.parent[n] = p, p \in A,
         NEW g \in A, NEW side \in Sides, NEW u, p = t[side][g], u = t[Other(side)][g],
         u # NULL, t.red[p] = TRUE, t.red[u] = TRUE,
         NEW r, Lifted(t, r, g, p, u)
  PROVE  \E bk : Fixing(r, A, bk, g)
<1>1. /\ A \in SUBSET Nodes /\ NULL \notin A /\ \A s \in Sides : s = side \/ s = Other(side)
      /\ Other(side) \in Sides
  BY OtherSide DEF Shape, Typed, RBTreeAssumption, Sides
<1>2. /\ n \in A /\ t.red[n] = TRUE /\ RedBelow(t, A, n) /\ (Red(t, t.root) => t.root = n)
      /\ Counted(t, A, bh, NULL, "left")
  BY DEF Fixing
<1>3. p # NULL /\ p # g /\ u # g /\ t.parent[p] = g /\ u \in A /\ t.parent[u] = g
  BY <1>1, Children
<1>4. n # p /\ t.red[g] \in BOOLEAN
  BY <1>1, <1>2, <1>3, OneSide, SideFields DEF Shape, Typed
<1>5. t.red[g] = FALSE
  <2>1. t.red[g] # TRUE
    BY <1>1, <1>2, <1>3, <1>4 DEF RedBelow, Red
  <2>2. QED
    BY <1>4, <2>1
<1>6. \E bk : Counted(r, A, bk, NULL, "left")
  BY <1>2, <1>3, <1>5, LiftCounted
<1>7. /\ r.red[p] = FALSE /\ r.red[u] = FALSE /\ r.red[g] = TRUE
      /\ \A m \in A : m # g /\ m # p /\ m # u => r.red[m] = t.red[m]
      /\ r.root = t.root /\ \A s \in Sides : r[s] = t[s]
  BY <1>1 DEF Lifted, SameLinks
<1>8. RedBelow(r, A, g)
  <2>1. SUFFICES ASSUME NEW m \in A, NEW s \in Sides, r.red[m], Red(r, r[s][m]), r[s][m] # g PROVE FALSE
    BY DEF RedBelow
  <2>2. PICK c : c = t[s][m]
    OBVIOUS
  <2>3. c # NULL /\ r.red[c] /\ c # g /\ c = r[s][m]
    BY <1>7, <2>1, <2>2 DEF Red
  <2>4. c \in A /\ t.parent[c] = m
    <3>1. \A k \in A : \A z \in Sides : t[z][k] # NULL => t[z][k] \in A /\ t.parent[t[z][k]] = k
      BY Children
    <3>2. QED
      BY <2>2, <2>3, <3>1
  <2>5. m # p /\ m # u /\ c # p /\ c # u
    BY <1>7, <2>1, <2>3
  <2>6. m # g
    BY <1>1, <2>2, <2>5
  <2>7. t.red[m] /\ t.red[c]
    BY <1>7, <2>1, <2>3, <2>4, <2>5, <2>6
  <2>8. c = n
    BY <1>2, <2>2, <2>3, <2>7 DEF RedBelow, Red
  <2>9. QED
    BY <2>4, <2>5, <2>8
<1>9. Red(r, r.root) => r.root = g
  <2>1. SUFFICES ASSUME Red(r, r.root), r.root # g PROVE FALSE
    OBVIOUS
  <2>2. t.root # NULL /\ r.red[t.root] /\ t.root # g
    BY <1>7, <2>1 DEF Red
  <2>3. t.root \in A /\ t.parent[t.root] = NULL
    BY <2>2 DEF Shape, Rooted
  <2>4. t.root # p /\ t.root # u
    BY <1>7, <2>2
  <2>5. t.red[t.root]
    BY <1>7, <2>2, <2>3, <2>4
  <2>6. QED
    BY <1>2, <1>3, <2>2, <2>3, <2>5 DEF Red
<1>10. QED
  BY <1>6, <1>7, <1>8, <1>9 DEF Fixing

(* A red node y, on side side of a black g with a black other child; only  *)
(* the child of y on its own side may be red below a red node.             *)
Leans(t, A, g, side, y, low) ==
  /\ ~Red(t, t.root) /\ y = t[side][g] /\ y # NULL /\ t.red[y] = TRUE /\ t.red[g] = FALSE
  /\ ~Red(t, t[Other(side)][g]) /\ low = t[side][y] /\ RedBelow(t, A, low)

(* One rotation, and no red node has a red child. *)
LEMMA LeansApart ==
  ASSUME NEW t, NEW A, NEW sub, NEW ky, Shape(t, A, sub, ky), RBTreeAssumption,
         NEW g \in A, NEW side \in Sides, NEW y, NEW low, Leans(t, A, g, side, y, low),
         NEW q, Swapped(t, q, g, y), NEW r, Rotated(q, r, g, y, side)
  PROVE  RedApart(r, A) /\ ~Red(r, r.root) /\ ~Red(r, y)
<1> USE DEF Leans
<1>1. /\ A \in SUBSET Nodes /\ NULL \notin A /\ \A s \in Sides : s = side \/ s = Other(side)
      /\ Other(side) \in Sides /\ Other(side) # side
  BY OtherSide DEF Shape, Typed, RBTreeAssumption, Sides
<1>2. Shape(q, A, sub, ky)
  BY SameLinksShape DEF Swapped
<1>3. y = q[side][g] /\ q.root = t.root /\ q.parent = t.parent /\ \A s \in Sides : q[s] = t[s]
  BY DEF Swapped, SameLinks
<1>4. /\ y \in A /\ g # y /\ t.parent[y] = g
      /\ r[side][g] = t[Other(side)][y] /\ r[Other(side)][g] = t[Other(side)][g]
      /\ r[Other(side)][y] = g /\ r[side][y] = t[side][y]
      /\ r[side][g] # g /\ r[side][g] # y /\ r[Other(side)][g] # g /\ r[Other(side)][g] # y
      /\ r[side][y] # g /\ r[side][y] # y
      /\ \A m \in A : m # g /\ m # y => \A s \in Sides :
           t[s][m] # y /\ r[s][m] # g /\ r[s][m] = IF t[s][m] = g THEN y ELSE t[s][m]
  <2>1. Turned(q, r, A, g, y, side, Other(side))
    BY <1>2, <1>3, RotatedLinks
  <2>2. QED
    BY <1>1, <1>3, <2>1 DEF Turned
<1>5. /\ r.red[y] = FALSE /\ r.red[g] = TRUE
      /\ \A m \in A : m # g /\ m # y => r.red[m] = t.red[m]
  BY <1>1 DEF Swapped, Rotated
<1>7. \A m \in A : \A s \in Sides : t[s][m] # NULL => t[s][m] \in A /\ t.parent[t[s][m]] = m
  BY Children
<1>8. RedApart(r, A)
  <2>1. SUFFICES ASSUME NEW m \in A, NEW s \in Sides, r.red[m], Red(r, r[s][m]) PROVE FALSE
    BY DEF RedApart
  <2>2. PICK c : c = r[s][m]
    OBVIOUS
  <2>3. c # NULL /\ r.red[c] /\ c # y /\ m # y
    BY <1>5, <2>1, <2>2 DEF Red
  <2>4. CASE m = g /\ s = Other(side)
    <3>1. c = t[Other(side)][g] /\ c # g
      BY <1>4, <2>2, <2>4
    <3>2. c \in A
      BY <1>1, <1>7, <2>3, <3>1
    <3>3. t.red[c]
      BY <1>5, <2>3, <3>1, <3>2
    <3>4. QED
      BY <2>3, <3>1, <3>3 DEF Red
  <2>5. CASE m = g /\ s = side
    <3>1. c = t[Other(side)][y] /\ c # g
      BY <1>4, <2>2, <2>5
    <3>2. c \in A
      BY <1>1, <1>4, <1>7, <2>3, <3>1
    <3>3. t.red[c]
      BY <1>5, <2>3, <3>1, <3>2
    <3>4. c = low
      BY <1>1, <1>4, <2>3, <3>1, <3>3 DEF RedBelow, Red
    <3>5. t[Other(side)][y] # t[side][y]
      <4>1. \A k \in A : t[side][k] # NULL => t[Other(side)][k] # t[side][k]
        BY Children
      <4>2. QED
        BY <1>4, <2>3, <3>1, <3>4, <4>1
    <3>6. QED
      BY <3>1, <3>4, <3>5
  <2>6. CASE m # g
    <3>1. c = t[s][m] /\ c # g
      BY <1>4, <2>2, <2>3, <2>6
    <3>2. c \in A /\ t.parent[c] = m
      BY <1>7, <2>3, <3>1
    <3>3. t.red[m] /\ t.red[c]
      BY <1>5, <2>1, <2>3, <2>6, <3>1, <3>2
    <3>4. c = low
      BY <2>3, <3>1, <3>3 DEF RedBelow, Red
    <3>5. t.parent[low] = y
      BY <1>4, <1>7, <2>3, <3>4
    <3>6. QED
      BY <2>3, <3>2, <3>4, <3>5
  <2>7. QED
    BY <1>1, <2>4, <2>5, <2>6
<1>9. ~Red(r, r.root)
  <2>1. r.root = IF t.parent[g] = NULL THEN y ELSE t.root
    BY <1>3 DEF Rotated
  <2>2. CASE t.parent[g] = NULL
    BY <1>5, <2>1, <2>2 DEF Red
  <2>3. CASE t.parent[g] # NULL
    <3>1. r.root = t.root /\ t.root \in A /\ t.parent[t.root] = NULL
      BY <2>1, <2>3 DEF Shape, Rooted, Typed
    <3>2. t.root # g /\ t.root # y
      BY <1>1, <1>4, <2>3, <3>1
    <3>3. r.red[t.root] = t.red[t.root]
      BY <1>5, <3>1, <3>2
    <3>4. QED
      BY <3>1, <3>3 DEF Red
  <2>4. QED
    BY <2>2, <2>3
<1>10. QED
  BY <1>5, <1>8, <1>9 DEF Red

(* The same with the black nodes counted. *)
Straight(t, A, bh, g, side, y, low) ==
  Counted(t, A, bh, NULL, "left") /\ Leans(t, A, g, side, y, low)

(* One rotation, and the colours are right.                                *)
LEMMA StraightColoured ==
  ASSUME NEW t, NEW A, NEW sub, NEW ky, Shape(t, A, sub, ky), RBTreeAssumption,
         NEW bh, NEW g \in A, NEW side \in Sides, NEW y, NEW low, Straight(t, A, bh, g, side, y, low),
         NEW q, Swapped(t, q, g, y), NEW r, Rotated(q, r, g, y, side)
  PROVE  Coloured(r, A) /\ ~Red(r, y)
<1>1. y = t[side][g] /\ y # NULL /\ t.red[y] = TRUE /\ Counted(t, A, bh, NULL, "left")
      /\ Leans(t, A, g, side, y, low)
  BY DEF Straight, Leans
<1>2. NULL # y /\ NULL # g /\ "left" \in Sides
  BY <1>1 DEF Shape, Typed, RBTreeAssumption, Sides
<1>3. Counted(r, A, SwapLabels(bh, g, y), NULL, "left")
  BY <1>1, <1>2, RotatedCounted
<1>4. RedApart(r, A) /\ ~Red(r, r.root) /\ ~Red(r, y)
  BY <1>1, LeansApart
<1>5. QED
  BY <1>3, <1>4 DEF Coloured

(* n is red on the inner side of its red parent p; nothing else is wrong.  *)
Bent(t, A, bh, g, side, p, n) ==
  /\ Counted(t, A, bh, NULL, "left") /\ ~Red(t, t.root)
  /\ p = t[side][g] /\ t.red[p] = TRUE /\ t.red[g] = FALSE /\ ~Red(t, t[Other(side)][g])
  /\ n = t[Other(side)][p] /\ n # NULL /\ t.red[n] = TRUE /\ RedBelow(t, A, n)

(* r is t with n above p. *)
Unbent(t, r, A, ky, g, side, p, n) ==
  /\ \E ub, bk : Shape(r, A, ub, ky) /\ Counted(r, A, bk, NULL, "left")
  /\ ~Red(r, r.root) /\ r.red = t.red
  /\ r[side][g] = n /\ r[Other(side)][g] = t[Other(side)][g] /\ r[side][n] = p
  /\ RedBelow(r, A, p)

(* A red node n on the inner side of its red parent p is rotated above it:  *)
(* then p is on the outer side of n.                                       *)
LEMMA BentStraight ==
  ASSUME NEW t, NEW A, NEW sub, NEW ky, Shape(t, A, sub, ky), RBTreeAssumption,
         NEW bh, NEW g \in A, NEW side \in Sides, NEW p \in A, NEW n, Bent(t, A, bh, g, side, p, n),
         NEW r, Rotated(t, r, p, n, Other(side))
  PROVE  Unbent(t, r, A, ky, g, side, p, n)
<1>0. /\ Counted(t, A, bh, NULL, "left") /\ ~Red(t, t.root) /\ RedBelow(t, A, n)
      /\ p = t[side][g] /\ t.red[p] = TRUE /\ t.red[g] = FALSE
      /\ n = t[Other(side)][p] /\ n # NULL /\ t.red[n] = TRUE
  BY DEF Bent
<1>1. /\ A \in SUBSET Nodes /\ NULL \notin A /\ \A s \in Sides : s = side \/ s = Other(side)
      /\ Other(side) \in Sides /\ Other(side) # side /\ Other(Other(side)) = side /\ t \in Tree
      /\ "left" \in Sides
  BY OtherSide DEF Shape, Typed, RBTreeAssumption, Sides
<1>2. /\ \A m \in A : \A s \in Sides : t[s][m] # NULL =>
           t[s][m] \in A /\ t.parent[t[s][m]] = m /\ t[s][m] # m
      /\ \A m \in A : t[side][m] # NULL => t[Other(side)][m] # t[side][m]
  BY Children
<1>3. t.parent[p] = g /\ g # p /\ n \in A /\ t.parent[n] = p /\ n # p
  BY <1>0, <1>1, <1>2
<1>4. n # g
  <2>1. p \notin sub[n]
    BY <1>0, <1>1, Children
  <2>2. p \in sub[p] /\ sub[p] \in SUBSET sub[g]
    BY <1>0, <1>1, Children
  <2>3. QED
    BY <2>1, <2>2
<1>5. Turned(t, r, A, p, n, Other(side), side)
  <2>1. Turned(t, r, A, p, n, Other(side), Other(Other(side)))
    BY <1>0, <1>1, RotatedLinks
  <2>2. QED
    BY <1>1, <2>1
<1>6. r.red = t.red /\ r.root = IF t.parent[p] = NULL THEN n ELSE t.root
  BY DEF Rotated
<1>7. r[side][g] = n /\ r[Other(side)][g] = t[Other(side)][g]
  <2>1. g # p /\ g # n /\ t[side][g] = p /\ t[Other(side)][g] # p
    BY <1>0, <1>1, <1>2, <1>3, <1>4
  <2>2. \A s \in Sides : r[s][g] = IF t[s][g] = p THEN n ELSE t[s][g]
    BY <1>5, <2>1, Zenon DEF Turned
  <2>3. QED
    BY <1>1, <2>1, <2>2
<1>8. \E bk : Counted(r, A, bk, NULL, "left")
  <2>1. Swapped(t, t, p, n)
    BY <1>0, <1>1 DEF Swapped, SameLinks
  <2>2. NULL # n /\ NULL # p
    BY <1>0, <1>1
  <2>3. Counted(r, A, SwapLabels(bh, p, n), NULL, "left")
    BY <1>0, <1>1, <2>1, <2>2, RotatedCounted
  <2>4. QED
    BY <2>3
<1>9. \E ub : Shape(r, A, ub, ky)
  BY <1>0, <1>1, RotatedShape
<1>10. ~Red(r, r.root)
  BY <1>0, <1>1, <1>3, <1>6 DEF Red
<1>11. RedBelow(r, A, p)
  <2>1. SUFFICES ASSUME NEW m \in A, NEW s \in Sides, r.red[m], Red(r, r[s][m]), r[s][m] # p PROVE FALSE
    BY DEF RedBelow
  <2>2. PICK c : c = r[s][m]
    OBVIOUS
  <2>3. c # NULL /\ t.red[c] /\ t.red[m] /\ c # p
    BY <1>6, <2>1, <2>2 DEF Red
  <2>4. \A k \in A : \A z \in Sides : t.red[k] /\ t[z][k] = c => c = n
    BY <1>0, <2>3 DEF RedBelow, Red
  <2>5. CASE m = p
    <3>1. r[Other(side)][p] = t[side][n] /\ r[side][p] = t[side][p] /\ t[side][n] # n
      BY <1>0, <1>1, <1>2, <1>3, <1>5, <2>3, Zenon DEF Turned
    <3>2. CASE s = side
      <4>1. c = t[side][p]
        BY <2>2, <2>5, <3>1, <3>2
      <4>2. c = n
        BY <2>3, <2>4, <2>5, <4>1
      <4>3. t[Other(side)][p] # t[side][p]
        BY <1>2, <2>3, <4>1
      <4>4. QED
        BY <1>0, <4>1, <4>2, <4>3
    <3>3. CASE s = Other(side)
      <4>1. c = t[side][n]
        BY <2>2, <2>5, <3>1, <3>3, Zenon
      <4>2. c = n
        BY <1>0, <1>3, <2>3, <2>4, <4>1
      <4>3. QED
        BY <3>1, <4>1, <4>2
    <3>4. QED
      BY <1>1, <3>2, <3>3
  <2>6. CASE m = n
    <3>1. r[Other(side)][n] = t[Other(side)][n] /\ r[side][n] = p /\ r[Other(side)][n] # n
      BY <1>5 DEF Turned
    <3>2. s = Other(side) /\ c = t[Other(side)][n]
      BY <1>1, <2>2, <2>3, <2>6, <3>1, Zenon
    <3>3. c = n
      BY <1>0, <1>1, <1>3, <2>3, <2>4, <3>2
    <3>4. QED
      BY <3>1, <3>2, <3>3
  <2>7. CASE m # p /\ m # n
    <3>1. CASE t[s][m] = p
      <4>1. m = g
        BY <1>0, <1>1, <1>2, <1>3, <3>1
      <4>2. QED
        BY <1>0, <2>3, <4>1
    <3>2. CASE t[s][m] # p
      <4>1. c = t[s][m] /\ c # n
        BY <1>0, <1>5, <2>2, <2>7, <3>2 DEF Turned
      <4>2. QED
        BY <2>3, <2>4, <4>1
    <3>3. QED
      BY <3>1, <3>2
  <2>8. QED
    BY <2>5, <2>6, <2>7
<1>12. QED
  BY <1>5, <1>6, <1>7, <1>8, <1>9, <1>10, <1>11, Zenon DEF Turned, Unbent

(* That rotation ends the fixup of an insertion. *)
LEMMA StraightFixes ==
  ASSUME NEW t, NEW A, NEW sub, NEW ky, Shape(t, A, sub, ky), RBTreeAssumption,
         NEW bh, NEW g \in A, NEW side \in Sides, NEW y, NEW low \in A,
         Straight(t, A, bh, g, side, y, low), t.red[low] = TRUE,
         NEW q, Swapped(t, q, g, y), NEW r, Rotated(q, r, g, y, side)
  PROVE  \E ub, bk : Shape(r, A, ub, ky) /\ Fixing(r, A, bk, low) /\ ~Red(r, r.parent[low])
<1>s. y = t[side][g] /\ y # NULL /\ low = t[side][y]
  BY DEF Straight, Leans
<1>1. A \in SUBSET Nodes /\ NULL \notin A /\ Other(side) \in Sides
  BY OtherSide DEF Shape, Typed, RBTreeAssumption
<1>2. y \in A /\ g # y /\ t.parent[y] = g /\ t.parent[low] = y /\ low # y
  <2>1. y \in A /\ g # y /\ t.parent[y] = g
    BY <1>s, Children
  <2>2. low # NULL
    BY <1>1
  <2>3. QED
    BY <1>s, <2>1, <2>2, Children
<1>4. SameLinks(t, q) /\ \A m \in Nodes : m # y /\ m # g => q.red[m] = t.red[m]
  BY DEF Swapped
<1>6. Shape(q, A, sub, ky) /\ q[side][g] = y
  BY <1>s, <1>4, SameLinksShape DEF SameLinks
<1>8. Coloured(r, A) /\ ~Red(r, y)
  BY StraightColoured
<1>9. PICK ub : Shape(r, A, ub, ky)
  BY <1>s, <1>6, RotatedShape
<1>10. low # g
  <2>1. g \notin sub[y]
    BY <1>s, Children
  <2>2. low \in sub[low] /\ sub[low] \in SUBSET sub[y]
    BY <1>s, <1>1, <1>2, Children
  <2>3. QED
    BY <2>1, <2>2
<1>11. r.parent[low] = y /\ r.red[low] = TRUE
  <2>1. r.parent[low] = IF low = g THEN y ELSE IF low = y THEN q.parent[g]
                        ELSE IF low = q[Other(side)][y] THEN g ELSE q.parent[low]
    BY <1>1 DEF Rotated
  <2>2. q.parent = t.parent /\ q[Other(side)][y] = t[Other(side)][y]
    BY <1>1, <1>4 DEF SameLinks
  <2>3. t[Other(side)][y] # low
    BY <1>s, <1>1, <1>2, Children
  <2>4. r.red[low] = TRUE
    BY <1>1, <1>2, <1>4, <1>10 DEF Rotated
  <2>5. QED
    BY <1>2, <1>10, <2>1, <2>2, <2>3, <2>4
<1>12. PICK bk : Counted(r, A, bk, NULL, "left")
  BY <1>8 DEF Coloured
<1>13. Fixing(r, A, bk, low)
  BY <1>8, <1>11, <1>12 DEF Fixing, Coloured, RedApart, RedBelow
<1>14. ~Red(r, r.parent[low])
  BY <1>8, <1>11
<1>15. QED
  BY <1>9, <1>13, <1>14

(* The colours of a black node and its red child are changed over by        *)
(* painting the child black and the node red.                              *)
LEMMA PaintSwaps ==
  ASSUME NEW t \in Tree, NEW x \in Nodes, NEW y \in Nodes, x # y, ~Red(t, x), RBTreeAssumption
  PROVE  Swapped(t, Paint(Paint(t, y, FALSE), x, TRUE), x, y)
<1>1. TRUE \in BOOLEAN /\ FALSE \in BOOLEAN /\ x # NULL
  BY DEF RBTreeAssumption
<1>2. t.red[x] = FALSE
  BY <1>1, SideFields DEF Red
<1>3. PICK q : q = Paint(Paint(t, y, FALSE), x, TRUE)
  OBVIOUS
<1>4. TwoPainted(t, q, y, x, FALSE, TRUE)
  BY <1>1, <1>3, PaintTwo
<1>5. Swapped(t, q, x, y)
  BY <1>2, <1>4 DEF Swapped, TwoPainted
<1>6. QED
  BY <1>3, <1>5

(* Two siblings painted black and their parent red. *)
LEMMA PaintLifts ==
  ASSUME NEW t \in Tree, NEW g \in Nodes, NEW p \in Nodes, NEW u \in Nodes, g # p, g # u, p # u,
         RBTreeAssumption
  PROVE  Lifted(t, Paint(Paint(Paint(t, p, FALSE), u, FALSE), g, TRUE), g, p, u)
<1>1. TRUE \in BOOLEAN /\ FALSE \in BOOLEAN
  OBVIOUS
<1>2. PICK q : q = Paint(Paint(t, p, FALSE), u, FALSE)
  OBVIOUS
<1>3. SameLinks(t, q) /\ q.red[p] = FALSE /\ q.red[u] = FALSE /\ \A m \in Nodes : m # p /\ m # u => q.red[m] = t.red[m]
  <2>1. TwoPainted(t, q, p, u, FALSE, FALSE)
    BY <1>1, <1>2, PaintTwo
  <2>2. QED
    BY <2>1 DEF TwoPainted
<1>4. q \in Tree
  BY <1>3 DEF SameLinks
<1>5. PICK r : r = Paint(q, g, TRUE)
  OBVIOUS
<1>6. Painted(q, r, g, TRUE)
  BY <1>1, <1>4, <1>5, PaintPaints
<1>7. SameLinks(q, r) /\ r.red[g] = TRUE /\ \A m \in Nodes : m # g => r.red[m] = q.red[m]
  BY <1>6 DEF Painted
<1>8. SameLinks(t, r)
  BY <1>3, <1>7, SameLinksTrans
<1>9. Lifted(t, r, g, p, u)
  BY <1>3, <1>7, <1>8 DEF Lifted
<1>10. QED
  BY <1>2, <1>5, <1>9

(* A tree that the fixup has no more work with. *)
Settles(r, A, ky, n) ==
  \E ub, bk : Shape(r, A, ub, ky) /\ Fixing(r, A, bk, n) /\ ~Red(r, r.parent[n])

(* The rotation as the code calls it. *)
LEMMA StraightSettles ==
  ASSUME NEW t, NEW A, NEW sub, NEW ky, Shape(t, A, sub, ky), RBTreeAssumption,
         NEW bh, NEW g \in A, NEW side \in Sides, NEW y, NEW low \in A,
         Straight(t, A, bh, g, side, y, low), t.red[low] = TRUE
  PROVE  Settles(Rotate(Paint(Paint(t, y, FALSE), g, TRUE), g, side), A, ky, low)
<1>1. /\ A \in SUBSET Nodes /\ NULL \notin A /\ t \in Tree /\ g \in Nodes
      /\ y = t[side][g] /\ y # NULL /\ ~Red(t, g)
  BY DEF Shape, Typed, RBTreeAssumption, Straight, Leans, Red
<1>2. y \in A /\ g # y /\ y \in Nodes
  BY <1>1, Children
<1>3. PICK q : q = Paint(Paint(t, y, FALSE), g, TRUE)
  OBVIOUS
<1>4. Swapped(t, q, g, y)
  BY <1>1, <1>2, <1>3, PaintSwaps
<1>5. Shape(q, A, sub, ky) /\ q[side][g] = y
  BY <1>1, <1>4, SameLinksShape DEF Swapped, SameLinks
<1>6. PICK r : r = Rotate(q, g, side)
  OBVIOUS
<1>7. Rotated(q, r, g, y, side)
  BY <1>1, <1>5, <1>6, RotateIs
<1>8. \E ub, bk : Shape(r, A, ub, ky) /\ Fixing(r, A, bk, low) /\ ~Red(r, r.parent[low])
  BY <1>4, <1>7, StraightFixes
<1>9. Settles(r, A, ky, low)
  BY <1>8 DEF Settles
<1>10. QED
  BY <1>3, <1>6, <1>9

(* One turn: it settles the tree, or goes up. *)
Rises(r, n, A, ky, sub) ==
  /\ Shape(r.t, A, sub, ky) /\ \E bk : Fixing(r.t, A, bk, r.node)
  /\ sub[n] \in SUBSET sub[r.node] /\ r.node \notin sub[n]

(* A turn with a red parent and a red uncle. *)
LEMMA UncleRises ==
  ASSUME NEW t, NEW A, NEW sub, NEW ky, Shape(t, A, sub, ky), RBTreeAssumption,
         NEW bh, NEW n, Fixing(t, A, bh, n),
         NEW p, t.parent[n] = p, p \in A, NEW g \in A, NEW side \in Sides, p = t[side][g],
         NEW u, u = t[Other(side)][g], Red(t, p), Red(t, u)
  PROVE  Rises([t |-> Paint(Paint(Paint(t, p, FALSE), u, FALSE), g, TRUE), node |-> g], n, A, ky, sub)
<1>1. /\ A \in SUBSET Nodes /\ NULL \notin A /\ t \in Tree /\ g \in Nodes /\ n \in A /\ Other(side) \in Sides
      /\ u # NULL /\ t.red[u] /\ t.red[p] /\ p # NULL
  BY OtherSide DEF Shape, Typed, RBTreeAssumption, Fixing, Red
<1>2. u \in A /\ u # g /\ p # g /\ p # u
  <2>1. u \in A /\ u # g
    BY <1>1, Children
  <2>2. p # g /\ u # p
    BY <1>1, Children
  <2>3. QED
    BY <2>1, <2>2
<1>3. t.red[u] = TRUE /\ t.red[p] = TRUE
  BY <1>1, <1>2, SideFields
<1>4. PICK r : r = Paint(Paint(Paint(t, p, FALSE), u, FALSE), g, TRUE)
  OBVIOUS
<1>5. Lifted(t, r, g, p, u)
  BY <1>1, <1>2, <1>4, PaintLifts
<1>6. \E bk : Fixing(r, A, bk, g)
  BY <1>1, <1>3, <1>5, LiftFixing
<1>7. Shape(r, A, sub, ky)
  BY <1>5, SameLinksShape DEF Lifted
<1>8. sub[n] \in SUBSET sub[g] /\ g \notin sub[n]
  <2>1. \E s \in Sides : t[s][p] = n
    BY <1>1, OneSide
  <2>2. sub[n] \in SUBSET sub[p]
    <3>1. \A s \in Sides : sub[t[s][p]] \in SUBSET sub[p]
      BY Children
    <3>2. QED
      BY <2>1, <3>1
  <2>3. sub[p] \in SUBSET sub[g] /\ g \notin sub[p]
    BY Children
  <2>4. QED
    BY <2>2, <2>3
<1>9. PICK z : z = [t |-> r, node |-> g]
  OBVIOUS
<1>10. z.t = r /\ z.node = g
  BY <1>9
<1>11. Rises(z, n, A, ky, sub)
  BY <1>6, <1>7, <1>8, <1>10 DEF Rises
<1>12. QED
  BY <1>4, <1>9, <1>11

(* p is red, and below a black g. *)
Under(t, A, n, p, g) ==
  /\ p \in A /\ p # n /\ n \in A /\ g \in A /\ ~Red(t, g) /\ ~Red(t, t.root)
  /\ t.red[n] = TRUE /\ t.red[p] = TRUE /\ t.red[g] = FALSE

(* Above a red node whose parent is red there is a black grandparent.      *)
LEMMA Grandparent ==
  ASSUME NEW t, NEW A, NEW sub, NEW ky, Shape(t, A, sub, ky), RBTreeAssumption,
         NEW bh, NEW n, Fixing(t, A, bh, n), NEW p, t.parent[n] = p, Red(t, p)
  PROVE  Under(t, A, n, p, t.parent[p])
<1>1. n \in A /\ t.red[n] = TRUE /\ RedBelow(t, A, n) /\ (Red(t, t.root) => t.root = n) /\ t \in Tree
      /\ A \in SUBSET Nodes /\ NULL \notin A
  BY DEF Fixing, Shape, Typed, RBTreeAssumption
<1>2. p # NULL /\ t.red[p]
  BY DEF Red
<1>3. p \in A /\ p # n
  BY <1>1, <1>2, OneSide
<1>4. ~Red(t, t.root)
  <2>1. t.root # NULL => t.parent[t.root] = NULL
    BY DEF Shape, Rooted
  <2>2. QED
    BY <1>1, <1>2, <2>1
<1>5. t.parent[p] # NULL
  BY <1>3, <1>4 DEF Shape, LinksUp
<1>6. PICK g : g = t.parent[p]
  OBVIOUS
<1>7. g \in A /\ \E s \in Sides : t[s][g] = p
  BY <1>3, <1>5, <1>6, OneSide
<1>8. ~Red(t, g)
  BY <1>1, <1>3, <1>7 DEF RedBelow, Red
<1>9. t.red[p] = TRUE
  BY <1>1, <1>2, <1>3, SideFields
<1>10. t.red[g] = FALSE
  BY <1>1, <1>7, <1>8, SideFields DEF Red
<1>11. QED
  BY <1>1, <1>3, <1>4, <1>6, <1>7, <1>8, <1>9, <1>10 DEF Under

(* A turn with a red parent and a black uncle. *)
LEMMA TurnSettles ==
  ASSUME NEW t, NEW A, NEW sub, NEW ky, Shape(t, A, sub, ky), RBTreeAssumption,
         NEW bh, NEW n, Fixing(t, A, bh, n), NEW p, t.parent[n] = p, Red(t, p),
         NEW g, g = t.parent[p], NEW side \in Sides, p = t[side][g], ~Red(t, t[Other(side)][g])
  PROVE  /\ t[Other(side)][p] = n =>
              Settles(Rotate(Paint(Paint(Rotate(t, p, Other(side)), n, FALSE), g, TRUE), g, side), A, ky, p)
         /\ t[Other(side)][p] # n =>
              Settles(Rotate(Paint(Paint(t, p, FALSE), g, TRUE), g, side), A, ky, n)
<1>1. /\ p \in A /\ p # n /\ n \in A /\ g \in A /\ ~Red(t, g) /\ ~Red(t, t.root)
      /\ t.red[n] = TRUE /\ t.red[p] = TRUE /\ t.red[g] = FALSE
  <2>1. Under(t, A, n, p, g)
    BY Grandparent
  <2>2. QED
    BY <2>1 DEF Under
<1>2. /\ A \in SUBSET Nodes /\ NULL \notin A /\ t \in Tree /\ Other(side) \in Sides
      /\ \A s \in Sides : s = side \/ s = Other(side)
  BY OtherSide DEF Shape, Typed, RBTreeAssumption, Sides
<1>3. Counted(t, A, bh, NULL, "left") /\ RedBelow(t, A, n)
  BY DEF Fixing
<1>4. p # NULL /\ n # NULL
  BY <1>1, <1>2
<1>5. ASSUME t[Other(side)][p] = n
      PROVE  Settles(Rotate(Paint(Paint(Rotate(t, p, Other(side)), n, FALSE), g, TRUE), g, side), A, ky, p)
  <2>1. PICK r : r = Rotate(t, p, Other(side))
    OBVIOUS
  <2>2. Rotated(t, r, p, n, Other(side))
    BY <1>1, <1>2, <1>4, <1>5, <2>1, RotateIs
  <2>3. Unbent(t, r, A, ky, g, side, p, n)
    <3>1. Bent(t, A, bh, g, side, p, n)
      BY <1>1, <1>3, <1>4, <1>5 DEF Bent
    <3>2. QED
      BY <1>1, <2>2, <3>1, BentStraight
  <2>4. PICK ub, bk : Shape(r, A, ub, ky) /\ Counted(r, A, bk, NULL, "left")
    BY <2>3 DEF Unbent
  <2>6. ~Red(r, r[Other(side)][g])
    BY <2>3, Zenon DEF Red, Unbent
  <2>7. Straight(r, A, bk, g, side, n, p)
    BY <1>1, <1>4, <2>3, <2>4, <2>6, Zenon DEF Straight, Leans, Unbent
  <2>8. Settles(Rotate(Paint(Paint(r, n, FALSE), g, TRUE), g, side), A, ky, p)
    <3>1. r.red[p] = TRUE
      BY <1>1, <2>3 DEF Unbent
    <3>2. QED
      BY <1>1, <2>4, <2>7, <3>1, StraightSettles
  <2>9. QED
    BY <2>1, <2>8
<1>6. ASSUME t[Other(side)][p] # n
      PROVE  Settles(Rotate(Paint(Paint(t, p, FALSE), g, TRUE), g, side), A, ky, n)
  <2>1. t[side][p] = n
    <3>1. t.parent[n] # NULL
      BY <1>4
    <3>2. \E s \in Sides : t[s][t.parent[n]] = n
      BY <1>1, <3>1, Zenon DEF Shape, LinksUp
    <3>3. QED
      BY <1>2, <1>6, <3>2
  <2>2. Straight(t, A, bh, g, side, p, n)
    BY <1>1, <1>3, <1>4, <2>1 DEF Straight, Leans
  <2>3. QED
    BY <1>1, <2>2, StraightSettles
<1>7. QED
  BY <1>5, <1>6

(* One turn of rbtree_insert_fixup. *)
LEMMA InsertStepFixes ==
  ASSUME NEW s, NEW A, NEW sub, NEW ky, Shape(s.t, A, sub, ky), RBTreeAssumption, s.t.bad = FALSE,
         NEW bh, Fixing(s.t, A, bh, s.node), Red(s.t, s.t.parent[s.node])
  PROVE  \/ Settles(InsertFixStep(s).t, A, ky, InsertFixStep(s).node)
         \/ Rises(InsertFixStep(s), s.node, A, ky, sub)
<1> DEFINE t     == s.t
           n     == s.node
           p     == t.parent[n]
           g     == t.parent[p]
           side  == IF p = t.left[g] THEN "left" ELSE "right"
           uncle == t[Other(side)][g]
           bent  == t[Other(side)][p] = n
           q1    == Paint(Paint(Paint(t, p, FALSE), uncle, FALSE), g, TRUE)
           q2    == Rotate(Paint(Paint(Rotate(t, p, Other(side)), n, FALSE), g, TRUE), g, side)
           q3    == Rotate(Paint(Paint(t, p, FALSE), g, TRUE), g, side)
<1>1. InsertFixStep(s) =
        IF t.bad THEN s ELSE IF ~Red(t, p) THEN s ELSE IF g = NULL THEN s
        ELSE IF Red(t, uncle) THEN [t |-> q1, node |-> g]
        ELSE [t |-> Rotate(Paint(Paint(IF bent THEN Rotate(t, p, Other(side)) ELSE t,
                                       IF bent THEN n ELSE p, FALSE), g, TRUE), g, side),
              node |-> IF bent THEN p ELSE n]
  BY Zenon DEF InsertFixStep
<1>2. /\ p \in A /\ p # n /\ n \in A /\ g \in A /\ ~Red(t, g)
  <2>1. Shape(t, A, sub, ky) /\ Fixing(t, A, bh, n) /\ Red(t, p) /\ t.parent[n] = p
    OBVIOUS
  <2> HIDE DEF t, n, p
  <2>2. Under(t, A, n, p, g)
    BY <2>1, Grandparent
  <2>3. QED
    BY <2>2 DEF Under
<1>3. g # NULL /\ ~t.bad
  BY <1>2 DEF Shape, Typed, RBTreeAssumption
<1>4. side \in Sides /\ p = t[side][g]
  <2>1. \E z \in Sides : t[z][t.parent[p]] = p
    <3>1. t.parent[p] # NULL
      BY <1>3
    <3>2. QED
      BY <1>2, <3>1, OneSide
  <2>2. t["left"] = t.left /\ t["right"] = t.right
    BY SideFields DEF Shape, Typed
  <2>3. QED
    BY <2>1, <2>2 DEF Sides
<1>5. Shape(t, A, sub, ky) /\ Fixing(t, A, bh, n) /\ t.parent[n] = p /\ Red(t, p) /\ g = t.parent[p]
  OBVIOUS
<1> HIDE DEF t, n, p, g, side
<1>6. CASE Red(t, uncle)
  <2>1. InsertFixStep(s) = [t |-> q1, node |-> g]
    BY <1>1, <1>3, <1>5, <1>6, Zenon
  <2>2. Rises([t |-> q1, node |-> g], n, A, ky, sub)
    <3>1. PICK u : u = uncle
      OBVIOUS
    <3>2. Rises([t |-> Paint(Paint(Paint(t, p, FALSE), u, FALSE), g, TRUE), node |-> g], n, A, ky, sub)
      BY <1>2, <1>4, <1>5, <1>6, <3>1, UncleRises
    <3>3. QED
      BY <3>1, <3>2
  <2> HIDE DEF q1
  <2>3. Rises(InsertFixStep(s), n, A, ky, sub)
    BY <2>1, <2>2
  <2>4. QED
    BY <2>3 DEF n
<1>7. CASE ~Red(t, uncle)
  <2>1. /\ bent => Settles(q2, A, ky, p)
        /\ ~bent => Settles(q3, A, ky, n)
    BY <1>4, <1>5, <1>7, TurnSettles
  <2>2. CASE bent
    <3>1. InsertFixStep(s) = [t |-> q2, node |-> p]
      BY <1>1, <1>3, <1>5, <1>7, <2>2, Zenon
    <3> HIDE DEF q2
    <3>2. InsertFixStep(s).t = q2 /\ InsertFixStep(s).node = p
      BY <3>1
    <3>3. Settles(InsertFixStep(s).t, A, ky, InsertFixStep(s).node)
      BY <2>1, <2>2, <3>2
    <3>4. QED
      BY <3>3
  <2>3. CASE ~bent
    <3>1. InsertFixStep(s) = [t |-> q3, node |-> n]
      BY <1>1, <1>3, <1>5, <1>7, <2>3, Zenon
    <3> HIDE DEF q3
    <3>2. InsertFixStep(s).t = q3 /\ InsertFixStep(s).node = n
      BY <3>1
    <3>3. Settles(InsertFixStep(s).t, A, ky, InsertFixStep(s).node)
      BY <2>1, <2>3, <3>2
    <3>4. QED
      BY <3>3
  <2>4. QED
    BY <2>2, <2>3
<1>8. QED
  BY <1>6, <1>7

(* Every node of the tree is below itself. *)
LEMMA SelfBelow ==
  ASSUME NEW t, NEW A, NEW sub, NEW ky, Shape(t, A, sub, ky), RBTreeAssumption, NEW n \in A
  PROVE  n \in sub[n] /\ sub[n] \in SUBSET A /\ sub[n] \in SUBSET Nodes
<1>1. "left" \in Sides /\ A \in SUBSET Nodes
  BY DEF Sides, Shape, Typed
<1>2. n \in sub[n] /\ sub[n] \in SUBSET A
  BY <1>1, Children
<1>3. QED
  BY <1>1, <1>2

(* A turn leaves a settled tree as it is. *)
LEMMA SettledStays ==
  ASSUME NEW s, s.t.bad = FALSE, ~Red(s.t, s.t.parent[s.node])
  PROVE  InsertFixStep(s) = s
<1>1. InsertFixStep(s) = IF s.t.bad THEN s ELSE IF ~Red(s.t, s.t.parent[s.node]) THEN s ELSE InsertFixStep(s)
  BY Zenon DEF InsertFixStep
<1>2. QED
  BY <1>1

(* Where the loop is after i turns: settled, or at least i nodes up. *)
Climbs(s, A, ky, i) ==
  \/ Settles(s.t, A, ky, s.node)
  \/ \E sub, bh : Shape(s.t, A, sub, ky) /\ Fixing(s.t, A, bh, s.node) /\ Cardinality(sub[s.node]) > i

(* One turn up. *)
LEMMA ClimbsStep ==
  ASSUME NEW s, NEW A, NEW ky, NEW i \in Nat, Climbs(s, A, ky, i), s.t.bad = FALSE, RBTreeAssumption
  PROVE  Climbs(InsertFixStep(s), A, ky, i + 1)
<1>1. CASE ~Red(s.t, s.t.parent[s.node])
  <2>1. InsertFixStep(s) = s
    BY <1>1, SettledStays
  <2>2. Settles(s.t, A, ky, s.node)
    BY <1>1 DEF Climbs, Settles
  <2>3. QED
    BY <2>1, <2>2 DEF Climbs
<1>2. CASE Red(s.t, s.t.parent[s.node])
  <2>1. PICK sub, bh : Shape(s.t, A, sub, ky) /\ Fixing(s.t, A, bh, s.node) /\ Cardinality(sub[s.node]) > i
    BY <1>2 DEF Climbs, Settles
  <2>2. PICK r : r = InsertFixStep(s)
    OBVIOUS
  <2>3. Settles(r.t, A, ky, r.node) \/ Rises(r, s.node, A, ky, sub)
    BY <1>2, <2>1, <2>2, InsertStepFixes
  <2>4. CASE Rises(r, s.node, A, ky, sub)
    <3>1. PICK bk : Fixing(r.t, A, bk, r.node)
      BY <2>4 DEF Rises
    <3>2. r.node \in sub[r.node] /\ sub[s.node] \in SUBSET sub[r.node] /\ r.node \notin sub[s.node]
          /\ sub[r.node] \in SUBSET Nodes
      <4>1. Shape(r.t, A, sub, ky) /\ r.node \in A /\ A \in SUBSET Nodes
        BY <2>4, <3>1 DEF Rises, Fixing, Shape, Typed
      <4>2. r.node \in sub[r.node] /\ sub[r.node] \in SUBSET A
        BY <4>1, SelfBelow
      <4>3. QED
        BY <2>4, <4>1, <4>2 DEF Rises
    <3>3. PICK B : B = sub[r.node]
      OBVIOUS
    <3>4. PICK C : C = sub[s.node]
      OBVIOUS
    <3>5. IsFiniteSet(B) /\ IsFiniteSet(C) /\ Cardinality(C) < Cardinality(B)
          /\ Cardinality(B) \in Nat /\ Cardinality(C) \in Nat
      <4>1. IsFiniteSet(B)
        BY <3>2, <3>3, FS_Subset DEF RBTreeAssumption
      <4>2. IsFiniteSet(C) /\ C \subseteq B /\ C # B
        BY <3>2, <3>3, <3>4, <4>1, FS_Subset
      <4>3. QED
        BY <4>1, <4>2, FS_Subset, FS_CardinalityType
    <3>6. Cardinality(B) > i + 1
      BY <2>1, <3>4, <3>5
    <3>7. QED
      BY <2>2, <2>4, <3>1, <3>3, <3>6 DEF Climbs, Rises
  <2>5. QED
    BY <2>2, <2>3, <2>4 DEF Climbs
<1>3. QED
  BY <1>1, <1>2

(* After as many turns as there are nodes the tree is settled. *)
LEMMA InsertRunSettles ==
  ASSUME NEW t, NEW n, NEW A, NEW ky, Grown(t, A, ky), RBTreeAssumption,
         NEW sub, Shape(t, A, sub, ky), NEW bh, Fixing(t, A, bh, n),
         NEW k, k = Cardinality(Nodes), NEW s, s = InsertRun(t, n, k)[k]
  PROVE  Settles(s.t, A, ky, s.node)
<1> DEFINE h == InsertRun(t, n, k)
           T == {i \in 0..k : ~Climbs(h[i], A, ky, i)}
<1>1. k \in Nat /\ n \in A
  BY NodesCounted DEF Fixing
<1>2. h[0] = [t |-> t, node |-> n] /\ \A i \in 1..k : h[i] = InsertFixStep(h[i - 1])
  BY <1>1, InsertRunExists
<1>3. \A i \in 0..k : h[i].t.bad = FALSE
  <2>1. \A i \in 0..k : Grown(h[i].t, A, ky)
    <3>1. \A i \in 0..k : Grown(InsertRun(t, n, k)[i].t, A, ky)
      BY <1>1, InsertRunGrown
    <3>2. QED
      BY <3>1
  <2>2. QED
    BY <2>1 DEF Grown
<1>4. s = h[k]
  OBVIOUS
<1> HIDE DEF h
<1>5. Climbs(h[0], A, ky, 0)
  <2>1. n \in sub[n] /\ sub[n] \in SUBSET Nodes
    BY <1>1, SelfBelow
  <2>2. PICK B : B = sub[n]
    OBVIOUS
  <2>3. IsFiniteSet(B) /\ B # {}
    BY <2>1, <2>2, FS_Subset DEF RBTreeAssumption
  <2>4. Cardinality(B) > 0
    BY <2>3, FS_EmptySet, FS_CardinalityType
  <2>5. h[0].t = t /\ h[0].node = n
    BY <1>2
  <2>6. QED
    BY <2>2, <2>4, <2>5 DEF Climbs
<1>6. ASSUME T # {} PROVE FALSE
  <2>1. T \in SUBSET Nat
    OBVIOUS
  <2>2. PICK i \in T : \A j \in T : i <= j
    BY <1>6, <2>1, LeastNumber
  <2>3. i # 0
    BY <1>5, <2>2
  <2>4. i \in 1..k /\ i - 1 \in 0..k /\ i - 1 \notin T /\ i - 1 \in Nat /\ (i - 1) + 1 = i
    BY <1>1, <2>2, <2>3
  <2>5. PICK z : z = h[i - 1]
    OBVIOUS
  <2>6. PICK j \in Nat : j = i - 1
    BY <2>4
  <2>7. Climbs(z, A, ky, j) /\ z.t.bad = FALSE
    BY <1>3, <2>4, <2>5, <2>6
  <2>8. Climbs(InsertFixStep(z), A, ky, j + 1)
    BY <2>7, ClimbsStep
  <2>9. h[i] = InsertFixStep(z) /\ j + 1 = i
    BY <1>2, <2>4, <2>5, <2>6
  <2>10. QED
    BY <2>2, <2>8, <2>9
<1>7. Climbs(s, A, ky, k)
  BY <1>1, <1>4, <1>6
<1>8. ASSUME NEW ub, NEW bk, Shape(s.t, A, ub, ky), Fixing(s.t, A, bk, s.node), Cardinality(ub[s.node]) > k
      PROVE  FALSE
  <2>1. s.node \in A /\ A \in SUBSET Nodes
    BY <1>8 DEF Fixing, Shape, Typed
  <2>2. ub[s.node] \in SUBSET A
    BY <1>8, <2>1, SelfBelow
  <2>3. PICK B : B = ub[s.node]
    OBVIOUS
  <2>4. B \subseteq Nodes /\ IsFiniteSet(Nodes)
    BY <2>1, <2>2, <2>3 DEF RBTreeAssumption
  <2>5. Cardinality(B) <= k /\ Cardinality(B) \in Nat
    BY <2>4, FS_Subset, FS_CardinalityType
  <2>6. QED
    BY <1>1, <1>8, <2>3, <2>5
<1>9. QED
  BY <1>7, <1>8 DEF Climbs

(* A tree whose colours are right below a root that may be red: with the   *)
(* root painted black they are right.                                      *)
LEMMA RootPainted ==
  ASSUME NEW t, NEW A, NEW sub, NEW ky, Shape(t, A, sub, ky), RBTreeAssumption, A # {},
         NEW bh, Counted(t, A, bh, NULL, "left"), RedApart(t, A)
  PROVE  Coloured(Paint(t, t.root, FALSE), A)
<1>1. t \in Tree /\ A \in SUBSET Nodes /\ NULL \notin A /\ "left" \in Sides
  BY DEF Shape, Typed, RBTreeAssumption, Sides
<1>2. t.root \in A /\ t.parent[t.root] = NULL
  BY DEF Shape, Rooted, Typed
<1>3. PICK x : x = t.root
  OBVIOUS
<1>4. PICK r : r = Paint(t, x, FALSE)
  OBVIOUS
<1>5. Painted(t, r, x, FALSE)
  <2>1. x \in Nodes /\ FALSE \in BOOLEAN
    BY <1>1, <1>2, <1>3
  <2>2. QED
    BY <1>1, <1>4, <2>1, PaintPaints
<1>6. \E bk : Counted(r, A, bk, NULL, "left")
  <2>1. x \in A /\ t.parent[x] = NULL
    BY <1>2, <1>3
  <2>2. QED
    BY <1>1, <1>5, <2>1, PaintPays
<1>7. r.red[x] = FALSE /\ r.root = x /\ (\A s \in Sides : r[s] = t[s])
      /\ \A m \in A : m # x => r.red[m] = t.red[m]
  BY <1>1, <1>3, <1>5 DEF Painted, SameLinks
<1>8. \A m \in A : \A s \in Sides : t[s][m] # NULL => t[s][m] \in A
  BY Children
<1>9. RedApart(r, A)
  <2>1. SUFFICES ASSUME NEW m \in A, NEW s \in Sides, r.red[m], Red(r, r[s][m]) PROVE FALSE
    BY DEF RedApart
  <2>2. m # x /\ r[s][m] # x /\ r[s][m] # NULL /\ r.red[r[s][m]] /\ r[s][m] = t[s][m]
    BY <1>7, <2>1 DEF Red
  <2>3. t.red[m] /\ t.red[t[s][m]] /\ t[s][m] # NULL
    BY <1>7, <1>8, <2>1, <2>2
  <2>4. QED
    BY <2>3 DEF RedApart, Red
<1>10. ~Red(r, r.root)
  BY <1>7 DEF Red
<1>11. Coloured(r, A)
  BY <1>6, <1>9, <1>10 DEF Coloured
<1>12. QED
  BY <1>3, <1>4, <1>11

(* rbtree_insert_fixup leaves a tree whose colours are right. *)
LEMMA InsertFixColoured ==
  ASSUME NEW t, NEW n, NEW A, NEW ky, Grown(t, A, ky), RBTreeAssumption,
         NEW sub, Shape(t, A, sub, ky), NEW bh, Fixing(t, A, bh, n)
  PROVE  Coloured(InsertFix(t, n), A)
<1>1. PICK k : k = Cardinality(Nodes)
  OBVIOUS
<1>2. PICK s : s = InsertRun(t, n, k)[k]
  OBVIOUS
<1>3. Settles(s.t, A, ky, s.node)
  BY <1>1, <1>2, InsertRunSettles
<1>4. PICK q : q = s.t
  OBVIOUS
<1>5. PICK ub, bk : Shape(q, A, ub, ky) /\ Fixing(q, A, bk, s.node) /\ ~Red(q, q.parent[s.node])
  BY <1>3, <1>4 DEF Settles
<1>6. RedApart(q, A)
  <2>1. SUFFICES ASSUME NEW m \in A, NEW z \in Sides, q.red[m], Red(q, q[z][m]) PROVE FALSE
    BY DEF RedApart
  <2>2. q[z][m] = s.node /\ q[z][m] # NULL
    BY <1>5, <2>1 DEF Fixing, RedBelow, Red
  <2>3. q.parent[s.node] = m /\ m # NULL
    <3>1. q.parent[q[z][m]] = m /\ m # NULL
      BY <1>5, <2>2, Children
    <3>2. QED
      BY <2>2, <3>1
  <2>4. QED
    BY <1>5, <2>1, <2>3 DEF Red
<1>7. Counted(q, A, bk, NULL, "left") /\ A # {}
  BY <1>5 DEF Fixing
<1>8. Coloured(Paint(q, q.root, FALSE), A)
  BY <1>5, <1>6, <1>7, RootPainted
<1>9. InsertFix(t, n) = Paint(q, q.root, FALSE)
  BY <1>1, <1>2, <1>4, InsertFixIs
<1>10. QED
  BY <1>8, <1>9

-------------------------------------------------------------------------------
(* The insertion: n is hung red below p. *)

(* A red node hung on an empty link leaves the counts alone. *)
LEMMA HungFixing ==
  ASSUME NEW t, NEW A, NEW sub, NEW ky, Shape(t, A, sub, ky), Clean(t, A), RBTreeAssumption, Coloured(t, A),
         NEW n \in Nodes \ A, NEW p \in A \cup {NULL}, NEW side \in Sides,
         p = NULL => A = {}, p # NULL => t[side][p] = NULL,
         NEW r, Hung(t, r, n, p, side)
  PROVE  \E bk : Fixing(r, A \cup {n}, bk, n)
<1>1. /\ A \in SUBSET Nodes /\ NULL \notin A /\ NULL \in Ref /\ A \in SUBSET Ref /\ n \in Ref /\ n # NULL
      /\ n \notin A
  BY DEF Shape, Typed, RBTreeAssumption, Ref
<1>2. PICK bh : Counted(t, A, bh, NULL, "left")
  BY DEF Coloured
<1>3. /\ bh \in [Ref -> Nat] /\ bh[NULL] = 0
      /\ \A m \in A : \A s \in Sides : bh[m] = bh[t[s][m]] + Weight(t, m) + Owing(m, s, NULL, "left")
  BY <1>2 DEF Counted
<1> DEFINE bk == [bh EXCEPT ![n] = 0]
           B == A \cup {n}
<1>4. bk \in [Ref -> Nat] /\ bk[n] = 0 /\ bk[NULL] = 0 /\ \A m \in Ref : m # n => bk[m] = bh[m]
  BY <1>1, <1>3
<1> HIDE DEF bk
<1>5. \A m \in A : \A s \in Sides : t[s][m] \in Ref /\ t[s][m] # n
  <2>1. \A m \in A : \A s \in Sides : t[s][m] \in Ref /\ (t[s][m] # NULL => t[s][m] \in A)
    BY Children
  <2>2. QED
    BY <1>1, <2>1
<1>6. /\ \A s \in Sides : r[s][n] = NULL
      /\ \A m \in A : \A s \in Sides : r[s][m] = IF m = p /\ s = side THEN n ELSE t[s][m]
      /\ r.red[n] = TRUE /\ \A m \in A : r.red[m] = t.red[m]
      /\ r.root = IF p = NULL THEN n ELSE t.root
  BY <1>1 DEF Hung, Clean
<1>7. Weight(r, n) = 0 /\ \A m \in A : Weight(r, m) = Weight(t, m)
  BY <1>6 DEF Weight
<1>8. ASSUME NEW m \in B, NEW s \in Sides
      PROVE  bk[m] = bk[r[s][m]] + Weight(r, m) + Owing(m, s, NULL, "left")
  <2>1. Owing(m, s, NULL, "left") = 0
    BY <1>1 DEF Owing
  <2>2. CASE m = n
    <3>1. r[s][m] = NULL /\ Weight(r, m) = 0
      BY <1>6, <1>7, <2>2
    <3>2. QED
      BY <1>4, <2>1, <2>2, <3>1
  <2>3. CASE m \in A
    <3>1. bk[m] = bh[m] /\ Weight(r, m) = Weight(t, m)
      BY <1>1, <1>4, <1>7, <2>3
    <3>2. bk[r[s][m]] = bh[t[s][m]]
      <4>1. CASE m = p /\ s = side
        BY <1>1, <1>3, <1>4, <1>6, <2>3, <4>1
      <4>2. CASE ~(m = p /\ s = side)
        <5>1. r[s][m] = t[s][m]
          BY <1>6, <2>3, <4>2
        <5>2. QED
          BY <1>4, <1>5, <2>3, <5>1
      <4>3. QED
        BY <4>1, <4>2
    <3>3. QED
      BY <1>3, <2>3, <3>1, <3>2
  <2>4. QED
    BY <2>2, <2>3
<1>9. Counted(r, B, bk, NULL, "left")
  BY <1>4, <1>8 DEF Counted
<1>10. RedBelow(r, B, n)
  <2>1. SUFFICES ASSUME NEW m \in B, NEW s \in Sides, r.red[m], Red(r, r[s][m]), r[s][m] # n PROVE FALSE
    BY DEF RedBelow
  <2>2. m \in A /\ r[s][m] = t[s][m] /\ t[s][m] # NULL
    BY <1>6, <2>1 DEF Red
  <2>3. t[s][m] \in A
    BY <2>2, Children
  <2>4. t.red[m] /\ Red(t, t[s][m])
    BY <1>6, <2>1, <2>2, <2>3 DEF Red
  <2>5. QED
    BY <2>2, <2>4 DEF Coloured, RedApart
<1>11. Red(r, r.root) => r.root = n
  <2>1. SUFFICES ASSUME p # NULL PROVE ~Red(r, r.root)
    BY <1>6
  <2>2. r.root = t.root /\ (t.root # NULL => t.root \in A)
    BY <1>6, <2>1 DEF Shape, Rooted
  <2>3. QED
    BY <1>6, <2>2 DEF Coloured, Red
<1>12. Fixing(r, B, bk, n)
  BY <1>6, <1>9, <1>10, <1>11 DEF Fixing
<1>13. QED
  BY <1>12

-------------------------------------------------------------------------------
(* The fixup after a deletion. *)

(* Of a red node and its red child one is x. *)
RedApartBut(t, A, x) ==
  \A m \in A : \A s \in Sides : t.red[m] /\ Red(t, t[s][m]) => m = x \/ t[s][m] = x

(* x, on this side of px, is short of a black node; and may be red where   *)
(* it should not. With px = NULL nothing is short.                         *)
Lacking(t, A, bh, x, px, side) ==
  /\ side \in Sides /\ Counted(t, A, bh, px, side)
  /\ px # NULL => px \in A /\ t[side][px] = x
  /\ RedApartBut(t, A, x)
  /\ Red(t, t.root) => t.root = x

(* The same with a black x: that is all that is wrong. *)
Deep(t, A, bh, x, px, side) ==
  /\ side \in Sides /\ Counted(t, A, bh, px, side)
  /\ px \in A /\ t[side][px] = x /\ ~Red(t, x) /\ RedApart(t, A) /\ ~Red(t, t.root)

(* w is the sibling of x, and is there. *)
Opposite(t, A, bh, x, px, side, w) ==
  /\ w = t[Other(side)][px] /\ w # NULL /\ w \in A /\ w # px /\ w # x /\ x # px
  /\ t.parent[w] = px /\ bh[w] = bh[x] + 1 /\ x \in Ref /\ bh[x] \in Nat
  /\ bh[px] = bh[x] + Weight(t, px) + 1 /\ t.parent[px] # w
  /\ t.parent[px] # px /\ px # NULL /\ (x # NULL => x \in A)

(* Where a black node is missing the sibling is there. *)
LEMMA SiblingThere ==
  ASSUME NEW t, NEW A, NEW sub, NEW ky, Shape(t, A, sub, ky), RBTreeAssumption,
         NEW bh, NEW x, NEW px, NEW side, Deep(t, A, bh, x, px, side)
  PROVE  Opposite(t, A, bh, x, px, side, t[Other(side)][px])
<1>1. /\ side \in Sides /\ px \in A /\ t[side][px] = x /\ A \in SUBSET Nodes /\ NULL \notin A
      /\ Other(side) \in Sides /\ Other(side) # side /\ Other(Other(side)) = side
  BY OtherSide DEF Deep, Shape, Typed, RBTreeAssumption
<1>2. /\ bh \in [Ref -> Nat] /\ bh[NULL] = 0
      /\ \A n \in A : \A s \in Sides : bh[n] = bh[t[s][n]] + Weight(t, n) + Owing(n, s, px, side)
  BY DEF Counted, Deep
<1>3. PICK w : w = t[Other(side)][px]
  OBVIOUS
<1>4. x \in Ref /\ x # px /\ w \in Ref /\ (x # NULL => x \in A)
  <2>1. \A s \in Sides : t[s][px] \in Ref /\ t[s][px] # px /\ (t[s][px] # NULL => t[s][px] \in A)
    <3>1. \A s \in Sides : t[s][px] \in Ref /\ (t[s][px] # NULL => t[s][px] # px /\ t[s][px] \in A) /\ px # NULL
      BY <1>1, Children
    <3>2. QED
      BY <3>1
  <2>2. QED
    BY <1>1, <1>3, <2>1
<1>5. bh[x] \in Nat /\ bh[w] \in Nat /\ Weight(t, px) \in Nat
  BY <1>2, <1>4 DEF Weight
<1>6. bh[px] = bh[x] + Weight(t, px) + 1 /\ bh[px] = bh[w] + Weight(t, px) + 0
  <2>1. Owing(px, side, px, side) = 1 /\ Owing(px, Other(side), px, side) = 0
    BY <1>1 DEF Owing
  <2>2. QED
    BY <1>1, <1>2, <1>3, <2>1
<1>7. bh[w] = bh[x] + 1
  BY <1>5, <1>6
<1>8. w # NULL
  BY <1>2, <1>5, <1>7
<1>9. w \in A /\ t.parent[w] = px /\ w # px /\ w # x /\ px \notin sub[w]
  <2>1. t[Other(side)][px] # NULL
    BY <1>3, <1>8
  <2>2. /\ t[Other(side)][px] \in A /\ t.parent[t[Other(side)][px]] = px /\ t[Other(side)][px] # px
        /\ t[Other(Other(side))][px] # t[Other(side)][px] /\ px \notin sub[t[Other(side)][px]]
    BY <1>1, <2>1, Children
  <2>3. QED
    BY <1>1, <1>3, <2>2
<1>10. t.parent[px] # w
  <2>1. ASSUME t.parent[px] = w PROVE FALSE
    <3>1. t.parent[px] # NULL
      BY <1>8, <2>1
    <3>2. PICK s \in Sides : t[s][w] = px
      BY <1>1, <2>1, <3>1, OneSide
    <3>3. sub[w] = {w} \cup sub[t[s][w]] \cup sub[t[Other(s)][w]] /\ (t[s][w] # NULL => t[s][w] \in sub[t[s][w]])
      BY <1>9, Children
    <3>4. QED
      BY <1>1, <1>9, <3>2, <3>3
  <2>2. QED
    BY <2>1
<1>11. t.parent[px] # px /\ px # NULL
  BY <1>1, OneSide
<1>12. QED
  BY <1>3, <1>4, <1>5, <1>6, <1>7, <1>8, <1>9, <1>10, <1>11 DEF Opposite

(* What one turn makes of the tree around x: another sibling. *)
Reseated(r, A, ky, x, px, side, w, below) ==
  \E ub, bk : /\ Shape(r, A, ub, ky) /\ Deep(r, A, bk, x, px, side) /\ ub[x] = below
              /\ r[Other(side)][px] = w /\ ~Red(r, w)

(* A red sibling is rotated above px: x gets a black one. *)
LEMMA RedSiblingTurned ==
  ASSUME NEW t, NEW A, NEW sub, NEW ky, Shape(t, A, sub, ky), RBTreeAssumption,
         NEW bh, NEW x, NEW px, NEW side, Deep(t, A, bh, x, px, side),
         NEW w, w = t[Other(side)][px], Red(t, w),
         NEW q, Swapped(t, q, px, w), NEW r, Rotated(q, r, px, w, Other(side))
  PROVE  Reseated(r, A, ky, x, px, side, t[side][w], sub[x])
<1>1. /\ side \in Sides /\ px \in A /\ t[side][px] = x /\ A \in SUBSET Nodes /\ NULL \notin A /\ t \in Tree
      /\ Other(side) \in Sides /\ Other(side) # side /\ Other(Other(side)) = side
      /\ Counted(t, A, bh, px, side) /\ RedApart(t, A) /\ ~Red(t, t.root) /\ ~Red(t, x)
  BY OtherSide DEF Deep, Shape, Typed, RBTreeAssumption
<1>2. w # NULL /\ w \in A /\ w # px /\ w # x /\ x # px /\ t.parent[w] = px
  <2>1. Opposite(t, A, bh, x, px, side, w)
    BY SiblingThere
  <2>2. QED
    BY <2>1 DEF Opposite
<1>3. t.red[w] = TRUE /\ t.red[px] = FALSE
  <2>1. t.red[w] \in BOOLEAN /\ t.red[px] \in BOOLEAN
    BY <1>1, <1>2, SideFields
  <2>2. t.red[w] /\ ~t.red[px]
    BY <1>1, <1>2 DEF Red, RedApart
  <2>3. QED
    BY <2>1, <2>2
<1>4. Counted(r, A, SwapLabels(bh, px, w), px, side)
  <2>1. PICK up : up = Other(side)
    OBVIOUS
  <2>2. up \in Sides /\ w = t[up][px] /\ Rotated(q, r, px, w, up) /\ px # w /\ (px = px => side # up)
    BY <1>1, <1>2, <2>1
  <2>3. QED
    BY <1>1, <1>2, <1>3, <2>2, RotatedCounted
<1>5. Leans(t, A, px, Other(side), w, t[Other(side)][w])
  <2>1. RedBelow(t, A, t[Other(side)][w])
    BY <1>1 DEF RedApart, RedBelow
  <2>2. QED
    BY <1>1, <1>2, <1>3, <2>1 DEF Leans
<1>6. RedApart(r, A) /\ ~Red(r, r.root)
  <2>1. PICK low : low = t[Other(side)][w]
    OBVIOUS
  <2>2. Leans(t, A, px, Other(side), w, low)
    BY <1>5, <2>1
  <2>3. QED
    BY <1>1, <2>2, LeansApart
<1>7. Shape(q, A, sub, ky) /\ q[Other(side)][px] = w /\ q.parent = t.parent /\ \A s \in Sides : q[s] = t[s]
  <2>1. SameLinks(t, q)
    BY DEF Swapped
  <2>2. QED
    BY <1>1, <2>1, SameLinksShape DEF SameLinks
<1>8. Turned(q, r, A, px, w, Other(side), side)
  <2>1. Turned(q, r, A, px, w, Other(side), Other(Other(side)))
    BY <1>1, <1>2, <1>7, RotatedLinks
  <2>2. QED
    BY <1>1, <2>1
<1>9. PICK ub : ub = SubRotated(q, sub, px, w, Other(side))
  OBVIOUS
<1>10. Shape(r, A, ub, ky)
  BY <1>1, <1>2, <1>7, <1>9, RotatedShape
<1>11. ub[x] = sub[x]
  <2>1. x \in Ref /\ sub \in [Ref -> SUBSET A]
    BY <1>1, Children DEF Shape, Typed
  <2>2. QED
    BY <1>2, <1>9, <2>1 DEF SubRotated
<1>12. /\ r[Other(side)][px] = t[side][w] /\ r[side][px] = x
       /\ t[side][w] # px /\ t[side][w] # w
  BY <1>1, <1>2, <1>7, <1>8 DEF Turned
<1>13. \A m \in A : m # px /\ m # w => r.red[m] = t.red[m]
  BY <1>1 DEF Swapped, Rotated
<1>14. ~Red(r, x)
  <2>1. x # NULL => x \in A
    BY <1>1, Children
  <2>2. QED
    BY <1>1, <1>2, <1>13, <2>1 DEF Red
<1>15. ~Red(r, t[side][w])
  <2>1. t[side][w] # NULL => t[side][w] \in A
    BY <1>1, <1>2, Children
  <2>2. ~Red(t, t[side][w])
    BY <1>1, <1>2, <1>3 DEF RedApart
  <2>3. QED
    BY <1>12, <1>13, <2>1, <2>2 DEF Red
<1>16. Deep(r, A, SwapLabels(bh, px, w), x, px, side)
  BY <1>1, <1>4, <1>6, <1>12, <1>14 DEF Deep
<1>17. QED
  BY <1>10, <1>11, <1>12, <1>15, <1>16 DEF Reseated

(* A black sibling whose only red child is the near one is rotated below   *)
(* it: the new sibling has a red child on the far side.                    *)
LEMMA NearTurned ==
  ASSUME NEW t, NEW A, NEW sub, NEW ky, Shape(t, A, sub, ky), RBTreeAssumption,
         NEW bh, NEW x, NEW px, NEW side, Deep(t, A, bh, x, px, side),
         NEW w, w = t[Other(side)][px], ~Red(t, w), ~Red(t, t[Other(side)][w]),
         NEW y, y = t[side][w], Red(t, y),
         NEW q, Swapped(t, q, w, y), NEW r, Rotated(q, r, w, y, side)
  PROVE  Reseated(r, A, ky, x, px, side, y, sub[x]) /\ r[Other(side)][y] = w /\ Red(r, w)
<1>1. /\ side \in Sides /\ px \in A /\ t[side][px] = x /\ A \in SUBSET Nodes /\ NULL \notin A /\ t \in Tree
      /\ Other(side) \in Sides /\ Other(side) # side /\ Other(Other(side)) = side
      /\ Counted(t, A, bh, px, side) /\ RedApart(t, A) /\ ~Red(t, t.root) /\ ~Red(t, x)
  BY OtherSide DEF Deep, Shape, Typed, RBTreeAssumption
<1>2. /\ w # NULL /\ w \in A /\ w # px /\ w # x /\ x # px /\ t.parent[w] = px
      /\ t.parent[px] # w /\ (x # NULL => x \in A)
  <2>1. Opposite(t, A, bh, x, px, side, w)
    BY SiblingThere
  <2>2. QED
    BY <2>1 DEF Opposite
<1>3. y # NULL /\ y \in A /\ t.parent[y] = w /\ y # w /\ y # px /\ y # x
  <2>1. y # NULL
    BY DEF Red
  <2>2. y \in A /\ t.parent[y] = w /\ y # w
    BY <1>1, <1>2, <2>1, Children
  <2>3. y # x
    <3>1. x # NULL => t.parent[x] = px
      BY <1>1, Children
    <3>2. QED
      BY <1>2, <2>1, <2>2, <3>1
  <2>4. QED
    BY <1>2, <2>1, <2>2, <2>3
<1>4. t.red[y] = TRUE /\ t.red[w] = FALSE
  <2>1. t.red[w] \in BOOLEAN /\ t.red[y] \in BOOLEAN
    BY <1>1, <1>2, <1>3, SideFields
  <2>2. QED
    BY <1>2, <2>1 DEF Red
<1>5. Counted(r, A, SwapLabels(bh, w, y), px, side)
  <2>1. px # y /\ (px = w => side # side)
    BY <1>2, <1>3
  <2>2. QED
    BY <1>1, <1>2, <1>3, <1>4, <2>1, RotatedCounted
<1>6. RedApart(r, A) /\ ~Red(r, r.root) /\ ~Red(r, y)
  <2>1. PICK low : low = t[side][y]
    OBVIOUS
  <2>2. RedBelow(t, A, low)
    BY <1>1 DEF RedApart, RedBelow
  <2>3. Leans(t, A, w, side, y, low)
    BY <1>1, <1>3, <1>4, <2>1, <2>2 DEF Leans
  <2>4. QED
    BY <1>1, <1>2, <2>3, LeansApart
<1>7. Shape(q, A, sub, ky) /\ q[side][w] = y /\ q.parent = t.parent /\ \A s \in Sides : q[s] = t[s]
  <2>1. SameLinks(t, q)
    BY DEF Swapped
  <2>2. QED
    BY <1>1, <2>1, SameLinksShape DEF SameLinks
<1>8. Turned(q, r, A, w, y, side, Other(side))
  BY <1>1, <1>2, <1>3, <1>7, RotatedLinks
<1>9. PICK ub : ub = SubRotated(q, sub, w, y, side)
  OBVIOUS
<1>10. Shape(r, A, ub, ky)
  <2>1. q[side][w] # NULL /\ Rotated(q, r, w, q[side][w], side) /\ ub = SubRotated(q, sub, w, q[side][w], side)
    BY <1>3, <1>7, <1>9
  <2>2. QED
    BY <1>1, <1>2, <1>7, <2>1, RotatedShape
<1>11. ub[x] = sub[x]
  <2>1. x \in Ref /\ sub \in [Ref -> SUBSET A]
    BY <1>1, Children DEF Shape, Typed
  <2>2. QED
    BY <1>2, <1>3, <1>9, <2>1, Zenon DEF SubRotated
<1>12. r[Other(side)][y] = w /\ r[Other(side)][px] = y /\ r[side][px] = x
  <2>1. px # w /\ px # y /\ t[side][px] # w /\ t[Other(side)][px] = w
    BY <1>1, <1>2, <1>3
  <2>2. \A s \in Sides : r[s][px] = IF t[s][px] = w THEN y ELSE t[s][px]
    BY <1>1, <1>7, <1>8, <2>1, Zenon DEF Turned
  <2>3. QED
    BY <1>1, <1>8, <2>1, <2>2, Zenon DEF Turned
<1>13. r.red[w] = TRUE /\ \A m \in A : m # w /\ m # y => r.red[m] = t.red[m]
  <2>1. r.red = q.red
    BY DEF Rotated
  <2>2. q.red[w] = TRUE /\ \A m \in Nodes : m # w /\ m # y => q.red[m] = t.red[m]
    BY DEF Swapped
  <2>3. QED
    BY <1>1, <2>1, <2>2
<1>14. ~Red(r, x)
  BY <1>1, <1>2, <1>3, <1>13 DEF Red
<1>15. Deep(r, A, SwapLabels(bh, w, y), x, px, side)
  BY <1>1, <1>5, <1>6, <1>12, <1>14 DEF Deep
<1>16. Reseated(r, A, ky, x, px, side, y, sub[x])
  BY <1>6, <1>10, <1>11, <1>12, <1>15 DEF Reseated
<1>17. QED
  BY <1>2, <1>12, <1>13, <1>16 DEF Red

(* A black sibling with black children is painted red: now it is px that   *)
(* is short of a black node.                                               *)
LEMMA ShortAbove ==
  ASSUME NEW t, NEW A, NEW sub, NEW ky, Shape(t, A, sub, ky), RBTreeAssumption,
         NEW bh, NEW x, NEW px, NEW side, Deep(t, A, bh, x, px, side),
         NEW w, w = t[Other(side)][px], ~Red(t, w), \A s \in Sides : ~Red(t, t[s][w]),
         NEW r, Painted(t, r, w, TRUE)
  PROVE  \E bk, z : Lacking(r, A, bk, px, t.parent[px], z)
<1>1. /\ side \in Sides /\ px \in A /\ t[side][px] = x /\ A \in SUBSET Nodes /\ NULL \notin A /\ t \in Tree
      /\ \A s \in Sides : s = side \/ s = Other(side)
      /\ Other(side) \in Sides /\ Other(side) # side /\ Other(Other(side)) = side
      /\ Counted(t, A, bh, px, side) /\ RedApart(t, A) /\ ~Red(t, t.root) /\ ~Red(t, x)
      /\ NULL \in Ref /\ A \in SUBSET Ref
  BY OtherSide DEF Deep, Shape, Typed, RBTreeAssumption, Sides, Ref
<1>2. /\ w # NULL /\ w \in A /\ w # px /\ w # x /\ x # px /\ t.parent[w] = px /\ bh[w] = bh[x] + 1
      /\ bh[px] = bh[x] + Weight(t, px) + 1 /\ x \in Ref /\ bh[x] \in Nat
      /\ t.parent[px] # w /\ t.parent[px] # px
  <2>1. Opposite(t, A, bh, x, px, side, w)
    BY SiblingThere
  <2>2. QED
    BY <2>1 DEF Opposite
<1>3. \A n \in A : \A s \in Sides : t[s][n] \in Ref /\ (t[s][n] # NULL => t[s][n] \in A /\ t.parent[t[s][n]] = n /\ t[s][n] # n)
  BY Children
<1>4. /\ bh \in [Ref -> Nat] /\ bh[NULL] = 0
      /\ \A n \in A : \A s \in Sides : bh[n] = bh[t[s][n]] + Weight(t, n) + Owing(n, s, px, side)
  BY <1>1 DEF Counted
<1>5. PICK ppx : ppx = t.parent[px]
  OBVIOUS
<1>6. \E z \in Sides : ppx # NULL => ppx \in A /\ t[z][ppx] = px
  <2>1. CASE ppx = NULL
    BY <1>1, <2>1
  <2>2. CASE ppx # NULL
    BY <1>1, <1>5, <2>2, OneSide
  <2>3. QED
    BY <2>1, <2>2
<1>7. PICK z \in Sides : ppx # NULL => ppx \in A /\ t[z][ppx] = px
  BY <1>6
<1>8. /\ t.red[w] = FALSE /\ r.red[w] = TRUE /\ r.root = t.root
      /\ (\A s \in Sides : r[s] = t[s]) /\ \A m \in A : m # w => r.red[m] = t.red[m]
  <2>1. t.red[w] = FALSE
    BY <1>1, <1>2, SideFields DEF Red
  <2>2. QED
    BY <1>1, <2>1 DEF Painted, SameLinks
<1>9. /\ Weight(t, w) = 1 /\ Weight(r, w) = 0 /\ \A m \in A : m # w => Weight(r, m) = Weight(t, m)
      /\ \A m \in A : Weight(t, m) \in Nat
  BY <1>8 DEF Weight
<1> DEFINE bk == [bh EXCEPT ![w] = bh[x], ![px] = bh[px] - 1]
<1>10. /\ bk \in [Ref -> Nat] /\ bk[w] = bh[x] /\ bk[px] = bh[x] + Weight(t, px)
       /\ \A m \in Ref : m # w /\ m # px => bk[m] = bh[m]
  <2>1. bh[px] - 1 = bh[x] + Weight(t, px) /\ bh[px] - 1 \in Nat
    <3>1. Weight(t, px) \in Nat
      BY <1>1, <1>9
    <3>2. QED
      BY <1>2, <3>1
  <2>2. QED
    BY <1>1, <1>2, <1>4, <2>1
<1> HIDE DEF bk
<1>11. bk[NULL] = 0
  BY <1>1, <1>2, <1>4, <1>10
<1>12. ASSUME NEW n \in A, NEW s \in Sides
       PROVE  bk[n] = bk[r[s][n]] + Weight(r, n) + Owing(n, s, ppx, z)
  <2>1. PICK c : c = t[s][n]
    OBVIOUS
  <2>2. /\ r[s][n] = c /\ c \in Ref /\ (c # NULL => c \in A /\ t.parent[c] = n /\ c # n) /\ n \in Ref
        /\ bh[n] \in Nat /\ bh[c] \in Nat /\ Weight(t, n) \in Nat
        /\ bh[n] = bh[c] + Weight(t, n) + Owing(n, s, px, side)
    BY <1>1, <1>3, <1>4, <1>8, <1>9, <2>1
  <2>3. CASE n = w
    <3>1. c # w /\ c # px
      <4>1. c = NULL => c # w /\ c # px
        BY <1>1, <1>2
      <4>2. c # NULL => c # w /\ c # px
        BY <1>2, <2>2, <2>3
      <4>3. QED
        BY <4>1, <4>2
    <3>2. Owing(n, s, px, side) = 0 /\ Owing(n, s, ppx, z) = 0
      BY <1>2, <1>5, <2>3 DEF Owing
    <3>3. bk[c] = bh[c] /\ bk[n] = bh[x] /\ bh[n] = bh[x] + 1 /\ Weight(t, n) = 1 /\ Weight(r, n) = 0
      BY <1>2, <1>9, <1>10, <2>2, <2>3, <3>1
    <3>4. QED
      BY <1>2, <2>2, <3>2, <3>3
  <2>4. CASE n = px
    <3>1. Owing(n, s, ppx, z) = 0 /\ Weight(r, n) = Weight(t, n) /\ bk[n] = bh[x] + Weight(t, n)
      BY <1>1, <1>2, <1>5, <1>9, <1>10, <2>4 DEF Owing
    <3>2. bk[c] = bh[x]
      <4>1. CASE s = side
        BY <1>1, <1>2, <1>10, <2>1, <2>4, <4>1
      <4>2. CASE s = Other(side)
        BY <1>10, <2>1, <2>4, <4>2
      <4>3. QED
        BY <1>1, <4>1, <4>2
    <3>3. QED
      BY <1>2, <2>2, <3>1, <3>2
  <2>5. CASE n # w /\ n # px /\ c = px
    <3>1. n = ppx /\ ppx # NULL
      BY <1>1, <1>5, <2>2, <2>5
    <3>2. s = z
      <4>1. t[z][n] = px /\ px # NULL
        BY <1>1, <1>7, <3>1
      <4>2. t[Other(z)][n] # t[z][n]
        BY <4>1, Children
      <4>3. QED
        BY <2>1, <2>5, <4>1, <4>2, OtherSide
    <3>3. Owing(n, s, ppx, z) = 1 /\ Owing(n, s, px, side) = 0 /\ Weight(r, n) = Weight(t, n) /\ bk[n] = bh[n]
      BY <1>9, <1>10, <2>2, <2>5, <3>1, <3>2 DEF Owing
    <3>4. bk[c] = bh[x] + Weight(t, px) /\ bh[c] = bh[x] + Weight(t, px) + 1 /\ Weight(t, px) \in Nat
      BY <1>1, <1>2, <1>9, <1>10, <2>5
    <3>5. QED
      BY <1>2, <2>2, <3>3, <3>4
  <2>6. CASE n # w /\ n # px /\ c # px
    <3>1. c # w
      BY <1>2, <2>2, <2>6
    <3>2. Owing(n, s, ppx, z) = 0 /\ Owing(n, s, px, side) = 0
      <4>1. ~(n = ppx /\ s = z)
        BY <1>1, <1>7, <2>1, <2>6
      <4>2. QED
        BY <2>6, <4>1 DEF Owing
    <3>3. bk[n] = bh[n] /\ bk[c] = bh[c] /\ Weight(r, n) = Weight(t, n)
      BY <1>9, <1>10, <2>2, <2>6, <3>1
    <3>4. QED
      BY <2>2, <3>2, <3>3
  <2>7. QED
    BY <2>3, <2>4, <2>5, <2>6
<1>13. Counted(r, A, bk, ppx, z)
  BY <1>10, <1>11, <1>12 DEF Counted
<1>14. RedApartBut(r, A, px)
  <2>1. SUFFICES ASSUME NEW m \in A, NEW s \in Sides, r.red[m], Red(r, r[s][m]), m # px PROVE FALSE
    BY DEF RedApartBut
  <2>2. PICK c : c = t[s][m]
    OBVIOUS
  <2>3. c = r[s][m] /\ c # NULL /\ r.red[c] /\ c \in A /\ t.parent[c] = m
    BY <1>3, <1>8, <2>1, <2>2 DEF Red
  <2>4. c # w
    BY <1>2, <2>1, <2>3
  <2>5. t.red[c]
    BY <1>8, <2>3, <2>4
  <2>6. m # w
    BY <2>2, <2>3, <2>5 DEF Red
  <2>7. t.red[m]
    BY <1>8, <2>1, <2>6
  <2>8. QED
    BY <1>1, <2>2, <2>3, <2>5, <2>7 DEF RedApart, Red
<1>15. ~Red(r, r.root)
  <2>1. t.root # NULL => t.root \in A /\ t.parent[t.root] = NULL
    BY DEF Shape, Rooted
  <2>2. t.root # w
    BY <1>1, <1>2, <2>1
  <2>3. QED
    BY <1>1, <1>8, <2>1, <2>2 DEF Red
<1>16. ppx # NULL => ppx \in A /\ r[z][ppx] = px
  BY <1>7, <1>8
<1>17. Lacking(r, A, bk, px, ppx, z)
  BY <1>13, <1>14, <1>15, <1>16 DEF Lacking
<1>18. QED
  BY <1>5, <1>17

(* The colours before the last rotation: w gets that of px, px and far are *)
(* black.                                                                  *)
Raised(t, q, px, w, far) ==
  /\ SameLinks(t, q) /\ q.red[w] = t.red[px] /\ q.red[px] = FALSE /\ q.red[far] = FALSE
  /\ \A m \in Nodes : m # px /\ m # w /\ m # far => q.red[m] = t.red[m]

(* A black sibling with a red far child is rotated above px: nothing is    *)
(* short any more.                                                         *)
LEMMA RaisedColoured ==
  ASSUME NEW t, NEW A, NEW sub, NEW ky, Shape(t, A, sub, ky), RBTreeAssumption,
         NEW bh, NEW x, NEW px, NEW side, Deep(t, A, bh, x, px, side),
         NEW w, w = t[Other(side)][px], ~Red(t, w), NEW far, far = t[Other(side)][w], Red(t, far),
         NEW q, Raised(t, q, px, w, far), NEW r, Rotated(q, r, px, w, Other(side))
  PROVE  Coloured(r, A)
<1>1. /\ side \in Sides /\ px \in A /\ t[side][px] = x /\ A \in SUBSET Nodes /\ NULL \notin A /\ t \in Tree
      /\ \A s \in Sides : s = side \/ s = Other(side)
      /\ Other(side) \in Sides /\ Other(side) # side /\ Other(Other(side)) = side
      /\ Counted(t, A, bh, px, side) /\ RedApart(t, A) /\ ~Red(t, t.root) /\ ~Red(t, x)
      /\ NULL \in Ref /\ A \in SUBSET Ref
  BY OtherSide DEF Deep, Shape, Typed, RBTreeAssumption, Sides, Ref
<1>2. /\ w # NULL /\ w \in A /\ w # px /\ w # x /\ x # px /\ t.parent[w] = px /\ bh[w] = bh[x] + 1
      /\ bh[px] = bh[x] + Weight(t, px) + 1 /\ x \in Ref /\ bh[x] \in Nat
      /\ t.parent[px] # w /\ t.parent[px] # px
  <2>1. Opposite(t, A, bh, x, px, side, w)
    BY SiblingThere
  <2>2. QED
    BY <2>1 DEF Opposite
<1>3. \A n \in A : \A s \in Sides : t[s][n] \in Ref /\ (t[s][n] # NULL => t[s][n] \in A /\ t.parent[t[s][n]] = n /\ t[s][n] # n)
  BY Children
<1>4. /\ bh \in [Ref -> Nat] /\ bh[NULL] = 0
      /\ \A n \in A : \A s \in Sides : bh[n] = bh[t[s][n]] + Weight(t, n) + Owing(n, s, px, side)
  BY <1>1 DEF Counted
<1>5. PICK near : near = t[side][w]
  OBVIOUS
<1>6. /\ far # NULL /\ far \in A /\ far # w /\ far # px /\ far # x /\ t.parent[far] = w
      /\ near # w /\ near # px /\ near # far /\ near \in Ref
      /\ (near # NULL => near \in A /\ t.parent[near] = w)
  <2>1. far # NULL
    BY DEF Red
  <2>2. /\ far \in A /\ far # w /\ t.parent[far] = w /\ t[Other(Other(side))][w] # far
    BY <1>1, <1>2, <2>1, Children
  <2>3. near \in Ref /\ (near # NULL => near \in A /\ t.parent[near] = w /\ near # w) /\ near # far
    BY <1>1, <1>2, <1>3, <1>5, <2>2
  <2>4. x # NULL => t.parent[x] = px
    BY <1>1, <1>3
  <2>5. QED
    BY <1>1, <1>2, <2>1, <2>2, <2>3, <2>4
<1>7. /\ t.red[w] = FALSE /\ t.red[far] = TRUE
  BY <1>1, <1>2, <1>6, SideFields DEF Red
<1>8. /\ r.red[w] = t.red[px] /\ r.red[px] = FALSE /\ r.red[far] = FALSE
      /\ \A m \in A : m # px /\ m # w /\ m # far => r.red[m] = t.red[m]
  BY <1>1 DEF Raised, Rotated
<1>9. q.parent = t.parent /\ q.root = t.root /\ (\A s \in Sides : q[s] = t[s]) /\ Shape(q, A, sub, ky)
  <2>1. SameLinks(t, q)
    BY DEF Raised
  <2>2. QED
    BY <2>1, SameLinksShape DEF SameLinks
<1>10. Turned(q, r, A, px, w, Other(side), side)
  <2>1. PICK up : up = Other(side)
    OBVIOUS
  <2>2. w = q[up][px] /\ up \in Sides /\ Rotated(q, r, px, w, up)
    BY <1>1, <1>9, <2>1
  <2>3. Turned(q, r, A, px, w, up, Other(up))
    BY <1>1, <1>2, <1>9, <2>2, RotatedLinks
  <2>4. QED
    BY <1>1, <2>1, <2>3
<1>11. /\ r[Other(side)][px] = near /\ r[side][px] = x /\ r[side][w] = px /\ r[Other(side)][w] = far
       /\ \A m \in A : m # px /\ m # w => \A s \in Sides :
            t[s][m] # w /\ r[s][m] # px /\ r[s][m] = IF t[s][m] = px THEN w ELSE t[s][m]
  BY <1>1, <1>2, <1>5, <1>9, <1>10 DEF Turned
<1>12. /\ Weight(t, w) = 1 /\ Weight(t, far) = 0 /\ Weight(r, px) = 1 /\ Weight(r, far) = 1
       /\ Weight(r, w) = Weight(t, px) /\ (\A m \in A : Weight(t, m) \in Nat)
       /\ \A m \in A : m # px /\ m # w /\ m # far => Weight(r, m) = Weight(t, m)
  BY <1>7, <1>8 DEF Weight
<1>13. bh[far] = bh[x] /\ bh[near] = bh[x]
  <2>1. Owing(w, side, px, side) = 0 /\ Owing(w, Other(side), px, side) = 0
    BY <1>2 DEF Owing
  <2>2. bh[w] = bh[far] + 1 + 0 /\ bh[w] = bh[near] + 1 + 0 /\ bh[far] \in Nat /\ bh[near] \in Nat
    BY <1>1, <1>2, <1>3, <1>4, <1>5, <1>12, <2>1
  <2>3. QED
    BY <1>2, <2>2
<1> DEFINE bk == [bh EXCEPT ![px] = bh[x] + 1, ![w] = bh[px], ![far] = bh[x] + 1]
<1>14. /\ bk \in [Ref -> Nat] /\ bk[px] = bh[x] + 1 /\ bk[w] = bh[px] /\ bk[far] = bh[x] + 1
       /\ \A m \in Ref : m # w /\ m # px /\ m # far => bk[m] = bh[m]
  <2>1. bh[px] \in Nat /\ bh[x] + 1 \in Nat
    BY <1>1, <1>2, <1>4
  <2>2. QED
    BY <1>1, <1>2, <1>4, <1>6, <2>1
<1> HIDE DEF bk
<1>15. bk[NULL] = 0
  BY <1>1, <1>2, <1>4, <1>6, <1>14
<1>16. ASSUME NEW n \in A, NEW s \in Sides
       PROVE  bk[n] = bk[r[s][n]] + Weight(r, n) + Owing(n, s, NULL, "left")
  <2>1. Owing(n, s, NULL, "left") = 0
    BY <1>1 DEF Owing
  <2>2. PICK c : c = r[s][n]
    OBVIOUS
  <2>3. CASE n = px
    <3>1. c = x \/ c = near
      BY <1>1, <1>11, <2>2, <2>3
    <3>2. bk[c] = bh[x]
      BY <1>1, <1>2, <1>6, <1>13, <1>14, <3>1
    <3>3. QED
      BY <1>2, <1>12, <1>14, <2>1, <2>2, <2>3, <3>2
  <2>4. CASE n = w
    <3>1. c = px \/ c = far
      BY <1>1, <1>11, <2>2, <2>4
    <3>2. bk[c] = bh[x] + 1 /\ bk[n] = bh[x] + Weight(t, px) + 1 /\ Weight(r, n) = Weight(t, px) /\ Weight(t, px) \in Nat
      BY <1>1, <1>2, <1>12, <1>14, <2>4, <3>1
    <3>3. QED
      BY <1>2, <2>1, <2>2, <3>2
  <2>5. CASE n = far
    <3>1. c = t[s][far] /\ c # w /\ c # px /\ c # far /\ c \in Ref
      <4>1. /\ t[s][far] \in Ref /\ t[s][far] # far
            /\ (t[s][far] # NULL => t[s][far] \in A /\ t.parent[t[s][far]] = far)
        BY <1>1, <1>3, <1>6
      <4>2. t[s][far] # w
        BY <1>2, <1>6, <4>1
      <4>3. t[s][far] # px
        <5>1. ASSUME t[s][far] = px PROVE FALSE
          <6>1. sub[far] = {far} \cup sub[t[s][far]] \cup sub[t[Other(s)][far]] /\ px \in sub[px]
            BY <1>1, <1>6, Children, SelfBelow
          <6>2. px \notin sub[t[Other(side)][px]] /\ sub[w] = {w} \cup sub[far] \cup sub[t[Other(Other(side))][w]]
            BY <1>1, <1>2, Children
          <6>3. QED
            BY <1>1, <5>1, <6>1, <6>2, Zenon
        <5>2. QED
          BY <5>1
      <4>4. QED
        BY <1>6, <1>11, <2>2, <2>5, <4>1, <4>2, <4>3
    <3>2. Owing(far, s, px, side) = 0
      BY <1>6 DEF Owing
    <3>3. bh[far] = bh[c] + 0 + 0 /\ bh[c] \in Nat
      BY <1>4, <1>6, <1>12, <3>1, <3>2
    <3>4. bk[c] = bh[c] /\ bk[n] = bh[x] + 1 /\ Weight(r, n) = 1
      BY <1>12, <1>14, <2>5, <3>1
    <3>5. bk[c] = bh[x] /\ bh[x] \in Nat
      BY <1>2, <1>13, <3>3, <3>4
    <3>6. QED
      BY <2>1, <2>2, <3>4, <3>5
  <2>6. CASE n # px /\ n # w /\ n # far
    <3>1. bk[n] = bh[n] /\ Weight(r, n) = Weight(t, n) /\ Owing(n, s, px, side) = 0
      BY <1>1, <1>12, <1>14, <2>6 DEF Owing
    <3>2. bk[c] = bh[t[s][n]]
      <4>1. CASE t[s][n] = px
        BY <1>11, <1>14, <2>2, <2>6, <4>1
      <4>2. CASE t[s][n] # px
        <5>1. c = t[s][n] /\ c # w /\ c \in Ref /\ c # far
          BY <1>3, <1>6, <1>11, <2>2, <2>6, <4>2
        <5>2. QED
          BY <1>14, <4>2, <5>1
      <4>3. QED
        BY <4>1, <4>2
    <3>3. QED
      BY <1>4, <2>1, <2>2, <3>1, <3>2
  <2>7. QED
    BY <2>3, <2>4, <2>5, <2>6
<1>17. Counted(r, A, bk, NULL, "left")
  BY <1>14, <1>15, <1>16 DEF Counted
<1>18. RedApart(r, A)
  <2>1. SUFFICES ASSUME NEW m \in A, NEW s \in Sides, r.red[m], Red(r, r[s][m]) PROVE FALSE
    BY DEF RedApart
  <2>2. PICK c : c = r[s][m]
    OBVIOUS
  <2>3. c # NULL /\ r.red[c] /\ c # px /\ c # far /\ m # px /\ m # far
    BY <1>8, <2>1, <2>2 DEF Red
  <2>4. m # w
    BY <1>1, <1>11, <2>2, <2>3
  <2>5. t.red[m]
    BY <1>8, <2>1, <2>3, <2>4
  <2>6. CASE t[s][m] = px
    <3>1. c = w /\ r.red[w] = t.red[px] /\ px # NULL
      BY <1>1, <1>8, <1>11, <2>2, <2>3, <2>4, <2>6
    <3>2. QED
      BY <1>1, <2>3, <2>5, <2>6, <3>1 DEF RedApart, Red
  <2>7. CASE t[s][m] # px
    <3>1. c = t[s][m] /\ c # w
      BY <1>11, <2>2, <2>3, <2>4, <2>7
    <3>2. t.red[c]
      BY <1>3, <1>8, <2>3, <3>1
    <3>3. QED
      BY <1>1, <2>3, <2>5, <3>1, <3>2 DEF RedApart, Red
  <2>8. QED
    BY <2>6, <2>7
<1>19. ~Red(r, r.root)
  <2>1. r.root = IF t.parent[px] = NULL THEN w ELSE t.root
    BY <1>9 DEF Rotated
  <2>2. CASE t.parent[px] = NULL
    <3>1. px = t.root
      BY <1>1, <2>2 DEF Shape, LinksUp
    <3>2. QED
      BY <1>1, <1>8, <2>1, <2>2, <3>1 DEF Red
  <2>3. CASE t.parent[px] # NULL
    <3>1. r.root = t.root /\ (t.root # NULL => t.root \in A /\ t.parent[t.root] = NULL)
      BY <2>1, <2>3 DEF Shape, Rooted
    <3>2. t.root # NULL => t.root # px /\ t.root # w /\ t.root # far
      BY <1>1, <1>2, <1>6, <2>3, <3>1
    <3>3. t.root # NULL => r.red[t.root] = t.red[t.root]
      BY <1>8, <3>1, <3>2
    <3>4. QED
      BY <1>1, <3>1, <3>3 DEF Red
  <2>4. QED
    BY <2>2, <2>3
<1>20. QED
  BY <1>17, <1>18, <1>19 DEF Coloured

(* The colours as the code sets them before the last rotation. *)
LEMMA PaintRaises ==
  ASSUME NEW t \in Tree, NEW px \in Nodes, NEW w \in Nodes, NEW far \in Nodes,
         px # w, px # far, w # far, RBTreeAssumption
  PROVE  Raised(t, Paint(Paint(Paint(t, w, t.red[px]), px, FALSE), far, FALSE), px, w, far)
<1>1. FALSE \in BOOLEAN /\ t.red[px] \in BOOLEAN
  BY SideFields
<1>2. PICK c \in BOOLEAN : c = t.red[px]
  BY <1>1
<1>3. PICK q : q = Paint(Paint(t, w, c), px, FALSE)
  OBVIOUS
<1>4. /\ SameLinks(t, q) /\ q.red[w] = c /\ q.red[px] = FALSE
      /\ \A m \in Nodes : m # w /\ m # px => q.red[m] = t.red[m]
  <2>1. TwoPainted(t, q, w, px, c, FALSE)
    BY <1>1, <1>3, PaintTwo
  <2>2. QED
    BY <2>1 DEF TwoPainted
<1>5. q \in Tree
  BY <1>4 DEF SameLinks
<1>6. PICK r : r = Paint(q, far, FALSE)
  OBVIOUS
<1>7. Painted(q, r, far, FALSE)
  BY <1>1, <1>5, <1>6, PaintPaints
<1>8. SameLinks(q, r) /\ r.red[far] = FALSE /\ \A m \in Nodes : m # far => r.red[m] = q.red[m]
  BY <1>7 DEF Painted
<1>9. SameLinks(t, r)
  BY <1>4, <1>8, SameLinksTrans
<1>10. Raised(t, r, px, w, far)
  BY <1>2, <1>4, <1>8, <1>9 DEF Raised
<1>11. QED
  BY <1>2, <1>3, <1>6, <1>10

(* A black node that is short is not the root, and has a parent.           *)
LEMMA UnfinishedDeep ==
  ASSUME NEW t, NEW A, NEW sub, NEW ky, Shape(t, A, sub, ky), RBTreeAssumption, A # {},
         NEW bh, NEW x, NEW px, NEW side, Lacking(t, A, bh, x, px, side), px = NULL => x = t.root,
         x = NULL \/ (~t.red[x] /\ x # t.root)
  PROVE  Deep(t, A, bh, x, px, side)
<1>1. /\ side \in Sides /\ Counted(t, A, bh, px, side) /\ (px # NULL => px \in A /\ t[side][px] = x)
      /\ RedApartBut(t, A, x) /\ (Red(t, t.root) => t.root = x) /\ NULL \notin A
  BY DEF Lacking, Shape, Typed, RBTreeAssumption
<1>2. px # NULL
  <2>1. t.root # NULL
    BY DEF Shape, Rooted, Typed
  <2>2. QED
    BY <2>1
<1>3. ~Red(t, x)
  BY DEF Red
<1>4. RedApart(t, A)
  BY <1>1, <1>3 DEF RedApart, RedApartBut, Red
<1>5. QED
  BY <1>1, <1>2, <1>3, <1>4 DEF Deep

(* The side is the one the code works out from the left link. *)
LEMMA DeepSide ==
  ASSUME NEW t, NEW A, NEW sub, NEW ky, Shape(t, A, sub, ky), RBTreeAssumption,
         NEW bh, NEW x, NEW px, NEW side, Deep(t, A, bh, x, px, side)
  PROVE  side = IF x = t.left[px] THEN "left" ELSE "right"
<1>1. side \in Sides /\ px \in A /\ t[side][px] = x /\ t["left"] = t.left /\ t["right"] = t.right
  BY SideFields DEF Deep, Shape, Typed
<1>2. t[Other(side)][px] # x
  <2>1. Opposite(t, A, bh, x, px, side, t[Other(side)][px])
    BY SiblingThere
  <2>2. QED
    BY <2>1 DEF Opposite
<1>3. QED
  BY <1>1, <1>2 DEF Sides, Other

(* Node x short below px, with a black sibling. *)
Seated(r, A, ky, x, px, side, below) ==
  r.bad = FALSE /\ \E w : Reseated(r, A, ky, x, px, side, w, below)

(* The first case of a turn of rbtree_erase_fixup. *)
LEMMA BlackSiblingSeats ==
  ASSUME NEW t, NEW A, NEW sub, NEW ky, Shape(t, A, sub, ky), RBTreeAssumption, t.bad = FALSE,
         NEW bh, NEW x, NEW px, NEW side, Deep(t, A, bh, x, px, side)
  PROVE  Seated(BlackSibling(t, px, side), A, ky, x, px, side, sub[x])
<1>1. PICK w : w = t[Other(side)][px]
  OBVIOUS
<1>2. /\ w # NULL /\ w \in A /\ w # px /\ A \in SUBSET Nodes /\ px \in A /\ t \in Tree /\ side \in Sides
      /\ Other(side) \in Sides /\ RedApart(t, A)
  <2>1. Opposite(t, A, bh, x, px, side, w)
    BY <1>1, SiblingThere
  <2>2. QED
    BY <2>1, OtherSide DEF Opposite, Deep, Shape, Typed
<1>3. CASE ~Red(t, w)
  <2>1. BlackSibling(t, px, side) = t
    BY <1>1, <1>3 DEF BlackSibling, Sibling
  <2>2. Reseated(t, A, ky, x, px, side, w, sub[x])
    BY <1>1, <1>3 DEF Reseated
  <2>3. QED
    BY <2>1, <2>2 DEF Seated
<1>4. CASE Red(t, w)
  <2>1. PICK q : q = Paint(Paint(t, w, FALSE), px, TRUE)
    OBVIOUS
  <2>2. PICK up : up = Other(side)
    OBVIOUS
  <2>3. PICK r : r = Rotate(q, px, up)
    OBVIOUS
  <2>4. BlackSibling(t, px, side) = r
    BY <1>1, <1>4, <2>1, <2>2, <2>3 DEF BlackSibling, Sibling
  <2>5. Swapped(t, q, px, w)
    <3>1. ~Red(t, px)
      BY <1>1, <1>2, <1>4 DEF RedApart, Red
    <3>2. QED
      BY <1>2, <2>1, <3>1, PaintSwaps
  <2>6. Shape(q, A, sub, ky) /\ q[up][px] = w /\ q.bad = FALSE
    <3>1. SameLinks(t, q)
      BY <2>5 DEF Swapped
    <3>2. QED
      BY <1>1, <1>2, <2>2, <3>1, SameLinksShape DEF SameLinks
  <2>7. Rotated(q, r, px, w, up)
    <3>1. up \in Sides /\ q[up][px] # NULL
      BY <1>2, <2>2, <2>6
    <3>2. Rotated(q, Rotate(q, px, up), px, q[up][px], up)
      BY <1>2, <2>6, <3>1, RotateIs
    <3>3. QED
      BY <2>3, <2>6, <3>2
  <2>8. Reseated(r, A, ky, x, px, side, t[side][w], sub[x])
    <3>1. Rotated(q, r, px, w, Other(side))
      BY <2>2, <2>7
    <3>2. QED
      BY <1>1, <1>4, <2>5, <3>1, RedSiblingTurned
  <2>9. r.bad = FALSE
    BY <2>6, <2>7 DEF Rotated
  <2>10. QED
    BY <2>4, <2>8, <2>9 DEF Seated
<1>5. QED
  BY <1>3, <1>4

(* Node x short below px, with a black sibling that has a red far child. *)
Ready(r, A, ky, x, px, side, w) ==
  /\ r.bad = FALSE /\ w = r[Other(side)][px] /\ ~Red(r, w) /\ Red(r, r[Other(side)][w])
  /\ \E ub, bk : Shape(r, A, ub, ky) /\ Deep(r, A, bk, x, px, side)

(* The third case of a turn. *)
LEMMA RedFarReady ==
  ASSUME NEW t, NEW A, NEW sub, NEW ky, Shape(t, A, sub, ky), RBTreeAssumption, t.bad = FALSE,
         NEW bh, NEW x, NEW px, NEW side, Deep(t, A, bh, x, px, side),
         NEW w, w = t[Other(side)][px], ~Red(t, w), \E s \in Sides : Red(t, t[s][w])
  PROVE  \E u : Ready(RedFar(t, px, side), A, ky, x, px, side, u)
<1>2. /\ w # NULL /\ w \in A /\ w # px /\ A \in SUBSET Nodes /\ px \in A /\ t \in Tree /\ side \in Sides
      /\ Other(side) \in Sides /\ NULL \notin A /\ \A s \in Sides : s = side \/ s = Other(side)
  <2>1. Opposite(t, A, bh, x, px, side, w)
    BY SiblingThere
  <2>2. QED
    BY <2>1, OtherSide DEF Opposite, Deep, Shape, Typed, RBTreeAssumption, Sides
<1>3. CASE Red(t, t[Other(side)][w])
  <2>1. RedFar(t, px, side) = t
    BY <1>3 DEF RedFar, Sibling
  <2>2. Ready(t, A, ky, x, px, side, w)
    BY <1>3 DEF Ready
  <2>3. QED
    BY <2>1, <2>2
<1>4. CASE ~Red(t, t[Other(side)][w])
  <2>1. PICK y : y = t[side][w]
    OBVIOUS
  <2>2. Red(t, y) /\ y \in A /\ y # w
    <3>1. Red(t, y)
      BY <1>2, <1>4, <2>1
    <3>2. QED
      BY <1>2, <2>1, <3>1, Children DEF Red
  <2>3. PICK q : q = Paint(Paint(t, y, FALSE), w, TRUE)
    OBVIOUS
  <2>4. PICK r : r = Rotate(q, w, side)
    OBVIOUS
  <2>5. RedFar(t, px, side) = r
    BY <1>4, <2>1, <2>3, <2>4 DEF RedFar, Sibling
  <2>6. Swapped(t, q, w, y)
    BY <1>2, <2>2, <2>3, PaintSwaps
  <2>7. Shape(q, A, sub, ky) /\ q[side][w] = y /\ q.bad = FALSE
    <3>1. SameLinks(t, q)
      BY <2>6 DEF Swapped
    <3>2. QED
      BY <1>2, <2>1, <3>1, SameLinksShape DEF SameLinks
  <2>8. Rotated(q, r, w, y, side)
    <3>1. q[side][w] # NULL
      BY <1>2, <2>2, <2>7
    <3>2. Rotated(q, Rotate(q, w, side), w, q[side][w], side)
      BY <1>2, <2>7, <3>1, RotateIs
    <3>3. QED
      BY <2>4, <2>7, <3>2
  <2>9. Reseated(r, A, ky, x, px, side, y, sub[x]) /\ r[Other(side)][y] = w /\ Red(r, w)
    BY <1>4, <2>1, <2>2, <2>6, <2>8, NearTurned
  <2>10. r.bad = FALSE
    BY <2>7, <2>8 DEF Rotated
  <2>11. Ready(r, A, ky, x, px, side, y)
    BY <2>9, <2>10 DEF Reseated, Ready
  <2>12. QED
    BY <2>5, <2>11
<1>5. QED
  BY <1>3, <1>4

(* The last case of a turn. *)
LEMMA SiblingUpColoured ==
  ASSUME NEW t, NEW A, NEW ky, RBTreeAssumption, NEW x, NEW px, NEW side, NEW w,
         Ready(t, A, ky, x, px, side, w)
  PROVE  /\ Coloured(SiblingUp(t, px, side), A) /\ SiblingUp(t, px, side).bad = FALSE
         /\ \E ub : Shape(SiblingUp(t, px, side), A, ub, ky)
<1>1. PICK sub, bh : Shape(t, A, sub, ky) /\ Deep(t, A, bh, x, px, side)
  BY DEF Ready
<1>2. t.bad = FALSE /\ w = t[Other(side)][px] /\ ~Red(t, w)
  BY DEF Ready
<1>3. PICK far : far = t[Other(side)][w]
  OBVIOUS
<1>4. Red(t, far)
  BY <1>3 DEF Ready
<1>5. /\ w # NULL /\ w \in A /\ w # px /\ A \in SUBSET Nodes /\ px \in A /\ t \in Tree /\ side \in Sides
      /\ Other(side) \in Sides /\ NULL \notin A /\ t.parent[w] = px /\ t.parent[px] # w
  <2>1. Opposite(t, A, bh, x, px, side, w)
    BY <1>1, <1>2, SiblingThere
  <2>2. QED
    BY <1>1, <2>1, OtherSide DEF Opposite, Deep, Shape, Typed, RBTreeAssumption
<1>6. far \in A /\ far # w /\ far # px
  <2>1. far # NULL
    BY <1>4 DEF Red
  <2>2. far \in A /\ far # w /\ t.parent[far] = w
    BY <1>1, <1>3, <1>5, <2>1, Children
  <2>3. QED
    BY <1>5, <2>2
<1>7. PICK q : q = Paint(Paint(Paint(t, w, t.red[px]), px, FALSE), far, FALSE)
  OBVIOUS
<1>8. Raised(t, q, px, w, far)
  <2>1. px \in Nodes /\ w \in Nodes /\ far \in Nodes /\ px # w /\ px # far /\ w # far
    BY <1>5, <1>6
  <2>2. QED
    BY <1>5, <1>7, <2>1, PaintRaises
<1>9. PICK up : up = Other(side)
  OBVIOUS
<1>10. PICK r : r = Rotate(q, px, up)
  OBVIOUS
<1>11. SiblingUp(t, px, side) = r
  BY <1>2, <1>3, <1>5, <1>7, <1>9, <1>10 DEF SiblingUp, Sibling
<1>12. Shape(q, A, sub, ky) /\ q[up][px] = w /\ q.bad = FALSE
  <2>1. SameLinks(t, q)
    BY <1>8 DEF Raised
  <2>2. QED
    BY <1>1, <1>2, <1>5, <1>9, <2>1, SameLinksShape DEF SameLinks
<1>13. up \in Sides /\ q[up][px] # NULL
  BY <1>5, <1>9, <1>12
<1>14. Rotated(q, r, px, w, up)
  <2>1. Rotated(q, Rotate(q, px, up), px, q[up][px], up)
    BY <1>5, <1>12, <1>13, RotateIs
  <2>2. QED
    BY <1>10, <1>12, <2>1
<1>15. Coloured(r, A)
  <2>1. Rotated(q, r, px, w, Other(side))
    BY <1>9, <1>14
  <2>2. QED
    BY <1>1, <1>2, <1>3, <1>4, <1>8, <2>1, RaisedColoured
<1>16. \E ub : Shape(r, A, ub, ky)
  <2>1. Rotated(q, r, px, q[up][px], up)
    BY <1>12, <1>14
  <2>2. QED
    BY <1>5, <1>12, <1>13, <2>1, RotatedShape
<1>17. r.bad = FALSE
  BY <1>12, <1>14 DEF Rotated
<1>18. QED
  BY <1>11, <1>15, <1>16, <1>17

(* Where the loop is after i turns: done, or at least i nodes up. *)
Sinks(s, A, ky, i) ==
  \E sub, bh, px, side :
    /\ Shape(s.t, A, sub, ky) /\ Lacking(s.t, A, bh, s.x, px, side) /\ s.t.bad = FALSE
    /\ px = NULL => s.x = s.t.root
    /\ EraseUnfinished(s) => s.xp = px /\ Cardinality(sub[s.x]) >= i

(* A tree whose colours are right ends the loop. *)
LEMMA AtRootSinks ==
  ASSUME NEW t, NEW A, NEW sub, NEW ky, Shape(t, A, sub, ky), RBTreeAssumption, t.bad = FALSE, A # {},
         Coloured(t, A), NEW i
  PROVE  Sinks(AtRoot(t), A, ky, i)
<1>1. t.root # NULL
  BY DEF Shape, Rooted, Typed
<1>2. PICK bh : Counted(t, A, bh, NULL, "left")
  BY DEF Coloured
<1>3. PICK s : s = AtRoot(t)
  OBVIOUS
<1>4. s.t = t /\ s.x = t.root
  BY <1>3 DEF AtRoot
<1>5. Lacking(t, A, bh, t.root, NULL, "left")
  BY <1>2 DEF Coloured, Lacking, Sides, RedApart, RedApartBut
<1>6. ~EraseUnfinished(s)
  BY <1>1, <1>4 DEF EraseUnfinished
<1>7. Sinks(s, A, ky, i)
  BY <1>4, <1>5, <1>6 DEF Sinks
<1>8. QED
  BY <1>3, <1>7

(* The second half of a turn: the sibling is black. *)
LEMMA EraseFixBlackSinks ==
  ASSUME NEW t, NEW A, NEW ky, RBTreeAssumption, NEW x, NEW px, NEW side, NEW below,
         Seated(t, A, ky, x, px, side, below), NEW i \in Nat, Cardinality(below) >= i, A # {}
  PROVE  Sinks(EraseFixBlack(t, px, side), A, ky, i + 1)
<1>1. PICK w, sub, bh : /\ Shape(t, A, sub, ky) /\ Deep(t, A, bh, x, px, side) /\ sub[x] = below
                        /\ t[Other(side)][px] = w /\ ~Red(t, w)
  BY DEF Seated, Reseated
<1>2. /\ w # NULL /\ w \in A /\ w # px /\ A \in SUBSET Nodes /\ px \in A /\ t \in Tree /\ side \in Sides
      /\ Other(side) \in Sides /\ t[side][px] = x
      /\ t["left"] = t.left /\ t["right"] = t.right /\ t.bad = FALSE
  <2>1. Opposite(t, A, bh, x, px, side, w)
    BY <1>1, SiblingThere
  <2>2. t \in Tree
    BY <1>1 DEF Shape, Typed
  <2>3. QED
    BY <1>1, <2>1, <2>2, OtherSide, SideFields DEF Opposite, Deep, Shape, Typed, Seated
<1>3. CASE \A s \in Sides : ~Red(t, t[s][w])
  <2>1. PICK r : r = Paint(t, w, TRUE)
    OBVIOUS
  <2>2. PICK ppx : ppx = t.parent[px]
    OBVIOUS
  <2>3. EraseFixBlack(t, px, side) = [t |-> r, x |-> px, xp |-> ppx]
    <3>1. ~Red(t, t.left[w]) /\ ~Red(t, t.right[w])
      BY <1>2, <1>3 DEF Sides
    <3>2. Sibling(t, px, side) = w
      BY <1>1 DEF Sibling
    <3>3. QED
      BY <1>2, <2>1, <2>2, <3>1, <3>2 DEF EraseFixBlack
  <2>4. Painted(t, r, w, TRUE)
    BY <1>2, <2>1, PaintPaints
  <2>5. PICK bk, z : Lacking(r, A, bk, px, ppx, z)
    BY <1>1, <1>3, <2>2, <2>4, ShortAbove
  <2>6. SameLinks(t, r)
    BY <2>4 DEF Painted
  <2>7. Shape(r, A, sub, ky) /\ r.bad = FALSE /\ r.root = t.root
    BY <1>1, <1>2, <2>6, SameLinksShape DEF SameLinks
  <2>8. ppx = NULL => px = r.root
    BY <1>1, <1>2, <2>2, <2>7 DEF Shape, LinksUp
  <2>9. Cardinality(sub[px]) >= i + 1
    <3>1. px \in sub[px] /\ sub[px] \in SUBSET Nodes
      BY <1>1, <1>2, SelfBelow
    <3>2. sub[x] \in SUBSET sub[px] /\ px \notin sub[x]
      BY <1>1, <1>2, Children
    <3>3. PICK B : B = sub[px]
      OBVIOUS
    <3>4. IsFiniteSet(B) /\ below \subseteq B /\ below # B
      BY <1>1, <3>1, <3>2, <3>3, FS_Subset DEF RBTreeAssumption
    <3>5. Cardinality(below) < Cardinality(B) /\ Cardinality(below) \in Nat /\ Cardinality(B) \in Nat
      BY <3>4, FS_Subset, FS_CardinalityType
    <3>6. QED
      BY <3>3, <3>5
  <2>10. PICK s : s = [t |-> r, x |-> px, xp |-> ppx]
    OBVIOUS
  <2>11. s.t = r /\ s.x = px /\ s.xp = ppx
    BY <2>10
  <2>12. Sinks(s, A, ky, i + 1)
    BY <2>5, <2>7, <2>8, <2>9, <2>11 DEF Sinks
  <2>13. QED
    BY <2>3, <2>10, <2>12
<1>4. CASE \E s \in Sides : Red(t, t[s][w])
  <2>1. PICK f : f = RedFar(t, px, side)
    OBVIOUS
  <2>2. PICK u : Ready(f, A, ky, x, px, side, u)
    BY <1>1, <1>2, <1>4, <2>1, RedFarReady
  <2>3. PICK r : r = SiblingUp(f, px, side)
    OBVIOUS
  <2>4. Coloured(r, A) /\ r.bad = FALSE /\ \E ub : Shape(r, A, ub, ky)
    BY <2>2, <2>3, SiblingUpColoured
  <2>5. EraseFixBlack(t, px, side) = AtRoot(r)
    <3>1. Red(t, t.left[w]) \/ Red(t, t.right[w])
      BY <1>2, <1>4 DEF Sides
    <3>2. Sibling(t, px, side) = w
      BY <1>1 DEF Sibling
    <3>3. QED
      BY <1>2, <2>1, <2>3, <3>1, <3>2 DEF EraseFixBlack
  <2>6. Sinks(AtRoot(r), A, ky, i + 1)
    BY <2>4, AtRootSinks
  <2>7. QED
    BY <2>5, <2>6
<1>5. QED
  BY <1>3, <1>4

(* One turn of rbtree_erase_fixup. *)
LEMMA EraseStepSinks ==
  ASSUME NEW s, NEW A, NEW ky, NEW i \in Nat, Sinks(s, A, ky, i), RBTreeAssumption, A # {}
  PROVE  Sinks(EraseFixStep(s), A, ky, i + 1)
<1>1. PICK sub, bh, px, side :
        /\ Shape(s.t, A, sub, ky) /\ Lacking(s.t, A, bh, s.x, px, side) /\ s.t.bad = FALSE
        /\ px = NULL => s.x = s.t.root
        /\ EraseUnfinished(s) => s.xp = px /\ Cardinality(sub[s.x]) >= i
  BY DEF Sinks
<1>2. PICK t : t = s.t
  OBVIOUS
<1>3. PICK x : x = s.x
  OBVIOUS
<1>4. EraseFixStep(s) =
        IF t.bad \/ ~EraseUnfinished(s) THEN s
        ELSE IF s.xp = NULL THEN [s EXCEPT !.t = Bad(@)]
        ELSE EraseFixBlack(BlackSibling(t, s.xp, IF x = t.left[s.xp] THEN "left" ELSE "right"), s.xp,
                           IF x = t.left[s.xp] THEN "left" ELSE "right")
  BY <1>2, <1>3 DEF EraseFixStep
<1>5. CASE ~EraseUnfinished(s)
  <2>1. EraseFixStep(s) = s
    BY <1>4, <1>5
  <2>2. Sinks(s, A, ky, i + 1)
    BY <1>1, <1>5 DEF Sinks
  <2>3. QED
    BY <2>1, <2>2
<1>6. CASE EraseUnfinished(s)
  <2>1. Deep(t, A, bh, x, px, side)
    <3>1. x = NULL \/ (~t.red[x] /\ x # t.root)
      BY <1>2, <1>3, <1>6 DEF EraseUnfinished
    <3>2. Shape(t, A, sub, ky) /\ Lacking(t, A, bh, x, px, side) /\ (px = NULL => x = t.root)
      BY <1>1, <1>2, <1>3
    <3>3. QED
      BY <3>1, <3>2, UnfinishedDeep
  <2>2. px # NULL /\ s.xp = px /\ Cardinality(sub[x]) >= i /\ Shape(t, A, sub, ky) /\ t.bad = FALSE
    BY <1>1, <1>2, <1>3, <1>6, <2>1 DEF Deep, Shape, Typed, RBTreeAssumption
  <2>3. side = IF x = t.left[px] THEN "left" ELSE "right"
    BY <2>1, <2>2, DeepSide
  <2>4. PICK b : b = BlackSibling(t, px, side)
    OBVIOUS
  <2>5. EraseFixStep(s) = EraseFixBlack(b, px, side)
    BY <1>4, <1>6, <2>2, <2>3, <2>4
  <2>6. Seated(b, A, ky, x, px, side, sub[x])
    BY <2>1, <2>2, <2>4, BlackSiblingSeats
  <2>7. Sinks(EraseFixBlack(b, px, side), A, ky, i + 1)
    BY <2>2, <2>6, EraseFixBlackSinks
  <2>8. QED
    BY <2>5, <2>7
<1>7. QED
  BY <1>5, <1>6

(* x is red or the root: painted black it pays for what was short.         *)
LEMMA FinishedColoured ==
  ASSUME NEW t, NEW A, NEW sub, NEW ky, Shape(t, A, sub, ky), RBTreeAssumption,
         NEW bh, NEW x, NEW px, NEW side, Lacking(t, A, bh, x, px, side), px = NULL => x = t.root,
         x # NULL, t.red[x] \/ x = t.root
  PROVE  Coloured(Paint(t, x, FALSE), A)
<1>1. /\ side \in Sides /\ Counted(t, A, bh, px, side) /\ (px # NULL => px \in A /\ t[side][px] = x)
      /\ RedApartBut(t, A, x) /\ (Red(t, t.root) => t.root = x) /\ NULL \notin A /\ A \in SUBSET Nodes /\ t \in Tree
  BY DEF Lacking, Shape, Typed, RBTreeAssumption
<1>2. x \in A /\ t.parent[x] = px /\ (px # NULL => t[side][px] = x /\ t.red[x])
  <2>1. CASE px = NULL
    BY <2>1 DEF Shape, Rooted
  <2>2. CASE px # NULL
    <3>1. x \in A /\ t.parent[x] = px
      BY <1>1, <2>2, Children
    <3>2. x = t.root => t.parent[x] = NULL
      BY DEF Shape, Rooted
    <3>3. QED
      BY <1>1, <2>2, <3>1, <3>2
  <2>3. QED
    BY <2>1, <2>2
<1>3. PICK r : r = Paint(t, x, FALSE)
  OBVIOUS
<1>4. Painted(t, r, x, FALSE)
  BY <1>1, <1>2, <1>3, PaintPaints
<1>5. \E bk : Counted(r, A, bk, NULL, "left")
  BY <1>1, <1>2, <1>4, PaintPays
<1>6. r.red[x] = FALSE /\ r.root = t.root /\ (\A s \in Sides : r[s] = t[s])
      /\ \A m \in A : m # x => r.red[m] = t.red[m]
  BY <1>1, <1>4 DEF Painted, SameLinks
<1>7. \A m \in A : \A s \in Sides : t[s][m] # NULL => t[s][m] \in A
  BY Children
<1>8. RedApart(r, A)
  <2>1. SUFFICES ASSUME NEW m \in A, NEW s \in Sides, r.red[m], Red(r, r[s][m]) PROVE FALSE
    BY DEF RedApart
  <2>2. PICK c : c = t[s][m]
    OBVIOUS
  <2>3. c # NULL /\ c \in A /\ c # x /\ m # x /\ r.red[c]
    BY <1>6, <1>7, <2>1, <2>2 DEF Red
  <2>4. t.red[m] /\ t.red[c]
    BY <1>6, <2>1, <2>3
  <2>5. QED
    BY <1>1, <2>2, <2>3, <2>4 DEF RedApartBut, Red
<1>9. ~Red(r, r.root)
  <2>1. t.root # NULL => t.root \in A
    BY DEF Shape, Rooted
  <2>2. QED
    BY <1>1, <1>6, <2>1 DEF Red
<1>10. Coloured(r, A)
  BY <1>5, <1>8, <1>9 DEF Coloured
<1>11. QED
  BY <1>3, <1>10

(* After as many turns as there are nodes the loop is over. *)
LEMMA EraseRunSinks ==
  ASSUME NEW t, NEW x, NEW xp, NEW A, NEW ky, Sinks([t |-> t, x |-> x, xp |-> xp], A, ky, 0),
         RBTreeAssumption, A # {}, NEW k, k = Cardinality(Nodes), NEW s, s = EraseRun(t, x, xp, k)[k]
  PROVE  Sinks(s, A, ky, k)
<1> DEFINE h == EraseRun(t, x, xp, k)
           T == {i \in 0..k : ~Sinks(h[i], A, ky, i)}
<1>1. k \in Nat
  BY NodesCounted
<1>2. h[0] = [t |-> t, x |-> x, xp |-> xp] /\ \A i \in 1..k : h[i] = EraseFixStep(h[i - 1])
  BY <1>1, EraseRunExists
<1>3. s = h[k]
  OBVIOUS
<1> HIDE DEF h
<1>4. Sinks(h[0], A, ky, 0)
  BY <1>2
<1>5. ASSUME T # {} PROVE FALSE
  <2>1. T \in SUBSET Nat
    OBVIOUS
  <2>2. PICK i \in T : \A j \in T : i <= j
    BY <1>5, <2>1, LeastNumber
  <2>3. i # 0
    BY <1>4, <2>2
  <2>4. i \in 1..k /\ i - 1 \in 0..k /\ i - 1 \notin T /\ i - 1 \in Nat /\ (i - 1) + 1 = i
    BY <1>1, <2>2, <2>3
  <2>5. PICK z : z = h[i - 1]
    OBVIOUS
  <2>6. PICK j \in Nat : j = i - 1
    BY <2>4
  <2>7. Sinks(z, A, ky, j)
    BY <2>4, <2>5, <2>6
  <2>8. Sinks(EraseFixStep(z), A, ky, j + 1)
    BY <2>7, EraseStepSinks
  <2>9. h[i] = EraseFixStep(z) /\ j + 1 = i
    BY <1>2, <2>4, <2>5, <2>6
  <2>10. QED
    BY <2>2, <2>8, <2>9
<1>6. QED
  BY <1>1, <1>3, <1>5

(* rbtree_erase_fixup follows no NULL and leaves a tree whose colours are  *)
(* right.                                                                  *)
LEMMA EraseFixColoured ==
  ASSUME NEW t, NEW x, NEW xp, NEW A, NEW ky, Sinks([t |-> t, x |-> x, xp |-> xp], A, ky, 0),
         RBTreeAssumption, A # {}
  PROVE  Coloured(EraseFix(t, x, xp), A) /\ ~EraseFix(t, x, xp).bad
<1>1. PICK k : k = Cardinality(Nodes)
  OBVIOUS
<1>2. PICK s : s = EraseRun(t, x, xp, k)[k]
  OBVIOUS
<1>3. Sinks(s, A, ky, k)
  BY <1>1, <1>2, EraseRunSinks
<1>4. PICK sub, bh, px, side :
        /\ Shape(s.t, A, sub, ky) /\ Lacking(s.t, A, bh, s.x, px, side) /\ s.t.bad = FALSE
        /\ px = NULL => s.x = s.t.root
        /\ EraseUnfinished(s) => s.xp = px /\ Cardinality(sub[s.x]) >= k
  BY <1>3 DEF Sinks
<1>5. PICK q : q = s.t
  OBVIOUS
<1>6. PICK y : y = s.x
  OBVIOUS
<1>7. ~EraseUnfinished(s)
  <2>1. SUFFICES ASSUME EraseUnfinished(s) PROVE FALSE
    OBVIOUS
  <2>2. Deep(q, A, bh, y, px, side)
    <3>1. y = NULL \/ (~q.red[y] /\ y # q.root)
      BY <1>5, <1>6, <2>1 DEF EraseUnfinished
    <3>2. Shape(q, A, sub, ky) /\ Lacking(q, A, bh, y, px, side) /\ (px = NULL => y = q.root)
      BY <1>4, <1>5, <1>6
    <3>3. QED
      BY <3>1, <3>2, UnfinishedDeep
  <2>3. px \in A /\ side \in Sides /\ q[side][px] = y
    BY <2>2 DEF Deep
  <2>4. px \notin sub[y] /\ sub[y] \in SUBSET A /\ px \in Nodes /\ A \in SUBSET Nodes
    BY <1>4, <1>5, <2>3, Children DEF Shape, Typed
  <2>5. PICK B : B = sub[y]
    OBVIOUS
  <2>6. B \subseteq Nodes /\ B # Nodes /\ IsFiniteSet(Nodes)
    BY <2>4, <2>5 DEF RBTreeAssumption
  <2>7. Cardinality(B) < k /\ Cardinality(B) \in Nat /\ k \in Nat
    BY <1>1, <2>6, FS_Subset, FS_CardinalityType
  <2>8. Cardinality(B) >= k
    BY <1>4, <1>6, <2>1, <2>5
  <2>9. QED
    BY <2>7, <2>8
<1>8. y # NULL /\ (q.red[y] \/ y = q.root)
  BY <1>5, <1>6, <1>7 DEF EraseUnfinished
<1>9. EraseFix(t, x, xp) = Paint(q, y, FALSE)
  <2>1. EraseFix(t, x, xp) = IF s.t.bad \/ EraseUnfinished(s) THEN Bad(s.t) ELSE Paint(s.t, s.x, FALSE)
    BY <1>1, <1>2, EraseFixIs
  <2>2. QED
    BY <1>4, <1>5, <1>6, <1>7, <2>1
<1>10. Shape(q, A, sub, ky) /\ Lacking(q, A, bh, y, px, side) /\ (px = NULL => y = q.root) /\ q.bad = FALSE
  BY <1>4, <1>5, <1>6
<1>11. Coloured(Paint(q, y, FALSE), A)
  BY <1>8, <1>10, FinishedColoured
<1>12. Paint(q, y, FALSE).bad = q.bad
  BY DEF Paint
<1>13. QED
  BY <1>9, <1>10, <1>11, <1>12

-------------------------------------------------------------------------------
(* The deletion. *)

(* A black node without a black height below it has red children only.     *)
LEMMA OnlyChildRed ==
  ASSUME NEW t, NEW A, NEW sub, NEW ky, Shape(t, A, sub, ky), RBTreeAssumption, Coloured(t, A),
         NEW y \in A, NEW s \in Sides, t[Other(s)][y] = NULL, t[s][y] # NULL
  PROVE  t.red[t[s][y]] = TRUE
<1>1. PICK bh : Counted(t, A, bh, NULL, "left")
  BY DEF Coloured
<1>2. /\ bh \in [Ref -> Nat] /\ bh[NULL] = 0
      /\ \A n \in A : \A z \in Sides : bh[n] = bh[t[z][n]] + Weight(t, n) + Owing(n, z, NULL, "left")
  BY <1>1 DEF Counted
<1>3. \A n \in A : \A z \in Sides : Owing(n, z, NULL, "left") = 0
  BY DEF Owing, Shape, Typed, RBTreeAssumption
<1>4. PICK x : x = t[s][y]
  OBVIOUS
<1>5. x \in A /\ t[s][x] \in Ref /\ x \in Ref /\ Other(s) \in Sides /\ A \in SUBSET Nodes /\ t \in Tree
  <2>1. x \in A /\ x \in Ref
    BY <1>4, Children
  <2>2. QED
    BY <2>1, Children, OtherSide DEF Shape, Typed
<1>6. bh[x] = 0
  <2>1. bh[y] = bh[x] + Weight(t, y) + 0 /\ bh[y] = bh[NULL] + Weight(t, y) + 0
    BY <1>2, <1>3, <1>4, <1>5
  <2>2. bh[x] \in Nat /\ Weight(t, y) \in Nat
    BY <1>2, <1>5 DEF Weight
  <2>3. QED
    BY <1>2, <2>1, <2>2
<1>7. bh[x] = bh[t[s][x]] + Weight(t, x) + 0 /\ bh[t[s][x]] \in Nat /\ Weight(t, x) \in Nat
  BY <1>2, <1>3, <1>5 DEF Weight
<1>8. Weight(t, x) = 0
  BY <1>6, <1>7
<1>9. t.red[x]
  BY <1>8 DEF Weight
<1>10. t.red[x] \in BOOLEAN
  BY <1>5, SideFields
<1>11. QED
  BY <1>4, <1>9, <1>10

(* A node cut out of a tree: if it was red nothing is short, otherwise its *)
(* child is, where it was.                                                 *)
LEMMA CutLacks ==
  ASSUME NEW t, NEW A, NEW sub, NEW ky, Shape(t, A, sub, ky), RBTreeAssumption, Coloured(t, A),
         NEW y \in A, NEW s \in Sides, t[Other(s)][y] = NULL, NEW x, x = t[s][y],
         NEW r, Transplanted(t, r, y, x)
  PROVE  /\ t.red[y] => \E bh : Lacking(r, A \ {y}, bh, NULL, NULL, "left")
         /\ ~t.red[y] => \E bh, z : Lacking(r, A \ {y}, bh, x, t.parent[y], z)
<1>1. /\ A \in SUBSET Nodes /\ NULL \notin A /\ t \in Tree /\ ~Red(t, t.root) /\ RedApart(t, A) /\ NULL \in Ref
      /\ "left" \in Sides
  BY DEF Coloured, Shape, Typed, RBTreeAssumption, Ref, Sides
<1>2. PICK bh : Counted(t, A, bh, NULL, "left")
  BY DEF Coloured
<1>3. /\ bh \in [Ref -> Nat] /\ bh[NULL] = 0
      /\ \A n \in A : \A z \in Sides : bh[n] = bh[t[z][n]] + Weight(t, n) + Owing(n, z, NULL, "left")
  BY <1>2 DEF Counted
<1>4. \A n \in A : \A z \in Sides : Owing(n, z, NULL, "left") = 0
  BY <1>1 DEF Owing
<1>5. \A n \in A : \A z \in Sides : t[z][n] \in Ref /\ (t[z][n] # NULL => t[z][n] \in A /\ t.parent[t[z][n]] = n /\ t[z][n] # n)
  BY Children
<1>6. x \in Ref /\ (x # NULL => x \in A /\ t.parent[x] = y /\ x # y)
  BY <1>5
<1>7. PICK p : p = t.parent[y]
  OBVIOUS
<1>8. p # NULL => p \in A /\ p # y /\ \E z \in Sides : t[z][p] = y /\ t[Other(z)][p] # y
  BY <1>7, OneSide
<1>9. /\ r.red = t.red /\ r.root = IF p = NULL THEN x ELSE t.root
      /\ \A z \in Sides : \A m \in A : r[z][m] = IF t[z][m] = y THEN x ELSE t[z][m]
  <2>1. \A z \in Sides : \A m \in A : r[z][m] = IF m = p /\ t[z][m] = y THEN x ELSE t[z][m]
    BY <1>1, <1>7 DEF Transplanted
  <2>2. \A z \in Sides : \A m \in A : t[z][m] = y => m = p
    BY <1>1, <1>5, <1>7
  <2>3. r.red = t.red /\ r.root = IF p = NULL THEN x ELSE t.root
    BY <1>7 DEF Transplanted
  <2>4. QED
    BY <2>1, <2>2, <2>3
<1>10. \A m \in A : Weight(r, m) = Weight(t, m) /\ Weight(t, m) \in Nat
  BY <1>9 DEF Weight
<1>11. ASSUME NEW px, NEW z \in Sides,
              \A m \in A \ {y} : \A u \in Sides : Owing(m, u, px, z) = IF t[u][m] = y THEN Weight(t, y) ELSE 0
       PROVE  Counted(r, A \ {y}, bh, px, z)
  <2>1. ASSUME NEW m \in A \ {y}, NEW u \in Sides
        PROVE  bh[m] = bh[r[u][m]] + Weight(r, m) + Owing(m, u, px, z)
    <3>1. bh[m] = bh[t[u][m]] + Weight(t, m) + 0 /\ bh[t[u][m]] \in Nat
      BY <1>3, <1>4, <1>5
    <3>2. CASE t[u][m] = y
      <4>1. bh[y] = bh[x] + Weight(t, y) + 0 /\ bh[x] \in Nat
        BY <1>3, <1>4, <1>6
      <4>2. r[u][m] = x /\ Owing(m, u, px, z) = Weight(t, y)
        BY <1>9, <1>11, <3>2
      <4>3. QED
        BY <1>10, <3>1, <3>2, <4>1, <4>2
    <3>3. CASE t[u][m] # y
      <4>1. r[u][m] = t[u][m] /\ Owing(m, u, px, z) = 0
        BY <1>9, <1>11, <3>3
      <4>2. QED
        BY <1>10, <3>1, <4>1
    <3>4. QED
      BY <3>2, <3>3
  <2>2. QED
    BY <1>3, <2>1 DEF Counted
<1>12. RedApartBut(r, A \ {y}, x)
  BY <1>1, <1>9 DEF RedApartBut, RedApart, Red
<1>13. CASE t.red[y]
  <2>1. Weight(t, y) = 0
    BY <1>13 DEF Weight
  <2>2. Counted(r, A \ {y}, bh, NULL, "left")
    BY <1>1, <1>4, <1>11, <2>1
  <2>3. ~Red(t, x)
    BY <1>1, <1>13 DEF RedApart
  <2>4. RedApartBut(r, A \ {y}, NULL)
    <3>1. SUFFICES ASSUME NEW m \in A \ {y}, NEW u \in Sides, r.red[m], Red(r, r[u][m]) PROVE FALSE
      BY DEF RedApartBut
    <3>2. r[u][m] # x
      BY <1>9, <2>3, <3>1 DEF Red
    <3>3. r[u][m] = t[u][m] /\ t.red[m]
      BY <1>9, <3>1, <3>2
    <3>4. QED
      BY <1>1, <1>9, <3>1, <3>3 DEF RedApart, Red
  <2>5. ~Red(r, r.root)
    BY <1>1, <1>9, <2>3 DEF Red
  <2>6. Lacking(r, A \ {y}, bh, NULL, NULL, "left")
    BY <1>1, <2>2, <2>4, <2>5 DEF Lacking
  <2>7. QED
    BY <1>13, <2>6
<1>14. CASE ~t.red[y]
  <2>1. Weight(t, y) = 1
    BY <1>14 DEF Weight
  <2>2. \E z \in Sides : p # NULL => t[z][p] = y /\ t[Other(z)][p] # y
    BY <1>1, <1>8
  <2>3. PICK z \in Sides : p # NULL => t[z][p] = y /\ t[Other(z)][p] # y
    BY <2>2
  <2>4. \A m \in A \ {y} : \A u \in Sides : Owing(m, u, p, z) = IF t[u][m] = y THEN Weight(t, y) ELSE 0
    <3>1. SUFFICES ASSUME NEW m \in A \ {y}, NEW u \in Sides
                   PROVE  t[u][m] = y <=> m = p /\ u = z
      BY <2>1 DEF Owing
    <3>2. t[u][m] = y => m = p /\ p # NULL
      BY <1>1, <1>5, <1>7
    <3>3. m = p /\ t[u][m] = y => u = z
      BY <1>1, <2>3, OtherSide
    <3>4. m = p /\ u = z => t[u][m] = y
      BY <1>1, <2>3
    <3>5. QED
      BY <3>2, <3>3, <3>4
  <2>5. Counted(r, A \ {y}, bh, p, z)
    BY <1>11, <2>4
  <2>6. p # NULL => p \in A \ {y} /\ r[z][p] = x
    BY <1>8, <1>9, <2>3
  <2>7. Red(r, r.root) => r.root = x
    BY <1>1, <1>9 DEF Red
  <2>8. Lacking(r, A \ {y}, bh, x, p, z)
    BY <1>12, <2>5, <2>6, <2>7 DEF Lacking
  <2>9. QED
    BY <1>7, <1>14, <2>8
<1>15. QED
  BY <1>13, <1>14

(* A node freed changes nothing for the others. *)
LEMMA FreedLacks ==
  ASSUME NEW t, NEW B, NEW sub, NEW ky, NEW n \in Nodes, n \notin B, NEW bh, NEW x, NEW px, NEW z,
         Lacking(t, B, bh, x, px, z), NEW r, FreedFrom(t, r, n), Shape(r, B, sub, ky), RBTreeAssumption
  PROVE  Lacking(r, B, bh, x, px, z)
<1>1. B \in SUBSET Nodes /\ NULL \notin B
  BY DEF Shape, Typed, RBTreeAssumption
<1>2. /\ r.root = t.root /\ (\A s \in Sides : \A m \in B : r[s][m] = t[s][m]) /\ \A m \in B : r.red[m] = t.red[m]
  BY <1>1 DEF FreedFrom
<1>3. \A m \in B : \A s \in Sides : r[s][m] # NULL => r[s][m] \in B
  BY Children
<1>4. \A m \in B : Weight(r, m) = Weight(t, m)
  BY <1>2 DEF Weight
<1>5. z \in Sides /\ Counted(r, B, bh, px, z)
  BY <1>2, <1>4 DEF Lacking, Counted
<1>6. px # NULL => px \in B /\ r[z][px] = x
  BY <1>2, <1>5 DEF Lacking
<1>7. RedApartBut(r, B, x)
  BY <1>2, <1>3 DEF Lacking, RedApartBut, Red
<1>8. Red(r, r.root) => r.root = x
  <2>1. r.root # NULL => r.root \in B
    BY DEF Shape, Rooted
  <2>2. QED
    BY <1>2, <2>1 DEF Lacking, Red
<1>9. QED
  BY <1>5, <1>6, <1>7, <1>8 DEF Lacking

(* y has taken the place and the colour of n: what was short is short.     *)
LEMMA MovedLacks ==
  ASSUME NEW t, NEW B, NEW sub, NEW ky, Shape(t, B, sub, ky), RBTreeAssumption,
         NEW n \in B, NEW y \in Nodes, y \notin B, NEW r, Replaced(t, r, n, y, B),
         r.red[y] = t.red[n], \A m \in B : m # n => r.red[m] = t.red[m],
         NEW bh, NEW x, NEW px, NEW z, Lacking(t, B, bh, x, px, z), x # n, x # y,
         NEW py, py = IF px = n THEN y ELSE px
  PROVE  \E bk : Lacking(r, (B \ {n}) \cup {y}, bk, x, py, z)
<1> DEFINE C == (B \ {n}) \cup {y}
           bk == [bh EXCEPT ![y] = bh[n]]
<1>1. /\ B \in SUBSET Nodes /\ NULL \notin B /\ NULL \in Ref /\ B \in SUBSET Ref /\ y \in Ref /\ y # n /\ y # NULL
      /\ n # NULL
  BY DEF Shape, Typed, RBTreeAssumption, Ref
<1>2. /\ z \in Sides /\ Counted(t, B, bh, px, z) /\ (px # NULL => px \in B /\ t[z][px] = x)
      /\ RedApartBut(t, B, x) /\ (Red(t, t.root) => t.root = x)
  BY DEF Lacking
<1>3. /\ bh \in [Ref -> Nat] /\ bh[NULL] = 0
      /\ \A m \in B : \A s \in Sides : bh[m] = bh[t[s][m]] + Weight(t, m) + Owing(m, s, px, z)
  BY <1>2 DEF Counted
<1>4. \A m \in B : \A s \in Sides : t[s][m] \in Ref /\ (t[s][m] # NULL => t[s][m] \in B /\ t[s][m] # m)
  BY Children
<1>5. /\ r.root = IF t.parent[n] = NULL THEN y ELSE t.root
      /\ \A s \in Sides : r[s][y] = t[s][n]
      /\ \A s \in Sides : \A m \in B : m # n => r[s][m] = IF t[s][m] = n THEN y ELSE t[s][m]
  BY DEF Replaced
<1>6. /\ bk \in [Ref -> Nat] /\ bk[NULL] = 0 /\ bk[y] = bh[n] /\ \A m \in Ref : m # y => bk[m] = bh[m]
  BY <1>1, <1>3
<1> HIDE DEF bk
<1>7. Weight(r, y) = Weight(t, n) /\ \A m \in B : m # n => Weight(r, m) = Weight(t, m)
  BY DEF Weight
<1>8. \A s \in Sides : Owing(y, s, py, z) = Owing(n, s, px, z)
  BY <1>1, <1>2 DEF Owing
<1>9. \A m \in B : m # n => \A s \in Sides : Owing(m, s, py, z) = Owing(m, s, px, z)
  BY <1>1 DEF Owing
<1>10. ASSUME NEW m \in C, NEW s \in Sides
       PROVE  bk[m] = bk[r[s][m]] + Weight(r, m) + Owing(m, s, py, z)
  <2>1. CASE m = y
    <3>1. r[s][m] = t[s][n] /\ t[s][n] # y /\ t[s][n] \in Ref
      BY <1>1, <1>4, <1>5, <2>1
    <3>2. bk[r[s][m]] = bh[t[s][n]] /\ bk[m] = bh[n]
      BY <1>6, <2>1, <3>1
    <3>3. QED
      BY <1>3, <1>7, <1>8, <2>1, <3>2
  <2>2. CASE m \in B /\ m # n
    <3>1. bk[m] = bh[m]
      BY <1>1, <1>6, <2>2
    <3>2. bk[r[s][m]] = bh[t[s][m]]
      <4>1. CASE t[s][m] = n
        BY <1>5, <1>6, <2>2, <4>1
      <4>2. CASE t[s][m] # n
        <5>1. r[s][m] = t[s][m] /\ t[s][m] \in Ref /\ t[s][m] # y
          BY <1>1, <1>4, <1>5, <2>2, <4>2
        <5>2. QED
          BY <1>6, <5>1
      <4>3. QED
        BY <4>1, <4>2
    <3>3. QED
      BY <1>3, <1>7, <1>9, <2>2, <3>1, <3>2
  <2>3. QED
    BY <2>1, <2>2
<1>11. Counted(r, C, bk, py, z)
  BY <1>6, <1>10 DEF Counted
<1>12. py # NULL => py \in C /\ r[z][py] = x
  BY <1>1, <1>2, <1>5
<1>13. RedApartBut(r, C, x)
  <2>1. SUFFICES ASSUME NEW m \in C, NEW s \in Sides, r.red[m], Red(r, r[s][m]), m # x, r[s][m] # x PROVE FALSE
    BY DEF RedApartBut
  <2>2. PICK c : c = r[s][m]
    OBVIOUS
  <2>3. c # NULL /\ r.red[c] /\ c # x
    BY <2>1, <2>2 DEF Red
  <2>4. CASE m = y
    <3>1. c = t[s][n] /\ c \in B /\ c # n
      BY <1>4, <1>5, <2>2, <2>3, <2>4
    <3>2. t.red[n] /\ t.red[c]
      BY <2>1, <2>3, <2>4, <3>1
    <3>3. QED
      BY <1>2, <2>3, <3>1, <3>2 DEF RedApartBut, Red
  <2>5. CASE m \in B /\ m # n /\ t[s][m] = n
    <3>1. c = y /\ t.red[n] /\ t.red[m]
      BY <1>5, <2>1, <2>2, <2>3, <2>5
    <3>2. QED
      BY <1>1, <1>2, <2>1, <2>5, <3>1 DEF RedApartBut, Red
  <2>6. CASE m \in B /\ m # n /\ t[s][m] # n
    <3>1. c = t[s][m] /\ c \in B
      BY <1>4, <1>5, <2>2, <2>3, <2>6
    <3>2. t.red[m] /\ t.red[c]
      BY <2>1, <2>3, <2>6, <3>1
    <3>3. QED
      BY <1>2, <2>1, <2>3, <2>6, <3>1, <3>2 DEF RedApartBut, Red
  <2>7. QED
    BY <2>4, <2>5, <2>6
<1>14. Red(r, r.root) => r.root = x
  <2>1. SUFFICES ASSUME Red(r, r.root), r.root # x PROVE FALSE
    OBVIOUS
  <2>2. CASE t.parent[n] = NULL
    <3>1. t.root = n /\ r.root = y
      BY <1>5, <2>2 DEF Shape, LinksUp
    <3>2. t.red[n]
      BY <2>1, <3>1 DEF Red
    <3>3. QED
      BY <1>1, <1>2, <3>1, <3>2 DEF Red
  <2>3. CASE t.parent[n] # NULL
    <3>1. r.root = t.root /\ (t.root # NULL => t.root \in B /\ t.parent[t.root] = NULL)
      BY <1>5, <2>3 DEF Shape, Rooted
    <3>2. t.root # NULL => t.root # n /\ r.red[t.root] = t.red[t.root]
      BY <2>3, <3>1
    <3>3. QED
      BY <1>2, <2>1, <3>1, <3>2 DEF Red
  <2>4. QED
    BY <2>2, <2>3
<1>15. Lacking(r, C, bk, x, py, z)
  BY <1>2, <1>11, <1>12, <1>13, <1>14 DEF Lacking
<1>16. QED
  BY <1>15

(* Nothing is short. *)
LEMMA LackingNone ==
  ASSUME NEW t, NEW A, NEW bh, NEW z, Lacking(t, A, bh, NULL, NULL, z), RBTreeAssumption, NULL \notin A
  PROVE  Coloured(t, A)
<1>1. /\ Counted(t, A, bh, NULL, z) /\ RedApartBut(t, A, NULL) /\ (Red(t, t.root) => t.root = NULL)
  BY DEF Lacking
<1>2. Counted(t, A, bh, NULL, "left")
  BY <1>1 DEF Counted, Owing
<1>3. RedApart(t, A)
  BY <1>1 DEF RedApart, RedApartBut, Red
<1>4. QED
  BY <1>1, <1>2, <1>3 DEF Coloured, Red

(* What rbtree_delete hands to the fixup: x is short below xp, or red, or  *)
(* the root.                                                               *)
Handed(t, A, ky, x, xp) == t.bad = FALSE /\ Sinks([t |-> t, x |-> x, xp |-> xp], A, ky, 0)

(* A tree that lacks a black node on one side of px is what the fixup takes. *)
LEMMA HandedIs ==
  ASSUME NEW t, NEW A, NEW ky, NEW sub, Shape(t, A, sub, ky), t.bad = FALSE, RBTreeAssumption,
         NEW bh, NEW x, NEW px, NEW z, Lacking(t, A, bh, x, px, z), px = NULL => x = t.root,
         NEW xp, xp = px \/ (x # NULL /\ t.red[x])
  PROVE  Handed(t, A, ky, x, xp)
<1>1. PICK s : s = [t |-> t, x |-> x, xp |-> xp]
  OBVIOUS
<1>2. s.t = t /\ s.x = x /\ s.xp = xp
  BY <1>1
<1>3. EraseUnfinished(s) => s.xp = px
  BY <1>2 DEF EraseUnfinished
<1>4. Cardinality(sub[x]) >= 0
  <2>1. x \in Ref
    <3>1. px # NULL => px \in A /\ z \in Sides /\ t[z][px] = x
      BY DEF Lacking
    <3>2. px # NULL => x \in Ref
      BY <3>1, Children
    <3>3. px = NULL => x \in Ref
      BY SideFields DEF Shape, Typed
    <3>4. QED
      BY <3>2, <3>3
  <2>2. sub[x] \in SUBSET Nodes
    BY <2>1 DEF Shape, Typed
  <2>3. PICK S : S = sub[x]
    OBVIOUS
  <2>4. IsFiniteSet(S)
    BY <2>2, <2>3, FS_Subset DEF RBTreeAssumption
  <2>5. Cardinality(S) \in Nat
    BY <2>4, FS_CardinalityType
  <2>6. QED
    BY <2>3, <2>5
<1>5. Sinks(s, A, ky, 0)
  BY <1>2, <1>3, <1>4 DEF Sinks
<1>6. QED
  BY <1>1, <1>5 DEF Handed

(* The tree q after a splice, handed to the fixup with x and xp if the     *)
(* node that went from its place was black.                                *)
Spliceable(q, A, ky, short, x, xp) ==
  /\ short => Handed(q, A, ky, x, xp)
  /\ ~short => Coloured(q, A)

(* A node with one child at most. *)
LEMMA SplicedOneColours ==
  ASSUME NEW t, NEW A, NEW sub, NEW ky, Shape(t, A, sub, ky), Clean(t, A), RBTreeAssumption,
         NEW n \in A, NEW s \in Sides, t[Other(s)][n] = NULL, t.bad = FALSE, Coloured(t, A),
         NEW x, x = t[s][n]
  PROVE  Spliceable(Freed(Transplant(t, n, x), n), A \ {n}, ky, ~t.red[n], x, t.parent[n])
<1>1. PICK r : r = Transplant(t, n, x)
  OBVIOUS
<1>2. PICK q : q = Freed(r, n)
  OBVIOUS
<1>3. Transplanted(t, r, n, x) /\ Grown(q, A \ {n}, ky)
  <2>1. r = Transplant(t, n, t[s][n])
    BY <1>1
  <2>2. Transplanted(t, r, n, t[s][n]) /\ Grown(Freed(r, n), A \ {n}, ky)
    BY <2>1, SplicedOne
  <2>3. QED
    BY <1>2, <2>2
<1>4. PICK ub : Shape(q, A \ {n}, ub, ky)
  BY <1>3 DEF Grown
<1>5. n \in Nodes /\ n \notin A \ {n} /\ NULL \notin A \ {n} /\ r \in Tree /\ q.bad = FALSE
  BY <1>3 DEF Transplanted, Grown, Shape, Typed, RBTreeAssumption
<1>6. FreedFrom(r, q, n)
  BY <1>2, <1>5, FreedIs
<1>7. CASE t.red[n]
  <2>1. PICK bh : Lacking(r, A \ {n}, bh, NULL, NULL, "left")
    BY <1>3, <1>7, CutLacks
  <2>2. Lacking(q, A \ {n}, bh, NULL, NULL, "left")
    BY <1>4, <1>5, <1>6, <2>1, FreedLacks
  <2>3. Coloured(q, A \ {n})
    BY <1>5, <2>2, LackingNone
  <2>4. QED
    BY <1>1, <1>2, <1>7, <2>3 DEF Spliceable
<1>8. CASE ~t.red[n]
  <2>1. PICK p : p = t.parent[n]
    OBVIOUS
  <2>2. PICK bh, z : Lacking(r, A \ {n}, bh, x, p, z)
    BY <1>3, <1>8, <2>1, CutLacks
  <2>3. Lacking(q, A \ {n}, bh, x, p, z)
    BY <1>4, <1>5, <1>6, <2>2, FreedLacks
  <2>4. p = NULL => x = q.root
    BY <1>3, <1>6, <2>1 DEF Transplanted, FreedFrom
  <2>5. Handed(q, A \ {n}, ky, x, p)
    BY <1>4, <1>5, <2>3, <2>4, HandedIs
  <2>6. QED
    BY <1>1, <1>2, <1>8, <2>1, <2>5 DEF Spliceable
<1>9. QED
  BY <1>7, <1>8

(* A node with two children, unless the next one y is black, has no child  *)
(* and is not a child of n: then x_parent is not the parent of x.          *)
LEMMA SplicedTwoColours ==
  ASSUME NEW t, NEW A, NEW sub, NEW ky, Shape(t, A, sub, ky), Clean(t, A), RBTreeAssumption,
         NEW n \in A, t.left[n] # NULL, t.right[n] # NULL, t.bad = FALSE, Coloured(t, A),
         NEW y, y = End(t, t.right[n], "left"),
         ~(t.parent[y] # n /\ t.right[y] = NULL /\ ~t.red[y])
  PROVE  Spliceable(Freed(MovedUp(t, n, y), n), A \ {n}, ky, ~t.red[y], t.right[y], y)
<1>1. NextTo(t, A, sub, ky, n, y)
  BY NextIs
<1>2. PICK t0 : t0 = Transplant(t, y, t.right[y])
  OBVIOUS
<1>3. PICK r : r = MovedUp(t, n, y)
  OBVIOUS
<1>4. PICK q : q = Freed(r, n)
  OBVIOUS
<1>5. /\ Transplanted(t, t0, y, t.right[y]) /\ Shape(t0, A \ {y}, SubCut(sub, y), ky)
      /\ Moved(t, t0, r, n, y, A) /\ Grown(q, A \ {n}, ky)
  <2>1. PICK y1, t1 :
           /\ y1 = End(t, t.right[n], "left") /\ t1 = Transplant(t, y1, t.right[y1])
           /\ Transplanted(t, t1, y1, t.right[y1]) /\ Shape(t1, A \ {y1}, SubCut(sub, y1), ky)
           /\ Moved(t, t1, MovedUp(t, n, y1), n, y1, A)
           /\ Grown(Freed(MovedUp(t, n, y1), n), A \ {n}, ky)
    BY SplicedTwo
  <2>2. y1 = y
    BY <2>1
  <2>3. t1 = t0
    BY <1>2, <2>1, <2>2
  <2>4. QED
    BY <1>3, <1>4, <2>1, <2>2, <2>3
<1>6. PICK ub : Shape(q, A \ {n}, ub, ky)
  BY <1>5 DEF Grown
<1>7. PICK B : B = A \ {y}
  OBVIOUS
<1>8. PICK x : x = t.right[y]
  OBVIOUS
<1>9. /\ y \in A /\ y # n /\ t.left[y] = NULL /\ x # n /\ (t.parent[y] = n <=> t.right[n] = y)
      /\ n \in B /\ y \in Nodes /\ y \notin B /\ (B \ {n}) \cup {y} = A \ {n} /\ n \in Nodes /\ NULL \notin A
      /\ t["left"] = t.left /\ t["right"] = t.right /\ t.red \in [Nodes -> BOOLEAN] /\ t.parent[y] # NULL
  BY <1>1, <1>7, <1>8, SideFields DEF NextTo, Shape, Typed, RBTreeAssumption
<1>10. x # y /\ x \in Ref
  <2>1. t["right"][y] # NULL => t["right"][y] # y
    BY <1>9, Children, OtherSide DEF Sides
  <2>2. t["right"][y] \in Ref /\ y # NULL
    BY <1>9, Children DEF Sides
  <2>3. QED
    BY <1>8, <1>9, <2>1, <2>2
<1>11. /\ "right" \in Sides /\ t[Other("right")][y] = NULL /\ x = t["right"][y]
  BY <1>8, <1>9 DEF Sides, Other
<1>12. /\ Transplanted(t, t0, y, x) /\ Shape(t0, B, SubCut(sub, y), ky) /\ t0.red = t.red
  BY <1>5, <1>7, <1>8 DEF Transplanted
<1>13. /\ Replaced(t0, r, n, y, B) /\ r.bad = FALSE /\ r \in Tree
       /\ r.red[y] = t.red[n] /\ \A m \in Nodes : m # y => r.red[m] = t.red[m]
  BY <1>5, <1>7, <1>9 DEF Moved, Replaced
<1>14. r.red[y] = t0.red[n] /\ \A m \in B : m # n => r.red[m] = t0.red[m]
  BY <1>7, <1>9, <1>12, <1>13 DEF Shape, Typed
<1>15. FreedFrom(r, q, n) /\ n \notin A \ {n} /\ q.bad = FALSE /\ NULL \notin A \ {n}
  <2>1. FreedFrom(r, q, n)
    BY <1>4, <1>9, <1>13, FreedIs
  <2>2. q.bad = FALSE
    BY <1>13, <2>1 DEF FreedFrom
  <2>3. QED
    BY <1>9, <2>1, <2>2
<1>16. CASE t.red[y]
  <2>1. PICK bh : Lacking(t0, B, bh, NULL, NULL, "left")
    BY <1>7, <1>9, <1>11, <1>12, <1>16, CutLacks
  <2>2. \E bk : Lacking(r, (B \ {n}) \cup {y}, bk, NULL, NULL, "left")
    <3>1. NULL # n /\ NULL # y /\ NULL = IF NULL = n THEN y ELSE NULL
      BY <1>9
    <3>2. QED
      BY <1>9, <1>12, <1>13, <1>14, <2>1, <3>1, MovedLacks
  <2>3. PICK bk : Lacking(r, A \ {n}, bk, NULL, NULL, "left")
    BY <1>9, <2>2
  <2>4. Lacking(q, A \ {n}, bk, NULL, NULL, "left")
    BY <1>6, <1>9, <1>15, <2>3, FreedLacks
  <2>5. Coloured(q, A \ {n})
    BY <1>15, <2>4, LackingNone
  <2>6. QED
    BY <1>3, <1>4, <1>16, <2>5 DEF Spliceable
<1>17. CASE ~t.red[y]
  <2>1. PICK px : px = t.parent[y]
    OBVIOUS
  <2>2. PICK bh, z : Lacking(t0, B, bh, x, px, z)
    BY <1>7, <1>9, <1>11, <1>12, <1>17, <2>1, CutLacks
  <2>3. PICK py : py = IF px = n THEN y ELSE px
    OBVIOUS
  <2>4. \E bk : Lacking(r, (B \ {n}) \cup {y}, bk, x, py, z)
    BY <1>9, <1>10, <1>12, <1>13, <1>14, <2>2, <2>3, MovedLacks
  <2>5. PICK bk : Lacking(r, A \ {n}, bk, x, py, z)
    BY <1>9, <2>4
  <2>6. Lacking(q, A \ {n}, bk, x, py, z)
    BY <1>6, <1>9, <1>15, <2>5, FreedLacks
  <2>7. py # NULL
    BY <1>9, <2>1, <2>3
  <2>8. y = py \/ (x # NULL /\ q.red[x])
    <3>1. CASE px = n
      BY <2>3, <3>1
    <3>2. CASE px # n
      <4>1. x # NULL
        BY <1>8, <1>17, <2>1, <3>2
      <4>2. t.red[x] = TRUE
        BY <1>9, <1>11, <4>1, OnlyChildRed
      <4>3. x \in Nodes /\ x # n /\ x # y
        BY <1>9, <1>10, <4>1 DEF Ref
      <4>4. q.red[x] = TRUE
        BY <1>13, <1>15, <4>2, <4>3 DEF FreedFrom
      <4>5. QED
        BY <4>1, <4>4
    <3>3. QED
      BY <3>1, <3>2
  <2>9. Handed(q, A \ {n}, ky, x, y)
    BY <1>6, <1>15, <2>6, <2>7, <2>8, HandedIs
  <2>10. QED
    BY <1>3, <1>4, <1>8, <1>17, <2>9 DEF Spliceable
<1>18. QED
  BY <1>16, <1>17

(* The tree without n, as rbtree_delete hands it to the fixup. *)
LEMMA SplicedColours ==
  ASSUME NEW sub, Shape(tree, alive, sub, key), Clean(tree, alive), RBTreeAssumption,
         NEW n \in alive, tree.bad = FALSE, Coloured(tree, alive), ~Spliced(n).wrong
  PROVE  Spliceable(Freed(Spliced(n).t, n), alive \ {n}, key, Spliced(n).short, Spliced(n).x, Spliced(n).xp)
<1>1. /\ tree["left"] = tree.left /\ tree["right"] = tree.right
      /\ "left" \in Sides /\ "right" \in Sides /\ Other("right") = "left" /\ Other("left") = "right"
  BY SideFields DEF Shape, Typed, Sides, Other
<1>2. CASE tree.left[n] = NULL
  <2>1. PICK x : x = tree["right"][n]
    OBVIOUS
  <2>2. Spliceable(Freed(Transplant(tree, n, x), n), alive \ {n}, key, ~tree.red[n], x, tree.parent[n])
    BY <1>1, <1>2, <2>1, SplicedOneColours
  <2>3. /\ Spliced(n).t = Transplant(tree, n, x) /\ Spliced(n).x = x
        /\ Spliced(n).xp = tree.parent[n] /\ Spliced(n).short = ~tree.red[n]
    BY <1>1, <1>2, <2>1, SpliceCases
  <2>4. QED
    BY <2>2, <2>3
<1>3. CASE tree.left[n] # NULL /\ tree.right[n] = NULL
  <2>1. PICK x : x = tree["left"][n]
    OBVIOUS
  <2>2. Spliceable(Freed(Transplant(tree, n, x), n), alive \ {n}, key, ~tree.red[n], x, tree.parent[n])
    BY <1>1, <1>3, <2>1, SplicedOneColours
  <2>3. /\ Spliced(n).t = Transplant(tree, n, x) /\ Spliced(n).x = x
        /\ Spliced(n).xp = tree.parent[n] /\ Spliced(n).short = ~tree.red[n]
    BY <1>1, <1>3, <2>1, SpliceCases
  <2>4. QED
    BY <2>2, <2>3
<1>4. CASE tree.left[n] # NULL /\ tree.right[n] # NULL
  <2>1. PICK y : y = End(tree, tree.right[n], "left")
    OBVIOUS
  <2>2. /\ Spliced(n).t = MovedUp(tree, n, y) /\ Spliced(n).x = tree.right[y] /\ Spliced(n).xp = y
        /\ Spliced(n).short = ~tree.red[y]
        /\ Spliced(n).wrong = (tree.parent[y] # n /\ tree.right[y] = NULL /\ ~tree.red[y])
    BY <1>4, <2>1, SpliceCases
  <2>3. Spliceable(Freed(MovedUp(tree, n, y), n), alive \ {n}, key, ~tree.red[y], tree.right[y], y)
    BY <1>4, <2>1, <2>2, SplicedTwoColours
  <2>4. QED
    BY <2>2, <2>3
<1>5. QED
  BY <1>2, <1>3, <1>4

-------------------------------------------------------------------------------
(* The colours, in every state. *)

ColourInv == ~astray => Coloured(tree, alive)

(* The colours of no nodes are right. *)
LEMMA NoneColoured ==
  ASSUME NEW t, NEW sub, NEW ky, Shape(t, {}, sub, ky)
  PROVE  Coloured(t, {})
<1>1. t.root = NULL
  BY DEF Shape, Rooted
<1>2. PICK bh : bh = [n \in Ref |-> 0]
  OBVIOUS
<1>3. bh \in [Ref -> Nat] /\ bh[NULL] = 0
  BY <1>2 DEF Ref
<1>4. Counted(t, {}, bh, NULL, "left")
  BY <1>3 DEF Counted
<1>5. QED
  BY <1>1, <1>4 DEF Coloured, RedApart, Red

(* rbtree_insert keeps the colours right. *)
LEMMA InsertColours ==
  ASSUME TreeInv, ColourInv, RBTreeAssumption, NEW k \in Keys, NEW v \in Elem, Insert(k, v)
  PROVE  ColourInv'
<1>0. astray' = astray
  BY DEF Insert
<1>1. CASE UNCHANGED <<tree, key, val, alive, count>>
  BY <1>0, <1>1 DEF ColourInv
<1>2. CASE val' = [val EXCEPT ![Lookup(k)] = v] /\ UNCHANGED <<tree, key, alive, count>>
  BY <1>0, <1>2 DEF ColourInv
<1>3. CASE /\ Lookup(k) = NULL
           /\ \E n \in Nodes \ alive :
                LET p    == Leaf(k)
                    side == IF k < key[p] THEN "left" ELSE "right"
                    t1   == [tree EXCEPT !.parent[n] = p, !.red[n] = TRUE]
                    t2   == IF p = NULL THEN [t1 EXCEPT !.root = n]
                            ELSE [t1 EXCEPT ![side][p] = n]
                IN  /\ tree' = InsertFix(t2, n)
                    /\ alive' = alive \cup {n}
                    /\ key' = [key EXCEPT ![n] = k] /\ val' = [val EXCEPT ![n] = v]
           /\ count' = count + 1
  <2>1. PICK n \in Nodes \ alive :
               /\ tree' = InsertFix(Hang(tree, n, Leaf(k), IF k < key[Leaf(k)] THEN "left" ELSE "right"), n)
               /\ alive' = alive \cup {n}
    BY <1>3 DEF Hang
  <2>2. PICK side : side = IF k < key[Leaf(k)] THEN "left" ELSE "right"
    OBVIOUS
  <2>3. PICK kz : kz = [key EXCEPT ![n] = k]
    OBVIOUS
  <2>4. PICK p : p = Leaf(k)
    OBVIOUS
  <2>5. PICK r : r = Hang(tree, n, p, side)
    OBVIOUS
  <2>6. Grown(r, alive \cup {n}, kz)
    <3>1. Grown(Hang(tree, n, Leaf(k), side), alive \cup {n}, kz)
      BY <1>3, <2>2, <2>3, HangGrown
    <3>2. QED
      BY <2>4, <2>5, <3>1
  <2>7. PICK sub : Shape(tree, alive, sub, key)
    BY DEF TreeInv, InOrder, Grown
  <2>8. Clean(tree, alive) /\ tree \in Tree /\ alive \in SUBSET Nodes /\ k \in Int /\ side \in Sides
    BY <2>2, <2>7 DEF TreeInv, InOrder, Grown, Shape, Typed, RBTreeAssumption, Sides
  <2>9. p \in alive \cup {NULL} /\ (p = NULL => alive = {}) /\ (p # NULL => tree[side][p] = NULL)
    <3>1. CASE tree.root = NULL
      <4>1. Leaf(k) = NULL
        BY <3>1, Zenon DEF Leaf
      <4>2. alive = {}
        BY <2>7, <3>1 DEF Shape, Rooted, Typed
      <4>3. QED
        BY <2>4, <4>1, <4>2
    <3>2. CASE tree.root # NULL
      <4>1. \A m \in alive : key[m] # k
        BY <1>3, <2>7, <2>8, LookupIs
      <4>2. Leaf(k) \in alive /\ tree[side][Leaf(k)] = NULL
        BY <2>2, <2>7, <2>8, <3>2, <4>1, LeafIs
      <4>3. QED
        BY <2>4, <2>8, <4>2 DEF RBTreeAssumption
    <3>3. QED
      BY <3>1, <3>2
  <2>10. Hung(tree, r, n, p, side)
    <3>1. p \in Ref /\ n \in Nodes
      BY <2>8, <2>9 DEF Ref
    <3>2. QED
      BY <2>5, <2>8, <3>1, HungIs
  <2>11. ASSUME Coloured(tree, alive) PROVE Coloured(tree', alive')
    <3>1. PICK bk : Fixing(r, alive \cup {n}, bk, n)
      BY <2>7, <2>8, <2>9, <2>10, <2>11, HungFixing
    <3>2. PICK ub : Shape(r, alive \cup {n}, ub, kz)
      BY <2>6 DEF Grown
    <3>3. Coloured(InsertFix(r, n), alive \cup {n})
      BY <2>6, <3>1, <3>2, InsertFixColoured
    <3>4. tree' = InsertFix(r, n)
      BY <2>1, <2>2, <2>4, <2>5
    <3>5. QED
      BY <2>1, <3>3, <3>4
  <2>12. QED
    BY <1>0, <2>11 DEF ColourInv
<1>4. QED
  BY <1>1, <1>2, <1>3, Zenon DEF Insert

(* The tree after rbtree_delete, and whether NULL was followed. *)
Deleted(n) ==
  LET s == Spliced(n)
  IN  IF s.short THEN EraseFix(Freed(s.t, n), s.x, s.xp) ELSE Freed(s.t, n)

(* Node n taken out of a tree whose colours are right: they stay so, and   *)
(* the fixup follows NULL only when no node is left.                       *)
LEMMA DeletedColoured ==
  ASSUME TreeInv, Coloured(tree, alive), RBTreeAssumption, NEW n \in alive, ~Spliced(n).wrong,
         alive \ {n} # {}
  PROVE  Coloured(Deleted(n), alive \ {n}) /\ ~Deleted(n).bad
<1>1. PICK sub : Shape(tree, alive, sub, key)
  BY DEF TreeInv, InOrder, Grown
<1>2. Clean(tree, alive) /\ tree.bad = FALSE
  BY DEF TreeInv, InOrder, Grown
<1>3. PICK s : s = Spliced(n)
  OBVIOUS
<1>4. PICK q : q = Freed(s.t, n)
  OBVIOUS
<1>5. Spliceable(q, alive \ {n}, key, s.short, s.x, s.xp)
  BY <1>1, <1>2, <1>3, <1>4, SplicedColours
<1>6. q.bad = FALSE
  <2>1. Grown(Freed(Spliced(n).t, n), alive \ {n}, key)
    BY <1>1, <1>2, SplicedGrown
  <2>2. QED
    BY <1>3, <1>4, <2>1 DEF Grown
<1>7. Deleted(n) = IF s.short THEN EraseFix(q, s.x, s.xp) ELSE q
  BY <1>3, <1>4 DEF Deleted
<1>8. CASE s.short
  <2>1. Sinks([t |-> q, x |-> s.x, xp |-> s.xp], alive \ {n}, key, 0)
    BY <1>5, <1>8 DEF Spliceable, Handed
  <2>2. PICK x : x = s.x
    OBVIOUS
  <2>3. PICK xp : xp = s.xp
    OBVIOUS
  <2>4. Coloured(EraseFix(q, x, xp), alive \ {n}) /\ ~EraseFix(q, x, xp).bad
    BY <2>1, <2>2, <2>3, EraseFixColoured
  <2>5. QED
    BY <1>7, <1>8, <2>2, <2>3, <2>4
<1>9. CASE ~s.short
  BY <1>5, <1>6, <1>7, <1>9 DEF Spliceable
<1>10. QED
  BY <1>8, <1>9

(* rbtree_delete keeps the colours right, unless it goes astray; and it    *)
(* follows NULL only then or when the last node is deleted.                *)
LEMMA DeleteColours ==
  ASSUME TreeInv, ColourInv, RBTreeAssumption, NEW k \in Keys, Delete(k), TreeInv', ~fault
  PROVE  ColourInv' /\ (fault' => astray' \/ count' = 1)
<1>1. CASE Lookup(k) = NULL
  BY <1>1 DEF Delete, Keep, ColourInv
<1>2. CASE Lookup(k) # NULL
  <2>1. PICK n : n = Lookup(k)
    OBVIOUS
  <2>2. PICK t : t = Deleted(n)
    OBVIOUS
  <2>3. /\ astray' = (astray \/ Spliced(n).wrong)
        /\ IF t.bad THEN Crash
           ELSE /\ tree' = t /\ alive' = alive \ {n} /\ count' = count - 1
                /\ UNCHANGED <<exists, fault>>
    <3>1. Lookup(k) # NULL => /\ astray' = (astray \/ Spliced(Lookup(k)).wrong)
                              /\ IF Deleted(Lookup(k)).bad THEN Crash
                                 ELSE /\ tree' = Deleted(Lookup(k)) /\ alive' = alive \ {Lookup(k)}
                                      /\ count' = count - 1 /\ UNCHANGED <<exists, fault>>
      BY Zenon DEF Delete, Deleted
    <3>2. QED
      BY <1>2, <2>1, <2>2, <3>1
  <2>4. n \in alive
    <3>1. PICK sub : Shape(tree, alive, sub, key)
      BY DEF TreeInv, InOrder, Grown
    <3>2. Clean(tree, alive) /\ k \in Int
      BY DEF TreeInv, InOrder, Grown, RBTreeAssumption
    <3>3. QED
      BY <1>2, <2>1, <3>1, <3>2, LookupIs
  <2>5. CASE astray' = TRUE
    BY <2>5 DEF ColourInv
  <2>6. CASE ~astray' /\ alive \ {n} # {}
    <3>1. Coloured(tree, alive) /\ ~Spliced(n).wrong
      BY <2>3, <2>6 DEF ColourInv
    <3>2. Coloured(t, alive \ {n}) /\ ~t.bad
      BY <2>2, <2>4, <2>6, <3>1, DeletedColoured
    <3>3. tree' = t /\ alive' = alive \ {n} /\ fault' = fault
      BY <2>3, <3>2
    <3>4. QED
      BY <3>2, <3>3 DEF ColourInv
  <2>7. CASE ~astray' /\ alive \ {n} = {}
    <3>1. Coloured(tree, alive)
      BY <2>3, <2>7 DEF ColourInv
    <3>2. CASE t.bad
      <4>1. tree' = tree /\ alive' = alive /\ count' = count
        BY <2>3, <3>2 DEF Crash
      <4>2. count = 1
        <5>1. alive = {n}
          BY <2>4, <2>7
        <5>2. Cardinality({n}) = 1
          BY FS_Singleton
        <5>3. QED
          BY <5>1, <5>2 DEF TreeInv, Payload
      <4>3. QED
        BY <3>1, <4>1, <4>2 DEF ColourInv
    <3>3. CASE ~t.bad
      <4>1. tree' = t /\ alive' = {} /\ fault' = fault
        BY <2>3, <2>7, <3>3
      <4>2. PICK ub : Shape(tree', {}, ub, key')
        BY <4>1 DEF TreeInv, InOrder, Grown
      <4>3. Coloured(tree', alive')
        BY <4>1, <4>2, NoneColoured
      <4>4. QED
        BY <4>1, <4>3 DEF ColourInv
    <3>4. QED
      BY <3>2, <3>3
  <2>8. QED
    <3>1. astray' \in BOOLEAN
      BY DEF TreeInv, Payload
    <3>2. QED
      BY <2>5, <2>6, <2>7, <3>1
<1>3. QED
  BY <1>1, <1>2

(* A tree of no nodes has its colours right. *)
LEMMA EmptyColours == RBTreeAssumption => Coloured(NoTree, {})
<1> SUFFICES ASSUME RBTreeAssumption PROVE Coloured(NoTree, {})
  OBVIOUS
<1>1. Grown(NoTree, {}, Blank)
  BY NoTreeGrown
<1>2. PICK sub : Shape(NoTree, {}, sub, Blank)
  BY <1>1 DEF Grown
<1>3. QED
  BY <1>2, NoneColoured

(* Every operation keeps the colours right, and none follows NULL unless   *)
(* delete goes astray, takes the last node, or the stack of clear is full. *)
LEMMA NextColours ==
  ASSUME RBTreeAssumption, TreeInv, TreeInv', ColourInv, [Next]_vars
  PROVE  ColourInv'
<1>1. ASSUME UNCHANGED <<tree, alive, astray>> PROVE ColourInv'
  BY <1>1 DEF ColourInv
<1>2. ASSUME Keep PROVE ColourInv'
  BY <1>1, <1>2 DEF Keep
<1>3. ASSUME NEW op, Empty(op) PROVE ColourInv'
  <2>1. CASE StackNeeded > StackSize
    BY <1>1, <1>3, <2>1 DEF Empty, Crash
  <2>2. CASE ~(StackNeeded > StackSize)
    <3>1. tree' = NoTree /\ alive' = {}
      BY <1>3, <2>2 DEF Empty
    <3>2. QED
      BY <3>1, EmptyColours DEF ColourInv
  <2>3. QED
    BY <2>1, <2>2
<1>4. CASE UNCHANGED vars
  BY <1>1, <1>4 DEF vars
<1>5. CASE Next
  <2>1. CASE Create \/ Extremes
    BY <1>1, <1>2, <2>1 DEF Create, Extremes
  <2>2. CASE \E op \in {"clear", "destroy"} : Empty(op)
    BY <1>3, <2>2
  <2>3. CASE \E op \in {"inorder", "preorder", "postorder"} : Traverse(op)
    BY <1>2, <2>3 DEF Traverse
  <2>4. CASE \E k \in Keys : \/ Delete(k) \/ Search(k) \/ Bounds(k)
                             \/ \E v \in Elem : Insert(k, v) \/ Update(k, v)
    <3>1. PICK k \in Keys : \/ Delete(k) \/ Search(k) \/ Bounds(k)
                            \/ \E v \in Elem : Insert(k, v) \/ Update(k, v)
      BY <2>4
    <3>2. CASE Delete(k)
      <4>1. ~fault
        BY <3>2 DEF Delete, Live
      <4>2. QED
        BY <3>2, <4>1, DeleteColours
    <3>3. CASE Search(k) \/ Bounds(k)
      BY <1>2, <3>3 DEF Search, Bounds
    <3>4. ASSUME NEW v \in Elem, Insert(k, v) PROVE ColourInv'
      BY <3>4, InsertColours
    <3>5. ASSUME NEW v \in Elem, Update(k, v) PROVE ColourInv'
      BY <1>1, <3>5 DEF Update
    <3>6. QED
      BY <3>1, <3>2, <3>3, <3>4, <3>5
  <2>5. QED
    BY <1>5, <2>1, <2>2, <2>3, <2>4 DEF Next
<1>6. QED
  BY <1>4, <1>5

(* In every state, until delete goes astray, the root is black, no red     *)
(* node has a red child, and there is a black height for every node.       *)
THEOREM ColoursRight == Spec => []ColourInv
<1>1. Init => ColourInv
  BY EmptyColours, RBTreeAssumption DEF Init, ColourInv
<1>2. TreeInv /\ TreeInv' /\ ColourInv /\ [Next]_vars => ColourInv'
  BY NextColours, RBTreeAssumption
<1>3. QED
  BY <1>1, <1>2, TreeInvariant, PTL DEF Spec

-------------------------------------------------------------------------------
(* The property of RBTree. *)

IsBlacks(f) ==
  f = [n \in Ref |->
        IF n = NULL THEN 0
        ELSE LET b == f[tree.left[n]]
                 c == f[tree.right[n]]
             IN  IF b = c /\ b >= 0 THEN b + (IF tree.red[n] THEN 0 ELSE 1) ELSE -1]

(* The black nodes on the paths down can be counted at every node. *)
LEMMA BlacksExist ==
  ASSUME NEW sub, Shape(tree, alive, sub, key), Clean(tree, alive), RBTreeAssumption
  PROVE  \E f : IsBlacks(f)
<1> DEFINE G == [w \in Nodes \X Int \X Int |->
                   IF w[2] = w[3] /\ w[2] >= 0 THEN w[2] + (IF tree.red[w[1]] THEN 0 ELSE 1) ELSE -1]
<1>1. Rule(Int, 0, G)
  BY DEF Rule
<1>2. \A n \in Nodes, a, b \in Int :
        G[<<n, a, b>>] = IF a = b /\ a >= 0 THEN a + (IF tree.red[n] THEN 0 ELSE 1) ELSE -1
  OBVIOUS
<1>3. \A n \in Nodes : tree.left[n] \in Ref /\ tree.right[n] \in Ref
  BY DEF Shape, Typed, Tree
<1> HIDE DEF G
<1>4. PICK f : Obeys(f, tree, Int, 0, G)
  BY <1>1, TreeRecursion
<1>5. \A n \in Ref : f[n] = IF n = NULL THEN 0
                            ELSE LET b == f[tree.left[n]]
                                     c == f[tree.right[n]]
                                 IN  IF b = c /\ b >= 0 THEN b + (IF tree.red[n] THEN 0 ELSE 1) ELSE -1
  <2> SUFFICES ASSUME NEW n \in Nodes
               PROVE  f[n] = LET b == f[tree.left[n]]
                                 c == f[tree.right[n]]
                             IN  IF b = c /\ b >= 0 THEN b + (IF tree.red[n] THEN 0 ELSE 1) ELSE -1
    BY <1>4 DEF Ref, Obeys, RBTreeAssumption
  <2>1. f[n] = G[<<n, f[tree.left[n]], f[tree.right[n]]>>] /\ f[tree.left[n]] \in Int /\ f[tree.right[n]] \in Int
    BY <1>3, <1>4 DEF Obeys
  <2>2. QED
    BY <1>2, <2>1
<1>6. f = [n \in Ref |-> f[n]]
  BY <1>4 DEF Obeys
<1>7. IsBlacks(f)
  BY <1>5, <1>6 DEF IsBlacks
<1>8. QED
  BY <1>7

(* They are as many on all the paths: the black height. *)
LEMMA BlacksAre ==
  ASSUME NEW sub, Shape(tree, alive, sub, key), RBTreeAssumption, NEW bh, Counted(tree, alive, bh, NULL, "left"),
         NEW f, IsBlacks(f)
  PROVE  f[tree.root] >= 0
<1>1. /\ tree["left"] = tree.left /\ tree["right"] = tree.right /\ NULL \notin Nodes
      /\ alive \in SUBSET Nodes /\ "left" \in Sides /\ "right" \in Sides
      /\ \A s \in Sides : \A n \in alive : tree[s][n] \in Ref
      /\ tree.root = NULL \/ tree.root \in alive
  BY SideFields DEF Shape, Typed, Sides, RBTreeAssumption, Rooted, Tree
<1>2. /\ bh \in [Ref -> Nat] /\ bh[NULL] = 0
      /\ \A n \in alive : \A s \in Sides : bh[n] = bh[tree[s][n]] + (IF tree.red[n] THEN 0 ELSE 1)
  <2>1. \A n \in alive : \A s \in Sides : Owing(n, s, NULL, "left") = 0
    BY <1>1 DEF Owing
  <2>2. \A n \in alive : \A s \in Sides : bh[n] = bh[tree[s][n]] + Weight(tree, n) + Owing(n, s, NULL, "left")
    BY DEF Counted
  <2>3. \A n \in alive : Weight(tree, n) = IF tree.red[n] THEN 0 ELSE 1
    BY DEF Weight
  <2>4. \A n \in alive : \A s \in Sides : bh[tree[s][n]] \in Nat
    BY <1>1 DEF Counted
  <2>5. QED
    BY <2>1, <2>2, <2>3, <2>4 DEF Counted
<1>3. f[NULL] = 0 /\ \A n \in alive : f[n] =
        LET b == f[tree.left[n]]
            c == f[tree.right[n]]
        IN  IF b = c /\ b >= 0 THEN b + (IF tree.red[n] THEN 0 ELSE 1) ELSE -1
  BY <1>1 DEF IsBlacks, Ref
<1> DEFINE S == {n \in alive : f[n] = bh[n]}
<1>4. ASSUME NEW n \in alive, \A s \in Sides : tree[s][n] # NULL => tree[s][n] \in S
      PROVE  n \in S
  <2>1. \A s \in Sides : f[tree[s][n]] = bh[tree[s][n]]
    BY <1>2, <1>3, <1>4
  <2>2. PICK b : b = f[tree.left[n]]
    OBVIOUS
  <2>3. PICK c : c = f[tree.right[n]]
    OBVIOUS
  <2>4. b = bh[tree.left[n]] /\ c = bh[tree.right[n]]
    BY <1>1, <2>1, <2>2, <2>3
  <2>5. b \in Nat /\ c \in Nat
    BY <1>1, <1>2, <2>4
  <2>6. PICK w : w = IF tree.red[n] THEN 0 ELSE 1
    OBVIOUS
  <2>7. bh[n] = b + w /\ bh[n] = c + w /\ w \in Nat
    BY <1>1, <1>2, <2>4, <2>6
  <2>8. f[n] = IF b = c /\ b >= 0 THEN b + w ELSE -1
    BY <1>3, <2>2, <2>3, <2>6
  <2>9. f[n] = bh[n]
    BY <2>5, <2>7, <2>8
  <2>10. QED
    BY <2>9
<1> HIDE DEF S
<1>5. alive \subseteq S
  BY <1>4, TreeInduction
<1>6. f[tree.root] = bh[tree.root]
  BY <1>1, <1>2, <1>3, <1>5 DEF S
<1>7. tree.root \in Ref
  BY <1>1 DEF Ref
<1>8. QED
  BY <1>2, <1>6, <1>7

(* The root is black, no red node has a red child, and all paths down hold *)
(* as many black nodes, through insert_fixup and erase_fixup, until        *)
(* rbtree_delete tells erase_fixup the wrong parent.                       *)
THEOREM BalancedHolds == Spec => []Balanced
<1>1. TreeInv /\ ColourInv => Balanced
  <2> SUFFICES ASSUME TreeInv, ColourInv, ~astray
               PROVE  /\ ~Red(tree, tree.root)
                      /\ \A n \in alive : tree.red[n] => ~Red(tree, tree.left[n]) /\ ~Red(tree, tree.right[n])
                      /\ (CHOOSE f : IsBlacks(f))[tree.root] >= 0
    BY Zenon DEF Balanced, IsBlacks
  <2>1. PICK sub : Shape(tree, alive, sub, key)
    BY DEF TreeInv, InOrder, Grown
  <2>2. Clean(tree, alive)
    BY DEF TreeInv, InOrder, Grown
  <2>3. Coloured(tree, alive)
    BY DEF ColourInv
  <2>4. PICK bh : Counted(tree, alive, bh, NULL, "left")
    BY <2>3 DEF Coloured
  <2>5. \E f : IsBlacks(f)
    BY <2>1, <2>2, BlacksExist, RBTreeAssumption
  <2>6. PICK f : f = CHOOSE g : IsBlacks(g)
    OBVIOUS
  <2>7. IsBlacks(f)
    BY <2>5, <2>6
  <2>8. f[tree.root] >= 0
    BY <2>1, <2>4, <2>7, BlacksAre, RBTreeAssumption
  <2>9. tree["left"] = tree.left /\ tree["right"] = tree.right
    BY <2>1, SideFields DEF Shape, Typed
  <2>10. \A n \in alive : tree.red[n] => ~Red(tree, tree.left[n]) /\ ~Red(tree, tree.right[n])
    BY <2>3, <2>9 DEF Coloured, RedApart, Sides
  <2>11. QED
    BY <2>3, <2>6, <2>8, <2>10 DEF Coloured
<1>2. QED
  BY <1>1, ColoursRight, TreeInvariant, PTL

-------------------------------------------------------------------------------
(* The stack of clear. *)

IsFewest(f) == f = [b \in 0..StackSize + 1 |-> IF b = 0 THEN 0 ELSE 2 * f[b - 1] + 1]

(* Fewest is what its definition says. *)
LEMMA FewestIs ==
  ASSUME RBTreeAssumption
  PROVE  /\ Fewest[0] = 0
         /\ \A b \in 0..StackSize : Fewest[b] \in Nat /\ Fewest[b + 1] = 2 * Fewest[b] + 1
<1> DEFINE M == StackSize + 1
           IsUpto(f, j) == f = [b \in 0..j |-> IF b = 0 THEN 0 ELSE 2 * f[b - 1] + 1]
           T == {j \in Nat : ~\E f : IsUpto(f, j)}
<1>0. M \in Nat
  BY DEF RBTreeAssumption
<1>1. ASSUME T # {} PROVE FALSE
  <2>1. T \in SUBSET Nat
    OBVIOUS
  <2>2. PICK j \in T : \A i \in T : j <= i
    BY <1>1, <2>1, LeastNumber
  <2>3. j # 0
    <3> DEFINE f == [b \in 0..0 |-> 0]
    <3>1. IsUpto(f, 0)
      OBVIOUS
    <3>2. QED
      BY <2>2, <3>1
  <2>4. j - 1 \in Nat /\ j - 1 \notin T
    <3> HIDE DEF T
    <3>1. j \in Nat /\ j - 1 \in Nat /\ ~(j <= j - 1)
      BY <2>1, <2>2, <2>3
    <3>2. QED
      BY <2>2, <3>1
  <2>5. PICK g : IsUpto(g, j - 1)
    BY <2>4
  <2>6. \A b \in 0..j - 1 : g[b] = IF b = 0 THEN 0 ELSE 2 * g[b - 1] + 1
    BY <2>4, <2>5
  <2> DEFINE f == [b \in 0..j |-> IF b < j THEN g[b] ELSE 2 * g[j - 1] + 1]
  <2>7. \A b \in 0..j : f[b] = IF b = 0 THEN 0 ELSE 2 * f[b - 1] + 1
    BY <2>3, <2>4, <2>6
  <2>8. IsUpto(f, j)
    BY <2>7
  <2>9. QED
    BY <2>2, <2>8
<1>2. \E f : IsFewest(f)
  BY <1>0, <1>1 DEF IsFewest
<1>3. Fewest = CHOOSE f : IsFewest(f)
  BY Zenon DEF Fewest, IsFewest
<1>4. IsFewest(Fewest)
  BY <1>2, <1>3
<1>5. \A b \in 0..M : Fewest[b] = IF b = 0 THEN 0 ELSE 2 * Fewest[b - 1] + 1
  BY <1>4 DEF IsFewest
<1>6. Fewest[0] = 0 /\ \A b \in 0..StackSize : Fewest[b + 1] = 2 * Fewest[b] + 1
  BY <1>0, <1>5 DEF RBTreeAssumption
<1>7. \A b \in 0..StackSize : Fewest[b] \in Nat
  <2> DEFINE U == {b \in Nat : b <= StackSize /\ Fewest[b] \notin Nat}
  <2>1. ASSUME U # {} PROVE FALSE
    <3>1. U \in SUBSET Nat
      OBVIOUS
    <3>2. PICK b \in U : \A i \in U : b <= i
      BY <2>1, <3>1, LeastNumber
    <3>3. b # 0
      BY <1>6, <3>2
    <3>4. b - 1 \in 0..StackSize /\ b - 1 \notin U
      BY <3>2, <3>3 DEF RBTreeAssumption
    <3>5. Fewest[b - 1] \in Nat
      BY <3>4
    <3>6. Fewest[(b - 1) + 1] = 2 * Fewest[b - 1] + 1 /\ (b - 1) + 1 = b
      BY <1>6, <3>2, <3>4
    <3>7. QED
      BY <3>2, <3>5, <3>6
  <2>2. QED
    BY <2>1
<1>8. QED
  BY <1>6, <1>7

IsNeed(f) ==
  f = [n \in Ref |-> IF n = NULL THEN 0 ELSE Max({1 + f[tree.left[n]], f[tree.right[n]]})]

(* The greater of two numbers. *)
LEMMA MaxOfTwo ==
  ASSUME NEW a \in Int, NEW b \in Int
  PROVE  /\ Max({a, b}) \in {a, b} /\ a <= Max({a, b}) /\ b <= Max({a, b})
<1>1. \E x \in {a, b} : \A y \in {a, b} : x >= y
  <2>1. CASE a <= b
    BY <2>1
  <2>2. CASE ~(a <= b)
    BY <2>2
  <2>3. QED
    BY <2>1, <2>2
<1>2. Max({a, b}) \in {a, b} /\ \A y \in {a, b} : Max({a, b}) >= y
  BY <1>1 DEF Max
<1>3. QED
  BY <1>2

(* The stack can be measured at every node. *)
LEMMA NeedExists ==
  ASSUME NEW sub, Shape(tree, alive, sub, key), Clean(tree, alive), RBTreeAssumption
  PROVE  \E f : IsNeed(f)
<1> DEFINE G == [w \in Nodes \X Int \X Int |-> Max({1 + w[2], w[3]})]
<1>1. Rule(Int, 0, G)
  <2>1. ASSUME NEW a \in Int, NEW b \in Int PROVE Max({1 + a, b}) \in Int
    <3>1. 1 + a \in Int
      OBVIOUS
    <3>2. Max({1 + a, b}) \in {1 + a, b}
      BY <3>1, MaxOfTwo
    <3>3. QED
      BY <3>1, <3>2
  <2>2. QED
    BY <2>1 DEF Rule
<1>2. \A n \in Nodes, a, b \in Int : G[<<n, a, b>>] = Max({1 + a, b})
  OBVIOUS
<1>3. \A n \in Nodes : tree.left[n] \in Ref /\ tree.right[n] \in Ref
  BY DEF Shape, Typed, Tree
<1> HIDE DEF G
<1>4. PICK f : Obeys(f, tree, Int, 0, G)
  BY <1>1, TreeRecursion
<1>5. \A n \in Ref : f[n] = IF n = NULL THEN 0 ELSE Max({1 + f[tree.left[n]], f[tree.right[n]]})
  <2> SUFFICES ASSUME NEW n \in Nodes
               PROVE  f[n] = Max({1 + f[tree.left[n]], f[tree.right[n]]})
    BY <1>4 DEF Ref, Obeys, RBTreeAssumption
  <2>1. f[n] = G[<<n, f[tree.left[n]], f[tree.right[n]]>>] /\ f[tree.left[n]] \in Int /\ f[tree.right[n]] \in Int
    BY <1>3, <1>4 DEF Obeys
  <2>2. QED
    BY <1>2, <2>1
<1>6. f = [n \in Ref |-> f[n]]
  BY <1>4 DEF Obeys
<1>7. IsNeed(f)
  BY <1>5, <1>6 DEF IsNeed
<1>8. QED
  BY <1>7

(* Below n the stack holds two entries for each black level, one more if n *)
(* is red, and the nodes are no fewer than the black levels make them.     *)
Roomy(f, sub, bh, n) ==
  /\ 2 * bh[n] <= StackSize /\ Fewest[bh[n]] <= Cardinality(sub[n])
  /\ f[n] \in Int /\ f[n] <= 2 * bh[n] + (IF Red(tree, n) THEN 1 ELSE 0)

(* What the children say of a node: l and r are what the stack holds below *)
(* them, b is their black height, a and c are the nodes below them.        *)
LEMMA RoomyAbove ==
  ASSUME RBTreeAssumption, StackAssumption, NEW b \in Nat, 2 * b <= StackSize,
         NEW a \in Nat, NEW c \in Nat, Fewest[b] <= a, Fewest[b] <= c,
         NEW l \in Int, NEW r \in Int, NEW red \in BOOLEAN, NEW w, w = IF red THEN 0 ELSE 1,
         l <= 2 * b + w, r <= 2 * b + w, a + 1 + c <= Cardinality(Nodes)
  PROVE  /\ 2 * (b + w) <= StackSize /\ Fewest[b + w] <= a + 1 + c
         /\ Max({1 + l, r}) \in Int /\ Max({1 + l, r}) <= 2 * (b + w) + (1 - w)
<1>1. StackSize \in Nat /\ Cardinality(Nodes) \in Nat /\ b \in 0..StackSize
  BY FS_CardinalityType DEF RBTreeAssumption
<1>2. Fewest[b] \in Nat /\ Fewest[b + 1] = 2 * Fewest[b] + 1
  BY <1>1, FewestIs
<1>3. w \in {0, 1}
  OBVIOUS
<1>4. Fewest[b + w] <= a + 1 + c
  <2>1. CASE w = 0
    BY <1>2, <2>1
  <2>2. CASE w = 1
    BY <1>2, <2>2
  <2>3. QED
    BY <1>3, <2>1, <2>2
<1>5. b + w \in 0..StackSize + 1 /\ Fewest[b + w] \in Nat
  <2>1. CASE w = 0
    BY <1>1, <1>2, <2>1
  <2>2. CASE w = 1
    BY <1>1, <1>2, <2>2
  <2>3. QED
    BY <1>3, <2>1, <2>2
<1>6. Fewest[b + w] <= Cardinality(Nodes)
  BY <1>1, <1>4, <1>5
<1>7. 2 * (b + w) <= StackSize
  BY <1>5, <1>6 DEF StackAssumption
<1>8. 1 + l \in Int
  OBVIOUS
<1>9. Max({1 + l, r}) = 1 + l \/ Max({1 + l, r}) = r
  BY <1>8, MaxOfTwo
<1>10. PICK m : m = Max({1 + l, r})
  OBVIOUS
<1>11. m \in Int /\ m <= 2 * (b + w) + (1 - w)
  BY <1>3, <1>9, <1>10
<1>12. QED
  BY <1>4, <1>7, <1>10, <1>11

(* The stack of clear is large enough for a balanced tree. *)
LEMMA StackFits ==
  ASSUME TreeInv, Coloured(tree, alive), RBTreeAssumption, StackAssumption
  PROVE  ~(StackNeeded > StackSize)
<1>1. PICK sub : Shape(tree, alive, sub, key)
  BY DEF TreeInv, InOrder, Grown
<1>2. Clean(tree, alive)
  BY DEF TreeInv, InOrder, Grown
<1>3. PICK bh : Counted(tree, alive, bh, NULL, "left")
  BY DEF Coloured
<1>4. PICK f : f = CHOOSE g : IsNeed(g)
  OBVIOUS
<1>5. IsNeed(f)
  <2>1. \E g : IsNeed(g)
    BY <1>1, <1>2, NeedExists
  <2>2. QED
    BY <1>4, <2>1
<1>6. /\ tree["left"] = tree.left /\ tree["right"] = tree.right /\ NULL \notin Nodes
      /\ alive \in SUBSET Nodes /\ "left" \in Sides /\ "right" \in Sides
      /\ \A s \in Sides : \A n \in alive : tree[s][n] \in Ref
      /\ tree.root = NULL \/ tree.root \in alive
      /\ \A n \in alive : tree.red[n] \in BOOLEAN
  BY <1>1, SideFields DEF Shape, Typed, Sides, RBTreeAssumption, Rooted, Tree
<1>7. /\ bh \in [Ref -> Nat] /\ bh[NULL] = 0
      /\ \A n \in alive : \A s \in Sides : bh[n] = bh[tree[s][n]] + Weight(tree, n)
  <2>1. \A n \in alive : \A s \in Sides : Owing(n, s, NULL, "left") = 0
    BY <1>6 DEF Owing
  <2>2. \A n \in alive : \A s \in Sides : bh[n] = bh[tree[s][n]] + Weight(tree, n) + Owing(n, s, NULL, "left")
    BY <1>3 DEF Counted
  <2>3. \A n \in alive : Weight(tree, n) \in Nat
    BY DEF Weight
  <2>4. bh \in [Ref -> Nat] /\ bh[NULL] = 0
    BY <1>3 DEF Counted
  <2>5. \A n \in alive : \A s \in Sides : bh[tree[s][n]] \in Nat
    BY <1>6, <2>4
  <2>6. QED
    BY <2>1, <2>2, <2>3, <2>4, <2>5
<1>8. f[NULL] = 0 /\ \A n \in alive : f[n] = Max({1 + f[tree.left[n]], f[tree.right[n]]})
  BY <1>5, <1>6 DEF IsNeed, Ref
<1>9. RedApart(tree, alive) /\ ~Red(tree, tree.root)
  BY DEF Coloured
<1> DEFINE Q(n) == Roomy(f, sub, bh, n)
           S == {n \in alive : Q(n)}
<1>10. Q(NULL)
  <2>1. sub[NULL] = {} /\ Cardinality({}) = 0
    BY <1>1, AliveCounted DEF Shape, Typed
  <2>2. Fewest[0] = 0 /\ StackSize \in Nat
    BY FewestIs DEF RBTreeAssumption
  <2>3. ~Red(tree, NULL)
    BY DEF Red
  <2>4. QED
    BY <1>7, <1>8, <2>1, <2>2, <2>3 DEF Roomy
<1> HIDE DEF Q
<1>11. ASSUME NEW n \in alive, \A s \in Sides : tree[s][n] # NULL => tree[s][n] \in S
       PROVE  n \in S
  <2>1. \A s \in Sides : Q(tree[s][n])
    BY <1>10, <1>11
  <2>2. PICK l : l = tree.left[n]
    OBVIOUS
  <2>3. PICK r : r = tree.right[n]
    OBVIOUS
  <2>4. Q(l) /\ Q(r) /\ l \in Ref /\ r \in Ref
    BY <1>6, <2>1, <2>2, <2>3
  <2>5. PICK b : b = bh[l]
    OBVIOUS
  <2>6. PICK w : w = Weight(tree, n)
    OBVIOUS
  <2>7. w = (IF tree.red[n] THEN 0 ELSE 1) /\ w \in {0, 1} /\ tree.red[n] \in BOOLEAN
    BY <1>6, <2>6 DEF Weight
  <2>8. b \in Nat /\ bh[r] \in Nat /\ bh[n] = b + w /\ bh[n] = bh[r] + w
    BY <1>6, <1>7, <2>2, <2>3, <2>4, <2>5, <2>6
  <2>9. bh[r] = b
    BY <2>7, <2>8
  <2>10. PICK a : a = Cardinality(sub[l])
    OBVIOUS
  <2>11. PICK c : c = Cardinality(sub[r])
    OBVIOUS
  <2>12. a \in Nat /\ c \in Nat /\ Cardinality(sub[n]) = a + 1 + c /\ a + 1 + c <= Cardinality(Nodes)
    <3>1. /\ Cardinality(sub[n]) = Cardinality(sub[tree["left"][n]]) + 1 + Cardinality(sub[tree["right"][n]])
          /\ Cardinality(sub[tree["left"][n]]) \in Nat /\ Cardinality(sub[tree["right"][n]]) \in Nat
      BY <1>1, BelowCounted
    <3>2. /\ Cardinality(sub[n]) <= Cardinality(alive) /\ Cardinality(alive) <= Cardinality(Nodes)
          /\ Cardinality(alive) \in Nat /\ Cardinality(Nodes) \in Nat
      BY <1>1, Lower
    <3>3. a \in Nat /\ c \in Nat /\ Cardinality(sub[n]) = a + 1 + c
      BY <1>6, <2>2, <2>3, <2>10, <2>11, <3>1
    <3>4. QED
      BY <3>2, <3>3
  <2>13. /\ 2 * b <= StackSize /\ Fewest[b] <= a /\ Fewest[b] <= c
         /\ f[l] \in Int /\ f[r] \in Int
         /\ f[l] <= 2 * b + (IF Red(tree, l) THEN 1 ELSE 0)
         /\ f[r] <= 2 * b + (IF Red(tree, r) THEN 1 ELSE 0)
    BY <2>4, <2>5, <2>9, <2>10, <2>11 DEF Roomy, Q
  <2>14. (Red(tree, l) => w = 1) /\ (Red(tree, r) => w = 1)
    <3>1. \A s \in Sides : tree.red[n] => ~Red(tree, tree[s][n])
      BY <1>9 DEF RedApart
    <3>2. tree.red[n] => ~Red(tree, l) /\ ~Red(tree, r)
      BY <1>6, <2>2, <2>3, <3>1
    <3>3. QED
      BY <2>7, <3>2
  <2>15. f[l] <= 2 * b + w /\ f[r] <= 2 * b + w
    <3>1. 2 * b \in Nat
      BY <2>8
    <3>2. f[l] <= 2 * b + w
      <4>1. CASE Red(tree, l)
        BY <2>13, <2>14, <4>1
      <4>2. CASE ~Red(tree, l)
        BY <2>7, <2>13, <3>1, <4>2
      <4>3. QED
        BY <4>1, <4>2
    <3>3. f[r] <= 2 * b + w
      <4>1. CASE Red(tree, r)
        BY <2>13, <2>14, <4>1
      <4>2. CASE ~Red(tree, r)
        BY <2>7, <2>13, <3>1, <4>2
      <4>3. QED
        BY <4>1, <4>2
    <3>4. QED
      BY <3>2, <3>3
  <2>16. PICK red \in BOOLEAN : red = tree.red[n]
    BY <2>7
  <2>17. PICK x \in Int : x = f[l]
    BY <2>13
  <2>18. PICK y \in Int : y = f[r]
    BY <2>13
  <2>19. /\ 2 * (b + w) <= StackSize /\ Fewest[b + w] <= a + 1 + c
         /\ Max({1 + x, y}) \in Int /\ Max({1 + x, y}) <= 2 * (b + w) + (1 - w)
    <3>1. w = (IF red THEN 0 ELSE 1) /\ x <= 2 * b + w /\ y <= 2 * b + w
      BY <2>7, <2>15, <2>16, <2>17, <2>18
    <3>2. QED
      BY <2>8, <2>12, <2>13, <3>1, RoomyAbove
  <2>20. f[n] = Max({1 + x, y})
    BY <1>8, <2>2, <2>3, <2>17, <2>18
  <2>21. 1 - w = IF Red(tree, n) THEN 1 ELSE 0
    <3>1. Red(tree, n) <=> tree.red[n]
      BY <1>6 DEF Red
    <3>2. QED
      BY <2>7, <3>1
  <2>22. Roomy(f, sub, bh, n)
    BY <2>8, <2>12, <2>19, <2>20, <2>21 DEF Roomy
  <2>23. QED
    BY <2>22 DEF Q
<1> HIDE DEF S
<1>12. alive \subseteq S
  BY <1>1, <1>11, TreeInduction
<1>13. Q(tree.root)
  BY <1>6, <1>10, <1>12 DEF S
<1>14. ~(f[tree.root] > StackSize)
  <2>1. tree.root \in Ref
    BY <1>6 DEF Ref
  <2>2. bh[tree.root] \in Nat /\ StackSize \in Nat
    BY <1>7, <2>1 DEF RBTreeAssumption
  <2>3. 2 * bh[tree.root] <= StackSize /\ f[tree.root] \in Int /\ f[tree.root] <= 2 * bh[tree.root]
    BY <1>9, <1>13, <2>2 DEF Roomy, Q
  <2>4. QED
    BY <2>2, <2>3
<1>15. StackNeeded = f[tree.root]
  <2>1. StackNeeded = (CHOOSE g : IsNeed(g))[tree.root]
    BY Zenon DEF StackNeeded, IsNeed
  <2>2. QED
    BY <1>4, <2>1
<1>16. QED
  BY <1>14, <1>15

(* A step that follows a bad pointer takes the last node, or delete has    *)
(* gone astray.                                                            *)
LEMMA NextMemory ==
  ASSUME RBTreeAssumption, StackAssumption, TreeInv, TreeInv', ColourInv, MemorySafe, [Next]_vars
  PROVE  MemorySafe'
<1>1. ASSUME UNCHANGED fault, ~fault PROVE MemorySafe'
  BY <1>1 DEF MemorySafe
<1>2. CASE UNCHANGED vars
  BY <1>2 DEF vars, MemorySafe
<1>3. ASSUME NEW op, Empty(op) PROVE MemorySafe'
  <2>0. ~fault
    BY <1>3 DEF Empty, Live
  <2>1. CASE StackNeeded > StackSize
    <3>1. astray' = astray
      BY <1>3, <2>1 DEF Empty
    <3>2. CASE astray
      BY <3>1, <3>2 DEF MemorySafe
    <3>3. CASE ~astray
      <4>1. Coloured(tree, alive)
        BY <3>3 DEF ColourInv
      <4>2. ~(StackNeeded > StackSize)
        BY <4>1, StackFits
      <4>3. QED
        BY <2>1, <4>2
    <3>4. QED
      BY <3>2, <3>3
  <2>2. CASE ~(StackNeeded > StackSize)
    BY <1>1, <1>3, <2>0, <2>2 DEF Empty
  <2>3. QED
    BY <2>1, <2>2
<1>4. CASE Next
  <2>1. CASE Create \/ Extremes
    BY <1>1, <2>1 DEF Create, Extremes, Live, Keep
  <2>2. CASE \E op \in {"clear", "destroy"} : Empty(op)
    BY <1>3, <2>2
  <2>3. CASE \E op \in {"inorder", "preorder", "postorder"} : Traverse(op)
    BY <1>1, <2>3 DEF Traverse, Live, Keep
  <2>4. CASE \E k \in Keys : \/ Delete(k) \/ Search(k) \/ Bounds(k)
                             \/ \E v \in Elem : Insert(k, v) \/ Update(k, v)
    <3>1. PICK k \in Keys : \/ Delete(k) \/ Search(k) \/ Bounds(k)
                            \/ \E v \in Elem : Insert(k, v) \/ Update(k, v)
      BY <2>4
    <3>2. CASE Delete(k)
      <4>1. ~fault
        BY <3>2 DEF Delete, Live
      <4>2. fault' => astray' \/ count' = 1
        BY <3>2, <4>1, DeleteColours
      <4>3. QED
        BY <4>2 DEF MemorySafe
    <3>3. CASE Search(k) \/ Bounds(k)
      BY <1>1, <3>3 DEF Search, Bounds, Live, Keep
    <3>4. ASSUME NEW v \in Elem, Insert(k, v) PROVE MemorySafe'
      BY <1>1, <3>4 DEF Insert, Live
    <3>5. ASSUME NEW v \in Elem, Update(k, v) PROVE MemorySafe'
      BY <1>1, <3>5 DEF Update, Live
    <3>6. QED
      BY <3>1, <3>2, <3>3, <3>4, <3>5
  <2>5. QED
    BY <1>4, <2>1, <2>2, <2>3, <2>4 DEF Next
<1>5. QED
  BY <1>2, <1>4

(* No call follows NULL or overruns the stack of clear, unless delete has  *)
(* told erase_fixup the wrong parent or takes the last node.               *)
THEOREM MemorySafeHolds == Spec => []MemorySafe
<1>1. Init => MemorySafe
  BY DEF Init, MemorySafe
<1>2. TreeInv /\ TreeInv' /\ ColourInv /\ MemorySafe /\ [Next]_vars => MemorySafe'
  BY NextMemory, RBTreeAssumption, StackAssumption
<1>3. QED
  BY <1>1, <1>2, ColoursRight, TreeInvariant, PTL DEF Spec
===============================================================================
