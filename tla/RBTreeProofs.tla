------------------------------ MODULE RBTreeProofs -----------------------------
(***************************************************************************)
(* Proofs about the red-black tree, for every number of nodes, keys and    *)
(* values.  The tree is described by sub, the nodes below each node: they  *)
(* make the recursions of the module well founded, and every rotation,     *)
(* replacement and colour change is shown to lead from one such tree to    *)
(* another.                                                                *)
(***************************************************************************)
EXTENDS RBTree, SequenceLemmas, TLAPS


Sides == {"left", "right"}

Tree == [root : Ref, left : [Nodes -> Ref], right : [Nodes -> Ref],
         parent : [Nodes -> Ref], red : [Nodes -> BOOLEAN], bad : BOOLEAN]

(* The fields of a tree, and its two link fields by the name of their side. *)
LEMMA SideFields ==
  ASSUME NEW t \in Tree
  PROVE  /\ t["left"] = t.left /\ t["right"] = t.right
         /\ \A side \in Sides : t[side] \in [Nodes -> Ref]
         /\ t.root \in Ref /\ t.parent \in [Nodes -> Ref] /\ t.red \in [Nodes -> BOOLEAN]
         /\ t.bad \in BOOLEAN
BY DEF Tree, Sides

(* A store to a child link changes that link and nothing else. *)
LEMMA SetSide ==
  ASSUME NEW t \in Tree, NEW side \in Sides, NEW n \in Nodes, NEW v \in Ref
  PROVE  LET r == [t EXCEPT ![side][n] = v] IN
         /\ r \in Tree /\ r.root = t.root /\ r.parent = t.parent /\ r.red = t.red /\ r.bad = t.bad
         /\ \A s \in Sides : \A m \in Nodes :
              r[s][m] = IF s = side /\ m = n THEN v ELSE t[s][m]
<1>1. CASE side = "left"
  BY <1>1 DEF Tree, Sides
<1>2. CASE side = "right"
  BY <1>2 DEF Tree, Sides
<1>3. QED
  BY <1>1, <1>2 DEF Sides

(* A store to a parent link changes that link and nothing else. *)
LEMMA SetParentIs ==
  ASSUME NEW t \in Tree, NEW n \in Nodes, NEW v \in Ref
  PROVE  LET r == [t EXCEPT !.parent[n] = v] IN
         /\ r \in Tree /\ r.root = t.root /\ r.red = t.red /\ r.bad = t.bad
         /\ \A s \in Sides : r[s] = t[s]
         /\ \A m \in Nodes : r.parent[m] = IF m = n THEN v ELSE t.parent[m]
BY DEF Tree, Sides

(* A store to the root changes the root and nothing else. *)
LEMMA SetRootIs ==
  ASSUME NEW t \in Tree, NEW v \in Ref
  PROVE  LET r == [t EXCEPT !.root = v] IN
         /\ r \in Tree /\ r.root = v /\ r.parent = t.parent /\ r.red = t.red /\ r.bad = t.bad
         /\ \A s \in Sides : r[s] = t[s]
BY DEF Tree, Sides

(* A store to a colour changes that colour and nothing else. *)
LEMMA PaintIs ==
  ASSUME NEW t \in Tree, NEW n \in Nodes, NEW c \in BOOLEAN
  PROVE  LET r == [t EXCEPT !.red[n] = c] IN
         /\ r \in Tree /\ r.root = t.root /\ r.parent = t.parent /\ r.bad = t.bad
         /\ \A s \in Sides : r[s] = t[s]
         /\ \A m \in Nodes : r.red[m] = IF m = n THEN c ELSE t.red[m]
BY DEF Tree, Sides

(* The links of r are those of t but for the one from u's parent to u,     *)
(* which leads to v.                                                       *)
Relinked(t, r, u, v) ==
  /\ r \in Tree /\ r.parent = t.parent /\ r.red = t.red /\ r.bad = t.bad
  /\ r.root = IF t.parent[u] = NULL THEN v ELSE t.root
  /\ \A s \in Sides : \A m \in Nodes :
       r[s][m] = IF m = t.parent[u] /\ t[s][m] = u THEN v ELSE t[s][m]

(* Relink changes the one link that leads to u, if u hangs on its parent   *)
(* once.                                                                   *)
LEMMA RelinkIs ==
  ASSUME NEW t \in Tree, NEW u \in Nodes, NEW v \in Ref, RBTreeAssumption,
         t.parent[u] # NULL => \E s \in Sides : t[s][t.parent[u]] = u /\ t[Other(s)][t.parent[u]] # u
  PROVE  Relinked(t, Relink(t, u, v), u, v)
<1> DEFINE p == t.parent[u]
<1>0. p \in Ref /\ NULL \notin Nodes
  BY SideFields DEF RBTreeAssumption
<1>1. CASE p = NULL
  <2>1. Relink(t, u, v) = [t EXCEPT !.root = v]
    BY <1>1 DEF Relink
  <2>2. QED
    BY <1>0, <1>1, <2>1, SetRootIs DEF Relinked
<1>2. CASE p # NULL /\ u = t.left[p]
  <2>1. Relink(t, u, v) = [t EXCEPT !["left"][p] = v]
    BY <1>2 DEF Relink
  <2>2. p \in Nodes /\ t["right"][p] # u /\ t["left"][p] = u
    BY <1>0, <1>2, SideFields DEF Ref, Sides, Other
  <2>3. QED
    <3> DEFINE r == [t EXCEPT !["left"][p] = v]
    <3>1. /\ r \in Tree /\ r.root = t.root /\ r.parent = t.parent /\ r.red = t.red
          /\ r.bad = t.bad
          /\ \A s \in Sides : \A m \in Nodes :
               r[s][m] = IF s = "left" /\ m = p THEN v ELSE t[s][m]
      BY <2>2, SetSide DEF Sides
    <3> HIDE DEF r
    <3>2. Relinked(t, r, u, v)
      BY <1>0, <1>2, <2>2, <3>1 DEF Relinked, Sides
    <3>3. QED
      BY <2>1, <3>2 DEF r
<1>3. CASE p # NULL /\ u # t.left[p]
  <2>1. Relink(t, u, v) = [t EXCEPT !["right"][p] = v]
    BY <1>3 DEF Relink
  <2>2. p \in Nodes /\ t["right"][p] = u /\ t["left"][p] # u
    BY <1>0, <1>3, SideFields DEF Ref, Sides, Other
  <2>3. QED
    <3> DEFINE r == [t EXCEPT !["right"][p] = v]
    <3>1. /\ r \in Tree /\ r.root = t.root /\ r.parent = t.parent /\ r.red = t.red
          /\ r.bad = t.bad
          /\ \A s \in Sides : \A m \in Nodes :
               r[s][m] = IF s = "right" /\ m = p THEN v ELSE t[s][m]
      BY <2>2, SetSide DEF Sides
    <3> HIDE DEF r
    <3>2. Relinked(t, r, u, v)
      BY <1>0, <1>3, <2>2, <3>1 DEF Relinked, Sides
    <3>3. QED
      BY <2>1, <3>2 DEF r
<1>4. QED
  BY <1>1, <1>2, <1>3

(* Node a lies on this side of node b. *)
Toward(side, ky, a, b) == IF side = "left" THEN ky[a] < ky[b] ELSE ky[b] < ky[a]

Typed(t, A, sub, ky) ==
  /\ t \in Tree /\ A \in SUBSET Nodes /\ sub \in [Ref -> SUBSET A] /\ sub[NULL] = {}
  /\ \A n \in A : ky[n] \in Int

Rooted(t, A, sub) ==
  /\ sub[t.root] = A
  /\ t.root # NULL => t.root \in A /\ t.parent[t.root] = NULL

(* Links down and links up agree. *)
LinksDown(t, A) ==
  \A n \in A : \A s \in Sides : t[s][n] # NULL => t[s][n] \in A /\ t.parent[t[s][n]] = n

LinksUp(t, A) ==
  /\ \A n \in A : t.parent[n] = NULL => n = t.root
  /\ \A n \in A : t.parent[n] # NULL =>
       t.parent[n] \in A /\ \E s \in Sides : t[s][t.parent[n]] = n

(* sub[n] is n and what is below it. *)
Splits(t, A, sub) ==
  \A n \in A : sub[n] = {n} \cup sub[t["left"][n]] \cup sub[t["right"][n]]

Ordered(t, A, sub, ky) ==
  \A n \in A : \A s \in Sides : \A m \in sub[t[s][n]] : Toward(s, ky, m, n)

Shape(t, A, sub, ky) ==
  /\ Typed(t, A, sub, ky) /\ Rooted(t, A, sub) /\ LinksDown(t, A) /\ LinksUp(t, A)
  /\ Splits(t, A, sub) /\ Ordered(t, A, sub, ky)

(* There are two sides, each the other's other. *)
LEMMA OtherSide ==
  /\ \A s \in Sides : Other(s) \in Sides /\ Other(s) # s /\ Other(Other(s)) = s
  /\ \A s, u \in Sides : u # s => u = Other(s)
BY DEF Sides, Other

(* Toward is the order of the keys, read from either side. *)
LEMMA TowardIs ==
  ASSUME NEW ky, NEW a, NEW b, ky[a] \in Int, ky[b] \in Int, NEW s \in Sides
  PROVE  /\ Toward(s, ky, a, b) <=> Toward(Other(s), ky, b, a)
         /\ ~(Toward(s, ky, a, b) /\ Toward(Other(s), ky, a, b))
         /\ ~Toward(s, ky, a, a)
         /\ a # b /\ ky[a] # ky[b] => Toward(s, ky, a, b) \/ Toward(Other(s), ky, a, b)
BY DEF Toward, Sides, Other

(* Toward is transitive, as the order of the keys is. *)
LEMMA TowardTransitive ==
  ASSUME NEW ky, NEW a, NEW b, NEW c, ky[a] \in Int, ky[b] \in Int, ky[c] \in Int, NEW s \in Sides,
         Toward(s, ky, a, b), Toward(s, ky, b, c)
  PROVE  Toward(s, ky, a, c)
BY DEF Toward, Sides

(* The two sides of a node: what hangs there, and that it is apart. *)
LEMMA Children ==
  ASSUME NEW t, NEW A, NEW sub, NEW ky, Shape(t, A, sub, ky), RBTreeAssumption,
         NEW n \in A, NEW s \in Sides
  PROVE  /\ n \in Nodes /\ n # NULL /\ sub[n] \in SUBSET A /\ ky[n] \in Int
         /\ t[s][n] \in Ref /\ sub[t[s][n]] \in SUBSET A
         /\ t[s][n] # NULL => t[s][n] \in A /\ t[s][n] \in sub[t[s][n]] /\ t.parent[t[s][n]] = n
                              /\ t[s][n] # n /\ t[Other(s)][n] # t[s][n]
         /\ sub[n] = {n} \cup sub[t[s][n]] \cup sub[t[Other(s)][n]]
         /\ n \notin sub[t[s][n]]
         /\ sub[t[s][n]] \cap sub[t[Other(s)][n]] = {}
<1> USE DEF Shape
<1>1. n \in Nodes /\ n # NULL /\ sub[n] \in SUBSET A /\ ky[n] \in Int
  BY DEF Typed, Ref, RBTreeAssumption
<1>2. t[s][n] \in Ref /\ t[Other(s)][n] \in Ref
  BY <1>1, SideFields, OtherSide DEF Typed
<1>3. sub[t[s][n]] \in SUBSET A /\ sub[t[Other(s)][n]] \in SUBSET A
  BY <1>2 DEF Typed
<1>4. \A m \in A : m \in sub[m]
  BY DEF Splits
<1>5. sub[n] = {n} \cup sub[t[s][n]] \cup sub[t[Other(s)][n]]
  BY DEF Splits, Sides, Other
<1>6. \A m \in A : ky[m] \in Int
  BY DEF Typed
<1>7. /\ \A m \in sub[t[s][n]] : Toward(s, ky, m, n)
      /\ \A m \in sub[t[Other(s)][n]] : Toward(Other(s), ky, m, n)
  BY OtherSide DEF Ordered
<1>8. n \notin sub[t[s][n]]
  BY <1>6, <1>7, TowardIs
<1>9. sub[t[s][n]] \cap sub[t[Other(s)][n]] = {}
  BY <1>3, <1>6, <1>7, TowardIs
<1>10. t[s][n] # NULL => t[s][n] \in A /\ t.parent[t[s][n]] = n
  BY DEF LinksDown
<1> HIDE DEF Shape
<1>11. QED
  BY <1>1, <1>2, <1>3, <1>4, <1>5, <1>8, <1>9, <1>10

(* A node hangs on one side of its parent and not on the other. *)
LEMMA OneSide ==
  ASSUME NEW t, NEW A, NEW sub, NEW ky, Shape(t, A, sub, ky), RBTreeAssumption,
         NEW n \in A, t.parent[n] # NULL
  PROVE  /\ t.parent[n] \in A /\ t.parent[n] # n
         /\ \E s \in Sides : t[s][t.parent[n]] = n /\ t[Other(s)][t.parent[n]] # n
<1>1. PICK s \in Sides : t[s][t.parent[n]] = n
  BY DEF Shape, LinksUp
<1>2. t.parent[n] \in A /\ n # NULL
  BY Children DEF Shape, LinksUp, Sides
<1>3. QED
  BY <1>1, <1>2, Children

HangsOnce(t, u) ==
  t.parent[u] # NULL => \E s \in Sides : t[s][t.parent[u]] = u /\ t[Other(s)][t.parent[u]] # u

(* v has taken the place of u below u's parent. *)
Transplanted(t, r, u, v) ==
  /\ r \in Tree /\ r.red = t.red /\ r.bad = t.bad
  /\ r.root = IF t.parent[u] = NULL THEN v ELSE t.root
  /\ \A s \in Sides : \A m \in Nodes :
       r[s][m] = IF m = t.parent[u] /\ t[s][m] = u THEN v ELSE t[s][m]
  /\ \A m \in Nodes : r.parent[m] = IF m = v THEN t.parent[u] ELSE t.parent[m]

(* What rbtree_transplant does, for a node that hangs on its parent once. *)
LEMMA TransplantIs ==
  ASSUME NEW t \in Tree, NEW u \in Nodes, NEW v \in Ref, RBTreeAssumption, HangsOnce(t, u)
  PROVE  Transplanted(t, Transplant(t, u, v), u, v)
<1> DEFINE p == t.parent[u]
           r == Relink(t, u, v)
<1>1. Relinked(t, r, u, v)
  BY RelinkIs DEF HangsOnce
<1>2. p \in Ref
  BY SideFields
<1> HIDE DEF r
<1>3. CASE v = NULL
  <2>1. SetParent(r, v, p) = r
    BY <1>3 DEF SetParent
  <2>2. QED
    BY <1>1, <1>3, <2>1 DEF Relinked, Transplanted, Transplant, r, RBTreeAssumption
<1>4. CASE v # NULL
  <2> DEFINE q == [r EXCEPT !.parent[v] = p]
  <2>0. v \in Nodes /\ r \in Tree
    BY <1>1, <1>4 DEF Ref, Relinked
  <2>1. SetParent(r, v, p) = q
    BY <1>4 DEF SetParent
  <2>2. /\ q \in Tree /\ q.root = r.root /\ q.red = r.red /\ q.bad = r.bad
        /\ \A s \in Sides : q[s] = r[s]
        /\ \A m \in Nodes : q.parent[m] = IF m = v THEN p ELSE r.parent[m]
    BY <1>2, <2>0, SetParentIs
  <2> HIDE DEF q
  <2>3. Transplanted(t, q, u, v)
    BY <1>1, <2>2 DEF Relinked, Transplanted
  <2>4. QED
    BY <2>1, <2>3 DEF Transplant, r
<1>5. QED
  BY <1>3, <1>4

(* y, the child of x on side up, has taken the place of x. *)
Rotated(t, r, x, y, up) ==
  /\ r \in Tree /\ r.red = t.red /\ r.bad = t.bad
  /\ r.root = IF t.parent[x] = NULL THEN y ELSE t.root
  /\ \A s \in Sides : \A m \in Nodes :
       r[s][m] = IF m = x /\ s = up THEN t[Other(up)][y]
                 ELSE IF m = y /\ s # up THEN x
                 ELSE IF m = t.parent[x] /\ t[s][m] = x THEN y
                 ELSE t[s][m]
  /\ \A m \in Nodes :
       r.parent[m] = IF m = x THEN y
                     ELSE IF m = y THEN t.parent[x]
                     ELSE IF m = t[Other(up)][y] THEN x
                     ELSE t.parent[m]

(* What a rotation of rbtree.c does, link by link, below a child that is   *)
(* there.                                                                  *)
LEMMA RotateIs ==
  ASSUME NEW t, NEW A, NEW sub, NEW ky, Shape(t, A, sub, ky), RBTreeAssumption,
         NEW x \in A, NEW up \in Sides, t[up][x] # NULL
  PROVE  Rotated(t, Rotate(t, x, up), x, t[up][x], up)
<1> DEFINE down  == Other(up)
           y     == t[up][x]
           inner == t[down][y]
           t0    == [t EXCEPT ![up][x] = inner]
           t1    == SetParent(t0, inner, x)
           t2    == Transplant(t1, x, y)
           r     == [t2 EXCEPT ![down][y] = x, !.parent[x] = y]
<1>1. Rotate(t, x, up) = r
  <2>1. x # NULL
    BY Children
  <2>2. QED
    BY <2>1 DEF Rotate
<1>2. t \in Tree /\ x \in Nodes /\ y \in Nodes /\ y \in A /\ x # y /\ down \in Sides /\ x # NULL
      /\ y # NULL /\ down # up
  BY Children, OtherSide DEF Shape, Typed
<1>3. inner \in Ref /\ inner # x /\ inner # y /\ t.parent[x] # x /\ t.parent[x] # y
      /\ (inner # NULL => inner \in Nodes /\ t.parent[inner] = y)
  <2>1. inner \in Ref /\ inner # y /\ (inner # NULL => inner \in A /\ inner \in sub[inner])
    BY <1>2, Children
  <2>2. sub[inner] \subseteq sub[y] /\ x \notin sub[y]
    BY <1>2, Children
  <2>3. inner # NULL => inner \in Nodes /\ t.parent[inner] = y
    BY <1>2, <2>1, Children
  <2>4. t.parent[y] = x
    BY <1>2, Children
  <2>5. t.parent[x] # NULL => t.parent[x] # x /\ t.parent[x] \in A
    BY OneSide
  <2>6. t.parent[x] # y
    <3>1. SUFFICES ASSUME t.parent[x] = y PROVE FALSE
      OBVIOUS
    <3>2. PICK s \in Sides : t[s][y] = x
      BY <1>2, <3>1, OneSide
    <3>3. x \in sub[x] /\ sub[x] \subseteq sub[y]
      BY <1>2, <3>2, Children
    <3>4. QED
      BY <2>2, <3>3
  <2>7. QED
    BY <1>2, <2>1, <2>2, <2>3, <2>5, <2>6
<1>4. HangsOnce(t, x)
  BY OneSide DEF HangsOnce
<1> HIDE DEF y, inner, down
<1>5. /\ t0 \in Tree /\ t0.root = t.root /\ t0.parent = t.parent /\ t0.red = t.red /\ t0.bad = t.bad
      /\ \A s \in Sides : \A m \in Nodes :
           t0[s][m] = IF s = up /\ m = x THEN inner ELSE t[s][m]
  BY <1>2, <1>3, SetSide
<1> HIDE DEF t0
<1>6. /\ t1 \in Tree /\ t1.root = t.root /\ t1.red = t.red /\ t1.bad = t.bad
      /\ \A s \in Sides : t1[s] = t0[s]
      /\ \A m \in Nodes : t1.parent[m] = IF m = inner THEN x ELSE t.parent[m]
  <2>1. CASE inner = NULL
    BY <1>5, <2>1 DEF SetParent, RBTreeAssumption
  <2>2. CASE inner # NULL
    <3>1. t1 = [t0 EXCEPT !.parent[inner] = x] /\ inner \in Nodes /\ x \in Ref
      BY <1>2, <1>3, <2>2 DEF SetParent, Ref
    <3>2. QED
      BY <1>5, <3>1, SetParentIs
  <2>3. QED
    BY <2>1, <2>2
<1> HIDE DEF t1
<1>7. t1.parent[x] = t.parent[x] /\ t.parent[x] \in Ref
  BY <1>2, <1>3, <1>6, SideFields
<1>8. HangsOnce(t1, x)
  BY <1>2, <1>3, <1>4, <1>5, <1>6, <1>7, OtherSide DEF HangsOnce, Ref
<1>9. Transplanted(t1, t2, x, y)
  BY <1>2, <1>6, <1>8, TransplantIs DEF Ref
<1> HIDE DEF t2
<1> DEFINE t3 == [t2 EXCEPT ![down][y] = x]
<1>10. /\ t3 \in Tree /\ t3.root = t2.root /\ t3.parent = t2.parent /\ t3.red = t2.red
       /\ t3.bad = t2.bad
       /\ \A s \in Sides : \A m \in Nodes :
            t3[s][m] = IF s = down /\ m = y THEN x ELSE t2[s][m]
  <2>1. t2 \in Tree /\ x \in Ref
    BY <1>2, <1>9 DEF Ref, Transplanted
  <2>2. QED
    BY <1>2, <2>1, SetSide
<1>11. r = [t3 EXCEPT !.parent[x] = y]
  OBVIOUS
<1> HIDE DEF t3, r
<1>12. /\ r \in Tree /\ r.root = t3.root /\ r.red = t3.red /\ r.bad = t3.bad
       /\ \A s \in Sides : r[s] = t3[s]
       /\ \A m \in Nodes : r.parent[m] = IF m = x THEN y ELSE t3.parent[m]
  BY <1>2, <1>10, <1>11, SetParentIs DEF Ref
<1>13. Rotated(t, r, x, y, up)
  <2>1. r.red = t.red /\ r.bad = t.bad /\ r.root = IF t.parent[x] = NULL THEN y ELSE t.root
    BY <1>6, <1>7, <1>9, <1>10, <1>12 DEF Transplanted
  <2>2. ASSUME NEW s \in Sides, NEW m \in Nodes
        PROVE  r[s][m] = IF m = x /\ s = up THEN inner
                         ELSE IF m = y /\ s # up THEN x
                         ELSE IF m = t.parent[x] /\ t[s][m] = x THEN y
                         ELSE t[s][m]
    <3>1. r[s][m] = IF s = down /\ m = y THEN x ELSE t2[s][m]
      BY <1>10, <1>12
    <3>2. t2[s][m] = IF m = t.parent[x] /\ t1[s][m] = x THEN y ELSE t1[s][m]
      BY <1>7, <1>9 DEF Transplanted
    <3>3. t1[s][m] = IF s = up /\ m = x THEN inner ELSE t[s][m]
      BY <1>5, <1>6
    <3>4. s # up <=> s = down
      BY <1>2, OtherSide DEF down
    <3>5. QED
      BY <1>2, <1>3, <3>1, <3>2, <3>3, <3>4
  <2>3. ASSUME NEW m \in Nodes
        PROVE  r.parent[m] = IF m = x THEN y
                             ELSE IF m = y THEN t.parent[x]
                             ELSE IF m = inner THEN x
                             ELSE t.parent[m]
    BY <1>3, <1>6, <1>7, <1>9, <1>10, <1>12 DEF Transplanted
  <2>4. QED
    BY <1>12, <2>1, <2>2, <2>3 DEF Rotated, inner, down
<1>14. QED
  BY <1>1, <1>13 DEF y

(* What is below which node after a rotation. *)
SubRotated(t, sub, x, y, up) ==
  [sub EXCEPT ![y] = sub[x],
              ![x] = {x} \cup sub[t[Other(up)][x]] \cup sub[t[Other(up)][y]]]

(* A rotation turns a search tree into a search tree of the same nodes. *)
LEMMA RotatedShape ==
  ASSUME NEW t, NEW A, NEW sub, NEW ky, Shape(t, A, sub, ky), RBTreeAssumption,
         NEW x \in A, NEW up \in Sides, t[up][x] # NULL,
         NEW r, Rotated(t, r, x, t[up][x], up)
  PROVE  Shape(r, A, SubRotated(t, sub, x, t[up][x], up), ky)
<1> DEFINE down  == Other(up)
           y     == t[up][x]
           inner == t[down][y]
           outer == t[up][y]
           low   == t[down][x]
           p     == t.parent[x]
           new   == SubRotated(t, sub, x, t[up][x], up)
<1>1. /\ t \in Tree /\ A \in SUBSET Nodes /\ NULL \notin A
      /\ down \in Sides /\ down # up /\ Other(down) = up
      /\ x \in A /\ y \in A /\ x # y /\ p # x /\ p # y /\ x \notin sub[y]
      /\ t.parent[y] = x /\ low # y /\ x \in sub[x] /\ y \in sub[y] /\ y \in sub[x]
  <2>1. t \in Tree /\ A \in SUBSET Nodes /\ NULL \notin A
    BY DEF Shape, Typed, RBTreeAssumption
  <2>2. down \in Sides /\ down # up /\ Other(down) = up
    BY OtherSide
  <2>3. y \in A /\ x # y /\ t.parent[y] = x /\ x \notin sub[y] /\ low # y /\ y \in sub[y]
        /\ y \in sub[x] /\ x \in sub[x]
    BY Children
  <2>4. p # x
    BY <2>1, OneSide
  <2>5. p # y
    <3>1. SUFFICES ASSUME p = y PROVE FALSE
      OBVIOUS
    <3>2. PICK s \in Sides : t[s][y] = x
      BY <2>1, <2>3, <3>1, OneSide
    <3>3. x \in sub[x] /\ sub[x] \subseteq sub[y]
      BY <2>3, <3>2, Children
    <3>4. QED
      BY <2>3, <3>3
  <2>6. QED
    BY <2>1, <2>2, <2>3, <2>4, <2>5
<1>2. /\ sub[x] = {x} \cup sub[low] \cup sub[y]
      /\ sub[y] = {y} \cup sub[inner] \cup sub[outer]
      /\ sub[low] \in SUBSET A /\ sub[inner] \in SUBSET A /\ sub[outer] \in SUBSET A
      /\ y \notin sub[low]
  <2>1. /\ sub[x] = {x} \cup sub[y] \cup sub[low] /\ sub[low] \in SUBSET A
        /\ sub[y] \cap sub[low] = {}
    BY <1>1, Children
  <2>2. /\ sub[y] = {y} \cup sub[outer] \cup sub[inner] /\ sub[inner] \in SUBSET A
        /\ sub[outer] \in SUBSET A
    BY <1>1, Children
  <2>3. QED
    BY <1>1, <2>1, <2>2
<1>3. /\ low \in Ref /\ inner \in Ref /\ outer \in Ref
      /\ (low # NULL => low \in A /\ t.parent[low] = x)
      /\ (inner # NULL => inner \in A /\ t.parent[inner] = y)
      /\ (outer # NULL => outer \in A /\ t.parent[outer] = y)
      /\ inner # x /\ inner # y /\ outer # x /\ outer # y /\ low # x /\ (inner # NULL => inner # outer)
  BY <1>1, <1>2, Children
<1>4. /\ sub \in [Ref -> SUBSET A] /\ sub[NULL] = {}
      /\ \A n \in A : ky[n] \in Int
      /\ sub[t.root] = A /\ t.root \in Ref
      /\ (t.root # NULL => t.root \in A /\ t.parent[t.root] = NULL)
  BY SideFields DEF Shape, Typed, Rooted
<1>5. /\ new \in [Ref -> SUBSET A] /\ new[NULL] = {}
      /\ new[y] = sub[x] /\ new[x] = {x} \cup sub[low] \cup sub[inner]
      /\ \A n \in Ref : n # x /\ n # y => new[n] = sub[n]
  <2>1. x \in Ref /\ y \in Ref /\ sub[x] \in SUBSET A
        /\ {x} \cup sub[low] \cup sub[inner] \in SUBSET A
    BY <1>1, <1>2, <1>4 DEF Ref
  <2>2. NULL \in Ref /\ NULL # x /\ NULL # y
    BY <1>1 DEF Ref
  <2>3. QED
    BY <1>1, <1>4, <2>1, <2>2 DEF SubRotated
<1>r. /\ r \in Tree /\ r.root = IF p = NULL THEN y ELSE t.root
      /\ \A s \in Sides : \A m \in Nodes :
           r[s][m] = IF m = x /\ s = up THEN inner
                     ELSE IF m = y /\ s # up THEN x
                     ELSE IF m = p /\ t[s][m] = x THEN y
                     ELSE t[s][m]
      /\ \A m \in Nodes :
           r.parent[m] = IF m = x THEN y
                         ELSE IF m = y THEN p
                         ELSE IF m = inner THEN x
                         ELSE t.parent[m]
  BY DEF Rotated
<1>c. /\ r[up][x] = inner /\ r[down][x] = low /\ r[up][y] = outer /\ r[down][y] = x
      /\ \A n \in A : \A s \in Sides : n # x /\ n # y =>
           r[s][n] = IF t[s][n] = x THEN y ELSE t[s][n]
  <2>1. \A n \in A : \A s \in Sides : t[s][n] = x => n = p
    BY <1>1, Children
  <2>2. QED
    BY <1>1, <1>3, <1>r, <2>1
<1> HIDE DEF y, inner, outer, low, p, new, down
<1>s. \A s \in Sides : s = up \/ s = down
  BY OtherSide DEF down
<1>6. Typed(r, A, new, ky)
  BY <1>1, <1>4, <1>5, <1>r DEF Typed
<1>7. Rooted(r, A, new)
  <2>1. CASE p = NULL
    <3>1. x = t.root
      BY <1>1, <2>1 DEF Shape, LinksUp, p
    <3>2. QED
      BY <1>1, <1>4, <1>5, <1>r, <2>1, <3>1 DEF Rooted
  <2>2. CASE p # NULL
    <3>1. t.root # x /\ t.root # y
      BY <1>1, <1>4, <2>2 DEF p
    <3>2. t.root # NULL => t.root # inner
      <4>1. t.root # NULL /\ t.root = inner => t.parent[t.root] = y /\ y # NULL
        BY <1>1, <1>3
      <4>2. QED
        BY <1>4, <4>1
    <3>3. t.root # NULL => r.parent[t.root] = NULL
      BY <1>1, <1>4, <1>r, <3>1, <3>2
    <3>4. QED
      BY <1>1, <1>4, <1>5, <1>r, <2>2, <3>1, <3>3 DEF Rooted
  <2>3. QED
    BY <2>1, <2>2
<1>8. LinksDown(r, A)
  <2> SUFFICES ASSUME NEW n \in A, NEW s \in Sides, r[s][n] # NULL
               PROVE  r[s][n] \in A /\ r.parent[r[s][n]] = n
    BY DEF LinksDown
  <2>1. CASE n = x
    BY <1>1, <1>3, <1>r, <1>c, <1>s, <2>1
  <2>2. CASE n = y
    BY <1>1, <1>3, <1>r, <1>c, <1>s, <2>2
  <2>3. CASE n # x /\ n # y
    <3>1. t[s][n] # NULL /\ t[s][n] \in A /\ t.parent[t[s][n]] = n
      BY <1>1, <1>c, <2>3 DEF Shape, LinksDown
    <3>2. CASE t[s][n] = x
      BY <1>1, <1>r, <1>c, <2>3, <3>1, <3>2 DEF p
    <3>3. CASE t[s][n] # x
      BY <1>1, <1>3, <1>r, <1>c, <2>3, <3>1, <3>3
    <3>4. QED
      BY <3>2, <3>3
  <2>4. QED
    BY <2>1, <2>2, <2>3
<1>9. LinksUp(r, A)
  <2> SUFFICES ASSUME NEW n \in A
               PROVE  /\ r.parent[n] = NULL => n = r.root
                      /\ r.parent[n] # NULL => r.parent[n] \in A /\ \E s \in Sides : r[s][r.parent[n]] = n
    BY DEF LinksUp
  <2>0. /\ t.parent[n] = NULL => n = t.root
        /\ t.parent[n] # NULL => t.parent[n] \in A /\ \E s \in Sides : t[s][t.parent[n]] = n
    BY DEF Shape, LinksUp
  <2>1. CASE n = x
    BY <1>1, <1>r, <1>c, <2>1
  <2>2. CASE n = y
    <3>1. r.parent[n] = p
      BY <1>1, <1>r, <2>2
    <3>2. p # NULL => p \in A /\ \E s \in Sides : t[s][p] = x
      BY DEF Shape, LinksUp, p
    <3>3. p # NULL => \E s \in Sides : r[s][p] = y
      BY <1>1, <1>c, <3>2
    <3>4. QED
      BY <1>r, <2>2, <3>1, <3>2, <3>3
  <2>3. CASE n # x /\ n # y /\ n = inner
    BY <1>1, <1>r, <1>c, <2>3
  <2>4. CASE n # x /\ n # y /\ n # inner
    <3>1. r.parent[n] = t.parent[n]
      BY <1>1, <1>r, <2>4
    <3>2. CASE t.parent[n] = NULL
      BY <1>1, <1>r, <2>0, <2>4, <3>1, <3>2 DEF p, Shape, LinksUp
    <3>3. CASE t.parent[n] # NULL
      <4>1. PICK s \in Sides : t[s][t.parent[n]] = n
        BY <2>0, <3>3
      <4>2. CASE t.parent[n] = x
        <5>1. s = down
          BY <1>s, <2>4, <4>1, <4>2 DEF y
        <5>2. QED
          BY <1>1, <1>c, <2>0, <3>1, <3>3, <4>1, <4>2, <5>1 DEF low
      <4>3. CASE t.parent[n] = y
        <5>1. s = up
          BY <1>s, <2>4, <4>1, <4>3 DEF inner
        <5>2. QED
          BY <1>1, <1>c, <2>0, <3>1, <3>3, <4>1, <4>3, <5>1 DEF outer
      <4>4. CASE t.parent[n] # x /\ t.parent[n] # y
        BY <1>1, <1>c, <2>0, <2>4, <3>1, <3>3, <4>1, <4>4
      <4>5. QED
        BY <4>2, <4>3, <4>4
    <3>4. QED
      BY <3>2, <3>3
  <2>5. QED
    BY <2>1, <2>2, <2>3, <2>4
<1>10. Splits(r, A, new)
  <2> SUFFICES ASSUME NEW n \in A
               PROVE  new[n] = {n} \cup new[r["left"][n]] \cup new[r["right"][n]]
    BY DEF Splits
  <2>1. CASE n = x
    <3>1. new[n] = {n} \cup new[r[down][n]] \cup new[r[up][n]]
      BY <1>1, <1>3, <1>5, <1>c, <2>1
    <3>2. QED
      BY <3>1 DEF Sides, Other, down
  <2>2. CASE n = y
    <3>1. new[n] = {n} \cup new[r[down][n]] \cup new[r[up][n]]
      BY <1>1, <1>2, <1>3, <1>5, <1>c, <2>2
    <3>2. QED
      BY <3>1 DEF Sides, Other, down
  <2>3. CASE n # x /\ n # y
    <3>1. \A s \in Sides : new[r[s][n]] = sub[t[s][n]]
      <4> SUFFICES ASSUME NEW s \in Sides PROVE new[r[s][n]] = sub[t[s][n]]
        OBVIOUS
      <4>1. t[s][n] \in Ref /\ t[s][n] # y
        BY <1>1, <2>3, Children
      <4>2. QED
        BY <1>5, <1>c, <2>3, <4>1
    <3>2. new[n] = sub[n] /\ sub[n] = {n} \cup sub[t["left"][n]] \cup sub[t["right"][n]]
      BY <1>1, <1>5, <2>3 DEF Shape, Splits, Ref
    <3>3. QED
      BY <3>1, <3>2 DEF Sides
  <2>4. QED
    BY <2>1, <2>2, <2>3
<1>11. Ordered(r, A, new, ky)
  <2> SUFFICES ASSUME NEW n \in A, NEW s \in Sides, NEW m \in new[r[s][n]]
               PROVE  Toward(s, ky, m, n)
    BY DEF Ordered
  <2>0. \A a \in A : \A u \in Sides : \A b \in sub[t[u][a]] : Toward(u, ky, b, a)
    BY DEF Shape, Ordered
  <2>1. CASE n = x /\ s = up
    <3>1. m \in sub[y]
      BY <1>1, <1>2, <1>3, <1>5, <1>c, <2>1
    <3>2. QED
      BY <1>1, <2>0, <2>1, <3>1 DEF y
  <2>2. CASE n = x /\ s = down
    <3>1. m \in sub[low]
      BY <1>1, <1>2, <1>3, <1>5, <1>c, <2>2
    <3>2. QED
      BY <1>1, <2>0, <2>2, <3>1 DEF low
  <2>3. CASE n = y /\ s = up
    <3>1. m \in sub[outer]
      BY <1>1, <1>2, <1>3, <1>5, <1>c, <2>3
    <3>2. QED
      BY <1>1, <2>0, <2>3, <3>1 DEF outer
  <2>4. CASE n = y /\ s = down
    <3>0. Toward(down, ky, x, y)
      BY <1>1, <1>4, <2>0, TowardIs DEF y, down
    <3>1. CASE m = x
      BY <2>4, <3>0, <3>1
    <3>2. CASE m \in sub[low]
      <4>1. Toward(down, ky, m, x) /\ m \in A
        BY <1>1, <1>2, <2>0, <3>2 DEF low
      <4>2. QED
        BY <1>1, <1>4, <2>4, <3>0, <4>1, TowardTransitive
    <3>3. CASE m \in sub[inner]
      BY <1>1, <2>0, <2>4, <3>3 DEF inner
    <3>4. QED
      BY <1>1, <1>5, <1>c, <2>4, <3>1, <3>2, <3>3
  <2>5. CASE n # x /\ n # y
    <3>1. t[s][n] \in Ref /\ t[s][n] # y
      BY <1>1, <2>5, Children
    <3>2. new[r[s][n]] = sub[t[s][n]]
      BY <1>5, <1>c, <2>5, <3>1
    <3>3. QED
      BY <2>0, <3>2
  <2>6. QED
    BY <1>s, <2>1, <2>2, <2>3, <2>4, <2>5
<1>12. QED
  BY <1>6, <1>7, <1>8, <1>9, <1>10, <1>11 DEF Shape, new

(* r differs from t in colours alone. *)
SameLinks(t, r) ==
  /\ r \in Tree /\ r.root = t.root /\ r.parent = t.parent /\ r.bad = t.bad
  /\ \A s \in Sides : r[s] = t[s]

(* A node that is not in use leads nowhere. *)
Clean(t, A) == \A n \in Nodes \ A : \A s \in Sides : t[s][n] = NULL

(* Painting a node, or NULL, changes no link. *)
LEMMA PaintLinks ==
  ASSUME NEW t \in Tree, NEW n \in Ref, NEW c \in BOOLEAN, RBTreeAssumption
  PROVE  /\ SameLinks(t, Paint(t, n, c))
         /\ \A m \in Nodes : Paint(t, n, c).red[m] = IF m = n THEN c ELSE t.red[m]
<1>1. CASE n = NULL
  BY <1>1 DEF Paint, SameLinks, RBTreeAssumption
<1>2. CASE n # NULL
  <2>1. n \in Nodes /\ Paint(t, n, c) = [t EXCEPT !.red[n] = c]
    BY <1>2 DEF Paint, Ref
  <2>2. QED
    BY <2>1, PaintIs DEF SameLinks
<1>3. QED
  BY <1>1, <1>2

(* The shape of a tree depends on its links only. *)
LEMMA SameLinksShape ==
  ASSUME NEW t, NEW A, NEW sub, NEW ky, Shape(t, A, sub, ky), NEW r, SameLinks(t, r)
  PROVE  Shape(r, A, sub, ky)
<1>1. Typed(r, A, sub, ky)
  BY DEF Shape, SameLinks, Typed
<1>2. Rooted(r, A, sub)
  BY DEF Shape, SameLinks, Rooted
<1>3. LinksDown(r, A)
  BY DEF Shape, SameLinks, LinksDown
<1>4. LinksUp(r, A)
  BY DEF Shape, SameLinks, LinksUp
<1>5. Splits(r, A, sub)
  BY DEF Shape, SameLinks, Splits, Sides
<1>6. Ordered(r, A, sub, ky)
  BY DEF Shape, SameLinks, Ordered
<1>7. QED
  BY <1>1, <1>2, <1>3, <1>4, <1>5, <1>6 DEF Shape

(* So does what the nodes outside it look like. *)
LEMMA SameLinksClean ==
  ASSUME NEW t, NEW A, Clean(t, A), NEW r, SameLinks(t, r)
  PROVE  Clean(r, A)
BY DEF Clean, SameLinks

(* Two changes of colours are one. *)
LEMMA SameLinksTrans ==
  ASSUME NEW t, NEW q, NEW r, SameLinks(t, q), SameLinks(q, r)
  PROVE  SameLinks(t, r)
BY DEF SameLinks

(* A rotation leaves the nodes outside the tree alone. *)
LEMMA RotatedClean ==
  ASSUME NEW t, NEW A, NEW sub, NEW ky, Shape(t, A, sub, ky), RBTreeAssumption, Clean(t, A),
         NEW x \in A, NEW up \in Sides, t[up][x] # NULL,
         NEW r, Rotated(t, r, x, t[up][x], up)
  PROVE  Clean(r, A)
<1>1. t[up][x] \in A /\ A \subseteq Nodes
  BY Children DEF Shape, Typed
<1>2. t.parent[x] # NULL => t.parent[x] \in A
  BY DEF Shape, LinksUp
<1>3. NULL \notin Nodes
  BY DEF RBTreeAssumption
<1>4. ASSUME NEW n \in Nodes \ A, NEW s \in Sides PROVE r[s][n] = NULL
  <2>1. n # x /\ n # t[up][x] /\ n # t.parent[x]
    BY <1>1, <1>2, <1>3
  <2>2. r[s][n] = t[s][n]
    BY <2>1 DEF Rotated
  <2>3. QED
    BY <2>2 DEF Clean
<1>5. QED
  BY <1>4 DEF Clean

(* The tree t with links in order and the nodes A on it. *)
Grown(t, A, ky) == t.bad = FALSE /\ Clean(t, A) /\ \E sub : Shape(t, A, sub, ky)

(* Painting keeps a search tree one. *)
LEMMA GrownPaint ==
  ASSUME NEW t, NEW A, NEW ky, Grown(t, A, ky), NEW n \in Ref, NEW c \in BOOLEAN, RBTreeAssumption
  PROVE  Grown(Paint(t, n, c), A, ky)
<1>1. PICK sub : Shape(t, A, sub, ky)
  BY DEF Grown
<1>2. SameLinks(t, Paint(t, n, c))
  BY <1>1, PaintLinks DEF Shape, Typed
<1>3. QED
  BY <1>1, <1>2, SameLinksShape, SameLinksClean DEF Grown, SameLinks

(* Rotating keeps a search tree one. *)
LEMMA GrownRotate ==
  ASSUME NEW t, NEW A, NEW ky, Grown(t, A, ky), RBTreeAssumption,
         NEW x \in A, NEW up \in Sides, t[up][x] # NULL
  PROVE  Grown(Rotate(t, x, up), A, ky)
<1>1. PICK sub : Shape(t, A, sub, ky)
  BY DEF Grown
<1>2. Rotated(t, Rotate(t, x, up), x, t[up][x], up)
  BY <1>1, RotateIs
<1>3. QED
  BY <1>1, <1>2, RotatedShape, RotatedClean DEF Grown, Rotated

-------------------------------------------------------------------------------
(* One turn of the fixup loops, and the loops. *)

(* What rotating and painting leave alone of a tree. *)
LEMMA GrownFacts ==
  ASSUME NEW t, NEW A, NEW ky, Grown(t, A, ky), RBTreeAssumption, NEW n \in A
  PROVE  /\ t \in Tree /\ A \in SUBSET Nodes /\ NULL \notin A /\ n \in Ref
         /\ t.root \in A /\ (\A m \in A : t.red[m] \in BOOLEAN)
         /\ t.parent[n] \in Ref /\ (t.parent[n] # NULL => t.parent[n] \in A)
         /\ \A s \in Sides : t[s][n] \in Ref /\ (t[s][n] # NULL => t[s][n] \in A)
<1>1. PICK sub : Shape(t, A, sub, ky)
  BY DEF Grown
<1>2. t \in Tree /\ A \in SUBSET Nodes /\ NULL \notin A /\ n \in Ref
  BY <1>1 DEF Shape, Typed, RBTreeAssumption, Ref
<1>3. t.root \in A
  BY <1>1 DEF Shape, Rooted, Typed
<1>4. t.parent[n] # NULL => t.parent[n] \in A
  BY <1>1 DEF Shape, LinksUp
<1>5. \A s \in Sides : t[s][n] \in Ref /\ (t[s][n] # NULL => t[s][n] \in A)
  BY <1>1, Children
<1>6. t.parent[n] \in Ref /\ (\A m \in A : t.red[m] \in BOOLEAN)
  BY <1>2, SideFields
<1>7. QED
  BY <1>2, <1>3, <1>4, <1>5, <1>6

(* A node below its parent, and on which side. *)
LEMMA SideOf ==
  ASSUME NEW t, NEW A, NEW ky, Grown(t, A, ky), RBTreeAssumption,
         NEW n \in A, t.parent[n] # NULL,
         NEW side, side = IF n = t.left[t.parent[n]] THEN "left" ELSE "right"
  PROVE  /\ side \in Sides /\ t.parent[n] \in A
         /\ t[side][t.parent[n]] = n /\ t[Other(side)][t.parent[n]] # n
<1>1. PICK sub : Shape(t, A, sub, ky)
  BY DEF Grown
<1>2. PICK s \in Sides : t[s][t.parent[n]] = n /\ t[Other(s)][t.parent[n]] # n
  BY <1>1, OneSide
<1>3. t.parent[n] \in A
  BY <1>1, OneSide
<1>4. t["left"] = t.left /\ t["right"] = t.right
  BY <1>1, SideFields DEF Shape, Typed
<1>5. side = s
  BY <1>2, <1>4 DEF Sides, Other
<1>6. QED
  BY <1>2, <1>3, <1>5

(* One turn after an insertion. *)
LEMMA InsertStepGrown ==
  ASSUME NEW s, NEW A, NEW ky, Grown(s.t, A, ky), RBTreeAssumption, s.node \in A
  PROVE  Grown(InsertFixStep(s).t, A, ky) /\ InsertFixStep(s).node \in A
<1> DEFINE t     == s.t
           p     == t.parent[s.node]
           g     == t.parent[p]
           side  == IF p = t.left[g] THEN "left" ELSE "right"
           uncle == t[Other(side)][g]
           bent  == t[Other(side)][p] = s.node
           t1    == IF bent THEN Rotate(t, p, Other(side)) ELSE t
           upper == IF bent THEN s.node ELSE p
           lower == IF bent THEN p ELSE s.node
           q1    == Paint(Paint(Paint(t, p, FALSE), uncle, FALSE), g, TRUE)
           q2    == Paint(Paint(t1, upper, FALSE), g, TRUE)
<1>1. InsertFixStep(s) =
        IF t.bad THEN s ELSE IF ~Red(t, p) THEN s ELSE IF g = NULL THEN s
        ELSE IF Red(t, uncle) THEN [t |-> q1, node |-> g]
        ELSE [t |-> Rotate(q2, g, side), node |-> lower]
  BY Zenon DEF InsertFixStep
<1>2. CASE t.bad \/ ~Red(t, p) \/ g = NULL
  BY <1>1, <1>2, Zenon
<1>3. CASE ~t.bad /\ Red(t, p) /\ g # NULL
  <2>1. p # NULL /\ p \in A /\ g \in A
    BY <1>3, GrownFacts DEF Red
  <2>2. side \in Sides /\ t[side][g] = p /\ t[Other(side)][g] # p
    <3>1. side = IF p = t.left[t.parent[p]] THEN "left" ELSE "right"
      OBVIOUS
    <3>2. p \in A /\ t.parent[p] # NULL /\ t.parent[p] = g
      BY <1>3, <2>1
    <3> HIDE DEF side, p, g
    <3>3. QED
      BY <3>1, <3>2, SideOf
  <2>3. Other(side) \in Sides /\ Other(Other(side)) = side
    BY <2>2, OtherSide, Zenon
  <2> HIDE DEF p, g, side
  <2>4. uncle \in Ref /\ p \in Ref /\ g \in Ref /\ s.node \in Ref
    <3>1. uncle \in Ref
      BY <2>1, <2>3, GrownFacts
    <3> HIDE DEF uncle
    <3>2. QED
      BY <2>1, <3>1, GrownFacts
  <2> HIDE DEF uncle
  <2>5. Grown(q1, A, ky)
    <3>1. Grown(Paint(t, p, FALSE), A, ky)
      BY <2>4, GrownPaint
    <3> HIDE DEF t
    <3>2. Grown(Paint(Paint(t, p, FALSE), uncle, FALSE), A, ky)
      BY <2>4, <3>1, GrownPaint
    <3>3. QED
      BY <2>4, <3>2, GrownPaint
  <2>6. Grown(t1, A, ky) /\ t1[side][g] = upper /\ upper \in A
    <3>1. CASE ~bent
      BY <2>1, <2>2, <3>1
    <3>2. CASE bent
      <4>1. t[Other(side)][p] = s.node /\ s.node # NULL
        BY <3>2, GrownFacts
      <4>2. Grown(Rotate(t, p, Other(side)), A, ky)
        BY <2>1, <2>3, <4>1, GrownRotate
      <4>3. PICK sub : Shape(t, A, sub, ky)
        BY DEF Grown
      <4>4. Rotated(t, Rotate(t, p, Other(side)), p, s.node, Other(side))
        BY <2>1, <2>3, <4>1, <4>3, RotateIs
      <4>5. s.node # g /\ g # p
        <5>1. t.parent[s.node] = p /\ t.parent[p] = g
          BY DEF p, g
        <5>2. g # p
          BY <1>3, <2>1, <4>3, OneSide DEF g
        <5>3. ASSUME s.node = g PROVE FALSE
          <6>1. /\ sub[p] = {p} \cup sub[s.node] \cup sub[t[side][p]]
                /\ p \notin sub[s.node]
            BY <2>1, <2>3, <4>1, <4>3, Children
          <6>2. p \in sub[g]
            BY <2>1, <2>2, <4>3, Children
          <6>3. QED
            BY <5>3, <6>1, <6>2
        <5>4. QED
          BY <5>2, <5>3
      <4>6. Rotate(t, p, Other(side))[side][g] = s.node
        <5>1. g \in Nodes /\ t.parent[p] = g
          BY <2>1, GrownFacts DEF g
        <5>2. QED
          BY <2>2, <4>4, <4>5, <5>1 DEF Rotated
      <4>7. QED
        BY <3>2, <4>2, <4>6
    <3>3. QED
      BY <3>1, <3>2
  <2> HIDE DEF t1, upper
  <2>7. upper \in Ref /\ upper # NULL
    BY <2>6, GrownFacts
  <2>8. Grown(Paint(t1, upper, FALSE), A, ky)
    BY <2>6, <2>7, GrownPaint
  <2>9. Grown(q2, A, ky)
    BY <2>4, <2>8, GrownPaint
  <2>10. q2[side][g] = upper
    <3>1. t1 \in Tree
      BY <2>6, GrownFacts
    <3>2. SameLinks(t1, Paint(t1, upper, FALSE))
      BY <2>7, <3>1, PaintLinks
    <3>3. SameLinks(Paint(t1, upper, FALSE), q2)
      <4>1. Paint(t1, upper, FALSE) \in Tree
        BY <3>2 DEF SameLinks
      <4>2. PICK e \in Tree : e = Paint(t1, upper, FALSE)
        BY <4>1
      <4>3. SameLinks(e, Paint(e, g, TRUE))
        BY <2>4, PaintLinks
      <4>4. QED
        BY <4>2, <4>3
    <3>4. QED
      BY <2>2, <2>6, <3>2, <3>3 DEF SameLinks
  <2> HIDE DEF q2
  <2>11. Grown(Rotate(q2, g, side), A, ky)
    BY <2>1, <2>2, <2>7, <2>9, <2>10, GrownRotate
  <2>12. lower \in A
    BY <2>1
  <2> HIDE DEF lower, q1
  <2>13. QED
    BY <1>1, <1>3, <2>1, <2>5, <2>11, <2>12
<1>4. QED
  <2>1. t.bad = FALSE
    BY DEF Grown
  <2>2. QED
    BY <1>2, <1>3, <2>1

(* A tree with its links in order, or NULL was followed on the way. *)
Outcome(t, A, ky) == (t \in Tree /\ t.bad = TRUE) \/ Grown(t, A, ky)

(* A tree is an outcome once it is marked bad. *)
LEMMA BadOutcome ==
  ASSUME NEW t, NEW A, NEW ky, t \in Tree \/ Outcome(t, A, ky)
  PROVE  Outcome(Bad(t), A, ky) /\ Bad(t) \in Tree /\ Bad(t).bad = TRUE
<1>1. t \in Tree
  BY DEF Outcome, Grown, Shape, Typed
<1>2. Bad(t) \in Tree /\ Bad(t).bad = TRUE
  BY <1>1 DEF Bad, Tree
<1>3. QED
  BY <1>2 DEF Outcome

(* Painting keeps a search tree one, and its links. *)
LEMMA OutcomePaint ==
  ASSUME NEW t, NEW A, NEW ky, Grown(t, A, ky), NEW n \in Ref, NEW c \in BOOLEAN,
         RBTreeAssumption
  PROVE  /\ Grown(Paint(t, n, c), A, ky)
         /\ \A m \in A : \A s \in Sides : Paint(t, n, c)[s][m] = t[s][m]
<1>1. t \in Tree
  BY DEF Grown, Shape, Typed
<1>2. SameLinks(t, Paint(t, n, c))
  BY <1>1, PaintLinks
<1>3. QED
  BY <1>2, GrownPaint DEF SameLinks

(* A rotation gives a search tree, or the bad mark if the child is missing. *)
LEMMA OutcomeRotate ==
  ASSUME NEW t, NEW A, NEW ky, Grown(t, A, ky), RBTreeAssumption, NEW x \in A, NEW up \in Sides
  PROVE  Outcome(Rotate(t, x, up), A, ky)
<1>1. CASE t[up][x] # NULL
  BY <1>1, GrownRotate DEF Outcome
<1>2. CASE t[up][x] = NULL
  <2>1. Rotate(t, x, up) = Bad(t)
    BY <1>2, Zenon DEF Rotate
  <2>2. t \in Tree
    BY DEF Grown, Shape, Typed
  <2>3. QED
    BY <2>1, <2>2, BadOutcome
<1>3. QED
  BY <1>1, <1>2

(* The first case of a turn of rbtree_erase_fixup keeps the tree one, or   *)
(* marks it bad.                                                           *)
LEMMA BlackSiblingOutcome ==
  ASSUME NEW t, NEW A, NEW ky, Grown(t, A, ky), RBTreeAssumption, NEW xp \in A, NEW side \in Sides
  PROVE  Outcome(BlackSibling(t, xp, side), A, ky)
<1> DEFINE w == Sibling(t, xp, side)
           q1 == Paint(t, w, FALSE)
           q  == Paint(q1, xp, TRUE)
<1>1. w \in Ref /\ xp \in Ref /\ Other(side) \in Sides
  BY GrownFacts, OtherSide DEF Sibling
<1>2. BlackSibling(t, xp, side) = IF Red(t, w) THEN Rotate(q, xp, Other(side)) ELSE t
  BY Zenon DEF BlackSibling
<1> HIDE DEF w
<1>3. Grown(q1, A, ky)
  BY <1>1, OutcomePaint
<1> HIDE DEF q1
<1>4. Grown(q, A, ky)
  BY <1>1, <1>3, OutcomePaint
<1> HIDE DEF q
<1>5. Outcome(Rotate(q, xp, Other(side)), A, ky)
  BY <1>1, <1>4, OutcomeRotate
<1>6. QED
  BY <1>2, <1>5 DEF Outcome

(* So does the rotation that gives the sibling a red child on the far side. *)
LEMMA RedFarOutcome ==
  ASSUME NEW t, NEW A, NEW ky, Grown(t, A, ky), RBTreeAssumption, NEW xp \in A, NEW side \in Sides,
         Sibling(t, xp, side) # NULL
  PROVE  Outcome(RedFar(t, xp, side), A, ky)
<1> DEFINE w    == Sibling(t, xp, side)
           near == t[side][w]
           q1   == Paint(t, near, FALSE)
           q    == Paint(q1, w, TRUE)
<1>1. w \in A /\ Other(side) \in Sides
  BY GrownFacts, OtherSide DEF Sibling
<1>2. RedFar(t, xp, side) = IF Red(t, t[Other(side)][w]) THEN t ELSE Rotate(q, w, side)
  BY Zenon DEF RedFar
<1> HIDE DEF w
<1>3. near \in Ref /\ w \in Ref
  BY <1>1, GrownFacts
<1> HIDE DEF near
<1>4. Grown(q1, A, ky)
  BY <1>3, OutcomePaint
<1> HIDE DEF q1
<1>5. Grown(q, A, ky)
  BY <1>3, <1>4, OutcomePaint
<1> HIDE DEF q
<1>6. Outcome(Rotate(q, w, side), A, ky)
  BY <1>1, <1>5, OutcomeRotate
<1>7. QED
  BY <1>2, <1>6 DEF Outcome

(* So does the rotation of the sibling above xp. *)
LEMMA SiblingUpOutcome ==
  ASSUME NEW t, NEW A, NEW ky, Outcome(t, A, ky), RBTreeAssumption, NEW xp \in A, NEW side \in Sides
  PROVE  Outcome(SiblingUp(t, xp, side), A, ky)
<1> DEFINE w   == Sibling(t, xp, side)
           far == t[Other(side)][w]
           q1  == Paint(t, w, t.red[xp])
           q2  == Paint(q1, xp, FALSE)
           q   == Paint(q2, far, FALSE)
<1>1. SiblingUp(t, xp, side) =
        IF t.bad \/ w = NULL THEN Bad(t) ELSE Rotate(q, xp, Other(side))
  BY Zenon DEF SiblingUp
<1>2. CASE t.bad \/ w = NULL
  BY <1>1, <1>2, BadOutcome
<1>3. CASE ~(t.bad \/ w = NULL)
  <2>1. Grown(t, A, ky)
    BY <1>3 DEF Outcome
  <2>2. w \in A /\ Other(side) \in Sides /\ xp \in Ref
    BY <1>3, <2>1, GrownFacts, OtherSide DEF Sibling
  <2>3. PICK c : c = t.red[xp]
    OBVIOUS
  <2>4. c \in BOOLEAN
    BY <2>1, <2>3, GrownFacts
  <2> HIDE DEF w
  <2>5. far \in Ref /\ w \in Ref
    BY <2>1, <2>2, GrownFacts
  <2> HIDE DEF far
  <2>6. Grown(q1, A, ky)
    BY <2>1, <2>3, <2>4, <2>5, OutcomePaint
  <2> HIDE DEF q1
  <2>7. Grown(q2, A, ky)
    BY <2>2, <2>6, OutcomePaint
  <2> HIDE DEF q2
  <2>8. Grown(q, A, ky)
    BY <2>5, <2>7, OutcomePaint
  <2> HIDE DEF q
  <2>9. Outcome(Rotate(q, xp, Other(side)), A, ky)
    BY <2>2, <2>8, OutcomeRotate
  <2>10. QED
    BY <1>1, <1>3, <2>9
<1>4. QED
  BY <1>2, <1>3

(* The state of the loop of rbtree_erase_fixup. *)
Erasing(s, A, ky) ==
  /\ Outcome(s.t, A, ky)
  /\ s.t.bad \/ (s.x \in A \cup {NULL} /\ s.xp \in A \cup {NULL})

(* A loop that was sent to the root is at a node of the tree, or at NULL. *)
LEMMA AtRootErasing ==
  ASSUME NEW t, NEW A, NEW ky, Outcome(t, A, ky), RBTreeAssumption
  PROVE  Erasing(AtRoot(t), A, ky)
<1>1. CASE t \in Tree /\ t.bad = TRUE
  BY <1>1 DEF AtRoot, Erasing, Outcome
<1>2. CASE Grown(t, A, ky)
  <2>1. PICK sub : Shape(t, A, sub, ky)
    BY <1>2 DEF Grown
  <2>2. t.root # NULL => t.root \in A /\ t.parent[t.root] = NULL
    BY <2>1 DEF Shape, Rooted
  <2>3. AtRoot(t).t = t /\ AtRoot(t).x = t.root /\ AtRoot(t).xp = NULL
    BY <2>2 DEF AtRoot
  <2>4. QED
    BY <1>2, <2>2, <2>3 DEF Erasing, Outcome
<1>3. QED
  BY <1>1, <1>2 DEF Outcome

(* The second half of a turn of rbtree_erase_fixup ends at nodes of the    *)
(* tree.                                                                   *)
LEMMA EraseFixBlackErasing ==
  ASSUME NEW t, NEW A, NEW ky, Outcome(t, A, ky), RBTreeAssumption, NEW xp \in A, NEW side \in Sides
  PROVE  Erasing(EraseFixBlack(t, xp, side), A, ky)
<1> DEFINE w == Sibling(t, xp, side)
           q == Paint(t, w, TRUE)
           e == [t |-> q, x |-> xp, xp |-> t.parent[xp]]
<1>1. EraseFixBlack(t, xp, side) =
        IF t.bad \/ w = NULL THEN AtRoot(Bad(t))
        ELSE IF ~Red(t, t.left[w]) /\ ~Red(t, t.right[w]) THEN e
        ELSE AtRoot(SiblingUp(RedFar(t, xp, side), xp, side))
  BY Zenon DEF EraseFixBlack
<1>2. CASE t.bad \/ w = NULL
  BY <1>1, <1>2, BadOutcome, AtRootErasing
<1>3. CASE ~(t.bad \/ w = NULL)
  <2>1. Grown(t, A, ky)
    BY <1>3 DEF Outcome
  <2>2. Erasing(AtRoot(SiblingUp(RedFar(t, xp, side), xp, side)), A, ky)
    BY <1>3, <2>1, RedFarOutcome, SiblingUpOutcome, AtRootErasing
  <2>3. Erasing(e, A, ky)
    <3>1. w \in Ref /\ t.parent[xp] \in A \cup {NULL}
      BY <2>1, GrownFacts, OtherSide DEF Sibling
    <3> HIDE DEF w
    <3>2. Grown(q, A, ky)
      BY <2>1, <3>1, OutcomePaint
    <3> HIDE DEF q
    <3>3. QED
      BY <3>1, <3>2 DEF Erasing, Outcome
  <2> HIDE DEF e
  <2>4. QED
    BY <1>1, <1>3, <2>2, <2>3
<1>4. QED
  BY <1>2, <1>3

(* One turn of the loop. *)
LEMMA EraseStepErasing ==
  ASSUME NEW s, NEW A, NEW ky, Erasing(s, A, ky), RBTreeAssumption,
         s = [t |-> s.t, x |-> s.x, xp |-> s.xp]
  PROVE  /\ Erasing(EraseFixStep(s), A, ky)
         /\ EraseFixStep(s) = [t |-> EraseFixStep(s).t, x |-> EraseFixStep(s).x, xp |-> EraseFixStep(s).xp]
<1> DEFINE side == IF s.x = s.t.left[s.xp] THEN "left" ELSE "right"
           b    == BlackSibling(s.t, s.xp, side)
<1>1. EraseFixStep(s) =
        IF s.t.bad \/ ~EraseUnfinished(s) THEN s
        ELSE IF s.xp = NULL THEN [s EXCEPT !.t = Bad(@)]
        ELSE EraseFixBlack(b, s.xp, side)
  BY Zenon DEF EraseFixStep
<1>2. side \in Sides
  BY DEF Sides
<1> HIDE DEF side
<1>3. CASE s.t.bad \/ ~EraseUnfinished(s)
  BY <1>1, <1>3
<1>4. CASE ~s.t.bad /\ EraseUnfinished(s) /\ s.xp = NULL
  <2>1. EraseFixStep(s) = [t |-> Bad(s.t), x |-> s.x, xp |-> s.xp]
    BY <1>1, <1>4
  <2>2. Outcome(Bad(s.t), A, ky) /\ Bad(s.t).bad = TRUE
    BY BadOutcome DEF Erasing
  <2>3. QED
    BY <2>1, <2>2 DEF Erasing
<1>5. CASE ~s.t.bad /\ EraseUnfinished(s) /\ s.xp # NULL
  <2>1. EraseFixStep(s) = EraseFixBlack(b, s.xp, side)
    BY <1>1, <1>5
  <2>2. Grown(s.t, A, ky) /\ s.xp \in A
    BY <1>5 DEF Erasing, Outcome
  <2>3. Outcome(b, A, ky)
    BY <1>2, <2>2, BlackSiblingOutcome
  <2> HIDE DEF b
  <2>4. Erasing(EraseFixBlack(b, s.xp, side), A, ky)
    BY <1>2, <2>2, <2>3, EraseFixBlackErasing
  <2>5. \A t : AtRoot(t) = [t |-> AtRoot(t).t, x |-> AtRoot(t).x, xp |-> AtRoot(t).xp]
    BY DEF AtRoot
  <2>6. EraseFixBlack(b, s.xp, side) =
          [t |-> EraseFixBlack(b, s.xp, side).t, x |-> EraseFixBlack(b, s.xp, side).x,
           xp |-> EraseFixBlack(b, s.xp, side).xp]
    BY <2>5 DEF EraseFixBlack
  <2>7. QED
    BY <2>1, <2>4, <2>6
<1>6. QED
  BY <1>3, <1>4, <1>5

IsInsertRun(f, t, n, k) ==
  f = [i \in 0..k |-> IF i = 0 THEN [t |-> t, node |-> n] ELSE InsertFixStep(f[i - 1])]

InsertRun(t, n, k) == CHOOSE f : IsInsertRun(f, t, n, k)

(* The loop can be turned any number of times. *)
LEMMA InsertRunExists ==
  ASSUME NEW t, NEW n, NEW k \in Nat
  PROVE  /\ InsertRun(t, n, k)[0] = [t |-> t, node |-> n]
         /\ \A i \in 1..k : InsertRun(t, n, k)[i] = InsertFixStep(InsertRun(t, n, k)[i - 1])
<1> DEFINE T == {j \in Nat : ~\E f : IsInsertRun(f, t, n, j)}
           a == [t |-> t, node |-> n]
           Step(s) == InsertFixStep(s)
<1>s. \A f, j : IsInsertRun(f, t, n, j) <=> f = [i \in 0..j |-> IF i = 0 THEN a ELSE Step(f[i - 1])]
  BY DEF IsInsertRun
<1> HIDE DEF a, Step
<1>1. ASSUME T # {} PROVE FALSE
  <2>1. T \in SUBSET Nat
    OBVIOUS
  <2>2. PICK j \in T : \A i \in T : j <= i
    BY <1>1, <2>1, LeastNumber
  <2>3. j # 0
    <3> DEFINE f == [i \in 0..0 |-> a]
    <3>1. f = [i \in 0..0 |-> IF i = 0 THEN a ELSE Step(f[i - 1])]
      OBVIOUS
    <3>2. QED
      BY <1>s, <2>2, <3>1
  <2>4. j - 1 \in Nat /\ j - 1 \notin T
    BY <2>2, <2>3
  <2>5. PICK g : IsInsertRun(g, t, n, j - 1)
    BY <2>4
  <2>6. \A i \in 0..j - 1 : g[i] = IF i = 0 THEN a ELSE Step(g[i - 1])
    BY <1>s, <2>4, <2>5
  <2> DEFINE f == [i \in 0..j |-> IF i < j THEN g[i] ELSE Step(g[j - 1])]
  <2>7. \A i \in 0..j : f[i] = IF i = 0 THEN a ELSE Step(f[i - 1])
    BY <2>3, <2>4, <2>6
  <2>8. f = [i \in 0..j |-> IF i = 0 THEN a ELSE Step(f[i - 1])]
    BY <2>7
  <2>9. QED
    BY <1>s, <2>2, <2>8
<1>2. IsInsertRun(InsertRun(t, n, k), t, n, k)
  <2>1. \E f : IsInsertRun(f, t, n, k)
    BY <1>1
  <2>2. QED
    BY <2>1 DEF InsertRun
<1>3. /\ InsertRun(t, n, k)[0] = a
      /\ \A i \in 1..k : InsertRun(t, n, k)[i] = Step(InsertRun(t, n, k)[i - 1])
  <2> DEFINE h == InsertRun(t, n, k)
  <2>1. h = [i \in 0..k |-> IF i = 0 THEN a ELSE Step(h[i - 1])]
    BY <1>2, <1>s
  <2> HIDE DEF h
  <2>2. h[0] = a /\ \A i \in 1..k : h[i] = Step(h[i - 1])
    BY <2>1
  <2>3. QED
    BY <2>2 DEF h
<1>4. QED
  BY <1>3 DEF a, Step

IsEraseRun(f, t, x, xp, k) ==
  f = [i \in 0..k |-> IF i = 0 THEN [t |-> t, x |-> x, xp |-> xp] ELSE EraseFixStep(f[i - 1])]

EraseRun(t, x, xp, k) == CHOOSE f : IsEraseRun(f, t, x, xp, k)

(* The loop can be turned any number of times. *)
LEMMA EraseRunExists ==
  ASSUME NEW t, NEW x, NEW xp, NEW k \in Nat
  PROVE  /\ EraseRun(t, x, xp, k)[0] = [t |-> t, x |-> x, xp |-> xp]
         /\ \A i \in 1..k : EraseRun(t, x, xp, k)[i] = EraseFixStep(EraseRun(t, x, xp, k)[i - 1])
<1> DEFINE T == {j \in Nat : ~\E f : IsEraseRun(f, t, x, xp, j)}
           a == [t |-> t, x |-> x, xp |-> xp]
           Step(s) == EraseFixStep(s)
<1>s. \A f, j : IsEraseRun(f, t, x, xp, j) <=> f = [i \in 0..j |-> IF i = 0 THEN a ELSE Step(f[i - 1])]
  BY DEF IsEraseRun
<1> HIDE DEF a, Step
<1>1. ASSUME T # {} PROVE FALSE
  <2>1. T \in SUBSET Nat
    OBVIOUS
  <2>2. PICK j \in T : \A i \in T : j <= i
    BY <1>1, <2>1, LeastNumber
  <2>3. j # 0
    <3> DEFINE f == [i \in 0..0 |-> a]
    <3>1. f = [i \in 0..0 |-> IF i = 0 THEN a ELSE Step(f[i - 1])]
      OBVIOUS
    <3>2. QED
      BY <1>s, <2>2, <3>1
  <2>4. j - 1 \in Nat /\ j - 1 \notin T
    BY <2>2, <2>3
  <2>5. PICK g : IsEraseRun(g, t, x, xp, j - 1)
    BY <2>4
  <2>6. \A i \in 0..j - 1 : g[i] = IF i = 0 THEN a ELSE Step(g[i - 1])
    BY <1>s, <2>4, <2>5
  <2> DEFINE f == [i \in 0..j |-> IF i < j THEN g[i] ELSE Step(g[j - 1])]
  <2>7. \A i \in 0..j : f[i] = IF i = 0 THEN a ELSE Step(f[i - 1])
    BY <2>3, <2>4, <2>6
  <2>8. f = [i \in 0..j |-> IF i = 0 THEN a ELSE Step(f[i - 1])]
    BY <2>7
  <2>9. QED
    BY <1>s, <2>2, <2>8
<1>2. IsEraseRun(EraseRun(t, x, xp, k), t, x, xp, k)
  <2>1. \E f : IsEraseRun(f, t, x, xp, k)
    BY <1>1
  <2>2. QED
    BY <2>1 DEF EraseRun
<1>3. /\ EraseRun(t, x, xp, k)[0] = a
      /\ \A i \in 1..k : EraseRun(t, x, xp, k)[i] = Step(EraseRun(t, x, xp, k)[i - 1])
  <2> DEFINE h == EraseRun(t, x, xp, k)
  <2>1. h = [i \in 0..k |-> IF i = 0 THEN a ELSE Step(h[i - 1])]
    BY <1>2, <1>s
  <2> HIDE DEF h
  <2>2. h[0] = a /\ \A i \in 1..k : h[i] = Step(h[i - 1])
    BY <2>1
  <2>3. QED
    BY <2>2 DEF h
<1>4. QED
  BY <1>3 DEF a, Step

(* InsertFix, its loop taken as a function of its own. *)
LEMMA InsertFixIs ==
  ASSUME NEW t, NEW n
  PROVE  InsertFix(t, n) =
           Paint(InsertRun(t, n, Cardinality(Nodes))[Cardinality(Nodes)].t,
                 InsertRun(t, n, Cardinality(Nodes))[Cardinality(Nodes)].t.root, FALSE)
BY Zenon DEF InsertFix, InsertRun, IsInsertRun

(* EraseFix, its loop taken as a function of its own. *)
LEMMA EraseFixIs ==
  ASSUME NEW t, NEW x, NEW xp, NEW s, s = EraseRun(t, x, xp, Cardinality(Nodes))[Cardinality(Nodes)]
  PROVE  EraseFix(t, x, xp) =
           IF s.t.bad \/ EraseUnfinished(s) THEN Bad(s.t) ELSE Paint(s.t, s.x, FALSE)
<1> DEFINE e == EraseRun(t, x, xp, Cardinality(Nodes))[Cardinality(Nodes)]
<1>1. EraseFix(t, x, xp) =
        IF e.t.bad \/ EraseUnfinished(e) THEN Bad(e.t) ELSE Paint(e.t, e.x, FALSE)
  BY Zenon DEF EraseFix, EraseRun, IsEraseRun
<1>2. s = e
  OBVIOUS
<1> HIDE DEF e
<1>3. QED
  BY <1>1, <1>2

(* The heap has a number of nodes. *)
LEMMA NodesCounted == RBTreeAssumption => Cardinality(Nodes) \in Nat
BY FS_CardinalityType DEF RBTreeAssumption

(* Every turn of rbtree_insert_fixup leaves a search tree and a node of it. *)
LEMMA InsertRunGrown ==
  ASSUME NEW t, NEW n, NEW A, NEW ky, Grown(t, A, ky), RBTreeAssumption, n \in A, NEW k \in Nat
  PROVE  \A i \in 0..k : /\ Grown(InsertRun(t, n, k)[i].t, A, ky)
                         /\ InsertRun(t, n, k)[i].node \in A
<1> DEFINE h == InsertRun(t, n, k)
           T == {i \in 0..k : ~(Grown(h[i].t, A, ky) /\ h[i].node \in A)}
<1>1. h[0] = [t |-> t, node |-> n] /\ \A i \in 1..k : h[i] = InsertFixStep(h[i - 1])
  BY InsertRunExists
<1> HIDE DEF h
<1>2. ASSUME T # {} PROVE FALSE
  <2>1. T \in SUBSET Nat
    OBVIOUS
  <2>2. PICK i \in T : \A j \in T : i <= j
    BY <1>2, <2>1, LeastNumber
  <2>3. i # 0
    BY <1>1, <2>2
  <2>4. i \in 1..k /\ i - 1 \in 0..k /\ i - 1 \notin T
    BY <2>2, <2>3
  <2>5. PICK s : s = h[i - 1]
    OBVIOUS
  <2>6. Grown(s.t, A, ky) /\ s.node \in A
    BY <2>4, <2>5
  <2>7. h[i] = InsertFixStep(s)
    BY <1>1, <2>4, <2>5
  <2>8. Grown(h[i].t, A, ky) /\ h[i].node \in A
    BY <2>6, <2>7, InsertStepGrown
  <2>9. QED
    BY <2>2, <2>8
<1>3. QED
  BY <1>2 DEF h

(* rbtree_insert_fixup leaves a search tree. *)
LEMMA InsertFixGrown ==
  ASSUME NEW t, NEW n, NEW A, NEW ky, Grown(t, A, ky), RBTreeAssumption, n \in A
  PROVE  Grown(InsertFix(t, n), A, ky)
<1>1. PICK k : k = Cardinality(Nodes)
  OBVIOUS
<1>2. k \in Nat
  BY <1>1, NodesCounted
<1>3. PICK q : q = InsertRun(t, n, k)[k].t
  OBVIOUS
<1>4. Grown(q, A, ky)
  BY <1>2, <1>3, InsertRunGrown
<1>5. q.root \in Ref
  BY <1>4, SideFields DEF Grown, Shape, Typed
<1>6. InsertFix(t, n) = Paint(q, q.root, FALSE)
  BY <1>1, <1>3, InsertFixIs
<1>7. QED
  BY <1>4, <1>5, <1>6, GrownPaint

(* Every turn of rbtree_erase_fixup leaves a search tree, or the bad mark. *)
LEMMA EraseRunErasing ==
  ASSUME NEW t, NEW x, NEW xp, NEW A, NEW ky, RBTreeAssumption, NEW k \in Nat,
         Grown(t, A, ky), x \in A \cup {NULL}, xp \in A \cup {NULL}
  PROVE  \A i \in 0..k : Erasing(EraseRun(t, x, xp, k)[i], A, ky)
<1> DEFINE h == EraseRun(t, x, xp, k)
           Ok(s) == Erasing(s, A, ky) /\ s = [t |-> s.t, x |-> s.x, xp |-> s.xp]
           T == {i \in 0..k : ~Ok(h[i])}
<1>1. /\ h[0] = [t |-> t, x |-> x, xp |-> xp]
      /\ \A i \in 1..k : h[i] = EraseFixStep(h[i - 1])
  BY EraseRunExists
<1> HIDE DEF h
<1>2. ASSUME T # {} PROVE FALSE
  <2>1. T \in SUBSET Nat
    OBVIOUS
  <2>2. PICK i \in T : \A j \in T : i <= j
    BY <1>2, <2>1, LeastNumber
  <2>3. i # 0
    BY <1>1, <2>2 DEF Erasing, Outcome
  <2>4. i \in 1..k /\ i - 1 \in 0..k /\ i - 1 \notin T
    BY <2>2, <2>3
  <2>5. PICK s : s = h[i - 1]
    OBVIOUS
  <2>6. Ok(s)
    BY <2>4, <2>5
  <2>7. h[i] = EraseFixStep(s)
    BY <1>1, <2>4, <2>5
  <2>8. Ok(h[i])
    BY <2>6, <2>7, EraseStepErasing
  <2>9. QED
    BY <2>2, <2>8
<1>3. QED
  BY <1>2 DEF h

(* rbtree_erase_fixup leaves a search tree, or the bad mark. *)
LEMMA EraseFixOutcome ==
  ASSUME NEW t, NEW x, NEW xp, NEW A, NEW ky, RBTreeAssumption,
         Grown(t, A, ky), x \in A \cup {NULL}, xp \in A \cup {NULL}
  PROVE  Outcome(EraseFix(t, x, xp), A, ky)
<1>1. PICK k : k = Cardinality(Nodes)
  OBVIOUS
<1>2. k \in Nat
  BY <1>1, NodesCounted
<1>3. PICK s : s = EraseRun(t, x, xp, k)[k]
  OBVIOUS
<1>4. Erasing(s, A, ky)
  BY <1>2, <1>3, EraseRunErasing
<1>5. EraseFix(t, x, xp) =
        IF s.t.bad \/ EraseUnfinished(s) THEN Bad(s.t) ELSE Paint(s.t, s.x, FALSE)
  BY <1>1, <1>3, EraseFixIs
<1>6. Outcome(Bad(s.t), A, ky)
  BY <1>4, BadOutcome DEF Erasing
<1>7. ASSUME ~(s.t.bad \/ EraseUnfinished(s)) PROVE Outcome(Paint(s.t, s.x, FALSE), A, ky)
  <2>1. Grown(s.t, A, ky) /\ s.x \in A \cup {NULL} /\ s.t \in Tree
    BY <1>4, <1>7 DEF Erasing, Outcome, Grown, Shape, Typed
  <2>2. s.x \in Ref
    BY <2>1 DEF Ref, Grown, Shape, Typed
  <2>3. QED
    BY <2>1, <2>2, GrownPaint DEF Outcome
<1>8. QED
  BY <1>5, <1>6, <1>7

-------------------------------------------------------------------------------
(* Induction and recursion down a tree. *)

(* The fewer nodes below, the lower. *)
LEMMA Lower ==
  ASSUME NEW t, NEW A, NEW sub, NEW ky, Shape(t, A, sub, ky), RBTreeAssumption, NEW n \in A
  PROVE  /\ IsFiniteSet(sub[n]) /\ Cardinality(sub[n]) \in Nat \ {0}
         /\ Cardinality(sub[n]) <= Cardinality(A) /\ Cardinality(A) <= Cardinality(Nodes)
         /\ Cardinality(A) \in Nat /\ Cardinality(Nodes) \in Nat
         /\ \A s \in Sides : t[s][n] # NULL => Cardinality(sub[t[s][n]]) < Cardinality(sub[n])
<1>1. IsFiniteSet(Nodes) /\ A \in SUBSET Nodes /\ sub[n] \in SUBSET A
  BY DEF Shape, Typed, RBTreeAssumption, Ref
<1>2. /\ IsFiniteSet(A) /\ Cardinality(A) <= Cardinality(Nodes)
      /\ Cardinality(A) \in Nat /\ Cardinality(Nodes) \in Nat
  BY <1>1, FS_Subset, FS_CardinalityType
<1>3. IsFiniteSet(sub[n]) /\ Cardinality(sub[n]) <= Cardinality(A)
  BY <1>1, <1>2, FS_Subset
<1>4. n \in sub[n]
  BY Children DEF Sides
<1>5. Cardinality(sub[n]) \in Nat \ {0}
  BY <1>3, <1>4, FS_EmptySet, FS_CardinalityType
<1>6. ASSUME NEW s \in Sides, t[s][n] # NULL PROVE Cardinality(sub[t[s][n]]) < Cardinality(sub[n])
  <2>1. sub[t[s][n]] \subseteq sub[n] /\ sub[t[s][n]] # sub[n]
    BY <1>4, <1>6, Children
  <2>2. QED
    BY <1>3, <2>1, FS_Subset, FS_CardinalityType
<1>7. QED
  BY <1>2, <1>3, <1>5, <1>6

(* What a node has when its children have it, all nodes have. *)
LEMMA TreeInduction ==
  ASSUME NEW t, NEW A, NEW sub, NEW ky, Shape(t, A, sub, ky), RBTreeAssumption, NEW S,
         \A n \in A : (\A s \in Sides : t[s][n] # NULL => t[s][n] \in S) => n \in S
  PROVE  A \subseteq S
<1> DEFINE T == {k \in Nat : \E n \in A : n \notin S /\ Cardinality(sub[n]) = k}
<1>1. SUFFICES ASSUME NEW a \in A, a \notin S PROVE FALSE
  OBVIOUS
<1>2. Cardinality(sub[a]) \in T
  BY <1>1, Lower
<1>3. PICK k \in T : \A j \in T : k <= j
  <2>1. T \in SUBSET Nat /\ T # {}
    BY <1>2
  <2>2. QED
    BY <2>1, LeastNumber
<1>4. PICK n \in A : n \notin S /\ Cardinality(sub[n]) = k
  BY <1>3
<1>5. PICK s \in Sides : t[s][n] # NULL /\ t[s][n] \notin S
  BY <1>4
<1>6. t[s][n] \in A
  BY <1>5, Children
<1>7. Cardinality(sub[t[s][n]]) < k /\ Cardinality(sub[t[s][n]]) \in T
  BY <1>4, <1>5, <1>6, Lower
<1>8. QED
  BY <1>3, <1>7

(* A function on the nodes can be given by what it is at a node, from what *)
(* it is at its children: G from node and children's values, z at NULL.    *)
Rule(V, z, G) == z \in V /\ G \in [Nodes \X V \X V -> V]

Obeys(f, t, V, z, G) ==
  /\ f \in [Ref -> V] /\ f[NULL] = z
  /\ \A n \in Nodes : f[n] = G[<<n, f[t.left[n]], f[t.right[n]]>>]

(* A recursion over the children of the nodes has a solution: the tree has *)
(* no cycle.                                                               *)
LEMMA TreeRecursion ==
  ASSUME NEW t, NEW A, NEW sub, NEW ky, Shape(t, A, sub, ky), Clean(t, A), RBTreeAssumption,
         NEW V, NEW z, NEW G, Rule(V, z, G)
  PROVE  \E f : Obeys(f, t, V, z, G)
<1> USE DEF Rule
<1> DEFINE rank(n) == IF n \in A THEN Cardinality(sub[n]) ELSE 0
           Upto(f, k) == /\ f[NULL] = z
                         /\ \A n \in Nodes : rank(n) <= k =>
                              f[n] = G[<<n, f[t.left[n]], f[t.right[n]]>>]
           T == {k \in Nat : ~\E f \in [Ref -> V] : Upto(f, k)}
<1>1. /\ NULL \notin Nodes /\ NULL \in Ref /\ Nodes \subseteq Ref
      /\ \A n \in Nodes : t.left[n] \in Ref /\ t.right[n] \in Ref
  <2>1. t \in Tree
    BY DEF Shape, Typed
  <2>2. t.left \in [Nodes -> Ref] /\ t.right \in [Nodes -> Ref]
    BY <2>1 DEF Tree
  <2>3. QED
    BY <2>2 DEF RBTreeAssumption, Ref
<1>2. \A n \in Nodes : rank(n) \in Nat /\ rank(n) <= Cardinality(Nodes)
  BY Lower, NodesCounted
<1>3. \A n \in Nodes : /\ t.left[n] # NULL => rank(t.left[n]) < rank(n)
                       /\ t.right[n] # NULL => rank(t.right[n]) < rank(n)
  <2>1. ASSUME NEW n \in Nodes, NEW s \in Sides, t[s][n] # NULL PROVE rank(t[s][n]) < rank(n)
    <3>1. n \in A
      BY <2>1 DEF Clean
    <3>2. QED
      BY <2>1, <3>1, Lower, Children
  <2>2. t["left"] = t.left /\ t["right"] = t.right
    BY SideFields DEF Shape, Typed
  <2> HIDE DEF rank
  <2>3. QED
    BY <2>1, <2>2 DEF Sides
<1> HIDE DEF rank
<1>4. ASSUME T # {} PROVE FALSE
  <2>1. T \in SUBSET Nat
    OBVIOUS
  <2>2. PICK k \in T : \A j \in T : k <= j
    BY <1>4, <2>1, LeastNumber
  <2>3. CASE k = 0
    <3> DEFINE f == [n \in Ref |-> IF n = NULL THEN z ELSE G[<<n, z, z>>]]
    <3>1. f \in [Ref -> V]
      BY DEF Ref
    <3>2. ASSUME NEW n \in Nodes, rank(n) <= 0
          PROVE  f[n] = G[<<n, f[t.left[n]], f[t.right[n]]>>]
      <4>1. t.left[n] = NULL /\ t.right[n] = NULL
        BY <1>1, <1>2, <1>3, <3>2 DEF Ref
      <4>2. QED
        BY <1>1, <4>1
    <3>3. f[NULL] = z
      BY <1>1
    <3> HIDE DEF f
    <3>4. Upto(f, 0)
      BY <3>2, <3>3
    <3> HIDE DEF Upto
    <3>5. QED
      BY <2>2, <2>3, <3>1, <3>4
  <2>4. CASE k # 0
    <3>1. k - 1 \in Nat /\ k - 1 \notin T
      BY <2>2, <2>4
    <3>2. PICK g \in [Ref -> V] : Upto(g, k - 1)
      BY <3>1
    <3> DEFINE f == [n \in Ref |-> IF n \in Nodes /\ rank(n) = k
                                   THEN G[<<n, g[t.left[n]], g[t.right[n]]>>] ELSE g[n]]
    <3>3. f \in [Ref -> V]
      BY <1>1
    <3>4. f[NULL] = z
      BY <1>1, <3>2
    <3>5. \A n \in Nodes : rank(n) < k => f[n] = g[n]
      BY <1>1, <1>2, <2>2
    <3>6. ASSUME NEW n \in Nodes, rank(n) <= k
          PROVE  f[n] = G[<<n, f[t.left[n]], f[t.right[n]]>>]
      <4>1. f[t.left[n]] = g[t.left[n]] /\ f[t.right[n]] = g[t.right[n]]
        <5>1. t.left[n] # NULL => t.left[n] \in Nodes /\ rank(t.left[n]) < k
          BY <1>1, <1>2, <1>3, <2>2, <3>6 DEF Ref
        <5>2. t.right[n] # NULL => t.right[n] \in Nodes /\ rank(t.right[n]) < k
          BY <1>1, <1>2, <1>3, <2>2, <3>6 DEF Ref
        <5>3. f[NULL] = g[NULL]
          BY <3>2, <3>4
        <5> HIDE DEF f
        <5>4. QED
          BY <3>5, <5>1, <5>2, <5>3
      <4>2. f[n] = G[<<n, g[t.left[n]], g[t.right[n]]>>]
        <5>1. CASE rank(n) = k
          BY <1>1, <5>1
        <5>2. CASE rank(n) # k
          <6>1. rank(n) <= k - 1
            BY <1>2, <2>1, <2>2, <3>6, <5>2
          <6>2. f[n] = g[n]
            BY <1>1, <5>2
          <6> HIDE DEF f
          <6>3. QED
            BY <3>2, <6>1, <6>2
        <5>3. QED
          BY <5>1, <5>2
      <4> HIDE DEF f
      <4>3. QED
        BY <4>1, <4>2
    <3> HIDE DEF f
    <3>7. Upto(f, k)
      BY <3>4, <3>6
    <3> HIDE DEF Upto
    <3>8. QED
      BY <2>2, <3>3, <3>7
  <2>5. QED
    BY <2>3, <2>4
<1>5. PICK f \in [Ref -> V] : Upto(f, Cardinality(Nodes))
  BY <1>4, NodesCounted
<1>6. QED
  BY <1>2, <1>5 DEF Obeys

(* What is below a node below n is below n. *)
LEMMA BelowBelow ==
  ASSUME NEW t, NEW A, NEW sub, NEW ky, Shape(t, A, sub, ky), RBTreeAssumption,
         NEW n \in A, NEW m \in sub[n]
  PROVE  m \in A /\ sub[m] \subseteq sub[n] /\ (m # n => t.parent[m] # NULL /\ t.parent[m] \in sub[n])
<1> DEFINE P(a, b) == /\ b \in A /\ sub[b] \subseteq sub[a]
                      /\ b # a => t.parent[b] # NULL /\ t.parent[b] \in sub[a]
           S == {a \in A : \A b \in sub[a] : P(a, b)}
<1>1. ASSUME NEW a \in A, \A s \in Sides : t[s][a] # NULL => t[s][a] \in S
      PROVE  a \in S
  <2> SUFFICES ASSUME NEW b \in sub[a] PROVE P(a, b)
    OBVIOUS
  <2>1. CASE b = a
    BY <2>1
  <2>2. CASE b # a
    <3>1. PICK s \in Sides : b \in sub[t[s][a]]
      BY <2>2 DEF Shape, Splits, Sides
    <3>2. t[s][a] # NULL
      BY <3>1 DEF Shape, Typed
    <3>3. t[s][a] \in S /\ sub[t[s][a]] \subseteq sub[a] /\ t.parent[t[s][a]] = a
      BY <1>1, <3>2, Children
    <3>4. a \in sub[a] /\ a # NULL
      BY Children DEF Sides
    <3>5. QED
      BY <3>1, <3>3, <3>4
  <2>3. QED
    BY <2>1, <2>2
<1> HIDE DEF S
<1>2. A \subseteq S
  BY <1>1, TreeInduction
<1>3. QED
  BY <1>2 DEF S

-------------------------------------------------------------------------------
(* The walks of RBTree. *)

IsFind(f, t, ky, k) ==
  f = [n \in Ref |->
         IF n = NULL THEN NULL
         ELSE IF k = ky[n] THEN n
         ELSE IF k < ky[n] THEN f[t.left[n]] ELSE f[t.right[n]]]

(* The search for a key can be carried out: it ends at every node of the   *)
(* tree.                                                                   *)
LEMMA FindExists ==
  ASSUME NEW t, NEW A, NEW sub, NEW ky, Shape(t, A, sub, ky), Clean(t, A), RBTreeAssumption, NEW k
  PROVE  \E f : IsFind(f, t, ky, k)
<1> DEFINE G == [w \in Nodes \X Ref \X Ref |->
                   IF k = ky[w[1]] THEN w[1] ELSE IF k < ky[w[1]] THEN w[2] ELSE w[3]]
<1>1. Rule(Ref, NULL, G)
  BY DEF Ref, Rule
<1>2. \A n \in Nodes, a, b \in Ref :
        G[<<n, a, b>>] = IF k = ky[n] THEN n ELSE IF k < ky[n] THEN a ELSE b
  OBVIOUS
<1>3. \A n \in Nodes : t.left[n] \in Ref /\ t.right[n] \in Ref
  BY DEF Shape, Typed, Tree
<1> HIDE DEF G
<1>4. PICK f : Obeys(f, t, Ref, NULL, G)
  BY <1>1, TreeRecursion
<1>5. \A n \in Ref : f[n] = IF n = NULL THEN NULL
                            ELSE IF k = ky[n] THEN n
                            ELSE IF k < ky[n] THEN f[t.left[n]] ELSE f[t.right[n]]
  <2> SUFFICES ASSUME NEW n \in Nodes
               PROVE  f[n] = IF k = ky[n] THEN n
                             ELSE IF k < ky[n] THEN f[t.left[n]] ELSE f[t.right[n]]
    BY <1>4 DEF Ref, Obeys, RBTreeAssumption
  <2>1. f[n] = G[<<n, f[t.left[n]], f[t.right[n]]>>] /\ f[t.left[n]] \in Ref /\ f[t.right[n]] \in Ref
    BY <1>3, <1>4 DEF Obeys
  <2>2. QED
    BY <1>2, <2>1
<1>6. f = [n \in Ref |-> f[n]]
  BY <1>4 DEF Obeys
<1>7. IsFind(f, t, ky, k)
  BY <1>5, <1>6 DEF IsFind
<1>8. QED
  BY <1>7

(* The search finds the node with the key, if there is one. *)
LEMMA LookupIs ==
  ASSUME NEW sub, Shape(tree, alive, sub, key), Clean(tree, alive), RBTreeAssumption, NEW k \in Int
  PROVE  /\ Lookup(k) = NULL => \A n \in alive : key[n] # k
         /\ Lookup(k) # NULL => Lookup(k) \in alive /\ key[Lookup(k)] = k
<1> DEFINE t == tree
           A == alive
           ky == key
           f == CHOOSE g : IsFind(g, t, ky, k)
           Q(n) == \/ f[n] = NULL /\ \A m \in sub[n] : ky[m] # k
                   \/ f[n] \in sub[n] /\ ky[f[n]] = k
           S == {n \in A : Q(n)}
<1>1. Lookup(k) = f[t.root]
  BY Zenon DEF Lookup, IsFind
<1>2. IsFind(f, t, ky, k)
  BY FindExists
<1>p. Shape(t, A, sub, ky) /\ t \in Tree /\ A \in SUBSET Nodes /\ NULL \notin A /\ sub[NULL] = {}
      /\ \A n \in A : ky[n] \in Int
  BY DEF Shape, Typed, RBTreeAssumption
<1> HIDE DEF f, t, A, ky
<1>3. f[NULL] = NULL /\ \A n \in A : f[n] = IF k = ky[n] THEN n
                            ELSE IF k < ky[n] THEN f[t["left"][n]] ELSE f[t["right"][n]]
  BY <1>2, <1>p, SideFields DEF IsFind, Ref
<1>4. ASSUME NEW n \in A, \A s \in Sides : t[s][n] # NULL => t[s][n] \in S
      PROVE  n \in S
  <2>1. /\ sub[n] = {n} \cup sub[t["left"][n]] \cup sub[t["right"][n]] /\ ky[n] \in Int
        /\ \A m \in sub[t["left"][n]] : ky[m] < ky[n] /\ ky[m] \in Int
        /\ \A m \in sub[t["right"][n]] : ky[n] < ky[m] /\ ky[m] \in Int
    <3>1. /\ \A m \in sub[t["left"][n]] : Toward("left", ky, m, n)
          /\ \A m \in sub[t["right"][n]] : Toward("right", ky, m, n)
      BY <1>p DEF Shape, Ordered, Sides
    <3>2. sub[n] \in SUBSET A
      BY <1>p, Children DEF Sides
    <3>3. QED
      BY <1>p, <3>1, <3>2 DEF Toward, Shape, Splits
  <2>2. Q(t["left"][n]) /\ Q(t["right"][n])
    <3>1. Q(NULL)
      BY <1>3, <1>p
    <3>2. \A s \in Sides : Q(t[s][n])
      BY <1>4, <3>1
    <3> HIDE DEF Q
    <3>3. QED
      BY <3>2 DEF Sides
  <2>3. Q(n)
    BY <1>3, <2>1, <2>2
  <2>4. QED
    BY <2>3
<1> HIDE DEF S
<1>5. A \subseteq S
  BY <1>4, <1>p, TreeInduction
<1>6. sub[t.root] = A /\ (t.root # NULL => t.root \in A)
  BY <1>p DEF Shape, Rooted
<1>7. Q(t.root)
  BY <1>3, <1>5, <1>6, <1>p DEF S
<1>8. QED
  BY <1>1, <1>6, <1>7, <1>p DEF A, ky

IsEnd(f, t, side) ==
  f = [n \in Ref |->
         IF n = NULL THEN NULL
         ELSE IF t[side][n] = NULL THEN n ELSE f[t[side][n]]]

(* The walk along the links of a side ends. *)
LEMMA EndExists ==
  ASSUME NEW t, NEW A, NEW sub, NEW ky, Shape(t, A, sub, ky), Clean(t, A), RBTreeAssumption,
         NEW side \in Sides
  PROVE  \E f : IsEnd(f, t, side)
<1> DEFINE G == [w \in Nodes \X Ref \X Ref |->
                   IF t[side][w[1]] = NULL THEN w[1] ELSE IF side = "left" THEN w[2] ELSE w[3]]
<1>1. Rule(Ref, NULL, G)
  BY DEF Ref, Rule
<1>2. \A n \in Nodes, a, b \in Ref :
        G[<<n, a, b>>] = IF t[side][n] = NULL THEN n ELSE IF side = "left" THEN a ELSE b
  OBVIOUS
<1>3. \A n \in Nodes : t.left[n] \in Ref /\ t.right[n] \in Ref
  BY DEF Shape, Typed, Tree
<1>4. t["left"] = t.left /\ t["right"] = t.right
  BY SideFields DEF Shape, Typed
<1> HIDE DEF G
<1>5. PICK f : Obeys(f, t, Ref, NULL, G)
  BY <1>1, TreeRecursion
<1>6. \A n \in Ref : f[n] = IF n = NULL THEN NULL
                            ELSE IF t[side][n] = NULL THEN n ELSE f[t[side][n]]
  <2> SUFFICES ASSUME NEW n \in Nodes
               PROVE  f[n] = IF t[side][n] = NULL THEN n ELSE f[t[side][n]]
    BY <1>5 DEF Ref, Obeys, RBTreeAssumption
  <2>1. f[n] = G[<<n, f[t.left[n]], f[t.right[n]]>>] /\ f[t.left[n]] \in Ref /\ f[t.right[n]] \in Ref
    BY <1>3, <1>5 DEF Obeys
  <2>2. f[n] = IF t[side][n] = NULL THEN n
               ELSE IF side = "left" THEN f[t.left[n]] ELSE f[t.right[n]]
    BY <1>2, <2>1
  <2>3. QED
    BY <1>4, <2>2 DEF Sides
<1>7. f = [n \in Ref |-> f[n]]
  BY <1>5 DEF Obeys
<1>8. IsEnd(f, t, side)
  BY <1>6, <1>7 DEF IsEnd
<1>9. QED
  BY <1>8

(* The far end of one side comes before all others on that side. *)
LEMMA EndIs ==
  ASSUME NEW t, NEW A, NEW sub, NEW ky, Shape(t, A, sub, ky), Clean(t, A), RBTreeAssumption,
         NEW side \in Sides, NEW from \in A
  PROVE  /\ End(t, from, side) \in sub[from] /\ t[side][End(t, from, side)] = NULL
         /\ \A m \in sub[from] : m # End(t, from, side) => Toward(side, ky, End(t, from, side), m)
<1> DEFINE f == CHOOSE g : IsEnd(g, t, side)
           Q(n) == /\ f[n] \in sub[n] /\ t[side][f[n]] = NULL
                   /\ \A m \in sub[n] : m # f[n] => Toward(side, ky, f[n], m)
           S == {n \in A : Q(n)}
<1>1. End(t, from, side) = f[from]
  BY Zenon DEF End, IsEnd
<1>2. IsEnd(f, t, side)
  BY EndExists
<1>p. A \in SUBSET Nodes /\ NULL \notin A /\ (\A n \in A : ky[n] \in Int)
  BY DEF Shape, Typed, RBTreeAssumption
<1> HIDE DEF f
<1>3. \A n \in A : f[n] = IF t[side][n] = NULL THEN n ELSE f[t[side][n]]
  BY <1>2, <1>p DEF IsEnd, Ref
<1>4. ASSUME NEW n \in A, \A s \in Sides : t[s][n] # NULL => t[s][n] \in S
      PROVE  n \in S
  <2> DEFINE c == t[side][n]
             d == t[Other(side)][n]
  <2>1. /\ sub[n] = {n} \cup sub[c] \cup sub[d] /\ sub[n] \in SUBSET A
        /\ Other(side) \in Sides
    BY Children, OtherSide
  <2>2. /\ \A m \in sub[c] : Toward(side, ky, m, n)
        /\ \A m \in sub[d] : Toward(side, ky, n, m)
    <3>1. \A m \in sub[d] : Toward(Other(side), ky, m, n)
      BY <2>1 DEF Shape, Ordered
    <3>2. QED
      BY <1>p, <2>1, <3>1, TowardIs DEF Shape, Ordered
  <2>3. CASE c = NULL
    <3>1. sub[c] = {} /\ f[n] = n
      BY <1>3, <2>3 DEF Shape, Typed
    <3>2. QED
      BY <2>1, <2>2, <2>3, <3>1
  <2>4. CASE c # NULL
    <3>1. Q(c) /\ f[n] = f[c] /\ c \in A
      BY <1>3, <1>4, <2>4
    <3>2. Toward(side, ky, f[c], n)
      BY <2>2, <3>1
    <3>3. \A m \in sub[d] : Toward(side, ky, f[c], m)
      BY <1>p, <2>1, <2>2, <3>1, <3>2, TowardTransitive
    <3> HIDE DEF c, d
    <3>4. QED
      BY <2>1, <3>1, <3>2, <3>3
  <2>5. QED
    BY <2>3, <2>4
<1> HIDE DEF S
<1>5. A \subseteq S
  BY <1>4, TreeInduction
<1>6. QED
  BY <1>1, <1>5 DEF S

IsLeaf(f, t, ky, k) ==
  f = [n \in Nodes |->
         LET down == IF k < ky[n] THEN t.left[n] ELSE t.right[n]
         IN  IF down = NULL THEN n ELSE f[down]]

(* The walk to the place of a new key ends. *)
LEMMA LeafExists ==
  ASSUME NEW t, NEW A, NEW sub, NEW ky, Shape(t, A, sub, ky), Clean(t, A), RBTreeAssumption, NEW k
  PROVE  \E f : IsLeaf(f, t, ky, k)
<1> DEFINE down(n) == IF k < ky[n] THEN t.left[n] ELSE t.right[n]
           G == [w \in Nodes \X Ref \X Ref |->
                   IF down(w[1]) = NULL THEN w[1] ELSE IF k < ky[w[1]] THEN w[2] ELSE w[3]]
<1>1. Rule(Ref, NULL, G)
  <2> HIDE DEF down
  <2>1. QED
    BY DEF Ref, Rule
<1>2. \A n \in Nodes, a, b \in Ref :
        G[<<n, a, b>>] = IF down(n) = NULL THEN n ELSE IF k < ky[n] THEN a ELSE b
  <2> HIDE DEF down
  <2>1. QED
    OBVIOUS
<1>3. \A n \in Nodes : t.left[n] \in Ref /\ t.right[n] \in Ref
  BY DEF Shape, Typed, Tree
<1> HIDE DEF G
<1>4. PICK g : Obeys(g, t, Ref, NULL, G)
  BY <1>1, TreeRecursion
<1> DEFINE f == [n \in Nodes |-> g[n]]
<1>5. ASSUME NEW n \in Nodes PROVE f[n] = IF down(n) = NULL THEN n ELSE f[down(n)]
  <2>1. g[n] = G[<<n, g[t.left[n]], g[t.right[n]]>>] /\ g[t.left[n]] \in Ref /\ g[t.right[n]] \in Ref
    BY <1>3, <1>4 DEF Obeys
  <2>2. g[n] = IF down(n) = NULL THEN n ELSE IF k < ky[n] THEN g[t.left[n]] ELSE g[t.right[n]]
    BY <1>2, <2>1
  <2>3. g[n] = IF down(n) = NULL THEN n ELSE g[down(n)]
    BY <2>2
  <2>4. down(n) = NULL \/ down(n) \in Nodes
    BY <1>3 DEF Ref
  <2> HIDE DEF down
  <2>5. QED
    BY <2>3, <2>4
<1>6. f = [n \in Nodes |-> IF down(n) = NULL THEN n ELSE f[down(n)]]
  <2>1. f = [n \in Nodes |-> f[n]]
    OBVIOUS
  <2> HIDE DEF f, down
  <2>2. QED
    BY <1>5, <2>1
<1> HIDE DEF f
<1>7. IsLeaf(f, t, ky, k)
  BY <1>6 DEF IsLeaf
<1>8. QED
  BY <1>7

(* k lies on this side of the key of m. *)
Beside(side, k, ky, m) == IF side = "left" THEN k < ky[m] ELSE ky[m] < k

(* Where the search for a key ends that is not there, it can be put. *)
LEMMA LeafIs ==
  ASSUME NEW sub, Shape(tree, alive, sub, key), Clean(tree, alive), RBTreeAssumption,
         NEW k \in Int, \A n \in alive : key[n] # k, tree.root # NULL,
         NEW side, side = IF k < key[Leaf(k)] THEN "left" ELSE "right"
  PROVE  /\ Leaf(k) \in alive /\ tree[side][Leaf(k)] = NULL
         /\ Beside(side, k, key, Leaf(k))
         /\ \A m \in alive : \A s \in Sides :
              Leaf(k) \in sub[tree[s][m]] => Beside(s, k, key, m)
<1> DEFINE t == tree
           A == alive
           ky == key
           f == CHOOSE g : IsLeaf(g, t, ky, k)
           Sd(n) == IF k < ky[n] THEN "left" ELSE "right"
           Q(n) == /\ f[n] \in sub[n] /\ t[Sd(f[n])][f[n]] = NULL
                   /\ \A m \in sub[n] : \A s \in Sides : f[n] \in sub[t[s][m]] => Beside(s, k, ky, m)
           S == {n \in A : Q(n)}
<1>1. Leaf(k) = f[t.root]
  BY Zenon DEF Leaf, IsLeaf
<1>2. IsLeaf(f, t, ky, k)
  BY LeafExists
<1>p. Shape(t, A, sub, ky) /\ t \in Tree /\ A \in SUBSET Nodes /\ NULL \notin A /\ sub[NULL] = {}
      /\ \A n \in A : ky[n] \in Int /\ ky[n] # k
  BY DEF Shape, Typed, RBTreeAssumption
<1> HIDE DEF f, t, A, ky
<1>3. ASSUME NEW n \in A
      PROVE  Sd(n) \in Sides /\ Beside(Sd(n), k, ky, n)
             /\ f[n] = IF t[Sd(n)][n] = NULL THEN n ELSE f[t[Sd(n)][n]]
  <2>1. Sd(n) \in Sides /\ Beside(Sd(n), k, ky, n)
    BY <1>p DEF Sides, Beside
  <2>2. t[Sd(n)][n] = IF k < ky[n] THEN t.left[n] ELSE t.right[n]
    BY <1>p, SideFields
  <2>3. f[n] = LET down == IF k < ky[n] THEN t.left[n] ELSE t.right[n]
               IN  IF down = NULL THEN n ELSE f[down]
    BY <1>2, <1>p DEF IsLeaf
  <2> HIDE DEF Sd
  <2>4. QED
    BY <2>1, <2>2, <2>3
<1>4. ASSUME NEW n \in A, \A s \in Sides : t[s][n] # NULL => t[s][n] \in S
      PROVE  n \in S
  <2> DEFINE u == Sd(n)
             c == t[u][n]
             d == t[Other(u)][n]
  <2> HIDE DEF Sd
  <2>1. /\ sub[n] = {n} \cup sub[c] \cup sub[d] /\ sub[n] \in SUBSET A
        /\ sub[c] \cap sub[d] = {} /\ n \notin sub[c] /\ n \notin sub[d]
        /\ u \in Sides /\ Other(u) \in Sides
    BY <1>3, <1>p, Children, OtherSide
  <2>2. \A m \in sub[n] : \A s \in Sides : sub[t[s][m]] \subseteq sub[m] /\ m \notin sub[t[s][m]]
    BY <1>p, <2>1, Children
  <2>3. \A m \in sub[c] : sub[m] \subseteq sub[c]
    <3>1. CASE c = NULL
      BY <1>p, <3>1
    <3>2. CASE c # NULL
      BY <1>p, <2>1, <3>2, Children, BelowBelow
    <3>3. QED
      BY <3>1, <3>2
  <2>4. \A m \in sub[d] : sub[m] \subseteq sub[d]
    <3>1. CASE d = NULL
      BY <1>p, <3>1
    <3>2. CASE d # NULL
      BY <1>p, <2>1, <3>2, Children, BelowBelow
    <3>3. QED
      BY <3>1, <3>2
  <2>5. CASE c = NULL
    <3>1. sub[c] = {} /\ f[n] = n
      BY <1>3, <1>p, <2>5
    <3>2. \A m \in sub[n] : \A s \in Sides : f[n] \notin sub[t[s][m]]
      BY <2>1, <2>2, <2>4, <3>1
    <3>3. QED
      BY <1>3, <2>1, <2>5, <3>1, <3>2
  <2>6. CASE c # NULL
    <3>1. Q(c) /\ f[n] = f[c] /\ c \in A
      BY <1>3, <1>4, <2>1, <2>6
    <3>2. ASSUME NEW m \in sub[n], NEW s \in Sides, f[c] \in sub[t[s][m]] PROVE Beside(s, k, ky, m)
      <4>1. CASE m = n
        <5>1. s = u
          BY <2>1, <3>1, <3>2, <4>1, OtherSide
        <5>2. QED
          BY <1>3, <4>1, <5>1
      <4>2. CASE m \in sub[c]
        BY <3>1, <3>2, <4>2
      <4>3. CASE m \in sub[d]
        <5>1. f[c] \in sub[d] /\ f[c] \in sub[c]
          BY <2>2, <2>4, <3>1, <3>2, <4>3
        <5>2. QED
          BY <2>1, <5>1
      <4>4. QED
        BY <2>1, <4>1, <4>2, <4>3
    <3> HIDE DEF c, d
    <3>3. QED
      BY <2>1, <3>1, <3>2
  <2>7. QED
    BY <2>5, <2>6
<1> HIDE DEF S
<1>5. A \subseteq S
  BY <1>4, <1>p, TreeInduction
<1>6. sub[t.root] = A /\ (t.root # NULL => t.root \in A)
  BY <1>p DEF Shape, Rooted
<1>7. Q(t.root) /\ t.root # NULL
  BY <1>5, <1>6 DEF S, t
<1>8. f[t.root] \in A /\ Sd(f[t.root]) = side
  BY <1>1, <1>6, <1>7 DEF ky
<1> HIDE DEF Sd
<1>9. QED
  BY <1>1, <1>3, <1>6, <1>7, <1>8 DEF A, ky, t

-------------------------------------------------------------------------------
(* A new leaf. *)

(* n hangs as a red node on this side of p, or is the root if p is NULL. *)
Hung(t, r, n, p, side) ==
  /\ r \in Tree /\ r.bad = t.bad
  /\ r.root = IF p = NULL THEN n ELSE t.root
  /\ \A s \in Sides : \A m \in Nodes : r[s][m] = IF m = p /\ s = side THEN n ELSE t[s][m]
  /\ \A m \in Nodes : r.parent[m] = IF m = n THEN p ELSE t.parent[m]
  /\ r.red[n] = TRUE /\ \A m \in Nodes : m # n => r.red[m] = t.red[m]

Hang(t, n, p, side) ==
  LET t1 == [t EXCEPT !.parent[n] = p, !.red[n] = TRUE]
  IN  IF p = NULL THEN [t1 EXCEPT !.root = n] ELSE [t1 EXCEPT ![side][p] = n]

(* Hanging a node under p sets the two links between them, or the root. *)
LEMMA HungIs ==
  ASSUME NEW t \in Tree, NEW n \in Nodes, NEW p \in Ref, NEW side \in Sides, RBTreeAssumption
  PROVE  Hung(t, Hang(t, n, p, side), n, p, side)
<1> DEFINE t0 == [t EXCEPT !.parent[n] = p]
           t1 == [t EXCEPT !.parent[n] = p, !.red[n] = TRUE]
           r  == Hang(t, n, p, side)
<1>0. r = IF p = NULL THEN [t1 EXCEPT !.root = n] ELSE [t1 EXCEPT ![side][p] = n]
  BY DEF Hang
<1> HIDE DEF r
<1>1. t1 = [t0 EXCEPT !.red[n] = TRUE]
  OBVIOUS
<1>2. /\ t0 \in Tree /\ t0.root = t.root /\ t0.red = t.red /\ t0.bad = t.bad
      /\ \A s \in Sides : t0[s] = t[s]
      /\ \A m \in Nodes : t0.parent[m] = IF m = n THEN p ELSE t.parent[m]
  BY SetParentIs
<1>3. /\ t1 \in Tree /\ t1.root = t0.root /\ t1.parent = t0.parent /\ t1.bad = t0.bad
      /\ \A s \in Sides : t1[s] = t0[s]
      /\ t1.red[n] = TRUE /\ \A m \in Nodes : m # n => t1.red[m] = t0.red[m]
  BY <1>1, <1>2 DEF Tree, Sides
<1> HIDE DEF t0, t1
<1> SUFFICES Hung(t, r, n, p, side)
  BY DEF r
<1>4. CASE p = NULL
  <2> DEFINE q == [t1 EXCEPT !.root = n]
  <2>1. r = q /\ n \in Ref
    BY <1>0, <1>4 DEF Ref
  <2>2. /\ q \in Tree /\ q.root = n /\ q.parent = t1.parent /\ q.red = t1.red /\ q.bad = t1.bad
        /\ \A s \in Sides : q[s] = t1[s]
    BY <1>3, <2>1, SetRootIs
  <2>3. \A m \in Nodes : m # p
    BY <1>4 DEF RBTreeAssumption
  <2> HIDE DEF q
  <2>4. QED
    BY <1>2, <1>3, <1>4, <2>1, <2>2, <2>3 DEF Hung
<1>5. CASE p # NULL
  <2> DEFINE q == [t1 EXCEPT ![side][p] = n]
  <2>1. r = q /\ n \in Ref /\ p \in Nodes
    BY <1>0, <1>5 DEF Ref
  <2>2. /\ q \in Tree /\ q.root = t1.root /\ q.parent = t1.parent /\ q.red = t1.red /\ q.bad = t1.bad
        /\ \A s \in Sides : \A m \in Nodes : q[s][m] = IF s = side /\ m = p THEN n ELSE t1[s][m]
    <3>1. t1 \in Tree /\ p \in Nodes /\ n \in Ref
      BY <1>3, <2>1
    <3>2. QED
      BY <3>1, SetSide
  <2> HIDE DEF q
  <2>3. QED
    BY <1>2, <1>3, <1>5, <2>1, <2>2 DEF Hung
<1>6. QED
  BY <1>4, <1>5

(* What is below which node then. *)
SubHung(sub, n, p) ==
  [m \in Ref |-> IF m = n THEN {n} ELSE IF p \in sub[m] THEN sub[m] \cup {n} ELSE sub[m]]

(* The first node. *)
LEMMA RootHung ==
  ASSUME NEW t, NEW sub, NEW ky, Shape(t, {}, sub, ky), Clean(t, {}), RBTreeAssumption,
         NEW n \in Nodes, NEW side \in Sides, NEW r, Hung(t, r, n, NULL, side), NEW kz, kz[n] \in Int
  PROVE  \E sub2 : Shape(r, {n}, sub2, kz)
<1> DEFINE sub2 == [m \in Ref |-> IF m = n THEN {n} ELSE {}]
<1>1. /\ NULL \notin Nodes /\ r \in Tree /\ r.root = n /\ r.parent[n] = NULL
      /\ \A s \in Sides : r[s][n] = NULL
  BY DEF RBTreeAssumption, Hung, Clean
<1>2. sub2 \in [Ref -> SUBSET {n}] /\ sub2[NULL] = {} /\ sub2[n] = {n}
  BY <1>1 DEF Ref
<1> HIDE DEF sub2
<1>3. Typed(r, {n}, sub2, kz)
  BY <1>1, <1>2 DEF Typed
<1>4. Rooted(r, {n}, sub2) /\ LinksDown(r, {n}) /\ LinksUp(r, {n})
  BY <1>1, <1>2 DEF Rooted, LinksDown, LinksUp
<1>5. Splits(r, {n}, sub2) /\ Ordered(r, {n}, sub2, kz)
  BY <1>1, <1>2 DEF Splits, Ordered, Sides
<1>6. QED
  BY <1>3, <1>4, <1>5 DEF Shape

(* A node hung where the search for its key ended: the tree stays a search *)
(* tree.                                                                   *)
LEMMA LeafHung ==
  ASSUME NEW t, NEW A, NEW sub, NEW ky, Shape(t, A, sub, ky), Clean(t, A), RBTreeAssumption,
         NEW n \in Nodes \ A, NEW p \in A, NEW side \in Sides, t[side][p] = NULL,
         NEW r, Hung(t, r, n, p, side),
         NEW kz, kz[n] \in Int, \A m \in A : kz[m] = ky[m],
         Beside(side, kz[n], ky, p),
         \A m \in A : \A s \in Sides : p \in sub[t[s][m]] => Beside(s, kz[n], ky, m)
  PROVE  Shape(r, A \cup {n}, SubHung(sub, n, p), kz)
<1> DEFINE B == A \cup {n}
           new == SubHung(sub, n, p)
<1>1. /\ A \in SUBSET Nodes /\ B \in SUBSET Nodes /\ NULL \notin B /\ n \notin A /\ n # p /\ p \in A
      /\ sub \in [Ref -> SUBSET A] /\ sub[NULL] = {} /\ (\A m \in A : ky[m] \in Int)
      /\ sub[t.root] = A /\ t.root \in A /\ t.parent[t.root] = NULL
  BY DEF Shape, Typed, Rooted, RBTreeAssumption
<1>2. /\ new \in [Ref -> SUBSET B] /\ new[NULL] = {} /\ new[n] = {n}
      /\ \A m \in Ref : m # n => new[m] = IF p \in sub[m] THEN sub[m] \cup {n} ELSE sub[m]
  <2>1. n \in Ref /\ NULL \in Ref /\ NULL # n
    BY <1>1 DEF Ref
  <2>2. QED
    BY <1>1, <2>1 DEF SubHung
<1>3. /\ r \in Tree /\ r.root = t.root
      /\ \A s \in Sides : \A m \in Nodes : r[s][m] = IF m = p /\ s = side THEN n ELSE t[s][m]
      /\ \A m \in Nodes : r.parent[m] = IF m = n THEN p ELSE t.parent[m]
  BY <1>1 DEF Hung
<1>4. \A s \in Sides : r[s][n] = NULL
  BY <1>1, <1>3 DEF Clean
<1>5. \A m \in A : \A s \in Sides : t[s][m] \in Ref /\ t[s][m] # n
  BY <1>1, Children
<1> HIDE DEF new, B
<1>6. Typed(r, B, new, kz)
  BY <1>1, <1>2, <1>3 DEF Typed, B
<1>7. Rooted(r, B, new)
  <2>1. t.root # n /\ t.root # NULL /\ t.root \in Ref
    BY <1>1 DEF Ref
  <2>2. QED
    BY <1>1, <1>2, <1>3, <2>1 DEF Rooted, B
<1>8. LinksDown(r, B)
  <2> SUFFICES ASSUME NEW m \in B, NEW s \in Sides, r[s][m] # NULL
               PROVE  r[s][m] \in B /\ r.parent[r[s][m]] = m
    BY DEF LinksDown
  <2>1. m \in A
    BY <1>4 DEF B
  <2>2. CASE m = p /\ s = side
    BY <1>1, <1>3, <2>2 DEF B
  <2>3. CASE ~(m = p /\ s = side)
    <3>1. r[s][m] = t[s][m]
      BY <1>1, <1>3, <2>1, <2>3
    <3>2. t[s][m] \in A /\ t.parent[t[s][m]] = m
      BY <2>1, <3>1 DEF Shape, LinksDown
    <3>3. QED
      BY <1>1, <1>3, <3>1, <3>2 DEF B
  <2>4. QED
    BY <2>2, <2>3
<1>9. LinksUp(r, B)
  <2> SUFFICES ASSUME NEW m \in B
               PROVE  /\ r.parent[m] = NULL => m = r.root
                      /\ r.parent[m] # NULL => r.parent[m] \in B /\ \E s \in Sides : r[s][r.parent[m]] = m
    BY DEF LinksUp
  <2>1. CASE m = n
    BY <1>1, <1>3, <2>1 DEF B
  <2>2. CASE m # n
    <3>1. m \in A /\ r.parent[m] = t.parent[m]
      BY <1>1, <1>3, <2>2 DEF B
    <3>2. /\ t.parent[m] = NULL => m = t.root
          /\ t.parent[m] # NULL => t.parent[m] \in A /\ \E s \in Sides : t[s][t.parent[m]] = m
      BY <3>1 DEF Shape, LinksUp
    <3>3. t.parent[m] # NULL => \E s \in Sides : r[s][t.parent[m]] = m
      BY <1>1, <1>3, <3>1, <3>2
    <3>4. QED
      BY <1>3, <3>1, <3>2, <3>3 DEF B
  <2>3. QED
    BY <2>1, <2>2
<1>10. ASSUME NEW m \in A, NEW s \in Sides
       PROVE  new[r[s][m]] = IF p \in sub[t[s][m]] \/ (m = p /\ s = side)
                             THEN sub[t[s][m]] \cup {n} ELSE sub[t[s][m]]
  <2>1. CASE m = p /\ s = side
    BY <1>1, <1>2, <1>3, <2>1
  <2>2. CASE ~(m = p /\ s = side)
    <3>1. r[s][m] = t[s][m] /\ t[s][m] \in Ref /\ t[s][m] # n
      BY <1>1, <1>3, <1>5, <2>2
    <3>2. QED
      BY <1>2, <2>2, <3>1
  <2>3. QED
    BY <2>1, <2>2
<1>11. Splits(r, B, new)
  <2> SUFFICES ASSUME NEW m \in B PROVE new[m] = {m} \cup new[r["left"][m]] \cup new[r["right"][m]]
    BY DEF Splits
  <2>1. CASE m = n
    BY <1>2, <1>4, <2>1 DEF Sides
  <2>2. CASE m # n
    <3>1. m \in A /\ m \in Ref
      BY <1>1, <2>2 DEF B, Ref
    <3>2. sub[m] = {m} \cup sub[t["left"][m]] \cup sub[t["right"][m]]
      BY <3>1 DEF Shape, Splits
    <3>3. new[m] = IF p \in sub[m] THEN sub[m] \cup {n} ELSE sub[m]
      BY <1>2, <2>2, <3>1
    <3>4. "left" \in Sides /\ "right" \in Sides /\ (side = "left" \/ side = "right")
      BY DEF Sides
    <3>5. p \in sub[m] <=> \/ p \in sub[t["left"][m]] \/ (m = p /\ "left" = side)
                           \/ p \in sub[t["right"][m]] \/ (m = p /\ "right" = side)
      BY <3>2, <3>4
    <3>6. QED
      BY <1>10, <3>1, <3>2, <3>3, <3>4, <3>5
  <2>3. QED
    BY <2>1, <2>2
<1>12. Ordered(r, B, new, kz)
  <2> SUFFICES ASSUME NEW m \in B, NEW s \in Sides, NEW a \in new[r[s][m]]
               PROVE  Toward(s, kz, a, m)
    BY DEF Ordered
  <2>1. m \in A
    BY <1>2, <1>4 DEF B
  <2>2. CASE a = n
    <3>1. sub[t[s][m]] \in SUBSET A
      BY <1>1, <1>5, <2>1
    <3>2. p \in sub[t[s][m]] \/ (m = p /\ s = side)
      BY <1>1, <1>10, <2>1, <2>2, <3>1
    <3>3. Beside(s, kz[n], ky, m)
      BY <2>1, <3>2
    <3>4. QED
      BY <2>1, <2>2, <3>3 DEF Beside, Toward
  <2>3. CASE a # n
    <3>0. sub[t[s][m]] \in SUBSET A
      BY <1>1, <1>5, <2>1
    <3>1. new[r[s][m]] \subseteq sub[t[s][m]] \cup {n}
      BY <1>10, <2>1
    <3>2. a \in sub[t[s][m]] /\ a \in A
      BY <2>3, <3>0, <3>1
    <3>3. Toward(s, ky, a, m)
      BY <2>1, <3>2 DEF Shape, Ordered
    <3>4. QED
      BY <2>1, <3>2, <3>3 DEF Toward
  <2>4. QED
    BY <2>2, <2>3
<1>13. QED
  BY <1>6, <1>7, <1>8, <1>9, <1>11, <1>12 DEF Shape, B, new

(* Hanging a node leaves those outside the tree alone. *)
LEMMA HungClean ==
  ASSUME NEW t, NEW A, Clean(t, A), NEW n \in Nodes, NEW p \in A \cup {NULL}, NEW side,
         RBTreeAssumption, NEW r, Hung(t, r, n, p, side)
  PROVE  Clean(r, A \cup {n})
BY DEF Clean, Hung, RBTreeAssumption

-------------------------------------------------------------------------------
(* A node is taken out. *)

(* r is t as far as the nodes of A go. *)
SameOn(t, r, A) ==
  /\ r \in Tree /\ r.root = t.root
  /\ \A n \in A : r.parent[n] = t.parent[n] /\ \A s \in Sides : r[s][n] = t[s][n]

(* The shape of a tree depends on the links of its own nodes only. *)
LEMMA SameOnShape ==
  ASSUME NEW t, NEW A, NEW sub, NEW ky, Shape(t, A, sub, ky), NEW r, SameOn(t, r, A)
  PROVE  Shape(r, A, sub, ky)
<1>1. Typed(r, A, sub, ky)
  BY DEF Shape, SameOn, Typed
<1>2. Rooted(r, A, sub)
  BY DEF Shape, SameOn, Rooted
<1>3. LinksDown(r, A)
  BY DEF Shape, SameOn, LinksDown
<1>4. LinksUp(r, A)
  BY DEF Shape, SameOn, LinksUp
<1>5. Splits(r, A, sub)
  BY DEF Shape, SameOn, Splits, Sides
<1>6. Ordered(r, A, sub, ky)
  BY DEF Shape, SameOn, Ordered
<1>7. QED
  BY <1>1, <1>2, <1>3, <1>4, <1>5, <1>6 DEF Shape

SubCut(sub, y) == [m \in Ref |-> sub[m] \ {y}]

CutBelow(t, r, A, sub, y) ==
  \A m \in A \ {y} : \A s \in Sides : SubCut(sub, y)[r[s][m]] = sub[t[s][m]] \ {y}

(* Node y, which has a child on one side at most, is gone. *)
LEMMA CutShape ==
  ASSUME NEW t, NEW A, NEW sub, NEW ky, Shape(t, A, sub, ky), RBTreeAssumption,
         NEW y \in A, NEW side \in Sides, t[Other(side)][y] = NULL,
         NEW r, Transplanted(t, r, y, t[side][y])
  PROVE  Shape(r, A \ {y}, SubCut(sub, y), ky) /\ CutBelow(t, r, A, sub, y)
<1> DEFINE B == A \ {y}
           x == t[side][y]
           p == t.parent[y]
           new == SubCut(sub, y)
<1>1. /\ t \in Tree /\ A \in SUBSET Nodes /\ NULL \notin A /\ sub[NULL] = {} /\ y \in Nodes
      /\ sub \in [Ref -> SUBSET A] /\ (\A m \in A : ky[m] \in Int)
      /\ sub[t.root] = A /\ (t.root # NULL => t.root \in A /\ t.parent[t.root] = NULL)
  BY DEF Shape, Typed, Rooted, RBTreeAssumption
<1>2. /\ x \in Ref /\ sub[y] = {y} \cup sub[x] /\ y \notin sub[x] /\ x # y
      /\ (x # NULL => x \in B /\ t.parent[x] = y)
  <2>1. /\ t[side][y] \in Ref /\ sub[y] = {y} \cup sub[t[side][y]] \cup sub[t[Other(side)][y]]
        /\ (t[side][y] # NULL => t[side][y] \in A /\ t.parent[t[side][y]] = y /\ t[side][y] # y)
        /\ y \notin sub[t[side][y]] /\ y # NULL
    BY Children
  <2>2. QED
    BY <1>1, <2>1
<1>3. p # y /\ (p # NULL => p \in B)
  BY <1>1, OneSide
<1>4. /\ r \in Tree /\ r.root = IF p = NULL THEN x ELSE t.root
      /\ \A s \in Sides : \A m \in Nodes : r[s][m] = IF m = p /\ t[s][m] = y THEN x ELSE t[s][m]
      /\ \A m \in Nodes : r.parent[m] = IF m = x THEN p ELSE t.parent[m]
  BY DEF Transplanted
<1>5. /\ new \in [Ref -> SUBSET B] /\ new[NULL] = {} /\ \A m \in Ref : new[m] = sub[m] \ {y}
  BY <1>1 DEF SubCut, Ref
<1>6. \A m \in A : \A s \in Sides : /\ t[s][m] = y => m = p
                                    /\ t[s][m] \in Ref
                                    /\ t[s][m] # NULL => t[s][m] \in A /\ t.parent[t[s][m]] = m
  BY <1>1, Children
<1> HIDE DEF x, p, new
<1>7. ASSUME NEW m \in B, NEW s \in Sides
      PROVE  /\ r[s][m] = IF t[s][m] = y THEN x ELSE t[s][m]
             /\ new[r[s][m]] = sub[t[s][m]] \ {y}
  <2>1. r[s][m] = IF t[s][m] = y THEN x ELSE t[s][m]
    BY <1>1, <1>4, <1>6
  <2>2. sub[y] \ {y} = sub[x] \ {y}
    BY <1>2
  <2>3. QED
    BY <1>2, <1>5, <1>6, <2>1, <2>2
<1>8. Typed(r, B, new, ky)
  BY <1>1, <1>4, <1>5 DEF Typed
<1>9. Rooted(r, B, new)
  <2>1. CASE p = NULL
    <3>1. y = t.root
      BY <2>1 DEF Shape, LinksUp, p
    <3>2. r.root = x /\ new[x] = sub[y] \ {y}
      BY <1>2, <1>4, <1>5, <2>1
    <3>3. x # NULL => r.parent[x] = NULL
      BY <1>1, <1>2, <1>4, <2>1
    <3>4. QED
      BY <1>1, <1>2, <3>1, <3>2, <3>3 DEF Rooted
  <2>2. CASE p # NULL
    <3>1. r.root = t.root /\ t.root # NULL /\ t.root # y /\ t.root \in Ref
      BY <1>1, <1>3, <1>4, <2>2 DEF p, Ref
    <3>2. t.root # x
      BY <1>1, <1>2, <3>1
    <3>3. r.parent[t.root] = NULL /\ new[t.root] = B
      BY <1>1, <1>4, <1>5, <3>1, <3>2
    <3>4. QED
      BY <1>1, <3>1, <3>3 DEF Rooted
  <2>3. QED
    BY <2>1, <2>2
<1>10. LinksDown(r, B)
  <2> SUFFICES ASSUME NEW m \in B, NEW s \in Sides, r[s][m] # NULL
               PROVE  r[s][m] \in B /\ r.parent[r[s][m]] = m
    BY DEF LinksDown
  <2>1. CASE t[s][m] = y
    BY <1>1, <1>2, <1>4, <1>6, <1>7, <2>1
  <2>2. CASE t[s][m] # y
    <3>1. r[s][m] = t[s][m] /\ t[s][m] \in A /\ t.parent[t[s][m]] = m
      BY <1>6, <1>7, <2>2
    <3>2. t[s][m] # x
      BY <1>1, <1>2, <3>1
    <3>3. QED
      BY <1>1, <1>4, <2>2, <3>1, <3>2
  <2>3. QED
    BY <2>1, <2>2
<1>11. LinksUp(r, B)
  <2> SUFFICES ASSUME NEW m \in B
               PROVE  /\ r.parent[m] = NULL => m = r.root
                      /\ r.parent[m] # NULL => r.parent[m] \in B /\ \E s \in Sides : r[s][r.parent[m]] = m
    BY DEF LinksUp
  <2>1. /\ t.parent[m] = NULL => m = t.root
        /\ t.parent[m] # NULL => t.parent[m] \in A /\ \E s \in Sides : t[s][t.parent[m]] = m
    BY DEF Shape, LinksUp
  <2>2. CASE m = x
    <3>1. r.parent[m] = p
      BY <1>1, <1>4, <2>2
    <3>2. p # NULL => \E s \in Sides : t[s][p] = y
      BY DEF Shape, LinksUp, p
    <3>3. QED
      BY <1>3, <1>4, <1>7, <2>2, <3>1, <3>2
  <2>3. CASE m # x
    <3>1. r.parent[m] = t.parent[m]
      BY <1>1, <1>4, <2>3
    <3>2. t.parent[m] # y
      <4>1. ASSUME t.parent[m] = y PROVE FALSE
        <5>1. PICK s \in Sides : t[s][y] = m
          BY <1>1, <2>1, <4>1
        <5>2. s # side
          BY <2>3, <5>1 DEF x
        <5>3. QED
          BY <1>1, <5>1, <5>2, OtherSide
      <4>2. QED
        BY <4>1
    <3>3. CASE t.parent[m] = NULL
      <4>1. m = t.root /\ m # y
        BY <2>1, <3>3
      <4>2. p # NULL
        BY <4>1 DEF p, Shape, LinksUp
      <4>3. QED
        BY <1>4, <3>1, <3>3, <4>1, <4>2
    <3>4. CASE t.parent[m] # NULL
      <4>1. PICK s \in Sides : t[s][t.parent[m]] = m
        BY <2>1, <3>4
      <4>2. t.parent[m] \in B /\ r[s][t.parent[m]] = m
        BY <1>7, <2>1, <3>2, <3>4, <4>1
      <4>3. QED
        BY <3>1, <3>4, <4>2
    <3>5. QED
      BY <3>3, <3>4
  <2>4. QED
    BY <2>2, <2>3
<1>12. Splits(r, B, new)
  <2> SUFFICES ASSUME NEW m \in B PROVE new[m] = {m} \cup new[r["left"][m]] \cup new[r["right"][m]]
    BY DEF Splits
  <2>1. sub[m] = {m} \cup sub[t["left"][m]] \cup sub[t["right"][m]]
    BY DEF Shape, Splits
  <2>2. new[m] = sub[m] \ {y}
    BY <1>1, <1>5 DEF Ref
  <2>3. new[r["left"][m]] = sub[t["left"][m]] \ {y} /\ new[r["right"][m]] = sub[t["right"][m]] \ {y}
    BY <1>7 DEF Sides
  <2>4. QED
    BY <2>1, <2>2, <2>3
<1>13. Ordered(r, B, new, ky)
  BY <1>7 DEF Shape, Ordered
<1>14. QED
  BY <1>7, <1>8, <1>9, <1>10, <1>11, <1>12, <1>13 DEF Shape, new, CutBelow

(* y, which is not on the tree, has taken the place of n. *)
Replaced(t, r, n, y, B) ==
  /\ r \in Tree /\ r.root = IF t.parent[n] = NULL THEN y ELSE t.root
  /\ \A s \in Sides : r[s][y] = t[s][n]
  /\ \A s \in Sides : \A m \in B : m # n => r[s][m] = IF t[s][m] = n THEN y ELSE t[s][m]
  /\ r.parent[y] = t.parent[n]
  /\ \A m \in B : m # n => r.parent[m] = IF t.parent[m] = n THEN y ELSE t.parent[m]

Renamed(S, n, y) == IF n \in S THEN (S \ {n}) \cup {y} ELSE S

SubReplaced(sub, n, y) == [m \in Ref |-> IF m = y THEN Renamed(sub[n], n, y) ELSE Renamed(sub[m], n, y)]

(* A node put in the place of another, with its key between the same       *)
(* neighbours: the tree stays a search tree.                               *)
LEMMA ReplacedShape ==
  ASSUME NEW t, NEW B, NEW sub, NEW ky, Shape(t, B, sub, ky), RBTreeAssumption,
         NEW n \in B, NEW y \in Nodes, y \notin B, ky[y] \in Int,
         \A s \in Sides : \A m \in sub[t[s][n]] : Toward(s, ky, m, y),
         \A m \in B : \A s \in Sides : n \in sub[t[s][m]] => Toward(s, ky, y, m),
         NEW r, Replaced(t, r, n, y, B)
  PROVE  Shape(r, (B \ {n}) \cup {y}, SubReplaced(sub, n, y), ky)
<1> DEFINE C == (B \ {n}) \cup {y}
           new == SubReplaced(sub, n, y)
           Ren(S) == Renamed(S, n, y)
<1>1. /\ t \in Tree /\ B \in SUBSET Nodes /\ NULL \notin B /\ sub[NULL] = {} /\ n \in Nodes
      /\ sub \in [Ref -> SUBSET B] /\ (\A m \in B : ky[m] \in Int) /\ n # y /\ NULL # y
      /\ sub[t.root] = B /\ t.root \in B /\ t.parent[t.root] = NULL
  BY DEF Shape, Typed, Rooted, RBTreeAssumption
<1>2. \A m \in B : \A s \in Sides : /\ t[s][m] \in Ref /\ t[s][m] # m /\ t[s][m] # y /\ m \notin sub[t[s][m]]
                                    /\ t[s][m] # NULL => t[s][m] \in B /\ t.parent[t[s][m]] = m
                                    /\ sub[t[s][m]] \in SUBSET B
  BY <1>1, Children
<1>r. /\ \A S \in SUBSET B : Ren(S) \in SUBSET C
      /\ \A S \in SUBSET B : \A m : m \in Ren(S) <=> (m \in S /\ m # n) \/ (m = y /\ n \in S)
      /\ Ren({}) = {} /\ Ren(B) = C
  BY <1>1 DEF Renamed
<1>3. /\ new \in [Ref -> SUBSET C] /\ new[NULL] = {} /\ new[y] = Ren(sub[n])
      /\ \A m \in Ref : m # y => new[m] = Ren(sub[m])
  <2>1. /\ n \in Ref /\ y \in Ref /\ NULL \in Ref
        /\ \A m \in Ref : Ren(sub[m]) \in SUBSET C
    BY <1>1, <1>r DEF Ref
  <2>2. new = [m \in Ref |-> IF m = y THEN Ren(sub[n]) ELSE Ren(sub[m])]
    BY DEF SubReplaced
  <2> HIDE DEF C, Ren, new
  <2>3. new \in [Ref -> SUBSET C]
    BY <2>1, <2>2
  <2>4. \A m \in Ref : new[m] = IF m = y THEN Ren(sub[n]) ELSE Ren(sub[m])
    BY <2>2
  <2>5. QED
    BY <1>1, <1>r, <2>1, <2>3, <2>4
<1>4. /\ r \in Tree /\ r.root = IF t.parent[n] = NULL THEN y ELSE t.root
      /\ \A s \in Sides : r[s][y] = t[s][n]
      /\ \A s \in Sides : \A m \in B : m # n => r[s][m] = IF t[s][m] = n THEN y ELSE t[s][m]
      /\ r.parent[y] = t.parent[n]
      /\ \A m \in B : m # n => r.parent[m] = IF t.parent[m] = n THEN y ELSE t.parent[m]
  BY DEF Replaced
<1> HIDE DEF new, Ren
<1>5. ASSUME NEW m \in B, m # n, NEW s \in Sides PROVE new[r[s][m]] = Ren(sub[t[s][m]])
  BY <1>2, <1>3, <1>4, <1>5
<1>6. ASSUME NEW s \in Sides PROVE new[r[s][y]] = Ren(sub[t[s][n]])
  BY <1>2, <1>3, <1>4
<1>7. Typed(r, C, new, ky)
  BY <1>1, <1>3, <1>4 DEF Typed
<1>8. Rooted(r, C, new)
  <2>1. CASE t.parent[n] = NULL
    <3>1. n = t.root
      BY <2>1 DEF Shape, LinksUp
    <3>2. QED
      BY <1>1, <1>3, <1>4, <1>r, <2>1, <3>1 DEF Rooted
  <2>2. CASE t.parent[n] # NULL
    <3>1. t.root # n /\ t.root # y /\ t.root \in Ref /\ n # NULL
      BY <1>1, <2>2 DEF Ref
    <3>2. QED
      BY <1>1, <1>3, <1>4, <1>r, <2>2, <3>1 DEF Rooted
  <2>3. QED
    BY <2>1, <2>2
<1>9. LinksDown(r, C)
  <2> SUFFICES ASSUME NEW m \in C, NEW s \in Sides, r[s][m] # NULL
               PROVE  r[s][m] \in C /\ r.parent[r[s][m]] = m
    BY DEF LinksDown
  <2>1. CASE m = y
    BY <1>1, <1>2, <1>4, <2>1
  <2>2. CASE m # y
    BY <1>1, <1>2, <1>4, <2>2
  <2>3. QED
    BY <2>1, <2>2
<1>10. LinksUp(r, C)
  <2> SUFFICES ASSUME NEW m \in C
               PROVE  /\ r.parent[m] = NULL => m = r.root
                      /\ r.parent[m] # NULL => r.parent[m] \in C /\ \E s \in Sides : r[s][r.parent[m]] = m
    BY DEF LinksUp
  <2>0. \A a \in B : /\ t.parent[a] = NULL => a = t.root
                     /\ t.parent[a] # NULL => t.parent[a] \in B /\ t.parent[a] # a
                                              /\ \E s \in Sides : t[s][t.parent[a]] = a
    BY OneSide DEF Shape, LinksUp
  <2>1. CASE m = y
    <3>1. t.parent[n] # NULL => \E s \in Sides : r[s][t.parent[n]] = y
      BY <1>4, <2>0
    <3>2. QED
      BY <1>4, <2>0, <2>1, <3>1
  <2>2. CASE m # y
    <3>1. m \in B /\ m # n
      BY <2>2
    <3>2. CASE t.parent[m] = n
      BY <1>1, <1>4, <2>0, <3>1, <3>2
    <3>3. CASE t.parent[m] = NULL
      BY <1>1, <1>4, <2>0, <3>1, <3>3
    <3>4. CASE t.parent[m] # n /\ t.parent[m] # NULL
      BY <1>4, <2>0, <3>1, <3>4
    <3>5. QED
      BY <3>2, <3>3, <3>4
  <2>3. QED
    BY <2>1, <2>2
<1>11. Splits(r, C, new)
  <2> SUFFICES ASSUME NEW m \in C PROVE new[m] = {m} \cup new[r["left"][m]] \cup new[r["right"][m]]
    BY DEF Splits
  <2>1. CASE m = y
    <3>1. sub[n] = {n} \cup sub[t["left"][n]] \cup sub[t["right"][n]]
      BY DEF Shape, Splits
    <3>2. n \notin sub[t["left"][n]] /\ n \notin sub[t["right"][n]]
      BY <1>2 DEF Sides
    <3>3. /\ Ren(sub[n]) = {y} \cup (sub[n] \ {n})
          /\ Ren(sub[t["left"][n]]) = sub[t["left"][n]] /\ Ren(sub[t["right"][n]]) = sub[t["right"][n]]
      BY <3>1, <3>2 DEF Ren, Renamed
    <3>4. new[r["left"][y]] = Ren(sub[t["left"][n]]) /\ new[r["right"][y]] = Ren(sub[t["right"][n]])
      BY <1>6 DEF Sides
    <3>5. new[y] = Ren(sub[n])
      BY <1>3
    <3>6. Ren(sub[n]) = {y} \cup sub[t["left"][n]] \cup sub[t["right"][n]]
      BY <3>1, <3>2, <3>3
    <3>7. QED
      BY <2>1, <3>3, <3>4, <3>5, <3>6
  <2>2. CASE m # y
    <3>0. m \in B /\ m # n /\ m \in Ref
      BY <1>1, <2>2 DEF Ref
    <3>1. sub[m] = {m} \cup sub[t["left"][m]] \cup sub[t["right"][m]]
      BY <3>0 DEF Shape, Splits
    <3>2. new[m] = Ren(sub[m])
      BY <1>3, <2>2, <3>0
    <3>3. new[r["left"][m]] = Ren(sub[t["left"][m]]) /\ new[r["right"][m]] = Ren(sub[t["right"][m]])
      BY <1>5, <3>0 DEF Sides
    <3>4. Ren(sub[m]) = {m} \cup Ren(sub[t["left"][m]]) \cup Ren(sub[t["right"][m]])
      BY <3>0, <3>1 DEF Ren, Renamed
    <3>5. QED
      BY <3>2, <3>3, <3>4
  <2>3. QED
    BY <2>1, <2>2
<1>12. Ordered(r, C, new, ky)
  <2> SUFFICES ASSUME NEW m \in C, NEW s \in Sides, NEW a \in new[r[s][m]]
               PROVE  Toward(s, ky, a, m)
    BY DEF Ordered
  <2>1. CASE m = y
    <3>1. a \in Ren(sub[t[s][n]]) /\ n \notin sub[t[s][n]] /\ sub[t[s][n]] \in SUBSET B
      BY <1>2, <1>6, <2>1
    <3>2. a \in sub[t[s][n]]
      BY <1>r, <3>1
    <3>3. QED
      BY <2>1, <3>2
  <2>2. CASE m # y
    <3>1. m \in B /\ m # n
      BY <2>2
    <3>2. a \in Ren(sub[t[s][m]]) /\ sub[t[s][m]] \in SUBSET B
      BY <1>2, <1>5, <3>1
    <3>3. CASE a \in sub[t[s][m]]
      BY <3>1, <3>3 DEF Shape, Ordered
    <3>4. CASE a = y /\ n \in sub[t[s][m]]
      BY <3>1, <3>4
    <3>5. QED
      BY <1>r, <3>2, <3>3, <3>4
  <2>3. QED
    BY <2>1, <2>2
<1>13. QED
  BY <1>7, <1>8, <1>9, <1>10, <1>11, <1>12 DEF Shape, new

(* SetParent, also for the null pointer. *)
LEMMA SetParentRef ==
  ASSUME NEW t \in Tree, NEW n \in Ref, NEW v \in Ref, RBTreeAssumption
  PROVE  LET r == SetParent(t, n, v) IN
         /\ r \in Tree /\ r.root = t.root /\ r.red = t.red /\ r.bad = t.bad
         /\ \A s \in Sides : r[s] = t[s]
         /\ \A m \in Nodes : r.parent[m] = IF m = n THEN v ELSE t.parent[m]
<1>1. CASE n = NULL
  BY <1>1 DEF SetParent, RBTreeAssumption
<1>2. CASE n # NULL
  <2>1. n \in Nodes /\ SetParent(t, n, v) = [t EXCEPT !.parent[n] = v]
    BY <1>2 DEF SetParent, Ref
  <2>2. QED
    BY <2>1, SetParentIs
<1>3. QED
  BY <1>1, <1>2

RightSet(t, r, n, v) ==
  /\ r \in Tree /\ r.root = t.root /\ r.parent = t.parent /\ r.red = t.red /\ r.bad = t.bad
  /\ \A s \in Sides : \A m \in Nodes : r[s][m] = IF s = "right" /\ m = n THEN v ELSE t[s][m]

(* A store to a right link changes that link and nothing else. *)
LEMMA SetRightIs ==
  ASSUME NEW t \in Tree, NEW n \in Nodes, NEW v \in Ref
  PROVE  RightSet(t, [t EXCEPT !.right[n] = v], n, v)
<1>1. [t EXCEPT !.right[n] = v] = [t EXCEPT !["right"][n] = v]
  BY DEF Tree
<1>2. QED
  BY <1>1, SetSide DEF Sides, RightSet

(* What Spliced makes of the tree when n has two children and y comes next. *)
MovedUp(t, n, y) ==
  LET l == t.left[n]
      x == t.right[y]
      far == t.parent[y] # n
      t1 == IF far
            THEN LET t0 == Transplant(t, y, x)
                 IN  SetParent([t0 EXCEPT !.right[y] = t0.right[n]], t0.right[n], y)
            ELSE SetParent(t, x, y)
      t2 == Transplant(t1, n, y)
  IN  [t2 EXCEPT !.left[y] = l, !.parent[l] = y, !.red[y] = t.red[n]]

(* y has taken the place of n in t0, which is t without y. *)
Moved(t, t0, r, n, y, A) ==
  /\ Replaced(t0, r, n, y, A \ {y})
  /\ r.bad = t.bad /\ \A m \in Nodes : r.red[m] = IF m = y THEN t.red[n] ELSE t.red[m]
  /\ \A m \in Nodes \ A : \A s \in Sides : r[s][m] = t[s][m]

(* The last assignments of rbtree_delete. *)
LastMoved(t, r, y, l, c) ==
  /\ r \in Tree /\ r.root = t.root /\ r.bad = t.bad
  /\ \A s \in Sides : \A m \in Nodes : r[s][m] = IF s = "left" /\ m = y THEN l ELSE t[s][m]
  /\ \A m \in Nodes : r.parent[m] = IF m = l THEN y ELSE t.parent[m]
  /\ \A m \in Nodes : r.red[m] = IF m = y THEN c ELSE t.red[m]

(* The three stores that end the replacement in rbtree_delete change what  *)
(* they store to.                                                          *)
LEMMA LastMoves ==
  ASSUME NEW t \in Tree, NEW y \in Nodes, NEW l \in Nodes, NEW c \in BOOLEAN
  PROVE  LastMoved(t, [t EXCEPT !.left[y] = l, !.parent[l] = y, !.red[y] = c], y, l, c)
<1> DEFINE q == [t EXCEPT !.left[y] = l]
           q2 == [q EXCEPT !.parent[l] = y]
           r == [q2 EXCEPT !.red[y] = c]
<1>0. r = [t EXCEPT !.left[y] = l, !.parent[l] = y, !.red[y] = c] /\ y \in Ref /\ l \in Ref
  BY DEF Ref
<1>1. q = [t EXCEPT !["left"][y] = l]
  BY DEF Tree
<1>2. /\ q \in Tree /\ q.root = t.root /\ q.parent = t.parent /\ q.red = t.red /\ q.bad = t.bad
      /\ \A s \in Sides : \A m \in Nodes :
           q[s][m] = IF s = "left" /\ m = y THEN l ELSE t[s][m]
  BY <1>0, <1>1, SetSide DEF Sides
<1> HIDE DEF q
<1>3. /\ q2 \in Tree /\ q2.root = q.root /\ q2.red = q.red /\ q2.bad = q.bad
      /\ \A s \in Sides : q2[s] = q[s]
      /\ \A m \in Nodes : q2.parent[m] = IF m = l THEN y ELSE q.parent[m]
  BY <1>0, <1>2, SetParentIs
<1> HIDE DEF q2
<1>4. /\ r \in Tree /\ r.root = q2.root /\ r.parent = q2.parent /\ r.bad = q2.bad
      /\ \A s \in Sides : r[s] = q2[s]
      /\ \A m \in Nodes : r.red[m] = IF m = y THEN c ELSE q2.red[m]
  BY <1>3, PaintIs
<1> HIDE DEF r
<1>5. LastMoved(t, r, y, l, c)
  BY <1>2, <1>3, <1>4 DEF LastMoved
<1>6. QED
  BY <1>0, <1>5, Zenon

(* Where the node that comes next is. *)
NextTo(t, A, sub, ky, n, y) ==
  /\ y \in A /\ y # n /\ t.left[y] = NULL /\ y \in sub[t.right[n]] /\ y \in sub[n]
  /\ t.left[n] \in A /\ t.right[n] \in A /\ t.left[n] # y
  /\ t.parent[y] \in A /\ t.parent[n] # y /\ t.right[y] # n
  /\ (t.parent[y] = n <=> t.right[n] = y)
  /\ \A m \in sub[t.right[n]] : m # y => Toward("left", ky, y, m)

(* The far left node of the right subtree is the next one in the order of  *)
(* keys, and has no left child.                                            *)
LEMMA NextIs ==
  ASSUME NEW t, NEW A, NEW sub, NEW ky, Shape(t, A, sub, ky), Clean(t, A), RBTreeAssumption,
         NEW n \in A, t.left[n] # NULL, t.right[n] # NULL,
         NEW y, y = End(t, t.right[n], "left")
  PROVE  NextTo(t, A, sub, ky, n, y)
<1>1. "left" \in Sides /\ "right" \in Sides /\ Other("right") = "left" /\ Other("left") = "right"
  BY DEF Sides, Other
<1>2. t \in Tree /\ t["left"] = t.left /\ t["right"] = t.right /\ A \in SUBSET Nodes /\ NULL \notin A
  BY SideFields DEF Shape, Typed, RBTreeAssumption
<1>3. /\ t.right[n] \in A /\ t.left[n] \in A /\ n \notin sub[t.right[n]] /\ n \notin sub[t.left[n]]
      /\ sub[t.right[n]] \cap sub[t.left[n]] = {} /\ t.left[n] \in sub[t.left[n]]
      /\ t.parent[t.right[n]] = n /\ sub[n] = {n} \cup sub[t.left[n]] \cup sub[t.right[n]]
      /\ sub[t.right[n]] \in SUBSET A
  <2>1. ASSUME NEW s \in Sides
        PROVE  /\ t[s][n] # NULL => t[s][n] \in A /\ t[s][n] \in sub[t[s][n]] /\ t.parent[t[s][n]] = n
               /\ n \notin sub[t[s][n]] /\ sub[t[s][n]] \in SUBSET A
               /\ sub[t[s][n]] \cap sub[t[Other(s)][n]] = {}
               /\ sub[n] = {n} \cup sub[t[s][n]] \cup sub[t[Other(s)][n]]
    BY Children
  <2> HIDE DEF Sides
  <2>2. t["left"][n] # NULL /\ t["right"][n] # NULL
    BY <1>2
  <2>3. /\ t["right"][n] \in A /\ t["left"][n] \in A /\ n \notin sub[t["right"][n]] /\ n \notin sub[t["left"][n]]
        /\ t["left"][n] \in sub[t["left"][n]] /\ t.parent[t["right"][n]] = n
        /\ sub[t["right"][n]] \in SUBSET A
    BY <1>1, <2>1, <2>2
  <2>4. /\ sub[t["right"][n]] \cap sub[t["left"][n]] = {}
        /\ sub[n] = {n} \cup sub[t["left"][n]] \cup sub[t["right"][n]]
    BY <1>1, <2>1
  <2>5. QED
    BY <1>2, <2>3, <2>4
<1>4. /\ y \in sub[t.right[n]] /\ t.left[y] = NULL
      /\ \A m \in sub[t.right[n]] : m # y => Toward("left", ky, y, m)
  BY <1>1, <1>2, <1>3, EndIs
<1>5. y \in A /\ y # n /\ y \in sub[n] /\ t.left[n] # y
  BY <1>3, <1>4
<1>6. sub[y] \subseteq sub[t.right[n]] /\ (y # t.right[n] => t.parent[y] # NULL /\ t.parent[y] \in sub[t.right[n]])
  BY <1>3, <1>4, BelowBelow
<1>7. t.parent[y] \in A /\ (t.parent[y] = n <=> t.right[n] = y)
  BY <1>3, <1>6
<1>8. t.right[y] # n
  <2>1. t["right"][y] # NULL => t["right"][y] \in sub[t["right"][y]]
    BY <1>1, <1>5, Children
  <2>2. sub[y] = {y} \cup sub[t["right"][y]] \cup sub[t["left"][y]]
    BY <1>1, <1>5, Children
  <2>3. QED
    BY <1>2, <1>3, <1>6, <2>1, <2>2
<1>9. t.parent[n] # y
  <2>1. ASSUME t.parent[n] = y PROVE FALSE
    <3>1. \E s \in Sides : t[s][y] = n
      BY <1>2, <1>5, <2>1, OneSide
    <3>2. QED
      BY <1>2, <1>4, <1>8, <3>1 DEF Sides
  <2>2. QED
    BY <2>1
<1>10. QED
  BY <1>3, <1>4, <1>5, <1>7, <1>8, <1>9 DEF NextTo

(* A tree in which node n is about to give its place to y. *)
LEMMA GivesPlace ==
  ASSUME NEW t, NEW A, NEW sub, NEW ky, Shape(t, A, sub, ky), Clean(t, A), RBTreeAssumption,
         NEW n \in A, NEW y, NextTo(t, A, sub, ky, n, y), NEW t0, Transplanted(t, t0, y, t.right[y])
  PROVE  Moved(t, t0, MovedUp(t, n, y), n, y, A)
<1> DEFINE l == t.left[n]
           x == t.right[y]
           far == t.parent[y] # n
           v == Transplant(t, y, x)
           w == [v EXCEPT !.right[y] = v.right[n]]
           t1 == IF far THEN SetParent(w, v.right[n], y) ELSE SetParent(t, x, y)
           t2 == Transplant(t1, n, y)
           t3 == [t2 EXCEPT !.left[y] = l, !.parent[l] = y, !.red[y] = t.red[n]]
           p == t.parent[n]
<1>1. MovedUp(t, n, y) = t3
  BY Zenon DEF MovedUp
<1>2. /\ y \in A /\ y # n /\ t.left[y] = NULL /\ y \in sub[t.right[n]]
      /\ l \in A /\ t.right[n] \in A /\ l # y /\ t.parent[y] \in A /\ p # y /\ x # n
      /\ (t.parent[y] = n <=> t.right[n] = y)
  BY DEF NextTo
<1>3. /\ t \in Tree /\ A \in SUBSET Nodes /\ NULL \notin A /\ "left" \in Sides /\ "right" \in Sides
      /\ Other("left") = "right" /\ Other("right") = "left" /\ t.red[n] \in BOOLEAN
      /\ n \in Nodes /\ y \in Nodes /\ l \in Nodes /\ t.root \in A /\ t.parent[t.root] = NULL
  BY <1>2, SideFields DEF Shape, Typed, Rooted, RBTreeAssumption, Sides, Other, Tree
<1>4. /\ t["left"] = t.left /\ t["right"] = t.right
      /\ \A s \in Sides : t[s] \in [Nodes -> Ref]
  BY <1>3, SideFields
<1>5. /\ t0 \in Tree /\ t0.bad = t.bad
      /\ t0.root = t.root
      /\ \A s \in Sides : \A m \in Nodes :
           t0[s][m] = IF m = t.parent[y] /\ t[s][m] = y THEN x ELSE t[s][m]
      /\ \A m \in Nodes : t0.parent[m] = IF m = x THEN t.parent[y] ELSE t.parent[m]
  BY <1>2, <1>3 DEF Transplanted
<1>6. /\ \A m \in A : \A s \in Sides : t[s][m] \in Ref /\ (t[s][m] # NULL => t[s][m] \in A /\ t.parent[t[s][m]] = m)
      /\ \A m \in A : t.parent[m] # NULL => t.parent[m] \in A /\ (t.left[t.parent[m]] = m \/ t.right[t.parent[m]] = m)
  <2>1. \A m \in A : \A s \in Sides : t[s][m] \in Ref
    BY <1>3, <1>4
  <2>2. QED
    BY <1>4, <2>1 DEF Shape, LinksDown, LinksUp, Sides
<1>7. /\ x \in Ref /\ (x # NULL => x \in A /\ t.parent[x] = y) /\ x # y
      /\ t.parent[l] = n /\ t.parent[t.right[n]] = n /\ l # t.right[n]
  <2>1. t["left"][n] # t["right"][n]
    BY <1>2, <1>3, <1>4, Children
  <2>2. t["right"][y] # y
    BY <1>2, <1>3, Children
  <2>3. QED
    BY <1>2, <1>3, <1>4, <1>6, <2>1, <2>2
<1>8. /\ p # n /\ (p # NULL => p \in A /\ \E s \in Sides : t[s][p] = n /\ t[Other(s)][p] # n)
  BY OneSide, <1>2, <1>3
<1>9. /\ t1 \in Tree /\ t1.bad = t.bad /\ t1.red = t.red /\ t1.root = t.root
      /\ \A s \in Sides : \A m \in Nodes :
           t1[s][m] = IF far /\ s = "right" /\ m = y THEN t.right[n]
                      ELSE IF far /\ m = t.parent[y] /\ t[s][m] = y THEN x ELSE t[s][m]
      /\ \A m \in Nodes : t1.parent[m] = IF far /\ m = t.right[n] THEN y
                                         ELSE IF m = x THEN IF far THEN t.parent[y] ELSE y
                                         ELSE t.parent[m]
  <2>1. CASE ~far
    <3>1. t1 = SetParent(t, x, y) /\ y \in Ref
      BY <2>1, <1>3 DEF Ref
    <3> HIDE DEF t1, x, l, p
    <3>2. /\ t1 \in Tree /\ t1.root = t.root /\ t1.red = t.red /\ t1.bad = t.bad
          /\ \A s \in Sides : t1[s] = t[s]
          /\ \A m \in Nodes : t1.parent[m] = IF m = x THEN y ELSE t.parent[m]
      BY <1>3, <1>7, <3>1, SetParentRef
    <3>3. QED
      BY <2>1, <3>2
  <2>2. CASE far
    <3>1. HangsOnce(t, y)
      BY <1>2, OneSide DEF HangsOnce
    <3>2. Transplanted(t, v, y, x)
      BY <1>3, <1>7, <3>1, TransplantIs
    <3> HIDE DEF v
    <3>3. /\ v \in Tree /\ v.bad = t.bad /\ v.red = t.red /\ v.root = t.root
          /\ \A s \in Sides : \A m \in Nodes :
               v[s][m] = IF m = t.parent[y] /\ t[s][m] = y THEN x ELSE t[s][m]
          /\ \A m \in Nodes : v.parent[m] = IF m = x THEN t.parent[y] ELSE t.parent[m]
      BY <1>2, <1>3, <3>2 DEF Transplanted
    <3>4. v["right"] = v.right /\ v["right"][n] = t.right[n]
      BY <1>3, <1>4, <2>2, <3>3, SideFields
    <3>5. t.right[n] \in Nodes /\ t.right[n] \in Ref /\ y \in Ref
      BY <1>2, <1>3 DEF Ref
    <3>6. w = [v EXCEPT !.right[y] = t.right[n]]
      BY <3>3, <3>4
    <3> HIDE DEF w
    <3>7. /\ w \in Tree /\ w.root = v.root /\ w.parent = v.parent /\ w.red = v.red /\ w.bad = v.bad
          /\ \A s \in Sides : \A m \in Nodes :
               w[s][m] = IF s = "right" /\ m = y THEN t.right[n] ELSE v[s][m]
      <4>1. v \in Tree /\ "right" \in Sides /\ y \in Nodes /\ t.right[n] \in Ref
        BY <1>3, <3>3, <3>5
      <4>2. RightSet(v, w, y, t.right[n])
        BY <3>6, <4>1, SetRightIs
      <4>3. QED
        BY <4>2 DEF RightSet
    <3>8. t1 = SetParent(w, t.right[n], y)
      BY <2>2, <3>4
    <3>9. /\ t1 \in Tree /\ t1.root = w.root /\ t1.red = w.red /\ t1.bad = w.bad
          /\ \A s \in Sides : t1[s] = w[s]
          /\ \A m \in Nodes : t1.parent[m] = IF m = t.right[n] THEN y ELSE w.parent[m]
      BY <3>5, <3>7, <3>8, SetParentRef
    <3> HIDE DEF t1
    <3>10. QED
      BY <2>2, <3>3, <3>7, <3>9
  <2>3. QED
    BY <2>1, <2>2, Zenon
<1> HIDE DEF t1
<1>10. t1.parent[n] = p
  BY <1>2, <1>3, <1>7, <1>8, <1>9
<1>11. HangsOnce(t1, n)
  <2> SUFFICES ASSUME p # NULL PROVE \E s \in Sides : t1[s][p] = n /\ t1[Other(s)][p] # n
    BY <1>10 DEF HangsOnce
  <2>1. PICK s \in Sides : t[s][p] = n /\ t[Other(s)][p] # n
    BY <1>8
  <2>2. Other(s) \in Sides /\ p \in Nodes
    BY <1>3, <1>8, OtherSide
  <2>3. t1[s][p] = n
    BY <1>2, <1>9, <2>1, <2>2
  <2>4. t1[Other(s)][p] # n
    BY <1>2, <1>9, <2>1, <2>2
  <2>5. QED
    BY <2>3, <2>4
<1>12. Transplanted(t1, t2, n, y)
  BY <1>3, <1>9, <1>11, TransplantIs DEF Ref
<1> HIDE DEF t2
<1>13. /\ t2 \in Tree /\ t2.red = t.red /\ t2.bad = t.bad
       /\ t2.root = IF p = NULL THEN y ELSE t.root
       /\ \A s \in Sides : \A m \in Nodes : t2[s][m] = IF m = p /\ t1[s][m] = n THEN y ELSE t1[s][m]
       /\ \A m \in Nodes : t2.parent[m] = IF m = y THEN p ELSE t1.parent[m]
  BY <1>9, <1>10, <1>12 DEF Transplanted
<1>14. LastMoved(t2, t3, y, l, t.red[n])
  <2>1. t2 \in Tree /\ y \in Nodes /\ l \in Nodes /\ t.red[n] \in BOOLEAN
    BY <1>3, <1>13
  <2>2. QED
    BY <2>1, LastMoves, Zenon
<1> HIDE DEF t3
<1>15. /\ t3 \in Tree /\ t3.root = t2.root /\ t3.bad = t.bad
       /\ \A s \in Sides : \A m \in Nodes : t3[s][m] = IF s = "left" /\ m = y THEN l ELSE t2[s][m]
       /\ \A m \in Nodes : t3.parent[m] = IF m = l THEN y ELSE t2.parent[m]
       /\ \A m \in Nodes : t3.red[m] = IF m = y THEN t.red[n] ELSE t.red[m]
  BY <1>13, <1>14 DEF LastMoved
<1>16. t0.parent[n] = p
  BY <1>2, <1>3, <1>5
<1>17. \A s \in Sides : t3[s][y] = t0[s][n]
  <2>1. t3["left"][y] = t0["left"][n]
    BY <1>2, <1>3, <1>4, <1>5, <1>15
  <2>2. t3["right"][y] = t0["right"][n]
    BY <1>2, <1>3, <1>4, <1>5, <1>8, <1>9, <1>13, <1>15
  <2>3. QED
    BY <2>1, <2>2 DEF Sides
<1>18. ASSUME NEW s \in Sides, NEW m \in A \ {y}, m # n
       PROVE  t3[s][m] = IF t0[s][m] = n THEN y ELSE t0[s][m]
  <2>1. t1[s][m] = t0[s][m] /\ m \in Nodes
    BY <1>2, <1>3, <1>5, <1>9, <1>18
  <2>2. t0[s][m] = n => m = p
    BY <1>2, <1>3, <1>5, <1>6, <2>1
  <2>3. QED
    BY <1>13, <1>15, <1>18, <2>1, <2>2
<1>19. t3.parent[y] = p
  BY <1>2, <1>3, <1>13, <1>15
<1>20. ASSUME NEW m \in A \ {y}, m # n
       PROVE  t3.parent[m] = IF t0.parent[m] = n THEN y ELSE t0.parent[m]
  <2>1. m \in Nodes /\ t3.parent[m] = IF m = l THEN y ELSE t1.parent[m]
    BY <1>3, <1>13, <1>15, <1>20
  <2>2. CASE m = l
    BY <1>2, <1>3, <1>5, <1>7, <2>1, <2>2
  <2>3. CASE m # l /\ m = x
    BY <1>2, <1>3, <1>5, <1>7, <1>9, <2>1, <2>3
  <2>4. CASE m # l /\ m # x /\ m = t.right[n]
    <3>1. far
      BY <1>2, <1>20, <2>4
    <3>2. QED
      BY <1>2, <1>3, <1>5, <1>7, <1>9, <2>1, <2>4, <3>1
  <2>5. CASE m # l /\ m # x /\ m # t.right[n]
    <3>1. t.parent[m] # n
      BY <1>2, <1>3, <1>6, <1>20, <2>5
    <3>2. QED
      BY <1>5, <1>9, <2>1, <2>5, <3>1
  <2>6. QED
    BY <2>2, <2>3, <2>4, <2>5
<1>21. Replaced(t0, t3, n, y, A \ {y})
  BY <1>5, <1>13, <1>15, <1>16, <1>17, <1>18, <1>19, <1>20 DEF Replaced
<1>22. \A m \in Nodes \ A : \A s \in Sides : t3[s][m] = t[s][m]
  <2> SUFFICES ASSUME NEW m \in Nodes, m \notin A, NEW s \in Sides PROVE t3[s][m] = t[s][m]
    OBVIOUS
  <2>1. t1[s][m] = t[s][m] /\ m # y /\ m # p
    BY <1>2, <1>8, <1>9, <1>3
  <2>2. QED
    BY <1>13, <1>15, <2>1
<1>23. QED
  BY <1>1, <1>15, <1>21, <1>22 DEF Moved

(* The freed node leads nowhere; the others are as before. *)
FreedFrom(t, r, n) ==
  /\ r \in Tree /\ r.root = t.root /\ r.bad = t.bad
  /\ \A s \in Sides : \A m \in Nodes : r[s][m] = IF m = n THEN NULL ELSE t[s][m]
  /\ \A m \in Nodes : m # n => r.parent[m] = t.parent[m] /\ r.red[m] = t.red[m]

(* A freed node is blank, and no other node is changed. *)
LEMMA FreedIs ==
  ASSUME NEW t \in Tree, NEW n \in Nodes
  PROVE  FreedFrom(t, Freed(t, n), n)
<1> DEFINE r == [t EXCEPT !.left[n] = NULL, !.right[n] = NULL, !.parent[n] = NULL, !.red[n] = FALSE]
<1>1. Freed(t, n) = r
  BY Zenon DEF Freed
<1>2. NULL \in Ref
  BY DEF Ref
<1>3. r \in Tree /\ r.root = t.root /\ r.bad = t.bad
  BY <1>2 DEF Tree
<1>4. \A m \in Nodes : m # n => r.parent[m] = t.parent[m] /\ r.red[m] = t.red[m]
  BY DEF Tree
<1>5. \A m \in Nodes : r["left"][m] = IF m = n THEN NULL ELSE t["left"][m]
  BY DEF Tree
<1>6. \A m \in Nodes : r["right"][m] = IF m = n THEN NULL ELSE t["right"][m]
  BY DEF Tree
<1> HIDE DEF r
<1>7. QED
  BY <1>1, <1>3, <1>4, <1>5, <1>6 DEF FreedFrom, Sides

(* Freeing a node that is no longer on the tree. *)
LEMMA FreedShape ==
  ASSUME NEW t, NEW A, NEW sub, NEW ky, Shape(t, A, sub, ky), NEW n \in Nodes, n \notin A,
         \A m \in Nodes : m \notin A /\ m # n => \A s \in Sides : t[s][m] = NULL
  PROVE  Shape(Freed(t, n), A, sub, ky) /\ Clean(Freed(t, n), A)
<1>1. t \in Tree /\ A \in SUBSET Nodes
  BY DEF Shape, Typed
<1>2. FreedFrom(t, Freed(t, n), n)
  BY <1>1, FreedIs
<1>3. SameOn(t, Freed(t, n), A)
  BY <1>1, <1>2 DEF FreedFrom, SameOn
<1>4. Clean(Freed(t, n), A)
  BY <1>2 DEF FreedFrom, Clean
<1>5. QED
  BY <1>3, <1>4, SameOnShape

(* Spliced, its local names written out. *)
LEMMA SpliceCases ==
  ASSUME NEW n
  PROVE  Spliced(n) =
    IF tree.left[n] = NULL \/ tree.right[n] = NULL
    THEN [t |-> Transplant(tree, n, IF tree.left[n] = NULL THEN tree.right[n] ELSE tree.left[n]),
          x |-> IF tree.left[n] = NULL THEN tree.right[n] ELSE tree.left[n],
          xp |-> tree.parent[n], short |-> ~tree.red[n], wrong |-> FALSE]
    ELSE [t |-> MovedUp(tree, n, End(tree, tree.right[n], "left")),
          x |-> tree.right[End(tree, tree.right[n], "left")],
          xp |-> End(tree, tree.right[n], "left"),
          short |-> ~tree.red[End(tree, tree.right[n], "left")],
          wrong |-> /\ tree.parent[End(tree, tree.right[n], "left")] # n
                    /\ tree.right[End(tree, tree.right[n], "left")] = NULL
                    /\ ~tree.red[End(tree, tree.right[n], "left")]]
BY Zenon DEF Spliced, MovedUp

(* A node with one child at most. *)
LEMMA SplicedOne ==
  ASSUME NEW t, NEW A, NEW sub, NEW ky, Shape(t, A, sub, ky), Clean(t, A), RBTreeAssumption,
         NEW n \in A, NEW side \in Sides, t[Other(side)][n] = NULL, t.bad = FALSE,
         NEW r, r = Transplant(t, n, t[side][n])
  PROVE  /\ Transplanted(t, r, n, t[side][n])
         /\ Grown(Freed(r, n), A \ {n}, ky)
         /\ t[side][n] \in (A \ {n}) \cup {NULL} /\ t.parent[n] \in (A \ {n}) \cup {NULL}
<1>1. /\ t \in Tree /\ n \in Nodes /\ t[side][n] \in Ref /\ A \in SUBSET Nodes
      /\ t[side][n] \in (A \ {n}) \cup {NULL}
  BY Children DEF Shape, Typed
<1>2. HangsOnce(t, n) /\ t.parent[n] \in (A \ {n}) \cup {NULL}
  BY OneSide DEF HangsOnce
<1>3. Transplanted(t, r, n, t[side][n])
  BY <1>1, <1>2, TransplantIs
<1>4. Shape(r, A \ {n}, SubCut(sub, n), ky)
  BY <1>3, CutShape
<1>5. r.bad = FALSE /\ r \in Tree
  BY <1>3 DEF Transplanted
<1>6. \A m \in Nodes : m \notin A \ {n} /\ m # n => \A s \in Sides : r[s][m] = NULL
  BY <1>1, <1>2, <1>3 DEF Transplanted, Clean
<1>7. Shape(Freed(r, n), A \ {n}, SubCut(sub, n), ky) /\ Clean(Freed(r, n), A \ {n})
  BY <1>1, <1>4, <1>6, FreedShape
<1>8. Freed(r, n).bad = FALSE
  BY <1>1, <1>5, FreedIs DEF FreedFrom
<1>9. QED
  BY <1>1, <1>2, <1>3, <1>7, <1>8 DEF Grown

(* A node with two children. *)
LEMMA MovedGrown ==
  ASSUME NEW t, NEW A, NEW sub, NEW ky, Shape(t, A, sub, ky), Clean(t, A), RBTreeAssumption,
         NEW n \in A, t.bad = FALSE, NEW y, NextTo(t, A, sub, ky, n, y),
         NEW t0, Transplanted(t, t0, y, t.right[y]), NEW r, Moved(t, t0, r, n, y, A)
  PROVE  /\ Shape(t0, A \ {y}, SubCut(sub, y), ky)
         /\ Grown(Freed(r, n), A \ {n}, ky)
         /\ t.right[y] \in (A \ {n}) \cup {NULL} /\ y \in A \ {n}
<1>1. /\ y \in A /\ y # n /\ t.left[y] = NULL /\ y \in sub[t.right[n]] /\ y \in sub[n]
      /\ t.left[n] \in A /\ t.right[n] \in A /\ t.right[y] # n
      /\ \A m \in sub[t.right[n]] : m # y => Toward("left", ky, y, m)
  BY DEF NextTo
<1>2. /\ t \in Tree /\ A \in SUBSET Nodes /\ y \in Nodes /\ n \in Nodes
      /\ t["left"] = t.left /\ t["right"] = t.right /\ "right" \in Sides /\ "left" \in Sides
      /\ Other("right") = "left" /\ Other("left") = "right" /\ \A m \in A : ky[m] \in Int
  BY <1>1, SideFields DEF Shape, Typed, Sides, Other
<1>3. t.right[y] \in Ref /\ t.right[y] \in (A \ {n}) \cup {NULL}
  <2>1. t["right"][y] \in Ref /\ (t["right"][y] # NULL => t["right"][y] \in A)
    BY <1>1, <1>2, Children
  <2>2. QED
    BY <1>1, <1>2, <2>1
<1>6. /\ Shape(t0, A \ {y}, SubCut(sub, y), ky)
      /\ \A m \in A \ {y} : \A s \in Sides : SubCut(sub, y)[t0[s][m]] = sub[t[s][m]] \ {y}
  <2>1. ASSUME NEW s \in Sides, y \in A, t[Other(s)][y] = NULL, Transplanted(t, t0, y, t[s][y])
        PROVE  Shape(t0, A \ {y}, SubCut(sub, y), ky) /\ CutBelow(t, t0, A, sub, y)
    BY <2>1, CutShape
  <2>2. Shape(t0, A \ {y}, SubCut(sub, y), ky) /\ CutBelow(t, t0, A, sub, y)
    BY <1>1, <1>2, <2>1
  <2>3. QED
    BY <2>2 DEF CutBelow
<1>7. ASSUME NEW s \in Sides, NEW m \in SubCut(sub, y)[t0[s][n]] PROVE Toward(s, ky, m, y)
  <2>1. m \in sub[t[s][n]] /\ m # y
    BY <1>1, <1>6, <1>7
  <2>2. m \in A /\ sub[t["right"][n]] \in SUBSET A
    <3>1. sub[t[s][n]] \in SUBSET A /\ sub[t["right"][n]] \in SUBSET A
      BY <1>2, Children
    <3>2. QED
      BY <2>1, <3>1
  <2>3. ky[m] \in Int /\ ky[y] \in Int /\ ky[n] \in Int
    BY <1>1, <1>2, <2>2
  <2>4. CASE s = "right"
    <3>1. Toward("left", ky, y, m)
      BY <1>1, <1>2, <2>1, <2>4
    <3>2. QED
      BY <2>3, <2>4, <3>1 DEF Toward
  <2>5. CASE s = "left"
    <3>1. Toward("left", ky, m, n) /\ Toward("right", ky, y, n)
      BY <1>1, <1>2, <2>1, <2>5 DEF Shape, Ordered
    <3>2. QED
      BY <2>3, <2>5, <3>1 DEF Toward
  <2>6. QED
    BY <2>4, <2>5 DEF Sides
<1>8. ASSUME NEW m \in A \ {y}, NEW s \in Sides, n \in SubCut(sub, y)[t0[s][m]]
      PROVE  Toward(s, ky, y, m)
  <2>1. n \in sub[t[s][m]]
    BY <1>6, <1>8
  <2>2. t[s][m] # NULL
    BY <2>1 DEF Shape, Typed
  <2>3. t[s][m] \in A
    BY <2>2, Children
  <2>4. sub[n] \subseteq sub[t[s][m]]
    BY <2>1, <2>3, BelowBelow
  <2>5. QED
    BY <1>1, <2>4 DEF Shape, Ordered
<1>9. Shape(r, ((A \ {y}) \ {n}) \cup {y}, SubReplaced(SubCut(sub, y), n, y), ky)
  <2>1. n \in A \ {y} /\ y \notin A \ {y} /\ ky[y] \in Int /\ Replaced(t0, r, n, y, A \ {y})
    BY <1>1, <1>2 DEF Moved
  <2>2. QED
    BY <1>2, <1>6, <1>7, <1>8, <2>1, ReplacedShape
<1>10. ((A \ {y}) \ {n}) \cup {y} = A \ {n}
  BY <1>1
<1>11. r \in Tree /\ r.bad = FALSE /\ \A m \in Nodes \ A : \A s \in Sides : r[s][m] = NULL
  BY DEF Moved, Replaced, Clean
<1>12. \E new : Shape(Freed(r, n), A \ {n}, new, ky) /\ Clean(Freed(r, n), A \ {n})
  <2>1. Shape(r, A \ {n}, SubReplaced(SubCut(sub, y), n, y), ky)
    BY <1>9, <1>10
  <2>2. n \in Nodes /\ n \notin A \ {n} /\ \A m \in Nodes : m \notin A \ {n} /\ m # n => \A s \in Sides : r[s][m] = NULL
    BY <1>2, <1>11
  <2>3. Shape(Freed(r, n), A \ {n}, SubReplaced(SubCut(sub, y), n, y), ky) /\ Clean(Freed(r, n), A \ {n})
    BY <2>1, <2>2, FreedShape
  <2>4. QED
    BY <2>3
<1>13. Freed(r, n).bad = FALSE
  BY <1>2, <1>11, FreedIs DEF FreedFrom
<1>14. QED
  BY <1>1, <1>3, <1>6, <1>12, <1>13 DEF Grown

(* A node with two children is replaced by the next one, which was cut out *)
(* of its own place: what is left is a search tree without the node.       *)
LEMMA SplicedTwo ==
  ASSUME NEW t, NEW A, NEW sub, NEW ky, Shape(t, A, sub, ky), Clean(t, A), RBTreeAssumption,
         NEW n \in A, t.left[n] # NULL, t.right[n] # NULL, t.bad = FALSE
  PROVE  \E y, t0 :
           /\ y = End(t, t.right[n], "left") /\ t0 = Transplant(t, y, t.right[y])
           /\ Transplanted(t, t0, y, t.right[y]) /\ Shape(t0, A \ {y}, SubCut(sub, y), ky)
           /\ Moved(t, t0, MovedUp(t, n, y), n, y, A)
           /\ Grown(Freed(MovedUp(t, n, y), n), A \ {n}, ky)
           /\ t.right[y] \in (A \ {n}) \cup {NULL} /\ y \in A \ {n}
<1>1. PICK y : y = End(t, t.right[n], "left")
  OBVIOUS
<1>2. PICK t0 : t0 = Transplant(t, y, t.right[y])
  OBVIOUS
<1>3. PICK r : r = MovedUp(t, n, y)
  OBVIOUS
<1>n. NextTo(t, A, sub, ky, n, y)
  BY <1>1, NextIs
<1>4. y \in A /\ y \in Nodes /\ t \in Tree
  BY <1>n DEF NextTo, Shape, Typed
<1>5. t.right[y] \in Ref
  BY <1>4 DEF Tree
<1>6. HangsOnce(t, y)
  BY <1>4, OneSide DEF HangsOnce
<1>7. Transplanted(t, t0, y, t.right[y])
  BY <1>2, <1>4, <1>5, <1>6, TransplantIs
<1>8. Moved(t, t0, r, n, y, A)
  BY <1>n, <1>3, <1>7, GivesPlace
<1>9. /\ Shape(t0, A \ {y}, SubCut(sub, y), ky)
      /\ Grown(Freed(r, n), A \ {n}, ky)
      /\ t.right[y] \in (A \ {n}) \cup {NULL} /\ y \in A \ {n}
  <2>1. /\ Shape(t, A, sub, ky) /\ Clean(t, A) /\ RBTreeAssumption /\ n \in A
        /\ t.left[n] # NULL /\ t.right[n] # NULL /\ t.bad = FALSE
    OBVIOUS
  <2>2. QED
    BY <1>n, <1>7, <1>8, <2>1, MovedGrown
<1>10. QED
  BY <1>1, <1>2, <1>3, <1>7, <1>8, <1>9

(* The tree without n, before the fixup. *)
LEMMA SplicedGrown ==
  ASSUME NEW sub, Shape(tree, alive, sub, key), Clean(tree, alive), RBTreeAssumption,
         NEW n \in alive, tree.bad = FALSE
  PROVE  /\ Grown(Freed(Spliced(n).t, n), alive \ {n}, key)
         /\ Spliced(n).x \in (alive \ {n}) \cup {NULL} /\ Spliced(n).xp \in (alive \ {n}) \cup {NULL}
<1>1. /\ tree["left"] = tree.left /\ tree["right"] = tree.right
      /\ "left" \in Sides /\ "right" \in Sides /\ Other("right") = "left" /\ Other("left") = "right"
  BY SideFields DEF Shape, Typed, Sides, Other
<1>o. ASSUME NEW side \in Sides, tree[Other(side)][n] = NULL, NEW r, r = Transplant(tree, n, tree[side][n])
      PROVE  /\ Grown(Freed(r, n), alive \ {n}, key)
             /\ tree[side][n] \in (alive \ {n}) \cup {NULL} /\ tree.parent[n] \in (alive \ {n}) \cup {NULL}
  BY <1>o, SplicedOne
<1>2. CASE tree.left[n] = NULL
  <2>1. /\ Spliced(n).t = Transplant(tree, n, tree["right"][n]) /\ Spliced(n).x = tree["right"][n]
        /\ Spliced(n).xp = tree.parent[n] /\ tree[Other("right")][n] = NULL
    BY <1>1, <1>2, SpliceCases
  <2>2. QED
    BY <1>1, <1>o, <2>1
<1>3. CASE tree.left[n] # NULL /\ tree.right[n] = NULL
  <2>1. /\ Spliced(n).t = Transplant(tree, n, tree["left"][n]) /\ Spliced(n).x = tree["left"][n]
        /\ Spliced(n).xp = tree.parent[n] /\ tree[Other("left")][n] = NULL
    BY <1>1, <1>3, SpliceCases
  <2>2. QED
    BY <1>1, <1>o, <2>1
<1>4. CASE tree.left[n] # NULL /\ tree.right[n] # NULL
  <2>1. PICK y : /\ y = End(tree, tree.right[n], "left")
                 /\ Grown(Freed(MovedUp(tree, n, y), n), alive \ {n}, key)
                 /\ tree.right[y] \in (alive \ {n}) \cup {NULL} /\ y \in alive \ {n}
    BY <1>4, SplicedTwo
  <2>2. Spliced(n).t = MovedUp(tree, n, y) /\ Spliced(n).x = tree.right[y] /\ Spliced(n).xp = y
    BY <1>4, <2>1, SpliceCases
  <2>3. QED
    BY <2>1, <2>2
<1>5. QED
  BY <1>2, <1>3, <1>4

-------------------------------------------------------------------------------
(* The inductive invariant. *)

Payload ==
  /\ exists \in BOOLEAN /\ fault \in BOOLEAN /\ astray \in BOOLEAN
  /\ key \in [Nodes -> Keys \cup {NULL}] /\ val \in [Nodes -> Elem]
  /\ alive \in SUBSET Nodes /\ count = Cardinality(alive)
  /\ \A n \in alive : key[n] \in Keys

InOrder == Grown(tree, alive, key)

TreeInv == Payload /\ InOrder

(* The order of the nodes is that of their keys. *)
LEMMA GrownKeys ==
  ASSUME NEW t, NEW A, NEW ky, Grown(t, A, ky), NEW kz, \A m \in A : kz[m] = ky[m]
  PROVE  Grown(t, A, kz)
<1>1. PICK sub : Shape(t, A, sub, ky)
  BY DEF Grown
<1>2. /\ t \in Tree /\ A \in SUBSET Nodes /\ sub \in [Ref -> SUBSET A] /\ sub[NULL] = {}
      /\ \A n \in A : ky[n] \in Int
  BY <1>1 DEF Shape, Typed
<1>3. Typed(t, A, sub, kz)
  BY <1>2 DEF Typed
<1>4. Ordered(t, A, sub, kz)
  <2> SUFFICES ASSUME NEW n \in A, NEW s \in Sides, NEW m \in sub[t[s][n]] PROVE Toward(s, kz, m, n)
    BY DEF Ordered
  <2>1. t[s][n] \in Ref
    BY <1>2, SideFields
  <2>2. m \in A
    BY <1>2, <2>1
  <2>3. Toward(s, ky, m, n)
    BY <1>1 DEF Shape, Ordered
  <2>4. QED
    BY <2>2, <2>3 DEF Toward
<1>5. QED
  BY <1>1, <1>3, <1>4 DEF Grown, Shape

(* The empty tree is a search tree of no nodes. *)
LEMMA NoTreeGrown ==
  ASSUME RBTreeAssumption, NEW ky
  PROVE  Grown(NoTree, {}, ky)
<1> DEFINE sub == [m \in Ref |-> {}]
<1>1. NoTree \in Tree /\ NoTree.bad = FALSE /\ NoTree.root = NULL
  BY DEF NoTree, Tree, Blank, Ref
<1>2. \A s \in Sides : \A n \in Nodes : NoTree[s][n] = NULL
  BY DEF NoTree, Blank, Sides
<1>3. sub \in [Ref -> SUBSET {}] /\ sub[NULL] = {}
  BY DEF Ref
<1> HIDE DEF sub
<1>4. Typed(NoTree, {}, sub, ky) /\ Rooted(NoTree, {}, sub)
  BY <1>1, <1>3 DEF Typed, Rooted
<1>5. LinksDown(NoTree, {}) /\ LinksUp(NoTree, {}) /\ Splits(NoTree, {}, sub) /\ Ordered(NoTree, {}, sub, ky)
  BY DEF LinksDown, LinksUp, Splits, Ordered
<1>6. Clean(NoTree, {})
  BY <1>2 DEF Clean
<1>7. QED
  BY <1>1, <1>4, <1>5, <1>6 DEF Grown, Shape

(* Counting the allocated nodes. *)
LEMMA AliveCounted ==
  ASSUME RBTreeAssumption, NEW A \in SUBSET Nodes
  PROVE  /\ IsFiniteSet(A) /\ Cardinality(A) \in Nat /\ Cardinality(A) <= Cardinality(Nodes)
         /\ Cardinality(Nodes) \in Nat /\ Cardinality({}) = 0
         /\ \A n \in Nodes \ A : Cardinality(A \cup {n}) = Cardinality(A) + 1
         /\ \A n \in A : Cardinality(A \ {n}) = Cardinality(A) - 1
BY FS_Subset, FS_CardinalityType, FS_EmptySet, FS_AddElement, FS_RemoveElement DEF RBTreeAssumption

(* The invariant holds at first. *)
LEMMA InitTreeInv == RBTreeAssumption /\ Init => TreeInv
<1> SUFFICES ASSUME RBTreeAssumption, Init PROVE TreeInv
  OBVIOUS
<1>1. InOrder
  BY NoTreeGrown DEF Init, InOrder
<1>2. Cardinality({}) = 0
  BY AliveCounted
<1>3. Payload
  BY <1>2 DEF Init, Payload, Blank, Elem
<1>4. QED
  BY <1>1, <1>3 DEF TreeInv

(* The new leaf before the fixup. *)
LEMMA HangGrown ==
  ASSUME TreeInv, RBTreeAssumption, NEW k \in Keys, Lookup(k) = NULL, NEW n \in Nodes \ alive,
         NEW side, side = IF k < key[Leaf(k)] THEN "left" ELSE "right",
         NEW kz, kz = [key EXCEPT ![n] = k]
  PROVE  Grown(Hang(tree, n, Leaf(k), side), alive \cup {n}, kz)
<1>1. PICK sub : Shape(tree, alive, sub, key)
  BY DEF TreeInv, InOrder, Grown
<1>2. Clean(tree, alive) /\ tree.bad = FALSE /\ tree \in Tree /\ alive \in SUBSET Nodes
  BY <1>1 DEF TreeInv, InOrder, Grown, Shape, Typed
<1>3. k \in Int /\ side \in Sides
  BY DEF RBTreeAssumption, Sides
<1>4. kz[n] = k /\ \A m \in alive : kz[m] = key[m]
  BY DEF TreeInv, Payload
<1>5. CASE tree.root = NULL
  <2>1. Leaf(k) = NULL
    BY <1>5, Zenon DEF Leaf
  <2>2. alive = {}
    BY <1>1, <1>5 DEF Shape, Rooted, Typed
  <2>3. Hung(tree, Hang(tree, n, NULL, side), n, NULL, side)
    <3>1. NULL \in Ref /\ n \in Nodes
      BY DEF Ref
    <3>2. QED
      BY <1>2, <1>3, <3>1, HungIs
  <2>4. PICK r : r = Hang(tree, n, NULL, side)
    OBVIOUS
  <2>5. \E sub2 : Shape(r, {n}, sub2, kz)
    <3>1. Shape(tree, {}, sub, key) /\ Clean(tree, {}) /\ Hung(tree, r, n, NULL, side) /\ kz[n] \in Int /\ n \in Nodes
      BY <1>1, <1>2, <1>3, <1>4, <2>2, <2>3, <2>4
    <3>2. QED
      BY <1>3, <3>1, RootHung
  <2>6. Clean(r, {} \cup {n}) /\ r.bad = FALSE
    <3>1. Clean(tree, {}) /\ n \in Nodes /\ NULL \in {} \cup {NULL} /\ Hung(tree, r, n, NULL, side)
      BY <1>2, <2>2, <2>3, <2>4
    <3>2. Clean(r, {} \cup {n})
      BY <3>1, HungClean
    <3>3. QED
      BY <1>2, <3>1, <3>2 DEF Hung
  <2>7. alive \cup {n} = {n} /\ {} \cup {n} = {n}
    BY <2>2
  <2>8. QED
    BY <2>1, <2>4, <2>5, <2>6, <2>7 DEF Grown
<1>6. CASE tree.root # NULL
  <2>1. \A m \in alive : key[m] # k
    BY <1>1, <1>2, <1>3, LookupIs
  <2>2. PICK p : p = Leaf(k)
    OBVIOUS
  <2>3. /\ p \in alive /\ tree[side][p] = NULL /\ Beside(side, k, key, p)
        /\ \A m \in alive : \A s \in Sides : p \in sub[tree[s][m]] => Beside(s, k, key, m)
    BY <1>1, <1>2, <1>3, <1>6, <2>1, <2>2, LeafIs
  <2>4. PICK r : r = Hang(tree, n, p, side)
    OBVIOUS
  <2>5. Hung(tree, r, n, p, side)
    <3>1. p \in Ref /\ n \in Nodes
      BY <1>2, <2>3 DEF Ref
    <3>2. QED
      BY <1>2, <1>3, <2>4, <3>1, HungIs
  <2>6. Shape(r, alive \cup {n}, SubHung(sub, n, p), kz)
    <3>1. /\ kz[n] \in Int /\ Beside(side, kz[n], key, p)
          /\ \A m \in alive : \A s \in Sides : p \in sub[tree[s][m]] => Beside(s, kz[n], key, m)
      BY <1>3, <1>4, <2>3
    <3>2. p \in alive /\ tree[side][p] = NULL /\ n \in Nodes \ alive
      BY <2>3
    <3>3. QED
      BY <1>1, <1>2, <1>3, <1>4, <2>5, <3>1, <3>2, LeafHung
  <2>7. Clean(r, alive \cup {n}) /\ r.bad = FALSE
    <3>1. Clean(tree, alive) /\ n \in Nodes /\ p \in alive \cup {NULL}
      BY <1>2, <2>3
    <3>2. Clean(r, alive \cup {n})
      BY <2>5, <3>1, HungClean
    <3>3. QED
      BY <1>2, <2>5, <3>2 DEF Hung
  <2>8. QED
    BY <2>2, <2>4, <2>6, <2>7 DEF Grown
<1>7. QED
  BY <1>5, <1>6

(* rbtree_insert keeps the invariant. *)
LEMMA InsertTree ==
  ASSUME TreeInv, RBTreeAssumption, NEW k \in Keys, NEW v \in Elem, Insert(k, v)
  PROVE  TreeInv'
<1>0. /\ exists' = exists /\ fault' = fault /\ astray' = astray
  BY DEF Insert
<1>1. CASE UNCHANGED <<tree, key, val, alive, count>>
  BY <1>0, <1>1 DEF TreeInv, Payload, InOrder
<1>2. CASE val' = [val EXCEPT ![Lookup(k)] = v] /\ UNCHANGED <<tree, key, alive, count>>
  BY <1>0, <1>2 DEF TreeInv, Payload, InOrder
<1>3. CASE /\ Lookup(k) = NULL
           /\ \E n \in Nodes \ alive :
                LET p    == Leaf(k)
                    side == IF k < key[p] THEN "left" ELSE "right"
                    t1   == [tree EXCEPT !.parent[n] = p, !.red[n] = TRUE]
                    t2   == IF p = NULL THEN [t1 EXCEPT !.root = n]
                            ELSE [t1 EXCEPT ![side][p] = n]
                IN  /\ tree' = InsertFix(t2, n)
                    /\ alive' = alive \cup {n}
                    /\ key' = [key EXCEPT ![n] = k] /\ val' = [val EXCEPT ![n] = v]
           /\ count' = count + 1
  <2>1. PICK n \in Nodes \ alive :
               /\ tree' = InsertFix(Hang(tree, n, Leaf(k), IF k < key[Leaf(k)] THEN "left" ELSE "right"), n)
               /\ alive' = alive \cup {n}
               /\ key' = [key EXCEPT ![n] = k] /\ val' = [val EXCEPT ![n] = v]
    BY <1>3 DEF Hang
  <2>2. PICK side : side = IF k < key[Leaf(k)] THEN "left" ELSE "right"
    OBVIOUS
  <2>3. Grown(Hang(tree, n, Leaf(k), side), alive \cup {n}, [key EXCEPT ![n] = k])
    BY <1>3, <2>2, HangGrown
  <2>4. tree' = InsertFix(Hang(tree, n, Leaf(k), side), n)
    BY <2>1, <2>2
  <2>5. n \in alive \cup {n}
    OBVIOUS
  <2>6. Grown(tree', alive', key')
    BY <2>1, <2>3, <2>4, <2>5, InsertFixGrown
  <2>7. Payload'
    <3>1. count' = Cardinality(alive')
      BY <1>3, <2>1, AliveCounted DEF TreeInv, Payload
    <3>2. key' \in [Nodes -> Keys \cup {NULL}] /\ \A m \in alive' : key'[m] \in Keys
      BY <2>1 DEF TreeInv, Payload
    <3>3. val' \in [Nodes -> Elem] /\ alive' \in SUBSET Nodes
      BY <2>1 DEF TreeInv, Payload
    <3>4. QED
      BY <1>0, <3>1, <3>2, <3>3 DEF TreeInv, Payload
  <2>8. QED
    BY <2>6, <2>7 DEF TreeInv, InOrder
<1>4. QED
  BY <1>1, <1>2, <1>3, Zenon DEF Insert

(* rbtree_delete keeps the invariant. *)
LEMMA DeleteTree ==
  ASSUME TreeInv, RBTreeAssumption, NEW k \in Keys, Delete(k)
  PROVE  TreeInv'
<1> DEFINE s == Spliced(Lookup(k))
           n == Lookup(k)
           t == IF s.short THEN EraseFix(Freed(s.t, n), s.x, s.xp) ELSE Freed(s.t, n)
<1>1. CASE n = NULL
  BY <1>1 DEF Delete, Keep, TreeInv, Payload, InOrder
<1>2. CASE n # NULL
  <2>1. /\ astray' = (astray \/ s.wrong)
        /\ IF t.bad THEN Crash
           ELSE /\ tree' = t
                /\ key' = [key EXCEPT ![n] = NULL] /\ val' = [val EXCEPT ![n] = NULL]
                /\ alive' = alive \ {n} /\ count' = count - 1
                /\ UNCHANGED <<exists, fault>>
    BY <1>2, Zenon DEF Delete
  <2>2. PICK sub : Shape(tree, alive, sub, key)
    BY DEF TreeInv, InOrder, Grown
  <2>3. Clean(tree, alive) /\ tree.bad = FALSE /\ k \in Int
    BY DEF TreeInv, InOrder, Grown, RBTreeAssumption
  <2>4. n \in alive
    BY <1>2, <2>2, <2>3, LookupIs
  <2> HIDE DEF n
  <2>5. /\ Grown(Freed(s.t, n), alive \ {n}, key)
        /\ s.x \in (alive \ {n}) \cup {NULL} /\ s.xp \in (alive \ {n}) \cup {NULL}
    BY <2>2, <2>3, <2>4, SplicedGrown DEF n
  <2>6. s.wrong \in BOOLEAN /\ s.short \in BOOLEAN
    <3>1. tree.red \in [Nodes -> BOOLEAN] /\ alive \in SUBSET Nodes /\ tree \in Tree
      BY <2>2 DEF Shape, Typed, Tree
    <3>2. s.short = ~tree.red[n] \/ s.short = ~tree.red[End(tree, tree.right[n], "left")]
      BY SpliceCases DEF n
    <3>3. s.wrong \in BOOLEAN /\ s.short \in BOOLEAN
      BY SpliceCases DEF n
    <3>4. QED
      BY <3>3
  <2> HIDE DEF s
  <2>7. Outcome(t, alive \ {n}, key)
    <3>1. CASE s.short
      <4>1. t = EraseFix(Freed(s.t, n), s.x, s.xp)
        BY <3>1
      <4>2. QED
        BY <2>5, <4>1, EraseFixOutcome
    <3>2. CASE ~s.short
      <4>1. t = Freed(s.t, n)
        BY <3>2
      <4>2. QED
        BY <2>5, <4>1 DEF Outcome
    <3>3. QED
      BY <3>1, <3>2
  <2> HIDE DEF t
  <2>8. CASE t.bad
    BY <2>1, <2>6, <2>8 DEF Crash, TreeInv, Payload, InOrder
  <2>9. CASE ~t.bad
    <3>1. /\ tree' = t /\ key' = [key EXCEPT ![n] = NULL] /\ val' = [val EXCEPT ![n] = NULL]
          /\ alive' = alive \ {n} /\ count' = count - 1 /\ exists' = exists /\ fault' = fault
          /\ astray' \in BOOLEAN
      BY <2>1, <2>6, <2>9 DEF TreeInv, Payload
    <3>2. Grown(t, alive \ {n}, key)
      BY <2>7, <2>9 DEF Outcome
    <3>3. \A m \in alive \ {n} : key'[m] = key[m]
      BY <3>1 DEF TreeInv, Payload
    <3>4. Grown(tree', alive', key')
      BY <3>1, <3>2, <3>3, GrownKeys
    <3>5. Payload'
      <4>1. count' = Cardinality(alive')
        BY <2>4, <3>1, AliveCounted DEF TreeInv, Payload
      <4>2. key' \in [Nodes -> Keys \cup {NULL}] /\ \A m \in alive' : key'[m] \in Keys
        BY <3>1 DEF TreeInv, Payload
      <4>3. val' \in [Nodes -> Elem] /\ alive' \in SUBSET Nodes
        BY <3>1 DEF TreeInv, Payload, Elem
      <4>4. QED
        BY <3>1, <4>1, <4>2, <4>3 DEF TreeInv, Payload
    <3>6. QED
      BY <3>4, <3>5 DEF TreeInv, InOrder
  <2>10. QED
    BY <2>8, <2>9
<1>3. QED
  BY <1>1, <1>2

(* Every operation keeps the invariant. *)
LEMMA NextTreeInv == RBTreeAssumption /\ TreeInv /\ [Next]_vars => TreeInv'
<1> SUFFICES ASSUME RBTreeAssumption, TreeInv, [Next]_vars PROVE TreeInv'
  OBVIOUS
<1>1. ASSUME UNCHANGED <<tree, key, alive, count>>, val' \in [Nodes -> Elem],
             exists' \in BOOLEAN, fault' \in BOOLEAN, astray' \in BOOLEAN
      PROVE  TreeInv'
  BY <1>1 DEF TreeInv, Payload, InOrder
<1>2. ASSUME Create PROVE TreeInv'
  BY <1>1, <1>2 DEF Create, TreeInv, Payload
<1>3. ASSUME Keep PROVE TreeInv'
  BY <1>1, <1>3 DEF Keep, TreeInv, Payload
<1>4. ASSUME NEW op, Empty(op) PROVE TreeInv'
  <2>1. CASE StackNeeded > StackSize
    BY <1>1, <1>4, <2>1 DEF Empty, Crash, TreeInv, Payload
  <2>2. CASE ~(StackNeeded > StackSize)
    <3>1. /\ tree' = NoTree /\ key' = Blank /\ val' = Blank /\ alive' = {} /\ count' = 0
          /\ exists' = (op = "clear") /\ astray' = FALSE /\ fault' = fault
      BY <1>4, <2>2 DEF Empty
    <3>2. Grown(tree', alive', key')
      BY <3>1, NoTreeGrown
    <3>3. Cardinality({}) = 0
      BY AliveCounted
    <3>4. QED
      BY <3>1, <3>2, <3>3 DEF TreeInv, InOrder, Payload, Blank, Elem
  <2>3. QED
    BY <2>1, <2>2
<1>5. ASSUME NEW k \in Keys, NEW v \in Elem, Update(k, v) PROVE TreeInv'
  BY <1>1, <1>5 DEF Update, TreeInv, Payload
<1>6. CASE UNCHANGED vars
  BY <1>3, <1>6 DEF vars, Keep
<1>7. CASE Next
  <2>1. CASE Create \/ Extremes
    BY <1>2, <1>3, <2>1 DEF Extremes
  <2>2. CASE \E op \in {"clear", "destroy"} : Empty(op)
    BY <1>4, <2>2
  <2>3. CASE \E op \in {"inorder", "preorder", "postorder"} : Traverse(op)
    BY <1>3, <2>3 DEF Traverse
  <2>4. CASE \E k \in Keys : \/ Delete(k) \/ Search(k) \/ Bounds(k)
                             \/ \E v \in Elem : Insert(k, v) \/ Update(k, v)
    <3>1. PICK k \in Keys : \/ Delete(k) \/ Search(k) \/ Bounds(k)
                            \/ \E v \in Elem : Insert(k, v) \/ Update(k, v)
      BY <2>4
    <3>2. CASE Delete(k)
      BY <3>2, DeleteTree
    <3>3. CASE Search(k) \/ Bounds(k)
      BY <1>3, <3>3 DEF Search, Bounds
    <3>4. CASE \E v \in Elem : Insert(k, v) \/ Update(k, v)
      BY <1>5, <3>4, InsertTree
    <3>5. QED
      BY <3>1, <3>2, <3>3, <3>4
  <2>5. QED
    BY <1>7, <2>1, <2>2, <2>3, <2>4 DEF Next
<1>8. QED
  BY <1>6, <1>7

(* In every state the nodes that are allocated and not freed are a search  *)
(* tree, linked both ways, with no two keys the same, and count is their   *)
(* number: through every rotation and replacement of rbtree.c.             *)
THEOREM TreeInvariant == Spec => []TreeInv
<1>1. Init => TreeInv
  BY InitTreeInv, RBTreeAssumption
<1>2. TreeInv /\ [Next]_vars => TreeInv'
  BY NextTreeInv, RBTreeAssumption
<1>3. QED
  BY <1>1, <1>2, PTL DEF Spec

(* Every variable has its type; above all count never exceeds the nodes of *)
(* the heap, and a tree that a NULL was followed in is never left behind.  *)
THEOREM TypeCorrect == Spec => []TypeOK
<1>1. TreeInv => TypeOK
  <2> SUFFICES ASSUME TreeInv PROVE TypeOK
    OBVIOUS
  <2>1. tree \in Tree /\ tree.bad = FALSE
    BY DEF TreeInv, InOrder, Grown, Shape, Typed
  <2>2. /\ tree.root \in Ref /\ \A f \in {"left", "right", "parent"} : tree[f] \in [Nodes -> Ref]
        /\ tree.red \in [Nodes -> BOOLEAN]
    BY <2>1 DEF Tree
  <2>3. count \in 0..Cardinality(Nodes)
    BY RBTreeAssumption, AliveCounted DEF TreeInv, Payload
  <2>4. QED
    BY <2>1, <2>2, <2>3 DEF TreeInv, Payload, TypeOK
<1>2. QED
  BY <1>1, TreeInvariant, PTL

-------------------------------------------------------------------------------
(* The traversals. *)

(* s names every member of S once. *)
Visits(s, S) ==
  /\ s \in Seq(Int) /\ \A i \in 1..Len(s) : s[i] \in S
  /\ \A k \in S : \E i \in 1..Len(s) : s[i] = k
  /\ \A i, j \in 1..Len(s) : s[i] = s[j] => i = j

Ascends(s) == \A i, j \in 1..Len(s) : i < j => s[i] < s[j]

(* Two sequences that name the members of disjoint sets once, one after the*)
(* other.                                                                  *)
LEMMA VisitsBoth ==
  ASSUME NEW a, NEW b, NEW S, NEW T, Visits(a, S), Visits(b, T), S \cap T = {}
  PROVE  Visits(a \o b, S \cup T) /\ Len(a \o b) = Len(a) + Len(b)
<1> DEFINE c == a \o b
<1>1. /\ a \in Seq(Int) /\ b \in Seq(Int) /\ Len(a) \in Nat /\ Len(b) \in Nat
      /\ c \in Seq(Int) /\ Len(c) = Len(a) + Len(b)
      /\ \A i \in 1..Len(c) : c[i] = IF i <= Len(a) THEN a[i] ELSE b[i - Len(a)]
  BY DEF Visits
<1>2. /\ \A i \in 1..Len(a) : a[i] \in S
      /\ \A i \in 1..Len(b) : b[i] \in T
      /\ \A k \in S : \E i \in 1..Len(a) : a[i] = k
      /\ \A k \in T : \E i \in 1..Len(b) : b[i] = k
      /\ \A i, j \in 1..Len(a) : a[i] = a[j] => i = j
      /\ \A i, j \in 1..Len(b) : b[i] = b[j] => i = j
  BY DEF Visits
<1> HIDE DEF c
<1>a. ASSUME NEW i \in 1..Len(a) PROVE i \in 1..Len(c) /\ c[i] = a[i] /\ c[i] \in S
  BY <1>1, <1>2
<1>b. ASSUME NEW i \in 1..Len(b) PROVE i + Len(a) \in 1..Len(c) /\ c[i + Len(a)] = b[i] /\ c[i + Len(a)] \in T
  <2>1. i + Len(a) \in 1..Len(c) /\ ~(i + Len(a) <= Len(a)) /\ (i + Len(a)) - Len(a) = i
    BY <1>1
  <2>2. c[i + Len(a)] = b[(i + Len(a)) - Len(a)]
    BY <1>1, <2>1
  <2>3. QED
    BY <1>2, <2>1, <2>2
<1>c. ASSUME NEW i \in 1..Len(c) PROVE i \in 1..Len(a) \/ \E j \in 1..Len(b) : i = j + Len(a)
  <2>1. CASE i <= Len(a)
    BY <1>1, <2>1
  <2>2. CASE i > Len(a)
    <3>1. i - Len(a) \in 1..Len(b) /\ i = (i - Len(a)) + Len(a)
      BY <1>1, <2>2
    <3>2. QED
      BY <3>1
  <2>3. QED
    BY <1>1, <2>1, <2>2
<1>3. ASSUME NEW i \in 1..Len(c) PROVE c[i] \in S \cup T
  BY <1>a, <1>b, <1>c
<1>4. ASSUME NEW k \in S \cup T PROVE \E i \in 1..Len(c) : c[i] = k
  <2>1. CASE k \in S
    <3>1. PICK i \in 1..Len(a) : a[i] = k
      BY <1>2, <2>1
    <3>2. QED
      BY <1>a, <3>1
  <2>2. CASE k \in T
    <3>1. PICK i \in 1..Len(b) : b[i] = k
      BY <1>2, <2>2
    <3>2. QED
      BY <1>b, <3>1
  <2>3. QED
    BY <2>1, <2>2
<1>5. ASSUME NEW i \in 1..Len(c), NEW j \in 1..Len(c), c[i] = c[j] PROVE i = j
  <2>1. CASE i \in 1..Len(a) /\ j \in 1..Len(a)
    <3>1. a[i] = a[j]
      BY <1>a, <1>5, <2>1
    <3>2. QED
      BY <1>2, <2>1, <3>1
  <2>2. CASE i \notin 1..Len(a) /\ j \notin 1..Len(a)
    <3>1. PICK u \in 1..Len(b), v \in 1..Len(b) : i = u + Len(a) /\ j = v + Len(a)
      BY <1>c, <2>2
    <3>2. b[u] = b[v]
      BY <1>b, <1>5, <3>1
    <3>3. u = v
      BY <1>2, <3>2
    <3>4. QED
      BY <3>1, <3>3
  <2>3. CASE i \in 1..Len(a) /\ j \notin 1..Len(a)
    <3>1. c[i] \in S /\ c[j] \in T
      BY <1>a, <1>b, <1>c, <2>3
    <3>2. QED
      BY <1>5, <3>1
  <2>4. CASE i \notin 1..Len(a) /\ j \in 1..Len(a)
    <3>1. c[i] \in T /\ c[j] \in S
      BY <1>a, <1>b, <1>c, <2>4
    <3>2. QED
      BY <1>5, <3>1
  <2>5. QED
    BY <2>1, <2>2, <2>3, <2>4
<1>6. Visits(c, S \cup T) /\ Len(c) = Len(a) + Len(b)
  BY <1>1, <1>3, <1>4, <1>5 DEF Visits
<1>7. QED
  BY <1>6 DEF c

(* Two ascending sequences, one below the other, ascend together. *)
LEMMA AscendsBoth ==
  ASSUME NEW a \in Seq(Int), NEW b \in Seq(Int), Ascends(a), Ascends(b),
         \A i \in 1..Len(a) : \A j \in 1..Len(b) : a[i] < b[j]
  PROVE  Ascends(a \o b)
<1> DEFINE c == a \o b
<1>1. /\ Len(a) \in Nat /\ Len(b) \in Nat /\ Len(c) = Len(a) + Len(b)
      /\ \A i \in 1..Len(c) : c[i] = IF i <= Len(a) THEN a[i] ELSE b[i - Len(a)]
  OBVIOUS
<1> HIDE DEF c
<1>2. ASSUME NEW i \in 1..Len(c), NEW j \in 1..Len(c), i < j PROVE c[i] < c[j]
  <2>1. CASE j <= Len(a)
    BY <1>1, <1>2, <2>1 DEF Ascends
  <2>2. CASE i > Len(a)
    <3>1. i - Len(a) \in 1..Len(b) /\ j - Len(a) \in 1..Len(b) /\ i - Len(a) < j - Len(a)
      BY <1>1, <1>2, <2>2
    <3>2. c[i] = b[i - Len(a)] /\ c[j] = b[j - Len(a)]
      BY <1>1, <1>2, <2>2
    <3>3. QED
      BY <3>1, <3>2 DEF Ascends
  <2>3. CASE i <= Len(a) /\ j > Len(a)
    <3>1. j - Len(a) \in 1..Len(b) /\ i \in 1..Len(a)
      BY <1>1, <2>3
    <3>2. c[i] = a[i] /\ c[j] = b[j - Len(a)]
      BY <1>1, <2>3
    <3>3. QED
      BY <3>1, <3>2
  <2>4. QED
    BY <1>1, <2>1, <2>2, <2>3
<1>3. QED
  BY <1>2 DEF Ascends, c

IsKeys(f, op) ==
  f = [n \in Ref |->
        IF n = NULL THEN <<>>
        ELSE CASE op = "inorder" -> f[tree.left[n]] \o <<key[n]>> \o f[tree.right[n]]
               [] op = "preorder" -> <<key[n]>> \o f[tree.left[n]] \o f[tree.right[n]]
               [] op = "postorder" -> f[tree.left[n]] \o f[tree.right[n]] \o <<key[n]>>]

(* Traversal, its recursion taken as a predicate. *)
LEMMA TraversalIs ==
  ASSUME NEW op
  PROVE  Traversal(op) = (CHOOSE f : IsKeys(f, op))[tree.root]
BY Zenon DEF Traversal, IsKeys

Orders == {"inorder", "preorder", "postorder"}

Visit(op, l, k, r) ==
  IF op = "inorder" THEN l \o <<k>> \o r
  ELSE IF op = "preorder" THEN <<k>> \o l \o r ELSE l \o r \o <<k>>

(* A traversal in any order can be carried out. *)
LEMMA KeysExist ==
  ASSUME NEW sub, Shape(tree, alive, sub, key), Clean(tree, alive), RBTreeAssumption, NEW op \in Orders
  PROVE  \E f : IsKeys(f, op) /\ f[NULL] = <<>>
                /\ \A n \in Nodes : f[n] = Visit(op, f[tree.left[n]], key[n], f[tree.right[n]])
<1> DEFINE K == {key[n] : n \in Nodes}
           V == Seq(K)
           G == [w \in Nodes \X V \X V |-> Visit(op, w[2], key[w[1]], w[3])]
<1>0. \A n \in Nodes : key[n] \in K
  OBVIOUS
<1> HIDE DEF K
<1>1. ASSUME NEW n \in Nodes, NEW a \in V, NEW b \in V PROVE Visit(op, a, key[n], b) \in V
  <2>1. <<key[n]>> \in Seq(K) /\ a \in Seq(K) /\ b \in Seq(K)
    BY <1>0
  <2>2. PICK e : e = <<key[n]>>
    OBVIOUS
  <2>3. a \o e \o b \in Seq(K) /\ e \o a \o b \in Seq(K) /\ a \o b \o e \in Seq(K)
    BY <2>1, <2>2
  <2>4. QED
    BY <2>2, <2>3 DEF Visit
<1>2. Rule(V, <<>>, G)
  <2>1. <<>> \in V
    OBVIOUS
  <2>2. \A w \in Nodes \X V \X V : Visit(op, w[2], key[w[1]], w[3]) \in V
    BY <1>1
  <2>3. QED
    BY <2>1, <2>2 DEF Rule
<1>3. \A n \in Nodes, a, b \in V : G[<<n, a, b>>] = Visit(op, a, key[n], b)
  OBVIOUS
<1>4. \A n \in Nodes : tree.left[n] \in Ref /\ tree.right[n] \in Ref
  BY DEF Shape, Typed, Tree
<1> HIDE DEF G, V
<1>5. PICK f : Obeys(f, tree, V, <<>>, G)
  BY <1>2, TreeRecursion
<1>6. \A n \in Nodes : f[n] = Visit(op, f[tree.left[n]], key[n], f[tree.right[n]])
  <2> SUFFICES ASSUME NEW n \in Nodes
               PROVE  f[n] = Visit(op, f[tree.left[n]], key[n], f[tree.right[n]])
    OBVIOUS
  <2>1. f[n] = G[<<n, f[tree.left[n]], f[tree.right[n]]>>]
    BY <1>5 DEF Obeys
  <2>2. f[tree.left[n]] \in V /\ f[tree.right[n]] \in V
    BY <1>4, <1>5 DEF Obeys
  <2>3. QED
    BY <1>3, <2>1, <2>2
<1>7. f = [n \in Ref |-> f[n]] /\ f[NULL] = <<>>
  BY <1>5 DEF Obeys
<1>8. \A n \in Ref : f[n] =
        IF n = NULL THEN <<>>
        ELSE CASE op = "inorder" -> f[tree.left[n]] \o <<key[n]>> \o f[tree.right[n]]
               [] op = "preorder" -> <<key[n]>> \o f[tree.left[n]] \o f[tree.right[n]]
               [] op = "postorder" -> f[tree.left[n]] \o f[tree.right[n]] \o <<key[n]>>
  BY <1>6, <1>7, Zenon DEF Ref, Visit, Orders, RBTreeAssumption
<1>9. IsKeys(f, op)
  BY <1>7, <1>8, Zenon DEF IsKeys
<1>10. QED
  BY <1>6, <1>7, <1>9

(* The nodes below are those on the left, those on the right and the node. *)
LEMMA BelowCounted ==
  ASSUME NEW t, NEW A, NEW sub, NEW ky, Shape(t, A, sub, ky), RBTreeAssumption, NEW n \in A
  PROVE  /\ Cardinality(sub[n]) = Cardinality(sub[t["left"][n]]) + 1 + Cardinality(sub[t["right"][n]])
         /\ Cardinality(sub[t["left"][n]]) \in Nat /\ Cardinality(sub[t["right"][n]]) \in Nat
         /\ Cardinality(sub[n]) \in Nat /\ Cardinality(sub[NULL]) = 0
<1> DEFINE L == sub[t["left"][n]]
           R == sub[t["right"][n]]
<1>1. /\ sub[n] = {n} \cup L \cup R /\ L \in SUBSET A /\ R \in SUBSET A /\ n \notin L /\ n \notin R
      /\ L \cap R = {} /\ sub[NULL] = {} /\ A \in SUBSET Nodes
  <2>1. ASSUME NEW s \in Sides
        PROVE  sub[t[s][n]] \in SUBSET A /\ n \notin sub[t[s][n]] /\ sub[t[s][n]] \cap sub[t[Other(s)][n]] = {}
    BY Children
  <2>2. "left" \in Sides /\ "right" \in Sides /\ Other("left") = "right"
    BY DEF Sides, Other
  <2>3. L \in SUBSET A /\ n \notin L /\ R \in SUBSET A /\ n \notin R /\ L \cap R = {}
    BY <2>1, <2>2
  <2>4. QED
    BY <2>3 DEF Shape, Typed, Splits
<1> HIDE DEF L, R
<1>2. IsFiniteSet(A)
  BY <1>1, AliveCounted
<1>3. IsFiniteSet(L) /\ IsFiniteSet(R)
  BY <1>1, <1>2, FS_Subset
<1>4. Cardinality(L) \in Nat /\ Cardinality(R) \in Nat /\ Cardinality({}) = 0
  BY <1>3, FS_CardinalityType, FS_EmptySet
<1>5. IsFiniteSet(L \cup R) /\ Cardinality(L \cup R) = Cardinality(L) + Cardinality(R)
  <2>1. Cardinality(L \cap R) = 0
    BY <1>1, <1>4
  <2>2. IsFiniteSet(L \cup R) /\ Cardinality(L \cup R) = Cardinality(L) + Cardinality(R) - Cardinality(L \cap R)
    BY <1>3, FS_Union
  <2>3. QED
    BY <1>4, <2>1, <2>2
<1>6. n \notin L \cup R /\ sub[n] = (L \cup R) \cup {n}
  BY <1>1
<1>7. Cardinality(sub[n]) = Cardinality(L \cup R) + 1
  BY <1>5, <1>6, FS_AddElement
<1>8. QED
  BY <1>1, <1>4, <1>5, <1>7 DEF L, R

KeysOf(S) == {key[m] : m \in S}

(* A walk of the tree is a walk of its left and of its right side. *)
LEMMA VisitIs ==
  ASSUME NEW op \in Orders, NEW l, NEW k \in Int, NEW r, NEW S, NEW T, Visits(l, S), Visits(r, T),
         \A j \in S : j \in Int /\ j < k, \A j \in T : j \in Int /\ k < j
  PROVE  /\ Visits(Visit(op, l, k, r), S \cup {k} \cup T)
         /\ Len(Visit(op, l, k, r)) = Len(l) + 1 + Len(r)
         /\ op = "inorder" /\ Ascends(l) /\ Ascends(r) => Ascends(Visit(op, l, k, r))
<1>1. PICK e : e = <<k>>
  OBVIOUS
<1>2. Visits(e, {k}) /\ Len(e) = 1 /\ Ascends(e)
  BY <1>1 DEF Visits, Ascends
<1>3. S \cap T = {} /\ S \cap {k} = {} /\ {k} \cap T = {} /\ k \notin S /\ k \notin T
  BY SMT
<1>4. Len(l) \in Nat /\ Len(r) \in Nat /\ l \in Seq(Int) /\ r \in Seq(Int) /\ e \in Seq(Int)
  BY <1>2 DEF Visits
<1>5. CASE op = "inorder"
  <2>1. Visits(l \o e, S \cup {k}) /\ Len(l \o e) = Len(l) + 1
    BY <1>2, <1>3, VisitsBoth
  <2>2. (S \cup {k}) \cap T = {}
    BY <1>3
  <2>3. Visits((l \o e) \o r, (S \cup {k}) \cup T) /\ Len((l \o e) \o r) = Len(l) + 1 + Len(r)
    BY <2>1, <2>2, VisitsBoth
  <2>4. ASSUME Ascends(l), Ascends(r) PROVE Ascends((l \o e) \o r)
    <3>1. \A i \in 1..Len(l) : \A j \in 1..Len(e) : l[i] < e[j]
      BY <1>1, <1>2 DEF Visits
    <3>a. Ascends(e)
      BY <1>2
    <3>b. Ascends(l \o e)
      BY <1>4, <2>4, <3>1, <3>a, AscendsBoth
    <3>2. Ascends(l \o e) /\ l \o e \in Seq(Int)
      BY <3>b, <1>4
    <3>3. \A i \in 1..Len(l \o e) : (l \o e)[i] \in S \cup {k}
      BY <2>1 DEF Visits
    <3>4. \A j \in 1..Len(r) : r[j] \in T
      BY DEF Visits
    <3>5. \A i \in 1..Len(l \o e) : \A j \in 1..Len(r) : (l \o e)[i] < r[j]
      <4>1. \A a \in S \cup {k} : \A b \in T : a < b
        BY SMT
      <4>2. QED
        BY <3>3, <3>4, <4>1
    <3>6. QED
      BY <1>4, <2>4, <3>2, <3>5, AscendsBoth
  <2>5. Visit(op, l, k, r) = (l \o e) \o r
    BY <1>1, <1>5 DEF Visit
  <2>6. QED
    BY <2>3, <2>4, <2>5
<1>6. CASE op = "preorder"
  <2>0. Visits(e \o l, {k} \cup S) /\ Len(e \o l) = Len(e) + Len(l)
    <3>1. Visits(e, {k}) /\ {k} \cap S = {}
      BY <1>2, <1>3
    <3>2. QED
      BY <3>1, VisitsBoth
  <2>1. Visits(e \o l, {k} \cup S) /\ Len(e \o l) = Len(l) + 1
    BY <1>2, <1>4, <2>0
  <2>2. ({k} \cup S) \cap T = {}
    BY <1>3
  <2>3. Visits((e \o l) \o r, ({k} \cup S) \cup T) /\ Len((e \o l) \o r) = Len(l) + 1 + Len(r)
    BY <2>1, <2>2, VisitsBoth
  <2>4. Visit(op, l, k, r) = (e \o l) \o r /\ ({k} \cup S) \cup T = S \cup {k} \cup T /\ op # "inorder"
    BY <1>1, <1>6 DEF Visit
  <2>5. QED
    BY <2>3, <2>4
<1>7. CASE op = "postorder"
  <2>1. Visits(l \o r, S \cup T) /\ Len(l \o r) = Len(l) + Len(r)
    BY <1>3, VisitsBoth
  <2>2. (S \cup T) \cap {k} = {}
    BY <1>3
  <2>a. Visits((l \o r) \o e, (S \cup T) \cup {k}) /\ Len((l \o r) \o e) = Len(l \o r) + Len(e)
    <3>1. Visits(e, {k})
      BY <1>2
    <3>2. QED
      BY <2>1, <2>2, <3>1, VisitsBoth
  <2>3. Visits((l \o r) \o e, (S \cup T) \cup {k}) /\ Len((l \o r) \o e) = Len(l) + 1 + Len(r)
    BY <1>2, <1>4, <2>1, <2>a
  <2>4. Visit(op, l, k, r) = (l \o r) \o e /\ (S \cup T) \cup {k} = S \cup {k} \cup T /\ op # "inorder"
    BY <1>1, <1>7 DEF Visit
  <2>5. QED
    BY <2>3, <2>4
<1>8. QED
  BY <1>5, <1>6, <1>7 DEF Orders

(* The walks name every key once, the middle one in order. *)
LEMMA TraversalVisits ==
  ASSUME NEW sub, Shape(tree, alive, sub, key), Clean(tree, alive), RBTreeAssumption, NEW op \in Orders
  PROVE  /\ Visits(Traversal(op), KeysOf(alive)) /\ Len(Traversal(op)) = Cardinality(alive)
         /\ op = "inorder" => Ascends(Traversal(op))
<1>1. PICK g : IsKeys(g, op)
  BY KeysExist
<1> DEFINE f == CHOOSE h : IsKeys(h, op)
<1>2. IsKeys(f, op)
  BY <1>1
<1>3. PICK g2 : IsKeys(g2, op) /\ g2[NULL] = <<>>
                /\ \A n \in Nodes : g2[n] = Visit(op, g2[tree.left[n]], key[n], g2[tree.right[n]])
  BY KeysExist
<1> HIDE DEF f
<1>4. /\ f[NULL] = <<>>
      /\ \A n \in Nodes : f[n] = Visit(op, f[tree.left[n]], key[n], f[tree.right[n]])
  <2>1. \A n \in Ref : f[n] =
        IF n = NULL THEN <<>>
        ELSE CASE op = "inorder" -> f[tree.left[n]] \o <<key[n]>> \o f[tree.right[n]]
               [] op = "preorder" -> <<key[n]>> \o f[tree.left[n]] \o f[tree.right[n]]
               [] op = "postorder" -> f[tree.left[n]] \o f[tree.right[n]] \o <<key[n]>>
    BY <1>2, Zenon DEF IsKeys
  <2>2. QED
    BY <2>1, Zenon DEF Ref, Visit, Orders, RBTreeAssumption
<1> DEFINE Q(n) == /\ Visits(f[n], KeysOf(sub[n])) /\ Len(f[n]) = Cardinality(sub[n])
                   /\ op = "inorder" => Ascends(f[n])
           S == {n \in alive : Q(n)}
<1>5. /\ tree["left"] = tree.left /\ tree["right"] = tree.right /\ sub[NULL] = {}
      /\ "left" \in Sides /\ "right" \in Sides /\ alive \in SUBSET Nodes /\ tree \in Tree
      /\ \A n \in alive : key[n] \in Int
  BY SideFields DEF Shape, Typed, Sides
<1>6. Q(NULL)
  <2>1. Cardinality(sub[NULL]) = 0 /\ KeysOf({}) = {}
    BY <1>5, AliveCounted DEF KeysOf
  <2>2. Visits(<<>>, {}) /\ Ascends(<<>>) /\ Len(<<>>) = 0
    BY DEF Visits, Ascends
  <2>3. QED
    BY <1>4, <1>5, <2>1, <2>2
<1>7. ASSUME NEW n \in alive, \A s \in Sides : tree[s][n] # NULL => tree[s][n] \in S
      PROVE  n \in S
  <2>1. ASSUME NEW s \in Sides PROVE Q(tree[s][n])
    <3>1. CASE tree[s][n] = NULL
      BY <1>6, <3>1
    <3>2. CASE tree[s][n] # NULL
      BY <1>7, <3>2
    <3>3. QED
      BY <3>1, <3>2
  <2> DEFINE l == tree["left"][n]
             r == tree["right"][n]
  <2>2. Q(l) /\ Q(r)
    BY <1>5, <2>1
  <2>3. f[n] = Visit(op, f[l], key[n], f[r])
    BY <1>4, <1>5
  <2>4. Cardinality(sub[n]) = Cardinality(sub[l]) + 1 + Cardinality(sub[r])
    BY BelowCounted
  <2>5. /\ \A j \in KeysOf(sub[l]) : j \in Int /\ j < key[n]
        /\ \A j \in KeysOf(sub[r]) : j \in Int /\ key[n] < j
    <3>1. sub[l] \in SUBSET alive /\ sub[r] \in SUBSET alive
      BY <1>5, Children
    <3>2. (\A m \in sub[l] : Toward("left", key, m, n)) /\ (\A m \in sub[r] : Toward("right", key, m, n))
      BY <1>5 DEF Shape, Ordered
    <3>3. QED
      BY <1>5, <3>1, <3>2 DEF Toward, KeysOf
  <2>6. KeysOf(sub[n]) = KeysOf(sub[l]) \cup {key[n]} \cup KeysOf(sub[r])
    <3>1. sub[n] = {n} \cup sub[l] \cup sub[r]
      BY DEF Shape, Splits
    <3> HIDE DEF l, r
    <3>2. QED
      BY <3>1 DEF KeysOf
  <2> HIDE DEF l, r
  <2>7. /\ Visits(Visit(op, f[l], key[n], f[r]), KeysOf(sub[l]) \cup {key[n]} \cup KeysOf(sub[r]))
        /\ Len(Visit(op, f[l], key[n], f[r])) = Len(f[l]) + 1 + Len(f[r])
        /\ op = "inorder" /\ Ascends(f[l]) /\ Ascends(f[r]) => Ascends(Visit(op, f[l], key[n], f[r]))
    BY <1>5, <2>2, <2>5, VisitIs
  <2>8. Visits(f[n], KeysOf(sub[n]))
    BY <2>3, <2>6, <2>7
  <2>9. Len(f[n]) = Cardinality(sub[n])
    BY <2>2, <2>3, <2>4, <2>7
  <2>10. op = "inorder" => Ascends(f[n])
    BY <2>2, <2>3, <2>7
  <2>11. QED
    BY <2>8, <2>9, <2>10
<1> HIDE DEF S
<1>8. alive \subseteq S
  BY <1>7, TreeInduction
<1>9. Q(tree.root)
  <2>1. tree.root = NULL \/ tree.root \in alive
    BY DEF Shape, Rooted
  <2>2. QED
    BY <1>6, <1>8, <2>1 DEF S
<1>10. sub[tree.root] = alive
  BY DEF Shape, Rooted
<1>11. Traversal(op) = f[tree.root]
  BY TraversalIs DEF f
<1>12. QED
  BY <1>9, <1>10, <1>11

(* Parent and child links agree, the inorder traversal names the key of    *)
(* every allocated node once and in ascending order, and count is their    *)
(* number (the search tree of rbtree.c, whatever the colours).             *)
THEOREM SearchTreeHolds == Spec => []SearchTree
<1>1. TreeInv => SearchTree
  <2> SUFFICES ASSUME TreeInv PROVE SearchTree
    OBVIOUS
  <2>1. PICK sub : Shape(tree, alive, sub, key)
    BY DEF TreeInv, InOrder, Grown
  <2>2. Clean(tree, alive)
    BY DEF TreeInv, InOrder, Grown
  <2>3. PICK ks : ks = Traversal("inorder")
    OBVIOUS
  <2>4. Visits(ks, KeysOf(alive)) /\ Len(ks) = Cardinality(alive) /\ Ascends(ks)
    BY <2>1, <2>2, <2>3, RBTreeAssumption, TraversalVisits DEF Orders
  <2>5. \A n \in alive : \A side \in {"left", "right"} :
           tree[side][n] # NULL => tree[side][n] \in alive /\ tree.parent[tree[side][n]] = n
    BY <2>1 DEF Shape, LinksDown, Sides
  <2>6. tree.root # NULL => tree.root \in alive /\ tree.parent[tree.root] = NULL
    BY <2>1 DEF Shape, Rooted
  <2>7. Len(ks) = count /\ count = Cardinality(alive)
    BY <2>4 DEF TreeInv, Payload
  <2>8. \A i \in 1..Len(ks) - 1 : ks[i] < ks[i + 1]
    <3>1. Len(ks) \in Nat
      BY <2>4 DEF Visits
    <3>2. QED
      BY <2>4, <3>1 DEF Ascends
  <2>9. QED
    BY <2>3, <2>5, <2>6, <2>7, <2>8 DEF SearchTree
<1>2. QED
  BY <1>1, TreeInvariant, PTL

-------------------------------------------------------------------------------
(* The tree is an ordered map. *)

Apart(A, ky) == \A m, n \in A : ky[m] = ky[n] => m = n

MapOf(A, ky, vl) == [k \in {ky[n] : n \in A} |-> vl[CHOOSE n \in A : ky[n] = k]]

(* No two nodes of a search tree have the same key. *)
LEMMA KeysApart ==
  ASSUME NEW t, NEW A, NEW sub, NEW ky, Shape(t, A, sub, ky), RBTreeAssumption
  PROVE  Apart(A, ky)
<1> DEFINE Q(n) == \A a, b \in sub[n] : ky[a] = ky[b] => a = b
           S == {n \in A : Q(n)}
<1>1. /\ sub[NULL] = {} /\ sub[t.root] = A /\ (t.root = NULL \/ t.root \in A)
      /\ \A n \in A : ky[n] \in Int
  BY DEF Shape, Typed, Rooted
<1>2. Q(NULL)
  BY <1>1
<1>3. ASSUME NEW n \in A, \A s \in Sides : t[s][n] # NULL => t[s][n] \in S
      PROVE  n \in S
  <2>1. \A s \in Sides : Q(t[s][n])
    BY <1>2, <1>3
  <2>2. PICK l : l = t["left"][n]
    OBVIOUS
  <2>3. PICK r : r = t["right"][n]
    OBVIOUS
  <2>4. Q(l) /\ Q(r)
    BY <2>1, <2>2, <2>3 DEF Sides
  <2>5. sub[n] = {n} \cup sub[l] \cup sub[r] /\ sub[l] \in SUBSET A /\ sub[r] \in SUBSET A
    <3>1. \A s \in Sides : sub[t[s][n]] \in SUBSET A
      BY Children
    <3>2. QED
      BY <2>2, <2>3, <3>1 DEF Shape, Splits, Sides
  <2>6. (\A m \in sub[l] : ky[m] < ky[n]) /\ (\A m \in sub[r] : ky[n] < ky[m])
    <3>1. (\A m \in sub[l] : Toward("left", ky, m, n)) /\ (\A m \in sub[r] : Toward("right", ky, m, n))
      BY <2>2, <2>3 DEF Shape, Ordered, Sides
    <3>2. QED
      BY <3>1 DEF Toward
  <2>7. /\ \A m \in sub[l] : ky[m] \in Int /\ ky[m] < ky[n]
        /\ \A m \in sub[r] : ky[m] \in Int /\ ky[n] < ky[m]
        /\ ky[n] \in Int
    BY <1>1, <2>5, <2>6
  <2>8. ASSUME NEW a \in sub[n], NEW b \in sub[n], ky[a] = ky[b] PROVE a = b
    <3>1. CASE a \in sub[l]
      <4>1. b \in sub[l]
        BY <2>5, <2>7, <2>8, <3>1
      <4>2. QED
        BY <2>4, <2>8, <3>1, <4>1
    <3>2. CASE a \in sub[r]
      <4>1. b \in sub[r]
        BY <2>5, <2>7, <2>8, <3>2
      <4>2. QED
        BY <2>4, <2>8, <3>2, <4>1
    <3>3. CASE a = n
      <4>1. b = n
        BY <2>5, <2>7, <2>8, <3>3
      <4>2. QED
        BY <3>3, <4>1
    <3>4. QED
      BY <2>5, <3>1, <3>2, <3>3
  <2>9. QED
    BY <2>8
<1> HIDE DEF S
<1>4. A \subseteq S
  BY <1>3, TreeInduction
<1>5. Q(t.root)
  BY <1>1, <1>2, <1>4 DEF S
<1>6. QED
  BY <1>1, <1>5 DEF Apart

(* f is the map of the nodes in A, from their keys to their values. *)
Maps(f, A, ky, vl) ==
  /\ f = [j \in DOMAIN f |-> f[j]] /\ DOMAIN f = {ky[n] : n \in A}
  /\ \A n \in A : f[ky[n]] = vl[n]

LEMMA MapAt ==
  ASSUME NEW A, NEW ky, NEW vl, Apart(A, ky)
  PROVE  Maps(MapOf(A, ky, vl), A, ky, vl)
<1>1. \A n \in A : (CHOOSE m \in A : ky[m] = ky[n]) = n
  BY DEF Apart
<1>2. QED
  BY <1>1 DEF MapOf, Maps

(* The map f with k leading to v; as it is on the domain D. *)
With(f, D, k, v) == [j \in D |-> IF j = k THEN v ELSE f[j]]

(* Keys and values are the same on the nodes in A. *)
SamePairs(A, ky, vl, kz, vz) == \A m \in A : kz[m] = ky[m] /\ vz[m] = vl[m]

(* A node with a new key and its value. *)
LEMMA MapAdds ==
  ASSUME NEW A, NEW ky, NEW vl, NEW f, Maps(f, A, ky, vl), NEW n, n \notin A, NEW k, NEW v,
         k \notin DOMAIN f, NEW kz, NEW vz, kz[n] = k, vz[n] = v,
         SamePairs(A, ky, vl, kz, vz), NEW B, B = A \cup {n}, NEW g, Maps(g, B, kz, vz)
  PROVE  g = With(f, DOMAIN f \cup {k}, k, v)
<1>0. \A m \in A : kz[m] = ky[m] /\ vz[m] = vl[m]
  BY DEF SamePairs
<1>1. DOMAIN f = {ky[m] : m \in A} /\ \A m \in A : f[ky[m]] = vl[m]
  BY DEF Maps
<1>2. /\ g = [j \in DOMAIN g |-> g[j]] /\ DOMAIN g = {kz[m] : m \in A \cup {n}}
      /\ \A m \in A \cup {n} : g[kz[m]] = vz[m]
  BY DEF Maps
<1>3. DOMAIN g = DOMAIN f \cup {k}
  BY <1>0, <1>1, <1>2
<1>4. ASSUME NEW j \in DOMAIN g PROVE g[j] = IF j = k THEN v ELSE f[j]
  <2>1. PICK m \in A \cup {n} : kz[m] = j
    BY <1>2
  <2>2. CASE m = n
    BY <1>2, <2>1, <2>2
  <2>3. CASE m \in A
    BY <1>0, <1>1, <1>2, <2>1, <2>3
  <2>4. QED
    BY <2>2, <2>3
<1>5. QED
  BY <1>2, <1>3, <1>4 DEF With

(* The node with the key, if there is one, has the value v. *)
Stored(A, ky, vl, vz, k, v) == \A m \in A : vz[m] = IF ky[m] = k THEN v ELSE vl[m]

(* The value of a node changed, or nothing if no node has the key. *)
LEMMA MapUpdates ==
  ASSUME NEW A, NEW ky, NEW vl, NEW f, Maps(f, A, ky, vl), NEW k, NEW v, NEW vz,
         Stored(A, ky, vl, vz, k, v), NEW g, Maps(g, A, ky, vz)
  PROVE  g = With(f, DOMAIN f, k, v)
<1>0. \A m \in A : vz[m] = IF ky[m] = k THEN v ELSE vl[m]
  BY DEF Stored
<1>1. DOMAIN f = {ky[m] : m \in A} /\ \A m \in A : f[ky[m]] = vl[m]
  BY DEF Maps
<1>2. g = [j \in DOMAIN g |-> g[j]] /\ DOMAIN g = {ky[m] : m \in A} /\ \A m \in A : g[ky[m]] = vz[m]
  BY DEF Maps
<1>3. ASSUME NEW j \in DOMAIN g PROVE g[j] = IF j = k THEN v ELSE f[j]
  <2>1. PICK m \in A : ky[m] = j
    BY <1>2
  <2>2. QED
    BY <1>0, <1>1, <1>2, <2>1
<1>4. QED
  BY <1>1, <1>2, <1>3 DEF With

(* A node taken out. *)
LEMMA MapDrops ==
  ASSUME NEW A, NEW ky, NEW vl, NEW f, Maps(f, A, ky, vl), Apart(A, ky), NEW n \in A, NEW k, ky[n] = k,
         NEW kz, NEW vz, NEW B, B = A \ {n}, SamePairs(B, ky, vl, kz, vz), NEW g, Maps(g, B, kz, vz)
  PROVE  g = Restrict(f, DOMAIN f \ {k})
<1>0. \A m \in A \ {n} : kz[m] = ky[m] /\ vz[m] = vl[m]
  BY DEF SamePairs
<1>1. DOMAIN f = {ky[m] : m \in A} /\ \A m \in A : f[ky[m]] = vl[m]
  BY DEF Maps
<1>2. /\ g = [j \in DOMAIN g |-> g[j]] /\ DOMAIN g = {kz[m] : m \in A \ {n}}
      /\ \A m \in A \ {n} : g[kz[m]] = vz[m]
  BY DEF Maps
<1>3. \A m \in A \ {n} : ky[m] # ky[n]
  BY DEF Apart
<1>4. DOMAIN g = DOMAIN f \ {k}
  BY <1>0, <1>1, <1>2, <1>3
<1>5. ASSUME NEW j \in DOMAIN g PROVE g[j] = f[j]
  <2>1. PICK m \in A \ {n} : kz[m] = j
    BY <1>2
  <2>2. QED
    BY <1>0, <1>1, <1>2, <2>1
<1>6. QED
  BY <1>2, <1>4, <1>5 DEF Restrict

(* The least and the greatest of a set of integers, by what they are. *)
LEMMA MinMaxAre ==
  ASSUME NEW S \in SUBSET Int, NEW k \in S
  PROVE  /\ (\A j \in S : k <= j) => Min(S) = k
         /\ (\A j \in S : j <= k) => Max(S) = k
<1>1. ASSUME \A j \in S : k <= j PROVE Min(S) = k
  <2>1. Min(S) \in S /\ \A j \in S : Min(S) <= j
    BY <1>1, Zenon DEF Min
  <2>2. PICK m : m = Min(S)
    OBVIOUS
  <2>3. m \in Int /\ k \in Int /\ m <= k /\ k <= m
    BY <1>1, <2>1, <2>2
  <2>4. QED
    BY <2>2, <2>3
<1>2. ASSUME \A j \in S : j <= k PROVE Max(S) = k
  <2>1. \A j \in S : k >= j
    BY <1>2
  <2>2. Max(S) \in S /\ \A j \in S : Max(S) >= j
    BY <2>1, Zenon DEF Max
  <2>3. PICK m : m = Max(S)
    OBVIOUS
  <2>4. m \in Int /\ k \in Int /\ m >= k /\ k >= m
    BY <1>2, <2>2, <2>3
  <2>5. QED
    BY <2>3, <2>4
<1>3. QED
  BY <1>1, <1>2

(* A bound looks for the keys from k on, or from behind k. *)
Reached(k, strict, j) == k < j \/ (k = j /\ ~strict)

IsBest(f, k, strict) ==
  f = [n \in Ref |->
        IF n = NULL THEN NULL
        ELSE IF k < key[n] \/ (k = key[n] /\ ~strict)
        THEN LET lower == f[tree.left[n]] IN IF lower = NULL THEN n ELSE lower
        ELSE f[tree.right[n]]]

(* The search for a bound ends. *)
LEMMA BestExists ==
  ASSUME NEW sub, Shape(tree, alive, sub, key), Clean(tree, alive), RBTreeAssumption,
         NEW k, NEW strict
  PROVE  \E f : IsBest(f, k, strict)
<1> DEFINE G == [w \in Nodes \X Ref \X Ref |->
                   IF Reached(k, strict, key[w[1]])
                   THEN IF w[2] = NULL THEN w[1] ELSE w[2]
                   ELSE w[3]]
<1>1. Rule(Ref, NULL, G)
  BY DEF Ref, Rule
<1>2. \A n \in Nodes, a, b \in Ref :
        G[<<n, a, b>>] = IF Reached(k, strict, key[n]) THEN IF a = NULL THEN n ELSE a ELSE b
  OBVIOUS
<1>3. \A n \in Nodes : tree.left[n] \in Ref /\ tree.right[n] \in Ref
  BY DEF Shape, Typed, Tree
<1> HIDE DEF G
<1>4. PICK f : Obeys(f, tree, Ref, NULL, G)
  BY <1>1, TreeRecursion
<1>5. \A n \in Ref : f[n] = IF n = NULL THEN NULL
                            ELSE IF Reached(k, strict, key[n])
                            THEN IF f[tree.left[n]] = NULL THEN n ELSE f[tree.left[n]]
                            ELSE f[tree.right[n]]
  <2> SUFFICES ASSUME NEW n \in Nodes
               PROVE  f[n] = IF Reached(k, strict, key[n])
                             THEN IF f[tree.left[n]] = NULL THEN n ELSE f[tree.left[n]]
                             ELSE f[tree.right[n]]
    BY <1>4 DEF Ref, Obeys, RBTreeAssumption
  <2>1. /\ f[n] = G[<<n, f[tree.left[n]], f[tree.right[n]]>>]
        /\ f[tree.left[n]] \in Ref /\ f[tree.right[n]] \in Ref
    BY <1>3, <1>4 DEF Obeys
  <2>2. QED
    BY <1>2, <2>1
<1>6. f = [n \in Ref |-> f[n]]
  BY <1>4 DEF Obeys
<1>7. IsBest(f, k, strict)
  BY <1>5, <1>6, Zenon DEF IsBest, Reached
<1>8. QED
  BY <1>7

(* A bound is the least of the keys it looks for. *)
LEMMA BoundIs ==
  ASSUME NEW sub, Shape(tree, alive, sub, key), Clean(tree, alive), RBTreeAssumption,
         NEW k \in Int, NEW strict, NEW K, K = {j \in KeysOf(alive) : Reached(k, strict, j)}
  PROVE  Bound(k, strict) = IF K = {} THEN NULL ELSE Min(K)
<1> DEFINE f == CHOOSE g : IsBest(g, k, strict)
           P(m) == Reached(k, strict, key[m])
           Q(n) == \/ f[n] = NULL /\ \A m \in sub[n] : ~P(m)
                   \/ f[n] \in sub[n] /\ P(f[n]) /\ \A m \in sub[n] : P(m) => key[f[n]] <= key[m]
           S == {n \in alive : Q(n)}
<1>1. Bound(k, strict) = KeyOf(f[tree.root])
  BY Zenon DEF Bound, IsBest
<1>2. IsBest(f, k, strict)
  BY BestExists
<1>3. /\ tree \in Tree /\ alive \in SUBSET Nodes /\ NULL \notin alive /\ sub[NULL] = {}
      /\ tree["left"] = tree.left /\ tree["right"] = tree.right
      /\ \A n \in alive : key[n] \in Int
  BY SideFields DEF Shape, Typed, RBTreeAssumption
<1> HIDE DEF f
<1>4. f[NULL] = NULL /\ \A n \in alive :
         f[n] = IF P(n) THEN IF f[tree["left"][n]] = NULL THEN n ELSE f[tree["left"][n]]
                ELSE f[tree["right"][n]]
  <2>1. \A n \in Ref : f[n] = IF n = NULL THEN NULL
                              ELSE IF k < key[n] \/ (k = key[n] /\ ~strict)
                              THEN LET lower == f[tree.left[n]] IN IF lower = NULL THEN n ELSE lower
                              ELSE f[tree.right[n]]
    BY <1>2, Zenon DEF IsBest
  <2>2. NULL \in Ref /\ \A n \in alive : n \in Ref /\ n # NULL
    BY <1>3 DEF Ref
  <2>3. QED
    BY <1>3, <2>1, <2>2, Zenon DEF Reached
<1>5. ASSUME NEW n \in alive, \A s \in Sides : tree[s][n] # NULL => tree[s][n] \in S
      PROVE  n \in S
  <2>1. PICK l : l = tree["left"][n]
    OBVIOUS
  <2>2. PICK r : r = tree["right"][n]
    OBVIOUS
  <2>3. sub[n] = {n} \cup sub[l] \cup sub[r] /\ sub[l] \in SUBSET alive /\ sub[r] \in SUBSET alive
    <3>1. \A s \in Sides : sub[tree[s][n]] \in SUBSET alive
      BY Children
    <3>2. QED
      BY <2>1, <2>2, <3>1 DEF Shape, Splits, Sides
  <2>4. /\ \A m \in sub[l] : key[m] \in Int /\ key[m] < key[n]
        /\ \A m \in sub[r] : key[m] \in Int /\ key[n] < key[m]
        /\ key[n] \in Int
    <3>1. (\A m \in sub[l] : Toward("left", key, m, n)) /\ (\A m \in sub[r] : Toward("right", key, m, n))
      BY <2>1, <2>2 DEF Shape, Ordered, Sides
    <3>2. QED
      BY <1>3, <2>3, <3>1 DEF Toward
  <2>5. Q(l) /\ Q(r)
    <3>1. Q(NULL)
      BY <1>3, <1>4
    <3>2. \A s \in Sides : Q(tree[s][n])
      BY <1>5, <3>1
    <3> HIDE DEF Q
    <3>3. QED
      BY <2>1, <2>2, <3>2 DEF Sides
  <2>6. NULL \notin sub[l] /\ NULL \notin sub[r] /\ n # NULL
    BY <1>3, <2>3
  <2>7. CASE P(n)
    <3>1. f[n] = IF f[l] = NULL THEN n ELSE f[l]
      BY <1>4, <2>1, <2>7
    <3>2. \A m \in sub[r] : P(m)
      BY <2>4, <2>7 DEF Reached
    <3>3. CASE f[l] = NULL
      <4>1. f[n] = n /\ \A m \in sub[l] : ~P(m)
        BY <2>5, <2>6, <3>1, <3>3
      <4>2. \A m \in sub[n] : P(m) => key[n] <= key[m]
        BY <2>3, <2>4, <4>1
      <4>3. QED
        BY <2>3, <2>7, <4>1, <4>2
    <3>4. CASE f[l] # NULL
      <4>1. f[n] = f[l] /\ f[l] \in sub[l] /\ P(f[l]) /\ \A m \in sub[l] : P(m) => key[f[l]] <= key[m]
        BY <2>5, <3>1, <3>4
      <4>2. key[f[l]] \in Int /\ key[f[l]] < key[n]
        BY <2>4, <4>1
      <4>3. \A m \in sub[n] : P(m) => key[f[l]] <= key[m]
        <5> HIDE DEF P
        <5>1. QED
          BY <2>3, <2>4, <4>1, <4>2
      <4>4. QED
        BY <2>3, <4>1, <4>3
    <3>5. QED
      BY <3>3, <3>4
  <2>8. CASE ~P(n)
    <3>1. f[n] = f[r]
      BY <1>4, <2>2, <2>8
    <3>2. \A m \in sub[l] : ~P(m)
      BY <2>4, <2>8 DEF Reached
    <3> HIDE DEF P
    <3>3. QED
      BY <2>3, <2>5, <2>8, <3>1, <3>2
  <2>9. QED
    BY <2>7, <2>8
<1> HIDE DEF S
<1>6. alive \subseteq S
  BY <1>5, TreeInduction
<1>7. sub[tree.root] = alive /\ (tree.root # NULL => tree.root \in alive)
  BY DEF Shape, Rooted
<1>8. Q(tree.root)
  BY <1>3, <1>4, <1>6, <1>7 DEF S
<1>9. PICK b : b = f[tree.root]
  OBVIOUS
<1>10. CASE b = NULL
  <2>1. \A m \in alive : ~P(m)
    BY <1>3, <1>7, <1>8, <1>9, <1>10
  <2>2. K = {}
    BY <2>1 DEF KeysOf
  <2>3. QED
    BY <1>1, <1>9, <1>10, <2>2 DEF KeyOf
<1>11. CASE b # NULL
  <2>1. b \in alive /\ P(b) /\ \A m \in alive : P(m) => key[b] <= key[m]
    BY <1>7, <1>8, <1>9, <1>11
  <2>2. key[b] \in K /\ (\A j \in K : key[b] <= j) /\ K \in SUBSET Int
    BY <1>3, <2>1 DEF KeysOf
  <2>3. Min(K) = key[b]
    BY <2>2, MinMaxAre
  <2>4. QED
    BY <1>1, <1>9, <1>11, <2>2, <2>3 DEF KeyOf
<1>12. QED
  BY <1>10, <1>11

(* The ends of the tree are the least and the greatest key. *)
LEMMA ExtremesAre ==
  ASSUME NEW sub, Shape(tree, alive, sub, key), Clean(tree, alive), RBTreeAssumption,
         NEW K, K = KeysOf(alive)
  PROVE  /\ KeyOf(End(tree, tree.root, "left")) = IF K = {} THEN NULL ELSE Min(K)
         /\ KeyOf(End(tree, tree.root, "right")) = IF K = {} THEN NULL ELSE Max(K)
<1>1. /\ sub[tree.root] = alive /\ sub[NULL] = {} /\ alive \in SUBSET Nodes /\ NULL \notin alive
      /\ \A n \in alive : key[n] \in Int
  BY DEF Shape, Typed, Rooted, RBTreeAssumption
<1>2. CASE tree.root = NULL
  <2>1. K = {}
    BY <1>1, <1>2 DEF KeysOf
  <2>2. ASSUME NEW s \in Sides PROVE End(tree, NULL, s) = NULL
    <3>1. PICK g : IsEnd(g, tree, s)
      BY EndExists
    <3>2. PICK f : f = CHOOSE h : IsEnd(h, tree, s)
      OBVIOUS
    <3>3. IsEnd(f, tree, s) /\ End(tree, NULL, s) = f[NULL]
      BY <3>1, <3>2, Zenon DEF End, IsEnd
    <3>4. QED
      BY <3>3 DEF IsEnd, Ref
  <2>3. QED
    BY <1>2, <2>1, <2>2 DEF Sides, KeyOf
<1>3. CASE tree.root # NULL
  <2>1. tree.root \in alive
    BY <1>3 DEF Shape, Rooted
  <2>2. PICK a : a = End(tree, tree.root, "left")
    OBVIOUS
  <2>3. PICK b : b = End(tree, tree.root, "right")
    OBVIOUS
  <2>4. /\ a \in alive /\ \A m \in alive : m # a => Toward("left", key, a, m)
        /\ b \in alive /\ \A m \in alive : m # b => Toward("right", key, b, m)
    BY <1>1, <2>1, <2>2, <2>3, EndIs DEF Sides
  <2>5. (\A m \in alive : key[a] <= key[m]) /\ (\A m \in alive : key[m] <= key[b])
    <3>1. (\A m \in alive : m # a => key[a] < key[m]) /\ (\A m \in alive : m # b => key[m] < key[b])
      BY <2>4 DEF Toward
    <3>2. QED
      BY <1>1, <2>4, <3>1
  <2>6. /\ K \in SUBSET Int /\ key[a] \in K /\ key[b] \in K
        /\ (\A j \in K : key[a] <= j) /\ (\A j \in K : j <= key[b])
    BY <1>1, <2>4, <2>5 DEF KeysOf
  <2>7. Min(K) = key[a] /\ Max(K) = key[b]
    BY <2>6, MinMaxAre
  <2>8. KeyOf(a) = key[a] /\ KeyOf(b) = key[b] /\ K # {}
    BY <1>1, <2>4, <2>6 DEF KeyOf
  <2>9. QED
    BY <2>2, <2>3, <2>7, <2>8
<1>4. QED
  BY <1>2, <1>3

(* The map seen through the keys of a search tree. *)
LEMMA SeenMap ==
  ASSUME NEW t, NEW A, NEW ky, NEW vl, Grown(t, A, ky), RBTreeAssumption
  PROVE  Apart(A, ky) /\ Maps(MapOf(A, ky, vl), A, ky, vl)
<1>1. PICK sub : Shape(t, A, sub, ky)
  BY DEF Grown
<1>2. Apart(A, ky)
  BY <1>1, KeysApart
<1>3. QED
  BY <1>2, MapAt

(* The map of a state and of the next one. *)
LEMMA AsMapSeen ==
  /\ RBTreeAssumption /\ TreeInv => Apart(alive, key) /\ Maps(AsMap, alive, key, val)
  /\ RBTreeAssumption /\ TreeInv' => Apart(alive', key') /\ Maps(AsMap', alive', key', val')
<1>1. AsMap = MapOf(alive, key, val) /\ AsMap' = MapOf(alive', key', val')
  BY DEF AsMap, MapOf
<1>2. ASSUME RBTreeAssumption, TreeInv PROVE Apart(alive, key) /\ Maps(AsMap, alive, key, val)
  <2>1. Grown(tree, alive, key)
    BY <1>2 DEF TreeInv, InOrder
  <2>2. Apart(alive, key) /\ Maps(MapOf(alive, key, val), alive, key, val)
    BY <1>2, <2>1, SeenMap
  <2>3. QED
    BY <1>1, <2>2, Zenon
<1>3. ASSUME RBTreeAssumption, TreeInv' PROVE Apart(alive', key') /\ Maps(AsMap', alive', key', val')
  <2>1. Grown(tree', alive', key')
    BY <1>3 DEF TreeInv, InOrder
  <2>2. Apart(alive', key') /\ Maps(MapOf(alive', key', val'), alive', key', val')
    BY <1>3, <2>1, SeenMap
  <2>3. QED
    BY <1>1, <2>2, Zenon
<1>4. QED
  BY <1>2, <1>3

(* What the calls change no link, key or value in, shows the same map. *)
LEMMA AsMapKept ==
  ASSUME UNCHANGED <<alive, key, val>>
  PROVE  AsMap' = AsMap
BY DEF AsMap

(* A search answers as the map does. *)
LEMMA LookupTells ==
  ASSUME TreeInv, RBTreeAssumption, NEW k \in Keys
  PROVE  /\ DOMAIN AsMap = KeysOf(alive)
         /\ \/ Lookup(k) = NULL /\ k \notin DOMAIN AsMap
            \/ /\ Lookup(k) # NULL /\ Lookup(k) \in alive /\ key[Lookup(k)] = k
               /\ k \in DOMAIN AsMap /\ AsMap[k] = val[Lookup(k)]
<1>1. PICK sub : Shape(tree, alive, sub, key)
  BY DEF TreeInv, InOrder, Grown
<1>2. Clean(tree, alive) /\ k \in Int
  BY DEF TreeInv, InOrder, Grown, RBTreeAssumption
<1>3. PICK n : n = Lookup(k)
  OBVIOUS
<1>4. /\ n = NULL => \A m \in alive : key[m] # k
      /\ n # NULL => n \in alive /\ key[n] = k
  BY <1>1, <1>2, <1>3, LookupIs
<1>5. PICK a : a = AsMap
  OBVIOUS
<1>6. Maps(a, alive, key, val)
  BY <1>5, AsMapSeen
<1>7. DOMAIN a = {key[m] : m \in alive} /\ \A m \in alive : a[key[m]] = val[m]
  BY <1>6 DEF Maps
<1>8. DOMAIN a = KeysOf(alive)
  BY <1>7 DEF KeysOf
<1>9. \/ n = NULL /\ k \notin DOMAIN a
      \/ n # NULL /\ n \in alive /\ key[n] = k /\ k \in DOMAIN a /\ a[k] = val[n]
  BY <1>4, <1>7
<1>10. QED
  BY <1>3, <1>5, <1>8, <1>9

(* rbtree_create, clear and destroy as calls on a map. *)
LEMMA CreateRefines ==
  ASSUME TreeInv, Create PROVE Abstract!Create
<1>1. ~exists /\ exists' \in BOOLEAN /\ ret' = <<"create", exists'>> /\ UNCHANGED <<alive, key, val>>
  <2>1. exists = FALSE /\ UNCHANGED <<alive, key, val>>
    BY DEF Create, TreeInv, Payload
  <2>2. \/ exists' = TRUE /\ ret' = <<"create", TRUE>>
        \/ exists' = exists /\ ret' = <<"create", FALSE>>
    BY DEF Create, Returns
  <2>3. CASE exists' = TRUE /\ ret' = <<"create", TRUE>>
    BY <2>1, <2>3
  <2>4. CASE exists' = exists /\ ret' = <<"create", FALSE>>
    <3>1. exists' = FALSE
      BY <2>1, <2>4
    <3>2. QED
      BY <2>1, <2>4, <3>1
  <2>5. QED
    BY <2>2, <2>3, <2>4
<1>2. AsMap' = AsMap /\ ret'[1] = "create"
  BY <1>1, AsMapKept
<1>3. QED
  BY <1>1, <1>2, Zenon DEF Abstract!Create, Abstract!Returns

LEMMA EmptyRefines ==
  ASSUME NEW op, Empty(op)
  PROVE  Abstract!Empty(op) \/ UNCHANGED <<exists, AsMap, ret>>
<1>1. CASE StackNeeded > StackSize
  <2>1. UNCHANGED <<exists, ret, alive, key, val>>
    BY <1>1 DEF Empty, Crash
  <2>2. QED
    BY <2>1, AsMapKept
<1>2. CASE ~(StackNeeded > StackSize)
  <2>1. alive' = {} /\ exists' = (op = "clear") /\ ret' = <<op, NULL>> /\ exists
    BY <1>2 DEF Empty, Returns, Live
  <2>2. AsMap' = Abstract!None
    BY <2>1 DEF AsMap, Abstract!None
  <2>3. ret'[1] = op
    BY <2>1
  <2>4. QED
    BY <2>1, <2>2, <2>3, Zenon DEF Abstract!Empty, Abstract!Returns
<1>3. QED
  BY <1>1, <1>2

(* What a call that changes nothing answers. *)
LEMMA SearchRefines ==
  ASSUME TreeInv, RBTreeAssumption, NEW k \in Keys, Search(k)
  PROVE  Abstract!Search(k)
<1>1. PICK n : n = Lookup(k)
  OBVIOUS
<1>2. exists /\ Keep /\ ret' = <<"search", IF n = NULL THEN NULL ELSE val[n]>>
  BY <1>1 DEF Search, Live, Returns
<1>3. exists' = exists /\ AsMap' = AsMap
  BY <1>2, AsMapKept DEF Keep
<1>4. (IF n = NULL THEN NULL ELSE val[n]) = IF k \in DOMAIN AsMap THEN AsMap[k] ELSE NULL
  BY <1>1, LookupTells
<1>5. ret' = <<"search", IF k \in DOMAIN AsMap THEN AsMap[k] ELSE NULL>>
  BY <1>2, <1>4, Zenon
<1>6. ret'[1] = "search"
  BY <1>5
<1>7. QED
  BY <1>2, <1>3, <1>5, <1>6, Zenon DEF Abstract!Search, Abstract!Keep, Abstract!Returns

(* Least and Greatest of the abstract map, expanded. *)
LEMMA LeastIs ==
  ASSUME NEW S
  PROVE  /\ Abstract!Least(S) = IF S = {} THEN NULL ELSE Min(S)
         /\ Abstract!Greatest(S) = IF S = {} THEN NULL ELSE Max(S)
BY Zenon DEF Abstract!Least, Abstract!Greatest, Abstract!Min, Abstract!Max, Min, Max

LEMMA ExtremesRefine ==
  ASSUME TreeInv, RBTreeAssumption, Extremes
  PROVE  Abstract!Extremes
<1>1. PICK sub : Shape(tree, alive, sub, key)
  BY DEF TreeInv, InOrder, Grown
<1>2. Clean(tree, alive)
  BY DEF TreeInv, InOrder, Grown
<1>3. PICK K : K = KeysOf(alive)
  OBVIOUS
<1>4. /\ KeyOf(End(tree, tree.root, "left")) = Abstract!Least(K)
      /\ KeyOf(End(tree, tree.root, "right")) = Abstract!Greatest(K)
  BY <1>1, <1>2, <1>3, ExtremesAre, LeastIs
<1>5. DOMAIN AsMap = K
  <2>1. PICK a : a = AsMap
    OBVIOUS
  <2>2. Maps(a, alive, key, val)
    BY <2>1, AsMapSeen
  <2>3. DOMAIN a = {key[n] : n \in alive}
    BY <2>2 DEF Maps
  <2>4. QED
    BY <1>3, <2>1, <2>3 DEF KeysOf
<1>6. exists /\ Keep /\ ret' = <<"min_max", <<Abstract!Least(K), Abstract!Greatest(K)>>>>
  BY <1>4, Zenon DEF Extremes, Live, Returns
<1>7. exists' = exists /\ AsMap' = AsMap
  BY <1>6, AsMapKept DEF Keep
<1>8. ret'[1] = "min_max"
  BY <1>6
<1>9. QED
  BY <1>5, <1>6, <1>7, <1>8, Zenon DEF Abstract!Extremes, Abstract!Keep, Abstract!Returns

LEMMA BoundsRefine ==
  ASSUME TreeInv, RBTreeAssumption, NEW k \in Keys, Bounds(k)
  PROVE  Abstract!Bounds(k)
<1>1. PICK sub : Shape(tree, alive, sub, key)
  BY DEF TreeInv, InOrder, Grown
<1>2. Clean(tree, alive) /\ k \in Int
  BY DEF TreeInv, InOrder, Grown, RBTreeAssumption
<1>3. PICK K : K = KeysOf(alive)
  OBVIOUS
<1>4. K \in SUBSET Int /\ DOMAIN AsMap = K
  BY <1>1, <1>3, LookupTells DEF Shape, Typed, KeysOf
<1>5. PICK L : L = {j \in K : Reached(k, FALSE, j)}
  OBVIOUS
<1>6. PICK H : H = {j \in K : Reached(k, TRUE, j)}
  OBVIOUS
<1>7. L = {j \in K : j >= k} /\ H = {j \in K : j > k}
  <2>1. \A j \in K : (Reached(k, FALSE, j) <=> j >= k) /\ (Reached(k, TRUE, j) <=> j > k)
    BY <1>2, <1>4 DEF Reached
  <2>2. QED
    BY <1>5, <1>6, <2>1, Zenon
<1>8. /\ Bound(k, FALSE) = IF L = {} THEN NULL ELSE Min(L)
      /\ Bound(k, TRUE) = IF H = {} THEN NULL ELSE Min(H)
  BY <1>1, <1>2, <1>3, <1>5, <1>6, BoundIs
<1>9. exists /\ Keep /\ ret' = <<"bounds", <<Abstract!Least(L), Abstract!Least(H)>>>>
  <2>1. Bound(k, FALSE) = Abstract!Least(L) /\ Bound(k, TRUE) = Abstract!Least(H)
    BY <1>8, LeastIs, Zenon
  <2>2. QED
    BY <2>1, Zenon DEF Bounds, Live, Returns
<1>10. exists' = exists /\ AsMap' = AsMap
  BY <1>9, AsMapKept DEF Keep
<1>11. ret' = <<"bounds", <<Abstract!Least({j \in DOMAIN AsMap : j >= k}),
                            Abstract!Least({j \in DOMAIN AsMap : j > k})>>>>
  BY <1>4, <1>7, <1>9, Zenon
<1>12. ret'[1] = "bounds"
  BY <1>9
<1>13. QED
  BY <1>9, <1>10, <1>11, <1>12, Zenon DEF Abstract!Bounds, Abstract!Keep, Abstract!Returns

LEMMA TraverseRefines ==
  ASSUME TreeInv, RBTreeAssumption, NEW op \in Orders, Traverse(op)
  PROVE  Abstract!Traverse(op)
<1>1. PICK sub : Shape(tree, alive, sub, key)
  BY DEF TreeInv, InOrder, Grown
<1>2. Clean(tree, alive)
  BY DEF TreeInv, InOrder, Grown
<1>3. PICK s : s = Traversal(op)
  OBVIOUS
<1>4. PICK K : K = KeysOf(alive)
  OBVIOUS
<1>5. Visits(s, K) /\ (op = "inorder" => Ascends(s))
  BY <1>1, <1>2, <1>3, <1>4, TraversalVisits
<1>6. DOMAIN AsMap = K
  <2>1. PICK a : a = AsMap
    OBVIOUS
  <2>2. Maps(a, alive, key, val)
    BY <2>1, AsMapSeen
  <2>3. DOMAIN a = {key[n] : n \in alive}
    BY <2>2 DEF Maps
  <2>4. QED
    BY <1>4, <2>1, <2>3 DEF KeysOf
<1>7. exists /\ Keep /\ ret' = <<op, s>>
  BY <1>3 DEF Traverse, Live, Returns
<1>8. exists' = exists /\ AsMap' = AsMap /\ ret'[1] = op /\ ret'[2] = s
  BY <1>7, AsMapKept DEF Keep
<1>9. DOMAIN s = 1..Len(s) /\ Len(s) \in Nat
  BY <1>5 DEF Visits
<1>10. s \in Seq(K)
  BY <1>5 DEF Visits
<1>11. Abstract!IsInjective(s)
  BY <1>5, <1>9 DEF Visits, Abstract!IsInjective
<1>12. Abstract!Range(s) = K
  BY <1>5, <1>9 DEF Visits, Abstract!Range
<1>13. op = "inorder" => \A i, j \in DOMAIN s : i < j => s[i] < s[j]
  BY <1>5, <1>9 DEF Ascends
<1>14. QED
  BY <1>6, <1>7, <1>8, <1>10, <1>11, <1>12, <1>13, Zenon DEF Abstract!Traverse, Abstract!Keep, Abstract!Returns

LEMMA UpdateRefines ==
  ASSUME TreeInv, TreeInv', RBTreeAssumption, NEW k \in Keys, NEW v \in Elem, Update(k, v)
  PROVE  Abstract!Update(k, v)
<1>1. PICK n : n = Lookup(k)
  OBVIOUS
<1>2. /\ val' = IF n = NULL THEN val ELSE [val EXCEPT ![n] = v]
      /\ exists /\ exists' = exists /\ ret' = <<"update", n # NULL>>
      /\ alive' = alive /\ key' = key
  BY <1>1 DEF Update, Live, Returns
<1>3. PICK f : f = AsMap
  OBVIOUS
<1>4. /\ Apart(alive, key) /\ Maps(f, alive, key, val)
      /\ Maps(AsMap', alive, key, val')
  BY <1>2, <1>3, AsMapSeen
<1>5. /\ DOMAIN f = KeysOf(alive)
      /\ \/ n = NULL /\ k \notin DOMAIN f
         \/ n # NULL /\ n \in alive /\ key[n] = k /\ k \in DOMAIN f
  BY <1>1, <1>3, LookupTells
<1>6. \A m \in alive : val'[m] = IF key[m] = k THEN v ELSE val[m]
  <2>1. val \in [Nodes -> Elem] /\ alive \in SUBSET Nodes
    BY DEF TreeInv, Payload
  <2>2. CASE n = NULL
    BY <1>2, <1>5, <2>2 DEF KeysOf
  <2>3. CASE n # NULL
    BY <1>2, <1>4, <1>5, <2>1, <2>3 DEF Apart
  <2>4. QED
    BY <2>2, <2>3
<1>7. PICK g : g = AsMap'
  OBVIOUS
<1>8. PICK vz : vz = val'
  OBVIOUS
<1>9. g = With(f, DOMAIN f, k, v)
  <2>1. Stored(alive, key, val, vz, k, v) /\ Maps(g, alive, key, vz)
    BY <1>4, <1>6, <1>7, <1>8 DEF Stored
  <2>2. QED
    BY <1>4, <2>1, MapUpdates
<1>10. AsMap' = [j \in DOMAIN AsMap |-> IF j = k THEN v ELSE AsMap[j]]
  BY <1>3, <1>7, <1>9, Zenon DEF With
<1>11. (n # NULL) = (k \in DOMAIN AsMap)
  BY <1>3, <1>5
<1>12. ret' = <<"update", k \in DOMAIN AsMap>>
  BY <1>2, <1>11, Zenon
<1>13. ret'[1] = "update"
  BY <1>2
<1>14. QED
  BY <1>2, <1>10, <1>12, <1>13, Zenon DEF Abstract!Update, Abstract!Returns

(* A stored insert: the key leads to the value. *)
LEMMA InsertIs ==
  ASSUME exists, exists' = exists, NEW k, NEW v, ret' = <<"insert", TRUE>>,
         AsMap' = [j \in DOMAIN AsMap \cup {k} |-> IF j = k THEN v ELSE AsMap[j]]
  PROVE  Abstract!Insert(k, v)
<1>1. ret'[1] = "insert"
  OBVIOUS
<1>2. QED
  BY <1>1, Zenon DEF Abstract!Insert, Abstract!Returns

LEMMA InsertRefines ==
  ASSUME TreeInv, TreeInv', RBTreeAssumption, NEW k \in Keys, NEW v \in Elem, Insert(k, v)
  PROVE  Abstract!Insert(k, v)
<1>1. PICK at : at = Lookup(k)
  OBVIOUS
<1>2. exists /\ exists' = exists
  BY DEF Insert, Live
<1>3. PICK f : f = AsMap
  OBVIOUS
<1>4. Apart(alive, key) /\ Maps(f, alive, key, val)
  BY <1>3, AsMapSeen
<1>5. /\ DOMAIN f = KeysOf(alive)
      /\ \/ at = NULL /\ k \notin DOMAIN f
         \/ at # NULL /\ at \in alive /\ key[at] = k /\ k \in DOMAIN f
  BY <1>1, <1>3, LookupTells
<1>6. val \in [Nodes -> Elem] /\ key \in [Nodes -> Keys \cup {NULL}] /\ alive \in SUBSET Nodes
  BY DEF TreeInv, Payload
<1>7. PICK g : g = AsMap'
  OBVIOUS
<1>8. PICK vz : vz = val'
  OBVIOUS
<1>9. PICK kz : kz = key'
  OBVIOUS
<1>10. Maps(g, alive', kz, vz)
  BY <1>7, <1>8, <1>9, AsMapSeen
<1>11. CASE ret' = <<"insert", FALSE>> /\ UNCHANGED <<key, val, alive>>
  <2>1. AsMap' = AsMap
    BY <1>11, AsMapKept
  <2>2. ret'[1] = "insert" /\ ret' = <<"insert", FALSE>>
    BY <1>11
  <2>3. QED
    BY <1>2, <2>1, <2>2, Zenon DEF Abstract!Insert, Abstract!Returns
<1>12. CASE /\ at # NULL /\ val' = [val EXCEPT ![at] = v] /\ ret' = <<"insert", TRUE>>
            /\ UNCHANGED <<key, alive>>
  <2>1. \A m \in alive : vz[m] = IF key[m] = k THEN v ELSE val[m]
    BY <1>4, <1>5, <1>6, <1>8, <1>12 DEF Apart
  <2>2. Maps(g, alive, key, vz)
    BY <1>9, <1>10, <1>12
  <2>3. g = With(f, DOMAIN f, k, v)
    <3>1. Stored(alive, key, val, vz, k, v)
      BY <2>1 DEF Stored
    <3>2. QED
      BY <1>4, <2>2, <3>1, MapUpdates
  <2>4. DOMAIN f \cup {k} = DOMAIN f
    BY <1>5, <1>12
  <2>5. AsMap' = [j \in DOMAIN AsMap \cup {k} |-> IF j = k THEN v ELSE AsMap[j]]
    BY <1>3, <1>7, <2>3, <2>4, Zenon DEF With
  <2>6. QED
    BY <1>2, <1>12, <2>5, InsertIs
<1>13. CASE /\ at = NULL /\ ret' = <<"insert", TRUE>>
            /\ \E n \in Nodes \ alive : /\ alive' = alive \cup {n}
                                        /\ key' = [key EXCEPT ![n] = k] /\ val' = [val EXCEPT ![n] = v]
  <2>1. PICK n \in Nodes \ alive : /\ alive' = alive \cup {n}
                                   /\ kz = [key EXCEPT ![n] = k] /\ vz = [val EXCEPT ![n] = v]
    BY <1>8, <1>9, <1>13
  <2>2. k \notin DOMAIN f
    BY <1>5, <1>13
  <2>3. kz[n] = k /\ vz[n] = v /\ n \notin alive /\ SamePairs(alive, key, val, kz, vz)
    BY <1>6, <2>1 DEF SamePairs
  <2>4. PICK B : B = alive \cup {n} /\ Maps(g, B, kz, vz)
    BY <1>10, <2>1
  <2>5. g = With(f, DOMAIN f \cup {k}, k, v)
    BY <1>4, <2>2, <2>3, <2>4, MapAdds
  <2>6. AsMap' = [j \in DOMAIN AsMap \cup {k} |-> IF j = k THEN v ELSE AsMap[j]]
    BY <1>3, <1>7, <2>5, Zenon DEF With
  <2>7. QED
    BY <1>2, <1>13, <2>6, InsertIs
<1>14. \/ ret' = <<"insert", FALSE>> /\ UNCHANGED <<key, val, alive>>
       \/ /\ at # NULL /\ val' = [val EXCEPT ![at] = v] /\ ret' = <<"insert", TRUE>>
          /\ UNCHANGED <<key, alive>>
       \/ /\ at = NULL /\ ret' = <<"insert", TRUE>>
          /\ \E n \in Nodes \ alive : /\ alive' = alive \cup {n}
                                      /\ key' = [key EXCEPT ![n] = k] /\ val' = [val EXCEPT ![n] = v]
  BY <1>1 DEF Insert, Returns
<1>15. QED
  BY <1>11, <1>12, <1>13, <1>14

LEMMA DeleteRefines ==
  ASSUME TreeInv, TreeInv', RBTreeAssumption, NEW k \in Keys, Delete(k)
  PROVE  Abstract!Delete(k) \/ UNCHANGED <<exists, AsMap, ret>>
<1>1. PICK n : n = Lookup(k)
  OBVIOUS
<1>2. PICK f : f = AsMap
  OBVIOUS
<1>3. Apart(alive, key) /\ Maps(f, alive, key, val)
  BY <1>2, AsMapSeen
<1>4. /\ DOMAIN f = KeysOf(alive)
      /\ \/ n = NULL /\ k \notin DOMAIN f
         \/ n # NULL /\ n \in alive /\ key[n] = k /\ k \in DOMAIN f
  BY <1>1, <1>2, LookupTells
<1>5. /\ exists
      /\ \/ n = NULL /\ ret' = <<"delete", FALSE>> /\ UNCHANGED <<exists, alive, key, val>>
         \/ UNCHANGED <<exists, alive, key, val, ret>>
         \/ /\ n # NULL /\ ret' = <<"delete", TRUE>> /\ UNCHANGED exists
            /\ key' = [key EXCEPT ![n] = NULL] /\ val' = [val EXCEPT ![n] = NULL]
            /\ alive' = alive \ {n}
  BY <1>1, Zenon DEF Delete, Live, Keep, Crash, Returns
<1>6. ASSUME NEW b \in BOOLEAN, b <=> k \in DOMAIN AsMap, ret' = <<"delete", b>>, exists' = exists,
             AsMap' = Restrict(f, DOMAIN f \ {k})
      PROVE  Abstract!Delete(k)
  <2>1. ret' = <<"delete", k \in DOMAIN AsMap>>
    <3>1. b = (k \in DOMAIN AsMap)
      BY <1>6
    <3>2. QED
      BY <1>6, <3>1, Zenon
  <2>2. AsMap' = Abstract!Restrict(AsMap, DOMAIN AsMap \ {k})
    BY <1>2, <1>6, Zenon DEF Restrict, Abstract!Restrict
  <2>3. ret'[1] = "delete"
    BY <2>1
  <2>4. QED
    BY <1>5, <1>6, <2>1, <2>2, <2>3, Zenon DEF Abstract!Delete, Abstract!Returns
<1>7. CASE n = NULL /\ ret' = <<"delete", FALSE>> /\ UNCHANGED <<exists, alive, key, val>>
  <2>1. AsMap' = AsMap
    BY <1>7, AsMapKept
  <2>2. k \notin DOMAIN f /\ f = [j \in DOMAIN f |-> f[j]]
    BY <1>3, <1>4, <1>7 DEF Maps
  <2>3. DOMAIN f \ {k} = DOMAIN f
    BY <2>2
  <2>4. AsMap' = Restrict(f, DOMAIN f \ {k})
    BY <1>2, <2>1, <2>2, <2>3, Zenon DEF Restrict
  <2>5. FALSE <=> k \in DOMAIN AsMap
    BY <1>2, <2>2
  <2>6. QED
    BY <1>6, <1>7, <2>4, <2>5
<1>8. CASE UNCHANGED <<exists, alive, key, val, ret>>
  BY <1>8, AsMapKept
<1>9. CASE /\ n # NULL /\ ret' = <<"delete", TRUE>> /\ UNCHANGED exists
           /\ key' = [key EXCEPT ![n] = NULL] /\ val' = [val EXCEPT ![n] = NULL]
           /\ alive' = alive \ {n}
  <2>1. PICK g : g = AsMap'
    OBVIOUS
  <2>2. PICK vz : vz = val'
    OBVIOUS
  <2>3. PICK kz : kz = key'
    OBVIOUS
  <2>4. PICK B : B = alive \ {n} /\ Maps(g, B, kz, vz)
    BY <1>9, <2>1, <2>2, <2>3, AsMapSeen
  <2>5. SamePairs(B, key, val, kz, vz)
    BY <1>9, <2>2, <2>3, <2>4 DEF TreeInv, Payload, SamePairs
  <2>6. n \in alive /\ key[n] = k /\ k \in DOMAIN f
    BY <1>4, <1>9
  <2>7. g = Restrict(f, DOMAIN f \ {k})
    BY <1>3, <2>4, <2>5, <2>6, MapDrops
  <2>8. AsMap' = Restrict(f, DOMAIN f \ {k})
    BY <2>1, <2>6, <2>7, Zenon
  <2>9. TRUE <=> k \in DOMAIN AsMap
    BY <1>2, <2>6
  <2>10. QED
    BY <1>6, <1>9, <2>8, <2>9
<1>10. QED
  BY <1>5, <1>7, <1>8, <1>9

(* Every step of the tree is one of the map, or does not show. *)
LEMMA StepRefines ==
  ASSUME RBTreeAssumption, TreeInv, TreeInv', [Next]_vars
  PROVE  [Abstract!Next]_<<exists, AsMap, ret>>
<1>1. CASE UNCHANGED vars
  BY <1>1, AsMapKept DEF vars
<1>2. CASE Create \/ Extremes
  BY <1>2, CreateRefines, ExtremesRefine DEF Abstract!Next
<1>3. CASE \E op \in {"clear", "destroy"} : Empty(op)
  BY <1>3, EmptyRefines DEF Abstract!Next
<1>4. CASE \E op \in Orders : Traverse(op)
  BY <1>4, TraverseRefines DEF Abstract!Next, Orders
<1>5. ASSUME NEW k \in Keys, \/ Delete(k) \/ Search(k) \/ Bounds(k)
                             \/ \E v \in Elem : Insert(k, v) \/ Update(k, v)
      PROVE  [Abstract!Next]_<<exists, AsMap, ret>>
  <2>1. CASE Delete(k)
    BY <2>1, DeleteRefines DEF Abstract!Next
  <2>2. CASE Search(k)
    BY <2>2, SearchRefines DEF Abstract!Next
  <2>3. CASE Bounds(k)
    BY <2>3, BoundsRefine DEF Abstract!Next
  <2>4. CASE \E v \in Elem : Insert(k, v) \/ Update(k, v)
    <3>1. PICK v \in Elem : Insert(k, v) \/ Update(k, v)
      BY <2>4
    <3>2. v \in Abstract!Elem
      BY DEF Elem, Abstract!Elem
    <3>3. Abstract!Insert(k, v) \/ Abstract!Update(k, v)
      BY <3>1, InsertRefines, UpdateRefines
    <3>4. QED
      BY <3>2, <3>3 DEF Abstract!Next
  <2>5. QED
    BY <1>5, <2>1, <2>2, <2>3, <2>4
<1>6. QED
  BY <1>1, <1>2, <1>3, <1>4, <1>5, Zenon DEF Next, Orders

(* rbtree.c keeps the promise of rbtree.h, that the tree is a map from     *)
(* keys to pointers, searched and walked in the order of the keys: through *)
(* every rotation, fixup, failed allocation, and also when a wrong         *)
(* x_parent has left the tree out of balance.                              *)
THEOREM ImplementsOrderedMap == Spec => RefinesMap
<1>1. Init => Abstract!Init
  <2> SUFFICES ASSUME Init PROVE Abstract!Init
    OBVIOUS
  <2>1. exists = FALSE /\ alive = {} /\ ret = <<"none", NULL>>
    BY DEF Init
  <2>2. AsMap = Abstract!None
    BY <2>1 DEF AsMap, Abstract!None
  <2>3. QED
    BY <2>1, <2>2, Zenon DEF Abstract!Init
<1>2. TreeInv /\ TreeInv' /\ [Next]_vars => [Abstract!Next]_<<exists, AsMap, ret>>
  BY StepRefines, RBTreeAssumption
<1>3. QED
  BY TreeInvariant, <1>1, <1>2, PTL DEF Spec, RefinesMap, Abstract!Spec, Abstract!vars
===============================================================================
