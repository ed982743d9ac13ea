------------------------------- MODULE TernaryTree -------------------------------
(***************************************************************************)
(* The ternary search tree of src/src/tst.c as a tree of values; a node is *)
(* [key, lt, eq, gt].  It holds words; keys are integers as in the other   *)
(* structures, and Word[k] is the string of k: its characters, numbers     *)
(* from 1 on, and the NUL, 0, behind them.                                 *)
(***************************************************************************)
EXTENDS Integers, Sequences, SearchBase

CONSTANT Word  (* the strings, a function from the keys *)

Node(c) == [key |-> c, lt |-> NULL, eq |-> NULL, gt |-> NULL]

(* The search for w at its character i. *)
Branch(t, c) == IF c < t.key THEN "lt" ELSE IF c > t.key THEN "gt" ELSE "eq"

Ends(t, c) == c = t.key /\ c = 0

Onward(t, w, i) == IF w[i] = t.key THEN i + 1 ELSE i

RECURSIVE Contains(_, _, _)
(* tst_contains *)
Contains(t, w, i) ==
  IF t = NULL THEN FALSE
  ELSE IF Ends(t, w[i]) THEN TRUE
  ELSE Contains(t[Branch(t, w[i])], w, Onward(t, w, i))

Get(t, k) == {Out(t, Answer(Contains(t, Word[k], 1)))}

RECURSIVE With(_, _, _, _)
(* tst_insert_iterative, with memory for room nodes. *)
With(t, w, i, room) ==
  IF t = NULL
  THEN IF room = 0 THEN NULL ELSE With(Node(w[i]), w, i, room - 1)
  ELSE IF Ends(t, w[i]) THEN t
  ELSE [t EXCEPT ![Branch(t, w[i])] = With(@, w, Onward(t, w, i), room)]

(* tst_insert; if memory runs out on the way, the nodes so far stay. *)
Insert(t, k) ==
  IF Contains(t, Word[k], 1) THEN {Out(t, "kept")}
  ELSE {Out(u, IF Contains(u, Word[k], 1) THEN "stored" ELSE "nomem") :
          u \in {With(t, Word[k], 1, room) : room \in 0..Len(Word[k])}}

-------------------------------------------------------------------------------
KeyOf(w) == CHOOSE k \in DOMAIN Word : Word[k] = w

RECURSIVE Under(_, _)
(* The words under a node, each with the prefix before it. *)
Under(t, prefix) ==
  IF t = NULL THEN <<>>
  ELSE Under(t.lt, prefix)
         \o (IF t.key = 0 THEN << <<KeyOf(Append(prefix, 0)), NULL>> >>
             ELSE Under(t.eq, Append(prefix, t.key)))
         \o Under(t.gt, prefix)

Entries(t) == Under(t, <<>>)

RECURSIVE Ordered(_, _)
(* The branches of a node hold characters on its own side of it, within    *)
(* those that the nodes above leave to it.                                 *)
Ordered(t, chars) ==
  t # NULL =>
    /\ t.key \in chars
    /\ Ordered(t.lt, {c \in chars : c < t.key}) /\ Ordered(t.gt, {c \in chars : c > t.key})
    /\ Ordered(t.eq, UNION {{Word[k][i] : i \in DOMAIN Word[k]} : k \in DOMAIN Word})
===============================================================================
