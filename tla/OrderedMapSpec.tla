---------------------------- MODULE OrderedMapSpec ----------------------------
(***************************************************************************)
(* What src/include/mylib/rbtree.h promises: a map from keys to caller's   *)
(* pointers, searched by key and walked in the order the comparator gives. *)
(* An insert that finds no memory changes nothing.                         *)
(***************************************************************************)
EXTENDS Integers, Sequences, SequencesExt, FiniteSetsExt, Functions

CONSTANTS
  Keys,    (* the keys, integers in the comparator's order *)
  Values,  (* the caller's pointers                        *)
  NULL     (* the null pointer                             *)

VARIABLES
  exists,  (* the handle is valid                          *)
  map,     (* keys |-> values                              *)
  ret      (* the last call and what it returned           *)

Elem == Values \cup {NULL}

vars == <<exists, map, ret>>

None == [k \in {} |-> NULL]

Returns(op, r) == ret'[1] = op /\ ret' = <<op, r>>

Keep == UNCHANGED <<exists, map>>

Init == exists = FALSE /\ map = None /\ ret = <<"none", NULL>>

Create ==
  /\ Returns("create", exists')
  /\ ~exists /\ exists' \in BOOLEAN /\ UNCHANGED map

Empty(op) ==
  /\ Returns(op, NULL)
  /\ exists /\ exists' = (op = "clear") /\ map' = None

Insert(k, v) ==
  /\ exists /\ UNCHANGED exists
  /\ \/ /\ Returns("insert", TRUE)
        /\ map' = [j \in DOMAIN map \cup {k} |-> IF j = k THEN v ELSE map[j]]
     \/ Returns("insert", FALSE) /\ UNCHANGED map

Delete(k) ==
  /\ Returns("delete", k \in DOMAIN map)
  /\ exists /\ UNCHANGED exists
  /\ map' = Restrict(map, DOMAIN map \ {k})

Update(k, v) ==
  /\ Returns("update", k \in DOMAIN map)
  /\ exists /\ UNCHANGED exists
  /\ map' = [j \in DOMAIN map |-> IF j = k THEN v ELSE map[j]]

Search(k) ==
  exists /\ Keep /\ Returns("search", IF k \in DOMAIN map THEN map[k] ELSE NULL)

(* The least and the greatest of a set of keys, NULL if it is empty. *)
Least(S) == IF S = {} THEN NULL ELSE Min(S)
Greatest(S) == IF S = {} THEN NULL ELSE Max(S)

Extremes == exists /\ Keep /\ Returns("min_max", <<Least(DOMAIN map), Greatest(DOMAIN map)>>)

Bounds(k) ==
  /\ exists /\ Keep
  /\ Returns("bounds", <<Least({j \in DOMAIN map : j >= k}), Least({j \in DOMAIN map : j > k})>>)

(* All three visit every key once; inorder ascends. *)
Traverse(op) ==
  /\ Returns(op, ret'[2])
  /\ exists /\ Keep
  /\ ret'[2] \in Seq(DOMAIN map) /\ IsInjective(ret'[2]) /\ Range(ret'[2]) = DOMAIN map
  /\ op = "inorder" => \A i, j \in DOMAIN ret'[2] : i < j => ret'[2][i] < ret'[2][j]

Next ==
  \/ Create \/ Extremes
  \/ \E op \in {"clear", "destroy"} : Empty(op)
  \/ \E op \in {"inorder", "preorder", "postorder"} : Traverse(op)
  \/ \E k \in Keys :
       \/ Delete(k) \/ Search(k) \/ Bounds(k)
       \/ \E v \in Elem : Insert(k, v) \/ Update(k, v)

Spec == Init /\ [][Next]_vars
===============================================================================
