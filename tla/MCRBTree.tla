------------------------------- MODULE MCRBTree -------------------------------
(* Six keys: both colours at two levels below the root, all cases of the   *)
(* fixup loops on both sides, and a successor two levels down.             *)
EXTENDS RBTree, TLC

MCKeys == 1..6

MCNodes == 1..Cardinality(MCKeys)

(* Which node holds which key is the allocator's choice and of no          *)
(* consequence; what was returned last guides no later call.               *)
View ==
  <<{<<key[n], val[n], tree.red[n], KeyOf(tree.left[n]), KeyOf(tree.right[n]),
       KeyOf(tree.parent[n])>> : n \in alive},
    KeyOf(tree.root), exists, count, fault, astray>>
===============================================================================
