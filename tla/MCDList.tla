------------------------------- MODULE MCDList -------------------------------
(* Two lists over a heap of three nodes: enough for a clone or a merge     *)
(* while a loop runs, for removal at both ends and in the middle, and for  *)
(* memory to run out in the middle of a clone.                             *)
EXTENDS DList, TLC

Symmetry == Permutations(Nodes) \cup Permutations(Values) \cup Permutations(Lists)

(* What was returned last guides no later call. *)
View == <<headers, heap, iter, fault, merged>>
===============================================================================
