---------------------------- MODULE MCCircularQueue ----------------------------
(* Two lists and one circular queue on a heap of three nodes: a middle to  *)
(* splice into or remove from, a queue that is full, alone or longer, and  *)
(* memory that runs out.                                                   *)
EXTENDS CircularQueue, TLC

MCRank(v) == v \div 10

Symmetry == Permutations(Nodes) \cup Permutations(Plain)

(* What was returned last guides no later call. *)
View == <<headers, heap, iter, notes, max, IF fault THEN <<call, result>> ELSE <<>>>>
===============================================================================
