------------------------------- MODULE MCHashmap -------------------------------
(* Four keys that all fall into one slot of the smallest table and part    *)
(* only as it grows, two of them with equal hashes; one key the caller     *)
(* writes to.  MinCapacity stands for 16 and makes tables of 3, 6 and 12   *)
(* slots with room for 2, 4 and 9 entries.                                 *)
EXTENDS Hashmap, TLC

CONSTANTS c1, c2, c3, c4, k1, k2, k3, k4

MCHash == [c \in Contents |-> (c1 :> 0 @@ c2 :> 0 @@ c3 :> 12 @@ c4 :> 6)[c]]

MCGiven == [k \in Keys |-> (k1 :> c1 @@ k2 :> c2 @@ k3 :> c3 @@ k4 :> c4)[k]]

MCView == <<exists, capacity, count, slots, heapNodes, content, loop, spoiled, starved>>
===============================================================================
