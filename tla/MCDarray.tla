------------------------------- MODULE MCDarray -------------------------------
(* Two pointers, p before q for the comparator, blocks of up to 4 slots,   *)
(* 6 slots to a wrap of the byte count and 12 to a wrap of size_t.         *)
EXTENDS Darray

CONSTANTS p, q

MCValues == {p, q}
MCRank == [e \in MCValues \cup {NULL} |-> IF e = p THEN 1 ELSE IF e = q THEN 2 ELSE 0]
MCSizes == 0..SizeMod - 1

(* What was returned last guides no later call. *)
View == <<exists, data, slots, size, capacity, fault, spoiled>>
===============================================================================
