------------------------------ MODULE MCMyMalloc ------------------------------
(* Two threads, a header of two bytes, and room for three or four blocks:  *)
(* two frees and an allocation can interleave.  Other code moves the break *)
(* by a header, which is what my_free takes for the end of the last block, *)
(* or by less.  17 + 2 is negative for sbrk, 31 + 2 wraps.                 *)
EXTENDS MyMalloc, TLC

Symmetry == Permutations(Threads)
===============================================================================
