------------------------------ MODULE SuffixArray ------------------------------
(***************************************************************************)
(* The suffix array of src/src/suffix_array.c and the transform by Burrows *)
(* and Wheeler.  A string w is a sequence of characters, positive numbers, *)
(* and the NUL, 0, behind them; a suffix is the offset at which it starts. *)
(***************************************************************************)
EXTENDS Integers, Sequences, SequencesExt

Suffix(w, i) == SubSeq(w, i + 1, Len(w))

RECURSIVE Compared(_, _, _)
(* strncmp from character i on: x is as long as its last argument says,    *)
(* and ends before s does or is not its beginning.                         *)
Compared(s, x, i) ==
  IF i > Len(x) THEN 0
  ELSE IF s[i] # x[i] THEN s[i] - x[i] ELSE Compared(s, x, i + 1)

(* suffixArrayCreate: qsort by suffix_array_compare, strcmp. *)
Create(w) ==
  LET sorted == SetToSortSeq(0..Len(w) - 1,
                             LAMBDA i, j : Compared(Suffix(w, i), Suffix(w, j), 1) < 0)
  IN  [n |-> Len(w), string |-> w, suffix |-> [r \in 0..Len(w) - 1 |-> sorted[r + 1]]]

(* The comparison with x of the suffix at rank r. *)
AtRank(sa, r, x) == Compared(Suffix(sa.string, sa.suffix[r]), x, 1)

RECURSIVE Backward(_, _, _), Forward(_, _, _)
Backward(sa, x, lo) ==
  IF lo > 0 /\ AtRank(sa, lo - 1, x) = 0 THEN Backward(sa, x, lo - 1) ELSE lo

(* The bound lets the loop look at the suffix behind the last one. *)
Forward(sa, x, hi) ==
  IF hi + 1 < sa.n /\ AtRank(sa, hi + 1, x) = 0 THEN Forward(sa, x, hi + 1) ELSE hi

NotFound == [first |-> 0, count |-> 0, outside |-> FALSE]

RECURSIVE Search(_, _, _, _)
(* suffixArraySearch between lo and hi, which are 0 and n at first.        *)
(* outside: it read behind the array, and count is what it returns if that *)
(* is no pointer to x.                                                     *)
Search(sa, x, lo, hi) ==
  LET mid  == (lo + hi) \div 2
      from == Backward(sa, x, mid)
      to   == Forward(sa, x, mid)
  IN  IF lo + 1 >= hi THEN NotFound
      ELSE IF AtRank(sa, mid, x) = 0
      THEN [first |-> from, count |-> to - from + 1, outside |-> to + 1 = sa.n]
      ELSE IF AtRank(sa, mid, x) < 0 THEN Search(sa, x, mid, hi) ELSE Search(sa, x, lo, mid)

(* suffixArrayBWT: the character before each suffix, NUL before the first. *)
BWT(sa) ==
  [r \in 0..sa.n - 1 |-> IF sa.suffix[r] = 0 THEN 0 ELSE sa.string[sa.suffix[r]]]

(* The counting sort of inverseBWT keeps equal characters in their order.  *)
(* Mutant first: it fills the places from the last character on.           *)
SuccessorBackwards(len, s) ==
  SetToSortSeq(0..len - 1, LAMBDA i, j : s[i] < s[j] \/ (s[i] = s[j] /\ i > j))

Successor(len, s) ==
  SetToSortSeq(0..len - 1, LAMBDA i, j : s[i] < s[j] \/ (s[i] = s[j] /\ i < j))

(* inverseBWT threads through the successors from the NUL on. *)
InverseBWT(len, s) ==
  LET successor == Successor(len, s)
      nul == CHOOSE i \in 0..len - 1 : s[i] = 0
      thread[n \in 0..len] == IF n = 0 THEN nul ELSE successor[thread[n - 1] + 1]
  IN  [n \in 1..len |-> s[thread[n]]]
===============================================================================
