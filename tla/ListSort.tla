-------------------------------- MODULE ListSort --------------------------------
(***************************************************************************)
(* LinkedList_merge_sort of src/src/list_alogs.c on the values of a list.  *)
(***************************************************************************)
EXTENDS Integers, Sequences, SequencesExt, FiniteSets

CONSTANTS
  NULL,     (* the null pointer                           *)
  Rank(_)   (* what the comparator compares of a pointer  *)

(* The loop that deals the values out ends at the first NULL among them. *)
BeforeNull(s) ==
  LET p == SelectInSeq(s, LAMBDA v : v = NULL)
  IN  IF p = 0 THEN s ELSE SubSeq(s, 1, p - 1)

(* How many of the first k shifted values are of s, by turns k; the other  *)
(* k - left[k] are of t.  s gives its first value when inOrder(i, j) allows *)
(* it to go before the next of t, or t has none left.                      *)
Shifted(s, t, inOrder(_, _)) ==
  LET left[k \in 0..Len(s) + Len(t)] ==
        IF k = 0 THEN 0
        ELSE LET i == left[k - 1]
                 j == k - 1 - i
             IN  IF i < Len(s) /\ (j < Len(t) => inOrder(s[i + 1], t[j + 1])) THEN i + 1 ELSE i
  IN  [k \in 1..Len(s) + Len(t) |->
         IF left[k] > left[k - 1] THEN s[left[k]] ELSE t[k - left[k]]]

(* Mutant: of two equal values the right one comes first. *)
MergeRight(s, t) == Shifted(s, t, LAMBDA v, w : Rank(v) < Rank(w))

(* merge shifts the smaller first value, the left one of two equal ones. *)
Merge(s, t) == Shifted(s, t, LAMBDA v, w : Rank(v) <= Rank(w))

(* The first h values go to a1, the others to a2; both are sorted and then *)
(* merged.  A list of at most one (h = 0) is returned as it is.            *)
SplitAndMerge(sorted, s, h) ==
  LET u  == BeforeNull(s)
      a1 == SubSeq(u, 1, IF h < Len(u) THEN h ELSE Len(u))
      a2 == SubSeq(u, h + 1, Len(u))
  IN  IF h = 0 THEN s ELSE Merge(sorted[a1], sorted[a2])

(* half is count / 2.  sorted[d] sorts what calls nested d deep can sort:  *)
(* the lists they are made for are shorter each time.                      *)
MergeSorted(s, half) ==
  LET sorted[d \in 0..Len(s)] ==
        [t \in Seq(ToSet(s)) |->
           IF d = 0 THEN t ELSE SplitAndMerge(sorted[d - 1], t, Len(t) \div 2)]
  IN  SplitAndMerge(sorted[Len(s)], s, half)

-------------------------------------------------------------------------------
(* Properties of a list of values s. *)

(* Where s[i] belongs: behind the smaller values and the equal ones before. *)
Place(s, i) ==
  Cardinality({j \in DOMAIN s : \/ Rank(s[j]) < Rank(s[i])
                                \/ Rank(s[j]) = Rank(s[i]) /\ j <= i})

IsStableSort(s, t) == Len(t) = Len(s) /\ \A i \in DOMAIN s : t[Place(s, i)] = s[i]
===============================================================================
