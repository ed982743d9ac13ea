--------------------------------- MODULE Sorting ---------------------------------
(***************************************************************************)
(* The sorting functions and the suffix array, given any values: the list  *)
(* of list_alogs.c, in which 0 is NULL, the array of sort.h, and the       *)
(* string that has them for characters.                                    *)
(***************************************************************************)
EXTENDS Integers, Sequences, SequencesExt

CONSTANT Inputs  (* the values, natural numbers *)

VARIABLE input   (* a sequence of them          *)

(* What the comparators look at. *)
Rank(v) == v \div 2

List == INSTANCE ListSort WITH NULL <- 0

SortedInput == List!MergeSorted(input, Len(input) \div 2)

(* list_alogs.c. *)
ListSorted ==
  Len(input) > 1 => List!IsStableSort(List!BeforeNull(input), SortedInput)

(* A comparator that answers IS_LESS, IS_EQUAL or IS_MORE, and one that    *)
(* answers how far its arguments are apart.                                *)
Difference(v, w) == Rank(v) - Rank(w)

Sign(v, w) == IF Rank(v) < Rank(w) THEN -1 ELSE IF Rank(v) > Rank(w) THEN 1 ELSE 0

Exact == INSTANCE ArraySort WITH Compare <- Sign
Wide  == INSTANCE ArraySort WITH Compare <- Difference

Array == [n \in 0..Len(input) - 1 |-> input[n + 1]]

Values(a) == [n \in 1..Cardinality(DOMAIN a) |-> a[n - 1]]

IsSort(t) ==
  /\ \A v \in ToSet(input) \cup ToSet(t) :
       Len(SelectSeq(t, LAMBDA w : w = v)) = Len(SelectSeq(input, LAMBDA w : w = v))
  /\ \A n \in 1..Len(t) - 1 : Rank(t[n]) <= Rank(t[n + 1])

(* sort.h: the functions that keep the order of equal values. *)
Stable ==
  \A a \in {Exact!BubbleSort(Array), Exact!InsertSort(Array), Exact!ShellSort(Array),
            Exact!MergeSort(Array), Wide!BubbleSort(Array), Wide!InsertSort(Array),
            Wide!ShellSort(Array)} : List!IsStableSort(input, Values(a))

(* Those that do not, on all that shuffle makes of the array. *)
Sorted ==
  \A a \in {Array} \cup Exact!Shuffle(Array) :
    /\ IsSort(Values(Exact!SelectSort(a)))
    /\ IsSort(Values(Exact!QuickSort(a)))
    /\ IsSort(Values(Exact!HeapSort(a)))

SA == INSTANCE SuffixArray

Text == Append(input, 0)

Begins(w, x) == IsPrefix(x, w)

(* suffixArraySearch: count suffixes from rank first on are those that     *)
(* begin with x, wherever the binary search strikes them, and it leaves    *)
(* the array only if the greatest suffix is one of them.                   *)
SearchFinds(sa, x) ==
  LET r == SA!Search(sa, x, 0, sa.n) IN
  /\ {sa.suffix[n] : n \in r.first..r.first + r.count - 1}
       = {i \in 0..sa.n - 1 : Begins(SA!Suffix(Text, i), x)}
  /\ r.outside <=> Begins(SA!Suffix(Text, sa.suffix[sa.n - 1]), x)

(* suffix_array.c. *)
SuffixesRight ==
  0 \notin ToSet(input) =>
    LET sa == SA!Create(Text) IN
    /\ \A x \in UNION {[1..n -> Inputs \ {0}] : n \in 1..3} : SearchFinds(sa, x)
    /\ SA!InverseBWT(sa.n, SA!BWT(sa)) = Text
===============================================================================
