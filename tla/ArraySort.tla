-------------------------------- MODULE ArraySort --------------------------------
(***************************************************************************)
(* The sorting functions of src/include/sort.h.  An array a is a function  *)
(* from 0..Len - 1; a loop is a fold over the values of its counter.       *)
(***************************************************************************)
EXTENDS Integers, Sequences, SequencesExt

CONSTANT Compare(_, _)  (* the caller's comparator *)

IS_LESS == -1
IS_MORE == 1

Length(a) == Cardinality(DOMAIN a)

(* The values of a loop's counter. *)
Up(from, to) == [n \in 1..to - from + 1 |-> from + n - 1]

Down(from, to) == [n \in 1..from - to + 1 |-> from - n + 1]

(* generic_swap *)
Swap(a, i, j) == [a EXCEPT ![i] = a[j], ![j] = a[i]]

(* bubble_sort *)
Bubble(a, i) ==
  FoldLeft(LAMBDA b, j : IF Compare(b[j], b[j + 1]) > 0 THEN Swap(b, j, j + 1) ELSE b,
           a, Up(0, i - 1))

BubbleSort(a) == FoldLeft(Bubble, a, Down(Length(a) - 1, 1))

(* insert_sort looks at all values before the new one. *)
Sink(a, i) ==
  FoldLeft(LAMBDA b, j : IF Compare(b[j], b[j - 1]) < 0 THEN Swap(b, j, j - 1) ELSE b,
           a, Down(i, 1))

InsertSort(a) == FoldLeft(Sink, a, Up(1, Length(a) - 1))

(* select_sort *)
Least(a, i) ==
  FoldLeft(LAMBDA min, j : IF Compare(a[j], a[min]) = IS_LESS THEN j ELSE min,
           i, Up(i + 1, Length(a) - 1))

SelectSort(a) == FoldLeft(LAMBDA b, i : Swap(b, i, Least(b, i)), a, Up(0, Length(a) - 1))

RECURSIVE Shell(_, _)
(* shell_sort runs insert_sort once for every gap. *)
Shell(a, gap) == IF gap = 0 THEN a ELSE Shell(InsertSort(a), gap \div 2)

ShellSort(a) == Shell(a, Length(a) \div 2)

(* partition: p.at is where the last value went that is below the pivot.   *)
PartitionStep(p, j, end) ==
  IF Compare(p.a[j], p.a[end]) = IS_LESS
  THEN [a |-> Swap(p.a, p.at + 1, j), at |-> p.at + 1]
  ELSE p

Partition(a, front, end) ==
  LET p == FoldLeft(LAMBDA q, j : PartitionStep(q, j, end),
                    [a |-> a, at |-> front - 1], Up(front, end - 1))
  IN  [a |-> Swap(p.a, p.at + 1, end), at |-> p.at + 1]

RECURSIVE QuickSortInline(_, _, _)
(* quick_sort_inline *)
QuickSortInline(a, front, end) ==
  IF front >= end THEN a
  ELSE LET p == Partition(a, front, end)
       IN  QuickSortInline(QuickSortInline(p.a, front, p.at - 1), p.at + 1, end)

QuickSort(a) == QuickSortInline(a, 0, Length(a) - 1)

(* max_heapify *)
GreaterSon(a, son, end) ==
  IF son + 1 <= end /\ Compare(a[son], a[son + 1]) = IS_LESS THEN son + 1 ELSE son

RECURSIVE MaxHeapify(_, _, _)
MaxHeapify(a, dad, end) ==
  LET son == GreaterSon(a, 2 * dad + 1, end) IN
  IF 2 * dad + 1 > end THEN a
  ELSE IF Compare(a[dad], a[son]) = IS_MORE THEN a
  ELSE MaxHeapify(Swap(a, dad, son), son, end)

(* heap_sort *)
Heap(a) ==
  FoldLeft(LAMBDA b, i : MaxHeapify(b, i, Length(a) - 1), a, Down((Length(a) \div 2) - 1, 0))

HeapSort(a) ==
  FoldLeft(LAMBDA b, i : MaxHeapify(Swap(b, 0, i), 0, i - 1), Heap(a), Down(Length(a) - 1, 1))

(* merge, of the values before m and from m on.  Mutant first: of two      *)
(* equal values the later one comes first.                                 *)
TakesLater(a, i, j, m) ==
  IF j = Length(a) THEN FALSE ELSE i = m \/ Compare(a[i], a[j]) # IS_LESS

TakesRight(a, i, j, m) ==
  IF j = Length(a) THEN FALSE ELSE i = m \/ Compare(a[j], a[i]) = IS_LESS

RECURSIVE Merged(_, _, _, _)
(* What follows when i and j are the next of the two parts. *)
Merged(a, i, j, m) ==
  IF i = m /\ j = Length(a) THEN <<>>
  ELSE IF TakesRight(a, i, j, m) THEN <<a[j]>> \o Merged(a, i, j + 1, m)
  ELSE <<a[i]>> \o Merged(a, i + 1, j, m)

Part(a, from, to) == [n \in 0..to - from - 1 |-> a[from + n]]

RECURSIVE MergeSort(_)
(* merge_sort *)
MergeSort(a) ==
  LET m == Length(a) \div 2
      u == MergeSort(Part(a, 0, m))
      v == MergeSort(Part(a, m, Length(a)))
      w == Merged([n \in DOMAIN a |-> IF n < m THEN u[n] ELSE v[n - m]], 0, m, m)
  IN  IF Length(a) < 2 THEN a ELSE [n \in DOMAIN a |-> w[n + 1]]

RECURSIVE Shuffled(_, _)
(* shuffle: the value at i changes place with one before it, never with    *)
(* itself.  For an empty array len - 1 wraps, and it runs off the array.   *)
Shuffled(a, i) ==
  IF i <= 0 THEN {a} ELSE UNION {Shuffled(Swap(a, i, r), i - 1) : r \in 0..i - 1}

Shuffle(a) == Shuffled(a, Length(a) - 1)
===============================================================================
