--------------------------------- MODULE Walks ---------------------------------
(***************************************************************************)
(* Walks along the next pointers of a heap of nodes, as the loops          *)
(* "for (curr = list->head; curr != NULL; curr = curr->next)" of the list  *)
(* modules take them.                                                      *)
(***************************************************************************)
EXTENDS Pointers, Integers, Sequences, FiniteSetsExt

(* start and the n nodes behind it; fewer when a NULL ends the walk.  at[i] *)
(* is what curr is after i steps.                                          *)
Walk(next, start, n) ==
  LET at[i \in 0..n] ==
        IF i = 0 THEN start ELSE IF at[i - 1] = NULL THEN NULL ELSE next[at[i - 1]]
      ends == {i \in 0..n : at[i] = NULL}
  IN  [i \in 1..(IF ends = {} THEN n + 1 ELSE Min(ends)) |-> at[i - 1]]
===============================================================================
