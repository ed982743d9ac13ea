------------------------------- MODULE DequeSpec -------------------------------
(***************************************************************************)
(* What src/include/mylib/list.h promises: each handle is a sequence of    *)
(* cells, a cell being a value together with the node handle that find     *)
(* returns and remove_node takes.  A node handle survives everything but   *)
(* its own removal: reversal, insertions around it, a merge into another   *)
(* list.  Calls that allocate may leave the sequence as it was.            *)
(***************************************************************************)
EXTENDS Naturals, Sequences, SequencesExt

CONSTANTS
  Lists,   (* the list handles of the program *)
  Nodes,   (* node handles                    *)
  Values,  (* the caller's pointers           *)
  NULL     (* the null pointer                *)

VARIABLES
  exists,  (* which lists were created        *)
  cells,   (* the sequence of each list       *)
  call,    (* the last call                  *)
  result   (* and what it returned            *)

Elem == Values \cup {NULL}

vars == <<exists, cells, call, result>>

Returns(c, r) == call' = c /\ result' = r

Becomes(l, s) == cells' = [cells EXCEPT ![l] = s] /\ UNCHANGED exists

Keep == UNCHANGED <<exists, cells>>

Used == UNION {{c.id : c \in ToSet(cells[l])} : l \in Lists}

NonNull(s) == SelectSeq([k \in DOMAIN s |-> s[k].val], LAMBDA v : v # NULL)

Init ==
  /\ exists = [l \in Lists |-> FALSE]
  /\ cells = [l \in Lists |-> <<>>]
  /\ call = <<"none">> /\ result = NULL

Create(l) ==
  /\ Returns(<<"create", l>>, exists'[l])
  /\ ~exists[l]
  /\ \/ exists' = [exists EXCEPT ![l] = TRUE] /\ UNCHANGED cells
     \/ Keep

(* clear, destroy and the _with forms, which free_fn every element. *)
Empty(l, op) ==
  /\ Returns(<<op, l>>, IF op \in {"clear_with", "destroy_with"}
                        THEN NonNull(cells[l]) ELSE NULL)
  /\ exists[l]
  /\ cells' = [cells EXCEPT ![l] = <<>>]
  /\ exists' = [exists EXCEPT ![l] = op \in {"clear", "clear_with"}]

(* A fresh cell with value v comes in before position i, at the end if     *)
(* there is none, provided memory lasts.                                   *)
Insert(l, c, i, v) ==
  /\ Returns(c, NULL)
  /\ exists[l]
  /\ \/ \E n \in Nodes \ Used :
          Becomes(l, InsertAt(cells[l], Min({i, Len(cells[l])}) + 1, [id |-> n, val |-> v]))
     \/ Keep

(* The cell at position i leaves; the call returns r. *)
RemovePosition(l, i, c, r) ==
  Returns(c, r) /\ exists[l] /\ Becomes(l, RemoveAt(cells[l], i + 1))

(* A call that finds nothing changes nothing. *)
Nothing(l, c, r) == Returns(c, r) /\ exists[l] /\ Keep

Take(l, c, i) ==
  /\ call' = c
  /\ IF i \in 0..Len(cells[l]) - 1
     THEN RemovePosition(l, i, c, cells[l][i + 1].val)
     ELSE Nothing(l, c, NULL)

Get(l, i) ==
  Nothing(l, <<"get", l, i>>, IF i < Len(cells[l]) THEN cells[l][i + 1].val ELSE NULL)

(* The position of the first cell with value v, and past the end if none. *)
Position(l, v) ==
  LET p == SelectInSeq(cells[l], LAMBDA c : c.val = v)
  IN  IF p = 0 THEN Len(cells[l]) ELSE p - 1

Find(l, v) ==
  LET p == Position(l, v)
  IN  Nothing(l, <<"find", l, v>>, IF p < Len(cells[l]) THEN cells[l][p + 1].id ELSE NULL)

RemoveData(l, v) ==
  LET p == Position(l, v)
      c == <<"remove_data", l, v>>
  IN  /\ call' = c
      /\ IF p < Len(cells[l]) THEN RemovePosition(l, p, c, TRUE) ELSE Nothing(l, c, FALSE)

RemoveNode(l, n) ==
  LET c == <<"remove_node", l, n>> IN
  /\ call' = c
  /\ \E i \in 0..Len(cells[l]) - 1 :
       cells[l][i + 1].id = n /\ RemovePosition(l, i, c, NULL)

TurnAround(l) ==
  Returns(<<"reverse", l>>, NULL) /\ exists[l] /\ Becomes(l, Reverse(cells[l]))

(* A clone that runs out of memory misses cells but keeps their order. *)
Clone(l, k) ==
  /\ Returns(<<"clone", l, k>>, exists'[k])
  /\ exists[l] /\ ~exists[k]
  /\ \/ /\ exists' = [exists EXCEPT ![k] = TRUE]
        /\ LET copied == [i \in DOMAIN cells'[k] |-> cells'[k][i].val]
               source == [i \in DOMAIN cells[l] |-> cells[l][i].val]
           IN  copied \in AllSubSeqs(source)
        /\ {c.id : c \in ToSet(cells'[k])} \cap Used = {}
        /\ cells' = [cells EXCEPT ![k] = cells'[k]]
     \/ Keep

(* The cells of s move to the end of d.  Merging a list into itself is not *)
(* excluded by the header and leaves it empty.                             *)
Merge(d, s) ==
  /\ Returns(<<"merge", d, s>>, NULL)
  /\ exists[d] /\ exists[s] /\ UNCHANGED exists
  /\ cells' = [l \in Lists |-> IF l = s THEN <<>>
                               ELSE IF l = d THEN cells[d] \o cells[s] ELSE cells[l]]

Next ==
  \E l \in Lists :
    \/ Create(l)
    \/ \E op \in {"clear", "destroy", "clear_with", "destroy_with"} : Empty(l, op)
    \/ TurnAround(l)
    \/ Take(l, <<"pop", l>>, Len(cells[l]) - 1) \/ Take(l, <<"pop_front", l>>, 0)
    \/ \E v \in Elem :
         \/ Insert(l, <<"push", l, v>>, Len(cells[l]), v)
         \/ Insert(l, <<"push_front", l, v>>, 0, v)
         \/ Find(l, v) \/ RemoveData(l, v)
    \/ \E i \in 0..Cardinality(Nodes) :
         \/ Take(l, <<"pop_at", l, i>>, i) \/ Get(l, i)
         \/ \E v \in Elem : Insert(l, <<"push_at", l, v, i>>, i, v)
    \/ \E n \in Nodes : RemoveNode(l, n)
    \/ \E k \in Lists : Clone(l, k) \/ Merge(l, k)

Spec == Init /\ [][Next]_vars
===============================================================================
