------------------------------ MODULE VectorSpec ------------------------------
(***************************************************************************)
(* What src/include/mylib/darray.h promises its callers: the array is a    *)
(* sequence of pointers, positions count from 0, and every call either     *)
(* fails leaving the sequence alone or changes it as its name says.        *)
(* Capacity, growth and the heap block are not visible here.               *)
(***************************************************************************)
EXTENDS Naturals, Sequences, SequencesExt

CONSTANTS
  Values,  (* the caller's pointers                          *)
  NULL,    (* the null pointer, also a legal element         *)
  Rank,    (* the order that the caller's comparator defines *)
  Sizes    (* bound: the positions and counts callers pass   *)

VARIABLES
  exists,  (* the handle is valid                            *)
  seq,     (* the elements                                   *)
  ret      (* the last call and what it returned             *)

Elem == Values \cup {NULL}

vars == <<exists, seq, ret>>

Calls(call) == ret'[1] = call

Returns(call, r) == Calls(call) /\ ret' = <<call, r>>

Keep == UNCHANGED <<exists, seq>>

NonNull(s) == SelectSeq(s, LAMBDA e : e # NULL)

Init == exists = FALSE /\ seq = <<>> /\ ret = << <<"none">>, NULL>>

Create ==
  /\ Returns(<<"create">>, exists')
  /\ ~exists /\ exists' \in BOOLEAN
  /\ UNCHANGED seq

Gone(call, released) == Returns(call, released) /\ exists' = FALSE /\ seq' = <<>>

Destroy ==
  exists /\ (Gone(<<"destroy">>, <<>>) \/ Gone(<<"destroy_with">>, NonNull(seq)))

Clear ==
  /\ Returns(<<"clear">>, <<>>) \/ Returns(<<"clear_with">>, NonNull(seq))
  /\ exists /\ UNCHANGED exists
  /\ seq' = <<>>

(* Element v goes in before position i; memory may run out. *)
InsertBefore(call, i, v) ==
  /\ Calls(call)
  /\ exists /\ UNCHANGED exists
  /\ \/ i <= Len(seq) /\ seq' = InsertAt(seq, i + 1, v) /\ Returns(call, TRUE)
     \/ UNCHANGED seq /\ Returns(call, FALSE)

Pop ==
  /\ Returns(<<"pop">>, IF seq = <<>> THEN NULL ELSE Last(seq))
  /\ exists /\ UNCHANGED exists
  /\ seq' = IF seq = <<>> THEN seq ELSE Front(seq)

Peek == exists /\ Keep /\ Returns(<<"peek">>, IF seq = <<>> THEN NULL ELSE Last(seq))

Get(i) ==
  exists /\ Keep /\ Returns(<<"get", i>>, IF i < Len(seq) THEN seq[i + 1] ELSE NULL)

Put(i, v) ==
  /\ Returns(<<"set", i, v>>, i < Len(seq))
  /\ exists /\ UNCHANGED exists
  /\ seq' = IF i < Len(seq) THEN [seq EXCEPT ![i + 1] = v] ELSE seq

Take(i) ==
  /\ Returns(<<"take", i>>, IF i < Len(seq) THEN seq[i + 1] ELSE NULL)
  /\ exists /\ UNCHANGED exists
  /\ seq' = IF i < Len(seq) THEN [seq EXCEPT ![i + 1] = NULL] ELSE seq

RemoveIndex(i) ==
  /\ Returns(<<"remove", i>>, IF i < Len(seq) THEN seq[i + 1] ELSE NULL)
  /\ exists /\ UNCHANGED exists
  /\ seq' = IF i < Len(seq) THEN RemoveAt(seq, i + 1) ELSE seq

(* At most n elements from position i on disappear, the tail closes up. *)
Erase(i, n) ==
  /\ Returns(<<"erase", i, n>>, i < Len(seq))
  /\ exists /\ UNCHANGED exists
  /\ seq' = IF i < Len(seq)
            THEN SubSeq(seq, 1, i) \o SubSeq(seq, i + n + 1, Len(seq))
            ELSE seq

Sort ==
  /\ Returns(<<"sort">>, TRUE)
  /\ exists /\ UNCHANGED exists
  /\ ToBag(seq') = ToBag(seq)
  /\ IsSorted(seq', LAMBDA a, b : Rank[a] <= Rank[b])

(* Capacity requests never change what the array holds. *)
Resize ==
  /\ \/ \E ok \in BOOLEAN : Returns(<<"reserve">>, ok)
     \/ Returns(<<"shrink_to_fit">>, TRUE)
  /\ exists /\ Keep

Next ==
  \/ Create \/ Destroy \/ Clear \/ Pop \/ Peek \/ Sort \/ Resize
  \/ \E v \in Elem : InsertBefore(<<"push", v>>, Len(seq), v)
  \/ \E i \in Sizes :
       \/ Get(i) \/ Take(i) \/ RemoveIndex(i)
       \/ \E v \in Elem : InsertBefore(<<"insert", i, v>>, i, v) \/ Put(i, v)
       \/ \E n \in Sizes : Erase(i, n)

Spec == Init /\ [][Next]_vars
===============================================================================
