-------------------------------- MODULE MapSpec --------------------------------
(***************************************************************************)
(* What src/include/mylib/hashmap.h promises: a finite map from key bytes  *)
(* to caller's pointers.  With each key the map keeps the pointer to its   *)
(* bytes that the first put gave, which foreach and clear_with hand back.  *)
(* A put that needs memory may fail and then changes nothing.              *)
(***************************************************************************)
EXTENDS Functions

CONSTANTS
  Keys,      (* the pointers to keys that callers pass *)
  Contents,  (* the bytes of a key                     *)
  Values,    (* the caller's pointers                  *)
  NULL       (* the null pointer                       *)

VARIABLES
  exists,    (* the handle is valid                    *)
  map,       (* key bytes |-> pointers to key and value *)
  content,   (* the bytes each key pointer leads to    *)
  ret        (* the last call and what it returned     *)

Elem == Values \cup {NULL}

vars == <<exists, map, content, ret>>

Pairs == [key : Keys, val : Elem]

None == [c \in {} |-> [key |-> NULL, val |-> NULL]]

Returns(call, r) == ret'[1] = call /\ ret' = <<call, r>>

Keep == UNCHANGED <<exists, map, content>>

Init ==
  /\ exists = FALSE /\ map = None
  /\ content \in [Keys -> Contents] /\ ret = << <<"none">>, NULL>>

Create ==
  /\ Returns(<<"create">>, exists')
  /\ ~exists /\ exists' \in BOOLEAN
  /\ UNCHANGED <<map, content>>

(* clear, destroy and the _with forms, which free_fn every pair. *)
Empty(op) ==
  /\ Returns(<<op>>, IF op \in {"clear_with", "destroy_with"} THEN Range(map) ELSE {})
  /\ exists /\ exists' = (op \in {"clear", "clear_with"})
  /\ map' = None /\ UNCHANGED content

Put(k, v) ==
  LET c == content[k]
      new == [key |-> IF c \in DOMAIN map THEN map[c].key ELSE k, val |-> v]
  IN  /\ exists /\ UNCHANGED <<exists, content>>
      /\ \/ /\ Returns(<<"put", k, v>>, TRUE)
            /\ map' = [d \in DOMAIN map \cup {c} |-> IF d = c THEN new ELSE map[d]]
         \/ Returns(<<"put", k, v>>, FALSE) /\ UNCHANGED map

Lookup(k) == IF content[k] \in DOMAIN map THEN map[content[k]].val ELSE NULL

Get(k) == exists /\ Returns(<<"get", k>>, Lookup(k)) /\ Keep

RemoveKey(k) ==
  /\ Returns(<<"remove", k>>, Lookup(k))
  /\ exists /\ UNCHANGED <<exists, content>>
  /\ map' = Restrict(map, DOMAIN map \ {content[k]})

(* foreach hands out pairs of the map and tells whether it reached the end. *)
Foreach ==
  /\ exists /\ Keep
  /\ \/ \E p \in Range(map) : Returns(<<"visit">>, p)
     \/ \E done \in BOOLEAN : Returns(<<"foreach">>, done)

(* The caller may write to a key that is not on the map. *)
Overwrite(k) ==
  /\ \A p \in Range(map) : p.key # k
  /\ \E c \in Contents : content' = [content EXCEPT ![k] = c]
  /\ UNCHANGED <<exists, map, ret>>

Next ==
  \/ Create \/ Foreach
  \/ \E op \in {"clear", "destroy", "clear_with", "destroy_with"} :
       ret'[1] = <<op>> /\ Empty(op)
  \/ \E k \in Keys :
       Get(k) \/ RemoveKey(k) \/ Overwrite(k) \/ \E v \in Elem : Put(k, v)

Spec == Init /\ [][Next]_vars
===============================================================================
