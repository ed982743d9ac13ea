----------------------------- MODULE DictionarySpec -----------------------------
(***************************************************************************)
(* What the legacy search structures promise in common: a collection of    *)
(* entries, each a key with the caller's pointer, that grows by insert and *)
(* shrinks by delete.  A structure that keeps its keys unique does not     *)
(* store one that is there.  What their calls return differs.              *)
(*                                                                         *)
(* trust is how far the promise goes: an insert may end it for the         *)
(* uniqueness of the keys ("twice"), a call may end it for the pointers    *)
(* ("keys") or altogether ("none"), and nothing but destroy restores it.   *)
(***************************************************************************)
EXTENDS Integers, Sequences, FiniteSetsExt, Bags

CONSTANTS
  Keys,   (* the keys, integers in the comparator's order *)
  Data,   (* the caller's pointers                        *)
  NULL,   (* the null pointer                             *)
  Yes,    (* what a call answers that returns a boolean   *)
  No

VARIABLES
  unique,  (* whether it keeps its keys unique             *)
  bag,     (* how often each entry <<key, data>> is there  *)
  trust,   (* "all", "twice", "keys" or "none"             *)
  ret      (* the last call and what it returned           *)

vars == <<unique, bag, trust, ret>>

Entry(k, v) == SetToBag({<<k, v>>})

KeysIn(b) == {e[1] : e \in BagToSet(b)}

DataOf(b, k) == {e[2] : e \in {f \in BagToSet(b) : f[1] = k}}

KeyBag(b) == BagOfAll(LAMBDA e : e[1], b)

(* The collection becomes b, as far as it can be trusted. *)
Becomes(b) == IF trust' = "keys" THEN KeyBag(bag') = KeyBag(b) ELSE bag' = b

Returns(call, r) == ret'[1] = call /\ ret' = <<call, r>>

Init ==
  /\ unique \in BOOLEAN /\ bag = EmptyBag
  /\ trust = "all" /\ ret = << <<"none">>, NULL>>

(* "kept" is a key that was there already, "nomem" a failed allocation. *)
Insert(k, v) ==
  \/ /\ unique => k \notin KeysIn(bag)
     /\ Returns(<<"insert", k, v>>, "stored") /\ Becomes(bag (+) Entry(k, v))
  \/ Returns(<<"insert", k, v>>, "kept") /\ k \in KeysIn(bag) /\ Becomes(bag)
  \/ Returns(<<"insert", k, v>>, "nomem") /\ Becomes(bag)

(* A key that should be there once is stored again. *)
InsertAgain(k, v) ==
  /\ unique /\ k \in KeysIn(bag)
  /\ trust \in {"all", "twice"} /\ trust' = "twice"
  /\ Returns(<<"insert", k, v>>, "stored") /\ Becomes(bag (+) Entry(k, v))

(* The entry's pointer, Yes, or nothing is what the caller learns. *)
Remove(call, k) ==
  IF k \in KeysIn(bag)
  THEN \E v \in DataOf(bag, k) :
         /\ ret' \in {<<call, v>>, <<call, Yes>>, <<call, NULL>>}
         /\ Becomes(bag (-) Entry(k, v))
  ELSE (Returns(call, NULL) \/ Returns(call, No)) /\ Becomes(bag)

Delete(k) == ret'[1] = <<"delete", k>> /\ Remove(<<"delete", k>>, k)

DeleteMin ==
  /\ ret'[1] = <<"delete_min">>
  /\ bag # EmptyBag => Remove(<<"delete_min">>, Min(KeysIn(bag)))
  /\ bag = EmptyBag => Returns(<<"delete_min">>, NULL) /\ Becomes(bag)

Get(k) ==
  /\ ret'[1] = <<"get", k>>
  /\ IF k \notin KeysIn(bag) THEN ret'[2] \in {NULL, No}
     ELSE IF trust' = "keys" THEN ret'[2] \notin {NULL, No}
     ELSE ret'[2] \in DataOf(bag, k) \cup {Yes}
  /\ Becomes(bag)

(* The greatest key that is not above k, NULL if there is none. *)
Floor(k) ==
  LET below == {j \in KeysIn(bag) : j <= k} IN
  /\ Returns(<<"floor", k>>, IF below = {} THEN NULL ELSE Max(below))
  /\ Becomes(bag)

(* A traversal whose callback always goes on visits every entry once. *)
Traverse(op) ==
  /\ ret'[1] = <<op>>
  /\ BagOfAll(LAMBDA i : ret'[2][i], SetToBag(DOMAIN ret'[2])) = KeyBag(bag)
  /\ Becomes(bag)

(* One that may miss entries and visit others more than once. *)
Sample ==
  /\ ret'[1] = <<"sample">>
  /\ \A i \in DOMAIN ret'[2] : ret'[2][i] \in KeysIn(bag)
  /\ Becomes(bag)

(* The pointer of one entry with key k is exchanged. *)
Update(k, v) ==
  /\ Returns(<<"update", k, v>>, NULL)
  /\ \E w \in DataOf(bag, k) : Becomes((bag (-) Entry(k, w)) (+) Entry(k, v))

(* A call that is not about the entries, or does not do what it is for. *)
Other == ret'[1][1] \in {"erase", "vertex", "has_edge"} /\ Becomes(bag)

Destroy == Returns(<<"destroy">>, NULL) /\ bag' = EmptyBag

Call ==
  \/ DeleteMin \/ Sample \/ Other
  \/ \E op \in {"inorder", "preorder", "postorder"} : Traverse(op)
  \/ \E k \in Keys :
       \/ Delete(k) \/ Get(k) \/ Floor(k)
       \/ \E v \in Data \cup {NULL} : Insert(k, v) \/ Update(k, v)

Next ==
  /\ UNCHANGED unique
  /\ \/ trust' = "none"
     \/ trust # "none" /\ Destroy
     \/ trust' = trust /\ Call
     \/ trust = "all" /\ trust' = "keys" /\ Call
     \/ \E k \in Keys, v \in Data \cup {NULL} : InsertAgain(k, v)

Spec == Init /\ [][Next]_vars
===============================================================================
