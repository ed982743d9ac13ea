------------------------------- MODULE SearchBase -------------------------------
(***************************************************************************)
(* What the modules of the legacy search structures share.  A call on a    *)
(* structure s has a set of outcomes, one for each way that memory may run *)
(* out or that a stray read may go: the structure afterwards, what the     *)
(* call returned, and what it left to be trusted ("all", "twice", "keys",  *)
(* "none", see DictionarySpec).                                            *)
(***************************************************************************)
EXTENDS Integers

CONSTANTS
  NULL,  (* the null pointer                           *)
  Yes,   (* what a call answers that returns a boolean *)
  No

Answer(b) == IF b THEN Yes ELSE No

Lost(s, r, left) == [s |-> s, r |-> r, trust |-> left]

Out(s, r) == Lost(s, r, "all")
===============================================================================
