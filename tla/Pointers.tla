-------------------------------- MODULE Pointers -------------------------------
(***************************************************************************)
(* What the modules that keep pointers share.                              *)
(***************************************************************************)
CONSTANT NULL  (* the null pointer *)
===============================================================================
