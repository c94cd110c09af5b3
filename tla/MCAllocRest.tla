---------------------------- MODULE MCAllocRest ----------------------------
(***************************************************************************)
(* A request that no whole number of headers can hold: what is left of the *)
(* block is too short for its own header.                                  *)
(***************************************************************************)
EXTENDS Alloc
=============================================================================
