------------------------------- MODULE MCHeap -------------------------------
(***************************************************************************)
(* The abstract heap with room for up to five blocks of every size.        *)
(***************************************************************************)
EXTENDS Heap
=============================================================================
