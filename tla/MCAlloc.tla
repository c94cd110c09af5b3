------------------------------ MODULE MCAlloc ------------------------------
(***************************************************************************)
(* A heap of a few blocks, and requests that a whole number of headers can *)
(* hold: the sizes for which the allocator does what it promises.          *)
(***************************************************************************)
EXTENDS AllocRequests
=============================================================================
