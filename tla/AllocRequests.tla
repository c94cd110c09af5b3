---------------------------- MODULE AllocRequests ----------------------------
(***************************************************************************)
(* The heaps and requests for which libtinyc's allocator does what it      *)
(* promises.  A remainder of one to three bytes cannot hold its header, so *)
(* the heap and the requests are whole headers; a size that wraps, and a   *)
(* calloc or realloc that fills or copies to NULL, must not reach the heap.*)
(***************************************************************************)
EXTENDS Alloc

Requests == Sizes \cup {SizeT(k * n) : k \in Counts, n \in Sizes}

ASSUME RequestsAssumption ==
    /\ HeapSize >= HeaderSize /\ HeapSize % HeaderSize = 0 /\ HeapRun + HeapSize <= 65535
    /\ \A r \in Requests : r % HeaderSize = 0 /\ r <= HeapRun
=============================================================================
