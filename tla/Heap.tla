-------------------------------- MODULE Heap --------------------------------
(***************************************************************************)
(* What libtinyc's allocator (alloc.c) promises, without its list: the     *)
(* heap is cut into blocks, each free or handed out, a block can be cut in *)
(* two but two blocks are never joined, and each block holds its header.   *)
(***************************************************************************)
EXTENDS Integers

CONSTANTS Base, Size,   \* the heap's first address and its length
          Header        \* sizeof (heapblock)

ASSUME HeapAssumption ==
    /\ Base \in Nat /\ Size \in Nat /\ Header \in Nat \ {0}
    /\ Size >= Header

VARIABLES free, live    \* sets of blocks [at, size], the header included
vars == <<free, live>>

Block(at, size) == [at |-> at, size |-> size]

Init == free = {Block(Base, Size)} /\ live = {}

(* A request for n bytes takes a block that fits it exactly, or the front  *)
(* of one whose rest is still a block.                                     *)
TakeWhole(b, n) ==
    /\ b.size = n + Header
    /\ free' = free \ {b}
    /\ live' = live \cup {b}
(* Mutant: the header is left out of the part taken. *)
TakeFrontOverlaps(b, n) ==
    /\ b.size >= n + 2 * Header
    /\ free' = (free \ {b}) \cup {Block(b.at + n, b.size - n)}
    /\ live' = live \cup {Block(b.at, n + Header)}
TakeFront(b, n) ==
    /\ b.size >= n + 2 * Header
    /\ free' = (free \ {b}) \cup {Block(b.at + n + Header, b.size - n - Header)}
    /\ live' = live \cup {Block(b.at, n + Header)}
Allocate == \E b \in free, n \in 0..Size : TakeWhole(b, n) \/ TakeFront(b, n)

Release == \E b \in live : live' = live \ {b} /\ free' = free \cup {b}

Next == Allocate \/ Release
Spec == Init /\ [][Next]_vars

-----------------------------------------------------------------------------
Blocks == free \cup live
BlockType == [at : Base .. Base + Size - 1, size : Header .. Size]

TypeOK == free \subseteq BlockType /\ live \subseteq BlockType

Covers(b, c) == b.at <= c /\ c < b.at + b.size

(* No byte belongs to two blocks, nor to a block both free and handed out. *)
Disjoint ==
    /\ free \cap live = {}
    /\ \A b, d \in Blocks : b # d => b.at + b.size <= d.at \/ d.at + d.size <= b.at

(* No block reaches over the end of the heap, and no byte of it is lost.   *)
Tiled ==
    /\ \A b \in Blocks : b.at + b.size <= Base + Size
    /\ \A c \in Base .. Base + Size - 1 : \E b \in Blocks : Covers(b, c)

(* The blocks partition the heap, whatever is allocated and released.      *)
HeapInv == TypeOK /\ Disjoint /\ Tiled
=============================================================================
