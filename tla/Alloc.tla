-------------------------------- MODULE Alloc --------------------------------
(***************************************************************************)
(* libtinyc/alloc.c and a client that makes legal calls: malloc, calloc,   *)
(* realloc and free of pointers it holds.  Memory is bytes, and the block  *)
(* headers lie in it, so that a header written over another block or over  *)
(* a client's data shows.  malloc's walk is one step for each block it     *)
(* looks at.  size_t is 16 bits.                                           *)
(***************************************************************************)
EXTENDS Integers, Sequences, FiniteSets

CONSTANTS
    RamStart,       \* &__RAM_START__
    HeapRun,        \* &__HEAP_RUN__
    RamSizeWord,    \* the word in memory at the address __RAM_SIZE__: the symbol is
                    \* declared as a variable, so its value is what is read there
    Slots,          \* the client's pointer variables, each with its own fill byte
    Sizes,          \* the request sizes
    Counts          \* calloc's first argument

Address == {c \in Nat : c < 65536}      \* pointers and numbers of type size_t
Octet == {c \in Nat : c < 256}

ASSUME AllocAssumption ==
    /\ RamStart \in Address /\ HeapRun \in Address \ {0} /\ RamSizeWord \in Address
    /\ Slots \subseteq Octet \ {0} /\ Sizes \subseteq Address /\ Counts \subseteq Address

VARIABLES
    mem,            \* memory: the bytes written so far, all others are 0
    freelist,       \* 0 (NULL) or the address of a header
    initialized,    \* init_heap's static flag
    call,           \* the call in progress: fn, slot, size, and whether malloc has
                    \* returned; fn = "none" between calls
    prev, walk,     \* malloc's local pointers
    held            \* what the client holds: slot -> [ptr, size, filled]

vars == <<mem, freelist, initialized, call, prev, walk, held>>

-----------------------------------------------------------------------------
SizeT(n) == n % 65536
NULL == 0
HeaderSize == 4                         \* sizeof (heapblock)
HEADER(p) == SizeT(p - HeaderSize)
BLOCK(h) == SizeT(h + HeaderSize)

HeapSize == SizeT(RamStart + RamSizeWord - HeapRun)
(* Memory outside the heap is one cell, NULL, written or not; read, it is  *)
(* 0: only a realloc that grows a block reads there, bytes nobody wrote.   *)
Place(c) == IF c \in HeapRun .. HeapRun + HeapSize - 1 THEN c ELSE NULL
Byte(m, c) == IF SizeT(c) \in DOMAIN m THEN m[SizeT(c)] ELSE 0
Word(m, c) == Byte(m, c) + 256 * Byte(m, c + 1)
PutBytes(m, c, bytes) ==                \* bytes[i] at c + i
    LET cells == {Place(SizeT(c + i)) : i \in DOMAIN bytes}
    IN  [d \in DOMAIN m \cup cells |->
            IF d = NULL THEN 0 ELSE IF d \in cells THEN bytes[SizeT(d - c)] ELSE m[d]]
(* Mutant: the low byte of a word is not cut off. *)
PutWordWide(m, c, v) == PutBytes(m, c, [i \in 0..1 |-> IF i = 0 THEN v ELSE v \div 256])
PutWord(m, c, v) == PutBytes(m, c, [i \in 0..1 |-> IF i = 0 THEN v % 256 ELSE v \div 256])

NextOf(m, h) == Word(m, h)
SizeOf(m, h) == Word(m, h + 2)
PutHeader(m, h, next, size) == PutWord(PutWord(m, h, next), h + 2, size)

Idle == [fn |-> "none", slot |-> 0, size |-> 0, got |-> FALSE]
Empty == [ptr |-> NULL, size |-> 0, filled |-> FALSE]

Init ==
    /\ mem = [c \in {} |-> 0] /\ freelist = NULL /\ initialized = FALSE
    /\ call = Idle /\ prev = NULL /\ walk = NULL
    /\ held = [p \in Slots |-> Empty]

-----------------------------------------------------------------------------
(* init_heap: the whole heap is one free block.                            *)
InitHeap ==
    IF initialized THEN UNCHANGED <<mem, freelist, initialized>>
    ELSE /\ freelist' = HeapRun
         /\ mem' = PutHeader(mem, HeapRun, NULL, HeapSize)
         /\ initialized' = TRUE

(* Every allocating function calls malloc first.                           *)
Enter(fn, p, size) ==
    /\ call = Idle
    /\ InitHeap
    /\ call' = [fn |-> fn, slot |-> p, size |-> size, got |-> FALSE]
    /\ prev' = NULL
    /\ walk' = freelist'
    /\ UNCHANGED held

Malloc(p, n) == held[p] = Empty /\ Enter("malloc", p, n)
Calloc(p, k, n) == held[p] = Empty /\ Enter("calloc", p, SizeT(k * n))
Realloc(p, n) == held[p] # Empty /\ Enter("realloc", p, n)

-----------------------------------------------------------------------------
(* malloc's loop.                                                          *)
SizePlusBlk == SizeT(call.size + HeaderSize)
Walking == call # Idle /\ ~call.got

(* Mutant: the walk looks at one block only. *)
SkipToEnd ==
    /\ Walking /\ walk # NULL
    /\ SizePlusBlk > SizeOf(mem, walk)
    /\ prev' = walk /\ walk' = NULL
    /\ UNCHANGED <<mem, freelist, initialized, call, held>>
Skip ==
    /\ Walking /\ walk # NULL
    /\ SizePlusBlk > SizeOf(mem, walk)
    /\ prev' = walk /\ walk' = NextOf(mem, walk)
    /\ UNCHANGED <<mem, freelist, initialized, call, held>>

(* Mutant: the head of the list keeps pointing to the block taken. *)
RelinkKeepsHead(m, h) ==
    IF prev # NULL THEN mem' = PutWord(m, prev, h) /\ UNCHANGED freelist
    ELSE mem' = m /\ UNCHANGED freelist
(* The free list with the block walk replaced by the one at h.             *)
Relink(m, h) ==
    IF prev # NULL THEN mem' = PutWord(m, prev, h) /\ UNCHANGED freelist
    ELSE mem' = m /\ freelist' = IF walk = freelist THEN h ELSE freelist

Got == call' = [call EXCEPT !.got = TRUE]

Split ==
    LET rem == SizeT(walk + SizePlusBlk)
        cut == PutHeader(mem, walk, rem, SizePlusBlk)
    IN  /\ Walking /\ walk # NULL
        /\ SizePlusBlk < SizeOf(mem, walk)
        /\ Relink(PutHeader(cut, rem, NextOf(mem, walk),
                            SizeT(SizeOf(mem, walk) - SizePlusBlk)), rem)
        /\ Got
        /\ UNCHANGED <<initialized, prev, walk, held>>

ExactFit ==
    /\ Walking /\ walk # NULL
    /\ SizePlusBlk = SizeOf(mem, walk)
    /\ Relink(mem, NextOf(mem, walk))
    /\ Got
    /\ UNCHANGED <<initialized, prev, walk, held>>

Exhausted ==
    /\ Walking /\ walk = NULL
    /\ Got
    /\ UNCHANGED <<mem, freelist, initialized, prev, walk, held>>

-----------------------------------------------------------------------------
(* What the callers of malloc do with its result, NULL included.           *)
Newblk == IF walk = NULL THEN NULL ELSE BLOCK(walk)
Return(value, m, size, filled) ==
    /\ call' = Idle /\ prev' = NULL /\ walk' = NULL
    /\ held' = [held EXCEPT ![call.slot] =
                   IF value = NULL THEN Empty
                   ELSE [ptr |-> value, size |-> size, filled |-> filled]]
    /\ mem' = m

ReturnMalloc ==
    /\ call.fn = "malloc" /\ call.got
    /\ Return(Newblk, mem, call.size, FALSE)
    /\ UNCHANGED <<freelist, initialized>>

ReturnCalloc ==
    /\ call.fn = "calloc" /\ call.got
    /\ Return(Newblk, PutBytes(mem, Newblk, [i \in 0..call.size - 1 |-> 0]), call.size, FALSE)
    /\ UNCHANGED <<freelist, initialized>>

(* Mutants: the rest of the list is dropped; the block is linked to itself. *)
FreedDropsList(m, p) == PutWord(m, HEADER(p), NULL)
FreedTwice(m, p) == PutWord(m, HEADER(p), HEADER(p))
(* free: the block goes to the front of the list.                          *)
Freed(m, p) == PutWord(m, HEADER(p), freelist)

(* realloc copies size bytes, whatever the size of the old block, and      *)
(* frees the old block whether or not there is a new one.  memcpy goes     *)
(* upwards byte by byte: the two blocks only overlap in what lies behind   *)
(* the old one, which the client has not written as part of it.            *)
ReturnRealloc ==
    LET old == held[call.slot].ptr
        copied == PutBytes(mem, Newblk, [i \in 0..call.size - 1 |-> Byte(mem, old + i)])
    IN  /\ call.fn = "realloc" /\ call.got
        /\ Return(Newblk, Freed(copied, old), call.size,
                  held[call.slot].filled /\ call.size <= held[call.slot].size)
        /\ freelist' = HEADER(old)
        /\ UNCHANGED initialized

Free(p) ==
    /\ call = Idle /\ held[p] # Empty
    /\ mem' = Freed(mem, held[p].ptr)
    /\ freelist' = HEADER(held[p].ptr)
    /\ held' = [held EXCEPT ![p] = Empty]
    /\ UNCHANGED <<initialized, call, prev, walk>>

(* The client writes every byte of a block it holds.                       *)
Use(p) ==
    /\ call = Idle /\ held[p] # Empty /\ ~held[p].filled
    /\ mem' = PutBytes(mem, held[p].ptr, [i \in 0..held[p].size - 1 |-> p])
    /\ held' = [held EXCEPT ![p].filled = TRUE]
    /\ UNCHANGED <<freelist, initialized, call, prev, walk>>

-----------------------------------------------------------------------------
Step == Skip \/ Split \/ ExactFit \/ Exhausted \/ ReturnMalloc \/ ReturnCalloc \/ ReturnRealloc
Next ==
    \/ Step
    \/ \E p \in Slots : Free(p) \/ Use(p)
    \/ \E p \in Slots, n \in Sizes : Malloc(p, n) \/ Realloc(p, n)
    \/ \E p \in Slots, k \in Counts, n \in Sizes : Calloc(p, k, n)

Spec == Init /\ [][Next]_vars
(* A call that has begun runs on; the client need not make any.            *)
FairSpec == Spec /\ WF_vars(Step)
-----------------------------------------------------------------------------
(* The blocks as the headers in memory describe them.                      *)
HeapBlock(h) == [at |-> h, size |-> SizeOf(mem, h)]
MaxBlocks == HeapSize \div HeaderSize
ListFrom(m, first) ==               \* the list's nodes, NULL behind its end
    LET Node[n \in 0..MaxBlocks] ==
            IF n = 0 THEN first
            ELSE LET before == Node[n - 1] IN IF before = NULL THEN NULL ELSE NextOf(m, before)
    IN  Node
Nodes(m, first) == {ListFrom(m, first)[n] : n \in 0..MaxBlocks} \ {NULL}
FreeBlocks ==
    IF initialized THEN {HeapBlock(h) : h \in Nodes(mem, freelist)}
    ELSE {[at |-> HeapRun, size |-> HeapSize]}
HasResult == call.got
LiveBlocks ==
    {HeapBlock(HEADER(held[p].ptr)) : p \in {q \in Slots : held[q] # Empty}}
      \cup (IF HasResult /\ walk # NULL THEN {HeapBlock(walk)} ELSE {})

TypeOK ==
    /\ DOMAIN mem \subseteq Address /\ \A c \in DOMAIN mem : mem[c] \in Octet
    /\ {freelist, prev, walk} \subseteq Address /\ initialized \in BOOLEAN
    /\ call.slot \in Slots \cup {0} /\ call.size \in Address
    /\ \A p \in Slots : held[p].ptr \in Address /\ held[p].size \in Address

(* The list and the headers, wherever writes to memory have left them,     *)
(* implement the abstract heap: malloc takes one fitting block or cuts it  *)
(* in two, free gives one back, and nothing else changes any block.        *)
Abstract == INSTANCE Heap WITH
    Base <- HeapRun, Size <- HeapSize, Header <- HeaderSize,
    free <- FreeBlocks, live <- LiveBlocks
ImplementsHeap == Abstract!Spec

(* What the client wrote into a block is there until it frees it, and a    *)
(* block that realloc made smaller still holds it.                         *)
ClientDataIntact ==
    \A p \in Slots : held[p].filled =>
        \A i \in 0..held[p].size - 1 : Byte(mem, held[p].ptr + i) = p

(* malloc reports failure only when no block of the free list would do,    *)
(* and memory outside the heap is written only behind such a failure, by a *)
(* calloc or realloc that fills or copies to NULL all the same.            *)
FailsOnlyWhenFull ==
    [][/\ HasResult' /\ ~HasResult /\ walk' = NULL =>
            \A b \in FreeBlocks : b.size < SizePlusBlk
       /\ (NULL \in DOMAIN mem) # (NULL \in DOMAIN mem') =>
            call.got /\ call.fn \in {"calloc", "realloc"} /\ walk = NULL]_vars

(* A block's size is its total size, including the header (the comment in  *)
(* struct heapblock), so no free block is smaller than a header.           *)
FreeBlockHoldsHeader == \A b \in FreeBlocks : b.size >= HeaderSize

(* Every call returns: the walk over the list comes to an end.             *)
CallsReturn == call # Idle ~> call = Idle
=============================================================================
