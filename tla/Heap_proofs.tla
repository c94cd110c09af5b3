----------------------------- MODULE Heap_proofs -----------------------------
(***************************************************************************)
(* The abstract heap keeps its blocks apart and loses no byte, for heaps   *)
(* and requests of every size.  HeapInv is inductive as it stands: the     *)
(* step that cuts a block needs its parts together, Tiled for the type of  *)
(* the rest, Disjoint for the new blocks' distance from all the others.    *)
(***************************************************************************)
EXTENDS Heap, TLAPS

(* What cutting or moving a block does to the set of blocks.               *)
LEMMA TakeWholeBlocks ==
    ASSUME NEW b \in free, NEW n \in 0..Size, TakeWhole(b, n)
    PROVE  Blocks' = Blocks
BY DEF TakeWhole, Blocks

LEMMA TakeFrontBlocks ==
    ASSUME NEW b \in free, NEW n \in 0..Size, TakeFront(b, n), free \cap live = {}
    PROVE  Blocks' = (Blocks \ {b}) \cup {Block(b.at, n + Header),
                        Block(b.at + n + Header, b.size - n - Header)}
BY DEF TakeFront, Blocks

LEMMA ReleaseBlocks == Release => Blocks' = Blocks
BY DEF Release, Blocks

(* The two parts of a block are blocks, and lie end to end where it lay.   *)
LEMMA Cut ==
    ASSUME HeapInv, NEW b \in Blocks, NEW n \in 0..Size, b.size >= n + 2 * Header,
           NEW front, front = Block(b.at, n + Header),
           NEW rest, rest = Block(b.at + n + Header, b.size - n - Header)
    PROVE  /\ front \in BlockType /\ rest \in BlockType
           /\ front.at = b.at /\ front.at + front.size = rest.at
           /\ rest.at + rest.size = b.at + b.size
           /\ b.at < rest.at /\ rest.at < b.at + b.size
<1>1. b \in BlockType
  BY DEF HeapInv, TypeOK, Blocks
<1>2. b.at \in Int /\ b.size \in Int /\ Base <= b.at /\ b.at + b.size <= Base + Size
  BY <1>1, HeapAssumption DEF BlockType, HeapInv, Tiled
<1>3. /\ front.at = b.at /\ front.size = n + Header
      /\ rest.at = b.at + n + Header /\ rest.size = b.size - n - Header
  BY DEF Block
<1>4. front.at \in Base .. Base + Size - 1 /\ front.size \in Header .. Size
  BY <1>2, <1>3, HeapAssumption
<1>5. rest.at \in Base .. Base + Size - 1 /\ rest.size \in Header .. Size
  BY <1>2, <1>3, HeapAssumption
<1>6. front \in BlockType /\ rest \in BlockType
  BY <1>3, <1>4, <1>5 DEF Block, BlockType
<1> QED BY <1>2, <1>3, <1>6, HeapAssumption

LEMMA InitHeapInv == Init => HeapInv
<1> SUFFICES ASSUME Init PROVE HeapInv
  OBVIOUS
<1>1. Blocks = {Block(Base, Size)}
  BY DEF Init, Blocks
<1>2. Block(Base, Size) \in BlockType
  BY HeapAssumption DEF Block, BlockType
<1>3. TypeOK
  BY <1>2 DEF Init, TypeOK
<1>4. Disjoint
  BY <1>1 DEF Init, Disjoint
<1>5. Tiled
  BY <1>1, HeapAssumption DEF Tiled, Covers, Block
<1> QED BY <1>3, <1>4, <1>5 DEF HeapInv

LEMMA TakeFrontKeepsHeapInv ==
    ASSUME HeapInv, NEW b \in free, NEW n \in 0..Size, TakeFront(b, n)
    PROVE  HeapInv'
<1> DEFINE front == Block(b.at, n + Header)
           rest == Block(b.at + n + Header, b.size - n - Header)
<1>1. b \in Blocks /\ b.size >= n + 2 * Header /\ free \cap live = {}
  BY DEF Blocks, TakeFront, HeapInv, Disjoint
<1>2. Blocks' = (Blocks \ {b}) \cup {front, rest}
  BY <1>1, TakeFrontBlocks
<1>3. free' = (free \ {b}) \cup {rest} /\ live' = live \cup {front}
  BY DEF TakeFront
<1>4. /\ front \in BlockType /\ rest \in BlockType
      /\ front.at = b.at /\ front.at + front.size = rest.at
      /\ rest.at + rest.size = b.at + b.size
      /\ b.at < rest.at /\ rest.at < b.at + b.size
  BY <1>1, Cut
<1> HIDE DEF front, rest
<1>5. \A d \in Blocks : d.at \in Int /\ d.size \in Int /\ d.size > 0
  BY HeapAssumption DEF HeapInv, TypeOK, Blocks, BlockType
<1>6. \A d \in {front, rest} : d.at \in Int /\ d.size \in Int /\ d.size > 0
  BY <1>4, HeapAssumption DEF BlockType
<1>7. \A d \in Blocks \ {b} : d.at + d.size <= b.at \/ b.at + b.size <= d.at
  BY <1>1 DEF HeapInv, Disjoint
<1>8. TypeOK'
  BY <1>3, <1>4 DEF HeapInv, TypeOK, BlockType
<1>9. Disjoint'
  <2>1. \A d \in Blocks \ {b} : d # front /\ d # rest
    BY <1>1, <1>4, <1>5, <1>6, <1>7
  <2>2. (free \cap live)' = {}
    BY <1>1, <1>3, <1>4, <1>6, <2>1 DEF Blocks
  <2>3. \A d, e \in Blocks' : d # e => d.at + d.size <= e.at \/ e.at + e.size <= d.at
    <3>1. SUFFICES ASSUME NEW d \in Blocks', NEW e \in Blocks', d # e
                   PROVE  d.at + d.size <= e.at \/ e.at + e.size <= d.at
      OBVIOUS
    <3>2. CASE d \in Blocks \ {b} /\ e \in Blocks \ {b}
      BY <3>1, <3>2 DEF HeapInv, Disjoint
    <3>3. CASE d \in Blocks \ {b} /\ e \in {front, rest}
      BY <3>3, <1>1, <1>4, <1>5, <1>6, <1>7
    <3>4. CASE d \in {front, rest} /\ e \in Blocks \ {b}
      BY <3>4, <1>1, <1>4, <1>5, <1>6, <1>7
    <3>5. CASE d \in {front, rest} /\ e \in {front, rest}
      BY <3>1, <3>5, <1>4, <1>6
    <3> QED BY <1>2, <3>2, <3>3, <3>4, <3>5
  <2> QED BY <2>2, <2>3 DEF Disjoint
<1>10. Tiled'
  <2>1. \A d \in Blocks' : d.at + d.size <= Base + Size
    BY <1>1, <1>2, <1>4, <1>5, <1>6, HeapAssumption DEF HeapInv, Tiled
  <2>2. ASSUME NEW c \in Base .. Base + Size - 1
        PROVE  \E d \in Blocks' : Covers(d, c)
    <3>1. PICK d \in Blocks : Covers(d, c)
      BY DEF HeapInv, Tiled
    <3>2. CASE d # b
      BY <3>1, <3>2, <1>2
    <3>3. CASE d = b
      <4>1. Covers(front, c) \/ Covers(rest, c)
        BY <3>1, <3>3, <1>1, <1>4, <1>5, <1>6, HeapAssumption DEF Covers
      <4> QED BY <4>1, <1>2
    <3> QED BY <3>2, <3>3
  <2> QED BY <2>1, <2>2 DEF Tiled
<1> QED BY <1>8, <1>9, <1>10 DEF HeapInv

LEMMA NextHeapInv == HeapInv /\ [Next]_vars => HeapInv'
<1> SUFFICES ASSUME HeapInv, [Next]_vars PROVE HeapInv'
  OBVIOUS
<1>1. CASE \E b \in free, n \in 0..Size : TakeWhole(b, n)
  <2>1. PICK b \in free, n \in 0..Size : TakeWhole(b, n)
    BY <1>1
  <2>2. Blocks' = Blocks
    BY <2>1, TakeWholeBlocks
  <2>3. TypeOK' /\ (free \cap live)' = {}
    BY <2>1 DEF TakeWhole, HeapInv, TypeOK, BlockType, Disjoint
  <2> QED BY <2>2, <2>3 DEF HeapInv, Disjoint, Tiled
<1>2. CASE \E b \in free, n \in 0..Size : TakeFront(b, n)
  BY <1>2, TakeFrontKeepsHeapInv
<1>3. CASE Release
  <2>1. Blocks' = Blocks
    BY <1>3, ReleaseBlocks
  <2>2. TypeOK' /\ (free \cap live)' = {}
    BY <1>3 DEF Release, HeapInv, TypeOK, BlockType, Disjoint
  <2> QED BY <2>1, <2>2 DEF HeapInv, Disjoint, Tiled
<1>4. CASE UNCHANGED vars
  BY <1>4 DEF vars, HeapInv, TypeOK, Disjoint, Tiled, Blocks
<1> QED BY <1>1, <1>2, <1>3, <1>4 DEF Next, Allocate

(* The heap's blocks stay inside it, never overlap and cover all of it,    *)
(* whatever is allocated and released: what split_block's arithmetic and   *)
(* the relinking in malloc and free must bring about.                      *)
THEOREM HeapIsTiled == Spec => []HeapInv
BY InitHeapInv, NextHeapInv, PTL DEF Spec
=============================================================================
