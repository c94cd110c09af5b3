----------------------------- MODULE Alloc_proofs -----------------------------
(***************************************************************************)
(* That malloc, calloc, realloc and free keep the heap, for heaps of any   *)
(* size and any number of clients' pointers: the headers in memory, found  *)
(* by following the links from freelist, are an abstract heap (Heap), and  *)
(* no write of the allocator's reaches a client's data.  The proof goes    *)
(* from bytes to words, headers, blocks and lists; then the invariant of   *)
(* the allocator and its client, and one lemma for each action.            *)
(***************************************************************************)
EXTENDS AllocRequests, Induction

(* The heap's addresses, and the ranges of the constants.                  *)
Top == HeapRun + HeapSize
Cells == HeapRun .. Top - 1

LEMMA AddressRange == \A v : v \in Address <=> v \in Int /\ 0 <= v /\ v <= 65535
BY DEF Address

LEMMA OctetRange == \A v : v \in Octet <=> v \in Int /\ 0 <= v /\ v <= 255
BY DEF Octet

(* Where the heap lies, and what can be asked of it.                       *)
LEMMA Layout ==
  /\ HeapRun \in Nat /\ HeapRun > 0 /\ HeapSize \in Nat /\ HeapSize >= 4 /\ HeapSize % 4 = 0
  /\ Top \in Nat /\ Top = HeapRun + HeapSize /\ Top <= 65535
  /\ MaxBlocks \in Nat /\ 4 * MaxBlocks = HeapSize
  /\ Requests \subseteq Nat /\ \A r \in Requests : r % 4 = 0 /\ r <= HeapRun /\ r <= 65531
  /\ HeaderSize = 4 /\ NULL = 0
<1>1. HeapSize \in Nat /\ HeapRun \in Nat /\ HeapRun > 0
  BY AllocAssumption, AddressRange DEF HeapSize, SizeT
<1>2. ASSUME NEW r \in Requests PROVE r \in Nat
  <2>1. CASE r \in Sizes BY <2>1, AllocAssumption, AddressRange
  <2>2. CASE r \in {SizeT(k * n) : k \in Counts, n \in Sizes}
    <3>1. PICK k \in Counts, n \in Sizes : r = SizeT(k * n) BY <2>2
    <3>2. k \in Int /\ n \in Int BY AllocAssumption, AddressRange
    <3>3. k * n \in Int BY <3>2
    <3> QED BY <3>1, <3>3 DEF SizeT
  <2> QED BY <2>1, <2>2 DEF Requests
<1>3. HeapSize >= 4 /\ HeapSize % 4 = 0 /\ HeapRun + HeapSize <= 65535
  BY RequestsAssumption DEF HeaderSize
<1>4. \A r \in Requests : r % 4 = 0 /\ r <= HeapRun
  BY RequestsAssumption DEF HeaderSize
<1>5. MaxBlocks \in Nat /\ 4 * MaxBlocks = HeapSize
  BY <1>1, <1>3 DEF MaxBlocks, HeaderSize
<1> QED BY <1>1, <1>2, <1>3, <1>4, <1>5 DEF Top, HeaderSize, NULL

LEMMA SmallSizeT == ASSUME NEW c \in Address PROVE SizeT(c) = c
BY AddressRange, OctetRange DEF SizeT

-----------------------------------------------------------------------------
(* Memory.                                                                 *)
MemType(m) == DOMAIN m \subseteq Address /\ \A c \in DOMAIN m : m[c] \in Octet

(* What is read is a byte, or a word of two.                               *)
LEMMA ByteType ==
  ASSUME NEW m, MemType(m), NEW c \in Int
  PROVE  Byte(m, c) \in Octet
BY OctetRange DEF MemType, Byte

LEMMA WordType ==
  ASSUME NEW m, MemType(m), NEW c \in Int
  PROVE  Word(m, c) \in Address
<1>1. Byte(m, c) \in Octet /\ Byte(m, c + 1) \in Octet BY ByteType
<1> QED BY <1>1, AddressRange, OctetRange DEF Word

(* Memories that differ at most from one address to another.               *)
SameBut(m, m1, from, to) == \A d \in Cells : d < from \/ d >= to => Byte(m1, d) = Byte(m, d)

(* n bytes written to places of the heap are there, and nowhere else: what *)
(* is asked of a write, and what it does.                                  *)
Writes(m, c, n, bytes, m1) ==
    /\ MemType(m) /\ c \in Nat /\ n \in Nat /\ HeapRun <= c /\ c + n <= Top
    /\ bytes \in [0 .. n - 1 -> Octet] /\ m1 = PutBytes(m, c, bytes)
Wrote(m, c, n, bytes, m1) ==
    /\ MemType(m1)
    /\ \A i \in 0 .. n - 1 : Byte(m1, c + i) = bytes[i]
    /\ SameBut(m, m1, c, c + n)
    /\ (NULL \in DOMAIN m1 <=> NULL \in DOMAIN m)
LEMMA PutInHeap ==
  ASSUME NEW m, NEW c, NEW n, NEW bytes, NEW m1, Writes(m, c, n, bytes, m1)
  PROVE  Wrote(m, c, n, bytes, m1)
<1> SUFFICES ASSUME MemType(m), c \in Nat, n \in Nat, HeapRun <= c, c + n <= Top,
                    bytes \in [0 .. n - 1 -> Octet], m1 = PutBytes(m, c, bytes)
             PROVE  Wrote(m, c, n, bytes, m1)
  BY DEF Writes
<1> DEFINE cells == {Place(SizeT(c + i)) : i \in DOMAIN bytes}
<1>1. DOMAIN bytes = 0 .. n - 1 OBVIOUS
<1>2. \A i \in 0 .. n - 1 : c + i \in Address /\ SizeT(c + i) = c + i /\ Place(c + i) = c + i
  <2> TAKE i \in 0 .. n - 1
  <2>1. c + i \in Int /\ HeapRun <= c + i /\ c + i < Top /\ 0 <= c + i /\ c + i <= 65535
    BY Layout
  <2>2. c + i \in Address /\ SizeT(c + i) = c + i
    BY <2>1, AddressRange, SmallSizeT
  <2> QED BY <2>1, <2>2, Layout DEF Place
<1>3. cells = {c + i : i \in 0 .. n - 1}
  BY <1>1, <1>2
<1>4. \A d \in Int : d \in cells <=> c <= d /\ d < c + n
  <2> SUFFICES ASSUME NEW d \in Int PROVE d \in cells <=> c <= d /\ d < c + n OBVIOUS
  <2>1. c <= d /\ d < c + n => d - c \in 0 .. n - 1 /\ d = c + (d - c) OBVIOUS
  <2>2. c <= d /\ d < c + n => d \in cells BY <1>3, <2>1
  <2>3. ASSUME d \in cells PROVE c <= d /\ d < c + n
    <3>1. PICK i \in 0 .. n - 1 : d = c + i BY <1>3, <2>3
    <3> QED BY <3>1
  <2> QED BY <2>2, <2>3
<1>5. m1 = [d \in DOMAIN m \cup cells |->
              IF d = NULL THEN 0 ELSE IF d \in cells THEN bytes[SizeT(d - c)] ELSE m[d]]
  BY DEF PutBytes
<1> HIDE DEF cells
<1>6. DOMAIN m1 = DOMAIN m \cup cells BY <1>5
<1>7. ASSUME NEW d \in cells
      PROVE  d \in Address /\ d # NULL /\ d - c \in 0 .. n - 1 /\ m1[d] = bytes[d - c] /\ Byte(m1, d) = bytes[d - c]
  <2>0. d \in Int /\ c <= d /\ d < c + n BY <1>3, <1>4
  <2>1. d \in Address /\ d # NULL /\ d - c \in 0 .. n - 1
    BY <2>0, Layout, AddressRange
  <2>2. SizeT(d - c) = d - c /\ SizeT(d) = d
    BY <2>1, SmallSizeT, Layout, AddressRange, OctetRange
  <2> QED BY <1>5, <1>6, <2>1, <2>2 DEF Byte
<1>8. ASSUME NEW d \in DOMAIN m, d \notin cells PROVE m1[d] \in Octet /\ (d # NULL => m1[d] = m[d])
  <2>1. m1[d] = IF d = NULL THEN 0 ELSE m[d] BY <1>5, <1>8
  <2> QED BY <2>1, OctetRange DEF MemType
<1>9. MemType(m1)
  BY <1>6, <1>7, <1>8 DEF MemType
<1>10. ASSUME NEW d \in Cells, d < c \/ d >= c + n PROVE Byte(m1, d) = Byte(m, d)
  <2>1. d \notin cells /\ d # NULL /\ d \in Address /\ SizeT(d) = d
    BY <1>4, <1>10, SmallSizeT, Layout, AddressRange, OctetRange DEF Cells
  <2> QED BY <2>1, <1>6, <1>8 DEF Byte
<1>11. ASSUME NEW i \in 0 .. n - 1 PROVE Byte(m1, c + i) = bytes[i]
  <2>1. c + i \in cells /\ (c + i) - c = i BY <1>3
  <2> QED BY <2>1, <1>7
<1>12. NULL \notin cells BY <1>7
<1> QED BY <1>6, <1>9, <1>10, <1>11, <1>12 DEF SameBut, Wrote

(* What a failed calloc or realloc writes misses the heap. *)
LEMMA PutAtNull ==
  ASSUME NEW m, MemType(m), NEW n \in Nat, n <= HeapRun,
         NEW bytes \in [0 .. n - 1 -> Octet], NEW m1, m1 = PutBytes(m, NULL, bytes)
  PROVE  MemType(m1) /\ \A d \in Cells : Byte(m1, d) = Byte(m, d)
<1> DEFINE cells == {Place(SizeT(NULL + i)) : i \in DOMAIN bytes}
<1>1. \A i \in 0 .. n - 1 : NULL + i = i /\ SizeT(i) = i /\ Place(i) = NULL
  BY SmallSizeT, Layout, AddressRange, OctetRange DEF Place
<1>2. cells \subseteq {NULL}
  BY <1>1
<1>3. m1 = [d \in DOMAIN m \cup cells |->
              IF d = NULL THEN 0 ELSE IF d \in cells THEN bytes[SizeT(d - NULL)] ELSE m[d]]
  BY DEF PutBytes
<1> HIDE DEF cells
<1>4. DOMAIN m1 = DOMAIN m \cup cells BY <1>3
<1>5. \A d \in DOMAIN m1 : m1[d] = IF d = NULL THEN 0 ELSE m[d]
  BY <1>2, <1>3, <1>4
<1>6. MemType(m1)
  <2>1. ASSUME NEW d \in DOMAIN m1 PROVE d \in Address
    <3>1. d \in DOMAIN m \/ d \in cells BY <1>4, <2>1
    <3>2. NULL \in Address BY AddressRange, Layout
    <3> QED BY <1>2, <3>1, <3>2 DEF MemType
  <2>2. ASSUME NEW d \in DOMAIN m1 PROVE m1[d] \in Octet
    BY <1>2, <1>4, <1>5, <2>2, OctetRange DEF MemType
  <2> QED BY <2>1, <2>2 DEF MemType
<1>7. ASSUME NEW d \in Cells PROVE Byte(m1, d) = Byte(m, d)
  <2>1. d # NULL /\ d \notin cells /\ SizeT(d) = d
    BY <1>2, SmallSizeT, Layout, AddressRange, OctetRange DEF Cells
  <2> QED BY <2>1, <1>4, <1>5 DEF Byte
<1> QED BY <1>6, <1>7

(* A word written to the heap is read back.                                *)
LEMMA PutWordIs ==
  ASSUME NEW m, MemType(m), NEW c \in Nat, HeapRun <= c, c + 2 <= Top, NEW v \in Address,
         NEW m1, m1 = PutWord(m, c, v)
  PROVE  /\ MemType(m1) /\ Word(m1, c) = v
         /\ SameBut(m, m1, c, c + 2)
         /\ (NULL \in DOMAIN m1 <=> NULL \in DOMAIN m)
<1> DEFINE n == 2
           bytes == [i \in 0 .. n - 1 |-> IF i = 0 THEN v % 256 ELSE v \div 256]
<1>1. v % 256 \in Octet /\ v \div 256 \in Octet /\ v = (v % 256) + 256 * (v \div 256)
  BY AddressRange, OctetRange
<1>2. n \in Nat /\ c + n <= Top /\ bytes \in [0 .. n - 1 -> Octet] BY <1>1
<1>3. bytes[0] = v % 256 /\ bytes[1] = v \div 256 OBVIOUS
<1>4. m1 = PutBytes(m, c, bytes) BY DEF PutWord
<1>5. 0 \in 0 .. n - 1 /\ 1 \in 0 .. n - 1 /\ n = 2 OBVIOUS
<1> HIDE DEF bytes, n
<1>6. /\ MemType(m1) /\ \A i \in 0 .. n - 1 : Byte(m1, c + i) = bytes[i]
      /\ SameBut(m, m1, c, c + n)
      /\ (NULL \in DOMAIN m1 <=> NULL \in DOMAIN m)
  <2>1. Writes(m, c, n, bytes, m1) BY <1>2, <1>4 DEF Writes
  <2>2. Wrote(m, c, n, bytes, m1) BY ONLY <2>1, PutInHeap
  <2> QED BY <2>2 DEF Wrote
<1>7. Byte(m1, c) = bytes[0] /\ Byte(m1, c + 1) = bytes[1]
  <2>1. c + 0 = c OBVIOUS
  <2> QED BY <1>5, <1>6, <2>1
<1>8. Word(m1, c) = v BY <1>1, <1>3, <1>7 DEF Word
<1> QED BY <1>5, <1>6, <1>8

(* A header is two words: the link and the size.                           *)
LEMMA PutHeaderIs ==
  ASSUME NEW m, MemType(m), NEW h \in Nat, HeapRun <= h, h + 4 <= Top,
         NEW next \in Address, NEW size \in Address, NEW m1, m1 = PutHeader(m, h, next, size)
  PROVE  /\ MemType(m1) /\ NextOf(m1, h) = next /\ SizeOf(m1, h) = size
         /\ SameBut(m, m1, h, h + 4)
         /\ (NULL \in DOMAIN m1 <=> NULL \in DOMAIN m)
<1> DEFINE m0 == PutWord(m, h, next)
           h2 == h + 2
<1>0. m1 = PutWord(m0, h2, size) /\ h2 = h + 2 /\ h2 \in Nat /\ h2 + 2 = h + 4 /\ HeapRun <= h2
  BY Layout DEF PutHeader
<1>1. /\ MemType(m0) /\ Word(m0, h) = next /\ SameBut(m, m0, h, h + 2)
      /\ (NULL \in DOMAIN m0 <=> NULL \in DOMAIN m)
  BY PutWordIs, Layout
<1> HIDE DEF m0, h2
<1>2. /\ MemType(m1) /\ Word(m1, h2) = size /\ SameBut(m0, m1, h2, h2 + 2)
      /\ (NULL \in DOMAIN m1 <=> NULL \in DOMAIN m0)
  BY <1>0, <1>1, PutWordIs, Layout
<1>3. h \in Cells /\ h + 1 \in Cells BY Layout DEF Cells
<1>4. Word(m1, h) = next
  <2>1. Byte(m1, h) = Byte(m0, h) /\ Byte(m1, h + 1) = Byte(m0, h + 1)
    BY <1>0, <1>2, <1>3 DEF SameBut
  <2> QED BY <1>1, <2>1 DEF Word
<1>5. ASSUME NEW d \in Cells, d < h \/ d >= h + 4 PROVE Byte(m1, d) = Byte(m, d)
  BY <1>0, <1>1, <1>2, <1>5 DEF Cells, SameBut
<1> QED BY <1>0, <1>1, <1>2, <1>4, <1>5 DEF NextOf, SizeOf, SameBut

-----------------------------------------------------------------------------
(* The list.  L[0] .. L[n] are its nodes, and NULL behind them.            *)
Chain(m, first, n, L) ==
    /\ L \in [0 .. n -> Address] /\ L[0] = first /\ L[n] = NULL
    /\ \A k \in 0 .. n - 1 : L[k] # NULL /\ L[k + 1] = NextOf(m, L[k])
NodesOf(n, L) == {L[k] : k \in 0 .. n - 1}

StepOf(m) == [k \in Nat \ {0} |-> [v \in Address |-> IF v = NULL THEN NULL ELSE NextOf(m, v)]]

LEMMA StepType ==
  ASSUME NEW m, MemType(m)
  PROVE  StepOf(m) \in [Nat \ {0} -> [Address -> Address]]
<1>1. \A v \in Address : NextOf(m, v) \in Address
  BY WordType, AddressRange DEF NextOf
<1>2. NULL \in Address BY AddressRange, Layout
<1> QED BY <1>1, <1>2 DEF StepOf

(* ListFrom is the sequence of nodes that the links lead to: its equation  *)
(* has a solution, and this is it.                                         *)
LEMMA ListFromFollows ==
  ASSUME NEW m, MemType(m), NEW first \in Address
  PROVE  Follows(ListFrom(m, first), MaxBlocks, first, StepOf(m))
<1> DEFINE Node[n \in 0 .. MaxBlocks] ==
               IF n = 0 THEN first
               ELSE LET before == Node[n - 1] IN IF before = NULL THEN NULL ELSE NextOf(m, before)
           Solves(g) == g = [n \in 0 .. MaxBlocks |->
               IF n = 0 THEN first
               ELSE IF g[n - 1] = NULL THEN NULL ELSE NextOf(m, g[n - 1])]
<1>1. ListFrom(m, first) = Node BY DEF ListFrom
<1>2. Node = CHOOSE g : Solves(g) OBVIOUS
<1>3. PICK g \in [0 .. MaxBlocks -> Address] : Follows(g, MaxBlocks, first, StepOf(m))
  BY StepType, StepwiseExists, Layout
<1>4. Solves(g)
  <2>1. ASSUME NEW n \in 0 .. MaxBlocks, n # 0
        PROVE  g[n] = IF g[n - 1] = NULL THEN NULL ELSE NextOf(m, g[n - 1])
    <3>1. n \in 1 .. MaxBlocks /\ n \in Nat \ {0} /\ g[n - 1] \in Address BY <2>1, Layout
    <3>2. g[n] = StepOf(m)[n][g[n - 1]] BY <1>3, <3>1 DEF Follows
    <3> QED BY <3>1, <3>2 DEF StepOf
  <2>2. g[0] = first BY <1>3 DEF Follows
  <2> QED BY <2>1, <2>2
<1>5. Solves(Node)
  <2> HIDE DEF Solves, Node
  <2> QED BY <1>2, <1>4
<1>6. \A n \in 0 .. MaxBlocks : Node[n] = IF n = 0 THEN first ELSE
          IF Node[n - 1] = NULL THEN NULL ELSE NextOf(m, Node[n - 1])
  <2> HIDE DEF Node
  <2> QED BY <1>5
<1> HIDE DEF Node, Solves
<1> DEFINE S == {n \in Nat : n <= MaxBlocks => Node[n] \in Address}
<1>7. Nat \subseteq S
  <2>1. 0 \in S BY <1>6, Layout
  <2>2. ASSUME NEW n \in Nat, n \in S PROVE n + 1 \in S
    <3> SUFFICES ASSUME n + 1 <= MaxBlocks PROVE Node[n + 1] \in Address OBVIOUS
    <3>1. n + 1 \in 0 .. MaxBlocks /\ n + 1 # 0 /\ (n + 1) - 1 = n /\ Node[n] \in Address BY <2>2, Layout
    <3>2. Node[n + 1] = IF Node[n] = NULL THEN NULL ELSE NextOf(m, Node[n]) BY <1>6, <3>1
    <3>3. NextOf(m, Node[n]) \in Address BY <3>1, WordType, AddressRange DEF NextOf
    <3> QED BY <3>2, <3>3, Layout, AddressRange
  <2> HIDE DEF S
  <2> QED BY <2>1, <2>2, InductionOverNat
<1>8. ASSUME NEW n \in 1 .. MaxBlocks PROVE Node[n] = StepOf(m)[n][Node[n - 1]]
  <2>1. n \in 0 .. MaxBlocks /\ n # 0 /\ n - 1 \in Nat /\ n - 1 <= MaxBlocks BY Layout
  <2>2. Node[n - 1] \in Address BY <1>7, <2>1
  <2>3. n \in Nat \ {0} BY <2>1
  <2> QED BY <1>6, <2>1, <2>2, <2>3 DEF StepOf
<1>9. Node[0] = first BY <1>6, Layout
<1> QED BY <1>1, <1>8, <1>9 DEF Follows

(* What ListFrom walks over is any chain there is from its first node. *)
LEMMA NodesAre ==
  ASSUME NEW m, MemType(m), NEW first \in Address, NEW n \in Nat, n <= MaxBlocks,
         NEW L, Chain(m, first, n, L)
  PROVE  Nodes(m, first) = NodesOf(n, L)
<1> DEFINE N == ListFrom(m, first)
           M == [k \in 0 .. MaxBlocks |-> IF k <= n THEN L[k] ELSE NULL]
<1>1. Follows(N, MaxBlocks, first, StepOf(m)) BY ListFromFollows
<1>2. Follows(M, MaxBlocks, first, StepOf(m))
  <2>1. M[0] = first BY Layout DEF Chain
  <2>2. ASSUME NEW k \in 1 .. MaxBlocks PROVE M[k] = StepOf(m)[k][M[k - 1]]
    <3>1. k \in Nat \ {0} /\ k - 1 \in 0 .. MaxBlocks BY Layout
    <3>2. M[k - 1] \in Address BY <3>1, Layout, AddressRange DEF Chain
    <3>3. StepOf(m)[k][M[k - 1]] = IF M[k - 1] = NULL THEN NULL ELSE NextOf(m, M[k - 1])
      BY <3>1, <3>2 DEF StepOf
    <3>4. CASE k <= n
      <4>1. k - 1 \in 0 .. n - 1 /\ (k - 1) + 1 = k BY <3>4
      <4>2. M[k - 1] = L[k - 1] /\ M[k] = L[k] BY <4>1, <3>1, <3>4
      <4>3. L[k - 1] # NULL /\ L[k] = NextOf(m, L[k - 1]) BY <4>1 DEF Chain
      <4> QED BY <3>3, <4>2, <4>3
    <3>5. CASE k > n
      <4>1. M[k - 1] = NULL BY <3>1, <3>5, Layout DEF Chain
      <4>2. M[k] = NULL BY <3>5
      <4> QED BY <3>3, <4>1, <4>2
    <3> QED BY <3>4, <3>5
  <2> HIDE DEF M
  <2> QED BY <2>1, <2>2 DEF Follows
<1>3. \A k \in 0 .. MaxBlocks : N[k] = M[k]
  <2> HIDE DEF N, M
  <2> QED BY <1>1, <1>2, StepwiseUnique, Layout
<1>4. Nodes(m, first) = {M[k] : k \in 0 .. MaxBlocks} \ {NULL}
  <2> HIDE DEF M
  <2> QED BY <1>3 DEF Nodes
<1>5. ASSUME NEW h \in {M[k] : k \in 0 .. MaxBlocks} \ {NULL} PROVE h \in NodesOf(n, L)
  <2>1. PICK k \in 0 .. MaxBlocks : h = M[k] BY <1>5
  <2>2. k \in 0 .. n - 1 /\ h = L[k] BY <1>5, <2>1 DEF Chain
  <2> QED BY <2>2 DEF NodesOf
<1>6. ASSUME NEW h \in NodesOf(n, L) PROVE h \in {M[k] : k \in 0 .. MaxBlocks} \ {NULL}
  <2>1. PICK k \in 0 .. n - 1 : h = L[k] BY <1>6 DEF NodesOf
  <2>2. k \in 0 .. MaxBlocks /\ M[k] = L[k] /\ L[k] # NULL BY <2>1, Layout DEF Chain
  <2> QED BY <2>1, <2>2
<1> HIDE DEF M
<1> QED BY <1>4, <1>5, <1>6

-----------------------------------------------------------------------------
(* Blocks.                                                                 *)
Good(m, h) ==
    /\ h \in Nat /\ HeapRun <= h /\ h + SizeOf(m, h) <= Top
    /\ SizeOf(m, h) >= 4 /\ SizeOf(m, h) % 4 = 0
Apart(m, h, g) == h + SizeOf(m, h) <= g \/ g + SizeOf(m, g) <= h
Geometry(m, B) == /\ \A h \in B : Good(m, h)
                  /\ \A h, g \in B : h # g => Apart(m, h, g)

(* A good block lies in the heap, and its numbers are numbers.             *)
LEMMA GoodBlock ==
  ASSUME NEW m, MemType(m), NEW h, Good(m, h)
  PROVE  /\ h \in Nat /\ h \in Cells /\ h + 3 \in Cells /\ h \in Address /\ h # NULL
         /\ SizeOf(m, h) \in Nat /\ SizeOf(m, h) \in Address /\ HeapRun <= h /\ SizeOf(m, h) >= 4
         /\ SizeOf(m, h) % 4 = 0 /\ h + SizeOf(m, h) <= Top /\ NextOf(m, h) \in Address
<1>1. h \in Nat /\ HeapRun <= h /\ SizeOf(m, h) >= 4 /\ h + SizeOf(m, h) <= Top /\ SizeOf(m, h) % 4 = 0
  BY DEF Good
<1>2. SizeOf(m, h) \in Address /\ NextOf(m, h) \in Address
  BY <1>1, WordType DEF SizeOf, NextOf
<1>3. SizeOf(m, h) \in Nat BY <1>2, AddressRange
<1> QED BY <1>1, <1>2, <1>3, Layout, AddressRange DEF Cells

(* What a write leaves of a block: its size and its data. *)
Keeps(m, m1, h) ==
    /\ SizeOf(m1, h) = SizeOf(m, h)
    /\ \A d \in h + 4 .. h + SizeOf(m, h) - 1 : Byte(m1, d) = Byte(m, d)

(* Four equal bytes are equal headers.                                     *)
LEMMA SameHeader ==
  ASSUME NEW m, NEW m1, NEW h \in Nat, \A d \in h .. h + 3 : Byte(m1, d) = Byte(m, d)
  PROVE  NextOf(m1, h) = NextOf(m, h) /\ SizeOf(m1, h) = SizeOf(m, h)
<1>1. /\ Byte(m1, h) = Byte(m, h) /\ Byte(m1, h + 1) = Byte(m, h + 1)
      /\ Byte(m1, h + 2) = Byte(m, h + 2) /\ Byte(m1, h + 3) = Byte(m, h + 3)
  OBVIOUS
<1>2. (h + 2) + 1 = h + 3 OBVIOUS
<1> QED BY <1>1, <1>2 DEF NextOf, SizeOf, Word

(* A write between two addresses keeps every block that lies outside them. *)
LEMMA KeptOutside ==
  ASSUME NEW m, MemType(m), NEW m1, NEW from \in Int, NEW to \in Int,
         SameBut(m, m1, from, to),
         NEW h, Good(m, h), h + SizeOf(m, h) <= from \/ to <= h
  PROVE  Keeps(m, m1, h) /\ NextOf(m1, h) = NextOf(m, h)
<1>1. h \in Nat /\ SizeOf(m, h) \in Nat /\ SizeOf(m, h) >= 4 /\ HeapRun <= h /\ h + SizeOf(m, h) <= Top
  BY GoodBlock
<1>2. ASSUME NEW d \in h .. h + SizeOf(m, h) - 1 PROVE Byte(m1, d) = Byte(m, d)
  <2>1. d \in Cells /\ (d < from \/ d >= to) BY <1>1, Layout DEF Cells
  <2> QED BY <2>1 DEF SameBut
<1>3. NextOf(m1, h) = NextOf(m, h) /\ SizeOf(m1, h) = SizeOf(m, h)
  <2>1. \A d \in h .. h + 3 : Byte(m1, d) = Byte(m, d) BY <1>1, <1>2
  <2> QED BY <1>1, <2>1, SameHeader
<1>4. ASSUME NEW d \in h + 4 .. h + SizeOf(m, h) - 1 PROVE Byte(m1, d) = Byte(m, d)
  <2>1. d \in h .. h + SizeOf(m, h) - 1 BY <1>1
  <2> QED BY <1>2, <2>1
<1> QED BY <1>3, <1>4 DEF Keeps

LEMMA GeometryKept ==
  ASSUME NEW m, NEW m1, NEW B, Geometry(m, B), \A h \in B : Keeps(m, m1, h)
  PROVE  Geometry(m1, B)
BY DEF Geometry, Good, Apart, Keeps

(* A write to the link of a block keeps all blocks and the other links.    *)
LEMMA LinkWrite ==
  ASSUME NEW m, MemType(m), NEW B, Geometry(m, B), NEW g \in B, NEW v \in Address,
         NEW m1, m1 = PutWord(m, g, v)
  PROVE  /\ MemType(m1) /\ NextOf(m1, g) = v
         /\ \A h \in B : Keeps(m, m1, h) /\ (h # g => NextOf(m1, h) = NextOf(m, h))
         /\ Geometry(m1, B) /\ (NULL \in DOMAIN m1 <=> NULL \in DOMAIN m)
<1>1. g \in Nat /\ HeapRun <= g /\ SizeOf(m, g) \in Nat /\ SizeOf(m, g) >= 4 /\ g + SizeOf(m, g) <= Top
  BY GoodBlock DEF Geometry
<1>2. /\ MemType(m1) /\ Word(m1, g) = v
      /\ SameBut(m, m1, g, g + 2)
      /\ (NULL \in DOMAIN m1 <=> NULL \in DOMAIN m)
  BY <1>1, Layout, PutWordIs
<1>3. ASSUME NEW h \in B, h # g PROVE Keeps(m, m1, h) /\ NextOf(m1, h) = NextOf(m, h)
  <2>1. Good(m, h) /\ h \in Nat /\ SizeOf(m, h) \in Nat BY GoodBlock DEF Geometry
  <2>2. h + SizeOf(m, h) <= g \/ g + 2 <= h BY <1>1, <1>3, <2>1 DEF Geometry, Apart
  <2> DEFINE to == g + 2
  <2>3. to \in Int /\ g \in Int BY <1>1
  <2>4. /\ SameBut(m, m1, g, to)
        /\ h + SizeOf(m, h) <= g \/ to <= h
    BY <1>2, <2>2
  <2> HIDE DEF to
  <2> QED BY <2>1, <2>3, <2>4, KeptOutside
<1>4. Keeps(m, m1, g)
  <2>1. ASSUME NEW d \in g + 2 .. g + SizeOf(m, g) - 1 PROVE Byte(m1, d) = Byte(m, d)
    <3>1. d \in Cells /\ d >= g + 2 BY <1>1, Layout DEF Cells
    <3> QED BY <1>2, <3>1 DEF SameBut
  <2>2. Byte(m1, g + 2) = Byte(m, g + 2) /\ Byte(m1, (g + 2) + 1) = Byte(m, (g + 2) + 1)
    BY <1>1, <2>1
  <2>3. SizeOf(m1, g) = SizeOf(m, g) BY <2>2 DEF SizeOf, Word
  <2>4. \A d \in g + 4 .. g + SizeOf(m, g) - 1 : d \in g + 2 .. g + SizeOf(m, g) - 1 BY <1>1
  <2> QED BY <2>1, <2>3, <2>4 DEF Keeps
<1>5. Geometry(m1, B) BY <1>3, <1>4, GeometryKept
<1> QED BY <1>2, <1>3, <1>4, <1>5 DEF NextOf

(* A block is cut in two by the headers of its parts.                      *)
Cut(m, B, w, s, rem, next, rest, m1) ==
    /\ MemType(m) /\ Geometry(m, B) /\ w \in B
    /\ s \in Nat /\ s >= 4 /\ s % 4 = 0 /\ s < SizeOf(m, w)
    /\ rem = w + s /\ rest = SizeOf(m, w) - s /\ next \in Address
    /\ m1 = PutHeader(PutHeader(m, w, rem, s), rem, next, rest)

LEMMA CutBlock ==
  ASSUME NEW m, NEW B, NEW w, NEW s, NEW rem, NEW next, NEW rest, NEW m1,
         Cut(m, B, w, s, rem, next, rest, m1)
  PROVE  /\ MemType(m1) /\ Geometry(m1, B \cup {rem}) /\ rem \notin B /\ rem \in Address
         /\ SizeOf(m1, w) = s /\ SizeOf(m1, rem) = rest /\ NextOf(m1, rem) = next
         /\ \A h \in B : h # w => Keeps(m, m1, h) /\ NextOf(m1, h) = NextOf(m, h)
         /\ (NULL \in DOMAIN m1 <=> NULL \in DOMAIN m)
<1> DEFINE old == SizeOf(m, w)
           m0 == PutHeader(m, w, rem, s)
<1>0. /\ MemType(m) /\ Geometry(m, B) /\ w \in B
      /\ s \in Nat /\ s >= 4 /\ s % 4 = 0 /\ s < old
      /\ rem = w + s /\ rest = old - s /\ next \in Address
      /\ m0 = PutHeader(m, w, rem, s) /\ m1 = PutHeader(m0, rem, next, rest)
  BY DEF Cut
<1>1. /\ w \in Nat /\ HeapRun <= w /\ old \in Nat /\ old % 4 = 0 /\ w + old <= Top /\ old \in Address /\ s < old
      /\ rest = old - s
  BY <1>0, GoodBlock DEF Geometry
<1>2. /\ rem \in Nat /\ rem \in Address /\ s \in Address
      /\ rest >= 4 /\ rest % 4 = 0 /\ rest \in Nat /\ rest \in Address /\ rem + 4 <= Top /\ w + 4 <= rem
      /\ rem + rest = w + old /\ HeapRun <= rem /\ w + 4 <= Top
  BY <1>0, <1>1, Layout, AddressRange
<1> HIDE DEF old, m0
<1>3. /\ MemType(m0) /\ NextOf(m0, w) = rem /\ SizeOf(m0, w) = s
      /\ SameBut(m, m0, w, w + 4)
      /\ (NULL \in DOMAIN m0 <=> NULL \in DOMAIN m)
  <2>1. w \in Nat /\ HeapRun <= w /\ w + 4 <= Top /\ rem \in Address /\ s \in Address
    BY <1>1, <1>2
  <2> QED BY ONLY <2>1, PutHeaderIs, <1>0
<1>4. /\ MemType(m1) /\ NextOf(m1, rem) = next /\ SizeOf(m1, rem) = rest
      /\ SameBut(m0, m1, rem, rem + 4)
      /\ (NULL \in DOMAIN m1 <=> NULL \in DOMAIN m0)
  <2>1. rem \in Nat /\ HeapRun <= rem /\ rem + 4 <= Top /\ MemType(m0) /\ rest \in Address BY <1>2, <1>3
  <2> QED BY ONLY <2>1, PutHeaderIs, <1>0
<1>5. SameBut(m, m1, w, w + old)
  <2> SUFFICES ASSUME NEW d \in Cells, d < w \/ d >= w + old PROVE Byte(m1, d) = Byte(m, d)
    BY DEF SameBut
  <2>1. d \in Int /\ (d < rem \/ d >= rem + 4) /\ (d < w \/ d >= w + 4) BY <1>1, <1>2, Layout DEF Cells
  <2> QED BY <1>3, <1>4, <2>1 DEF SameBut
<1>6. ASSUME NEW h \in B, h # w PROVE Keeps(m, m1, h) /\ NextOf(m1, h) = NextOf(m, h)
  <2>1. Good(m, h) /\ h \in Nat /\ SizeOf(m, h) \in Nat BY <1>0, GoodBlock DEF Geometry
  <2>2. h + SizeOf(m, h) <= w \/ w + old <= h BY <1>0, <1>1, <1>6, <2>1 DEF Geometry, Apart, old
  <2> DEFINE to == w + old
  <2>3. w \in Int /\ to \in Int BY <1>1
  <2>4. /\ SameBut(m, m1, w, to)
        /\ h + SizeOf(m, h) <= w \/ to <= h
    BY <1>5, <2>2
  <2> HIDE DEF to
  <2> QED BY <1>0, <2>1, <2>3, <2>4, KeptOutside
<1>7. SizeOf(m1, w) = s
  <2>1. \A d \in w .. w + 3 : d \in Cells /\ d < rem BY <1>1, <1>2, Layout DEF Cells
  <2>2. \A d \in w .. w + 3 : Byte(m1, d) = Byte(m0, d) BY <1>4, <2>1 DEF SameBut
  <2> QED BY <1>1, <1>3, <2>2, SameHeader
<1>8. rem \notin B
  <2>1. \A h \in B : h # w => h \in Nat /\ SizeOf(m, h) \in Nat /\ SizeOf(m, h) >= 4
    BY <1>0, GoodBlock DEF Geometry
  <2>2. \A h \in B : h # w => h + SizeOf(m, h) <= w \/ w + old <= h BY <1>0 DEF Geometry, Apart, old
  <2> QED BY <1>0, <1>1, <1>2, <2>1, <2>2
<1>9. ASSUME NEW h \in B \cup {rem} PROVE Good(m1, h)
  <2>1. CASE h = rem BY <1>1, <1>2, <1>4, <2>1 DEF Good
  <2>2. CASE h = w
    <3>1. w + s <= Top
      <4>1. w + s <= w + old BY <1>0, <1>1
      <4>2. w + old <= Top BY <1>1
      <4> HIDE DEF old
      <4> QED BY ONLY <4>1, <4>2, <1>0, <1>1, Layout
    <3> QED BY <1>0, <1>1, <1>7, <2>2, <3>1 DEF Good
  <2>3. CASE h \in B /\ h # w BY <1>0, <1>6, <2>3 DEF Good, Keeps, Geometry
  <2> QED BY <2>1, <2>2, <2>3
<1>10. ASSUME NEW h \in B, h # w PROVE Apart(m1, h, w) /\ Apart(m1, h, rem)
  <2>1. h \in Nat /\ SizeOf(m, h) \in Nat BY <1>0, GoodBlock DEF Geometry
  <2>2. h + SizeOf(m, h) <= w \/ w + old <= h BY <1>0, <1>10 DEF Geometry, Apart, old
  <2>3. SizeOf(m1, h) = SizeOf(m, h) BY <1>6, <1>10 DEF Keeps
  <2> QED BY <1>1, <1>2, <1>4, <1>7, <2>1, <2>2, <2>3, <1>0 DEF Apart
<1>11. Apart(m1, w, rem) BY <1>0, <1>1, <1>2, <1>7 DEF Apart
<1>12. ASSUME NEW h \in B, NEW g \in B, h # g, h # w, g # w PROVE Apart(m1, h, g)
  BY <1>0, <1>6, <1>12 DEF Geometry, Apart, Keeps
<1>13. ASSUME NEW h \in B \cup {rem}, NEW g \in B \cup {rem}, h # g PROVE Apart(m1, h, g)
  <2>1. CASE h = rem \/ h = w BY <1>10, <1>11, <1>13, <2>1 DEF Apart
  <2>2. CASE h # rem /\ h # w BY <1>10, <1>11, <1>12, <1>13, <2>2 DEF Apart
  <2> QED BY <2>1, <2>2
<1>14. Geometry(m1, B \cup {rem}) BY <1>9, <1>13 DEF Geometry
<1> QED BY <1>2, <1>3, <1>4, <1>6, <1>7, <1>8, <1>14, <1>0 DEF old

-----------------------------------------------------------------------------
(* What the allocator does to its list: a block is put in front, taken     *)
(* out, or replaced by the rest of it.                                     *)
Pushed(n, L, h) == [k \in 0 .. n + 1 |-> IF k = 0 THEN h ELSE L[k - 1]]
Removed(n, L, j) == [k \in 0 .. n - 1 |-> IF k < j THEN L[k] ELSE L[k + 1]]
Replaced(n, L, j, r) == [k \in 0 .. n |-> IF k = j THEN r ELSE L[k]]

Injective(n, L) == \A j, k \in 0 .. n - 1 : L[j] = L[k] => j = k

(* A node in front of the list.                                            *)
LEMMA ChainPushed ==
  ASSUME NEW m, NEW m1, NEW first, NEW n \in Nat, NEW L, Chain(m, first, n, L), Injective(n, L),
         NEW h \in Address, h # NULL, h \notin NodesOf(n, L), NextOf(m1, h) = first,
         \A g \in NodesOf(n, L) : NextOf(m1, g) = NextOf(m, g)
  PROVE  /\ Chain(m1, h, n + 1, Pushed(n, L, h)) /\ Injective(n + 1, Pushed(n, L, h))
         /\ NodesOf(n + 1, Pushed(n, L, h)) = NodesOf(n, L) \cup {h}
<1> DEFINE P == Pushed(n, L, h)
<1>1. /\ P \in [0 .. n + 1 -> Address] /\ P[0] = h /\ P[n + 1] = NULL
      /\ \A k \in 1 .. n + 1 : P[k] = L[k - 1]
  <2>1. \A k \in 1 .. n + 1 : k - 1 \in 0 .. n /\ L[k - 1] \in Address BY DEF Chain
  <2>2. (n + 1) - 1 = n BY DEF Chain
  <2> QED BY <2>1, <2>2 DEF Pushed, Chain
<1>2. ASSUME NEW k \in 0 .. n PROVE P[k] # NULL /\ P[k + 1] = NextOf(m1, P[k])
  <2>1. CASE k = 0 BY <1>1, <2>1 DEF Chain
  <2>2. CASE k # 0
    <3>1. k - 1 \in 0 .. n - 1 /\ (k - 1) + 1 = k /\ (k + 1) - 1 = k BY <2>2
    <3>2. P[k] = L[k - 1] /\ P[k + 1] = L[k] BY <1>1, <2>2, <3>1
    <3>3. L[k - 1] # NULL /\ L[k] = NextOf(m, L[k - 1]) /\ L[k - 1] \in NodesOf(n, L)
      BY <3>1 DEF Chain, NodesOf
    <3> QED BY <3>2, <3>3
  <2> QED BY <2>1, <2>2
<1>3. (n + 1) - 1 = n OBVIOUS
<1>4. Chain(m1, h, n + 1, P) BY <1>1, <1>2, <1>3 DEF Chain
<1>5. \A k \in 1 .. n : P[k] = L[k - 1] /\ k - 1 \in 0 .. n - 1 /\ P[k] \in NodesOf(n, L)
  BY <1>1 DEF NodesOf
<1>6. ASSUME NEW j \in 0 .. n, NEW k \in 0 .. n, P[j] = P[k] PROVE j = k
  <2>1. CASE j = 0 \/ k = 0 BY <1>1, <1>5, <1>6, <2>1
  <2>2. CASE j # 0 /\ k # 0
    <3>1. L[j - 1] = L[k - 1] /\ j - 1 \in 0 .. n - 1 /\ k - 1 \in 0 .. n - 1 BY <1>5, <1>6, <2>2
    <3>2. j - 1 = k - 1 BY <3>1 DEF Injective
    <3> QED BY <3>2
  <2> QED BY <2>1, <2>2
<1>7. Injective(n + 1, P) BY <1>3, <1>6 DEF Injective
<1>8. NodesOf(n + 1, P) = NodesOf(n, L) \cup {h}
  <2>1. ASSUME NEW g \in NodesOf(n + 1, P) PROVE g \in NodesOf(n, L) \cup {h}
    <3>1. PICK k \in 0 .. n : g = P[k] BY <1>3, <2>1 DEF NodesOf
    <3>2. k = 0 \/ k \in 1 .. n BY <3>1
    <3> QED BY <1>1, <1>5, <3>1, <3>2
  <2>2. ASSUME NEW g \in NodesOf(n, L) PROVE g \in NodesOf(n + 1, P)
    <3>1. PICK k \in 0 .. n - 1 : g = L[k] BY <2>2 DEF NodesOf
    <3>2. k + 1 \in 1 .. n + 1 /\ k + 1 \in 0 .. n /\ (k + 1) - 1 = k BY <3>1
    <3>3. P[k + 1] = L[k] BY <1>1, <3>2
    <3> QED BY <1>3, <3>1, <3>2, <3>3 DEF NodesOf
  <2>3. h \in NodesOf(n + 1, P)
    <3>1. 0 \in 0 .. (n + 1) - 1 OBVIOUS
    <3> QED BY <1>1, <3>1 DEF NodesOf
  <2> QED BY <2>1, <2>2, <2>3
<1> QED BY <1>4, <1>7, <1>8

Unlinks(m, m1, first, first1, n, L, j) ==
    /\ n \in Nat /\ j \in 0 .. n - 1 /\ Chain(m, first, n, L) /\ Injective(n, L)
    /\ first1 = IF j = 0 THEN L[1] ELSE first
    /\ \A k \in 0 .. n - 1 : NextOf(m1, L[k]) = IF k = j - 1 THEN L[j + 1] ELSE NextOf(m, L[k])
Unlinked(m1, first1, n, L, j, n1) ==
    /\ Chain(m1, first1, n1, Removed(n, L, j)) /\ Injective(n1, Removed(n, L, j))
    /\ NodesOf(n1, Removed(n, L, j)) = NodesOf(n, L) \ {L[j]}

LEMMA ChainRemoved ==
  ASSUME NEW m, NEW m1, NEW first, NEW first1, NEW n, NEW L, NEW j,
         Unlinks(m, m1, first, first1, n, L, j)
  PROVE  Unlinked(m1, first1, n, L, j, n - 1)
<1>0. /\ n \in Nat /\ j \in 0 .. n - 1 /\ Chain(m, first, n, L) /\ Injective(n, L)
      /\ first1 = IF j = 0 THEN L[1] ELSE first
      /\ \A k \in 0 .. n - 1 : NextOf(m1, L[k]) = IF k = j - 1 THEN L[j + 1] ELSE NextOf(m, L[k])
  BY DEF Unlinks
<1> DEFINE R == Removed(n, L, j)
<1>1. /\ \A k \in 0 .. n - 1 : R[k] = IF k < j THEN L[k] ELSE L[k + 1]
      /\ DOMAIN R = 0 .. n - 1 /\ R = [k \in 0 .. n - 1 |-> R[k]]
  BY <1>0 DEF Removed
<1>2. \A k \in 0 .. n - 1 : k \in 0 .. n /\ k + 1 \in 0 .. n /\ L[k] \in Address /\ L[k + 1] \in Address
  BY <1>0 DEF Chain
<1>3. R \in [0 .. n - 1 -> Address] BY <1>0, <1>1, <1>2
<1>4. R[0] = first1 /\ R[n - 1] = NULL
  <2>1. 0 \in 0 .. n - 1 /\ n - 1 \in 0 .. n - 1 /\ ~(n - 1 < j) /\ (n - 1) + 1 = n /\ 0 + 1 = 1 BY <1>0
  <2> QED BY <1>0, <1>1, <2>1 DEF Chain
<1>5. ASSUME NEW k \in 0 .. (n - 1) - 1 PROVE R[k] # NULL /\ R[k + 1] = NextOf(m1, R[k])
  <2>1. k \in 0 .. n - 1 /\ k + 1 \in 0 .. n - 1 BY <1>0
  <2>2. CASE k + 1 < j
    <3>1. R[k] = L[k] /\ R[k + 1] = L[k + 1] /\ k # j - 1 BY <1>0, <1>1, <2>1, <2>2
    <3> QED BY <1>0, <2>1, <3>1 DEF Chain
  <2>3. CASE k + 1 = j
    <3>1. R[k] = L[k] /\ R[k + 1] = L[j + 1] /\ k = j - 1 BY <1>0, <1>1, <2>1, <2>3
    <3> QED BY <1>0, <2>1, <3>1 DEF Chain
  <2>4. CASE k >= j
    <3>1. R[k] = L[k + 1] /\ R[k + 1] = L[(k + 1) + 1] /\ k + 1 # j - 1 BY <1>0, <1>1, <2>1, <2>4
    <3> QED BY <1>0, <2>1, <3>1 DEF Chain
  <2> QED BY <1>0, <2>2, <2>3, <2>4
<1>6. Chain(m1, first1, n - 1, R) BY <1>0, <1>3, <1>4, <1>5 DEF Chain
<1>7. \A k \in 0 .. (n - 1) - 1 : \E i \in 0 .. n - 1 : i # j /\ R[k] = L[i] /\ i = IF k < j THEN k ELSE k + 1
  <2> TAKE k \in 0 .. (n - 1) - 1
  <2> DEFINE i == IF k < j THEN k ELSE k + 1
  <2>1. i \in 0 .. n - 1 /\ i # j /\ k \in 0 .. n - 1 BY <1>0
  <2>2. R[k] = L[i] BY <1>0, <1>1, <2>1
  <2> HIDE DEF R
  <2> QED BY <1>0, <2>1, <2>2
<1>8. Injective(n - 1, R)
  <2> SUFFICES ASSUME NEW k \in 0 .. (n - 1) - 1, NEW l \in 0 .. (n - 1) - 1, R[k] = R[l] PROVE k = l
    BY <1>0 DEF Injective
  <2>1. PICK i \in 0 .. n - 1 : R[k] = L[i] /\ i = IF k < j THEN k ELSE k + 1 BY <1>0, <1>7
  <2>2. PICK o \in 0 .. n - 1 : R[l] = L[o] /\ o = IF l < j THEN l ELSE l + 1 BY <1>0, <1>7
  <2>3. i = o BY <1>0, <2>1, <2>2 DEF Injective
  <2> QED BY <1>0, <2>1, <2>2, <2>3
<1>9. NodesOf(n - 1, R) = NodesOf(n, L) \ {L[j]}
  <2>1. ASSUME NEW g \in NodesOf(n - 1, R) PROVE g \in NodesOf(n, L) \ {L[j]}
    <3>1. PICK k \in 0 .. (n - 1) - 1 : g = R[k] BY <1>0, <2>1 DEF NodesOf
    <3>2. PICK i \in 0 .. n - 1 : i # j /\ R[k] = L[i] BY <1>0, <1>7
    <3> QED BY <1>0, <3>1, <3>2 DEF NodesOf, Injective
  <2>2. ASSUME NEW g \in NodesOf(n, L) \ {L[j]} PROVE g \in NodesOf(n - 1, R)
    <3>1. PICK i \in 0 .. n - 1 : g = L[i] /\ i # j BY <1>0, <2>2 DEF NodesOf
    <3> DEFINE k == IF i < j THEN i ELSE i - 1
    <3>2. k \in 0 .. (n - 1) - 1 /\ k \in 0 .. n - 1 BY <1>0, <3>1
    <3>3. R[k] = L[i] BY <1>0, <1>1, <3>1, <3>2
    <3> QED BY <1>0, <3>1, <3>2, <3>3 DEF NodesOf
  <2> QED BY <1>0, <2>1, <2>2
<1> QED BY <1>6, <1>8, <1>9 DEF Unlinked

LEMMA ChainReplaced ==
  ASSUME NEW m, NEW m1, NEW first, NEW n \in Nat, NEW L, Chain(m, first, n, L), Injective(n, L),
         NEW j \in 0 .. n - 1, NEW r \in Address, r # NULL, r \notin NodesOf(n, L),
         NEW first1, first1 = IF j = 0 THEN r ELSE first, NextOf(m1, r) = NextOf(m, L[j]),
         \A k \in 0 .. n - 1 : k # j =>
             NextOf(m1, L[k]) = IF k = j - 1 THEN r ELSE NextOf(m, L[k])
  PROVE  /\ Chain(m1, first1, n, Replaced(n, L, j, r)) /\ Injective(n, Replaced(n, L, j, r))
         /\ NodesOf(n, Replaced(n, L, j, r)) = (NodesOf(n, L) \ {L[j]}) \cup {r}
<1> DEFINE R == Replaced(n, L, j, r)
<1>1. /\ \A k \in 0 .. n : R[k] = IF k = j THEN r ELSE L[k]
      /\ R \in [0 .. n -> Address]
  BY DEF Replaced, Chain
<1>2. R[0] = first1 /\ R[n] = NULL BY <1>1 DEF Chain
<1>3. ASSUME NEW k \in 0 .. n - 1 PROVE R[k] # NULL /\ R[k + 1] = NextOf(m1, R[k])
  <2>1. k \in 0 .. n /\ k + 1 \in 0 .. n OBVIOUS
  <2>2. CASE k = j
    <3>1. R[k] = r /\ R[k + 1] = L[j + 1] BY <1>1, <2>1, <2>2
    <3>2. L[j + 1] = NextOf(m, L[j]) BY DEF Chain
    <3> QED BY <3>1, <3>2
  <2>3. CASE k = j - 1
    <3>1. R[k] = L[k] /\ R[k + 1] = r /\ k # j BY <1>1, <2>1, <2>3
    <3> QED BY <2>3, <3>1 DEF Chain
  <2>4. CASE k # j /\ k # j - 1
    <3>1. R[k] = L[k] /\ R[k + 1] = L[k + 1] BY <1>1, <2>1, <2>4
    <3> QED BY <2>4, <3>1 DEF Chain
  <2> QED BY <2>2, <2>3, <2>4
<1>4. Chain(m1, first1, n, R) BY <1>1, <1>2, <1>3 DEF Chain
<1>5. \A k \in 0 .. n - 1 : R[k] = IF k = j THEN r ELSE L[k] BY <1>1
<1>6. \A k \in 0 .. n - 1 : L[k] # r BY DEF NodesOf
<1>7. Injective(n, R) BY <1>5, <1>6 DEF Injective
<1>8. NodesOf(n, R) = (NodesOf(n, L) \ {L[j]}) \cup {r}
  <2>1. ASSUME NEW g \in NodesOf(n, R) PROVE g \in (NodesOf(n, L) \ {L[j]}) \cup {r}
    <3>1. PICK k \in 0 .. n - 1 : g = R[k] BY <2>1 DEF NodesOf
    <3> QED BY <1>5, <3>1 DEF NodesOf, Injective
  <2>2. ASSUME NEW g \in NodesOf(n, L) \ {L[j]} PROVE g \in NodesOf(n, R)
    <3>1. PICK k \in 0 .. n - 1 : g = L[k] /\ k # j BY <2>2 DEF NodesOf
    <3>2. R[k] = g BY <1>5, <3>1
    <3> QED BY <3>2 DEF NodesOf
  <2>3. r \in NodesOf(n, R) BY <1>5 DEF NodesOf
  <2> QED BY <2>1, <2>2, <2>3
<1> QED BY <1>4, <1>7, <1>8

(* There are at most as many nodes as headers in the heap.                 *)
LEMMA ChainFits ==
  ASSUME NEW m, MemType(m), NEW n \in Nat, NEW L, Injective(n, L), Geometry(m, NodesOf(n, L))
  PROVE  n <= MaxBlocks
<1> DEFINE S == 0 .. n - 1
           T == 0 .. MaxBlocks - 1
           f == [k \in S |-> (L[k] - HeapRun) \div 4]
<1>1. ASSUME NEW k \in S
      PROVE  /\ L[k] \in Nat /\ HeapRun <= L[k] /\ L[k] + 4 <= Top /\ L[k] \in NodesOf(n, L)
             /\ L[k] - HeapRun \in Nat /\ f[k] \in T
  <2>1. L[k] \in NodesOf(n, L) BY DEF NodesOf
  <2>2. Good(m, L[k]) BY <2>1 DEF Geometry
  <2>3. L[k] \in Nat /\ HeapRun <= L[k] /\ SizeOf(m, L[k]) >= 4 /\ L[k] + SizeOf(m, L[k]) <= Top
        /\ SizeOf(m, L[k]) \in Nat
    BY <2>2, GoodBlock
  <2>4. L[k] + 4 <= Top /\ L[k] - HeapRun \in Nat /\ L[k] - HeapRun <= HeapSize - 4 BY <2>3, Layout
  <2>5. (L[k] - HeapRun) \div 4 \in T BY <2>4, Layout
  <2> QED BY <2>1, <2>3, <2>4, <2>5
<1>2. f \in [S -> T] BY <1>1
<1>3. ASSUME NEW j \in S, NEW k \in S, j # k PROVE f[j] # f[k]
  <2>1. L[j] # L[k] BY <1>3 DEF Injective
  <2>2. Apart(m, L[j], L[k]) /\ Good(m, L[j]) /\ Good(m, L[k]) BY <1>1, <2>1 DEF Geometry
  <2>3. SizeOf(m, L[j]) \in Nat /\ SizeOf(m, L[k]) \in Nat /\ SizeOf(m, L[j]) >= 4 /\ SizeOf(m, L[k]) >= 4
    BY <2>2, GoodBlock
  <2>4. L[j] + 4 <= L[k] \/ L[k] + 4 <= L[j] BY <1>1, <2>2, <2>3 DEF Apart
  <2>5. (L[j] - HeapRun) \div 4 # (L[k] - HeapRun) \div 4 BY <1>1, <2>4, Layout
  <2> QED BY <2>5
<1>4. IsFiniteSet(S) /\ IsFiniteSet(T) /\ Cardinality(S) = n /\ Cardinality(T) = MaxBlocks
  <2> DEFINE a == n - 1
             b == MaxBlocks - 1
  <2>1. 0 \in Int /\ a \in Int /\ b \in Int /\ a = n - 1 /\ b = MaxBlocks - 1 BY Layout
  <2> HIDE DEF a, b
  <2>2. IsFiniteSet(0 .. a) /\ Cardinality(0 .. a) = IF 0 > a THEN 0 ELSE a - 0 + 1
    BY <2>1, FS_Interval
  <2>3. IsFiniteSet(0 .. b) /\ Cardinality(0 .. b) = IF 0 > b THEN 0 ELSE b - 0 + 1
    BY <2>1, FS_Interval
  <2>4. S = 0 .. a /\ T = 0 .. b BY <2>1
  <2> HIDE DEF S, T
  <2> QED BY <2>1, <2>2, <2>3, <2>4, Layout
<1> SUFFICES ASSUME ~(n <= MaxBlocks) PROVE FALSE OBVIOUS
<1>5. Cardinality(T) < Cardinality(S) BY <1>4, Layout
<1> HIDE DEF S, T, f
<1>6. \E x, y \in S : x # y /\ f[x] = f[y] BY <1>2, <1>4, <1>5, FS_PigeonHole
<1> QED BY <1>3, <1>6

-----------------------------------------------------------------------------
(* The heap: the blocks of the list, and those that are handed out (live). *)
Listed(m, first, n, L, live) ==
    /\ Chain(m, first, n, L) /\ Injective(n, L)
    /\ NodesOf(n, L) \cap live = {}
    /\ Geometry(m, NodesOf(n, L) \cup live)

(* Memories with the same headers hold the same list and blocks.           *)
LEMMA ListedSame ==
  ASSUME NEW m, NEW m1, NEW first, NEW n \in Nat, NEW L, NEW live, Listed(m, first, n, L, live),
         \A h \in NodesOf(n, L) \cup live : SizeOf(m1, h) = SizeOf(m, h) /\ NextOf(m1, h) = NextOf(m, h)
  PROVE  Listed(m1, first, n, L, live)
<1>1. Geometry(m1, NodesOf(n, L) \cup live)
  BY DEF Listed, Geometry, Good, Apart
<1>2. \A k \in 0 .. n - 1 : L[k] \in NodesOf(n, L) BY DEF NodesOf
<1>3. Chain(m1, first, n, L) BY <1>2 DEF Listed, Chain
<1> QED BY <1>1, <1>3 DEF Listed

(* free. *)
LEMMA FreedBlock ==
  ASSUME NEW m, MemType(m), NEW first \in Address, NEW n \in Nat, NEW L, NEW live,
         Listed(m, first, n, L, live), NEW h \in live, NEW m1, m1 = PutWord(m, h, first)
  PROVE  /\ MemType(m1) /\ Listed(m1, h, n + 1, Pushed(n, L, h), live \ {h})
         /\ NodesOf(n + 1, Pushed(n, L, h)) = NodesOf(n, L) \cup {h}
         /\ \A g \in NodesOf(n, L) \cup live : Keeps(m, m1, g)
         /\ (NULL \in DOMAIN m1 <=> NULL \in DOMAIN m)
<1> DEFINE B == NodesOf(n, L) \cup live
<1>1. Geometry(m, B) /\ h \in B /\ Chain(m, first, n, L) /\ Injective(n, L) /\ h \notin NodesOf(n, L)
  BY DEF Listed
<1>2. h \in Address /\ h # NULL BY <1>1, GoodBlock DEF Geometry
<1> HIDE DEF B
<1>3. /\ MemType(m1) /\ NextOf(m1, h) = first
      /\ \A g \in B : Keeps(m, m1, g) /\ (g # h => NextOf(m1, g) = NextOf(m, g))
      /\ Geometry(m1, B) /\ (NULL \in DOMAIN m1 <=> NULL \in DOMAIN m)
  BY <1>1, LinkWrite
<1>4. \A g \in NodesOf(n, L) : NextOf(m1, g) = NextOf(m, g) BY <1>1, <1>3 DEF B
<1>5. /\ Chain(m1, h, n + 1, Pushed(n, L, h)) /\ Injective(n + 1, Pushed(n, L, h))
      /\ NodesOf(n + 1, Pushed(n, L, h)) = NodesOf(n, L) \cup {h}
  BY <1>1, <1>2, <1>3, <1>4, ChainPushed
<1>6. NodesOf(n + 1, Pushed(n, L, h)) \cup (live \ {h}) = B BY <1>5 DEF B
<1>7. NodesOf(n + 1, Pushed(n, L, h)) \cap (live \ {h}) = {} BY <1>5 DEF Listed
<1>8. Listed(m1, h, n + 1, Pushed(n, L, h), live \ {h}) BY <1>3, <1>5, <1>6, <1>7 DEF Listed
<1> QED BY <1>3, <1>5, <1>8 DEF B

(* malloc, with a block that fits exactly. *)
TakesWhole(m, first, n, L, live, j, m1, first1) ==
    /\ MemType(m) /\ n \in Nat /\ Listed(m, first, n, L, live) /\ j \in 0 .. n - 1
    /\ m1 = IF j = 0 THEN m ELSE PutWord(m, L[j - 1], L[j + 1])
    /\ first1 = IF j = 0 THEN L[1] ELSE first

LEMMA TakenWhole ==
  ASSUME NEW m, NEW first, NEW n, NEW L, NEW live, NEW j, NEW m1, NEW first1,
         TakesWhole(m, first, n, L, live, j, m1, first1)
  PROVE  /\ MemType(m1) /\ Listed(m1, first1, n - 1, Removed(n, L, j), live \cup {L[j]})
         /\ NodesOf(n - 1, Removed(n, L, j)) = NodesOf(n, L) \ {L[j]}
         /\ \A g \in NodesOf(n, L) \cup live : Keeps(m, m1, g)
         /\ (NULL \in DOMAIN m1 <=> NULL \in DOMAIN m)
<1>0. /\ MemType(m) /\ n \in Nat /\ Listed(m, first, n, L, live) /\ j \in 0 .. n - 1
      /\ m1 = IF j = 0 THEN m ELSE PutWord(m, L[j - 1], L[j + 1])
      /\ first1 = IF j = 0 THEN L[1] ELSE first
  BY DEF TakesWhole
<1> DEFINE B == NodesOf(n, L) \cup live
<1>1. Geometry(m, B) /\ Chain(m, first, n, L) /\ Injective(n, L) /\ NodesOf(n, L) \cap live = {}
  BY <1>0 DEF Listed
<1>2. \A k \in 0 .. n - 1 : L[k] \in B /\ L[k] \in NodesOf(n, L) BY DEF NodesOf
<1>3. L[j + 1] \in Address BY <1>0, <1>1 DEF Chain
<1> HIDE DEF B
<1>4. /\ MemType(m1) /\ Geometry(m1, B) /\ \A g \in B : Keeps(m, m1, g)
      /\ \A k \in 0 .. n - 1 : NextOf(m1, L[k]) = IF k = j - 1 THEN L[j + 1] ELSE NextOf(m, L[k])
      /\ (NULL \in DOMAIN m1 <=> NULL \in DOMAIN m)
  <2>1. CASE j = 0 BY <1>0, <1>1, <1>2, <2>1 DEF Keeps
  <2>2. CASE j # 0
    <3> DEFINE g == L[j - 1]
    <3>1. j - 1 \in 0 .. n - 1 /\ g \in B /\ m1 = PutWord(m, g, L[j + 1]) BY <1>0, <1>2, <2>2
    <3> HIDE DEF g
    <3>2. /\ MemType(m1) /\ NextOf(m1, g) = L[j + 1]
          /\ \A h \in B : Keeps(m, m1, h) /\ (h # g => NextOf(m1, h) = NextOf(m, h))
          /\ Geometry(m1, B) /\ (NULL \in DOMAIN m1 <=> NULL \in DOMAIN m)
      BY <1>0, <1>1, <1>3, <3>1, LinkWrite
    <3>3. \A k \in 0 .. n - 1 : k # j - 1 => L[k] # g BY <1>0, <1>1, <3>1 DEF Injective, g
    <3> QED BY <1>2, <3>2, <3>3 DEF g
  <2> QED BY <2>1, <2>2
<1>5. /\ Chain(m1, first1, n - 1, Removed(n, L, j)) /\ Injective(n - 1, Removed(n, L, j))
      /\ NodesOf(n - 1, Removed(n, L, j)) = NodesOf(n, L) \ {L[j]}
  <2>1. \A k \in 0 .. n - 1 : NextOf(m1, L[k]) = IF k = j - 1 THEN L[j + 1] ELSE NextOf(m, L[k])
    BY <1>4
  <2> QED
    <3>1. Unlinks(m, m1, first, first1, n, L, j) BY <1>0, <1>1, <2>1 DEF Unlinks
    <3>2. Unlinked(m1, first1, n, L, j, n - 1) BY ONLY <3>1, ChainRemoved
    <3> QED BY <3>2 DEF Unlinked
<1>6. NodesOf(n - 1, Removed(n, L, j)) \cup (live \cup {L[j]}) = B BY <1>0, <1>2, <1>5 DEF B
<1>7. NodesOf(n - 1, Removed(n, L, j)) \cap (live \cup {L[j]}) = {} BY <1>1, <1>5
<1>8. Listed(m1, first1, n - 1, Removed(n, L, j), live \cup {L[j]})
  BY <1>0, <1>4, <1>5, <1>6, <1>7 DEF Listed
<1> QED BY <1>4, <1>5, <1>8 DEF B

(* malloc, with the front of a block. *)
TakesFront(m, first, n, L, live, j, w, s, rem, m0, m1, first1) ==
    /\ MemType(m) /\ n \in Nat /\ Listed(m, first, n, L, live) /\ j \in 0 .. n - 1 /\ w = L[j]
    /\ s \in Nat /\ s >= 4 /\ s % 4 = 0 /\ s < SizeOf(m, w) /\ rem = w + s
    /\ m0 = PutHeader(PutHeader(m, w, rem, s), rem, NextOf(m, w), SizeOf(m, w) - s)
    /\ m1 = IF j = 0 THEN m0 ELSE PutWord(m0, L[j - 1], rem)
    /\ first1 = IF j = 0 THEN rem ELSE first

FrontTaken(m, n, L, live, j, w, s, rem, m1, first1) ==
    /\ MemType(m1) /\ Listed(m1, first1, n, Replaced(n, L, j, rem), live \cup {w})
    /\ NodesOf(n, Replaced(n, L, j, rem)) = (NodesOf(n, L) \ {w}) \cup {rem}
    /\ \A g \in NodesOf(n, L) \cup live : g # w => Keeps(m, m1, g)
    /\ SizeOf(m1, w) = s /\ SizeOf(m1, rem) = SizeOf(m, w) - s /\ rem \notin NodesOf(n, L) \cup live
    /\ (NULL \in DOMAIN m1 <=> NULL \in DOMAIN m)

LEMMA TakenFront ==
  ASSUME NEW m, NEW first, NEW n, NEW L, NEW live, NEW j, NEW w, NEW s, NEW rem,
         NEW m0, NEW m1, NEW first1,
         TakesFront(m, first, n, L, live, j, w, s, rem, m0, m1, first1)
  PROVE  FrontTaken(m, n, L, live, j, w, s, rem, m1, first1)
<1>0. /\ MemType(m) /\ n \in Nat /\ Listed(m, first, n, L, live) /\ j \in 0 .. n - 1 /\ w = L[j]
      /\ s \in Nat /\ s >= 4 /\ s % 4 = 0 /\ s < SizeOf(m, w) /\ rem = w + s
      /\ m0 = PutHeader(PutHeader(m, w, rem, s), rem, NextOf(m, w), SizeOf(m, w) - s)
      /\ m1 = IF j = 0 THEN m0 ELSE PutWord(m0, L[j - 1], rem)
      /\ first1 = IF j = 0 THEN rem ELSE first
  BY DEF TakesFront
<1> DEFINE B == NodesOf(n, L) \cup live
           C == B \cup {rem}
<1>1. Geometry(m, B) /\ Chain(m, first, n, L) /\ Injective(n, L) /\ NodesOf(n, L) \cap live = {}
  BY <1>0 DEF Listed
<1>2. \A k \in 0 .. n - 1 : L[k] \in B /\ L[k] \in NodesOf(n, L) BY <1>0 DEF NodesOf
<1>3. w \in B /\ NextOf(m, w) \in Address BY <1>0, <1>1, <1>2, GoodBlock DEF Geometry
<1> HIDE DEF B
<1>4. /\ MemType(m0) /\ Geometry(m0, C) /\ rem \notin B /\ rem \in Address
      /\ SizeOf(m0, w) = s /\ SizeOf(m0, rem) = SizeOf(m, w) - s /\ NextOf(m0, rem) = NextOf(m, w)
      /\ \A h \in B : h # w => Keeps(m, m0, h) /\ NextOf(m0, h) = NextOf(m, h)
      /\ (NULL \in DOMAIN m0 <=> NULL \in DOMAIN m)
  <2> DEFINE next == NextOf(m, w)
             rest == SizeOf(m, w) - s
  <2>1. Cut(m, B, w, s, rem, next, rest, m0) BY <1>0, <1>1, <1>3 DEF Cut
  <2> HIDE DEF next, rest
  <2>2. /\ MemType(m0) /\ Geometry(m0, B \cup {rem}) /\ rem \notin B /\ rem \in Address
        /\ SizeOf(m0, w) = s /\ SizeOf(m0, rem) = rest /\ NextOf(m0, rem) = next
        /\ \A h \in B : h # w => Keeps(m, m0, h) /\ NextOf(m0, h) = NextOf(m, h)
        /\ (NULL \in DOMAIN m0 <=> NULL \in DOMAIN m)
    BY ONLY <2>1, CutBlock
  <2> QED BY <1>0, <2>2 DEF next, rest
<1>5. rem # NULL /\ rem \notin NodesOf(n, L) /\ rem \in C
  <2>1. Good(m0, rem) BY <1>0, <1>4 DEF Geometry
  <2> QED BY <1>0, <1>4, <2>1, GoodBlock DEF B
<1> HIDE DEF C
<1>6. /\ MemType(m1) /\ Geometry(m1, C) /\ \A h \in C : Keeps(m0, m1, h)
      /\ NextOf(m1, rem) = NextOf(m, L[j])
      /\ \A k \in 0 .. n - 1 : k # j => NextOf(m1, L[k]) = IF k = j - 1 THEN rem ELSE NextOf(m, L[k])
      /\ (NULL \in DOMAIN m1 <=> NULL \in DOMAIN m)
  <2>0. \A k \in 0 .. n - 1 : k # j => NextOf(m0, L[k]) = NextOf(m, L[k])
    BY <1>0, <1>1, <1>2, <1>4 DEF Injective
  <2>1. CASE j = 0 BY <1>0, <1>4, <2>0, <2>1 DEF Keeps
  <2>2. CASE j # 0
    <3> DEFINE g == L[j - 1]
    <3>1. j - 1 \in 0 .. n - 1 /\ g \in C /\ g # rem /\ m1 = PutWord(m0, g, rem)
      BY <1>0, <1>2, <1>5, <2>2 DEF C
    <3> HIDE DEF g
    <3>2. /\ MemType(m1) /\ NextOf(m1, g) = rem
          /\ \A h \in C : Keeps(m0, m1, h) /\ (h # g => NextOf(m1, h) = NextOf(m0, h))
          /\ Geometry(m1, C) /\ (NULL \in DOMAIN m1 <=> NULL \in DOMAIN m0)
      BY <1>0, <1>4, <3>1, LinkWrite
    <3>3. \A k \in 0 .. n - 1 : L[k] \in C /\ (k # j - 1 => L[k] # g)
      BY <1>0, <1>1, <1>2, <3>1 DEF Injective, g, C
    <3>4. \A k \in 0 .. n - 1 : k # j => NextOf(m1, L[k]) = IF k = j - 1 THEN rem ELSE NextOf(m, L[k])
      BY <1>0, <2>0, <3>2, <3>3 DEF g
    <3> QED BY <1>0, <1>4, <1>5, <3>1, <3>2, <3>4
  <2> QED BY <1>0, <2>1, <2>2
<1>7. /\ Chain(m1, first1, n, Replaced(n, L, j, rem)) /\ Injective(n, Replaced(n, L, j, rem))
      /\ NodesOf(n, Replaced(n, L, j, rem)) = (NodesOf(n, L) \ {w}) \cup {rem}
  <2>1. /\ n \in Nat /\ j \in 0 .. n - 1 /\ w = L[j] /\ first1 = IF j = 0 THEN rem ELSE first
        /\ Chain(m, first, n, L) /\ Injective(n, L)
        /\ rem \in Address /\ rem # NULL /\ rem \notin NodesOf(n, L)
        /\ NextOf(m1, rem) = NextOf(m, L[j])
    BY <1>0, <1>1, <1>4, <1>5, <1>6
  <2>2. \A k \in 0 .. n - 1 : k # j => NextOf(m1, L[k]) = IF k = j - 1 THEN rem ELSE NextOf(m, L[k])
    BY <1>6
  <2> QED BY ONLY <2>1, <2>2, ChainReplaced
<1>8. NodesOf(n, Replaced(n, L, j, rem)) \cup (live \cup {w}) = C BY <1>0, <1>2, <1>7 DEF B, C
<1>9. NodesOf(n, Replaced(n, L, j, rem)) \cap (live \cup {w}) = {}
  <2>1. rem \notin live /\ rem # w BY <1>0, <1>3, <1>4 DEF B
  <2> QED BY <1>0, <1>1, <1>7, <2>1
<1>10. Listed(m1, first1, n, Replaced(n, L, j, rem), live \cup {w})
  BY <1>0, <1>6, <1>7, <1>8, <1>9 DEF Listed
<1>11. \A g \in B : g # w => Keeps(m, m1, g)
  BY <1>0, <1>4, <1>6 DEF Keeps, C
<1>12. SizeOf(m1, w) = s /\ SizeOf(m1, rem) = SizeOf(m, w) - s
  BY <1>0, <1>3, <1>4, <1>5, <1>6 DEF Keeps, C
<1> QED BY <1>0, <1>4, <1>6, <1>7, <1>10, <1>11, <1>12 DEF B, FrontTaken

-----------------------------------------------------------------------------
(* The inductive invariant.                                                *)
Holders == {p \in Slots : held[p] # Empty}
HeadOf(p) == HEADER(held[p].ptr)
Handed == {HeadOf(p) : p \in Holders}
Result == IF HasResult /\ walk # NULL THEN {walk} ELSE {}
Live == Handed \cup Result

StateType ==
    /\ MemType(mem)
    /\ freelist \in Address /\ prev \in Address /\ walk \in Address
    /\ initialized \in BOOLEAN
    /\ call \in {Idle} \cup [fn : {"malloc", "calloc", "realloc"}, slot : Slots,
                             size : Requests, got : BOOLEAN]
    /\ held \in [Slots -> [ptr : Address, size : Requests \cup {0}, filled : BOOLEAN]]

(* A holder's pointer is behind the header of a block that its request and *)
(* the header fit in, and no two hold the same block.                      *)
HoldersApart ==
    /\ \A p \in Holders : held[p].ptr = HeadOf(p) + 4 /\ held[p].size + 4 <= SizeOf(mem, HeadOf(p))
    /\ \A p, q \in Holders : HeadOf(p) = HeadOf(q) => p = q

(* The call in progress: only realloc has a block already, and the block   *)
(* malloc has found is as long as asked and nobody's.                      *)
CallInProgress ==
    /\ call # Idle => initialized /\ (call.fn = "realloc" <=> call.slot \in Holders)
    /\ Result # {} => SizeOf(mem, walk) = call.size + 4 /\ walk \notin Handed

(* The walk is at a node of the list, prev at the one before, and none     *)
(* before would do.                                                        *)
WalkAt(n, L) ==
    \E j \in 0 .. n :
        /\ walk = L[j] /\ prev = IF j = 0 THEN NULL ELSE L[j - 1]
        /\ \A k \in 0 .. j - 1 : SizeOf(mem, L[k]) < call.size + 4

ListInMemory ==
    IF initialized
    THEN \E n, L : n \in Nat /\ Listed(mem, freelist, n, L, Live) /\ (Walking => WalkAt(n, L))
    ELSE Holders = {}

IInv == StateType /\ HoldersApart /\ CallInProgress /\ ListInMemory /\ ClientDataIntact

BlocksOf(m, H) == {[at |-> h, size |-> SizeOf(m, h)] : h \in H}

(* The free blocks that the model reads from memory, and sets of blocks in *)
(* terms of the addresses of their headers.                                *)
LEMMA FreeAre ==
  ASSUME NEW m, MemType(m), NEW first \in Address, NEW n \in Nat, NEW L, NEW live,
         Listed(m, first, n, L, live)
  PROVE  BlocksOf(m, Nodes(m, first)) = BlocksOf(m, NodesOf(n, L))
<1>1. Chain(m, first, n, L) /\ Injective(n, L) /\ Geometry(m, NodesOf(n, L))
  BY DEF Listed, Geometry
<1>2. n <= MaxBlocks BY <1>1, ChainFits
<1>3. Nodes(m, first) = NodesOf(n, L) BY <1>1, <1>2, NodesAre
<1> QED BY <1>3

LEMMA BlocksKept ==
  ASSUME NEW m, NEW m1, NEW H, \A h \in H : SizeOf(m1, h) = SizeOf(m, h)
  PROVE  BlocksOf(m1, H) = BlocksOf(m, H)
BY DEF BlocksOf

LEMMA BlocksWithout ==
  ASSUME NEW m, NEW H, NEW h
  PROVE  BlocksOf(m, H \ {h}) = BlocksOf(m, H) \ {[at |-> h, size |-> SizeOf(m, h)]}
<1>1. ASSUME NEW g \in H, g # h
      PROVE  [at |-> g, size |-> SizeOf(m, g)] # [at |-> h, size |-> SizeOf(m, h)]
  <2> DEFINE b == [at |-> g, size |-> SizeOf(m, g)]
             c == [at |-> h, size |-> SizeOf(m, h)]
  <2>1. b.at = g /\ c.at = h OBVIOUS
  <2> QED BY <1>1, <2>1
<1> QED BY <1>1 DEF BlocksOf

LEMMA BlocksWith ==
  ASSUME NEW m, NEW H, NEW h
  PROVE  BlocksOf(m, H \cup {h}) = BlocksOf(m, H) \cup {[at |-> h, size |-> SizeOf(m, h)]}
BY DEF BlocksOf

(* The address behind a header, and back. *)
LEMMA BehindHeader ==
  ASSUME NEW h \in Nat, HeapRun <= h, h + 4 <= Top
  PROVE  HEADER(h + 4) = h /\ BLOCK(h) = h + 4 /\ h + 4 \in Address /\ h + 4 # NULL /\ h # NULL /\ h \in Address
<1>1. h + 4 \in Address /\ h \in Address /\ (h + 4) - 4 = h /\ h # NULL /\ h + 4 # NULL BY Layout, AddressRange
<1> QED BY <1>1, SmallSizeT, Layout DEF HEADER, BLOCK

(* What is written into a block keeps the headers and the other blocks.    *)
LEMMA DataWrite ==
  ASSUME NEW m, MemType(m), NEW B, Geometry(m, B), NEW h \in B, NEW n \in Nat, n + 4 <= SizeOf(m, h),
         NEW bytes \in [0 .. n - 1 -> Octet], NEW m1, m1 = PutBytes(m, h + 4, bytes)
  PROVE  /\ MemType(m1) /\ \A i \in 0 .. n - 1 : Byte(m1, h + 4 + i) = bytes[i]
         /\ \A g \in B : SizeOf(m1, g) = SizeOf(m, g) /\ NextOf(m1, g) = NextOf(m, g)
         /\ \A g \in B : g # h => Keeps(m, m1, g)
         /\ (NULL \in DOMAIN m1 <=> NULL \in DOMAIN m)
<1> DEFINE c == h + 4
<1>1. h \in Nat /\ HeapRun <= h /\ SizeOf(m, h) \in Nat /\ h + SizeOf(m, h) <= Top
  BY GoodBlock DEF Geometry
<1>2. c \in Nat /\ HeapRun <= c /\ c + n <= Top /\ m1 = PutBytes(m, c, bytes) /\ c = h + 4
  BY <1>1, Layout
<1> HIDE DEF c
<1>3. /\ MemType(m1) /\ \A i \in 0 .. n - 1 : Byte(m1, c + i) = bytes[i]
      /\ SameBut(m, m1, c, c + n) /\ (NULL \in DOMAIN m1 <=> NULL \in DOMAIN m)
  <2>1. Writes(m, c, n, bytes, m1) BY <1>2 DEF Writes
  <2>2. Wrote(m, c, n, bytes, m1) BY ONLY <2>1, PutInHeap
  <2> QED BY <2>2 DEF Wrote
<1>4. ASSUME NEW g \in B, g # h PROVE Keeps(m, m1, g) /\ NextOf(m1, g) = NextOf(m, g)
  <2> DEFINE to == c + n
  <2>1. Good(m, g) /\ g \in Nat /\ SizeOf(m, g) \in Nat BY GoodBlock DEF Geometry
  <2>2. Apart(m, g, h) BY <1>4 DEF Geometry
  <2>3. c \in Int /\ to \in Int BY <1>2
  <2>4. g + SizeOf(m, g) <= c \/ to <= g BY <1>1, <1>2, <2>1, <2>2 DEF Apart
  <2>5. SameBut(m, m1, c, to) BY <1>3
  <2> HIDE DEF to
  <2> QED BY <2>1, <2>3, <2>4, <2>5, KeptOutside
<1>5. NextOf(m1, h) = NextOf(m, h) /\ SizeOf(m1, h) = SizeOf(m, h)
  <2>1. ASSUME NEW d \in h .. h + 3 PROVE Byte(m1, d) = Byte(m, d)
    <3>1. d \in Cells /\ d < c BY <1>1, <1>2, GoodBlock, Layout DEF Geometry, Cells
    <3> QED BY <1>3, <3>1 DEF SameBut
  <2> QED BY <1>1, <2>1, SameHeader
<1> QED BY <1>2, <1>3, <1>4, <1>5 DEF Keeps

-----------------------------------------------------------------------------
(* What the invariant says of the client's blocks.                         *)
LEMMA HolderBlock ==
  ASSUME IInv, NEW p \in Holders
  PROVE  /\ initialized /\ HeadOf(p) \in Live /\ HeadOf(p) \in Handed /\ Good(mem, HeadOf(p))
         /\ held[p].ptr = HeadOf(p) + 4 /\ held[p].ptr # NULL /\ held[p].ptr \in Address
         /\ held[p].size + 4 <= SizeOf(mem, HeadOf(p)) /\ held[p].size \in Nat
         /\ SizeOf(mem, HeadOf(p)) \in Nat /\ HeadOf(p) \in Nat /\ HeadOf(p) \in Address
<1>1. initialized BY DEF IInv, ListInMemory
<1>2. HeadOf(p) \in Handed /\ HeadOf(p) \in Live BY DEF Handed, Live
<1>3. Good(mem, HeadOf(p)) BY <1>1, <1>2 DEF IInv, ListInMemory, Listed, Geometry
<1>4. held[p].ptr = HeadOf(p) + 4 /\ held[p].size + 4 <= SizeOf(mem, HeadOf(p))
  BY DEF IInv, HoldersApart
<1>5. held[p].size \in Requests \cup {0} /\ held[p].ptr \in Address
  BY DEF IInv, StateType, Holders
<1>6. held[p].size \in Nat
  <2> DEFINE r == held[p].size
  <2>1. r \in Requests \cup {0} BY <1>5
  <2> HIDE DEF r
  <2>2. r \in Nat BY <2>1, Layout
  <2> QED BY <2>2 DEF r
<1>7. MemType(mem) BY DEF IInv, StateType
<1>8. SizeOf(mem, HeadOf(p)) \in Nat /\ HeadOf(p) \in Nat /\ HeadOf(p) \in Address BY <1>3, <1>7, GoodBlock
<1>9. held[p].ptr # NULL BY <1>4, <1>8, Layout
<1> QED BY <1>1, <1>2, <1>3, <1>4, <1>5, <1>6, <1>8, <1>9

(* A client's data is there as long as its block is kept.                  *)
LEMMA DataKept ==
  ASSUME IInv, NEW p \in Holders, held[p].filled, NEW m1, Keeps(mem, m1, HeadOf(p))
  PROVE  \A i \in 0 .. held[p].size - 1 : Byte(m1, held[p].ptr + i) = p
<1>1. ASSUME NEW i \in 0 .. held[p].size - 1
      PROVE  Byte(m1, held[p].ptr + i) = Byte(mem, held[p].ptr + i)
  <2> DEFINE d == held[p].ptr + i
  <2>1. d \in HeadOf(p) + 4 .. HeadOf(p) + SizeOf(mem, HeadOf(p)) - 1 BY HolderBlock
  <2> HIDE DEF d
  <2>2. Byte(m1, d) = Byte(mem, d) BY <2>1 DEF Keeps
  <2> QED BY <2>2 DEF d
<1> QED BY <1>1 DEF IInv, ClientDataIntact, Holders

LEMMA NoHolder == ASSUME IInv, NEW p \in Slots, p \notin Holders PROVE held[p] = Empty /\ ~held[p].filled
BY DEF Holders, Empty

(* The blocks of the refinement, before and after a step.                  *)
LEMMA BlocksAre ==
  /\ LiveBlocks = BlocksOf(mem, Live) /\ LiveBlocks' = BlocksOf(mem', Live')
  /\ initialized => FreeBlocks = BlocksOf(mem, Nodes(mem, freelist))
  /\ initialized' => FreeBlocks' = BlocksOf(mem', Nodes(mem', freelist'))
<1>1. LiveBlocks = BlocksOf(mem, Live)
  BY DEF LiveBlocks, Live, BlocksOf, HeapBlock, Handed, Result, Holders, HeadOf
<1>2. LiveBlocks' = BlocksOf(mem', Live')
  BY DEF LiveBlocks, Live, BlocksOf, HeapBlock, Handed, Result, Holders, HeadOf
<1> QED BY <1>1, <1>2 DEF FreeBlocks, BlocksOf, HeapBlock

LEMMA IInvUnchanged ==
  ASSUME IInv, UNCHANGED vars
  PROVE  IInv' /\ FreeBlocks' = FreeBlocks /\ LiveBlocks' = LiveBlocks
<1>1. FreeBlocks' = FreeBlocks /\ LiveBlocks' = LiveBlocks
  BY DEF vars, FreeBlocks, LiveBlocks, HeapBlock, HasResult
<1>2. Holders' = Holders /\ Handed' = Handed /\ Result' = Result /\ Live' = Live /\ Walking' = Walking
  BY DEF vars, Holders, Handed, HeadOf, Result, Live, HasResult, Walking
<1>3. \A n, L : WalkAt(n, L)' <=> WalkAt(n, L) BY DEF vars, WalkAt
<1>4. StateType' BY DEF vars, IInv, StateType
<1>5. HoldersApart' /\ CallInProgress' BY <1>2 DEF vars, IInv, HoldersApart, CallInProgress, HeadOf
<1>6. ListInMemory' BY <1>2, <1>3 DEF vars, IInv, ListInMemory
<1>7. ClientDataIntact' BY DEF vars, IInv, ClientDataIntact
<1> QED BY <1>1, <1>4, <1>5, <1>6, <1>7 DEF IInv

(* The start of a call. *)
LEMMA EnterStep ==
  ASSUME IInv, NEW fn \in {"malloc", "calloc", "realloc"}, NEW p \in Slots, NEW r \in Requests,
         fn = "realloc" <=> held[p] # Empty, Enter(fn, p, r)
  PROVE  IInv' /\ FreeBlocks' = FreeBlocks /\ LiveBlocks' = LiveBlocks
         /\ (NULL \in DOMAIN mem' <=> NULL \in DOMAIN mem)
<1>1. /\ call = Idle /\ call' = [fn |-> fn, slot |-> p, size |-> r, got |-> FALSE]
      /\ prev' = NULL /\ walk' = freelist' /\ held' = held
  BY DEF Enter
<1>2. /\ Holders' = Holders /\ Handed' = Handed /\ Result = {} /\ Result' = {} /\ Live' = Live /\ Live = Handed
      /\ \A q \in Slots : HeadOf(q)' = HeadOf(q)
  BY <1>1 DEF Idle, Holders, Handed, HeadOf, Result, Live, HasResult
<1>3. initialized'  BY DEF Enter, InitHeap, IInv, StateType
<1>4. CallInProgress' BY <1>1, <1>2, <1>3 DEF CallInProgress, Holders
<1>5. call' \in [fn : {"malloc", "calloc", "realloc"}, slot : Slots, size : Requests, got : BOOLEAN]
  BY <1>1
<1>6. NULL \in Address BY Layout, AddressRange
<1>7. CASE initialized
  <2>1. mem' = mem /\ freelist' = freelist BY <1>7 DEF Enter, InitHeap
  <2>2. PICK n, L : n \in Nat /\ Listed(mem, freelist, n, L, Live) BY <1>7 DEF IInv, ListInMemory
  <2>3. WalkAt(n, L)'
    <3>1. walk' = L[0] /\ 0 \in 0 .. n BY <1>1, <2>1, <2>2 DEF Listed, Chain
    <3> QED BY <1>1, <3>1 DEF WalkAt
  <2>4. ListInMemory' BY <1>2, <1>3, <2>1, <2>2, <2>3 DEF ListInMemory
  <2>5. StateType' BY <1>1, <1>3, <1>5, <1>6, <2>1 DEF IInv, StateType
  <2>6. HoldersApart' /\ ClientDataIntact'
    BY <1>1, <1>2, <2>1 DEF IInv, HoldersApart, ClientDataIntact, Holders
  <2>7. FreeBlocks' = FreeBlocks /\ LiveBlocks' = LiveBlocks
    BY <1>2, <1>3, <1>7, <2>1, BlocksAre
  <2> QED BY <1>4, <2>1, <2>4, <2>5, <2>6, <2>7 DEF IInv
<1>8. CASE ~initialized
  <2>1. freelist' = HeapRun /\ mem' = PutHeader(mem, HeapRun, NULL, HeapSize)
    BY <1>8 DEF Enter, InitHeap
  <2>2. Holders = {} /\ Live = {} BY <1>2, <1>8 DEF IInv, ListInMemory, Handed
  <2>3. HeapRun \in Address /\ HeapSize \in Address /\ HeapRun + 4 <= Top BY Layout, AddressRange
  <2>4. /\ MemType(mem') /\ NextOf(mem', HeapRun) = NULL /\ SizeOf(mem', HeapRun) = HeapSize
        /\ (NULL \in DOMAIN mem' <=> NULL \in DOMAIN mem)
    <3>1. MemType(mem) BY DEF IInv, StateType
    <3>2. HeapRun \in Nat /\ HeapRun <= HeapRun BY Layout
    <3> QED BY <1>6, <2>1, <2>3, <3>1, <3>2, PutHeaderIs
  <2> DEFINE n == 1
             L == [k \in 0 .. n |-> IF k = 0 THEN HeapRun ELSE NULL]
  <2>5. NodesOf(n, L) = {HeapRun}
    <3>1. 0 .. n - 1 = {0} OBVIOUS
    <3> QED BY <3>1 DEF NodesOf
  <2>6. Chain(mem', HeapRun, n, L) /\ Injective(n, L)
    BY <1>6, <2>3, <2>4, Layout DEF Chain, Injective
  <2>7. Good(mem', HeapRun) BY <2>4, Layout DEF Good
  <2>8. Geometry(mem', {HeapRun}) BY <2>7 DEF Geometry
  <2>9. L[0] = HeapRun /\ n \in Nat /\ 0 \in 0 .. n OBVIOUS
  <2> HIDE DEF n, L
  <2>10. Listed(mem', freelist', n, L, Live') BY <1>2, <2>1, <2>2, <2>5, <2>6, <2>8 DEF Listed
  <2>11. WalkAt(n, L)' BY <1>1, <2>1, <2>9 DEF WalkAt
  <2>12. ListInMemory' BY <1>3, <2>9, <2>10, <2>11 DEF ListInMemory
  <2>13. StateType' BY <1>1, <1>3, <1>5, <1>6, <2>1, <2>3, <2>4 DEF IInv, StateType
  <2>14. HoldersApart' BY <1>2, <2>2 DEF HoldersApart
  <2>15. ClientDataIntact' BY <1>1, <2>2, NoHolder DEF ClientDataIntact
  <2>16. FreeBlocks' = FreeBlocks
    <3>1. FreeBlocks' = BlocksOf(mem', {HeapRun})
      BY <1>3, <2>1, <2>3, <2>4, <2>5, <2>9, <2>10, BlocksAre, FreeAre
    <3>2. BlocksOf(mem', {HeapRun}) = {[at |-> HeapRun, size |-> HeapSize]} BY <2>4 DEF BlocksOf
    <3> QED BY <1>8, <3>1, <3>2 DEF FreeBlocks
  <2>17. LiveBlocks' = LiveBlocks
    <3>1. BlocksOf(mem, {}) = {} /\ BlocksOf(mem', {}) = {} BY DEF BlocksOf
    <3> QED BY <1>2, <2>2, <3>1, BlocksAre
  <2> QED BY <1>4, <2>4, <2>12, <2>13, <2>14, <2>15, <2>16, <2>17 DEF IInv
<1> QED BY <1>7, <1>8 DEF IInv, StateType

(* malloc's walk. *)
WalkedTo(n, L, j) ==
    /\ n \in Nat /\ j \in 0 .. n /\ Listed(mem, freelist, n, L, Live)
    /\ walk = L[j] /\ prev = IF j = 0 THEN NULL ELSE L[j - 1]
    /\ \A k \in 0 .. j - 1 : SizeOf(mem, L[k]) < SizePlusBlk
    /\ walk = NULL <=> j = n

LEMMA WalkFacts ==
  ASSUME IInv, Walking
  PROVE  /\ initialized /\ Result = {} /\ Live = Handed
         /\ call \in [fn : {"malloc", "calloc", "realloc"}, slot : Slots, size : Requests, got : BOOLEAN]
         /\ call.size \in Nat /\ call.size % 4 = 0 /\ call.size <= HeapRun
         /\ SizePlusBlk = call.size + 4 /\ SizePlusBlk \in Nat /\ SizePlusBlk >= 4 /\ SizePlusBlk % 4 = 0
         /\ \E n, L, j : WalkedTo(n, L, j)
<1>1. call # Idle /\ call.got # TRUE BY DEF Walking
<1>2. Result = {} /\ Live = Handed BY <1>1 DEF Result, HasResult, Live
<1>3. initialized BY <1>1 DEF IInv, CallInProgress
<1>4. call \in [fn : {"malloc", "calloc", "realloc"}, slot : Slots, size : Requests, got : BOOLEAN]
  BY <1>1 DEF IInv, StateType
<1>5. call.size \in Requests BY <1>4
<1>6. /\ call.size \in Nat /\ call.size % 4 = 0 /\ call.size <= HeapRun
      /\ SizePlusBlk = call.size + 4 /\ SizePlusBlk \in Nat /\ SizePlusBlk >= 4 /\ SizePlusBlk % 4 = 0
  <2> DEFINE r == call.size
  <2>1. r \in Requests BY <1>5
  <2> HIDE DEF r
  <2>2. r \in Nat /\ r % 4 = 0 /\ r <= HeapRun /\ r <= 65531 BY <2>1, Layout
  <2>3. r + 4 \in Address BY <2>2, AddressRange
  <2>4. SizeT(r + 4) = r + 4 BY <2>3, SmallSizeT
  <2>5. (r + 4) % 4 = 0 BY <2>2
  <2> QED BY <2>2, <2>4, <2>5, Layout DEF SizePlusBlk, r
<1>7. PICK n, L : n \in Nat /\ Listed(mem, freelist, n, L, Live) /\ WalkAt(n, L)
  BY <1>3 DEF IInv, ListInMemory
<1>8. PICK j \in 0 .. n :
        /\ walk = L[j] /\ prev = IF j = 0 THEN NULL ELSE L[j - 1]
        /\ \A k \in 0 .. j - 1 : SizeOf(mem, L[k]) < call.size + 4
  BY <1>7 DEF WalkAt
<1>9. walk = NULL <=> j = n BY <1>7, <1>8 DEF Listed, Chain
<1>10. WalkedTo(n, L, j) BY <1>6, <1>7, <1>8, <1>9 DEF WalkedTo
<1> QED BY <1>2, <1>3, <1>4, <1>6, <1>10

(* Skip: the walk goes on to the next node.                                *)
LEMMA SkipStep ==
  ASSUME IInv, Skip
  PROVE  IInv' /\ FreeBlocks' = FreeBlocks /\ LiveBlocks' = LiveBlocks /\ mem' = mem /\ call' = call
<1>1. /\ Walking /\ walk # NULL /\ SizePlusBlk > SizeOf(mem, walk)
      /\ prev' = walk /\ walk' = NextOf(mem, walk)
      /\ mem' = mem /\ freelist' = freelist /\ initialized' = initialized /\ call' = call /\ held' = held
  BY DEF Skip
<1>2. initialized /\ SizePlusBlk = call.size + 4 /\ SizePlusBlk \in Nat BY <1>1, WalkFacts
<1>0. PICK n, L, j : WalkedTo(n, L, j) BY <1>1, WalkFacts
<1>3. /\ n \in Nat /\ j \in 0 .. n /\ Listed(mem, freelist, n, L, Live)
      /\ walk = L[j] /\ prev = IF j = 0 THEN NULL ELSE L[j - 1]
      /\ \A k \in 0 .. j - 1 : SizeOf(mem, L[k]) < SizePlusBlk
      /\ walk = NULL <=> j = n
  BY <1>0 DEF WalkedTo
<1>4. j \in 0 .. n - 1 BY <1>1, <1>3
<1>5. Chain(mem, freelist, n, L) /\ L[j] \in NodesOf(n, L) BY <1>3, <1>4 DEF Listed, NodesOf
<1>6. Good(mem, walk) BY <1>3, <1>5 DEF Listed, Geometry
<1>7. MemType(mem) BY DEF IInv, StateType
<1>8. SizeOf(mem, walk) \in Nat /\ walk \in Address /\ NextOf(mem, walk) \in Address BY <1>6, <1>7, GoodBlock
<1>9. /\ Holders' = Holders /\ Handed' = Handed /\ Live' = Live /\ Result' = {}
      /\ Walking' = Walking /\ \A q \in Slots : HeadOf(q)' = HeadOf(q)
  BY <1>1 DEF Holders, Handed, HeadOf, Result, Live, HasResult, Walking
<1>10. WalkAt(n, L)'
  <2>1. j + 1 \in 0 .. n /\ (j + 1) - 1 = j /\ j + 1 # 0 BY <1>3, <1>4
  <2>2. walk' = L[j + 1] BY <1>1, <1>3, <1>4, <1>5 DEF Chain
  <2>3. \A k \in 0 .. (j + 1) - 1 : SizeOf(mem, L[k]) < call.size + 4
    <3> TAKE k \in 0 .. (j + 1) - 1
    <3>1. k \in 0 .. j - 1 \/ k = j BY <2>1
    <3> QED BY <1>1, <1>2, <1>3, <1>8, <3>1
  <2> QED BY <1>1, <1>3, <2>1, <2>2, <2>3 DEF WalkAt
<1>11. ListInMemory' BY <1>1, <1>2, <1>3, <1>9, <1>10 DEF ListInMemory
<1>12. StateType' BY <1>1, <1>8 DEF IInv, StateType
<1>13. HoldersApart' /\ ClientDataIntact'
  BY <1>1, <1>9 DEF IInv, HoldersApart, ClientDataIntact, Holders
<1>14. CallInProgress' BY <1>1, <1>2, <1>9 DEF IInv, CallInProgress
<1>15. FreeBlocks' = FreeBlocks /\ LiveBlocks' = LiveBlocks
  BY <1>1, <1>2, <1>9, BlocksAre
<1> QED BY <1>1, <1>11, <1>12, <1>13, <1>14, <1>15 DEF IInv

(* Exhausted: every node was passed, so none would have done.              *)
LEMMA ExhaustedStep ==
  ASSUME IInv, Exhausted
  PROVE  /\ IInv' /\ FreeBlocks' = FreeBlocks /\ LiveBlocks' = LiveBlocks /\ mem' = mem
         /\ \A b \in FreeBlocks : b.size < SizePlusBlk
<1>1. /\ Walking /\ walk = NULL /\ call' = [call EXCEPT !.got = TRUE]
      /\ mem' = mem /\ freelist' = freelist /\ initialized' = initialized
      /\ prev' = prev /\ walk' = walk /\ held' = held
  BY DEF Exhausted, Got
<1>2. /\ initialized /\ SizePlusBlk = call.size + 4
      /\ call \in [fn : {"malloc", "calloc", "realloc"}, slot : Slots, size : Requests, got : BOOLEAN]
  BY <1>1, WalkFacts
<1>0. PICK n, L, j : WalkedTo(n, L, j) BY <1>1, WalkFacts
<1>3. /\ n \in Nat /\ j \in 0 .. n /\ Listed(mem, freelist, n, L, Live)
      /\ walk = L[j] /\ prev = IF j = 0 THEN NULL ELSE L[j - 1]
      /\ \A k \in 0 .. j - 1 : SizeOf(mem, L[k]) < SizePlusBlk
      /\ walk = NULL <=> j = n
  BY <1>0 DEF WalkedTo
<1>4. /\ call' \in [fn : {"malloc", "calloc", "realloc"}, slot : Slots, size : Requests, got : BOOLEAN]
      /\ call'.fn = call.fn /\ call'.slot = call.slot /\ call'.got
  BY <1>1, <1>2
<1>5. /\ Holders' = Holders /\ Handed' = Handed /\ Result = {} /\ Result' = {} /\ Live' = Live
      /\ ~Walking' /\ \A q \in Slots : HeadOf(q)' = HeadOf(q)
  BY <1>1, <1>4 DEF Holders, Handed, HeadOf, Result, Live, HasResult, Walking
<1>6. ListInMemory' BY <1>1, <1>2, <1>3, <1>5 DEF ListInMemory
<1>7. StateType' BY <1>1, <1>4 DEF IInv, StateType
<1>8. HoldersApart' /\ ClientDataIntact'
  BY <1>1, <1>5 DEF IInv, HoldersApart, ClientDataIntact, Holders
<1>9. CallInProgress' BY <1>1, <1>2, <1>4, <1>5 DEF IInv, CallInProgress, Walking
<1>10. FreeBlocks' = FreeBlocks /\ LiveBlocks' = LiveBlocks
  BY <1>1, <1>2, <1>5, BlocksAre
<1>11. \A b \in FreeBlocks : b.size < SizePlusBlk
  <2>1. MemType(mem) /\ freelist \in Address BY DEF IInv, StateType
  <2>2. FreeBlocks = BlocksOf(mem, NodesOf(n, L)) BY <1>2, <1>3, <2>1, BlocksAre, FreeAre
  <2>3. \A h \in NodesOf(n, L) : SizeOf(mem, h) < SizePlusBlk BY <1>1, <1>3 DEF NodesOf
  <2> QED BY <2>2, <2>3 DEF BlocksOf
<1> QED BY <1>1, <1>6, <1>7, <1>8, <1>9, <1>10, <1>11 DEF IInv

(* malloc has taken the block it stands at. *)
LEMMA TakenStep ==
  ASSUME IInv, Walking, walk # NULL, Got, UNCHANGED <<initialized, prev, walk, held>>,
         MemType(mem'), freelist' \in Address, NEW n \in Nat, NEW L,
         Listed(mem', freelist', n, L, Live \cup {walk}), walk \notin Live,
         SizeOf(mem', walk) = SizePlusBlk, \A h \in Live : Keeps(mem, mem', h)
  PROVE  IInv' /\ Live' = Live \cup {walk}
<1>1. /\ initialized /\ Result = {} /\ Live = Handed /\ SizePlusBlk = call.size + 4
      /\ call \in [fn : {"malloc", "calloc", "realloc"}, slot : Slots, size : Requests, got : BOOLEAN]
  BY WalkFacts
<1>2. /\ initialized' = initialized /\ prev' = prev /\ walk' = walk /\ held' = held
      /\ call' \in [fn : {"malloc", "calloc", "realloc"}, slot : Slots, size : Requests, got : BOOLEAN]
      /\ call'.fn = call.fn /\ call'.slot = call.slot /\ call'.size = call.size /\ call'.got
  BY <1>1 DEF Got
<1>3. /\ Holders' = Holders /\ Handed' = Handed /\ Result' = {walk} /\ Live' = Live \cup {walk}
      /\ ~Walking' /\ \A q \in Slots : HeadOf(q)' = HeadOf(q)
  BY <1>1, <1>2 DEF Holders, Handed, HeadOf, Result, Live, HasResult, Walking
<1>4. ListInMemory' BY <1>1, <1>2, <1>3 DEF ListInMemory
<1>5. StateType' BY <1>2 DEF IInv, StateType
<1>6. \A p \in Holders : HeadOf(p) \in Live BY DEF Live, Handed
<1>7. HoldersApart'
  BY <1>2, <1>3, <1>6 DEF IInv, HoldersApart, Holders, Keeps
<1>8. CallInProgress' BY <1>1, <1>2, <1>3 DEF IInv, CallInProgress, Walking
<1>9. ClientDataIntact'
  <2> SUFFICES ASSUME NEW p \in Slots, held[p].filled
               PROVE  \A i \in 0 .. held[p].size - 1 : Byte(mem', held[p].ptr + i) = p
    BY <1>2 DEF ClientDataIntact
  <2>1. p \in Holders BY NoHolder
  <2>2. Keeps(mem, mem', HeadOf(p)) BY <1>6, <2>1
  <2> QED BY <2>1, <2>2, DataKept
<1> QED BY <1>3, <1>4, <1>5, <1>7, <1>8, <1>9 DEF IInv

(* ExactFit is TakeWhole of the abstract heap.                             *)
LEMMA ExactFitStep ==
  ASSUME IInv, ExactFit
  PROVE  IInv' /\ Abstract!Next /\ (NULL \in DOMAIN mem' <=> NULL \in DOMAIN mem) /\ walk' # NULL
<1>1. /\ Walking /\ walk # NULL /\ SizePlusBlk = SizeOf(mem, walk)
      /\ Relink(mem, NextOf(mem, walk)) /\ Got
      /\ UNCHANGED <<initialized, prev, walk, held>>
  BY DEF ExactFit
<1>2. /\ initialized /\ Live = Handed /\ SizePlusBlk = call.size + 4 /\ call.size \in Nat
  BY <1>1, WalkFacts
<1>0. PICK n, L, j : WalkedTo(n, L, j) BY <1>1, WalkFacts
<1>3. /\ n \in Nat /\ j \in 0 .. n /\ Listed(mem, freelist, n, L, Live)
      /\ walk = L[j] /\ prev = IF j = 0 THEN NULL ELSE L[j - 1]
      /\ walk = NULL <=> j = n
  BY <1>0 DEF WalkedTo
<1>4. j \in 0 .. n - 1 BY <1>1, <1>3
<1>5. /\ Chain(mem, freelist, n, L) /\ walk \in NodesOf(n, L) /\ walk \notin Live /\ Good(mem, walk)
  BY <1>3, <1>4 DEF Listed, NodesOf, Geometry
<1>6. L[j + 1] = NextOf(mem, walk) /\ L[j + 1] \in Address /\ (j # 0 => L[j - 1] # NULL) /\ L[0] = freelist
  BY <1>3, <1>4, <1>5 DEF Chain
<1>7. mem' = IF j = 0 THEN mem ELSE PutWord(mem, L[j - 1], L[j + 1])
  BY <1>1, <1>3, <1>6 DEF Relink
<1>8. freelist' = IF j = 0 THEN L[1] ELSE freelist
  <2>1. j = 0 => L[j + 1] = L[1] OBVIOUS
  <2> QED BY <1>1, <1>3, <1>6, <2>1 DEF Relink
<1>9. MemType(mem) /\ freelist \in Address BY DEF IInv, StateType
<1> DEFINE n1 == n - 1
           L1 == Removed(n, L, j)
<1>10. /\ MemType(mem') /\ Listed(mem', freelist', n - 1, L1, Live \cup {L[j]})
       /\ NodesOf(n - 1, L1) = NodesOf(n, L) \ {L[j]}
       /\ \A g \in NodesOf(n, L) \cup Live : Keeps(mem, mem', g)
       /\ (NULL \in DOMAIN mem' <=> NULL \in DOMAIN mem)
  <2>1. TakesWhole(mem, freelist, n, L, Live, j, mem', freelist')
    BY <1>3, <1>4, <1>7, <1>8, <1>9 DEF TakesWhole
  <2> QED BY <2>1, TakenWhole
<1>11. /\ n1 \in Nat /\ Listed(mem', freelist', n1, L1, Live \cup {walk})
       /\ NodesOf(n1, L1) = NodesOf(n, L) \ {walk}
       /\ freelist' \in Address /\ SizeOf(mem', walk) = SizePlusBlk /\ walk' = walk
  <2>1. n1 \in Nat BY <1>3, <1>4
  <2>2. freelist' \in Address BY <1>6, <1>8, <1>9
  <2>3. SizeOf(mem', walk) = SizePlusBlk BY <1>1, <1>5, <1>10 DEF Keeps
  <2> QED BY <1>1, <1>3, <1>10, <2>1, <2>2, <2>3
<1> HIDE DEF n1, L1
<1>12. IInv' /\ Live' = Live \cup {walk}
  BY <1>1, <1>5, <1>10, <1>11, TakenStep
<1> DEFINE b == [at |-> walk, size |-> SizeOf(mem, walk)]
           H == NodesOf(n, L)
<1>13. FreeBlocks' = FreeBlocks \ {b}
  <2>1. FreeBlocks = BlocksOf(mem, H) BY <1>2, <1>3, <1>9, BlocksAre, FreeAre
  <2>2. FreeBlocks' = BlocksOf(mem', H \ {walk})
    BY <1>1, <1>2, <1>10, <1>11, BlocksAre, FreeAre
  <2>3. BlocksOf(mem', H \ {walk}) = BlocksOf(mem, H \ {walk}) BY <1>10, BlocksKept DEF Keeps
  <2> QED BY <2>1, <2>2, <2>3, BlocksWithout
<1>14. LiveBlocks' = LiveBlocks \cup {b}
  <2>1. BlocksOf(mem', Live \cup {walk}) = BlocksOf(mem, Live \cup {walk})
    BY <1>5, <1>10, BlocksKept DEF Keeps
  <2> QED BY <1>12, <2>1, BlocksAre, BlocksWith
<1>15. b \in FreeBlocks
  <2>1. FreeBlocks = BlocksOf(mem, H) BY <1>2, <1>3, <1>9, BlocksAre, FreeAre
  <2> QED BY <1>5, <2>1 DEF BlocksOf
<1>16. call.size \in 0 .. HeapSize
  <2>1. walk + SizeOf(mem, walk) <= Top /\ walk \in Nat /\ HeapRun <= walk BY <1>5, <1>9, GoodBlock
  <2> QED BY <1>1, <1>2, <2>1, Layout
<1>17. b.size = call.size + HeaderSize BY <1>1, <1>2, Layout
<1>18. Abstract!TakeWhole(b, call.size) BY <1>13, <1>14, <1>17 DEF Abstract!TakeWhole
<1> HIDE DEF b
<1>19. Abstract!Next BY <1>15, <1>16, <1>18 DEF Abstract!Next, Abstract!Allocate
<1> QED BY <1>1, <1>10, <1>11, <1>12, <1>19

(* Split is TakeFront of the abstract heap.                                *)
LEMMA SplitStep ==
  ASSUME IInv, Split
  PROVE  IInv' /\ Abstract!Next /\ (NULL \in DOMAIN mem' <=> NULL \in DOMAIN mem) /\ walk' # NULL
<1> DEFINE rem == SizeT(walk + SizePlusBlk)
           rest == SizeOf(mem, walk) - SizePlusBlk
           m0 == PutHeader(PutHeader(mem, walk, rem, SizePlusBlk), rem, NextOf(mem, walk),
                           SizeT(SizeOf(mem, walk) - SizePlusBlk))
<1>1. /\ Walking /\ walk # NULL /\ SizePlusBlk < SizeOf(mem, walk)
      /\ Relink(m0, rem) /\ Got
      /\ UNCHANGED <<initialized, prev, walk, held>>
  BY DEF Split
<1>2. /\ initialized /\ Live = Handed /\ SizePlusBlk = call.size + 4 /\ call.size \in Nat
      /\ SizePlusBlk \in Nat /\ SizePlusBlk >= 4 /\ SizePlusBlk % 4 = 0
  BY <1>1, WalkFacts
<1>0. PICK n, L, j : WalkedTo(n, L, j) BY <1>1, WalkFacts
<1>3. /\ n \in Nat /\ j \in 0 .. n /\ Listed(mem, freelist, n, L, Live)
      /\ walk = L[j] /\ prev = IF j = 0 THEN NULL ELSE L[j - 1]
      /\ walk = NULL <=> j = n
  BY <1>0 DEF WalkedTo
<1>4. j \in 0 .. n - 1 BY <1>1, <1>3
<1>5. /\ Chain(mem, freelist, n, L) /\ walk \in NodesOf(n, L) /\ walk \notin Live /\ Good(mem, walk)
  BY <1>3, <1>4 DEF Listed, NodesOf, Geometry
<1>6. (j # 0 => L[j - 1] # NULL) /\ L[0] = freelist
  BY <1>3, <1>4, <1>5 DEF Chain
<1>7. MemType(mem) /\ freelist \in Address BY DEF IInv, StateType
<1>8. /\ walk \in Nat /\ SizeOf(mem, walk) \in Nat /\ HeapRun <= walk /\ walk + SizeOf(mem, walk) <= Top
      /\ SizeOf(mem, walk) % 4 = 0
  BY <1>5, <1>7, GoodBlock
<1>9. /\ rem = walk + SizePlusBlk /\ rem \in Address /\ SizeT(SizeOf(mem, walk) - SizePlusBlk) = rest
      /\ rest \in Nat /\ rest >= 4 /\ rest <= HeapSize
  <2>1. /\ walk + SizePlusBlk \in Address /\ rest \in Address
        /\ rest \in Nat /\ rest >= 4 /\ rest <= HeapSize
    BY <1>1, <1>2, <1>8, Layout, AddressRange
  <2> QED BY <2>1, SmallSizeT
<1>10. m0 = PutHeader(PutHeader(mem, walk, rem, SizePlusBlk), rem, NextOf(mem, walk), SizeOf(mem, walk) - SizePlusBlk)
  BY <1>9
<1> HIDE DEF m0, rem
<1>11. mem' = IF j = 0 THEN m0 ELSE PutWord(m0, L[j - 1], rem)
  BY <1>1, <1>3, <1>6 DEF Relink
<1>12. freelist' = IF j = 0 THEN rem ELSE freelist
  BY <1>1, <1>3, <1>6 DEF Relink
<1> DEFINE L1 == Replaced(n, L, j, rem)
<1>13. /\ MemType(mem') /\ Listed(mem', freelist', n, L1, Live \cup {walk})
       /\ NodesOf(n, L1) = (NodesOf(n, L) \ {walk}) \cup {rem}
       /\ \A g \in NodesOf(n, L) \cup Live : g # walk => Keeps(mem, mem', g)
       /\ SizeOf(mem', walk) = SizePlusBlk /\ SizeOf(mem', rem) = SizeOf(mem, walk) - SizePlusBlk
       /\ rem \notin NodesOf(n, L) \cup Live
       /\ (NULL \in DOMAIN mem' <=> NULL \in DOMAIN mem)
  <2>1. TakesFront(mem, freelist, n, L, Live, j, walk, SizePlusBlk, rem, m0, mem', freelist')
    BY <1>1, <1>2, <1>3, <1>4, <1>7, <1>9, <1>10, <1>11, <1>12 DEF TakesFront
  <2>2. FrontTaken(mem, n, L, Live, j, walk, SizePlusBlk, rem, mem', freelist')
    BY ONLY <2>1, TakenFront
  <2> QED BY <2>2 DEF FrontTaken, L1
<1> HIDE DEF L1
<1>14. freelist' \in Address /\ walk' = walk BY <1>1, <1>7, <1>9, <1>12
<1>15. \A h \in Live : Keeps(mem, mem', h) BY <1>5, <1>13
<1>16. IInv' /\ Live' = Live \cup {walk}
  BY <1>1, <1>3, <1>5, <1>13, <1>14, <1>15, TakenStep
<1> DEFINE b == [at |-> walk, size |-> SizeOf(mem, walk)]
           H == NodesOf(n, L)
           s == call.size
<1>17. FreeBlocks = BlocksOf(mem, H) BY <1>2, <1>3, <1>7, BlocksAre, FreeAre
<1>18. b \in FreeBlocks BY <1>5, <1>17 DEF BlocksOf
<1>19. FreeBlocks' = (FreeBlocks \ {b}) \cup {[at |-> rem, size |-> rest]}
  <2>1. FreeBlocks' = BlocksOf(mem', Nodes(mem', freelist')) BY <1>1, <1>2, BlocksAre
  <2>4. BlocksOf(mem', Nodes(mem', freelist')) = BlocksOf(mem', (H \ {walk}) \cup {rem})
    BY <1>3, <1>13, <1>14, FreeAre
  <2>2. BlocksOf(mem', H \ {walk}) = BlocksOf(mem, H \ {walk}) BY <1>13, BlocksKept DEF Keeps
  <2>3. BlocksOf(mem', (H \ {walk}) \cup {rem})
          = BlocksOf(mem', H \ {walk}) \cup {[at |-> rem, size |-> rest]}
    BY <1>13, BlocksWith
  <2> QED BY <1>17, <2>1, <2>2, <2>3, <2>4, BlocksWithout
<1>20. LiveBlocks' = LiveBlocks \cup {[at |-> walk, size |-> SizePlusBlk]}
  <2>1. BlocksOf(mem', Live) = BlocksOf(mem, Live) BY <1>15, BlocksKept DEF Keeps
  <2>2. BlocksOf(mem', Live \cup {walk}) = BlocksOf(mem', Live) \cup {[at |-> walk, size |-> SizePlusBlk]}
    BY <1>13, BlocksWith
  <2> QED BY <1>16, <2>1, <2>2, BlocksAre
<1>21. /\ b.at = walk /\ b.size = SizeOf(mem, walk) /\ s + HeaderSize = SizePlusBlk
       /\ walk + s + HeaderSize = rem /\ SizeOf(mem, walk) - s - HeaderSize = rest
       /\ SizeOf(mem, walk) >= s + 2 * HeaderSize /\ s \in 0 .. HeapSize
  BY <1>2, <1>8, <1>9, Layout
<1> HIDE DEF b, s, rest
<1>22. Abstract!TakeFront(b, s)
  BY <1>19, <1>20, <1>21 DEF Abstract!TakeFront, Abstract!Block
<1>23. Abstract!Next BY <1>18, <1>21, <1>22 DEF Abstract!Next, Abstract!Allocate
<1> QED BY <1>1, <1>13, <1>14, <1>16, <1>23

-----------------------------------------------------------------------------
(* The end of a call, and what the client does by itself.                  *)
CallType == [fn : {"malloc", "calloc", "realloc"}, slot : Slots, size : Requests, got : BOOLEAN]

(* malloc has returned: walk is NULL, or a block that nobody holds.        *)
LEMMA ReturnFacts ==
  ASSUME IInv, call.got
  PROVE  /\ initialized /\ call \in CallType /\ call.slot \in Slots
         /\ call.size \in Requests /\ call.size \in Nat /\ call.size <= HeapRun
         /\ (call.fn = "realloc" <=> call.slot \in Holders) /\ ~Walking
         /\ \E n, L : n \in Nat /\ Listed(mem, freelist, n, L, Live)
         /\ walk = NULL => Newblk = NULL /\ Live = Handed
         /\ walk # NULL => /\ Newblk = walk + 4 /\ Newblk # NULL /\ Newblk \in Address
                           /\ HEADER(Newblk) = walk /\ walk \in Nat
                           /\ walk \in Live /\ walk \notin Handed /\ Live = Handed \cup {walk}
                           /\ Good(mem, walk) /\ SizeOf(mem, walk) = call.size + 4
<1>1. call # Idle /\ ~Walking BY DEF Idle, Walking
<1>2. initialized /\ (call.fn = "realloc" <=> call.slot \in Holders) BY <1>1 DEF IInv, CallInProgress
<1>3. call \in CallType BY <1>1 DEF IInv, StateType, CallType
<1>4. call.slot \in Slots /\ call.size \in Requests BY <1>3 DEF CallType
<1>5. call.size \in Nat /\ call.size <= HeapRun
  <2> DEFINE r == call.size
  <2>1. r \in Requests BY <1>4
  <2> HIDE DEF r
  <2>2. r \in Nat /\ r <= HeapRun BY <2>1, Layout
  <2> QED BY <2>2 DEF r
<1>6. \E n, L : n \in Nat /\ Listed(mem, freelist, n, L, Live) BY <1>2 DEF IInv, ListInMemory
<1>7. walk = NULL => Newblk = NULL /\ Live = Handed BY DEF Newblk, Live, Result, HasResult
<1>8. ASSUME walk # NULL
      PROVE  /\ Newblk = walk + 4 /\ Newblk # NULL /\ Newblk \in Address
             /\ HEADER(Newblk) = walk /\ walk \in Nat
             /\ walk \in Live /\ walk \notin Handed /\ Live = Handed \cup {walk}
             /\ Good(mem, walk) /\ SizeOf(mem, walk) = call.size + 4
  <2>1. Result = {walk} BY <1>8 DEF Result, HasResult
  <2>2. SizeOf(mem, walk) = call.size + 4 /\ walk \notin Handed /\ walk \in Live /\ Live = Handed \cup {walk}
    BY <2>1 DEF IInv, CallInProgress, Live
  <2>3. Good(mem, walk) BY <1>6, <2>2 DEF Listed, Geometry
  <2>4. walk \in Nat /\ HeapRun <= walk /\ walk + 4 <= Top
    <3>1. MemType(mem) BY DEF IInv, StateType
    <3> QED BY <2>3, <3>1, GoodBlock, Layout
  <2>5. Newblk = BLOCK(walk) BY <1>8 DEF Newblk
  <2> QED BY <2>2, <2>3, <2>4, <2>5, BehindHeader
<1> QED BY <1>1, <1>2, <1>3, <1>4, <1>5, <1>6, <1>7, <1>8

(* malloc and calloc hand the block to the client.  calloc has filled it:  *)
(* m is what memory has become.                                            *)
LEMMA GivenStep ==
  ASSUME IInv, call.got, call.fn # "realloc", NEW m, MemType(m), Return(Newblk, m, call.size, FALSE),
         UNCHANGED <<freelist, initialized>>,
         NEW n, NEW L, n \in Nat, Listed(mem, freelist, n, L, Live),
         \A h \in NodesOf(n, L) \cup Live : SizeOf(m, h) = SizeOf(mem, h) /\ NextOf(m, h) = NextOf(mem, h),
         \A h \in Handed : Keeps(mem, m, h)
  PROVE  IInv' /\ FreeBlocks' = FreeBlocks /\ LiveBlocks' = LiveBlocks
<1>0. PICK s \in Slots : s = call.slot BY ReturnFacts
<1> DEFINE new == [ptr |-> Newblk, size |-> call.size, filled |-> FALSE]
<1>1. /\ call' = Idle /\ prev' = NULL /\ walk' = NULL /\ mem' = m
      /\ freelist' = freelist /\ initialized' = initialized /\ initialized
      /\ held' = [held EXCEPT ![s] = IF Newblk = NULL THEN Empty ELSE new]
  BY <1>0, ReturnFacts DEF Return
<1>2. s \in Slots /\ s \notin Holders /\ held[s] = Empty BY <1>0, ReturnFacts, NoHolder
<1>3. held \in [Slots -> [ptr : Address, size : Requests \cup {0}, filled : BOOLEAN]]
  BY DEF IInv, StateType
<1>4. /\ \A q \in Slots : q # s => held'[q] = held[q] /\ HeadOf(q)' = HeadOf(q)
      /\ walk = NULL => held' = held
      /\ walk # NULL => held'[s] = new /\ HeadOf(s)' = walk
      /\ Result' = {} /\ ~Walking'
  <2>1. walk = NULL => held' = held BY <1>1, <1>2, <1>3, ReturnFacts
  <2>2. walk # NULL => held'[s] = new BY <1>1, <1>2, <1>3, ReturnFacts
  <2>3. \A q \in Slots : q # s => held'[q] = held[q] BY <1>1, <1>3
  <2>4. walk # NULL => HeadOf(s)' = walk BY <2>2, ReturnFacts DEF HeadOf
  <2>5. Result' = {} /\ ~Walking' BY <1>1 DEF Result, HasResult, Idle, Walking
  <2> QED BY <2>1, <2>2, <2>3, <2>4, <2>5 DEF HeadOf
<1>5. /\ walk = NULL => Holders' = Holders
      /\ walk # NULL => Holders' = Holders \cup {s}
  <2>1. new # Empty <=> ~(Newblk = NULL /\ call.size = 0) BY DEF Empty
  <2>2. walk # NULL => new # Empty BY <2>1, ReturnFacts
  <2> QED BY <1>2, <1>4, <2>2 DEF Holders
<1>6. Live' = Live
  <2>1. CASE walk = NULL
    <3>1. Handed' = Handed BY <1>4, <1>5, <2>1 DEF Handed, HeadOf
    <3> QED BY <1>4, <2>1, <3>1, ReturnFacts DEF Live
  <2>2. CASE walk # NULL
    <3>1. \A q \in Holders : q \in Slots /\ q # s BY <1>2 DEF Holders
    <3>2. Handed' = Handed \cup {walk} BY <1>2, <1>4, <1>5, <2>2, <3>1 DEF Handed
    <3> QED BY <1>4, <2>2, <3>2, ReturnFacts DEF Live
  <2> QED BY <2>1, <2>2
<1>7. Listed(mem', freelist', n, L, Live') BY <1>1, <1>6, ListedSame
<1>8. ListInMemory' BY <1>1, <1>4, <1>7 DEF ListInMemory
<1>9. StateType'
  <2>1. NULL \in Address BY Layout, AddressRange
  <2>2. held' \in [Slots -> [ptr : Address, size : Requests \cup {0}, filled : BOOLEAN]]
    <3>1. CASE walk = NULL BY <1>3, <1>4, <3>1
    <3>2. CASE walk # NULL
      <4>1. new \in [ptr : Address, size : Requests \cup {0}, filled : BOOLEAN] BY <3>2, ReturnFacts
      <4>2. held' = [held EXCEPT ![s] = new] BY <1>1, <3>2, ReturnFacts
      <4> HIDE DEF new
      <4> QED BY <1>3, <4>1, <4>2
    <3> QED BY <3>1, <3>2
  <2> QED BY <1>1, <2>1, <2>2 DEF IInv, StateType
<1>10. CallInProgress' BY <1>1, <1>4 DEF CallInProgress
<1>11. \A h \in Live : SizeOf(mem', h) = SizeOf(mem, h) BY <1>1
<1>12. \A q \in Holders : q \in Slots /\ q # s /\ HeadOf(q) \in Live /\ HeadOf(q) \in Handed
  BY <1>2 DEF Holders, Live, Handed
<1>13. HoldersApart'
  <2>1. CASE walk = NULL
    BY <1>4, <1>5, <1>11, <1>12, <2>1 DEF IInv, HoldersApart
  <2>2. CASE walk # NULL
    <3>1. /\ HeadOf(s)' = walk /\ held'[s].ptr = walk + 4 /\ held'[s].size + 4 = SizeOf(mem', walk)
          /\ \A q \in Holders : HeadOf(q) # walk /\ HeadOf(q)' = HeadOf(q) /\ held'[q] = held[q]
      BY <1>4, <1>11, <1>12, <2>2, ReturnFacts
    <3>2. SizeOf(mem', walk) \in Int BY <1>11, <2>2, ReturnFacts
    <3>3. ASSUME NEW p \in Holders'
          PROVE  held'[p].ptr = HeadOf(p)' + 4 /\ held'[p].size + 4 <= SizeOf(mem', HeadOf(p)')
      <4>1. CASE p = s BY <3>1, <3>2, <4>1
      <4>2. CASE p \in Holders BY <1>11, <1>12, <3>1, <4>2 DEF IInv, HoldersApart
      <4> QED BY <1>5, <2>2, <4>1, <4>2
    <3>4. ASSUME NEW p \in Holders', NEW q \in Holders', HeadOf(p)' = HeadOf(q)' PROVE p = q
      BY <1>5, <2>2, <3>1, <3>4 DEF IInv, HoldersApart
    <3> QED BY <3>3, <3>4 DEF HoldersApart
  <2> QED BY <2>1, <2>2
<1>14. ClientDataIntact'
  <2> SUFFICES ASSUME NEW p \in Slots, held'[p].filled
               PROVE  \A i \in 0 .. held'[p].size - 1 : Byte(mem', held'[p].ptr + i) = p
    BY DEF ClientDataIntact
  <2>1. p # s BY <1>2, <1>4 DEF Empty
  <2>2. held'[p] = held[p] BY <1>4, <2>1
  <2>3. p \in Holders BY <2>2, NoHolder
  <2> QED BY <1>1, <1>12, <2>2, <2>3, DataKept
<1>15. FreeBlocks' = FreeBlocks
  <2>1. MemType(mem) /\ MemType(mem') /\ freelist \in Address BY <1>1 DEF IInv, StateType
  <2>2. FreeBlocks = BlocksOf(mem, NodesOf(n, L)) BY <1>1, <2>1, BlocksAre, FreeAre
  <2>3. FreeBlocks' = BlocksOf(mem', NodesOf(n, L)) BY <1>1, <1>7, <2>1, BlocksAre, FreeAre
  <2>4. BlocksOf(mem', NodesOf(n, L)) = BlocksOf(mem, NodesOf(n, L)) BY <1>1, BlocksKept
  <2> QED BY <2>2, <2>3, <2>4
<1>16. LiveBlocks' = LiveBlocks BY <1>6, <1>11, BlocksAre, BlocksKept
<1> QED BY <1>8, <1>9, <1>10, <1>13, <1>14, <1>15, <1>16 DEF IInv

LEMMA ReturnMallocStep ==
  ASSUME IInv, ReturnMalloc
  PROVE  IInv' /\ FreeBlocks' = FreeBlocks /\ LiveBlocks' = LiveBlocks /\ mem' = mem
<1>1. /\ call.got /\ call.fn # "realloc" /\ Return(Newblk, mem, call.size, FALSE)
      /\ UNCHANGED <<freelist, initialized>> /\ mem' = mem
  BY DEF ReturnMalloc, Return
<1>2. PICK n, L : n \in Nat /\ Listed(mem, freelist, n, L, Live) BY <1>1, ReturnFacts
<1>3. MemType(mem) BY DEF IInv, StateType
<1>4. \A h \in Handed : Keeps(mem, mem, h) BY DEF Keeps
<1> QED BY <1>1, <1>2, <1>3, <1>4, GivenStep

(* What is written to NULL keeps every block. *)
LEMMA NullWrite ==
  ASSUME NEW m, MemType(m), NEW n \in Nat, n <= HeapRun,
         NEW bytes \in [0 .. n - 1 -> Octet], NEW m1, m1 = PutBytes(m, NULL, bytes)
  PROVE  MemType(m1) /\ \A h : Good(m, h) => Keeps(m, m1, h) /\ NextOf(m1, h) = NextOf(m, h)
<1>1. MemType(m1) /\ \A d \in Cells : Byte(m1, d) = Byte(m, d) BY PutAtNull
<1>2. SameBut(m, m1, 0, 0) BY <1>1 DEF SameBut
<1>3. ASSUME NEW h, Good(m, h) PROVE Keeps(m, m1, h) /\ NextOf(m1, h) = NextOf(m, h)
  <2>1. 0 \in Int /\ 0 <= h BY <1>3 DEF Good
  <2> QED BY <1>2, <1>3, <2>1, KeptOutside
<1> QED BY <1>1, <1>3

(* What calloc and realloc write, to the new block or to NULL.             *)
LEMMA Fill ==
  ASSUME IInv, call.got, NEW bytes \in [0 .. call.size - 1 -> Octet],
         NEW m, m = PutBytes(mem, Newblk, bytes),
         NEW n, NEW L, n \in Nat, Listed(mem, freelist, n, L, Live)
  PROVE  /\ MemType(m)
         /\ \A h \in NodesOf(n, L) \cup Live : SizeOf(m, h) = SizeOf(mem, h) /\ NextOf(m, h) = NextOf(mem, h)
         /\ \A h \in Handed : Keeps(mem, m, h)
         /\ walk # NULL => /\ \A i \in 0 .. call.size - 1 : Byte(m, Newblk + i) = bytes[i]
                           /\ (NULL \in DOMAIN m <=> NULL \in DOMAIN mem)
<1> DEFINE r == call.size
           B == NodesOf(n, L) \cup Live
<1>1. MemType(mem) /\ Geometry(mem, B) BY DEF IInv, StateType, Listed
<1>2. r \in Nat /\ r <= HeapRun /\ bytes \in [0 .. r - 1 -> Octet] BY ReturnFacts
<1>3. Handed \subseteq B BY DEF Live
<1>4. CASE walk = NULL
  <2>1. m = PutBytes(mem, NULL, bytes) BY <1>4, ReturnFacts
  <2> HIDE DEF r, B
  <2>2. MemType(m) /\ \A h : Good(mem, h) => Keeps(mem, m, h) /\ NextOf(m, h) = NextOf(mem, h)
    BY <1>1, <1>2, <2>1, NullWrite
  <2>3. \A h \in B : Keeps(mem, m, h) /\ NextOf(m, h) = NextOf(mem, h) BY <1>1, <2>2 DEF Geometry
  <2> QED BY <1>3, <1>4, <2>2, <2>3 DEF Keeps, B
<1>5. CASE walk # NULL
  <2>1. /\ walk \in B /\ walk \notin Handed /\ r + 4 <= SizeOf(mem, walk) /\ m = PutBytes(mem, walk + 4, bytes)
        /\ Newblk = walk + 4
    BY <1>2, <1>5, ReturnFacts
  <2> HIDE DEF r, B
  <2>2. /\ MemType(m) /\ \A i \in 0 .. r - 1 : Byte(m, walk + 4 + i) = bytes[i]
        /\ \A g \in B : SizeOf(m, g) = SizeOf(mem, g) /\ NextOf(m, g) = NextOf(mem, g)
        /\ \A g \in B : g # walk => Keeps(mem, m, g)
        /\ (NULL \in DOMAIN m <=> NULL \in DOMAIN mem)
    BY <1>1, <1>2, <2>1, DataWrite
  <2>3. \A h \in Handed : Keeps(mem, m, h) BY <1>3, <2>1, <2>2
  <2> QED BY <2>1, <2>2, <2>3 DEF B, r
<1> QED BY <1>4, <1>5

LEMMA ReturnCallocStep ==
  ASSUME IInv, ReturnCalloc
  PROVE  /\ IInv' /\ FreeBlocks' = FreeBlocks /\ LiveBlocks' = LiveBlocks
         /\ walk # NULL => (NULL \in DOMAIN mem' <=> NULL \in DOMAIN mem)
<1> DEFINE bytes == [i \in 0 .. call.size - 1 |-> 0]
           m == PutBytes(mem, Newblk, bytes)
<1>1. /\ call.got /\ call.fn # "realloc" /\ Return(Newblk, m, call.size, FALSE)
      /\ UNCHANGED <<freelist, initialized>> /\ mem' = m
  BY DEF ReturnCalloc, Return
<1>2. bytes \in [0 .. call.size - 1 -> Octet] BY OctetRange
<1>3. PICK n, L : n \in Nat /\ Listed(mem, freelist, n, L, Live) BY <1>1, ReturnFacts
<1>4. m = PutBytes(mem, Newblk, bytes) OBVIOUS
<1> HIDE DEF bytes, m
<1>5. /\ MemType(m)
      /\ \A h \in NodesOf(n, L) \cup Live : SizeOf(m, h) = SizeOf(mem, h) /\ NextOf(m, h) = NextOf(mem, h)
      /\ \A h \in Handed : Keeps(mem, m, h)
      /\ walk # NULL => (NULL \in DOMAIN m <=> NULL \in DOMAIN mem)
  BY <1>1, <1>2, <1>3, <1>4, Fill
<1> QED BY <1>1, <1>3, <1>5, GivenStep

(* The client fills its block, and no other.                               *)
LEMMA UseStep ==
  ASSUME IInv, NEW p \in Slots, Use(p)
  PROVE  IInv' /\ FreeBlocks' = FreeBlocks /\ LiveBlocks' = LiveBlocks
         /\ (NULL \in DOMAIN mem' <=> NULL \in DOMAIN mem)
<1> DEFINE r == held[p].size
           bytes == [i \in 0 .. r - 1 |-> p]
           h == HeadOf(p)
<1>1. /\ call = Idle /\ held[p] # Empty /\ p \in Holders
      /\ mem' = PutBytes(mem, held[p].ptr, bytes) /\ held' = [held EXCEPT ![p].filled = TRUE]
      /\ freelist' = freelist /\ initialized' = initialized /\ call' = call /\ prev' = prev /\ walk' = walk
  BY DEF Use, Holders
<1>2. bytes \in [0 .. r - 1 -> Octet] BY AllocAssumption
<1>3. /\ initialized /\ h \in Live /\ held[p].ptr = h + 4 /\ r + 4 <= SizeOf(mem, h) /\ r \in Nat
      /\ held[p].ptr # NULL /\ r = held[p].size
  BY <1>1, HolderBlock
<1>4. PICK n, L : n \in Nat /\ Listed(mem, freelist, n, L, Live) BY <1>3 DEF IInv, ListInMemory
<1> DEFINE B == NodesOf(n, L) \cup Live
<1>5. MemType(mem) /\ Geometry(mem, B) /\ h \in B /\ mem' = PutBytes(mem, h + 4, bytes)
  BY <1>1, <1>3, <1>4 DEF IInv, StateType, Listed
<1>6. bytes = [i \in 0 .. r - 1 |-> p] OBVIOUS
<1>7. h = HeadOf(p) OBVIOUS
<1> HIDE DEF B, bytes, r, h
<1>8. /\ MemType(mem') /\ \A i \in 0 .. r - 1 : Byte(mem', h + 4 + i) = bytes[i]
      /\ \A g \in B : SizeOf(mem', g) = SizeOf(mem, g) /\ NextOf(mem', g) = NextOf(mem, g)
      /\ \A g \in B : g # h => Keeps(mem, mem', g)
      /\ (NULL \in DOMAIN mem' <=> NULL \in DOMAIN mem)
  BY <1>2, <1>3, <1>5, DataWrite
<1>9. held \in [Slots -> [ptr : Address, size : Requests \cup {0}, filled : BOOLEAN]]
  BY DEF IInv, StateType
<1>10. /\ \A q \in Slots : q # p => held'[q] = held[q]
       /\ held'[p] = [held[p] EXCEPT !.filled = TRUE]
       /\ held'[p].ptr = held[p].ptr /\ held'[p].size = held[p].size
       /\ held'[p] \in [ptr : Address, size : Requests \cup {0}, filled : BOOLEAN]
       /\ held' \in [Slots -> [ptr : Address, size : Requests \cup {0}, filled : BOOLEAN]]
  BY <1>1, <1>9
<1>11. \A q \in Slots : /\ held'[q].ptr = held[q].ptr /\ held'[q].size = held[q].size
                        /\ HeadOf(q)' = HeadOf(q)
  BY <1>10 DEF HeadOf
<1>12. Holders' = Holders
  <2>1. held'[p] # Empty BY <1>3, <1>10 DEF Empty
  <2> QED BY <1>1, <1>10, <2>1 DEF Holders
<1>13. Handed' = Handed /\ Result = {} /\ Result' = {} /\ Live' = Live /\ ~Walking'
  BY <1>1, <1>11, <1>12 DEF Handed, Holders, Result, HasResult, Live, Walking, Idle
<1>14. Listed(mem', freelist', n, L, Live') BY <1>1, <1>4, <1>8, <1>13, ListedSame DEF B
<1>15. ListInMemory' BY <1>1, <1>3, <1>4, <1>13, <1>14 DEF ListInMemory
<1>16. StateType' BY <1>1, <1>8, <1>10 DEF IInv, StateType
<1>17. CallInProgress' BY <1>1, <1>13 DEF CallInProgress
<1>18. \A q \in Holders : q \in Slots /\ HeadOf(q) \in B BY DEF Holders, B, Live, Handed
<1>19. HoldersApart' BY <1>8, <1>11, <1>12, <1>18 DEF IInv, HoldersApart
<1>20. ClientDataIntact'
  <2> SUFFICES ASSUME NEW q \in Slots, held'[q].filled
               PROVE  \A i \in 0 .. held[q].size - 1 : Byte(mem', held[q].ptr + i) = q
    BY <1>11 DEF ClientDataIntact
  <2>1. CASE q = p BY <1>3, <1>6, <1>8, <2>1
  <2>2. CASE q # p
    <3>1. held[q].filled /\ q \in Holders BY <1>10, <2>2, NoHolder
    <3>2. HeadOf(q) # h BY <1>1, <1>7, <2>2, <3>1 DEF IInv, HoldersApart
    <3>3. Keeps(mem, mem', HeadOf(q)) BY <1>8, <1>18, <3>1, <3>2
    <3> QED BY <3>1, <3>3, DataKept
  <2> QED BY <2>1, <2>2
<1>21. FreeBlocks' = FreeBlocks
  <2>1. freelist \in Address BY DEF IInv, StateType
  <2>2. FreeBlocks = BlocksOf(mem, NodesOf(n, L)) BY <1>3, <1>4, <1>5, <2>1, BlocksAre, FreeAre
  <2>3. FreeBlocks' = BlocksOf(mem', NodesOf(n, L))
    BY <1>1, <1>3, <1>4, <1>8, <1>14, <2>1, BlocksAre, FreeAre
  <2>4. BlocksOf(mem', NodesOf(n, L)) = BlocksOf(mem, NodesOf(n, L)) BY <1>8, BlocksKept DEF B
  <2> QED BY <2>2, <2>3, <2>4
<1>22. LiveBlocks' = LiveBlocks BY <1>8, <1>13, BlocksAre, BlocksKept DEF B
<1> QED BY <1>8, <1>15, <1>16, <1>17, <1>19, <1>20, <1>21, <1>22 DEF IInv

(* What free and realloc have in common: a block goes back to the list.    *)
LEMMA Released ==
  ASSUME IInv, NEW s \in Holders, NEW m, MemType(m),
         NEW n, NEW L, n \in Nat, Listed(mem, freelist, n, L, Live),
         \A h \in NodesOf(n, L) \cup Live : SizeOf(m, h) = SizeOf(mem, h) /\ NextOf(m, h) = NextOf(mem, h),
         mem' = Freed(m, held[s].ptr), freelist' = HEADER(held[s].ptr), initialized' = initialized,
         Live' = Live \ {HeadOf(s)}
  PROVE  /\ MemType(mem') /\ freelist' \in Address
         /\ \E n1, L1 : n1 \in Nat /\ Listed(mem', freelist', n1, L1, Live')
         /\ \A h \in Live : Keeps(m, mem', h)
         /\ (NULL \in DOMAIN mem' <=> NULL \in DOMAIN m)
         /\ Abstract!Next
<1> DEFINE h == HeadOf(s)
           B == NodesOf(n, L) \cup Live
<1>1. MemType(mem) /\ freelist \in Address BY DEF IInv, StateType
<1>2. h \in Live /\ h \in Address /\ initialized BY HolderBlock
<1>3. Listed(m, freelist, n, L, Live) BY ListedSame
<1>4. mem' = PutWord(m, h, freelist) /\ freelist' = h BY DEF Freed, HeadOf
<1>5. Live' = Live \ {h} OBVIOUS
<1> HIDE DEF h
<1>6. /\ MemType(mem') /\ Listed(mem', h, n + 1, Pushed(n, L, h), Live \ {h})
      /\ NodesOf(n + 1, Pushed(n, L, h)) = NodesOf(n, L) \cup {h}
      /\ \A g \in B : Keeps(m, mem', g)
      /\ (NULL \in DOMAIN mem' <=> NULL \in DOMAIN m)
  BY <1>1, <1>2, <1>3, <1>4, FreedBlock
<1> DEFINE n1 == n + 1
           L1 == Pushed(n, L, h)
<1>7. /\ n1 \in Nat /\ Listed(mem', freelist', n1, L1, Live')
      /\ NodesOf(n1, L1) = NodesOf(n, L) \cup {h}
  BY <1>4, <1>5, <1>6
<1> HIDE DEF n1, L1
<1> DEFINE b == [at |-> h, size |-> SizeOf(mem, h)]
           H == NodesOf(n, L)
<1>8. \A g \in B : SizeOf(mem', g) = SizeOf(mem, g) BY <1>6 DEF Keeps
<1>9. LiveBlocks' = LiveBlocks \ {b}
  <2>1. BlocksOf(mem', Live \ {h}) = BlocksOf(mem, Live \ {h}) BY <1>8, BlocksKept
  <2> QED BY <1>5, <2>1, BlocksAre, BlocksWithout
<1>10. FreeBlocks' = FreeBlocks \cup {b}
  <2>1. FreeBlocks = BlocksOf(mem, H) BY <1>1, <1>2, BlocksAre, FreeAre
  <2>2. FreeBlocks' = BlocksOf(mem', H \cup {h})
    <3>1. FreeBlocks' = BlocksOf(mem', Nodes(mem', freelist')) BY <1>2, BlocksAre
    <3>2. BlocksOf(mem', Nodes(mem', freelist')) = BlocksOf(mem', NodesOf(n1, L1))
      <4>1. MemType(mem') /\ freelist' \in Address /\ n1 \in Nat /\ Listed(mem', freelist', n1, L1, Live')
        BY <1>2, <1>4, <1>6, <1>7
      <4> QED BY ONLY <4>1, FreeAre
    <3> QED BY <1>7, <3>1, <3>2
  <2>3. BlocksOf(mem', H \cup {h}) = BlocksOf(mem, H \cup {h}) BY <1>2, <1>8, BlocksKept
  <2> QED BY <2>1, <2>2, <2>3, BlocksWith
<1>11. b \in LiveBlocks BY <1>2, BlocksAre DEF BlocksOf
<1> HIDE DEF b
<1>12. Abstract!Next BY <1>9, <1>10, <1>11 DEF Abstract!Next, Abstract!Release
<1> QED BY <1>2, <1>4, <1>6, <1>7, <1>12

(* Free is Release of the abstract heap.                                   *)
LEMMA FreeStep ==
  ASSUME IInv, NEW p \in Slots, Free(p)
  PROVE  IInv' /\ Abstract!Next /\ (NULL \in DOMAIN mem' <=> NULL \in DOMAIN mem)
<1>1. /\ call = Idle /\ held[p] # Empty /\ p \in Holders
      /\ mem' = Freed(mem, held[p].ptr) /\ freelist' = HEADER(held[p].ptr)
      /\ held' = [held EXCEPT ![p] = Empty]
      /\ initialized' = initialized /\ call' = call /\ prev' = prev /\ walk' = walk
  BY DEF Free, Holders
<1>2. initialized BY <1>1, HolderBlock
<1>3. PICK n, L : n \in Nat /\ Listed(mem, freelist, n, L, Live) BY <1>2 DEF IInv, ListInMemory
<1>4. held \in [Slots -> [ptr : Address, size : Requests \cup {0}, filled : BOOLEAN]]
  BY DEF IInv, StateType
<1>5. Empty \in [ptr : Address, size : Requests \cup {0}, filled : BOOLEAN]
  BY Layout, AddressRange DEF Empty
<1>6. /\ \A q \in Slots : q # p => held'[q] = held[q] /\ HeadOf(q)' = HeadOf(q)
      /\ held'[p] = Empty
      /\ held' \in [Slots -> [ptr : Address, size : Requests \cup {0}, filled : BOOLEAN]]
  BY <1>1, <1>4, <1>5 DEF HeadOf
<1>7. Holders' = Holders \ {p} BY <1>6 DEF Holders
<1>8. \A q \in Holders : q \in Slots /\ HeadOf(q) \in Live BY DEF Holders, Live, Handed
<1>9. Handed' = Handed \ {HeadOf(p)}
  <2>1. \A q \in Holders' : q \in Holders /\ HeadOf(q)' = HeadOf(q) /\ HeadOf(q) # HeadOf(p)
    BY <1>1, <1>6, <1>7, <1>8 DEF IInv, HoldersApart
  <2>2. Handed' = {HeadOf(q) : q \in Holders'} BY <2>1 DEF Handed
  <2> QED BY <1>1, <1>7, <2>1, <2>2 DEF Handed
<1>10. Result = {} /\ Result' = {} /\ ~Walking' BY <1>1 DEF Result, HasResult, Walking, Idle
<1>11. Live' = Live \ {HeadOf(p)} BY <1>9, <1>10 DEF Live
<1>12. MemType(mem) BY DEF IInv, StateType
<1>13. /\ MemType(mem') /\ freelist' \in Address
       /\ \E n1, L1 : n1 \in Nat /\ Listed(mem', freelist', n1, L1, Live')
       /\ \A h \in Live : Keeps(mem, mem', h)
       /\ (NULL \in DOMAIN mem' <=> NULL \in DOMAIN mem)
       /\ Abstract!Next
  BY <1>1, <1>3, <1>11, <1>12, Released
<1>14. ListInMemory' BY <1>1, <1>2, <1>10, <1>13 DEF ListInMemory
<1>15. StateType' BY <1>1, <1>6, <1>13 DEF IInv, StateType
<1>16. CallInProgress' BY <1>1, <1>10 DEF CallInProgress
<1>17. HoldersApart' BY <1>6, <1>7, <1>8, <1>13 DEF IInv, HoldersApart, Keeps
<1>18. ClientDataIntact'
  <2> SUFFICES ASSUME NEW q \in Slots, held'[q].filled
               PROVE  \A i \in 0 .. held'[q].size - 1 : Byte(mem', held'[q].ptr + i) = q
    BY DEF ClientDataIntact
  <2>1. q # p BY <1>6 DEF Empty
  <2>2. held'[q] = held[q] /\ q \in Holders BY <1>6, <2>1, NoHolder
  <2> QED BY <1>8, <1>13, <2>2, DataKept
<1> QED BY <1>13, <1>14, <1>15, <1>16, <1>17, <1>18 DEF IInv

LEMMA KeptTwice ==
  ASSUME NEW m, NEW m1, NEW m2, NEW h, Keeps(m, m1, h), Keeps(m1, m2, h)
  PROVE  Keeps(m, m2, h)
BY DEF Keeps

(* ReturnRealloc is Release of the old block, whose data is in the new one *)
(* first, and, when there is no new one, at NULL.                          *)
LEMMA ReturnReallocStep ==
  ASSUME IInv, ReturnRealloc
  PROVE  /\ IInv' /\ Abstract!Next
         /\ walk # NULL => (NULL \in DOMAIN mem' <=> NULL \in DOMAIN mem)
<1>0. call.got /\ call.fn = "realloc" BY DEF ReturnRealloc
<1>1. PICK s \in Slots : s = call.slot BY <1>0, ReturnFacts
<1> DEFINE old == held[s].ptr
           bytes == [i \in 0 .. call.size - 1 |-> Byte(mem, old + i)]
           m == PutBytes(mem, Newblk, bytes)
           new == [ptr |-> Newblk, size |-> call.size, filled |-> held[s].filled /\ call.size <= held[s].size]
<1>2. /\ call' = Idle /\ prev' = NULL /\ walk' = NULL
      /\ mem' = Freed(m, held[s].ptr) /\ freelist' = HEADER(held[s].ptr) /\ initialized' = initialized
      /\ held' = [held EXCEPT ![s] = IF Newblk = NULL THEN Empty ELSE new]
  BY <1>1 DEF ReturnRealloc, Return
<1>3. s \in Holders /\ initialized /\ call.size \in Nat BY <1>0, <1>1, ReturnFacts
<1>4. old \in Nat /\ held[s].size \in Nat
  <2>1. old \in Address BY <1>3, HolderBlock
  <2>2. old \in Nat BY <2>1, AddressRange
  <2> QED BY <1>3, <2>2, HolderBlock
<1>5. MemType(mem) BY DEF IInv, StateType
<1>6. bytes \in [0 .. call.size - 1 -> Octet] BY <1>4, <1>5, ByteType
<1>7. PICK n, L : n \in Nat /\ Listed(mem, freelist, n, L, Live) BY <1>0, ReturnFacts
<1>8. /\ m = PutBytes(mem, Newblk, bytes)
      /\ \A i \in 0 .. call.size - 1 : bytes[i] = Byte(mem, held[s].ptr + i)
  OBVIOUS
<1> HIDE DEF m, bytes, old
<1>9. /\ MemType(m)
      /\ \A h \in NodesOf(n, L) \cup Live : SizeOf(m, h) = SizeOf(mem, h) /\ NextOf(m, h) = NextOf(mem, h)
      /\ \A h \in Handed : Keeps(mem, m, h)
      /\ walk # NULL => /\ \A i \in 0 .. call.size - 1 : Byte(m, Newblk + i) = bytes[i]
                        /\ (NULL \in DOMAIN m <=> NULL \in DOMAIN mem)
  BY <1>0, <1>6, <1>7, <1>8, Fill
<1>10. held \in [Slots -> [ptr : Address, size : Requests \cup {0}, filled : BOOLEAN]]
  BY DEF IInv, StateType
<1>11. /\ Empty \in [ptr : Address, size : Requests \cup {0}, filled : BOOLEAN]
       /\ walk # NULL => new \in [ptr : Address, size : Requests \cup {0}, filled : BOOLEAN]
  <2>1. Empty \in [ptr : Address, size : Requests \cup {0}, filled : BOOLEAN]
    BY Layout, AddressRange DEF Empty
  <2>2. (held[s].filled /\ call.size <= held[s].size) \in BOOLEAN OBVIOUS
  <2> QED BY <1>0, <2>1, <2>2, ReturnFacts
<1>12. /\ walk = NULL => held' = [held EXCEPT ![s] = Empty]
       /\ walk # NULL => held' = [held EXCEPT ![s] = new]
  BY <1>0, <1>2, ReturnFacts
<1>13. new.ptr = Newblk /\ new.size = call.size /\ (new.filled => held[s].filled /\ call.size <= held[s].size)
  OBVIOUS
<1> HIDE DEF new
<1>14. /\ \A q \in Slots : q # s => held'[q] = held[q] /\ HeadOf(q)' = HeadOf(q)
       /\ walk = NULL => held'[s] = Empty
       /\ walk # NULL => held'[s] = new /\ new # Empty /\ HeadOf(s)' = walk
       /\ held' \in [Slots -> [ptr : Address, size : Requests \cup {0}, filled : BOOLEAN]]
  <2>1. held' \in [Slots -> [ptr : Address, size : Requests \cup {0}, filled : BOOLEAN]]
    BY <1>10, <1>11, <1>12
  <2>2. \A q \in Slots : q # s => held'[q] = held[q] BY <1>10, <1>12
  <2>3. walk = NULL => held'[s] = Empty BY <1>10, <1>12
  <2>4. walk # NULL => held'[s] = new BY <1>10, <1>12
  <2>5. walk # NULL => new # Empty BY <1>0, <1>13, ReturnFacts DEF Empty
  <2>6. walk # NULL => HeadOf(s)' = walk BY <1>0, <1>13, <2>4, ReturnFacts DEF HeadOf
  <2> QED BY <2>1, <2>2, <2>3, <2>4, <2>5, <2>6 DEF HeadOf
<1>15. Holders' = IF walk = NULL THEN Holders \ {s} ELSE Holders
  BY <1>3, <1>14 DEF Holders
<1>16. \A q \in Holders : q \in Slots /\ HeadOf(q) \in Handed /\ HeadOf(q) \in Live
  BY DEF Holders, Live, Handed
<1>17. /\ \A q \in Holders : q # s => HeadOf(q)' = HeadOf(q) /\ HeadOf(q) # HeadOf(s)
       /\ Result' = {} /\ ~Walking'
  BY <1>2, <1>3, <1>14, <1>16 DEF IInv, HoldersApart, Result, HasResult, Walking, Idle
<1>18. Live' = Live \ {HeadOf(s)}
  <2>0. Live' = {HeadOf(q)' : q \in Holders'} BY <1>17 DEF Live, Handed
  <2>1. CASE walk = NULL
    <3>1. Live = Handed BY <1>0, <2>1, ReturnFacts
    <3> QED BY <1>3, <1>15, <1>17, <2>0, <2>1, <3>1 DEF Handed
  <2>2. CASE walk # NULL
    <3>1. Live = Handed \cup {walk} /\ walk \notin Handed BY <1>0, <2>2, ReturnFacts
    <3>2. HeadOf(s)' = walk /\ HeadOf(s) # walk BY <1>3, <1>14, <1>16, <2>2, <3>1
    <3>3. \A h : h \in Live' <=> h = walk \/ \E q \in Holders : q # s /\ h = HeadOf(q)
      BY <1>3, <1>15, <1>17, <2>0, <2>2, <3>2
    <3>4. \A h : h \in Live \ {HeadOf(s)} <=> h = walk \/ \E q \in Holders : q # s /\ h = HeadOf(q)
      BY <1>3, <1>17, <3>1, <3>2 DEF Handed
    <3> QED BY <3>3, <3>4
  <2> QED BY <2>1, <2>2
<1>19. /\ MemType(mem') /\ freelist' \in Address
       /\ \E n1, L1 : n1 \in Nat /\ Listed(mem', freelist', n1, L1, Live')
       /\ \A h \in Live : Keeps(m, mem', h)
       /\ (NULL \in DOMAIN mem' <=> NULL \in DOMAIN m)
       /\ Abstract!Next
  BY <1>2, <1>3, <1>7, <1>9, <1>18, Released
<1>20. ListInMemory' BY <1>2, <1>3, <1>17, <1>19 DEF ListInMemory
<1>21. StateType'
  <2>1. NULL \in Address BY Layout, AddressRange
  <2> QED BY <1>2, <1>14, <1>19, <2>1 DEF IInv, StateType
<1>22. CallInProgress' BY <1>2, <1>17 DEF CallInProgress
<1>23. \A h \in Live : SizeOf(mem', h) = SizeOf(mem, h) BY <1>9, <1>19 DEF Keeps
<1>24. \A h \in Handed : Keeps(mem, mem', h)
  <2>1. Handed \subseteq Live BY DEF Live
  <2> QED BY <1>9, <1>19, <2>1, KeptTwice
<1>25. HoldersApart'
  <2>1. CASE walk = NULL
    BY <1>14, <1>15, <1>16, <1>23, <2>1 DEF IInv, HoldersApart
  <2>2. CASE walk # NULL
    <3>1. /\ HeadOf(s)' = walk /\ held'[s].ptr = walk + 4 /\ held'[s].size + 4 = SizeOf(mem', walk)
          /\ \A q \in Holders : HeadOf(q) # walk
          /\ SizeOf(mem', walk) \in Int
      BY <1>0, <1>3, <1>13, <1>14, <1>16, <1>23, <2>2, ReturnFacts
    <3>2. ASSUME NEW p \in Holders
          PROVE  held'[p].ptr = HeadOf(p)' + 4 /\ held'[p].size + 4 <= SizeOf(mem', HeadOf(p)')
      <4>1. CASE p = s BY <3>1, <4>1
      <4>2. CASE p # s BY <1>14, <1>16, <1>23, <4>2 DEF IInv, HoldersApart
      <4> QED BY <4>1, <4>2
    <3>3. ASSUME NEW p \in Holders, NEW q \in Holders, HeadOf(p)' = HeadOf(q)' PROVE p = q
      BY <1>16, <1>17, <3>1, <3>3 DEF IInv, HoldersApart
    <3> QED BY <1>15, <2>2, <3>2, <3>3 DEF HoldersApart
  <2> QED BY <2>1, <2>2
<1>26. ClientDataIntact'
  <2> SUFFICES ASSUME NEW q \in Slots, held'[q].filled
               PROVE  \A i \in 0 .. held'[q].size - 1 : Byte(mem', held'[q].ptr + i) = q
    BY DEF ClientDataIntact
  <2>1. CASE q # s
    <3>1. held'[q] = held[q] /\ q \in Holders BY <1>14, <2>1, NoHolder
    <3> QED BY <1>16, <1>24, <3>1, DataKept
  <2>2. CASE q = s
    <3>1. walk # NULL /\ held'[s] = new BY <1>14, <2>2 DEF Empty
    <3>2. /\ held[s].filled /\ call.size <= held[s].size /\ held'[s].size = call.size
          /\ held'[s].ptr = walk + 4 /\ Newblk = walk + 4 /\ walk \in Live /\ walk \in Nat
          /\ SizeOf(m, walk) = call.size + 4
      BY <1>0, <1>9, <1>13, <2>2, <3>1, ReturnFacts
    <3>3. ASSUME NEW i \in 0 .. call.size - 1 PROVE Byte(mem', walk + 4 + i) = s
      <4>1. Keeps(m, mem', walk) BY <1>19, <3>2
      <4> DEFINE d == walk + 4 + i
      <4>2. d \in walk + 4 .. walk + SizeOf(m, walk) - 1 BY <1>3, <3>2
      <4>3. Byte(m, d) = bytes[i] BY <1>9, <3>1, <3>2
      <4>4. i \in 0 .. held[s].size - 1 BY <1>3, <1>4, <3>2
      <4>5. Byte(mem, held[s].ptr + i) = s BY <3>2, <4>4 DEF IInv, ClientDataIntact
      <4> HIDE DEF d
      <4>6. Byte(mem', d) = Byte(m, d) BY <4>1, <4>2 DEF Keeps
      <4> QED BY <1>8, <4>3, <4>5, <4>6 DEF d
    <3> QED BY <2>2, <3>2, <3>3
  <2> QED BY <2>1, <2>2
<1> QED BY <1>9, <1>19, <1>20, <1>21, <1>22, <1>25, <1>26 DEF IInv

-----------------------------------------------------------------------------
LEMMA Requested ==
  /\ \A n \in Sizes : n \in Requests
  /\ \A k \in Counts, n \in Sizes : SizeT(k * n) \in Requests
BY DEF Requests

(* Every step keeps the invariant, and is a step of the abstract heap or   *)
(* changes none of its blocks.                                             *)
LEMMA AnyStep ==
  ASSUME IInv, [Next]_vars
  PROVE  /\ IInv'
         /\ Abstract!Next \/ (FreeBlocks' = FreeBlocks /\ LiveBlocks' = LiveBlocks)
         /\ HasResult' /\ ~HasResult /\ walk' = NULL => \A b \in FreeBlocks : b.size < SizePlusBlk
         /\ (NULL \in DOMAIN mem) # (NULL \in DOMAIN mem') =>
                call.got /\ call.fn \in {"calloc", "realloc"} /\ walk = NULL
<1>1. CASE Skip BY <1>1, SkipStep DEF HasResult
<1>2. CASE Split BY <1>2, SplitStep
<1>3. CASE ExactFit BY <1>3, ExactFitStep
<1>4. CASE Exhausted BY <1>4, ExhaustedStep
<1>5. CASE ReturnMalloc
  <2>1. ~HasResult' BY <1>5 DEF ReturnMalloc, Return, Idle, HasResult
  <2> QED BY <1>5, <2>1, ReturnMallocStep
<1>6. CASE ReturnCalloc
  <2>1. ~HasResult' /\ call.got /\ call.fn = "calloc"
    BY <1>6 DEF ReturnCalloc, Return, Idle, HasResult
  <2> QED BY <1>6, <2>1, ReturnCallocStep
<1>7. CASE ReturnRealloc
  <2>1. ~HasResult' /\ call.got /\ call.fn = "realloc"
    BY <1>7 DEF ReturnRealloc, Return, Idle, HasResult
  <2> QED BY <1>7, <2>1, ReturnReallocStep
<1>8. ASSUME NEW p \in Slots, Free(p)
      PROVE  /\ IInv' /\ Abstract!Next /\ ~HasResult'
             /\ (NULL \in DOMAIN mem' <=> NULL \in DOMAIN mem)
  <2>1. ~HasResult' BY <1>8 DEF Free, Idle, HasResult
  <2> QED BY <1>8, <2>1, FreeStep
<1>9. ASSUME NEW p \in Slots, Use(p)
      PROVE  /\ IInv' /\ FreeBlocks' = FreeBlocks /\ LiveBlocks' = LiveBlocks /\ ~HasResult'
             /\ (NULL \in DOMAIN mem' <=> NULL \in DOMAIN mem)
  <2>1. ~HasResult' BY <1>9 DEF Use, Idle, HasResult
  <2> QED BY <1>9, <2>1, UseStep
<1>10. ASSUME NEW p \in Slots, NEW fn \in {"malloc", "calloc", "realloc"}, NEW r \in Requests,
              fn = "realloc" <=> held[p] # Empty, Enter(fn, p, r)
       PROVE  /\ IInv' /\ FreeBlocks' = FreeBlocks /\ LiveBlocks' = LiveBlocks /\ ~HasResult'
              /\ (NULL \in DOMAIN mem' <=> NULL \in DOMAIN mem)
  <2>1. ~HasResult' BY <1>10 DEF Enter, HasResult
  <2> QED BY <1>10, <2>1, EnterStep
<1>11. ASSUME NEW p \in Slots, NEW n \in Sizes, Malloc(p, n) \/ Realloc(p, n)
       PROVE  /\ IInv' /\ FreeBlocks' = FreeBlocks /\ LiveBlocks' = LiveBlocks /\ ~HasResult'
              /\ (NULL \in DOMAIN mem' <=> NULL \in DOMAIN mem)
  <2>1. n \in Requests BY Requested
  <2>2. CASE Malloc(p, n) BY <1>10, <2>1, <2>2 DEF Malloc
  <2>3. CASE Realloc(p, n) BY <1>10, <2>1, <2>3 DEF Realloc
  <2> QED BY <1>11, <2>2, <2>3
<1>12. ASSUME NEW p \in Slots, NEW k \in Counts, NEW n \in Sizes, Calloc(p, k, n)
       PROVE  /\ IInv' /\ FreeBlocks' = FreeBlocks /\ LiveBlocks' = LiveBlocks /\ ~HasResult'
              /\ (NULL \in DOMAIN mem' <=> NULL \in DOMAIN mem)
  <2>1. SizeT(k * n) \in Requests BY Requested
  <2> QED BY <1>10, <1>12, <2>1 DEF Calloc
<1>13. CASE UNCHANGED vars
  <2>1. mem' = mem /\ call' = call BY <1>13 DEF vars
  <2> QED BY <1>13, <2>1, IInvUnchanged DEF HasResult
<1> QED BY <1>1, <1>2, <1>3, <1>4, <1>5, <1>6, <1>7, <1>8, <1>9, <1>11, <1>12, <1>13 DEF Next, Step

LEMMA IInvInitially == Init => IInv
<1> SUFFICES ASSUME Init PROVE IInv OBVIOUS
<1>1. /\ mem = [c \in {} |-> 0] /\ freelist = NULL /\ initialized = FALSE
      /\ call = Idle /\ prev = NULL /\ walk = NULL /\ held = [p \in Slots |-> Empty]
  BY DEF Init
<1>2. Holders = {} BY <1>1 DEF Holders
<1>3. Handed = {} /\ Result = {} BY <1>1, <1>2 DEF Handed, Result
<1>4. StateType
  <2>1. NULL \in Address BY Layout, AddressRange
  <2>2. MemType(mem) BY <1>1 DEF MemType
  <2>3. Empty \in [ptr : Address, size : Requests \cup {0}, filled : BOOLEAN] BY <2>1, Layout DEF Empty
  <2> QED BY <1>1, <2>1, <2>2, <2>3 DEF StateType
<1>5. ClientDataIntact BY <1>1 DEF ClientDataIntact, Empty
<1> QED BY <1>1, <1>2, <1>3, <1>4, <1>5 DEF IInv, HoldersApart, CallInProgress, ListInMemory

(* The invariant holds in every state of the allocator.                    *)
THEOREM ListAndHolders == Spec => []IInv
<1>1. IInv /\ [Next]_vars => IInv' BY AnyStep
<1> QED BY <1>1, IInvInitially, PTL DEF Spec

(* Memory is bytes, and pointers and sizes fit in size_t.                  *)
THEOREM AllocTypes == Spec => []TypeOK
<1>1. IInv => TypeOK
  <2> SUFFICES ASSUME IInv PROVE TypeOK OBVIOUS
  <2>1. Requests \subseteq Address
    <3> SUFFICES ASSUME NEW r \in Requests PROVE r \in Address OBVIOUS
    <3> QED BY Layout, AddressRange
  <2>2. 0 \in Address BY AddressRange
  <2>3. call.slot \in Slots \cup {0} /\ call.size \in Address
    BY <2>1, <2>2 DEF IInv, StateType, Idle
  <2> QED BY <2>1, <2>2, <2>3 DEF IInv, StateType, MemType, TypeOK
<1> QED BY <1>1, ListAndHolders, PTL

(* Whatever a client has written into a block of malloc, calloc or realloc *)
(* is there until it frees the block or realloc moves it, and then it is in *)
(* the new block.                                                          *)
THEOREM DataIntact == Spec => []ClientDataIntact
<1>1. IInv => ClientDataIntact BY DEF IInv
<1> QED BY <1>1, ListAndHolders, PTL

(* malloc, calloc, realloc and free do what Heap says: each takes one block *)
(* or the front of one, or gives one back, and no other block changes.     *)
THEOREM ListIsHeap == Spec => ImplementsHeap
<1>1. Init => Abstract!Init
  <2> SUFFICES ASSUME Init PROVE Abstract!Init OBVIOUS
  <2>1. Holders = {} /\ Result = {} BY DEF Init, Holders, Result
  <2>2. LiveBlocks = {} BY <2>1, BlocksAre DEF BlocksOf, Live, Handed
  <2> QED BY <2>2 DEF Init, Abstract!Init, Abstract!Block, FreeBlocks
<1>2. IInv /\ [Next]_vars => [Abstract!Next]_(Abstract!vars)
  BY AnyStep DEF Abstract!vars
<1> QED BY <1>1, <1>2, ListAndHolders, PTL DEF Spec, ImplementsHeap, Abstract!Spec

(* malloc returns NULL only when no block of the list is long enough, and  *)
(* memory outside the heap is written only by a calloc or realloc to which *)
(* it did.                                                                 *)
THEOREM FailsWhenFull == Spec => FailsOnlyWhenFull
<1>1. IInv /\ [Next]_vars =>
        [/\ HasResult' /\ ~HasResult /\ walk' = NULL =>
                \A b \in FreeBlocks : b.size < SizePlusBlk
         /\ (NULL \in DOMAIN mem) # (NULL \in DOMAIN mem') =>
                call.got /\ call.fn \in {"calloc", "realloc"} /\ walk = NULL]_vars
  BY AnyStep
<1> QED BY <1>1, ListAndHolders, PTL DEF Spec, FailsOnlyWhenFull

(* So the blocks described by the headers in memory partition the heap,    *)
(* after any calls: what Heap_proofs shows of the abstract heap.           *)
HeapOf == INSTANCE Heap_proofs WITH
    Base <- HeapRun, Size <- HeapSize, Header <- HeaderSize,
    free <- FreeBlocks, live <- LiveBlocks

(* No byte of the heap is lost or in two blocks, and no block reaches over *)
(* its end.                                                                *)
THEOREM BlocksTileHeap == Spec => [](Abstract!HeapInv)
<1>1. HeapOf!HeapAssumption
  BY Layout DEF HeapOf!HeapAssumption
<1>2. HeapOf!Spec => [](HeapOf!HeapInv)
  BY <1>1, HeapOf!HeapIsTiled
<1>3. Abstract!Init => HeapOf!Init
  BY DEF Abstract!Init, HeapOf!Init, Abstract!Block, HeapOf!Block
<1>4. [Abstract!Next]_(Abstract!vars) => [HeapOf!Next]_(HeapOf!vars)
  <2>1. Abstract!Allocate => HeapOf!Allocate
    BY DEF Abstract!Allocate, HeapOf!Allocate, Abstract!TakeWhole, HeapOf!TakeWhole,
           Abstract!TakeFront, HeapOf!TakeFront, Abstract!Block, HeapOf!Block
  <2>2. Abstract!Release => HeapOf!Release BY DEF Abstract!Release, HeapOf!Release
  <2> QED BY <2>1, <2>2 DEF Abstract!Next, HeapOf!Next, Abstract!vars, HeapOf!vars
<1>5. HeapOf!HeapInv => Abstract!HeapInv
  <2>1. Abstract!Blocks = HeapOf!Blocks BY DEF Abstract!Blocks, HeapOf!Blocks
  <2> QED BY <2>1 DEF Abstract!HeapInv, HeapOf!HeapInv, Abstract!TypeOK, HeapOf!TypeOK, Abstract!BlockType,
     HeapOf!BlockType, Abstract!Disjoint, HeapOf!Disjoint, Abstract!Tiled, HeapOf!Tiled,
     Abstract!Covers, HeapOf!Covers
<1> QED BY <1>2, <1>3, <1>4, <1>5, ListIsHeap, PTL DEF ImplementsHeap, HeapOf!Spec, Abstract!Spec
=============================================================================
