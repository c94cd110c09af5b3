-------------------------- MODULE Libtinyc_proofs --------------------------
(***************************************************************************)
(* That libtinyc's string functions compute what the C library says, for   *)
(* memories, areas and strings of any size, and that its formatted output  *)
(* is the text of its format, for formats of any length, arguments of any  *)
(* value and ints of any width.                                            *)
(*                                                                         *)
(* The invariant of a string function says how far the call has come, once *)
(* for each kind of loop: FillInv for those that write upwards, DownInv    *)
(* for memmove on its way down, CompareInv and SearchInv.  That of         *)
(* formatted output, PrintInv, says behind which piece of its format       *)
(* vfprintf stands and that the texts of the pieces before it are written. *)
(***************************************************************************)
EXTENDS Libtinyc, Sequences, Induction, TLAPS

(* Memory m in which the places from .. to - 1 of the area at p hold text. *)
Put(m, p, text, from, to) ==
    [a \in 0 .. N - 1 |-> IF a >= p + from /\ a < p + to THEN text[a - p] ELSE m[a]]

-----------------------------------------------------------------------------
(* Arithmetic on addresses.                                                *)
LEMMA Sizes == N \in Nat /\ N > 0 /\ Bytes \in Nat /\ Bytes > 0 /\ N \div 2 \in Nat /\ N = 2 * (N \div 2)
BY SizesAssumption

LEMMA SmallMod == ASSUME NEW x \in 0 .. N - 1 PROVE x % N = x
BY Sizes

LEMMA BelowZero == (0 - 1) % N = N - 1
BY Sizes

LEMMA MinIs ==
  ASSUME NEW S, S \subseteq Int, NEW x \in S, \A y \in S : x <= y
  PROVE  Min(S) = x
<1> DEFINE Least(z) == z \in S /\ \A y \in S : z <= y
<1>1. Least(x) OBVIOUS
<1>2. Least(CHOOSE z \in S : \A y \in S : z <= y)
  BY <1>1
<1>3. Min(S) \in S /\ \A y \in S : Min(S) <= y
  BY <1>2 DEF Min
<1>4. Min(S) <= x /\ x <= Min(S) /\ Min(S) \in Int /\ x \in Int
  BY <1>3
<1> QED BY <1>4

LEMMA MaxIs ==
  ASSUME NEW S, S \subseteq Int, NEW x \in S, \A y \in S : y <= x
  PROVE  Max(S) = x
<1> DEFINE Greatest(z) == z \in S /\ \A y \in S : z >= y
<1>1. Greatest(x) OBVIOUS
<1>2. Greatest(CHOOSE z \in S : \A y \in S : z >= y)
  BY <1>1
<1>3. Max(S) \in S /\ \A y \in S : Max(S) >= y
  BY <1>2 DEF Max
<1>4. Max(S) <= x /\ x <= Max(S) /\ Max(S) \in Int /\ x \in Int
  BY <1>3
<1> QED BY <1>4

-----------------------------------------------------------------------------
(* What Put returns, and how it grows on either side.                      *)
LEMMA PutElsewhere ==
  ASSUME NEW m, NEW p, NEW text, NEW from, NEW to, NEW b \in 0 .. N - 1, ~(b >= p + from /\ b < p + to)
  PROVE  Put(m, p, text, from, to)[b] = m[b]
BY DEF Put

LEMMA PutNothing ==
  ASSUME NEW m \in [0 .. N - 1 -> 0 .. Bytes - 1], NEW p \in Int, NEW text, NEW k \in Int
  PROVE  Put(m, p, text, k, k) = m
<1>1. Put(m, p, text, k, k) = [a \in 0 .. N - 1 |-> m[a]]
  BY Sizes DEF Put
<1> QED BY <1>1

LEMMA PutUp ==
  ASSUME NEW m, NEW p \in Nat, NEW text, NEW k \in Nat, p + k <= N - 1
  PROVE  [Put(m, p, text, 0, k) EXCEPT ![p + k] = text[k]] = Put(m, p, text, 0, k + 1)
<1> DEFINE old == Put(m, p, text, 0, k)
           new == [old EXCEPT ![p + k] = text[k]]
<1>1. ASSUME NEW a \in 0 .. N - 1
      PROVE  new[a] = Put(m, p, text, 0, k + 1)[a]
  <2>0. a \in Int /\ N \in Nat BY Sizes
  <2>1. CASE a = p + k
    <3>1. a - p = k BY <2>1
    <3>2. Put(m, p, text, 0, k + 1)[a] = text[k] BY <2>0, <2>1, <3>1 DEF Put
    <3>3. new[a] = text[k] BY <2>1 DEF Put
    <3> QED BY <3>2, <3>3
  <2>2. CASE a # p + k
    <3>1. new[a] = old[a] BY <2>2 DEF Put
    <3>2. (a < p + k) <=> (a < p + (k + 1)) BY <2>0, <2>2
    <3>3. old[a] = Put(m, p, text, 0, k + 1)[a] BY <3>2 DEF Put
    <3> QED BY <3>1, <3>3
  <2> QED BY <2>1, <2>2
<1> QED BY <1>1 DEF Put

LEMMA PutDown ==
  ASSUME NEW m, NEW p \in Nat, NEW text, NEW to \in Nat, NEW k \in Nat, k < to, p + k <= N - 1
  PROVE  [Put(m, p, text, k + 1, to) EXCEPT ![p + k] = text[k]] = Put(m, p, text, k, to)
<1> DEFINE old == Put(m, p, text, k + 1, to)
           new == [old EXCEPT ![p + k] = text[k]]
<1>1. ASSUME NEW a \in 0 .. N - 1
      PROVE  new[a] = Put(m, p, text, k, to)[a]
  <2>0. a \in Int /\ N \in Nat BY Sizes
  <2>1. CASE a = p + k
    <3>1. a - p = k BY <2>1
    <3>2. Put(m, p, text, k, to)[a] = text[k] BY <2>0, <2>1, <3>1 DEF Put
    <3>3. new[a] = text[k] BY <2>1 DEF Put
    <3> QED BY <3>2, <3>3
  <2>2. CASE a # p + k
    <3>1. new[a] = old[a] BY <2>2 DEF Put
    <3>2. (a >= p + k) <=> (a >= p + (k + 1)) BY <2>0, <2>2
    <3>3. old[a] = Put(m, p, text, k, to)[a] BY <3>2 DEF Put
    <3> QED BY <3>1, <3>3
  <2> QED BY <2>1, <2>2
<1> QED BY <1>1 DEF Put

(* Storing a byte of the text a second time changes nothing.               *)
LEMMA PutAgain ==
  ASSUME NEW m, NEW p \in Nat, NEW text, NEW k \in Nat, p + k <= N - 1
  PROVE  [Put(m, p, text, 0, k + 1) EXCEPT ![p + k] = text[k]] = Put(m, p, text, 0, k + 1)
<1> DEFINE old == Put(m, p, text, 0, k + 1)
           new == [old EXCEPT ![p + k] = text[k]]
<1>1. ASSUME NEW a \in 0 .. N - 1 PROVE new[a] = old[a]
  <2>0. a \in Int /\ N \in Nat BY Sizes
  <2>1. CASE a = p + k
    <3>1. a - p = k BY <2>1
    <3>2. old[a] = text[k] BY <2>0, <2>1, <3>1 DEF Put
    <3>3. new[a] = text[k] BY <2>1 DEF Put
    <3> QED BY <3>2, <3>3
  <2>2. CASE a # p + k BY <2>2 DEF Put
  <2> QED BY <2>1, <2>2
<1> QED BY <1>1 DEF Put

-----------------------------------------------------------------------------
(* The arguments of a call.                                                *)
LengthIn(m, a) == Min({k \in 0 .. N - 1 - a : m[a + k] = 0})

LEMMA CallTypes ==
  ASSUME NEW c \in Calls
  PROVE  /\ c.p \in 0 .. N - 1 /\ c.p \in Nat /\ c.q \in Int /\ c.n \in 0 .. N - 1 /\ c.n \in Nat
         /\ c.mem \in [0 .. N - 1 -> 0 .. Bytes - 1]
BY CallsAssumption, Sizes

LEMMA StringLength ==
  ASSUME NEW m, NEW a \in 0 .. N - 1, NEW k \in 0 .. N - 1, IsString(m, a, k)
  PROVE  LengthIn(m, a) = k
<1> DEFINE S == {j \in 0 .. N - 1 - a : m[a + j] = 0}
<1>1. k \in S BY Sizes DEF IsString
<1>2. \A y \in S : k <= y
  <2> SUFFICES ASSUME NEW y \in S, y < k PROVE FALSE
    BY <1>1, Sizes
  <2>1. y \in 0 .. k - 1 BY Sizes
  <2> QED BY <2>1 DEF IsString
<1>3. Min(S) = k
  <2> HIDE DEF S
  <2>1. S \subseteq Int BY Sizes DEF S
  <2> QED BY <1>1, <1>2, <2>1, MinIs
<1> QED BY <1>3 DEF LengthIn

(* An area that holds a string, and what its length means.                 *)
LEMMA StringAt ==
  ASSUME NEW m, NEW a \in 0 .. N - 1, Ends(m, a)
  PROVE  /\ LengthIn(m, a) \in 0 .. N - 1 /\ a + LengthIn(m, a) < N
         /\ m[a + LengthIn(m, a)] = 0
         /\ \A j \in 0 .. LengthIn(m, a) - 1 : m[a + j] # 0
<1>1. PICK k \in 0 .. N - 1 : IsString(m, a, k) BY DEF Ends
<1>2. LengthIn(m, a) = k BY <1>1, StringLength
<1> QED BY <1>1, <1>2 DEF IsString

-----------------------------------------------------------------------------
(* Functions that write: what they write, to how many places.              *)
Upwards(c) == c.fn \in {"memcpy", "memset", "strcpy", "strncpy"} \/ (c.fn = "memmove" /\ c.p < c.q)
CountOf(c) == IF c.fn = "strcpy" THEN LengthIn(c.mem, c.q) + 1 ELSE c.n
TextOf(c) ==
    [k \in 0 .. N - 1 |-> IF c.fn = "memset" THEN c.q % Bytes
                          ELSE IF c.fn = "strncpy" /\ k > LengthIn(c.mem, c.q) THEN 0
                          ELSE c.mem[c.q + k]]
Filled(c, j) == Put(c.mem, c.p, TextOf(c), 0, j)

LEMMA WriteArguments ==
  ASSUME NEW c \in Calls, Upwards(c)
  PROVE  /\ CountOf(c) \in Nat /\ CountOf(c) < N /\ c.p + CountOf(c) <= N
         /\ c.fn # "memset" => c.q \in 0 .. N - 1
         /\ c.fn \in {"memcpy", "memmove"} => c.q + CountOf(c) <= N
         /\ c.fn \in {"memcpy", "strcpy", "strncpy"} => c.p + CountOf(c) <= c.q \/ c.q + CountOf(c) <= c.p
         /\ c.fn \in {"strcpy", "strncpy"} => Ends(c.mem, c.q)
<1>1. CASE c.fn = "strcpy"
  <2>1. PICK k \in 0 .. N - 1 : IsString(c.mem, c.q, k) /\ Apart(c, k + 1)
    BY <1>1, CallsAssumption
  <2>2. c.q \in 0 .. N - 1 BY <1>1, CallsAssumption
  <2>3. CountOf(c) = k + 1 BY <1>1, <2>1, <2>2, StringLength DEF CountOf
  <2>4. Ends(c.mem, c.q) BY <2>1 DEF Ends
  <2> QED BY <1>1, <2>1, <2>2, <2>3, <2>4, CallTypes, Sizes DEF Apart
<1>2. CASE c.fn # "strcpy"
  <2>1. CountOf(c) = c.n BY <1>2 DEF CountOf
  <2> QED BY <1>2, <2>1, CallsAssumption, CallTypes, Sizes DEF Upwards, Apart
<1> QED BY <1>1, <1>2

(* The place that is written next, and the byte that goes there.           *)
LEMMA NextPlace ==
  ASSUME NEW c \in Calls, Upwards(c), NEW j \in Nat, j < CountOf(c)
  PROVE  /\ (c.p + j) % N = c.p + j /\ c.p + j \in 0 .. N - 1 /\ j \in 0 .. N - 1
         /\ (j + 1) % N = j + 1
<1>1. c.p + j \in 0 .. N - 1 /\ j + 1 \in 0 .. N - 1 /\ j \in 0 .. N - 1
  BY WriteArguments, CallTypes, Sizes
<1> QED BY <1>1, SmallMod

LEMMA SourceByte ==
  ASSUME NEW c \in Calls, Upwards(c), c.fn # "memset", NEW j \in Nat, j < CountOf(c),
         c.fn \in {"strcpy", "strncpy"} => j <= LengthIn(c.mem, c.q),
         NEW m, m = Filled(c, j)
  PROVE  m[(c.q + j) % N] = TextOf(c)[j] /\ TextOf(c)[j] = c.mem[c.q + j] /\ c.q + j \in 0 .. N - 1
<1>1. c.q \in 0 .. N - 1 /\ c.p \in 0 .. N - 1 /\ N \in Nat /\ CountOf(c) \in Nat
  BY WriteArguments, CallTypes, Sizes
<1>2. c.q + j \in 0 .. N - 1
  <2>1. CASE c.fn \in {"memcpy", "memmove"}
    BY <1>1, <2>1, WriteArguments
  <2>2. CASE c.fn \in {"strcpy", "strncpy"}
    <3>1. c.q + LengthIn(c.mem, c.q) < N /\ LengthIn(c.mem, c.q) \in 0 .. N - 1
      BY <1>1, <2>2, WriteArguments, StringAt
    <3> QED BY <1>1, <2>2, <3>1
  <2> QED BY <2>1, <2>2 DEF Upwards
<1>3. ~(c.q + j >= c.p + 0 /\ c.q + j < c.p + j)
  BY <1>1, WriteArguments DEF Upwards
<1>4. m[c.q + j] = c.mem[c.q + j]
  BY <1>2, <1>3, PutElsewhere DEF Filled
<1>5. TextOf(c)[j] = c.mem[c.q + j]
  <2>1. j \in 0 .. N - 1 BY WriteArguments, Sizes
  <2>2. c.fn = "strncpy" => ~(j > LengthIn(c.mem, c.q))
    <3>1. c.fn = "strncpy" => LengthIn(c.mem, c.q) \in Int BY <1>1, WriteArguments, StringAt
    <3> QED BY <3>1
  <2> QED BY <2>1, <2>2 DEF TextOf
<1> QED BY <1>2, <1>4, <1>5, SmallMod

(* One more byte of the text.                                              *)
LEMMA FillStep ==
  ASSUME NEW c \in Calls, Upwards(c), NEW j \in Nat, j < CountOf(c), NEW m, m = Filled(c, j)
  PROVE  [m EXCEPT ![(c.p + j) % N] = TextOf(c)[j]] = Filled(c, j + 1)
<1>1. c.p + j <= N - 1 BY NextPlace, CallTypes, Sizes
<1>2. (c.p + j) % N = c.p + j BY NextPlace
<1>3. [Put(c.mem, c.p, TextOf(c), 0, j) EXCEPT ![c.p + j] = TextOf(c)[j]]
        = Put(c.mem, c.p, TextOf(c), 0, j + 1)
  <2> DEFINE p == c.p
             text == TextOf(c)
             old == c.mem
  <2>1. p \in Nat /\ p + j <= N - 1 BY <1>1, CallTypes
  <2> HIDE DEF p, text, old
  <2>2. [Put(old, p, text, 0, j) EXCEPT ![p + j] = text[j]] = Put(old, p, text, 0, j + 1)
    BY <2>1, PutUp, SMTT(30)
  <2> QED BY <2>2 DEF p, text, old
<1> QED BY <1>2, <1>3 DEF Filled

LEMMA FillAgain ==
  ASSUME NEW c \in Calls, Upwards(c), NEW j \in Nat, j < CountOf(c), NEW m, m = Filled(c, j + 1)
  PROVE  [m EXCEPT ![(c.p + j) % N] = TextOf(c)[j]] = Filled(c, j + 1)
<1>1. c.p + j <= N - 1 BY NextPlace, CallTypes, Sizes
<1>2. (c.p + j) % N = c.p + j BY NextPlace
<1>3. [Put(c.mem, c.p, TextOf(c), 0, j + 1) EXCEPT ![c.p + j] = TextOf(c)[j]]
        = Put(c.mem, c.p, TextOf(c), 0, j + 1)
  <2> DEFINE p == c.p
             text == TextOf(c)
             old == c.mem
  <2>1. p \in Nat /\ p + j <= N - 1 BY <1>1, CallTypes
  <2> HIDE DEF p, text, old
  <2>2. [Put(old, p, text, 0, j + 1) EXCEPT ![p + j] = text[j]] = Put(old, p, text, 0, j + 1)
    BY <2>1, PutAgain, ZenonT(60)
  <2> QED BY <2>2 DEF p, text, old
<1> QED BY <1>2, <1>3 DEF Filled

LEMMA FillNothing == ASSUME NEW c \in Calls PROVE Filled(c, 0) = c.mem
BY PutNothing, CallTypes DEF Filled

-----------------------------------------------------------------------------
(* The invariant of functions that write upwards: j places are written.    *)
(* strncpy has written one more when it begins to pad at a NUL.            *)
Stringy(c) == c.fn \in {"strcpy", "strncpy"}
FillInv ==
    Upwards(call) =>
        /\ pc \in {"loop", "done"} \/ (pc = "pad" /\ call.fn = "strncpy")
        /\ pc = "loop" =>
             /\ i \in Nat /\ i <= CountOf(call) /\ mem = Filled(call, i)
             /\ Stringy(call) => i <= LengthIn(call.mem, call.q)
        /\ pc = "pad" =>
             /\ i \in Nat /\ i <= call.n /\ (i < call.n => i >= LengthIn(call.mem, call.q))
             /\ mem = Filled(call, i) \/ (i < call.n /\ mem = Filled(call, i + 1))
        /\ pc = "done" => mem = Filled(call, CountOf(call))

LEMMA CopyUp ==
  ASSUME call \in Calls, FillInv, Copy, ~Downwards
  PROVE  FillInv'
<1>1. Upwards(call) /\ pc = "loop" /\ call.fn # "memset" /\ CountOf(call) = call.n /\ ~Stringy(call)
  BY CallTypes, CallsAssumption DEF Copy, Fn, Downwards, Upwards, CountOf, Stringy
<1>2. i \in Nat /\ i <= call.n /\ mem = Filled(call, i) BY <1>1 DEF FillInv
<1>3. call' = call BY DEF Copy, Store, Return
<1>4. CASE i < call.n
  <2>1. Turns BY <1>4 DEF Turns
  <2>2. mem[(call.q + i) % N] = TextOf(call)[i] BY <1>1, <1>2, <1>4, SourceByte DEF Stringy
  <2>3. mem' = Filled(call, i + 1) BY <1>1, <1>2, <1>4, <2>1, <2>2, FillStep DEF Copy, Store, Byte
  <2>4. i' = i + 1 /\ pc' = "loop" BY <1>1, <1>2, <1>4, <2>1, NextPlace DEF Copy, Store
  <2>5. i + 1 \in Nat /\ i + 1 <= call.n BY <1>2, <1>4, CallTypes
  <2> QED BY <1>1, <1>3, <2>3, <2>4, <2>5 DEF FillInv
<1>5. CASE ~(i < call.n)
  <2>1. ~Turns BY <1>5 DEF Turns
  <2>2. i = call.n BY <1>2, <1>5, CallTypes
  <2>3. mem' = mem /\ pc' = "done" BY <2>1 DEF Copy, Return
  <2> QED BY <1>1, <1>2, <1>3, <2>2, <2>3 DEF FillInv
<1> QED BY <1>4, <1>5

LEMMA FillsMemset ==
  ASSUME call \in Calls, FillInv, memset
  PROVE  FillInv'
<1>1. Upwards(call) /\ pc = "loop" /\ call.fn = "memset" /\ CountOf(call) = call.n /\ ~Stringy(call)
  BY DEF memset, Fn, Upwards, CountOf, Stringy
<1>2. i \in Nat /\ i <= call.n /\ mem = Filled(call, i) BY <1>1 DEF FillInv
<1>3. call' = call BY DEF memset, Store, Return
<1>4. CASE i < call.n
  <2>1. TextOf(call)[i] = call.q % Bytes
    <3>1. i \in 0 .. N - 1 BY <1>1, <1>2, <1>4, NextPlace
    <3> QED BY <1>1, <3>1 DEF TextOf
  <2>2. mem' = Filled(call, i + 1) BY <1>1, <1>2, <1>4, <2>1, FillStep DEF memset, Store
  <2>3. i' = i + 1 /\ pc' = "loop" BY <1>1, <1>2, <1>4, NextPlace DEF memset, Store
  <2>4. i + 1 \in Nat /\ i + 1 <= call.n BY <1>2, <1>4, CallTypes
  <2> QED BY <1>1, <1>3, <2>2, <2>3, <2>4 DEF FillInv
<1>5. CASE ~(i < call.n)
  <2>1. i = call.n BY <1>2, <1>5, CallTypes
  <2>2. mem' = mem /\ pc' = "done" BY <1>5 DEF memset, Return
  <2> QED BY <1>1, <1>2, <1>3, <2>1, <2>2 DEF FillInv
<1> QED BY <1>4, <1>5

(* What the byte that is read tells of the string's length.                *)
LEMMA AtEnd ==
  ASSUME NEW m, NEW a \in 0 .. N - 1, Ends(m, a), NEW j \in Nat, j <= LengthIn(m, a)
  PROVE  IF m[a + j] = 0 THEN j = LengthIn(m, a) ELSE j + 1 <= LengthIn(m, a)
<1>1. LengthIn(m, a) \in Nat BY StringAt, Sizes
<1>2. CASE j = LengthIn(m, a) BY <1>2, StringAt
<1>3. CASE j < LengthIn(m, a)
  <2>1. j \in 0 .. LengthIn(m, a) - 1 BY <1>1, <1>3
  <2> QED BY <1>1, <1>3, <2>1, StringAt
<1> QED BY <1>1, <1>2, <1>3

LEMMA StrcpyFills ==
  ASSUME call \in Calls, FillInv, strcpy
  PROVE  FillInv'
<1> DEFINE L == LengthIn(call.mem, call.q)
<1>1. Upwards(call) /\ pc = "loop" /\ call.fn = "strcpy" /\ CountOf(call) = L + 1 /\ Stringy(call)
  BY DEF strcpy, Fn, Upwards, CountOf, Stringy
<1>2. i \in Nat /\ mem = Filled(call, i) /\ i <= L BY <1>1 DEF FillInv
<1>3. call' = call BY DEF strcpy
<1>4. call.q \in 0 .. N - 1 /\ Ends(call.mem, call.q) /\ L \in Nat
  BY <1>1, WriteArguments, StringAt
<1>5. i < CountOf(call) BY <1>1, <1>2, <1>4
<1>6. Byte(call.q) = TextOf(call)[i] /\ Byte(call.q) = call.mem[call.q + i]
  BY <1>1, <1>2, <1>5, SourceByte DEF Byte
<1>7. mem' = Filled(call, i + 1) BY <1>1, <1>2, <1>5, <1>6, FillStep DEF strcpy
<1>8. CASE Byte(call.q) = 0
  <2>1. i = L BY <1>2, <1>4, <1>6, <1>8, AtEnd
  <2>2. pc' = "done" BY <1>8 DEF strcpy
  <2> QED BY <1>1, <1>3, <1>7, <2>1, <2>2 DEF FillInv
<1>9. CASE Byte(call.q) # 0
  <2>1. i + 1 <= L BY <1>2, <1>4, <1>6, <1>9, AtEnd
  <2>2. pc' = "loop" /\ i' = i + 1 BY <1>1, <1>2, <1>5, <1>9, NextPlace DEF strcpy
  <2>3. i + 1 \in Nat /\ i + 1 <= CountOf(call) BY <1>1, <1>2, <1>4, <2>1
  <2> QED BY <1>1, <1>3, <1>7, <2>1, <2>2, <2>3 DEF FillInv
<1> QED BY <1>8, <1>9

LEMMA StrncpyFills ==
  ASSUME call \in Calls, FillInv, strncpy
  PROVE  FillInv'
<1> DEFINE L == LengthIn(call.mem, call.q)
<1>1. Upwards(call) /\ pc = "loop" /\ call.fn = "strncpy" /\ CountOf(call) = call.n /\ Stringy(call)
  BY DEF strncpy, Upwards, CountOf, Stringy
<1>2. i \in Nat /\ mem = Filled(call, i) /\ i <= L /\ i <= call.n BY <1>1 DEF FillInv
<1>3. call' = call BY DEF strncpy
<1>4. call.q \in 0 .. N - 1 /\ Ends(call.mem, call.q) /\ L \in Nat /\ call.n \in Nat
  BY <1>1, WriteArguments, StringAt, CallTypes
<1>5. CASE ~(i < call.n)
  <2>1. pc' = "pad" /\ mem' = mem /\ i' = i BY <1>5 DEF strncpy
  <2> QED BY <1>1, <1>2, <1>3, <1>5, <2>1 DEF FillInv
<1>6. CASE i < call.n
  <2>1. Byte(call.q) = TextOf(call)[i] /\ Byte(call.q) = call.mem[call.q + i]
    BY <1>1, <1>2, <1>6, SourceByte DEF Byte
  <2>2. mem' = Filled(call, i + 1)
    <3>1. mem' = [mem EXCEPT ![(call.p + i) % N] = TextOf(call)[i]] BY <1>6, <2>1 DEF strncpy
    <3> QED BY <1>1, <1>2, <1>6, <3>1, FillStep
  <2>3. CASE Byte(call.q) = 0
    <3>1. i = L BY <1>2, <1>4, <2>1, <2>3, AtEnd
    <3>2. pc' = "pad" /\ i' = i BY <1>6, <2>3 DEF strncpy
    <3>3. i >= L BY <3>1, <1>4
    <3> QED BY <1>1, <1>2, <1>3, <1>6, <2>2, <3>2, <3>3 DEF FillInv
  <2>4. CASE Byte(call.q) # 0
    <3>1. i + 1 <= L BY <1>2, <1>4, <2>1, <2>4, AtEnd
    <3>2. pc' = "loop" /\ i' = i + 1 BY <1>1, <1>6, <2>4 DEF strncpy
    <3>3. i + 1 \in Nat /\ i + 1 <= call.n BY <1>2, <1>4, <1>6
    <3> QED BY <1>1, <1>3, <2>2, <3>1, <3>2, <3>3 DEF FillInv
  <2> QED BY <2>3, <2>4
<1> QED BY <1>5, <1>6

LEMMA PadFills ==
  ASSUME call \in Calls, FillInv, Pad, call.fn = "strncpy"
  PROVE  FillInv'
<1> DEFINE L == LengthIn(call.mem, call.q)
<1>1. Upwards(call) /\ pc = "pad" /\ CountOf(call) = call.n
  BY DEF Pad, Upwards, CountOf
<1>2. /\ i \in Nat /\ i <= call.n /\ (i < call.n => i >= L)
      /\ mem = Filled(call, i) \/ (i < call.n /\ mem = Filled(call, i + 1))
  BY <1>1 DEF FillInv
<1>3. call' = call BY DEF Pad, Store, Return
<1>4. call.q \in 0 .. N - 1 /\ Ends(call.mem, call.q) /\ L \in Nat /\ call.n \in Nat
      /\ call.mem[call.q + L] = 0
  BY <1>1, WriteArguments, StringAt, CallTypes
<1>5. CASE ~(i < call.n)
  <2>1. pc' = "done" /\ mem' = mem BY <1>5 DEF Pad, Return
  <2>2. i = call.n BY <1>2, <1>4, <1>5
  <2> QED BY <1>1, <1>2, <1>3, <1>5, <2>1, <2>2 DEF FillInv
<1>6. CASE i < call.n
  <2>1. TextOf(call)[i] = 0
    <3>1. i \in 0 .. N - 1 BY <1>1, <1>2, <1>6, NextPlace
    <3>2. i = L \/ i > L BY <1>2, <1>4, <1>6
    <3> QED BY <1>4, <3>1, <3>2 DEF TextOf
  <2>2. mem' = [mem EXCEPT ![(call.p + i) % N] = 0] /\ i' = i + 1 /\ pc' = "pad"
    BY <1>1, <1>6 DEF Pad, Store
  <2>3. mem' = Filled(call, i + 1)
    <3>1. mem' = [mem EXCEPT ![(call.p + i) % N] = TextOf(call)[i]] BY <2>1, <2>2
    <3>2. CASE mem = Filled(call, i) BY <1>1, <1>2, <1>6, <3>1, <3>2, FillStep
    <3>3. CASE mem = Filled(call, i + 1) BY <1>1, <1>2, <1>6, <3>1, <3>3, FillAgain
    <3> QED BY <1>2, <3>2, <3>3
  <2>4. i + 1 \in Nat /\ i + 1 <= call.n /\ i + 1 >= L BY <1>2, <1>4, <1>6
  <2> QED BY <1>1, <1>3, <2>2, <2>3, <2>4 DEF FillInv
<1> QED BY <1>5, <1>6

-----------------------------------------------------------------------------
(* memmove downwards: the places above i hold the text.  A counter at or   *)
(* above the half of its range is below 0 as an int, and ends the loop.    *)
DownFrom(c) == c.fn = "memmove" /\ c.p >= c.q
Shifted(c, j) == Put(c.mem, c.p, TextOf(c), j, c.n)
DownInv ==
    DownFrom(call) =>
        /\ pc \in {"loop", "done"}
        /\ pc = "loop" =>
             \/ call.n <= N \div 2 /\ i \in 0 .. call.n - 1 /\ mem = Shifted(call, i + 1)
             \/ call.n <= N \div 2 /\ i = N - 1 /\ mem = Shifted(call, 0)
             \/ call.n > N \div 2 /\ i = call.n - 1 /\ mem = call.mem
        /\ pc = "done" => mem = IF call.n > N \div 2 THEN call.mem ELSE Shifted(call, 0)

LEMMA ShiftStep ==
  ASSUME NEW c \in Calls, DownFrom(c), NEW j \in 0 .. c.n - 1, NEW m, m = Shifted(c, j + 1)
  PROVE  [m EXCEPT ![(c.p + j) % N] = m[(c.q + j) % N]] = Shifted(c, j)
<1>1. /\ c.q \in 0 .. N - 1 /\ c.p \in 0 .. N - 1 /\ c.n \in Nat /\ N \in Nat
      /\ c.p + c.n <= N /\ c.q + c.n <= N /\ c.p >= c.q
  BY CallsAssumption, CallTypes, Sizes DEF DownFrom
<1>2. c.p + j \in 0 .. N - 1 /\ c.q + j \in 0 .. N - 1 /\ j \in 0 .. N - 1 /\ j \in Nat
  BY <1>1
<1>3. (c.p + j) % N = c.p + j /\ (c.q + j) % N = c.q + j BY <1>2, SmallMod
<1>4. ~(c.q + j >= c.p + (j + 1) /\ c.q + j < c.p + c.n) BY <1>1, <1>2
<1>5. m[c.q + j] = c.mem[c.q + j] BY <1>2, <1>4, PutElsewhere DEF Shifted
<1>6. TextOf(c)[j] = c.mem[c.q + j] BY <1>2 DEF TextOf, DownFrom
<1>7. [Put(c.mem, c.p, TextOf(c), j + 1, c.n) EXCEPT ![c.p + j] = TextOf(c)[j]]
        = Put(c.mem, c.p, TextOf(c), j, c.n)
  <2> DEFINE p == c.p
             text == TextOf(c)
             old == c.mem
             n == c.n
  <2>1. p \in Nat /\ n \in Nat /\ j < n /\ p + j <= N - 1 BY <1>1, <1>2
  <2> HIDE DEF p, text, old, n
  <2>2. [Put(old, p, text, j + 1, n) EXCEPT ![p + j] = text[j]] = Put(old, p, text, j, n)
    BY <1>2, <2>1, PutDown
  <2> QED BY <2>2 DEF p, text, old, n
<1> QED BY <1>3, <1>5, <1>6, <1>7 DEF Shifted

LEMMA SignedHalf ==
  /\ \A x \in 0 .. N - 1 : SignedInt(x) >= 0 <=> x < N \div 2
  /\ N - 1 \in 0 .. N - 1 /\ ~(N - 1 < N \div 2)
BY Sizes DEF SignedInt

LEMMA CopyDown ==
  ASSUME call \in Calls, DownInv, Copy, Downwards
  PROVE  DownInv'
<1>1. DownFrom(call) /\ pc = "loop" BY DEF Copy, Fn, Downwards, DownFrom
<1>2. call' = call BY DEF Copy, Store, Return
<1>3. call.n \in Nat /\ call.n <= N - 1 /\ N \in Nat /\ N \div 2 \in Nat BY CallTypes, Sizes
<1>4. CASE call.n <= N \div 2 /\ i \in 0 .. call.n - 1 /\ mem = Shifted(call, i + 1)
  <2>1. i \in 0 .. N - 1 /\ i < N \div 2 BY <1>3, <1>4
  <2>2. Turns BY <2>1, SignedHalf DEF Turns
  <2>3. mem' = [mem EXCEPT ![(call.p + i) % N] = mem[(call.q + i) % N]] /\ i' = (i - 1) % N /\ pc' = "loop"
    BY <1>1, <2>2 DEF Copy, Store, Byte
  <2>4. mem' = Shifted(call, i) BY <1>1, <1>4, <2>3, ShiftStep
  <2>5. CASE i = 0
    <3>1. i' = N - 1 BY <2>3, <2>5, BelowZero
    <3> QED BY <1>2, <1>4, <2>3, <2>4, <2>5, <3>1 DEF DownInv
  <2>6. CASE i # 0
    <3>1. i - 1 \in 0 .. N - 1 BY <2>1, <2>6, <1>3
    <3>2. i' = i - 1 BY <2>3, <3>1, SmallMod
    <3>3. i' \in 0 .. call.n - 1 /\ i' + 1 = i BY <1>3, <1>4, <2>6, <3>2
    <3> QED BY <1>2, <1>4, <2>3, <2>4, <3>3 DEF DownInv
  <2> QED BY <2>5, <2>6
<1>5. CASE call.n <= N \div 2 /\ i = N - 1 /\ mem = Shifted(call, 0)
  <2>1. ~Turns BY <1>5, SignedHalf DEF Turns
  <2>2. mem' = mem /\ pc' = "done" BY <2>1 DEF Copy, Return
  <2>3. ~(call.n > N \div 2) BY <1>3, <1>5
  <2> QED BY <1>2, <1>5, <2>2, <2>3 DEF DownInv
<1>6. CASE call.n > N \div 2 /\ i = call.n - 1 /\ mem = call.mem
  <2>1. i \in 0 .. N - 1 /\ ~(i < N \div 2) BY <1>3, <1>6
  <2>2. ~Turns BY <2>1, SignedHalf DEF Turns
  <2>3. mem' = mem /\ pc' = "done" BY <2>2 DEF Copy, Return
  <2> QED BY <1>2, <1>6, <2>3 DEF DownInv
<1> QED BY <1>1, <1>4, <1>5, <1>6 DEF DownInv

-----------------------------------------------------------------------------
(* Comparisons: the first i characters are the same and, in strings, no    *)
(* NUL.  The result is that of the first place where they differ.          *)
Comparing(c) == c.fn \in {"strcmp", "strncmp", "memcmp"}
Agree(c, j) == c.mem[c.p + j] = c.mem[c.q + j]
InBoth(c, j) == j <= LengthIn(c.mem, c.p) /\ j <= LengthIn(c.mem, c.q)
Counts(c, j) ==
    /\ c.fn # "strcmp" => j < c.n
    /\ c.fn # "memcmp" => InBoth(c, j)
RankIn(c, v) == IF c.fn = "memcmp" THEN v ELSE IF v = 0 THEN -Bytes ELSE Plain(v)
Orders(r, by) == (r > 0 <=> by > 0) /\ (r < 0 <=> by < 0)
Answer(c, r) ==
    \/ r = 0 /\ \A k \in Nat : Counts(c, k) => Agree(c, k)
    \/ \E d \in Nat :
         /\ Counts(c, d) /\ ~Agree(c, d) /\ \A k \in 0 .. d - 1 : Agree(c, k)
         /\ Orders(r, RankIn(c, c.mem[c.p + d]) - RankIn(c, c.mem[c.q + d]))
CompareInv ==
    Comparing(call) =>
        /\ pc \in {"loop", "done"}
        /\ pc = "loop" =>
             /\ i \in Nat /\ mem = call.mem /\ \A k \in 0 .. i - 1 : Agree(call, k)
             /\ call.fn # "strcmp" => i <= call.n
             /\ call.fn # "memcmp" => InBoth(call, i)
        /\ pc = "done" => Answer(call, ret)

LEMMA CompareArguments ==
  ASSUME NEW c \in Calls, Comparing(c)
  PROVE  /\ c.p \in 0 .. N - 1 /\ c.q \in 0 .. N - 1 /\ c.n \in 0 .. N - 1 /\ N \in Nat
         /\ c.mem \in [0 .. N - 1 -> 0 .. Bytes - 1]
         /\ c.fn = "memcmp" => c.p + c.n <= N /\ c.q + c.n <= N
         /\ c.fn # "memcmp" => Ends(c.mem, c.p) /\ Ends(c.mem, c.q)
BY CallsAssumption, CallTypes, Sizes DEF Comparing

(* Both places of a character that counts lie in memory.                   *)
LEMMA ComparePlaces ==
  ASSUME NEW c \in Calls, Comparing(c), NEW j \in Nat, Counts(c, j)
  PROVE  /\ c.p + j \in 0 .. N - 1 /\ c.q + j \in 0 .. N - 1
         /\ (c.p + j) % N = c.p + j /\ (c.q + j) % N = c.q + j
<1>0. c.p \in 0 .. N - 1 /\ c.q \in 0 .. N - 1 /\ c.n \in 0 .. N - 1 /\ N \in Nat BY CompareArguments
<1>1. CASE c.fn = "memcmp"
  <2>1. j < c.n BY <1>1 DEF Counts
  <2>2. c.p + c.n <= N /\ c.q + c.n <= N BY <1>1, CompareArguments
  <2>3. c.p + j \in 0 .. N - 1 /\ c.q + j \in 0 .. N - 1 BY <1>0, <2>1, <2>2
  <2> QED BY <2>3, SmallMod
<1>2. CASE c.fn # "memcmp"
  <2>1. /\ LengthIn(c.mem, c.p) \in 0 .. N - 1 /\ LengthIn(c.mem, c.q) \in 0 .. N - 1
        /\ c.p + LengthIn(c.mem, c.p) < N /\ c.q + LengthIn(c.mem, c.q) < N
    BY <1>2, CompareArguments, StringAt
  <2>2. j <= LengthIn(c.mem, c.p) /\ j <= LengthIn(c.mem, c.q) BY <1>2 DEF Counts, InBoth
  <2>3. c.p + j \in 0 .. N - 1 /\ c.q + j \in 0 .. N - 1 BY <1>0, <2>1, <2>2
  <2> QED BY <2>3, SmallMod
<1> QED BY <1>1, <1>2

(* A NUL ranks below every character, signed or not.                       *)
LEMMA NulIsLeast ==
  ASSUME NEW v \in 0 .. Bytes - 1
  PROVE  Plain(v) \in Int /\ (v # 0 => -Bytes < Plain(v))
<1>1. CASE CharSigned /\ v >= Bytes \div 2 BY <1>1, Sizes DEF Plain
<1>2. CASE ~(CharSigned /\ v >= Bytes \div 2) BY <1>2, Sizes DEF Plain
<1> QED BY <1>1, <1>2

LEMMA NulOrders ==
  ASSUME NEW c, c.fn # "memcmp", NEW a \in 0 .. Bytes - 1, NEW b \in 0 .. Bytes - 1, a # b,
         a = 0 \/ b = 0
  PROVE  Orders(a - b, RankIn(c, a) - RankIn(c, b))
<1>1. CASE a = 0
  <2>1. RankIn(c, a) = -Bytes /\ RankIn(c, b) = Plain(b) /\ b # 0 BY <1>1 DEF RankIn
  <2> DEFINE x == Plain(b)
  <2>2. x \in Int /\ -Bytes < x BY <2>1, NulIsLeast
  <2> HIDE DEF x
  <2>3. (-Bytes) - x < 0 /\ a - b < 0 BY <1>1, <2>1, <2>2, Sizes
  <2> QED BY <2>1, <2>2, <2>3, Sizes DEF Orders, x
<1>2. CASE b = 0
  <2>1. RankIn(c, b) = -Bytes /\ RankIn(c, a) = Plain(a) /\ a # 0 BY <1>2 DEF RankIn
  <2> DEFINE x == Plain(a)
  <2>2. x \in Int /\ -Bytes < x BY <2>1, NulIsLeast
  <2> HIDE DEF x
  <2>3. x - (-Bytes) > 0 /\ a - b > 0 BY <1>2, <2>1, <2>2, Sizes
  <2> QED BY <2>1, <2>2, <2>3, Sizes DEF Orders, x
<1> QED BY <1>1, <1>2

(* One turn on two strings, each of which goes on at least to here.        *)
LEMMA CompareTurn ==
  ASSUME call \in Calls, CompareInv, Comparing(call), call.fn # "memcmp", pc = "loop",
         Counts(call, i), CompareStrings
  PROVE  CompareInv'
<1> DEFINE a == call.mem[call.p + i]
           b == call.mem[call.q + i]
<1>1. i \in Nat /\ mem = call.mem /\ (\A k \in 0 .. i - 1 : Agree(call, k)) /\ InBoth(call, i)
  BY DEF CompareInv
<1>2. call' = call BY DEF CompareStrings, Return, NextTurn
<1>3. a \in 0 .. Bytes - 1 /\ b \in 0 .. Bytes - 1 BY <1>1, ComparePlaces, CompareArguments
<1>4. Byte(call.p) = a /\ Byte(call.q) = b BY <1>1, ComparePlaces DEF Byte
<1>5. /\ i <= LengthIn(call.mem, call.p) /\ i <= LengthIn(call.mem, call.q)
      /\ LengthIn(call.mem, call.p) \in Nat /\ LengthIn(call.mem, call.q) \in Nat
  <2>1. LengthIn(call.mem, call.p) \in 0 .. N - 1 /\ LengthIn(call.mem, call.q) \in 0 .. N - 1
    BY CompareArguments, StringAt
  <2> QED BY <1>1, <2>1 DEF InBoth
<1>6. CASE a = 0 /\ b = 0
  <2>1. ret' = 0 /\ pc' = "done" BY <1>4, <1>6 DEF CompareStrings, Return
  <2>2. i = LengthIn(call.mem, call.p) BY <1>1, <1>5, <1>6, CompareArguments, AtEnd
  <2>3. ASSUME NEW k \in Nat, Counts(call, k) PROVE Agree(call, k)
    <3>1. k <= i BY <2>2, <2>3 DEF Counts, InBoth
    <3>2. CASE k = i BY <1>6, <3>2 DEF Agree
    <3>3. CASE k # i
      <4>1. k \in 0 .. i - 1 BY <1>1, <3>1, <3>3
      <4> QED BY <1>1, <4>1
    <3> QED BY <3>2, <3>3
  <2> QED BY <1>2, <2>1, <2>3 DEF CompareInv, Answer
<1>7. CASE a # b /\ (a = 0 \/ b = 0)
  <2>1. ret' = a - b /\ pc' = "done" BY <1>4, <1>7 DEF CompareStrings, Return
  <2>2. Orders(a - b, RankIn(call, a) - RankIn(call, b)) BY <1>3, <1>7, NulOrders
  <2>3. ~Agree(call, i) BY <1>7 DEF Agree
  <2> QED BY <1>1, <1>2, <2>1, <2>2, <2>3 DEF CompareInv, Answer
<1>8. CASE a # b /\ a # 0 /\ b # 0
  <2>1. ret' = Plain(a) - Plain(b) /\ pc' = "done" BY <1>4, <1>8 DEF CompareStrings, Return
  <2>2. Orders(ret', RankIn(call, a) - RankIn(call, b)) BY <1>8, <2>1 DEF Orders, RankIn
  <2>3. ~Agree(call, i) BY <1>8 DEF Agree
  <2> QED BY <1>1, <1>2, <2>1, <2>2, <2>3 DEF CompareInv, Answer
<1>9. CASE a = b /\ a # 0
  <2>1. i' = (i + 1) % N /\ mem' = mem /\ pc' = "loop" BY <1>4, <1>9 DEF CompareStrings, NextTurn
  <2>2. i + 1 <= LengthIn(call.mem, call.p) /\ i + 1 <= LengthIn(call.mem, call.q)
    BY <1>1, <1>5, <1>9, CompareArguments, AtEnd
  <2>3. i + 1 \in 0 .. N - 1
    <3>1. LengthIn(call.mem, call.p) \in 0 .. N - 1 BY CompareArguments, StringAt
    <3> QED BY <1>1, <2>2, <3>1, Sizes
  <2>4. i' = i + 1 BY <2>1, <2>3, SmallMod
  <2>5. \A k \in 0 .. i : Agree(call, k)
    <3> TAKE k \in 0 .. i
    <3>1. k = i \/ k \in 0 .. i - 1 BY <1>1
    <3> QED BY <1>1, <1>9, <3>1 DEF Agree
  <2>6. (i + 1) - 1 = i /\ i + 1 \in Nat BY <1>1
  <2>7. call.fn # "strcmp" => i + 1 <= call.n BY <1>1, CompareArguments DEF Counts
  <2> QED BY <1>1, <1>2, <2>1, <2>2, <2>4, <2>5, <2>6, <2>7 DEF CompareInv, InBoth
<1> QED BY <1>6, <1>7, <1>8, <1>9

LEMMA StrcmpCompares == ASSUME call \in Calls, CompareInv, strcmp PROVE CompareInv'
<1>1. Comparing(call) /\ pc = "loop" /\ call.fn = "strcmp" BY DEF strcmp, Fn, Comparing
<1>2. Counts(call, i) BY <1>1 DEF CompareInv, Counts
<1> QED BY <1>1, <1>2, CompareTurn DEF strcmp

(* The count is used up: every character that counts agrees.               *)
LEMMA AllAgree ==
  ASSUME call \in Calls, CompareInv, Comparing(call), call.fn # "strcmp", pc = "loop",
         ~(i < call.n), NEW k \in Nat, Counts(call, k)
  PROVE  Agree(call, k)
<1>1. k < call.n /\ i \in Nat /\ call.n \in Nat BY CallTypes DEF CompareInv, Counts
<1>2. k \in 0 .. i - 1 BY <1>1
<1> QED BY <1>2 DEF CompareInv

LEMMA StrncmpCompares == ASSUME call \in Calls, CompareInv, strncmp PROVE CompareInv'
<1>1. Comparing(call) /\ pc = "loop" /\ call.fn = "strncmp" BY DEF strncmp, Fn, Comparing
<1>2. CASE i < call.n
  <2>1. Counts(call, i) BY <1>1, <1>2 DEF CompareInv, Counts
  <2>2. CompareStrings BY <1>2 DEF strncmp
  <2> QED BY <1>1, <2>1, <2>2, CompareTurn
<1>3. CASE ~(i < call.n)
  <2>1. ret' = 0 /\ pc' = "done" /\ call' = call BY <1>3 DEF strncmp, Return
  <2>2. \A k \in Nat : Counts(call, k) => Agree(call, k) BY <1>1, <1>3, AllAgree
  <2> QED BY <2>1, <2>2 DEF CompareInv, Answer
<1> QED BY <1>2, <1>3

LEMMA MemcmpCompares == ASSUME call \in Calls, CompareInv, memcmp PROVE CompareInv'
<1> DEFINE a == call.mem[call.p + i]
           b == call.mem[call.q + i]
<1>1. Comparing(call) /\ pc = "loop" /\ call.fn = "memcmp" BY DEF memcmp, Fn, Comparing
<1>2. i \in Nat /\ mem = call.mem /\ (\A k \in 0 .. i - 1 : Agree(call, k)) /\ i <= call.n
  BY <1>1 DEF CompareInv
<1>3. call' = call BY DEF memcmp, Return, NextTurn
<1>4. CASE ~(i < call.n)
  <2>1. ret' = 0 /\ pc' = "done" BY <1>4 DEF memcmp, Return
  <2>2. \A k \in Nat : Counts(call, k) => Agree(call, k) BY <1>1, <1>4, AllAgree
  <2> QED BY <1>3, <2>1, <2>2 DEF CompareInv, Answer
<1>5. CASE i < call.n
  <2>1. Counts(call, i) BY <1>1, <1>5 DEF Counts
  <2>2. Byte(call.p) = a /\ Byte(call.q) = b BY <1>1, <1>2, <2>1, ComparePlaces DEF Byte
  <2>3. CASE a = b
    <3>1. i' = (i + 1) % N /\ mem' = mem /\ pc' = "loop" BY <1>1, <1>5, <2>2, <2>3 DEF memcmp, NextTurn
    <3>2. i + 1 \in 0 .. N - 1 /\ i + 1 <= call.n BY <1>1, <1>2, <1>5, CompareArguments
    <3>3. i' = i + 1 BY <3>1, <3>2, SmallMod
    <3>4. \A k \in 0 .. i : Agree(call, k)
      <4> TAKE k \in 0 .. i
      <4>1. k = i \/ k \in 0 .. i - 1 BY <1>2
      <4> QED BY <1>2, <2>3, <4>1 DEF Agree
    <3>5. (i + 1) - 1 = i /\ i + 1 \in Nat BY <1>2
    <3> QED BY <1>1, <1>2, <1>3, <3>1, <3>2, <3>3, <3>4, <3>5 DEF CompareInv
  <2>4. CASE a # b
    <3>1. ret' = a - b /\ pc' = "done" BY <1>5, <2>2, <2>4 DEF memcmp, Return
    <3>2. Orders(ret', RankIn(call, a) - RankIn(call, b)) BY <1>1, <3>1 DEF Orders, RankIn
    <3>3. ~Agree(call, i) BY <2>4 DEF Agree
    <3> QED BY <1>2, <1>3, <2>1, <3>1, <3>2, <3>3 DEF CompareInv, Answer
  <2> QED BY <2>3, <2>4
<1> QED BY <1>4, <1>5

-----------------------------------------------------------------------------
(* Searches: none of the first i characters is the NUL; strchr has met no  *)
(* match among them, strrchr remembers the last one.                       *)
Searching(c) == c.fn \in {"strchr", "strrchr", "strlen"}
Match(c, j) == Plain(c.mem[c.p + j]) = c.q
LastMatch(c, j, l) ==
    \/ l = NULL /\ \A k \in 0 .. j - 1 : ~Match(c, k)
    \/ \E d \in 0 .. j - 1 : l = c.p + d /\ Match(c, d) /\ \A k \in d + 1 .. j - 1 : ~Match(c, k)
FirstMatch(c, r) ==
    \/ r = NULL /\ \A k \in 0 .. LengthIn(c.mem, c.p) : ~Match(c, k)
    \/ \E d \in 0 .. LengthIn(c.mem, c.p) : r = c.p + d /\ Match(c, d) /\ \A k \in 0 .. d - 1 : ~Match(c, k)
Found(c, r) ==
    /\ c.fn = "strchr" => FirstMatch(c, r)
    /\ c.fn = "strrchr" => LastMatch(c, LengthIn(c.mem, c.p) + 1, r)
    /\ c.fn = "strlen" => r = LengthIn(c.mem, c.p)
SearchInv ==
    Searching(call) =>
        /\ pc \in {"loop", "done"}
        /\ pc = "loop" =>
             /\ i \in Nat /\ mem = call.mem /\ i <= LengthIn(call.mem, call.p)
             /\ call.fn = "strchr" => \A k \in 0 .. i - 1 : ~Match(call, k)
             /\ call.fn = "strrchr" => LastMatch(call, i, last)
        /\ pc = "done" => Found(call, ret)

(* What every turn of a search knows.                                      *)
LEMMA SearchTurn ==
  ASSUME call \in Calls, SearchInv, Searching(call), pc = "loop"
  PROVE  /\ i \in Nat /\ mem = call.mem /\ LengthIn(call.mem, call.p) \in Nat
         /\ i <= LengthIn(call.mem, call.p)
         /\ Byte(call.p) = call.mem[call.p + i] /\ (Matches <=> Match(call, i))
         /\ Byte(call.p) = 0 => i = LengthIn(call.mem, call.p)
         /\ Byte(call.p) # 0 => i + 1 <= LengthIn(call.mem, call.p) /\ (i + 1) % N = i + 1
<1> DEFINE L == LengthIn(call.mem, call.p)
<1>1. i \in Nat /\ mem = call.mem /\ i <= L BY DEF SearchInv
<1>2. call.p \in 0 .. N - 1 /\ Ends(call.mem, call.p)
  BY CallsAssumption, CallTypes DEF Searching
<1>3. L \in 0 .. N - 1 /\ call.p + L < N BY <1>2, StringAt
<1>4. call.p + i \in 0 .. N - 1 BY <1>1, <1>2, <1>3, Sizes
<1>5. Byte(call.p) = call.mem[call.p + i] BY <1>1, <1>4, SmallMod DEF Byte
<1>6. IF call.mem[call.p + i] = 0 THEN i = L ELSE i + 1 <= L BY <1>1, <1>2, AtEnd
<1>7. Byte(call.p) # 0 => (i + 1) % N = i + 1
  <2> SUFFICES ASSUME Byte(call.p) # 0 PROVE (i + 1) % N = i + 1 OBVIOUS
  <2>1. i + 1 <= L BY <1>5, <1>6
  <2>2. i + 1 \in 0 .. N - 1 BY <1>1, <1>3, <2>1, Sizes
  <2> QED BY <2>2, SmallMod
<1>8. L \in Nat BY <1>3
<1>9. Matches <=> Match(call, i) BY <1>5 DEF Matches, Match
<1> QED BY <1>1, <1>5, <1>6, <1>7, <1>8, <1>9

LEMMA StrchrFinds == ASSUME call \in Calls, SearchInv, strchr PROVE SearchInv'
<1> DEFINE L == LengthIn(call.mem, call.p)
<1>1. Searching(call) /\ pc = "loop" /\ call.fn = "strchr" BY DEF strchr, Fn, Searching
<1>2. /\ i \in Nat /\ mem = call.mem /\ L \in Nat /\ i <= L /\ (Matches <=> Match(call, i))
      /\ Byte(call.p) = 0 => i = L
      /\ Byte(call.p) # 0 => i + 1 <= L /\ (i + 1) % N = i + 1
  BY <1>1, SearchTurn
<1>3. \A k \in 0 .. i - 1 : ~Match(call, k) BY <1>1 DEF SearchInv
<1>4. call' = call BY DEF strchr, Return, NextTurn
<1>5. CASE Matches
  <2>1. pc' = "done" /\ ret' = call.p + i BY <1>5 DEF strchr, Return
  <2>2. i \in 0 .. L BY <1>2
  <2>3. FirstMatch(call, ret') BY <1>2, <1>3, <1>5, <2>1, <2>2 DEF FirstMatch
  <2> QED BY <1>1, <1>4, <2>1, <2>3 DEF SearchInv, Found
<1>6. CASE ~Matches
  <2>1. \A k \in 0 .. i : ~Match(call, k)
    <3> TAKE k \in 0 .. i
    <3>1. k = i \/ k \in 0 .. i - 1 BY <1>2
    <3> QED BY <1>2, <1>3, <1>6, <3>1
  <2>2. CASE Byte(call.p) = 0
    <3>1. pc' = "done" /\ ret' = NULL BY <1>6, <2>2 DEF strchr, Return
    <3>2. FirstMatch(call, ret') BY <1>2, <2>1, <2>2, <3>1 DEF FirstMatch
    <3> QED BY <1>1, <1>4, <3>1, <3>2 DEF SearchInv, Found
  <2>3. CASE Byte(call.p) # 0
    <3>1. pc' = "loop" /\ i' = i + 1 /\ mem' = mem BY <1>1, <1>2, <1>6, <2>3 DEF strchr, NextTurn
    <3>2. (i + 1) - 1 = i /\ i + 1 \in Nat BY <1>2
    <3> QED BY <1>1, <1>2, <1>4, <2>1, <2>3, <3>1, <3>2 DEF SearchInv
  <2> QED BY <2>2, <2>3
<1> QED BY <1>5, <1>6

LEMMA StrrchrFinds == ASSUME call \in Calls, SearchInv, strrchr PROVE SearchInv'
<1> DEFINE L == LengthIn(call.mem, call.p)
<1>1. Searching(call) /\ pc = "loop" /\ call.fn = "strrchr" BY DEF strrchr, Fn, Searching
<1>2. /\ i \in Nat /\ mem = call.mem /\ L \in Nat /\ i <= L /\ (Matches <=> Match(call, i))
      /\ Byte(call.p) = 0 => i = L
      /\ Byte(call.p) # 0 => i + 1 <= L /\ (i + 1) % N = i + 1
  BY <1>1, SearchTurn
<1>3. LastMatch(call, i, last) BY <1>1 DEF SearchInv
<1>4. call' = call /\ mem' = mem BY DEF strrchr
<1>5. LastMatch(call, i + 1, last')
  <2>0. (i + 1) - 1 = i /\ i \in 0 .. i BY <1>2
  <2>1. CASE Matches
    <3>1. last' = call.p + i BY <2>1 DEF strrchr
    <3>2. \A k \in i + 1 .. i : ~Match(call, k) BY <1>2
    <3> QED BY <1>2, <2>0, <2>1, <3>1, <3>2 DEF LastMatch
  <2>2. CASE ~Matches
    <3>1. last' = last BY <2>2 DEF strrchr
    <3>2. CASE last = NULL /\ \A k \in 0 .. i - 1 : ~Match(call, k)
      <4>1. \A k \in 0 .. i : ~Match(call, k)
        <5> TAKE k \in 0 .. i
        <5>1. k = i \/ k \in 0 .. i - 1 BY <1>2
        <5> QED BY <1>2, <2>2, <3>2, <5>1
      <4> QED BY <2>0, <3>1, <3>2, <4>1 DEF LastMatch
    <3>3. CASE \E d \in 0 .. i - 1 :
                 last = call.p + d /\ Match(call, d) /\ \A k \in d + 1 .. i - 1 : ~Match(call, k)
      <4>1. PICK d \in 0 .. i - 1 :
              last = call.p + d /\ Match(call, d) /\ \A k \in d + 1 .. i - 1 : ~Match(call, k)
        BY <3>3
      <4>2. d \in 0 .. i BY <1>2
      <4>3. \A k \in d + 1 .. i : ~Match(call, k)
        <5> TAKE k \in d + 1 .. i
        <5>1. k = i \/ k \in d + 1 .. i - 1 BY <1>2
        <5> QED BY <1>2, <2>2, <4>1, <5>1
      <4> QED BY <2>0, <3>1, <4>1, <4>2, <4>3 DEF LastMatch
    <3> QED BY <1>3, <3>2, <3>3 DEF LastMatch
  <2> QED BY <2>1, <2>2
<1>6. CASE Byte(call.p) = 0
  <2>1. pc' = "done" /\ ret' = last' BY <1>6 DEF strrchr
  <2> QED BY <1>1, <1>2, <1>4, <1>5, <1>6, <2>1 DEF SearchInv, Found
<1>7. CASE Byte(call.p) # 0
  <2>1. pc' = "loop" /\ i' = i + 1 BY <1>1, <1>2, <1>7 DEF strrchr
  <2>2. i + 1 \in Nat BY <1>2
  <2> QED BY <1>1, <1>2, <1>4, <1>5, <1>7, <2>1, <2>2 DEF SearchInv
<1> QED BY <1>6, <1>7

LEMMA StrlenFinds == ASSUME call \in Calls, SearchInv, strlen PROVE SearchInv'
<1> DEFINE L == LengthIn(call.mem, call.p)
<1>1. Searching(call) /\ pc = "loop" /\ call.fn = "strlen" BY DEF strlen, Fn, Searching
<1>2. /\ i \in Nat /\ mem = call.mem
      /\ Byte(call.p) = 0 => i = L
      /\ Byte(call.p) # 0 => i + 1 <= L /\ (i + 1) % N = i + 1
  BY <1>1, SearchTurn
<1>3. call' = call BY DEF strlen, Return, NextTurn
<1>4. CASE Byte(call.p) = 0
  <2>1. pc' = "done" /\ ret' = i BY <1>4 DEF strlen, Return
  <2> QED BY <1>1, <1>2, <1>3, <1>4, <2>1 DEF SearchInv, Found
<1>5. CASE Byte(call.p) # 0
  <2>1. pc' = "loop" /\ i' = i + 1 /\ mem' = mem BY <1>1, <1>2, <1>5 DEF strlen, NextTurn
  <2>2. i + 1 \in Nat BY <1>2
  <2> QED BY <1>1, <1>2, <1>3, <1>5, <2>1, <2>2 DEF SearchInv
<1> QED BY <1>4, <1>5

-----------------------------------------------------------------------------
(* The invariant as a whole.                                               *)
Inv ==
    /\ call \in Calls /\ (pc = "pad" => call.fn = "strncpy")
    /\ FillInv /\ DownInv /\ CompareInv /\ SearchInv

LEMMA OneKind ==
  ASSUME NEW c \in Calls
  PROVE  /\ Upwards(c) => ~DownFrom(c) /\ ~Comparing(c) /\ ~Searching(c)
         /\ DownFrom(c) => ~Upwards(c) /\ ~Comparing(c) /\ ~Searching(c)
         /\ Comparing(c) => ~Upwards(c) /\ ~DownFrom(c) /\ ~Searching(c)
         /\ Searching(c) => ~Upwards(c) /\ ~DownFrom(c) /\ ~Comparing(c)
<1>1. c.fn = "memmove" => c.p \in Int /\ c.q \in Int BY CallsAssumption, Sizes
<1> QED BY <1>1 DEF Upwards, DownFrom, Comparing, Searching

LEMMA InitInv == Init => Inv
<1> SUFFICES ASSUME Init PROVE Inv OBVIOUS
<1>1. call \in Calls /\ mem = call.mem /\ pc = "loop" /\ last = NULL BY DEF Init
<1>2. call.n \in Nat /\ call.n \in 0 .. N - 1 BY <1>1, CallTypes
<1>3. FillInv
  <2> SUFFICES ASSUME Upwards(call) PROVE FillInv BY DEF FillInv
  <2>1. ~Downwards BY <1>1, OneKind DEF Downwards, DownFrom
  <2>2. i = 0 BY <2>1 DEF Init
  <2>3. mem = Filled(call, 0) BY <1>1, FillNothing
  <2>4. Stringy(call) => 0 <= LengthIn(call.mem, call.q)
    <3> SUFFICES ASSUME Stringy(call) PROVE 0 <= LengthIn(call.mem, call.q) OBVIOUS
    <3>1. call.q \in 0 .. N - 1 /\ Ends(call.mem, call.q) BY <1>1, WriteArguments DEF Stringy
    <3>2. LengthIn(call.mem, call.q) \in 0 .. N - 1 BY <3>1, StringAt
    <3> QED BY <3>2, Sizes
  <2>5. 0 <= CountOf(call) BY <1>1, WriteArguments
  <2> QED BY <1>1, <2>2, <2>3, <2>4, <2>5 DEF FillInv
<1>4. DownInv
  <2> SUFFICES ASSUME DownFrom(call) PROVE DownInv BY DEF DownInv
  <2>1. i = (call.n - 1) % N BY DEF Init, Downwards, DownFrom
  <2>2. CASE call.n = 0
    <3>1. i = N - 1 BY <2>1, <2>2, BelowZero
    <3>2. mem = Shifted(call, 0)
      <4>1. Put(call.mem, call.p, TextOf(call), 0, 0) = call.mem BY <1>1, CallTypes, PutNothing
      <4> QED BY <1>1, <2>2, <4>1 DEF Shifted
    <3>3. call.n <= N \div 2 BY <2>2, Sizes
    <3> QED BY <1>1, <3>1, <3>2, <3>3 DEF DownInv
  <2>3. CASE call.n # 0
    <3>1. call.n - 1 \in 0 .. N - 1 /\ (call.n - 1) + 1 = call.n /\ call.n - 1 \in 0 .. call.n - 1
      BY <1>2, <2>3, Sizes
    <3>2. i = call.n - 1 BY <2>1, <3>1, SmallMod
    <3>3. mem = Shifted(call, i + 1)
      <4>1. Put(call.mem, call.p, TextOf(call), call.n, call.n) = call.mem BY <1>1, CallTypes, PutNothing
      <4> QED BY <1>1, <3>1, <3>2, <4>1 DEF Shifted
    <3>4. call.n <= N \div 2 \/ call.n > N \div 2 BY <1>2, Sizes
    <3> QED BY <1>1, <3>1, <3>2, <3>3, <3>4 DEF DownInv
  <2> QED BY <2>2, <2>3
<1>5. ASSUME Comparing(call) \/ Searching(call) PROVE i = 0
  <2>1. ~Downwards BY <1>1, <1>5, OneKind DEF Downwards, DownFrom
  <2> QED BY <2>1 DEF Init
<1>6. CompareInv
  <2> SUFFICES ASSUME Comparing(call) PROVE CompareInv BY DEF CompareInv
  <2>1. call.fn # "memcmp" => InBoth(call, 0)
    <3> SUFFICES ASSUME call.fn # "memcmp" PROVE InBoth(call, 0) OBVIOUS
    <3>1. LengthIn(call.mem, call.p) \in 0 .. N - 1 /\ LengthIn(call.mem, call.q) \in 0 .. N - 1
      BY <1>1, CompareArguments, StringAt
    <3> QED BY <3>1, Sizes DEF InBoth
  <2>2. \A k \in 0 .. 0 - 1 : Agree(call, k) OBVIOUS
  <2> QED BY <1>1, <1>2, <1>5, <2>1, <2>2 DEF CompareInv
<1>7. SearchInv
  <2> SUFFICES ASSUME Searching(call) PROVE SearchInv BY DEF SearchInv
  <2>1. call.p \in 0 .. N - 1 /\ Ends(call.mem, call.p) BY <1>1, CallsAssumption, CallTypes DEF Searching
  <2>2. LengthIn(call.mem, call.p) \in 0 .. N - 1 BY <2>1, StringAt
  <2>3. 0 <= LengthIn(call.mem, call.p) BY <2>2, Sizes
  <2>4. \A k \in 0 .. 0 - 1 : ~Match(call, k) OBVIOUS
  <2>5. LastMatch(call, 0, last) BY <1>1, <2>4 DEF LastMatch
  <2> QED BY <1>1, <1>5, <2>3, <2>4, <2>5 DEF SearchInv
<1> QED BY <1>1, <1>3, <1>4, <1>6, <1>7 DEF Inv

(* A step changes the invariant of its own kind of function only.          *)
LEMMA NextInv == Inv /\ [Next]_vars => Inv'
<1> SUFFICES ASSUME Inv, [Next]_vars PROVE Inv' OBVIOUS
<1>1. CASE UNCHANGED vars
  <2>1. call' = call /\ mem' = mem /\ pc' = pc /\ i' = i /\ last' = last /\ ret' = ret
    BY <1>1 DEF vars
  <2> QED BY <2>1 DEF Inv, FillInv, DownInv, CompareInv, SearchInv
<1>2. CASE Next
  <2>1. call \in Calls /\ FillInv /\ DownInv /\ CompareInv /\ SearchInv BY DEF Inv
  <2>2. call' = call
    BY <1>2 DEF Next, Copy, memset, strcpy, strncpy, Pad, strcmp, strncmp, memcmp, strchr, strrchr, strlen,
                CompareStrings, Return, Store, NextTurn
  <2>3. ASSUME Upwards(call), FillInv', pc' = "pad" => call.fn = "strncpy" PROVE Inv'
    BY <2>1, <2>2, <2>3, OneKind DEF Inv, DownInv, CompareInv, SearchInv
  <2>4. ASSUME DownFrom(call), DownInv' PROVE Inv'
    <3>1. pc' # "pad" BY <2>2, <2>4 DEF DownInv
    <3> QED BY <2>1, <2>2, <2>4, <3>1, OneKind DEF Inv, FillInv, CompareInv, SearchInv
  <2>5. ASSUME Comparing(call), CompareInv' PROVE Inv'
    <3>1. pc' # "pad" BY <2>2, <2>5 DEF CompareInv
    <3> QED BY <2>1, <2>2, <2>5, <3>1, OneKind DEF Inv, FillInv, DownInv, SearchInv
  <2>6. ASSUME Searching(call), SearchInv' PROVE Inv'
    <3>1. pc' # "pad" BY <2>2, <2>6 DEF SearchInv
    <3> QED BY <2>1, <2>2, <2>6, <3>1, OneKind DEF Inv, FillInv, DownInv, CompareInv
  <2>7. ASSUME Upwards(call), FillInv' PROVE pc' = "pad" => call.fn = "strncpy"
    BY <2>2, <2>7 DEF FillInv
  <2>8. CASE Copy
    <3>1. CASE Downwards BY <2>1, <2>4, <2>8, <3>1, CopyDown DEF Downwards, DownFrom
    <3>2. CASE ~Downwards
      <4>1. Upwards(call)
        BY <2>1, <2>8, <3>2, CallsAssumption, Sizes DEF Copy, Fn, Downwards, Upwards
      <4> QED BY <2>1, <2>3, <2>7, <2>8, <3>2, <4>1, CopyUp
    <3> QED BY <3>1, <3>2
  <2>9. CASE memset
    <3>1. Upwards(call) BY <2>9 DEF memset, Fn, Upwards
    <3> QED BY <2>1, <2>3, <2>7, <2>9, <3>1, FillsMemset
  <2>10. CASE strcpy
    <3>1. Upwards(call) BY <2>10 DEF strcpy, Fn, Upwards
    <3> QED BY <2>1, <2>3, <2>7, <2>10, <3>1, StrcpyFills
  <2>11. CASE strncpy
    <3>1. Upwards(call) BY <2>11 DEF strncpy, Upwards
    <3> QED BY <2>1, <2>3, <2>7, <2>11, <3>1, StrncpyFills
  <2>12. CASE Pad
    <3>1. call.fn = "strncpy" BY <2>12 DEF Pad, Inv
    <3>2. Upwards(call) BY <3>1 DEF Upwards
    <3> QED BY <2>1, <2>3, <2>7, <2>12, <3>1, <3>2, PadFills
  <2>13. CASE strcmp BY <2>1, <2>5, <2>13, StrcmpCompares DEF strcmp, Fn, Comparing
  <2>14. CASE strncmp BY <2>1, <2>5, <2>14, StrncmpCompares DEF strncmp, Fn, Comparing
  <2>15. CASE memcmp BY <2>1, <2>5, <2>15, MemcmpCompares DEF memcmp, Fn, Comparing
  <2>16. CASE strchr BY <2>1, <2>6, <2>16, StrchrFinds DEF strchr, Fn, Searching
  <2>17. CASE strrchr BY <2>1, <2>6, <2>17, StrrchrFinds DEF strrchr, Fn, Searching
  <2>18. CASE strlen BY <2>1, <2>6, <2>18, StrlenFinds DEF strlen, Fn, Searching
  <2> QED BY <1>2, <2>8, <2>9, <2>10, <2>11, <2>12, <2>13, <2>14, <2>15, <2>16, <2>17, <2>18 DEF Next
<1> QED BY <1>1, <1>2

-----------------------------------------------------------------------------
(* What the invariant says of a call that has returned.                    *)
LEMMA DoneWrites ==
  ASSUME Inv, pc = "done"
  PROVE  MovesAllOrNothing /\ FillsExactly
<1>0. call \in Calls /\ FillInv /\ DownInv BY DEF Inv
<1>1. /\ call.p \in 0 .. N - 1 /\ call.p \in Nat /\ call.q \in Int /\ call.n \in Nat /\ N \in Nat
  BY <1>0, CallTypes, Sizes
<1>2. ASSUME NEW n \in Nat, NEW a \in 0 .. N - 1, a >= call.p
      PROVE  a - call.p \in 0 .. N - 1 /\ a \in Int
  BY <1>1, <1>2
<1>3. ASSUME call.fn \in {"memcpy", "memmove", "strcpy"}, NEW n \in Nat
      PROVE  With(Source, n) = Put(call.mem, call.p, TextOf(call), 0, n)
  <2>1. ASSUME NEW a \in 0 .. N - 1, a >= call.p
        PROVE  TextOf(call)[a - call.p] = Source(a - call.p)
    BY <1>2, <1>3, <2>1 DEF TextOf, Source
  <2>2. call.p + 0 = call.p BY <1>1
  <2> QED BY <2>1, <2>2 DEF With, Put
<1>4. ASSUME call.fn = "memset", NEW n \in Nat
      PROVE  With(Character, n) = Put(call.mem, call.p, TextOf(call), 0, n)
  <2>1. ASSUME NEW a \in 0 .. N - 1, a >= call.p
        PROVE  TextOf(call)[a - call.p] = Character(a - call.p)
    BY <1>2, <1>4, <2>1 DEF TextOf, Character
  <2>2. call.p + 0 = call.p BY <1>1
  <2> QED BY <2>1, <2>2 DEF With, Put
<1>5. ASSUME call.fn = "strncpy", NEW n \in Nat
      PROVE  With(Padded, n) = Put(call.mem, call.p, TextOf(call), 0, n)
  <2>0. Length(call.q) = LengthIn(call.mem, call.q) BY DEF Length, LengthIn
  <2>00. LengthIn(call.mem, call.q) \in Nat
    <3>1. call.q \in 0 .. N - 1 /\ Ends(call.mem, call.q) BY <1>0, <1>5, WriteArguments DEF Upwards
    <3>2. LengthIn(call.mem, call.q) \in 0 .. N - 1 BY <3>1, StringAt
    <3> QED BY <1>1, <3>2
  <2>1. ASSUME NEW a \in 0 .. N - 1, a >= call.p
        PROVE  TextOf(call)[a - call.p] = Padded(a - call.p)
    <3> DEFINE k == a - call.p
    <3>1. k \in 0 .. N - 1 /\ k \in Int BY <1>1, <1>2, <2>1
    <3>2. k > LengthIn(call.mem, call.q) <=> ~(k <= LengthIn(call.mem, call.q)) BY <2>00, <3>1
    <3> HIDE DEF k
    <3>3. TextOf(call)[k] = Padded(k) BY <1>5, <2>0, <3>1, <3>2 DEF TextOf, Padded, Source
    <3> QED BY <3>3 DEF k
  <2>2. call.p + 0 = call.p BY <1>1
  <2> QED BY <2>1, <2>2 DEF With, Put
<1>6. ASSUME Upwards(call) PROVE mem = Put(call.mem, call.p, TextOf(call), 0, CountOf(call))
  BY <1>0, <1>6 DEF FillInv, Filled
<1>7. MovesAllOrNothing
  <2> SUFFICES ASSUME call.fn = "memmove" PROVE MovesAllOrNothing BY DEF MovesAllOrNothing, Done
  <2>1. CASE Downwards
    <3>1. mem = IF call.n > N \div 2 THEN call.mem ELSE Put(call.mem, call.p, TextOf(call), 0, call.n)
      BY <1>0, <2>1 DEF DownInv, DownFrom, Downwards, Shifted
    <3> QED BY <1>1, <1>3, <2>1, <3>1 DEF MovesAllOrNothing
  <2>2. CASE ~Downwards
    <3>1. Upwards(call) BY <1>1, <2>2 DEF Upwards, Downwards
    <3> QED BY <1>1, <1>3, <1>6, <2>2, <3>1 DEF MovesAllOrNothing, CountOf
  <2> QED BY <2>1, <2>2
<1>8. FillsExactly
  <2>1. CASE call.fn = "memcpy"
    BY <1>1, <1>3, <1>6, <2>1 DEF FillsExactly, Done, Upwards, CountOf
  <2>2. CASE call.fn = "memset"
    BY <1>1, <1>4, <1>6, <2>2 DEF FillsExactly, Done, Upwards, CountOf
  <2>3. CASE call.fn = "strcpy"
    <3>1. Length(call.q) + 1 = CountOf(call) BY <2>3 DEF CountOf, Length, LengthIn
    <3>2. CountOf(call) \in Nat BY <1>0, <2>3, WriteArguments DEF Upwards
    <3> QED BY <1>3, <1>6, <2>3, <3>1, <3>2 DEF FillsExactly, Done, Upwards
  <2>4. CASE call.fn = "strncpy"
    BY <1>1, <1>5, <1>6, <2>4 DEF FillsExactly, Done, Upwards, CountOf
  <2> QED BY <2>1, <2>2, <2>3, <2>4 DEF FillsExactly, Done
<1> QED BY <1>7, <1>8

LEMMA DoneCompares ==
  ASSUME Inv, pc = "done"
  PROVE  ComparesInOrder
<1> SUFFICES ASSUME Comparing(call) PROVE ComparesInOrder
  BY DEF ComparesInOrder, Done, Comparing
<1> DEFINE differ == {k \in Compared : call.mem[call.p + k] # call.mem[call.q + k]}
<1>0. call \in Calls /\ Answer(call, ret) BY DEF Inv, CompareInv
<1>1. \A k : k \in Compared <=> k \in Nat /\ Counts(call, k)
  <2>1. call.n \in Nat BY <1>0, CallTypes
  <2>2. CASE call.fn = "memcmp"
    <3>1. Compared = 0 .. call.n - 1 BY <2>2 DEF Compared
    <3>2. \A k : Counts(call, k) <=> k < call.n BY <2>2 DEF Counts
    <3> QED BY <2>1, <3>1, <3>2
  <2>3. CASE call.fn # "memcmp"
    <3> DEFINE a == LengthIn(call.mem, call.p)
               b == LengthIn(call.mem, call.q)
    <3>1. a \in Nat /\ b \in Nat
      <4>1. a \in 0 .. N - 1 /\ b \in 0 .. N - 1 BY <1>0, <2>3, CompareArguments, StringAt
      <4> QED BY <4>1, Sizes
    <3>2. Length(call.p) = a /\ Length(call.q) = b BY DEF Length, LengthIn
    <3>3. \A k : InBoth(call, k) <=> k <= a /\ k <= b BY DEF InBoth
    <3> HIDE DEF a, b
    <3>4. CASE call.fn = "strncmp"
      <4>1. Compared = {k \in 0 .. call.n - 1 : k <= a /\ k <= b} BY <3>2, <3>4 DEF Compared
      <4>2. \A k : Counts(call, k) <=> k < call.n /\ k <= a /\ k <= b BY <3>3, <3>4 DEF Counts
      <4> QED BY <2>1, <4>1, <4>2
    <3>5. CASE call.fn = "strcmp"
      <4>1. Compared = 0 .. Min({a, b}) BY <3>2, <3>5 DEF Compared
      <4>2. \A k : Counts(call, k) <=> k <= a /\ k <= b BY <3>3, <3>5 DEF Counts
      <4>3. Min({a, b}) = IF a <= b THEN a ELSE b
        <5>1. CASE a <= b BY <3>1, <5>1, MinIs
        <5>2. CASE ~(a <= b)
          <6>1. b <= a /\ b <= b BY <3>1, <5>2
          <6>2. Min({a, b}) = b BY <3>1, <6>1, MinIs
          <6> QED BY <5>2, <6>2
        <5> QED BY <5>1, <5>2
      <4> QED BY <3>1, <4>1, <4>2, <4>3
    <3> QED BY <2>3, <3>4, <3>5 DEF Comparing
  <2> QED BY <2>2, <2>3
<1>2. CASE ret = 0 /\ \A k \in Nat : Counts(call, k) => Agree(call, k)
  <2>1. differ = {} BY <1>1, <1>2 DEF Agree
  <2> QED BY <1>2, <2>1 DEF ComparesInOrder
<1>3. CASE \E d \in Nat :
             /\ Counts(call, d) /\ ~Agree(call, d) /\ \A k \in 0 .. d - 1 : Agree(call, k)
             /\ Orders(ret, RankIn(call, call.mem[call.p + d]) - RankIn(call, call.mem[call.q + d]))
  <2>1. PICK d \in Nat :
             /\ Counts(call, d) /\ ~Agree(call, d) /\ \A k \in 0 .. d - 1 : Agree(call, k)
             /\ Orders(ret, RankIn(call, call.mem[call.p + d]) - RankIn(call, call.mem[call.q + d]))
    BY <1>3
  <2>2. d \in differ BY <1>1, <2>1 DEF Agree
  <2>3. \A k \in differ : d <= k
    <3> SUFFICES ASSUME NEW k \in differ, ~(d <= k) PROVE FALSE OBVIOUS
    <3>1. k \in Nat /\ ~Agree(call, k) BY <1>1 DEF Agree
    <3>2. k \in 0 .. d - 1 BY <3>1
    <3> QED BY <2>1, <3>1, <3>2
  <2>4. differ \subseteq Int BY <1>1
  <2>5. Min(differ) = d
    <3> HIDE DEF differ
    <3> QED BY <2>2, <2>3, <2>4, MinIs
  <2>6. \A v : Rank(v) = RankIn(call, v) BY DEF Rank, RankIn
  <2>7. /\ ret > 0 <=> Rank(call.mem[call.p + d]) - Rank(call.mem[call.q + d]) > 0
        /\ ret < 0 <=> Rank(call.mem[call.p + d]) - Rank(call.mem[call.q + d]) < 0
    BY <2>1, <2>6 DEF Orders
  <2>8. differ # {} BY <2>2
  <2> QED BY <2>5, <2>7, <2>8 DEF ComparesInOrder
<1> QED BY <1>0, <1>2, <1>3 DEF Answer

LEMMA DoneSearches ==
  ASSUME Inv, pc = "done"
  PROVE  SearchesString
<1> SUFFICES ASSUME Searching(call) PROVE SearchesString
  BY DEF SearchesString, Done, Searching
<1> DEFINE L == LengthIn(call.mem, call.p)
           found == {a \in call.p .. call.p + Length(call.p) : Plain(call.mem[a]) = call.q}
<1>0. call \in Calls /\ Found(call, ret) BY DEF Inv, SearchInv
<1>1. call.p \in Nat /\ L \in Nat /\ Length(call.p) = L
  <2>1. call.p \in 0 .. N - 1 /\ Ends(call.mem, call.p)
    BY <1>0, CallsAssumption, CallTypes DEF Searching
  <2>2. L \in 0 .. N - 1 BY <2>1, StringAt
  <2> QED BY <2>1, <2>2, Sizes DEF Length, LengthIn
<1> HIDE DEF L
<1>2. \A a : a \in found <=> a \in call.p .. call.p + L /\ Plain(call.mem[a]) = call.q
  BY <1>1
<1>3. \A k \in 0 .. L : Match(call, k) <=> call.p + k \in found
  BY <1>1, <1>2 DEF Match
<1>4. \A a \in found : a - call.p \in 0 .. L /\ a = call.p + (a - call.p) /\ Match(call, a - call.p)
  <2> TAKE a \in found
  <2>1. a - call.p \in 0 .. L /\ a = call.p + (a - call.p) BY <1>1, <1>2
  <2> QED BY <1>3, <2>1
<1>5. found \subseteq Int BY <1>1, <1>2
<1> HIDE DEF found
<1>6. call.fn = "strchr" => ret = IF found = {} THEN NULL ELSE Min(found)
  <2> SUFFICES ASSUME call.fn = "strchr" PROVE ret = IF found = {} THEN NULL ELSE Min(found)
    OBVIOUS
  <2>1. FirstMatch(call, ret) BY <1>0 DEF Found
  <2>2. CASE ret = NULL /\ \A k \in 0 .. L : ~Match(call, k) BY <1>4, <2>2
  <2>3. CASE \E d \in 0 .. L : ret = call.p + d /\ Match(call, d) /\ \A k \in 0 .. d - 1 : ~Match(call, k)
    <3>1. PICK d \in 0 .. L : ret = call.p + d /\ Match(call, d) /\ \A k \in 0 .. d - 1 : ~Match(call, k)
      BY <2>3
    <3>2. ret \in found BY <1>3, <3>1
    <3>3. \A a \in found : ret <= a
      <4> SUFFICES ASSUME NEW a \in found, ~(ret <= a) PROVE FALSE OBVIOUS
      <4>1. a - call.p \in 0 .. d - 1 BY <1>1, <1>4, <3>1
      <4> QED BY <1>4, <3>1, <4>1
    <3>4. Min(found) = ret BY <1>5, <3>2, <3>3, MinIs
    <3> QED BY <3>2, <3>4
  <2> QED BY <2>1, <2>2, <2>3 DEF FirstMatch, L
<1>7. call.fn = "strrchr" => ret = IF found = {} THEN NULL ELSE Max(found)
  <2> SUFFICES ASSUME call.fn = "strrchr" PROVE ret = IF found = {} THEN NULL ELSE Max(found)
    OBVIOUS
  <2>1. LastMatch(call, L + 1, ret) BY <1>0 DEF Found, L
  <2>0. (L + 1) - 1 = L BY <1>1
  <2>2. CASE ret = NULL /\ \A k \in 0 .. L : ~Match(call, k) BY <1>4, <2>2
  <2>3. CASE \E d \in 0 .. L : ret = call.p + d /\ Match(call, d) /\ \A k \in d + 1 .. L : ~Match(call, k)
    <3>1. PICK d \in 0 .. L : ret = call.p + d /\ Match(call, d) /\ \A k \in d + 1 .. L : ~Match(call, k)
      BY <2>3
    <3>2. ret \in found BY <1>3, <3>1
    <3>3. \A a \in found : a <= ret
      <4> SUFFICES ASSUME NEW a \in found, ~(a <= ret) PROVE FALSE OBVIOUS
      <4>1. a - call.p \in d + 1 .. L BY <1>1, <1>4, <3>1
      <4> QED BY <1>4, <3>1, <4>1
    <3>4. Max(found) = ret BY <1>5, <3>2, <3>3, MaxIs
    <3> QED BY <3>2, <3>4
  <2> QED BY <2>0, <2>1, <2>2, <2>3 DEF LastMatch
<1>8. call.fn = "strlen" => ret = Length(call.p) BY <1>0, <1>1 DEF Found, L
<1> QED BY <1>6, <1>7, <1>8 DEF SearchesString, Done, found

(* Every string and memory function computes what the C library says, for  *)
(* memories, areas and strings of any size, signed and unsigned chars and  *)
(* every overlap; memmove down moves all or, above half the range of a     *)
(* size, nothing (memmove.c:17).                                           *)
THEOREM StringsAlwaysCompute == Spec => []StringsCompute
<1>1. Inv => StringsCompute
  <2>1. Inv /\ pc = "done" => StringsCompute
    BY DoneWrites, DoneCompares, DoneSearches DEF StringsCompute
  <2>2. pc # "done" => StringsCompute
    BY DEF StringsCompute, MovesAllOrNothing, FillsExactly, ComparesInOrder, SearchesString, Done
  <2> QED BY <2>1, <2>2
<1> QED BY <1>1, InitInv, NextInv, PTL DEF Spec
-----------------------------------------------------------------------------
(* The functions of formatted output that are defined step by step.        *)
LEMMA PrintWidths ==
  /\ IntBits \in Nat /\ IntBits > 0 /\ LongBits \in Nat /\ LongBits >= 4 /\ IntBits <= LongBits
  /\ P!Nybbles \in Nat /\ P!Nybbles > 0 /\ LongBits = 4 * P!Nybbles
BY PrintfWidths DEF P!WidthsAssumption, P!Nybbles

DoubleStep == [k \in Nat \ {0} |-> [v \in Nat |-> 2 * v]]
LEMMA TwoToIs ==
  /\ P!TwoTo[0] = 1 /\ \A n \in 0 .. LongBits : P!TwoTo[n] \in Nat
  /\ \A n \in 1 .. LongBits : P!TwoTo[n] = 2 * P!TwoTo[n - 1]
<1> DEFINE Solves(g) == g = [n \in 0 .. LongBits |-> IF n = 0 THEN 1 ELSE 2 * g[n - 1]]
<1>1. P!TwoTo = CHOOSE g : Solves(g) BY DEF P!TwoTo
<1>2. DoubleStep \in [Nat \ {0} -> [Nat -> Nat]] BY DEF DoubleStep
<1>3. PICK g \in [0 .. LongBits -> Nat] : Follows(g, LongBits, 1, DoubleStep)
  BY <1>2, StepwiseExists, PrintWidths
<1>4. Solves(g)
  <2>1. ASSUME NEW k \in 1 .. LongBits PROVE g[k] = 2 * g[k - 1]
    <3>1. k \in Nat \ {0} /\ k - 1 \in 0 .. LongBits BY PrintWidths
    <3>2. g[k - 1] \in Nat BY <3>1
    <3> QED BY <1>3, <3>1, <3>2 DEF Follows, DoubleStep
  <2>2. g[0] = 1 BY <1>3 DEF Follows
  <2> QED BY <2>1, <2>2
<1>5. Solves(P!TwoTo)
  <2> HIDE DEF Solves
  <2> QED BY <1>1, <1>4
<1>6. \A n \in 0 .. LongBits : P!TwoTo[n] = IF n = 0 THEN 1 ELSE 2 * P!TwoTo[n - 1]
  BY <1>5
<1>7. P!TwoTo[0] = 1 BY <1>6, PrintWidths
<1>8. ASSUME NEW k \in 1 .. LongBits PROVE P!TwoTo[k] = 2 * P!TwoTo[k - 1]
  <2>1. k \in 0 .. LongBits /\ k # 0 OBVIOUS
  <2> QED BY <1>6, <2>1
<1>9. ASSUME NEW k \in 1 .. LongBits, P!TwoTo[k - 1] \in Nat
      PROVE P!TwoTo[k] = DoubleStep[k][P!TwoTo[k - 1]]
  BY <1>8, <1>9 DEF DoubleStep
<1>10. \A n \in 0 .. LongBits : P!TwoTo[n] \in Nat
  <2>1. PICK f : f = P!TwoTo OBVIOUS
  <2>2. Obeys(f, LongBits, Nat, DoubleStep) BY <1>9, <2>1 DEF Obeys
  <2>3. f[0] \in Nat /\ LongBits \in Nat BY <1>7, <2>1, PrintWidths
  <2>4. \A k \in 0 .. LongBits : f[k] \in Nat BY <1>2, <2>2, <2>3, StepwiseTyped
  <2> QED BY <2>1, <2>4
<1> QED BY <1>7, <1>8, <1>10

LEMMA TwoToGrows ==
  /\ \A n \in 0 .. LongBits : P!TwoTo[n] > 0
  /\ \A m, n \in 0 .. LongBits : m <= n => P!TwoTo[m] <= P!TwoTo[n]
<1>1. ASSUME NEW m \in 0 .. LongBits
      PROVE  \A n \in 0 .. LongBits : m <= n => P!TwoTo[m] <= P!TwoTo[n]
  <2> DEFINE S == {n \in Nat : m <= n /\ n <= LongBits => P!TwoTo[m] <= P!TwoTo[n]}
  <2>0. m \in Nat /\ P!TwoTo[m] \in Nat BY TwoToIs
  <2>1. 0 \in S BY <2>0
  <2>2. ASSUME NEW n \in Nat, n \in S PROVE n + 1 \in S
    <3> SUFFICES ASSUME m <= n + 1, n + 1 <= LongBits PROVE P!TwoTo[m] <= P!TwoTo[n + 1] OBVIOUS
    <3>1. n + 1 \in 1 .. LongBits /\ (n + 1) - 1 = n /\ n \in 0 .. LongBits BY PrintWidths
    <3>2. P!TwoTo[n + 1] = 2 * P!TwoTo[n] /\ P!TwoTo[n] \in Nat BY <3>1, TwoToIs
    <3>3. CASE m = n + 1 BY <2>0, <3>3
    <3>4. CASE m <= n BY <2>0, <2>2, <3>1, <3>2, <3>4
    <3> QED BY <2>0, <3>3, <3>4
  <2>3. Nat \subseteq S
    <3> HIDE DEF S
    <3> QED BY <2>1, <2>2, InductionOverNat
  <2> QED BY <2>3, PrintWidths
<1>2. 0 \in 0 .. LongBits BY PrintWidths
<1>3. ASSUME NEW n \in 0 .. LongBits PROVE P!TwoTo[n] > 0
  <2>1. 0 <= n /\ P!TwoTo[n] \in Nat BY TwoToIs
  <2>2. P!TwoTo[0] <= P!TwoTo[n] BY <1>1, <1>2, <2>1
  <2> QED BY <2>1, <2>2, TwoToIs
<1> QED BY <1>1, <1>3

LEMMA UnsignedIs ==
  ASSUME NEW bits \in 0 .. LongBits, NEW v \in Int
  PROVE  /\ P!Unsigned(bits, v) \in Nat /\ P!Unsigned(bits, v) < P!TwoTo[bits]
         /\ P!Unsigned(bits, v) < P!TwoTo[LongBits]
         /\ v >= 0 /\ v < P!TwoTo[bits] => P!Unsigned(bits, v) = v
<1>1. PICK m \in Nat : m = P!TwoTo[bits] /\ m > 0 BY TwoToIs, TwoToGrows
<1>2. P!Unsigned(bits, v) = v % m BY <1>1 DEF P!Unsigned
<1>3. v % m \in Nat /\ v % m < m /\ (v >= 0 /\ v < m => v % m = v) BY <1>1
<1>4. bits <= LongBits /\ LongBits \in 0 .. LongBits BY PrintWidths
<1>5. m <= P!TwoTo[LongBits] /\ P!TwoTo[LongBits] \in Nat BY <1>1, <1>4, TwoToGrows, TwoToIs
<1> QED BY <1>1, <1>2, <1>3, <1>5

DivideStep(b) == [k \in Nat \ {0} |-> [v \in Nat |-> v \div b]]
LEMMA RestsAre ==
  ASSUME NEW v \in Nat, NEW b \in {10, 16}
  PROVE  /\ P!Rests(v, b)[0] = v /\ \A n \in 0 .. LongBits : P!Rests(v, b)[n] \in Nat
         /\ \A n \in 1 .. LongBits : P!Rests(v, b)[n] = P!Rests(v, b)[n - 1] \div b
<1> DEFINE val[k \in 0 .. LongBits] == IF k = 0 THEN v ELSE val[k - 1] \div b
           Solves(g) == g = [k \in 0 .. LongBits |-> IF k = 0 THEN v ELSE g[k - 1] \div b]
<1>0. P!Rests(v, b) = val BY DEF P!Rests
<1>1. val = CHOOSE g : Solves(g) OBVIOUS
<1>2. DivideStep(b) \in [Nat \ {0} -> [Nat -> Nat]] BY DEF DivideStep
<1>3. PICK g \in [0 .. LongBits -> Nat] : Follows(g, LongBits, v, DivideStep(b))
  BY <1>2, StepwiseExists, PrintWidths
<1>4. Solves(g)
  <2>1. ASSUME NEW k \in 1 .. LongBits PROVE g[k] = g[k - 1] \div b
    <3>1. k \in Nat \ {0} /\ k - 1 \in 0 .. LongBits BY PrintWidths
    <3>2. g[k - 1] \in Nat BY <3>1
    <3> QED BY <1>3, <3>1, <3>2 DEF Follows, DivideStep
  <2>2. g[0] = v BY <1>3 DEF Follows
  <2> QED BY <2>1, <2>2
<1>5. Solves(val)
  <2> HIDE DEF Solves, val
  <2> QED BY <1>1, <1>4
<1> HIDE DEF val
<1>6. \A n \in 0 .. LongBits : val[n] = IF n = 0 THEN v ELSE val[n - 1] \div b
  BY <1>5
<1>7. val[0] = v BY <1>6, PrintWidths
<1>8. ASSUME NEW k \in 1 .. LongBits PROVE val[k] = val[k - 1] \div b
  <2>1. k \in 0 .. LongBits /\ k # 0 OBVIOUS
  <2> QED BY <1>6, <2>1
<1>9. ASSUME NEW k \in 1 .. LongBits, val[k - 1] \in Nat
      PROVE val[k] = DivideStep(b)[k][val[k - 1]]
  BY <1>8, <1>9 DEF DivideStep
<1>10. \A n \in 0 .. LongBits : val[n] \in Nat
  <2>1. PICK f : f = val OBVIOUS
  <2>2. Obeys(f, LongBits, Nat, DivideStep(b)) BY <1>9, <2>1 DEF Obeys
  <2>3. f[0] \in Nat /\ LongBits \in Nat BY <1>7, <2>1, PrintWidths
  <2>4. \A k \in 0 .. LongBits : f[k] \in Nat BY <1>2, <2>2, <2>3, StepwiseTyped
  <2> QED BY <2>1, <2>4
<1> QED BY <1>0, <1>7, <1>8, <1>10

-----------------------------------------------------------------------------
(* Numerals.                                                               *)
LEMMA DigitsDiffer ==
  /\ \A d, e \in 0 .. 15 : P!Digits[d + 1] = P!Digits[e + 1] => d = e
  /\ P!Digits[0 + 1] = "0"
<1>1. ASSUME NEW d \in 0 .. 15, NEW e \in 0 .. 15, P!Digits[d + 1] = P!Digits[e + 1] PROVE d = e
  <2>1. CASE d \in 0 .. 3 BY <1>1, <2>1 DEF P!Digits
  <2>2. CASE d \in 4 .. 7 BY <1>1, <2>2 DEF P!Digits
  <2>3. CASE d \in 8 .. 11 BY <1>1, <2>3 DEF P!Digits
  <2>4. CASE d \in 12 .. 15 BY <1>1, <2>4 DEF P!Digits
  <2> QED BY <2>1, <2>2, <2>3, <2>4
<1> QED BY <1>1 DEF P!Digits

LEMMA WeightIs == ASSUME NEW d \in 0 .. 15 PROVE P!Weight(P!Digits[d + 1]) = d
BY DigitsDiffer DEF P!Weight

(* The digits of a numeral and the values of its beginnings. *)
DigitsOf(t, v, b, val, w) ==
    /\ val[0] = 0 /\ val[Len(t)] = v
    /\ \A k \in 1 .. Len(t) : val[k] = b * val[k - 1] + w[k] /\ t[k] = P!Digits[w[k] + 1]
    /\ Len(t) > 1 => w[1] # 0
ValueStep(t, b) ==
    [k \in Nat \ {0} |-> [v \in Nat |-> IF k <= Len(t) THEN b * v + P!Weight(t[k]) ELSE v]]
LEMMA NumeralIs ==
  ASSUME NEW b \in {10, 16}, NEW v, NEW t \in Seq(STRING), P!IsNumeral(t, v, b)
  PROVE  /\ Len(t) > 0 /\ v \in Nat
         /\ \E val \in [0 .. Len(t) -> Nat], w \in [1 .. Len(t) -> 0 .. b - 1] : DigitsOf(t, v, b, val, w)
<1> DEFINE value[k \in 0 .. Len(t)] ==
              IF k = 0 THEN 0 ELSE b * value[k - 1] + P!Weight(t[k])
           Solves(g) == g = [k \in 0 .. Len(t) |->
              IF k = 0 THEN 0 ELSE b * g[k - 1] + P!Weight(t[k])]
           w == [k \in 1 .. Len(t) |-> P!Weight(t[k])]
<1>0. Len(t) \in Nat /\ Len(t) > 0 /\ DOMAIN t = 1 .. Len(t) BY DEF P!IsNumeral
<1>1. ASSUME NEW k \in 1 .. Len(t)
      PROVE  w[k] \in 0 .. b - 1 /\ t[k] = P!Digits[w[k] + 1] /\ w[k] = P!Weight(t[k])
  <2>1. PICK d \in 0 .. b - 1 : t[k] = P!Digits[d + 1] BY <1>0 DEF P!IsNumeral
  <2>2. d \in 0 .. 15 OBVIOUS
  <2>3. P!Weight(t[k]) = d BY <2>1, <2>2, WeightIs
  <2> QED BY <2>1, <2>3
<1>2. w \in [1 .. Len(t) -> 0 .. b - 1] BY <1>1
<1>3. Len(t) > 1 => w[1] # 0
  <2> SUFFICES ASSUME Len(t) > 1, w[1] = 0 PROVE FALSE OBVIOUS
  <2>1. 1 \in 1 .. Len(t) BY <1>0
  <2>2. t[1] = P!Digits[0 + 1] BY <1>1, <2>1
  <2> QED BY <2>2, DigitsDiffer DEF P!IsNumeral
<1>4. v = value[Len(t)] BY DEF P!IsNumeral, P!Value
<1>5. value = CHOOSE g : Solves(g) OBVIOUS
<1>6. \A k \in 1 .. Len(t) : P!Weight(t[k]) \in Nat BY <1>1
<1>7. ValueStep(t, b) \in [Nat \ {0} -> [Nat -> Nat]]
  <2>1. ASSUME NEW k \in Nat \ {0}, NEW u \in Nat
        PROVE  (IF k <= Len(t) THEN b * u + P!Weight(t[k]) ELSE u) \in Nat
    <3>1. CASE k <= Len(t)
      <4>1. P!Weight(t[k]) \in Nat BY <1>0, <1>6, <3>1
      <4>2. b * u \in Nat OBVIOUS
      <4> QED BY <3>1, <4>1, <4>2
    <3> QED BY <3>1
  <2> QED BY <2>1 DEF ValueStep
<1>s. ASSUME NEW k \in 1 .. Len(t), NEW u \in Nat
      PROVE  ValueStep(t, b)[k][u] = b * u + P!Weight(t[k])
  BY <1>0 DEF ValueStep
<1>8. PICK g \in [0 .. Len(t) -> Nat] : Follows(g, Len(t), 0, ValueStep(t, b))
  BY <1>0, <1>7, StepwiseExists
<1>9. Solves(g)
  <2>1. ASSUME NEW k \in 1 .. Len(t) PROVE g[k] = b * g[k - 1] + P!Weight(t[k])
    <3>1. k - 1 \in 0 .. Len(t) BY <1>0
    <3>2. g[k - 1] \in Nat BY <3>1
    <3> QED BY <1>8, <1>s, <3>2 DEF Follows
  <2>2. g[0] = 0 BY <1>8 DEF Follows
  <2> QED BY <2>1, <2>2
<1>10. Solves(value)
  <2> HIDE DEF Solves, value
  <2> QED BY <1>5, <1>9
<1> HIDE DEF value, w
<1>11. value = [k \in 0 .. Len(t) |-> IF k = 0 THEN 0 ELSE b * value[k - 1] + P!Weight(t[k])]
  BY <1>10
<1> HIDE DEF Solves
<1>12. value[0] = 0 BY <1>0, <1>11
<1>13. ASSUME NEW k \in 1 .. Len(t) PROVE value[k] = b * value[k - 1] + P!Weight(t[k])
  <2>1. k \in 0 .. Len(t) /\ k # 0 OBVIOUS
  <2> QED BY <1>11, <2>1
<1>14. \A k \in 0 .. Len(t) : value[k] \in Nat
  <2>1. PICK f : f = value OBVIOUS
  <2>2. Obeys(f, Len(t), Nat, ValueStep(t, b)) BY <1>13, <1>s, <2>1 DEF Obeys
  <2>3. f[0] \in Nat BY <1>12, <2>1
  <2>4. \A k \in 0 .. Len(t) : f[k] \in Nat BY <1>0, <1>7, <2>2, <2>3, StepwiseTyped
  <2> QED BY <2>1, <2>4
<1>15. value \in [0 .. Len(t) -> Nat] BY <1>11, <1>14
<1>16. DigitsOf(t, v, b, value, w)
  BY <1>1, <1>3, <1>4, <1>12, <1>13 DEF DigitsOf
<1>17. v \in Nat BY <1>0, <1>4, <1>14
<1> QED BY <1>0, <1>2, <1>15, <1>16, <1>17

(* A numeral's beginnings are what is left of its value when the other     *)
(* digits are divided off.                                                 *)
LEMMA BeginningsAreRests ==
  ASSUME NEW b \in {10, 16}, NEW v \in Nat, NEW t \in Seq(STRING), Len(t) > 0,
         NEW val \in [0 .. Len(t) -> Nat], NEW w \in [1 .. Len(t) -> 0 .. b - 1], DigitsOf(t, v, b, val, w)
  PROVE  /\ \A j \in 0 .. LongBits : j <= Len(t) => P!Rests(v, b)[j] = val[Len(t) - j]
         /\ Len(t) > 1 => \A k \in 1 .. Len(t) : val[k] > 0
         /\ \A k \in 1 .. Len(t) : val[k] % b = w[k]
<1>0. Len(t) \in Nat OBVIOUS
<1>1. ASSUME NEW k \in 1 .. Len(t)
      PROVE  val[k - 1] = val[k] \div b /\ val[k] % b = w[k] /\ val[k - 1] \in Nat /\ val[k] \in Nat
             /\ val[k] >= val[k - 1] /\ w[k] \in 0 .. b - 1
  <2>1. PICK u \in Nat : u = val[k - 1] BY <1>0
  <2>2. PICK d \in 0 .. b - 1 : d = w[k] OBVIOUS
  <2>3. val[k] = b * u + d BY <2>1, <2>2 DEF DigitsOf
  <2>4. (b * u + d) \div b = u /\ (b * u + d) % b = d /\ b * u + d >= u /\ b * u + d \in Nat
    <3>1. CASE b = 10 BY <3>1, SMTT(30)
    <3>2. CASE b = 16 BY <3>2
    <3> QED BY <3>1, <3>2
  <2> QED BY <2>1, <2>2, <2>3, <2>4
<1>2. \A j \in 0 .. LongBits : j <= Len(t) => P!Rests(v, b)[j] = val[Len(t) - j]
  <2> DEFINE S == {j \in Nat : j <= LongBits /\ j <= Len(t) => P!Rests(v, b)[j] = val[Len(t) - j]}
  <2>1. 0 \in S BY <1>0, RestsAre DEF DigitsOf
  <2>2. ASSUME NEW j \in Nat, j \in S PROVE j + 1 \in S
    <3> SUFFICES ASSUME j + 1 <= LongBits, j + 1 <= Len(t)
                 PROVE  P!Rests(v, b)[j + 1] = val[Len(t) - (j + 1)]
      OBVIOUS
    <3>1. j + 1 \in 1 .. LongBits /\ (j + 1) - 1 = j /\ Len(t) - j \in 1 .. Len(t)
          /\ (Len(t) - j) - 1 = Len(t) - (j + 1)
      BY <1>0, PrintWidths
    <3>2. P!Rests(v, b)[j] = val[Len(t) - j] BY <1>0, <2>2, <3>1, PrintWidths
    <3>3. P!Rests(v, b)[j + 1] = P!Rests(v, b)[j] \div b BY <3>1, RestsAre
    <3>4. val[(Len(t) - j) - 1] = val[Len(t) - j] \div b BY <1>1, <3>1
    <3> QED BY <3>1, <3>2, <3>3, <3>4
  <2>3. Nat \subseteq S
    <3> HIDE DEF S
    <3> QED BY <2>1, <2>2, InductionOverNat
  <2> QED BY <2>3
<1>3. ASSUME Len(t) > 1 PROVE \A k \in 1 .. Len(t) : val[k] > 0
  <2> DEFINE S == {k \in Nat : k + 1 <= Len(t) => val[k + 1] > 0}
  <2>1. 0 \in S
    <3>1. 1 \in 1 .. Len(t) /\ 1 - 1 = 0 BY <1>0, <1>3
    <3>2. val[1] = b * val[1 - 1] + w[1] /\ w[1] # 0 /\ val[0] = 0 BY <1>3, <3>1 DEF DigitsOf
    <3>3. w[1] \in Nat /\ w[1] > 0 /\ b * 0 = 0 BY <1>1, <3>1, <3>2
    <3>4. val[1] > 0 BY <3>1, <3>2, <3>3
    <3> QED BY <3>4
  <2>2. ASSUME NEW k \in Nat, k \in S PROVE k + 1 \in S
    <3> SUFFICES ASSUME (k + 1) + 1 <= Len(t) PROVE val[(k + 1) + 1] > 0 OBVIOUS
    <3>1. (k + 1) + 1 \in 1 .. Len(t) /\ ((k + 1) + 1) - 1 = k + 1 /\ k + 1 <= Len(t) BY <1>0
    <3>2. val[k + 1] > 0 BY <2>2, <3>1
    <3> QED BY <1>1, <3>1, <3>2
  <2>3. Nat \subseteq S
    <3> HIDE DEF S
    <3> QED BY <2>1, <2>2, InductionOverNat
  <2> TAKE k \in 1 .. Len(t)
  <2>4. k - 1 \in Nat /\ (k - 1) + 1 = k BY <1>0
  <2>5. k - 1 \in S
    <3> HIDE DEF S
    <3> QED BY <2>3, <2>4
  <2> QED BY <2>4, <2>5
<1> QED BY <1>1, <1>2, <1>3

(* A number of so many bits has nothing left behind as many decimal        *)
(* digits, or a quarter as many hexadecimal ones.                          *)
LEMMA NothingLeft ==
  ASSUME NEW v \in Nat, v < P!TwoTo[LongBits]
  PROVE  P!Rests(v, 10)[LongBits] = 0 /\ P!Rests(v, 16)[P!Nybbles] = 0
<1>1. P!Rests(v, 10)[LongBits] = 0
  <2> DEFINE S == {j \in Nat : j <= LongBits => P!Rests(v, 10)[j] < P!TwoTo[LongBits - j]}
  <2>1. 0 \in S BY RestsAre, PrintWidths
  <2>2. ASSUME NEW j \in Nat, j \in S PROVE j + 1 \in S
    <3> SUFFICES ASSUME j + 1 <= LongBits PROVE P!Rests(v, 10)[j + 1] < P!TwoTo[LongBits - (j + 1)]
      OBVIOUS
    <3>1. j \in 0 .. LongBits /\ j + 1 \in 1 .. LongBits /\ (j + 1) - 1 = j /\ LongBits - j \in 1 .. LongBits
          /\ (LongBits - j) - 1 = LongBits - (j + 1) /\ LongBits - (j + 1) \in 0 .. LongBits
          /\ LongBits - j \in 0 .. LongBits
      BY PrintWidths
    <3>2. PICK a \in Nat : a = P!Rests(v, 10)[j] BY <3>1, RestsAre
    <3>3. P!Rests(v, 10)[j + 1] = a \div 10 BY <3>1, <3>2, RestsAre
    <3>4. PICK q \in Nat : q = P!TwoTo[LongBits - (j + 1)] BY <3>1, TwoToIs
    <3>5. P!TwoTo[LongBits - j] = 2 * q BY <3>1, <3>4, TwoToIs
    <3>6. a < 2 * q BY <2>2, <3>1, <3>2, <3>5
    <3>7. a \div 10 < q BY <3>6
    <3> QED BY <3>3, <3>4, <3>7
  <2>3. Nat \subseteq S
    <3> HIDE DEF S
    <3> QED BY <2>1, <2>2, InductionOverNat
  <2>4. P!Rests(v, 10)[LongBits] < P!TwoTo[LongBits - LongBits] BY <2>3, PrintWidths
  <2>5. LongBits - LongBits = 0 /\ LongBits \in 0 .. LongBits BY PrintWidths
  <2>6. P!Rests(v, 10)[LongBits] \in Nat BY <2>5, RestsAre
  <2> QED BY <2>4, <2>5, <2>6, TwoToIs
<1>2. P!Rests(v, 16)[P!Nybbles] = 0
  <2> DEFINE S == {j \in Nat : j <= P!Nybbles => P!Rests(v, 16)[j] < P!TwoTo[4 * (P!Nybbles - j)]}
  <2>0. P!Nybbles \in Nat /\ LongBits = 4 * P!Nybbles /\ LongBits \in Nat BY PrintWidths
  <2>1. 0 \in S BY <2>0, RestsAre
  <2>2. ASSUME NEW j \in Nat, j \in S PROVE j + 1 \in S
    <3> SUFFICES ASSUME j + 1 <= P!Nybbles PROVE P!Rests(v, 16)[j + 1] < P!TwoTo[4 * (P!Nybbles - (j + 1))]
      OBVIOUS
    <3>0. PICK e \in Nat : e = 4 * (P!Nybbles - (j + 1)) BY <2>0
    <3>1. j \in 0 .. LongBits /\ j + 1 \in 1 .. LongBits /\ (j + 1) - 1 = j /\ e + 4 = 4 * (P!Nybbles - j)
          /\ e \in 0 .. LongBits /\ e + 1 \in 1 .. LongBits /\ e + 2 \in 1 .. LongBits
          /\ e + 3 \in 1 .. LongBits /\ e + 4 \in 1 .. LongBits
      BY <2>0, <3>0
    <3>2. PICK a \in Nat : a = P!Rests(v, 16)[j] BY <3>1, RestsAre
    <3>3. P!Rests(v, 16)[j + 1] = a \div 16 BY <3>1, <3>2, RestsAre
    <3>4. PICK q \in Nat : q = P!TwoTo[e] BY <3>1, TwoToIs
    <3>5. /\ (e + 1) - 1 = e /\ (e + 2) - 1 = e + 1 /\ (e + 3) - 1 = e + 2 /\ (e + 4) - 1 = e + 3
      OBVIOUS
    <3>6. P!TwoTo[e + 1] = 2 * q BY <3>1, <3>4, <3>5, TwoToIs
    <3>7. P!TwoTo[e + 2] = 4 * q BY <3>1, <3>5, <3>6, TwoToIs
    <3>8. P!TwoTo[e + 3] = 8 * q BY <3>1, <3>5, <3>7, TwoToIs
    <3>9. P!TwoTo[e + 4] = 16 * q BY <3>1, <3>5, <3>8, TwoToIs
    <3>10. a < 16 * q BY <2>0, <2>2, <3>1, <3>2, <3>9
    <3>11. a \div 16 < q BY <3>10
    <3> QED BY <3>0, <3>3, <3>4, <3>11
  <2>3. Nat \subseteq S
    <3> HIDE DEF S
    <3> QED BY <2>1, <2>2, InductionOverNat
  <2>4. P!Rests(v, 16)[P!Nybbles] < P!TwoTo[4 * (P!Nybbles - P!Nybbles)] BY <2>0, <2>3
  <2>5. 4 * (P!Nybbles - P!Nybbles) = 0 /\ P!Nybbles \in 0 .. LongBits BY <2>0
  <2>6. P!Rests(v, 16)[P!Nybbles] \in Nat BY <2>5, RestsAre
  <2> QED BY <2>4, <2>5, <2>6, TwoToIs
<1> QED BY <1>1, <1>2

(* print_udec prints the numeral of every long. *)
LEMMA UdecPrints ==
  ASSUME NEW v \in Nat, v < P!TwoTo[LongBits], NEW t \in Seq(STRING), P!IsNumeral(t, v, 10)
  PROVE  P!print_udec(v) = t
<1>1. Len(t) \in Nat /\ Len(t) > 0 BY NumeralIs
<1>2. PICK val \in [0 .. Len(t) -> Nat], w \in [1 .. Len(t) -> 0 .. 9] : DigitsOf(t, v, 10, val, w)
  <2>1. 10 - 1 = 9 OBVIOUS
  <2> QED BY <2>1, NumeralIs
<1>3. /\ \A j \in 0 .. LongBits : j <= Len(t) => P!Rests(v, 10)[j] = val[Len(t) - j]
      /\ Len(t) > 1 => \A k \in 1 .. Len(t) : val[k] > 0
      /\ \A k \in 1 .. Len(t) : val[k] % 10 = w[k]
  <2>1. PICK b \in {10, 16} : b = 10 OBVIOUS
  <2>2. w \in [1 .. Len(t) -> 0 .. b - 1] /\ DigitsOf(t, v, b, val, w) BY <1>2, <2>1
  <2>3. /\ \A j \in 0 .. LongBits : j <= Len(t) => P!Rests(v, b)[j] = val[Len(t) - j]
        /\ Len(t) > 1 => \A k \in 1 .. Len(t) : val[k] > 0
        /\ \A k \in 1 .. Len(t) : val[k] % b = w[k]
    BY <1>1, <1>2, <2>2, BeginningsAreRests
  <2> QED BY <2>1, <2>3
<1>4. Len(t) \in 1 .. LongBits
  <2> SUFFICES ASSUME Len(t) > LongBits PROVE FALSE BY <1>1, PrintWidths
  <2>1. LongBits \in 0 .. LongBits /\ Len(t) - LongBits \in 1 .. Len(t) /\ Len(t) > 1 BY <1>1, PrintWidths
  <2>2. P!Rests(v, 10)[LongBits] = val[Len(t) - LongBits] BY <1>1, <1>3, <2>1, PrintWidths
  <2> QED BY <1>3, <2>1, <2>2, NothingLeft
<1>5. P!Rests(v, 10)[Len(t)] = 0
  <2>1. Len(t) - Len(t) = 0 /\ Len(t) \in 0 .. LongBits BY <1>1, <1>4
  <2> QED BY <1>2, <1>3, <2>1 DEF DigitsOf
<1>6. \A k \in 1 .. Len(t) - 1 : P!Rests(v, 10)[k] # 0
  <2> TAKE k \in 1 .. Len(t) - 1
  <2>1. k \in 0 .. LongBits /\ k <= Len(t) /\ Len(t) > 1 /\ Len(t) - k \in 1 .. Len(t)
    BY <1>1, <1>4, PrintWidths
  <2> QED BY <1>3, <2>1
<1> DEFINE c == CHOOSE c \in 1 .. LongBits :
                    P!Rests(v, 10)[c] = 0 /\ \A k \in 1 .. c - 1 : P!Rests(v, 10)[k] # 0
<1>7. c = Len(t)
  <2>1. c \in 1 .. LongBits /\ P!Rests(v, 10)[c] = 0 /\ \A k \in 1 .. c - 1 : P!Rests(v, 10)[k] # 0
    BY <1>4, <1>5, <1>6
  <2> HIDE DEF c
  <2>2. ~(c < Len(t))
    <3> SUFFICES ASSUME c < Len(t) PROVE FALSE OBVIOUS
    <3>1. c \in 1 .. Len(t) - 1 BY <1>1, <2>1
    <3> QED BY <1>6, <2>1, <3>1
  <2>3. ~(Len(t) < c)
    <3> SUFFICES ASSUME Len(t) < c PROVE FALSE OBVIOUS
    <3>1. Len(t) \in 1 .. c - 1 BY <1>1, <2>1
    <3> QED BY <1>5, <2>1, <3>1
  <2> QED BY <1>1, <2>1, <2>2, <2>3
<1>8. P!print_udec(v) = [k \in 1 .. Len(t) |-> P!Digits[(P!Rests(v, 10)[Len(t) - k] % 10) + 1]]
  <2>1. P!print_udec(v) = [k \in 1 .. c |-> P!Digits[(P!Rests(v, 10)[c - k] % 10) + 1]]
    BY DEF P!print_udec
  <2> HIDE DEF c
  <2> QED BY <1>7, <2>1
<1>9. ASSUME NEW k \in 1 .. Len(t) PROVE t[k] = P!Digits[(P!Rests(v, 10)[Len(t) - k] % 10) + 1]
  <2>1. Len(t) - k \in 0 .. LongBits /\ Len(t) - k <= Len(t) /\ Len(t) - (Len(t) - k) = k
    BY <1>1, <1>4, PrintWidths
  <2>2. P!Rests(v, 10)[Len(t) - k] = val[k] BY <1>3, <2>1
  <2>3. t[k] = P!Digits[w[k] + 1] BY <1>2 DEF DigitsOf
  <2> QED BY <1>3, <2>2, <2>3
<1>10. t = [k \in 1 .. Len(t) |-> t[k]] OBVIOUS
<1> QED BY <1>8, <1>9, <1>10

(* So does print_hex, in base 16. *)
LEMMA HexPrints ==
  ASSUME NEW v \in Nat, v < P!TwoTo[LongBits], NEW t \in Seq(STRING), P!IsNumeral(t, v, 16)
  PROVE  P!print_hex(v) = t
<1>1. Len(t) \in Nat /\ Len(t) > 0 BY NumeralIs
<1>2. PICK val \in [0 .. Len(t) -> Nat], w \in [1 .. Len(t) -> 0 .. 15] : DigitsOf(t, v, 16, val, w)
  <2>1. 16 - 1 = 15 OBVIOUS
  <2> QED BY <2>1, NumeralIs
<1>3. /\ \A j \in 0 .. LongBits : j <= Len(t) => P!Rests(v, 16)[j] = val[Len(t) - j]
      /\ Len(t) > 1 => \A k \in 1 .. Len(t) : val[k] > 0
      /\ \A k \in 1 .. Len(t) : val[k] % 16 = w[k]
  <2>1. PICK b \in {10, 16} : b = 16 OBVIOUS
  <2>2. w \in [1 .. Len(t) -> 0 .. b - 1] /\ DigitsOf(t, v, b, val, w) BY <1>2, <2>1
  <2>3. /\ \A j \in 0 .. LongBits : j <= Len(t) => P!Rests(v, b)[j] = val[Len(t) - j]
        /\ Len(t) > 1 => \A k \in 1 .. Len(t) : val[k] > 0
        /\ \A k \in 1 .. Len(t) : val[k] % b = w[k]
    BY <1>1, <1>2, <2>2, BeginningsAreRests, ZenonT(60)
  <2> QED BY <2>1, <2>3
<1>0. P!Nybbles \in Nat /\ P!Nybbles > 0 /\ P!Nybbles <= LongBits /\ LongBits \in Nat BY PrintWidths
<1>4. Len(t) \in 1 .. P!Nybbles
  <2> SUFFICES ASSUME Len(t) > P!Nybbles PROVE FALSE BY <1>0, <1>1
  <2>1. P!Nybbles \in 0 .. LongBits /\ Len(t) - P!Nybbles \in 1 .. Len(t) /\ Len(t) > 1 BY <1>0, <1>1
  <2>2. P!Rests(v, 16)[P!Nybbles] = val[Len(t) - P!Nybbles] BY <1>0, <1>1, <1>3, <2>1
  <2> QED BY <1>3, <2>1, <2>2, NothingLeft
<1> DEFINE nybble == [k \in 0 .. P!Nybbles - 1 |-> P!Rests(v, 16)[k] % 16]
           top == Len(t) - 1
           IsTop(z) == (nybble[z] # 0 \/ z = 0) /\ \A k \in z + 1 .. P!Nybbles - 1 : nybble[k] = 0
           z == CHOOSE z \in 0 .. P!Nybbles - 1 : IsTop(z)
<1>5. \A k \in 0 .. top : nybble[k] = w[Len(t) - k]
  <2> TAKE k \in 0 .. top
  <2>1. k \in 0 .. LongBits /\ k <= Len(t) /\ Len(t) - k \in 1 .. Len(t) /\ k \in 0 .. P!Nybbles - 1
    BY <1>0, <1>1, <1>4
  <2>2. nybble[k] = P!Rests(v, 16)[k] % 16 BY <2>1
  <2> HIDE DEF nybble
  <2> QED BY <1>3, <2>1, <2>2
<1>6. \A k \in top + 1 .. P!Nybbles - 1 : nybble[k] = 0
  <2> DEFINE S == {k \in Nat : Len(t) + k < P!Nybbles => P!Rests(v, 16)[Len(t) + k] = 0}
  <2>1. 0 \in S
    <3>1. Len(t) - Len(t) = 0 /\ Len(t) \in 0 .. LongBits /\ Len(t) + 0 = Len(t) BY <1>0, <1>1, <1>4
    <3>2. P!Rests(v, 16)[Len(t)] = 0 BY <1>2, <1>3, <3>1 DEF DigitsOf
    <3> QED BY <3>1, <3>2
  <2>2. ASSUME NEW k \in Nat, k \in S PROVE k + 1 \in S
    <3> SUFFICES ASSUME Len(t) + (k + 1) < P!Nybbles PROVE P!Rests(v, 16)[Len(t) + (k + 1)] = 0 OBVIOUS
    <3>1. Len(t) + (k + 1) \in 1 .. LongBits /\ (Len(t) + (k + 1)) - 1 = Len(t) + k /\ Len(t) + k < P!Nybbles
      BY <1>0, <1>1
    <3>2. P!Rests(v, 16)[Len(t) + k] = 0 BY <2>2, <3>1
    <3>3. P!Rests(v, 16)[Len(t) + (k + 1)] = P!Rests(v, 16)[Len(t) + k] \div 16 BY <3>1, RestsAre
    <3> QED BY <3>2, <3>3
  <2>3. Nat \subseteq S
    <3> HIDE DEF S
    <3> QED BY <2>1, <2>2, InductionOverNat
  <2> TAKE k \in top + 1 .. P!Nybbles - 1
  <2>4. k - Len(t) \in Nat /\ Len(t) + (k - Len(t)) = k /\ k < P!Nybbles /\ k \in 0 .. P!Nybbles - 1
    BY <1>0, <1>1
  <2>5. P!Rests(v, 16)[k] = 0 BY <2>3, <2>4
  <2>6. nybble[k] = P!Rests(v, 16)[k] % 16 BY <2>4
  <2> HIDE DEF nybble
  <2> QED BY <2>5, <2>6
<1>70. top \in Nat /\ Len(t) = top + 1 /\ top \in 0 .. P!Nybbles - 1
  <2> HIDE DEF nybble, z, IsTop
  <2> QED BY <1>0, <1>4
<1> HIDE DEF nybble, z, top
<1>7. top \in 0 .. P!Nybbles - 1 /\ IsTop(top)
  <2>1. top \in 0 .. P!Nybbles - 1 BY <1>70
  <2>2. nybble[top] # 0 \/ top = 0
    <3> SUFFICES ASSUME top # 0 PROVE nybble[top] # 0 OBVIOUS
    <3> HIDE DEF IsTop
    <3>1. Len(t) > 1 /\ top \in 0 .. top /\ Len(t) - top = 1 BY <1>70
    <3>2. w[1] # 0 BY <1>2, <3>1 DEF DigitsOf
    <3> QED BY <1>5, <3>1, <3>2
  <2> QED BY <1>6, <2>1, <2>2
<1>8. z = top
  <2>1. z \in 0 .. P!Nybbles - 1 /\ IsTop(z) BY <1>7 DEF z
  <2>2. ~(z < top)
    <3> SUFFICES ASSUME z < top PROVE FALSE OBVIOUS
    <3>1. /\ top \in z + 1 .. P!Nybbles - 1 /\ top # 0
      <4> HIDE DEF IsTop
      <4> QED BY <1>0, <1>70, <2>1
    <3> QED BY <1>7, <2>1, <3>1
  <2>3. ~(top < z)
    <3> SUFFICES ASSUME top < z PROVE FALSE OBVIOUS
    <3>1. z \in top + 1 .. P!Nybbles - 1 /\ z # 0
      <4> HIDE DEF IsTop
      <4> QED BY <1>0, <1>70, <2>1
    <3> QED BY <1>6, <2>1, <3>1
  <2>4. top \in Int /\ z \in Int BY <1>0, <1>70, <2>1
  <2> QED BY <2>2, <2>3, <2>4
<1>9. P!print_hex(v) = [k \in 1 .. Len(t) |-> P!Digits[nybble[Len(t) - k] + 1]]
  <2>1. P!print_hex(v) = [k \in 1 .. z + 1 |-> P!Digits[nybble[z + 1 - k] + 1]]
    BY DEF P!print_hex, nybble, z
  <2> HIDE DEF IsTop
  <2>2. z + 1 = Len(t) BY <1>70, <1>8
  <2>3. \A k \in 1 .. Len(t) : nybble[z + 1 - k] = nybble[Len(t) - k]
    <3> TAKE k \in 1 .. Len(t)
    <3>1. z + 1 - k = Len(t) - k BY <1>70, <1>8
    <3> QED BY <3>1
  <2> QED BY <2>1, <2>2, <2>3
<1>10. ASSUME NEW k \in 1 .. Len(t) PROVE t[k] = P!Digits[nybble[Len(t) - k] + 1]
  <2>1. Len(t) - k \in 0 .. top /\ Len(t) - (Len(t) - k) = k
    <3> HIDE DEF IsTop
    <3> QED BY <1>70
  <2>2. t[k] = P!Digits[w[k] + 1] BY <1>2 DEF DigitsOf
  <2> QED BY <1>5, <2>1, <2>2
<1>11. t = [k \in 1 .. Len(t) |-> t[k]] OBVIOUS
<1> QED BY <1>9, <1>10, <1>11
LEMMA HeadTail ==
  ASSUME NEW S, NEW t \in Seq(S), Len(t) > 0
  PROVE  /\ Tail(t) \in Seq(S) /\ <<t[1]>> \o Tail(t) = t
OBVIOUS

LEMMA SdecPrints ==
  ASSUME NEW bits \in {IntBits, LongBits}, NEW v \in Int, P!Fits(v, bits), NEW t \in Seq(STRING),
         P!IsSigned(t, v)
  PROVE  P!print_sdec(v) = t
<1>1. bits \in 0 .. LongBits /\ LongBits \in 0 .. LongBits /\ bits <= LongBits BY PrintWidths
<1>2. PICK m \in Nat : m = P!TwoTo[bits] /\ m > 0 BY <1>1, TwoToIs, TwoToGrows
<1>3. PICK l \in Nat : l = P!TwoTo[LongBits] /\ m <= l BY <1>1, <1>2, TwoToIs, TwoToGrows
<1>4. -m <= 2 * v /\ 2 * v < m BY <1>2 DEF P!Fits
<1>5. CASE v >= 0
  <2>1. v \in Nat /\ v < l /\ ~(v < 0) BY <1>3, <1>4, <1>5
  <2>2. P!IsNumeral(t, v, 10) BY <2>1 DEF P!IsSigned
  <2>3. P!print_udec(v) = t BY <1>3, <2>1, <2>2, UdecPrints
  <2> QED BY <2>1, <2>3 DEF P!print_sdec
<1>6. CASE v < 0
  <2>1. -v \in Nat /\ -v < l /\ -v \in Int /\ -v >= 0 BY <1>2, <1>3, <1>4, <1>6
  <2>2. P!Unsigned(LongBits, -v) = -v BY <1>1, <1>3, <2>1, UnsignedIs
  <2>3. Len(t) > 0 /\ t[1] = "-" /\ P!IsNumeral(Tail(t), -v, 10) BY <1>6 DEF P!IsSigned
  <2>4. Tail(t) \in Seq(STRING) BY <2>3
  <2>5. P!print_udec(-v) = Tail(t) BY <1>3, <2>1, <2>3, <2>4, UdecPrints
  <2>6. <<"-">> \o Tail(t) = t BY <2>3, HeadTail
  <2> QED BY <1>6, <2>2, <2>5, <2>6 DEF P!print_sdec
<1> QED BY <1>5, <1>6

(* The text that a piece stands for is what its conversion prints. *)
LEMMA Converts ==
  ASSUME NEW arg \in P!Arguments, NEW t \in Seq(STRING), NEW c
  PROVE  /\ c \in {"c", "d", "u", "s", "p", "x"} /\ P!Shows(c, IntBits, arg, t) => P!Converted(<<c>>, arg) = t
         /\ c \in P!LongCodes /\ P!Shows(c, LongBits, arg, t) => P!Converted(<<"l", c>>, arg) = t
<1>1. arg.val \in Int /\ IntBits \in 0 .. LongBits /\ LongBits \in 0 .. LongBits
  BY PrintWidths DEF P!Arguments
<1>2. ASSUME NEW bits \in {IntBits, LongBits}
      PROVE  /\ P!Unsigned(bits, arg.val) \in Nat /\ P!Unsigned(bits, arg.val) < P!TwoTo[LongBits]
  BY <1>1, <1>2, UnsignedIs
<1>3. ASSUME NEW bits \in {IntBits, LongBits}, P!Shows(c, bits, arg, t)
      PROVE  /\ c = "d" => P!print_sdec(arg.val) = t
             /\ c = "u" => P!print_udec(P!Unsigned(bits, arg.val)) = t
             /\ c \in {"x", "p"} => P!print_hex(P!Unsigned(bits, arg.val)) = t
             /\ c \in {"c", "s"} => arg.text = t
  <2>1. c = "d" => P!print_sdec(arg.val) = t BY <1>1, <1>3, SdecPrints DEF P!Shows
  <2>2. c = "u" => P!print_udec(P!Unsigned(bits, arg.val)) = t BY <1>2, <1>3, UdecPrints DEF P!Shows
  <2>3. c \in {"x", "p"} => P!print_hex(P!Unsigned(bits, arg.val)) = t
    BY <1>2, <1>3, HexPrints DEF P!Shows
  <2> QED BY <1>3, <2>1, <2>2, <2>3 DEF P!Shows
<1>4. ASSUME c \in {"c", "d", "u", "s", "p", "x"}, P!Shows(c, IntBits, arg, t)
      PROVE  P!Converted(<<c>>, arg) = t
  <2>1. CASE c = "d" BY <1>3, <1>4, <2>1 DEF P!Converted
  <2>2. CASE c = "u" BY <1>3, <1>4, <2>2 DEF P!Converted
  <2>3. CASE c = "x" BY <1>3, <1>4, <2>3 DEF P!Converted
  <2>4. CASE c = "p" BY <1>3, <1>4, <2>4 DEF P!Converted
  <2>5. CASE c \in {"c", "s"} BY <1>3, <1>4, <2>5 DEF P!Converted
  <2> QED BY <1>4, <2>1, <2>2, <2>3, <2>4, <2>5
<1>5. ASSUME c \in P!LongCodes, P!Shows(c, LongBits, arg, t)
      PROVE  P!Converted(<<"l", c>>, arg) = t
  <2>1. CASE c = "d" BY <1>3, <1>5, <2>1 DEF P!Converted
  <2>2. CASE c = "u" BY <1>3, <1>5, <2>2 DEF P!Converted
  <2>3. CASE c = "x" BY <1>3, <1>5, <2>3 DEF P!Converted
  <2> QED BY <1>5, <2>1, <2>2, <2>3 DEF P!LongCodes
<1> QED BY <1>4, <1>5

-----------------------------------------------------------------------------
(* Sequences joined, part after part.                                      *)
LEMMA Concats ==
  ASSUME NEW S, NEW s \in Seq(S), NEW t \in Seq(S)
  PROVE  /\ s \o t \in Seq(S) /\ Len(s \o t) = Len(s) + Len(t)
         /\ <<>> \in Seq(S) /\ <<>> \o s = s /\ s \o <<>> = s
         /\ \A k \in 1 .. Len(s) : (s \o t)[k] = s[k]
         /\ \A k \in 1 .. Len(t) : (s \o t)[Len(s) + k] = t[k]
OBVIOUS
LEMMA Associates ==
  ASSUME NEW S, NEW s \in Seq(S), NEW t \in Seq(S), NEW u \in Seq(S)
  PROVE  (s \o t) \o u = s \o (t \o u)
OBVIOUS
LEMMA Cancels ==
  ASSUME NEW S, NEW s \in Seq(S), NEW t \in Seq(S), NEW u \in Seq(S), s \o t = s \o u
  PROVE  t = u
<1>1. Len(t) = Len(u) /\ Len(t) \in Nat
  <2>1. Len(s) + Len(t) = Len(s) + Len(u) BY Concats
  <2>2. Len(s) \in Nat /\ Len(t) \in Nat /\ Len(u) \in Nat OBVIOUS
  <2> QED BY <2>1, <2>2
<1>2. \A k \in 1 .. Len(t) : t[k] = u[k]
  <2> TAKE k \in 1 .. Len(t)
  <2>1. t[k] = (s \o t)[Len(s) + k] BY Concats
  <2>2. u[k] = (s \o u)[Len(s) + k] BY <1>1, Concats
  <2> QED BY <2>1, <2>2
<1> QED BY <1>1, <1>2

Joined(s) ==
    LET join[k \in 0 .. Len(s)] == IF k = 0 THEN <<>> ELSE join[k - 1] \o s[k]
    IN  join
JoinStep(S, s) == [k \in Nat \ {0} |-> [v \in Seq(S) |-> IF k <= Len(s) THEN v \o s[k] ELSE v]]
LEMMA JoinedIs ==
  ASSUME NEW S, NEW s \in Seq(Seq(S))
  PROVE  /\ Joined(s)[0] = <<>>
         /\ \A k \in 0 .. Len(s) : Joined(s)[k] \in Seq(S)
         /\ \A k \in 1 .. Len(s) : Joined(s)[k] = Joined(s)[k - 1] \o s[k]
<1> DEFINE join[k \in 0 .. Len(s)] == IF k = 0 THEN <<>> ELSE join[k - 1] \o s[k]
           Solves(g) == g = [k \in 0 .. Len(s) |-> IF k = 0 THEN <<>> ELSE g[k - 1] \o s[k]]
<1>0. Joined(s) = join BY DEF Joined
<1>1. join = CHOOSE g : Solves(g) OBVIOUS
<1>2. Len(s) \in Nat /\ \A k \in 1 .. Len(s) : s[k] \in Seq(S) OBVIOUS
<1>3. JoinStep(S, s) \in [Nat \ {0} -> [Seq(S) -> Seq(S)]]
  <2>1. ASSUME NEW k \in Nat \ {0}, NEW v \in Seq(S)
        PROVE  (IF k <= Len(s) THEN v \o s[k] ELSE v) \in Seq(S)
    <3>1. CASE k <= Len(s)
      <4>1. s[k] \in Seq(S) BY <1>2, <3>1
      <4> QED BY <3>1, <4>1
    <3> QED BY <3>1
  <2> QED BY <2>1 DEF JoinStep
<1>s. ASSUME NEW k \in 1 .. Len(s), NEW v \in Seq(S) PROVE JoinStep(S, s)[k][v] = v \o s[k]
  <2>1. k \in Nat \ {0} /\ k <= Len(s) BY <1>2
  <2>2. JoinStep(S, s)[k] = [u \in Seq(S) |-> IF k <= Len(s) THEN u \o s[k] ELSE u] BY <2>1 DEF JoinStep
  <2> QED BY <2>1, <2>2
<1>4. <<>> \in Seq(S) OBVIOUS
<1>5. PICK g \in [0 .. Len(s) -> Seq(S)] : Follows(g, Len(s), <<>>, JoinStep(S, s))
  BY <1>2, <1>3, <1>4, StepwiseExists
<1>6. Solves(g)
  <2>1. ASSUME NEW k \in 1 .. Len(s) PROVE g[k] = g[k - 1] \o s[k]
    <3>1. k - 1 \in 0 .. Len(s) BY <1>2
    <3>2. g[k - 1] \in Seq(S) BY <3>1
    <3> QED BY <1>5, <1>s, <3>2 DEF Follows
  <2>2. g[0] = <<>> BY <1>5 DEF Follows
  <2>3. \A k \in 0 .. Len(s) : g[k] = IF k = 0 THEN <<>> ELSE g[k - 1] \o s[k]
    <3> TAKE k \in 0 .. Len(s)
    <3>1. CASE k = 0 BY <2>2, <3>1
    <3>2. CASE k # 0
      <4>1. k \in 1 .. Len(s) BY <1>2, <3>2
      <4> QED BY <2>1, <3>2, <4>1
    <3> QED BY <3>1, <3>2
  <2>4. g = [k \in 0 .. Len(s) |-> g[k]] OBVIOUS
  <2> QED BY <2>3, <2>4
<1>7. Solves(join)
  <2> HIDE DEF Solves, join
  <2> QED BY <1>1, <1>6
<1> HIDE DEF join
<1>8. \A k \in 0 .. Len(s) : join[k] = IF k = 0 THEN <<>> ELSE join[k - 1] \o s[k]
  BY <1>7
<1> HIDE DEF Solves
<1>9. join[0] = <<>> BY <1>2, <1>8
<1>10. ASSUME NEW k \in 1 .. Len(s) PROVE join[k] = join[k - 1] \o s[k]
  <2>1. k \in 0 .. Len(s) /\ k # 0 OBVIOUS
  <2> QED BY <1>8, <2>1
<1>11. \A k \in 0 .. Len(s) : join[k] \in Seq(S)
  <2>1. PICK f : f = join OBVIOUS
  <2>2. Obeys(f, Len(s), Seq(S), JoinStep(S, s)) BY <1>10, <1>s, <2>1 DEF Obeys
  <2>3. f[0] \in Seq(S) BY <1>4, <1>9, <2>1
  <2>4. \A k \in 0 .. Len(s) : f[k] \in Seq(S) BY <1>2, <1>3, <2>2, <2>3, StepwiseTyped
  <2> QED BY <2>1, <2>4
<1> QED BY <1>0, <1>9, <1>10, <1>11

LEMMA FlattenIsJoined ==
  ASSUME NEW S, NEW s \in Seq(Seq(S))
  PROVE  P!FlattenSeq(s) = Joined(s)[Len(s)]
<1>0. Len(s) \in Nat OBVIOUS
<1>1. CASE Len(s) = 0
  <2>1. s = <<>> BY <1>1
  <2>2. P!FlattenSeq(s) = s BY <1>1 DEF P!FlattenSeq
  <2> QED BY <1>1, <2>1, <2>2, JoinedIs
<1>2. CASE Len(s) # 0
  <2> DEFINE flat[z \in 1 .. Len(s)] == IF z = 1 THEN s[z] ELSE flat[z - 1] \o s[z]
             Solves(h) == h = [z \in 1 .. Len(s) |-> IF z = 1 THEN s[z] ELSE h[z - 1] \o s[z]]
             g == [z \in 1 .. Len(s) |-> Joined(s)[z]]
  <2>1. P!FlattenSeq(s) = flat[Len(s)] BY <1>2 DEF P!FlattenSeq
  <2>2. flat = CHOOSE h : Solves(h) OBVIOUS
  <2>3. ASSUME NEW z \in 1 .. Len(s)
        PROVE  g[z] = IF z = 1 THEN s[z] ELSE g[z - 1] \o s[z]
    <3>1. g[z] = Joined(s)[z - 1] \o s[z] BY JoinedIs
    <3>2. CASE z = 1
      <4>1. s[z] \in Seq(S) /\ z - 1 = 0 BY <3>2
      <4>2. <<>> \o s[z] = s[z] BY <4>1
      <4> QED BY <3>1, <3>2, <4>1, <4>2, JoinedIs
    <3>3. CASE z # 1
      <4>1. z - 1 \in 1 .. Len(s) BY <1>0, <3>3
      <4>2. g[z - 1] = Joined(s)[z - 1] BY <4>1
      <4> QED BY <3>1, <3>3, <4>2
    <3> QED BY <3>2, <3>3
  <2>4. Solves(g)
    <3>1. \A z \in 1 .. Len(s) : g[z] = IF z = 1 THEN s[z] ELSE g[z - 1] \o s[z] BY <2>3
    <3>2. g = [z \in 1 .. Len(s) |-> g[z]] OBVIOUS
    <3> HIDE DEF g
    <3> QED BY <3>1, <3>2
  <2>5. Solves(flat)
    <3> HIDE DEF Solves, flat, g
    <3> QED BY <2>2, <2>4
  <2> HIDE DEF flat
  <2>6. \A z \in 1 .. Len(s) : flat[z] = IF z = 1 THEN s[z] ELSE flat[z - 1] \o s[z] BY <2>5
  <2> HIDE DEF Solves
  <2> DEFINE T == {z \in Nat : z + 1 <= Len(s) => flat[z + 1] = g[z + 1]}
  <2>7. 0 \in T
    <3>1. 1 \in 1 .. Len(s) BY <1>0, <1>2
    <3>2. flat[1] = s[1] BY <2>6, <3>1
    <3>3. g[1] = s[1] BY <2>3, <3>1
    <3> HIDE DEF g
    <3> QED BY <3>2, <3>3
  <2>8. ASSUME NEW z \in Nat, z \in T PROVE z + 1 \in T
    <3> HIDE DEF g
    <3> SUFFICES ASSUME (z + 1) + 1 <= Len(s) PROVE flat[(z + 1) + 1] = g[(z + 1) + 1] OBVIOUS
    <3>1. (z + 1) + 1 \in 1 .. Len(s) /\ (z + 1) + 1 # 1 /\ ((z + 1) + 1) - 1 = z + 1 /\ z + 1 <= Len(s)
      BY <1>0
    <3>2. flat[z + 1] = g[z + 1] BY <2>8, <3>1
    <3>3. flat[(z + 1) + 1] = flat[z + 1] \o s[(z + 1) + 1] BY <2>6, <3>1
    <3>4. g[(z + 1) + 1] = g[z + 1] \o s[(z + 1) + 1] BY <2>3, <3>1
    <3> QED BY <3>2, <3>3, <3>4
  <2>9. Nat \subseteq T
    <3> HIDE DEF T
    <3> QED BY <2>7, <2>8, InductionOverNat
  <2>10. Len(s) - 1 \in Nat /\ (Len(s) - 1) + 1 = Len(s) /\ Len(s) \in 1 .. Len(s) BY <1>0, <1>2
  <2>11. g[Len(s)] = Joined(s)[Len(s)] BY <2>10
  <2>12. Len(s) - 1 \in T
    <3> HIDE DEF T
    <3> QED BY <2>9, <2>10
  <2>13. flat[Len(s)] = g[Len(s)]
    <3> HIDE DEF g
    <3> QED BY <2>10, <2>12
  <2> HIDE DEF g
  <2> QED BY <2>1, <2>11, <2>13
<1> QED BY <1>1, <1>2

(* What is joined begins with what the first parts join to; then comes the *)
(* next part.                                                              *)
LEMMA JoinedRest ==
  ASSUME NEW S, NEW s \in Seq(Seq(S)), NEW m \in 0 .. Len(s)
  PROVE  \E r \in Seq(S) : Joined(s)[Len(s)] = Joined(s)[m] \o r
<1> DEFINE Reached(k) == \E r \in Seq(S) : Joined(s)[k] = Joined(s)[m] \o r
           T == {k \in Nat : m <= k /\ k <= Len(s) => Reached(k)}
<1>1. Len(s) \in Nat /\ m \in Nat /\ m <= Len(s) /\ <<>> \in Seq(S) OBVIOUS
<1>2. PICK a \in Seq(S) : a = Joined(s)[m] BY JoinedIs
<1>3. Reached(m)
  <2>1. a = a \o <<>> BY Concats
  <2> QED BY <1>1, <1>2, <2>1
<1>4. ASSUME NEW k \in Nat, m <= k, k + 1 <= Len(s), Reached(k) PROVE Reached(k + 1)
  <2>1. k + 1 \in 1 .. Len(s) /\ (k + 1) - 1 = k BY <1>1, <1>4
  <2>2. PICK r \in Seq(S) : Joined(s)[k] = a \o r BY <1>2, <1>4
  <2>3. PICK b \in Seq(S) : b = s[k + 1] BY <2>1
  <2>4. Joined(s)[k + 1] = Joined(s)[k] \o s[k + 1] BY <2>1, JoinedIs
  <2>5. (a \o r) \o b = a \o (r \o b) BY Associates, SMTT(30)
  <2>6. r \o b \in Seq(S) BY Concats
  <2>7. Joined(s)[k + 1] = Joined(s)[m] \o (r \o b) BY <1>2, <2>2, <2>3, <2>4, <2>5
  <2> QED BY <2>6, <2>7
<1> HIDE DEF Reached
<1>5. 0 \in T
  <2>1. m <= 0 => m = 0 BY <1>1
  <2> QED BY <1>3, <2>1
<1>6. ASSUME NEW k \in Nat, k \in T PROVE k + 1 \in T
  <2> SUFFICES ASSUME m <= k + 1, k + 1 <= Len(s) PROVE Reached(k + 1) OBVIOUS
  <2>1. CASE m = k + 1 BY <1>3, <2>1
  <2>2. CASE m # k + 1
    <3>1. m <= k /\ k <= Len(s) BY <1>1, <2>2
    <3> QED BY <1>4, <1>6, <3>1
  <2> QED BY <2>1, <2>2
<1>7. Nat \subseteq T
  <2> HIDE DEF T
  <2> QED BY <1>5, <1>6, InductionOverNat
<1>8. Len(s) \in T
  <2> HIDE DEF T
  <2> QED BY <1>1, <1>7
<1>9. Reached(Len(s)) BY <1>1, <1>8
<1> QED BY <1>9 DEF Reached

(* The sequence that s joins, beginning and end at its mth part. *)
Parted(s, m, S) ==
    \E r \in Seq(S) : /\ Joined(s)[Len(s)] = Joined(s)[m] \o (s[m + 1] \o r)
                      /\ Joined(s)[Len(s)] = Joined(s)[m + 1] \o r

LEMMA JoinedNext ==
  ASSUME NEW S, NEW s \in Seq(Seq(S)), NEW m \in 0 .. Len(s), m < Len(s)
  PROVE  /\ Joined(s)[m + 1] = Joined(s)[m] \o s[m + 1]
         /\ Parted(s, m, S)
<1>1. m + 1 \in 1 .. Len(s) /\ m + 1 \in 0 .. Len(s) /\ (m + 1) - 1 = m BY DEF Seq
<1>2. Joined(s)[m + 1] = Joined(s)[m] \o s[m + 1] /\ Joined(s)[m] \in Seq(S) BY <1>1, JoinedIs
<1>3. PICK r \in Seq(S) : Joined(s)[Len(s)] = Joined(s)[m + 1] \o r BY <1>1, JoinedRest
<1>4. s[m + 1] \in Seq(S) BY <1>1
<1>5. PICK a \in Seq(S), b \in Seq(S) : a = Joined(s)[m] /\ b = s[m + 1] BY <1>2, <1>4
<1>6. (a \o b) \o r = a \o (b \o r) BY Associates
<1> QED BY <1>2, <1>3, <1>5, <1>6 DEF Parted
-----------------------------------------------------------------------------
(* Formats and their pieces.                                               *)
Chars == (STRING \cup {"E", "%", "d"}) \ {P!NUL}
Frames == [fmt : Seq(Chars), pos : Nat, args : Seq(P!Arguments), printed : Nat]
SpecsOf(ps) == [k \in 1 .. Len(ps) |-> ps[k].spec]
ArgsOf(ps) == [k \in 1 .. Len(ps) |-> ps[k].args]
TextsOf(ps) == [k \in 1 .. Len(ps) |-> ps[k].text]

LEMMA PieceIs ==
  ASSUME NEW p \in Pieces
  PROVE  /\ p.spec \in Seq(Chars) /\ p.args \in Seq(P!Arguments) /\ p.text \in Seq(STRING)
         /\ \/ P!Unfinished(p) \/ P!IsLiteral(p)
            \/ \E c \in DOMAIN p.spec : P!IsDirective(p, c) \/ P!IsLong(p, c)
         /\ Len(p.spec) \in Nat /\ Len(p.spec) > 0
<1>1. /\ p.spec \in Seq(Chars) /\ p.args \in Seq(P!Arguments) /\ p.text \in Seq(STRING)
      /\ \/ P!Unfinished(p) \/ P!IsLiteral(p)
         \/ \E c \in DOMAIN p.spec : P!IsDirective(p, c) \/ P!IsLong(p, c)
  BY PrintfPieces DEF P!PiecesAssumption, Chars
<1>2. Len(p.spec) \in Nat BY <1>1
<1>3. Len(p.spec) > 0
  <2>1. CASE P!Unfinished(p)
    <3>1. CASE p.spec = <<"%">> BY <3>1
    <3>2. CASE p.spec = <<"%", "l">> BY <3>2
    <3> QED BY <2>1, <3>1, <3>2 DEF P!Unfinished
  <2>2. CASE P!IsLiteral(p) BY <2>2 DEF P!IsLiteral
  <2>3. CASE \E c \in DOMAIN p.spec : P!IsDirective(p, c) \/ P!IsLong(p, c)
    <3>1. PICK c \in DOMAIN p.spec : P!IsDirective(p, c) \/ P!IsLong(p, c) BY <2>3
    <3>2. c \in 1 .. Len(p.spec) BY <1>1
    <3> QED BY <1>2, <3>2
  <2> QED BY <1>1, <2>1, <2>2, <2>3
<1> QED BY <1>1, <1>2, <1>3

LEMMA PartsAre ==
  ASSUME NEW ps \in Seq(Pieces)
  PROVE  /\ SpecsOf(ps) \in Seq(Seq(Chars)) /\ ArgsOf(ps) \in Seq(Seq(P!Arguments))
         /\ TextsOf(ps) \in Seq(Seq(STRING)) /\ Len(ps) \in Nat
         /\ Len(SpecsOf(ps)) = Len(ps) /\ Len(ArgsOf(ps)) = Len(ps) /\ Len(TextsOf(ps)) = Len(ps)
         /\ \A k \in 1 .. Len(ps) :
               ps[k] \in Pieces /\ SpecsOf(ps)[k] = ps[k].spec /\ ArgsOf(ps)[k] = ps[k].args
               /\ TextsOf(ps)[k] = ps[k].text
<1>1. Len(ps) \in Nat /\ \A k \in 1 .. Len(ps) : ps[k] \in Pieces OBVIOUS
<1>2. \A k \in 1 .. Len(ps) : /\ ps[k].spec \in Seq(Chars) /\ ps[k].args \in Seq(P!Arguments)
                              /\ ps[k].text \in Seq(STRING)
  BY <1>1, PieceIs
<1>3. SpecsOf(ps) \in Seq(Seq(Chars)) /\ Len(SpecsOf(ps)) = Len(ps) BY <1>1, <1>2 DEF SpecsOf
<1>4. ArgsOf(ps) \in Seq(Seq(P!Arguments)) /\ Len(ArgsOf(ps)) = Len(ps) BY <1>1, <1>2 DEF ArgsOf
<1>5. TextsOf(ps) \in Seq(Seq(STRING)) /\ Len(TextsOf(ps)) = Len(ps) BY <1>1, <1>2 DEF TextsOf
<1> QED BY <1>1, <1>3, <1>4, <1>5 DEF SpecsOf, ArgsOf, TextsOf

(* The frame stands behind the first m pieces of its format. *)
Behind(f, ps, m) ==
    /\ f.fmt = Joined(SpecsOf(ps))[Len(ps)]
    /\ f.pos = Len(Joined(SpecsOf(ps))[m]) + 1
    /\ Joined(ArgsOf(ps))[Len(ps)] = Joined(ArgsOf(ps))[m] \o f.args

Ahead(f, w) == \A k \in 1 .. Len(w) : (f.pos - 1) + k \in DOMAIN f.fmt /\ f.fmt[(f.pos - 1) + k] = w[k]
Passed(f, p, a, ps, m) ==
    /\ f.args = p.args \o a
    /\ \A n \in Nat :
          Behind([fmt |-> f.fmt, pos |-> f.pos + Len(p.spec), args |-> a, printed |-> n], ps, m)

(* Then the characters it finds are those of the next piece, and its       *)
(* arguments begin with this piece's.                                      *)
LEMMA NextPiece ==
  ASSUME NEW ps \in Seq(Pieces), NEW m \in 0 .. Len(ps), m < Len(ps), NEW f \in Frames, Behind(f, ps, m),
         NEW p, p = ps[m + 1]
  PROVE  /\ p \in Pieces
         /\ Ahead(f, p.spec)
         /\ m + 1 = Len(ps) => Len(f.fmt) = (f.pos - 1) + Len(p.spec)
         /\ Len(f.fmt) \in Nat /\ (f.pos - 1) + Len(p.spec) <= Len(f.fmt)
         /\ \E a \in Seq(P!Arguments) : Passed(f, p, a, ps, m + 1)
<1>1. m + 1 \in 1 .. Len(ps) /\ m + 1 \in 0 .. Len(ps) /\ (m + 1) - 1 = m /\ Len(ps) \in Nat
      /\ Len(ps) \in 0 .. Len(ps)
  BY PartsAre
<1>2. p \in Pieces BY <1>1
<1>3. PICK b \in Seq(Chars) : b = p.spec BY <1>2, PieceIs
<1>4. PICK s \in Seq(Seq(Chars)) : s = SpecsOf(ps) /\ Len(s) = Len(ps) /\ s[m + 1] = b
  BY <1>1, <1>3, PartsAre
<1>5. PICK u \in Seq(Chars) : u = Joined(s)[m] BY <1>4, JoinedIs
<1>6. PICK r \in Seq(Chars) : Joined(s)[m + 1] = u \o b /\ Joined(s)[Len(ps)] = u \o (b \o r)
  <2>1. m \in 0 .. Len(s) /\ m < Len(s) BY <1>4
  <2>2. Joined(s)[m + 1] = Joined(s)[m] \o s[m + 1] BY <2>1, JoinedNext
  <2>3. Parted(s, m, Chars) BY <2>1, JoinedNext
  <2>4. PICK r \in Seq(Chars) : Joined(s)[Len(s)] = Joined(s)[m] \o (s[m + 1] \o r) BY <2>3 DEF Parted
  <2> QED BY <1>4, <1>5, <2>2, <2>4
<1>7. f.fmt = u \o (b \o r) /\ f.pos - 1 = Len(u) /\ Len(u) \in Nat /\ Len(b) \in Nat /\ Len(r) \in Nat
      /\ f.pos = Len(u) + 1
  <2>1. f.fmt = u \o (b \o r) BY <1>4, <1>6 DEF Behind
  <2>2. f.pos = Len(u) + 1 BY <1>4, <1>5 DEF Behind
  <2>3. Len(u) \in Nat /\ Len(b) \in Nat /\ Len(r) \in Nat OBVIOUS
  <2> QED BY <2>1, <2>2, <2>3
<1>8. Len(f.fmt) = Len(u) + (Len(b) + Len(r)) /\ DOMAIN f.fmt = 1 .. Len(f.fmt)
  <2>1. b \o r \in Seq(Chars) /\ Len(b \o r) = Len(b) + Len(r) BY Concats
  <2>2. Len(u \o (b \o r)) = Len(u) + Len(b \o r) BY <2>1, Concats
  <2>3. f.fmt \in Seq(Chars) BY DEF Frames
  <2> QED BY <1>7, <2>1, <2>2, <2>3
<1>9. ASSUME NEW k \in 1 .. Len(b)
      PROVE  Len(u) + k \in DOMAIN f.fmt /\ f.fmt[Len(u) + k] = b[k]
  <2>1. b \o r \in Seq(Chars) /\ Len(b \o r) = Len(b) + Len(r) /\ (b \o r)[k] = b[k] BY Concats
  <2>2. k \in 1 .. Len(b \o r) BY <1>7, <2>1
  <2>3. (u \o (b \o r))[Len(u) + k] = (b \o r)[k] BY <2>1, <2>2, Concats
  <2>4. Len(u) + k \in 1 .. Len(f.fmt) BY <1>7, <1>8
  <2> QED BY <1>7, <1>8, <2>1, <2>3, <2>4
<1>10. m + 1 = Len(ps) => Len(f.fmt) = Len(u) + Len(b)
  <2> SUFFICES ASSUME m + 1 = Len(ps) PROVE Len(f.fmt) = Len(u) + Len(b) OBVIOUS
  <2>1. f.fmt = u \o b BY <1>4, <1>6 DEF Behind
  <2> QED BY <2>1, Concats
<1>11. PICK s2 \in Seq(Seq(P!Arguments)) : s2 = ArgsOf(ps) /\ Len(s2) = Len(ps) /\ s2[m + 1] = p.args
  BY <1>1, PartsAre
<1>12. PICK v \in Seq(P!Arguments) : v = Joined(s2)[m] BY <1>11, JoinedIs
<1>13. PICK a \in Seq(P!Arguments) :
          /\ Joined(s2)[m + 1] = v \o p.args
          /\ Joined(s2)[Len(ps)] = v \o (p.args \o a) /\ Joined(s2)[Len(ps)] = Joined(s2)[m + 1] \o a
  <2>1. m \in 0 .. Len(s2) /\ m < Len(s2) BY <1>11
  <2>2. Joined(s2)[m + 1] = Joined(s2)[m] \o s2[m + 1] BY <2>1, JoinedNext
  <2>3. Parted(s2, m, P!Arguments) BY <2>1, JoinedNext
  <2>4. PICK a \in Seq(P!Arguments) : /\ Joined(s2)[Len(s2)] = Joined(s2)[m] \o (s2[m + 1] \o a)
                                      /\ Joined(s2)[Len(s2)] = Joined(s2)[m + 1] \o a
    BY <2>3 DEF Parted
  <2> QED BY <1>11, <1>12, <2>2, <2>4
<1>14. p.args \in Seq(P!Arguments) /\ f.args \in Seq(P!Arguments) BY <1>2, PieceIs DEF Frames
<1>15. f.args = p.args \o a
  <2>1. v \o f.args = v \o (p.args \o a) BY <1>11, <1>12, <1>13 DEF Behind
  <2>2. p.args \o a \in Seq(P!Arguments) BY <1>14, Concats
  <2> QED BY <1>14, <2>1, <2>2, Cancels
<1>16. Joined(s2)[Len(ps)] = Joined(s2)[m + 1] \o a BY <1>13
<1>17. Len(Joined(s)[m + 1]) = Len(u) + Len(b) BY <1>6, Concats
<1>18. ASSUME NEW n \in Nat
       PROVE  Behind([fmt |-> f.fmt, pos |-> f.pos + Len(p.spec), args |-> a, printed |-> n], ps, m + 1)
  <2>1. f.pos + Len(p.spec) = Len(Joined(s)[m + 1]) + 1
    <3>1. Len(p.spec) = Len(b) BY <1>3
    <3>2. f.pos = Len(u) + 1 /\ Len(u) \in Nat /\ Len(b) \in Nat BY <1>7
    <3> QED BY <1>17, <3>1, <3>2
  <2>2. f.fmt = Joined(s)[Len(ps)] BY <1>4 DEF Behind
  <2> QED BY <1>4, <1>11, <1>16, <2>1, <2>2 DEF Behind
<1>19. \A k \in 1 .. Len(p.spec) : (f.pos - 1) + k \in DOMAIN f.fmt /\ f.fmt[(f.pos - 1) + k] = p.spec[k]
  BY <1>3, <1>7, <1>9
<1>20. Len(f.fmt) \in Nat /\ (f.pos - 1) + Len(p.spec) <= Len(f.fmt) BY <1>3, <1>7, <1>8
<1>21. m + 1 = Len(ps) => Len(f.fmt) = (f.pos - 1) + Len(p.spec) BY <1>3, <1>7, <1>10
<1>22. Passed(f, p, a, ps, m + 1) BY <1>15, <1>18 DEF Passed
<1>23. Ahead(f, p.spec) BY <1>19 DEF Ahead
<1> QED BY <1>2, <1>20, <1>21, <1>22, <1>23
-----------------------------------------------------------------------------
(* What a turn of vfprintf does to the frame whose format goes on with the *)
(* characters w.                                                           *)
Moved(f, n, a, k) == [fmt |-> f.fmt, pos |-> f.pos + n, args |-> a, printed |-> f.printed + k]

LEMMA AheadIs ==
  ASSUME NEW f \in Frames, P!Top = f, NEW w \in Seq(Chars), Ahead(f, w), Len(w) > 0
  PROVE  /\ f.pos \in Nat /\ f.pos > 0 /\ Len(f.fmt) \in Nat /\ Len(w) \in Nat
         /\ DOMAIN f.fmt = 1 .. Len(f.fmt) /\ (f.pos - 1) + Len(w) <= Len(f.fmt)
         /\ P!At(f.pos) = w[1] /\ \A k \in 1 .. Len(w) : P!At((f.pos - 1) + k) = w[k] /\ w[k] # P!NUL
<1>1. f.pos \in Nat /\ Len(f.fmt) \in Nat /\ Len(w) \in Nat /\ DOMAIN f.fmt = 1 .. Len(f.fmt)
  BY DEF Frames
<1>2. 1 \in 1 .. Len(w) /\ Len(w) \in 1 .. Len(w) BY <1>1
<1>3. (f.pos - 1) + 1 \in 1 .. Len(f.fmt) /\ (f.pos - 1) + Len(w) \in 1 .. Len(f.fmt) BY <1>1, <1>2 DEF Ahead
<1>4. ASSUME NEW k \in 1 .. Len(w) PROVE P!At((f.pos - 1) + k) = w[k] /\ w[k] # P!NUL
  <2>1. w[k] \in Chars OBVIOUS
  <2>2. (f.pos - 1) + k \in DOMAIN P!Top.fmt /\ P!Top.fmt[(f.pos - 1) + k] = w[k] BY DEF Ahead
  <2> QED BY <2>1, <2>2 DEF P!At, Chars
<1>5. (f.pos - 1) + 1 = f.pos BY <1>1
<1>6. P!At(f.pos) = w[1] BY <1>2, <1>4, <1>5
<1> QED BY <1>1, <1>3, <1>4, <1>6

LEMMA CodeFound ==
  ASSUME NEW f \in Frames, P!Top = f, NEW p, p.spec \in Seq(Chars), Ahead(f, p.spec), NEW c, P!CodeIn(p, c)
  PROVE  /\ c \in Nat /\ P!CodeAt = (f.pos - 1) + c /\ P!CodeAt # 0
         /\ P!At(f.pos) = "%" /\ P!At(P!CodeAt) = p.spec[c] /\ p.spec[c] \in P!Codes
<1>1. /\ c \in 2 .. Len(p.spec) /\ p.spec[1] = "%" /\ p.spec[c] \in P!Codes
      /\ \A k \in 2 .. c - 1 : p.spec[k] \notin P!Codes
  BY DEF P!CodeIn
<1>2. Len(p.spec) \in Nat /\ Len(p.spec) > 0 BY <1>1
<1>3. /\ f.pos \in Nat /\ f.pos > 0 /\ Len(f.fmt) \in Nat /\ DOMAIN f.fmt = 1 .. Len(f.fmt)
      /\ P!At(f.pos) = p.spec[1] /\ \A k \in 1 .. Len(p.spec) : P!At((f.pos - 1) + k) = p.spec[k]
  BY <1>2, AheadIs
<1> DEFINE codes == {k \in f.pos + 1 .. Len(f.fmt) : f.fmt[k] \in P!Codes}
           h == (f.pos - 1) + c
<1>4. c \in 1 .. Len(p.spec) BY <1>1
<1>5. h \in codes
  <2>1. h \in DOMAIN f.fmt /\ f.fmt[h] = p.spec[c] BY <1>4 DEF Ahead
  <2> QED BY <1>1, <1>3, <2>1
<1>6. ASSUME NEW k \in codes PROVE h <= k
  <2> SUFFICES ASSUME k < h PROVE FALSE BY <1>1, <1>3
  <2> DEFINE j == k - (f.pos - 1)
  <2>1. j \in 2 .. c - 1 /\ j \in 1 .. Len(p.spec) /\ (f.pos - 1) + j = k BY <1>1, <1>3, SMTT(30)
  <2>2. f.fmt[k] = p.spec[j] BY <2>1 DEF Ahead
  <2> QED BY <1>1, <2>1, <2>2
<1>7. h \in Int /\ codes \subseteq Int BY <1>1, <1>3
<1>8. P!CodeAt = IF codes = {} THEN 0 ELSE CHOOSE k \in codes : \A l \in codes : k <= l BY DEF P!CodeAt
<1>9. (CHOOSE k \in codes : \A l \in codes : k <= l) = h
  <2> HIDE DEF codes, h
  <2>1. \A k \in codes : (\A l \in codes : k <= l) <=> k = h BY <1>5, <1>6, <1>7
  <2> QED BY <1>5, <2>1
<1>10. P!CodeAt = h BY <1>5, <1>8, <1>9
<1>11. h # 0 BY <1>1, <1>3
<1> QED BY <1>1, <1>3, <1>4, <1>10, <1>11

LEMMA AdvancedIs ==
  ASSUME NEW f \in Frames, P!Top = f, NEW to, NEW a, NEW n
  PROVE  P!Advanced(to, a, n) = [fmt |-> f.fmt, pos |-> to, args |-> a, printed |-> f.printed + n]
<1> DEFINE g == [f EXCEPT !.pos = to, !.args = a, !.printed = @ + n]
<1>1. P!Advanced(to, a, n) = g BY DEF P!Advanced
<1>2. DOMAIN f = {"fmt", "pos", "args", "printed"} BY DEF Frames
<1>3. DOMAIN g = {"fmt", "pos", "args", "printed"} BY <1>2
<1>4. g.fmt = f.fmt /\ g.pos = to /\ g.args = a /\ g.printed = f.printed + n BY <1>2
<1>5. g = [x \in {"fmt", "pos", "args", "printed"} |-> g[x]] BY <1>3
<1> HIDE DEF g
<1>6. g = [fmt |-> f.fmt, pos |-> to, args |-> a, printed |-> f.printed + n] BY <1>3, <1>4, <1>5
<1> QED BY <1>1, <1>6

(* Which turn it is. *)
LEMMA TurnsAre ==
  ASSUME P!Turn
  PROVE  /\ P!Running
         /\ P!At(P!Top.pos) \notin {"%", P!NUL} => P!Literal
         /\ P!At(P!Top.pos) = "%" =>
              /\ P!CodeAt = 0 => P!RunPast
              /\ P!CodeAt # 0 /\ P!At(P!CodeAt) = "%" => P!Percent
              /\ P!CodeAt # 0 /\ P!At(P!CodeAt) = "f" => P!ConvertFloat
              /\ P!CodeAt # 0 /\ P!At(P!CodeAt) \notin {"%", "f"} /\ P!At(P!CodeAt + 1) # P!NUL => P!Convert
              /\ P!CodeAt # 0 /\ P!At(P!CodeAt) \notin {"%", "f", "l"} => P!Convert
              /\ P!CodeAt # 0 /\ P!At(P!CodeAt) = "l" /\ P!At(P!CodeAt + 1) = P!NUL => P!RunPast
         /\ P!At(P!Top.pos) = P!NUL => P!ReturnInner \/ P!Return
<1>1. "%" # P!NUL BY DEF P!NUL
<1>2. "l" # "%" /\ "l" # "f" /\ "%" # "f" OBVIOUS
<1>3. CASE P!Literal BY <1>1, <1>3 DEF P!Literal
<1>4. CASE P!Percent BY <1>1, <1>2, <1>4 DEF P!Percent
<1>5. CASE P!Convert
  <2>1. /\ P!Running /\ P!At(P!Top.pos) = "%" /\ P!CodeAt # 0 /\ P!At(P!CodeAt) \notin {"%", "f"}
        /\ ~(P!At(P!CodeAt) = "l" /\ P!At(P!CodeAt + 1) = P!NUL)
    <3>1. /\ P!Running /\ P!At(P!Top.pos) = "%" /\ P!CodeAt # 0 /\ P!At(P!CodeAt) \notin {"%", "f"}
      BY <1>5 DEF P!Convert
    <3>2. ASSUME P!At(P!CodeAt) = "l", P!At(P!CodeAt + 1) = P!NUL PROVE FALSE
      <4>1. P!NUL \notin P!LongCodes BY DEF P!NUL, P!LongCodes
      <4>2. <<"l", P!NUL>>[2] = P!NUL OBVIOUS
      <4> QED BY <1>5, <3>2, <4>1, <4>2 DEF P!Convert
    <3> QED BY <3>1, <3>2
  <2> QED BY <1>1, <1>5, <2>1
<1>6. CASE P!ConvertFloat BY <1>1, <1>2, <1>6 DEF P!ConvertFloat
<1>7. CASE P!RunPast BY <1>1, <1>2, <1>7 DEF P!RunPast
<1>8. CASE P!ReturnInner BY <1>1, <1>8 DEF P!ReturnInner
<1>9. CASE P!Return BY <1>1, <1>9 DEF P!Return
<1> QED BY <1>3, <1>4, <1>5, <1>6, <1>7, <1>8, <1>9 DEF P!Turn
IsPiece(p) ==
    /\ p.spec \in Seq(Chars) /\ p.args \in Seq(P!Arguments) /\ p.text \in Seq(STRING)
    /\ \/ P!Unfinished(p) \/ P!IsLiteral(p)
       \/ \E c \in DOMAIN p.spec : P!IsDirective(p, c) \/ P!IsLong(p, c)

LEMMA HeadOf ==
  ASSUME NEW S, NEW s \in Seq(S), Len(s) = 1, NEW a \in Seq(S)
  PROVE  Head(s \o a) = s[1] /\ Tail(s \o a) = a /\ s[1] \in S
<1>1. Len(a) \in Nat /\ Len(s \o a) = 1 + Len(a) /\ s \o a \in Seq(S) BY Concats
<1>2. 1 \in 1 .. Len(s) OBVIOUS
<1>3. (s \o a)[1] = s[1] /\ s[1] \in S BY <1>2, Concats
<1>4. Head(s \o a) = s[1] BY <1>3
<1>5. Tail(s \o a) \in Seq(S) /\ Len(Tail(s \o a)) = Len(a) BY <1>1
<1>6. ASSUME NEW k \in 1 .. Len(a) PROVE Tail(s \o a)[k] = a[k]
  <2>1. Tail(s \o a)[k] = (s \o a)[k + 1] BY <1>1
  <2>2. k \in Nat /\ k > 0 /\ k <= Len(a) BY <1>1
  <2>3. (s \o a)[k + 1] = a[k] BY <1>1, <2>2
  <2> QED BY <2>1, <2>3
<1>7. Tail(s \o a) = a BY <1>5, <1>6
<1> QED BY <1>3, <1>4, <1>7

(* x.text, an E and the numeral e of the exponent of x. *)
FloatOf(p, x, e) ==
    /\ x \in P!Arguments /\ x.exp # 0 /\ P!Fits(x.exp, IntBits)
    /\ e \in Seq(STRING) /\ P!IsSigned(e, x.exp)
    /\ p.text = (x.text \o <<"E">>) \o e /\ "E" \in STRING
    /\ \E k \in DOMAIN p.text : p.text[k] = "E"
Unchanged == UNCHANGED <<__m65x_char_to_file, printing, printed>>
Writes(text) == P!Emit(text) \/ (text = <<>> /\ UNCHANGED <<out, str>>)
Shown(f, p, a) == Writes(p.text) /\ P!Continue(Moved(f, Len(p.spec), a, Len(p.text))) /\ Unchanged
Begun(f, p, a, x) ==
    /\ P!Emit(x.text) /\ Unchanged
    /\ frames' = Append([frames EXCEPT ![Len(frames)] = Moved(f, Len(p.spec), a, Len(x.text))],
                        P!Frame(<<"E", "%", "d">>, <<[x EXCEPT !.val = x.exp]>>))

LEMMA FloatIs ==
  ASSUME NEW p, p.text \in Seq(STRING), NEW x \in P!Arguments, x.exp # 0, P!Shows("f", IntBits, x, p.text)
  PROVE  \E e : FloatOf(p, x, e)
<1>1. P!Fits(x.exp, IntBits) /\
      \E n \in 1 .. Len(p.text) : /\ p.text = x.text \o <<"E">> \o SubSeq(p.text, n + 1, Len(p.text))
                                  /\ P!IsSigned(SubSeq(p.text, n + 1, Len(p.text)), x.exp)
  BY DEF P!Shows
<1>2. PICK n \in 1 .. Len(p.text) : /\ p.text = x.text \o <<"E">> \o SubSeq(p.text, n + 1, Len(p.text))
                                    /\ P!IsSigned(SubSeq(p.text, n + 1, Len(p.text)), x.exp)
  BY <1>1
<1> DEFINE e == SubSeq(p.text, n + 1, Len(p.text))
           S == STRING \cup {"E"}
<1>3. e \in Seq(STRING) /\ e \in Seq(S) BY DEF Seq
<1>4. x.text \in Seq(STRING) /\ x.text \in Seq(S) /\ <<"E">> \in Seq(S) /\ Len(<<"E">>) = 1 BY DEF P!Arguments
<1>5. p.text = (x.text \o <<"E">>) \o e BY <1>2
<1> DEFINE k == Len(x.text) + 1
<1>6. x.text \o <<"E">> \in Seq(S) /\ Len(x.text \o <<"E">>) = k
      /\ (x.text \o <<"E">>)[Len(x.text) + 1] = <<"E">>[1]
  BY <1>4, Concats
<1>7. k \in 1 .. k /\ Len(x.text) \in Nat /\ Len(e) \in Nat BY <1>3, <1>4
<1> HIDE DEF e, S
<1>8. p.text[k] = "E" BY <1>3, <1>5, <1>6, <1>7, Concats
<1>9. Len(p.text) = k + Len(e) BY <1>3, <1>5, <1>6, Concats
<1>10. k \in DOMAIN p.text /\ p.text[k] \in STRING BY <1>7, <1>9
<1> QED BY <1>1, <1>2, <1>3, <1>5, <1>8, <1>10 DEF FloatOf, e

LEMMA LiteralTurn ==
  ASSUME P!Turn, NEW f \in Frames, P!Top = f, NEW p, IsPiece(p), Ahead(f, p.spec),
         NEW a \in Seq(P!Arguments), f.args = p.args \o a, P!IsLiteral(p)
  PROVE  Shown(f, p, a)
<1>1. /\ p.spec \in Seq(Chars) /\ Len(p.spec) = 1 /\ p.spec[1] # "%" /\ p.args = <<>> /\ p.text = p.spec
  BY DEF P!IsLiteral, IsPiece
<1>2. P!At(f.pos) = p.spec[1] /\ p.spec[1] # P!NUL BY <1>1, AheadIs
<1>3. P!Literal BY <1>1, <1>2, TurnsAre
<1>4. <<p.spec[1]>> = p.text BY <1>1
<1>5. f.args = a BY <1>1
<1>6. P!Emit(<<P!At(f.pos)>>) /\ P!Continue(P!Advanced(f.pos + 1, f.args, 1)) /\ Unchanged
  BY <1>3 DEF P!Literal, Unchanged
<1>7. P!Advanced(f.pos + 1, f.args, 1) = Moved(f, 1, a, 1) BY <1>5, AdvancedIs DEF Moved
<1>8. Len(p.text) = 1 /\ Len(p.spec) = 1 BY <1>1
<1> QED BY <1>2, <1>4, <1>6, <1>7, <1>8 DEF Shown, Writes

LEMMA DirectiveTurn ==
  ASSUME P!Turn, NEW f \in Frames, P!Top = f, NEW p, IsPiece(p), Ahead(f, p.spec),
         NEW a \in Seq(P!Arguments), f.args = p.args \o a, NEW c, P!IsDirective(p, c)
  PROVE  \/ Shown(f, p, a)
         \/ p.spec[c] = "f" /\ (\E x, e : FloatOf(p, x, e) /\ Begun(f, p, a, x))
<1>1. /\ p.spec \in Seq(Chars) /\ p.args \in Seq(P!Arguments) /\ p.text \in Seq(STRING)
  BY DEF IsPiece
<1>2. /\ P!CodeIn(p, c) /\ c = Len(p.spec) /\ p.spec[c] # "l"
      /\ IF p.spec[c] = "%" THEN p.args = <<>> /\ p.text = <<"%">>
         ELSE Len(p.args) = 1 /\ P!Shows(p.spec[c], IntBits, p.args[1], p.text)
  BY DEF P!IsDirective
<1>3. /\ c \in Nat /\ P!CodeAt = (f.pos - 1) + c /\ P!CodeAt # 0
      /\ P!At(f.pos) = "%" /\ P!At(P!CodeAt) = p.spec[c] /\ p.spec[c] \in P!Codes
  BY <1>1, <1>2, CodeFound
<1>4. f.pos \in Nat /\ P!CodeAt + 1 = f.pos + Len(p.spec)
  <2>1. f.pos \in Nat BY DEF Frames
  <2> QED BY <1>2, <1>3, <2>1
<1>5. CASE p.spec[c] = "%"
  <2>1. P!Percent BY <1>3, <1>5, TurnsAre
  <2>2. P!Emit(<<"%">>) /\ P!Continue(P!Advanced(P!CodeAt + 1, f.args, 1)) /\ Unchanged
    BY <2>1 DEF P!Percent, Unchanged
  <2>3. f.args = a /\ p.text = <<"%">> BY <1>2, <1>5
  <2>4. Len(p.text) = 1 BY <2>3
  <2>5. P!Advanced(P!CodeAt + 1, f.args, 1) = Moved(f, Len(p.spec), a, Len(p.text))
    BY <1>4, <2>3, <2>4, AdvancedIs DEF Moved
  <2> QED BY <2>2, <2>3, <2>5 DEF Shown, Writes
<1>6. CASE p.spec[c] # "%"
  <2> DEFINE x == p.args[1]
  <2>1. Len(p.args) = 1 /\ P!Shows(p.spec[c], IntBits, x, p.text) BY <1>2, <1>6
  <2>2. Head(f.args) = x /\ Tail(f.args) = a /\ x \in P!Arguments BY <1>1, <2>1, HeadOf
  <2> HIDE DEF x
  <2>3. CASE p.spec[c] = "f"
    <3>1. P!ConvertFloat BY <1>3, <2>3, TurnsAre
    <3>2. P!Advanced(P!CodeAt + 1, Tail(f.args), Len(x.text)) = Moved(f, Len(p.spec), a, Len(x.text))
      BY <1>4, <2>2, AdvancedIs, ZenonT(60) DEF Moved
    <3> DEFINE outer == Moved(f, Len(p.spec), a, Len(x.text))
    <3> HIDE DEF outer
    <3>3. /\ P!Emit(x.text) /\ Unchanged
          /\ frames' = IF x.exp = 0 THEN [frames EXCEPT ![Len(frames)] = outer]
                       ELSE Append([frames EXCEPT ![Len(frames)] = outer],
                                   P!Frame(<<"E", "%", "d">>, <<[x EXCEPT !.val = x.exp]>>))
      BY <2>2, <3>1, <3>2 DEF P!ConvertFloat, Unchanged, outer
    <3>4. CASE x.exp = 0
      <4>1. p.text = x.text BY <2>1, <2>3, <3>4 DEF P!Shows
      <4> QED BY <3>3, <3>4, <4>1 DEF Shown, Writes, P!Continue, outer
    <3>5. CASE x.exp # 0
      <4>1. PICK e : FloatOf(p, x, e) BY <1>1, <2>1, <2>2, <2>3, <3>5, FloatIs
      <4>2. Begun(f, p, a, x) BY <3>3, <3>5 DEF Begun, outer
      <4> QED BY <2>3, <4>1, <4>2
    <3> QED BY <3>4, <3>5
  <2>4. CASE p.spec[c] # "f"
    <3>1. P!Convert BY <1>2, <1>3, <1>6, <2>4, TurnsAre
    <3>2. p.spec[c] \in {"c", "d", "u", "s", "p", "x"} BY <1>2, <1>3, <1>6, <2>4 DEF P!Codes
    <3>3. P!Converted(<<p.spec[c]>>, x) = p.text BY <1>1, <2>1, <2>2, <3>2, Converts
    <3>4. ~(P!At(P!CodeAt) = "l") /\ Len(<<P!At(P!CodeAt)>>) = 1 BY <1>2, <1>3
    <3>5. /\ P!Emit(P!Converted(<<P!At(P!CodeAt)>>, Head(f.args)))
          /\ P!Continue(P!Advanced(P!CodeAt + 1, Tail(f.args),
                                   Len(P!Converted(<<P!At(P!CodeAt)>>, Head(f.args)))))
          /\ Unchanged
      BY <3>1, <3>4 DEF P!Convert, Unchanged
    <3>6. P!Emit(p.text) /\ P!Continue(P!Advanced(P!CodeAt + 1, a, Len(p.text))) BY <1>3, <2>2, <3>3, <3>5
    <3>7. P!Advanced(P!CodeAt + 1, a, Len(p.text)) = Moved(f, Len(p.spec), a, Len(p.text))
      BY <1>4, AdvancedIs DEF Moved
    <3> QED BY <3>5, <3>6, <3>7 DEF Shown, Writes
  <2> QED BY <2>3, <2>4
<1> QED BY <1>5, <1>6

LEMMA LongTurn ==
  ASSUME P!Turn, NEW f \in Frames, P!Top = f, NEW p, IsPiece(p), Ahead(f, p.spec),
         NEW a \in Seq(P!Arguments), f.args = p.args \o a, NEW c, P!IsLong(p, c)
  PROVE  Shown(f, p, a)
<1>1. /\ p.spec \in Seq(Chars) /\ p.args \in Seq(P!Arguments) /\ p.text \in Seq(STRING)
  BY DEF IsPiece
<1>2. /\ P!CodeIn(p, c) /\ c + 1 = Len(p.spec) /\ p.spec[c] = "l"
      /\ IF p.spec[c + 1] \in P!LongCodes
         THEN Len(p.args) = 1 /\ P!Shows(p.spec[c + 1], LongBits, p.args[1], p.text)
         ELSE p.args = <<>> /\ p.text = <<>>
  BY DEF P!IsLong
<1>3. /\ c \in Nat /\ P!CodeAt = (f.pos - 1) + c /\ P!CodeAt # 0
      /\ P!At(f.pos) = "%" /\ P!At(P!CodeAt) = "l"
  BY <1>1, <1>2, CodeFound
<1>4. f.pos \in Nat /\ P!CodeAt + 2 = f.pos + Len(p.spec) /\ P!CodeAt + 1 = (f.pos - 1) + (c + 1)
      /\ c + 1 \in 1 .. Len(p.spec) /\ Len(p.spec) > 0
  <2>1. f.pos \in Nat /\ Len(p.spec) \in Nat BY <1>1 DEF Frames
  <2>2. c \in Nat /\ c + 1 = Len(p.spec) /\ P!CodeAt = (f.pos - 1) + c BY <1>2, <1>3
  <2>3. c + 1 \in 1 .. Len(p.spec) /\ Len(p.spec) > 0 BY <2>1, <2>2
  <2>4. \A u, v \in Nat : ((u - 1) + v) + 2 = u + (v + 1) /\ ((u - 1) + v) + 1 = (u - 1) + (v + 1)
    OBVIOUS
  <2>5. P!CodeAt + 2 = f.pos + (c + 1) BY <2>1, <2>2, <2>4
  <2>6. P!CodeAt + 1 = (f.pos - 1) + (c + 1) BY <2>1, <2>2, <2>4
  <2> QED BY <2>1, <2>2, <2>3, <2>5, <2>6
<1>5. P!At(P!CodeAt + 1) = p.spec[c + 1] /\ p.spec[c + 1] # P!NUL BY <1>1, <1>4, AheadIs
<1>6. P!Convert BY <1>3, <1>5, TurnsAre
<1> DEFINE code == <<"l", p.spec[c + 1]>>
<1>7. code[2] = p.spec[c + 1] /\ Len(code) = 2 OBVIOUS
<1>8. CASE p.spec[c + 1] \in P!LongCodes
  <2> DEFINE x == p.args[1]
  <2>1. Len(p.args) = 1 /\ P!Shows(p.spec[c + 1], LongBits, x, p.text) BY <1>2, <1>8
  <2>2. Head(f.args) = x /\ Tail(f.args) = a /\ x \in P!Arguments BY <1>1, <2>1, HeadOf
  <2> HIDE DEF x
  <2>3. P!Converted(code, x) = p.text BY <1>1, <1>8, <2>1, <2>2, Converts
  <2> HIDE DEF code
  <2>4. /\ P!Emit(P!Converted(code, Head(f.args)))
        /\ P!Continue(P!Advanced(P!CodeAt + Len(code), Tail(f.args), Len(P!Converted(code, Head(f.args)))))
        /\ Unchanged
    BY <1>3, <1>5, <1>6, <1>7, <1>8 DEF P!Convert, Unchanged, code
  <2>5. P!Emit(p.text) /\ P!Continue(P!Advanced(P!CodeAt + 2, a, Len(p.text))) BY <1>7, <2>2, <2>3, <2>4
  <2>6. P!Advanced(P!CodeAt + 2, a, Len(p.text)) = Moved(f, Len(p.spec), a, Len(p.text))
    BY <1>4, AdvancedIs DEF Moved
  <2> QED BY <2>4, <2>5, <2>6 DEF Shown, Writes
<1>9. CASE p.spec[c + 1] \notin P!LongCodes
  <2>1. p.text = <<>> /\ f.args = a BY <1>2, <1>9
  <2>2. P!Continue(P!Advanced(P!CodeAt + 2, f.args, 0)) /\ UNCHANGED <<out, str>> /\ Unchanged
    BY <1>3, <1>5, <1>6, <1>7, <1>9 DEF P!Convert, Unchanged
  <2>3. Len(p.text) = 0 BY <2>1
  <2>4. P!Advanced(P!CodeAt + 2, f.args, 0) = Moved(f, Len(p.spec), a, Len(p.text))
    BY <1>4, <2>1, <2>3, AdvancedIs DEF Moved
  <2> QED BY <2>1, <2>2, <2>4 DEF Shown, Writes
<1> QED BY <1>8, <1>9

LEMMA PieceTurn ==
  ASSUME P!Turn, NEW f \in Frames, P!Top = f, NEW p, IsPiece(p), Ahead(f, p.spec),
         NEW a \in Seq(P!Arguments), f.args = p.args \o a, ~P!Unfinished(p)
  PROVE  Shown(f, p, a) \/ (\E x, e : FloatOf(p, x, e) /\ Begun(f, p, a, x))
<1>1. P!IsLiteral(p) \/ \E c \in DOMAIN p.spec : P!IsDirective(p, c) \/ P!IsLong(p, c) BY DEF IsPiece
<1>2. CASE P!IsLiteral(p) BY <1>2, LiteralTurn
<1>3. ASSUME NEW c, P!IsDirective(p, c)
      PROVE  Shown(f, p, a) \/ (\E x, e : FloatOf(p, x, e) /\ Begun(f, p, a, x))
  BY <1>3, DirectiveTurn
<1>4. ASSUME NEW c, P!IsLong(p, c) PROVE Shown(f, p, a) BY <1>4, LongTurn
<1> QED BY <1>1, <1>2, <1>3, <1>4

(* A conversion that the format does not finish. *)
LEMMA UnfinishedTurn ==
  ASSUME P!Turn, NEW f \in Frames, P!Top = f, NEW p, IsPiece(p), Ahead(f, p.spec), P!Unfinished(p),
         Len(f.fmt) = (f.pos - 1) + Len(p.spec)
  PROVE  P!RunPast
<1>1. p.spec \in Seq(Chars) BY DEF IsPiece
<1>2. Len(p.spec) > 0 /\ p.spec[1] = "%"
  <2>1. CASE p.spec = <<"%">> BY <2>1
  <2>2. CASE p.spec = <<"%", "l">> BY <2>2
  <2> QED BY <2>1, <2>2 DEF P!Unfinished
<1>3. /\ f.pos \in Nat /\ f.pos > 0 /\ Len(f.fmt) \in Nat /\ DOMAIN f.fmt = 1 .. Len(f.fmt)
      /\ P!At(f.pos) = "%" /\ \A k \in 1 .. Len(p.spec) : P!At((f.pos - 1) + k) = p.spec[k]
  BY <1>1, <1>2, AheadIs
<1>4. CASE p.spec = <<"%">>
  <2>1. Len(p.spec) = 1 BY <1>4
  <2>2. Len(f.fmt) = f.pos BY <1>3, <2>1
  <2>3. {k \in f.pos + 1 .. Len(f.fmt) : f.fmt[k] \in P!Codes} = {} BY <1>3, <2>2
  <2>4. P!CodeAt = 0 BY <2>3 DEF P!CodeAt
  <2> QED BY <1>3, <2>4, TurnsAre
<1>5. CASE p.spec = <<"%", "l">>
  <2>1. Len(p.spec) = 2 /\ p.spec[1] = "%" /\ p.spec[2] = "l" BY <1>5
  <2>2. P!CodeIn(p, 2) BY <2>1 DEF P!CodeIn, P!Codes
  <2>3. P!CodeAt = (f.pos - 1) + 2 /\ P!CodeAt # 0 /\ P!At(P!CodeAt) = "l" BY <1>1, <2>1, <2>2, CodeFound
  <2>4. P!CodeAt + 1 \notin DOMAIN P!Top.fmt BY <1>3, <2>1, <2>3
  <2>5. P!At(P!CodeAt + 1) = P!NUL BY <2>4 DEF P!At
  <2> QED BY <1>3, <2>3, <2>5, TurnsAre
<1> QED BY <1>4, <1>5 DEF P!Unfinished
-----------------------------------------------------------------------------
(* A call of printf, fprintf or sprintf, and what it has written.          *)
Texts(ps) == Joined(TextsOf(ps))
HasExponent(ps) == \E k \in DOMAIN ps : \E l \in DOMAIN ps[k].text : ps[k].text[l] = "E"
Requested(c) ==
    /\ c = [fn |-> c.fn, file |-> c.file, pieces |-> c.pieces]
    /\ c.fn \in {"printf", "fprintf", "sprintf"} /\ c.pieces \in Seq(Pieces)
    /\ c.fn # "sprintf" => c.file \in {"stdin", "stdout", "stderr"}
    /\ \A k \in 1 .. Len(c.pieces) - 1 : ~P!Unfinished(c.pieces[k])
Written(c, t, s, o) ==
    IF c.fn = "sprintf" THEN ~HasExponent(c.pieces) => s = t /\ o = <<>>
    ELSE s = <<>> /\ o = IF c.file = "stdin" THEN <<>> ELSE t

(* vfprintf stands behind the first m pieces.                              *)
Outer(c, m, fs, s, o) ==
    \E f \in Frames :
        /\ fs = <<f>> /\ Behind(f, c.pieces, m) /\ f.printed = Len(Texts(c.pieces)[m])
        /\ Written(c, Texts(c.pieces)[m], s, o)
(* The mth piece is a float, and the inner vfprintf has written w.         *)
Exponent == <<"E", "%", "d">>
InnerAt(g, x, e, w) ==
    /\ g.fmt = Exponent /\ g.printed = Len(w)
    /\ \/ g.pos = 1 /\ w = <<>> /\ g.args = <<[x EXCEPT !.val = x.exp]>>
       \/ g.pos = 2 /\ w = <<"E">> /\ g.args = <<[x EXCEPT !.val = x.exp]>>
       \/ g.pos = 4 /\ w = <<"E">> \o e /\ g.args = <<>>
Nested(c, m, fs, s, o) ==
    \E f \in Frames, g \in Frames, w \in Seq(STRING) : \E x, e :
        /\ fs = <<f, g>> /\ Behind(f, c.pieces, m) /\ FloatOf(c.pieces[m], x, e) /\ InnerAt(g, x, e, w)
        /\ f.printed = Len(Texts(c.pieces)[m - 1]) + Len(x.text)
        /\ Written(c, (Texts(c.pieces)[m - 1] \o x.text) \o w, s, o)
Writing(c, fs, s, o) ==
    \/ \E m \in 0 .. Len(c.pieces) : Outer(c, m, fs, s, o)
    \/ \E m \in 1 .. Len(c.pieces) : Nested(c, m, fs, s, o)
Complete(c, s, o, n) ==
    LET t == Texts(c.pieces)[Len(c.pieces)]
    IN  /\ n = Len(t)
        /\ IF c.fn = "sprintf" THEN ~HasExponent(c.pieces) => s = Append(t, P!NUL) /\ o = <<>>
           ELSE Written(c, t, s, o)
PastEnd(c) == c.fn = "past" /\ \E k \in DOMAIN c.pieces : P!Unfinished(c.pieces[k])

(* The invariant of formatted output.                                      *)
PrintInv ==
    /\ __m65x_char_to_file \in BOOLEAN /\ printed \in Nat
    /\ \/ printing = P!Idle /\ frames = <<>> /\ __m65x_char_to_file = TRUE
       \/ PastEnd(printing) /\ frames = <<>>
       \/ Requested(printing) /\ frames = <<>> /\ __m65x_char_to_file = TRUE
          /\ Complete(printing, str, out, printed)
       \/ Requested(printing) /\ __m65x_char_to_file = (printing.fn # "sprintf")
          /\ Writing(printing, frames, str, out)

LEMMA TextsAre ==
  ASSUME NEW c, Requested(c)
  PROVE  /\ Len(c.pieces) \in Nat /\ Texts(c.pieces)[0] = <<>>
         /\ \A m \in 0 .. Len(c.pieces) : Texts(c.pieces)[m] \in Seq(STRING)
         /\ \A m \in 1 .. Len(c.pieces) :
               /\ c.pieces[m] \in Pieces /\ c.pieces[m].text \in Seq(STRING)
               /\ Texts(c.pieces)[m] = Texts(c.pieces)[m - 1] \o c.pieces[m].text
               /\ Len(Texts(c.pieces)[m]) = Len(Texts(c.pieces)[m - 1]) + Len(c.pieces[m].text)
<1>1. PICK ps \in Seq(Pieces) : ps = c.pieces BY DEF Requested
<1>2. PICK s \in Seq(Seq(STRING)) : s = TextsOf(ps) /\ Len(s) = Len(ps) BY PartsAre
<1>3. Len(ps) \in Nat /\ \A k \in 1 .. Len(ps) : ps[k] \in Pieces /\ s[k] = ps[k].text BY <1>2, PartsAre
<1>4. /\ Joined(s)[0] = <<>> /\ \A k \in 0 .. Len(ps) : Joined(s)[k] \in Seq(STRING)
      /\ \A k \in 1 .. Len(ps) : Joined(s)[k] = Joined(s)[k - 1] \o s[k]
  BY <1>2, JoinedIs
<1>5. ASSUME NEW m \in 1 .. Len(ps)
      PROVE  /\ ps[m] \in Pieces /\ ps[m].text \in Seq(STRING)
             /\ Joined(s)[m] = Joined(s)[m - 1] \o ps[m].text
             /\ Len(Joined(s)[m]) = Len(Joined(s)[m - 1]) + Len(ps[m].text)
  <2>1. ps[m] \in Pieces /\ ps[m].text = s[m] BY <1>3
  <2>2. ps[m].text \in Seq(STRING) BY <2>1, PieceIs
  <2>3. m - 1 \in 0 .. Len(ps) BY <1>3
  <2>4. PICK a \in Seq(STRING), b \in Seq(STRING) : a = Joined(s)[m - 1] /\ b = ps[m].text BY <1>4, <2>2, <2>3
  <2>5. Joined(s)[m] = a \o b BY <1>4, <2>1, <2>4
  <2>6. Len(a \o b) = Len(a) + Len(b) BY Concats
  <2> QED BY <2>1, <2>2, <2>4, <2>5, <2>6
<1> QED BY <1>1, <1>2, <1>3, <1>4, <1>5 DEF Texts

LEMMA WritesOn ==
  ASSUME NEW c, Requested(c), printing = c, __m65x_char_to_file = (c.fn # "sprintf"),
         NEW t \in Seq(STRING), Written(c, t, str, out), NEW u, Writes(u)
  PROVE  Written(c, t \o u, str', out')
<1>1. CASE u = <<>> /\ UNCHANGED <<out, str>>
  <2>1. t \o u = t BY <1>1
  <2> QED BY <1>1, <2>1
<1>2. CASE P!Emit(u) BY <1>2 DEF P!Emit, Written, Requested
<1> QED BY <1>1, <1>2 DEF Writes

LEMMA TopIs ==
  /\ \A f : frames = <<f>> => P!Top = f /\ Len(frames) = 1
  /\ \A f, g : frames = <<f, g>> => P!Top = g /\ Len(frames) = 2
BY DEF P!Top, P!Last

LEMMA Continues ==
  ASSUME NEW h
  PROVE  /\ \A f : frames = <<f>> => /\ P!Continue(h) => frames' = <<h>>
                                     /\ [frames EXCEPT ![Len(frames)] = h] = <<h>>
         /\ \A f, g : frames = <<f, g>> /\ P!Continue(h) => frames' = <<f, h>>
BY DEF P!Continue
LEMMA Appends == ASSUME NEW h, NEW g PROVE Append(<<h>>, g) = <<h, g>>
<1> DEFINE S == {h, g}
<1>1. h \in S /\ g \in S /\ <<h>> \in Seq(S) /\ <<g>> \in Seq(S) OBVIOUS
<1>2. PICK s \in Seq(S), e \in Seq(S) : s = <<h>> /\ e = <<g>> BY <1>1
<1> HIDE DEF S
<1>3. Len(s) = 1 /\ s[1] = h /\ Len(e) = 1 /\ e[1] = g BY <1>2
<1>4. Append(s, g) = s \o e
  <2>1. Append(s, g) = s \o <<g>> BY <1>1
  <2> QED BY <1>2, <2>1
<1>5. PICK t \in Seq(S) : t = s \o e BY Concats
<1>6. Len(t) = 2 /\ t[1] = h /\ t[2] = g
  <2>1. Len(t) = Len(s) + Len(e) BY <1>5, Concats
  <2>2. t[1] = h
    <3>1. \A k \in 1 .. Len(s) : (s \o e)[k] = s[k] BY Concats
    <3> QED BY <1>3, <1>5, <3>1
  <2>3. t[2] = g
    <3>1. \A k \in 1 .. Len(e) : (s \o e)[Len(s) + k] = e[k] BY Concats
    <3>2. 1 \in 1 .. Len(e) /\ Len(s) + 1 = 2 BY <1>3
    <3> QED BY <1>3, <1>5, <3>1, <3>2
  <2> QED BY <1>3, <2>1, <2>2, <2>3
<1>7. t = <<t[1], t[2]>> BY <1>6
<1> QED BY <1>2, <1>4, <1>5, <1>6, <1>7

MovesTo(h, f, n, a, k) ==
    h \in Frames /\ h.fmt = f.fmt /\ h.pos = f.pos + n /\ h.args = a /\ h.printed = f.printed + k
LEMMA MovedIs ==
  ASSUME NEW f \in Frames, NEW n \in Nat, NEW a \in Seq(P!Arguments), NEW k \in Nat
  PROVE  MovesTo(Moved(f, n, a, k), f, n, a, k)
<1>1. f.fmt \in Seq(Chars) /\ f.pos \in Nat /\ f.printed \in Nat BY DEF Frames
<1>2. f.pos + n \in Nat /\ f.printed + k \in Nat BY <1>1
<1> QED BY <1>1, <1>2 DEF Moved, Frames, MovesTo

LEMMA CallBegins ==
  ASSUME NEW fn \in {"printf", "fprintf", "sprintf"}, NEW file,
         fn # "sprintf" => file \in {"stdin", "stdout", "stderr"}, P!Call(fn, file)
  PROVE  /\ Requested(printing') /\ printing'.fn = fn /\ printed' = 0
         /\ Writing(printing', frames', str', out')
<1>0. PICK n \in 0 .. MaxPieces : \E ps \in [1 .. n -> Pieces] :
         /\ \A k \in 1 .. n - 1 : ~P!Unfinished(ps[k])
         /\ printing' = [fn |-> fn, file |-> file, pieces |-> ps]
         /\ frames' = <<P!Frame(P!FlattenSeq([k \in 1 .. n |-> ps[k].spec]),
                                P!FlattenSeq([k \in 1 .. n |-> ps[k].args]))>>
  BY DEF P!Call
<1>1. PICK ps \in [1 .. n -> Pieces] :
         /\ \A k \in 1 .. n - 1 : ~P!Unfinished(ps[k])
         /\ printing' = [fn |-> fn, file |-> file, pieces |-> ps]
         /\ frames' = <<P!Frame(P!FlattenSeq([k \in 1 .. n |-> ps[k].spec]),
                                P!FlattenSeq([k \in 1 .. n |-> ps[k].args]))>>
  BY <1>0
<1>2. out' = <<>> /\ str' = <<>> /\ printed' = 0 BY DEF P!Call
<1>3. n \in Nat BY PrintfWidths DEF P!WidthsAssumption
<1>4. ps \in Seq(Pieces) /\ Len(ps) = n BY <1>3
<1>5. PICK c : c = [fn |-> fn, file |-> file, pieces |-> ps] OBVIOUS
<1>6. c.fn = fn /\ c.file = file /\ c.pieces = ps BY <1>5
<1>7. c = [fn |-> c.fn, file |-> c.file, pieces |-> c.pieces] BY <1>5, <1>6
<1>8. Requested(c) BY <1>1, <1>4, <1>6, <1>7 DEF Requested
<1>9. /\ SpecsOf(ps) \in Seq(Seq(Chars)) /\ ArgsOf(ps) \in Seq(Seq(P!Arguments))
      /\ Len(SpecsOf(ps)) = n /\ Len(ArgsOf(ps)) = n
  BY <1>4, PartsAre
<1>10. PICK s \in Seq(Seq(Chars)), b \in Seq(Seq(P!Arguments)) :
          s = SpecsOf(ps) /\ b = ArgsOf(ps) /\ Len(s) = n /\ Len(b) = n
  BY <1>9
<1>11. P!FlattenSeq(s) = Joined(s)[n] /\ Joined(s)[n] \in Seq(Chars) /\ Joined(s)[0] = <<>>
  <2>1. P!FlattenSeq(s) = Joined(s)[n] BY <1>10, FlattenIsJoined
  <2>2. n \in 0 .. Len(s) BY <1>3, <1>10
  <2>3. \A k \in 0 .. Len(s) : Joined(s)[k] \in Seq(Chars) BY JoinedIs
  <2>4. Joined(s)[0] = <<>> BY JoinedIs
  <2> QED BY <2>1, <2>2, <2>3, <2>4
<1>12. P!FlattenSeq(b) = Joined(b)[n] /\ Joined(b)[n] \in Seq(P!Arguments) /\ Joined(b)[0] = <<>>
  <2>1. P!FlattenSeq(b) = Joined(b)[n] BY <1>10, FlattenIsJoined
  <2>2. n \in 0 .. Len(b) BY <1>3, <1>10
  <2>3. \A k \in 0 .. Len(b) : Joined(b)[k] \in Seq(P!Arguments) BY JoinedIs
  <2>4. Joined(b)[0] = <<>> BY JoinedIs
  <2> QED BY <2>1, <2>2, <2>3, <2>4
<1>13. [k \in 1 .. n |-> ps[k].spec] = s /\ [k \in 1 .. n |-> ps[k].args] = b
  BY <1>4, <1>10 DEF SpecsOf, ArgsOf
<1>14. PICK f : f = [fmt |-> Joined(s)[n], pos |-> 1, args |-> Joined(b)[n], printed |-> 0] OBVIOUS
<1>15. f \in Frames BY <1>11, <1>12, <1>14 DEF Frames
<1>16. frames' = <<f>> BY <1>1, <1>11, <1>12, <1>13, <1>14 DEF P!Frame
<1>17. Behind(f, ps, 0)
  <2>1. f.fmt = Joined(s)[n] /\ f.pos = 1 /\ f.args = Joined(b)[n] BY <1>14
  <2>2. Len(Joined(s)[0]) + 1 = 1 BY <1>11
  <2>3. Joined(b)[n] = Joined(b)[0] \o Joined(b)[n] BY <1>12, Concats
  <2> QED BY <1>4, <1>10, <2>1, <2>2, <2>3 DEF Behind
<1>18. f.printed = 0 /\ Len(Texts(ps)[0]) = 0 /\ Texts(ps)[0] = <<>>
  <2>1. Texts(ps)[0] = <<>> BY <1>6, <1>8, TextsAre
  <2>2. f.printed = 0 BY <1>14
  <2> QED BY <2>1, <2>2
<1>19. Written(c, <<>>, str', out') BY <1>2 DEF Written
<1>20. Outer(c, 0, frames', str', out') BY <1>6, <1>15, <1>16, <1>17, <1>18, <1>19 DEF Outer
<1>21. 0 \in 0 .. Len(c.pieces) BY <1>3, <1>4, <1>6
<1>22. Writing(c, frames', str', out') BY <1>20, <1>21 DEF Writing
<1> QED BY <1>1, <1>2, <1>5, <1>6, <1>8, <1>22

(* A turn behind the last piece of a format ends the call.                 *)
LEMMA EndTurn ==
  ASSUME P!Turn, NEW c, Requested(c), printing = c, __m65x_char_to_file = (c.fn # "sprintf"),
         Outer(c, Len(c.pieces), frames, str, out)
  PROVE  /\ printing' = c /\ frames' = <<>> /\ __m65x_char_to_file' = TRUE
         /\ Complete(c, str', out', printed')
<1> DEFINE n == Len(c.pieces)
           t == Texts(c.pieces)[n]
<1>1. PICK f \in Frames : /\ frames = <<f>> /\ Behind(f, c.pieces, n) /\ f.printed = Len(t)
                          /\ Written(c, t, str, out)
  BY DEF Outer
<1>2. P!Top = f /\ Len(frames) = 1 BY <1>1, TopIs
<1>3. f.pos = Len(f.fmt) + 1 BY <1>1 DEF Behind
<1>4. P!At(f.pos) = P!NUL
  <2>1. Len(f.fmt) \in Nat /\ DOMAIN f.fmt = 1 .. Len(f.fmt) BY DEF Frames
  <2>2. f.pos \notin DOMAIN f.fmt BY <1>3, <2>1
  <2> QED BY <1>2, <2>2 DEF P!At
<1>5. P!Return BY <1>2, <1>4, TurnsAre DEF P!ReturnInner
<1>6. /\ P!Emit(P!Terminator) /\ frames' = <<>> /\ printed' = Len(t) /\ printing' = c
      /\ __m65x_char_to_file' = P!Reset
  BY <1>1, <1>2, <1>5 DEF P!Return
<1>7. n \in 0 .. Len(c.pieces) /\ t \in Seq(STRING)
  <2>1. n \in 0 .. Len(c.pieces) BY TextsAre
  <2> QED BY <2>1, TextsAre
<1>8. CASE c.fn = "sprintf"
  <2>1. __m65x_char_to_file = FALSE /\ __m65x_char_to_file' = TRUE BY <1>6, <1>8 DEF P!Reset
  <2>2. str' = str \o <<P!NUL>> /\ out' = out BY <1>6, <2>1 DEF P!Emit, P!Terminator
  <2>3. Append(t, P!NUL) = t \o <<P!NUL>>
    <3>1. t \in Seq(STRING \cup {P!NUL}) /\ P!NUL \in STRING \cup {P!NUL} BY <1>7
    <3> QED BY <3>1
  <2>4. ~HasExponent(c.pieces) => str' = Append(t, P!NUL) /\ out' = <<>> BY <1>1, <1>8, <2>2, <2>3 DEF Written
  <2> QED BY <1>6, <1>8, <2>1, <2>4 DEF Complete
<1>9. CASE c.fn # "sprintf"
  <2>1. __m65x_char_to_file = TRUE /\ __m65x_char_to_file' = TRUE BY <1>6, <1>9 DEF P!Reset
  <2>2. P!Emit(<<>>) BY <1>6, <2>1 DEF P!Terminator
  <2>3. Written(c, t \o <<>>, str', out') BY <1>1, <1>7, <2>2, WritesOn DEF Writes
  <2>4. t \o <<>> = t BY <1>7
  <2> QED BY <1>6, <1>9, <2>1, <2>3, <2>4 DEF Complete
<1> QED BY <1>8, <1>9

Runs(c) ==
    \/ /\ printing' = c /\ __m65x_char_to_file' = __m65x_char_to_file /\ printed' = printed
       /\ Writing(c, frames', str', out')
    \/ PastEnd(printing') /\ frames' = <<>> /\ __m65x_char_to_file' = __m65x_char_to_file
       /\ printed' = printed
    \/ /\ printing' = c /\ frames' = <<>> /\ __m65x_char_to_file' = TRUE
       /\ Complete(c, str', out', printed')

(* A turn at a piece of a format.                                          *)
LEMMA OuterTurn ==
  ASSUME P!Turn, NEW c, Requested(c), printing = c, __m65x_char_to_file = (c.fn # "sprintf"),
         NEW m \in 0 .. Len(c.pieces), m < Len(c.pieces), Outer(c, m, frames, str, out)
  PROVE  Runs(c)
<1> DEFINE T == Texts(c.pieces)
<1>1. PICK f \in Frames : /\ frames = <<f>> /\ Behind(f, c.pieces, m) /\ f.printed = Len(T[m])
                          /\ Written(c, T[m], str, out)
  BY DEF Outer
<1>2. P!Top = f /\ Len(frames) = 1 BY <1>1, TopIs
<1>3. PICK ps \in Seq(Pieces) : ps = c.pieces BY DEF Requested
<1>p. PICK p : p = ps[m + 1] OBVIOUS
<1>4. m \in 0 .. Len(ps) /\ m < Len(ps) /\ p = ps[m + 1] /\ Behind(f, ps, m) BY <1>1, <1>3, <1>p
<1>5. /\ p \in Pieces /\ Ahead(f, p.spec)
      /\ m + 1 = Len(ps) => Len(f.fmt) = (f.pos - 1) + Len(p.spec)
      /\ \E a \in Seq(P!Arguments) : Passed(f, p, a, ps, m + 1)
  BY <1>4, NextPiece
<1>6. IsPiece(p) /\ Len(p.spec) \in Nat BY <1>5, PieceIs DEF IsPiece
<1>7. PICK a \in Seq(P!Arguments) :
         /\ f.args = p.args \o a
         /\ \A n \in Nat : Behind([fmt |-> f.fmt, pos |-> f.pos + Len(p.spec), args |-> a, printed |-> n],
                                  ps, m + 1)
  BY <1>5 DEF Passed
<1>8. /\ Len(ps) \in Nat /\ m + 1 \in 1 .. Len(ps) /\ m + 1 \in 0 .. Len(ps) /\ (m + 1) - 1 = m
  <2>1. Len(ps) \in Nat BY PartsAre
  <2> QED BY <1>4, <2>1
<1>9. /\ T[m] \in Seq(STRING) /\ p.text \in Seq(STRING) /\ T[m + 1] = T[m] \o p.text
      /\ Len(T[m + 1]) = Len(T[m]) + Len(p.text) /\ Len(T[m]) \in Nat /\ Len(p.text) \in Nat
  <2>1. T[m] \in Seq(STRING) BY TextsAre
  <2>2. /\ p.text \in Seq(STRING) /\ T[m + 1] = T[m] \o p.text /\ Len(T[m + 1]) = Len(T[m]) + Len(p.text)
    BY <1>3, <1>p, <1>8, TextsAre
  <2> QED BY <2>1, <2>2
<1> HIDE DEF T
<1>10. ASSUME NEW k \in Nat
       PROVE  /\ Moved(f, Len(p.spec), a, k) \in Frames
              /\ Behind(Moved(f, Len(p.spec), a, k), c.pieces, m + 1)
              /\ Moved(f, Len(p.spec), a, k).printed = f.printed + k
  <2>1. f.printed \in Nat BY DEF Frames
  <2>2. f.printed + k \in Nat BY <2>1
  <2>3. Moved(f, Len(p.spec), a, k) =
        [fmt |-> f.fmt, pos |-> f.pos + Len(p.spec), args |-> a, printed |-> f.printed + k]
    BY DEF Moved
  <2>4. Behind(Moved(f, Len(p.spec), a, k), c.pieces, m + 1) BY <1>3, <1>7, <2>2, <2>3
  <2>5. Moved(f, Len(p.spec), a, k) \in Frames BY <1>6, MovedIs DEF MovesTo
  <2> QED BY <2>3, <2>4, <2>5
<1>11. CASE P!Unfinished(p)
  <2>1. m + 1 = Len(ps)
    <3> SUFFICES ASSUME m + 1 # Len(ps) PROVE FALSE OBVIOUS
    <3>1. m + 1 \in 1 .. Len(ps) - 1 BY <1>8
    <3> QED BY <1>3, <1>4, <1>11, <3>1 DEF Requested
  <2>2. P!RunPast BY <1>2, <1>5, <1>6, <1>11, <2>1, UnfinishedTurn
  <2>3. printing' = [c EXCEPT !.fn = "past"] /\ frames' = <<>> /\ UNCHANGED <<__m65x_char_to_file, printed>>
    BY <2>2 DEF P!RunPast
  <2>4. [c EXCEPT !.fn = "past"].fn = "past" /\ [c EXCEPT !.fn = "past"].pieces = c.pieces BY DEF Requested
  <2>5. m + 1 \in DOMAIN c.pieces /\ c.pieces[m + 1] = p BY <1>3, <1>4, <1>8
  <2>6. PastEnd(printing') BY <1>11, <2>3, <2>4, <2>5 DEF PastEnd
  <2> QED BY <2>3, <2>6 DEF Runs
<1>12. CASE ~P!Unfinished(p)
  <2>1. Shown(f, p, a) \/ (\E x, e : FloatOf(p, x, e) /\ Begun(f, p, a, x))
    BY <1>2, <1>5, <1>6, <1>7, <1>12, PieceTurn
  <2>2. CASE Shown(f, p, a)
    <3>1. Writes(p.text) /\ P!Continue(Moved(f, Len(p.spec), a, Len(p.text))) /\ Unchanged BY <2>2 DEF Shown
    <3>2. Written(c, T[m] \o p.text, str', out') BY <1>1, <1>9, <3>1, WritesOn
    <3>3. PICK h \in Frames : h = Moved(f, Len(p.spec), a, Len(p.text)) BY <1>9, <1>10
    <3>4. frames' = <<h>> BY <1>1, <3>1, <3>3, Continues
    <3>5. Behind(h, c.pieces, m + 1) /\ h.printed = Len(T[m + 1]) BY <1>1, <1>9, <1>10, <3>3
    <3>6. Outer(c, m + 1, frames', str', out') BY <1>9, <3>2, <3>4, <3>5 DEF Outer, T
    <3>7. Writing(c, frames', str', out') BY <1>3, <1>8, <3>6 DEF Writing
    <3> QED BY <3>1, <3>7 DEF Runs, Unchanged
  <2>3. CASE \E x, e : FloatOf(p, x, e) /\ Begun(f, p, a, x)
    <3>1. PICK x, e : FloatOf(p, x, e) /\ Begun(f, p, a, x) BY <2>3
    <3>2. /\ P!Emit(x.text) /\ Unchanged
          /\ frames' = Append([frames EXCEPT ![Len(frames)] = Moved(f, Len(p.spec), a, Len(x.text))],
                              P!Frame(Exponent, <<[x EXCEPT !.val = x.exp]>>))
      BY <3>1 DEF Begun, Exponent
    <3>3. x.text \in Seq(STRING) /\ Len(x.text) \in Nat BY <3>1 DEF FloatOf, P!Arguments
    <3>4. Written(c, T[m] \o x.text, str', out') BY <1>1, <1>9, <3>2, WritesOn DEF Writes
    <3>5. PICK h \in Frames : h = Moved(f, Len(p.spec), a, Len(x.text)) BY <1>10, <3>3
    <3>6. Behind(h, c.pieces, m + 1) /\ h.printed = Len(T[m]) + Len(x.text) BY <1>1, <1>10, <3>3, <3>5
    <3>7. [frames EXCEPT ![Len(frames)] = h] = <<h>> BY <1>1, Continues
    <3>8. PICK g : g = P!Frame(Exponent, <<[x EXCEPT !.val = x.exp]>>) OBVIOUS
    <3>9. frames' = <<h, g>>
      <4>1. frames' = Append(<<h>>, g) BY <3>2, <3>5, <3>7, <3>8
      <4>2. Append(<<h>>, g) = <<h, g>> BY Appends
      <4> QED BY <4>1, <4>2
    <3>10. g.fmt = Exponent /\ g.pos = 1 /\ g.args = <<[x EXCEPT !.val = x.exp]>> /\ g.printed = 0
      BY <3>8 DEF P!Frame
    <3>11. g \in Frames
      <4>1. Exponent \in Seq(Chars) BY DEF Exponent, Chars, P!NUL
      <4>2. [x EXCEPT !.val = x.exp] \in P!Arguments BY <3>1 DEF FloatOf, P!Arguments
      <4>3. PICK y \in P!Arguments : y = [x EXCEPT !.val = x.exp] BY <4>2
      <4>4. <<y>> \in Seq(P!Arguments) OBVIOUS
      <4> QED BY <3>8, <4>1, <4>3, <4>4 DEF P!Frame, Frames
    <3>12. InnerAt(g, x, e, <<>>) BY <3>10 DEF InnerAt
    <3>13. (T[m] \o x.text) \o <<>> = T[m] \o x.text /\ <<>> \in Seq(STRING) BY <1>9, <3>3, Concats
    <3>14. Nested(c, m + 1, frames', str', out')
      <4>1. FloatOf(c.pieces[m + 1], x, e) BY <1>3, <1>4, <3>1
      <4>2. /\ frames' = <<h, g>> /\ Behind(h, c.pieces, m + 1) /\ FloatOf(c.pieces[m + 1], x, e)
            /\ InnerAt(g, x, e, <<>>)
            /\ h.printed = Len(Texts(c.pieces)[(m + 1) - 1]) + Len(x.text)
            /\ Written(c, (Texts(c.pieces)[(m + 1) - 1] \o x.text) \o <<>>, str', out')
        BY <1>8, <3>4, <3>6, <3>9, <3>12, <3>13, <4>1 DEF T
      <4> QED BY <3>11, <3>13, <4>2 DEF Nested
    <3>15. Writing(c, frames', str', out') BY <1>3, <1>8, <3>14 DEF Writing
    <3> QED BY <3>2, <3>15 DEF Runs, Unchanged
  <2> QED BY <2>1, <2>2, <2>3
<1> QED BY <1>11, <1>12
LEMMA StringsAssociate ==
  \A s, t, u \in Seq(STRING) : (s \o t) \o u = s \o (t \o u)
BY Associates

Regrouped(t, u, v, w) ==
    /\ t \o ((u \o v) \o w) = (t \o u) \o (v \o w)
    /\ Len((t \o u) \o (v \o w)) = (Len(t) + Len(u)) + (Len(v) + Len(w))
LEMMA Regroups ==
  ASSUME NEW t \in Seq(STRING), NEW u \in Seq(STRING), NEW v \in Seq(STRING), NEW w \in Seq(STRING)
  PROVE  Regrouped(t, u, v, w)
<1>1. PICK a \in Seq(STRING) : a = t \o u BY Concats
<1>2. PICK b \in Seq(STRING) : b = v \o w BY Concats
<1>3. (u \o v) \o w = u \o b BY <1>2, StringsAssociate, SMTT(30)
<1>4. (t \o u) \o b = t \o (u \o b) BY StringsAssociate, SMTT(30)
<1>5. Len(a \o b) = Len(a) + Len(b) BY Concats
<1>6. Len(a) = Len(t) + Len(u) BY <1>1, Concats
<1>7. Len(b) = Len(v) + Len(w) BY <1>2, Concats
<1> QED BY <1>1, <1>2, <1>3, <1>4, <1>5, <1>6, <1>7 DEF Regrouped

(* A turn within the exponent of a float.                                  *)
LEMMA NestedTurn ==
  ASSUME P!Turn, NEW c, Requested(c), printing = c, __m65x_char_to_file = (c.fn # "sprintf"),
         NEW m \in 1 .. Len(c.pieces), Nested(c, m, frames, str, out)
  PROVE  Runs(c)
<1> DEFINE T == Texts(c.pieces)
<1>1. PICK f \in Frames, g \in Frames, w \in Seq(STRING) : \E x, e :
        /\ frames = <<f, g>> /\ Behind(f, c.pieces, m) /\ FloatOf(c.pieces[m], x, e) /\ InnerAt(g, x, e, w)
        /\ f.printed = Len(T[m - 1]) + Len(x.text)
        /\ Written(c, (T[m - 1] \o x.text) \o w, str, out)
  BY DEF Nested
<1>2. PICK x \in P!Arguments, e \in Seq(STRING) :
        /\ frames = <<f, g>> /\ Behind(f, c.pieces, m) /\ FloatOf(c.pieces[m], x, e) /\ InnerAt(g, x, e, w)
        /\ f.printed = Len(T[m - 1]) + Len(x.text)
        /\ Written(c, (T[m - 1] \o x.text) \o w, str, out)
  BY <1>1 DEF FloatOf
<1>3. P!Top = g /\ Len(frames) = 2 BY <1>2, TopIs
<1>4. /\ x \in P!Arguments /\ x.exp # 0 /\ P!Fits(x.exp, IntBits) /\ e \in Seq(STRING) /\ P!IsSigned(e, x.exp)
      /\ c.pieces[m].text = (x.text \o <<"E">>) \o e /\ "E" \in STRING
      /\ \E k \in DOMAIN c.pieces[m].text : c.pieces[m].text[k] = "E"
  BY <1>2 DEF FloatOf
<1>5. /\ Len(c.pieces) \in Nat /\ m - 1 \in 0 .. Len(c.pieces) /\ m \in 0 .. Len(c.pieces)
      /\ T[m - 1] \in Seq(STRING) /\ T[m] = T[m - 1] \o c.pieces[m].text
  <2>1. Len(c.pieces) \in Nat BY TextsAre
  <2>2. m - 1 \in 0 .. Len(c.pieces) /\ m \in 0 .. Len(c.pieces) BY <2>1
  <2> QED BY <2>1, <2>2, TextsAre
<1>6. PICK t \in Seq(STRING) : t = T[m - 1] \o x.text
  <2>1. x.text \in Seq(STRING) BY <1>4 DEF P!Arguments
  <2> QED BY <1>5, <2>1, Concats
<1>7. PICK y \in P!Arguments : y = [x EXCEPT !.val = x.exp] /\ y.val = x.exp
  <2>1. [x EXCEPT !.val = x.exp] \in P!Arguments /\ [x EXCEPT !.val = x.exp].val = x.exp BY DEF P!Arguments
  <2> QED BY <2>1
<1>8. PICK E \in Seq(STRING) : E = <<"E">> /\ Len(E) = 1
  <2>1. <<"E">> \in Seq(STRING) BY <1>4
  <2>2. Len(<<"E">>) = 1 OBVIOUS
  <2> QED BY <2>1, <2>2
<1>9. g.fmt = Exponent /\ g.printed = Len(w) /\ Len(w) \in Nat BY <1>2 DEF InnerAt
<1>10. Written(c, t \o w, str, out) BY <1>2, <1>6
<1>11. ASSUME NEW h \in Frames, frames' = <<f, h>>, NEW u \in Seq(STRING), InnerAt(h, x, e, u),
              Written(c, t \o u, str', out'), Unchanged
       PROVE  Runs(c)
  <2>1. Nested(c, m, frames', str', out')
    <3>1. Written(c, (Texts(c.pieces)[m - 1] \o x.text) \o u, str', out') BY <1>6, <1>11
    <3> QED BY <1>2, <1>11, <3>1 DEF Nested
  <2>2. Writing(c, frames', str', out') BY <2>1 DEF Writing
  <2> QED BY <1>11, <2>2 DEF Runs, Unchanged
<1> HIDE DEF T
<1>12. CASE g.pos = 1 /\ w = <<>> /\ g.args = <<[x EXCEPT !.val = x.exp]>>
  <2> DEFINE q == [spec |-> <<"E">>, args |-> <<>>, text |-> <<"E">>]
  <2>1. g.args \in Seq(P!Arguments) BY DEF Frames
  <2>2. q.spec = <<"E">> /\ q.args = <<>> /\ q.text = <<"E">> OBVIOUS
  <2> HIDE DEF q
  <2>3. Len(q.spec) = 1 /\ q.spec[1] = "E" /\ q.spec \in Seq(Chars) /\ q.text \in Seq(STRING)
        /\ q.args \in Seq(P!Arguments) /\ Len(q.text) = 1
    <3>1. <<"E">> \in Seq(Chars) BY DEF Chars, P!NUL
    <3> QED BY <1>8, <2>2, <3>1
  <2>4. P!IsLiteral(q) BY <2>2, <2>3 DEF P!IsLiteral
  <2>5. IsPiece(q) BY <2>3, <2>4 DEF IsPiece
  <2>6. Ahead(g, q.spec) BY <1>9, <1>12, <2>3 DEF Ahead, Exponent
  <2>7. g.args = q.args \o g.args BY <2>1, <2>2, Concats
  <2>8. Shown(g, q, g.args) BY <1>3, <2>1, <2>4, <2>5, <2>6, <2>7, LiteralTurn
  <2>9. Writes(E) /\ P!Continue(Moved(g, 1, g.args, 1)) /\ Unchanged BY <1>8, <2>2, <2>3, <2>8 DEF Shown
  <2>10. t \o w = t BY <1>12
  <2>11. Written(c, t \o E, str', out') BY <1>10, <2>9, <2>10, WritesOn
  <2>12. PICK h \in Frames : h = Moved(g, 1, g.args, 1) /\ h.fmt = g.fmt /\ h.pos = g.pos + 1
                             /\ h.args = g.args /\ h.printed = g.printed + 1
    <3>1. MovesTo(Moved(g, 1, g.args, 1), g, 1, g.args, 1) BY <2>1, MovedIs
    <3> QED BY <3>1 DEF MovesTo
  <2>13. frames' = <<f, h>> BY <1>2, <2>9, <2>12, Continues
  <2>14. h.pos = 2 /\ h.printed = Len(E) BY <1>8, <1>9, <1>12, <2>12
  <2>15. InnerAt(h, x, e, E) BY <1>8, <1>9, <1>12, <2>12, <2>14 DEF InnerAt
  <2> QED BY <1>11, <2>9, <2>11, <2>13, <2>15
<1>13. CASE g.pos = 2 /\ w = <<"E">> /\ g.args = <<[x EXCEPT !.val = x.exp]>>
  <2> DEFINE q == [spec |-> <<"%", "d">>, args |-> <<y>>, text |-> e]
  <2>1. q.spec = <<"%", "d">> /\ q.args = <<y>> /\ q.text = e OBVIOUS
  <2> HIDE DEF q
  <2>2. /\ Len(q.spec) = 2 /\ q.spec[1] = "%" /\ q.spec[2] = "d" /\ q.spec \in Seq(Chars) /\ q.text \in Seq(STRING)
        /\ q.args \in Seq(P!Arguments) /\ Len(q.args) = 1 /\ q.args[1] = y
    <3>1. <<"%", "d">> \in Seq(Chars) BY DEF Chars, P!NUL
    <3>2. <<y>> \in Seq(P!Arguments) OBVIOUS
    <3> QED BY <1>4, <2>1, <3>1, <3>2
  <2>3. P!Shows("d", IntBits, y, e) BY <1>4, <1>7 DEF P!Shows
  <2>4. P!CodeIn(q, 2) BY <2>2 DEF P!CodeIn, P!Codes
  <2>5. P!IsDirective(q, 2) BY <2>1, <2>2, <2>3, <2>4 DEF P!IsDirective
  <2>6. IsPiece(q)
    <3>1. 2 \in DOMAIN q.spec BY <2>2
    <3> QED BY <2>2, <2>5, <3>1 DEF IsPiece
  <2>7. Ahead(g, q.spec) BY <1>9, <1>13, <2>2 DEF Ahead, Exponent
  <2>8. g.args = q.args \o <<>> /\ <<>> \in Seq(P!Arguments)
    <3>1. q.args \o <<>> = q.args BY <2>2
    <3> QED BY <1>7, <1>13, <2>1, <3>1
  <2>9. Shown(g, q, <<>>)
    <3>1. q.spec[2] # "f" BY <2>2
    <3> QED BY <1>3, <2>5, <2>6, <2>7, <2>8, <3>1, DirectiveTurn
  <2>10. Writes(e) /\ P!Continue(Moved(g, 2, <<>>, Len(e))) /\ Unchanged BY <2>1, <2>2, <2>9 DEF Shown
  <2>11. w = E /\ t \o E \in Seq(STRING) /\ Len(e) \in Nat BY <1>4, <1>8, <1>13, Concats
  <2>12. Written(c, (t \o E) \o e, str', out') BY <1>10, <2>10, <2>11, WritesOn
  <2>13. PICK v \in Seq(STRING) : v = E \o e /\ Len(v) = Len(E) + Len(e)
    <3>1. E \o e \in Seq(STRING) /\ Len(E \o e) = Len(E) + Len(e) BY Concats
    <3> QED BY <3>1
  <2>14. (t \o E) \o e = t \o v
    <3>1. (t \o E) \o e = t \o (E \o e) BY StringsAssociate, SMTT(30)
    <3> QED BY <2>13, <3>1
  <2>15. PICK h \in Frames : h = Moved(g, 2, <<>>, Len(e)) /\ h.fmt = g.fmt /\ h.pos = g.pos + 2
                             /\ h.args = <<>> /\ h.printed = g.printed + Len(e)
    <3>1. MovesTo(Moved(g, 2, <<>>, Len(e)), g, 2, <<>>, Len(e)) BY <2>8, <2>11, MovedIs
    <3> QED BY <3>1 DEF MovesTo
  <2>16. frames' = <<f, h>> BY <1>2, <2>10, <2>15, Continues
  <2>17. h.pos = 4 /\ h.printed = Len(v)
    <3>1. g.printed = 1 BY <1>8, <1>9, <2>11
    <3>2. Len(v) = 1 + Len(e) BY <1>8, <2>13
    <3> QED BY <1>13, <2>15, <3>1, <3>2
  <2>18. InnerAt(h, x, e, v) BY <1>8, <1>9, <2>13, <2>15, <2>17 DEF InnerAt
  <2> QED BY <1>11, <2>10, <2>12, <2>13, <2>14, <2>16, <2>18
<1>14. CASE g.pos = 4 /\ w = <<"E">> \o e /\ g.args = <<>>
  <2>1. P!At(g.pos) = P!NUL
    <3>1. g.pos \notin DOMAIN g.fmt BY <1>9, <1>14 DEF Exponent
    <3> QED BY <1>3, <3>1 DEF P!At
  <2>2. P!ReturnInner BY <1>3, <2>1, TurnsAre DEF P!Return
  <2>3. /\ P!Emit(P!Terminator) /\ Unchanged
        /\ frames' = [k \in 1 .. Len(frames) - 1 |->
                        IF k < Len(frames) - 1 THEN frames[k]
                        ELSE [frames[k] EXCEPT !.printed = @ + g.printed]]
    BY <1>3, <2>2 DEF P!ReturnInner, Unchanged
  <2>4. PICK h : h = [f EXCEPT !.printed = f.printed + g.printed] OBVIOUS
  <2>5. frames' = <<h>>
    <3>1. Len(frames) - 1 = 1 /\ frames[1] = f BY <1>2, <1>3
    <3>2. frames' = [k \in 1 .. 1 |-> h]
      <4>1. \A k \in 1 .. 1 : (IF k < 1 THEN frames[k] ELSE [frames[k] EXCEPT !.printed = @ + g.printed]) = h
        BY <2>4, <3>1
      <4> QED BY <2>3, <3>1, <4>1
    <3>3. [k \in 1 .. 1 |-> h] = <<h>> OBVIOUS
    <3> QED BY <3>2, <3>3
  <2>6. h \in Frames /\ h.fmt = f.fmt /\ h.pos = f.pos /\ h.args = f.args /\ h.printed = f.printed + g.printed
    <3>1. f.printed \in Nat /\ g.printed \in Nat BY DEF Frames
    <3>2. f.printed + g.printed \in Nat BY <3>1
    <3>3. DOMAIN f = {"fmt", "pos", "args", "printed"} BY DEF Frames
    <3>4. h \in Frames BY <2>4, <3>2 DEF Frames
    <3> QED BY <2>4, <3>3, <3>4
  <2>7. PICK X \in Seq(STRING), A \in Seq(STRING) : X = x.text /\ A = T[m - 1] BY <1>4, <1>5 DEF P!Arguments
  <2>8. /\ A \o ((X \o E) \o e) = (A \o X) \o (E \o e)
        /\ Len((A \o X) \o (E \o e)) = (Len(A) + Len(X)) + (Len(E) + Len(e))
    <3>1. Regrouped(A, X, E, e) BY Regroups
    <3> QED BY <3>1 DEF Regrouped
  <2>9. t = A \o X /\ w = E \o e /\ T[m] = A \o ((X \o E) \o e) BY <1>4, <1>5, <1>6, <1>8, <1>14, <2>7
  <2>10. T[m] = t \o w BY <2>8, <2>9
  <2>11. Len(w) = Len(E) + Len(e) BY <1>4, <2>9, Concats
  <2>12. h.printed = Len(T[m])
    <3>1. Len(T[m]) = (Len(A) + Len(X)) + (Len(E) + Len(e)) BY <2>8, <2>9
    <3>2. h.printed = (Len(A) + Len(X)) + Len(w) BY <1>2, <1>9, <2>6, <2>7
    <3> QED BY <2>11, <3>1, <3>2
  <2>13. Behind(h, c.pieces, m) BY <1>2, <2>6 DEF Behind
  <2>14. Written(c, T[m], str', out')
    <3>1. CASE c.fn = "sprintf"
      <4>1. m \in DOMAIN c.pieces
        <5>1. c.pieces \in Seq(Pieces) BY DEF Requested
        <5> QED BY <5>1
      <4>2. HasExponent(c.pieces) BY <1>4, <4>1 DEF HasExponent
      <4> QED BY <3>1, <4>2 DEF Written
    <3>2. CASE c.fn # "sprintf"
      <4>1. P!Terminator = <<>> BY <3>2 DEF P!Terminator
      <4>2. PICK v \in Seq(STRING) : v = t \o w BY Concats
      <4>3. v \o <<>> = v OBVIOUS
      <4>4. Writes(<<>>) BY <2>3, <4>1 DEF Writes
      <4>5. Written(c, v \o <<>>, str', out') BY <1>10, <4>2, <4>4, WritesOn
      <4> QED BY <2>10, <4>2, <4>3, <4>5
    <3> QED BY <3>1, <3>2
  <2>15. Outer(c, m, frames', str', out') BY <2>5, <2>6, <2>12, <2>13, <2>14 DEF Outer, T
  <2>16. Writing(c, frames', str', out') BY <1>5, <2>15 DEF Writing
  <2> QED BY <2>3, <2>16 DEF Runs, Unchanged
<1> QED BY <1>2, <1>12, <1>13, <1>14 DEF InnerAt
-----------------------------------------------------------------------------
(* The types of a string function's state.                                 *)
LEMMA ByteIs ==
  ASSUME TypeOK, NEW b \in Int
  PROVE  Byte(b) \in 0 .. Bytes - 1
<1>1. N \in Nat /\ N > 0 /\ i \in Int BY Sizes DEF TypeOK
<1>2. (b + i) % N \in 0 .. N - 1 BY <1>1
<1> QED BY <1>2 DEF Byte, TypeOK

LEMMA StoreTyped ==
  ASSUME TypeOK, NEW v \in 0 .. Bytes - 1, NEW next \in 0 .. N - 1, Store(v, next)
  PROVE  TypeOK'
BY DEF TypeOK, Store

LEMMA ReturnTyped ==
  ASSUME TypeOK, NEW v \in -N .. N, Return(v)
  PROVE  TypeOK'
BY DEF TypeOK, Return

LEMMA TurnTyped ==
  ASSUME TypeOK, NextTurn
  PROVE  TypeOK'
<1>1. N \in Nat /\ N > 0 /\ i \in Int BY Sizes DEF TypeOK
<1>2. (i + 1) % N \in 0 .. N - 1 BY <1>1
<1> QED BY <1>2 DEF TypeOK, NextTurn

LEMMA CompareTyped ==
  ASSUME TypeOK, call.p \in Int, call.q \in Int, CompareStrings
  PROVE  TypeOK'
<1>1. Byte(call.p) \in 0 .. Bytes - 1 /\ Byte(call.q) \in 0 .. Bytes - 1 BY ByteIs
<1>2. PICK a \in 0 .. Bytes - 1, b \in 0 .. Bytes - 1 : a = Byte(call.p) /\ b = Byte(call.q) BY <1>1
<1>3. N \in Nat /\ Bytes \in Nat /\ Bytes <= N BY SizesAssumption
<1>4. a - b \in -N .. N /\ 0 \in -N .. N BY <1>3
<1>5. Plain(a) - Plain(b) \in -N .. N
  <2>1. Bytes \div 2 \in Nat /\ Bytes = 2 * (Bytes \div 2) BY SizesAssumption
  <2>2. /\ Plain(a) >= -(Bytes \div 2) /\ Plain(a) <= Bytes - 1 /\ Plain(a) \in Int
        /\ Plain(b) >= -(Bytes \div 2) /\ Plain(b) <= Bytes - 1 /\ Plain(b) \in Int
        /\ CharSigned => Plain(a) <= Bytes \div 2 - 1 /\ Plain(b) <= Bytes \div 2 - 1
        /\ ~CharSigned => Plain(a) >= 0 /\ Plain(b) >= 0
    <3>1. ASSUME NEW v \in 0 .. Bytes - 1
          PROVE  /\ Plain(v) >= -(Bytes \div 2) /\ Plain(v) <= Bytes - 1 /\ Plain(v) \in Int
                 /\ CharSigned => Plain(v) <= Bytes \div 2 - 1
                 /\ ~CharSigned => Plain(v) >= 0
      BY <1>3, <2>1 DEF Plain
    <3> QED BY <3>1
  <2> HIDE DEF Plain
  <2>3. Plain(a) - Plain(b) \in -Bytes .. Bytes BY <1>3, <2>1, <2>2
  <2> QED BY <1>3, <2>3
<1>6. \/ Return(0) \/ Return(a - b) \/ Return(Plain(a) - Plain(b)) \/ NextTurn
  BY <1>2 DEF CompareStrings
<1> QED BY <1>4, <1>5, <1>6, ReturnTyped, TurnTyped

LEMMA SearchIn ==
  ASSUME call \in Calls, SearchInv, Searching(call), pc = "loop"
  PROVE  i \in Nat /\ call.p + i \in 0 .. N - 1 /\ i \in 0 .. N - 1
<1> DEFINE L == LengthIn(call.mem, call.p)
<1>1. i \in Nat /\ i <= L BY DEF SearchInv
<1>2. call.p \in 0 .. N - 1 /\ Ends(call.mem, call.p) BY CallsAssumption, CallTypes DEF Searching
<1>3. L \in 0 .. N - 1 /\ call.p + L < N BY <1>2, StringAt
<1> HIDE DEF L
<1> QED BY <1>1, <1>2, <1>3, Sizes

LEMMA StringsTyped ==
  ASSUME Inv, TypeOK, Next
  PROVE  TypeOK'
<1>1. call \in Calls /\ SearchInv BY DEF Inv
<1>2. /\ call.p \in 0 .. N - 1 /\ call.p \in Int /\ call.q \in Int /\ call.n \in 0 .. N - 1
      /\ N \in Nat /\ N > 0 /\ Bytes \in Nat /\ Bytes > 0 /\ i \in Int /\ i \in 0 .. N - 1
  BY <1>1, CallTypes, Sizes DEF TypeOK
<1>3. Byte(call.p) \in 0 .. Bytes - 1 /\ Byte(call.q) \in 0 .. Bytes - 1 BY <1>2, ByteIs
<1>4. /\ call.p \in -N .. N /\ 0 \in -N .. N /\ i \in -N .. N /\ NULL \in -N .. N
      /\ (i + 1) % N \in 0 .. N - 1 /\ (i - 1) % N \in 0 .. N - 1 /\ (call.p + i) % N \in 0 .. N - 1
      /\ call.q % Bytes \in 0 .. Bytes - 1 /\ 0 \in 0 .. Bytes - 1
      /\ i < call.n => i + 1 \in 0 .. N - 1
  BY <1>2 DEF NULL
<1>5. CASE Copy
  <2>1. Store(Byte(call.q), (IF Downwards THEN i - 1 ELSE i + 1) % N) \/ Return(call.p) BY <1>5 DEF Copy
  <2>2. (IF Downwards THEN i - 1 ELSE i + 1) % N \in 0 .. N - 1 BY <1>4
  <2> QED BY <1>3, <1>4, <2>1, <2>2, StoreTyped, ReturnTyped
<1>6. CASE memset
  <2>1. Store(call.q % Bytes, (i + 1) % N) \/ Return(call.p) BY <1>6 DEF memset
  <2> QED BY <1>4, <2>1, StoreTyped, ReturnTyped
<1>7. CASE strcpy
  <2>1. mem' = [mem EXCEPT ![(call.p + i) % N] = Byte(call.q)] /\ last' = last BY <1>7 DEF strcpy
  <2>2. (ret' = call.p \/ ret' = ret) /\ (i' = i \/ i' = (i + 1) % N) BY <1>7 DEF strcpy
  <2> QED BY <1>3, <1>4, <2>1, <2>2 DEF TypeOK
<1>8. CASE strncpy
  <2>1. (mem' = [mem EXCEPT ![(call.p + i) % N] = Byte(call.q)] \/ mem' = mem) /\ last' = last /\ ret' = ret
    BY <1>8 DEF strncpy
  <2>2. i' = i \/ (i < call.n /\ i' = i + 1) BY <1>8 DEF strncpy
  <2> QED BY <1>3, <1>4, <2>1, <2>2 DEF TypeOK
<1>9. CASE Pad
  <2>1. (i < call.n /\ Store(0, i + 1)) \/ Return(call.p) BY <1>9 DEF Pad
  <2> QED BY <1>4, <2>1, StoreTyped, ReturnTyped
<1>10. CASE strcmp BY <1>2, <1>10, CompareTyped DEF strcmp
<1>11. CASE strncmp
  <2>1. CompareStrings \/ Return(0) BY <1>11 DEF strncmp
  <2> QED BY <1>2, <1>4, <2>1, CompareTyped, ReturnTyped
<1>12. CASE memcmp
  <2>1. NextTurn \/ Return(Byte(call.p) - Byte(call.q)) \/ Return(0) BY <1>12 DEF memcmp
  <2>2. Byte(call.p) - Byte(call.q) \in -N .. N
    <3>1. Bytes <= N BY SizesAssumption
    <3> QED BY <1>2, <1>3, <3>1
  <2> QED BY <1>4, <2>1, <2>2, ReturnTyped, TurnTyped
<1>13. CASE strchr
  <2>1. Return(call.p + i) \/ Return(NULL) \/ NextTurn BY <1>13 DEF strchr
  <2>2. call.p + i \in 0 .. N - 1 BY <1>1, <1>13, SearchIn DEF strchr, Fn, Searching
  <2>3. call.p + i \in -N .. N BY <1>2, <2>2
  <2> QED BY <1>4, <2>1, <2>3, ReturnTyped, TurnTyped
<1>14. CASE strrchr
  <2>1. call.p + i \in 0 .. N - 1 BY <1>1, <1>14, SearchIn DEF strrchr, Fn, Searching
  <2>2. mem' = mem /\ (last' = call.p + i \/ last' = last) BY <1>14 DEF strrchr
  <2>3. (ret' = last' \/ ret' = ret) /\ (i' = i \/ i' = (i + 1) % N) BY <1>14 DEF strrchr
  <2>4. last' \in 0 .. N BY <1>2, <2>1, <2>2 DEF TypeOK
  <2>5. last' \in -N .. N BY <1>2, <2>4
  <2> QED BY <1>4, <2>2, <2>3, <2>4, <2>5 DEF TypeOK
<1>15. CASE strlen
  <2>1. Return(i) \/ NextTurn BY <1>15 DEF strlen
  <2> QED BY <1>4, <2>1, ReturnTyped, TurnTyped
<1> QED BY <1>5, <1>6, <1>7, <1>8, <1>9, <1>10, <1>11, <1>12, <1>13, <1>14, <1>15 DEF Next
-----------------------------------------------------------------------------
(* The invariant of formatted output.                                      *)
LEMMA FramesAreThere ==
  ASSUME NEW c, NEW fs, NEW s, NEW o, Writing(c, fs, s, o)
  PROVE  fs # <<>>
<1>1. ASSUME NEW f, fs = <<f>> PROVE fs # <<>> BY <1>1
<1>2. ASSUME NEW f, NEW g, fs = <<f, g>> PROVE fs # <<>> BY <1>2
<1>3. ASSUME NEW m, Outer(c, m, fs, s, o) PROVE fs # <<>> BY <1>1, <1>3 DEF Outer
<1>4. ASSUME NEW m, Nested(c, m, fs, s, o) PROVE fs # <<>> BY <1>2, <1>4 DEF Nested
<1> QED BY <1>3, <1>4 DEF Writing

LEMMA PrintStarts == P!Init => PrintInv
BY DEF P!Init, PrintInv

LEMMA PrintTurns ==
  ASSUME PrintInv, P!Turn
  PROVE  PrintInv'
<1>1. frames # <<>> BY TurnsAre DEF P!Running
<1>2. PICK c : c = printing OBVIOUS
<1>3. Requested(c) /\ __m65x_char_to_file = (c.fn # "sprintf") /\ Writing(c, frames, str, out)
      /\ printed \in Nat
  BY <1>1, <1>2 DEF PrintInv
<1>4. Len(c.pieces) \in Nat BY <1>3, TextsAre
<1>5. Runs(c)
  <2>1. ASSUME NEW m \in 0 .. Len(c.pieces), Outer(c, m, frames, str, out) PROVE Runs(c)
    <3>1. CASE m < Len(c.pieces) BY <1>2, <1>3, <2>1, <3>1, OuterTurn
    <3>2. CASE ~(m < Len(c.pieces))
      <4>1. m = Len(c.pieces) BY <1>4, <3>2
      <4> QED BY <1>2, <1>3, <2>1, <4>1, EndTurn DEF Runs
    <3> QED BY <3>1, <3>2
  <2>2. ASSUME NEW m \in 1 .. Len(c.pieces), Nested(c, m, frames, str, out) PROVE Runs(c)
    BY <1>2, <1>3, <2>2, NestedTurn
  <2> QED BY <1>3, <2>1, <2>2 DEF Writing
<1>6. CASE /\ printing' = c /\ __m65x_char_to_file' = __m65x_char_to_file /\ printed' = printed
           /\ Writing(c, frames', str', out')
  BY <1>3, <1>6 DEF PrintInv
<1>7. CASE PastEnd(printing') /\ frames' = <<>> /\ __m65x_char_to_file' = __m65x_char_to_file
           /\ printed' = printed
  BY <1>3, <1>7 DEF PrintInv
<1>8. CASE /\ printing' = c /\ frames' = <<>> /\ __m65x_char_to_file' = TRUE
           /\ Complete(c, str', out', printed')
  <2>1. Len(c.pieces) \in 0 .. Len(c.pieces) BY <1>4
  <2>2. Texts(c.pieces)[Len(c.pieces)] \in Seq(STRING) BY <1>3, <2>1, TextsAre
  <2>3. printed' \in Nat BY <1>8, <2>2 DEF Complete
  <2> QED BY <1>3, <1>8, <2>3 DEF PrintInv
<1> QED BY <1>5, <1>6, <1>7, <1>8 DEF Runs

LEMMA PrintCalls ==
  ASSUME PrintInv, P!Printf \/ P!Fprintf \/ P!Sprintf
  PROVE  PrintInv'
<1>1. printing = P!Idle BY DEF P!Printf, P!Fprintf, P!Sprintf, P!Call
<1>2. __m65x_char_to_file = TRUE
  <2>1. P!Idle.fn = "none" BY DEF P!Idle
  <2> QED BY <1>1, <2>1 DEF PrintInv, PastEnd, Requested
<1>3. CASE P!Printf
  <2>1. P!Call("printf", "stdout") /\ __m65x_char_to_file' = TRUE BY <1>2, <1>3 DEF P!Printf
  <2>2. /\ Requested(printing') /\ printing'.fn = "printf" /\ printed' = 0
        /\ Writing(printing', frames', str', out')
    BY <2>1, CallBegins
  <2> QED BY <2>1, <2>2 DEF PrintInv
<1>4. CASE P!Fprintf
  <2>1. PICK file \in {"stdin", "stdout", "stderr"} : P!Call("fprintf", file) BY <1>4 DEF P!Fprintf
  <2>2. __m65x_char_to_file' = TRUE BY <1>2, <1>4 DEF P!Fprintf
  <2>3. /\ Requested(printing') /\ printing'.fn = "fprintf" /\ printed' = 0
        /\ Writing(printing', frames', str', out')
    BY <2>1, CallBegins
  <2> QED BY <2>2, <2>3 DEF PrintInv
<1>5. CASE P!Sprintf
  <2>1. P!Call("sprintf", "string") /\ __m65x_char_to_file' = FALSE BY <1>5 DEF P!Sprintf
  <2>2. /\ Requested(printing') /\ printing'.fn = "sprintf" /\ printed' = 0
        /\ Writing(printing', frames', str', out')
    BY <2>1, CallBegins
  <2> QED BY <2>1, <2>2 DEF PrintInv
<1> QED BY <1>3, <1>4, <1>5

LEMMA PrintTakes ==
  ASSUME PrintInv, P!Take
  PROVE  PrintInv'
<1>1. /\ printing # P!Idle /\ frames = <<>> /\ printing.fn # "past" /\ printing' = P!Idle
      /\ printed' = 0 /\ frames' = <<>> /\ __m65x_char_to_file' = __m65x_char_to_file
  BY DEF P!Take
<1>2. __m65x_char_to_file = TRUE BY <1>1, FramesAreThere DEF PrintInv, PastEnd
<1> QED BY <1>1, <1>2 DEF PrintInv

LEMMA PrintStays ==
  ASSUME PrintInv, UNCHANGED printVars
  PROVE  PrintInv'
<1>1. /\ __m65x_char_to_file' = __m65x_char_to_file /\ printing' = printing /\ frames' = frames
      /\ out' = out /\ str' = str /\ printed' = printed
  BY DEF printVars
<1> QED BY <1>1 DEF PrintInv

(* What it says of a call that has returned, and of every state.           *)
LEMMA PrintText == PrintInv => P!TextIsWritten
<1> SUFFICES ASSUME PrintInv PROVE P!TextIsWritten OBVIOUS
<1>1. P!PastOnlyUnfinished
  <2>1. printing.fn = "past" => PastEnd(printing)
    <3>1. P!Idle.fn = "none" BY DEF P!Idle
    <3> QED BY <3>1 DEF PrintInv, Requested
  <2> QED BY <2>1 DEF P!PastOnlyUnfinished, PastEnd
<1>2. ASSUME P!Returned PROVE P!StreamGetsText /\ P!StringGetsText
  <2>1. Requested(printing) /\ Complete(printing, str, out, printed)
    BY <1>2, FramesAreThere DEF P!Returned, PrintInv, PastEnd
  <2>2. PICK c : c = printing OBVIOUS
  <2>3. PICK ps \in Seq(Pieces) : ps = c.pieces BY <2>1, <2>2 DEF Requested
  <2>4. TextsOf(ps) \in Seq(Seq(STRING)) /\ Len(TextsOf(ps)) = Len(ps) BY PartsAre
  <2>5. P!FlattenSeq(TextsOf(ps)) = Joined(TextsOf(ps))[Len(TextsOf(ps))] BY <2>4, FlattenIsJoined
  <2>6. DOMAIN ps = 1 .. Len(ps) OBVIOUS
  <2>7. [k \in DOMAIN ps |-> ps[k].text] = TextsOf(ps) BY <2>6 DEF TextsOf
  <2>8. P!Text = Texts(c.pieces)[Len(c.pieces)] BY <2>2, <2>3, <2>4, <2>5, <2>7 DEF P!Text, Texts
  <2>9. P!Exponents = HasExponent(printing.pieces) BY DEF P!Exponents, HasExponent
  <2>10. P!StreamGetsText
    BY <2>1, <2>2, <2>8 DEF P!StreamGetsText, Complete, Written
  <2>11. P!StringGetsText
    BY <2>1, <2>2, <2>8, <2>9 DEF P!StringGetsText, Complete
  <2> QED BY <2>10, <2>11
<1>3. ASSUME ~P!Returned PROVE P!StreamGetsText /\ P!StringGetsText
  BY <1>3 DEF P!StreamGetsText, P!StringGetsText
<1> QED BY <1>1, <1>2, <1>3 DEF P!TextIsWritten

LEMMA BehindIsWithin ==
  ASSUME NEW c, Requested(c), NEW m \in 0 .. Len(c.pieces), NEW f, Behind(f, c.pieces, m)
  PROVE  f.pos \in 1 .. Len(f.fmt) + 1
<1>1. PICK ps \in Seq(Pieces) : ps = c.pieces BY DEF Requested
<1>2. PICK s \in Seq(Seq(Chars)) : s = SpecsOf(ps) /\ Len(s) = Len(ps) BY PartsAre
<1>3. m \in 0 .. Len(s) BY <1>1, <1>2
<1>4. PICK u \in Seq(Chars) : u = Joined(s)[m] BY <1>3, JoinedIs
<1>5. PICK r \in Seq(Chars) : Joined(s)[Len(s)] = u \o r BY <1>3, <1>4, JoinedRest
<1>6. Len(u \o r) = Len(u) + Len(r) /\ Len(u) \in Nat /\ Len(r) \in Nat BY Concats
<1>7. f.pos = Len(u) + 1 /\ f.fmt = u \o r BY <1>1, <1>2, <1>4, <1>5 DEF Behind
<1> QED BY <1>6, <1>7

LEMMA PrintTyped == PrintInv => P!TypeOK
<1> SUFFICES ASSUME PrintInv PROVE P!TypeOK OBVIOUS
<1>1. __m65x_char_to_file \in BOOLEAN /\ printed \in Nat BY DEF PrintInv
<1>2. printing.fn \in {"none", "printf", "fprintf", "sprintf", "past"}
  <2>1. P!Idle.fn = "none" BY DEF P!Idle
  <2> QED BY <2>1 DEF PrintInv, PastEnd, Requested
<1>3. Len(frames) <= 2 /\ \A k \in DOMAIN frames : frames[k].pos \in 1 .. Len(frames[k].fmt) + 1
  <2>1. CASE frames = <<>> BY <2>1
  <2>2. CASE frames # <<>>
    <3>1. PICK c : c = printing OBVIOUS
    <3>2. Requested(c) /\ Writing(c, frames, str, out) BY <2>2, <3>1 DEF PrintInv
    <3>3. Len(c.pieces) \in Nat BY <3>2, TextsAre
    <3>4. ASSUME NEW m \in 0 .. Len(c.pieces), Outer(c, m, frames, str, out)
          PROVE  Len(frames) <= 2 /\ \A k \in DOMAIN frames : frames[k].pos \in 1 .. Len(frames[k].fmt) + 1
      <4>1. PICK f \in Frames : frames = <<f>> /\ Behind(f, c.pieces, m) BY <3>4 DEF Outer
      <4>2. f.pos \in 1 .. Len(f.fmt) + 1 BY <3>2, <4>1, BehindIsWithin
      <4> QED BY <4>1, <4>2
    <3>5. ASSUME NEW m \in 1 .. Len(c.pieces), Nested(c, m, frames, str, out)
          PROVE  Len(frames) <= 2 /\ \A k \in DOMAIN frames : frames[k].pos \in 1 .. Len(frames[k].fmt) + 1
      <4>1. PICK f \in Frames, g \in Frames, w \in Seq(STRING) : \E x, e :
              frames = <<f, g>> /\ Behind(f, c.pieces, m) /\ InnerAt(g, x, e, w)
        BY <3>5 DEF Nested
      <4>2. m \in 0 .. Len(c.pieces) BY <3>3
      <4>3. f.pos \in 1 .. Len(f.fmt) + 1 BY <3>2, <4>1, <4>2, BehindIsWithin
      <4>4. g.pos \in 1 .. Len(g.fmt) + 1
        <5>1. g.fmt = Exponent /\ g.pos \in {1, 2, 4} BY <4>1 DEF InnerAt
        <5>2. Len(Exponent) = 3 BY DEF Exponent
        <5> QED BY <5>1, <5>2
      <4>5. Len(frames) = 2 /\ DOMAIN frames = 1 .. 2 /\ frames[1] = f /\ frames[2] = g BY <4>1
      <4>6. \A k \in 1 .. 2 : k = 1 \/ k = 2 OBVIOUS
      <4> QED BY <4>3, <4>4, <4>5, <4>6
    <3> QED BY <3>2, <3>4, <3>5 DEF Writing
  <2> QED BY <2>1, <2>2
<1> QED BY <1>1, <1>2, <1>3 DEF P!TypeOK

-----------------------------------------------------------------------------
(* A program that uses libtinyc.                                           *)
LibInv ==
    /\ PrintInv /\ TypeOK
    /\ Inv \/ (call = NoCall /\ pc = "done")

LEMMA LibStarts == LibInit => LibInv
<1> SUFFICES ASSUME LibInit PROVE LibInv OBVIOUS
<1>1. PrintInv BY PrintStarts DEF LibInit
<1>2. N \in Nat /\ N > 0 /\ Bytes \in Nat /\ Bytes > 0 BY Sizes
<1>3. CASE Init
  <2>1. call \in Calls /\ mem = call.mem /\ last = NULL /\ ret = NULL BY <1>3 DEF Init
  <2>2. mem \in [0 .. N - 1 -> 0 .. Bytes - 1] /\ call.n \in 0 .. N - 1 BY <2>1, CallTypes
  <2>3. i = (call.n - 1) % N \/ i = 0 BY <1>3 DEF Init
  <2>4. (call.n - 1) % N \in 0 .. N - 1 /\ 0 \in 0 .. N - 1 BY <1>2, <2>2
  <2>5. TypeOK BY <1>2, <2>1, <2>2, <2>3, <2>4 DEF TypeOK, NULL
  <2> QED BY <1>1, <1>3, <2>5, InitInv DEF LibInv
<1>4. CASE call = NoCall /\ mem = Blank /\ pc = "done" /\ i = 0 /\ last = NULL /\ ret = NULL
  <2>1. TypeOK BY <1>2, <1>4 DEF TypeOK, Blank, NULL
  <2> QED BY <1>1, <1>4, <2>1 DEF LibInv
<1> QED BY <1>3, <1>4 DEF LibInit

LEMMA LibSteps == LibInv /\ [LibNext]_libVars => LibInv'
<1> SUFFICES ASSUME LibInv, [LibNext]_libVars PROVE LibInv' OBVIOUS
<1>1. ASSUME UNCHANGED vars PROVE TypeOK' /\ (Inv \/ (call = NoCall /\ pc = "done"))'
  <2>1. call' = call /\ mem' = mem /\ pc' = pc /\ i' = i /\ last' = last /\ ret' = ret BY <1>1 DEF vars
  <2>2. TypeOK' BY <2>1 DEF TypeOK, LibInv
  <2>3. CASE Inv
    <3>1. Inv' BY <1>1, <2>3, NextInv
    <3> QED BY <2>2, <3>1
  <2>4. CASE call = NoCall /\ pc = "done" BY <2>1, <2>2, <2>4
  <2> QED BY <2>3, <2>4 DEF LibInv
<1>2. ASSUME UNCHANGED printVars PROVE PrintInv' BY <1>2, PrintStays DEF LibInv
<1>3. CASE UsesString
  <2>1. Next /\ UNCHANGED printVars BY <1>3 DEF UsesString
  <2>2. pc # "done"
    BY <2>1 DEF Next, Copy, memset, strcpy, strncpy, Pad, strcmp, strncmp, memcmp, strchr, strrchr, strlen, Fn
  <2>3. Inv /\ TypeOK BY <2>2 DEF LibInv
  <2>4. Inv' /\ TypeOK' BY <2>1, <2>3, NextInv, StringsTyped
  <2> QED BY <1>2, <2>1, <2>4 DEF LibInv
<1>4. CASE UsesPrintf(P!Next)
  <2>1. P!Next /\ UNCHANGED vars BY <1>4 DEF UsesPrintf
  <2>2. PrintInv BY DEF LibInv
  <2>3. PrintInv' BY <2>1, <2>2, PrintTurns, PrintCalls, PrintTakes DEF P!Next
  <2> QED BY <1>1, <2>1, <2>3 DEF LibInv
<1>5. CASE UNCHANGED libVars
  <2>1. UNCHANGED vars /\ UNCHANGED printVars BY <1>5 DEF libVars
  <2> QED BY <1>1, <1>2, <2>1 DEF LibInv
<1> QED BY <1>3, <1>4, <1>5 DEF LibNext

(* The memory, counters and results of the string functions and the frames *)
(* of formatted output keep their types: no position leaves its format by  *)
(* more than the NUL, and no more than two calls of vfprintf are open      *)
(* (vfprintf.c:96-108).                                                    *)
THEOREM LibraryTyped == LibSpec => []LibTypeOK
<1>1. LibInv => LibTypeOK BY PrintTyped DEF LibInv, LibTypeOK
<1> QED BY <1>1, LibStarts, LibSteps, PTL DEF LibSpec

(* printf, fprintf and sprintf write the text of their format, numbers as  *)
(* the numerals of their values, whatever the lengths, the arguments, the  *)
(* width of int and long and the calls before; only a conversion that the  *)
(* format does not finish makes vfprintf run past it (vfprintf.c:111-225). *)
THEOREM TextsAreWritten == LibSpec => []TextIsWritten
<1>1. LibInv => TextIsWritten BY PrintText DEF LibInv, TextIsWritten
<1> QED BY <1>1, LibStarts, LibSteps, PTL DEF LibSpec
=============================================================================
