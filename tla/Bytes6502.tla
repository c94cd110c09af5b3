----------------------------- MODULE Bytes6502 -----------------------------
(***************************************************************************)
(* The 8 and 16 bit arithmetic of the 65x core: C's &, |, ^ and shifts on  *)
(* values of one byte, words made of two bytes, and the processor status   *)
(* register as a set of flag names.                                        *)
(***************************************************************************)
EXTENDS Integers

Byte == 0..255
Addr == {c \in Nat : c < 65536}     \* the indices of WholeRam[65536]

Weights == {1, 2, 4, 8, 16, 32, 64, 128}
BitSet(v, w) == (v \div w) % 2 = 1  \* C: (v & w) != 0

(* The byte whose bit of weight w is set exactly when Is(w).               *)
Sel(c, w) == IF c THEN w ELSE 0
OfBits(Is(_)) ==
    Sel(Is(1), 1) + Sel(Is(2), 2) + Sel(Is(4), 4) + Sel(Is(8), 8)
      + Sel(Is(16), 16) + Sel(Is(32), 32) + Sel(Is(64), 64) + Sel(Is(128), 128)

And8(u, v) == OfBits(LAMBDA w : BitSet(u, w) /\ BitSet(v, w))
Or8(u, v)  == OfBits(LAMBDA w : BitSet(u, w) \/ BitSet(v, w))
Xor8(u, v) == OfBits(LAMBDA w : BitSet(u, w) # BitSet(v, w))

(* Mutant: the mask of a register is forgotten. *)
LoUnmasked(v) == v
Lo(v) == v % 256
Hi(v) == (v \div 256) % 256
Word(lo, hi) == lo + 256 * hi
(* Mutant: a displacement is taken for unsigned. *)
SignedForgotten(v) == v
Signed(v) == IF v >= 128 THEN v - 256 ELSE v      \* (signed char) v

-----------------------------------------------------------------------------
(* PSR_Flags.  Bit 32 has no name in the code: PHP sets it, PLP and RTI    *)
(* load it from the stack.                                                 *)
Flags == {"C", "Z", "I", "D", "B", "U", "V", "N"}
FlagOf(w) ==
    CASE w = 1 -> "C" [] w = 2 -> "Z" [] w = 4 -> "I" [] w = 8 -> "D"
      [] w = 16 -> "B" [] w = 32 -> "U" [] w = 64 -> "V" [] OTHER -> "N"

(* Mutant: the carry is not pushed. *)
PsrByteWithoutCarry(p) == OfBits(LAMBDA w : w # 1 /\ FlagOf(w) \in p)
PsrByte(p) == OfBits(LAMBDA w : FlagOf(w) \in p)
BytePsr(v) == {FlagOf(w) : w \in {k \in Weights : BitSet(v, k)}}

(* The flag f when the condition c holds: one operand of SetPSR.           *)
When(f, c) == IF c THEN {f} ELSE {}
Carry(p) == IF "C" \in p THEN 1 ELSE 0                      \* GETCFLAG
SetZN(p, v) == (p \ {"Z", "N"}) \cup When("Z", v = 0) \cup When("N", v >= 128)
SetCZN(p, c, v) == SetZN(p \ {"C"}, v) \cup When("C", c)
=============================================================================
