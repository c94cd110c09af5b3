------------------------------ MODULE Alu6502 ------------------------------
(***************************************************************************)
(* The arithmetic and logic handlers of semi65x/6502core.cpp as functions  *)
(* of the status register p (a set of flags), a register value and an      *)
(* operand.  Each returns the value it computes and the new flags.         *)
(***************************************************************************)
EXTENDS Bytes6502

Result(v, p) == [val |-> v, psr |-> p]

CVZN == {"C", "V", "Z", "N"}
SetArith(p, c, ovf, z, n) ==
    (p \ CVZN) \cup When("C", c) \cup When("V", ovf) \cup When("Z", z) \cup When("N", n)

-----------------------------------------------------------------------------
(* ADCInstrHandler.  The decimal branch computes Z and N of the binary     *)
(* sum first and overwrites them at the end.                               *)
AdcBinary(p, a, v) ==
    LET sum == a + v + Carry(p)
        r   == Lo(sum)
    IN  Result(r, SetArith(p, sum > 255,
                           (r >= 128) # (Signed(a) + Signed(v) + Carry(p) < 0),
                           r = 0, r >= 128))

AdcDecimal(p, a, v) ==
    LET ln    == (a % 16) + (v % 16) + Carry(p)
        low   == IF ln > 9 THEN (ln + 6) % 16 ELSE ln
        hn    == 16 * (a \div 16) + 16 * (v \div 16) + (IF ln > 9 THEN 16 ELSE 0)
        high  == IF hn > 144 THEN Lo(hn + 96) ELSE hn
        r     == high + low
    IN  Result(r, SetArith(p, hn > 144,
                           BitSet(hn, 128) # BitSet(a, 128) /\ BitSet(a, 128) = BitSet(v, 128),
                           r = 0, r >= 128))

Adc(p, a, v) == IF "D" \in p THEN AdcDecimal(p, a, v) ELSE AdcBinary(p, a, v)

-----------------------------------------------------------------------------
(* SBCInstrHandler.                                                        *)
SbcBinary(p, a, v) ==
    LET dif == a - v - (1 - Carry(p))
        r   == Lo(dif)
    IN  Result(r, SetArith(p, dif >= 0,
                           (r >= 128) # (Signed(a) - Signed(v) - (1 - Carry(p)) < 0),
                           r = 0, r >= 128))

SbcDecimal(p, a, v) ==
    LET borrow == 1 - Carry(p)
        dif    == a - v - borrow
        signed == Signed(a) - Signed(v) - borrow
        over   == v % 16 > 9 /\ a % 16 < 10         \* a low digit above nine
        oln    == (v % 16) - (IF over THEN 10 ELSE 0)
        ohn    == 16 * (v \div 16) + (IF over THEN 16 ELSE 0)
        ln     == (a % 16) - oln - borrow
        low    == IF ln >= 0 THEN ln ELSE (IF a % 16 < 10 THEN ln - 6 ELSE ln) % 16
        hn     == 16 * (a \div 16) - ohn - (IF ln < 0 THEN 16 ELSE 0)
        high   == IF hn < 0 THEN Lo(hn - 96) ELSE hn
        r      == high + low
    IN  Result(r, SetArith(p, dif >= 0, signed < -128 \/ signed > 127,
                           Lo(dif) = 0 \/ r = 0, high >= 128))

(* Mutant: decimal mode is forgotten. *)
SbcAlwaysBinary(p, a, v) == SbcBinary(p, a, v)
Sbc(p, a, v) == IF "D" \in p THEN SbcDecimal(p, a, v) ELSE SbcBinary(p, a, v)

-----------------------------------------------------------------------------
(* CMP, CPX and CPY: a register against an operand.                        *)
Compare(p, r, v) == SetCZN(p, r >= v, Lo(r - v))

(* BIT: Z from the conjunction, V and N copied from the operand.           *)
BitTest(p, a, v) ==
    (p \ {"Z", "V", "N"}) \cup When("Z", And8(a, v) = 0)
      \cup When("V", BitSet(v, 64)) \cup When("N", BitSet(v, 128))

(* TSB, TRB and BIT #: Z from the conjunction, nothing else.               *)
TestZ(p, a, v) == (p \ {"Z"}) \cup When("Z", And8(a, v) = 0)

(* The accumulator operations ORA, AND, EOR, ADC and, last, SBC.           *)
Logic(p, r) == Result(r, SetZN(p, r))
Accumulate(op, p, a, v) ==
    CASE op = "ORA" -> Logic(p, Or8(a, v))
      [] op = "AND" -> Logic(p, And8(a, v))
      [] op = "EOR" -> Logic(p, Xor8(a, v))
      [] op = "ADC" -> Adc(p, a, v)
      [] OTHER      -> Sbc(p, a, v)

(* The read-modify-write operations, INC last, on memory or on the         *)
(* accumulator.                                                            *)
Shift(p, out, r) == Result(r, SetCZN(p, out, r))
Modify(op, p, v) ==
    CASE op = "ASL" -> Shift(p, BitSet(v, 128), Lo(2 * v))
      [] op = "ROL" -> Shift(p, BitSet(v, 128), Lo(2 * v) + Carry(p))
      [] op = "LSR" -> Shift(p, BitSet(v, 1), v \div 2)
      [] op = "ROR" -> Shift(p, BitSet(v, 1), (v \div 2) + 128 * Carry(p))
      [] op = "DEC" -> Logic(p, Lo(v - 1))
      [] OTHER      -> Logic(p, Lo(v + 1))
=============================================================================
