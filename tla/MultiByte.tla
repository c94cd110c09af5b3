----------------------------- MODULE MultiByte -----------------------------
(***************************************************************************)
(* Arithmetic on numbers of several bytes, as the compiler emits it for    *)
(* the core: CLC (or SEC) and then one ADC (or SBC) for each byte, lowest  *)
(* byte first, the carry flag linking them.  The bytes are worked on by    *)
(* the handlers Adc and Sbc of Alu6502, nothing else touches the flags.    *)
(***************************************************************************)
EXTENDS Alu6502, Sequences

CONSTANT Operands       \* pairs <<xs, ys>> of byte strings of equal length

OperandsAssumption ==
    \A o \in Operands :
        o[1] \in Seq(Byte) /\ o[2] \in Seq(Byte) /\ Len(o[1]) = Len(o[2]) /\ Len(o[1]) > 0

VARIABLES op,           \* "ADC" or "SBC": the instruction of the chain
          xs, ys,       \* the two numbers, lowest byte first
          res,          \* the result bytes computed so far
          psr           \* the status register

vars == <<op, xs, ys, res, psr>>

(* The chain starts with CLC before an addition, SEC before a subtraction, *)
(* and with the decimal flag as an earlier SED or CLD left it.             *)
Init == /\ op \in {"ADC", "SBC"}
        /\ \E o \in Operands : xs = o[1] /\ ys = o[2]
        /\ res = <<>>
        /\ \E d \in BOOLEAN : psr = {"I"} \cup When("C", op = "SBC") \cup When("D", d)

NextByte ==
    LET i == Len(res) + 1
        r == Accumulate(op, psr, xs[i], ys[i])
    IN  /\ i <= Len(xs)
        /\ res' = Append(res, r.val)
        /\ psr' = r.psr
        /\ UNCHANGED <<op, xs, ys>>

Next == NextByte
Spec == Init /\ [][Next]_vars

-----------------------------------------------------------------------------
Done == Len(res) = Len(xs)
Decimal == "D" \in psr
Bcd(v) == v % 16 < 10 /\ v \div 16 < 10
(* Decimal mode is defined for operands that hold decimal digits only.     *)
Meaningful == Done /\ (Decimal => \A i \in 1..Len(xs) : Bcd(xs[i]) /\ Bcd(ys[i]))

Base == IF Decimal THEN 100 ELSE 256
Digit(b, v) == IF b = 100 THEN 10 * (v \div 16) + (v % 16) ELSE v
Power(b, n) ==
    LET upto[i \in 0..n] == IF i = 0 THEN 1 ELSE b * upto[i - 1]
    IN  upto[n]
(* The number that the first n bytes are to base b. *)
Prefix(b, bs, n) ==
    LET upto[i \in 0..n] ==
            IF i = 0 THEN 0 ELSE upto[i - 1] + Digit(b, bs[i]) * Power(b, i - 1)
    IN  upto[n]
Value(bs) == Prefix(Base, bs, Len(bs))
Limit == Power(Base, Len(xs))
SignedValue(bs) == IF bs[Len(bs)] >= 128 THEN Value(bs) - Limit ELSE Value(bs)

TypeOK == /\ op \in {"ADC", "SBC"}
          /\ xs \in Seq(Byte) /\ ys \in Seq(Byte) /\ res \in Seq(Byte)
          /\ psr \subseteq Flags

(* A chain of ADCs adds the two numbers, binary or decimal: the result     *)
(* bytes hold the sum modulo the word size and the last carry is the       *)
(* overflow out of the word (ADCInstrHandler).                             *)
ChainAdds == Meaningful /\ op = "ADC" =>
    Value(res) + Limit * Carry(psr) = Value(xs) + Value(ys)

(* A chain of SBCs subtracts, binary or decimal, and leaves the carry set  *)
(* exactly when no borrow is left: the unsigned comparison of the numbers  *)
(* (SBCInstrHandler).                                                      *)
ChainSubtracts == Meaningful /\ op = "SBC" =>
    /\ Value(res) = (Value(xs) - Value(ys)) % Limit
    /\ ("C" \in psr) <=> Value(xs) >= Value(ys)

(* After a binary chain V tells that the signed result does not fit, so    *)
(* that N xor V is the sign of the exact result: what a signed comparison  *)
(* by subtraction branches on.                                             *)
SignOfExactResult ==
    LET exact == IF op = "ADC" THEN SignedValue(xs) + SignedValue(ys)
                               ELSE SignedValue(xs) - SignedValue(ys)
    IN  Done /\ ~Decimal => (("N" \in psr) # ("V" \in psr) <=> exact < 0)

(* A chain computes with numbers of any length, signed or not. *)
ChainsExact == ChainAdds /\ ChainSubtracts /\ SignOfExactResult

(* What the comment in ADCInstrHandler and SBCInstrHandler says of decimal *)
(* mode: "Z flag determined from 2's compl result, not BCD result!".       *)
ZeroFromBinaryResult ==
    Meaningful /\ Decimal /\ Len(xs) = 1 /\ op = "ADC" =>
        ("Z" \in psr <=> Lo(xs[1] + ys[1]) = 0)
=============================================================================
