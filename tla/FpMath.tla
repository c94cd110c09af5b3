------------------------------ MODULE FpMath ------------------------------
(***************************************************************************)
(* fp_add, fp_sub, fp_mul and fp_div of experimental/fpmath.c: one call on *)
(* two numbers in the sftype format, the loops that normalise the result   *)
(* turn by turn.  The widths are parameters: 23 bits of fraction, 8 of     *)
(* exponent, 32-bit mantissas in fp_add and 64-bit ones in the others.     *)
(***************************************************************************)
EXTENDS Integers

CONSTANTS
    F,          \* bits of fraction
    ExpBits,    \* bits of exponent
    W,          \* bits of a uint32_t
    Calls       \* the calls made: op, a and b, these with sign, exp and mant

WidthsAssumption == /\ F \in Nat /\ ExpBits \in Nat /\ W \in Nat
                    /\ F > 0 /\ ExpBits > 1 /\ W > F + 2
CallsAssumption ==
    Calls \subseteq [op : {"add", "sub", "mul", "div"},
                     a : [sign : {0, 1}, exp : 0 .. 2^ExpBits - 1, mant : 0 .. 2^F - 1],
                     b : [sign : {0, 1}, exp : 0 .. 2^ExpBits - 1, mant : 0 .. 2^F - 1]]

VARIABLES
    call, pc,
    sign, exp, mant,    \* the result before it is packed
    result
vars == <<call, pc, sign, exp, mant, result>>

Bias == 2^(ExpBits - 1) - 1
Width == IF call.op \in {"add", "sub"} THEN W ELSE 2 * W
(* An int16_t, scaled to twice the bits of the exponent. *)
Int16(e) == ((e + 2^(2 * ExpBits - 1)) % 2^(2 * ExpBits)) - 2^(2 * ExpBits - 1)
Mant(f) == f.mant + (IF f.exp # 0 THEN 2^F ELSE 0)
repack == [sign |-> sign, exp |-> exp % 2^ExpBits, mant |-> mant % 2^F]

Init ==
    /\ call \in Calls /\ pc = "call"
    /\ sign = 0 /\ exp = 0 /\ mant = 0 /\ result = call.a

Computed(s, e, m, next) ==
    sign' = s /\ exp' = e /\ mant' = m /\ pc' = next /\ UNCHANGED <<call, result>>
Returned(f) ==
    sign' = f.sign /\ exp' = f.exp /\ mant' = Mant(f) /\ result' = f /\ pc' = "done" /\ UNCHANGED call

(* fp_sub flips the sign of b; -A + B is done as B - A. *)
B == IF call.op = "sub" THEN [call.b EXCEPT !.sign = 1 - @] ELSE call.b
Swapped == call.a.sign = 1 /\ B.sign = 0
First == IF Swapped THEN B ELSE call.a
Second == IF Swapped THEN call.a ELSE B
Subtract == First.sign # Second.sign

(* Mutant: the smaller operand is not shifted. *)
AlignedNot(m, n) == {m}
(* A shift by the width of its operand or more is undefined: nothing is    *)
(* left, or the machine takes the count modulo the width.                  *)
Aligned(m, n) == IF n < W THEN {m \div 2^n} ELSE {0, m \div 2^(n % W)}

(* The difference of mantissas, negated when its top bit is set.           *)
Difference(s, e, m, n) ==
    LET d == (m - n) % 2^W
    IN  IF d >= 2^(W - 1) THEN Computed(1 - s, e, 2^W - d, "up") ELSE Computed(s, e, d, "up")

FirstLarger ==
    /\ call.op \in {"add", "sub"} /\ pc = "call" /\ First.exp > Second.exp
    /\ IF First.exp > Second.exp + F THEN Returned(First)
       ELSE \E n \in Aligned(Mant(Second), First.exp - Second.exp) :
              IF Subtract THEN Difference(First.sign, First.exp, Mant(First), n)
              ELSE Computed(First.sign, First.exp, Mant(First) + n, "down")

(* B's sign was cleared for A - B, and is set by the subtraction from B.   *)
SecondLarger ==
    /\ call.op \in {"add", "sub"} /\ pc = "call" /\ First.exp <= Second.exp
    /\ IF ~Subtract /\ Second.exp > First.exp + F THEN Returned(Second)
       ELSE \E n \in Aligned(Mant(First), Second.exp - First.exp) :
              IF Subtract THEN Difference(1, Second.exp, Mant(Second), n)
              ELSE Computed(Second.sign, Second.exp, Mant(Second) + n, "down")

SignOf(f, g) == (f.sign + g.sign) % 2
fp_mul ==
    /\ call.op = "mul" /\ pc = "call"
    /\ Computed(SignOf(call.a, call.b), call.a.exp, (Mant(call.a) * Mant(call.b)) \div 2^F, "down")

(* Division by zero stops the program. *)
fp_div ==
    /\ call.op = "div" /\ pc = "call"
    /\ IF Mant(call.b) = 0 THEN Computed(sign, exp, mant, "trap")
       ELSE Computed(SignOf(call.a, call.b), call.a.exp, (Mant(call.a) * 2^F) \div Mant(call.b), "up")

(* Bits F to W - 1 are tested, of 64 in fp_div. *)
TooSmall == (mant \div 2^F) % 2^(W - F) = 0
(* Mutant: the exponent is not counted down. *)
ShiftUpOnly == Computed(sign, exp, (2 * mant) % 2^Width, "up")
ShiftUp == Computed(sign, Int16(exp - 1), (2 * mant) % 2^Width, "up")
NormaliseUp ==
    /\ pc = "up"
    /\ IF TooSmall THEN ShiftUp
       ELSE Computed(sign, exp, mant, IF call.op = "div" THEN "repack" ELSE "down")

TooLarge == mant >= 2^(F + 1)
NormaliseDown ==
    /\ pc = "down"
    /\ Computed(sign, IF TooLarge THEN Int16(exp + 1) ELSE exp, IF TooLarge THEN mant \div 2 ELSE mant,
                IF TooLarge THEN "down" ELSE "repack")

(* fp_mul and fp_div put the other exponent in when they pack. *)
PackedExp ==
    CASE call.op = "mul" -> exp + call.b.exp - Bias
      [] call.op = "div" -> exp - call.b.exp + Bias
      [] OTHER -> exp
Repack ==
    /\ pc = "repack" /\ pc' = "done"
    /\ exp' = PackedExp /\ result' = [repack EXCEPT !.exp = exp' % 2^ExpBits]
    /\ UNCHANGED <<call, sign, mant>>

Next == FirstLarger \/ SecondLarger \/ fp_mul \/ fp_div \/ NormaliseUp \/ NormaliseDown \/ Repack
Spec == Init /\ [][Next]_vars /\ WF_vars(Next)

-----------------------------------------------------------------------------
TypeOK ==
    /\ mant \in 0 .. 2^Width - 1 /\ sign \in {0, 1}
    /\ exp \in -(2^(2 * ExpBits - 1)) .. 2^(2 * ExpBits - 1) - 1

Normal(f) == f.exp # 0
NormalCall == Normal(call.a) /\ Normal(call.b)
Larger == IF call.a.exp > call.b.exp THEN call.a.exp ELSE call.b.exp
Value(f) == (IF f.sign = 1 THEN -1 ELSE 1) * Mant(f) * 2^f.exp
(* The result was packed with an exponent that its bits can hold. *)
InRange == pc = "done" /\ result.exp # 0 /\ exp = result.exp

(* The subtraction from a larger number is the only one that shifts the    *)
(* smaller mantissa without a test how far (fpmath.c:184).                 *)
ShiftsTooFar == call.op \in {"add", "sub"} /\ Subtract /\ Second.exp >= First.exp + W

(* The sum or difference that fp_add and fp_sub return is off by less than *)
(* two units of the larger operand's last place, unless a shift was by     *)
(* the width of a word or more, which C leaves undefined.                  *)
SumNear ==
    InRange /\ call.op \in {"add", "sub"} /\ ~ShiftsTooFar =>
        LET error == Value(result) - (Value(call.a) + Value(B))
        IN  error < 2^(Larger + 1) /\ -error < 2^(Larger + 1)

(* The product of normalised numbers is the exact one, truncated. *)
ProductTruncated ==
    InRange /\ NormalCall /\ call.op = "mul" =>
        LET k == result.exp - (call.a.exp + call.b.exp - Bias)
        IN  k \in {0, 1} /\ Mant(result) = (Mant(call.a) * Mant(call.b)) \div 2^(F + k)

(* The quotient of normalised numbers is off by less than two units of its *)
(* last place.                                                             *)
QuotientNear ==
    InRange /\ NormalCall /\ call.op = "div" =>
        LET k == call.a.exp - call.b.exp + Bias - result.exp
            exact == Mant(call.a) * 2^(F + k)
        IN  k \in {0, 1} /\ Mant(result) * Mant(call.b) <= exact /\ exact < (Mant(result) + 2) * Mant(call.b)

(* "assert (mant & 0x800000)" (fpmath.c:38): what is packed has its hidden *)
(* bit, when the operands had theirs.                                      *)
HiddenBitPacked == pc = "repack" /\ NormalCall => mant \div 2^F = 1

(* Results are near the exact ones, and normalised. *)
ResultsNear == SumNear /\ ProductTruncated /\ QuotientNear /\ HiddenBitPacked

(* A call on normalised numbers of different size returns, where the shift *)
(* of the smaller one is defined.                                          *)
Cancels == call.op \in {"add", "sub"} /\ Subtract /\ [First EXCEPT !.sign = 1] = Second
EndsUnlessCancelled == NormalCall /\ ~Cancels /\ ~ShiftsTooFar ~> pc = "done"
=============================================================================
