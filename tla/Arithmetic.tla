----------------------------- MODULE Arithmetic -----------------------------
(***************************************************************************)
(* The arithmetic of the core, the library and the experiments, one        *)
(* program at a time: a chain of ADCs or SBCs; a sequence of random        *)
(* numbers; the conversion of a float to text, by ftoa.S or by fp_print;   *)
(* a sum, difference, product or quotient of two small floats.             *)
(***************************************************************************)
EXTENDS Rand

CONSTANTS Operands, FtoaFloats, PrintFloats, MathCalls
CONSTANTS F, ExpBits, W     \* the widths of FpMath
VARIABLES
    program,                                                    \* which of the five runs
    op, xs, ys, res, psr,                                           \* of MultiByte
    x, phase, s_mant, s_exp, dec_exp, print_exp, place, output,     \* of Ftoa
    call, pc, sign, exp, mant, mathResult                           \* of FpMath
B == INSTANCE MultiByte
A == INSTANCE Ftoa WITH Routine <- "ftoa", Floats <- FtoaFloats
E == INSTANCE Ftoa WITH Routine <- "fp_print", Floats <- PrintFloats
M == INSTANCE FpMath WITH Calls <- MathCalls, result <- mathResult
ASSUME ChainsAssumption == B!OperandsAssumption
ASSUME MathAssumption == M!WidthsAssumption /\ M!CallsAssumption

-----------------------------------------------------------------------------
floatVars == <<x, phase, s_mant, s_exp, dec_exp, print_exp, place, output>>
mathVars == <<call, pc, sign, exp, mant, mathResult>>
chainVars == <<op, xs, ys, res, psr>>
arithVars == <<vars, chainVars, floatVars, mathVars, program>>

(* A program that does not run is as one that has ended.                   *)
NoFloat == [sign |-> 0, exp |-> 127, mant |-> <<0, 0>>, text |-> <<>>]
NoChain == op = "none" /\ xs = <<>> /\ ys = <<>> /\ res = <<>> /\ psr = {}
NoConversion ==
    /\ x = NoFloat /\ phase = "done" /\ s_mant = <<128, 0>> /\ s_exp = 127
    /\ dec_exp = 0 /\ print_exp = FALSE /\ place = 0 /\ output = <<>>
Zeros == [sign |-> 0, exp |-> 0, mant |-> 0]
NoMath ==
    /\ call = [op |-> "mul", a |-> Zeros, b |-> Zeros] /\ pc = "done"
    /\ sign = 0 /\ exp = 0 /\ mant = 0 /\ mathResult = Zeros
ArithInit ==
    /\ Init
    /\ \/ program = "chain" /\ B!Init /\ NoConversion /\ NoMath
       \/ program = "rand" /\ NoChain /\ NoConversion /\ NoMath
       \/ program = "ftoa" /\ NoChain /\ A!Init /\ NoMath
       \/ program = "fp_print" /\ NoChain /\ E!Init /\ NoMath
       \/ program = "fpmath" /\ NoChain /\ NoConversion /\ M!Init
Chains == program = "chain" /\ B!Next /\ UNCHANGED <<vars, floatVars, mathVars, program>>
Draws == program = "rand" /\ Next /\ UNCHANGED <<chainVars, floatVars, mathVars, program>>
Writes == program = "ftoa" /\ A!Next /\ UNCHANGED <<vars, chainVars, mathVars, program>>
Prints == program = "fp_print" /\ E!Next /\ UNCHANGED <<vars, chainVars, mathVars, program>>
Computes == program = "fpmath" /\ M!Next /\ UNCHANGED <<vars, chainVars, floatVars, program>>
ArithNext == Chains \/ Draws \/ Writes \/ Prints \/ Computes
ArithSpec == ArithInit /\ [][ArithNext]_arithVars /\ WF_arithVars(Writes \/ Prints \/ Computes)

ArithTypeOK ==
    /\ TypeOK /\ M!TypeOK
    /\ program = "chain" => B!TypeOK
    /\ program = "ftoa" => A!TypeOK
ChainsExact == program = "chain" => B!ChainsExact
ZeroFromBinaryResult == program = "chain" => B!ZeroFromBinaryResult
WritesNumeral == A!WritesNumeral
(* A conversion writes the numeral and stays in the buffer.  (ftoa.S loses *)
(* a carry in the division, and writes numbers below 1 with all zeros.)    *)
ConversionsExact ==
    /\ WritesNumeral
    /\ program = "ftoa" => A!DigitsAreDecimal
    /\ program = "fp_print" => E!FitsBuffer /\ E!DivisionNormalised
ResultsNear == M!ResultsNear
(* Each conversion comes to its end, and every call of fpmath.c on numbers *)
(* that do not cancel each other and are not shifted too far.              *)
ArithEnds == A!Ends /\ M!EndsUnlessCancelled
=============================================================================
