------------------------------- MODULE Ftoa -------------------------------
(***************************************************************************)
(* How libtinyc writes a float: ftoa.S and the program it was written      *)
(* from, fp_print in experimental/fpmath.c.  The value is scaled to lie    *)
(* between 1 and 10 by multiplying and dividing by ten, a bias rounds it,  *)
(* and digit after digit is taken from the top of the mantissa.  An action *)
(* is one turn of a loop.                                                  *)
(*                                                                         *)
(* A mantissa is <<hi, lo>>, its value 2^24 * hi + lo: lo stands for the   *)
(* bytes 0 to 2 of ftoa.S's s_mant, hi for bytes 3 and 4.                  *)
(***************************************************************************)
EXTENDS Integers, Sequences, SequencesExt

CONSTANTS
    Routine,    \* "ftoa" or "fp_print"
    Floats      \* the arguments: sign, exp, mant (the upper 7 and the lower
                \* 16 bits of the fraction) and text, the numeral expected, if any

VARIABLES
    x, phase, s_mant, s_exp, dec_exp, print_exp, place,
    output      \* what is in the buffer, bufidx its length
vars == <<x, phase, s_mant, s_exp, dec_exp, print_exp, place, output>>

sigfigs == 8
Digits == <<"0", "1", "2", "3", "4", "5", "6", "7", "8", "9", ":", ";", "<", "=", ">", "?">>

-----------------------------------------------------------------------------
(* Arithmetic on mantissas: hi and lo of the result of each operation.     *)
Low == 2^24
Carried(hi, lo) == <<hi + lo \div Low, lo % Low>>
Shr(m, n) ==
    IF n >= 24 THEN <<0, IF n < 48 THEN m[1] \div 2^(n - 24) ELSE 0>>
    ELSE <<m[1] \div 2^n, ((m[1] % 2^n) * 2^(24 - n)) + m[2] \div 2^n>>
Mantissas == Nat \X Nat
Add[m \in Mantissas, n \in Mantissas] == Carried(m[1] + n[1], m[2] + n[2])
AddShifted[m \in Mantissas, n \in Nat] == Add[m, Shr(m, n)]

(* ftoa.S keeps the binary and the decimal exponent in bytes. *)
Exp(e) == IF Routine = "ftoa" THEN e % 256 ELSE e
DecExp(d) == IF Routine = "ftoa" THEN ((d + 128) % 256) - 128 ELSE d

(* _m65x_renormalize_right, the while loops of mul10, div10 and fp_add_s. *)
(* Mutant: a mantissa that is too long is shifted by a whole byte. *)
ExcessByte(hi) == IF hi < 256 THEN 0 ELSE 8
Excess(hi) == CHOOSE k \in 0..8 : hi \div 2^k < 256 /\ (k = 0 \/ hi \div 2^(k - 1) >= 256)
Shifted(m, e, k) == [mant |-> Shr(m, k), exp |-> Exp(e + k)]
Renormalized[m \in Mantissas, e \in Int] == Shifted(m, e, Excess(m[1]))

(* mul10: ftoa.S adds a quarter and 3 to the exponent. *)
mul10(m, e) ==
    IF Routine = "ftoa" THEN Renormalized[AddShifted[m, 2], e + 3]
    ELSE Renormalized[Carried(10 * m[1], 10 * m[2]), e]

(* The sums of div10, 1.6 times the mantissa.  The last addition of ftoa.S *)
(* adds bytes 0 to 2 and increments byte 3, whose carry is lost.           *)
AddLow[m \in Mantissas] ==
    LET sum == m[2] + Shr(m, 16)[2]
    IN  <<256 * (m[1] \div 256) + ((m[1] + sum \div Low) % 256), sum % Low>>
Sums(m) ==
    LET three == AddShifted[AddShifted[AddShifted[m, 1], 4], 8]
    IN  IF Routine = "ftoa" THEN AddLow[three] ELSE AddShifted[three, 16]
div10(m, e) == Renormalized[Sums(m), e - 4]

unpack(f) == [mant |-> <<f.mant[1] + (IF f.exp = 0 THEN 0 ELSE 128), f.mant[2] * 256>>, exp |-> f.exp]
Five == unpack([exp |-> 129, mant |-> <<32, 0>>])
Divided == [v \in [mant : Mantissas, exp : Int] |-> div10(v.mant, v.exp)]
BiasAfter[n \in 0..sigfigs] == IF n = 0 THEN Five ELSE Divided[BiasAfter[n - 1]]
Bias == BiasAfter[sigfigs]

-----------------------------------------------------------------------------
IsZero(f) == f.exp = 0 /\ f.mant = <<0, 0>>
Sign(f) == IF f.sign = 1 THEN <<"-">> ELSE <<>>
Init ==
    /\ x \in Floats
    /\ s_mant = unpack(x).mant /\ s_exp = x.exp
    /\ dec_exp = 0 /\ print_exp = FALSE /\ place = 0
    /\ output = IF IsZero(x) THEN Sign(x) \o <<"0">> ELSE Sign(x)
    /\ phase = IF IsZero(x) THEN "done" ELSE "up"

Turn(v, d) == s_mant' = v.mant /\ s_exp' = v.exp /\ dec_exp' = DecExp(d)

MultiplyUp ==
    /\ phase = "up"
    /\ IF s_exp < 127 THEN Turn(mul10(s_mant, s_exp), dec_exp - 1) /\ phase' = phase
       ELSE phase' = "down" /\ UNCHANGED <<s_mant, s_exp, dec_exp>>
    /\ UNCHANGED <<x, print_exp, place, output>>

AtLeast10 == s_exp > 130 \/ (s_exp = 130 /\ s_mant[1] >= 160)
DivideDown ==
    /\ phase \in {"down", "overflow"}
    /\ IF AtLeast10 THEN Turn(div10(s_mant, s_exp), dec_exp + 1) /\ phase' = phase
       ELSE /\ phase' = IF phase = "down" THEN "bias" ELSE "choose"
            /\ UNCHANGED <<s_mant, s_exp, dec_exp>>
    /\ UNCHANGED <<x, print_exp, place, output>>

(* add_bias, fp_add_s: the bias is below 1, s_exp above its exponent. *)
AddBias ==
    /\ phase = "bias" /\ phase' = "overflow"
    /\ \E bias \in {Bias} :
         IF s_exp > bias.exp + 31 THEN UNCHANGED <<s_mant, s_exp>>
         ELSE LET v == Renormalized[Add[s_mant, Shr(bias.mant, Exp(s_exp - bias.exp))], s_exp]
              IN  s_mant' = v.mant /\ s_exp' = v.exp
    /\ UNCHANGED <<x, dec_exp, print_exp, place, output>>

PrintsExponent(d) == IF Routine = "ftoa" THEN (d + 4) % 256 >= 12 ELSE d < -3 \/ d > 8
ChooseForm ==
    /\ phase = "choose" /\ phase' = "digits"
    /\ print_exp' = PrintsExponent(dec_exp)
    /\ output' = IF dec_exp < 0 /\ ~print_exp'
                 THEN output \o <<"0", ".">> \o [k \in 1 .. -dec_exp - 1 |-> "0"] ELSE output
    /\ UNCHANGED <<x, s_mant, s_exp, dec_exp, place>>

(* What is left below the digit: ftoa.S shifts it out, fp_print masks it.  *)
BelowDigit(m, e) ==
    IF Routine = "ftoa"
    THEN [mant |-> <<(16 * m[1] + m[2] \div 2^20) % 256, (16 * m[2]) % Low>>, exp |-> e - 4]
    ELSE [mant |-> <<m[1] % 16, m[2]>>, exp |-> e]
Point == place # sigfigs - 1 /\ place = (IF print_exp THEN 0 ELSE dec_exp)
EmitDigit ==
    /\ phase = "digits" /\ (place < sigfigs \/ (~print_exp /\ place <= dec_exp))
    /\ LET m == IF s_exp < 130 THEN Shr(s_mant, 130 - s_exp) ELSE s_mant      \* denormalize
           e == IF s_exp < 130 THEN 130 ELSE s_exp
           v == BelowDigit(m, e)
           next == mul10(v.mant, v.exp)
       IN  /\ output' = output \o <<Digits[(m[1] \div 16) + 1]>> \o (IF Point THEN <<".">> ELSE <<>>)
           /\ s_mant' = next.mant /\ s_exp' = next.exp
    /\ place' = place + 1
    /\ UNCHANGED <<x, phase, dec_exp, print_exp>>
DigitsEnd ==
    /\ phase = "digits" /\ place >= sigfigs /\ (print_exp \/ place > dec_exp)
    /\ phase' = "strip" /\ place' = place - 1
    /\ UNCHANGED <<x, s_mant, s_exp, dec_exp, print_exp, output>>

(* The digit at place is behind the point: ftoa.S compares bytes. *)
BehindPoint == IF Routine = "ftoa" THEN dec_exp % 256 < place % 256 ELSE place > dec_exp
Strippable == Last(output) = "0" /\ BehindPoint /\ Len(output) > (IF Routine = "ftoa" THEN 1 ELSE 0)
Strip ==
    /\ phase = "strip"
    /\ IF Strippable THEN output' = Front(output) /\ place' = place - 1 /\ phase' = phase
       ELSE /\ phase' = "done" /\ place' = place
            /\ output' = IF Last(output) = "." THEN Front(output) ELSE output
    /\ UNCHANGED <<x, s_mant, s_exp, dec_exp, print_exp>>

Next ==
    MultiplyUp \/ DivideDown \/ AddBias \/ ChooseForm \/ EmitDigit \/ DigitsEnd \/ Strip
Spec == Init /\ [][Next]_vars /\ WF_vars(Next)

-----------------------------------------------------------------------------
TypeOK ==
    /\ s_mant \in (0..255) \X (0 .. Low - 1)
    /\ dec_exp \in -50..50 /\ print_exp \in BOOLEAN /\ place \in 0..10
    /\ Range(output) \subseteq Range(Digits) \cup {"-", "."}

(* A digit is never ten or more: what is left below a digit stays below    *)
(* one until it is multiplied by ten.                                      *)
DigitsAreDecimal == Range(output) \subseteq {Digits[k] : k \in 1..10} \cup {"-", "."}

(* Numbers of few decimal digits are written exactly, with the point in    *)
(* its place and nothing behind the last digit that counts.                *)
WritesNumeral == phase = "done" /\ x.text # <<>> => output = x.text /\ ~print_exp

(* The text and its NUL, with an exponent of three characters behind E,    *)
(* fit into the 16 bytes that the callers give (vfprintf.c:101).           *)
FitsBuffer == Len(output) + (IF print_exp THEN 4 ELSE 0) < 16

(* Each conversion ends. *)
Ends == <>(phase = "done")

(* "Divide input value until input value < 10.0." (ftoa.S:221): what is    *)
(* left is at least 1, a normalised mantissa, whatever was divided.        *)
DivisionNormalised ==
    phase \in {"down", "bias", "overflow", "choose"} => s_mant[1] >= 128
=============================================================================
