------------------------------ MODULE Printf ------------------------------
(***************************************************************************)
(* libtinyc's formatted output: vfprintf and the functions that call it,   *)
(* with the global __m65x_char_to_file that tells every emit_char where    *)
(* its character goes.  A step is one turn of vfprintf's loop; print_float *)
(* calls fprintf, so that turns of an inner vfprintf come between.         *)
(*                                                                         *)
(* A character is a string, a format or a text a sequence of characters    *)
(* without the NUL behind it.  The widths of int and long are constants,   *)
(* 16 and 32 bits in the code.                                             *)
(***************************************************************************)
EXTENDS Integers, Sequences, SequencesExt

CONSTANTS
    IntBits, LongBits,
    Pieces,     \* what formats are made of: spec, the characters in the format,
                \* args, the argument it takes (a sequence of at most one record
                \* with a number val, a text and the exponent exp of a float), and
                \* text, the characters it stands for
    MaxPieces   \* bound: pieces in a format

WidthsAssumption ==
    /\ IntBits \in Nat \ {0} /\ LongBits \in Nat /\ LongBits % 4 = 0 /\ IntBits <= LongBits
    /\ MaxPieces \in Nat

VARIABLES
    __m65x_char_to_file,
    call,       \* who was called, with the file and the pieces, or Idle
    frames,     \* the calls of vfprintf: format, position, arguments left, printed
    out, str,   \* what this call put to the output port, and into the string
    ret         \* what the last call returned
vars == <<__m65x_char_to_file, call, frames, out, str, ret>>

Idle == [fn |-> "none", file |-> "stdout", pieces |-> <<>>]
NUL == "\\0"
Digits == <<"0", "1", "2", "3", "4", "5", "6", "7", "8", "9", "a", "b", "c", "d", "e", "f">>

-----------------------------------------------------------------------------
(* The conversions.                                                        *)
TwoTo[n \in 0 .. LongBits] == IF n = 0 THEN 1 ELSE 2 * TwoTo[n - 1]
Unsigned(bits, v) == v % TwoTo[bits]

(* What is left of v when more and more of its last digits are divided     *)
(* off.                                                                    *)
Rests(v, base) ==
    LET val[k \in 0 .. LongBits] == IF k = 0 THEN v ELSE val[k - 1] \div base
    IN  val
print_udec(v) ==
    LET val == Rests(v, 10)
        c == CHOOSE c \in 1 .. LongBits : val[c] = 0 /\ \A k \in 1 .. c - 1 : val[k] # 0
    IN  [k \in 1 .. c |-> Digits[(val[c - k] % 10) + 1]]

print_sdec(v) == IF v < 0 THEN <<"-">> \o print_udec(Unsigned(LongBits, -v)) ELSE print_udec(v)

Nybbles == LongBits \div 4
print_hex(v) ==
    LET nybble == [k \in 0 .. Nybbles - 1 |-> Rests(v, 16)[k] % 16]
        i == CHOOSE i \in 0 .. Nybbles - 1 :
                 (nybble[i] # 0 \/ i = 0) /\ \A k \in i + 1 .. Nybbles - 1 : nybble[k] = 0
    IN  [k \in 1 .. i + 1 |-> Digits[nybble[i + 1 - k] + 1]]

(* What a conversion prints of its argument, %f apart. *)
Converted(code, arg) ==
    CASE code \in {<<"d">>, <<"l", "d">>} -> print_sdec(arg.val)
      [] code = <<"u">> -> print_udec(Unsigned(IntBits, arg.val))
      [] code = <<"l", "u">> -> print_udec(Unsigned(LongBits, arg.val))
      [] code \in {<<"x">>, <<"p">>} -> print_hex(Unsigned(IntBits, arg.val))
      [] code = <<"l", "x">> -> print_hex(Unsigned(LongBits, arg.val))
      [] OTHER -> arg.text                                          \* c, s

-----------------------------------------------------------------------------
Top == Last(frames)
Frame(fmt, args) == [fmt |-> fmt, pos |-> 1, args |-> args, printed |-> 0]
At(k) == IF k \in DOMAIN Top.fmt THEN Top.fmt[k] ELSE NUL

(* emit_char: fputc knows only stdout and stderr. *)
Emit(text) ==
    IF __m65x_char_to_file
    THEN /\ out' = IF call.file \in {"stdout", "stderr"} THEN out \o text ELSE out
         /\ str' = str
    ELSE str' = str \o text /\ out' = out

Codes == {"c", "l", "d", "u", "s", "p", "x", "%", "f"}
LongCodes == {"d", "u", "x"}
(* The switch behind a %: unknown characters are skipped (goto retry), the *)
(* NUL at the end of the format with them.  0 if there is no code.         *)
CodeAt ==
    LET codes == {k \in Top.pos + 1 .. Len(Top.fmt) : Top.fmt[k] \in Codes}
    IN  IF codes = {} THEN 0 ELSE CHOOSE k \in codes : \A l \in codes : k <= l

Running == call # Idle /\ frames # <<>>
(* Mutant: a turn that skips a character more. *)
AdvancedTooFar(to, args, n) == [Top EXCEPT !.pos = to + 1, !.args = args, !.printed = @ + n]
(* The top frame behind a turn that used n characters of the format. *)
Advanced(to, args, n) ==
    [Top EXCEPT !.pos = to, !.args = args, !.printed = @ + n]
Continue(f) == frames' = [frames EXCEPT ![Len(frames)] = f]

Literal ==
    /\ Running /\ At(Top.pos) \notin {"%", NUL}
    /\ Emit(<<At(Top.pos)>>)
    /\ Continue(Advanced(Top.pos + 1, Top.args, 1))
    /\ UNCHANGED <<__m65x_char_to_file, call, ret>>

Percent ==
    /\ Running /\ At(Top.pos) = "%" /\ CodeAt # 0 /\ At(CodeAt) = "%"
    /\ Emit(<<"%">>)
    /\ Continue(Advanced(CodeAt + 1, Top.args, 1))
    /\ UNCHANGED <<__m65x_char_to_file, call, ret>>

Convert ==
    /\ Running /\ At(Top.pos) = "%" /\ CodeAt # 0 /\ At(CodeAt) \notin {"%", "f"}
    /\ LET long == At(CodeAt) = "l"
           code == IF long THEN <<"l", At(CodeAt + 1)>> ELSE <<At(CodeAt)>>
       IN  IF long /\ code[2] \notin LongCodes
           THEN /\ code[2] # NUL                    \* then RunPast
                /\ Continue(Advanced(CodeAt + 2, Top.args, 0))
                /\ UNCHANGED <<out, str>>
           ELSE LET text == Converted(code, Head(Top.args))
                IN  /\ Emit(text)
                    /\ Continue(Advanced(CodeAt + Len(code), Tail(Top.args), Len(text)))
    /\ UNCHANGED <<__m65x_char_to_file, call, ret>>

(* %f: the text of the number without its exponent and, unless that is 0,  *)
(* fprintf (f, "E%d", exp).                                                *)
ConvertFloat ==
    /\ Running /\ At(Top.pos) = "%" /\ CodeAt # 0 /\ At(CodeAt) = "f"
    /\ LET float == Head(Top.args)
           outer == Advanced(CodeAt + 1, Tail(Top.args), Len(float.text))
           rest == [frames EXCEPT ![Len(frames)] = outer]
       IN  /\ Emit(float.text)
           /\ frames' = IF float.exp = 0 THEN rest
                        ELSE Append(rest, Frame(<<"E", "%", "d">>, <<[float EXCEPT !.val = float.exp]>>))
    /\ UNCHANGED <<__m65x_char_to_file, call, ret>>

(* The conversion is not finished when the format is: the scan goes on in  *)
(* the memory behind the format.                                           *)
RunPast ==
    /\ Running /\ At(Top.pos) = "%"
    /\ \/ CodeAt = 0
       \/ At(CodeAt) = "l" /\ At(CodeAt + 1) = NUL
    /\ call' = [call EXCEPT !.fn = "past"] /\ frames' = <<>>
    /\ UNCHANGED <<__m65x_char_to_file, out, str, ret>>

Terminator == IF __m65x_char_to_file THEN <<>> ELSE <<NUL>>

(* The inner vfprintf ends: it too terminates the string. *)
ReturnInner ==
    /\ Running /\ At(Top.pos) = NUL /\ Len(frames) > 1
    /\ Emit(Terminator)
    /\ frames' = [k \in 1 .. Len(frames) - 1 |->
                    IF k < Len(frames) - 1 THEN frames[k]
                    ELSE [frames[k] EXCEPT !.printed = @ + Top.printed]]
    /\ UNCHANGED <<__m65x_char_to_file, call, ret>>

(* Mutant: sprintf leaves the switch as it set it. *)
ResetNever == __m65x_char_to_file
Reset == IF call.fn = "sprintf" THEN TRUE ELSE __m65x_char_to_file
Return ==
    /\ Running /\ At(Top.pos) = NUL /\ Len(frames) = 1
    /\ Emit(Terminator)
    /\ frames' = <<>> /\ ret' = Top.printed
    /\ __m65x_char_to_file' = Reset
    /\ UNCHANGED call

-----------------------------------------------------------------------------
(* What a piece of a format stands for.  Its text is what the C library    *)
(* says: a number stands for the numeral that has its value.               *)
Weight(c) == CHOOSE d \in 0..15 : Digits[d + 1] = c
Value(text, base) ==
    LET value[k \in 0 .. Len(text)] == IF k = 0 THEN 0 ELSE base * value[k - 1] + Weight(text[k])
    IN  value[Len(text)]
IsNumeral(text, v, base) ==
    /\ Len(text) > 0 /\ \A k \in DOMAIN text : \E d \in 0 .. base - 1 : text[k] = Digits[d + 1]
    /\ Len(text) > 1 => text[1] # "0"
    /\ Value(text, base) = v
Fits(v, bits) == -TwoTo[bits] <= 2 * v /\ 2 * v < TwoTo[bits]
IsSigned(text, v) ==
    IF v < 0 THEN Len(text) > 0 /\ text[1] = "-" /\ IsNumeral(Tail(text), -v, 10)
    ELSE IsNumeral(text, v, 10)

(* The text of an argument under a conversion.                             *)
Shows(c, bits, arg, text) ==
    /\ c = "d" => Fits(arg.val, bits) /\ IsSigned(text, arg.val)
    /\ c = "u" => IsNumeral(text, Unsigned(bits, arg.val), 10)
    /\ c \in {"x", "p"} => IsNumeral(text, Unsigned(bits, arg.val), 16)
    /\ c \in {"c", "s"} => text = arg.text
    /\ c = "f" /\ arg.exp = 0 => text = arg.text
    /\ c = "f" /\ arg.exp # 0 =>
         /\ Fits(arg.exp, IntBits)
         /\ \E n \in 1..Len(text) :
                 /\ text = arg.text \o <<"E">> \o SubSeq(text, n + 1, Len(text))
                 /\ IsSigned(SubSeq(text, n + 1, Len(text)), arg.exp)

IsLiteral(p) == Len(p.spec) = 1 /\ p.spec[1] # "%" /\ p.args = <<>> /\ p.text = p.spec
(* The first code behind the % is the nth character.                       *)
CodeIn(p, n) ==
    /\ n \in 2..Len(p.spec) /\ p.spec[1] = "%" /\ p.spec[n] \in Codes
    /\ \A k \in 2..n - 1 : p.spec[k] \notin Codes
IsDirective(p, n) ==
    /\ CodeIn(p, n) /\ n = Len(p.spec) /\ p.spec[n] # "l"
    /\ IF p.spec[n] = "%" THEN p.args = <<>> /\ p.text = <<"%">>
       ELSE Len(p.args) = 1 /\ Shows(p.spec[n], IntBits, p.args[1], p.text)
IsLong(p, n) ==
    /\ CodeIn(p, n) /\ n + 1 = Len(p.spec) /\ p.spec[n] = "l"
    /\ IF p.spec[n + 1] \in LongCodes
       THEN Len(p.args) = 1 /\ Shows(p.spec[n + 1], LongBits, p.args[1], p.text)
       ELSE p.args = <<>> /\ p.text = <<>>
(* The format ends within the conversion.                                  *)
Unfinished(p) == p.spec \in {<<"%">>, <<"%", "l">>} /\ p.args = <<>>

Arguments == [val : Int, text : Seq(STRING), exp : Int]
PiecesAssumption ==
    \A p \in Pieces :
        /\ p.spec \in Seq(STRING \ {NUL}) /\ p.args \in Seq(Arguments) /\ p.text \in Seq(STRING)
        /\ \/ Unfinished(p) \/ IsLiteral(p)
           \/ \E n \in DOMAIN p.spec : IsDirective(p, n) \/ IsLong(p, n)

-----------------------------------------------------------------------------
(* The client calls a function, and takes what it returns.                 *)
Call(fn, file) ==
    /\ call = Idle
    /\ \E n \in 0..MaxPieces : \E ps \in [1..n -> Pieces] :
           /\ \A k \in 1..n - 1 : ~Unfinished(ps[k])
           /\ call' = [fn |-> fn, file |-> file, pieces |-> ps]
           /\ frames' = <<Frame(FlattenSeq([k \in 1..n |-> ps[k].spec]),
                                FlattenSeq([k \in 1..n |-> ps[k].args]))>>
    /\ out' = <<>> /\ str' = <<>> /\ ret' = 0

Printf == Call("printf", "stdout") /\ UNCHANGED __m65x_char_to_file
Fprintf == (\E f \in {"stdin", "stdout", "stderr"} : Call("fprintf", f)) /\ UNCHANGED __m65x_char_to_file
Sprintf == Call("sprintf", "string") /\ __m65x_char_to_file' = FALSE

Take ==
    /\ call # Idle /\ frames = <<>> /\ call.fn # "past"
    /\ call' = Idle /\ out' = <<>> /\ str' = <<>> /\ ret' = 0
    /\ UNCHANGED <<__m65x_char_to_file, frames>>

Init ==
    /\ __m65x_char_to_file = TRUE
    /\ call = Idle /\ frames = <<>> /\ out = <<>> /\ str = <<>> /\ ret = 0
Turn == Literal \/ Percent \/ Convert \/ ConvertFloat \/ RunPast \/ ReturnInner \/ Return
Next == Turn \/ Printf \/ Fprintf \/ Sprintf \/ Take
(* A call that has begun runs on; the client need not call.                *)
Spec == Init /\ [][Next]_vars /\ WF_vars(Turn)

-----------------------------------------------------------------------------
Text == FlattenSeq([k \in DOMAIN call.pieces |-> call.pieces[k].text])
Returned ==
    /\ call # Idle /\ call.fn # "past" /\ frames = <<>>
    /\ \A k \in DOMAIN call.pieces : ~Unfinished(call.pieces[k])

TypeOK ==
    /\ __m65x_char_to_file \in BOOLEAN
    /\ call.fn \in {"none", "printf", "fprintf", "sprintf", "past"}
    /\ Len(frames) <= 2 /\ \A k \in DOMAIN frames : frames[k].pos \in 1 .. Len(frames[k].fmt) + 1
    /\ ret \in Nat

(* printf and fprintf to stdout and stderr put the text of the format's    *)
(* pieces to the port, in order, numbers as numerals, and all of them      *)
(* return its length, whatever a call of sprintf before left behind.       *)
StreamGetsText ==
    Returned /\ call.fn # "sprintf" =>
        /\ out = IF call.file = "stdin" THEN <<>> ELSE Text
        /\ ret = Len(Text) /\ str = <<>>

(* sprintf puts the text and one NUL into the string and nothing to the    *)
(* port, where no number has an exponent.                                  *)
Exponents == \E k \in DOMAIN call.pieces : \E l \in DOMAIN call.pieces[k].text :
                 call.pieces[k].text[l] = "E"
StringGetsText ==
    Returned /\ call.fn = "sprintf" /\ ~Exponents =>
        str = Append(Text, NUL) /\ ret = Len(Text) /\ out = <<>>

(* The scan leaves the format only if a conversion in it has no code.      *)
PastOnlyUnfinished ==
    call.fn = "past" => \E k \in DOMAIN call.pieces : Unfinished(call.pieces[k])

(* Formatted output is complete, wherever it goes. *)
TextIsWritten == StreamGetsText /\ StringGetsText /\ PastOnlyUnfinished

(* Every call returns, or runs past the format.                            *)
CallsReturn == [](frames # <<>> => <>(frames = <<>>))
=============================================================================
