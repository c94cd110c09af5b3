----------------------------- MODULE MCLibtinyc -----------------------------
(***************************************************************************)
(* A program that uses libtinyc: one of its string functions on a memory   *)
(* of eight bytes, or its formatted output, again and again, with an 8 bit *)
(* int and a 12 bit long.                                                  *)
(***************************************************************************)
EXTENDS Libtinyc, SequencesExt, TLC

(***************************************************************************)
(* Moves between all areas, and two strings of up to two characters at 0   *)
(* and 4, a byte of other content behind the first.                        *)
(***************************************************************************)
Chars == {0, 1, 5, 7}
Two == {(0 :> f[1] @@ 1 :> f[2] @@ 2 :> 0 @@ 3 :> 5 @@ 4 :> f[3] @@ 5 :> f[4] @@ 6 :> 0 @@ 7 :> 0) : f \in [1..4 -> Chars]}
One == {m \in Two : m[0] = 1 /\ m[1] = 1}
Numbered == [a \in 0..7 |-> a]
StringCall(f, p, q, n, m) == [fn |-> f, p |-> p, q |-> q, n |-> n, mem |-> m]

Moves == {c \in {StringCall(f, p, q, n, Numbered) : f \in {"memmove", "memcpy"}, p \in 0..7, q \in 0..7, n \in 0..7} :
            /\ c.p + c.n <= 8 /\ c.q + c.n <= 8
            /\ c.fn = "memcpy" => c.p + c.n <= c.q \/ c.q + c.n <= c.p}
Sets == {c \in {StringCall("memset", p, v, n, Numbered) : p \in 0..7, v \in {0, 5, 9}, n \in 0..3} : c.p + c.n <= 8}
Copies == {StringCall(f, 0, 4, n, m) : f \in {"strcpy", "strncpy"}, n \in 0..4, m \in One}
Comparisons == {StringCall(f, 0, 4, n, m) : f \in {"strcmp", "strncmp", "memcmp"}, n \in 0..4, m \in Two}
Searches == {StringCall(f, 4, v, 0, m) : f \in {"strchr", "strrchr", "strlen"}, v \in -4..7, m \in One}
StringCalls == Moves \cup Sets \cup Copies \cup {c \in Comparisons : c.fn # "strcmp" \/ c.n = 0} \cup Searches

(***************************************************************************)
(* Formats of two pieces over every conversion, with the smallest, the     *)
(* largest and the middle values.  The text of a number is defined as the  *)
(* numeral that has its value.                                             *)
(***************************************************************************)
HexDigits == <<"0", "1", "2", "3", "4", "5", "6", "7", "8", "9", "a", "b", "c", "d", "e", "f">>
ValueOf(numeral, base) == FoldLeft(LAMBDA v, d : base * v + d, 0, numeral)
Numeral(v, base) ==
    LET n == CHOOSE n \in 1..4 : v < base^n /\ (n = 1 \/ v >= base^(n - 1))
        d == CHOOSE d \in [1..n -> 0 .. base - 1] : ValueOf(d, base) = v
    IN  [k \in 1..n |-> HexDigits[d[k] + 1]]
Signed(v) == IF v < 0 THEN <<"-">> \o Numeral(-v, 10) ELSE Numeral(v, 10)

Number(v) == <<[val |-> v, text |-> <<>>, exp |-> 0]>>
Str(s) == <<[val |-> 0, text |-> s, exp |-> 0]>>
Float(s, e) == <<[val |-> 0, text |-> s, exp |-> e]>>
Piece(spec, args, text) == [spec |-> spec, args |-> args, text |-> text]
Ints == {0, 9, 10, 127, -1, -128}
Longs == {0, 100, 255, 256, 2047, -2048, -1}
PlainPieces ==
    {Piece(<<"a">>, <<>>, <<"a">>), Piece(<<"%", "%">>, <<>>, <<"%">>),
     Piece(<<"%", "c">>, Str(<<"z">>), <<"z">>),
     Piece(<<"%", "s">>, Str(<<>>), <<>>), Piece(<<"%", "s">>, Str(<<"h", "i">>), <<"h", "i">>),
     Piece(<<"%", "5", "d">>, Number(7), <<"7">>),      \* a width is skipped
     Piece(<<"%", "l", "f">>, <<>>, <<>>),              \* an f is not a long code, and takes no argument
     Piece(<<"%", "f">>, Float(<<"1", ".", "5">>, 0), <<"1", ".", "5">>),
     Piece(<<"%", "f">>, Float(<<"1">>, -12), <<"1", "E", "-", "1", "2">>)}
Numbers ==
    {Piece(<<"%", "d">>, Number(v), Signed(v)) : v \in Ints}
      \cup {Piece(<<"%", "u">>, Number(v), Numeral(v % 256, 10)) : v \in Ints}
      \cup {Piece(<<"%", c>>, Number(v), Numeral(v % 256, 16)) : v \in Ints, c \in {"x", "p"}}
      \cup {Piece(<<"%", "l", "d">>, Number(v), Signed(v)) : v \in Longs}
      \cup {Piece(<<"%", "l", "u">>, Number(v), Numeral(v % 4096, 10)) : v \in Longs}
      \cup {Piece(<<"%", "l", "x">>, Number(v), Numeral(v % 4096, 16)) : v \in Longs}
(* The format ends within a conversion. *)
Broken == {Piece(<<"%">>, <<>>, <<>>), Piece(<<"%", "l">>, <<>>, <<>>)}
MCPieces == PlainPieces \cup Numbers \cup Broken
=============================================================================
