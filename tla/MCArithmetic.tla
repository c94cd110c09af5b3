---------------------------- MODULE MCArithmetic ----------------------------
(***************************************************************************)
(* Arithmetic on all pairs of bytes and some of words, seeds at the ends,  *)
(* floats with the numeral that is expected, and calls of fpmath.c on      *)
(* pairs of floats of three bits of fraction and four of exponent.         *)
(***************************************************************************)
EXTENDS Arithmetic, Sequences, SequencesExt

(* All pairs of single bytes, and pairs of words made of boundary bytes.   *)
Byte == 0..255
Edge == {0, 1, 9, 16, 127, 128, 144, 153, 255}
Words(bytes, n) == [1..n -> bytes]
MCOperands == (Words(Byte, 1) \X Words(Byte, 1)) \cup (Words(Edge, 2) \X Words(Edge, 2))
MCBytePairs == Words(Edge, 1) \X Words(Edge, 1)

(* The smallest and the largest seeds, some that 17 carries into bit 16.   *)
MCSeeds == {0, 1, 4095, 2^16 - 18, 2^16 - 17, 2^16 - 1}

(***************************************************************************)
(* Dyadic numbers n / 2^j with the numeral that their value has, and       *)
(* floats at the ends of the exponent's range.                             *)
(***************************************************************************)
Decimal == <<"0", "1", "2", "3", "4", "5", "6", "7", "8", "9">>
Log2(n) == CHOOSE k \in 0..30 : 2^k <= n /\ (k = 30 \/ n < 2^(k + 1))
Fraction(n) == (n - 2^Log2(n)) * 2^(23 - Log2(n))
Halved(f) == <<f \div 65536, f % 65536>>
Numeral(n) ==
    LET len == CHOOSE k \in 1..9 : n < 10^k /\ (k = 1 \/ n >= 10^(k - 1))
    IN  [k \in 1..len |-> Decimal[((n \div 10^(len - k)) % 10) + 1]]
Decimals(n, j) == [k \in 1..j |-> Decimal[((n \div 10^(j - k)) % 10) + 1]]
(* n / 2^j = n * 5^j / 10^j. *)
Text(n, j) ==
    LET v == n * 5^j
        used == CHOOSE u \in 0..j : (v % 10^(j - u) = 0) /\ (u = 0 \/ v % 10^(j - u + 1) # 0)
    IN  Numeral(v \div 10^j)
          \o (IF used = 0 THEN <<>> ELSE <<".">> \o SubSeq(Decimals(v % 10^j, j), 1, used))
Dyadic(s, n, j) ==
    [sign |-> s, exp |-> 127 + Log2(n) - j, mant |-> Halved(Fraction(n)),
     text |-> IF n * 5^j >= 10^7 THEN <<>> ELSE (IF s = 1 THEN <<"-">> ELSE <<>>) \o Text(n, j)]
Numbers == (1..24) \cup {99, 101, 999, 1001, 4096, 65535, 99999, 123456, 999999, 1234567, 8388607, 9999999}
Plain(exps) ==
    {[sign |-> s, exp |-> e, mant |-> m, text |-> <<>>] :
        s \in {0, 1}, e \in exps, m \in {<<0, 0>>, <<127, 65535>>, <<0, 1>>, <<32, 0>>, <<81, 2487>>}}
Exponents == {0, 1, 60, 101, 102, 110, 117, 118, 140, 150, 153, 154, 200, 254, 255}
(* ftoa.S writes numbers below 1 with all their zeros, and powers of ten   *)
(* from 100 on as zeros (MCHundred).                                       *)
MCFtoaFloats ==
    {Dyadic(s, n, 0) : s \in {0, 1}, n \in Numbers}
      \cup {d \in {Dyadic(0, n, j) : n \in Numbers, j \in 1..3} : d.exp >= 127} \cup Plain(Exponents)
MCPrintFloats ==
    {Dyadic(s, n, j) : s \in {0, 1}, n \in Numbers \cup {100, 1000, 100000, 1000000}, j \in 0..3} \cup Plain(Exponents)
MCHundred == {Dyadic(0, n, 0) : n \in {99, 100, 101}}

(* All pairs of floats with three bits of fraction: exponents of four      *)
(* bits, from both ends and the middle, that differ by less than a word of *)
(* six bits, by its width and by more.  Such a word is longer than the sum *)
(* of two mantissas and shorter than a quotient may be, as 32 bits are for *)
(* 23 bits of fraction.                                                    *)
SmallFloats == [sign : {0, 1}, exp : {0, 1, 2, 3, 4, 8, 9, 15}, mant : 0..7]
MCMathCalls == [op : {"add", "sub", "mul", "div"}, a : SmallFloats, b : SmallFloats]

None == {}
=============================================================================
