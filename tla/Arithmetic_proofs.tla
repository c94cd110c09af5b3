-------------------------- MODULE Arithmetic_proofs --------------------------
(***************************************************************************)
(* Proofs about Arithmetic.  Of Rand, for any seeds and any number of      *)
(* calls: each shift of xorshift can be undone by shifting on, because     *)
(* s ^ (s << k), shifted in the same way by k again, is s ^ (s << 2k): the *)
(* bits between cancel.  Of MultiByte, for operands of any length: one ADC *)
(* or SBC adds or subtracts a digit, and a chain of them the numbers.      *)
(***************************************************************************)
EXTENDS Arithmetic, Sequences, Induction

LEMMA XorBit ==
  ASSUME NEW u \in {0, 1}, NEW v \in {0, 1}
  PROVE  /\ Xor(u, v) \in {0, 1} /\ Xor(u, u) = 0
         /\ \A z \in {0, 1} : Xor(Xor(u, v), Xor(v, z)) = Xor(u, z)
         /\ Xor(Xor(u, v), v) = u
BY DEF Xor

LEMMA LeftWord == ASSUME NEW s \in Word, NEW k \in Nat PROVE XorLeft(s, k) \in Word
<1>1. ASSUME NEW b \in Positions, b >= k PROVE Xor(s[b], s[b - k]) \in {0, 1}
  <2>1. b - k \in Positions BY <1>1 DEF Positions
  <2>2. s[b] \in {0, 1} /\ s[b - k] \in {0, 1} BY <2>1 DEF Word
  <2>3. QED BY <2>2, XorBit
<1>2. QED BY <1>1 DEF XorLeft, Word

LEMMA RightWord == ASSUME NEW s \in Word, NEW k \in Nat PROVE XorRight(s, k) \in Word
<1>1. ASSUME NEW b \in Positions, b + k < 32 PROVE Xor(s[b], s[b + k]) \in {0, 1}
  <2>1. b + k \in Positions BY <1>1 DEF Positions
  <2>2. s[b] \in {0, 1} /\ s[b + k] \in {0, 1} BY <2>1 DEF Word
  <2>3. QED BY <2>2, XorBit
<1>2. QED BY <1>1 DEF XorRight, Word

(* Shifting by k twice is shifting by 2 * k. *)
LEMMA LeftTwice ==
  ASSUME NEW s \in Word, NEW k \in Nat
  PROVE  XorLeft(XorLeft(s, k), k) = XorLeft(s, 2 * k)
<1> DEFINE t == XorLeft(s, k)
<1>1. ASSUME NEW b \in Positions PROVE XorLeft(t, k)[b] = XorLeft(s, 2 * k)[b]
  <2>1. CASE b < k BY <2>1 DEF XorLeft, Positions
  <2>2. CASE k <= b /\ b < 2 * k
    <3>1. b - k \in Positions /\ ~(b - k >= k) BY <2>2 DEF Positions
    <3>2. XorLeft(t, k)[b] = Xor(Xor(s[b], s[b - k]), s[b - k]) BY <2>2, <3>1 DEF XorLeft
    <3>3. s[b] \in {0, 1} /\ s[b - k] \in {0, 1} BY <3>1 DEF Word
    <3>4. XorLeft(t, k)[b] = s[b] BY <3>2, <3>3, XorBit
    <3>5. QED BY <2>2, <3>4 DEF XorLeft, Positions
  <2>3. CASE b >= 2 * k
    <3>1. b - k \in Positions /\ b - k >= k /\ b >= k /\ (b - k) - k = b - 2 * k /\ b - 2 * k \in Positions
      BY <2>3 DEF Positions
    <3>2. XorLeft(t, k)[b] = Xor(Xor(s[b], s[b - k]), Xor(s[b - k], s[b - 2 * k])) BY <3>1 DEF XorLeft
    <3>3. s[b] \in {0, 1} /\ s[b - k] \in {0, 1} /\ s[b - 2 * k] \in {0, 1} BY <3>1 DEF Word
    <3>4. XorLeft(t, k)[b] = Xor(s[b], s[b - 2 * k]) BY <3>2, <3>3, XorBit
    <3>5. QED BY <2>3, <3>4 DEF XorLeft
  <2>4. QED BY <2>1, <2>2, <2>3 DEF Positions
<1>2. QED BY <1>1 DEF XorLeft

LEMMA RightTwice ==
  ASSUME NEW s \in Word, NEW k \in Nat
  PROVE  XorRight(XorRight(s, k), k) = XorRight(s, 2 * k)
<1> DEFINE t == XorRight(s, k)
<1>1. ASSUME NEW b \in Positions PROVE XorRight(t, k)[b] = XorRight(s, 2 * k)[b]
  <2>1. CASE b + k >= 32 BY <2>1 DEF XorRight, Positions
  <2>2. CASE b + k < 32 /\ b + 2 * k >= 32
    <3>1. b + k \in Positions /\ ~((b + k) + k < 32) BY <2>2 DEF Positions
    <3>2. XorRight(t, k)[b] = Xor(Xor(s[b], s[b + k]), s[b + k]) BY <2>2, <3>1 DEF XorRight
    <3>3. s[b] \in {0, 1} /\ s[b + k] \in {0, 1} BY <3>1 DEF Word
    <3>4. XorRight(t, k)[b] = s[b] BY <3>2, <3>3, XorBit
    <3>5. QED BY <2>2, <3>4 DEF XorRight, Positions
  <2>3. CASE b + 2 * k < 32
    <3>1. b + k \in Positions /\ (b + k) + k < 32 /\ b + k < 32 /\ (b + k) + k = b + 2 * k /\ b + 2 * k \in Positions
      BY <2>3 DEF Positions
    <3>2. XorRight(t, k)[b] = Xor(Xor(s[b], s[b + k]), Xor(s[b + k], s[b + 2 * k])) BY <3>1 DEF XorRight
    <3>3. s[b] \in {0, 1} /\ s[b + k] \in {0, 1} /\ s[b + 2 * k] \in {0, 1} BY <3>1 DEF Word
    <3>4. XorRight(t, k)[b] = Xor(s[b], s[b + 2 * k]) BY <3>2, <3>3, XorBit
    <3>5. QED BY <2>3, <3>4 DEF XorRight
  <2>4. QED BY <2>1, <2>2, <2>3 DEF Positions
<1>2. QED BY <1>1 DEF XorRight

(* A shift by 32 or more leaves nothing to combine. *)
LEMMA FarShift ==
  ASSUME NEW s \in Word, NEW k \in Nat, k >= 32
  PROVE  XorLeft(s, k) = s /\ XorRight(s, k) = s
<1>1. XorLeft(s, k) = [b \in Positions |-> s[b]] BY DEF XorLeft, Positions
<1>2. XorRight(s, k) = [b \in Positions |-> s[b]] BY DEF XorRight, Positions
<1>3. QED BY <1>1, <1>2 DEF Word

LEMMA Left5Undone == ASSUME NEW s \in Word PROVE Undo5(XorLeft(s, 5)) = s
<1>1. XorLeft(XorLeft(s, 5), 5) = XorLeft(s, 10) BY LeftTwice
<1>2. XorLeft(XorLeft(s, 10), 10) = XorLeft(s, 20) BY LeftTwice
<1>3. XorLeft(XorLeft(s, 20), 20) = XorLeft(s, 40) BY LeftTwice
<1>4. QED BY <1>1, <1>2, <1>3, FarShift DEF Undo5

LEMMA Left13Undone == ASSUME NEW s \in Word PROVE Undo13(XorLeft(s, 13)) = s
<1>1. XorLeft(XorLeft(s, 13), 13) = XorLeft(s, 26) BY LeftTwice
<1>2. XorLeft(XorLeft(s, 26), 26) = XorLeft(s, 52) BY LeftTwice
<1>3. QED BY <1>1, <1>2, FarShift DEF Undo13

LEMMA Right17Undone == ASSUME NEW s \in Word PROVE XorRight(XorRight(s, 17), 17) = s
<1>1. XorRight(XorRight(s, 17), 17) = XorRight(s, 34) BY RightTwice
<1>2. QED BY <1>1, FarShift

LEMMA XorshiftUndone ==
  ASSUME NEW s \in Word
  PROVE  Undo13(XorRight(Undo5(Xorshift(s)), 17)) = s
<1> DEFINE l == XorLeft(s, 13)
           r == XorRight(l, 17)
<1>1. l \in Word /\ r \in Word BY LeftWord, RightWord
<1>2. Undo5(Xorshift(s)) = r BY <1>1, Left5Undone DEF Xorshift
<1>3. XorRight(r, 17) = l BY <1>1, Right17Undone
<1>4. QED BY <1>2, <1>3, Left13Undone

LEMMA XorshiftWord == ASSUME NEW s \in Word PROVE Xorshift(s) \in Word
BY LeftWord, RightWord DEF Xorshift

(* Zero, and only zero, is followed by zero. *)
LEMMA ZeroUnshifted == ASSUME NEW k \in Nat PROVE XorLeft(Zero, k) = Zero /\ XorRight(Zero, k) = Zero
<1>1. ASSUME NEW b \in Positions, b >= k PROVE Xor(Zero[b], Zero[b - k]) = 0
  <2>1. b - k \in Positions BY <1>1 DEF Positions
  <2>2. QED BY <2>1 DEF Zero, Xor
<1>2. ASSUME NEW b \in Positions, b + k < 32 PROVE Xor(Zero[b], Zero[b + k]) = 0
  <2>1. b + k \in Positions BY <1>2 DEF Positions
  <2>2. QED BY <2>1 DEF Zero, Xor
<1>3. XorLeft(Zero, k) = [b \in Positions |-> 0] BY <1>1 DEF XorLeft, Zero
<1>4. XorRight(Zero, k) = [b \in Positions |-> 0] BY <1>2 DEF XorRight, Zero
<1>5. QED BY <1>3, <1>4 DEF Zero

LEMMA XorshiftNotZero == ASSUME NEW s \in Word, Xorshift(s) = Zero PROVE s = Zero
<1>1. Undo5(Zero) = Zero BY ZeroUnshifted DEF Undo5
<1>2. Undo13(Zero) = Zero BY ZeroUnshifted DEF Undo13
<1>3. Undo13(XorRight(Undo5(Zero), 17)) = Zero BY <1>1, <1>2, ZeroUnshifted
<1>4. QED BY <1>3, XorshiftUndone

LEMMA BitsWord == ASSUME NEW v PROVE Bits(v) \in Word
BY DEF Bits, Word

LEMMA Powers ==
  /\ 2^0 = 1 /\ 2^1 = 2 /\ 2^2 = 4 /\ 2^3 = 8 /\ 2^4 = 16 /\ 2^5 = 32
  /\ 2^6 = 64 /\ 2^7 = 128 /\ 2^8 = 256 /\ 2^9 = 512 /\ 2^10 = 1024 /\ 2^11 = 2048
  /\ 2^12 = 4096 /\ 2^13 = 8192 /\ 2^14 = 16384 /\ 2^15 = 32768 /\ 2^16 = 65536
OBVIOUS

(* A number from 1 to 2^17 - 1 has a bit set among its first 17: without   *)
(* one it is twice its half all the way up, to where nothing is left.      *)
LEMMA HasBit ==
  ASSUME NEW v \in 1 .. 2^17 - 1
  PROVE  \E b \in 0 .. 16 : (v \div 2^b) % 2 = 1
<1> SUFFICES ASSUME \A b \in 0 .. 16 : (v \div 2^b) % 2 # 1 PROVE FALSE
  OBVIOUS
<1>1. v \in Nat /\ v # 0 /\ v < 131072
  <2>1. 2^17 = 131072 OBVIOUS
  <2> QED BY <2>1
<1> DEFINE q(b) == v \div 2^b
<1>2. \A b \in 0 .. 16 : q(b) % 2 # 1 OBVIOUS
<1>3. q(16) = 0 BY <1>1, <1>2, Powers
<1>4. q(15) = 0 BY <1>1, <1>2, <1>3, Powers
<1>5. q(14) = 0 BY <1>1, <1>2, <1>4, Powers
<1>6. q(13) = 0 BY <1>1, <1>2, <1>5, Powers
<1>7. q(12) = 0 BY <1>1, <1>2, <1>6, Powers
<1>8. q(11) = 0 BY <1>1, <1>2, <1>7, Powers
<1>9. q(10) = 0 BY <1>1, <1>2, <1>8, Powers
<1>10. q(9) = 0 BY <1>1, <1>2, <1>9, Powers
<1>11. q(8) = 0 BY <1>1, <1>2, <1>10, Powers
<1>12. q(7) = 0 BY <1>1, <1>2, <1>11, Powers
<1>13. q(6) = 0 BY <1>1, <1>2, <1>12, Powers
<1>14. q(5) = 0 BY <1>1, <1>2, <1>13, Powers
<1>15. q(4) = 0 BY <1>1, <1>2, <1>14, Powers
<1>16. q(3) = 0 BY <1>1, <1>2, <1>15, Powers
<1>17. q(2) = 0 BY <1>1, <1>2, <1>16, Powers
<1>18. q(1) = 0 BY <1>1, <1>2, <1>17, Powers
<1>19. q(0) = 0 BY <1>1, <1>2, <1>18, Powers
<1> QED BY <1>1, <1>19, Powers

LEMMA SeedNotZero ==
  ASSUME NEW newstate \in Seeds PROVE Seeded(newstate) \in Word /\ Seeded(newstate) # Zero
<1>1. newstate \in 0 .. 2^16 - 1 BY SeedsAssumption
<1>2. PICK b \in 0..16 : ((newstate + 17) \div 2^b) % 2 = 1
  <2>1. 2^16 = 65536 /\ 2^17 = 131072 BY Powers
  <2>2. newstate + 17 \in 1 .. 2^17 - 1 BY <1>1, <2>1
  <2> QED BY <2>2, HasBit
<1>3. Bits(newstate + 17)[b] = 1 BY <1>2 DEF Bits, Positions
<1>4. Zero[b] = 0 BY DEF Zero, Positions
<1>5. newstate + 17 \in Nat BY <1>1
<1>6. QED BY <1>3, <1>4, <1>5, BitsWord DEF Seeded

LEMMA FirstNotZero == Bits(1) \in Word /\ Bits(1) # Zero
<1>1. Bits(1)[0] = (1 \div 2^0) % 2 BY DEF Bits, Positions
<1>2. 2^0 = 1 OBVIOUS
<1>3. Bits(1)[0] = 1 BY <1>1, <1>2
<1>4. Zero[0] = 0 BY DEF Zero, Positions
<1>5. QED BY <1>3, <1>4, BitsWord

LEMMA ReturnedBits == ASSUME NEW s \in Word PROVE Returned(s) \in [0..14 -> {0, 1}]
BY DEF Returned, Word, Positions

(* The state, the result and the number of calls have their types, and the *)
(* state is not zero.                                                      *)
LEMMA SafeInductive == Spec => [](TypeOK /\ NeverSticks)
<1>1. Init => TypeOK /\ NeverSticks
  BY FirstNotZero, ReturnedBits DEF Init, TypeOK, NeverSticks, Zero, Word
<1>2. TypeOK /\ NeverSticks /\ [Next]_vars => (TypeOK /\ NeverSticks)'
  <2> SUFFICES ASSUME TypeOK, NeverSticks, [Next]_vars PROVE (TypeOK /\ NeverSticks)'
    OBVIOUS
  <2>1. CASE rand
    <3>1. state' \in Word BY <2>1, XorshiftWord DEF rand, TypeOK
    <3>2. state' # Zero BY <2>1, XorshiftNotZero DEF rand, TypeOK, NeverSticks
    <3>3. QED BY <2>1, <3>1, <3>2, ReturnedBits DEF rand, TypeOK, NeverSticks
  <2>2. ASSUME NEW s \in Seeds, srand(s) PROVE (TypeOK /\ NeverSticks)'
    BY <2>2, SeedNotZero DEF srand, TypeOK, NeverSticks
  <2>3. CASE UNCHANGED vars BY <2>3 DEF vars, TypeOK, NeverSticks
  <2>4. QED BY <2>1, <2>2, <2>3 DEF Next
<1>3. QED BY <1>1, <1>2, PTL DEF Spec

(* The types hold whatever seeds are set, however often rand is called. *)
THEOREM RandKeepsTypes == Spec => []TypeOK
BY SafeInductive, PTL

(* No seed and no number of calls bring the generator to zero, where it    *)
(* would stay (rand.c:17).                                                 *)
THEOREM RandNeverSticks == Spec => []NeverSticks
BY SafeInductive, PTL

(* Every call of rand can be undone, so that no two states have the same   *)
(* successor (rand.c:17 to 21).                                            *)
THEOREM RandReversible == Spec => Reversible
<1>1. TypeOK /\ [Next]_vars => [rand => state = Undo13(XorRight(Undo5(state'), 17))]_vars
  BY XorshiftUndone DEF TypeOK, rand, vars
<1>2. QED BY <1>1, RandKeepsTypes, PTL DEF Spec, Reversible

-----------------------------------------------------------------------------
(* Chains of ADCs and SBCs.                                                *)
(* The functions that Power and Prefix are the last values of: their       *)
(* equations have solutions, and these go on from one n to the next.       *)
PowerStep(b) == [k \in Nat \ {0} |-> [v \in Nat |-> b * v]]
LEMMA PowerFollows ==
  ASSUME NEW b \in Nat, NEW n \in Nat
  PROVE  \E g \in [0 .. n -> Nat] : Follows(g, n, 1, PowerStep(b)) /\ B!Power(b, n) = g[n]
<1> DEFINE upto[k \in 0 .. n] == IF k = 0 THEN 1 ELSE b * upto[k - 1]
           Solves(g) == g = [k \in 0 .. n |-> IF k = 0 THEN 1 ELSE b * g[k - 1]]
<1>1. B!Power(b, n) = upto[n] BY DEF B!Power
<1>2. upto = CHOOSE g : Solves(g) OBVIOUS
<1>3. PowerStep(b) \in [Nat \ {0} -> [Nat -> Nat]] BY DEF PowerStep
<1>4. PICK g \in [0 .. n -> Nat] : Follows(g, n, 1, PowerStep(b)) BY <1>3, StepwiseExists
<1>5. Solves(g)
  <2>1. ASSUME NEW k \in 0 .. n, k # 0 PROVE g[k] = b * g[k - 1]
    <3>1. k \in 1 .. n /\ k \in Nat \ {0} /\ g[k - 1] \in Nat BY <2>1
    <3> QED BY <1>4, <3>1 DEF Follows, PowerStep
  <2> QED BY <1>4, <2>1 DEF Follows
<1>6. Solves(upto)
  <2> HIDE DEF Solves, upto
  <2> QED BY <1>2, <1>5
<1>7. upto = [k \in 0 .. n |-> IF k = 0 THEN 1 ELSE b * upto[k - 1]] BY <1>6
<1> HIDE DEF Solves, upto
<1>8. \A k \in 0 .. n : upto[k] = IF k = 0 THEN 1 ELSE b * upto[k - 1]
  BY <1>7
<1> DEFINE S == {k \in Nat : k <= n => upto[k] \in Nat}
<1>9. Nat \subseteq S
  <2>1. 0 \in S BY <1>8
  <2>2. ASSUME NEW k \in Nat, k \in S PROVE k + 1 \in S
    <3> SUFFICES ASSUME k + 1 <= n PROVE upto[k + 1] \in Nat OBVIOUS
    <3>1. upto[k] \in Nat /\ k + 1 \in 0 .. n /\ k + 1 # 0 /\ (k + 1) - 1 = k BY <2>2
    <3>2. upto[k + 1] = b * upto[k] BY <1>8, <3>1
    <3> QED BY <3>1, <3>2
  <2> HIDE DEF S
  <2> QED BY <2>1, <2>2, InductionOverNat
<1>10. ASSUME NEW k \in 1 .. n PROVE upto[k] = PowerStep(b)[k][upto[k - 1]]
  <2>1. k \in 0 .. n /\ k # 0 /\ k - 1 \in Nat /\ k - 1 <= n /\ k \in Nat \ {0} OBVIOUS
  <2>2. upto[k - 1] \in Nat BY <1>9, <2>1
  <2> QED BY <1>8, <2>1, <2>2 DEF PowerStep
<1>11. upto \in [0 .. n -> Nat]
  <2>1. \A k \in 0 .. n : upto[k] \in Nat BY <1>9
  <2> QED BY <1>7, <2>1
<1>12. Follows(upto, n, 1, PowerStep(b)) BY <1>8, <1>10 DEF Follows
<1> QED BY <1>1, <1>11, <1>12

LEMMA PowerIs ==
  ASSUME NEW b \in Nat, b > 0, NEW n \in Nat
  PROVE  /\ B!Power(b, 0) = 1 /\ B!Power(b, n) \in Nat /\ B!Power(b, n) > 0
         /\ B!Power(b, n + 1) = b * B!Power(b, n)
<1>1. ASSUME NEW k \in Nat PROVE B!Power(b, k + 1) = b * B!Power(b, k) /\ B!Power(b, k) \in Nat
  <2>1. PICK g \in [0 .. k -> Nat] : Follows(g, k, 1, PowerStep(b)) /\ B!Power(b, k) = g[k]
    BY PowerFollows
  <2>2. k + 1 \in Nat OBVIOUS
  <2>3. PICK h \in [0 .. k + 1 -> Nat] :
            Follows(h, k + 1, 1, PowerStep(b)) /\ B!Power(b, k + 1) = h[k + 1]
    BY <2>2, PowerFollows
  <2>4. Follows(h, k, 1, PowerStep(b)) BY <2>3 DEF Follows
  <2>5. g[k] = h[k] BY <2>1, <2>4, StepwiseUnique
  <2>6. k + 1 \in 1 .. k + 1 /\ (k + 1) - 1 = k /\ k + 1 \in Nat \ {0} OBVIOUS
  <2>7. h[k + 1] = PowerStep(b)[k + 1][h[k]] BY <2>3, <2>6 DEF Follows
  <2>8. h[k] \in Nat OBVIOUS
  <2> QED BY <2>1, <2>3, <2>5, <2>6, <2>7, <2>8 DEF PowerStep
<1>2. B!Power(b, 0) = 1
  <2>1. PICK z \in Nat : z = 0 OBVIOUS
  <2>2. PICK g \in [0 .. z -> Nat] : Follows(g, z, 1, PowerStep(b)) /\ B!Power(b, z) = g[z]
    BY PowerFollows
  <2> QED BY <2>1, <2>2 DEF Follows
<1> DEFINE S == {k \in Nat : B!Power(b, k) > 0}
<1>3. Nat \subseteq S
  <2>1. 0 \in S BY <1>2
  <2>2. ASSUME NEW k \in Nat, k \in S PROVE k + 1 \in S
    <3>1. PICK p \in Nat : p = B!Power(b, k) BY <1>1
    <3>2. p > 0 /\ B!Power(b, k + 1) = b * p BY <1>1, <2>2, <3>1
    <3>3. b * p > 0 BY <3>2
    <3> QED BY <3>2, <3>3
  <2> HIDE DEF S
  <2> QED BY <2>1, <2>2, InductionOverNat
<1> QED BY <1>1, <1>2, <1>3

-----------------------------------------------------------------------------
LEMMA DigitIs == ASSUME NEW b, NEW v \in B!Byte PROVE B!Digit(b, v) \in Nat
BY DEF B!Digit, B!Byte

PrefixStep(b, bs) ==
    [k \in Nat \ {0} |-> [v \in Nat |->
        IF k <= Len(bs) THEN v + B!Digit(b, bs[k]) * B!Power(b, k - 1) ELSE v]]
LEMMA PrefixFollows ==
  ASSUME NEW b \in Nat, b > 0, NEW bs \in Seq(B!Byte), NEW n \in 0 .. Len(bs)
  PROVE  /\ PrefixStep(b, bs) \in [Nat \ {0} -> [Nat -> Nat]]
         /\ \E g \in [0 .. n -> Nat] : Follows(g, n, 0, PrefixStep(b, bs)) /\ B!Prefix(b, bs, n) = g[n]
<1> DEFINE T(k) == B!Digit(b, bs[k]) * B!Power(b, k - 1)
           upto[k \in 0 .. n] == IF k = 0 THEN 0 ELSE upto[k - 1] + T(k)
           Solves(g) == g = [k \in 0 .. n |-> IF k = 0 THEN 0 ELSE g[k - 1] + T(k)]
<1>0. n \in Nat /\ Len(bs) \in Nat OBVIOUS
<1>1. B!Prefix(b, bs, n) = upto[n] BY DEF B!Prefix
<1>2. upto = CHOOSE g : Solves(g) OBVIOUS
<1>t. ASSUME NEW k \in 1 .. Len(bs) PROVE T(k) \in Nat
  <2>1. bs[k] \in B!Byte BY <1>0
  <2>2. k - 1 \in Nat BY <1>0
  <2>3. B!Digit(b, bs[k]) \in Nat /\ B!Power(b, k - 1) \in Nat BY <2>1, <2>2, DigitIs, PowerIs
  <2> QED BY <2>3
<1>s. \A k \in Nat \ {0}, v \in Nat : PrefixStep(b, bs)[k][v] = IF k <= Len(bs) THEN v + T(k) ELSE v
  BY DEF PrefixStep
<1>3. PrefixStep(b, bs) \in [Nat \ {0} -> [Nat -> Nat]]
  <2>1. ASSUME NEW k \in Nat \ {0}, NEW v \in Nat
        PROVE  (IF k <= Len(bs) THEN v + T(k) ELSE v) \in Nat
    <3>1. CASE k <= Len(bs)
      <4>1. T(k) \in Nat BY <1>0, <1>t, <3>1
      <4> HIDE DEF T
      <4> QED BY <3>1, <4>1
    <3> QED BY <3>1
  <2> QED BY <2>1 DEF PrefixStep
<1> HIDE DEF T
<1>4. PICK g \in [0 .. n -> Nat] : Follows(g, n, 0, PrefixStep(b, bs)) BY <1>0, <1>3, StepwiseExists
<1>5. Solves(g)
  <2>1. ASSUME NEW k \in 0 .. n, k # 0 PROVE g[k] = g[k - 1] + T(k)
    <3>1. k \in 1 .. n /\ k \in Nat \ {0} /\ k <= Len(bs) /\ g[k - 1] \in Nat BY <1>0, <2>1
    <3> QED BY <1>4, <1>s, <3>1 DEF Follows
  <2> QED BY <1>4, <2>1 DEF Follows
<1>6. Solves(upto)
  <2> HIDE DEF Solves, upto
  <2> QED BY <1>2, <1>5
<1>7. upto = [k \in 0 .. n |-> IF k = 0 THEN 0 ELSE upto[k - 1] + T(k)] BY <1>6
<1> HIDE DEF Solves, upto
<1>8. \A k \in 0 .. n : upto[k] = IF k = 0 THEN 0 ELSE upto[k - 1] + T(k)
  BY <1>7
<1> DEFINE S == {k \in Nat : k <= n => upto[k] \in Nat}
<1>9. Nat \subseteq S
  <2>1. 0 \in S BY <1>0, <1>8
  <2>2. ASSUME NEW k \in Nat, k \in S PROVE k + 1 \in S
    <3> SUFFICES ASSUME k + 1 <= n PROVE upto[k + 1] \in Nat OBVIOUS
    <3>1. upto[k] \in Nat /\ k + 1 \in 0 .. n /\ k + 1 # 0 /\ (k + 1) - 1 = k /\ k + 1 \in 1 .. Len(bs)
      BY <1>0, <2>2
    <3>2. upto[k + 1] = upto[k] + T(k + 1) BY <1>8, <3>1
    <3>3. T(k + 1) \in Nat BY <1>t, <3>1
    <3> QED BY <3>1, <3>2, <3>3
  <2> HIDE DEF S
  <2> QED BY <2>1, <2>2, InductionOverNat
<1>10. ASSUME NEW k \in 1 .. n PROVE upto[k] = PrefixStep(b, bs)[k][upto[k - 1]]
  <2>1. k \in 0 .. n /\ k # 0 /\ k - 1 \in Nat /\ k - 1 <= n /\ k \in Nat \ {0} /\ k <= Len(bs)
    BY <1>0
  <2>2. upto[k - 1] \in Nat BY <1>9, <2>1
  <2> QED BY <1>8, <1>s, <2>1, <2>2
<1>11. upto \in [0 .. n -> Nat]
  <2>1. \A k \in 0 .. n : upto[k] \in Nat BY <1>0, <1>9
  <2> QED BY <1>7, <2>1
<1>12. Follows(upto, n, 0, PrefixStep(b, bs)) BY <1>0, <1>8, <1>10 DEF Follows
<1> QED BY <1>1, <1>3, <1>11, <1>12

LEMMA PrefixIs ==
  ASSUME NEW b \in Nat, b > 0, NEW bs \in Seq(B!Byte), NEW n \in 0 .. Len(bs)
  PROVE  /\ B!Prefix(b, bs, 0) = 0 /\ B!Prefix(b, bs, n) \in Nat
         /\ n < Len(bs) => B!Prefix(b, bs, n + 1) = B!Prefix(b, bs, n) + B!Digit(b, bs[n + 1]) * B!Power(b, n)
<1>0. n \in Nat /\ Len(bs) \in Nat OBVIOUS
<1>1. PICK g \in [0 .. n -> Nat] : Follows(g, n, 0, PrefixStep(b, bs)) /\ B!Prefix(b, bs, n) = g[n]
  BY PrefixFollows
<1>2. g[n] \in Nat BY <1>0
<1>3. B!Prefix(b, bs, 0) = 0
  <2>1. PICK z \in Nat : z = 0 OBVIOUS
  <2>2. z \in 0 .. Len(bs) BY <1>0, <2>1
  <2>3. PICK h \in [0 .. z -> Nat] : Follows(h, z, 0, PrefixStep(b, bs)) /\ B!Prefix(b, bs, z) = h[z]
    BY <2>2, PrefixFollows
  <2> QED BY <2>1, <2>3 DEF Follows
<1>4. ASSUME n < Len(bs)
      PROVE  B!Prefix(b, bs, n + 1) = B!Prefix(b, bs, n) + B!Digit(b, bs[n + 1]) * B!Power(b, n)
  <2>1. n + 1 \in 0 .. Len(bs) /\ n + 1 \in 1 .. n + 1 /\ n + 1 \in Nat \ {0} /\ (n + 1) - 1 = n
        /\ n + 1 <= Len(bs)
    BY <1>0, <1>4
  <2>2. PICK h \in [0 .. n + 1 -> Nat] :
            Follows(h, n + 1, 0, PrefixStep(b, bs)) /\ B!Prefix(b, bs, n + 1) = h[n + 1]
    BY <2>1, PrefixFollows
  <2>3. Follows(h, n, 0, PrefixStep(b, bs)) BY <1>0, <2>2 DEF Follows
  <2>4. g[n] = h[n] BY <1>0, <1>1, <2>3, StepwiseUnique
  <2>5. h[n + 1] = PrefixStep(b, bs)[n + 1][h[n]] BY <2>1, <2>2 DEF Follows
  <2>6. h[n] \in Nat BY <1>0
  <2>7. PrefixStep(b, bs)[n + 1][h[n]] = h[n] + B!Digit(b, bs[n + 1]) * B!Power(b, n)
    BY <2>1, <2>6 DEF PrefixStep
  <2> QED BY <1>1, <2>2, <2>4, <2>5, <2>7
<1> QED BY <1>1, <1>2, <1>3, <1>4

(* A byte behind the first n leaves their number alone. *)
LEMMA PrefixAppend ==
  ASSUME NEW b \in Nat, b > 0, NEW bs \in Seq(B!Byte), NEW v \in B!Byte, NEW n \in 0 .. Len(bs)
  PROVE  B!Prefix(b, Append(bs, v), n) = B!Prefix(b, bs, n)
<1> DEFINE cs == Append(bs, v)
<1>1. cs \in Seq(B!Byte) /\ Len(cs) = Len(bs) + 1 /\ Len(bs) \in Nat /\ \A k \in 1 .. Len(bs) : cs[k] = bs[k]
  OBVIOUS
<1> HIDE DEF cs
<1> DEFINE S == {k \in Nat : k <= Len(bs) => B!Prefix(b, cs, k) = B!Prefix(b, bs, k)}
<1>2. 0 \in S
  <2>1. PICK z \in Nat : z = 0 OBVIOUS
  <2>2. z \in 0 .. Len(bs) /\ z \in 0 .. Len(cs) BY <1>1, <2>1
  <2> QED BY <1>1, <2>1, <2>2, PrefixIs
<1>3. ASSUME NEW k \in Nat, k \in S PROVE k + 1 \in S
  <2> SUFFICES ASSUME k + 1 <= Len(bs) PROVE B!Prefix(b, cs, k + 1) = B!Prefix(b, bs, k + 1) OBVIOUS
  <2>1. k \in 0 .. Len(bs) /\ k \in 0 .. Len(cs) /\ k < Len(bs) /\ k < Len(cs) /\ k + 1 \in 1 .. Len(bs)
    BY <1>1
  <2>2. B!Prefix(b, cs, k) = B!Prefix(b, bs, k) BY <1>3, <2>1
  <2>3. cs[k + 1] = bs[k + 1] BY <1>1, <2>1
  <2>4. B!Prefix(b, cs, k + 1) = B!Prefix(b, cs, k) + B!Digit(b, cs[k + 1]) * B!Power(b, k)
    BY <1>1, <2>1, PrefixIs
  <2>5. B!Prefix(b, bs, k + 1) = B!Prefix(b, bs, k) + B!Digit(b, bs[k + 1]) * B!Power(b, k)
    BY <2>1, PrefixIs
  <2> QED BY <2>2, <2>3, <2>4, <2>5
<1>4. Nat \subseteq S
  <2> HIDE DEF S
  <2> QED BY <1>2, <1>3, InductionOverNat
<1>5. n \in Nat /\ n <= Len(bs) BY <1>1
<1> QED BY <1>4, <1>5 DEF cs

-----------------------------------------------------------------------------
(* One byte of the chain. *)
LEMMA ChainByte == \A v : v \in B!Byte <=> v \in Int /\ 0 <= v /\ v <= 255
BY DEF B!Byte

LEMMA CarryRange == ASSUME NEW p PROVE B!Carry(p) \in {0, 1} /\ (B!Carry(p) = 1 <=> "C" \in p)
BY DEF B!Carry

LEMMA LowByte ==
  ASSUME NEW v \in Int, v >= -256, v < 512
  PROVE  B!Lo(v) = IF v < 0 THEN v + 256 ELSE IF v < 256 THEN v ELSE v - 256
BY DEF B!Lo

LEMMA Nibbles ==
  ASSUME NEW v \in B!Byte
  PROVE  /\ v \div 16 \in 0 .. 15 /\ v % 16 \in 0 .. 15 /\ v = 16 * (v \div 16) + (v % 16)
BY ChainByte

LEMMA TwoNibbles ==
  ASSUME NEW h \in 0 .. 15, NEW l \in 0 .. 15, NEW q, q = 16 * h + l
  PROVE  q \in 0 .. 255 /\ q \div 16 = h /\ q % 16 = l
OBVIOUS

(* What one instruction of the chain owes, to base b: its digit and the    *)
(* carry are the sum, or the difference, of the digits and the old carry.  *)
Sums(b, r, p, a, v) ==
    B!Digit(b, r.val) + b * B!Carry(r.psr) = B!Digit(b, a) + B!Digit(b, v) + B!Carry(p)
Subtracts(b, r, p, a, v) ==
    B!Digit(b, r.val)
      = B!Digit(b, a) - B!Digit(b, v) - (1 - B!Carry(p)) + b * (1 - B!Carry(r.psr))
Leaves(b, r, p) ==
    /\ r.val \in B!Byte /\ r.psr \in SUBSET B!Flags /\ ("D" \in r.psr <=> "D" \in p)
Negative(p) == "N" \in p <=> "V" \notin p

LEMMA AdcBinaryIs ==
  ASSUME NEW p \in SUBSET B!Flags, NEW a \in B!Byte, NEW v \in B!Byte
  PROVE  LET r == B!AdcBinary(p, a, v)
         IN  /\ Leaves(256, r, p) /\ Sums(256, r, p, a, v)
             /\ Negative(r.psr) <=> B!Signed(a) + B!Signed(v) + B!Carry(p) < 0
<1> DEFINE sum == a + v + B!Carry(p)
           q == B!Lo(sum)
           ovf == (q >= 128) # (B!Signed(a) + B!Signed(v) + B!Carry(p) < 0)
           f == B!SetArith(p, sum > 255, ovf, q = 0, q >= 128)
           r == B!AdcBinary(p, a, v)
<1>1. B!Carry(p) \in {0, 1} /\ a \in 0 .. 255 /\ v \in 0 .. 255 BY CarryRange, ChainByte
<1>2. q = IF sum < 256 THEN sum ELSE sum - 256 BY <1>1, LowByte
<1>3. q \in B!Byte BY <1>1, <1>2, ChainByte
<1>4. r.val = q /\ r.psr = f BY DEF B!AdcBinary, B!Result
<1>6. /\ f \subseteq B!Flags /\ ("D" \in f <=> "D" \in p)
      /\ ("C" \in f <=> sum > 255) /\ ("V" \in f <=> ovf) /\ ("N" \in f <=> q >= 128)
  <2>1. f = B!SetArith(p, sum > 255, ovf, q = 0, q >= 128) OBVIOUS
  <2> HIDE DEF f, ovf, sum, q
  <2> QED BY <2>1 DEF B!SetArith, B!When, B!Flags, B!CVZN
<1>7. Leaves(256, r, p) BY <1>3, <1>4, <1>6 DEF Leaves
<1>8. Negative(r.psr) <=> B!Signed(a) + B!Signed(v) + B!Carry(p) < 0 BY <1>4, <1>6 DEF Negative
<1>9. q + 256 * B!Carry(f) = sum
  <2>1. CASE sum > 255
    <3>1. B!Carry(f) = 1 BY <1>6, <2>1, CarryRange
    <3> QED BY <1>1, <1>2, <2>1, <3>1
  <2>2. CASE ~(sum > 255)
    <3>1. B!Carry(f) = 0 BY <1>6, <2>2, CarryRange
    <3> QED BY <1>1, <1>2, <2>2, <3>1
  <2> QED BY <2>1, <2>2
<1>10. Sums(256, r, p, a, v) BY <1>1, <1>4, <1>9 DEF Sums, B!Digit
<1> QED BY <1>7, <1>8, <1>10

LEMMA SbcBinaryIs ==
  ASSUME NEW p \in SUBSET B!Flags, NEW a \in B!Byte, NEW v \in B!Byte
  PROVE  LET r == B!SbcBinary(p, a, v)
         IN  /\ Leaves(256, r, p) /\ Subtracts(256, r, p, a, v)
             /\ Negative(r.psr) <=> B!Signed(a) - B!Signed(v) - (1 - B!Carry(p)) < 0
<1> DEFINE dif == a - v - (1 - B!Carry(p))
           q == B!Lo(dif)
           ovf == (q >= 128) # (B!Signed(a) - B!Signed(v) - (1 - B!Carry(p)) < 0)
           f == B!SetArith(p, dif >= 0, ovf, q = 0, q >= 128)
           r == B!SbcBinary(p, a, v)
<1>1. B!Carry(p) \in {0, 1} /\ a \in 0 .. 255 /\ v \in 0 .. 255 BY CarryRange, ChainByte
<1>2. q = IF dif < 0 THEN dif + 256 ELSE dif BY <1>1, LowByte
<1>3. q \in B!Byte BY <1>1, <1>2, ChainByte
<1>4. r.val = q /\ r.psr = f BY DEF B!SbcBinary, B!Result
<1>6. /\ f \subseteq B!Flags /\ ("D" \in f <=> "D" \in p)
      /\ ("C" \in f <=> dif >= 0) /\ ("V" \in f <=> ovf) /\ ("N" \in f <=> q >= 128)
  <2>1. f = B!SetArith(p, dif >= 0, ovf, q = 0, q >= 128) OBVIOUS
  <2> HIDE DEF f, ovf, dif, q
  <2> QED BY <2>1 DEF B!SetArith, B!When, B!Flags, B!CVZN
<1>7. Leaves(256, r, p) BY <1>3, <1>4, <1>6 DEF Leaves
<1>8. Negative(r.psr) <=> B!Signed(a) - B!Signed(v) - (1 - B!Carry(p)) < 0
  BY <1>4, <1>6 DEF Negative
<1>9. q = dif + 256 * (1 - B!Carry(f))
  <2>1. CASE dif >= 0
    <3>1. B!Carry(f) = 1 BY <1>6, <2>1, CarryRange
    <3> QED BY <1>1, <1>2, <2>1, <3>1
  <2>2. CASE ~(dif >= 0)
    <3>1. B!Carry(f) = 0 BY <1>6, <2>2, CarryRange
    <3> QED BY <1>1, <1>2, <2>2, <3>1
  <2> QED BY <2>1, <2>2
<1>10. Subtracts(256, r, p, a, v) BY <1>1, <1>4, <1>9 DEF Subtracts, B!Digit
<1> QED BY <1>7, <1>8, <1>10

(* Decimal mode, on two bytes of decimal digits. *)
LEMMA AdcDecimalIs ==
  ASSUME NEW p \in SUBSET B!Flags, NEW a \in B!Byte, NEW v \in B!Byte, B!Bcd(a), B!Bcd(v)
  PROVE  LET r == B!AdcDecimal(p, a, v)
         IN  Leaves(100, r, p) /\ Sums(100, r, p, a, v) /\ B!Digit(100, r.val) < 100 /\ B!Bcd(r.val)
<1> DEFINE al == a % 16
           ah == a \div 16
           vl == v % 16
           vh == v \div 16
           ln == al + vl + B!Carry(p)
           low == IF ln > 9 THEN (ln + 6) % 16 ELSE ln
           hn == 16 * ah + 16 * vh + (IF ln > 9 THEN 16 ELSE 0)
           high == IF hn > 144 THEN B!Lo(hn + 96) ELSE hn
           q == high + low
           ovf == B!BitSet(hn, 128) # B!BitSet(a, 128) /\ B!BitSet(a, 128) = B!BitSet(v, 128)
           f == B!SetArith(p, hn > 144, ovf, q = 0, q >= 128)
           r == B!AdcDecimal(p, a, v)
<1>1. B!Carry(p) \in {0, 1} /\ al \in 0 .. 9 /\ ah \in 0 .. 9 /\ vl \in 0 .. 9 /\ vh \in 0 .. 9
  BY CarryRange, Nibbles DEF B!Bcd
<1>2. r.val = q /\ r.psr = f BY DEF B!AdcDecimal, B!Result
<1>3. f \subseteq B!Flags /\ ("D" \in f <=> "D" \in p) /\ ("C" \in f <=> hn > 144)
  <2>1. f = B!SetArith(p, hn > 144, ovf, q = 0, q >= 128) OBVIOUS
  <2> HIDE DEF f, ovf, hn, q
  <2> QED BY <2>1 DEF B!SetArith, B!When, B!Flags, B!CVZN
<1>4. PICK h \in 0 .. 19 : hn = 16 * h /\ h = ah + vh + (IF ln > 9 THEN 1 ELSE 0)
  <2> HIDE DEF ah, al, vh, vl
  <2> QED BY <1>1
<1>5. low \in 0 .. 9 /\ low = IF ln > 9 THEN ln - 10 ELSE ln
  <2> HIDE DEF ah, al, vh, vl
  <2>1. ln \in 0 .. 19 BY <1>1
  <2> HIDE DEF ln
  <2> QED BY <2>1
<1>6. (hn > 144 <=> h > 9) /\ high = 16 * (IF h > 9 THEN h - 10 ELSE h)
  <2> HIDE DEF hn
  <2>1. CASE h > 9
    <3>1. hn + 96 \in Int /\ hn + 96 >= 256 /\ hn + 96 < 512 BY <1>4, <2>1
    <3> QED BY <1>4, <2>1, <3>1, LowByte
  <2>2. CASE ~(h > 9) BY <1>4, <2>2
  <2> QED BY <2>1, <2>2
<1> DEFINE d == IF h > 9 THEN h - 10 ELSE h
<1>7. q = 16 * d + low /\ d \in 0 .. 9 BY <1>4, <1>6
<1>8. q \in B!Byte /\ q \div 16 = d /\ q % 16 = low
  <2> HIDE DEF q, d, low
  <2>1. d \in 0 .. 15 /\ low \in 0 .. 15 BY <1>5, <1>7
  <2> QED BY <1>7, <2>1, TwoNibbles, ChainByte
<1>9. B!Carry(f) = IF h > 9 THEN 1 ELSE 0
  <2> HIDE DEF f, hn
  <2> QED BY <1>3, <1>6, CarryRange
<1>10. B!Digit(100, a) = 10 * ah + al /\ B!Digit(100, v) = 10 * vh + vl /\ B!Digit(100, q) = 10 * d + low
  BY <1>8 DEF B!Digit
<1>11. B!Digit(100, q) + 100 * B!Carry(f) = B!Digit(100, a) + B!Digit(100, v) + B!Carry(p)
  <2> HIDE DEF ah, al, vh, vl, low, f, q
  <2>1. CASE ln > 9 BY <1>1, <1>4, <1>5, <1>9, <1>10, <2>1
  <2>2. CASE ~(ln > 9) BY <1>1, <1>4, <1>5, <1>9, <1>10, <2>2
  <2> QED BY <2>1, <2>2
<1>12. B!Digit(100, q) < 100 /\ B!Bcd(q)
  <2> HIDE DEF q, d, low
  <2>1. d \in 0 .. 9 /\ low \in 0 .. 9 BY <1>5, <1>7
  <2>2. B!Digit(100, q) < 100 BY <1>10, <2>1
  <2>3. q % 16 < 10 /\ q \div 16 < 10 BY <1>8, <2>1
  <2> QED BY <2>2, <2>3 DEF B!Bcd
<1> HIDE DEF f, q, r
<1>13. Leaves(100, r, p) BY <1>2, <1>3, <1>8 DEF Leaves
<1>14. Sums(100, r, p, a, v) BY <1>2, <1>11 DEF Sums
<1> QED BY <1>2, <1>12, <1>13, <1>14 DEF r

LEMMA SbcDecimalIs ==
  ASSUME NEW p \in SUBSET B!Flags, NEW a \in B!Byte, NEW v \in B!Byte, B!Bcd(a), B!Bcd(v)
  PROVE  LET r == B!SbcDecimal(p, a, v)
         IN  Leaves(100, r, p) /\ Subtracts(100, r, p, a, v) /\ B!Digit(100, r.val) < 100 /\ B!Bcd(r.val)
<1> DEFINE al == a % 16
           ah == a \div 16
           vl == v % 16
           vh == v \div 16
           borrow == 1 - B!Carry(p)
           dif == a - v - borrow
           sgn == B!Signed(a) - B!Signed(v) - borrow
           over == vl > 9 /\ al < 10
           oln == vl - (IF over THEN 10 ELSE 0)
           ohn == 16 * vh + (IF over THEN 16 ELSE 0)
           ln == al - oln - borrow
           low == IF ln >= 0 THEN ln ELSE (IF al < 10 THEN ln - 6 ELSE ln) % 16
           hn == 16 * ah - ohn - (IF ln < 0 THEN 16 ELSE 0)
           high == IF hn < 0 THEN B!Lo(hn - 96) ELSE hn
           q == high + low
           f == B!SetArith(p, dif >= 0, sgn < -128 \/ sgn > 127, B!Lo(dif) = 0 \/ q = 0, high >= 128)
           r == B!SbcDecimal(p, a, v)
<1>1. B!Carry(p) \in {0, 1} /\ borrow \in {0, 1} /\ al \in 0 .. 9 /\ ah \in 0 .. 9 /\ vl \in 0 .. 9
      /\ vh \in 0 .. 9
  BY CarryRange, Nibbles DEF B!Bcd
<1>a. a = 16 * ah + al /\ v = 16 * vh + vl BY Nibbles
<1>2. r.val = q /\ r.psr = f BY DEF B!SbcDecimal, B!Result
<1>3. f \subseteq B!Flags /\ ("D" \in f <=> "D" \in p) /\ ("C" \in f <=> dif >= 0)
  <2>1. f = B!SetArith(p, dif >= 0, sgn < -128 \/ sgn > 127, B!Lo(dif) = 0 \/ q = 0, high >= 128)
    OBVIOUS
  <2> HIDE DEF f, dif, sgn, high, q
  <2> QED BY <2>1 DEF B!SetArith, B!When, B!Flags, B!CVZN
<1>b. oln = vl /\ ohn = 16 * vh /\ ln = al - vl - borrow /\ ln \in -10 .. 9
  <2> HIDE DEF ah, al, vh, vl, borrow
  <2> QED BY <1>1
<1>4. PICK h \in -10 .. 9 : hn = 16 * h /\ h = ah - vh - (IF ln < 0 THEN 1 ELSE 0)
  <2> HIDE DEF ah, al, vh, vl, ln, ohn
  <2> QED BY <1>1, <1>b
<1>5. low \in 0 .. 9 /\ low = IF ln < 0 THEN ln + 10 ELSE ln
  <2> HIDE DEF ln, al
  <2> QED BY <1>1, <1>b
<1>6. high = 16 * (IF h < 0 THEN h + 10 ELSE h)
  <2> HIDE DEF hn
  <2>1. CASE h < 0
    <3>1. hn - 96 \in Int /\ hn - 96 >= -256 /\ hn - 96 < 0 /\ hn < 0 BY <1>4, <2>1
    <3> QED BY <1>4, <2>1, <3>1, LowByte
  <2>2. CASE ~(h < 0) BY <1>4, <2>2
  <2> QED BY <2>1, <2>2
<1> DEFINE d == IF h < 0 THEN h + 10 ELSE h
<1>7. q = 16 * d + low /\ d \in 0 .. 9
  <2> HIDE DEF low, high
  <2> QED BY <1>4, <1>5, <1>6
<1>8. q \in B!Byte /\ q \div 16 = d /\ q % 16 = low
  <2> HIDE DEF q, d, low
  <2>1. d \in 0 .. 15 /\ low \in 0 .. 15 BY <1>5, <1>7
  <2> QED BY <1>7, <2>1, TwoNibbles, ChainByte
<1>9. B!Carry(f) = IF h < 0 THEN 0 ELSE 1
  <2>1. dif = 16 * h + ln + (IF ln < 0 THEN 16 ELSE 0)
    <3> HIDE DEF ah, al, vh, vl, borrow, ln
    <3> QED BY <1>1, <1>a, <1>b, <1>4
  <2> HIDE DEF f, dif, ln
  <2>2. dif >= 0 <=> h >= 0 BY <2>1, <1>b, <1>4
  <2> QED BY <1>3, <1>4, <2>2, CarryRange
<1>10. B!Digit(100, a) = 10 * ah + al /\ B!Digit(100, v) = 10 * vh + vl /\ B!Digit(100, q) = 10 * d + low
  BY <1>8 DEF B!Digit
<1>11. B!Digit(100, q) = B!Digit(100, a) - B!Digit(100, v) - (1 - B!Carry(p)) + 100 * (1 - B!Carry(f))
  <2>0. borrow = 1 - B!Carry(p) OBVIOUS
  <2> HIDE DEF ah, al, vh, vl, low, f, q, ln, borrow
  <2>1. CASE ln < 0 BY <1>1, <1>b, <1>4, <1>5, <1>9, <1>10, <2>0, <2>1
  <2>2. CASE ~(ln < 0) BY <1>1, <1>b, <1>4, <1>5, <1>9, <1>10, <2>0, <2>2
  <2> QED BY <2>1, <2>2
<1>12. B!Digit(100, q) < 100 /\ B!Bcd(q)
  <2> HIDE DEF q, d, low
  <2>1. d \in 0 .. 9 /\ low \in 0 .. 9 BY <1>5, <1>7
  <2>2. B!Digit(100, q) < 100 BY <1>10, <2>1
  <2>3. q % 16 < 10 /\ q \div 16 < 10 BY <1>8, <2>1
  <2> QED BY <2>2, <2>3 DEF B!Bcd
<1> HIDE DEF f, q, r
<1>13. Leaves(100, r, p) BY <1>2, <1>3, <1>8 DEF Leaves
<1>14. Subtracts(100, r, p, a, v) BY <1>2, <1>11 DEF Subtracts
<1> QED BY <1>2, <1>12, <1>13, <1>14 DEF r

-----------------------------------------------------------------------------
(* The chain from one byte to the next.  The weight of the byte n + 1 is   *)
(* w = Power(b, n); x, y and r are the numbers that the first n bytes of   *)
(* the operands and of the result are, c and d the carries before and      *)
(* behind the byte.                                                        *)
LEMMA SumGrows ==
  ASSUME NEW b \in Int, NEW w \in Int, NEW u \in Int, NEW v \in Int, NEW r \in Int, NEW c \in Int,
         NEW d \in Int, NEW du \in Int, NEW dv \in Int, NEW dr \in Int,
         dr + b * d = du + dv + c, r + w * c = u + v
  PROVE  (r + dr * w) + (b * w) * d = (u + du * w) + (v + dv * w)
<1>1. w * (dr + b * d) = w * (du + dv + c) OBVIOUS
<1>2. w * (dr + b * d) = dr * w + (b * w) * d OBVIOUS
<1>3. w * (du + dv + c) = du * w + dv * w + w * c OBVIOUS
<1> QED BY <1>1, <1>2, <1>3

LEMMA DifferenceGrows ==
  ASSUME NEW b \in Int, NEW w \in Int, NEW u \in Int, NEW v \in Int, NEW r \in Int, NEW c \in Int,
         NEW d \in Int, NEW du \in Int, NEW dv \in Int, NEW dr \in Int,
         dr = du - dv - (1 - c) + b * (1 - d), r = u - v + w * (1 - c)
  PROVE  r + dr * w = (u + du * w) - (v + dv * w) + (b * w) * (1 - d)
<1>1. dr * w = (du - dv - (1 - c) + b * (1 - d)) * w OBVIOUS
<1>2. (du - dv - (1 - c) + b * (1 - d)) * w = du * w - dv * w - w * (1 - c) + (b * w) * (1 - d)
  OBVIOUS
<1> QED BY <1>1, <1>2

LEMMA StaysBelow ==
  ASSUME NEW b \in Int, NEW w \in Int, NEW r \in Int, NEW dr \in Int, w > 0, r < w, dr < b
  PROVE  r + dr * w < b * w
<1>1. dr * w <= (b - 1) * w OBVIOUS
<1>2. (b - 1) * w = b * w - w OBVIOUS
<1> QED BY <1>1, <1>2

LEMMA SignOfSum ==
  ASSUME NEW w \in Int, NEW r \in Int, NEW k \in Int, w > 0, 0 <= r, r < w
  PROVE  r + w * k < 0 <=> k < 0
<1>1. CASE k < 0
  <2>1. w * k <= w * (-1) BY <1>1
  <2> QED BY <1>1, <2>1
<1>2. CASE k >= 0
  <2>1. w * k >= 0 BY <1>2
  <2> QED BY <1>2, <2>1
<1> QED BY <1>1, <1>2

LEMMA ModuloLimit ==
  ASSUME NEW w \in Int, NEW r \in Int, w > 0, 0 <= r, r < w
  PROVE  r % w = r /\ (r - w) % w = r
OBVIOUS

(* What holds between two bytes of the chain (in decimal mode, when all    *)
(* the bytes hold decimal digits).                                         *)
Radix(p) == IF "D" \in p THEN 100 ELSE 256
AllDecimal(us, vs, p) == "D" \in p => \A i \in 1 .. Len(us) : B!Bcd(us[i]) /\ B!Bcd(vs[i])
TopSigned(bs, n) == B!Prefix(256, bs, n - 1) + B!Power(256, n - 1) * B!Signed(bs[n])
Numbers(o, us, vs) ==
    /\ o \in {"ADC", "SBC"} /\ us \in Seq(B!Byte) /\ vs \in Seq(B!Byte)
    /\ Len(us) = Len(vs) /\ Len(us) > 0
Typed(us, rs, p) == p \in SUBSET B!Flags /\ rs \in Seq(B!Byte) /\ Len(rs) <= Len(us)
Linked(b, o, us, vs, rs, p) ==
    /\ B!Prefix(b, rs, Len(rs)) < B!Power(b, Len(rs))
    /\ o = "ADC" => B!Prefix(b, rs, Len(rs)) + B!Power(b, Len(rs)) * B!Carry(p)
                      = B!Prefix(b, us, Len(rs)) + B!Prefix(b, vs, Len(rs))
    /\ o = "SBC" => B!Prefix(b, rs, Len(rs)) = B!Prefix(b, us, Len(rs)) - B!Prefix(b, vs, Len(rs))
                      + B!Power(b, Len(rs)) * (1 - B!Carry(p))
Signs(o, us, vs, n, p) ==
    "D" \notin p /\ n > 0 =>
        /\ o = "ADC" => (Negative(p) <=> TopSigned(us, n) + TopSigned(vs, n) < 0)
        /\ o = "SBC" => (Negative(p) <=> TopSigned(us, n) - TopSigned(vs, n) < 0)
ChainInv ==
    /\ Numbers(op, xs, ys)
    /\ AllDecimal(xs, ys, psr) =>
         /\ Typed(xs, res, psr)
         /\ Linked(Radix(psr), op, xs, ys, res, psr)
         /\ Signs(op, xs, ys, Len(res), psr)

LEMMA ByteAdded ==
  ASSUME NEW o \in {"ADC", "SBC"}, NEW p \in SUBSET B!Flags, NEW a \in B!Byte, NEW v \in B!Byte,
         "D" \in p => B!Bcd(a) /\ B!Bcd(v),
         NEW r, r = B!Accumulate(o, p, a, v)
  PROVE  /\ Leaves(Radix(p), r, p)
         /\ B!Digit(Radix(p), r.val) < Radix(p)
         /\ o = "ADC" => Sums(Radix(p), r, p, a, v)
         /\ o = "SBC" => Subtracts(Radix(p), r, p, a, v)
         /\ "D" \notin p /\ o = "ADC" =>
              (Negative(r.psr) <=> B!Signed(a) + B!Signed(v) + B!Carry(p) < 0)
         /\ "D" \notin p /\ o = "SBC" =>
              (Negative(r.psr) <=> B!Signed(a) - B!Signed(v) - (1 - B!Carry(p)) < 0)
<1>1. r = IF o = "ADC" THEN B!Adc(p, a, v) ELSE B!Sbc(p, a, v) BY DEF B!Accumulate
<1>2. ASSUME Leaves(256, r, p) PROVE B!Digit(256, r.val) < 256
  BY <1>2, ChainByte DEF Leaves, B!Digit
<1>3. CASE o = "ADC" /\ "D" \in p BY <1>1, <1>3, AdcDecimalIs DEF B!Adc, Radix
<1>4. CASE o = "SBC" /\ "D" \in p BY <1>1, <1>4, SbcDecimalIs DEF B!Sbc, Radix
<1>5. CASE o = "ADC" /\ "D" \notin p
  <2>1. r = B!AdcBinary(p, a, v) /\ Radix(p) = 256 BY <1>1, <1>5 DEF B!Adc, Radix
  <2>2. /\ Leaves(256, r, p) /\ Sums(256, r, p, a, v)
        /\ Negative(r.psr) <=> B!Signed(a) + B!Signed(v) + B!Carry(p) < 0
    BY <2>1, AdcBinaryIs
  <2> QED BY <1>2, <1>5, <2>1, <2>2
<1>6. CASE o = "SBC" /\ "D" \notin p
  <2>1. r = B!SbcBinary(p, a, v) /\ Radix(p) = 256 BY <1>1, <1>6 DEF B!Sbc, Radix
  <2>2. /\ Leaves(256, r, p) /\ Subtracts(256, r, p, a, v)
        /\ Negative(r.psr) <=> B!Signed(a) - B!Signed(v) - (1 - B!Carry(p)) < 0
    BY <2>1, SbcBinaryIs
  <2> QED BY <1>2, <1>6, <2>1, <2>2
<1> QED BY <1>3, <1>4, <1>5, <1>6

LEMMA DecimalKept ==
  ASSUME NEW o \in {"ADC", "SBC"}, NEW p, NEW a, NEW v
  PROVE  "D" \in B!Accumulate(o, p, a, v).psr <=> "D" \in p
<1>1. ASSUME NEW c, NEW f, NEW z, NEW n PROVE "D" \in B!SetArith(p, c, f, z, n) <=> "D" \in p
  BY DEF B!SetArith, B!When, B!CVZN
<1>2. "D" \in B!AdcBinary(p, a, v).psr <=> "D" \in p BY <1>1 DEF B!AdcBinary, B!Result
<1>3. "D" \in B!AdcDecimal(p, a, v).psr <=> "D" \in p BY <1>1 DEF B!AdcDecimal, B!Result
<1>4. "D" \in B!SbcBinary(p, a, v).psr <=> "D" \in p BY <1>1 DEF B!SbcBinary, B!Result
<1>5. "D" \in B!SbcDecimal(p, a, v).psr <=> "D" \in p BY <1>1 DEF B!SbcDecimal, B!Result
<1> QED BY <1>2, <1>3, <1>4, <1>5 DEF B!Accumulate, B!Adc, B!Sbc

LEMMA ChainGoesOn ==
  ASSUME NEW o, NEW us, NEW vs, NEW rs, NEW p, Numbers(o, us, vs), AllDecimal(us, vs, p),
         Typed(us, rs, p), Linked(Radix(p), o, us, vs, rs, p), Len(rs) + 1 <= Len(us),
         NEW r, r = B!Accumulate(o, p, us[Len(rs) + 1], vs[Len(rs) + 1])
  PROVE  /\ Radix(r.psr) = Radix(p)
         /\ Typed(us, Append(rs, r.val), r.psr)
         /\ Linked(Radix(p), o, us, vs, Append(rs, r.val), r.psr)
         /\ Signs(o, us, vs, Len(rs) + 1, r.psr)
<1>0. PICK n \in Nat : n = Len(rs) BY DEF Typed
<1>1. PICK b \in Nat : b = Radix(p) /\ b > 0 BY DEF Radix
<1>2. /\ us \in Seq(B!Byte) /\ vs \in Seq(B!Byte) /\ rs \in Seq(B!Byte) /\ o \in {"ADC", "SBC"}
      /\ Len(us) \in Nat /\ Len(vs) = Len(us) /\ n + 1 \in 1 .. Len(us) /\ p \in SUBSET B!Flags
  BY <1>0 DEF Numbers, Typed
<1>3. PICK a \in B!Byte : a = us[n + 1] BY <1>2
<1>4. PICK v \in B!Byte : v = vs[n + 1] BY <1>2
<1>5. r = B!Accumulate(o, p, a, v) BY <1>0, <1>3, <1>4
<1>6. "D" \in p => B!Bcd(a) /\ B!Bcd(v) BY <1>2, <1>3, <1>4 DEF AllDecimal
<1>7. /\ Leaves(b, r, p)
      /\ B!Digit(b, r.val) < b
      /\ o = "ADC" => Sums(b, r, p, a, v)
      /\ o = "SBC" => Subtracts(b, r, p, a, v)
      /\ "D" \notin p /\ o = "ADC" =>
           (Negative(r.psr) <=> B!Signed(a) + B!Signed(v) + B!Carry(p) < 0)
      /\ "D" \notin p /\ o = "SBC" =>
           (Negative(r.psr) <=> B!Signed(a) - B!Signed(v) - (1 - B!Carry(p)) < 0)
  BY <1>1, <1>2, <1>5, <1>6, ByteAdded
<1>8. PICK q \in B!Byte : q = r.val BY <1>7 DEF Leaves
<1>9. PICK f \in SUBSET B!Flags : f = r.psr /\ ("D" \in f <=> "D" \in p) BY <1>7 DEF Leaves
<1>10. PICK ts \in Seq(B!Byte) : ts = Append(rs, q) /\ Len(ts) = n + 1 /\ ts[n + 1] = q
  <2>1. Append(rs, q) \in Seq(B!Byte) BY <1>2
  <2>2. Len(Append(rs, q)) = n + 1 /\ Append(rs, q)[n + 1] = q BY <1>0, <1>2
  <2> QED BY <2>1, <2>2
<1>11. PICK w \in Nat : w = B!Power(b, n) /\ w > 0 /\ B!Power(b, n + 1) = b * w BY <1>1, PowerIs
<1>12. n \in 0 .. Len(us) /\ n \in 0 .. Len(vs) /\ n \in 0 .. Len(rs) /\ n < Len(us) /\ n < Len(vs)
       /\ n \in 0 .. Len(ts) /\ n < Len(ts)
  BY <1>0, <1>2, <1>10
<1>13. PICK ux \in Nat : /\ ux = B!Prefix(b, us, n)
                         /\ B!Prefix(b, us, n + 1) = ux + B!Digit(b, a) * w
  BY <1>1, <1>2, <1>3, <1>11, <1>12, PrefixIs
<1>14. PICK vx \in Nat : /\ vx = B!Prefix(b, vs, n)
                         /\ B!Prefix(b, vs, n + 1) = vx + B!Digit(b, v) * w
  BY <1>1, <1>2, <1>4, <1>11, <1>12, PrefixIs
<1>15. PICK rx \in Nat : /\ rx = B!Prefix(b, rs, n)
                         /\ B!Prefix(b, ts, n + 1) = rx + B!Digit(b, q) * w
  <2>1. B!Prefix(b, ts, n) = B!Prefix(b, rs, n) BY <1>1, <1>2, <1>8, <1>10, <1>12, PrefixAppend
  <2>2. B!Prefix(b, ts, n + 1) = B!Prefix(b, ts, n) + B!Digit(b, ts[n + 1]) * B!Power(b, n)
    BY <1>1, <1>12, PrefixIs
  <2>3. B!Prefix(b, rs, n) \in Nat BY <1>1, <1>2, <1>12, PrefixIs
  <2> QED BY <2>1, <2>2, <2>3, <1>10, <1>11
<1>16. PICK c \in {0, 1} : c = B!Carry(p) BY CarryRange
<1>17. PICK d \in {0, 1} : d = B!Carry(f) BY CarryRange
<1>18. PICK da \in Nat : da = B!Digit(b, a) BY DigitIs
<1>19. PICK dv \in Nat : dv = B!Digit(b, v) BY DigitIs
<1>20. PICK dq \in Nat : dq = B!Digit(b, q) BY DigitIs
<1>21. rx < w /\ (o = "ADC" => rx + w * c = ux + vx) /\ (o = "SBC" => rx = ux - vx + w * (1 - c))
  BY <1>0, <1>1, <1>11, <1>13, <1>14, <1>15, <1>16 DEF Linked
<1>22. /\ dq < b /\ (o = "ADC" => dq + b * d = da + dv + c)
       /\ (o = "SBC" => dq = da - dv - (1 - c) + b * (1 - d))
  BY <1>7, <1>8, <1>9, <1>16, <1>17, <1>18, <1>19, <1>20 DEF Sums, Subtracts
<1>23. Radix(f) = Radix(p) BY <1>9 DEF Radix
<1>24. Typed(us, ts, f) BY <1>2, <1>9, <1>10 DEF Typed
<1>25. Linked(b, o, us, vs, ts, f)
  <2>0. rx < w /\ dq < b /\ w > 0 BY <1>21, <1>22, <1>11
  <2>1. rx + dq * w < b * w BY <2>0, StaysBelow
  <2>2. ASSUME o = "ADC" PROVE (rx + dq * w) + (b * w) * d = (ux + da * w) + (vx + dv * w)
    BY <2>2, <1>21, <1>22, SumGrows
  <2>3. ASSUME o = "SBC"
        PROVE  rx + dq * w = (ux + da * w) - (vx + dv * w) + (b * w) * (1 - d)
    BY <2>3, <1>21, <1>22, DifferenceGrows
  <2> QED
    BY <2>1, <2>2, <2>3, <1>10, <1>11, <1>13, <1>14, <1>15, <1>17, <1>18, <1>19, <1>20 DEF Linked
<1>26. Signs(o, us, vs, n + 1, f)
  <2> SUFFICES ASSUME "D" \notin f
               PROVE  /\ o = "ADC" => (Negative(f) <=> TopSigned(us, n + 1) + TopSigned(vs, n + 1) < 0)
                      /\ o = "SBC" => (Negative(f) <=> TopSigned(us, n + 1) - TopSigned(vs, n + 1) < 0)
    BY DEF Signs
  <2>0. b = 256 /\ (n + 1) - 1 = n BY <1>1, <1>9 DEF Radix
  <2>1. PICK sa \in Int : sa = B!Signed(a) BY ChainByte DEF B!Signed
  <2>2. PICK sv \in Int : sv = B!Signed(v) BY ChainByte DEF B!Signed
  <2>3. TopSigned(us, n + 1) = ux + w * sa BY <2>0, <2>1, <1>3, <1>11, <1>13 DEF TopSigned
  <2>4. TopSigned(vs, n + 1) = vx + w * sv BY <2>0, <2>2, <1>4, <1>11, <1>14 DEF TopSigned
  <2>5. ASSUME o = "ADC" PROVE Negative(f) <=> TopSigned(us, n + 1) + TopSigned(vs, n + 1) < 0
    <3>1. PICK k \in Int : k = sa + sv + c OBVIOUS
    <3>2. (ux + w * sa) + (vx + w * sv) = rx + w * k
      <4>1. w * k = w * sa + w * sv + w * c BY <3>1
      <4> QED BY <4>1, <2>5, <1>21
    <3>3. rx + w * k < 0 <=> k < 0
      <4>1. 0 <= rx /\ rx < w /\ w > 0 BY <1>11, <1>21
      <4> QED BY <4>1, SignOfSum
    <3>4. Negative(f) <=> k < 0 BY <3>1, <2>5, <2>1, <2>2, <1>7, <1>9, <1>16
    <3> QED BY <2>3, <2>4, <3>2, <3>3, <3>4
  <2>6. ASSUME o = "SBC" PROVE Negative(f) <=> TopSigned(us, n + 1) - TopSigned(vs, n + 1) < 0
    <3>1. PICK k \in Int : k = sa - sv - (1 - c) OBVIOUS
    <3>2. (ux + w * sa) - (vx + w * sv) = rx + w * k
      <4>1. w * k = w * sa - w * sv - w * (1 - c) BY <3>1
      <4> QED BY <4>1, <2>6, <1>21
    <3>3. rx + w * k < 0 <=> k < 0
      <4>1. 0 <= rx /\ rx < w /\ w > 0 BY <1>11, <1>21
      <4> QED BY <4>1, SignOfSum
    <3>4. Negative(f) <=> k < 0 BY <3>1, <2>6, <2>1, <2>2, <1>7, <1>9, <1>16
    <3> QED BY <2>3, <2>4, <3>2, <3>3, <3>4
  <2> QED BY <2>5, <2>6
<1> QED BY <1>0, <1>1, <1>8, <1>9, <1>10, <1>23, <1>24, <1>25, <1>26

LEMMA ChainStarts == B!Init => ChainInv
<1> SUFFICES ASSUME B!Init PROVE ChainInv OBVIOUS
<1>1. PICK z \in Nat : z = 0 OBVIOUS
<1>2. Numbers(op, xs, ys) BY ChainsAssumption DEF B!Init, B!OperandsAssumption, Numbers
<1>3. res = <<>> /\ res \in Seq(B!Byte) /\ Len(res) = 0 /\ Len(xs) > 0 /\ op \in {"ADC", "SBC"}
      /\ xs \in Seq(B!Byte) /\ ys \in Seq(B!Byte) /\ Len(xs) \in Nat /\ Len(ys) \in Nat
  BY <1>2 DEF B!Init, Numbers
<1>4. PICK p : p = psr OBVIOUS
<1>5. p \in SUBSET B!Flags /\ ("C" \in p <=> op = "SBC") BY <1>4 DEF B!Init, B!When, B!Flags
<1>6. B!Carry(p) = IF op = "SBC" THEN 1 ELSE 0 BY <1>5 DEF B!Carry
<1>7. PICK b \in Nat : b = Radix(p) /\ b > 0 BY DEF Radix
<1>8. B!Power(b, 0) = 1 BY <1>7, <1>1, PowerIs
<1>9. ASSUME NEW bs \in Seq(B!Byte) PROVE B!Prefix(b, bs, 0) = 0
  <2>1. z \in 0 .. Len(bs) BY <1>1
  <2> QED BY <1>7, <2>1, PrefixIs
<1>10. Linked(b, op, xs, ys, res, p)
  <2>1. B!Prefix(b, res, 0) = 0 /\ B!Prefix(b, xs, 0) = 0 /\ B!Prefix(b, ys, 0) = 0 BY <1>3, <1>9
  <2> QED BY <1>3, <1>6, <1>8, <2>1 DEF Linked
<1>11. Typed(xs, res, p) /\ Signs(op, xs, ys, Len(res), p) BY <1>3, <1>5 DEF Typed, Signs
<1> QED BY <1>2, <1>4, <1>7, <1>10, <1>11 DEF ChainInv

LEMMA ChainStep == ChainInv /\ B!Next => ChainInv'
<1> SUFFICES ASSUME ChainInv, B!Next PROVE ChainInv' OBVIOUS
<1>1. PICK o : o = op OBVIOUS
<1>2. PICK us : us = xs OBVIOUS
<1>3. PICK vs : vs = ys OBVIOUS
<1>4. PICK rs : rs = res OBVIOUS
<1>5. PICK p : p = psr OBVIOUS
<1>6. PICK r : r = B!Accumulate(o, p, us[Len(rs) + 1], vs[Len(rs) + 1]) OBVIOUS
<1>7. /\ Len(rs) + 1 <= Len(us) /\ res' = Append(rs, r.val) /\ psr' = r.psr
      /\ op' = o /\ xs' = us /\ ys' = vs
  BY <1>1, <1>2, <1>3, <1>4, <1>5, <1>6 DEF B!Next, B!NextByte
<1>8. Numbers(o, us, vs) BY <1>1, <1>2, <1>3 DEF ChainInv
<1>9. "D" \in r.psr <=> "D" \in p BY <1>6, <1>8, DecimalKept DEF Numbers
<1>10. ASSUME AllDecimal(us, vs, r.psr)
       PROVE  /\ Typed(us, Append(rs, r.val), r.psr)
              /\ Linked(Radix(r.psr), o, us, vs, Append(rs, r.val), r.psr)
              /\ Signs(o, us, vs, Len(Append(rs, r.val)), r.psr)
  <2>1. AllDecimal(us, vs, p) BY <1>9, <1>10 DEF AllDecimal
  <2>2. Typed(us, rs, p) /\ Linked(Radix(p), o, us, vs, rs, p)
    BY <2>1, <1>1, <1>2, <1>3, <1>4, <1>5 DEF ChainInv
  <2>3. /\ Radix(r.psr) = Radix(p)
        /\ Typed(us, Append(rs, r.val), r.psr)
        /\ Linked(Radix(p), o, us, vs, Append(rs, r.val), r.psr)
        /\ Signs(o, us, vs, Len(rs) + 1, r.psr)
    BY <2>1, <2>2, <1>6, <1>7, <1>8, ChainGoesOn
  <2>4. Len(Append(rs, r.val)) = Len(rs) + 1 BY <2>2 DEF Typed
  <2> QED BY <2>3, <2>4
<1> QED BY <1>7, <1>8, <1>10 DEF ChainInv

(* When the chain is done, the numbers are those that the links relate.    *)
LEMMA ChainEnds == ChainInv => B!ChainsExact
<1> SUFFICES ASSUME ChainInv PROVE B!ChainsExact OBVIOUS
<1>1. PICK n \in Nat : n = Len(xs) /\ n > 0 BY DEF ChainInv, Numbers
<1>2. /\ xs \in Seq(B!Byte) /\ ys \in Seq(B!Byte) /\ op \in {"ADC", "SBC"} /\ Len(ys) = n
      /\ n \in 0 .. Len(xs) /\ n \in 0 .. Len(ys) /\ n - 1 \in 0 .. Len(xs) /\ n - 1 \in 0 .. Len(ys)
      /\ n - 1 < Len(xs) /\ n - 1 < Len(ys) /\ n - 1 \in Nat /\ (n - 1) + 1 = n /\ n \in 1 .. Len(xs)
  BY <1>1 DEF ChainInv, Numbers
<1>3. PICK b \in Nat : b = Radix(psr) /\ b > 0 BY DEF Radix
<1>4. B!Base = b BY <1>3 DEF B!Base, B!Decimal, Radix
<1>5. PICK m \in Nat : m = B!Power(b, n) /\ m > 0 BY <1>3, PowerIs
<1>6. B!Limit = m BY <1>1, <1>4, <1>5 DEF B!Limit
<1>7. PICK u \in Nat : u = B!Prefix(b, xs, n) BY <1>2, <1>3, PrefixIs
<1>8. PICK v \in Nat : v = B!Prefix(b, ys, n) BY <1>2, <1>3, PrefixIs
<1>9. B!Value(xs) = u /\ B!Value(ys) = v BY <1>1, <1>2, <1>4, <1>7, <1>8 DEF B!Value
<1>10. PICK c \in {0, 1} : c = B!Carry(psr) /\ (c = 1 <=> "C" \in psr) BY CarryRange
<1>11. ASSUME B!Meaningful
       PROVE  \E r \in Nat : /\ B!Value(res) = r /\ r < m
                             /\ op = "ADC" => r + m * c = u + v
                             /\ op = "SBC" => r = u - v + m * (1 - c)
  <2>1. Len(res) = n /\ AllDecimal(xs, ys, psr)
    BY <1>1, <1>11 DEF B!Meaningful, B!Done, B!Decimal, AllDecimal
  <2>2. Typed(xs, res, psr) /\ Linked(b, op, xs, ys, res, psr) BY <2>1, <1>3 DEF ChainInv
  <2>3. res \in Seq(B!Byte) /\ n \in 0 .. Len(res) BY <2>1, <2>2 DEF Typed
  <2>4. PICK r \in Nat : r = B!Prefix(b, res, n) BY <2>3, <1>3, PrefixIs
  <2>5. B!Value(res) = r BY <2>1, <2>4, <1>4 DEF B!Value
  <2>6. /\ r < m /\ (op = "ADC" => r + m * c = u + v)
        /\ (op = "SBC" => r = u - v + m * (1 - c))
    BY <2>1, <2>2, <2>4, <1>5, <1>7, <1>8, <1>10 DEF Linked
  <2> QED BY <2>5, <2>6
<1>12. B!ChainAdds BY <1>6, <1>9, <1>10, <1>11 DEF B!ChainAdds
<1>13. B!ChainSubtracts
  <2> SUFFICES ASSUME B!Meaningful, op = "SBC"
               PROVE  /\ B!Value(res) = (u - v) % m
                      /\ "C" \in psr <=> u >= v
    BY <1>6, <1>9 DEF B!ChainSubtracts
  <2>1. PICK r \in Nat : B!Value(res) = r /\ r < m /\ r = u - v + m * (1 - c) BY <1>11
  <2>2. CASE c = 1
    <3>1. r = u - v BY <2>1, <2>2
    <3>2. r % m = r BY <2>1, <1>5, ModuloLimit
    <3> QED BY <2>1, <2>2, <3>1, <3>2, <1>10
  <2>3. CASE c = 0
    <3>1. u - v = r - m BY <2>1, <2>3
    <3>2. (r - m) % m = r BY <2>1, <1>5, ModuloLimit
    <3>3. u < v BY <3>1, <2>1
    <3> QED BY <2>1, <2>3, <3>1, <3>2, <3>3, <1>10
  <2> QED BY <2>2, <2>3
<1>14. B!SignOfExactResult
  <2> SUFFICES ASSUME B!Done, ~B!Decimal
               PROVE  ("N" \in psr) # ("V" \in psr) <=>
                        (IF op = "ADC" THEN B!SignedValue(xs) + B!SignedValue(ys)
                                       ELSE B!SignedValue(xs) - B!SignedValue(ys)) < 0
    BY DEF B!SignOfExactResult
  <2>1. Len(res) = n /\ "D" \notin psr BY <1>1 DEF B!Done, B!Decimal
  <2>2. b = 256 BY <2>1, <1>3 DEF Radix
  <2>3. Signs(op, xs, ys, n, psr) BY <2>1 DEF ChainInv, AllDecimal
  <2>4. ASSUME NEW bs \in Seq(B!Byte), Len(bs) = n PROVE B!SignedValue(bs) = TopSigned(bs, n)
    <3>1. PICK k \in Nat : k = n - 1 /\ k \in 0 .. Len(bs) /\ k < Len(bs) /\ k + 1 = n
      <4>1. n - 1 \in Nat BY <1>1
      <4> QED BY <4>1, <2>4
    <3>2. PICK w \in Nat : w = B!Power(256, k) /\ m = 256 * w
      <4>1. B!Power(b, k) \in Nat /\ B!Power(b, k + 1) = b * B!Power(b, k) BY <1>3, PowerIs
      <4> QED BY <4>1, <3>1, <2>2, <1>5
    <3>3. PICK e \in B!Byte : e = bs[n] BY <2>4, <1>1
    <3>4. B!Digit(256, e) = e BY DEF B!Digit
    <3>5. B!Prefix(256, bs, n) = B!Prefix(256, bs, k) + e * w /\ B!Prefix(256, bs, k) \in Nat
      BY <3>1, <3>2, <3>3, <3>4, <2>2, <1>3, PrefixIs
    <3>6. PICK t \in Nat : t = B!Prefix(256, bs, k) BY <3>5
    <3>7. B!SignedValue(bs) = IF e >= 128 THEN (t + e * w) - 256 * w ELSE t + e * w
      BY <3>2, <3>3, <3>5, <3>6, <2>2, <2>4, <1>4, <1>6 DEF B!SignedValue, B!Value
    <3>8. TopSigned(bs, n) = t + w * (IF e >= 128 THEN e - 256 ELSE e)
      BY <3>1, <3>2, <3>3, <3>6 DEF TopSigned, B!Signed
    <3>9. e \in Int BY ChainByte
    <3>10. CASE e >= 128
      <4>1. w * (e - 256) = e * w - 256 * w BY <3>9
      <4> QED BY <4>1, <3>7, <3>8, <3>9, <3>10
    <3>11. CASE ~(e >= 128)
      <4>1. w * e = e * w BY <3>9
      <4> QED BY <4>1, <3>7, <3>8, <3>9, <3>11
    <3> QED BY <3>10, <3>11
  <2>5. Negative(psr) <=> (("N" \in psr) # ("V" \in psr)) BY DEF Negative
  <2>6. B!SignedValue(xs) = TopSigned(xs, n) /\ B!SignedValue(ys) = TopSigned(ys, n)
    BY <2>4, <1>1, <1>2
  <2> QED BY <2>1, <2>3, <2>5, <2>6, <1>1, <1>2 DEF Signs
<1> QED BY <1>12, <1>13, <1>14 DEF B!ChainsExact

(* A chain of ADCs or SBCs computes with numbers of any length: the sum or *)
(* the difference, the carry or borrow out of the highest byte and, in     *)
(* binary, the sign of the exact result (ADCInstrHandler, SBCInstrHandler).*)
THEOREM ChainsCompute == ArithSpec => []ChainsExact
<1> DEFINE Inv == program = "chain" => ChainInv
<1>1. ArithInit => Inv BY ChainStarts DEF ArithInit
<1>2. Inv /\ [ArithNext]_arithVars => Inv'
  <2> SUFFICES ASSUME Inv, [ArithNext]_arithVars, program' = "chain" PROVE ChainInv' OBVIOUS
  <2>1. CASE Chains BY <2>1, ChainStep DEF Chains
  <2>2. ASSUME UNCHANGED <<chainVars, program>> PROVE ChainInv'
    BY <2>2 DEF chainVars, ChainInv
  <2>3. CASE Draws \/ Writes \/ Prints \/ Computes
    BY <2>2, <2>3 DEF Draws, Writes, Prints, Computes
  <2>4. CASE UNCHANGED arithVars BY <2>2, <2>4 DEF arithVars
  <2> QED BY <2>1, <2>3, <2>4 DEF ArithNext
<1>3. Inv => ChainsExact BY ChainEnds DEF ChainsExact
<1> QED BY <1>1, <1>2, <1>3, PTL DEF ArithSpec
=============================================================================
