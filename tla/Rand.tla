------------------------------- MODULE Rand -------------------------------
(***************************************************************************)
(* libtinyc's random numbers: the 32-bit xorshift generator of rand.c, its *)
(* state a word of bits, bit 0 the lowest.                                 *)
(***************************************************************************)
EXTENDS Integers

CONSTANTS
    Seeds,      \* arguments of srand, unsigned int
    MaxCalls    \* bound on the calls of a behaviour

ASSUME SeedsAssumption == Seeds \subseteq 0 .. 2^16 - 1

VARIABLES state, result, calls
vars == <<state, result, calls>>

Positions == 0..31
Word == [Positions -> {0, 1}]
Zero == [b \in Positions |-> 0]

(* A sum of 16 and 5 bits fits into 17. *)
Bits(v) == [b \in Positions |-> IF b < 17 /\ (v \div 2^b) % 2 = 1 THEN 1 ELSE 0]
Xor(x, y) == IF x = y THEN 0 ELSE 1
(* s ^ (s << k) and s ^ (s >> k). *)
XorLeft(s, k) == [b \in Positions |-> IF b >= k THEN Xor(s[b], s[b - k]) ELSE s[b]]
XorRight(s, k) == [b \in Positions |-> IF b + k < 32 THEN Xor(s[b], s[b + k]) ELSE s[b]]

(* Mutant: the seed is the state. *)
SeededPlain(newstate) == Bits(newstate)
Seeded(newstate) == Bits(newstate + 17)
(* Mutant: shifts of the word that was stored, not of the local one. *)
XorshiftStale(s) == [b \in Positions |-> Xor(XorLeft(s, 13)[b], XorRight(s, 17)[b])]
Xorshift(s) == XorLeft(XorRight(XorLeft(s, 13), 17), 5)
Returned(s) == [b \in 0..14 |-> s[b]]

Init == state = Bits(1) /\ result = Returned(Zero) /\ calls = 0

srand(newstate) ==
    /\ calls < MaxCalls /\ calls' = calls + 1
    /\ state' = Seeded(newstate) /\ UNCHANGED result

rand ==
    /\ calls < MaxCalls /\ calls' = calls + 1
    /\ state' = Xorshift(state) /\ result' = Returned(state')

Next == rand \/ \E s \in Seeds : srand(s)
Spec == Init /\ [][Next]_vars

-----------------------------------------------------------------------------
TypeOK == state \in Word /\ result \in [0..14 -> {0, 1}] /\ calls \in Nat

(* The state is never zero, where the generator would stay for ever        *)
(* (rand.c:17), whatever seeds are set and numbers drawn.                  *)
NeverSticks == state # Zero

(* No two states have the same successor, so that every state is on one    *)
(* cycle and no sequence of numbers runs into a shorter one: the shifts of *)
(* rand can be undone.                                                     *)
Undo5(s) == XorLeft(XorLeft(XorLeft(s, 5), 10), 20)
Undo13(s) == XorLeft(XorLeft(s, 13), 26)
Reversible == [][rand => state = Undo13(XorRight(Undo5(state'), 17))]_vars
=============================================================================
