------------------------------ MODULE Induction ------------------------------
(***************************************************************************)
(* Induction over the natural numbers, for properties given as sets: the   *)
(* finite subsets of Nat are well-founded, so every set of numbers has a   *)
(* least one.                                                              *)
(***************************************************************************)
EXTENDS Integers, FiniteSetTheorems, WellFoundedInduction, TLAPS

LEMMA LeastNatural ==
  ASSUME NEW T \in SUBSET Nat, T # {}
  PROVE  \E x \in T : \A y \in T : x <= y
<1> DEFINE below == {0 .. x : x \in T}
<1>1. ASSUME NEW x \in T PROVE 0 .. x \in FiniteSubsetsOf(Nat)
  <2>1. IsFiniteSet(0 .. x) BY FS_Interval
  <2>2. 0 .. x \in SUBSET Nat OBVIOUS
  <2> QED BY <2>1, <2>2 DEF FiniteSubsetsOf
<1>2. below # {} /\ below \subseteq FiniteSubsetsOf(Nat)
  BY <1>1
<1>3. IsWellFoundedOn(StrictSubsetOrdering(Nat), FiniteSubsetsOf(Nat))
  BY FS_StrictSubsetOrderingWellFounded
<1>4. PICK s \in below : \A t \in below : ~(<<t, s>> \in StrictSubsetOrdering(Nat))
  <2> HIDE DEF below
  <2> QED BY <1>2, <1>3, WFMin
<1>5. PICK x \in T : s = 0 .. x
  BY <1>4
<1>6. ASSUME NEW y \in T, y < x PROVE FALSE
  <2>1. 0 .. y \subseteq 0 .. x /\ 0 .. x \in SUBSET Nat /\ 0 .. y \in SUBSET Nat
    BY <1>6
  <2>2. x \in 0 .. x /\ x \notin 0 .. y
    BY <1>6
  <2>3. <<0 .. y, 0 .. x>> \in StrictSubsetOrdering(Nat)
    BY <2>1, <2>2 DEF StrictSubsetOrdering
  <2> QED BY <2>3, <1>4, <1>5
<1> QED BY <1>6

LEMMA InductionOverNat ==
  ASSUME NEW S, 0 \in S, \A n \in Nat : n \in S => n + 1 \in S
  PROVE  Nat \subseteq S
<1> SUFFICES ASSUME Nat \ S # {} PROVE FALSE
  OBVIOUS
<1>1. PICK x \in Nat \ S : \A y \in Nat \ S : x <= y
  BY LeastNatural
<1>2. x # 0 /\ x - 1 \in Nat \ S
  BY <1>1
<1> QED BY <1>1, <1>2

(* A function defined on 0 .. n by its first value and by a step from each *)
(* value to the next (step[k][v], for the value v at k) exists: the        *)
(* equation that TLA+ chooses it by has a solution.                        *)
Follows(g, n, first, step) ==
    g[0] = first /\ \A k \in 1 .. n : g[k] = step[k][g[k - 1]]
LEMMA StepwiseExists ==
  ASSUME NEW V, NEW first \in V, NEW n \in Nat, NEW step \in [Nat \ {0} -> [V -> V]]
  PROVE  \E g \in [0 .. n -> V] : Follows(g, n, first, step)
<1> DEFINE S == {i \in Nat : \E g \in [0 .. i -> V] : Follows(g, i, first, step)}
<1>1. 0 \in S
  <2>1. [k \in 0 .. 0 |-> first] \in [0 .. 0 -> V] OBVIOUS
  <2>2. Follows([k \in 0 .. 0 |-> first], 0, first, step) BY DEF Follows
  <2> QED BY <2>1, <2>2
<1>2. ASSUME NEW i \in Nat, i \in S PROVE i + 1 \in S
  <2>1. PICK g \in [0 .. i -> V] : Follows(g, i, first, step) BY <1>2
  <2> DEFINE h == [k \in 0 .. i + 1 |-> IF k <= i THEN g[k] ELSE step[i + 1][g[i]]]
  <2>2. g[i] \in V /\ step[i + 1] \in [V -> V] OBVIOUS
  <2>3. h \in [0 .. i + 1 -> V] BY <2>2
  <2>4. ASSUME NEW k \in 1 .. i + 1 PROVE h[k] = step[k][h[k - 1]]
    <3>1. CASE k <= i BY <3>1, <2>1 DEF Follows
    <3>2. CASE k = i + 1 BY <3>2
    <3> QED BY <3>1, <3>2
  <2>5. h[0] = first BY <2>1 DEF Follows
  <2>6. Follows(h, i + 1, first, step) BY <2>4, <2>5 DEF Follows
  <2> HIDE DEF h
  <2> QED BY <2>3, <2>6
<1>3. Nat \subseteq S
  <2> HIDE DEF S
  <2> QED BY <1>1, <1>2, InductionOverNat
<1> QED BY <1>3

LEMMA StepwiseUnique ==
  ASSUME NEW first, NEW n \in Nat, NEW step, NEW g, NEW h,
         Follows(g, n, first, step), Follows(h, n, first, step)
  PROVE  \A k \in 0 .. n : g[k] = h[k]
<1> DEFINE S == {k \in Nat : k <= n => g[k] = h[k]}
<1>1. 0 \in S BY DEF Follows
<1>2. ASSUME NEW k \in Nat, k \in S PROVE k + 1 \in S
  <2> SUFFICES ASSUME k + 1 <= n PROVE g[k + 1] = h[k + 1] OBVIOUS
  <2>1. k + 1 \in 1 .. n /\ (k + 1) - 1 = k /\ g[k] = h[k] BY <1>2
  <2> QED BY <2>1 DEF Follows
<1>3. Nat \subseteq S
  <2> HIDE DEF S
  <2> QED BY <1>1, <1>2, InductionOverNat
<1> QED BY <1>3

(* A function that obeys the step wherever the value before has its type   *)
(* follows it throughout.                                                  *)
Obeys(f, n, V, step) == \A k \in 1 .. n : f[k - 1] \in V => f[k] = step[k][f[k - 1]]
LEMMA StepwiseTyped ==
  ASSUME NEW V, NEW n \in Nat, NEW step \in [Nat \ {0} -> [V -> V]], NEW f,
         f[0] \in V, Obeys(f, n, V, step)
  PROVE  \A k \in 0 .. n : f[k] \in V /\ (k > 0 => f[k] = step[k][f[k - 1]])
<1> USE DEF Obeys
<1> DEFINE S == {k \in Nat : k <= n => f[k] \in V}
<1>1. 0 \in S OBVIOUS
<1>2. ASSUME NEW k \in Nat, k \in S PROVE k + 1 \in S
  <2> SUFFICES ASSUME k + 1 <= n PROVE f[k + 1] \in V OBVIOUS
  <2>1. k + 1 \in 1 .. n /\ (k + 1) - 1 = k /\ k + 1 \in Nat \ {0} /\ f[k] \in V BY <1>2
  <2>2. f[k + 1] = step[k + 1][f[k]] BY <2>1
  <2> QED BY <2>1, <2>2
<1>3. Nat \subseteq S
  <2> HIDE DEF S
  <2> QED BY <1>1, <1>2, InductionOverNat
<1> TAKE k \in 0 .. n
<1>4. f[k] \in V BY <1>3
<1>5. ASSUME k > 0 PROVE f[k] = step[k][f[k - 1]]
  <2>1. k \in 1 .. n /\ k - 1 \in Nat /\ k - 1 <= n BY <1>5
  <2>2. f[k - 1] \in V BY <1>3, <2>1
  <2> QED BY <2>1, <2>2
<1> QED BY <1>4, <1>5
=============================================================================
