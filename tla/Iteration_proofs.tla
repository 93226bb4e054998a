-------------------------- MODULE Iteration_proofs --------------------------
(***************************************************************************)
(* What holds of every loop of Iteration.  The theorems are cited from     *)
(* instances of this module, which give Round the body of a loop of the    *)
(* program.  Induction over the natural numbers comes as a fact about      *)
(* sets, so that no operator has to be found by the provers.               *)
(***************************************************************************)
EXTENDS Iteration, Integers, FiniteSets, TLAPS, FiniteSetTheorems, WellFoundedInduction

\* A set of naturals that is not empty has a least element: the intervals 1..n
\* are well-founded by inclusion.
LEMMA LeastNumber ==
    ASSUME NEW T \in SUBSET Nat, T # {}
    PROVE  \E x \in T : \A y \in T : x <= y
<1> DEFINE Upto == {1..n : n \in T}
<1>1. Upto \subseteq FiniteSubsetsOf(Nat) /\ Upto # {}
  <2>1. \A n \in Nat : IsFiniteSet(1..n) /\ 1..n \in SUBSET Nat
    BY FS_Interval
  <2> QED  BY <2>1 DEF FiniteSubsetsOf
<1>2. \E s \in Upto : \A t \in Upto : <<t, s>> \notin StrictSubsetOrdering(Nat)
  BY <1>1, FS_StrictSubsetOrderingWellFounded, WFMin
<1>3. PICK x \in T : \A y \in T : <<1..y, 1..x>> \notin StrictSubsetOrdering(Nat)
  BY <1>2
<1>4. ASSUME NEW y \in T, y < x PROVE FALSE
  <2>1. 1..y \subseteq 1..x /\ x \in 1..x /\ x \notin 1..y
    BY <1>4
  <2> DEFINE a == 1..y
             b == 1..x
             ss == <<a, b>>
  <2>2. a \in SUBSET Nat /\ b \in SUBSET Nat /\ a \subseteq b /\ a # b
    BY <2>1
  <2> HIDE DEF a, b
  <2>3. ss \in (SUBSET Nat) \X (SUBSET Nat) /\ ss[1] \subseteq ss[2] /\ ss[1] # ss[2]
    BY <2>2
  <2>4. ss \in StrictSubsetOrdering(Nat)
    BY <2>3, Zenon DEF StrictSubsetOrdering
  <2> QED  BY <2>4, <1>3 DEF a, b
<1> QED
  BY <1>3, <1>4

\* And a greatest one, when it has a bound.
LEMMA GreatestNumber ==
    ASSUME NEW n \in Nat, NEW T \in SUBSET (1..n), T # {}
    PROVE  \E x \in T : \A y \in T : y <= x
<1> DEFINE D == {d \in Nat : n - d \in T}
<1>1. D \in SUBSET Nat /\ D # {}
  <2>1. PICK y \in T : TRUE
    OBVIOUS
  <2>2. n - y \in Nat /\ n - (n - y) = y
    BY <2>1
  <2> QED  BY <2>1, <2>2
<1> HIDE DEF D
<1>2. PICK x \in D : \A y \in D : x <= y
  BY <1>1, LeastNumber
<1>3. x \in Nat /\ n - x \in T
  BY <1>2 DEF D
<1>4. ASSUME NEW y \in T PROVE y <= n - x
  <2>1. n - y \in Nat /\ n - (n - y) = y
    BY <1>4
  <2>2. n - y \in D
    BY <2>1, <1>4 DEF D
  <2>3. x <= n - y
    BY <2>2, <1>2
  <2> QED  BY <2>3, <1>3, <1>4
<1> QED
  BY <1>3, <1>4

\* Induction: a set with 0 that has with every number its successor.
LEMMA NatSetInduction ==
    ASSUME NEW S, 0 \in S, \A n \in Nat : n \in S => n + 1 \in S
    PROVE  Nat \subseteq S
<1> SUFFICES ASSUME Nat \ S # {} PROVE FALSE
  OBVIOUS
<1>1. PICK x \in Nat \ S : \A y \in Nat \ S : x <= y
  <2> DEFINE T == Nat \ S
  <2>1. T \in SUBSET Nat /\ T # {}
    OBVIOUS
  <2> HIDE DEF T
  <2>2. \E x \in T : \A y \in T : x <= y
    BY <2>1, LeastNumber
  <2> QED  BY <2>2 DEF T
<1>2. x # 0 /\ x - 1 \in Nat /\ x - 1 \notin Nat \ S
  BY <1>1
<1> QED
  BY <1>1, <1>2

-----------------------------------------------------------------------------
\* The equation a loop of n rounds satisfies.
Rounds(given, start, n, f) == [i \in 0..n |-> IF i = 0 THEN start ELSE Round(given, f[i - 1], i)]

LEMMA RoundsExist ==
    ASSUME NEW given, NEW start, NEW n \in Nat
    PROVE  \E f : f = Rounds(given, start, n, f)
<1> DEFINE S == {m \in Nat : \E f : f = Rounds(given, start, m, f)}
<1>1. 0 \in S
  <2>1. [i \in 0..0 |-> start] = Rounds(given, start, 0, [i \in 0..0 |-> start])
    BY DEF Rounds
  <2> QED  BY <2>1
<1>2. ASSUME NEW m \in Nat, m \in S PROVE m + 1 \in S
  <2>1. PICK f : f = Rounds(given, start, m, f)
    BY <1>2
  <2> DEFINE g == [i \in 0..(m + 1) |-> IF i = m + 1 THEN Round(given, f[m], m + 1) ELSE f[i]]
  <2>2. ASSUME NEW i \in 0..(m + 1) PROVE g[i] = IF i = 0 THEN start ELSE Round(given, g[i - 1], i)
    <3>1. CASE i = m + 1
      <4>1. g[i - 1] = f[m]  BY <3>1
      <4> QED  BY <4>1, <3>1
    <3>2. CASE i \in 0..m
      <4>1. f[i] = IF i = 0 THEN start ELSE Round(given, f[i - 1], i)
        BY <2>1, <3>2 DEF Rounds
      <4>2. i # m + 1 /\ (i # 0 => i - 1 # m + 1 /\ i - 1 \in 0..(m + 1))
        BY <3>2
      <4>3. g[i] = f[i] /\ (i # 0 => g[i - 1] = f[i - 1])
        BY <4>2
      <4> QED  BY <4>1, <4>3
    <3> QED  BY <3>1, <3>2
  <2>3. g = Rounds(given, start, m + 1, g)
    <3>1. g = [i \in 0..(m + 1) |-> g[i]]
      OBVIOUS
    <3> HIDE DEF g
    <3>2. Rounds(given, start, m + 1, g) = [i \in 0..(m + 1) |-> IF i = 0 THEN start ELSE Round(given, g[i - 1], i)]
      BY DEF Rounds
    <3> QED  BY <3>1, <3>2, <2>2
  <2> QED  BY <2>3
<1> HIDE DEF S
<1>3. Nat \subseteq S
  BY <1>1, <1>2, NatSetInduction
<1> QED
  BY <1>3 DEF S

\* A loop starts with start, and round i makes its value of the one before.
THEOREM RunOfRounds ==
    ASSUME NEW given, NEW start, NEW n \in Nat
    PROVE  /\ Run(given, start, n)[0] = start
           /\ \A i \in 1..n : Run(given, start, n)[i] = Round(given, Run(given, start, n)[i - 1], i)
           /\ After(given, start, n) = Run(given, start, n)[n]
<1>1. Run(given, start, n) = CHOOSE f : f = Rounds(given, start, n, f)
  BY DEF Run, Rounds
<1>2. Run(given, start, n) = Rounds(given, start, n, Run(given, start, n))
  BY <1>1, RoundsExist
<1>3. \A i \in 0..n : Run(given, start, n)[i] = IF i = 0 THEN start ELSE Round(given, Run(given, start, n)[i - 1], i)
  BY <1>2 DEF Rounds
<1> QED
  BY <1>3 DEF After

\* What holds at the start of a loop and is kept by every round holds after
\* each: the rounds it holds after are the set S.
THEOREM LoopInvariant ==
    ASSUME NEW n \in Nat, NEW S, 0 \in S, \A i \in 1..n : i - 1 \in S => i \in S
    PROVE  \A i \in 0..n : i \in S
<1> DEFINE T == {m \in Nat : m <= n => m \in S}
<1>1. 0 \in T
  OBVIOUS
<1>2. ASSUME NEW m \in Nat, m \in T PROVE m + 1 \in T
  <2>1. CASE m + 1 <= n
    <3>1. m + 1 \in 1..n /\ m \in S /\ (m + 1) - 1 = m
      BY <2>1, <1>2
    <3> QED  BY <3>1
  <2> QED  BY <2>1
<1> HIDE DEF T
<1>3. Nat \subseteq T
  BY <1>1, <1>2, NatSetInduction
<1> QED
  BY <1>3 DEF T
=============================================================================
