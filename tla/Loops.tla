-------------------------------- MODULE Loops --------------------------------
(* Facts about loops that run from 1 to n: the recursive functions that     *)
(* model them are defined, and what each turn preserves holds at the end.   *)
(* They are stated of sets, not of predicates, so that they can be cited.   *)
EXTENDS Naturals, WellFoundedInduction, TLAPS

\* A set of numbers that is not empty has a least one.
LEMMA LeastOfSet ==
  ASSUME NEW S \in SUBSET Nat, S # {}
  PROVE  \E m \in S : \A k \in S : m <= k
<1> DEFINE R == {p \in Nat \X Nat : p[1] < p[2]}
<1>1. OpToRel(<, Nat) = R
  BY DEF OpToRel
<1>2. IsWellFoundedOn(OpToRel(<, Nat), Nat)
  BY NatLessThanWellFounded
<1>3. IsWellFoundedOn(R, Nat)
  BY <1>1, <1>2
<1>4. PICK m \in S : \A k \in S : ~ (<<k, m>> \in R)
  <2> HIDE DEF R
  <2> QED
    BY <1>3, WFMin
<1>5. \A k \in S : ~(k < m)
  BY <1>4
<1> QED
  BY <1>5

\* What holds before the loop and is preserved by every turn holds after all
\* of them: S is the set of turns after which it holds.
LEMMA AfterEveryTurn ==
  ASSUME NEW n \in Nat, NEW S, 0 \in S,
         \A i \in 1..n : i - 1 \in S => i \in S
  PROVE  0..n \subseteq S
<1> DEFINE Bad == {i \in 0..n : i \notin S}
<1>1. SUFFICES ASSUME Bad # {}
               PROVE  FALSE
  OBVIOUS
<1>2. PICK m \in Bad : \A k \in Bad : m <= k
  <2>1. Bad \in SUBSET Nat
    OBVIOUS
  <2> HIDE DEF Bad
  <2> QED
    BY <1>1, <2>1, LeastOfSet
<1>3. m \in 1..n
  BY <1>2
<1>4. m - 1 \in 0..n /\ m - 1 \notin Bad
  BY <1>2, <1>3
<1> QED
  BY <1>2, <1>3, <1>4

\* g maps i to what is reached from x0 after i of n turns, of which turn i
\* takes x to F[x, i].
IsLoop(g, n, x0, F) ==
  /\ g[0] = x0
  /\ \A i \in 1..n : g[i] = F[<<g[i - 1], i>>]

\* A loop whose turns take a member of X to a member of X is defined.
LEMMA LoopIsDefined ==
  ASSUME NEW X, NEW x0 \in X, NEW n \in Nat, NEW F \in [X \X (1..n) -> X]
  PROVE  \E g \in [0..n -> X] : IsLoop(g, n, x0, F)
<1> DEFINE Reaches(g, m) == IsLoop(g, m, x0, F)
           S == {m \in 0..n : \E g \in [0..m -> X] : Reaches(g, m)}
<1>1. 0 \in S
  <2> DEFINE g == [i \in 0..0 |-> x0]
  <2>1. g \in [0..0 -> X] /\ Reaches(g, 0)
    BY DEF IsLoop
  <2> HIDE DEF g, Reaches
  <2>2. \E f \in [0..0 -> X] : Reaches(f, 0)
    BY <2>1
  <2> QED
    BY <2>2
<1>2. ASSUME NEW m \in 1..n, m - 1 \in S
      PROVE  m \in S
  <2>1. PICK g \in [0..(m - 1) -> X] : Reaches(g, m - 1)
    BY <1>2
  <2> DEFINE f == [i \in 0..m |-> IF i = m THEN F[<<g[m - 1], m>>] ELSE g[i]]
  <2>2. g[m - 1] \in X
    OBVIOUS
  <2>3. F[<<g[m - 1], m>>] \in X
    BY <2>2
  <2>4. f \in [0..m -> X]
    BY <2>3
  <2>5. f[0] = x0
    BY <2>1 DEF IsLoop
  <2>6. ASSUME NEW i \in 1..m
        PROVE  f[i] = F[<<f[i - 1], i>>]
    <3>1. CASE i = m
      <4>1. f[i] = F[<<g[m - 1], m>>] /\ f[i - 1] = g[m - 1]
        BY <3>1
      <4> QED
        BY <4>1, <3>1
    <3>2. CASE i # m
      <4>1. i \in 1..(m - 1) /\ i - 1 \in 0..(m - 1)
        BY <3>2
      <4>2. f[i] = g[i] /\ f[i - 1] = g[i - 1]
        BY <3>2, <4>1
      <4>3. g[i] = F[<<g[i - 1], i>>]
        BY <2>1, <4>1 DEF IsLoop
      <4> QED
        BY <4>2, <4>3
    <3> QED
      BY <3>1, <3>2
  <2> HIDE DEF f
  <2> QED
    BY <2>4, <2>5, <2>6 DEF IsLoop
<1>3. 0..n \subseteq S
  <2> HIDE DEF S
  <2> QED
    BY <1>1, <1>2, AfterEveryTurn
<1>4. n \in S
  BY <1>3
<1> QED
  BY <1>4
=============================================================================
