------------------------------ MODULE Counting ------------------------------
(***************************************************************************)
(* Induction over numbers without an operator parameter: what holds of all *)
(* of them, what a function is that is defined by its first value and by a *)
(* step, and which is the first or the last of some.                       *)
(***************************************************************************)
EXTENDS Integers, Sequences, SequencesExt, FiniteSetsExt, TLAPS, WellFoundedInduction

-----------------------------------------------------------------------------
(* Functions that go through a sequence from its beginning.                *)

Before == {pair \in Nat \X Nat : pair[1] < pair[2]}

LEMMA BeforeWellFounded == IsWellFoundedOn(Before, Nat)
<1>1. Before = OpToRel(<, Nat)
  BY Zenon DEF Before, OpToRel
<1>2. QED
  BY <1>1, NatLessThanWellFounded, Zenon

\* Induction, for sets.
LEMMA AllNumbers ==
  ASSUME NEW T, 0 \in T, \A n \in Nat : n \in T => n + 1 \in T
  PROVE  Nat \subseteq T
<1> DEFINE rest == Nat \ T
<1>1. SUFFICES ASSUME rest # {} PROVE FALSE
  OBVIOUS
<1>2. PICK n \in rest : \A m \in rest : <<m, n>> \notin Before
  BY <1>1, BeforeWellFounded, WFMin, Zenon
<1>3. n # 0 /\ n - 1 \in Nat /\ n - 1 \notin T
  OBVIOUS
<1>4. <<n - 1, n>> \in Before
  BY <1>3 DEF Before
<1>5. QED
  BY <1>2, <1>3, <1>4

\* A function can be defined by what it is at 0 and by a step.
Steps(f, A, first, n, step) ==
    f \in [0..n -> A] /\ f[0] = first /\ \A i \in 1..n : f[i] = step[i][f[i - 1]]

LEMMA StepByStep ==
  ASSUME NEW A, NEW first \in A, NEW n \in Nat, NEW step \in [1..n -> [A -> A]]
  PROVE  \E f : Steps(f, A, first, n, step)
<1> DEFINE T == {k \in Nat : k <= n => \E f : Steps(f, A, first, k, step)}
<1>1. 0 \in T
  <2>1. Steps([i \in 0..0 |-> first], A, first, 0, step)
    BY DEF Steps
  <2>2. QED  BY <2>1
<1>2. ASSUME NEW k \in Nat, k \in T PROVE k + 1 \in T
  <2>1. CASE k + 1 <= n
    <3>1. PICK f : Steps(f, A, first, k, step)
      BY <1>2, <2>1
    <3> DEFINE g == [i \in 0..(k + 1) |-> IF i = k + 1 THEN step[k + 1][f[k]] ELSE f[i]]
    <3>2. f[k] \in A /\ step[k + 1][f[k]] \in A
      BY <2>1, <3>1 DEF Steps
    <3>3. g \in [0..(k + 1) -> A] /\ g[0] = first
      BY <3>1, <3>2 DEF Steps
    <3>4. ASSUME NEW i \in 1..(k + 1) PROVE g[i] = step[i][g[i - 1]]
      <4>1. CASE i = k + 1
        BY <4>1, <3>1
      <4>2. CASE i # k + 1
        BY <4>2, <3>1 DEF Steps
      <4>3. QED  BY <4>1, <4>2
    <3> HIDE DEF g
    <3>5. Steps(g, A, first, k + 1, step)
      BY <3>3, <3>4 DEF Steps
    <3>6. QED  BY <3>5
  <2>2. CASE ~ (k + 1 <= n)
    BY <2>2
  <2>3. QED  BY <2>1, <2>2
<1>3. n \in T
  <2> HIDE DEF T
  <2>1. QED  BY <1>1, <1>2, AllNumbers
<1>4. QED
  BY <1>3
-----------------------------------------------------------------------------
(* The first and the last of some positions.                               *)

LEMMA MinOfSome ==
  ASSUME NEW S, S \subseteq Nat, S # {}
  PROVE  Min(S) \in S /\ \A m \in S : Min(S) <= m
<1>1. PICK n \in S : \A m \in S : <<m, n>> \notin Before
  BY BeforeWellFounded, WFMin, Zenon
<1>2. ASSUME NEW m \in S PROVE n <= m
  <2>1. <<m, n>> \in Nat \X Nat /\ <<m, n>> \notin Before
    BY <1>1
  <2>2. ~ (m < n)
    BY <2>1 DEF Before
  <2>3. QED  BY <2>2
<1>3. QED
  BY <1>2 DEF Min

LEMMA MaxOfSome ==
  ASSUME NEW n \in Nat, NEW S, S \subseteq 1..n, S # {}
  PROVE  Max(S) \in S
<1> DEFINE T == {n - i : i \in S}
<1>1. T \subseteq Nat /\ T # {}
  <2>1. \A i \in S : n - i \in Nat
    OBVIOUS
  <2>2. QED  BY <2>1
<1>2. PICK m \in T : \A k \in T : <<k, m>> \notin Before
  <2> HIDE DEF T
  <2>1. QED  BY <1>1, BeforeWellFounded, WFMin, Zenon
<1>3. ASSUME NEW k \in T PROVE m <= k
  <2> HIDE DEF T
  <2>1. <<k, m>> \in Nat \X Nat /\ <<k, m>> \notin Before
    BY <1>1, <1>2
  <2>2. ~ (k < m)
    BY <2>1 DEF Before
  <2>3. QED  BY <1>1, <1>2, <2>2
<1>4. PICK i \in S : m = n - i
  OBVIOUS
<1>5. \A j \in S : i >= j
  BY <1>3, <1>4
<1>6. QED
  BY <1>5 DEF Max
=============================================================================
