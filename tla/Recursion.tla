------------------------------ MODULE Recursion ------------------------------
(***************************************************************************)
(* Induction and recursion over the naturals, in a form in which theorems  *)
(* about recursive functions can be proved from them: induction is stated  *)
(* of a set instead of a predicate, and the step of a recursion is a       *)
(* constant, which the module that defines the function substitutes with   *)
(* INSTANCE.  Everything rests on the library's theorem that < is well     *)
(* founded on the naturals.                                                *)
(***************************************************************************)
EXTENDS Integers, WellFoundedInduction, TLAPS

CONSTANT Step(_, _, _)   \* parameters, n and the value at n - 1 to that at n

\* A set of naturals has a least element.
LEMMA LeastNatural ==
  ASSUME NEW T \in SUBSET Nat, T # {}
  PROVE  \E least \in T : \A n \in T : least <= n
<1> DEFINE Less == {pair \in Nat \X Nat : pair[1] < pair[2]}
<1>1. IsWellFoundedOn(Less, Nat)
  BY NatLessThanWellFounded DEF OpToRel
<1> HIDE DEF Less
<1>2. PICK least \in T : \A n \in T : ~(<<n, least>> \in Less)
  BY ONLY <1>1, T \subseteq Nat, T # {}, WFMin, Zenon
<1>3. \A n \in T : ~(n < least)
  BY <1>2 DEF Less
<1> QED
  BY <1>2, <1>3

\* A set that holds 0 and, with each number, the next holds them all.
LEMMA Induction ==
  ASSUME NEW S, 0 \in S, \A n \in Nat : n \in S => n + 1 \in S
  PROVE  \A n \in Nat : n \in S
<1> SUFFICES ASSUME Nat \ S # {}
             PROVE  FALSE
  OBVIOUS
<1>1. PICK least \in Nat \ S : \A n \in Nat \ S : least <= n
  BY LeastNatural
<1>2. least - 1 \in Nat
  BY <1>1
<1> QED
  BY <1>1, <1>2

\* f satisfies the equation by which TLA+ defines a recursive function.
Solves(f, D, param, start) ==
  f = [n \in D |-> IF n = 0 THEN start ELSE Step(param, n, f[n - 1])]

LEMMA SolutionsAgree ==
  ASSUME NEW param, NEW start, NEW g, NEW h, NEW m \in Nat, NEW n \in Nat,
         Solves(g, 0..m, param, start), Solves(h, 0..n, param, start)
  PROVE  \A i \in Nat : i <= m /\ i <= n => g[i] = h[i]
<1> DEFINE Agreed == {i \in Nat : i <= m /\ i <= n => g[i] = h[i]}
<1>1. \A i \in 0..m : g[i] = IF i = 0 THEN start ELSE Step(param, i, g[i - 1])
  BY DEF Solves
<1>2. \A i \in 0..n : h[i] = IF i = 0 THEN start ELSE Step(param, i, h[i - 1])
  BY DEF Solves
<1>3. 0 \in Agreed
  BY <1>1, <1>2
<1>4. ASSUME NEW i \in Nat, i \in Agreed PROVE i + 1 \in Agreed
  <2> SUFFICES ASSUME i + 1 <= m, i + 1 <= n PROVE g[i + 1] = h[i + 1]
    OBVIOUS
  <2>1. i + 1 \in 0..m /\ i + 1 \in 0..n /\ i + 1 # 0 /\ (i + 1) - 1 = i
    OBVIOUS
  <2>2. g[i] = h[i]
    BY <1>4
  <2>3. g[i + 1] = Step(param, i + 1, g[i]) /\ h[i + 1] = Step(param, i + 1, h[i])
    BY <1>1, <1>2, <2>1
  <2> QED
    BY <2>2, <2>3
<1> HIDE DEF Agreed
<1>5. \A i \in Nat : i \in Agreed
  BY <1>3, <1>4, Induction
<1> QED
  BY <1>5 DEF Agreed

\* The equation has a solution up to any n.
LEMMA SolutionUpTo ==
  ASSUME NEW param, NEW start, NEW n \in Nat
  PROVE  \E f : Solves(f, 0..n, param, start)
<1> DEFINE Reached == {i \in Nat : \E f : Solves(f, 0..i, param, start)}
<1>1. 0 \in Reached
  <2>1. Solves([i \in 0..0 |-> start], 0..0, param, start)
    BY DEF Solves
  <2> QED
    BY <2>1
<1>2. ASSUME NEW m \in Nat, m \in Reached PROVE m + 1 \in Reached
  <2>1. PICK g : Solves(g, 0..m, param, start)
    BY <1>2
  <2> DEFINE h == [i \in 0..(m + 1) |-> IF i = m + 1 THEN Step(param, m + 1, g[m]) ELSE g[i]]
  <2>2. \A i \in 0..m : h[i] = g[i]
    OBVIOUS
  <2>3. h[m + 1] = Step(param, m + 1, g[m])
    OBVIOUS
  <2>4. ASSUME NEW i \in 0..(m + 1)
        PROVE  h[i] = IF i = 0 THEN start ELSE Step(param, i, h[i - 1])
    <3>1. CASE i = m + 1
      <4>1. m \in 0..m /\ (m + 1) - 1 = m /\ m + 1 # 0
        OBVIOUS
      <4> QED
        BY <2>2, <2>3, <3>1, <4>1
    <3>2. CASE i \in 1..m
      <4>1. i - 1 \in 0..m
        BY <3>2
      <4>2. g[i] = Step(param, i, g[i - 1])
        BY <2>1, <3>2 DEF Solves
      <4> QED
        BY <2>2, <3>2, <4>1, <4>2
    <3>3. CASE i = 0
      BY <2>1, <3>3 DEF Solves
    <3> QED
      BY <2>4, <3>1, <3>2, <3>3
  <2>5. Solves(h, 0..(m + 1), param, start)
    BY <2>4 DEF Solves
  <2> QED
    BY <2>5
<1> HIDE DEF Reached
<1>3. n \in Reached
  BY <1>1, <1>2, Induction
<1> QED
  BY <1>3 DEF Reached

\* And one for all n.
LEMMA SolutionOnNat ==
  ASSUME NEW param, NEW start
  PROVE  \E f : Solves(f, Nat, param, start)
<1> DEFINE Chosen(n) == CHOOSE f : Solves(f, 0..n, param, start)
           f == [n \in Nat |-> Chosen(n)[n]]
<1>1. \A n \in Nat : Solves(Chosen(n), 0..n, param, start)
  BY SolutionUpTo
<1> HIDE DEF Chosen
<1>2. ASSUME NEW n \in Nat
      PROVE  f[n] = IF n = 0 THEN start ELSE Step(param, n, f[n - 1])
  <2>1. Chosen(n)[n] = IF n = 0 THEN start ELSE Step(param, n, Chosen(n)[n - 1])
    BY <1>1 DEF Solves
  <2>2. n # 0 => n - 1 \in Nat /\ Chosen(n)[n - 1] = Chosen(n - 1)[n - 1]
    BY <1>1, SolutionsAgree
  <2> QED
    BY <2>1, <2>2
<1>3. Solves(f, Nat, param, start)
  BY <1>2 DEF Solves
<1> QED
  BY <1>3
=============================================================================
