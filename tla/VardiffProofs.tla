---------------------------- MODULE VardiffProofs ----------------------------
(***************************************************************************)
(* The controller's decision computes what it should for every window, and *)
(* the difficulty stays within its bounds, for all constants.              *)
(***************************************************************************)
EXTENDS Vardiff, TLAPS

-----------------------------------------------------------------------------
(* The shares of a window. *)

SumStep(counts, i, sum) == sum + counts[i]

\* R gives a solution of its equation.
R == INSTANCE Recursion WITH Step <- SumStep

\* The partial sums that Sum is defined by exist.
LEMMA SumDef ==
  ASSUME NEW counts \in Seq(Nat)
  PROVE  \E upto \in [0..Len(counts) -> Nat] :
           /\ Sum(counts) = upto[Len(counts)]
           /\ upto[0] = 0
           /\ \A i \in 1..Len(counts) : upto[i] = upto[i - 1] + counts[i]
<1> DEFINE L == Len(counts)
           Sums(g) == g = [i \in 0..L |-> IF i = 0 THEN 0 ELSE g[i - 1] + counts[i]]
           upto == CHOOSE g : Sums(g)
<1>1. L \in Nat /\ \A i \in 1..L : counts[i] \in Nat
  OBVIOUS
<1>2. Sum(counts) = upto[L]
  BY DEF Sum
<1> HIDE DEF L
<1>3. \E g : Sums(g)
  <2>1. \E g : R!Solves(g, 0..L, counts, 0)
    BY <1>1, R!SolutionUpTo
  <2> QED
    BY <2>1 DEF R!Solves, SumStep
<1>4. Sums(upto)
  BY <1>3
<1> HIDE DEF upto
<1>5. \A i \in 0..L : upto[i] = IF i = 0 THEN 0 ELSE upto[i - 1] + counts[i]
  BY <1>4
<1>6. \A i \in 0..L : upto[i] \in Nat
  <2> DEFINE Natural == {i \in Nat : i <= L => upto[i] \in Nat}
  <2>1. 0 \in Natural
    BY <1>5
  <2>2. ASSUME NEW i \in Nat, i \in Natural PROVE i + 1 \in Natural
    <3> SUFFICES ASSUME i + 1 <= L PROVE upto[i + 1] \in Nat
      OBVIOUS
    <3>1. upto[i + 1] = upto[i] + counts[i + 1]
      BY <1>1, <1>5
    <3> QED
      BY <1>1, <2>2, <3>1
  <2> HIDE DEF Natural
  <2>3. \A i \in Nat : i \in Natural
    BY <2>1, <2>2, R!Induction
  <2> QED
    BY <2>3 DEF Natural
<1>7. upto \in [0..L -> Nat]
  BY <1>4, <1>6
<1>8. upto[0] = 0 /\ \A i \in 1..L : upto[i] = upto[i - 1] + counts[i]
  BY <1>1, <1>5
<1> QED
  BY <1>2, <1>7, <1>8 DEF L

LEMMA SumType ==
  ASSUME NEW counts \in Seq(Nat)
  PROVE  Sum(counts) \in Nat
<1>1. PICK upto \in [0..Len(counts) -> Nat] : Sum(counts) = upto[Len(counts)]
  BY SumDef
<1>2. Len(counts) \in 0..Len(counts)
  OBVIOUS
<1> QED
  BY <1>1, <1>2

-----------------------------------------------------------------------------
(* The decision. *)

\* A difficulty on its way.
Fraction == [n : Nat, d : Nat \ {0}]

\* Rounding goes to the nearest number.
LEMMA RoundNearest ==
  ASSUME NEW f \in Fraction
  PROVE  /\ Round(f) \in Nat
         /\ 2 * f.n <= (2 * Round(f) + 1) * f.d
         /\ (2 * Round(f) - 1) * f.d <= 2 * f.n
<1> DEFINE n == f.n
           d == f.d
           q == n \div d
           r == n % d
<1>1. n \in Nat /\ d \in Nat \ {0}
  BY DEF Fraction
<1>2. Round(f) = IF 2 * r < d \/ (2 * r = d /\ q % 2 = 0) THEN q ELSE q + 1
  BY DEF Round
<1> HIDE DEF n, d
<1>3. q \in Nat /\ r \in 0..(d - 1) /\ n = d * q + r
  BY <1>1
<1> HIDE DEF q, r
<1>4. q * d = d * q /\ q * d \in Nat
  BY <1>1, <1>3
<1>5. CASE Round(f) = q /\ 2 * r <= d
  <2>1. (2 * q + 1) * d = 2 * (q * d) + d /\ (2 * q - 1) * d = 2 * (q * d) - d
    BY <1>1, <1>3
  <2> QED
    BY <1>1, <1>3, <1>4, <1>5, <2>1 DEF n, d
<1>6. CASE Round(f) = q + 1 /\ 2 * r >= d
  <2>1. (2 * (q + 1) + 1) * d = 2 * (q * d) + 3 * d /\ (2 * (q + 1) - 1) * d = 2 * (q * d) + d
    BY <1>1, <1>3
  <2> QED
    BY <1>1, <1>3, <1>4, <1>6, <2>1 DEF n, d
<1> QED
  BY <1>1, <1>2, <1>3, <1>5, <1>6

\* The bounds hold of what is wanted, and rounding does not leave them.
LEMMA BoundedFits ==
  ASSUME NEW f \in Fraction
  PROVE  /\ Bounded(f) \in Fraction
         /\ Round(Bounded(f)) \in MinDiff..MaxDiff
<1> DEFINE b == Bounded(f)
<1>1. /\ MinDiff \in Nat /\ MaxDiff \in Nat /\ MinDiff <= MaxDiff
      /\ f.n \in Nat /\ f.d \in Nat \ {0}
      /\ MinDiff * f.d \in Nat /\ MaxDiff * f.d \in Nat
  BY DiffAssumption DEF Fraction
<1>2. /\ b \in Fraction
      /\ MinDiff * b.d <= b.n /\ b.n <= MaxDiff * b.d
  BY <1>1 DEF Bounded, Fraction
<1> HIDE DEF b
<1>3. /\ Round(b) \in Nat
      /\ 2 * b.n <= (2 * Round(b) + 1) * b.d
      /\ (2 * Round(b) - 1) * b.d <= 2 * b.n
  BY <1>2, RoundNearest
<1>4. b.n \in Nat /\ b.d \in Nat \ {0}
  BY <1>2 DEF Fraction
<1>5. MinDiff <= Round(b)
  <2>1. (2 * MinDiff) * b.d <= (2 * Round(b) + 1) * b.d
    <3>1. (2 * MinDiff) * b.d = 2 * (MinDiff * b.d)
      BY <1>1, <1>4
    <3> QED
      BY <1>1, <1>2, <1>3, <1>4, <3>1
  <2>2. 2 * MinDiff <= 2 * Round(b) + 1
    BY <1>1, <1>3, <1>4, <2>1
  <2> QED
    BY <1>1, <1>3, <2>2
<1>6. Round(b) <= MaxDiff
  <2>1. (2 * Round(b) - 1) * b.d <= (2 * MaxDiff) * b.d
    <3>1. (2 * MaxDiff) * b.d = 2 * (MaxDiff * b.d)
      BY <1>1, <1>4
    <3> QED
      BY <1>1, <1>2, <1>3, <1>4, <3>1
  <2>2. 2 * Round(b) - 1 <= 2 * MaxDiff
    BY <1>1, <1>3, <1>4, <2>1
  <2> QED
    BY <1>1, <1>3, <2>2
<1> QED
  BY <1>1, <1>2, <1>3, <1>5, <1>6 DEF b

\* What Wanted bounds.
Unbounded(d, counts) ==
  IF Sum(counts) = 0 THEN [n |-> d, d |-> 4]
  ELSE [n |-> d * Sum(counts), d |-> Target * Len(counts)]

LEMMA WantedFits ==
  ASSUME NEW d \in Nat \ {0}, NEW counts \in Seq(Nat), Len(counts) > 0
  PROVE  /\ Unbounded(d, counts) \in Fraction
         /\ Wanted(d, counts) = Bounded(Unbounded(d, counts))
         /\ Wanted(d, counts) \in Fraction
         /\ Round(Wanted(d, counts)) \in MinDiff..MaxDiff
<1>1. Unbounded(d, counts) \in Fraction
  <2>1. Sum(counts) \in Nat /\ Len(counts) \in Nat \ {0} /\ Target \in Nat \ {0}
    BY SumType, DiffAssumption
  <2>2. d * Sum(counts) \in Nat /\ Target * Len(counts) \in Nat \ {0}
    BY <2>1
  <2> QED
    BY <2>2 DEF Unbounded, Fraction
<1>2. Wanted(d, counts) = Bounded(Unbounded(d, counts))
  BY DEF Wanted, Unbounded
<1> QED
  BY <1>1, <1>2, BoundedFits

LEMMA SlidFits ==
  ASSUME NEW counts \in Seq(Nat), Len(counts) <= Window, NEW n \in Nat
  PROVE  /\ Slid(counts, n) \in Seq(Nat)
         /\ Len(Slid(counts, n)) \in 1..Window
<1> DEFINE all == Append(counts, n)
<1>1. /\ Window \in Nat /\ Window >= 1
      /\ all \in Seq(Nat) /\ Len(all) = Len(counts) + 1 /\ Len(counts) \in Nat
  BY WindowAssumption
<1>2. Slid(counts, n) = IF Len(all) > Window THEN Tail(all) ELSE all
  BY DEF Slid
<1> HIDE DEF all
<1>3. CASE Len(all) > Window
  <2>1. Tail(all) \in Seq(Nat) /\ Len(Tail(all)) = Len(all) - 1
    BY <1>1
  <2> QED
    BY <1>1, <1>2, <1>3, <2>1
<1>4. CASE ~(Len(all) > Window)
  BY <1>1, <1>2, <1>4
<1> QED
  BY <1>3, <1>4

-----------------------------------------------------------------------------
(* The loop. *)

LEMMA PositiveDiff ==
  ASSUME TypeOK
  PROVE  diff \in Nat \ {0}
BY DiffAssumption DEF TypeOK

\* A tick either leaves the difficulty or moves it to what the window asks for.
LEMMA TickMoves ==
  ASSUME TypeOK, Tick
  PROVE  /\ shares' \in Seq(Nat) /\ Len(shares') \in 1..Window
         /\ diff' = diff \/ diff' = Round(Wanted(diff, shares'))
<1>1. diff \in Nat \ {0} /\ work \in Nat /\ hash \in Nat
  BY PositiveDiff, DiffAssumption DEF TypeOK
<1>2. (work + hash) \div diff \in Nat
  BY <1>1
<1>3. shares' = Slid(shares, (work + hash) \div diff)
  BY DEF Tick
<1>4. shares' \in Seq(Nat) /\ Len(shares') \in 1..Window
  BY <1>2, <1>3, SlidFits DEF TypeOK
<1>5. diff' = diff \/ diff' = Round(Wanted(diff, shares'))
  BY DEF Tick
<1> QED
  BY <1>4, <1>5

LEMMA TypeKept == TypeOK /\ [Next]_vars => TypeOK'
<1> SUFFICES ASSUME TypeOK, [Next]_vars
             PROVE  TypeOK'
  OBVIOUS
<1>1. CASE Tick
  <2>1. /\ shares' \in Seq(Nat) /\ Len(shares') \in 1..Window
        /\ diff' = diff \/ diff' = Round(Wanted(diff, shares'))
    BY <1>1, TickMoves
  <2>2. diff' \in StartDiffs \cup (MinDiff..MaxDiff)
    BY <2>1, PositiveDiff, WantedFits DEF TypeOK
  <2>3. work' \in Nat
    <3>1. diff \in Nat \ {0} /\ work + hash \in Nat /\ work' = (work + hash) % diff
      BY <1>1, PositiveDiff, DiffAssumption DEF Tick, TypeOK
    <3> QED
      BY <3>1
  <2>4. since' \in 0..Interval
    BY <1>1, WindowAssumption DEF Tick, TypeOK
  <2>5. UNCHANGED <<hash, changes>>
    BY <1>1 DEF Tick
  <2>6. quiet' \in 0..Patience
    BY <1>1, WindowAssumption DEF Tick, TypeOK
  <2> QED
    BY <2>1, <2>2, <2>3, <2>4, <2>5, <2>6 DEF TypeOK
<1>2. CASE HashChanges
  BY <1>2, WindowAssumption DEF HashChanges, TypeOK
<1>3. ASSUME NEW d \in Suggests, Suggest(d) PROVE TypeOK'
  <2>1. Clamp(d) \in MinDiff..MaxDiff
    BY DiffAssumption DEF Clamp
  <2> QED
    BY <1>3, <2>1, WindowAssumption DEF Suggest, TypeOK
<1>4. CASE UNCHANGED vars
  BY <1>4 DEF vars, TypeOK
<1> QED
  BY <1>1, <1>2, <1>3, <1>4 DEF Next

\* The difficulty is one a worker started from or lies between the bounds,
\* whatever the shares of the window and whatever the miner suggests
\* (stratum.py:376-385 and 339-361).
THEOREM TypeCorrect == Spec => []TypeOK
<1>1. Init => TypeOK
  BY DiffAssumption, WindowAssumption DEF Init, TypeOK
<1> QED
  BY <1>1, TypeKept, PTL DEF Spec
=============================================================================
