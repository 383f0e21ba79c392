------------------------------ MODULE Vardiff ------------------------------
(***************************************************************************)
(* The control loop around one authorized worker with vardiff on:          *)
(* vardiff_loop scans it every VARDIFF_TICK, maybe_retarget (stratum.py)   *)
(* compares the shares of a sliding window with the target rate and moves  *)
(* the difficulty, which in turn changes the rate of the next shares.      *)
(*                                                                         *)
(* Time is counted in ticks.  The worker finds shares evenly: one whenever *)
(* it has done the work of one at its difficulty.  The loop is about what  *)
(* the controller does with a steady signal; the noise of real mining only *)
(* adds to it.                                                             *)
(***************************************************************************)
EXTENDS Integers, Sequences

CONSTANTS Target,       \* target_spm, in shares per tick
          MinDiff, MaxDiff,
          StartDiffs,   \* difficulties authorize may start from
          Suggests,     \* difficulties the miner may suggest later
          HashRates,    \* work per tick, in shares of difficulty 1
          Window,       \* VARDIFF_WINDOW, in ticks
          MinWindow,    \* VARDIFF_MIN_WINDOW, in ticks
          Interval,     \* VARDIFF_INTERVAL, in ticks
          MaxChanges,   \* bound: changes of hash rate and suggestions
          Patience      \* ticks within which the difficulty is to be right

ASSUME DiffAssumption ==
  /\ Target \in Nat \ {0} /\ MinDiff \in Nat \ {0} /\ MaxDiff \in Nat /\ MinDiff <= MaxDiff
  /\ StartDiffs \subseteq Nat \ {0} /\ Suggests \subseteq Nat \ {0}
  /\ HashRates \subseteq Nat \ {0}
ASSUME WindowAssumption ==
  Window \in Nat /\ MinWindow \in 1..Window /\ Interval \in Nat
  /\ MaxChanges \in Nat /\ Patience \in Nat

VARIABLES hash,    \* the worker's hash rate
          work,    \* work done since its last share
          diff,    \* difficulty
          shares,  \* _shares: how many in each tick of the window, newest last
          since,   \* ticks since _last_vardiff, as far as Interval
          changes, \* how often something changed but by vardiff
          quiet    \* ticks since the last of these, or the start, up to Patience

vars == <<hash, work, diff, shares, since, changes, quiet>>

-----------------------------------------------------------------------------
(* The decision.  A difficulty on its way is a fraction [n |-> _, d |-> _]. *)

Clamp(x) == IF x < MinDiff THEN MinDiff ELSE IF x > MaxDiff THEN MaxDiff ELSE x

\* (mutant) Only the ceiling is enforced.
BoundedAbove(f) == IF f.n > MaxDiff * f.d THEN [n |-> MaxDiff, d |-> 1] ELSE f

Bounded(f) ==
  IF f.n < MinDiff * f.d THEN [n |-> MinDiff, d |-> 1]
  ELSE IF f.n > MaxDiff * f.d THEN [n |-> MaxDiff, d |-> 1]
  ELSE f

\* int(round(x)): to the nearest, a half to the even neighbour.
Round(f) ==
  LET q == f.n \div f.d
      twice == 2 * (f.n % f.d)
  IN  IF twice < f.d \/ (twice = f.d /\ q % 2 = 0) THEN q ELSE q + 1

Sum(counts) ==
  LET upto[i \in 0..Len(counts)] == IF i = 0 THEN 0 ELSE upto[i - 1] + counts[i]
  IN  upto[Len(counts)]

\* (mutant) A silent worker is left at its difficulty.
WantedOfShares(d, counts) ==
  Bounded(IF Sum(counts) = 0 THEN [n |-> d, d |-> 1]
          ELSE [n |-> d * Sum(counts), d |-> Target * Len(counts)])

\* The difficulty that would have met the target over these ticks; a silent
\* worker is eased off to a quarter.
Wanted(d, counts) ==
  Bounded(IF Sum(counts) = 0 THEN [n |-> d, d |-> 4]
          ELSE [n |-> d * Sum(counts), d |-> Target * Len(counts)])

Distance(a, b) == IF a < b THEN b - a ELSE a - b

\* (mutant) Every change is made.
WorthAny(d, f) == Round(f) # d


\* At least a quarter away.
WorthIt(d, f) == 4 * Distance(f.n, d * f.d) >= d * f.d

\* A tick's shares enter the window, the oldest leave it.
Slid(counts, n) ==
  LET all == Append(counts, n) IN IF Len(all) > Window THEN Tail(all) ELSE all

-----------------------------------------------------------------------------

Init ==
  /\ hash \in HashRates /\ diff \in StartDiffs
  /\ work = 0 /\ shares = <<>> /\ since = Interval /\ changes = 0 /\ quiet = 0

\* A tick of mining, then the scan.
Tick ==
  LET waited == IF since < Interval THEN since + 1 ELSE since
      now == Slid(shares, (work + hash) \div diff)
      wanted == Wanted(diff, now)
      retargets == waited = Interval /\ Len(now) >= MinWindow /\ WorthIt(diff, wanted)
  IN  /\ shares' = now
      /\ diff' = IF retargets THEN Round(wanted) ELSE diff
      /\ since' = IF retargets THEN 0 ELSE waited
      /\ work' = (work + hash) % diff
      /\ quiet' = IF quiet < Patience THEN quiet + 1 ELSE quiet
      /\ UNCHANGED <<hash, changes>>

\* on_suggest_difficulty after authorize.
Suggest(d) ==
  /\ changes < MaxChanges /\ changes' = changes + 1 /\ quiet' = 0
  /\ diff' = Clamp(d) /\ since' = 0
  /\ UNCHANGED <<hash, work, shares>>

\* The miner is overclocked, throttled or loses a board.
HashChanges ==
  /\ changes < MaxChanges /\ changes' = changes + 1 /\ quiet' = 0
  /\ hash' \in HashRates /\ hash' # hash
  /\ UNCHANGED <<work, diff, shares, since>>

Next == Tick \/ HashChanges \/ \E d \in Suggests : Suggest(d)

Spec == Init /\ [][Next]_vars /\ WF_vars(Tick)

-----------------------------------------------------------------------------
(* Properties. *)

TypeOK ==
  /\ hash \in HashRates /\ work \in Nat
  /\ diff \in StartDiffs \cup (MinDiff..MaxDiff)
  /\ shares \in Seq(Nat) /\ Len(shares) <= Window
  /\ since \in 0..Interval /\ changes \in 0..MaxChanges /\ quiet \in 0..Patience

\* The feedback loop of a 120 s window and retargets every 45 s has no limit
\* cycle: a worker nobody disturbs any more keeps one difficulty in the end.
StopsMoving == <>[][diff' = diff]_vars

\* And it is the right one: the rate is within the deadband of the target (one
\* share of rounding allowed), or the difficulty at a bound that prevents it.
Slack == (Window * Target) \div 4 + 1
OnTarget == hash \in ((Window * Target - Slack) * diff) \div Window ..
                    ((Window * Target + Slack) * diff) \div Window
AtFloor == 3 * diff < 4 * MinDiff /\ hash < Target * diff
AtCeiling == 4 * MaxDiff < 5 * diff /\ hash > Target * diff
Settled == OnTarget \/ AtFloor \/ AtCeiling

\* It does not take long either.  A retarget counts the shares found before the
\* last one as if they had been found since, and so may carry the difficulty far
\* past the target; a silent worker is only eased off by quarters.  Still, within
\* Patience ticks of the last disturbance the difficulty is right, and stays so.
SettledInTime == quiet = Patience => Settled
=============================================================================
