------------------------- MODULE DiagnosticsProofs -------------------------
(***************************************************************************)
(* Proofs about StatsStore, for every set of difficulties, any number of   *)
(* shares, and any combination of crashes, power cuts and refused writes;  *)
(* and about Diagnostics, for any list of checks and any counters: what a  *)
(* run leaves behind, and that it never touches those statistics.          *)
(***************************************************************************)
EXTENDS Diagnostics, TLAPS

-----------------------------------------------------------------------------
(* The statistics store. *)

\* As long as nothing went wrong with the file, it holds the achievements.
Filed ==
  excuses = {} =>
    /\ disk # Unreadable /\ disk.best = earned.best /\ disk.blocks = earned.blocks
    /\ up => Shown

IInv == TypeOK /\ Filed /\ PendingMarked

LEMMA ZeroCounts == Zero \in Counts
BY DiffAssumption DEF Zero, Counts

\* The counters an update leaves are counters.
LEMMA Fields ==
  ASSUME NEW c \in Counts
  PROVE  /\ c.accepted \in 0..MaxCount /\ c.rejected \in 0..MaxCount
         /\ c.best \in Diff \cup {0} /\ c.blocks \in 0..MaxCount
         /\ c = [accepted |-> c.accepted, rejected |-> c.rejected,
                 best |-> c.best, blocks |-> c.blocks]
BY DEF Counts

LEMMA AcceptCounts ==
  ASSUME NEW c \in Counts, NEW q \in Diff, c.accepted < MaxCount
  PROVE  /\ Counted(c, q) \in Counts
         /\ Counted(c, q).best = (IF q > c.best THEN q ELSE c.best)
         /\ Counted(c, q).blocks = c.blocks
<1> DEFINE d == [c EXCEPT !.accepted = @ + 1]
           best == IF q > c.best THEN q ELSE c.best
<1>1. d \in Counts /\ d.best = c.best /\ d.blocks = c.blocks
  BY Fields, DiffAssumption DEF Counts
<1>2. best \in Diff \cup {0}
  BY Fields
<1>3. Counted(c, q) = [d EXCEPT !.best = best]
  BY DEF Counted
<1> HIDE DEF d, best
<1>4. [d EXCEPT !.best = best] \in Counts
  BY <1>1, <1>2, Fields DEF Counts
<1>5. [d EXCEPT !.best = best].best = best /\ [d EXCEPT !.best = best].blocks = d.blocks
  BY <1>1, Fields
<1>6. QED BY <1>1, <1>3, <1>4, <1>5 DEF best

LEMMA RejectCounts ==
  ASSUME NEW c \in Counts, c.rejected < MaxCount
  PROVE  [c EXCEPT !.rejected = @ + 1] \in Counts
BY Fields, DiffAssumption DEF Counts

LEMMA BlockCounts ==
  ASSUME NEW c \in Counts, c.blocks < MaxCount
  PROVE  [c EXCEPT !.blocks = @ + 1] \in Counts
BY Fields, DiffAssumption DEF Counts

LEMMA ClearedCounts == ASSUME NEW c \in Counts PROVE Cleared(c) \in Counts
BY DiffAssumption DEF Cleared, Zero, Counts

\* A write of counters leaves a typed state, and the file is the memory unless
\* that is marked.
LEMMA WriteKeeps ==
  ASSUME TypeOK, NEW m \in Counts, Written(m)
  PROVE  /\ dirty' \in BOOLEAN /\ throttled' \in BOOLEAN /\ settled' \in BOOLEAN
         /\ disk' \in Counts \cup {Unreadable} /\ excuses' \subseteq {"refused", "spoilt"}
         /\ m # disk' => dirty'
         /\ excuses' = {} => disk' = m /\ excuses = {}
BY DEF TypeOK, Written, Write, Fail, Refused, file

LEMMA SaveKeeps ==
  ASSUME TypeOK, NEW m \in Counts, SavedSoon(m)
  PROVE  /\ dirty' \in BOOLEAN /\ throttled' \in BOOLEAN /\ settled' \in BOOLEAN
         /\ disk' \in Counts \cup {Unreadable} /\ excuses' \subseteq {"refused", "spoilt"}
         /\ m # disk' => dirty'
         /\ excuses' = {} => (disk' = m \/ disk' = disk) /\ excuses = {}
<1>1. CASE throttled
  BY <1>1 DEF TypeOK, SavedSoon, file
<1>2. CASE ~throttled
  BY <1>2, WriteKeeps DEF SavedSoon
<1>3. QED BY <1>1, <1>2

LEMMA InitInv == Init => IInv
<1>1. SUFFICES ASSUME Init PROVE IInv
  OBVIOUS
<1>2. TypeOK
  BY <1>1, ZeroCounts DEF Init, TypeOK
<1>3. Filed /\ PendingMarked
  BY <1>1, ZeroCounts, UnreadableAssumption DEF Init, Filed, PendingMarked, Shown
<1>4. QED BY <1>2, <1>3 DEF IInv

LEMMA NextInv == IInv /\ [Next]_vars => IInv'
<1> SUFFICES ASSUME IInv, [Next]_vars PROVE IInv'
  OBVIOUS
<1> USE DEF IInv
<1>1. ASSUME NEW q \in Diff, Accept(q) PROVE IInv'
  <2>1. /\ up /\ up' /\ full' = full /\ mem.accepted < MaxCount /\ earned.accepted < MaxCount
        /\ mem' = Counted(mem, q) /\ earned' = Counted(earned, q)
        /\ AcceptSaved(mem', q > mem.best)
    BY <1>1 DEF Accept, TypeOK
  <2>2. mem' \in Counts /\ earned' \in Counts
    BY <2>1, AcceptCounts DEF TypeOK
  <2>3. /\ dirty' \in BOOLEAN /\ throttled' \in BOOLEAN /\ settled' \in BOOLEAN
        /\ disk' \in Counts \cup {Unreadable} /\ excuses' \subseteq {"refused", "spoilt"}
        /\ mem' # disk' => dirty'
        /\ excuses' = {} => (disk' = mem' \/ (disk' = disk /\ ~(q > mem.best))) /\ excuses = {}
    <3>1. CASE q > mem.best
      <4>1. Written(mem')
        BY <2>1, <3>1 DEF AcceptSaved
      <4>2. QED BY <2>2, <4>1, WriteKeeps
    <3>2. CASE ~(q > mem.best)
      <4>1. SavedSoon(mem')
        BY <2>1, <3>2 DEF AcceptSaved
      <4>2. QED BY <2>2, <3>2, <4>1, SaveKeeps
    <3>3. QED BY <3>1, <3>2
  <2>4. ASSUME excuses' = {}
        PROVE  /\ disk' # Unreadable /\ disk'.best = earned'.best
               /\ disk'.blocks = earned'.blocks /\ Shown'
    <3>1. excuses = {} /\ mem.best = earned.best /\ mem.blocks = earned.blocks
          /\ disk # Unreadable /\ disk.best = earned.best /\ disk.blocks = earned.blocks
      BY <2>1, <2>3, <2>4 DEF Filed, Shown
    <3>2. /\ mem'.best = (IF q > mem.best THEN q ELSE mem.best) /\ mem'.blocks = mem.blocks
          /\ earned'.best = (IF q > earned.best THEN q ELSE earned.best)
          /\ earned'.blocks = earned.blocks
      BY <2>1, AcceptCounts DEF TypeOK
    <3>3. QED BY <2>2, <2>3, <2>4, <3>1, <3>2, UnreadableAssumption DEF Shown
  <2>5. QED BY <2>1, <2>2, <2>3, <2>4 DEF TypeOK, Filed, PendingMarked
<1>2. ASSUME Reject PROVE IInv'
  <2>1. /\ up /\ up' /\ full' = full /\ mem' \in Counts /\ earned' \in Counts
        /\ mem'.best = mem.best /\ mem'.blocks = mem.blocks
        /\ earned'.best = earned.best /\ earned'.blocks = earned.blocks
        /\ SavedSoon(mem')
    BY <1>2, RejectCounts, Fields DEF Reject, TypeOK
  <2>2. QED BY <2>1, SaveKeeps, UnreadableAssumption DEF TypeOK, Filed, PendingMarked, Shown
<1>3. ASSUME Block PROVE IInv'
  <2>1. /\ up /\ up' /\ full' = full /\ mem' \in Counts /\ earned' \in Counts
        /\ mem'.best = mem.best /\ mem'.blocks = mem.blocks + 1
        /\ earned'.best = earned.best /\ earned'.blocks = earned.blocks + 1
        /\ Written(mem')
    BY <1>3, BlockCounts, Fields DEF Block, TypeOK
  <2>2. QED BY <2>1, WriteKeeps, UnreadableAssumption DEF TypeOK, Filed, PendingMarked, Shown
<1>4. ASSUME Reset PROVE IInv'
  <2>1. /\ up /\ up' /\ full' = full /\ mem' \in Counts /\ earned' \in Counts
        /\ mem'.best = 0 /\ mem'.blocks = mem.blocks
        /\ earned'.best = 0 /\ earned'.blocks = earned.blocks
        /\ Written(mem')
    BY <1>4, ClearedCounts DEF Reset, Cleared, Zero, TypeOK
  <2>2. QED BY <2>1, WriteKeeps, UnreadableAssumption DEF TypeOK, Filed, PendingMarked, Shown
<1>5. ASSUME Shutdown PROVE IInv'
  <2>1. up /\ up' = FALSE /\ Written(mem) /\ UNCHANGED <<mem, full, earned>>
    BY <1>5 DEF Shutdown
  <2>2. QED BY <2>1, WriteKeeps, UnreadableAssumption DEF TypeOK, Filed, PendingMarked, Shown
<1>6. CASE ThrottleOver
  BY <1>6 DEF ThrottleOver, TypeOK, Filed, PendingMarked, Shown, file
<1>7. ASSUME Start PROVE IInv'
  <2>1. mem' = Loaded /\ mem' \in Counts /\ up' = TRUE /\ earned' = earned /\ full' = full
    BY <1>7, ZeroCounts DEF Start, Loaded, TypeOK
  <2>2. CASE full
    BY <1>7, <2>1, <2>2 DEF Start, Loaded, Refused, file, TypeOK, Filed, PendingMarked, Shown
  <2>3. CASE ~full
    BY <1>7, <2>1, <2>3, UnreadableAssumption
    DEF Start, Loaded, Write, TypeOK, Filed, PendingMarked, Shown
  <2>4. QED BY <2>2, <2>3
<1>8. CASE Crash
  BY <1>8 DEF Crash, TypeOK, Filed, PendingMarked, Shown, file
<1>9. CASE PowerCut
  BY <1>9 DEF PowerCut, TypeOK, Filed, PendingMarked, Shown
<1>10. CASE Settle
  BY <1>10 DEF Settle, TypeOK, Filed, PendingMarked, Shown
<1>11. CASE DiskFlips
  BY <1>11 DEF DiskFlips, TypeOK, Filed, PendingMarked, Shown, file
<1>12. CASE UNCHANGED vars
  BY <1>12 DEF vars, TypeOK, Filed, PendingMarked, Shown, file
<1>13. QED
  BY <1>1, <1>2, <1>3, <1>4, <1>5, <1>6, <1>7, <1>8, <1>9, <1>10, <1>11, <1>12 DEF Next

\* The strengthening holds in every reachable state.
THEOREM Inductive == Spec => []IInv
BY InitInv, NextInv, PTL DEF Spec

\* The counters and the file keep their types (TypeOK).
THEOREM TypeCorrect == Spec => []TypeOK
BY Inductive, PTL DEF IInv

\* Whenever the program runs it shows the best share and the blocks of all its
\* lives, unless the disk refused a write or spoilt the file.
THEOREM AchievementsKept == Spec => []AchievementsShown
<1>1. IInv => AchievementsShown
  BY DEF IInv, Filed, AchievementsShown
<1>2. QED BY <1>1, Inductive, PTL

\* What memory has and the file has not is marked for the next save.
THEOREM NothingPendingForgotten == Spec => []PendingMarked
BY Inductive, PTL DEF IInv

-----------------------------------------------------------------------------
(* The diagnostic run. *)

Statuses == Fine \cup {"pending", "running", "fail"}

\* While a run is inside check i, what came before has passed and what comes
\* after has not begun.
InCheck(i) == status[i] = "running" /\ Before(i, Fine) /\ After(i, {"pending"})

DInv ==
  /\ status \in [Index -> Statuses]
  /\ task \in {Idle, "created", "checking", "cancelled"}
  /\ task = "created" => status = Waiting /\ result = "none"
  /\ task \in {"checking", "cancelled"} => \E i \in Index : InCheck(i)
  /\ ReportFits

-----------------------------------------------------------------------------

LEMMA FirstCheck == 1 \in Index /\ Len(Checks) \in Nat
BY CheckAssumption DEF Index

LEMMA VerdictKinds ==
  ASSUME NEW i \in Index, NEW v \in Verdicts(i)
  PROVE  v \in Fine \cup {"fail"}
<1>1. SharesVerdict \in Fine \cup {"fail"} /\ RejectsVerdict \in Fine
  BY DEF SharesVerdict, RejectsVerdict, Fine
<1>2. \A id \in STRING : NodeVerdicts(id) \in SUBSET (Fine \cup {"fail"})
  BY DEF NodeVerdicts, Fine
<1>3. \A id \in STRING : PeerVerdicts(id) \in SUBSET (Fine \cup {"fail"})
  BY DEF PeerVerdicts, Fine
<1>4. Checks[i] \in STRING
  BY CheckAssumption DEF Index
<1> QED
  BY <1>1, <1>2, <1>3, <1>4 DEF Verdicts, Fine

LEMMA WaitingTyped ==
  Waiting \in [Index -> Statuses] /\ \A i \in Index : Waiting[i] = "pending"
BY DEF Waiting, Statuses

LEMMA InitDInv == DiagInit => DInv
BY WaitingTyped DEF DiagInit, DInv, ReportFits, Running, Idle

LEMMA BeginDInv ==
  ASSUME DInv, Begin
  PROVE  DInv'
<1>1. status = Waiting /\ task' = "checking" /\ status' = [status EXCEPT ![1] = "running"]
  BY DEF DInv, Begin
<1>2. status' \in [Index -> Statuses]
  BY <1>1, WaitingTyped DEF Statuses
<1>3. InCheck(1)'
  BY <1>1, WaitingTyped, FirstCheck DEF InCheck, Before, After, Index
<1> QED
  BY <1>1, <1>2, <1>3, FirstCheck DEF DInv, ReportFits, Running, Idle

LEMMA PassesDInv ==
  ASSUME DInv, NEW i \in Index, At(i), NEW v \in Fine, Passes(i, v)
  PROVE  DInv'
<1>1. task = "checking" /\ task' = task /\ i + 1 \in Index
  BY FirstCheck DEF At, Passes, Index
<1>2. status' = [status EXCEPT ![i] = v, ![i + 1] = "running"] /\ status \in [Index -> Statuses]
  BY DEF Passes, DInv
<1>3. status' \in [Index -> Statuses]
  BY <1>2 DEF Statuses
<1>4. InCheck(i)
  <2>1. PICK j \in Index : InCheck(j)
    BY <1>1 DEF DInv
  <2>2. j = i
    BY <2>1 DEF InCheck, Before, After, At, Fine, Index
  <2> QED
    BY <2>1, <2>2
<1>5. InCheck(i + 1)'
  BY <1>1, <1>2, <1>4 DEF InCheck, Before, After, Index
<1> QED
  BY <1>1, <1>3, <1>5 DEF DInv, ReportFits, Running, Idle

LEMMA CompletesDInv ==
  ASSUME DInv, NEW i \in Index, At(i), NEW v \in Fine, Completes(i, v)
  PROVE  DInv'
<1>1. task = "checking" /\ task' = Idle /\ result' = "pass" /\ i = Len(Checks)
  BY DEF At, Completes, Ends
<1>2. status' = [status EXCEPT ![i] = v] /\ status \in [Index -> Statuses]
  BY DEF Completes, DInv
<1>3. status' \in [Index -> Statuses]
  BY <1>2 DEF Statuses
<1>4. \A j \in Index : j # i => status[j] \in Fine
  <2>1. PICK k \in Index : InCheck(k)
    BY <1>1 DEF DInv
  <2>2. k = i
    BY <2>1 DEF InCheck, Before, After, At, Fine, Index
  <2> QED
    BY <2>1, <2>2, <1>1, FirstCheck DEF InCheck, Before, Index
<1>5. \A j \in Index : status'[j] \in Fine
  BY <1>2, <1>4
<1> QED
  BY <1>1, <1>3, <1>5 DEF DInv, ReportFits, Running, Idle

LEMMA FailsDInv ==
  ASSUME DInv, NEW i \in Index, At(i), Fails(i)
  PROVE  DInv'
<1>1. task = "checking" /\ task' = Idle /\ result' = "fail"
  BY DEF At, Fails, Ends
<1>2. status' = [j \in Index |-> IF j < i THEN status[j] ELSE IF j = i THEN "fail" ELSE "skip"]
  BY DEF Fails
<1>3. status' \in [Index -> Statuses]
  BY <1>2 DEF DInv, Statuses, Fine
<1>4. InCheck(i)
  <2>1. PICK j \in Index : InCheck(j)
    BY <1>1 DEF DInv
  <2>2. j = i
    BY <2>1 DEF InCheck, Before, After, At, Fine, Index
  <2> QED
    BY <2>1, <2>2
<1>5. status'[i] = "fail" /\ Before(i, Fine)' /\ After(i, {"skip"})'
  BY <1>2, <1>4 DEF InCheck, Before, After, Index
<1> QED
  BY <1>1, <1>3, <1>5 DEF DInv, ReportFits, Running, Idle

LEMMA CheckEndsDInv ==
  ASSUME DInv, CheckEnds
  PROVE  DInv'
<1>1. PICK i \in Index : /\ At(i)
                         /\ \E v \in Verdicts(i) : IF v = "fail" THEN Fails(i)
                                                   ELSE Passes(i, v) \/ Completes(i, v)
  BY DEF CheckEnds
<1>2. PICK v \in Verdicts(i) : IF v = "fail" THEN Fails(i) ELSE Passes(i, v) \/ Completes(i, v)
  BY <1>1
<1>3. CASE v = "fail"
  BY <1>1, <1>2, <1>3, FailsDInv
<1>4. CASE v # "fail"
  BY <1>1, <1>2, <1>4, VerdictKinds, PassesDInv, CompletesDInv
<1> QED
  BY <1>3, <1>4

LEMMA CancelledDInv ==
  ASSUME DInv, Cancelled
  PROVE  DInv'
<1>1. task = "cancelled" /\ task' = Idle /\ result' = "stopped"
      /\ status' = [i \in Index |-> Cut(status[i])]
  BY DEF Cancelled, Ends
<1>2. PICK i \in Index : InCheck(i)
  BY <1>1 DEF DInv
<1>3. \A j \in Index : status'[j] \in Fine
  BY <1>1, <1>2 DEF InCheck, Before, After, Cut, Fine, Index
<1>4. status' \in [Index -> Statuses]
  BY <1>1, <1>3 DEF Statuses
<1> QED
  BY <1>1, <1>3, <1>4 DEF DInv, ReportFits, Running, Idle

LEMMA StepDInv == DInv /\ [DiagNext]_<<vars, run>> => DInv'
<1> SUFFICES ASSUME DInv, [DiagNext]_<<vars, run>> PROVE DInv'
  OBVIOUS
<1>1. ASSUME UNCHANGED <<task, status, result>> PROVE DInv'
  BY <1>1 DEF DInv, ReportFits, Running, InCheck, Before, After
<1>2. CASE StartChecks
  BY <1>2, WaitingTyped DEF StartChecks, DInv, ReportFits, Running, Idle
<1>3. CASE StopChecks
  <2>1. CASE task = "created"
    BY <1>3, <2>1, WaitingTyped DEF StopChecks, DInv, ReportFits, Running, Idle
  <2>2. CASE task # "created"
    <3>1. /\ task \in {"checking", "cancelled"} /\ task' = "cancelled"
          /\ UNCHANGED <<status, result>>
      BY <1>3, <2>2 DEF StopChecks, DInv, Running
    <3>2. \E i \in Index : InCheck(i)'
      BY <3>1 DEF DInv, InCheck, Before, After
    <3> QED
      BY <3>1, <3>2 DEF DInv, ReportFits, Running, Idle
  <2> QED
    BY <2>1, <2>2
<1>4. CASE Begin
  BY <1>4, BeginDInv
<1>5. CASE CheckEnds
  BY <1>5, CheckEndsDInv
<1>6. CASE Cancelled
  BY <1>6, CancelledDInv
<1>7. CASE Alongside
  <2>1. CASE up'
    BY <1>1, <1>7, <2>1 DEF Alongside
  <2>2. CASE ~up'
    BY <1>7, <2>2, WaitingTyped DEF Alongside, DInv, ReportFits, Running, Idle
  <2> QED
    BY <2>1, <2>2
<1>8. CASE UNCHANGED <<vars, run>>
  BY <1>1, <1>8 DEF run
<1> QED
  BY <1>2, <1>3, <1>4, <1>5, <1>6, <1>7, <1>8 DEF DiagNext

\* Whatever the checks are and however a run of Diagnostics is stopped, its
\* report fits its outcome.
THEOREM ReportsFit == DiagSpec => []ReportFits
<1>1. DInv => ReportFits
  BY DEF DInv
<1> QED
  BY InitDInv, StepDInv, <1>1, PTL DEF DiagSpec

\* A step of the self-test is a stutter of the statistics: beside it they keep
\* their own specification, so what is proved of them above holds too.
THEOREM StatisticsUntouched == DiagSpec => Spec
<1>1. DiagInit => Init
  BY DEF DiagInit
<1>2. [DiagNext]_<<vars, run>> => [Next]_vars
  BY DEF DiagNext, StartChecks, StopChecks, Begin, CheckEnds, Cancelled, Alongside
<1> QED
  BY <1>1, <1>2, PTL DEF DiagSpec, Spec

-----------------------------------------------------------------------------
(* The verdict on the shares. *)

\* Between the moment the check of shares took the counters and now: with no
\* reset in between, they differ exactly if a share was accepted.
Watched ==
  "wiped" \notin seen =>
    /\ mem.accepted >= ctx.accepted
    /\ "gained" \in seen <=> mem.accepted # ctx.accepted

QInv ==
  /\ ctx \in [synced : BOOLEAN, accepted : Int, rejected : Int]
  /\ IF Counting THEN Watched ELSE seen = {}

LEMMA OneRunning ==
  ASSUME DInv, NEW i \in Index, At(i), NEW j \in Index, At(j)
  PROVE  i = j
<1>1. PICK k \in Index : InCheck(k)
  BY DEF DInv, At
<1>2. k = i
  BY <1>1 DEF InCheck, Before, After, At, Fine, Index
<1>3. k = j
  BY <1>1 DEF InCheck, Before, After, At, Fine, Index
<1> QED
  BY <1>2, <1>3

LEMMA CountsWhole ==
  ASSUME TypeOK
  PROVE  mem.accepted \in Int /\ mem.rejected \in Int
BY Fields DEF TypeOK

\* No run, or one that is not inside a check.
LEMMA NotWatching ==
  ASSUME task' # "checking", ctx' = NoCtx, seen' = {}
  PROVE  QInv'
<1>1. ~Counting'
  BY DEF Counting, At
<1>2. NoCtx \in [synced : BOOLEAN, accepted : Int, rejected : Int]
  BY DEF NoCtx
<1> QED
  BY <1>1, <1>2 DEF QInv

LEMMA EnteredTyped ==
  ASSUME TypeOK, NEW i \in Index, NEW c \in [synced : BOOLEAN, accepted : Int, rejected : Int]
  PROVE  /\ Entered(i, c) \in [synced : BOOLEAN, accepted : Int, rejected : Int]
         /\ Checks[i] = "shares" => Entered(i, c).accepted = mem.accepted
BY CountsWhole DEF Entered

LEMMA InitQInv == DiagInit => QInv
BY DEF DiagInit, QInv, NoCtx, Counting, At, Idle

\* The check that is entered begins to watch now.
LEMMA WatchBegins ==
  ASSUME TypeOK, DInv', NEW i \in Index, At(i)', UNCHANGED mem, seen' = {},
         NEW c \in [synced : BOOLEAN, accepted : Int, rejected : Int], ctx' = Entered(i, c)
  PROVE  QInv'
<1>1. ctx' \in [synced : BOOLEAN, accepted : Int, rejected : Int]
      /\ (Checks[i] = "shares" => ctx'.accepted = mem.accepted)
  BY EnteredTyped
<1>2. Counting' => Checks[i] = "shares"
  <2> SUFFICES ASSUME NEW j \in Index, Checks[j] = "shares", At(j)' PROVE Checks[i] = "shares"
    BY DEF Counting
  <2>1. PICK k \in Index : InCheck(k)'
    BY DEF DInv, At
  <2>2. k = i /\ k = j
    BY <2>1 DEF InCheck, Before, After, At, Fine, Index
  <2> QED
    BY <2>2
<1> QED
  BY <1>1, <1>2, CountsWhole DEF QInv, Watched

LEMMA CheckEndsQInv ==
  ASSUME TypeOK, DInv, DInv', QInv, CheckEnds
  PROVE  QInv'
<1>1. PICK i \in Index : /\ At(i)
                         /\ \E v \in Verdicts(i) : IF v = "fail" THEN Fails(i)
                                                   ELSE Passes(i, v) \/ Completes(i, v)
  BY DEF CheckEnds
<1>2. seen' = {} /\ UNCHANGED mem
  BY DEF CheckEnds, vars
<1>3. CASE task' = Idle /\ ctx' = NoCtx
  BY <1>2, <1>3, NotWatching DEF Idle
<1>4. ASSUME NEW v, Passes(i, v) PROVE QInv'
  <2>1. i + 1 \in Index /\ status'[i + 1] = "running" /\ task' = "checking"
    BY <1>1, <1>4, FirstCheck DEF Passes, At, DInv, Index
  <2>2. PICK c \in Noted(i, v) : ctx' = Entered(i + 1, c)
    BY <1>4 DEF Passes
  <2>3. c \in [synced : BOOLEAN, accepted : Int, rejected : Int]
    BY <2>2 DEF Noted, QInv
  <2> QED
    BY <1>2, <2>1, <2>2, <2>3, WatchBegins DEF At
<1> QED
  BY <1>1, <1>3, <1>4 DEF Fails, Completes, Ends

LEMMA AlongsideQInv ==
  ASSUME TypeOK, TypeOK', QInv, Alongside
  PROVE  QInv'
<1>1. CASE ~up'
  BY <1>1, NotWatching DEF Alongside, Idle
<1>2. CASE up' /\ ~Counting
  BY <1>2 DEF Alongside, QInv, Counting, At
<1>3. CASE up' /\ Counting
  <2>1. seen' = seen \cup Events /\ UNCHANGED <<task, status, ctx>>
    BY <1>3 DEF Alongside
  <2>2. Watched
    BY <1>3 DEF QInv
  <2>3. mem.accepted \in Int /\ mem'.accepted \in Int /\ ctx.accepted \in Int
    <3>1. mem'.accepted \in Int
      BY Fields DEF TypeOK
    <3> QED
      BY <3>1, CountsWhole DEF QInv
  <2>4. /\ "wiped" \in Events <=> mem'.accepted < mem.accepted
        /\ "gained" \in Events <=> mem'.accepted > mem.accepted
    BY DEF Events
  <2>5. Watched'
    BY <2>1, <2>2, <2>3, <2>4 DEF Watched
  <2> QED
    BY <1>3, <2>1, <2>5 DEF QInv, Counting, At
<1> QED
  BY <1>1, <1>2, <1>3

LEMMA StepQInv ==
  TypeOK /\ TypeOK' /\ DInv /\ DInv' /\ QInv /\ [DiagNext]_<<vars, run>> => QInv'
<1> SUFFICES ASSUME TypeOK, TypeOK', DInv, DInv', QInv, [DiagNext]_<<vars, run>> PROVE QInv'
  OBVIOUS
<1>1. CASE StartChecks \/ StopChecks
  BY <1>1, NotWatching DEF StartChecks, StopChecks, Idle
<1>2. CASE Begin
  <2>1. ~Counting /\ status = Waiting
    BY <1>2 DEF Begin, DInv, Counting, At
  <2>2. seen' = {} /\ UNCHANGED mem /\ ctx' = Entered(1, ctx)
    BY <1>2, <2>1 DEF Begin, QInv, vars
  <2>3. At(1)'
    BY <1>2, <2>1, FirstCheck DEF Begin, At, Waiting
  <2> QED
    BY <2>2, <2>3, FirstCheck, WatchBegins DEF QInv
<1>3. CASE CheckEnds
  BY <1>3, CheckEndsQInv
<1>4. CASE Cancelled
  <2>1. ~Counting
    BY <1>4 DEF Cancelled, Counting, At
  <2> QED
    BY <1>4, <2>1, NotWatching DEF Cancelled, Ends, QInv, Idle
<1>5. CASE Alongside
  BY <1>5, AlongsideQInv
<1>6. CASE UNCHANGED <<vars, run>>
  BY <1>6 DEF vars, run, QInv, Watched, Counting, At
<1> QED
  BY <1>1, <1>2, <1>3, <1>4, <1>5, <1>6 DEF DiagNext

\* Each step settles the check of shares by what it has watched.
Earned ==
  \A i \in Index : Checks[i] = "shares" /\ At(i) /\ status'[i] \in {"pass", "fail"} =>
    ((status'[i] = "pass") <=> ("gained" \in seen)) \/ "wiped" \in seen

LEMMA StepEarned ==
  TypeOK /\ DInv /\ QInv /\ [DiagNext]_<<vars, run>> => [Earned]_<<vars, run>>
<1> SUFFICES ASSUME TypeOK, DInv, QInv, DiagNext,
                    NEW i \in Index, Checks[i] = "shares", At(i), status'[i] \in {"pass", "fail"},
                    "wiped" \notin seen
             PROVE  (status'[i] = "pass") <=> ("gained" \in seen)
  BY DEF Earned
<1>1. CheckEnds
  BY WaitingTyped DEF DiagNext, StartChecks, StopChecks, Begin, Cancelled, Alongside, At, Idle, Running
<1>2. PICK j \in Index : /\ At(j)
                         /\ \E v \in Verdicts(j) : IF v = "fail" THEN Fails(j)
                                                   ELSE Passes(j, v) \/ Completes(j, v)
  BY <1>1 DEF CheckEnds
<1>3. j = i
  BY <1>2, OneRunning
<1>4. PICK v \in Verdicts(i) : IF v = "fail" THEN Fails(i) ELSE Passes(i, v) \/ Completes(i, v)
  BY <1>2, <1>3
<1>5. v = SharesVerdict
  BY <1>4 DEF Verdicts
<1>6. status'[i] = v
  BY <1>4, FirstCheck DEF Fails, Passes, Completes, DInv, Index
<1>7. "gained" \in seen <=> mem.accepted # ctx.accepted
  BY DEF QInv, Watched, Counting
<1>8. mem.accepted \in Int /\ ctx.accepted \in Int
  BY CountsWhole DEF QInv
<1> QED
  BY <1>5, <1>6, <1>7, <1>8 DEF SharesVerdict, Accepted

\* The check of shares passes exactly if a share was accepted while it waited,
\* unless the counters were reset meanwhile; whatever else happened.
THEOREM VerdictEarned == DiagSpec => SharesVerdictEarned
<1>1. DiagSpec => []TypeOK
  BY StatisticsUntouched, TypeCorrect
<1>2. [Earned]_<<vars, run>> => [\A i \in Index :
        Checks[i] = "shares" /\ At(i) /\ status'[i] \in {"pass", "fail"} =>
          ((status'[i] = "pass") <=> ("gained" \in seen)) \/ "wiped" \in seen]_<<vars, run>>
  BY DEF Earned
<1> QED
  BY <1>1, <1>2, InitDInv, StepDInv, InitQInv, StepQInv, StepEarned, PTL
     DEF DiagSpec, SharesVerdictEarned
=============================================================================
