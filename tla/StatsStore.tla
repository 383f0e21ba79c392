----------------------------- MODULE StatsStore -----------------------------
(***************************************************************************)
(* The lifetime statistics (Stats in stats.py): counters in memory, a      *)
(* throttled copy in stats.json, and the process and the disk under them.  *)
(* What becomes of a block entry is the matter of BlockSubmit; here it is  *)
(* one more number that forces a write.                                    *)
(*                                                                         *)
(* A write renames a new file over the old one without fsync, so a power   *)
(* cut soon after it may leave a file that cannot be parsed.               *)
(***************************************************************************)
EXTENDS Naturals

CONSTANTS Diff,        \* difficulties a share may reach
          MaxCount,    \* bound: shares, and blocks, counted
          PowerCuts,   \* the power may fail, not only the process
          DiskFills,   \* a write may fail
          Unreadable   \* a file that cannot be parsed

Counts ==
  [accepted : 0..MaxCount, rejected : 0..MaxCount,
   best : Diff \cup {0}, blocks : 0..MaxCount]

ASSUME DiffAssumption == Diff \subseteq Nat \ {0} /\ MaxCount \in Nat
ASSUME EnvironmentAssumption == PowerCuts \in BOOLEAN /\ DiskFills \in BOOLEAN
ASSUME UnreadableAssumption == Unreadable \notin Counts

VARIABLES
  mem,       \* counters in memory
  dirty,     \* _dirty; of no meaning when the process is down
  throttled, \* less than SAVE_MIN_INTERVAL since _last_save
  disk,      \* counters in stats.json, or Unreadable
  settled,   \* the file's data has reached the medium
  full,      \* the data directory takes no writes
  up,        \* the process runs
  earned,    \* the miner's record: what happened since the last reset
  excuses    \* "refused": a write has failed; "spoilt": a file was lost

file == <<disk, settled>>
vars == <<mem, dirty, throttled, file, full, up, earned, excuses>>

Zero == [accepted |-> 0, rejected |-> 0, best |-> 0, blocks |-> 0]

-----------------------------------------------------------------------------
(* Saving. *)

Write(m) == disk' = m /\ settled' = FALSE /\ throttled' = TRUE /\ UNCHANGED excuses
Refused == excuses' = excuses \cup {"refused"}
Fail == Refused /\ UNCHANGED <<file, throttled>>

\* (mutant) The mark is taken away whatever became of the write.
WrittenBlindly(m) == dirty' = FALSE /\ IF full THEN Fail ELSE Write(m)

\* _save(force=True) of m: the mark stays if it fails.
Written(m) == dirty' = full /\ IF full THEN Fail ELSE Write(m)

\* _save() of m.
SavedSoon(m) ==
  IF throttled THEN dirty' = TRUE /\ UNCHANGED <<throttled, file, excuses>> ELSE Written(m)

-----------------------------------------------------------------------------
(* Updates. *)

\* (mutant) A new best waits like any other share.
AcceptSaves(m, better) == SavedSoon(m)

\* A new best is written at once.
AcceptSaved(m, better) == IF better THEN Written(m) ELSE SavedSoon(m)

Counted(c, q) ==
  [c EXCEPT !.accepted = @ + 1, !.best = IF q > @ THEN q ELSE @]

\* record_accept
Accept(q) ==
  /\ up /\ mem.accepted < MaxCount /\ earned.accepted < MaxCount
  /\ mem' = Counted(mem, q) /\ earned' = Counted(earned, q)
  /\ AcceptSaved(mem', q > mem.best)
  /\ UNCHANGED <<full, up>>

\* record_reject
Reject ==
  /\ up /\ mem.rejected < MaxCount /\ earned.rejected < MaxCount
  /\ mem' = [mem EXCEPT !.rejected = @ + 1]
  /\ earned' = [earned EXCEPT !.rejected = @ + 1]
  /\ SavedSoon(mem') /\ UNCHANGED <<full, up>>

\* record_block
Block ==
  /\ up /\ mem.blocks < MaxCount /\ earned.blocks < MaxCount
  /\ mem' = [mem EXCEPT !.blocks = @ + 1]
  /\ earned' = [earned EXCEPT !.blocks = @ + 1]
  /\ Written(mem') /\ UNCHANGED <<full, up>>

\* reset, from the dashboard: the blocks are kept.
Cleared(c) == [Zero EXCEPT !.blocks = c.blocks]
Reset ==
  /\ up /\ mem' = Cleared(mem) /\ earned' = Cleared(earned)
  /\ Written(mem') /\ UNCHANGED <<full, up>>

\* flush, on SIGTERM, and the end of the process.
Shutdown ==
  /\ up /\ Written(mem)
  /\ up' = FALSE /\ UNCHANGED <<mem, full, earned>>

ThrottleOver ==
  /\ throttled /\ throttled' = FALSE
  /\ UNCHANGED <<mem, dirty, file, full, up, earned, excuses>>

\* (mutant) What the file holds is taken as it is.
LoadedBlindly == disk

\* _load: a file that cannot be parsed counts as none.
Loaded == IF disk = Unreadable THEN Zero ELSE disk

\* The constructor: load, and write at once.
Start ==
  /\ ~up /\ up' = TRUE
  /\ mem' = Loaded
  /\ IF full THEN dirty' = (disk = Unreadable) /\ throttled' = FALSE /\ Refused /\ UNCHANGED file
     ELSE dirty' = FALSE /\ Write(mem')
  /\ UNCHANGED <<full, earned>>

-----------------------------------------------------------------------------
(* Process and disk. *)

Crash ==
  /\ up /\ up' = FALSE
  /\ UNCHANGED <<mem, dirty, throttled, file, full, earned, excuses>>

PowerCut ==
  /\ PowerCuts /\ up' = FALSE /\ settled' = TRUE
  /\ disk' \in IF settled THEN {disk} ELSE {disk, Unreadable}
  /\ excuses' = IF disk' = Unreadable THEN excuses \cup {"spoilt"} ELSE excuses
  /\ UNCHANGED <<mem, dirty, throttled, full, earned>>

Settle ==
  /\ ~settled /\ settled' = TRUE
  /\ UNCHANGED <<mem, dirty, throttled, disk, full, up, earned, excuses>>

DiskFlips ==
  /\ DiskFills /\ full' = ~full
  /\ UNCHANGED <<mem, dirty, throttled, file, up, earned, excuses>>

-----------------------------------------------------------------------------

Init ==
  /\ mem = Zero /\ disk = Zero /\ earned = Zero
  /\ dirty = FALSE /\ throttled = TRUE /\ settled = FALSE
  /\ full = FALSE /\ up = TRUE /\ excuses = {}

Next ==
  \/ \E q \in Diff : Accept(q)
  \/ Reject \/ Block \/ Reset \/ Shutdown \/ ThrottleOver \/ Start
  \/ Crash \/ PowerCut \/ Settle \/ DiskFlips

Spec == Init /\ [][Next]_vars

-----------------------------------------------------------------------------
(* Properties. *)

TypeOK ==
  /\ mem \in Counts /\ earned \in Counts /\ disk \in Counts \cup {Unreadable}
  /\ dirty \in BOOLEAN /\ throttled \in BOOLEAN /\ settled \in BOOLEAN
  /\ full \in BOOLEAN /\ up \in BOOLEAN /\ excuses \subseteq {"refused", "spoilt"}

\* Whenever the program runs, crashes and restarts or not, it shows the best
\* share and the blocks of all its lives, unless the disk has refused a write
\* or spoilt the file.
Shown == mem.best = earned.best /\ mem.blocks = earned.blocks
AchievementsShown == up /\ excuses = {} => Shown

\* "A few numbers are achievements a solo miner never wants to lose to a reboot,
\* an app update, or a miner briefly disconnecting" (stats.py:6).
AchievementsSurvive == up /\ "refused" \notin excuses => Shown

\* What differs from the file is marked, so that the next update or the
\* shutdown writes it, also after writes that failed.
PendingMarked == up /\ mem # disk => dirty
=============================================================================
