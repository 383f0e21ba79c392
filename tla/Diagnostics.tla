---------------------------- MODULE Diagnostics ----------------------------
(***************************************************************************)
(* The self-test (Diagnostics in diagnostics.py) beside the statistics it  *)
(* reads: a task that goes through the checks one by one and can be        *)
(* stopped at any await, while shares are counted and the user may reset   *)
(* the counters.                                                           *)
(*                                                                         *)
(* Start creates the task, and its first step comes later: a stop may come *)
(* before it.  Between two checks nothing is awaited.  What a check finds  *)
(* at the node, the network and the settings is left open, except where a  *)
(* check depends on another one, on the disk or on the counters.           *)
(***************************************************************************)
EXTENDS StatsStore, Integers, Sequences

CONSTANTS Checks,      \* CHECKS: identifiers, in their order
          WarnPercent  \* REJECT_WARN_PCT

ASSUME CheckAssumption == Checks \in Seq(STRING) /\ Checks # <<>> /\ WarnPercent \in Nat

VARIABLES
  task,     \* _task: none that runs, created, inside a check, or cancelled there
  status,   \* status[i] of check i
  result,   \* "none" until a run has an outcome
  ctx,      \* of a run: the node is synced; accepted and rejected as shares began
  seen      \* what happened to the counters during the check of shares

run == <<task, status, result, ctx, seen>>

Index == 1..Len(Checks)
Waiting == [i \in Index |-> "pending"]
NoCtx == [synced |-> FALSE, accepted |-> 0, rejected |-> 0]
Idle == "idle"
Running == task # Idle
At(i) == task = "checking" /\ status[i] = "running"
Counting == \E i \in Index : Checks[i] = "shares" /\ At(i)

-----------------------------------------------------------------------------
(* What a check may return. *)

Accepted == mem.accepted - ctx.accepted
Rejected == mem.rejected - ctx.rejected
Total == Accepted + Rejected

\* _check_shares waits until the difference is not zero, or is out of patience.
SharesVerdict == IF Accepted # 0 THEN "pass" ELSE "fail"

TooMany ==
  IF Total > 0 THEN 100 * Rejected > WarnPercent * Total
  ELSE 100 * Rejected < WarnPercent * Total
RejectsVerdict == IF Total = 0 THEN "skip" ELSE IF TooMany THEN "warn" ELSE "pass"

\* The checks depend on what others found, on the disk or on the counters; of
\* the rest "pass" stands for every verdict that lets the run go on.  A check
\* that raises fails too; those that cannot fail do not raise here.

\* Of the node and the jobs made of its templates.
NodeVerdicts(id) ==
  CASE id = "sync" -> {"pass", "warn"}
    [] id \in {"template", "proposal"} -> IF ctx.synced THEN {"pass", "fail"} ELSE {"skip"}
    [] id = "jobs" -> IF ctx.synced THEN {"pass", "fail"} ELSE {"pass", "warn"}
    [] OTHER -> {"pass", "fail"}

\* Of the block feed, the own port, the webhook and the miners.
PeerVerdicts(id) == IF id = "zmq" THEN {"pass", "warn"} ELSE {"pass", "fail"}

Verdicts(i) ==
  LET id == Checks[i] IN
  CASE id = "datadir" -> {IF full THEN "fail" ELSE "pass"}
    [] id = "shares"  -> {SharesVerdict}
    [] id = "rejects" -> {RejectsVerdict}
    [] id \in {"rpc", "sync", "template", "proposal", "jobs"} -> NodeVerdicts(id)
    [] OTHER          -> PeerVerdicts(id)

-----------------------------------------------------------------------------
(* The runner. *)

\* start, from the dashboard: refused while a run is under way.
StartChecks ==
  /\ up /\ ~Running
  /\ task' = "created" /\ status' = Waiting /\ result' = "none"
  /\ ctx' = NoCtx /\ seen' = {}
  /\ UNCHANGED vars

\* stop: the task is cancelled when it is resumed; one that has not begun
\* never will.
StopChecks ==
  /\ Running
  /\ task' = IF task = "created" THEN Idle ELSE "cancelled"
  /\ ctx' = NoCtx /\ seen' = {}
  /\ UNCHANGED <<status, result, vars>>

\* (mutant) The counters are taken when the run begins.
EnteredEarly(i, c) ==
  IF i = 1 THEN [c EXCEPT !.accepted = mem.accepted, !.rejected = mem.rejected] ELSE c

\* Check i begins: shares takes the counters it will compare with.
Entered(i, c) ==
  IF Checks[i] = "shares"
    THEN [c EXCEPT !.accepted = mem.accepted, !.rejected = mem.rejected]
    ELSE c

\* The first step of _run.
Begin ==
  /\ task = "created"
  /\ task' = "checking"
  /\ status' = [status EXCEPT ![1] = "running"]
  /\ ctx' = Entered(1, ctx)
  /\ UNCHANGED <<result, seen, vars>>

\* What sync leaves in ctx: a node on a test chain is warned about as well.
Noted(i, verdict) ==
  IF Checks[i] # "sync" THEN {ctx}
  ELSE {[ctx EXCEPT !.synced = b] : b \in {verdict = "pass", TRUE}}

\* Check i lets the run go on, to the next check.
Passes(i, verdict) ==
  /\ i < Len(Checks)
  /\ status' = [status EXCEPT ![i] = verdict, ![i + 1] = "running"]
  /\ ctx' \in {Entered(i + 1, c) : c \in Noted(i, verdict)}
  /\ UNCHANGED <<task, result>>

Ends(outcome) == task' = Idle /\ result' = outcome /\ ctx' = NoCtx

\* The last check lets it pass.
Completes(i, verdict) ==
  /\ i = Len(Checks) /\ status' = [status EXCEPT ![i] = verdict]
  /\ Ends("pass")

\* Check i fails: the rest is not run.
Fails(i) ==
  /\ status' = [j \in Index |-> IF j < i THEN status[j] ELSE IF j = i THEN "fail" ELSE "skip"]
  /\ Ends("fail")

CheckEnds ==
  /\ \E i \in Index :
       /\ At(i)
       /\ \E v \in Verdicts(i) : IF v = "fail" THEN Fails(i) ELSE Passes(i, v) \/ Completes(i, v)
  /\ seen' = {}
  /\ UNCHANGED vars

\* (mutant) Only the check that was interrupted is settled.
CutRunning(s) == IF s = "running" THEN "skip" ELSE s

\* What a stop makes of a status.
Cut(s) == IF s \in {"running", "pending"} THEN "skip" ELSE s

\* The cancellation arrives.
Cancelled ==
  /\ task = "cancelled"
  /\ status' = [i \in Index |-> Cut(status[i])]
  /\ Ends("stopped")
  /\ UNCHANGED <<seen, vars>>

-----------------------------------------------------------------------------

\* What the statistics do, as the check of shares sees it.
Events ==
  (IF mem'.accepted > mem.accepted THEN {"gained"} ELSE {})
    \cup (IF mem'.accepted < mem.accepted THEN {"wiped"} ELSE {})

\* The statistics go on beside a run, which dies with the process.
Alongside ==
  /\ Next
  /\ IF up'
       THEN /\ seen' = IF Counting THEN seen \cup Events ELSE seen
            /\ UNCHANGED <<task, status, result, ctx>>
       ELSE task' = Idle /\ status' = Waiting /\ result' = "none" /\ ctx' = NoCtx /\ seen' = {}

DiagInit ==
  /\ Init
  /\ task = Idle /\ status = Waiting /\ result = "none" /\ ctx = NoCtx /\ seen = {}

DiagNext == StartChecks \/ StopChecks \/ Begin \/ CheckEnds \/ Cancelled \/ Alongside

DiagSpec == DiagInit /\ [][DiagNext]_<<vars, run>>

-----------------------------------------------------------------------------
(* Properties. *)

\* A run that is over left a report that fits its outcome: nothing is shown as
\* pending or under way, a failure is the first and only one, and nothing after
\* it was tried -- however the run was stopped.  Only a run stopped before its
\* first step leaves no outcome and everything pending.
Before(i, S) == \A j \in Index : j < i => status[j] \in S
After(i, S) == \A j \in Index : j > i => status[j] \in S
Fine == {"pass", "warn", "skip"}
ReportFits ==
  ~Running =>
    CASE result = "none" -> \A i \in Index : status[i] = "pending"
      [] result = "fail" -> \E i \in Index :
           status[i] = "fail" /\ Before(i, Fine) /\ After(i, {"skip"})
      [] OTHER -> \A i \in Index : status[i] \in Fine

\* "Miner is submitting shares" (diagnostics.py:57): the check passes exactly if
\* a share was accepted while it waited, whatever was accepted before -- unless
\* the counters were reset meanwhile: then their difference is negative, which
\* passes without a share, or is zero again although shares came.
SharesVerdictEarned ==
  [][\A i \in Index : Checks[i] = "shares" /\ At(i) /\ status'[i] \in {"pass", "fail"} =>
       ((status'[i] = "pass") <=> ("gained" \in seen)) \/ "wiped" \in seen]_<<vars, run>>
=============================================================================
