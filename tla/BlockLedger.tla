---------------------------- MODULE BlockLedger ----------------------------
(***************************************************************************)
(* What SoloBCH Forge promises about the record of a found block, seen     *)
(* only from the outside: what stats.json says of it and what the node     *)
(* says of it.  Nothing here knows of retries, restarts or a tracker.      *)
(*   - an entry is never withdrawn and its status only moves forward;      *)
(*   - a verdict is only written down once the node has given it;          *)
(*   - a block recorded as mature stays accepted for good.                 *)
(* BlockSubmit is shown to implement this module.                          *)
(***************************************************************************)

CONSTANT Block

VARIABLES ledger,    \* ledger[b]: the status stats.json holds for b
          settled,   \* the blocks stats.json marks mature
          verdict    \* verdict[b]: what the node decided about b

vars == <<ledger, settled, verdict>>

Status == {"none", "submitting", "accepted", "orphaned", "rejected",
           "inconclusive", "failed", "interrupted", "unassembled"}

Verdict == {"none", "valid", "invalid"}

\* Statuses that leave it to the node whether the block is in the chain.
Open == {"inconclusive", "failed", "interrupted"}

OnChain == {"accepted", "orphaned"}

\* May(s, t): an entry that says s may say t the next time it is written.
May(s, t) ==
  \/ t = s
  \/ s = "none"
  \/ s = "submitting" /\ t \notin {"none", "unassembled"}
  \/ s \in Open \cup OnChain /\ t \in OnChain

\* A status that claims a verdict needs the node's verdict behind it.
Supported(s, v) ==
  /\ s = "rejected" => v = "invalid"
  /\ s \in OnChain => v = "valid"

Init ==
  /\ ledger = [b \in Block |-> "none"]
  /\ settled = {}
  /\ verdict = [b \in Block |-> "none"]

NodeJudges(b) ==
  /\ verdict[b] = "none"
  /\ \E v \in {"valid", "invalid"} : verdict' = [verdict EXCEPT ![b] = v]
  /\ UNCHANGED <<ledger, settled>>

\* One write of stats.json: every entry at once.
Write ==
  /\ ledger' \in [Block -> Status]
  /\ settled' \in SUBSET Block
  /\ settled \subseteq settled'
  /\ \A b \in Block :
        /\ May(ledger[b], ledger'[b])
        /\ Supported(ledger'[b], verdict[b])
        /\ b \in settled' => ledger'[b] = "accepted"
  /\ UNCHANGED verdict

Next == Write \/ \E b \in Block : NodeJudges(b)

Spec == Init /\ [][Next]_vars
=============================================================================
