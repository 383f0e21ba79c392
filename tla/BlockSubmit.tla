---------------------------- MODULE BlockSubmit ----------------------------
(***************************************************************************)
(* The life of a found block inside the server: _submit_block and its      *)
(* retry task (stratum.py), the tracker that follows recorded blocks on    *)
(* every new tip (_track_blocks, job_manager.py), the record of blocks in  *)
(* memory and in stats.json (stats.py), and the restarts in between.       *)
(*                                                                         *)
(* Everything runs on one asyncio thread, so an action is the code between *)
(* two awaits.  The awaits are the RPCs (run in an executor: the node may  *)
(* answer, and the coroutine resumes later, when things may have moved     *)
(* on), the retry delays, and the process boundaries.                      *)
(***************************************************************************)
EXTENDS Naturals, Sequences

CONSTANTS Block,        \* the blocks the miners may find
          MaxRetries,   \* Len(SUBMIT_RETRY_DELAYS)
          MaxBlocks     \* bound: MAX_BLOCKS, past which the oldest entry is dropped

ASSUME RetriesAssumption == MaxRetries \in Nat
ASSUME BlocksAssumption == MaxBlocks \in Nat

VARIABLES
  up,         \* the process is running
  blocks,     \* Stats.blocks: recorded blocks, oldest first
  status,     \* status[b]: b's status in memory
  mature,     \* mature[b]: b's "mature" flag in memory
  dirty,      \* Stats._dirty
  saved,      \* stats.json: [blocks, status, mature]
  diskOK,     \* writes of stats.json succeed
  copy,       \* where b's full hex can be found: "none", "file" or "log"
  task,       \* task[b]: the coroutine submitting b
  track,      \* the coroutine running _track_blocks
  chain,      \* chain[b]: b in the node's block index
  abandoned   \* blocks whose submitblock request outlived its caller

record == <<blocks, status, mature>>
disk   == <<saved, dirty>>
node   == <<chain, abandoned>>
vars   == <<up, record, disk, diskOK, copy, task, track, node>>

-----------------------------------------------------------------------------
(* Data. *)

Status == {"none", "submitting", "accepted", "orphaned", "rejected",
           "inconclusive", "failed", "interrupted", "unassembled"}

\* "deep" is COINBASE_MATURITY confirmations: a reorg never reaches it.
Chain == {"unknown", "side", "active", "deep", "invalid"}

Valid == {"side", "active", "deep"}

Reply == {"none", "error", "ok", "known", "rejected",
          "onchain", "buried", "offchain", "unknown"}

\* Where the submitting coroutine waits: for submitblock, for the header
\* after a "duplicate" reply, for the retry delay, for the header before a
\* retry, for the header after the last retry.
Await == {"idle", "submit", "status", "sleep", "check", "final"}

HeaderAwait == {"status", "check", "final"}

NoTask  == [at |-> "idle", try |-> 0, ans |-> "none"]
NoTrack == [at |-> "idle", i |-> 1, seen |-> "none", ans |-> "none",
            changed |-> FALSE]

\* getblockheader of a block in state c: confirmations >= 1, >= 100, -1, or
\* RPC error -5.  An invalid block's header may or may not be kept.
HeaderReply(c, r) ==
  \/ c = "unknown" /\ r = "unknown"
  \/ c = "active"  /\ r = "onchain"
  \/ c = "deep"    /\ r = "buried"
  \/ c = "side"    /\ r = "offchain"
  \/ c = "invalid" /\ r \in {"unknown", "offchain"}

\* submitblock of a block in state c leaves it in state d and replies r.
SubmitReply(c, d, r) ==
  \/ c = "unknown" /\ d = "active"  /\ r = "ok"
  \/ c = "unknown" /\ d = "side"    /\ r = "known"
  \/ c = "unknown" /\ d = "invalid" /\ r = "rejected"
  \/ c \in Valid   /\ d = c         /\ r = "known"
  \/ c = "invalid" /\ d = c         /\ r = "rejected"

\* Mutant of Verdict: out of retries is taken for a refusal.
VerdictHasty(w, r) ==
  CASE r \in {"ok", "onchain", "buried"} -> "accepted"
    [] r = "rejected" \/ w = "final" -> "rejected"
    [] r = "offchain" \/ w = "status" -> "inconclusive"
    [] OTHER -> "open"

\* Mutant of Verdict: after "duplicate", only the header query may settle.
VerdictPatient(w, r) ==
  CASE r \in {"ok", "onchain", "buried"} -> "accepted"
    [] r = "rejected" -> "rejected"
    [] r = "offchain" -> "inconclusive"
    [] r \in {"unknown", "error"} /\ w = "final" -> "failed"
    [] OTHER -> "open"

\* The status reply r settles on when the coroutine waits at w, or "open".
\* Once the node has said it holds the block, or the retries are used up, a
\* header query that fails settles it too.
Verdict(w, r) ==
  CASE r \in {"ok", "onchain", "buried"} -> "accepted"
    [] r = "rejected"                    -> "rejected"
    [] r = "offchain"                    -> "inconclusive"
    [] r \in {"known", "unknown", "error"} /\ w = "status" -> "inconclusive"
    [] r \in {"unknown", "error"} /\ w = "final"           -> "failed"
    [] OTHER                             -> "open"

\* Mutants of Trackable: it follows entries a coroutine is still submitting;
\* it leaves alone entries whose submission was given up.
TrackableBusy(s, m) == ~m /\ s \notin {"rejected", "unassembled"}
TrackableGivenUp(s, m) ==
  ~m /\ s \notin {"submitting", "rejected", "unassembled", "failed", "interrupted"}

\* The entries _track_blocks asks the node about.
Trackable(s, m) == ~m /\ s \notin {"submitting", "rejected", "unassembled"}

\* Mutant of Tracked: whatever is off the chain is called orphaned.
TrackedBluntly(s, r) ==
  CASE r \in {"onchain", "buried"} -> "accepted" [] r = "offchain" -> "orphaned" [] OTHER -> s

\* The status of an entry that said s when the tracker asked, after reply r.
Tracked(s, r) ==
  CASE r \in {"onchain", "buried"}    -> "accepted"
    [] r = "offchain" /\ s \in {"accepted", "orphaned"} -> "orphaned"
    [] OTHER                          -> s

\* Mutant of Relabel: the restart leaves the entry as it was.
RelabelNothing(s) == s

\* main(): an entry still "submitting" was cut off by the restart.
Relabel(s) == IF s = "submitting" THEN "interrupted" ELSE s

\* Mutant of Save: a write that failed is taken for done.
SaveForgetful ==
  /\ saved' = IF diskOK THEN [blocks |-> blocks', status |-> status', mature |-> mature']
              ELSE saved
  /\ dirty' = FALSE

\* Stats._save(force=True): the whole record, atomically, or not at all.  (There
\* is a data dir: without one, in development, nothing is ever kept.)
Save ==
  IF diskOK
    THEN /\ saved' = [blocks |-> blocks', status |-> status', mature |-> mature']
         /\ dirty' = FALSE
    ELSE saved' = saved /\ dirty' = TRUE

\* Mutant of UpdateBlock: the entry changes in memory only.
UpdateNothing == UNCHANGED disk

\* Stats.update_block.
UpdateBlock == Save

-----------------------------------------------------------------------------
(* Submitting a block. *)

\* Mutant of KeepCopy: no log entry when the file cannot be written.
KeepFile(b) ==
  /\ copy[b] = "none"
  /\ \E where \in {"file", "none"} : copy' = [copy EXCEPT ![b] = where]

\* save_block_candidate; when the write fails the full hex goes to the log.  It
\* is a write of its own, of a file far larger than stats.json: it may fail
\* where Save succeeds, or be what fills the disk for Save.
KeepCopy(b) ==
  /\ copy[b] = "none"
  /\ \E where \in {"file", "log"} : copy' = [copy EXCEPT ![b] = where]

\* Stats.record_block, as long as the list has not reached its limit.
Record(b, s) ==
  /\ Len(blocks) < MaxBlocks
  /\ blocks' = Append(blocks, b)
  /\ status' = [status EXCEPT ![b] = s]
  /\ UNCHANGED mature
  /\ Save

\* _submit_block up to its first await: keep a copy, record, start the submit.
Find(b) ==
  /\ up
  /\ KeepCopy(b)
  /\ Record(b, "submitting")
  /\ task' = [task EXCEPT ![b].at = "submit"]
  /\ UNCHANGED <<up, diskOK, track, node>>

\* full_block() raised: header and coinbase go to the log, nothing to submit.
FindUnassembled(b) ==
  /\ up
  /\ copy[b] = "none"
  /\ copy' = [copy EXCEPT ![b] = "log"]
  /\ Record(b, "unassembled")
  /\ UNCHANGED <<up, diskOK, task, track, node>>

Waits(b) == task[b].at \in {"submit"} \cup HeaderAwait /\ task[b].ans = "none"

\* The node executes the coroutine's RPC; the coroutine resumes later.
NodeAnswers(b) ==
  /\ Waits(b)
  /\ \E d \in Chain, r \in Reply :
        /\ IF task[b].at = "submit" THEN SubmitReply(chain[b], d, r)
                                   ELSE d = chain[b] /\ HeaderReply(d, r)
        /\ chain' = [chain EXCEPT ![b] = d]
        /\ task' = [task EXCEPT ![b].ans = r]
  /\ UNCHANGED <<up, record, disk, diskOK, copy, track, abandoned>>

\* The RPC times out or fails in transport.  A submitblock may have been lost
\* or may still reach the node.
RpcFails(b) ==
  /\ Waits(b)
  /\ task' = [task EXCEPT ![b].ans = "error"]
  /\ \/ UNCHANGED abandoned
     \/ task[b].at = "submit" /\ abandoned' = abandoned \cup {b}
  /\ UNCHANGED <<up, record, disk, diskOK, copy, track, chain>>

\* _finish_block: the coroutine has a verdict.
Finish(b) ==
  /\ task[b].ans # "none"
  /\ Verdict(task[b].at, task[b].ans) # "open"
  /\ status' = [status EXCEPT ![b] = Verdict(task[b].at, task[b].ans)]
  /\ UNCHANGED <<blocks, mature>>
  /\ UpdateBlock
  /\ task' = [task EXCEPT ![b] = NoTask]
  /\ UNCHANGED <<up, diskOK, copy, track, node>>

Goto(b, w, n) == task' = [task EXCEPT ![b] = [at |-> w, try |-> n, ans |-> "none"]]

\* _attempt_submit got "duplicate" or "inconclusive": where is the block?
AskChain(b) ==
  /\ task[b].at = "submit" /\ task[b].ans = "known"
  /\ Goto(b, "status", task[b].try)
  /\ UNCHANGED <<up, record, disk, diskOK, copy, track, node>>

\* Mutant of DelaysLeft: one delay too many.
DelaysLeftOrZero(n) == n <= MaxRetries

\* SUBMIT_RETRY_DELAYS still has a delay after n of them.
DelaysLeft(n) == n < MaxRetries

\* The submit failed: sleep for the next delay, or give up after the last.
Retry(b) ==
  /\ task[b].at = "submit" /\ task[b].ans = "error"
  /\ IF DelaysLeft(task[b].try) THEN Goto(b, "sleep", task[b].try + 1)
                                 ELSE Goto(b, "final", task[b].try)
  /\ UNCHANGED <<up, record, disk, diskOK, copy, track, node>>

\* The delay is over: "a submit that timed out may still have landed".
Wake(b) ==
  /\ task[b].at = "sleep"
  /\ Goto(b, "check", task[b].try)
  /\ UNCHANGED <<up, record, disk, diskOK, copy, track, node>>

\* The node does not know the block (or did not say): submit it again.
Resubmit(b) ==
  /\ task[b].at = "check" /\ task[b].ans \in {"unknown", "error"}
  /\ Goto(b, "submit", task[b].try)
  /\ UNCHANGED <<up, record, disk, diskOK, copy, track, node>>

Resume(b) == Finish(b) \/ AskChain(b) \/ Retry(b) \/ Resubmit(b)

-----------------------------------------------------------------------------
(* Tracking recorded blocks. *)

\* The for loop of _track_blocks from entry i on, up to the next await or to
\* its end, where the record is saved if any entry was updated.
TrackFrom(i, changed) ==
  \/ \E j \in i..Len(blocks) :
        /\ Trackable(status'[blocks[j]], mature'[blocks[j]])
        /\ \A k \in i..(j - 1) : ~Trackable(status'[blocks[k]], mature'[blocks[k]])
        /\ track' = [at |-> "ask", i |-> j, seen |-> status'[blocks[j]],
                     ans |-> "none", changed |-> changed]
        /\ UNCHANGED disk
  \/ /\ \A j \in i..Len(blocks) : ~Trackable(status'[blocks[j]], mature'[blocks[j]])
     /\ track' = NoTrack
     /\ IF changed THEN UpdateBlock ELSE UNCHANGED disk

\* The poll loop saw a new tip.
TrackStart ==
  /\ up /\ track.at = "idle"
  /\ UNCHANGED record
  /\ TrackFrom(1, FALSE)
  /\ UNCHANGED <<up, diskOK, copy, task, node>>

TrackAnswer(b) ==
  /\ track.at = "ask" /\ track.ans = "none" /\ blocks[track.i] = b
  /\ \E r \in Reply : HeaderReply(chain[b], r) /\ track' = [track EXCEPT !.ans = r]
  /\ UNCHANGED <<up, record, disk, diskOK, copy, task, node>>

\* getblockheader fails: the exception leaves the loop, nothing is saved.
TrackFails ==
  /\ track.at = "ask" /\ track.ans = "none"
  /\ track' = NoTrack
  /\ UNCHANGED <<up, record, disk, diskOK, copy, task, node>>

\* Back from the await: update the entry, go on with the next one.
TrackResume ==
  /\ track.at = "ask" /\ track.ans # "none"
  /\ LET b == blocks[track.i] IN
       /\ status' = IF track.ans = "unknown" THEN status
                    ELSE [status EXCEPT ![b] = Tracked(track.seen, track.ans)]
       /\ mature' = [mature EXCEPT ![b] = @ \/ track.ans = "buried"]
  /\ UNCHANGED blocks
  /\ TrackFrom(track.i + 1, track.changed \/ track.ans # "unknown")
  /\ UNCHANGED <<up, diskOK, copy, task, node>>

-----------------------------------------------------------------------------
(* The rest of the process: other saves, crashes, restarts. *)

\* record_accept / record_reject: counted, and saved unless throttled.
ShareCounted ==
  /\ up
  /\ UNCHANGED record
  /\ Save \/ (dirty' = TRUE /\ UNCHANGED saved)
  /\ UNCHANGED <<up, diskOK, copy, task, track, node>>

\* Only the disk survives: the record in memory is what stats.json says of it.
\* A submitblock already sent may still reach the node.
Down ==
  /\ up' = FALSE
  /\ blocks' = saved'.blocks /\ status' = saved'.status /\ mature' = saved'.mature
  /\ dirty' = FALSE
  /\ task' = [b \in Block |-> NoTask]
  /\ track' = NoTrack
  /\ \E lost \in SUBSET {b \in Block : task[b].at = "submit" /\ task[b].ans = "none"} :
        abandoned' = abandoned \cup lost
  /\ UNCHANGED <<diskOK, chain>>

Crash ==
  /\ up
  /\ UNCHANGED <<saved, copy>>
  /\ Down

\* SIGTERM: _shutdown flushes the stats; retries in flight are cut off.
Shutdown ==
  /\ up
  /\ saved' = IF diskOK THEN [blocks |-> blocks, status |-> status, mature |-> mature]
              ELSE saved
  /\ UNCHANGED copy
  /\ Down

\* The process dies inside _submit_block, between the copy and the record.
CrashInFind(b) ==
  /\ up
  /\ KeepCopy(b)
  /\ UNCHANGED saved
  /\ Down

\* main(): load stats.json, then close what the last process left submitting.
Restart ==
  /\ ~up
  /\ up' = TRUE
  /\ status' = [b \in Block |-> Relabel(saved.status[b])]
  /\ UNCHANGED <<blocks, mature>>
  /\ IF status' = saved.status THEN UNCHANGED disk ELSE UpdateBlock
  /\ UNCHANGED <<diskOK, copy, task, track, node>>

-----------------------------------------------------------------------------
(* The world: the disk, and the node's chain. *)

DiskFlips ==
  /\ diskOK' = ~diskOK
  /\ UNCHANGED <<up, record, disk, copy, task, track, node>>

\* A submitblock whose caller gave up is executed after all.
AbandonedLands(b) ==
  /\ b \in abandoned
  /\ \E d \in Chain, r \in Reply :
        SubmitReply(chain[b], d, r) /\ chain' = [chain EXCEPT ![b] = d]
  /\ abandoned' = abandoned \ {b}
  /\ UNCHANGED <<up, record, disk, diskOK, copy, task, track>>

\* Reorgs, and confirmations piling up.
ChainMoves(b) ==
  /\ \E d \in Chain :
        /\ <<chain[b], d>> \in {<<"side", "active">>, <<"active", "side">>,
                               <<"active", "deep">>}
        /\ chain' = [chain EXCEPT ![b] = d]
  /\ UNCHANGED <<up, record, disk, diskOK, copy, task, track, abandoned>>

-----------------------------------------------------------------------------

Empty == [blocks |-> <<>>, status |-> [b \in Block |-> "none"],
          mature |-> [b \in Block |-> FALSE]]

Init ==
  /\ up = TRUE
  /\ blocks = <<>>
  /\ status = [b \in Block |-> "none"]
  /\ mature = [b \in Block |-> FALSE]
  /\ dirty = FALSE
  /\ saved = Empty
  /\ diskOK = TRUE
  /\ copy = [b \in Block |-> "none"]
  /\ task = [b \in Block |-> NoTask]
  /\ track = NoTrack
  /\ chain = [b \in Block |-> "unknown"]
  /\ abandoned = {}

Next ==
  \/ \E b \in Block :
       \/ Find(b) \/ FindUnassembled(b) \/ CrashInFind(b)
       \/ NodeAnswers(b) \/ RpcFails(b) \/ Resume(b) \/ Wake(b)
       \/ TrackAnswer(b) \/ AbandonedLands(b) \/ ChainMoves(b)
  \/ TrackStart \/ TrackFails \/ TrackResume
  \/ ShareCounted \/ Crash \/ Shutdown \/ Restart \/ DiskFlips

Spec == Init /\ [][Next]_vars

\* The event loop runs every ready coroutine; an RPC returns or times out
\* (bch_rpc.py sets a timeout on every call); a sleep ends; new tips keep
\* coming; the container is restarted (docker-compose "restart:").  A header
\* query that is asked again and again is answered sometimes.
Fairness ==
  /\ \A b \in Block :
       /\ WF_vars(Resume(b))
       /\ WF_vars(NodeAnswers(b) \/ RpcFails(b))
       /\ WF_vars(Wake(b))
       /\ SF_vars(TrackAnswer(b))
  /\ WF_vars(TrackStart)
  /\ WF_vars(TrackResume)
  /\ WF_vars(Restart)

FairSpec == Spec /\ Fairness

-----------------------------------------------------------------------------
(* Properties. *)

Task == [at : Await, try : 0..MaxRetries, ans : Reply]

Track == [at : {"idle", "ask"}, i : Nat \ {0}, seen : Status, ans : Reply,
          changed : BOOLEAN]

Snapshot == [blocks : Seq(Block), status : [Block -> Status],
             mature : [Block -> BOOLEAN]]

TypeOK ==
  /\ up \in BOOLEAN /\ dirty \in BOOLEAN /\ diskOK \in BOOLEAN
  /\ blocks \in Seq(Block)
  /\ status \in [Block -> Status]
  /\ mature \in [Block -> BOOLEAN]
  /\ saved \in Snapshot
  /\ copy \in [Block -> {"none", "file", "log"}]
  /\ task \in [Block -> Task]
  /\ track \in Track
  /\ track.at = "ask" => track.i \in 1..Len(blocks)
  /\ chain \in [Block -> Chain]
  /\ abandoned \in SUBSET Block

Recorded(b) == status[b] # "none"

\* "The status only says rejected when the node itself answered with a reason"
\* (stratum.py:763): a timeout, a retry that races its own first attempt, or a
\* restart never turns into a verdict the node did not give.  The other way
\* round, "accepted" and "orphaned" are only said of blocks the node validated.
NoFalseVerdict ==
  \A b \in Block : /\ status[b] = "rejected" => chain[b] = "invalid"
                   /\ status[b] \in {"accepted", "orphaned"} => chain[b] \in Valid

\* A block shown as "submitting" has a coroutine that is still submitting it,
\* whatever restarts came in between; and no coroutine submits a block whose
\* status has already been closed.
NoSilentSubmitting ==
  up => \A b \in Block : (status[b] = "submitting") <=> (task[b].at # "idle")

\* The node may have been given the block.
Given(b) == chain[b] # "unknown" \/ b \in abandoned \/ task[b].at # "idle"

\* "The block is saved to disk first ... so a node hiccup can never silently
\* discard it" (stratum.py:761-763): the full hex of a block the node may have
\* been given, at last by a submit that outlived its process, can be found in a
\* file or in the log, whichever write failed and whatever crashed since.
NothingSubmittedUnkept == \A b \in Block : Given(b) => copy[b] \in {"file", "log"}

\* The candidate file and stats.json are written one after the other, and either
\* may fail (stratum.py:781, 795): the entry of a block disappears only with a
\* process that ends while a write is pending.  A verdict, a retry, the tracker
\* or a restart never loses one, nor does a crash after a write that succeeded.
EntryLostOnlyPending ==
  [][\A b \in Block : Recorded(b) /\ ~Recorded(b)' => dirty /\ up /\ ~up']_vars

\* record_block and update_block flush immediately (stats.py:165, 175): with no
\* write pending, stats.json lists the same blocks as memory and agrees on
\* which of them are still being submitted.
VerdictsFlushed ==
  up /\ ~dirty =>
     /\ saved.blocks = blocks
     /\ \A b \in Block : (status[b] = "submitting") <=> (saved.status[b] = "submitting")

\* _track_blocks reads the status before its await and writes it after: nobody
\* else changes the entry it waits for in between.
TrackerReadFresh == track.at = "ask" => status[blocks[track.i]] = track.seen

\* "Mature blocks are final" (job_manager.py:484): no later step of the tracker
\* or of a submitting coroutine touches them again.
MatureFinal ==
  \A b \in Block : up /\ up' /\ mature[b] =>
     mature'[b] /\ status'[b] = status[b] /\ status[b] = "accepted"
MatureIsFinal == [][MatureFinal]_vars

\* Every submission comes to an end: the retries are bounded, and a restart
\* closes what it interrupted.
SubmitSettles ==
  \A b \in Block : (status[b] = "submitting") ~> (status[b] # "submitting")

\* "A block whose submit outcome was unknown is picked up here too"
\* (job_manager.py:483): a recorded block that is buried in the chain ends up
\* accepted and mature, however its submission seemed to go.
EventuallyCredited ==
  \A b \in Block : (up /\ Recorded(b) /\ chain[b] = "deep") ~> (~up \/ mature[b])

\* stats.json as the abstract ledger sees it.
Judged(c) == CASE c = "unknown" -> "none" [] c \in Valid -> "valid" [] OTHER -> "invalid"

Ledger == INSTANCE BlockLedger WITH
  ledger  <- saved.status,
  settled <- {b \in Block : saved.mature[b]},
  verdict <- [b \in Block |-> Judged(chain[b])]

\* stats.json keeps what BlockLedger promises, across crashes and failed writes.
LedgerSpec == Ledger!Spec
=============================================================================
