----------------------------- MODULE JobManager -----------------------------
(***************************************************************************)
(* The poll loop of job_manager.py: it follows the node's tip, decides     *)
(* which job the miners work on -- a REAL job from getblocktemplate, or a  *)
(* MOCK job while the node cannot give one -- and pushes it to every       *)
(* subscribed connection.                                                  *)
(*                                                                         *)
(* An action is the code between two awaits.  The loop awaits the RPCs, a  *)
(* peer whose send buffer is full (drain; it does not yield otherwise),    *)
(* the tracking of found blocks (module BlockSubmit) and the next poll.    *)
(* Only the poll loop installs jobs, so an RPC's answer and the code that  *)
(* consumes it are one action: what the node answered is all it reads.     *)
(***************************************************************************)
EXTENDS Naturals

CONSTANTS Miner,       \* connections that may authorize
          Tip,         \* block hashes the node may report as its best block
          NoTip,       \* _last_tip before the first answer
          JobHistory   \* JOB_HISTORY

ASSUME HistoryAssumption == JobHistory \in Nat /\ JobHistory >= 2
ASSUME TipAssumption == NoTip \notin Tip

VARIABLES
  tip, ibd,       \* the node: best block, still in initial block download
  ready,          \* node_ready, as of the last getblockchaininfo
  mode,           \* "mock" or "real"
  lastTip,        \* _last_tip
  jobs,           \* jobs[a]: the job of age a in sources; jobs[0] is current
  refreshDue,     \* TEMPLATE_REFRESH has passed since _template_at
  gapOver,        \* MIN_BROADCAST_GAP has passed since _last_broadcast
  pc,             \* what the poll loop waits for
  poll,           \* locals of _poll: tip, tip_changed, clean
  push,           \* the broadcast under way: peers left, peer waited for, then
  subs,           \* subscribers
  slow,           \* slow[c]: c does not read, its send buffer is full
  have            \* have[c]: age of the last job c received

node == <<tip, ibd>>
jm   == <<ready, mode, lastTip, jobs, refreshDue, gapOver>>
loop == <<pc, poll, push>>
conn == <<subs, slow, have>>
vars == <<node, jm, loop, conn>>

Age == 0..(JobHistory - 1)

\* A mock job carries a random previous block; no job at all is NoJob.
MockJob == [kind |-> "mock", prev |-> NoTip, clean |-> TRUE]
RealJob(t, clean) == [kind |-> "real", prev |-> t, clean |-> clean]
NoJob == [kind |-> "none", prev |-> NoTip, clean |-> TRUE]

NoPush == [left |-> {}, at |-> NoTip, why |-> "ibd"]

-----------------------------------------------------------------------------
(* Installing a job and pushing it. *)

\* (mutant) Ages never saturate: what left sources is still counted.
OlderForever(a) == a + 1

\* The next age of what a connection holds; JobHistory is "not in sources".
Older(a) == IF a < JobHistory THEN a + 1 ELSE a

Aged == [c \in Miner |-> Older(have[c])]

\* _install: the new job is current, the oldest one leaves the history.
Install(job) == jobs' = [a \in Age |-> IF a = 0 THEN job ELSE jobs[a - 1]]

\* What follows a push, by why it was made.  The mock fallback records the tip
\* only now; then found blocks are tracked if the tip changed.
PushEnds(why, last) ==
  /\ gapOver' = FALSE
  /\ push' = NoPush
  /\ lastTip' = IF why = "fallback" THEN poll'.tip ELSE last
  /\ pc' = IF why # "ibd" /\ poll'.changed THEN "track" ELSE "wait"

\* _broadcast to the connections in left, which hold jobs of the ages in held:
\* it runs to its end, or until it meets a peer whose buffer is full.
Push(left, held, why, last) ==
  \E done \in SUBSET {c \in left : ~slow[c]} :
    /\ have' = [c \in Miner |-> IF c \in done THEN 0 ELSE held[c]]
    /\ \/ done = left /\ PushEnds(why, last)
       \/ \E c \in left \ done :
            /\ slow[c]
            /\ pc' = "drain"
            /\ push' = [left |-> left \ (done \cup {c}), at |-> c, why |-> why]
            /\ lastTip' = last
            /\ UNCHANGED gapOver

\* A new job, pushed to the subscribers.
NewJob(job, why, last) == Install(job) /\ Push(subs, Aged, why, last)

-----------------------------------------------------------------------------
(* The poll loop. *)

\* _wait_next: the poll interval is over, or the ZMQ watcher poked.
Poll ==
  /\ pc = "wait"
  /\ pc' = "info"
  /\ UNCHANGED <<node, jm, poll, push, conn>>

\* getblockchaininfo raised: caught in run().
InfoFails ==
  /\ pc = "info"
  /\ pc' = "wait"
  /\ UNCHANGED <<node, jm, poll, push, conn>>

\* An answer without bestblockhash: nothing but the node's state is taken.
InfoWithoutTip ==
  /\ pc = "info"
  /\ ready' = ~ibd
  /\ pc' = "wait"
  /\ UNCHANGED <<mode, lastTip, jobs, refreshDue, gapOver, poll, push, node, conn>>

\* (mutant) Without the periodic refresh of a real template.
DueNoRefresh(changed) == changed \/ mode # "real"

\* A template is due: the tip moved, there is none, or it is old.
Due(changed) == changed \/ mode # "real" \/ refreshDue

\* (mutant) Only a moved tip makes a job clean.
CleanOnMove(changed) == changed

\* The job must be clean, decided before the template is asked for.
Clean(changed) == changed \/ mode # "real"

\* During initial block download: a mock job per tip, but not two in a row
\* within MIN_BROADCAST_GAP.
Hold == lastTip # NoTip /\ ~gapOver

\* The node is synced: ask for a template, or leave the job as it is.
Synced(changed) ==
  /\ ~ibd /\ pc' = IF Due(changed) THEN "gbt" ELSE "wait"
  /\ UNCHANGED <<mode, lastTip, jobs, gapOver, push, have>>

\* The node is syncing: a mock job for a new tip, unless it is held back.
Syncing(changed) ==
  /\ ibd
  /\ \/ /\ ~changed \/ Hold
        /\ pc' = "wait"
        /\ lastTip' = tip
        /\ UNCHANGED <<mode, jobs, gapOver, push, have>>
     \/ /\ changed /\ ~Hold
        /\ mode' = "mock"
        /\ NewJob(MockJob, "ibd", tip)

InfoAnswered ==
  /\ pc = "info"
  /\ LET changed == tip # lastTip IN
       /\ poll' = [tip |-> tip, changed |-> changed, clean |-> Clean(changed)]
       /\ ready' = ~ibd
       /\ Synced(changed) \/ Syncing(changed)
  /\ UNCHANGED <<refreshDue, node, subs, slow>>

\* The template is for the node's tip of now, which may be newer than poll.tip.
GbtAnswered ==
  /\ pc = "gbt" /\ ~ibd
  /\ mode' = "real"
  /\ refreshDue' = FALSE
  /\ UNCHANGED <<ready, poll, node, subs, slow>>
  /\ NewJob(RealJob(tip, poll.clean), "template", poll.tip)

\* A refresh that fails keeps the job for another TEMPLATE_REFRESH.
RefreshFails ==
  /\ pc = "gbt" /\ ~poll.clean
  /\ refreshDue' = FALSE
  /\ pc' = "wait"
  /\ UNCHANGED <<ready, mode, lastTip, jobs, gapOver, poll, push, node, conn>>

\* Otherwise no job for the current tip can be had: fall back to a mock job,
\* unless the miners have one already.
GbtFails ==
  /\ pc = "gbt" /\ poll.clean
  /\ UNCHANGED <<ready, refreshDue, poll, node, subs, slow>>
  /\ \/ /\ mode # "mock" \/ poll.changed
        /\ mode' = "mock"
        /\ NewJob(MockJob, "fallback", lastTip)
     \/ /\ mode = "mock" /\ ~poll.changed
        /\ lastTip' = poll.tip
        /\ pc' = "wait"
        /\ UNCHANGED <<mode, jobs, gapOver, push, have>>

\* (mutant) An error on one peer ends the push to all of them.
DrainedLast ==
  /\ pc = "drain"
  /\ ~slow[push.at]
  /\ UNCHANGED <<ready, mode, jobs, refreshDue, poll, node, subs, slow>>
  /\ IF push.at \in subs
       THEN Push(push.left \cap subs, [have EXCEPT ![push.at] = 0], push.why, lastTip)
       ELSE Push({}, have, push.why, lastTip)

\* The peer read at last and received the job, or its connection is gone and
\* the error took it off the list; the push goes on.
Drained ==
  /\ pc = "drain"
  /\ ~slow[push.at]
  /\ UNCHANGED <<ready, mode, jobs, refreshDue, poll, node, subs, slow>>
  /\ Push(push.left \cap subs,
          [c \in Miner |-> IF c = push.at /\ c \in subs THEN 0 ELSE have[c]],
          push.why, lastTip)

\* _track_blocks is done, or failed.
Tracked ==
  /\ pc = "track"
  /\ pc' = "wait"
  /\ UNCHANGED <<node, jm, poll, push, conn>>

-----------------------------------------------------------------------------
(* Time, the node, and the connections. *)

RefreshDue ==
  /\ ~refreshDue
  /\ refreshDue' = TRUE
  /\ UNCHANGED <<ready, mode, lastTip, jobs, gapOver, node, loop, conn>>

GapOver ==
  /\ ~gapOver
  /\ gapOver' = TRUE
  /\ UNCHANGED <<ready, mode, lastTip, jobs, refreshDue, node, loop, conn>>

\* A new block, or a reorg back to an earlier one.
TipMoves ==
  /\ tip' \in Tip \ {tip}
  /\ UNCHANGED <<ibd, jm, loop, conn>>

\* The node finishes syncing, or was restarted far behind its peers.
IbdFlips ==
  /\ ibd' = ~ibd
  /\ UNCHANGED <<tip, jm, loop, conn>>

\* on_authorize: register, then send the current job (its buffer is empty).
Join(c) ==
  /\ c \notin subs
  /\ subs' = subs \cup {c}
  /\ have' = [have EXCEPT ![c] = 0]
  /\ UNCHANGED <<slow, node, jm, loop>>

\* The connection ends, or is dropped: unregister.
Leave(c) ==
  /\ c \in subs
  /\ subs' = subs \ {c}
  /\ slow' = [slow EXCEPT ![c] = FALSE]
  /\ have' = [have EXCEPT ![c] = JobHistory]
  /\ UNCHANGED <<node, jm, loop>>

StopsReading(c) ==
  /\ c \in subs /\ ~slow[c]
  /\ slow' = [slow EXCEPT ![c] = TRUE]
  /\ UNCHANGED <<subs, have, node, jm, loop>>

Reads(c) ==
  /\ slow[c]
  /\ slow' = [slow EXCEPT ![c] = FALSE]
  /\ UNCHANGED <<subs, have, node, jm, loop>>

-----------------------------------------------------------------------------

Init ==
  /\ tip \in Tip /\ ibd \in BOOLEAN
  /\ ready = FALSE /\ mode = "mock" /\ lastTip = NoTip
  /\ jobs = [a \in Age |-> IF a = 0 THEN MockJob ELSE NoJob]
  /\ refreshDue = TRUE /\ gapOver = TRUE
  /\ pc = "info"
  /\ poll = [tip |-> NoTip, changed |-> FALSE, clean |-> TRUE]
  /\ push = NoPush
  /\ subs = {}
  /\ slow = [c \in Miner |-> FALSE]
  /\ have = [c \in Miner |-> JobHistory]

Loop == Poll \/ InfoFails \/ InfoWithoutTip \/ InfoAnswered \/ GbtAnswered
        \/ RefreshFails \/ GbtFails \/ Drained \/ Tracked

Next ==
  \/ Loop
  \/ RefreshDue \/ GapOver \/ TipMoves \/ IbdFlips
  \/ \E c \in Miner : Join(c) \/ Leave(c) \/ StopsReading(c) \/ Reads(c)

Spec == Init /\ [][Next]_vars

\* The event loop runs the poll loop; RPCs return or time out, and one asked
\* again and again is answered sometimes; a waiter on drain is resumed once the
\* peer has read, even if it stops reading again; timers expire.
Fairness ==
  /\ WF_vars(Loop)
  /\ SF_vars(InfoAnswered) /\ SF_vars(GbtAnswered) /\ SF_vars(Drained)
  /\ WF_vars(RefreshDue) /\ WF_vars(GapOver)

\* A peer that stops reading is only unstuck by TCP: it reads again, or its
\* connection is reset.
PeersUnstick == \A c \in Miner : WF_vars(Reads(c) \/ (slow[c] /\ Leave(c)))

FairSpec == Spec /\ Fairness /\ PeersUnstick
FairServerSpec == Spec /\ Fairness

-----------------------------------------------------------------------------
(* Properties. *)

Job == [kind : {"mock", "real", "none"}, prev : Tip \cup {NoTip}, clean : BOOLEAN]

TypeOK ==
  /\ tip \in Tip
  /\ ibd \in BOOLEAN /\ ready \in BOOLEAN
  /\ refreshDue \in BOOLEAN /\ gapOver \in BOOLEAN
  /\ mode \in {"mock", "real"}
  /\ lastTip \in Tip \cup {NoTip}
  /\ jobs \in [Age -> Job]
  /\ pc \in {"wait", "info", "gbt", "drain", "track"}
  /\ poll \in [tip : Tip \cup {NoTip}, changed : BOOLEAN, clean : BOOLEAN]
  /\ push.left \in SUBSET Miner
  /\ push.at \in Miner \cup {NoTip}
  /\ push.why \in {"ibd", "template", "fallback"}
  /\ pc = "drain" => push.at \in Miner
  /\ subs \in SUBSET Miner
  /\ slow \in [Miner -> BOOLEAN]
  /\ have \in [Miner -> 0..JobHistory]

\* A job flagged clean_jobs=False replaces a real job by a real job, although
\* the flag was settled before the template was awaited: nothing else installs
\* jobs meanwhile, and every mock job in between is followed by a clean one.
RefreshFollowsReal ==
  /\ mode = jobs[0].kind
  /\ \A a \in Age : ~jobs[a].clean =>
       jobs[a].kind = "real" /\ (a + 1 \in Age => jobs[a + 1].kind = "real")

\* The loop never leaves a subscriber behind: it holds the current job, or the
\* push still owes it that job and it holds the one before -- never one that
\* sources has dropped, so its shares are not "Job not found".
NoMinerSkipped ==
  \A c \in subs :
    \/ have[c] = 0
    \/ have[c] = 1 /\ pc = "drain" /\ c \in push.left \cup {push.at}

\* "Recording it up front ... meant a failed fetch left miners parked on the
\* previous tip's template" (job_manager.py:404): once the node stays synced on
\* one tip, every connection that stays gets a real job on that tip and keeps
\* it, whatever failed, moved or went back and forth before.
Parked(t, c) == tip = t /\ ~ibd /\ c \in subs
WorksOn(t, c) == have[c] \in Age /\ jobs[have[c]].kind = "real" /\ jobs[have[c]].prev = t
MinersFollowTip ==
  \A t \in Tip, c \in Miner : <>[]Parked(t, c) => <>[]WorksOn(t, c)

\* "A clean job is required when the previous block changed (old work is
\* worthless). A periodic refresh on the same tip is sent with
\* clean_jobs=False" (job_manager.py:415).
CleanOnNewBlock ==
  ~jobs[0].clean /\ jobs[1].kind = "real" => jobs[0].prev = jobs[1].prev

\* "Instant new-block jobs via the node's ZMQ feed, so miners never hash stale
\* work" (README.md:55): a connection that reads gets the job for the new
\* block, whatever the other connections do.
ReadersFollowTip ==
  \A t \in Tip, c \in Miner :
    <>[](Parked(t, c) /\ ~slow[c]) => <>[]WorksOn(t, c)
=============================================================================
