---------------------------- MODULE ShareSession ----------------------------
(***************************************************************************)
(* One authorized connection and its miner (ClientConn in stratum.py):     *)
(* jobs and difficulties go down, shares come up, and meanwhile jobs are   *)
(* replaced, the payout address changes and the difficulty is retargeted.  *)
(* The question is which work on_submit recognises, and what it credits.   *)
(*                                                                         *)
(* TCP keeps each direction in order but may lag behind by any amount, so  *)
(* the miner works on what it has read.  A handler runs to its end in one  *)
(* action, except that a block share waits for _submit_block while the     *)
(* other coroutines go on (module BlockSubmit).  A malformed submit only   *)
(* counts a reject and has no action here.                                 *)
(*                                                                         *)
(* Jobs are named by age: jobs[0] is current, and the age JobHistory is a  *)
(* job that has left JobManager.sources.  What seen_shares and job_payouts *)
(* hold for such jobs can no longer be reached, so it is not modelled.     *)
(***************************************************************************)
EXTENDS Naturals, Sequences, FiniteSets

CONSTANTS Payout, NoPayout,
          Tip, NoTip,
          Key,           \* a dedupe key: extranonce2, ntime and nonce as the submit
                         \* spells them, and the rolled bits
          JobHistory,    \* JOB_HISTORY
          MaxPayouts,    \* MAX_PAYOUTS_PER_JOB
          MaxShares,     \* MAX_SHARES_PER_JOB
          NetDiff,       \* difficulty of the network target
          Settings,      \* share_difficulty and vardiff_enabled, as they may be saved
          Suggests,      \* difficulties the miner may suggest
          Retargets,     \* difficulties vardiff may choose
          MaxDown, MaxUp, \* bounds: messages under way to and from the miner
          Prompt         \* a message takes less than DIFF_CHANGE_GRACE to arrive

ASSUME SizeAssumption ==
  /\ JobHistory \in Nat \ {0} /\ MaxPayouts \in Nat \ {0} /\ MaxShares \in Nat \ {0}
  /\ MaxDown \in Nat /\ MaxUp \in Nat
ASSUME DiffAssumption ==
  /\ NetDiff \in Nat \ {0}
  /\ Settings # {} /\ Settings \subseteq [diff : Nat \ {0}, auto : BOOLEAN]
  /\ Suggests \subseteq Nat \ {0} /\ Retargets \subseteq Nat \ {0}
ASSUME NullAssumption == NoPayout \notin Payout /\ NoTip \notin Tip

VARIABLES
  jobs,       \* jobs[a]: source, payouts it was sent with, keys seen on it, and how
              \* often each was credited since that set was last emptied
  payout,     \* payout_script, or NoPayout before the first authorize
  settings,   \* share_difficulty and vardiff["enabled"] of the job manager
  pushing,    \* _push_difficulty has not reached this connection yet
  diff, prevDiff,  \* difficulty and _prev_difficulty; 0 is None
  grace,      \* less than DIFF_CHANGE_GRACE since _diff_changed
  retarget,   \* VARDIFF_INTERVAL since _last_vardiff: "due", or not yet
  suggested,  \* suggested_diff; 0 is None
  block,      \* the block share on_submit is waiting for, or NoShare
  down, up,   \* messages under way to and from the miner
  miner       \* what the miner works on: its difficulty, job and payout

server == <<jobs, payout, settings, pushing, diff, prevDiff, grace, retarget, suggested, block>>
vars == <<server, down, up, miner>>

Age == 0..(JobHistory - 1)
Gone == JobHistory
Level == 0..NetDiff     \* difficulty a hash reaches

NewJob(t) == [prev |-> t, pays |-> <<>>, seen |-> {}, paid |-> [n \in Key |-> 0]]
IsReal(job) == job.prev # NoTip

DiffMsg(d) == [is |-> "diff", d |-> d]
JobMsg(p) == [is |-> "job", age |-> 0, pay |-> p]

NoShare == [age |-> Gone, pay |-> NoPayout, key |-> NoPayout, q |-> 0, told |-> 0,
            waited |-> FALSE]

-----------------------------------------------------------------------------
(* Sending jobs. *)

Held(ps) == {ps[i] : i \in 1..Len(ps)}

\* (mutant) Only the payout the connection holds now.
LatestOnly(ps, p) == <<p>>

\* _remember_payout: distinct payouts, the oldest beyond the limit is dropped.
Remembered(ps, p) ==
  IF p \in Held(ps) THEN ps
  ELSE IF Len(ps) < MaxPayouts THEN Append(ps, p) ELSE Append(Tail(ps), p)

\* send_current_job of job paying p: what the server keeps, what goes down.
\* A mock job pays nobody.
Sent(job, p) == IF IsReal(job) THEN [job EXCEPT !.pays = Remembered(@, p)] ELSE job
Notify(job, p) == JobMsg(IF IsReal(job) THEN p ELSE NoPayout)

\* (mutant) The history never ends.
OlderForever(a) == a + 1

\* One job later.
Older(a) == IF a < Gone THEN a + 1 ELSE a

\* What names a job by its age, after an install.
AgedRecord(r) == [r EXCEPT !.age = Older(@)]
AgedMsg(m) == IF m.is = "job" THEN AgedRecord(m) ELSE m
AgedSeq(s, Aged(_)) == [i \in 1..Len(s) |-> Aged(s[i])]

\* The poll loop installs a job on tip t, or a mock job, and broadcasts it.
Install(t) ==
  /\ Len(down) < MaxDown
  /\ LET new == IF payout = NoPayout THEN NewJob(t) ELSE Sent(NewJob(t), payout)
     IN  jobs' = [a \in Age |-> IF a = 0 THEN new ELSE jobs[a - 1]]
  /\ LET aged == AgedSeq(down, AgedMsg) IN
       down' = IF payout = NoPayout THEN aged ELSE Append(aged, Notify(NewJob(t), payout))
  /\ up' = AgedSeq(up, AgedRecord)
  /\ miner' = AgedRecord(miner)
  /\ block' = AgedRecord(block)
  /\ UNCHANGED <<payout, settings, pushing, diff, prevDiff, grace, retarget, suggested>>

-----------------------------------------------------------------------------
(* Difficulty. *)

\* set_difficulty, without the message.
SetDiff(d) ==
  /\ diff' = d
  /\ IF diff # 0 /\ d # diff
       THEN prevDiff' = diff /\ grace' = TRUE
       ELSE UNCHANGED <<prevDiff, grace>>

Reading == block = NoShare

\* on_authorize: the first one, or again with another address.  It starts from
\* the suggested difficulty if there is one, and sends the current job.
Authorize(p) ==
  /\ Reading /\ Len(down) + 1 < MaxDown
  /\ payout' = p
  /\ SetDiff(IF suggested # 0 /\ settings.auto THEN suggested ELSE settings.diff)
  /\ retarget' = IF retarget = "after grace" /\ diff' # diff THEN "running" ELSE retarget
  /\ jobs' = [jobs EXCEPT ![0] = Sent(@, p)]
  /\ down' = down \o <<DiffMsg(diff'), Notify(jobs[0], p)>>
  /\ UNCHANGED <<settings, pushing, suggested, block, up, miner>>

\* on_suggest_difficulty, ignored with vardiff off; it also holds off vardiff.
Suggest(d) ==
  /\ Reading /\ settings.auto /\ Len(down) < MaxDown
  /\ suggested' = d
  /\ IF payout = NoPayout
       THEN UNCHANGED <<diff, prevDiff, grace, retarget, down>>
       ELSE /\ SetDiff(d)
            /\ retarget' = "after grace"
            /\ down' = Append(down, DiffMsg(d))
  /\ UNCHANGED <<jobs, payout, settings, pushing, block, up, miner>>

\* maybe_retarget: vardiff moves to another difficulty.
Retarget(d) ==
  /\ settings.auto /\ retarget = "due" /\ diff # 0 /\ d # diff
  /\ Len(down) < MaxDown
  /\ SetDiff(d)
  /\ retarget' = "after grace"
  /\ down' = Append(down, DiffMsg(d))
  /\ UNCHANGED <<jobs, payout, settings, pushing, suggested, block, up, miner>>

\* apply_config, after the settings are saved: it leaves a task that pushes the
\* difficulty to every connection.  (bound: the next save waits for the task)
SaveSettings(s) ==
  /\ ~pushing
  /\ settings' = s /\ pushing' = TRUE
  /\ UNCHANGED <<jobs, payout, diff, prevDiff, grace, retarget, suggested, block, down, up, miner>>

\* _push_difficulty: the configured difficulty, whatever the miner suggested.
Push ==
  /\ pushing /\ pushing' = FALSE
  /\ IF payout = NoPayout
       THEN UNCHANGED <<diff, prevDiff, grace, retarget, down>>
       ELSE /\ Len(down) < MaxDown
            /\ SetDiff(settings.diff)
            /\ retarget' = IF retarget = "after grace" /\ diff' # diff THEN "running" ELSE retarget
            /\ down' = Append(down, DiffMsg(diff'))
  /\ UNCHANGED <<jobs, payout, settings, suggested, block, up, miner>>

\* Nobody is about to act on an earlier difficulty, except that on_submit has
\* yet to read the shares that arrived while it waited for the node.
Arrived ==
  /\ miner.diff = diff
  /\ \A i \in 1..Len(down) : down[i].is # "diff"
  /\ \A i \in 1..Len(up) : up[i].waited \/ up[i].told = diff

GraceOver ==
  /\ grace /\ (Prompt => Arrived)
  /\ grace' = FALSE
  /\ UNCHANGED <<jobs, payout, settings, pushing, diff, prevDiff, retarget, suggested,
                 block, down, up, miner>>

\* VARDIFF_INTERVAL is longer than DIFF_CHANGE_GRACE: counted from the change
\* that opened the grace it ends after it, counted from an earlier one it may
\* end at any time.
RetargetDue ==
  /\ \/ retarget = "running"
     \/ retarget = "after grace" /\ ~grace
  /\ retarget' = "due"
  /\ UNCHANGED <<jobs, payout, settings, pushing, diff, prevDiff, grace, suggested, block, down, up, miner>>

-----------------------------------------------------------------------------
(* Judging shares. *)

\* get_source, and for a template the payouts the job was sent with.
Known(s) == s.age \in Age /\ (IsReal(jobs[s.age]) => jobs[s.age].pays # <<>>)

\* Not a "Duplicate share" either.
Fresh(s) == Known(s) /\ s.key \notin jobs[s.age].seen

\* The best of the candidate headers: the share's own work, if its payout is
\* among them, else a random hash, which is worth nothing.
Hash(s) ==
  IF IsReal(jobs[s.age]) /\ s.pay \notin Held(jobs[s.age].pays) THEN 0 ELSE s.q

IsBlock(s) == IsReal(jobs[s.age]) /\ Hash(s) >= NetDiff

\* is_stale: another previous block is current.  Two mock jobs always differ.
Stale(s) ==
  s.age # 0 /\ (jobs[s.age].prev # jobs[0].prev \/ ~IsReal(jobs[0]))

\* (mutant) No grace after a change.
CreditStrict(q) == IF q >= diff THEN diff ELSE 0

\* The difficulty a hash of level q is credited at: the current one, or within
\* the grace the previous one; 0 if it meets neither.
Credit(q) ==
  IF q >= diff THEN diff
  ELSE IF prevDiff # 0 /\ grace /\ q >= prevDiff THEN prevDiff ELSE 0

Full(job) == Cardinality(job.seen) >= MaxShares

\* (mutant) A full set is emptied with the new key in it.
SeenAfter(job, n) == IF Full(job) THEN {} ELSE job.seen \cup {n}

\* The dedupe set after a new key; a full set is emptied first.
Seen(job, n) == (IF Full(job) THEN {} ELSE job.seen) \cup {n}

\* The job with key n entered.
Entered(job, n) ==
  [job EXCEPT !.seen = Seen(job, n),
              !.paid = IF Full(job) THEN [k \in Key |-> 0] ELSE @]

\* _record_accept, as seen by the job.
Paid(job, n) == [job EXCEPT !.paid[n] = IF @ < 2 THEN @ + 1 ELSE @]

\* on_submit up to _submit_block, or to its end when the share is no block.
Submit ==
  /\ Reading /\ up # <<>>
  /\ UNCHANGED <<payout, settings, pushing, diff, prevDiff, grace, retarget, suggested, down, miner>>
  /\ LET s == Head(up)
         seen == Entered(jobs[s.age], s.key)
     IN  \/ ~Fresh(s) /\ UNCHANGED <<jobs, block>> /\ up' = Tail(up)
         \/ /\ Fresh(s)
            /\ IF IsBlock(s)
                 THEN /\ block' = s /\ jobs' = [jobs EXCEPT ![s.age] = seen]
                      /\ up' = [i \in 1..(Len(up) - 1) |-> [up[i + 1] EXCEPT !.waited = TRUE]]
                 ELSE /\ UNCHANGED block /\ up' = Tail(up)
                      /\ jobs' = [jobs EXCEPT ![s.age] =
                           IF ~Stale(s) /\ Credit(Hash(s)) # 0
                             THEN Paid(seen, s.key) ELSE seen]

\* _submit_block is back: a block share is accepted whatever else happened.
BlockSubmitted ==
  /\ ~Reading
  /\ jobs' = IF block.age \in Age
               THEN [jobs EXCEPT ![block.age] = Paid(@, block.key)] ELSE jobs
  /\ block' = NoShare
  /\ UNCHANGED <<payout, settings, pushing, diff, prevDiff, grace, retarget, suggested, down, up, miner>>

-----------------------------------------------------------------------------
(* The miner: it takes up the difficulty and the job as it reads them. *)

Read ==
  /\ down # <<>>
  /\ down' = Tail(down)
  /\ LET m == Head(down) IN
       miner' = IF m.is = "diff" THEN [miner EXCEPT !.diff = m.d]
                ELSE [miner EXCEPT !.age = m.age, !.pay = m.pay]
  /\ UNCHANGED <<server, up>>

\* It finds a share, or sends one again.
Find(n, q) ==
  /\ miner.diff # 0 /\ miner.age <= Gone /\ q >= miner.diff
  /\ Len(up) < MaxUp
  /\ up' = Append(up, [age |-> miner.age, pay |-> miner.pay, key |-> n,
                       q |-> q, told |-> miner.diff, waited |-> ~Reading])
  /\ UNCHANGED <<server, down, miner>>

-----------------------------------------------------------------------------

Init ==
  /\ jobs = [a \in Age |-> NewJob(NoTip)]
  /\ payout = NoPayout
  /\ settings \in Settings /\ pushing = FALSE
  /\ diff = 0 /\ prevDiff = 0 /\ grace = FALSE
  /\ retarget = "due" /\ suggested = 0
  /\ block = NoShare
  /\ down = <<>> /\ up = <<>>
  /\ miner = [diff |-> 0, age |-> Gone + 1, pay |-> NoPayout]

Next ==
  \/ \E t \in Tip \cup {NoTip} : Install(t)
  \/ \E p \in Payout : Authorize(p)
  \/ \E d \in Suggests : Suggest(d)
  \/ \E d \in Retargets : Retarget(d)
  \/ (\E s \in Settings : SaveSettings(s)) \/ Push
  \/ GraceOver \/ RetargetDue
  \/ Submit \/ BlockSubmitted
  \/ Read \/ \E n \in Key, q \in Level : Find(n, q)

Spec == Init /\ [][Next]_vars

-----------------------------------------------------------------------------
(* Properties. *)

Job == [prev : Tip \cup {NoTip}, pays : Seq(Payout), seen : SUBSET Key,
        paid : [Key -> 0..2]]
Share == [age : 0..Gone, pay : Payout \cup {NoPayout}, key : Key, q : Level, told : Nat,
          waited : BOOLEAN]
DownMsg == [is : {"diff"}, d : Nat \ {0}]
           \cup [is : {"job"}, age : 0..Gone, pay : Payout \cup {NoPayout}]

TypeOK ==
  /\ jobs \in [Age -> Job]
  /\ \A a \in Age : Len(jobs[a].pays) <= MaxPayouts
  /\ payout \in Payout \cup {NoPayout}
  /\ diff \in Nat /\ prevDiff \in Nat /\ suggested \in Nat
  /\ settings \in Settings /\ pushing \in BOOLEAN
  /\ grace \in BOOLEAN
  /\ retarget \in {"due", "running", "after grace"}
  /\ block \in Share \cup {NoShare}
  /\ down \in Seq(DownMsg) /\ Len(down) <= MaxDown
  /\ up \in Seq(Share) /\ Len(up) <= MaxUp
  /\ miner \in [diff : Nat, age : 0..(Gone + 1), pay : Payout \cup {NoPayout}]

\* "A share is rebuilt from these, not from whatever address the connection
\* holds now, so a re-authorize with a different address cannot change the
\* coinbase of work already out" (stratum.py:255): as long as its job is kept,
\* the server can rebuild the work in every message to the miner, in the
\* miner's hands and in every share under way -- the work of a block included.
Rebuilt(age, pay) ==
  age \in Age =>
    IF IsReal(jobs[age]) THEN pay \in Held(jobs[age].pays) ELSE pay = NoPayout
WorkRecognised ==
  /\ \A i \in 1..Len(down) : down[i].is = "job" => Rebuilt(down[i].age, down[i].pay)
  /\ Rebuilt(miner.age, miner.pay)
  /\ \A i \in 1..Len(up) : Rebuilt(up[i].age, up[i].pay)

\* "Rolled version bits are part of the identity" (stratum.py:671): whatever is
\* sent twice, and however jobs are replaced while a block share waits for the
\* node, no key of a job is credited a second time before its full dedupe set is
\* emptied.  It speaks of what is sent, spelled the same: nothing in the code
\* stops the same work sent with other letter case in its hex from being another
\* key (stratum.py:672).
CreditedOnce == \A a \in Age, n \in Key : jobs[a].paid[n] <= 1

\* "Honoured for DIFF_CHANGE_GRACE seconds so shares already in flight are not
\* rejected by a raise" (stratum.py:268): new work on the current tip that met
\* the difficulty its miner had been told is credited, across refreshes of the
\* job, changes of the payout and changes of the difficulty by vardiff, by the
\* miner's suggestion and by the settings.  Only one earlier difficulty is kept:
\* of several changes within the grace the property speaks of the last.  And a
\* share that waits behind a block share is only honoured if the grace outlasts
\* the wait (up to two minutes for a slow node).
InFlightHonoured ==
  Reading /\ up # <<>> =>
    LET s == Head(up) IN
      s.age \in Age /\ (s.told = diff \/ (s.told = prevDiff /\ (s.waited => grace))) =>
        s.key \in jobs[s.age].seen \/ Stale(s) \/ (Known(s) /\ Credit(Hash(s)) # 0)
=============================================================================
