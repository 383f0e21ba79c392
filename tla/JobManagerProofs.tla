-------------------------- MODULE JobManagerProofs --------------------------
(***************************************************************************)
(* Proofs about JobManager, for any number of connections and tips and any *)
(* length of the job history: typing, what a refresh replaces, and that    *)
(* the poll loop leaves no subscriber behind.                              *)
(***************************************************************************)
EXTENDS JobManager, TLAPS

Polls == [tip : Tip \cup {NoTip}, changed : BOOLEAN, clean : BOOLEAN]

\* What a push leaves behind, however far it got.
PushTyped ==
  /\ push'.left \in SUBSET Miner
  /\ push'.at \in Miner \cup {NoTip}
  /\ push'.why \in {"ibd", "template", "fallback"}
  /\ pc' \in {"wait", "drain", "track"}
  /\ pc' = "drain" => push'.at \in Miner
  /\ gapOver' \in BOOLEAN
  /\ lastTip' \in Tip \cup {NoTip}
  /\ have' \in [Miner -> 0..JobHistory]

\* A push serves every connection of left, or still owes it the job.
Serves(left, held) ==
  \A c \in Miner :
    \/ have'[c] = 0
    \/ have'[c] = held[c] /\ c \notin left
    \/ have'[c] = held[c] /\ pc' = "drain" /\ c \in push'.left \cup {push'.at}

LEMMA PushEffect ==
  ASSUME NEW left, NEW held, NEW why, NEW last,
         left \in SUBSET Miner, held \in [Miner -> 0..JobHistory],
         why \in {"ibd", "template", "fallback"}, last \in Tip \cup {NoTip},
         gapOver \in BOOLEAN, poll' \in Polls,
         Push(left, held, why, last)
  PROVE  PushTyped /\ Serves(left, held)
<1> USE HistoryAssumption
<1>1. PICK done \in SUBSET {c \in left : ~slow[c]} :
        /\ have' = [c \in Miner |-> IF c \in done THEN 0 ELSE held[c]]
        /\ \/ done = left /\ PushEnds(why, last)
           \/ \E c \in left \ done :
                /\ slow[c]
                /\ pc' = "drain"
                /\ push' = [left |-> left \ (done \cup {c}), at |-> c, why |-> why]
                /\ lastTip' = last
                /\ UNCHANGED gapOver
  BY DEF Push
<1>2. have' \in [Miner -> 0..JobHistory]
  BY <1>1
<1>3. CASE done = left /\ PushEnds(why, last)
  <2>1. push' = NoPush /\ gapOver' = FALSE
    BY <1>3 DEF PushEnds
  <2>2. lastTip' \in Tip \cup {NoTip}
    BY <1>3 DEF PushEnds, Polls
  <2>3. pc' \in {"wait", "track"}
    BY <1>3 DEF PushEnds
  <2> QED
    BY <1>1, <1>2, <1>3, <2>1, <2>2, <2>3 DEF PushTyped, Serves, NoPush
<1>4. CASE \E c \in left \ done :
             /\ slow[c]
             /\ pc' = "drain"
             /\ push' = [left |-> left \ (done \cup {c}), at |-> c, why |-> why]
             /\ lastTip' = last
             /\ UNCHANGED gapOver
  <2>1. PICK c \in left \ done :
             /\ pc' = "drain"
             /\ push' = [left |-> left \ (done \cup {c}), at |-> c, why |-> why]
             /\ lastTip' = last
             /\ UNCHANGED gapOver
    BY <1>4
  <2>2. PushTyped
    BY <1>2, <2>1 DEF PushTyped
  <2>3. Serves(left, held)
    BY <1>1, <2>1 DEF Serves
  <2> QED
    BY <2>2, <2>3
<1> QED
  BY <1>1, <1>3, <1>4

\* A job is flagged clean unless it replaces a real job.
Followed(js) ==
  \A a \in Age : ~js[a].clean =>
    js[a].kind = "real" /\ (a + 1 \in Age => js[a + 1].kind = "real")

LEMMA InstallEffect ==
  ASSUME jobs \in [Age -> Job], NEW job \in Job, Install(job)
  PROVE  /\ jobs' \in [Age -> Job]
         /\ jobs'[0] = job
         /\ \A a \in Age : a + 1 \in Age => jobs'[a + 1] = jobs[a]
<1> USE HistoryAssumption
<1>1. \A a \in Age : a # 0 => a - 1 \in Age
  BY DEF Age
<1>2. 0 \in Age
  BY DEF Age
<1>3. jobs' \in [Age -> Job]
  BY <1>1 DEF Install
<1>4. \A a \in Age : a + 1 \in Age => a + 1 # 0 /\ (a + 1) - 1 = a
  BY DEF Age
<1> QED
  BY <1>2, <1>3, <1>4 DEF Install

LEMMA InstallFollows ==
  ASSUME jobs \in [Age -> Job], Followed(jobs), NEW job \in Job, Install(job),
         ~job.clean => job.kind = "real" /\ jobs[0].kind = "real"
  PROVE  Followed(jobs')
<1> USE HistoryAssumption
<1>1. /\ jobs'[0] = job
      /\ \A a \in Age : a + 1 \in Age => jobs'[a + 1] = jobs[a]
  BY InstallEffect
<1>2. 0 \in Age /\ 0 + 1 = 1
  BY DEF Age
<1>3. ASSUME NEW a \in Age, ~jobs'[a].clean
      PROVE  jobs'[a].kind = "real" /\ (a + 1 \in Age => jobs'[a + 1].kind = "real")
  <2>1. CASE a = 0
    BY <1>1, <1>2, <1>3, <2>1
  <2>2. CASE a # 0
    <3>1. PICK e \in Age : a = e + 1
      BY <2>2 DEF Age
    <3>2. jobs'[a] = jobs[e]
      BY <1>1, <3>1
    <3>3. jobs[e].kind = "real" /\ jobs[a].kind = "real"
      BY <1>3, <3>1, <3>2 DEF Followed
    <3> QED
      BY <1>1, <3>2, <3>3
  <2> QED
    BY <2>1, <2>2
<1> QED
  BY <1>3 DEF Followed

-----------------------------------------------------------------------------
(* The inductive invariant.  The flag of a job is settled before its        *)
(* template is awaited, so it has to stay right until the answer comes.     *)

FlagStillRight == pc = "gbt" /\ ~poll.clean => jobs[0].kind = "real"

IInv == TypeOK /\ RefreshFollowsReal /\ FlagStillRight /\ NoMinerSkipped

LEMMA AgedType ==
  ASSUME TypeOK
  PROVE  Aged \in [Miner -> 0..JobHistory]
<1> USE HistoryAssumption
<1>1. \A a \in 0..JobHistory : Older(a) \in 0..JobHistory
  BY DEF Older
<1> QED
  BY <1>1 DEF Aged, TypeOK

\* What installing and pushing a job does to the connections and the jobs.
LEMMA NewJobEffect ==
  ASSUME IInv, pc # "drain", NEW job \in Job, NEW why, NEW last,
         why \in {"ibd", "template", "fallback"}, last \in Tip \cup {NoTip},
         poll' \in Polls, subs' = subs,
         job.kind = mode', job.kind # "none",
         ~job.clean => job.kind = "real" /\ jobs[0].kind = "real",
         NewJob(job, why, last)
  PROVE  /\ PushTyped
         /\ jobs' \in [Age -> Job]
         /\ mode' \in {"mock", "real"}
         /\ RefreshFollowsReal'
         /\ FlagStillRight'
         /\ NoMinerSkipped'
<1> USE HistoryAssumption
<1>1. Install(job) /\ Push(subs, Aged, why, last)
  BY DEF NewJob
<1>2. PushTyped /\ Serves(subs, Aged)
  <2>1. subs \in SUBSET Miner /\ gapOver \in BOOLEAN
    BY DEF IInv, TypeOK
  <2>2. Aged \in [Miner -> 0..JobHistory]
    BY AgedType DEF IInv
  <2> QED
    BY <1>1, <2>1, <2>2, PushEffect
<1>3. jobs \in [Age -> Job] /\ Followed(jobs)
  BY DEF IInv, TypeOK, RefreshFollowsReal, Followed
<1>4. jobs' \in [Age -> Job] /\ jobs'[0] = job
  BY <1>1, <1>3, InstallEffect
<1>5. Followed(jobs')
  BY <1>1, <1>3, InstallFollows
<1>6. RefreshFollowsReal'
  BY <1>4, <1>5 DEF RefreshFollowsReal, Followed
<1>7. FlagStillRight'
  BY <1>2 DEF FlagStillRight, PushTyped
<1>8. NoMinerSkipped'
  <2> SUFFICES ASSUME NEW c \in subs
               PROVE  \/ have'[c] = 0
                      \/ have'[c] = 1 /\ pc' = "drain" /\ c \in push'.left \cup {push'.at}
    BY DEF NoMinerSkipped
  <2>1. c \in Miner
    BY DEF IInv, TypeOK
  <2>2. have[c] = 0
    BY DEF IInv, NoMinerSkipped
  <2>3. Aged[c] = 1
    BY <2>1, <2>2 DEF Aged, Older
  <2> QED
    BY <1>2, <2>1, <2>3 DEF Serves
<1>9. mode' \in {"mock", "real"}
  <2>1. job.kind \in {"mock", "real", "none"}
    BY DEF Job
  <2> QED
    BY <2>1
<1> QED
  BY <1>2, <1>4, <1>6, <1>7, <1>8, <1>9

LEMMA JobTypes ==
  /\ MockJob \in Job /\ MockJob.kind = "mock" /\ MockJob.clean
  /\ NoJob \in Job /\ NoJob.kind = "none" /\ NoJob.clean
  /\ \A t \in Tip, f \in BOOLEAN :
       RealJob(t, f) \in Job /\ RealJob(t, f).kind = "real" /\ RealJob(t, f).clean = f
<1>1. MockJob \in Job /\ MockJob.kind = "mock" /\ MockJob.clean
  BY DEF MockJob, Job
<1>2. NoJob \in Job /\ NoJob.kind = "none" /\ NoJob.clean
  BY DEF NoJob, Job
<1>3. ASSUME NEW t \in Tip, NEW f \in BOOLEAN
      PROVE  RealJob(t, f) \in Job /\ RealJob(t, f).kind = "real" /\ RealJob(t, f).clean = f
  BY DEF RealJob, Job
<1> QED
  BY <1>1, <1>2, <1>3

LEMMA InitInv == Init => IInv
<1> SUFFICES ASSUME Init
             PROVE  IInv
  OBVIOUS
<1> USE HistoryAssumption
<1>1. jobs = [a \in Age |-> IF a = 0 THEN MockJob ELSE NoJob] /\ 0 \in Age
  BY DEF Init, Age
<1>2. jobs \in [Age -> Job] /\ jobs[0] = MockJob /\ \A a \in Age : jobs[a].clean
  BY <1>1, JobTypes
<1>3. poll \in Polls /\ poll.clean
  BY DEF Init, Polls
<1>4. push.left = {} /\ push.at = NoTip /\ push.why = "ibd"
  BY DEF Init, NoPush
<1>5. have \in [Miner -> 0..JobHistory] /\ slow \in [Miner -> BOOLEAN]
  BY DEF Init
<1>6. TypeOK
  BY <1>2, <1>3, <1>4, <1>5 DEF Init, TypeOK, Polls
<1>7. RefreshFollowsReal
  BY <1>2, JobTypes DEF Init, RefreshFollowsReal
<1>8. FlagStillRight
  BY DEF Init, FlagStillRight
<1>9. NoMinerSkipped
  BY DEF Init, NoMinerSkipped
<1> QED
  BY <1>6, <1>7, <1>8, <1>9 DEF IInv

-----------------------------------------------------------------------------
(* The steps that install or push nothing. *)

LEMMA LoopMovesInv ==
  ASSUME IInv, Poll \/ InfoFails \/ InfoWithoutTip \/ Tracked
  PROVE  IInv'
<1>1. pc # "drain" /\ pc' # "drain" /\ pc' # "gbt" /\ pc' \in {"wait", "info"}
  BY DEF Poll, InfoFails, InfoWithoutTip, Tracked
<1>2. UNCHANGED <<node, mode, lastTip, jobs, refreshDue, gapOver, poll, push, conn>>
  BY DEF Poll, InfoFails, InfoWithoutTip, Tracked, jm
<1>6. ready' \in BOOLEAN
  BY DEF IInv, TypeOK, Poll, InfoFails, InfoWithoutTip, Tracked, jm
<1>3. TypeOK'
  BY <1>1, <1>2, <1>6 DEF IInv, TypeOK, node, conn
<1>4. RefreshFollowsReal' /\ FlagStillRight'
  BY <1>1, <1>2 DEF IInv, RefreshFollowsReal, FlagStillRight
<1>5. NoMinerSkipped'
  BY <1>1, <1>2 DEF IInv, NoMinerSkipped, conn
<1> QED
  BY <1>3, <1>4, <1>5 DEF IInv

LEMMA ClockInv ==
  ASSUME IInv, RefreshDue \/ GapOver \/ TipMoves \/ IbdFlips
  PROVE  IInv'
<1>1. UNCHANGED <<ready, mode, lastTip, jobs, loop, conn>>
  BY DEF RefreshDue, GapOver, TipMoves, IbdFlips, jm
<1>2. tip' \in Tip
  BY DEF IInv, TypeOK, RefreshDue, GapOver, TipMoves, IbdFlips, node
<1>3. ibd' \in BOOLEAN
  BY DEF IInv, TypeOK, RefreshDue, GapOver, TipMoves, IbdFlips, node
<1>4. refreshDue' \in BOOLEAN
  BY DEF IInv, TypeOK, RefreshDue, GapOver, TipMoves, IbdFlips, jm
<1>5. gapOver' \in BOOLEAN
  BY DEF IInv, TypeOK, RefreshDue, GapOver, TipMoves, IbdFlips, jm
<1>6. TypeOK'
  BY <1>1, <1>2, <1>3, <1>4, <1>5 DEF IInv, TypeOK, loop, conn
<1>7. RefreshFollowsReal' /\ FlagStillRight'
  BY <1>1 DEF IInv, RefreshFollowsReal, FlagStillRight, loop
<1>8. NoMinerSkipped'
  BY <1>1 DEF IInv, NoMinerSkipped, loop, conn
<1> QED
  BY <1>6, <1>7, <1>8 DEF IInv

LEMMA ConnectionInv ==
  ASSUME IInv, NEW c \in Miner, Join(c) \/ Leave(c) \/ StopsReading(c) \/ Reads(c)
  PROVE  IInv'
<1> USE HistoryAssumption
<1>1. UNCHANGED <<node, jm, loop>>
  BY DEF Join, Leave, StopsReading, Reads
<1>2. subs' \in SUBSET Miner
  BY DEF IInv, TypeOK, Join, Leave, StopsReading, Reads
<1>3. slow' \in [Miner -> BOOLEAN]
  BY DEF IInv, TypeOK, Join, Leave, StopsReading, Reads
<1>4. have' \in [Miner -> 0..JobHistory]
  BY DEF IInv, TypeOK, Join, Leave, StopsReading, Reads
<1>5. TypeOK'
  BY <1>1, <1>2, <1>3, <1>4 DEF IInv, TypeOK, node, jm, loop
<1>6. RefreshFollowsReal' /\ FlagStillRight'
  BY <1>1 DEF IInv, RefreshFollowsReal, FlagStillRight, jm, loop
<1>7. \A d \in subs' : have'[d] = 0 \/ (d \in subs /\ have'[d] = have[d])
  BY DEF IInv, TypeOK, Join, Leave, StopsReading, Reads
<1>8. NoMinerSkipped'
  BY <1>1, <1>7 DEF IInv, NoMinerSkipped, loop
<1> QED
  BY <1>5, <1>6, <1>8 DEF IInv

-----------------------------------------------------------------------------
(* The steps of the loop that install or push. *)

LEMMA InfoAnsweredInv ==
  ASSUME IInv, InfoAnswered
  PROVE  IInv'
<1>1. poll' = [tip |-> tip, changed |-> (tip # lastTip), clean |-> Clean(tip # lastTip)]
  BY DEF InfoAnswered
<1>2. (tip # lastTip) \in BOOLEAN /\ Clean(tip # lastTip) \in BOOLEAN
  BY DEF Clean
<1>3. poll' \in Polls
  BY <1>1, <1>2 DEF IInv, TypeOK, Polls
<1>4. UNCHANGED <<tip, ibd, subs, slow, refreshDue>> /\ ready' = ~ibd
  BY DEF InfoAnswered, node
<1>5. ready' \in BOOLEAN
  BY <1>4
<1>6. pc = "info"
  BY DEF InfoAnswered
<1>7. CASE /\ ~ibd /\ pc' = (IF Due(tip # lastTip) THEN "gbt" ELSE "wait")
           /\ UNCHANGED <<mode, lastTip, jobs, gapOver, push, have>>
  <2>1. TypeOK'
    BY <1>3, <1>4, <1>5, <1>7 DEF IInv, TypeOK, Polls
  <2>2. RefreshFollowsReal'
    BY <1>7 DEF IInv, RefreshFollowsReal
  <2>3. FlagStillRight'
    BY <1>1, <1>7 DEF FlagStillRight, Clean, IInv, RefreshFollowsReal
  <2>4. NoMinerSkipped'
    BY <1>4, <1>6, <1>7 DEF IInv, NoMinerSkipped
  <2> QED
    BY <2>1, <2>2, <2>3, <2>4 DEF IInv
<1>8. CASE /\ ibd /\ (~(tip # lastTip) \/ Hold)
           /\ pc' = "wait"
           /\ lastTip' = tip
           /\ UNCHANGED <<mode, jobs, gapOver, push, have>>
  <2>1. TypeOK'
    BY <1>3, <1>4, <1>5, <1>8 DEF IInv, TypeOK, Polls
  <2>2. RefreshFollowsReal'
    BY <1>8 DEF IInv, RefreshFollowsReal
  <2>3. FlagStillRight'
    BY <1>8 DEF FlagStillRight
  <2>4. NoMinerSkipped'
    BY <1>4, <1>6, <1>8 DEF IInv, NoMinerSkipped
  <2> QED
    BY <2>1, <2>2, <2>3, <2>4 DEF IInv
<1>9. CASE /\ ibd /\ tip # lastTip /\ ~Hold
           /\ mode' = "mock"
           /\ NewJob(MockJob, "ibd", tip)
  <2>1. tip \in Tip
    BY DEF IInv, TypeOK
  <2>2. /\ PushTyped /\ jobs' \in [Age -> Job] /\ mode' \in {"mock", "real"}
        /\ RefreshFollowsReal' /\ FlagStillRight' /\ NoMinerSkipped'
    BY <1>3, <1>4, <1>6, <1>9, <2>1, NewJobEffect, JobTypes
  <2>3. TypeOK'
    BY <1>3, <1>4, <1>5, <2>2 DEF IInv, TypeOK, Polls, PushTyped
  <2> QED
    BY <2>2, <2>3 DEF IInv
<1> QED
  BY <1>7, <1>8, <1>9 DEF InfoAnswered, Synced, Syncing

LEMMA GbtAnsweredInv ==
  ASSUME IInv, GbtAnswered
  PROVE  IInv'
<1>1. /\ pc = "gbt" /\ mode' = "real" /\ refreshDue' = FALSE
      /\ UNCHANGED <<ready, poll, tip, ibd, subs, slow>>
      /\ NewJob(RealJob(tip, poll.clean), "template", poll.tip)
  BY DEF GbtAnswered, node
<1>2. tip \in Tip /\ poll \in Polls
  BY DEF IInv, TypeOK, Polls
<1>3. poll.clean \in BOOLEAN /\ poll.tip \in Tip \cup {NoTip} /\ poll' \in Polls
  BY <1>1, <1>2 DEF Polls
<1>4. ~poll.clean => jobs[0].kind = "real"
  BY <1>1 DEF IInv, FlagStillRight
<1>5. /\ RealJob(tip, poll.clean) \in Job
      /\ RealJob(tip, poll.clean).kind = "real"
      /\ RealJob(tip, poll.clean).clean = poll.clean
  BY <1>2, <1>3, JobTypes
<1>6. /\ PushTyped /\ jobs' \in [Age -> Job] /\ mode' \in {"mock", "real"}
      /\ RefreshFollowsReal' /\ FlagStillRight' /\ NoMinerSkipped'
  BY <1>1, <1>3, <1>4, <1>5, NewJobEffect
<1>7. TypeOK'
  BY <1>1, <1>3, <1>6 DEF IInv, TypeOK, Polls, PushTyped
<1> QED
  BY <1>6, <1>7 DEF IInv

LEMMA GbtFailsInv ==
  ASSUME IInv, RefreshFails \/ GbtFails
  PROVE  IInv'
<1>1. pc = "gbt" /\ UNCHANGED <<ready, poll, tip, ibd, subs, slow>>
  BY DEF RefreshFails, GbtFails, node, conn
<1>2. poll \in Polls /\ poll' \in Polls /\ poll.tip \in Tip \cup {NoTip}
  BY <1>1 DEF IInv, TypeOK, Polls
<1>3. refreshDue' \in BOOLEAN
  BY DEF RefreshFails, GbtFails, IInv, TypeOK
<1>4. CASE GbtFails /\ mode' = "mock" /\ NewJob(MockJob, "fallback", lastTip)
  <2>1. lastTip \in Tip \cup {NoTip}
    BY DEF IInv, TypeOK
  <2>2. /\ PushTyped /\ jobs' \in [Age -> Job] /\ mode' \in {"mock", "real"}
        /\ RefreshFollowsReal' /\ FlagStillRight' /\ NoMinerSkipped'
    BY <1>1, <1>2, <1>4, <2>1, NewJobEffect, JobTypes
  <2>3. TypeOK'
    BY <1>1, <1>2, <1>3, <2>2 DEF IInv, TypeOK, Polls, PushTyped
  <2> QED
    BY <2>2, <2>3 DEF IInv
<1>5. CASE /\ pc' = "wait" /\ lastTip' \in Tip \cup {NoTip}
           /\ UNCHANGED <<mode, jobs, gapOver, push, have>>
  <2>1. TypeOK'
    BY <1>1, <1>2, <1>3, <1>5 DEF IInv, TypeOK, Polls
  <2>2. RefreshFollowsReal'
    BY <1>5 DEF IInv, RefreshFollowsReal
  <2>3. FlagStillRight'
    BY <1>5 DEF FlagStillRight
  <2>4. NoMinerSkipped'
    BY <1>1, <1>5 DEF IInv, NoMinerSkipped
  <2> QED
    BY <2>1, <2>2, <2>3, <2>4 DEF IInv
<1>6. CASE RefreshFails
  <2>1. lastTip \in Tip \cup {NoTip}
    BY DEF IInv, TypeOK
  <2> QED
    BY <1>5, <1>6, <2>1 DEF RefreshFails, conn
<1>7. CASE GbtFails
  <2>1. \/ mode' = "mock" /\ NewJob(MockJob, "fallback", lastTip)
        \/ /\ pc' = "wait" /\ lastTip' = poll.tip
           /\ UNCHANGED <<mode, jobs, gapOver, push, have>>
    BY <1>7 DEF GbtFails
  <2> QED
    BY <1>2, <1>4, <1>5, <1>7, <2>1
<1> QED
  BY <1>6, <1>7

LEMMA DrainedInv ==
  ASSUME IInv, Drained
  PROVE  IInv'
<1> USE HistoryAssumption
<1> DEFINE held == [c \in Miner |-> IF c = push.at /\ c \in subs THEN 0 ELSE have[c]]
           left == push.left \cap subs
<1>1. /\ pc = "drain"
      /\ UNCHANGED <<ready, mode, jobs, refreshDue, poll, tip, ibd, subs, slow>>
      /\ Push(left, held, push.why, lastTip)
  BY DEF Drained, node
<1>2. poll' \in Polls
  BY <1>1 DEF IInv, TypeOK, Polls
<1>3. left \in SUBSET Miner /\ held \in [Miner -> 0..JobHistory]
  BY DEF IInv, TypeOK
<1>4. /\ push.why \in {"ibd", "template", "fallback"}
      /\ lastTip \in Tip \cup {NoTip} /\ gapOver \in BOOLEAN
  BY DEF IInv, TypeOK
<1>5. PushTyped /\ Serves(left, held)
  <2> HIDE DEF held, left
  <2> QED
    BY <1>1, <1>2, <1>3, <1>4, PushEffect
<1>6. TypeOK'
  BY <1>1, <1>2, <1>5 DEF IInv, TypeOK, Polls, PushTyped
<1>7. RefreshFollowsReal'
  BY <1>1 DEF IInv, RefreshFollowsReal
<1>8. FlagStillRight'
  BY <1>5 DEF PushTyped, FlagStillRight
<1>9. NoMinerSkipped'
  <2> SUFFICES ASSUME NEW c \in subs
               PROVE  \/ have'[c] = 0
                      \/ have'[c] = 1 /\ pc' = "drain" /\ c \in push'.left \cup {push'.at}
    BY <1>1 DEF NoMinerSkipped
  <2>1. c \in Miner
    BY DEF IInv, TypeOK
  <2>2. have[c] = 0 \/ (have[c] = 1 /\ c \in push.left \cup {push.at})
    BY <1>1 DEF IInv, NoMinerSkipped
  <2>3. held[c] = 0 \/ (held[c] = 1 /\ c \in left)
    BY <2>1, <2>2
  <2> QED
    BY <1>5, <2>1, <2>3 DEF Serves
<1> QED
  BY <1>6, <1>7, <1>8, <1>9 DEF IInv

-----------------------------------------------------------------------------
(* The theorems. *)

LEMMA StepInv == IInv /\ [Next]_vars => IInv'
<1> SUFFICES ASSUME IInv, [Next]_vars
             PROVE  IInv'
  OBVIOUS
<1>1. CASE Poll \/ InfoFails \/ InfoWithoutTip \/ Tracked
  BY <1>1, LoopMovesInv
<1>2. CASE InfoAnswered
  BY <1>2, InfoAnsweredInv
<1>3. CASE GbtAnswered
  BY <1>3, GbtAnsweredInv
<1>4. CASE RefreshFails \/ GbtFails
  BY <1>4, GbtFailsInv
<1>5. CASE Drained
  BY <1>5, DrainedInv
<1>6. CASE RefreshDue \/ GapOver \/ TipMoves \/ IbdFlips
  BY <1>6, ClockInv
<1>7. CASE \E c \in Miner : Join(c) \/ Leave(c) \/ StopsReading(c) \/ Reads(c)
  BY <1>7, ConnectionInv
<1>8. CASE UNCHANGED vars
  BY <1>8 DEF vars, node, jm, loop, conn, IInv, TypeOK, RefreshFollowsReal,
              FlagStillRight, NoMinerSkipped
<1> QED
  BY <1>1, <1>2, <1>3, <1>4, <1>5, <1>6, <1>7, <1>8 DEF Next, Loop

\* The conjunction below holds in every reachable state of the poll loop.
THEOREM Inductive == Spec => []IInv
<1> QED
  BY InitInv, StepInv, PTL DEF Spec

\* The state of job_manager.py and of its connections has its type.
THEOREM TypeCorrect == Spec => []TypeOK
<1>1. IInv => TypeOK
  BY DEF IInv
<1> QED
  BY <1>1, Inductive, PTL

\* A job sent with clean_jobs=False replaces a real job by a real job, for any
\* history length: the flag is settled before the await of getblocktemplate and
\* still right after it (_poll).
THEOREM RefreshesFollowReal == Spec => []RefreshFollowsReal
<1>1. IInv => RefreshFollowsReal
  BY DEF IInv
<1> QED
  BY <1>1, Inductive, PTL

\* However many peers stall, leave or join during a push, every subscriber
\* holds the current job or is owed it by the push under way (_broadcast).
THEOREM NobodySkipped == Spec => []NoMinerSkipped
<1>1. IInv => NoMinerSkipped
  BY DEF IInv
<1> QED
  BY <1>1, Inductive, PTL
=============================================================================
