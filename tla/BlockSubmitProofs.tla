------------------------- MODULE BlockSubmitProofs -------------------------
(***************************************************************************)
(* Theorems about BlockSubmit, for every set of blocks and every number of *)
(* retries: type correctness, the safety invariants of the submission, and *)
(* that stats.json keeps the promises of BlockLedger.                      *)
(***************************************************************************)
EXTENDS BlockSubmit, TLAPS

-----------------------------------------------------------------------------
(* The inductive invariant.  The statuses are justified by the replies the  *)
(* coroutines hold, the replies by the chain; what the tracker is about to  *)
(* overwrite is what it read; and memory is ahead of stats.json, never      *)
(* behind or beside it.                                                     *)

\* What each held reply says of the chain.
RepliesTrue ==
  /\ \A b \in Block :
       /\ task[b].ans \in {"ok", "known", "onchain", "buried"} => chain[b] \in Valid
       /\ task[b].ans = "rejected" => chain[b] = "invalid"
  /\ track.at = "ask" =>
       /\ track.ans \in {"onchain", "buried"} => chain[blocks[track.i]] \in Valid
       /\ track.ans = "buried" => chain[blocks[track.i]] = "deep"

\* A status and a mature flag, in memory or on disk, that the chain bears out.
Backed(s, m, c) ==
  /\ s = "rejected" => c = "invalid"
  /\ s \in {"accepted", "orphaned"} => c \in Valid
  /\ m => s = "accepted" /\ c = "deep"

RecordTrue ==
  \A b \in Block : /\ Backed(status[b], mature[b], chain[b])
                   /\ Backed(saved.status[b], saved.mature[b], chain[b])

\* Who may write which entry.
OneWriter ==
  /\ \A b \in Block : task[b].at = "idle" => task[b].ans = "none"
  /\ NoSilentSubmitting
  /\ TrackerReadFresh
  /\ track.at = "ask" => Trackable(track.seen, mature[blocks[track.i]])

\* stats.json is a past of the record in memory.
MemoryAhead ==
  \A b \in Block :
    /\ Ledger!May(saved.status[b], status[b])
    /\ saved.mature[b] => mature[b]
    /\ copy[b] = "none" => status[b] = "none"

\* A block on the list, in memory or on disk, has been kept.
ListedKept ==
  /\ \A j \in 1..Len(blocks) : copy[blocks[j]] # "none"
  /\ \A j \in 1..Len(saved.blocks) : copy[saved.blocks[j]] # "none"

\* Nothing is under way in a process that is down.
DownIsIdle ==
  ~up => /\ track.at = "idle"
         /\ \A b \in Block : task[b].at = "idle"
         /\ blocks = saved.blocks /\ status = saved.status /\ mature = saved.mature

IInv == TypeOK /\ RepliesTrue /\ RecordTrue /\ OneWriter /\ MemoryAhead
        /\ ListedKept /\ DownIsIdle

-----------------------------------------------------------------------------
(* Type correctness. *)

LEMMA SaveType ==
  ASSUME TypeOK, Save, blocks' \in Seq(Block), status' \in [Block -> Status],
         mature' \in [Block -> BOOLEAN]
  PROVE  /\ saved' \in Snapshot
         /\ dirty' \in BOOLEAN
<1>1. CASE diskOK
  <2>1. saved' = [blocks |-> blocks', status |-> status', mature |-> mature']
        /\ dirty' = FALSE
    BY <1>1 DEF Save
  <2>2. saved' \in Snapshot
    BY <2>1 DEF Snapshot
  <2> QED
    BY <2>1, <2>2
<1>2. CASE ~diskOK
  <2>1. saved' = saved /\ dirty' = TRUE
    BY <1>2 DEF Save
  <2>2. saved \in Snapshot
    BY DEF TypeOK
  <2> QED
    BY <2>1, <2>2
<1> QED BY <1>1, <1>2

LEMMA DownType ==
  ASSUME TypeOK, Down, copy' \in [Block -> {"none", "file", "log"}],
         saved' \in Snapshot
  PROVE  TypeOK'
<1> USE DEF TypeOK, Down
<1>1. up' \in BOOLEAN /\ dirty' \in BOOLEAN /\ diskOK' \in BOOLEAN
  OBVIOUS
<1>2. blocks' \in Seq(Block) /\ status' \in [Block -> Status]
      /\ mature' \in [Block -> BOOLEAN]
  BY DEF Snapshot
<1>3. task' \in [Block -> Task]
  BY RetriesAssumption DEF NoTask, Task, Await, Reply
<1>4. track' \in Track /\ track'.at = "idle"
  BY DEF NoTrack, Track, Status, Reply
<1>5. chain' \in [Block -> Chain] /\ abandoned' \in SUBSET Block
  OBVIOUS
<1> QED BY <1>1, <1>2, <1>3, <1>4, <1>5

LEMMA TrackFromType ==
  ASSUME TypeOK, NEW i \in Nat \ {0}, NEW changed \in BOOLEAN,
         TrackFrom(i, changed), blocks' = blocks, status' \in [Block -> Status],
         mature' \in [Block -> BOOLEAN]
  PROVE  /\ track' \in Track
         /\ track'.at = "ask" => track'.i \in 1..Len(blocks)
         /\ saved' \in Snapshot
         /\ dirty' \in BOOLEAN
<1>1. CASE \E j \in i..Len(blocks) :
             /\ track' = [at |-> "ask", i |-> j, seen |-> status'[blocks[j]],
                          ans |-> "none", changed |-> changed]
             /\ UNCHANGED disk
  <2>1. PICK j \in i..Len(blocks) :
             /\ track' = [at |-> "ask", i |-> j, seen |-> status'[blocks[j]],
                          ans |-> "none", changed |-> changed]
             /\ UNCHANGED disk
    BY <1>1
  <2>2. j \in 1..Len(blocks) /\ j \in Nat \ {0} /\ blocks[j] \in Block
    BY DEF TypeOK
  <2>3. track' \in Track
    BY <2>1, <2>2 DEF Track, Reply
  <2> QED
    BY <2>1, <2>2, <2>3 DEF TypeOK, disk
<1>2. CASE /\ track' = NoTrack
           /\ IF changed THEN UpdateBlock ELSE UNCHANGED disk
  <2>1. track' \in Track /\ track'.at # "ask"
    BY <1>2 DEF Track, NoTrack, Status, Reply
  <2>2. CASE changed
    BY <1>2, <2>1, <2>2, SaveType DEF UpdateBlock, TypeOK
  <2>3. CASE ~changed
    BY <1>2, <2>1, <2>3 DEF disk, TypeOK
  <2> QED BY <2>2, <2>3
<1> QED BY <1>1, <1>2 DEF TrackFrom

LEMMA TypeInit == Init => TypeOK
<1> SUFFICES ASSUME Init PROVE TypeOK
  OBVIOUS
<1>1. blocks \in Seq(Block) /\ status \in [Block -> Status] /\ mature \in [Block -> BOOLEAN]
  BY DEF Init, Status
<1>2. saved \in Snapshot
  BY DEF Init, Empty, Snapshot, Status
<1>3. task \in [Block -> Task]
  BY RetriesAssumption DEF Init, NoTask, Task, Await, Reply
<1>4. track \in Track /\ track.at = "idle"
  BY DEF Init, NoTrack, Track, Status, Reply
<1>5. copy \in [Block -> {"none", "file", "log"}] /\ chain \in [Block -> Chain]
  BY DEF Init, Chain
<1> QED
  BY <1>1, <1>2, <1>3, <1>4, <1>5 DEF Init, TypeOK

LEMMA RecordType ==
  ASSUME TypeOK, NEW b \in Block, NEW s \in Status, Record(b, s)
  PROVE  /\ blocks' = Append(blocks, b) /\ blocks' \in Seq(Block)
         /\ Len(blocks') = Len(blocks) + 1
         /\ status' \in [Block -> Status] /\ mature' = mature
         /\ saved' \in Snapshot /\ dirty' \in BOOLEAN
<1>1. blocks' = Append(blocks, b) /\ blocks' \in Seq(Block) /\ Len(blocks') = Len(blocks) + 1
  BY DEF TypeOK, Record
<1>2. status' \in [Block -> Status] /\ mature' = mature /\ mature' \in [Block -> BOOLEAN]
  BY DEF TypeOK, Record
<1> QED
  BY <1>1, <1>2, SaveType DEF Record

LEMMA VerdictType ==
  ASSUME NEW w \in Await, NEW r \in Reply, Verdict(w, r) # "open"
  PROVE  Verdict(w, r) \in {"accepted", "rejected", "inconclusive", "failed"}
BY DEF Verdict

LEMMA TypeNext == TypeOK /\ [Next]_vars => TypeOK'
<1> SUFFICES ASSUME TypeOK, [Next]_vars PROVE TypeOK'
  OBVIOUS
<1>1. ASSUME NEW b \in Block, Find(b) PROVE TypeOK'
  <2>1. task' \in [Block -> Task]
    BY <1>1 DEF TypeOK, Find, Task, Await
  <2>2. copy' \in [Block -> {"none", "file", "log"}]
    BY <1>1 DEF TypeOK, Find, KeepCopy
  <2> QED
    BY <1>1, <2>1, <2>2, RecordType DEF TypeOK, Find, Status, node
<1>2. ASSUME NEW b \in Block, FindUnassembled(b) PROVE TypeOK'
  <2>1. copy' \in [Block -> {"none", "file", "log"}]
    BY <1>2 DEF TypeOK, FindUnassembled
  <2> QED
    BY <1>2, <2>1, RecordType DEF TypeOK, FindUnassembled, Status, node
<1>3. ASSUME NEW b \in Block, CrashInFind(b) PROVE TypeOK'
  <2>1. copy' \in [Block -> {"none", "file", "log"}]
    BY <1>3 DEF TypeOK, CrashInFind, KeepCopy
  <2>2. saved' \in Snapshot
    BY <1>3 DEF TypeOK, CrashInFind
  <2> QED
    BY <1>3, <2>1, <2>2, DownType DEF CrashInFind
<1>4. ASSUME NEW b \in Block, NodeAnswers(b) PROVE TypeOK'
  BY <1>4 DEF TypeOK, NodeAnswers, Task, record, disk
<1>5. ASSUME NEW b \in Block, RpcFails(b) PROVE TypeOK'
  BY <1>5 DEF TypeOK, RpcFails, Task, Reply, record, disk
<1>6. ASSUME NEW b \in Block, Finish(b) PROVE TypeOK'
  <2>1. task[b].at \in Await /\ task[b].ans \in Reply
    BY DEF TypeOK, Task
  <2>2. status' \in [Block -> Status]
    BY <1>6, <2>1, VerdictType DEF TypeOK, Finish, Status
  <2>3. task' \in [Block -> Task]
    BY <1>6, RetriesAssumption DEF TypeOK, Finish, NoTask, Task, Await, Reply
  <2>4. saved' \in Snapshot /\ dirty' \in BOOLEAN
    BY <1>6, <2>2, SaveType DEF TypeOK, Finish, UpdateBlock
  <2> QED
    BY <1>6, <2>2, <2>3, <2>4 DEF TypeOK, Finish, node
<1>7. ASSUME NEW b \in Block, AskChain(b) \/ Retry(b) \/ Wake(b) \/ Resubmit(b)
      PROVE  TypeOK'
  <2>1. task[b].try \in 0..MaxRetries
    BY DEF TypeOK, Task
  <2>2. \E w \in Await, n \in 0..MaxRetries : Goto(b, w, n)
    BY <1>7, <2>1, RetriesAssumption DEF AskChain, Retry, Wake, Resubmit, DelaysLeft, Await
  <2>3. task' \in [Block -> Task]
    BY <2>2 DEF TypeOK, Goto, Task, Reply
  <2>4. UNCHANGED <<up, record, disk, diskOK, copy, track, node>>
    BY <1>7 DEF AskChain, Retry, Wake, Resubmit
  <2> QED
    BY <2>3, <2>4 DEF TypeOK, record, disk, node
<1>8. ASSUME NEW b \in Block, TrackAnswer(b) PROVE TypeOK'
  BY <1>8 DEF TypeOK, TrackAnswer, Track, record, disk, node
<1>9. ASSUME NEW b \in Block, AbandonedLands(b) PROVE TypeOK'
  BY <1>9 DEF TypeOK, AbandonedLands, record, disk
<1>10. ASSUME NEW b \in Block, ChainMoves(b) PROVE TypeOK'
  BY <1>10 DEF TypeOK, ChainMoves, record, disk
<1>11. CASE TrackStart
  <2>1. blocks' = blocks /\ status' \in [Block -> Status] /\ mature' \in [Block -> BOOLEAN]
    BY <1>11 DEF TypeOK, TrackStart, record
  <2>2. TrackFrom(1, FALSE)
    BY <1>11 DEF TrackStart
  <2>3. 1 \in Nat \ {0}
    OBVIOUS
  <2>4. /\ track' \in Track
        /\ track'.at = "ask" => track'.i \in 1..Len(blocks)
        /\ saved' \in Snapshot
        /\ dirty' \in BOOLEAN
    BY <2>1, <2>2, <2>3, TrackFromType, Zenon
  <2> QED
    BY <1>11, <2>1, <2>4 DEF TypeOK, TrackStart, node
<1>12. CASE TrackFails
  BY <1>12 DEF TypeOK, TrackFails, NoTrack, Track, Status, Reply, record, disk, node
<1>13. CASE TrackResume
  <2>1. /\ track.i + 1 \in Nat \ {0} /\ track.seen \in Status
        /\ (track.changed \/ track.ans # "unknown") \in BOOLEAN
        /\ blocks[track.i] \in Block
    BY <1>13 DEF TypeOK, TrackResume, Track
  <2>2. Tracked(track.seen, track.ans) \in Status
    BY <2>1 DEF Tracked, Status
  <2>3. status' \in [Block -> Status] /\ mature' \in [Block -> BOOLEAN]
    BY <1>13, <2>1, <2>2 DEF TypeOK, TrackResume
  <2>4. /\ track' \in Track
        /\ track'.at = "ask" => track'.i \in 1..Len(blocks)
        /\ saved' \in Snapshot
        /\ dirty' \in BOOLEAN
    BY <1>13, <2>1, <2>3, TrackFromType DEF TrackResume
  <2> QED
    BY <1>13, <2>3, <2>4 DEF TypeOK, TrackResume, node
<1>14. CASE ShareCounted
  BY <1>14, SaveType DEF TypeOK, ShareCounted, record, node
<1>15. CASE Crash
  <2>1. copy' \in [Block -> {"none", "file", "log"}] /\ saved' \in Snapshot
    BY <1>15 DEF TypeOK, Crash
  <2> QED
    BY <1>15, <2>1, DownType DEF Crash
<1>16. CASE Shutdown
  <2>1. saved' \in Snapshot
    BY <1>16 DEF TypeOK, Shutdown, Snapshot
  <2>2. copy' \in [Block -> {"none", "file", "log"}]
    BY <1>16 DEF TypeOK, Shutdown
  <2> QED
    BY <1>16, <2>1, <2>2, DownType DEF Shutdown
<1>17. CASE Restart
  <2>1. status' \in [Block -> Status]
    BY <1>17 DEF TypeOK, Restart, Relabel, Status, Snapshot
  <2>2. saved' \in Snapshot /\ dirty' \in BOOLEAN
    BY <1>17, <2>1, SaveType DEF TypeOK, Restart, UpdateBlock, disk
  <2> QED
    BY <1>17, <2>1, <2>2 DEF TypeOK, Restart, node
<1>18. CASE DiskFlips
  BY <1>18 DEF TypeOK, DiskFlips, record, disk, node
<1>19. CASE UNCHANGED vars
  BY <1>19 DEF TypeOK, vars, record, disk, node
<1> QED
  BY <1>1, <1>2, <1>3, <1>4, <1>5, <1>6, <1>7, <1>8, <1>9, <1>10, <1>11, <1>12,
     <1>13, <1>14, <1>15, <1>16, <1>17, <1>18, <1>19 DEF Next, Resume

\* Every variable keeps its type in every execution, for any number of retries.
THEOREM TypeCorrect == Spec => []TypeOK
<1>1. Init => TypeOK
  BY TypeInit
<1>2. TypeOK /\ [Next]_vars => TypeOK'
  BY TypeNext
<1> QED BY <1>1, <1>2, PTL DEF Spec

-----------------------------------------------------------------------------
(* What a step does to stats.json, to the chain and to the tracker.         *)

SavedAsMemory ==
  \/ saved' = saved
  \/ saved'.blocks = blocks' /\ saved'.status = status' /\ saved'.mature = mature'

ChainStable ==
  \A b \in Block : /\ chain[b] \in Valid => chain'[b] \in Valid
                   /\ chain[b] = "deep" => chain'[b] = "deep"
                   /\ chain[b] = "invalid" => chain'[b] = "invalid"

\* The steps that neither touch the record nor write it.
Aside ==
  \/ \E b \in Block : \/ NodeAnswers(b) \/ RpcFails(b) \/ AskChain(b) \/ Retry(b)
                      \/ Wake(b) \/ Resubmit(b) \/ TrackAnswer(b)
                      \/ AbandonedLands(b) \/ ChainMoves(b)
  \/ TrackFails \/ DiskFlips \/ UNCHANGED vars

LEMMA SaveEffect == Save => SavedAsMemory
BY DEF Save, SavedAsMemory

LEMMA TrackFromEffect ==
  ASSUME NEW i, NEW changed, TrackFrom(i, changed)
  PROVE  /\ SavedAsMemory
         /\ \/ track' = NoTrack
            \/ \E j \in i..Len(blocks) :
                 /\ track' = [at |-> "ask", i |-> j, seen |-> status'[blocks[j]],
                              ans |-> "none", changed |-> changed]
                 /\ Trackable(status'[blocks[j]], mature'[blocks[j]])
BY SaveEffect DEF TrackFrom, UpdateBlock, SavedAsMemory, disk

LEMMA TrackStartEffect ==
  ASSUME TrackStart
  PROVE  /\ SavedAsMemory /\ UNCHANGED <<up, record, copy, task, node>>
         /\ \/ track' = NoTrack
            \/ \E j \in 1..Len(blocks) :
                 /\ track' = [at |-> "ask", i |-> j, seen |-> status'[blocks[j]],
                              ans |-> "none", changed |-> FALSE]
                 /\ Trackable(status'[blocks[j]], mature'[blocks[j]])
<1>1. TrackFrom(1, FALSE)
  BY DEF TrackStart
<1>2. UNCHANGED <<up, record, copy, task, node>>
  BY DEF TrackStart
<1> QED
  BY <1>1, <1>2, TrackFromEffect, Zenon

LEMMA AsideEffect ==
  ASSUME Aside
  PROVE  UNCHANGED <<up, record, disk, copy>>
BY DEF Aside, NodeAnswers, RpcFails, AskChain, Retry, Wake, Resubmit, TrackAnswer,
       AbandonedLands, ChainMoves, TrackFails, DiskFlips, vars, record, disk

LEMMA StepCases ==
  ASSUME [Next]_vars
  PROVE  \/ Aside
         \/ \E b \in Block : Find(b) \/ FindUnassembled(b) \/ CrashInFind(b) \/ Finish(b)
         \/ TrackStart \/ TrackResume \/ ShareCounted \/ Crash \/ Shutdown \/ Restart
BY DEF Next, Resume, Aside

LEMMA DiskEffect ==
  ASSUME TypeOK, [Next]_vars
  PROVE  SavedAsMemory
<1>1. CASE Aside
  BY <1>1, AsideEffect DEF SavedAsMemory, disk
<1>2. ASSUME NEW b \in Block, Find(b) \/ FindUnassembled(b) \/ CrashInFind(b) \/ Finish(b)
      PROVE  SavedAsMemory
  BY <1>2, SaveEffect
     DEF Find, FindUnassembled, CrashInFind, Finish, Record, UpdateBlock, SavedAsMemory
<1>3. CASE TrackStart
  BY <1>3, TrackStartEffect
<1>4. CASE TrackResume
  BY <1>4, TrackFromEffect DEF TrackResume
<1>5. CASE ShareCounted
  BY <1>5, SaveEffect DEF ShareCounted, SavedAsMemory
<1>6. CASE Crash \/ Shutdown
  BY <1>6 DEF Crash, Shutdown, Down, SavedAsMemory
<1>7. CASE Restart
  BY <1>7, SaveEffect DEF Restart, UpdateBlock, SavedAsMemory, disk
<1> QED
  BY <1>1, <1>2, <1>3, <1>4, <1>5, <1>6, <1>7, StepCases

LEMMA ChainEffect ==
  ASSUME TypeOK, [Next]_vars
  PROVE  ChainStable
<1>1. ASSUME NEW b \in Block, NodeAnswers(b) \/ AbandonedLands(b) \/ ChainMoves(b)
      PROVE  ChainStable
  <2>1. \E d \in Chain : /\ chain' = [chain EXCEPT ![b] = d]
                         /\ chain[b] \in Valid => d \in Valid
                         /\ chain[b] = "deep" => d = "deep"
                         /\ chain[b] = "invalid" => d = "invalid"
    BY <1>1 DEF NodeAnswers, AbandonedLands, ChainMoves, SubmitReply, Valid
  <2> QED
    BY <2>1 DEF TypeOK, ChainStable
<1>2. CASE UNCHANGED chain
  BY <1>2 DEF ChainStable
<1>3. UNCHANGED chain \/ \E b \in Block : NodeAnswers(b) \/ AbandonedLands(b) \/ ChainMoves(b)
  BY StepCases
     DEF Aside, RpcFails, AskChain, Retry, Wake, Resubmit, TrackAnswer, TrackFails,
         DiskFlips, vars, node, Find, FindUnassembled, CrashInFind, Finish, TrackStart,
         TrackResume, ShareCounted, Crash, Shutdown, Restart, Down
<1> QED
  BY <1>1, <1>2, <1>3

-----------------------------------------------------------------------------
(* The inductive invariant, one conjunct at a time. *)

\* A verdict is only reached from a reply that carries it.
LEMMA VerdictReason ==
  ASSUME NEW w, NEW r
  PROVE  /\ Verdict(w, r) = "accepted" => r \in {"ok", "onchain", "buried"}
         /\ Verdict(w, r) = "rejected" => r = "rejected"
         /\ Verdict(w, r) \notin {"orphaned", "submitting", "none", "unassembled"}
BY DEF Verdict

LEMMA TrackedReason ==
  ASSUME NEW s, NEW r
  PROVE  /\ r \in {"onchain", "buried"} => Tracked(s, r) = "accepted"
         /\ r \notin {"onchain", "buried"} /\ s \in {"accepted", "orphaned"}
              => Tracked(s, r) \in {"accepted", "orphaned"}
         /\ r \notin {"onchain", "buried"} /\ s \notin {"accepted", "orphaned"}
              => Tracked(s, r) = s
BY DEF Tracked

LEMMA MemoryTrueNext ==
  ASSUME IInv, [Next]_vars
  PROVE  \A b \in Block : Backed(status'[b], mature'[b], chain'[b])
<1> USE DEF IInv
<1>0. ChainStable
  BY ChainEffect
<1>1. CASE UNCHANGED record
  BY <1>0, <1>1 DEF ChainStable, RecordTrue, Backed, record
<1>2. ASSUME NEW b \in Block, Find(b) \/ FindUnassembled(b)
      PROVE  \A c \in Block : Backed(status'[c], mature'[c], chain'[c])
  <2>1. /\ \E s \in {"submitting", "unassembled"} : status' = [status EXCEPT ![b] = s]
        /\ mature' = mature /\ copy[b] = "none"
    BY <1>2 DEF Find, FindUnassembled, KeepCopy, Record
  <2>2. ~mature[b]
    BY <2>1 DEF MemoryAhead, RecordTrue, Backed
  <2>3. PICK s \in {"submitting", "unassembled"} : status' = [status EXCEPT ![b] = s]
    BY <2>1
  <2>4. Backed(status'[b], mature'[b], chain'[b])
    BY <2>1, <2>2, <2>3 DEF TypeOK, Backed
  <2>5. ASSUME NEW c \in Block, c # b
        PROVE  status'[c] = status[c] /\ mature'[c] = mature[c]
    BY <2>1, <2>3, <2>5 DEF TypeOK
  <2> QED
    BY <1>0, <2>4, <2>5 DEF ChainStable, RecordTrue, Backed
<1>3. ASSUME NEW b \in Block, Finish(b)
      PROVE  \A c \in Block : Backed(status'[c], mature'[c], chain'[c])
  <2>1. /\ status' = [status EXCEPT ![b] = Verdict(task[b].at, task[b].ans)]
        /\ mature' = mature /\ task[b].ans # "none"
    BY <1>3 DEF Finish
  <2>2. up /\ status[b] = "submitting"
    BY <2>1 DEF OneWriter, DownIsIdle, NoSilentSubmitting
  <2>3. ~mature[b]
    BY <2>2 DEF RecordTrue, Backed
  <2>4. Backed(status'[b], FALSE, chain'[b])
    BY <1>0, <2>1, VerdictReason DEF TypeOK, ChainStable, RepliesTrue, Backed
  <2> QED
    BY <1>0, <2>1, <2>3, <2>4 DEF TypeOK, ChainStable, RecordTrue, Backed
<1>4. CASE TrackResume
  <2> DEFINE b == blocks[track.i]
  <2>1. /\ track.at = "ask" /\ b \in Block
        /\ track.seen = status[b]
        /\ status' = IF track.ans = "unknown" THEN status
                     ELSE [status EXCEPT ![b] = Tracked(track.seen, track.ans)]
        /\ mature' = [mature EXCEPT ![b] = @ \/ track.ans = "buried"]
    BY <1>4 DEF TypeOK, TrackResume, OneWriter, TrackerReadFresh
  <2>2. ~mature[b]
    BY <2>1 DEF OneWriter, Trackable
  <2>3. CASE track.ans = "buried"
    <3>1. chain[b] = "deep" /\ status'[b] = "accepted"
      BY <2>1, <2>3, TrackedReason DEF TypeOK, RepliesTrue
    <3> QED
      BY <1>0, <2>1, <2>3, <3>1 DEF TypeOK, ChainStable, RecordTrue, Backed, Valid
  <2>4. CASE track.ans = "onchain"
    <3>1. chain[b] \in Valid /\ status'[b] = "accepted"
      BY <2>1, <2>4, TrackedReason DEF TypeOK, RepliesTrue
    <3> QED
      BY <1>0, <2>1, <2>2, <2>4, <3>1 DEF TypeOK, ChainStable, RecordTrue, Backed
  <2>5. CASE track.ans \notin {"onchain", "buried"}
    <3>1. /\ status'[b] = "rejected" => status[b] = "rejected"
          /\ status'[b] \in {"accepted", "orphaned"} => status[b] \in {"accepted", "orphaned"}
      BY <2>1, <2>5, TrackedReason DEF TypeOK
    <3>2. ~mature'[b]
      BY <2>1, <2>2, <2>5 DEF TypeOK
    <3>3. Backed(status'[b], mature'[b], chain'[b])
      BY <1>0, <2>1, <3>1, <3>2 DEF ChainStable, RecordTrue, Backed
    <3>4. ASSUME NEW c \in Block, c # b
          PROVE  status'[c] = status[c] /\ mature'[c] = mature[c]
      BY <2>1, <3>4 DEF TypeOK
    <3> QED
      BY <1>0, <3>3, <3>4 DEF ChainStable, RecordTrue, Backed
  <2> QED
    BY <2>3, <2>4, <2>5
<1>5. CASE Down /\ (saved' = saved \/ Shutdown)
  <2>1. \/ status' = saved.status /\ mature' = saved.mature
        \/ status' = status /\ mature' = mature
    <3>1. CASE saved' = saved
      BY <1>5, <3>1 DEF Down
    <3>2. CASE saved' = [blocks |-> blocks, status |-> status, mature |-> mature]
      BY <1>5, <3>2 DEF Down
    <3> QED
      BY <1>5, <3>1, <3>2 DEF Shutdown
  <2> QED
    BY <1>0, <2>1 DEF ChainStable, RecordTrue, Backed
<1>6. CASE Restart
  <2>1. /\ \A c \in Block : status'[c] = Relabel(status[c])
        /\ mature' = mature
    BY <1>6 DEF Restart, DownIsIdle
  <2> QED
    BY <1>0, <2>1 DEF ChainStable, RecordTrue, Backed, Relabel
<1> QED
  BY <1>1, <1>2, <1>3, <1>4, <1>5, <1>6, StepCases, AsideEffect
     DEF TrackStart, ShareCounted, Crash, Shutdown, CrashInFind

LEMMA RecordTrueNext ==
  ASSUME IInv, [Next]_vars
  PROVE  RecordTrue'
<1>1. SavedAsMemory /\ ChainStable
  BY DiskEffect, ChainEffect DEF IInv
<1>2. CASE saved' = saved
  BY <1>1, <1>2, MemoryTrueNext DEF IInv, RecordTrue, ChainStable, Backed
<1>3. CASE saved'.status = status' /\ saved'.mature = mature'
  BY <1>3, MemoryTrueNext DEF RecordTrue
<1> QED
  BY <1>1, <1>2, <1>3 DEF SavedAsMemory

LEMMA RepliesTrueNext ==
  ASSUME IInv, [Next]_vars
  PROVE  RepliesTrue'
<1> USE DEF IInv
<1>0. ChainStable
  BY ChainEffect
<1> DEFINE True(c) ==
             /\ task'[c].ans \in {"ok", "known", "onchain", "buried"} => chain'[c] \in Valid
             /\ task'[c].ans = "rejected" => chain'[c] = "invalid"
<1>1. \A c \in Block : True(c)
  <2>1. ASSUME NEW b \in Block, NodeAnswers(b)
        PROVE  /\ True(b)
               /\ \A c \in Block \ {b} : task'[c] = task[c]
    BY <2>1 DEF TypeOK, NodeAnswers, SubmitReply, HeaderReply, Valid, Task
  <2>2. ASSUME NEW b \in Block,
               Find(b) \/ RpcFails(b) \/ Finish(b) \/ AskChain(b) \/ Retry(b) \/ Wake(b) \/ Resubmit(b)
        PROVE  /\ task'[b].ans \in {"none", "error"} \/ task'[b].ans = task[b].ans
               /\ \A c \in Block \ {b} : task'[c] = task[c]
    BY <2>2 DEF TypeOK, Task, Find, RpcFails, Finish, NoTask, AskChain, Retry, Wake, Resubmit, Goto
  <2>3. \/ UNCHANGED task
        \/ task' = [c \in Block |-> NoTask]
        \/ \E b \in Block : \/ NodeAnswers(b) \/ Find(b) \/ RpcFails(b) \/ Finish(b)
                            \/ AskChain(b) \/ Retry(b) \/ Wake(b) \/ Resubmit(b)
    BY StepCases
       DEF Aside, TrackAnswer, AbandonedLands, ChainMoves, TrackFails, DiskFlips, vars,
           FindUnassembled, CrashInFind, TrackStart, TrackResume, ShareCounted, Crash,
           Shutdown, Restart, Down
  <2>4. CASE UNCHANGED task
    BY <1>0, <2>4 DEF ChainStable, RepliesTrue
  <2>5. CASE task' = [c \in Block |-> NoTask]
    BY <2>5 DEF NoTask
  <2>6. ASSUME NEW b \in Block, NodeAnswers(b)
        PROVE  \A c \in Block : True(c)
    BY <1>0, <2>1, <2>6 DEF ChainStable, RepliesTrue
  <2>7. ASSUME NEW b \in Block,
               Find(b) \/ RpcFails(b) \/ Finish(b) \/ AskChain(b) \/ Retry(b) \/ Wake(b) \/ Resubmit(b)
        PROVE  \A c \in Block : True(c)
    BY <1>0, <2>2, <2>7 DEF ChainStable, RepliesTrue
  <2> QED
    BY <2>3, <2>4, <2>5, <2>6, <2>7
<1>2. track'.at = "ask" =>
        /\ track'.ans \in {"onchain", "buried"} => chain'[blocks'[track'.i]] \in Valid
        /\ track'.ans = "buried" => chain'[blocks'[track'.i]] = "deep"
  <2>1. \/ track' = NoTrack
        \/ track'.ans = "none"
        \/ track' = track /\ \A i \in 1..Len(blocks) : blocks'[i] = blocks[i]
        \/ track.at = "ask" /\ UNCHANGED <<blocks, chain>>
           /\ \E r \in Reply : HeaderReply(chain[blocks[track.i]], r)
                            /\ track' = [track EXCEPT !.ans = r]
    <3>1. CASE Aside
      BY <3>1 DEF Aside, NodeAnswers, RpcFails, AskChain, Retry, Wake, Resubmit, TrackAnswer,
             AbandonedLands, ChainMoves, TrackFails, DiskFlips, vars, record, node
    <3>2. ASSUME NEW b \in Block, Find(b) \/ FindUnassembled(b)
          PROVE  track' = track /\ \A i \in 1..Len(blocks) : blocks'[i] = blocks[i]
      BY <3>2 DEF TypeOK, Find, FindUnassembled, Record
    <3>6. ASSUME NEW b \in Block, CrashInFind(b) \/ Finish(b)
          PROVE  track' = NoTrack \/ UNCHANGED <<track, blocks>>
      BY <3>6 DEF CrashInFind, Finish, Down
    <3>3. CASE TrackStart
      BY <3>3, TrackStartEffect
    <3>4. CASE TrackResume
      BY <3>4, TrackFromEffect DEF TrackResume
    <3>5. CASE ShareCounted \/ Crash \/ Shutdown \/ Restart
      BY <3>5 DEF ShareCounted, Crash, Shutdown, Restart, Down, record
    <3> QED
      BY <3>1, <3>2, <3>3, <3>4, <3>5, <3>6, StepCases
  <2>2. CASE track' = NoTrack
    BY <2>2 DEF NoTrack
  <2>3. CASE track'.ans = "none"
    BY <2>3
  <2>4. CASE track' = track /\ \A i \in 1..Len(blocks) : blocks'[i] = blocks[i]
    BY <1>0, <2>4 DEF TypeOK, ChainStable, RepliesTrue
  <2>5. CASE track.at = "ask" /\ UNCHANGED <<blocks, chain>>
             /\ \E r \in Reply : HeaderReply(chain[blocks[track.i]], r)
                              /\ track' = [track EXCEPT !.ans = r]
    BY <2>5 DEF TypeOK, Track, HeaderReply, Valid
  <2> QED
    BY <2>1, <2>2, <2>3, <2>4, <2>5
<1> QED
  BY <1>1, <1>2 DEF RepliesTrue

\* A finding coroutine and its block are untouched so far.
LEMMA FindFresh ==
  ASSUME IInv, NEW b \in Block, up, copy[b] = "none"
  PROVE  /\ status[b] = "none" /\ saved.status[b] = "none"
         /\ ~mature[b] /\ ~saved.mature[b]
         /\ task[b].at = "idle"
         /\ \A j \in 1..Len(blocks) : blocks[j] # b
<1>1. status[b] = "none"
  BY DEF IInv, MemoryAhead
<1>2. saved.status[b] = "none"
  BY <1>1 DEF IInv, MemoryAhead, Ledger!May, Ledger!OnChain
<1>3. ~mature[b] /\ ~saved.mature[b]
  BY <1>1, <1>2 DEF IInv, RecordTrue, Backed
<1>4. task[b].at = "idle"
  BY <1>1 DEF IInv, OneWriter, NoSilentSubmitting
<1> QED
  BY <1>1, <1>2, <1>3, <1>4 DEF IInv, ListedKept

LEMMA ResumeEffect ==
  ASSUME IInv, TrackResume
  PROVE  LET b == blocks[track.i] IN
         /\ b \in Block /\ Trackable(status[b], mature[b]) /\ track.seen = status[b]
         /\ \/ status' = status
            \/ status' = [status EXCEPT ![b] = Tracked(status[b], track.ans)]
         /\ mature' = [mature EXCEPT ![b] = @ \/ track.ans = "buried"]
<1> DEFINE b == blocks[track.i]
<1>1. track.at = "ask" /\ b \in Block
  BY DEF IInv, TypeOK, TrackResume
<1>2. track.seen = status[b] /\ Trackable(status[b], mature[b])
  BY <1>1 DEF IInv, OneWriter, TrackerReadFresh
<1> QED
  BY <1>1, <1>2 DEF TrackResume

LEMMA CoroutineNext ==
  ASSUME IInv, [Next]_vars
  PROVE  /\ \A b \in Block : task'[b].at = "idle" => task'[b].ans = "none"
         /\ NoSilentSubmitting'
<1> USE DEF IInv
<1> DEFINE Good(c) == /\ task'[c].at = "idle" => task'[c].ans = "none"
                      /\ up' => (status'[c] = "submitting" <=> task'[c].at # "idle")
<1> SUFFICES \A c \in Block : Good(c)
  BY DEF NoSilentSubmitting
<1>1. CASE UNCHANGED <<task, status, up>>
  BY <1>1 DEF OneWriter, NoSilentSubmitting
<1>2. ASSUME NEW b \in Block, Find(b)
      PROVE  \A c \in Block : Good(c)
  <2>1. /\ task' = [task EXCEPT ![b].at = "submit"] /\ up' = up
        /\ status' = [status EXCEPT ![b] = "submitting"]
    BY <1>2 DEF Find, Record
  <2> QED
    BY <2>1 DEF TypeOK, Task, OneWriter, NoSilentSubmitting
<1>3. ASSUME NEW b \in Block, FindUnassembled(b)
      PROVE  \A c \in Block : Good(c)
  <2>1. /\ task' = task /\ up' = up /\ task[b].at = "idle"
        /\ status' = [status EXCEPT ![b] = "unassembled"]
    BY <1>3, FindFresh DEF FindUnassembled, Record
  <2> QED
    BY <2>1 DEF TypeOK, OneWriter, NoSilentSubmitting
<1>4. ASSUME NEW b \in Block, Finish(b)
      PROVE  \A c \in Block : Good(c)
  <2>1. /\ task' = [task EXCEPT ![b] = NoTask] /\ up' = up
        /\ status' = [status EXCEPT ![b] = Verdict(task[b].at, task[b].ans)]
        /\ Verdict(task[b].at, task[b].ans) # "submitting"
    BY <1>4, VerdictReason DEF Finish
  <2> QED
    BY <2>1 DEF TypeOK, OneWriter, NoSilentSubmitting, NoTask
<1>5. ASSUME NEW b \in Block, NodeAnswers(b) \/ RpcFails(b)
      PROVE  \A c \in Block : Good(c)
  <2>1. /\ \E r : task' = [task EXCEPT ![b].ans = r]
        /\ UNCHANGED <<status, up>> /\ task[b].at # "idle"
    BY <1>5 DEF NodeAnswers, RpcFails, Waits, HeaderAwait, record
  <2> QED
    BY <2>1 DEF TypeOK, Task, OneWriter, NoSilentSubmitting
<1>6. ASSUME NEW b \in Block, AskChain(b) \/ Retry(b) \/ Wake(b) \/ Resubmit(b)
      PROVE  \A c \in Block : Good(c)
  <2>1. /\ \E n : \E w \in Await \ {"idle"} : Goto(b, w, n)
        /\ UNCHANGED <<status, up>> /\ task[b].at # "idle"
    BY <1>6 DEF AskChain, Retry, Wake, Resubmit, Await, record
  <2> QED
    BY <2>1 DEF TypeOK, Goto, OneWriter, NoSilentSubmitting
<1>7. CASE TrackResume
  <2> DEFINE b == blocks[track.i]
  <2>1. /\ UNCHANGED <<task, up>> /\ b \in Block
        /\ \/ status' = status
           \/ status' = [status EXCEPT ![b] = Tracked(status[b], track.ans)]
        /\ status[b] # "submitting"
    BY <1>7, ResumeEffect DEF TrackResume, Trackable
  <2>2. Tracked(status[b], track.ans) # "submitting"
    BY <2>1, TrackedReason
  <2> QED
    BY <2>1, <2>2 DEF TypeOK, OneWriter, NoSilentSubmitting
<1>8. CASE up' = FALSE /\ task' = [c \in Block |-> NoTask]
  BY <1>8 DEF NoTask
<1>9. CASE Restart
  <2>1. task' = task /\ \A c \in Block : status'[c] # "submitting" /\ task[c].at = "idle"
    BY <1>9 DEF Restart, Relabel, DownIsIdle
  <2> QED
    BY <2>1 DEF OneWriter
<1>10. CASE Aside
  BY <1>1, <1>5, <1>6, <1>10
     DEF Aside, TrackAnswer, AbandonedLands, ChainMoves, TrackFails, DiskFlips, vars, record
<1> QED
  BY <1>1, <1>2, <1>3, <1>4, <1>7, <1>8, <1>9, <1>10, StepCases
     DEF CrashInFind, TrackStart, ShareCounted, Crash, Shutdown, Down, record

LEMMA TrackerNext ==
  ASSUME IInv, [Next]_vars
  PROVE  /\ TrackerReadFresh'
         /\ track'.at = "ask" => Trackable(track'.seen, mature'[blocks'[track'.i]])
<1> USE DEF IInv
<1> SUFFICES ASSUME track'.at = "ask"
             PROVE  /\ status'[blocks'[track'.i]] = track'.seen
                    /\ Trackable(track'.seen, mature'[blocks'[track'.i]])
  BY DEF TrackerReadFresh
<1>1. CASE track' = NoTrack
  BY <1>1 DEF NoTrack
<1>2. CASE /\ UNCHANGED blocks
           /\ \E ch : \E j \in 1..Len(blocks) :
                /\ track' = [at |-> "ask", i |-> j, seen |-> status'[blocks[j]],
                             ans |-> "none", changed |-> ch]
                /\ Trackable(status'[blocks[j]], mature'[blocks[j]])
  BY <1>2
<1>3. CASE Aside
  <2>1. /\ UNCHANGED record
        /\ track' = NoTrack \/ (track'.at = track.at /\ track'.i = track.i /\ track'.seen = track.seen)
    BY <1>3 DEF TypeOK, Track, Aside, NodeAnswers, RpcFails, AskChain, Retry, Wake, Resubmit,
           TrackAnswer, AbandonedLands, ChainMoves, TrackFails, DiskFlips, vars, record, node
  <2> QED
    BY <1>1, <2>1 DEF OneWriter, TrackerReadFresh, record
<1>4. ASSUME NEW b \in Block, Find(b) \/ FindUnassembled(b)
      PROVE  /\ status'[blocks'[track'.i]] = track'.seen
             /\ Trackable(track'.seen, mature'[blocks'[track'.i]])
  <2>1. /\ track' = track /\ mature' = mature /\ blocks' = Append(blocks, b)
        /\ \E s : status' = [status EXCEPT ![b] = s]
        /\ \A j \in 1..Len(blocks) : blocks[j] # b
    BY <1>4, FindFresh DEF Find, FindUnassembled, KeepCopy, Record
  <2>2. blocks'[track'.i] = blocks[track.i] /\ blocks[track.i] # b /\ blocks[track.i] \in Block
    BY <2>1 DEF TypeOK
  <2> QED
    BY <2>1, <2>2 DEF TypeOK, OneWriter, TrackerReadFresh
<1>5. ASSUME NEW b \in Block, Finish(b)
      PROVE  /\ status'[blocks'[track'.i]] = track'.seen
             /\ Trackable(track'.seen, mature'[blocks'[track'.i]])
  <2>1. /\ UNCHANGED <<track, mature, blocks>> /\ task[b].ans # "none"
        /\ \E s : status' = [status EXCEPT ![b] = s]
    BY <1>5 DEF Finish
  <2>2. status[b] = "submitting"
    BY <2>1 DEF OneWriter, DownIsIdle, NoSilentSubmitting
  <2>3. blocks[track.i] # b /\ blocks[track.i] \in Block
    BY <2>1, <2>2 DEF TypeOK, OneWriter, TrackerReadFresh, Trackable
  <2> QED
    BY <2>1, <2>3 DEF TypeOK, OneWriter, TrackerReadFresh
<1>6. CASE TrackStart
  BY <1>1, <1>2, <1>6, TrackStartEffect DEF record
<1>7. CASE TrackResume
  <2>1. track.i + 1 \in 1..(Len(blocks) + 1) /\ UNCHANGED blocks
    BY <1>7 DEF TypeOK, TrackResume
  <2> QED
    BY <1>1, <1>2, <1>7, <2>1, TrackFromEffect DEF TypeOK, TrackResume
<1>8. CASE ShareCounted
  BY <1>8 DEF ShareCounted, OneWriter, TrackerReadFresh, record
<1>9. CASE Restart
  BY <1>9 DEF Restart, DownIsIdle
<1> QED
  BY <1>1, <1>3, <1>4, <1>5, <1>6, <1>7, <1>8, <1>9, StepCases
     DEF CrashInFind, Crash, Shutdown, Down

LEMMA OneWriterNext ==
  ASSUME IInv, [Next]_vars
  PROVE  OneWriter'
BY CoroutineNext, TrackerNext DEF OneWriter

\* The order on statuses is transitive where the ledger needs it.
LEMMA MayTransitive ==
  ASSUME NEW s, NEW t, NEW u, Ledger!May(s, t), Ledger!May(t, u)
  PROVE  Ledger!May(s, u)
BY DEF Ledger!May, Ledger!Open, Ledger!OnChain

LEMMA MemoryForward ==
  ASSUME IInv, [Next]_vars, up'
  PROVE  \A b \in Block : /\ Ledger!May(status[b], status'[b])
                          /\ mature[b] => mature'[b]
<1> USE DEF IInv
<1>1. CASE UNCHANGED record
  BY <1>1 DEF record, Ledger!May
<1>2. ASSUME NEW b \in Block, Find(b) \/ FindUnassembled(b)
      PROVE  \A c \in Block : Ledger!May(status[c], status'[c]) /\ (mature[c] => mature'[c])
  <2>1. /\ \E s : status' = [status EXCEPT ![b] = s]
        /\ mature' = mature /\ status[b] = "none"
    BY <1>2, FindFresh DEF Find, FindUnassembled, KeepCopy, Record
  <2> QED
    BY <2>1 DEF TypeOK, Ledger!May
<1>3. ASSUME NEW b \in Block, Finish(b)
      PROVE  \A c \in Block : Ledger!May(status[c], status'[c]) /\ (mature[c] => mature'[c])
  <2>1. /\ status' = [status EXCEPT ![b] = Verdict(task[b].at, task[b].ans)]
        /\ mature' = mature /\ task[b].ans # "none"
    BY <1>3 DEF Finish
  <2>2. status[b] = "submitting"
    BY <2>1 DEF OneWriter, DownIsIdle, NoSilentSubmitting
  <2>3. Ledger!May(status[b], status'[b])
    BY <2>1, <2>2, VerdictReason DEF TypeOK, Ledger!May
  <2> QED
    BY <2>1, <2>3 DEF TypeOK, Ledger!May
<1>4. CASE TrackResume
  <2> DEFINE b == blocks[track.i]
  <2>1. /\ b \in Block /\ Trackable(status[b], mature[b])
        /\ \/ status' = status
           \/ status' = [status EXCEPT ![b] = Tracked(status[b], track.ans)]
        /\ mature' = [mature EXCEPT ![b] = @ \/ track.ans = "buried"]
    BY <1>4, ResumeEffect
  <2>2. Ledger!May(status[b], Tracked(status[b], track.ans))
    BY <2>1, TrackedReason
       DEF TypeOK, Status, Trackable, Ledger!May, Ledger!Open, Ledger!OnChain
  <2>3. \A c \in Block : Ledger!May(status[c], status'[c])
    BY <2>1, <2>2 DEF TypeOK, Ledger!May
  <2>4. \A c \in Block : mature[c] => mature'[c]
    BY <2>1 DEF TypeOK
  <2> QED
    BY <2>3, <2>4
<1>5. CASE Restart
  <2>1. /\ \A c \in Block : status'[c] = Relabel(status[c])
        /\ mature' = mature
    BY <1>5 DEF Restart, DownIsIdle
  <2> QED
    BY <2>1 DEF Relabel, Ledger!May
<1> QED
  BY <1>1, <1>2, <1>3, <1>4, <1>5, StepCases, AsideEffect
     DEF TrackStart, ShareCounted, Crash, Shutdown, CrashInFind, Down

LEMMA DownNext ==
  ASSUME IInv, [Next]_vars, ~up'
  PROVE  DownIsIdle'
<1>1. CASE Aside
  <2>1. UNCHANGED record /\ UNCHANGED saved /\ ~up
    BY <1>1, AsideEffect DEF disk
  <2>2. /\ track.at = "idle" /\ \A b \in Block : task[b].at = "idle"
        /\ blocks = saved.blocks /\ status = saved.status /\ mature = saved.mature
    BY <2>1 DEF IInv, DownIsIdle
  <2>3. UNCHANGED <<task, track>>
    BY <1>1, <2>2
       DEF Aside, NodeAnswers, RpcFails, Waits, HeaderAwait, AskChain, Retry, Wake, Resubmit,
           TrackAnswer, AbandonedLands, ChainMoves, TrackFails, DiskFlips, vars
  <2> QED
    BY <2>1, <2>2, <2>3 DEF DownIsIdle, record
<1>2. ASSUME NEW b \in Block, Finish(b)
      PROVE  DownIsIdle'
  BY <1>2 DEF IInv, Finish, DownIsIdle, OneWriter
<1>3. CASE Down
  BY <1>3 DEF Down, DownIsIdle, NoTask, NoTrack
<1>4. ASSUME NEW b \in Block, Find(b) \/ FindUnassembled(b) \/ CrashInFind(b)
      PROVE  DownIsIdle'
  BY <1>3, <1>4 DEF Find, FindUnassembled, CrashInFind
<1>5. CASE TrackStart \/ ShareCounted
  <2>1. up /\ up' = up
    BY <1>5 DEF TrackStart, ShareCounted
  <2> QED
    BY <2>1
<1>8. CASE Restart
  BY <1>8 DEF Restart
<1>6. CASE TrackResume
  BY <1>6 DEF IInv, DownIsIdle, TrackResume
<1>7. CASE Crash \/ Shutdown
  BY <1>3, <1>7 DEF Crash, Shutdown
<1> QED
  BY <1>1, <1>2, <1>4, <1>5, <1>6, <1>7, <1>8, StepCases

LEMMA DownIsIdleNext ==
  ASSUME IInv, [Next]_vars
  PROVE  DownIsIdle'
BY DownNext DEF DownIsIdle

LEMMA ListedKeptNext ==
  ASSUME IInv, [Next]_vars
  PROVE  /\ \A b \in Block : copy'[b] = "none" => status'[b] = "none"
         /\ ListedKept'
<1> USE DEF IInv
<1> DEFINE Kept(bs) == \A j \in 1..Len(bs) : copy'[bs[j]] # "none"
<1>1. \A b \in Block : copy[b] # "none" => copy'[b] # "none"
  <2>1. \/ UNCHANGED copy
        \/ \E b \in Block : KeepCopy(b) \/ copy' = [copy EXCEPT ![b] = "log"]
    BY StepCases, AsideEffect
       DEF Find, FindUnassembled, CrashInFind, Finish, TrackStart, TrackResume,
           ShareCounted, Crash, Shutdown, Restart
  <2> QED
    BY <2>1 DEF TypeOK, KeepCopy
<1>2. Kept(blocks) /\ Kept(saved.blocks)
  <2>1. \A j \in 1..Len(blocks) : blocks[j] \in Block
    BY DEF TypeOK
  <2>2. \A j \in 1..Len(saved.blocks) : saved.blocks[j] \in Block
    BY DEF TypeOK, Snapshot
  <2> QED
    BY <1>1, <2>1, <2>2 DEF ListedKept
<1>3. SavedAsMemory
  BY DiskEffect
<1> SUFFICES Kept(blocks') /\ \A b \in Block : copy'[b] = "none" => status'[b] = "none"
  BY <1>2, <1>3 DEF SavedAsMemory, ListedKept
<1> HIDE DEF Kept
<1>9. ASSUME NEW b \in Block, Find(b) \/ FindUnassembled(b)
      PROVE  /\ Kept(blocks')
             /\ \A c \in Block : copy'[c] = "none" => status'[c] = "none"
  <2>1. /\ blocks' = Append(blocks, b) /\ copy'[b] # "none"
        /\ \E s : status' = [status EXCEPT ![b] = s]
    BY <1>9 DEF TypeOK, Find, FindUnassembled, KeepCopy, Record
  <2>2. Kept(blocks')
    BY <1>2, <2>1 DEF TypeOK, Kept
  <2>3. \A c \in Block : copy'[c] = "none" => status'[c] = "none"
    BY <1>1, <2>1 DEF TypeOK, MemoryAhead
  <2> QED
    BY <2>2, <2>3
<1>4. ASSUME NEW b \in Block, Finish(b)
      PROVE  /\ Kept(blocks')
             /\ \A c \in Block : copy'[c] = "none" => status'[c] = "none"
  <2>1. /\ UNCHANGED <<blocks, copy>> /\ task[b].ans # "none"
        /\ \E s : status' = [status EXCEPT ![b] = s]
    BY <1>4 DEF Finish
  <2>2. status[b] = "submitting"
    BY <2>1 DEF OneWriter, DownIsIdle, NoSilentSubmitting
  <2> QED
    BY <1>2, <2>1, <2>2 DEF TypeOK, MemoryAhead
<1>5. CASE TrackResume
  <2> DEFINE b == blocks[track.i]
  <2>1. /\ b \in Block /\ track.i \in 1..Len(blocks) /\ UNCHANGED <<blocks, copy>>
        /\ status' = status \/ \E s : status' = [status EXCEPT ![b] = s]
    BY <1>5, ResumeEffect DEF TypeOK, TrackResume
  <2>2. copy[b] # "none"
    BY <2>1 DEF ListedKept
  <2> QED
    BY <1>2, <2>1, <2>2 DEF TypeOK, MemoryAhead
<1>6. CASE Down /\ (saved' = saved \/ Shutdown)
  <2>1. \/ blocks' = saved.blocks /\ status' = saved.status
        \/ blocks' = blocks /\ status' = status
    <3>1. CASE saved' = saved
      BY <1>6, <3>1 DEF Down
    <3>2. CASE saved' = [blocks |-> blocks, status |-> status, mature |-> mature]
      BY <1>6, <3>2 DEF Down
    <3> QED
      BY <1>6, <3>1, <3>2 DEF Shutdown
  <2>2. \A c \in Block : status[c] = "none" => saved.status[c] = "none"
    BY DEF MemoryAhead, Ledger!May, Ledger!OnChain
  <2>3. \A c \in Block : copy'[c] = "none" => copy[c] = "none"
    BY <1>1
  <2>4. \A c \in Block : copy'[c] = "none" => status'[c] = "none"
    BY <2>1, <2>2, <2>3 DEF MemoryAhead
  <2> QED
    BY <1>2, <2>1, <2>4
<1>7. CASE Restart
  <2>1. /\ UNCHANGED <<blocks, copy>>
        /\ \A c \in Block : status'[c] = Relabel(status[c])
    BY <1>7 DEF Restart, DownIsIdle
  <2>2. \A c \in Block : copy'[c] = "none" => status'[c] = "none"
    BY <2>1 DEF MemoryAhead, Relabel
  <2> QED
    BY <1>2, <2>1, <2>2
<1>8. CASE UNCHANGED <<record, copy>>
  BY <1>2, <1>8 DEF MemoryAhead, record
<1> QED
  BY <1>4, <1>5, <1>6, <1>7, <1>8, <1>9, StepCases, AsideEffect
     DEF TrackStart, ShareCounted, Crash, Shutdown, CrashInFind

LEMMA MemoryAheadNext ==
  ASSUME IInv, [Next]_vars
  PROVE  MemoryAhead'
<1>1. \A b \in Block : Ledger!May(saved'.status[b], status'[b]) /\ (saved'.mature[b] => mature'[b])
  <2>1. CASE saved'.status = status' /\ saved'.mature = mature'
    BY <2>1 DEF Ledger!May
  <2>2. CASE saved' = saved /\ up'
    BY <2>2, MemoryForward, MayTransitive DEF IInv, MemoryAhead
  <2>3. CASE ~up'
    BY <2>1, <2>3, DownNext DEF DownIsIdle
  <2> QED
    BY <2>1, <2>2, <2>3, DiskEffect DEF IInv, SavedAsMemory
<1> QED
  BY <1>1, ListedKeptNext DEF MemoryAhead

LEMMA InvInit == Init => IInv
<1> SUFFICES ASSUME Init PROVE IInv
  OBVIOUS
<1>1. TypeOK
  BY TypeInit
<1>2. \A b \in Block : /\ status[b] = "none" /\ ~mature[b] /\ task[b] = NoTask
                       /\ saved.status[b] = "none" /\ ~saved.mature[b]
  BY DEF Init, Empty
<1>3. blocks = <<>> /\ saved.blocks = <<>> /\ track = NoTrack /\ up
  BY DEF Init, Empty
<1>4. RepliesTrue /\ RecordTrue /\ MemoryAhead
  BY <1>2, <1>3 DEF RepliesTrue, RecordTrue, Backed, MemoryAhead, Ledger!May, NoTask, NoTrack
<1>5. OneWriter
  BY <1>2, <1>3 DEF OneWriter, NoSilentSubmitting, TrackerReadFresh, NoTask, NoTrack
<1>6. ListedKept
  BY <1>3 DEF ListedKept
<1>7. DownIsIdle
  BY <1>3 DEF DownIsIdle
<1> QED
  BY <1>1, <1>4, <1>5, <1>6, <1>7 DEF IInv

\* The inductive invariant holds throughout.
THEOREM Inductive == Spec => []IInv
<1>1. Init => IInv
  BY InvInit
<1>2. IInv /\ [Next]_vars => IInv'
  BY TypeNext, RepliesTrueNext, RecordTrueNext, OneWriterNext, MemoryAheadNext,
     ListedKeptNext, DownIsIdleNext DEF IInv
<1> QED
  BY <1>1, <1>2, PTL DEF Spec

-----------------------------------------------------------------------------
(* The theorems. *)

\* "rejected" is only ever said of a block the node refused, "accepted" and
\* "orphaned" only of one it validated, whatever timed out or was cut off.
THEOREM VerdictsAreTrue == Spec => []NoFalseVerdict
<1>1. IInv => NoFalseVerdict
  BY DEF IInv, RecordTrue, Backed, NoFalseVerdict
<1> QED
  BY <1>1, Inductive, PTL

\* While the process is up, an entry is "submitting" exactly as long as a
\* coroutine is submitting it.
THEOREM SubmittingIsLive == Spec => []NoSilentSubmitting
<1>1. IInv => NoSilentSubmitting
  BY DEF IInv, OneWriter
<1> QED
  BY <1>1, Inductive, PTL

\* The tracker never writes over a status it has not read.
THEOREM TrackerOverwritesNothing == Spec => []TrackerReadFresh
<1>1. IInv => TrackerReadFresh
  BY DEF IInv, OneWriter
<1> QED
  BY <1>1, Inductive, PTL

\* Once mature, an entry is never touched again by a running process.
THEOREM MatureStays == Spec => MatureIsFinal
<1>1. IInv /\ IInv' /\ [Next]_vars => MatureFinal
  <2> SUFFICES ASSUME IInv, IInv', [Next]_vars, NEW b \in Block, up, up', mature[b]
               PROVE  mature'[b] /\ status'[b] = status[b] /\ status[b] = "accepted"
    BY DEF MatureFinal
  <2>1. mature'[b]
    BY MemoryForward
  <2> QED
    BY <2>1 DEF IInv, RecordTrue, Backed
<1> QED
  BY <1>1, Inductive, PTL DEF Spec, MatureIsFinal, vars

\* What stats.json says next is a step forward from what it says now.
LEMMA SavedForward ==
  ASSUME IInv, [Next]_vars
  PROVE  \A b \in Block : /\ Ledger!May(saved.status[b], saved'.status[b])
                          /\ saved.mature[b] => saved'.mature[b]
<1>1. CASE saved' = saved
  BY <1>1 DEF Ledger!May
<1>2. CASE up' /\ saved'.status = status' /\ saved'.mature = mature'
  BY <1>2, MemoryForward, MayTransitive DEF IInv, MemoryAhead
<1>3. CASE ~up' /\ saved' # saved
  <2>1. Shutdown
    <3>1. ~Aside /\ ~Crash /\ ~Restart /\ \A b \in Block : ~CrashInFind(b)
      BY <1>3, AsideEffect DEF Crash, CrashInFind, Restart, disk
    <3>2. TrackStart \/ ShareCounted \/ (\E b \in Block : Find(b) \/ FindUnassembled(b))
            => up /\ up' = up
      BY DEF TrackStart, ShareCounted, Find, FindUnassembled
    <3>3. ~TrackResume /\ \A b \in Block : ~Finish(b)
      BY <1>3 DEF TrackResume, Finish, IInv, DownIsIdle, OneWriter
    <3> QED
      BY <1>3, <3>1, <3>2, <3>3, StepCases
  <2>2. saved'.status = status /\ saved'.mature = mature
    BY <1>3, <2>1 DEF Shutdown
  <2> QED
    BY <2>2 DEF IInv, MemoryAhead
<1> QED
  BY <1>1, <1>2, <1>3, DiskEffect DEF IInv, SavedAsMemory

-----------------------------------------------------------------------------
(* What is on disk: with the inductive invariant, both properties are       *)
(* inductive themselves.                                                    *)

LEMMA FlushedNext ==
  ASSUME IInv, VerdictsFlushed, [Next]_vars
  PROVE  VerdictsFlushed'
<1> SUFFICES ASSUME up', ~dirty'
             PROVE  /\ saved'.blocks = blocks'
                    /\ \A b \in Block :
                         (status'[b] = "submitting") <=> (saved'.status[b] = "submitting")
  BY DEF VerdictsFlushed
<1>1. CASE Save
  BY <1>1 DEF Save
<1>2. CASE UNCHANGED <<up, record, disk>>
  BY <1>2 DEF VerdictsFlushed, record, disk
<1>3. CASE TrackResume /\ UNCHANGED disk
  <2> DEFINE b == blocks[track.i]
  <2>1. /\ b \in Block /\ status[b] # "submitting"
        /\ \/ status' = status
           \/ status' = [status EXCEPT ![b] = Tracked(status[b], track.ans)]
    BY <1>3, ResumeEffect DEF Trackable
  <2>2. Tracked(status[b], track.ans) # "submitting"
    BY <2>1, TrackedReason
  <2>3. \A c \in Block : (status'[c] = "submitting") <=> (status[c] = "submitting")
    BY <2>1, <2>2 DEF IInv, TypeOK
  <2>4. UNCHANGED <<up, blocks, saved, dirty>>
    BY <1>3 DEF TrackResume, disk
  <2> QED
    BY <2>3, <2>4 DEF VerdictsFlushed
<1>4. CASE Restart /\ ~Save
  BY <1>4 DEF Restart, UpdateBlock, IInv, DownIsIdle, disk
<1>5. CASE TrackStart
  <2>1. TrackFrom(1, FALSE) /\ UNCHANGED <<up, record>>
    BY <1>5 DEF TrackStart
  <2> QED
    BY <1>2, <2>1 DEF TrackFrom
<1>6. CASE TrackResume
  BY <1>1, <1>3, <1>6 DEF TrackResume, TrackFrom, UpdateBlock
<1>7. CASE \E b \in Block : Find(b) \/ FindUnassembled(b) \/ Finish(b)
  BY <1>1, <1>7 DEF Find, FindUnassembled, Finish, Record, UpdateBlock
<1>8. CASE ShareCounted
  BY <1>1, <1>8 DEF ShareCounted
<1>9. CASE Restart
  BY <1>1, <1>4, <1>9
<1> QED
  BY <1>2, <1>5, <1>6, <1>7, <1>8, <1>9, StepCases, AsideEffect
     DEF CrashInFind, Crash, Shutdown, Down

\* A block comes into the node's hands only through the coroutine that found it.
LEMMA GivenNext ==
  ASSUME IInv, [Next]_vars, NEW b \in Block, Given(b)', ~Given(b)
  PROVE  Find(b)
<1> USE DEF Given
<1>1. CASE Aside
  BY <1>1
     DEF IInv, TypeOK, Aside, NodeAnswers, RpcFails, Waits, HeaderAwait, AskChain, Retry, Wake,
         Resubmit, Goto, TrackAnswer, AbandonedLands, ChainMoves, TrackFails, DiskFlips, vars, node
<1>2. ASSUME NEW c \in Block, Find(c) \/ FindUnassembled(c) \/ Finish(c)
      PROVE  Find(b)
  BY <1>2 DEF IInv, TypeOK, Find, FindUnassembled, Finish, NoTask, node
<1>3. CASE Down
  BY <1>3 DEF Down, NoTask
<1> QED
  BY <1>1, <1>2, <1>3, StepCases
     DEF CrashInFind, Crash, Shutdown, TrackStart, TrackResume, ShareCounted, Restart, node

LEMMA KeptNext ==
  ASSUME IInv, NothingSubmittedUnkept, [Next]_vars
  PROVE  NothingSubmittedUnkept'
<1> SUFFICES ASSUME NEW b \in Block, Given(b)'
             PROVE  copy'[b] \in {"file", "log"}
  BY DEF NothingSubmittedUnkept
<1>1. CASE Given(b)
  <2>1. copy[b] \in {"file", "log"}
    BY <1>1 DEF NothingSubmittedUnkept
  <2>2. \/ UNCHANGED copy
        \/ \E c \in Block : /\ copy[c] = "none"
                            /\ \E w \in {"file", "log"} : copy' = [copy EXCEPT ![c] = w]
    BY StepCases, AsideEffect
       DEF Find, FindUnassembled, CrashInFind, KeepCopy, Finish, TrackStart, TrackResume,
           ShareCounted, Crash, Shutdown, Restart
  <2> QED
    BY <2>1, <2>2 DEF IInv, TypeOK
<1>2. CASE ~Given(b)
  <2>1. KeepCopy(b)
    BY <1>2, GivenNext DEF Find
  <2> QED
    BY <2>1 DEF IInv, TypeOK, KeepCopy
<1> QED
  BY <1>1, <1>2

-----------------------------------------------------------------------------
(* Which entries stats.json has.                                            *)

\* A listed block has a status, and with nothing pending every status of
\* memory is on disk.
EntriesFlushed ==
  /\ \A j \in 1..Len(blocks) : status[blocks[j]] # "none"
  /\ \A j \in 1..Len(saved.blocks) : saved.status[saved.blocks[j]] # "none"
  /\ up /\ ~dirty => \A b \in Block : Recorded(b) => saved.status[b] # "none"

\* While the process stays up no entry goes away.
LEMMA RecordedForward ==
  ASSUME IInv, [Next]_vars, up', NEW b \in Block, Recorded(b)
  PROVE  status'[b] # "none"
<1>1. Ledger!May(status[b], status'[b])
  BY MemoryForward
<1> QED
  BY <1>1 DEF Recorded, Ledger!May, Ledger!Open, Ledger!OnChain

\* The lists: they grow by a block that gets its status with its place.
LEMMA ListedNext ==
  ASSUME IInv, EntriesFlushed, [Next]_vars
  PROVE  /\ \A j \in 1..Len(blocks') : status'[blocks'[j]] # "none"
         /\ \A j \in 1..Len(saved'.blocks) : saved'.status[saved'.blocks[j]] # "none"
<1> USE DEF IInv
<1>1. ASSUME up' PROVE \A j \in 1..Len(blocks') : status'[blocks'[j]] # "none"
  <2>1. \/ blocks' = blocks
        \/ \E b \in Block, s \in {"submitting", "unassembled"} :
             blocks' = Append(blocks, b) /\ status' = [status EXCEPT ![b] = s]
    BY <1>1, StepCases, AsideEffect
       DEF Find, FindUnassembled, Record, CrashInFind, Finish, TrackStart, TrackResume,
           ShareCounted, Crash, Shutdown, Restart, Down, record
  <2>2. CASE blocks' = blocks
    BY <1>1, <2>2, RecordedForward DEF EntriesFlushed, TypeOK, Recorded
  <2>3. ASSUME NEW b \in Block, NEW s \in {"submitting", "unassembled"},
               blocks' = Append(blocks, b), status' = [status EXCEPT ![b] = s]
        PROVE  \A j \in 1..Len(blocks') : status'[blocks'[j]] # "none"
    BY <2>3 DEF EntriesFlushed, TypeOK
  <2> QED
    BY <2>1, <2>2, <2>3
<1>2. ASSUME ~up'
      PROVE  blocks' = saved'.blocks /\ status' = saved'.status
  BY <1>2, DownNext DEF DownIsIdle
<1>3. ASSUME ~up'
      PROVE  \/ saved' = saved
             \/ saved'.blocks = blocks /\ saved'.status = status
  <2>1. TrackStart \/ ShareCounted \/ (\E b \in Block : Find(b) \/ FindUnassembled(b))
          => up /\ up' = up
    BY DEF TrackStart, ShareCounted, Find, FindUnassembled
  <2>3. ~Restart
    BY <1>3 DEF Restart
  <2>2. ~TrackResume /\ \A b \in Block : ~Finish(b)
    BY <1>3 DEF TrackResume, Finish, DownIsIdle, OneWriter
  <2> QED
    BY <1>3, <2>1, <2>2, <2>3, StepCases, AsideEffect DEF Crash, CrashInFind, Shutdown, disk
<1> QED
  BY <1>1, <1>2, <1>3, DiskEffect DEF SavedAsMemory, EntriesFlushed

LEMMA EntriesFlushedNext ==
  ASSUME IInv, EntriesFlushed, [Next]_vars
  PROVE  EntriesFlushed'
<1> SUFFICES ASSUME up', ~dirty'
             PROVE  \A b \in Block : status'[b] # "none" => saved'.status[b] # "none"
  BY ListedNext DEF EntriesFlushed, Recorded
<1>1. CASE Save
  BY <1>1 DEF Save
<1>2. CASE UNCHANGED <<up, record, disk>>
  BY <1>2 DEF EntriesFlushed, Recorded, record, disk
<1>3. CASE TrackResume /\ UNCHANGED disk
  <2> DEFINE b == blocks[track.i]
  <2>1. /\ b \in Block /\ track.i \in 1..Len(blocks)
        /\ \/ status' = status
           \/ status' = [status EXCEPT ![b] = Tracked(status[b], track.ans)]
    BY <1>3, ResumeEffect DEF IInv, TypeOK, TrackResume
  <2>2. Recorded(b)
    BY <2>1 DEF EntriesFlushed, Recorded
  <2>3. UNCHANGED <<up, saved, dirty>>
    BY <1>3 DEF TrackResume, disk
  <2> QED
    BY <2>1, <2>2, <2>3 DEF IInv, TypeOK, EntriesFlushed, Recorded
<1>4. CASE Restart /\ ~Save
  BY <1>4 DEF Restart, UpdateBlock, IInv, DownIsIdle, disk
<1>5. CASE TrackStart
  <2>1. TrackFrom(1, FALSE) /\ UNCHANGED <<up, record>>
    BY <1>5 DEF TrackStart
  <2> QED
    BY <1>2, <2>1 DEF TrackFrom
<1>6. CASE TrackResume
  BY <1>1, <1>3, <1>6 DEF TrackResume, TrackFrom, UpdateBlock
<1>7. CASE \E b \in Block : Find(b) \/ FindUnassembled(b) \/ Finish(b)
  BY <1>1, <1>7 DEF Find, FindUnassembled, Finish, Record, UpdateBlock
<1>8. CASE ShareCounted
  BY <1>1, <1>8 DEF ShareCounted
<1>9. CASE Restart
  BY <1>1, <1>4, <1>9
<1> QED
  BY <1>2, <1>5, <1>6, <1>7, <1>8, <1>9, StepCases, AsideEffect
     DEF CrashInFind, Crash, Shutdown, Down

\* An entry that is gone went with the process, which had a write pending.
LEMMA LostPending ==
  ASSUME IInv, EntriesFlushed, [Next]_vars, NEW b \in Block, Recorded(b), ~Recorded(b)'
  PROVE  dirty /\ up /\ ~up'
<1>1. ~up'
  BY RecordedForward DEF Recorded
<1>2. status' = saved'.status
  BY <1>1, DownNext DEF DownIsIdle
<1>3. saved'.status[b] = "none"
  BY <1>2 DEF Recorded
<1>4. saved.status[b] = "none"
  <2>1. Ledger!May(saved.status[b], saved'.status[b])
    BY SavedForward
  <2> QED
    BY <1>3, <2>1 DEF Ledger!May, Ledger!Open, Ledger!OnChain
<1>5. up
  BY <1>4 DEF Recorded, IInv, DownIsIdle
<1> QED
  BY <1>1, <1>4, <1>5 DEF EntriesFlushed, IInv, TypeOK

\* With no write pending, stats.json lists the blocks of memory and agrees on
\* which of them are still being submitted.
THEOREM FlushedAtOnce == Spec => []VerdictsFlushed
<1>1. Init => VerdictsFlushed
  BY DEF Init, Empty, VerdictsFlushed
<1>2. IInv /\ VerdictsFlushed /\ [Next]_vars => VerdictsFlushed'
  BY FlushedNext
<1> QED
  BY <1>1, <1>2, Inductive, PTL DEF Spec

\* No crash and no failing write leaves a block that was, or may have been,
\* submitted without its full hex in a file or in the log.
THEOREM SubmittedIsKept == Spec => []NothingSubmittedUnkept
<1>1. Init => NothingSubmittedUnkept
  BY DEF Init, NothingSubmittedUnkept, Given, NoTask
<1>2. IInv /\ NothingSubmittedUnkept /\ [Next]_vars => NothingSubmittedUnkept'
  BY KeptNext
<1> QED
  BY <1>1, <1>2, Inductive, PTL DEF Spec

\* The entry of a block is lost only by a process that ends with a write pending.
THEOREM EntriesOutliveCrashes == Spec => EntryLostOnlyPending
<1>1. Init => EntriesFlushed
  BY DEF Init, Empty, EntriesFlushed, Recorded
<1>2. IInv /\ EntriesFlushed /\ [Next]_vars => EntriesFlushed'
  BY EntriesFlushedNext
<1>3. IInv /\ EntriesFlushed /\ [Next]_vars
        => \A b \in Block : Recorded(b) /\ ~Recorded(b)' => dirty /\ up /\ ~up'
  BY LostPending
<1> QED
  BY <1>1, <1>2, <1>3, Inductive, PTL DEF Spec, EntryLostOnlyPending

-----------------------------------------------------------------------------
(* stats.json implements BlockLedger. *)

LEMMA LedgerInit == Init => Ledger!Init
BY DEF Init, Empty, Ledger!Init, Judged, Valid

\* A step that writes stats.json leaves the chain alone.
LEMMA WriteOrChain ==
  ASSUME IInv, [Next]_vars
  PROVE  saved' = saved \/ chain' = chain
BY StepCases, AsideEffect
   DEF Find, FindUnassembled, CrashInFind, Finish, TrackStart, TrackResume, ShareCounted,
       Crash, Shutdown, Restart, Down, node, disk

LEMMA LedgerStep ==
  ASSUME IInv, IInv', [Next]_vars
  PROVE  [Ledger!Next]_(Ledger!vars)
<1>1. CASE chain' = chain
  <2>1. /\ saved'.status \in [Block -> Status]
        /\ {b \in Block : saved'.mature[b]} \in SUBSET Block
    BY DEF IInv, TypeOK, Snapshot
  <2>2. \A b \in Block : /\ Ledger!May(saved.status[b], saved'.status[b])
                         /\ saved.mature[b] => saved'.mature[b]
    BY SavedForward
  <2>3. \A b \in Block : /\ Ledger!Supported(saved'.status[b], Judged(chain[b]))
                         /\ saved'.mature[b] => saved'.status[b] = "accepted"
    BY <1>1 DEF IInv, RecordTrue, Backed, Ledger!Supported, Ledger!OnChain, Judged, Valid
  <2>4. Ledger!Write
    BY <1>1, <2>1, <2>2, <2>3 DEF Ledger!Write, Ledger!Status, Status
  <2> QED
    BY <2>4 DEF Ledger!Next
<1>2. CASE saved' = saved /\ chain' # chain
  <2>1. PICK b \in Block, d \in Chain : chain' = [chain EXCEPT ![b] = d]
    BY <1>2, StepCases
       DEF Aside, NodeAnswers, RpcFails, AskChain, Retry, Wake, Resubmit, TrackAnswer,
           AbandonedLands, ChainMoves, TrackFails, DiskFlips, vars, node, Find,
           FindUnassembled, CrashInFind, Finish, TrackStart, TrackResume, ShareCounted,
           Crash, Shutdown, Restart, Down
  <2>2. \/ Judged(chain'[b]) = Judged(chain[b])
        \/ chain[b] = "unknown" /\ chain'[b] # "unknown"
    BY <2>1, ChainEffect DEF IInv, TypeOK, ChainStable, Judged, Chain, Valid
  <2>3. CASE Judged(chain'[b]) = Judged(chain[b])
    <3>1. [c \in Block |-> Judged(chain'[c])] = [c \in Block |-> Judged(chain[c])]
      BY <2>1, <2>3 DEF IInv, TypeOK
    <3> QED
      BY <1>2, <3>1 DEF Ledger!vars
  <2>4. CASE chain[b] = "unknown" /\ chain'[b] # "unknown"
    <3>1. /\ Judged(chain[b]) = "none" /\ Judged(chain'[b]) \in {"valid", "invalid"}
      BY <2>4 DEF Judged, Valid
    <3>2. [c \in Block |-> Judged(chain'[c])]
            = [[c \in Block |-> Judged(chain[c])] EXCEPT ![b] = Judged(chain'[b])]
      BY <2>1 DEF IInv, TypeOK
    <3>3. Ledger!NodeJudges(b)
      BY <1>2, <3>1, <3>2 DEF Ledger!NodeJudges
    <3> QED
      BY <3>3 DEF Ledger!Next
  <2> QED
    BY <2>2, <2>3, <2>4
<1> QED
  BY <1>1, <1>2, WriteOrChain

\* stats.json, as the code writes and reloads it across crashes, restarts and
\* failed writes, keeps every promise of BlockLedger.
THEOREM ImplementsLedger == Spec => LedgerSpec
<1>1. Init => Ledger!Init
  BY LedgerInit
<1>2. IInv /\ IInv' /\ [Next]_vars => [Ledger!Next]_(Ledger!vars)
  BY LedgerStep
<1> QED
  BY <1>1, <1>2, Inductive, PTL DEF Spec, LedgerSpec, Ledger!Spec
=============================================================================
