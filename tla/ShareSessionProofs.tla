------------------------- MODULE ShareSessionProofs -------------------------
(***************************************************************************)
(* Proofs about ShareSession, for any payouts, tips, dedupe keys,          *)
(* difficulties and bounds.  Where a theorem needs the payouts remembered  *)
(* for a job (MAX_PAYOUTS_PER_JOB) to be all of them, it says so.          *)
(***************************************************************************)
EXTENDS ShareSession, FiniteSetTheorems, SequenceTheorems, TLAPS

-----------------------------------------------------------------------------
(* Types of the pieces. *)

LEMMA AgeFacts ==
  /\ 0 \in Age /\ Gone \notin Age /\ Gone \in Nat \ {0}
  /\ \A a \in Age : a \in 0..Gone /\ (a # 0 => a - 1 \in Age)
BY SizeAssumption DEF Age, Gone

LEMMA OlderTyped ==
  /\ \A a \in 0..Gone : Older(a) \in 0..Gone
  /\ \A a \in 0..(Gone + 1) : Older(a) \in 0..(Gone + 1)
  /\ Older(Gone) = Gone
BY SizeAssumption DEF Older, Gone

\* After an install a job is where its older name says.
LEMMA OlderNames ==
  ASSUME NEW a \in 0..(Gone + 1), Older(a) \in Age
  PROVE  a \in Age /\ Older(a) # 0 /\ Older(a) - 1 = a
BY SizeAssumption DEF Older, Gone, Age

LEMMA NewJobTyped ==
  ASSUME NEW t \in Tip \cup {NoTip}
  PROVE  NewJob(t) \in Job /\ Len(NewJob(t).pays) <= MaxPayouts
BY SizeAssumption DEF NewJob, Job

LEMMA RememberedTyped ==
  ASSUME NEW ps \in Seq(Payout), NEW p \in Payout, Len(ps) <= MaxPayouts
  PROVE  Remembered(ps, p) \in Seq(Payout) /\ Len(Remembered(ps, p)) <= MaxPayouts
<1>1. CASE p \in Held(ps)
  BY <1>1 DEF Remembered
<1>2. CASE p \notin Held(ps) /\ Len(ps) < MaxPayouts
  <2>1. Append(ps, p) \in Seq(Payout) /\ Len(Append(ps, p)) = Len(ps) + 1
    OBVIOUS
  <2> QED
    BY <1>2, <2>1, LenProperties, SizeAssumption DEF Remembered
<1>3. CASE p \notin Held(ps) /\ ~(Len(ps) < MaxPayouts)
  <2>1. ps # <<>> /\ Len(ps) \in Nat
    BY <1>3, LenProperties, SizeAssumption
  <2>2. Tail(ps) \in Seq(Payout) /\ Len(Tail(ps)) = Len(ps) - 1
    BY <2>1, HeadTailProperties
  <2>3. Append(Tail(ps), p) \in Seq(Payout) /\ Len(Append(Tail(ps), p)) = Len(ps)
    BY <2>1, <2>2
  <2> QED
    BY <1>3, <2>3 DEF Remembered
<1> QED
  BY <1>1, <1>2, <1>3

LEMMA SentTyped ==
  ASSUME NEW j \in Job, NEW p \in Payout, Len(j.pays) <= MaxPayouts
  PROVE  /\ Sent(j, p) \in Job /\ Len(Sent(j, p).pays) <= MaxPayouts
         /\ Sent(j, p).prev = j.prev /\ Sent(j, p).seen = j.seen /\ Sent(j, p).paid = j.paid
<1>1. j.pays \in Seq(Payout)
  BY DEF Job
<1>2. Remembered(j.pays, p) \in Seq(Payout) /\ Len(Remembered(j.pays, p)) <= MaxPayouts
  BY <1>1, RememberedTyped
<1>3. Sent(j, p) = j \/ Sent(j, p) = [j EXCEPT !.pays = Remembered(j.pays, p)]
  BY DEF Sent
<1> QED
  BY <1>2, <1>3 DEF Job

LEMMA JobChanges ==
  ASSUME NEW j \in Job, NEW n \in Key
  PROVE  /\ Paid(j, n) \in Job /\ Paid(j, n).pays = j.pays /\ Paid(j, n).prev = j.prev
         /\ Paid(j, n).seen = j.seen
         /\ Paid(j, n).paid[n] = IF j.paid[n] < 2 THEN j.paid[n] + 1 ELSE j.paid[n]
         /\ \A k \in Key : k # n => Paid(j, n).paid[k] = j.paid[k]
BY DEF Job, Paid

LEMMA EnteredJob ==
  ASSUME NEW j \in Job, NEW n \in Key
  PROVE  /\ Entered(j, n) \in Job /\ Entered(j, n).pays = j.pays
         /\ Entered(j, n).prev = j.prev /\ Entered(j, n).seen = Seen(j, n)
         /\ Entered(j, n).paid = IF Full(j) THEN [k \in Key |-> 0] ELSE j.paid
<1> DEFINE none == [k \in Key |-> 0]
           paid == IF Full(j) THEN none ELSE j.paid
<1>1. Seen(j, n) \in SUBSET Key
  BY DEF Job, Seen
<1>2. paid \in [Key -> 0..2]
  BY DEF Job
<1>3. Entered(j, n) = [j EXCEPT !.seen = Seen(j, n), !.paid = paid]
  BY DEF Entered, Job
<1> HIDE DEF paid
<1>4. /\ Entered(j, n) \in Job /\ Entered(j, n).pays = j.pays
      /\ Entered(j, n).prev = j.prev /\ Entered(j, n).seen = Seen(j, n)
      /\ Entered(j, n).paid = paid
  BY <1>1, <1>2, <1>3 DEF Job
<1> QED
  BY <1>4 DEF paid

\* What on_submit leaves to be read: the rest, now waiting if it submits a block.
LEMMA RestOf ==
  ASSUME TypeOK, Submit
  PROVE  /\ Head(up) = up[1] /\ Head(up) \in Share /\ Head(up).key \in Key
         /\ up' \in Seq(Share) /\ Len(up') = Len(up) - 1 /\ Len(up) \in Nat
         /\ \A i \in 1..Len(up') :
              /\ i + 1 \in 1..Len(up)
              /\ up'[i] = up[i + 1] \/ up'[i] = [up[i + 1] EXCEPT !.waited = TRUE]
<1>1. up \in Seq(Share) /\ up # <<>> /\ Len(up) \in Nat
  BY LenProperties DEF TypeOK, Submit
<1>2. Head(up) = up[1] /\ Head(up) \in Share
      /\ Tail(up) \in Seq(Share) /\ Len(Tail(up)) = Len(up) - 1
      /\ \A i \in 1..Len(Tail(up)) : Tail(up)[i] = up[i + 1]
  BY <1>1, HeadTailProperties
<1>3. Head(up).key \in Key
  BY <1>2 DEF Share
<1>4. \/ up' = Tail(up)
      \/ up' = [i \in 1..(Len(up) - 1) |-> [up[i + 1] EXCEPT !.waited = TRUE]]
  BY DEF Submit
<1>5. CASE up' = Tail(up)
  BY <1>1, <1>2, <1>3, <1>5
<1>6. CASE up' = [i \in 1..(Len(up) - 1) |-> [up[i + 1] EXCEPT !.waited = TRUE]]
  <2>1. \A i \in 1..Len(up) : up[i] \in Share
    BY <1>1, ElementOfSeq
  <2>2. Len(up) - 1 \in Nat
    BY <1>1, <1>2, LenProperties
  <2>3. \A i \in 1..(Len(up) - 1) : i + 1 \in 1..Len(up)
    BY <1>1
  <2>4. \A i \in 1..(Len(up) - 1) : [up[i + 1] EXCEPT !.waited = TRUE] \in Share
    BY <2>1, <2>3 DEF Share
  <2>5. up' \in Seq(Share) /\ Len(up') = Len(up) - 1
    BY <1>6, <2>2, <2>4
  <2> QED
    BY <1>1, <1>2, <1>3, <1>6, <2>3, <2>5
<1> QED
  BY <1>4, <1>5, <1>6

LEMMA AgedRecordTyped ==
  /\ \A s \in Share : AgedRecord(s) \in Share
  /\ \A m \in DownMsg : AgedMsg(m) \in DownMsg
  /\ AgedRecord(NoShare) = NoShare
<1>1. ASSUME NEW s \in Share PROVE AgedRecord(s) \in Share
  BY OlderTyped DEF AgedRecord, Share
<1>2. ASSUME NEW m \in DownMsg PROVE AgedMsg(m) \in DownMsg
  BY OlderTyped DEF AgedMsg, AgedRecord, DownMsg
<1>3. AgedRecord(NoShare) = NoShare
  <2>1. NoShare.age = Gone /\ Older(Gone) = Gone
    BY OlderTyped DEF NoShare
  <2>2. [NoShare EXCEPT !.age = NoShare.age] = NoShare
    BY DEF NoShare
  <2> QED
    BY <2>1, <2>2 DEF AgedRecord
<1> QED
  BY <1>1, <1>2, <1>3

LEMMA UpAged ==
  ASSUME NEW s \in Seq(Share)
  PROVE  AgedSeq(s, AgedRecord) \in Seq(Share) /\ Len(AgedSeq(s, AgedRecord)) = Len(s)
<1>1. Len(s) \in Nat /\ \A i \in 1..Len(s) : s[i] \in Share
  BY LenProperties, ElementOfSeq
<1>2. \A i \in 1..Len(s) : AgedRecord(s[i]) \in Share
  BY <1>1, AgedRecordTyped
<1> QED
  BY <1>1, <1>2 DEF AgedSeq

LEMMA DownAged ==
  ASSUME NEW s \in Seq(DownMsg)
  PROVE  AgedSeq(s, AgedMsg) \in Seq(DownMsg) /\ Len(AgedSeq(s, AgedMsg)) = Len(s)
<1>1. Len(s) \in Nat /\ \A i \in 1..Len(s) : s[i] \in DownMsg
  BY LenProperties, ElementOfSeq
<1>2. \A i \in 1..Len(s) : AgedMsg(s[i]) \in DownMsg
  BY <1>1, AgedRecordTyped
<1> QED
  BY <1>1, <1>2 DEF AgedSeq

LEMMA NotifyTyped ==
  ASSUME NEW j, NEW p \in Payout
  PROVE  Notify(j, p) \in DownMsg
BY SizeAssumption DEF Notify, JobMsg, DownMsg, Gone

LEMMA InitType == Init => TypeOK
<1> SUFFICES ASSUME Init PROVE TypeOK
  OBVIOUS
<1>1. jobs \in [Age -> Job] /\ \A a \in Age : Len(jobs[a].pays) <= MaxPayouts
  BY NewJobTyped DEF Init
<1>2. down \in Seq(DownMsg) /\ Len(down) <= MaxDown /\ up \in Seq(Share) /\ Len(up) <= MaxUp
  BY SizeAssumption DEF Init
<1>3. miner \in [diff : Nat, age : 0..(Gone + 1), pay : Payout \cup {NoPayout}]
  BY SizeAssumption DEF Init, Gone
<1> QED
  BY <1>1, <1>2, <1>3 DEF Init, TypeOK

-----------------------------------------------------------------------------
(* Every step keeps the types. *)

LEMMA InstallType ==
  ASSUME TypeOK, NEW t \in Tip \cup {NoTip}, Install(t)
  PROVE  TypeOK'
<1> DEFINE new == IF payout = NoPayout THEN NewJob(t) ELSE Sent(NewJob(t), payout)
<1>1. new \in Job /\ Len(new.pays) <= MaxPayouts
  <2>1. payout # NoPayout => payout \in Payout
    BY DEF TypeOK
  <2> QED
    BY <2>1, NewJobTyped, SentTyped
<1>2. jobs' = [a \in Age |-> IF a = 0 THEN new ELSE jobs[a - 1]]
  BY DEF Install
<1> HIDE DEF new
<1>3. \A a \in Age : jobs'[a] \in Job /\ Len(jobs'[a].pays) <= MaxPayouts
  BY <1>1, <1>2, AgeFacts DEF TypeOK
<1>4. jobs' \in [Age -> Job]
  BY <1>2, <1>3
<1>5. down' \in Seq(DownMsg) /\ Len(down') <= MaxDown
  <2> DEFINE aged == AgedSeq(down, AgedMsg)
  <2>1. aged \in Seq(DownMsg) /\ Len(aged) = Len(down) /\ Len(down) < MaxDown /\ Len(down) \in Nat
    BY DownAged, LenProperties DEF TypeOK, Install
  <2>2. down' = IF payout = NoPayout THEN aged ELSE Append(aged, Notify(NewJob(t), payout))
    BY DEF Install
  <2> HIDE DEF aged
  <2>3. CASE payout = NoPayout
    BY <2>1, <2>2, <2>3, SizeAssumption
  <2>4. CASE payout # NoPayout
    <3>1. Notify(NewJob(t), payout) \in DownMsg
      BY <2>4, NotifyTyped DEF TypeOK
    <3>2. Append(aged, Notify(NewJob(t), payout)) \in Seq(DownMsg)
          /\ Len(Append(aged, Notify(NewJob(t), payout))) = Len(aged) + 1
      BY <3>1, <2>1
    <3> QED
      BY <2>1, <2>2, <2>4, <3>2, SizeAssumption
  <2> QED
    BY <2>3, <2>4
<1>6. up' \in Seq(Share) /\ Len(up') <= MaxUp
  BY UpAged DEF TypeOK, Install
<1>7. block' \in Share \cup {NoShare}
  BY AgedRecordTyped DEF TypeOK, Install
<1>8. miner' \in [diff : Nat, age : 0..(Gone + 1), pay : Payout \cup {NoPayout}]
  BY OlderTyped DEF TypeOK, Install, AgedRecord
<1> QED
  BY <1>3, <1>4, <1>5, <1>6, <1>7, <1>8 DEF TypeOK, Install

\* A message is sent down.
LEMMA OneMore ==
  ASSUME TypeOK, Len(down) < MaxDown, NEW d \in Nat \ {0}, down' = Append(down, DiffMsg(d))
  PROVE  down' \in Seq(DownMsg) /\ Len(down') <= MaxDown
<1>1. DiffMsg(d) \in DownMsg
  BY DEF DiffMsg, DownMsg
<1>2. down \in Seq(DownMsg) /\ Len(down) \in Nat
  BY LenProperties DEF TypeOK
<1>3. Append(down, DiffMsg(d)) \in Seq(DownMsg)
      /\ Len(Append(down, DiffMsg(d))) = Len(down) + 1
  BY <1>1, <1>2
<1> QED
  BY <1>2, <1>3, SizeAssumption

LEMMA SetDiffType ==
  ASSUME TypeOK, NEW d \in Nat \ {0}, SetDiff(d)
  PROVE  diff' = d /\ prevDiff' \in Nat /\ grace' \in BOOLEAN
BY DEF TypeOK, SetDiff

LEMMA SettingsTyped ==
  ASSUME TypeOK
  PROVE  settings.diff \in Nat \ {0}
BY DiffAssumption DEF TypeOK

LEMMA AuthorizeType ==
  ASSUME TypeOK, NEW p \in Payout, Authorize(p)
  PROVE  TypeOK'
<1> DEFINE d == IF suggested # 0 /\ settings.auto THEN suggested ELSE settings.diff
<1>1. d \in Nat \ {0}
  BY SettingsTyped DEF TypeOK
<1>2. diff' = d /\ prevDiff' \in Nat /\ grace' \in BOOLEAN
  BY <1>1, SetDiffType DEF Authorize
<1> HIDE DEF d
<1>3. Sent(jobs[0], p) \in Job /\ Len(Sent(jobs[0], p).pays) <= MaxPayouts
  BY SentTyped, AgeFacts DEF TypeOK
<1>4. jobs' = [jobs EXCEPT ![0] = Sent(jobs[0], p)] /\ jobs \in [Age -> Job]
  BY DEF Authorize, TypeOK
<1>5. jobs' \in [Age -> Job] /\ \A a \in Age : Len(jobs'[a].pays) <= MaxPayouts
  BY <1>3, <1>4 DEF TypeOK
<1>6. down' \in Seq(DownMsg) /\ Len(down') <= MaxDown
  <2>1. DiffMsg(diff') \in DownMsg /\ Notify(jobs[0], p) \in DownMsg
    BY <1>1, <1>2, NotifyTyped DEF DiffMsg, DownMsg
  <2>2. <<DiffMsg(diff'), Notify(jobs[0], p)>> \in Seq(DownMsg)
        /\ Len(<<DiffMsg(diff'), Notify(jobs[0], p)>>) = 2
    BY <2>1
  <2>3. down \in Seq(DownMsg) /\ Len(down) \in Nat /\ Len(down) + 1 < MaxDown
        /\ down' = down \o <<DiffMsg(diff'), Notify(jobs[0], p)>>
    BY LenProperties DEF TypeOK, Authorize
  <2>4. down' \in Seq(DownMsg) /\ Len(down') = Len(down) + 2
    BY <2>2, <2>3, ConcatProperties
  <2> QED
    BY <2>3, <2>4, SizeAssumption
<1>7. retarget' \in {"due", "running", "after grace"}
  BY DEF TypeOK, Authorize
<1> QED
  BY <1>1, <1>2, <1>5, <1>6, <1>7 DEF TypeOK, Authorize

LEMMA SuggestType ==
  ASSUME TypeOK, NEW d \in Suggests, Suggest(d)
  PROVE  TypeOK'
<1>1. d \in Nat \ {0}
  BY DiffAssumption
<1>2. CASE payout = NoPayout
  BY <1>1, <1>2 DEF TypeOK, Suggest
<1>3. CASE payout # NoPayout
  <2>1. diff' = d /\ prevDiff' \in Nat /\ grace' \in BOOLEAN
    BY <1>1, <1>3, SetDiffType DEF Suggest
  <2>2. down' \in Seq(DownMsg) /\ Len(down') <= MaxDown
    BY <1>1, <1>3, OneMore DEF Suggest
  <2> QED
    BY <1>1, <1>3, <2>1, <2>2 DEF TypeOK, Suggest
<1> QED
  BY <1>2, <1>3

LEMMA RetargetType ==
  ASSUME TypeOK, NEW d \in Retargets, Retarget(d)
  PROVE  TypeOK'
<1>1. d \in Nat \ {0}
  BY DiffAssumption
<1>2. diff' = d /\ prevDiff' \in Nat /\ grace' \in BOOLEAN
  BY <1>1, SetDiffType DEF Retarget
<1>3. down' \in Seq(DownMsg) /\ Len(down') <= MaxDown
  BY <1>1, OneMore DEF Retarget
<1> QED
  BY <1>1, <1>2, <1>3 DEF TypeOK, Retarget

LEMMA PushType ==
  ASSUME TypeOK, Push
  PROVE  TypeOK'
<1>1. settings.diff \in Nat \ {0}
  BY SettingsTyped
<1>2. CASE payout = NoPayout
  BY <1>2 DEF TypeOK, Push
<1>3. CASE payout # NoPayout
  <2>1. diff' = settings.diff /\ prevDiff' \in Nat /\ grace' \in BOOLEAN
    BY <1>1, <1>3, SetDiffType DEF Push
  <2>2. down' \in Seq(DownMsg) /\ Len(down') <= MaxDown
    BY <1>1, <1>3, <2>1, OneMore DEF Push
  <2>3. retarget' \in {"due", "running", "after grace"}
    BY <1>3 DEF TypeOK, Push
  <2> QED
    BY <1>1, <1>3, <2>1, <2>2, <2>3 DEF TypeOK, Push
<1> QED
  BY <1>2, <1>3

LEMMA SubmitType ==
  ASSUME TypeOK, Submit
  PROVE  TypeOK'
<1> DEFINE s == Head(up)
           seen == Entered(jobs[s.age], s.key)
<1>1. s \in Share /\ s.key \in Key
  BY RestOf
<1>2. up' \in Seq(Share) /\ Len(up') <= MaxUp
  <2>1. Len(up) <= MaxUp
    BY DEF TypeOK
  <2> QED
    BY <2>1, RestOf, SizeAssumption
<1>3. \/ ~Fresh(s) /\ UNCHANGED <<jobs, block>>
      \/ /\ Fresh(s) /\ block' \in {s, block}
         /\ jobs' \in {[jobs EXCEPT ![s.age] = seen], [jobs EXCEPT ![s.age] = Paid(seen, s.key)]}
  BY DEF Submit
<1> HIDE DEF s
<1>5. CASE Fresh(s)
  <2>1. s.age \in Age /\ jobs[s.age] \in Job /\ Len(jobs[s.age].pays) <= MaxPayouts
    BY <1>5 DEF Fresh, Known, TypeOK
  <2>2. seen \in Job /\ seen.pays = jobs[s.age].pays
    BY <1>1, <2>1, EnteredJob
  <2> HIDE DEF seen
  <2>3. Paid(seen, s.key) \in Job /\ Paid(seen, s.key).pays = seen.pays
    BY <1>1, <2>2, JobChanges
  <2>4. jobs' \in [Age -> Job] /\ \A a \in Age : Len(jobs'[a].pays) <= MaxPayouts
    BY <1>3, <1>5, <2>1, <2>2, <2>3 DEF TypeOK
  <2> QED
    BY <1>1, <1>2, <1>3, <1>5, <2>4 DEF TypeOK, Submit
<1>6. CASE ~Fresh(s)
  BY <1>2, <1>3, <1>6 DEF TypeOK, Submit
<1> QED
  BY <1>5, <1>6

LEMMA BlockSubmittedType ==
  ASSUME TypeOK, BlockSubmitted
  PROVE  TypeOK'
<1>1. CASE block.age \in Age
  <2>1. block \in Share /\ block.key \in Key
    BY <1>1, AgeFacts DEF TypeOK, BlockSubmitted, Reading, Share
  <2>2. jobs' = [jobs EXCEPT ![block.age] = Paid(jobs[block.age], block.key)]
        /\ jobs[block.age] \in Job /\ Len(jobs[block.age].pays) <= MaxPayouts
    BY <1>1 DEF BlockSubmitted, TypeOK
  <2>3. Paid(jobs[block.age], block.key) \in Job
        /\ Paid(jobs[block.age], block.key).pays = jobs[block.age].pays
    BY <2>1, <2>2, JobChanges
  <2>4. jobs' \in [Age -> Job] /\ \A a \in Age : Len(jobs'[a].pays) <= MaxPayouts
    BY <2>2, <2>3 DEF TypeOK
  <2> QED
    BY <2>4 DEF TypeOK, BlockSubmitted
<1>2. CASE block.age \notin Age
  BY <1>2 DEF TypeOK, BlockSubmitted
<1> QED
  BY <1>1, <1>2

LEMMA ReadType ==
  ASSUME TypeOK, Read
  PROVE  TypeOK'
<1>1. down \in Seq(DownMsg) /\ down # <<>> /\ Len(down) \in Nat /\ Len(down) <= MaxDown
      /\ down' = Tail(down)
  BY LenProperties DEF TypeOK, Read
<1>2. Head(down) \in DownMsg /\ Tail(down) \in Seq(DownMsg) /\ Len(Tail(down)) = Len(down) - 1
  BY <1>1, HeadTailProperties
<1>3. down' \in Seq(DownMsg) /\ Len(down') <= MaxDown
  BY <1>1, <1>2, SizeAssumption
<1>4. miner' \in [diff : Nat, age : 0..(Gone + 1), pay : Payout \cup {NoPayout}]
  <2> DEFINE m == Head(down)
  <2>1. miner' = IF m.is = "diff" THEN [miner EXCEPT !.diff = m.d]
                 ELSE [miner EXCEPT !.age = m.age, !.pay = m.pay]
    BY DEF Read
  <2> HIDE DEF m
  <2>2. \/ m.is = "diff" /\ m.d \in Nat
        \/ m.is # "diff" /\ m.age \in 0..Gone /\ m.pay \in Payout \cup {NoPayout}
    BY <1>2 DEF DownMsg, m
  <2>3. miner \in [diff : Nat, age : 0..(Gone + 1), pay : Payout \cup {NoPayout}]
        /\ Gone \in Nat
    BY AgeFacts DEF TypeOK
  <2>4. CASE m.is = "diff" /\ m.d \in Nat
    BY <2>1, <2>3, <2>4
  <2>5. CASE m.is # "diff" /\ m.age \in 0..Gone /\ m.pay \in Payout \cup {NoPayout}
    <3>1. m.age \in 0..(Gone + 1)
      BY <2>3, <2>5
    <3> QED
      BY <2>1, <2>3, <2>5, <3>1
  <2> QED
    BY <2>2, <2>4, <2>5
<1> QED
  BY <1>3, <1>4 DEF TypeOK, Read, server

LEMMA ReadingBoolean == (~Reading) \in BOOLEAN
BY SMT DEF Reading

LEMMA FindType ==
  ASSUME TypeOK, NEW n \in Key, NEW q \in Level, Find(n, q)
  PROVE  TypeOK'
<1> DEFINE s == [age |-> miner.age, pay |-> miner.pay, key |-> n, q |-> q, told |-> miner.diff,
                waited |-> ~Reading]
<1>5. miner \in [diff : Nat, age : 0..(Gone + 1), pay : Payout \cup {NoPayout}]
      /\ miner.age <= Gone /\ Gone \in Nat
  BY AgeFacts DEF TypeOK, Find
<1>6. miner.diff \in Nat /\ miner.age \in 0..Gone /\ miner.pay \in Payout \cup {NoPayout}
  BY <1>5
<1>1. s \in Share
  BY <1>6, ReadingBoolean DEF Share
<1>2. up' = Append(up, s) /\ up \in Seq(Share) /\ Len(up) \in Nat /\ Len(up) < MaxUp
  BY LenProperties DEF TypeOK, Find
<1> HIDE DEF s
<1>3. Append(up, s) \in Seq(Share) /\ Len(Append(up, s)) = Len(up) + 1
  BY <1>1, <1>2
<1>4. up' \in Seq(Share) /\ Len(up') <= MaxUp
  BY <1>2, <1>3, SizeAssumption
<1> QED
  BY <1>4 DEF TypeOK, Find, server

LEMMA StepType == TypeOK /\ [Next]_vars => TypeOK'
<1> SUFFICES ASSUME TypeOK, [Next]_vars PROVE TypeOK'
  OBVIOUS
<1>1. ASSUME NEW t \in Tip \cup {NoTip}, Install(t) PROVE TypeOK'
  BY <1>1, InstallType
<1>2. ASSUME NEW p \in Payout, Authorize(p) PROVE TypeOK'
  BY <1>2, AuthorizeType
<1>3. ASSUME NEW d \in Suggests, Suggest(d) PROVE TypeOK'
  BY <1>3, SuggestType
<1>4. ASSUME NEW d \in Retargets, Retarget(d) PROVE TypeOK'
  BY <1>4, RetargetType
<1>5. CASE GraceOver
  BY <1>5 DEF GraceOver, TypeOK
<1>6. CASE RetargetDue
  BY <1>6 DEF RetargetDue, TypeOK
<1>7. CASE Submit
  BY <1>7, SubmitType
<1>8. CASE BlockSubmitted
  BY <1>8, BlockSubmittedType
<1>9. CASE Read
  BY <1>9, ReadType
<1>10. ASSUME NEW n \in Key, NEW q \in Level, Find(n, q) PROVE TypeOK'
  BY <1>10, FindType
<1>11. ASSUME NEW s \in Settings, SaveSettings(s) PROVE TypeOK'
  BY <1>11 DEF SaveSettings, TypeOK
<1>12. CASE Push
  BY <1>12, PushType
<1>13. CASE UNCHANGED vars
  BY <1>13 DEF vars, server, TypeOK
<1> QED
  BY <1>1, <1>2, <1>3, <1>4, <1>5, <1>6, <1>7, <1>8, <1>9, <1>10, <1>11, <1>12, <1>13
  DEF Next

\* Every variable of a session keeps its type; no job remembers more than
\* MAX_PAYOUTS_PER_JOB payouts.
THEOREM TypeCorrect == Spec => []TypeOK
<1> QED
  BY InitType, StepType, PTL DEF Spec

-----------------------------------------------------------------------------
(* Nothing is credited twice. *)

\* What was credited is in the dedupe set.
Accounted(j) == \A n \in Key : j.paid[n] <= 1 /\ (j.paid[n] # 0 => n \in j.seen)

\* The block share that waits is in the dedupe set and not yet credited.
Owed(j, n) == n \in j.seen /\ j.paid[n] = 0

CInv ==
  /\ \A a \in Age : Accounted(jobs[a])
  /\ block.age \in Age => Owed(jobs[block.age], block.key)

LEMMA InitCredit == Init => CInv
<1> SUFFICES ASSUME Init PROVE CInv
  OBVIOUS
<1>1. block.age \notin Age
  BY AgeFacts DEF Init, NoShare
<1>2. \A a \in Age : Accounted(jobs[a])
  BY DEF Init, NewJob, Accounted
<1> QED
  BY <1>1, <1>2 DEF CInv

LEMMA NewAccounted ==
  ASSUME NEW t \in Tip \cup {NoTip}
  PROVE  Accounted(NewJob(t)) /\ \A p \in Payout : Accounted(Sent(NewJob(t), p))
<1>1. Accounted(NewJob(t))
  BY DEF NewJob, Accounted
<1>2. \A p \in Payout : /\ Sent(NewJob(t), p).seen = NewJob(t).seen
                        /\ Sent(NewJob(t), p).paid = NewJob(t).paid
  BY NewJobTyped, SentTyped
<1> QED
  BY <1>1, <1>2 DEF Accounted

LEMMA OwedPaid ==
  ASSUME NEW j \in Job, NEW n \in Key, Accounted(j), Owed(j, n)
  PROVE  Accounted(Paid(j, n))
<1>3. Paid(j, n).seen = j.seen
      /\ Paid(j, n).paid[n] = IF j.paid[n] < 2 THEN j.paid[n] + 1 ELSE j.paid[n]
  BY JobChanges
<1>1. Paid(j, n).paid[n] = 1
  BY <1>3 DEF Owed
<1>2. \A k \in Key : k # n => Paid(j, n).paid[k] = j.paid[k]
  BY JobChanges
<1> QED
  BY <1>1, <1>2, <1>3 DEF Accounted, Owed

LEMMA InstallCredit ==
  ASSUME TypeOK, CInv, NEW t \in Tip \cup {NoTip}, Install(t)
  PROVE  CInv'
<1> DEFINE new == IF payout = NoPayout THEN NewJob(t) ELSE Sent(NewJob(t), payout)
<1>1. Accounted(new)
  <2>1. payout = NoPayout \/ payout \in Payout
    BY DEF TypeOK
  <2> QED
    BY <2>1, NewAccounted
<1>2. jobs' = [a \in Age |-> IF a = 0 THEN new ELSE jobs[a - 1]]
  BY DEF Install
<1> HIDE DEF new
<1>3. \A a \in Age : Accounted(jobs'[a])
  BY <1>1, <1>2, AgeFacts DEF CInv
<1>4. ASSUME block'.age \in Age PROVE Owed(jobs'[block'.age], block'.key)
  <2>1. block' = [block EXCEPT !.age = Older(block.age)] /\ block \in Share \cup {NoShare}
    BY DEF Install, AgedRecord, TypeOK
  <2>2. block.age \in 0..(Gone + 1)
    BY <2>1, AgeFacts DEF Share, NoShare
  <2>3. block'.age = Older(block.age) /\ block'.key = block.key
    BY <2>1 DEF Share, NoShare
  <2>4. block.age \in Age /\ block'.age # 0 /\ block'.age - 1 = block.age
    BY <1>4, <2>2, <2>3, OlderNames
  <2> QED
    BY <1>2, <1>4, <2>3, <2>4 DEF CInv
<1> QED
  BY <1>3, <1>4 DEF CInv

LEMMA AuthorizeCredit ==
  ASSUME TypeOK, CInv, NEW p \in Payout, Authorize(p)
  PROVE  CInv'
<1>1. jobs' = [jobs EXCEPT ![0] = Sent(jobs[0], p)] /\ block' = block /\ jobs \in [Age -> Job]
  BY DEF Authorize, TypeOK
<1>2. Sent(jobs[0], p).seen = jobs[0].seen /\ Sent(jobs[0], p).paid = jobs[0].paid
  BY SentTyped, AgeFacts DEF TypeOK
<1>3. \A a \in Age : jobs'[a].seen = jobs[a].seen /\ jobs'[a].paid = jobs[a].paid
  BY <1>1, <1>2
<1> QED
  BY <1>1, <1>3 DEF CInv, Accounted, Owed

LEMMA SubmitCredit ==
  ASSUME TypeOK, CInv, Submit
  PROVE  CInv'
<1> DEFINE s == Head(up)
           seen == Entered(jobs[s.age], s.key)
<1>1. s \in Share /\ s.key \in Key
  BY RestOf
<1>2. block = NoShare /\ block.age \notin Age
  BY AgeFacts DEF Submit, Reading, NoShare
<1>3. \/ ~Fresh(s) /\ UNCHANGED <<jobs, block>>
      \/ Fresh(s) /\ block' = s /\ jobs' = [jobs EXCEPT ![s.age] = seen]
      \/ /\ Fresh(s) /\ block' = block
         /\ jobs' \in {[jobs EXCEPT ![s.age] = seen], [jobs EXCEPT ![s.age] = Paid(seen, s.key)]}
  BY DEF Submit
<1> HIDE DEF s
<1>4. CASE ~Fresh(s)
  BY <1>3, <1>4 DEF CInv
<1>5. CASE Fresh(s)
  <2>1. s.age \in Age /\ jobs[s.age] \in Job /\ s.key \notin jobs[s.age].seen
        /\ jobs \in [Age -> Job]
    BY <1>5 DEF Fresh, Known, TypeOK
  <2>2. Accounted(jobs[s.age]) /\ jobs[s.age].paid[s.key] = 0
    BY <1>1, <2>1 DEF CInv, Accounted
  <2>3. seen \in Job /\ s.key \in seen.seen
        /\ \/ seen.paid = [k \in Key |-> 0]
           \/ jobs[s.age].seen \subseteq seen.seen /\ seen.paid = jobs[s.age].paid
    BY <1>1, <2>1, EnteredJob DEF Seen
  <2> HIDE DEF seen
  <2>5. Accounted(seen) /\ Owed(seen, s.key)
    BY <1>1, <2>2, <2>3 DEF Accounted, Owed
  <2>6. Accounted(Paid(seen, s.key))
    BY <1>1, <2>3, <2>5, OwedPaid
  <2>7. \A a \in Age : Accounted(jobs'[a])
    BY <1>3, <1>5, <2>1, <2>5, <2>6 DEF CInv
  <2>8. block'.age \in Age => Owed(jobs'[block'.age], block'.key)
    BY <1>2, <1>3, <1>5, <2>1, <2>5
  <2> QED
    BY <2>7, <2>8 DEF CInv
<1> QED
  BY <1>4, <1>5

LEMMA BlockSubmittedCredit ==
  ASSUME TypeOK, CInv, BlockSubmitted
  PROVE  CInv'
<1>1. block' = NoShare /\ block'.age \notin Age
  BY AgeFacts DEF BlockSubmitted, NoShare
<1>2. CASE block.age \in Age
  <2>1. block.key \in Key /\ jobs[block.age] \in Job /\ jobs \in [Age -> Job]
    BY <1>2, AgeFacts DEF TypeOK, BlockSubmitted, Reading, Share
  <2>2. jobs' = [jobs EXCEPT ![block.age] = Paid(jobs[block.age], block.key)]
    BY <1>2 DEF BlockSubmitted
  <2>3. Accounted(jobs[block.age]) /\ Owed(jobs[block.age], block.key)
    BY <1>2 DEF CInv
  <2>4. Accounted(Paid(jobs[block.age], block.key))
    BY <2>1, <2>3, OwedPaid
  <2> QED
    BY <1>1, <2>1, <2>2, <2>4 DEF CInv
<1>3. CASE block.age \notin Age
  BY <1>1, <1>3 DEF CInv, BlockSubmitted
<1> QED
  BY <1>2, <1>3

LEMMA StepCredit == TypeOK /\ CInv /\ [Next]_vars => CInv'
<1> SUFFICES ASSUME TypeOK, CInv, [Next]_vars PROVE CInv'
  OBVIOUS
<1>1. ASSUME UNCHANGED <<jobs, block>> PROVE CInv'
  BY <1>1 DEF CInv
<1>2. ASSUME NEW t \in Tip \cup {NoTip}, Install(t) PROVE CInv'
  BY <1>2, InstallCredit
<1>3. ASSUME NEW p \in Payout, Authorize(p) PROVE CInv'
  BY <1>3, AuthorizeCredit
<1>4. ASSUME NEW d \in Suggests, Suggest(d) PROVE CInv'
  BY <1>1, <1>4 DEF Suggest
<1>5. ASSUME NEW d \in Retargets, Retarget(d) PROVE CInv'
  BY <1>1, <1>5 DEF Retarget
<1>6. CASE GraceOver \/ RetargetDue \/ Push \/ \E s \in Settings : SaveSettings(s)
  BY <1>1, <1>6 DEF GraceOver, RetargetDue, Push, SaveSettings
<1>7. CASE Submit
  BY <1>7, SubmitCredit
<1>8. CASE BlockSubmitted
  BY <1>8, BlockSubmittedCredit
<1>9. ASSUME Read \/ \E n \in Key, q \in Level : Find(n, q) PROVE CInv'
  BY <1>1, <1>9 DEF Read, Find, server
<1>10. CASE UNCHANGED vars
  BY <1>1, <1>10 DEF vars, server
<1> QED
  BY <1>2, <1>3, <1>4, <1>5, <1>6, <1>7, <1>8, <1>9, <1>10 DEF Next

\* on_submit credits no key of a job twice before the job's full dedupe set is
\* emptied, whatever is sent again, however jobs are replaced while a block share
\* waits for the node, and however small MAX_SHARES_PER_JOB is.
THEOREM NeverCreditedTwice == Spec => []CreditedOnce
<1>1. CInv => CreditedOnce
  BY DEF CInv, Accounted, CreditedOnce
<1>2. TypeOK /\ CInv /\ [Next]_vars => CInv'
  BY StepCredit
<1> QED
  BY InitType, StepType, InitCredit, <1>1, <1>2, PTL DEF Spec

-----------------------------------------------------------------------------
(* All work that is out can be rebuilt. *)

\* A job remembers every payout, so none is ever dropped.
PayoutsFit == IsFiniteSet(Payout) /\ Cardinality(Payout) <= MaxPayouts

Distinct(ps) == \A i, k \in 1..Len(ps) : ps[i] = ps[k] => i = k

\* Work that pays p on the job of age a can be rebuilt from the jobs js.
RebuiltFrom(js, a, p) ==
  a \in Age => IF IsReal(js[a]) THEN p \in Held(js[a].pays) ELSE p = NoPayout

\* WorkRecognised of jobs, messages down and up, and the miner's hands.
Recognised(js, dn, u, m) ==
  /\ \A i \in 1..Len(dn) : dn[i].is = "job" => RebuiltFrom(js, dn[i].age, dn[i].pay)
  /\ RebuiltFrom(js, m.age, m.pay)
  /\ \A i \in 1..Len(u) : RebuiltFrom(js, u[i].age, u[i].pay)

WInv == (\A a \in Age : Distinct(jobs[a].pays)) /\ Recognised(jobs, down, up, miner)

LEMMA RoomLeft ==
  ASSUME PayoutsFit, NEW ps \in Seq(Payout), Distinct(ps), NEW p \in Payout, p \notin Held(ps)
  PROVE  Len(ps) < MaxPayouts
<1>1. Len(ps) \in Nat /\ ps \in [1..Len(ps) -> Payout]
  BY LenProperties
<1>2. ps \in Bijection(1..Len(ps), Held(ps))
  BY <1>1 DEF Bijection, Injection, Surjection, IsInjective, Held, Distinct
<1>3. Cardinality(Held(ps)) = Len(ps)
  BY <1>1, <1>2, FS_CountingElements DEF ExistsBijection
<1>4. Held(ps) \subseteq Payout \ {p}
  BY <1>1 DEF Held
<1>5. IsFiniteSet(Payout \ {p}) /\ Cardinality(Payout \ {p}) = Cardinality(Payout) - 1
  BY FS_RemoveElement DEF PayoutsFit
<1>6. Cardinality(Held(ps)) <= Cardinality(Payout) - 1 /\ Cardinality(Payout) \in Nat
  BY <1>4, <1>5, FS_Subset, FS_CardinalityType DEF PayoutsFit
<1> QED
  BY <1>1, <1>3, <1>6, SizeAssumption DEF PayoutsFit

LEMMA RememberedHolds ==
  ASSUME PayoutsFit, NEW ps \in Seq(Payout), Distinct(ps), NEW p \in Payout
  PROVE  Distinct(Remembered(ps, p)) /\ Held(Remembered(ps, p)) = Held(ps) \cup {p}
<1>1. CASE p \in Held(ps)
  BY <1>1 DEF Remembered
<1>2. CASE p \notin Held(ps)
  <2> DEFINE qs == Append(ps, p)
  <2>1. Remembered(ps, p) = qs
    BY <1>2, RoomLeft DEF Remembered
  <2>2. Len(ps) \in Nat /\ Len(qs) = Len(ps) + 1 /\ qs[Len(ps) + 1] = p
        /\ \A i \in 1..Len(ps) : qs[i] = ps[i]
    BY LenProperties
  <2> HIDE DEF qs
  <2>3. Held(qs) = Held(ps) \cup {p}
    BY <2>2 DEF Held
  <2>4. Distinct(qs)
    BY <1>2, <2>2 DEF Distinct, Held
  <2> QED
    BY <2>1, <2>3, <2>4
<1> QED
  BY <1>1, <1>2

LEMMA SentHolds ==
  ASSUME PayoutsFit, NEW j \in Job, Distinct(j.pays), NEW p \in Payout
  PROVE  /\ Distinct(Sent(j, p).pays) /\ Sent(j, p).prev = j.prev
         /\ Held(j.pays) \subseteq Held(Sent(j, p).pays)
         /\ IsReal(j) => p \in Held(Sent(j, p).pays)
<1>1. j.pays \in Seq(Payout)
  BY DEF Job
<1>2. CASE IsReal(j)
  <2>1. Sent(j, p) = [j EXCEPT !.pays = Remembered(j.pays, p)]
    BY <1>2 DEF Sent
  <2>2. Sent(j, p).pays = Remembered(j.pays, p) /\ Sent(j, p).prev = j.prev
    BY <2>1 DEF Job
  <2> QED
    BY <1>1, <2>2, RememberedHolds
<1>3. CASE ~IsReal(j)
  BY <1>3 DEF Sent
<1> QED
  BY <1>2, <1>3

\* Work stays rebuildable while its job keeps its template and its payouts.
LEMMA RebuiltStays ==
  ASSUME \A a \in Age : jobs'[a].prev = jobs[a].prev /\ Held(jobs[a].pays) \subseteq Held(jobs'[a].pays)
  PROVE  \A a, p : RebuiltFrom(jobs, a, p) => RebuiltFrom(jobs', a, p)
BY DEF RebuiltFrom, IsReal

LEMMA WorkKept ==
  ASSUME WInv, UNCHANGED <<down, up, miner>>,
         \A a \in Age : /\ jobs'[a].prev = jobs[a].prev /\ Distinct(jobs'[a].pays)
                        /\ Held(jobs[a].pays) \subseteq Held(jobs'[a].pays)
  PROVE  WInv'
<1>1. \A a, p : RebuiltFrom(jobs, a, p) => RebuiltFrom(jobs', a, p)
  BY RebuiltStays
<1> QED
  BY <1>1 DEF WInv, Recognised

LEMMA InitWork == Init => WInv
<1> SUFFICES ASSUME Init PROVE WInv
  OBVIOUS
<1>1. \A a \in Age : Distinct(jobs[a].pays)
  BY DEF Init, NewJob, Distinct
<1>2. Recognised(jobs, down, up, miner)
  BY SizeAssumption DEF Init, Recognised, RebuiltFrom, Age, Gone
<1> QED
  BY <1>1, <1>2 DEF WInv

LEMMA InstallWork ==
  ASSUME PayoutsFit, TypeOK, WInv, NEW t \in Tip \cup {NoTip}, Install(t)
  PROVE  WInv'
<1> DEFINE new == IF payout = NoPayout THEN NewJob(t) ELSE Sent(NewJob(t), payout)
           aged == AgedSeq(down, AgedMsg)
<1>1. payout = NoPayout \/ payout \in Payout
  BY DEF TypeOK
<1>2. NewJob(t) \in Job /\ Distinct(NewJob(t).pays) /\ NewJob(t).prev = t
  BY NewJobTyped DEF NewJob, Distinct
<1>3. /\ Distinct(new.pays) /\ new.prev = t
      /\ payout # NoPayout /\ t # NoTip => payout \in Held(new.pays)
  BY <1>1, <1>2, SentHolds DEF IsReal
<1>4. jobs' = [a \in Age |-> IF a = 0 THEN new ELSE jobs[a - 1]]
  BY DEF Install
<1> HIDE DEF new
<1>5. \A a \in Age : Distinct(jobs'[a].pays)
  BY <1>3, <1>4, AgeFacts DEF WInv
<1>6. ASSUME NEW a \in 0..(Gone + 1), NEW p, RebuiltFrom(jobs, a, p) PROVE RebuiltFrom(jobs', Older(a), p)
  <2> SUFFICES ASSUME Older(a) \in Age
               PROVE  IF IsReal(jobs'[Older(a)]) THEN p \in Held(jobs'[Older(a)].pays)
                      ELSE p = NoPayout
    BY DEF RebuiltFrom
  <2>1. a \in Age /\ jobs'[Older(a)] = jobs[a]
    BY <1>4, OlderNames
  <2> QED
    BY <1>6, <2>1 DEF RebuiltFrom
<1>7. \A i \in 1..Len(down') : down'[i].is = "job" => RebuiltFrom(jobs', down'[i].age, down'[i].pay)
  <2>1. down \in Seq(DownMsg) /\ Len(down) \in Nat /\ Len(aged) = Len(down)
        /\ aged \in Seq(DownMsg)
    BY DownAged, LenProperties DEF TypeOK
  <2>2. ASSUME NEW i \in 1..Len(down), aged[i].is = "job"
        PROVE  RebuiltFrom(jobs', aged[i].age, aged[i].pay)
    <3>1. down[i] \in DownMsg /\ aged[i] = AgedMsg(down[i])
      BY <2>1, ElementOfSeq DEF AgedSeq
    <3>2. down[i].is = "job"
      BY <2>2, <3>1 DEF AgedMsg
    <3>3. down[i].age \in 0..Gone /\ RebuiltFrom(jobs, down[i].age, down[i].pay)
      BY <3>1, <3>2 DEF DownMsg, WInv, Recognised
    <3>4. aged[i].age = Older(down[i].age) /\ aged[i].pay = down[i].pay
      BY <3>1, <3>2 DEF AgedMsg, AgedRecord, DownMsg
    <3> QED
      BY <1>6, <3>3, <3>4, AgeFacts
  <2>3. down' = IF payout = NoPayout THEN aged ELSE Append(aged, Notify(NewJob(t), payout))
    BY DEF Install
  <2> HIDE DEF aged
  <2>4. CASE payout = NoPayout
    BY <2>1, <2>2, <2>3, <2>4
  <2>5. CASE payout # NoPayout
    <3>1. /\ Len(down') = Len(down) + 1 /\ down'[Len(down) + 1] = Notify(NewJob(t), payout)
          /\ \A i \in 1..Len(down) : down'[i] = aged[i]
      BY <2>1, <2>3, <2>5
    <3>2. RebuiltFrom(jobs', 0, IF t # NoTip THEN payout ELSE NoPayout)
      BY <1>3, <1>4, <2>5, AgeFacts DEF RebuiltFrom, IsReal
    <3>3. Notify(NewJob(t), payout).age = 0
          /\ Notify(NewJob(t), payout).pay = IF t # NoTip THEN payout ELSE NoPayout
      BY <1>2 DEF Notify, JobMsg, IsReal
    <3> QED
      BY <2>1, <2>2, <3>1, <3>2, <3>3
  <2> QED
    BY <2>4, <2>5
<1>8. RebuiltFrom(jobs', miner'.age, miner'.pay)
  <2>1. miner.age \in 0..(Gone + 1) /\ RebuiltFrom(jobs, miner.age, miner.pay)
    BY DEF TypeOK, WInv, Recognised
  <2>2. miner'.age = Older(miner.age) /\ miner'.pay = miner.pay
    BY DEF TypeOK, Install, AgedRecord
  <2> QED
    BY <1>6, <2>1, <2>2
<1>9. \A i \in 1..Len(up') : RebuiltFrom(jobs', up'[i].age, up'[i].pay)
  <2>1. up \in Seq(Share) /\ Len(up) \in Nat /\ up' = AgedSeq(up, AgedRecord) /\ Len(up') = Len(up)
    BY UpAged, LenProperties DEF TypeOK, Install
  <2> SUFFICES ASSUME NEW i \in 1..Len(up) PROVE RebuiltFrom(jobs', up'[i].age, up'[i].pay)
    BY <2>1
  <2>2. up[i] \in Share /\ up'[i] = AgedRecord(up[i])
    BY <2>1, ElementOfSeq DEF AgedSeq
  <2>3. up'[i].age = Older(up[i].age) /\ up'[i].pay = up[i].pay /\ up[i].age \in 0..(Gone + 1)
    BY <2>2, AgeFacts DEF AgedRecord, Share
  <2> QED
    BY <1>6, <2>3 DEF WInv, Recognised
<1> QED
  BY <1>5, <1>7, <1>8, <1>9 DEF WInv, Recognised

LEMMA AuthorizeWork ==
  ASSUME PayoutsFit, TypeOK, WInv, NEW p \in Payout, Authorize(p)
  PROVE  WInv'
<1> DEFINE j == Sent(jobs[0], p)
           m == Notify(jobs[0], p)
<1>1. jobs' = [jobs EXCEPT ![0] = j] /\ jobs \in [Age -> Job] /\ 0 \in Age
  BY AgeFacts DEF Authorize, TypeOK
<1>2. /\ Distinct(j.pays) /\ j.prev = jobs[0].prev /\ Held(jobs[0].pays) \subseteq Held(j.pays)
      /\ IsReal(jobs[0]) => p \in Held(j.pays)
  BY <1>1, SentHolds DEF WInv
<1>3. m.age = 0 /\ m.pay = IF IsReal(jobs[0]) THEN p ELSE NoPayout
  BY DEF Notify, JobMsg
<1> HIDE DEF j
<1>4. \A a \in Age : /\ jobs'[a].prev = jobs[a].prev /\ Distinct(jobs'[a].pays)
                     /\ Held(jobs[a].pays) \subseteq Held(jobs'[a].pays)
  BY <1>1, <1>2 DEF WInv
<1>5. \A a, q : RebuiltFrom(jobs, a, q) => RebuiltFrom(jobs', a, q)
  BY <1>4, RebuiltStays
<1>6. RebuiltFrom(jobs', m.age, m.pay)
  BY <1>1, <1>2, <1>3 DEF RebuiltFrom, IsReal
<1> HIDE DEF m
<1>7. /\ down \in Seq(DownMsg) /\ Len(down) \in Nat /\ m \in DownMsg
      /\ DiffMsg(diff') \in DownMsg /\ DiffMsg(diff').is = "diff"
      /\ down' = down \o <<DiffMsg(diff'), m>>
  <2>1. diff' \in Nat \ {0}
    BY SettingsTyped DEF TypeOK, Authorize, SetDiff
  <2> QED
    BY <2>1, LenProperties, NotifyTyped DEF TypeOK, Authorize, DiffMsg, DownMsg, m
<1>8. /\ Len(down') = Len(down) + 2
      /\ \A i \in 1..(Len(down) + 2) :
           down'[i] = IF i <= Len(down) THEN down[i] ELSE <<DiffMsg(diff'), m>>[i - Len(down)]
  <2>1. <<DiffMsg(diff'), m>> \in Seq(DownMsg) /\ Len(<<DiffMsg(diff'), m>>) = 2
    BY <1>7
  <2> QED
    BY <1>7, <2>1, ConcatProperties
<1>9. \A i \in 1..Len(down') : down'[i].is = "job" => RebuiltFrom(jobs', down'[i].age, down'[i].pay)
  <2> SUFFICES ASSUME NEW i \in 1..(Len(down) + 2), down'[i].is = "job"
               PROVE  RebuiltFrom(jobs', down'[i].age, down'[i].pay)
    BY <1>8
  <2>1. CASE i <= Len(down)
    <3>1. i \in 1..Len(down) /\ down'[i] = down[i]
      BY <1>7, <1>8, <2>1
    <3> QED
      BY <3>1, <1>5 DEF WInv, Recognised
  <2>2. CASE i = Len(down) + 1
    BY <1>7, <1>8, <2>2
  <2>3. CASE i = Len(down) + 2
    <3>1. down'[i] = m
      BY <1>7, <1>8, <2>3
    <3> QED
      BY <1>6, <3>1
  <2> QED
    BY <1>7, <2>1, <2>2, <2>3
<1> QED
  BY <1>4, <1>5, <1>9 DEF WInv, Recognised, Authorize

\* Messages about the difficulty concern no work.
LEMMA DiffSent ==
  ASSUME TypeOK, WInv, UNCHANGED <<jobs, up, miner>>,
         \/ down' = down
         \/ \E d \in Nat \ {0} : down' = Append(down, DiffMsg(d))
  PROVE  WInv'
<1>1. \A a, q : RebuiltFrom(jobs, a, q) => RebuiltFrom(jobs', a, q)
  BY DEF RebuiltFrom
<1>2. CASE down' = down
  BY <1>1, <1>2 DEF WInv, Recognised
<1>3. ASSUME NEW d \in Nat \ {0}, down' = Append(down, DiffMsg(d)) PROVE WInv'
  <2>1. down \in Seq(DownMsg) /\ Len(down) \in Nat /\ DiffMsg(d).is = "diff"
    BY LenProperties DEF TypeOK, DiffMsg
  <2>2. /\ Len(down') = Len(down) + 1 /\ down'[Len(down) + 1] = DiffMsg(d)
        /\ \A i \in 1..Len(down) : down'[i] = down[i]
    BY <1>3, <2>1
  <2>3. \A i \in 1..Len(down') : down'[i].is = "job" => RebuiltFrom(jobs', down'[i].age, down'[i].pay)
    BY <1>1, <2>1, <2>2 DEF WInv, Recognised
  <2> QED
    BY <1>1, <2>3 DEF WInv, Recognised
<1> QED
  BY <1>2, <1>3

LEMMA SubmitWork ==
  ASSUME TypeOK, WInv, Submit
  PROVE  WInv'
<1> DEFINE s == Head(up)
           seen == Entered(jobs[s.age], s.key)
<1>1. s \in Share /\ s.key \in Key /\ UNCHANGED <<down, miner>>
  BY RestOf DEF Submit
<1>2. \A i \in 1..Len(up') : /\ i + 1 \in 1..Len(up) /\ up[i + 1] \in Share
                             /\ up'[i].age = up[i + 1].age /\ up'[i].pay = up[i + 1].pay
  <2>1. \A i \in 1..Len(up) : up[i] \in Share
    BY ElementOfSeq DEF TypeOK
  <2> QED
    BY <2>1, RestOf DEF Share
<1>3. \/ jobs' = jobs
      \/ /\ Fresh(s)
         /\ jobs' \in {[jobs EXCEPT ![s.age] = seen], [jobs EXCEPT ![s.age] = Paid(seen, s.key)]}
  BY DEF Submit
<1> HIDE DEF s
<1>5. \A a \in Age : jobs'[a].prev = jobs[a].prev /\ jobs'[a].pays = jobs[a].pays
  <2>1. CASE Fresh(s)
    <3>1. s.age \in Age /\ jobs[s.age] \in Job /\ jobs \in [Age -> Job]
      BY <2>1 DEF Fresh, Known, TypeOK
    <3>2. seen \in Job /\ seen.pays = jobs[s.age].pays /\ seen.prev = jobs[s.age].prev
      BY <1>1, <3>1, EnteredJob
    <3> HIDE DEF seen
    <3>3. Paid(seen, s.key).pays = jobs[s.age].pays /\ Paid(seen, s.key).prev = jobs[s.age].prev
      BY <1>1, <3>2, JobChanges
    <3> QED
      BY <1>3, <3>1, <3>2, <3>3
  <2> QED
    BY <1>3, <2>1
<1>6. \A a, q : RebuiltFrom(jobs, a, q) => RebuiltFrom(jobs', a, q)
  BY <1>5, RebuiltStays
<1>7. \A i \in 1..Len(up') : RebuiltFrom(jobs', up'[i].age, up'[i].pay)
  <2> SUFFICES ASSUME NEW i \in 1..Len(up') PROVE RebuiltFrom(jobs', up'[i].age, up'[i].pay)
    OBVIOUS
  <2> QED
    BY <1>2, <1>6 DEF WInv, Recognised
<1> QED
  BY <1>1, <1>5, <1>6, <1>7 DEF WInv, Recognised

LEMMA BlockSubmittedWork ==
  ASSUME TypeOK, WInv, BlockSubmitted
  PROVE  WInv'
<1>1. \A a \in Age : jobs'[a].prev = jobs[a].prev /\ jobs'[a].pays = jobs[a].pays
  <2>1. CASE block.age \in Age
    <3>1. block.key \in Key /\ jobs \in [Age -> Job] /\ jobs[block.age] \in Job
      BY <2>1, AgeFacts DEF TypeOK, BlockSubmitted, Reading, Share
    <3>2. jobs' = [jobs EXCEPT ![block.age] = Paid(jobs[block.age], block.key)]
      BY <2>1 DEF BlockSubmitted
    <3>3. /\ Paid(jobs[block.age], block.key).pays = jobs[block.age].pays
          /\ Paid(jobs[block.age], block.key).prev = jobs[block.age].prev
      BY <3>1, JobChanges
    <3> QED
      BY <2>1, <3>1, <3>2, <3>3
  <2>2. CASE block.age \notin Age
    BY <2>2 DEF BlockSubmitted
  <2> QED
    BY <2>1, <2>2
<1> QED
  BY <1>1, WorkKept DEF BlockSubmitted, WInv

LEMMA ReadWork ==
  ASSUME TypeOK, WInv, Read
  PROVE  WInv'
<1> DEFINE m == Head(down)
<1>6. down \in Seq(DownMsg) /\ down # <<>> /\ down' = Tail(down) /\ UNCHANGED <<jobs, up>>
  BY DEF TypeOK, Read, server
<1>1. /\ down \in Seq(DownMsg) /\ down # <<>> /\ down' = Tail(down) /\ UNCHANGED <<jobs, up>>
      /\ m \in DownMsg /\ m = down[1]
  BY <1>6, HeadTailProperties
<1>2. /\ Len(down') = Len(down) - 1 /\ Len(down) \in Nat \ {0}
      /\ \A i \in 1..Len(down') : down'[i] = down[i + 1]
  BY <1>1, HeadTailProperties, LenProperties, EmptySeq
<1>3. \A a, q : RebuiltFrom(jobs, a, q) => RebuiltFrom(jobs', a, q)
  BY <1>1 DEF RebuiltFrom
<1>4. \A i \in 1..Len(down') : down'[i].is = "job" => RebuiltFrom(jobs', down'[i].age, down'[i].pay)
  <2> SUFFICES ASSUME NEW i \in 1..Len(down'), down'[i].is = "job"
               PROVE  RebuiltFrom(jobs', down'[i].age, down'[i].pay)
    OBVIOUS
  <2>1. i + 1 \in 1..Len(down) /\ down'[i] = down[i + 1]
    BY <1>2
  <2> QED
    BY <1>3, <2>1 DEF WInv, Recognised
<1>5. RebuiltFrom(jobs', miner'.age, miner'.pay)
  <2>1. miner' = IF m.is = "diff" THEN [miner EXCEPT !.diff = m.d]
                 ELSE [miner EXCEPT !.age = m.age, !.pay = m.pay]
    BY DEF Read
  <2>2. m.is # "diff" => RebuiltFrom(jobs, m.age, m.pay)
    BY <1>1, <1>2 DEF WInv, Recognised, DownMsg
  <2> HIDE DEF m
  <2>3. CASE m.is = "diff"
    BY <1>3, <2>1, <2>3 DEF TypeOK, WInv, Recognised
  <2>4. CASE m.is # "diff"
    BY <1>3, <2>1, <2>2, <2>4 DEF TypeOK
  <2> QED
    BY <2>3, <2>4
<1> QED
  BY <1>1, <1>3, <1>4, <1>5 DEF WInv, Recognised

LEMMA FindWork ==
  ASSUME TypeOK, WInv, NEW n \in Key, NEW q \in Level, Find(n, q)
  PROVE  WInv'
<1> DEFINE s == [age |-> miner.age, pay |-> miner.pay, key |-> n, q |-> q, told |-> miner.diff,
                waited |-> ~Reading]
<1>1. up \in Seq(Share) /\ Len(up) \in Nat /\ up' = Append(up, s)
      /\ UNCHANGED <<jobs, down, miner>>
  BY LenProperties DEF TypeOK, Find, server
<1>2. \A a, p : RebuiltFrom(jobs, a, p) => RebuiltFrom(jobs', a, p)
  BY <1>1 DEF RebuiltFrom
<1>3. RebuiltFrom(jobs, s.age, s.pay)
  BY DEF WInv, Recognised
<1> HIDE DEF s
<1>4. /\ Len(up') = Len(up) + 1 /\ up'[Len(up) + 1] = s
      /\ \A i \in 1..Len(up) : up'[i] = up[i]
  BY <1>1
<1>5. \A i \in 1..Len(up') : RebuiltFrom(jobs', up'[i].age, up'[i].pay)
  BY <1>1, <1>2, <1>3, <1>4 DEF WInv, Recognised
<1> QED
  BY <1>1, <1>2, <1>5 DEF WInv, Recognised

LEMMA StepWork == PayoutsFit /\ TypeOK /\ WInv /\ [Next]_vars => WInv'
<1> SUFFICES ASSUME PayoutsFit, TypeOK, WInv, [Next]_vars PROVE WInv'
  OBVIOUS
<1>1. ASSUME NEW t \in Tip \cup {NoTip}, Install(t) PROVE WInv'
  BY <1>1, InstallWork
<1>2. ASSUME NEW p \in Payout, Authorize(p) PROVE WInv'
  BY <1>2, AuthorizeWork
<1>3. ASSUME NEW d \in Suggests, Suggest(d) PROVE WInv'
  <2>1. d \in Nat \ {0}
    BY DiffAssumption
  <2> QED
    BY <1>3, <2>1, DiffSent DEF Suggest
<1>4. ASSUME NEW d \in Retargets, Retarget(d) PROVE WInv'
  <2>1. d \in Nat \ {0}
    BY DiffAssumption
  <2> QED
    BY <1>4, <2>1, DiffSent DEF Retarget
<1>5. CASE GraceOver \/ RetargetDue \/ UNCHANGED vars
  BY <1>5, DiffSent DEF GraceOver, RetargetDue, vars, server
<1>6. CASE Submit
  BY <1>6, SubmitWork
<1>7. CASE BlockSubmitted
  BY <1>7, BlockSubmittedWork
<1>8. CASE Read
  BY <1>8, ReadWork
<1>9. ASSUME NEW n \in Key, NEW q \in Level, Find(n, q) PROVE WInv'
  BY <1>9, FindWork
<1>10. ASSUME NEW s \in Settings, SaveSettings(s) PROVE WInv'
  BY <1>10, DiffSent DEF SaveSettings
<1>11. CASE Push
  <2>1. settings.diff \in Nat \ {0}
    BY SettingsTyped
  <2> QED
    BY <1>11, <2>1, DiffSent DEF Push, SetDiff
<1> QED
  BY <1>1, <1>2, <1>3, <1>4, <1>5, <1>6, <1>7, <1>8, <1>9, <1>10, <1>11
  DEF Next

\* Work on a job that is kept can be rebuilt wherever it is, in a message, in
\* the miner or in a share under way, also after authorizations for other
\* addresses, as long as MAX_PAYOUTS_PER_JOB covers the addresses used.
THEOREM WorkAlwaysRecognised ==
  ASSUME PayoutsFit
  PROVE  Spec => []WorkRecognised
<1>1. WInv => WorkRecognised
  BY DEF WInv, Recognised, WorkRecognised, RebuiltFrom, Rebuilt
<1>2. TypeOK /\ WInv /\ [Next]_vars => WInv'
  BY StepWork
<1> QED
  BY InitType, StepType, InitWork, <1>1, <1>2, PTL DEF Spec

-----------------------------------------------------------------------------
(* Shares in flight over a change of difficulty. *)

\* Once the grace is over nobody acts on an earlier difficulty any more: the
\* messages, the miner and the shares that wait behind no block share agree with
\* the server.
CaughtUp(dn, u, m, d) ==
  /\ \A i \in 1..Len(dn) : dn[i].is = "diff" => dn[i].d = d
  /\ m.diff \in {0, d}
  /\ \A i \in 1..Len(u) : u[i].waited \/ u[i].told = d

FInv ==
  /\ prevDiff # 0 => diff # 0
  /\ \A i \in 1..Len(up) : up[i].told # 0 /\ up[i].q >= up[i].told
  /\ ~grace => CaughtUp(down, up, miner, diff)

LEMMA InitFlight == Init => FInv
BY DEF Init, FInv, CaughtUp

\* What the messages down, the shares up and the miner say of difficulties was
\* said before.
NothingNew ==
  /\ \A i \in 1..Len(down') : down'[i].is = "diff" =>
       \E k \in 1..Len(down) : down[k].is = "diff" /\ down[k].d = down'[i].d
  /\ \A i \in 1..Len(up') :
       \E k \in 1..Len(up) : /\ up[k].told = up'[i].told /\ up[k].q = up'[i].q
                             /\ up[k].waited => up'[i].waited
  /\ \/ miner'.diff = miner.diff
     \/ \E k \in 1..Len(down) : down[k].is = "diff" /\ down[k].d = miner'.diff

LEMMA QuietFlight ==
  ASSUME FInv, UNCHANGED <<diff, prevDiff, grace>>, NothingNew
  PROVE  FInv'
<1>1. \A i \in 1..Len(up') : up'[i].told # 0 /\ up'[i].q >= up'[i].told
  BY DEF FInv, NothingNew
<1>2. ASSUME CaughtUp(down, up, miner, diff) PROVE CaughtUp(down', up', miner', diff)
  BY <1>2 DEF CaughtUp, NothingNew
<1> QED
  BY <1>1, <1>2 DEF FInv

\* A step that leaves the miner and both directions alone.
LEMMA StillFlight ==
  ASSUME FInv, UNCHANGED <<diff, prevDiff, grace, down, up, miner>>
  PROVE  FInv'
BY DEF FInv, CaughtUp

LEMMA InstallFlight ==
  ASSUME TypeOK, FInv, NEW t \in Tip \cup {NoTip}, Install(t)
  PROVE  FInv'
<1> DEFINE aged == AgedSeq(down, AgedMsg)
<1>1. /\ down \in Seq(DownMsg) /\ Len(down) \in Nat
      /\ aged \in Seq(DownMsg) /\ Len(aged) = Len(down)
  BY DownAged, LenProperties DEF TypeOK
<1>2. /\ up \in Seq(Share) /\ Len(up) \in Nat
      /\ up' \in Seq(Share) /\ Len(up') = Len(up)
  BY UpAged, LenProperties DEF TypeOK, Install
<1>3. \A i \in 1..Len(down) : aged[i].is = "diff" => down[i].is = "diff" /\ down[i].d = aged[i].d
  <2> SUFFICES ASSUME NEW i \in 1..Len(down), aged[i].is = "diff"
               PROVE  down[i].is = "diff" /\ down[i].d = aged[i].d
    OBVIOUS
  <2>1. down[i] \in DownMsg /\ aged[i] = AgedMsg(down[i])
    BY <1>1, ElementOfSeq DEF AgedSeq
  <2> QED
    BY <2>1 DEF AgedMsg, AgedRecord, DownMsg
<1>4. down' = IF payout = NoPayout THEN aged ELSE Append(aged, Notify(NewJob(t), payout))
  BY DEF Install
<1> HIDE DEF aged
<1>5. \A i \in 1..Len(down') : down'[i].is = "diff" =>
        \E k \in 1..Len(down) : down[k].is = "diff" /\ down[k].d = down'[i].d
  <2>1. CASE payout = NoPayout
    BY <1>1, <1>3, <1>4, <2>1
  <2>2. CASE payout # NoPayout
    <3>1. /\ Len(down') = Len(down) + 1 /\ down'[Len(down) + 1] = Notify(NewJob(t), payout)
          /\ \A i \in 1..Len(down) : down'[i] = aged[i]
      BY <1>1, <1>4, <2>2
    <3>2. Notify(NewJob(t), payout).is = "job"
      BY DEF Notify, JobMsg
    <3> QED
      BY <1>1, <1>3, <3>1, <3>2
  <2> QED
    BY <2>1, <2>2
<1>6. \A i \in 1..Len(up') : /\ up[i].told = up'[i].told /\ up[i].q = up'[i].q
                             /\ up[i].waited = up'[i].waited
  <2> SUFFICES ASSUME NEW i \in 1..Len(up)
               PROVE  /\ up[i].told = up'[i].told /\ up[i].q = up'[i].q
                      /\ up[i].waited = up'[i].waited
    BY <1>2
  <2>1. up[i] \in Share /\ up'[i] = AgedRecord(up[i])
    BY <1>2, ElementOfSeq DEF Install, AgedSeq
  <2> QED
    BY <2>1 DEF AgedRecord, Share
<1>7. miner'.diff = miner.diff
  BY DEF TypeOK, Install, AgedRecord
<1>8. NothingNew
  BY <1>2, <1>5, <1>6, <1>7 DEF NothingNew
<1> QED
  BY <1>8, QuietFlight DEF Install

\* A change of difficulty, whoever makes it, with its message sent.
LEMMA ChangedFlight ==
  ASSUME TypeOK, FInv, NEW d \in Nat \ {0}, SetDiff(d), UNCHANGED <<up, miner>>,
         \A i \in 1..Len(down') : down'[i].is = "diff" =>
           \/ down'[i].d = d
           \/ \E k \in 1..Len(down) : down[k].is = "diff" /\ down[k].d = down'[i].d
  PROVE  FInv'
<1>1. diff' = d
  BY DEF SetDiff
<1>2. CASE diff # 0 /\ d # diff
  BY <1>1, <1>2 DEF SetDiff, FInv
<1>3. CASE diff = d
  <2>1. UNCHANGED <<prevDiff, grace, diff>>
    BY <1>3 DEF SetDiff
  <2>2. CaughtUp(down, up, miner, diff) => CaughtUp(down', up', miner', diff')
    BY <1>1, <1>3 DEF CaughtUp
  <2> QED
    BY <2>1, <2>2 DEF FInv
<1>4. CASE diff = 0
  <2>1. UNCHANGED <<prevDiff, grace>>
    BY <1>4 DEF SetDiff
  <2>2. down \in Seq(DownMsg) /\ \A i \in 1..Len(down) : down[i] \in DownMsg
    BY ElementOfSeq DEF TypeOK
  <2>3. CaughtUp(down, up, miner, diff) => CaughtUp(down', up', miner', diff')
    <3> SUFFICES ASSUME CaughtUp(down, up, miner, diff) PROVE CaughtUp(down', up', miner', diff')
      OBVIOUS
    <3>1. \A i \in 1..Len(down) : down[i].is # "diff"
      BY <1>4, <2>2 DEF CaughtUp, DownMsg
    <3>2. \A i \in 1..Len(up) : up[i].waited
      BY <1>4 DEF CaughtUp, FInv
    <3> QED
      BY <1>1, <1>4, <3>1, <3>2 DEF CaughtUp
  <2> QED
    BY <1>1, <2>1, <2>3 DEF FInv
<1> QED
  BY <1>2, <1>3, <1>4

LEMMA OneChange ==
  ASSUME TypeOK, FInv, NEW d \in Nat \ {0}, SetDiff(d), UNCHANGED <<up, miner>>,
         down' = Append(down, DiffMsg(d))
  PROVE  FInv'
<1>1. down \in Seq(DownMsg) /\ Len(down) \in Nat /\ DiffMsg(d).is = "diff" /\ DiffMsg(d).d = d
  BY LenProperties DEF TypeOK, DiffMsg
<1>2. /\ Len(down') = Len(down) + 1 /\ down'[Len(down) + 1] = DiffMsg(d)
      /\ \A i \in 1..Len(down) : down'[i] = down[i]
  BY <1>1
<1>3. \A i \in 1..Len(down') : down'[i].is = "diff" =>
        \/ down'[i].d = d
        \/ \E k \in 1..Len(down) : down[k].is = "diff" /\ down[k].d = down'[i].d
  BY <1>1, <1>2
<1> QED
  BY <1>3, ChangedFlight

LEMMA AuthorizeFlight ==
  ASSUME TypeOK, FInv, NEW p \in Payout, Authorize(p)
  PROVE  FInv'
<1> DEFINE d == IF suggested # 0 /\ settings.auto THEN suggested ELSE settings.diff
           m == Notify(jobs[0], p)
           sent == <<DiffMsg(d), m>>
<1>1. d \in Nat \ {0}
  BY SettingsTyped DEF TypeOK
<1>2. SetDiff(d) /\ diff' = d /\ UNCHANGED <<up, miner>> /\ down' = down \o <<DiffMsg(diff'), m>>
  BY DEF Authorize, SetDiff
<1> HIDE DEF d
<1>3. DiffMsg(d) \in DownMsg /\ m \in DownMsg /\ DiffMsg(d).d = d /\ m.is = "job"
  BY <1>1, NotifyTyped DEF DiffMsg, DownMsg, Notify, JobMsg
<1> HIDE DEF m
<1>4. sent \in Seq(DownMsg) /\ Len(sent) = 2 /\ sent[1] = DiffMsg(d) /\ sent[2] = m
  BY <1>3
<1>5. down \in Seq(DownMsg) /\ Len(down) \in Nat /\ down' = down \o sent
  BY <1>2, LenProperties DEF TypeOK
<1> HIDE DEF sent
<1>6. /\ Len(down') = Len(down) + 2
      /\ \A i \in 1..(Len(down) + 2) :
           down'[i] = IF i <= Len(down) THEN down[i] ELSE sent[i - Len(down)]
  BY <1>4, <1>5, ConcatProperties
<1>7. ASSUME NEW i \in 1..Len(down'), down'[i].is = "diff"
      PROVE  \/ down'[i].d = d
             \/ \E k \in 1..Len(down) : down[k].is = "diff" /\ down[k].d = down'[i].d
  <2>1. CASE i \in 1..Len(down)
    BY <1>5, <1>6, <1>7, <2>1
  <2>2. CASE i = Len(down) + 1
    BY <1>3, <1>4, <1>5, <1>6, <2>2
  <2>3. CASE i = Len(down) + 2
    <3>1. down'[i] = m
      BY <1>4, <1>5, <1>6, <2>3
    <3> QED
      BY <1>3, <1>7, <3>1
  <2> QED
    BY <1>5, <1>6, <2>1, <2>2, <2>3
<1> QED
  BY <1>1, <1>2, <1>7, ChangedFlight

LEMMA SubmitFlight ==
  ASSUME TypeOK, FInv, Submit
  PROVE  FInv'
<1>1. UNCHANGED <<diff, prevDiff, grace, down, miner>>
  BY DEF Submit
<1>2. \A i \in 1..Len(up) : up[i] \in Share
  BY ElementOfSeq DEF TypeOK
<1>3. \A i \in 1..Len(up') :
        /\ i + 1 \in 1..Len(up)
        /\ up[i + 1].told = up'[i].told /\ up[i + 1].q = up'[i].q
        /\ up[i + 1].waited => up'[i].waited
  BY <1>2, RestOf DEF Share
<1>4. NothingNew
  BY <1>1, <1>3 DEF NothingNew
<1> QED
  BY <1>1, <1>4, QuietFlight

LEMMA ReadFlight ==
  ASSUME TypeOK, FInv, Read
  PROVE  FInv'
<1> DEFINE m == Head(down)
<1>1. down \in Seq(DownMsg) /\ down # <<>> /\ down' = Tail(down)
      /\ UNCHANGED <<diff, prevDiff, grace, up>>
  BY DEF TypeOK, Read, server
<1>2. m = down[1] /\ Len(down') = Len(down) - 1 /\ Len(down) \in Nat \ {0}
      /\ \A i \in 1..Len(down') : down'[i] = down[i + 1]
  BY <1>1, HeadTailProperties, LenProperties, EmptySeq
<1>3. miner' = IF m.is = "diff" THEN [miner EXCEPT !.diff = m.d]
               ELSE [miner EXCEPT !.age = m.age, !.pay = m.pay]
  BY DEF Read
<1> HIDE DEF m
<1>4. \A i \in 1..Len(down') : down'[i].is = "diff" =>
        \E k \in 1..Len(down) : down[k].is = "diff" /\ down[k].d = down'[i].d
  <2> SUFFICES ASSUME NEW i \in 1..Len(down'), down'[i].is = "diff"
               PROVE  \E k \in 1..Len(down) : down[k].is = "diff" /\ down[k].d = down'[i].d
    OBVIOUS
  <2>1. i + 1 \in 1..Len(down) /\ down'[i] = down[i + 1]
    BY <1>2
  <2> QED
    BY <2>1
<1>5. IF m.is = "diff" THEN miner'.diff = m.d ELSE miner'.diff = miner.diff
  BY <1>3 DEF TypeOK
<1>6. 1 \in 1..Len(down)
  BY <1>2
<1>7. NothingNew
  BY <1>1, <1>2, <1>4, <1>5, <1>6 DEF NothingNew
<1> QED
  BY <1>1, <1>7, QuietFlight

LEMMA FindFlight ==
  ASSUME TypeOK, FInv, NEW n \in Key, NEW q \in Level, Find(n, q)
  PROVE  FInv'
<1> DEFINE s == [age |-> miner.age, pay |-> miner.pay, key |-> n, q |-> q, told |-> miner.diff,
                waited |-> ~Reading]
<1>1. /\ up \in Seq(Share) /\ Len(up) \in Nat /\ up' = Append(up, s)
      /\ UNCHANGED <<diff, prevDiff, grace, down, miner>>
  BY LenProperties DEF TypeOK, Find, server
<1>2. s.told = miner.diff /\ s.told # 0 /\ s.q >= s.told
  BY DEF Find
<1> HIDE DEF s
<1>3. /\ Len(up') = Len(up) + 1 /\ up'[Len(up) + 1] = s
      /\ \A i \in 1..Len(up) : up'[i] = up[i]
  BY <1>1
<1>4. \A i \in 1..Len(up') : up'[i].told # 0 /\ up'[i].q >= up'[i].told
  BY <1>1, <1>2, <1>3 DEF FInv
<1>5. ASSUME CaughtUp(down, up, miner, diff) PROVE CaughtUp(down', up', miner', diff')
  BY <1>1, <1>2, <1>3, <1>5 DEF CaughtUp
<1> QED
  BY <1>1, <1>4, <1>5 DEF FInv

LEMMA StepFlight == Prompt /\ TypeOK /\ FInv /\ [Next]_vars => FInv'
<1> SUFFICES ASSUME Prompt, TypeOK, FInv, [Next]_vars PROVE FInv'
  OBVIOUS
<1>1. ASSUME NEW t \in Tip \cup {NoTip}, Install(t) PROVE FInv'
  BY <1>1, InstallFlight
<1>2. ASSUME NEW p \in Payout, Authorize(p) PROVE FInv'
  BY <1>2, AuthorizeFlight
<1>3. ASSUME NEW d \in Suggests, Suggest(d) PROVE FInv'
  <2>1. d \in Nat \ {0}
    BY DiffAssumption
  <2> QED
    BY <1>3, <2>1, OneChange, StillFlight DEF Suggest
<1>4. ASSUME NEW d \in Retargets, Retarget(d) PROVE FInv'
  <2>1. d \in Nat \ {0}
    BY DiffAssumption
  <2> QED
    BY <1>4, <2>1, OneChange DEF Retarget
<1>5. CASE Push
  <2>1. settings.diff \in Nat \ {0}
    BY SettingsTyped
  <2>2. CASE payout = NoPayout
    BY <1>5, <2>2, StillFlight DEF Push
  <2>3. CASE payout # NoPayout
    <3>1. SetDiff(settings.diff) /\ down' = Append(down, DiffMsg(settings.diff))
          /\ UNCHANGED <<up, miner>>
      BY <1>5, <2>3 DEF Push, SetDiff
    <3> QED
      BY <2>1, <3>1, OneChange
  <2> QED
    BY <2>2, <2>3
<1>6. CASE GraceOver
  BY <1>6 DEF GraceOver, Arrived, FInv, CaughtUp
<1>7. CASE RetargetDue \/ BlockSubmitted \/ UNCHANGED vars \/ \E s \in Settings : SaveSettings(s)
  BY <1>7, StillFlight DEF RetargetDue, BlockSubmitted, SaveSettings, vars, server
<1>8. CASE Submit
  BY <1>8, SubmitFlight
<1>9. CASE Read
  BY <1>9, ReadFlight
<1>10. ASSUME NEW n \in Key, NEW q \in Level, Find(n, q) PROVE FInv'
  BY <1>10, FindFlight
<1> QED
  BY <1>1, <1>2, <1>3, <1>4, <1>5, <1>6, <1>7, <1>8, <1>9, <1>10 DEF Next

\* A share that reaches a difficulty it was entitled to earns credit.
LEMMA FlightHonoured == TypeOK /\ WInv /\ FInv => InFlightHonoured
<1> DEFINE s == Head(up)
<1> SUFFICES ASSUME TypeOK, WInv, FInv, up # <<>>, s.age \in Age,
                    s.told = diff \/ (s.told = prevDiff /\ (s.waited => grace))
             PROVE  Known(s) /\ Credit(Hash(s)) # 0
  BY DEF InFlightHonoured
<1>1. up \in Seq(Share) /\ s = up[1] /\ 1 \in 1..Len(up) /\ s \in Share
  <2>1. up \in Seq(Share) /\ up # <<>>
    BY DEF TypeOK
  <2>2. s = up[1] /\ s \in Share
    BY <2>1, HeadTailProperties
  <2>3. Len(up) \in Nat /\ Len(up) # 0
    BY <2>1, LenProperties, EmptySeq
  <2> QED
    BY <2>1, <2>2, <2>3
<1> HIDE DEF s
<1>2. /\ s.told # 0 /\ s.q >= s.told
      /\ RebuiltFrom(jobs, s.age, s.pay)
      /\ ~grace => s.told = diff
  BY <1>1 DEF FInv, CaughtUp, WInv, Recognised
<1>3. s.q \in Nat /\ s.told \in Nat /\ diff \in Nat /\ prevDiff \in Nat
  <2>1. s.q \in Level /\ s.told \in Nat
    BY <1>1 DEF Share
  <2>2. diff \in Nat /\ prevDiff \in Nat
    BY DEF TypeOK
  <2>3. s.q \in Nat
    BY <2>1, DiffAssumption DEF Level
  <2> QED
    BY <2>1, <2>2, <2>3
<1>4. IsReal(jobs[s.age]) => s.pay \in Held(jobs[s.age].pays)
  BY <1>2 DEF RebuiltFrom
<1>5. Known(s)
  BY <1>4 DEF Known, Held
<1>6. Hash(s) = s.q
  BY <1>4 DEF Hash
<1>7. Credit(s.q) # 0
  BY <1>2, <1>3 DEF Credit, FInv
<1> QED
  BY <1>5, <1>6, <1>7

\* A share that meets the difficulty its miner had been told, the current one or
\* the one before, is credited wherever the messages stood when the difficulty,
\* the payout or the job changed, if messages arrive within DIFF_CHANGE_GRACE.
\* One that had to wait behind a block share is as long as the grace lasts.
THEOREM FlightAlwaysHonoured ==
  ASSUME Prompt, PayoutsFit
  PROVE  Spec => []InFlightHonoured
<1>1. TypeOK /\ WInv /\ [Next]_vars => WInv'
  BY StepWork
<1>2. TypeOK /\ FInv /\ [Next]_vars => FInv'
  BY StepFlight
<1> QED
  BY InitType, StepType, InitWork, InitFlight, <1>1, <1>2, FlightHonoured, PTL DEF Spec
=============================================================================
