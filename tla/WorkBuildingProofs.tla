-------------------------- MODULE WorkBuildingProofs --------------------------
(***************************************************************************)
(* What the miner hashed is what the server rebuilds, and only the same    *)
(* work is a duplicate, for every set of templates, addresses, masks and   *)
(* nonces: first the arithmetic of version rolling, then the words of the  *)
(* previous hash and the branch, then the invariant.                       *)
(* And what goes to the miner parses as a coinbase, and what goes to the   *)
(* node as a block: merkle trees, encodings, addresses, then the bytes of  *)
(* a coinbase and of a block, and the invariant they come from.            *)
(***************************************************************************)
EXTENDS WorkBuilding, FiniteSetTheorems, SequenceTheorems, TLAPS

\* The versions a list of candidates holds.
Held(versions) == {versions[i] : i \in 1..Len(versions)}

\* What is left of what is reported is the bits that were rolled.
LEMMA RolledBitsFound ==
  ASSUME NEW base, NEW bits \in Rollable, Rolls(Reported(base, bits))
  PROVE  /\ bits \in SUBSET Mask /\ rolling /\ firmware # "silent"
         /\ RolledBits(Reported(base, bits)) = bits
<1>1. rolling /\ firmware # "silent"
  BY DEF Rolls, Reported
<1>2. bits \in SUBSET Mask
  BY <1>1 DEF Rollable
<1>3. CASE firmware = "whole"
  <2>1. Reported(base, bits)[1] = (base \ Mask) \union bits
    BY <1>1, <1>3 DEF Reported, MinerVersion
  <2> QED
    BY <1>1, <1>2, <2>1 DEF RolledBits
<1>4. CASE firmware # "whole"
  <2>1. Reported(base, bits)[1] = bits
    BY <1>1, <1>4 DEF Reported, Rolls
  <2> QED
    BY <1>1, <1>2, <2>1 DEF RolledBits
<1> QED
  BY <1>1, <1>2, <1>3, <1>4

\* Who reports nothing hashes the job's version.
LEMMA NothingReported ==
  ASSUME NEW base, NEW bits \in Rollable, ~Rolls(Reported(base, bits))
  PROVE  /\ MinerVersion(base, bits) = base /\ RolledBits(Reported(base, bits)) = {}
         /\ rolling /\ firmware # "silent" => firmware = "sparing"
<1>1. RolledBits(Reported(base, bits)) = {}
  BY DEF RolledBits
<1>2. CASE ~rolling \/ firmware = "silent"
  BY <1>1, <1>2 DEF MinerVersion
<1>3. CASE rolling /\ firmware # "silent"
  <2>1. Reported(base, bits) = <<>>
    BY <1>3 DEF Rolls
  <2>2. firmware = "sparing" /\ MinerVersion(base, bits) = base
    BY <1>3, <2>1 DEF Reported
  <2> QED
    BY <1>1, <2>2
<1> QED
  BY <1>2, <1>3

LEMMA VersionsHeld ==
  ASSUME NEW base, NEW reported, Rolls(reported)
  PROVE  Held(Versions(base, reported)) =
           {(base \ Mask) \union RolledBits(reported), Xor(base, RolledBits(reported))}
<1> DEFINE bip310 == (base \ Mask) \union RolledBits(reported)
           xor == Xor(base, RolledBits(reported))
<1> HIDE DEF bip310, xor
<1>1. Versions(base, reported) = IF xor = bip310 THEN <<bip310>> ELSE <<bip310, xor>>
  BY DEF Versions, bip310, xor
<1>2. CASE xor = bip310
  <2>1. Held(<<bip310>>) = {bip310}
    BY DEF Held
  <2> QED
    BY <1>1, <1>2, <2>1 DEF bip310, xor
<1>3. CASE xor # bip310
  <2>1. Held(<<bip310, xor>>) = {bip310, xor}
    BY DEF Held
  <2> QED
    BY <1>1, <1>3, <2>1 DEF bip310, xor
<1> QED
  BY <1>2, <1>3

\* Among the versions on_submit tries is the one the miner hashed, however its
\* firmware combines the rolled bits with the job's version and whether and how
\* it reports them (stratum.py:650-668).
THEOREM MinersVersionTried ==
  ASSUME NEW base, NEW bits \in Rollable
  PROVE  MinerVersion(base, bits) \in Held(Versions(base, Reported(base, bits)))
<1>1. CASE ~Rolls(Reported(base, bits))
  <2>1. Versions(base, Reported(base, bits)) = <<base>>
    BY <1>1 DEF Versions
  <2>2. MinerVersion(base, bits) = base
    BY <1>1, NothingReported
  <2> QED
    BY <2>1, <2>2 DEF Held
<1>2. CASE Rolls(Reported(base, bits))
  <2>1. rolling /\ firmware # "silent" /\ RolledBits(Reported(base, bits)) = bits
    BY <1>2, RolledBitsFound
  <2>2. MinerVersion(base, bits) \in {(base \ Mask) \union bits, Xor(base, bits)}
    BY <2>1 DEF MinerVersion
  <2> QED
    BY <1>2, <2>1, <2>2, VersionsHeld
<1> QED
  BY <1>1, <1>2

\* Two different choices of bits are two different versions.
LEMMA VersionsTellBits ==
  ASSUME NEW base, NEW bits \in Rollable, NEW others \in Rollable, bits # others
  PROVE  MinerVersion(base, bits) # MinerVersion(base, others)
<1>1. rolling /\ firmware # "silent" /\ bits \in SUBSET Mask /\ others \in SUBSET Mask
  BY DEF Rollable
<1>2. PICK b \in Mask : b \in bits <=> b \notin others
  BY <1>1
<1>3. CASE firmware = "xor"
  <2>1. /\ b \in MinerVersion(base, bits) <=> (b \in base <=> b \notin bits)
        /\ b \in MinerVersion(base, others) <=> (b \in base <=> b \notin others)
    BY <1>1, <1>3 DEF MinerVersion, Xor
  <2> QED
    BY <1>2, <2>1
<1>4. CASE firmware # "xor"
  <2>1. /\ b \in MinerVersion(base, bits) <=> b \in bits
        /\ b \in MinerVersion(base, others) <=> b \in others
    BY <1>1, <1>2, <1>4 DEF MinerVersion
  <2> QED
    BY <1>2, <2>1
<1> QED
  BY <1>3, <1>4

\* The bits in the dedupe key of on_submit are the same for the same version and
\* differ for different ones, whichever way the miner reports them; but the key
\* does not tell the job's version, left unreported, from the version without
\* any bit of the mask (stratum.py:656-672).
THEOREM KeysTellVersions ==
  ASSUME NEW base, NEW bits \in Rollable, NEW others \in Rollable,
         NEW v, v = MinerVersion(base, bits),
         NEW w, w = MinerVersion(base, others)
  PROVE  /\ v = w => RolledBits(Reported(base, bits)) = RolledBits(Reported(base, others))
         /\ RolledBits(Reported(base, bits)) = RolledBits(Reported(base, others)) =>
              v = w \/ (firmware = "sparing" /\ {v, w} = {base, base \ Mask})
<1> DEFINE key(x) == RolledBits(Reported(base, x))
           said(x) == Rolls(Reported(base, x))
<1>1. v = w => key(bits) = key(others)
  BY VersionsTellBits
<1>2. ASSUME NEW x \in Rollable, NEW y \in Rollable, said(x), ~said(y), key(x) = key(y)
      PROVE  /\ firmware = "sparing"
             /\ MinerVersion(base, x) = base \ Mask /\ MinerVersion(base, y) = base
  <2>1. rolling /\ firmware # "silent" /\ key(x) = x
    BY <1>2, RolledBitsFound
  <2>2. firmware = "sparing" /\ MinerVersion(base, y) = base /\ key(y) = {}
    BY <1>2, <2>1, NothingReported
  <2>3. MinerVersion(base, {}) = base \ Mask
    BY <2>1, <2>2 DEF MinerVersion
  <2> QED
    BY <1>2, <2>1, <2>2, <2>3
<1>3. ASSUME key(bits) = key(others)
      PROVE  v = w \/ (firmware = "sparing" /\ {v, w} = {base, base \ Mask})
  <2>1. CASE said(bits) /\ said(others)
    BY <1>3, <2>1, RolledBitsFound
  <2>2. CASE ~said(bits) /\ ~said(others)
    BY <2>2, NothingReported
  <2>3. CASE said(bits) /\ ~said(others)
    BY <1>2, <1>3, <2>3
  <2>4. CASE ~said(bits) /\ said(others)
    BY <1>2, <1>3, <2>4
  <2> QED
    BY <2>1, <2>2, <2>3, <2>4
<1> QED
  BY <1>1, <1>3

-----------------------------------------------------------------------------
(* What the miner hashes is what the server rebuilds. *)

\* A job whose previous hash is whole words, sent swapped.
Wellmade(src) ==
  /\ src.prevhash \in Seq(Nat) /\ Len(src.prevhash) % 4 = 0
  /\ src.notify = word_swap(src.prevhash)

\* A message the server can still rebuild the work of.
Offered(wire) ==
  /\ wire.prev = source.notify /\ wire.branch = source.branch
  /\ wire.version = source.version
  /\ wire.parts \in Halves(source, payouts)

LEMMA WordsSwappedTwice ==
  ASSUME NEW s \in Seq(Nat), Len(s) % 4 = 0
  PROVE  MinerPrev(word_swap(s)) = s
<1> DEFINE L == Len(s)
           w == word_swap(s)
           At4(i) == 4 * ((i - 1) \div 4) + 4 - ((i - 1) % 4)
<1>1. L \in Nat /\ L % 4 = 0 /\ s \in [1..L -> Nat]
  OBVIOUS
<1> HIDE DEF L
<1>2. ASSUME NEW i \in 1..L PROVE At4(i) \in 1..L /\ At4(At4(i)) = i
  BY <1>1
<1>3. w = [i \in 1..L |-> s[At4(i)]]
  BY DEF word_swap, L
<1>4. /\ \A i \in 1..L : /\ At4(i) \in 1..L
                         /\ At4(At4(i)) = i
                         /\ 4 * ((i - 1) \div 4) + 4 - (i - 1 - 4 * ((i - 1) \div 4)) = At4(i)
  BY <1>1, <1>2
<1> HIDE DEF w
<1>5. MinerPrev(w) = [i \in 1..Len(w) |->
                       w[4 * ((i - 1) \div 4) + 4 - (i - 1 - 4 * ((i - 1) \div 4))]]
  BY DEF MinerPrev
<1> HIDE DEF At4
<1>6. L \in Nat /\ \A i \in 1..L : s[At4(i)] \in Nat
  BY <1>1, <1>4
<1>7. [i \in 1..L |-> s[At4(i)]] \in Seq(Nat) /\ Len(w) = L
  BY <1>3, <1>6
<1>8. \A i \in 1..L : w[At4(i)] = s[i]
  BY <1>3, <1>4
<1>9. MinerPrev(w) = [i \in 1..L |-> s[i]]
  BY <1>4, <1>5, <1>7, <1>8
<1> QED
  BY <1>1, <1>9 DEF w

\* The server hashes up the branch as the miner does.
LEMMA SameRoot ==
  ASSUME NEW wire, NEW coinbase
  PROVE  MinerRoot(wire, coinbase) = merkle_root(coinbase, wire.branch)
BY Zenon DEF MinerRoot, merkle_root, Hash

\* The miner's header is the one rebuilt from its own half of the coinbase and
\* the version it rolled to.
LEMMA MinedIsRebuilt ==
  ASSUME NEW wire, Offered(wire), Wellmade(source), NEW n, NEW bits
  PROVE  Mined(wire, n, bits) =
           Rebuilt(source, wire.parts, MinerVersion(source.version, bits), n)
<1> DEFINE coinbase == assemble(wire.parts, Extranonce1, Extranonce2(n))
<1>1. MinerPrev(wire.prev) = source.prevhash
  BY WordsSwappedTwice DEF Offered, Wellmade
<1>2. MinerRoot(wire, coinbase) = merkle_root(coinbase, source.branch)
  BY SameRoot DEF Offered
<1>3. Mined(wire, n, bits) =
        [coinbase |-> coinbase,
         header |-> Header(MinerVersion(wire.version, bits), MinerPrev(wire.prev),
                           MinerRoot(wire, coinbase), n)]
  BY DEF Mined, assemble
<1> QED
  BY <1>1, <1>2, <1>3 DEF Rebuilt, HeaderOf, Offered

LEMMA MinedIsTried ==
  ASSUME NEW wire, Offered(wire), Wellmade(source), NEW n, NEW bits \in Rollable
  PROVE  Mined(wire, n, bits) \in
           Candidates(source, payouts, n, Reported(source.version, bits))
<1> DEFINE versions == Versions(source.version, Reported(source.version, bits))
<1>1. MinerVersion(source.version, bits) \in Held(versions)
  BY MinersVersionTried
<1>2. PICK i \in 1..Len(versions) : MinerVersion(source.version, bits) = versions[i]
  BY <1>1 DEF Held
<1>3. wire.parts \in Halves(source, payouts)
  BY DEF Offered
<1> QED
  BY <1>2, <1>3, MinedIsRebuilt DEF Candidates

-----------------------------------------------------------------------------
(* The invariant of jobs, of what was sent of them and of what was found. *)

Scripts == {Script[address] : address \in Username}

\* What was sent of a job can be rebuilt, and there is nothing of no job.
JobInv ==
  /\ source # NoJob => Wellmade(source)
  /\ source = NoJob => wires = {} /\ found = {}
  /\ payouts \in Seq(Scripts)
  /\ \A wire \in wires : Offered(wire)

\* The work of this job with a given coinbase.
Work(coinbase, n, bits) ==
  [coinbase |-> coinbase,
   header |-> HeaderOf(source, coinbase, MinerVersion(source.version, bits), n)]

\* Its key, and what is found with it.
Key(n, spelled, bits) ==
  ShareKey(n, spelled, RolledBits(Reported(source.version, bits)))
Found(c, n, spelled, bits) == [work |-> Work(c, n, bits), spelled |-> spelled]

\* The keys in seen are those of the work that was found, and of no other.
FoundInv ==
  /\ \A f \in found : \E n, c, spelled : \E bits \in Rollable :
       f = Found(c, n, spelled, bits) /\ Key(n, spelled, bits) \in seen
  /\ \A key \in seen : \E n, c, spelled : \E bits \in Rollable :
       key = Key(n, spelled, bits) /\ Found(c, n, spelled, bits) \in found
  /\ found = {} => last.answer = "none"

WorkInv == JobInv /\ FoundInv /\ WorkRebuilt /\ DuplicateIsSameWork

LEMMA MinedIsWork ==
  ASSUME NEW wire, Offered(wire), Wellmade(source), NEW n, NEW bits
  PROVE  Mined(wire, n, bits) = Work(Mined(wire, n, bits).coinbase, n, bits)
BY MinedIsRebuilt DEF Rebuilt, Work, HeaderOf

LEMMA WorkFields ==
  ASSUME NEW c, NEW n, NEW bits
  PROVE  /\ Work(c, n, bits).coinbase = c /\ Work(c, n, bits).header.nonce = n
         /\ Work(c, n, bits).header.version = MinerVersion(source.version, bits)
BY DEF Work, HeaderOf, Header

\* The same header spelled the same has the same key.
LEMMA WorkTellsKey ==
  ASSUME NEW c, NEW n, NEW bits \in Rollable, NEW spelled,
         NEW d, NEW m, NEW others \in Rollable,
         Work(c, n, bits) = Work(d, m, others)
  PROVE  Key(n, spelled, bits) = Key(m, spelled, others)
<1>1. /\ n = m
      /\ MinerVersion(source.version, bits) = MinerVersion(source.version, others)
  BY WorkFields
<1> QED
  BY <1>1, KeysTellVersions DEF Key

\* The same key over the same coinbase is the same header, or one whose version
\* went unreported.
LEMMA KeyTellsWork ==
  ASSUME NEW c, NEW n, NEW bits \in Rollable, NEW spelled,
         NEW m, NEW others \in Rollable, NEW spelt,
         Key(n, spelled, bits) = Key(m, spelt, others)
  PROVE  /\ n = m /\ spelled = spelt
         /\ \/ Work(c, n, bits) = Work(c, m, others)
            \/ Unreported(Work(c, n, bits), Work(c, m, others))
<1> DEFINE v == MinerVersion(source.version, bits)
           w == MinerVersion(source.version, others)
<1>1. /\ n = m /\ spelled = spelt
      /\ RolledBits(Reported(source.version, bits)) =
           RolledBits(Reported(source.version, others))
  BY DEF Key, ShareKey
<1>2. v = w \/ (firmware = "sparing" /\ {v, w} = {source.version, source.version \ Mask})
  BY <1>1, KeysTellVersions
<1>3. CASE v = w
  BY <1>1, <1>3 DEF Work
<1>4. CASE firmware = "sparing" /\ {v, w} = {source.version, source.version \ Mask}
  <2>1. /\ Work(c, n, bits).header.version = v /\ Work(c, m, others).header.version = w
    BY WorkFields
  <2> HIDE DEF v, w
  <2>2. /\ Work(c, n, bits) = [coinbase |-> c, header |-> HeaderOf(source, c, v, n)]
        /\ Work(c, n, others) = [coinbase |-> c, header |-> HeaderOf(source, c, w, n)]
    BY DEF Work, v, w
  <2>3. Work(c, n, others) = [Work(c, n, bits) EXCEPT !.header.version = w]
    BY <2>2 DEF HeaderOf, Header
  <2> QED
    BY <1>1, <1>4, <2>1, <2>3 DEF Unreported
<1> QED
  BY <1>1, <1>2, <1>3, <1>4

-----------------------------------------------------------------------------
(* The steps. *)

LEMMA JobFits ==
  ASSUME NEW g \in Template
  PROVE  Wellmade(BlockTemplate(g))
<1> DEFINE internal == Reversed(g.previousblockhash)
<1>1. g.previousblockhash \in Seq(Nat) /\ Len(g.previousblockhash) % 4 = 0
  <2>1. Mineable(g)
    BY TemplateAssumption
  <2>2. WholeWords(g.previousblockhash)
    BY <2>1, SMT DEF Mineable
  <2> QED
    BY <2>2 DEF WholeWords
<1>2. internal \in Seq(Nat) /\ Len(internal) = Len(g.previousblockhash)
  BY <1>1 DEF Reversed
<1> HIDE DEF internal
<1>3. /\ BlockTemplate(g).prevhash = internal
      /\ BlockTemplate(g).notify = word_swap(internal)
  BY DEF BlockTemplate, internal
<1> QED
  BY <1>1, <1>2, <1>3 DEF Wellmade

LEMMA MockFits == Wellmade(MockJob)
<1>1. MockPrev \in Seq(Nat) /\ Len(MockPrev) % 4 = 0
  <2>1. MockPrev \in Seq(Nat) /\ Len(MockPrev) = 8
    BY DEF MockPrev
  <2>2. 8 % 4 = 0
    OBVIOUS
  <2> QED
    BY <2>1, <2>2
<1>2. MockJob.prevhash = MockPrev /\ MockJob.notify = word_swap(MockPrev)
  BY DEF MockJob
<1> QED
  BY <1>1, <1>2 DEF Wellmade

LEMMA WorkInitially == Init => WorkInv
BY DEF Init, Quiet, WorkInv, JobInv, FoundInv, WorkRebuilt, DuplicateIsSameWork

LEMMA InstallKeeps ==
  ASSUME NEW src, Wellmade(src), Install(src), WorkInv
  PROVE  WorkInv'
<1>1. found = {} /\ seen = {}
  BY DEF Install, WorkInv, FoundInv
<1>2. JobInv'
  <2>1. /\ source' = src /\ payouts' = <<>> /\ wires' = {} /\ found' = {}
    BY <1>1 DEF Install
  <2>2. Wellmade(source')
    BY <2>1
  <2>3. payouts' \in Seq(Scripts)
    BY <2>1
  <2> QED
    BY <2>1, <2>2, <2>3 DEF JobInv, Wellmade
<1>3. FoundInv'
  BY <1>1 DEF Install, WorkInv, FoundInv
<1>4. last'.answer = "none"
  BY <1>1 DEF Install, WorkInv, FoundInv
<1> QED
  BY <1>2, <1>3, <1>4 DEF WorkInv, WorkRebuilt, DuplicateIsSameWork

LEMMA ConfigureKeeps ==
  ASSUME Configure, WorkInv
  PROVE  WorkInv'
<1>1. found = {} /\ seen = {}
  BY DEF Configure, WorkInv, JobInv, FoundInv
<1>2. JobInv'
  BY <1>1 DEF Configure, WorkInv, JobInv
<1>3. FoundInv'
  BY <1>1 DEF Configure, WorkInv, FoundInv
<1>4. last'.answer = "none"
  BY <1>1 DEF Configure, WorkInv, FoundInv
<1> QED
  BY <1>2, <1>3, <1>4 DEF WorkInv, WorkRebuilt, DuplicateIsSameWork

\* What was found stays what it is while the job and the firmware do.
LEMMA FoundStays ==
  ASSUME UNCHANGED <<source, firmware, rolling, seen, found, last>>,
         FoundInv, WorkRebuilt, DuplicateIsSameWork
  PROVE  FoundInv' /\ WorkRebuilt' /\ DuplicateIsSameWork'
<1>1. Rollable' = Rollable
  BY DEF Rollable
<1>2. ASSUME NEW c, NEW n, NEW spelled, NEW bits
      PROVE  /\ Found(c, n, spelled, bits)' = Found(c, n, spelled, bits)
             /\ Key(n, spelled, bits)' = Key(n, spelled, bits)
  BY DEF Found, Work, MinerVersion, Key, RolledBits, Rolls, Reported
<1>3. FoundInv'
  BY <1>1, <1>2 DEF FoundInv
<1>4. WorkRebuilt' /\ DuplicateIsSameWork'
  BY DEF WorkRebuilt, DuplicateIsSameWork, Unreported
<1> QED
  BY <1>3, <1>4

LEMMA AuthorizeKeeps ==
  ASSUME NEW address \in Username, Authorize(address), WorkInv
  PROVE  WorkInv'
<1> DEFINE script == Script[address]
<1>1. script \in Scripts
  BY DEF Scripts
<1> HIDE DEF script
<1>2. /\ source # NoJob /\ source' = source
      /\ payouts' = IF source.real THEN Remembered(payouts, script) ELSE payouts
      /\ wires' = wires \union {Notify(source, script)}
      /\ UNCHANGED <<firmware, rolling, seen, found, last>>
  BY DEF Authorize, script
<1>3. payouts \in Seq(Scripts) /\ Wellmade(source)
  BY <1>2 DEF WorkInv, JobInv
<1>4. /\ payouts' \in Seq(Scripts)
      /\ Len(payouts') >= Len(payouts)
      /\ \A i \in 1..Len(payouts) : payouts'[i] = payouts[i]
      /\ source.real => \E i \in 1..Len(payouts') : payouts'[i] = script
  <2>1. CASE source.real /\ ~\E i \in 1..Len(payouts) : payouts[i] = script
    BY <1>1, <1>2, <1>3, <2>1 DEF Remembered
  <2>2. CASE source.real /\ \E i \in 1..Len(payouts) : payouts[i] = script
    BY <1>2, <1>3, <2>2 DEF Remembered
  <2>3. CASE ~source.real
    BY <1>2, <1>3, <2>3
  <2> QED
    BY <2>1, <2>2, <2>3
<1>5. /\ Halves(source, payouts) \subseteq Halves(source, payouts')
      /\ Parts(source, script) \in Halves(source, payouts')
  <2>1. CASE source.real
    BY <1>3, <1>4, <2>1 DEF Halves
  <2>2. CASE ~source.real
    BY <2>2 DEF Halves, Parts
  <2> QED
    BY <2>1, <2>2
<1>6. JobInv'
  <2>1. ASSUME NEW wire \in wires' PROVE Offered(wire)'
    <3>1. CASE wire \in wires
      BY <1>2, <1>5, <3>1 DEF WorkInv, JobInv, Offered
    <3>2. CASE wire = Notify(source, script)
      BY <1>2, <1>5, <3>2 DEF Offered, Notify
    <3> QED
      BY <1>2, <2>1, <3>1, <3>2
  <2> QED
    BY <1>2, <1>3, <1>4, <2>1 DEF JobInv
<1>7. FoundInv' /\ WorkRebuilt' /\ DuplicateIsSameWork'
  BY <1>2, FoundStays DEF WorkInv
<1> QED
  BY <1>6, <1>7 DEF WorkInv

LEMMA SubmitKeeps ==
  ASSUME NEW wire \in wires, NEW n, NEW spelled, NEW rolled \in Rollable, NEW solved,
         Submit(wire, n, spelled, rolled, solved), WorkInv
  PROVE  WorkInv'
<1> DEFINE mined == Mined(wire, n, rolled)
           key == Key(n, spelled, rolled)
           lowest == Lowest(Candidates(source, payouts, n, Reported(source.version, rolled)),
                            mined)
           new == [work |-> mined, spelled |-> spelled]
<1>1. Offered(wire) /\ Wellmade(source) /\ wire.version = source.version
  BY DEF WorkInv, JobInv, Offered
<1>2. /\ mined \in Candidates(source, payouts, n, Reported(source.version, rolled))
      /\ mined = Work(mined.coinbase, n, rolled)
  BY <1>1, MinedIsTried, MinedIsWork
<1>3. lowest = mined
  BY <1>2 DEF Lowest
<1>4. /\ Solves(mined, n) /\ found' = found \union {new}
      /\ UNCHANGED <<source, payouts, wires, firmware, rolling>>
      /\ last'.mined = mined /\ last'.spelled = spelled /\ last'.before = found
      /\ \/ /\ key \in seen /\ seen' = seen
            /\ last'.answer = "duplicate"
         \/ /\ key \notin seen /\ seen' = seen \union {key}
            /\ last'.answer = "rebuilt" /\ last'.lowest = lowest
  BY <1>1 DEF Submit, Key
<1>5. new = Found(mined.coinbase, n, spelled, rolled)
  BY <1>2 DEF Found
<1> HIDE DEF mined, key, lowest
<1>6. ASSUME key \in seen
      PROVE  \E f \in found : /\ f.spelled = spelled
                              /\ f.work = mined \/ Unreported(f.work, mined)
  <2>1. PICK m, c, spelt : \E bits \in Rollable :
          key = Key(m, spelt, bits) /\ Found(c, m, spelt, bits) \in found
    BY <1>6 DEF WorkInv, FoundInv
  <2>2. PICK bits \in Rollable :
          key = Key(m, spelt, bits) /\ Found(c, m, spelt, bits) \in found
    BY <2>1
  <2>3. /\ m = n /\ spelt = spelled
        /\ \/ Work(c, m, bits) = Work(c, n, rolled)
           \/ Unreported(Work(c, m, bits), Work(c, n, rolled))
    BY <2>2, KeyTellsWork DEF key
  <2> DEFINE f == Found(c, m, spelt, bits)
  <2>4. f.work = Work(c, m, bits) /\ f.spelled = spelt /\ f \in found
    BY <2>2 DEF Found
  <2>5. f.work.header.nonce = n /\ f.work.coinbase = c
    BY <2>3, <2>4, WorkFields
  <2>6. mined.coinbase = c
    BY <1>4, <2>4, <2>5 DEF Solves
  <2> HIDE DEF f
  <2> QED
    BY <1>2, <2>3, <2>4, <2>6
<1>7. ASSUME new \in found PROVE key \in seen
  <2>1. PICK m, c, spelt : \E bits \in Rollable :
          new = Found(c, m, spelt, bits) /\ Key(m, spelt, bits) \in seen
    BY <1>7 DEF WorkInv, FoundInv
  <2>2. PICK bits \in Rollable :
          new = Found(c, m, spelt, bits) /\ Key(m, spelt, bits) \in seen
    BY <2>1
  <2>3. mined = Work(c, m, bits) /\ spelled = spelt
    BY <2>2 DEF Found
  <2>4. Key(n, spelled, rolled) = Key(m, spelled, bits)
    BY <1>2, <2>3, WorkTellsKey
  <2> QED
    BY <2>2, <2>3, <2>4 DEF key
<1>8. JobInv'
  BY <1>1, <1>4 DEF WorkInv, JobInv, Offered, Wellmade
<1>9. FoundInv'
  <2>1. /\ key \in seen'
        /\ seen \subseteq seen' /\ seen' \subseteq seen \union {key}
        /\ found' = found \union {new}
    BY <1>4
  <2>2. Rollable' = Rollable
    BY <1>4 DEF Rollable
  <2>3. ASSUME NEW c, NEW m, NEW spelt, NEW bits
        PROVE  /\ Found(c, m, spelt, bits)' = Found(c, m, spelt, bits)
               /\ Key(m, spelt, bits)' = Key(m, spelt, bits)
    BY <1>4 DEF Found, Work, MinerVersion, Key, RolledBits, Rolls, Reported
  <2> HIDE DEF new
  <2>4. ASSUME NEW f \in found'
        PROVE  \E m, c, spelt : \E bits \in Rollable :
                 f = Found(c, m, spelt, bits) /\ Key(m, spelt, bits) \in seen'
    <3>1. CASE f = new
      BY <1>5, <2>1, <3>1 DEF key
    <3>2. CASE f \in found
      BY <2>1, <3>2 DEF WorkInv, FoundInv
    <3> QED
      BY <2>1, <3>1, <3>2
  <2>5. ASSUME NEW k \in seen'
        PROVE  \E m, c, spelt : \E bits \in Rollable :
                 k = Key(m, spelt, bits) /\ Found(c, m, spelt, bits) \in found'
    <3>1. CASE k = key
      BY <1>5, <2>1, <3>1 DEF key
    <3>2. CASE k \in seen
      BY <2>1, <3>2 DEF WorkInv, FoundInv
    <3> QED
      BY <2>1, <3>1, <3>2
  <2> QED
    BY <2>1, <2>2, <2>3, <2>4, <2>5 DEF FoundInv
<1>10. WorkRebuilt'
  BY <1>3, <1>4 DEF WorkRebuilt
<1>11. DuplicateIsSameWork'
  <2>1. ASSUME NEW one, NEW other PROVE Unreported(one, other)' = Unreported(one, other)
    BY <1>4 DEF Unreported
  <2>2. \A f \in found : ~(f.work = mined /\ f.spelled = spelled) \/ f = new
    BY DEF WorkInv, FoundInv, Found
  <2> HIDE DEF new
  <2> QED
    BY <1>4, <1>6, <1>7, <2>1, <2>2 DEF DuplicateIsSameWork
<1> QED
  BY <1>8, <1>9, <1>10, <1>11 DEF WorkInv

LEMMA WorkKept == WorkInv /\ [Next]_vars => WorkInv'
<1> SUFFICES ASSUME WorkInv, [Next]_vars
             PROVE  WorkInv'
  OBVIOUS
<1>1. CASE Configure
  BY <1>1, ConfigureKeeps
<1>2. CASE InstallReal
  BY <1>2, InstallKeeps, JobFits DEF InstallReal
<1>3. CASE InstallMock
  BY <1>3, InstallKeeps, MockFits DEF InstallMock
<1>4. CASE \E a \in Username : Authorize(a)
  BY <1>4, AuthorizeKeeps
<1>5. CASE SubmitShare
  BY <1>5, SubmitKeeps DEF SubmitShare
<1>6. CASE UNCHANGED vars
  <2>1. JobInv'
    BY <1>6 DEF vars, WorkInv, JobInv, Offered, Wellmade
  <2>2. FoundInv' /\ WorkRebuilt' /\ DuplicateIsSameWork'
    BY <1>6, FoundStays DEF vars, WorkInv
  <2> QED
    BY <2>1, <2>2 DEF WorkInv
<1> QED
  BY <1>1, <1>2, <1>3, <1>4, <1>5, <1>6 DEF Next

\* Whatever the templates, the addresses, the mask and the firmware, the header
\* on_submit goes on with is the one the miner hashed: its half of the coinbase
\* is among the job's payouts, its version among those tried, and the swapped
\* previous hash and the branch give back the same fields (stratum.py:650-667
\* and 714-717, job_manager.py:62-66, merkle.py).
THEOREM WorkAlwaysRebuilt == Spec => []WorkRebuilt
<1>1. WorkInv => WorkRebuilt
  BY DEF WorkInv
<1> QED
  BY <1>1, WorkInitially, WorkKept, PTL DEF Spec

\* Whichever bits the miner rolls, however it reports them and spells the rest,
\* the dedupe key refuses a submit if that header was submitted before on the job
\* and spelled the same, and only then, but for the version that goes unreported,
\* while the set is not cleared as a flood (stratum.py:670-683).
THEOREM OnlySameWorkIsDuplicate == Spec => []DuplicateIsSameWork
<1>1. WorkInv => DuplicateIsSameWork
  BY DEF WorkInv
<1> QED
  BY <1>1, WorkInitially, WorkKept, PTL DEF Spec

-----------------------------------------------------------------------------
(* Merkle trees: the branch of a tree of unknown coinbase gives the root of  *)
(* the tree with the coinbase in it.                                         *)

PairedUp(param, n, below) == Paired(below)
PairedUpBeside(param, n, below) == PairedBeside(below)
HashedOnto(branch, n, below) == Hash(below, branch[n])

Tree == INSTANCE Recursion WITH Step <- PairedUp
BesideTree == INSTANCE Recursion WITH Step <- PairedUpBeside
Root == INSTANCE Recursion WITH Step <- HashedOnto

\* A layer without its first hash, the one the coinbase goes into.
Beside(f) == [f EXCEPT ![1] = None]

\* A layer of half as many hashes, the last one made of a twin if need be.
LEMMA PairedHalves ==
  ASSUME NEW S, NEW f \in Seq(S), Len(f) >= 1
  PROVE  /\ Paired(f) \in Seq(S \X S)
         /\ Len(Paired(f)) = (Len(f) + 1) \div 2
         /\ \A i \in 1..Len(Paired(f)) :
              Paired(f)[i] = <<f[2 * i - 1], Evened(f)[2 * i]>>
<1> DEFINE e == Evened(f)
           half == (Len(f) + 1) \div 2
<1>1. /\ e \in Seq(S) /\ Len(e) = 2 * half /\ half \in Nat /\ half >= 1
      /\ \A i \in 1..Len(f) : e[i] = f[i]
  <2>1. CASE Len(f) % 2 = 1
    <3>1. e = Append(f, f[Len(f)]) /\ Len(f) \in 1..Len(f) /\ f[Len(f)] \in S
      BY <2>1 DEF Evened
    <3>2. Len(e) = Len(f) + 1 /\ e \in Seq(S) /\ \A i \in 1..Len(f) : e[i] = f[i]
      BY <3>1
    <3>3. Len(f) + 1 = 2 * half
      BY <2>1
    <3> QED
      BY <3>2, <3>3
  <2>2. CASE Len(f) % 2 # 1
    <3>1. e = f
      BY <2>2 DEF Evened
    <3>2. Len(f) = 2 * half
      BY <2>2
    <3> QED
      BY <3>1, <3>2
  <2> QED
    BY <2>1, <2>2
<1> HIDE DEF e
<1>2. Paired(f) = [i \in 1..(Len(e) \div 2) |-> <<e[2 * i - 1], e[2 * i]>>]
  BY DEF Paired, Hash, e
<1>3. Len(e) \div 2 = half
  BY <1>1
<1> HIDE DEF half
<1>4. \A i \in 1..half : e[2 * i - 1] \in S /\ e[2 * i] \in S
  BY <1>1
<1>5. /\ Paired(f) \in Seq(S \X S) /\ Len(Paired(f)) = half
  <2>1. \A i \in 1..half : <<e[2 * i - 1], e[2 * i]>> \in S \X S
    BY <1>4
  <2> QED
    BY <1>1, <1>2, <1>3, <2>1
<1>6. \A i \in 1..half : e[2 * i - 1] = f[2 * i - 1]
  BY <1>1 DEF half
<1> QED
  BY <1>2, <1>3, <1>5, <1>6 DEF half, e

\* The layers above do not depend on the hash left out.
LEMMA BesideFits ==
  ASSUME NEW S, NEW f \in Seq(S), Len(f) >= 1
  PROVE  PairedBeside(Beside(f)) = Beside(Paired(f))
<1> DEFINE b == Beside(f)
           half == (Len(f) + 1) \div 2
<1>1. /\ b \in Seq(S \union {None}) /\ Len(b) = Len(f) /\ b[1] = None
      /\ \A i \in 2..Len(f) : b[i] = f[i]
  BY DEF Beside
<1>2. /\ Evened(b) \in Seq(S \union {None})
      /\ Len(Evened(b)) = 2 * half
      /\ \A i \in 3..(2 * half) : Evened(b)[i] = Evened(f)[i]
  <2>1. CASE Len(f) % 2 = 1
    <3>1. Evened(f) = Append(f, f[Len(f)]) /\ Evened(b) = Append(b, b[Len(f)])
      BY <1>1, <2>1 DEF Evened
    <3>2. Len(f) \in 1..Len(f) /\ 2 * half = Len(f) + 1
      BY <2>1
    <3> HIDE DEF b, half
    <3>3. b[Len(f)] \in S \union {None} /\ f[Len(f)] \in S
      BY <1>1, <3>2
    <3>4. Len(Evened(b)) = 2 * half /\ Evened(b) \in Seq(S \union {None})
      BY <1>1, <3>1, <3>2, <3>3
    <3>5. \A i \in 1..Len(f) : Evened(b)[i] = b[i] /\ Evened(f)[i] = f[i]
      BY <1>1, <3>1, <3>2, <3>3
    <3>6. Evened(b)[2 * half] = b[Len(f)] /\ Evened(f)[2 * half] = f[Len(f)]
      BY <1>1, <3>1, <3>2, <3>3
    <3>7. ASSUME NEW i \in 3..(2 * half) PROVE Evened(b)[i] = Evened(f)[i]
      <4>1. CASE i = 2 * half
        BY <1>1, <3>2, <3>6, <3>7, <4>1
      <4>2. CASE i # 2 * half
        BY <1>1, <3>2, <3>5, <3>7, <4>2
      <4> QED
        BY <4>1, <4>2
    <3> QED
      BY <3>4, <3>7
  <2>2. CASE Len(f) % 2 # 1
    <3>1. Evened(f) = f /\ Evened(b) = b /\ 2 * half = Len(f)
      BY <1>1, <2>2 DEF Evened
    <3> QED
      BY <1>1, <3>1
  <2> QED
    BY <2>1, <2>2
<1> HIDE DEF b
<1>3. half \in Nat /\ half >= 1 /\ (2 * half) \div 2 = half
  OBVIOUS
<1> DEFINE tail == [i \in 1..(half - 1) |-> <<Evened(b)[2 * i + 1], Evened(b)[2 * i + 2]>>]
           P == (S \union {None}) \X (S \union {None})
<1>4. PairedBeside(b) = <<None>> \o tail
  BY <1>2, <1>3 DEF PairedBeside, Hash
<1>5. /\ Paired(f) \in Seq(S \X S) /\ Len(Paired(f)) = half
      /\ \A i \in 1..half : Paired(f)[i] = <<f[2 * i - 1], Evened(f)[2 * i]>>
  BY PairedHalves
<1> HIDE DEF half
<1>6. /\ tail \in Seq(P) /\ Len(tail) = half - 1
      /\ \A i \in 1..(half - 1) :
           tail[i] = <<Evened(b)[2 * i + 1], Evened(b)[2 * i + 2]>>
  <2>1. \A i \in 1..(half - 1) : <<Evened(b)[2 * i + 1], Evened(b)[2 * i + 2]>> \in P
    BY <1>2, <1>3
  <2> QED
    BY <1>3, <2>1
<1> HIDE DEF tail
<1>7. \A i \in 2..half : tail[i - 1] = Paired(f)[i]
  <2> TAKE i \in 2..half
  <2>1. i - 1 \in 1..(half - 1) /\ 2 * (i - 1) + 1 = 2 * i - 1 /\ 2 * (i - 1) + 2 = 2 * i
    BY <1>3
  <2>2. tail[i - 1] = <<Evened(b)[2 * i - 1], Evened(b)[2 * i]>>
    BY <1>6, <2>1
  <2>3. 2 * i - 1 \in 3..(2 * half) /\ 2 * i \in 3..(2 * half) /\ i \in 1..half
    BY <1>3
  <2>4. 2 * i - 1 \in 1..Len(f) /\ 2 * i - 1 \in 2..Len(f)
    BY <1>3 DEF half
  <2>5. Evened(b)[2 * i - 1] = f[2 * i - 1]
    BY <1>1, <1>2, <2>3, <2>4 DEF Evened
  <2> QED
    BY <1>2, <1>5, <2>2, <2>3, <2>5
<1> DEFINE c == Beside(Paired(f))
<1>8. /\ c \in Seq((S \X S) \union {None}) /\ Len(c) = half /\ c[1] = None
      /\ \A i \in 2..half : c[i] = Paired(f)[i]
  BY <1>3, <1>5 DEF Beside
<1> HIDE DEF c, P
<1> DEFINE d == <<None>> \o tail
<1>9. /\ d \in Seq(P \union {None}) /\ Len(d) = half /\ d[1] = None
      /\ \A i \in 2..half : d[i] = tail[i - 1]
  BY <1>3, <1>6
<1> HIDE DEF d
<1>10. \A i \in 1..half : c[i] = d[i]
  <2> TAKE i \in 1..half
  <2>1. i = 1 \/ i \in 2..half
    OBVIOUS
  <2> QED
    BY <1>7, <1>8, <1>9, <2>1
<1>11. c = [i \in 1..half |-> c[i]] /\ d = [i \in 1..half |-> d[i]]
  BY <1>8, <1>9
<1>12. c = d
  BY <1>10, <1>11
<1> QED
  BY <1>4, <1>12 DEF c, d, b

\* A length that is halved, rounding up, comes down to one.
Halved(lens) == \A k \in Nat : lens[k] \in Nat /\ lens[k + 1] = (lens[k] + 1) \div 2

IsTop(k, lens) == lens[k] = 1 /\ \A j \in 0..(k - 1) : lens[j] > 1

\* Layers that halve come down to one hash, first at some layer.
LEMMA TopReached ==
  ASSUME NEW lens, Halved(lens), lens[0] >= 1
  PROVE  \E top \in 0..lens[0] : IsTop(top, lens)
<1> DEFINE Falls == {k \in Nat : lens[k] >= 1 /\ (lens[k] = 1 \/ lens[k] + k <= lens[0])}
           Ones == {k \in Nat : lens[k] = 1}
<1>1. lens[0] \in Nat /\ 0 \in Falls
  BY DEF Halved
<1>2. ASSUME NEW k \in Nat, k \in Falls PROVE k + 1 \in Falls
  <2>1. lens[k] \in Nat /\ lens[k + 1] = (lens[k] + 1) \div 2
    BY DEF Halved
  <2> QED
    BY <1>1, <1>2, <2>1
<1> HIDE DEF Falls
<1>3. \A k \in Nat : k \in Falls
  BY <1>1, <1>2, Tree!Induction
<1>4. lens[0] \in Ones
  <2> DEFINE deep == lens[0]
  <2>1. deep \in Nat /\ deep \in Falls
    BY <1>1, <1>3
  <2>2. lens[deep] \in Nat
    BY <2>1 DEF Halved
  <2> HIDE DEF deep
  <2>3. lens[deep] >= 1 /\ (lens[deep] = 1 \/ lens[deep] + deep <= deep)
    BY <2>1 DEF Falls, deep
  <2>4. lens[deep] = 1
    BY <2>1, <2>2, <2>3
  <2> QED
    BY <2>1, <2>4 DEF deep
<1>5. PICK top \in Ones : \A k \in Ones : top <= k
  BY <1>4, Tree!LeastNatural
<1>6. top \in 0..lens[0]
  BY <1>1, <1>4, <1>5
<1>7. ASSUME NEW j \in 0..(top - 1) PROVE lens[j] > 1
  <2>1. j \in Nat /\ j \notin Ones /\ j \in Falls
    BY <1>3, <1>5, <1>6
  <2> QED
    BY <2>1 DEF Falls, Halved
<1> QED
  BY <1>5, <1>6, <1>7 DEF IsTop

\* f holds the layers of the tree over these leaves.
Layered(f, leaves) ==
  f = [k \in Nat |-> IF k = 0 THEN leaves ELSE Paired(f[k - 1])]
LayeredBeside(f, leaves) ==
  f = [k \in Nat |-> IF k = 0 THEN leaves ELSE PairedBeside(f[k - 1])]

Lens(f) == [k \in Nat |-> Len(f[k])]

\* The layers of a tree halve, and none is empty.
LEMMA LayersHalve ==
  ASSUME NEW S, NEW leaves \in Seq(S), Len(leaves) >= 1,
         NEW f, Layered(f, leaves)
  PROVE  /\ \A k \in Nat : (\E T : f[k] \in Seq(T)) /\ Len(f[k]) >= 1
         /\ Halved(Lens(f)) /\ Lens(f)[0] = Len(leaves)
<1> DEFINE Good == {k \in Nat : (\E T : f[k] \in Seq(T)) /\ Len(f[k]) >= 1}
<1>1. f[0] = leaves /\ \A k \in Nat : f[k + 1] = Paired(f[k])
  <2>1. \A k \in Nat : f[k] = IF k = 0 THEN leaves ELSE Paired(f[k - 1])
    BY Zenon DEF Layered
  <2>2. \A k \in Nat : k + 1 \in Nat /\ k + 1 # 0 /\ (k + 1) - 1 = k
    OBVIOUS
  <2> QED
    BY <2>1, <2>2
<1>2. 0 \in Good
  BY <1>1
<1>3. ASSUME NEW k \in Nat, NEW T, f[k] \in Seq(T), Len(f[k]) >= 1
      PROVE  /\ f[k + 1] \in Seq(T \X T) /\ Len(f[k + 1]) = (Len(f[k]) + 1) \div 2
             /\ Len(f[k + 1]) >= 1
  <2>1. f[k + 1] = Paired(f[k])
    BY <1>1
  <2>2. Paired(f[k]) \in Seq(T \X T) /\ Len(Paired(f[k])) = (Len(f[k]) + 1) \div 2
    BY <1>3, PairedHalves
  <2>3. Len(f[k]) \in Nat /\ \A x \in Nat : x >= 1 => (x + 1) \div 2 >= 1
    BY <1>3
  <2>4. Len(f[k + 1]) = (Len(f[k]) + 1) \div 2
    BY <2>1, <2>2
  <2>5. (Len(f[k]) + 1) \div 2 >= 1
    BY <1>3, <2>3
  <2> QED
    BY <2>1, <2>2, <2>4, <2>5, Zenon
<1>4. \A k \in Nat : k \in Good => k + 1 \in Good
  <2> SUFFICES ASSUME NEW k \in Nat, k \in Good PROVE k + 1 \in Good
    OBVIOUS
  <2>1. PICK T : f[k] \in Seq(T) /\ Len(f[k]) >= 1
    OBVIOUS
  <2>2. f[k + 1] \in Seq(T \X T) /\ Len(f[k + 1]) >= 1
    BY <1>3, <2>1
  <2> QED
    BY <2>2
<1> HIDE DEF Good
<1>5. \A k \in Nat : k \in Good
  BY <1>2, <1>4, Tree!Induction
<1>6. \A k \in Nat : (\E T : f[k] \in Seq(T)) /\ Len(f[k]) >= 1
  BY <1>5 DEF Good
<1>7. ASSUME NEW k \in Nat
      PROVE  Len(f[k]) \in Nat /\ Len(f[k + 1]) = (Len(f[k]) + 1) \div 2
  <2>1. PICK T : f[k] \in Seq(T) /\ Len(f[k]) >= 1
    BY <1>6
  <2>2. Len(f[k]) \in Nat
    BY <2>1
  <2> QED
    BY <1>3, <2>1, <2>2
<1>8. Halved(Lens(f)) /\ Lens(f)[0] = Len(leaves)
  <2>1. \A k \in Nat : Lens(f)[k] = Len(f[k]) /\ Lens(f)[k + 1] = Len(f[k + 1])
    BY DEF Lens
  <2> QED
    BY <1>1, <1>7, <2>1 DEF Halved
<1> QED
  BY <1>6, <1>8

\* Leaving out the first hash leaves it out of every layer, and changes nothing
\* else.
LEMMA LayersBeside ==
  ASSUME NEW S, NEW leaves \in Seq(S), Len(leaves) >= 1,
         NEW f, Layered(f, leaves), NEW b, LayeredBeside(b, Beside(leaves))
  PROVE  \A k \in Nat : b[k] = Beside(f[k])
<1> DEFINE Same == {k \in Nat : b[k] = Beside(f[k])}
<1>1. \A k \in Nat : /\ f[k] = IF k = 0 THEN leaves ELSE Paired(f[k - 1])
                     /\ b[k] = IF k = 0 THEN Beside(leaves) ELSE PairedBeside(b[k - 1])
  BY Zenon DEF Layered, LayeredBeside
<1>2. 0 \in Same
  BY <1>1
<1>3. ASSUME NEW k \in Nat, k \in Same PROVE k + 1 \in Same
  <2>1. k + 1 \in Nat /\ k + 1 # 0 /\ (k + 1) - 1 = k
    OBVIOUS
  <2>2. f[k + 1] = Paired(f[k]) /\ b[k + 1] = PairedBeside(b[k])
    BY <1>1, <2>1
  <2>3. PICK T : f[k] \in Seq(T) /\ Len(f[k]) >= 1
    BY LayersHalve
  <2>4. PairedBeside(Beside(f[k])) = Beside(Paired(f[k]))
    BY <2>3, BesideFits
  <2> QED
    BY <1>3, <2>1, <2>2, <2>4
<1> HIDE DEF Same
<1>4. \A k \in Nat : k \in Same
  BY <1>2, <1>3, Tree!Induction
<1> QED
  BY <1>4 DEF Same

TreeOf(leaves) == CHOOSE f : Layered(f, leaves)
TreeBeside(leaves) == CHOOSE f : LayeredBeside(f, leaves)

\* A tree has layers, and so has the tree without its first leaf.
LEMMA TreesExist ==
  ASSUME NEW leaves
  PROVE  Layered(TreeOf(leaves), leaves) /\ LayeredBeside(TreeBeside(leaves), leaves)
<1>1. \E f : Layered(f, leaves)
  <2>1. PICK f : Tree!Solves(f, Nat, 0, leaves)
    BY Tree!SolutionOnNat
  <2> QED
    BY <2>1 DEF Tree!Solves, PairedUp, Layered
<1>2. \E f : LayeredBeside(f, leaves)
  <2>1. PICK f : BesideTree!Solves(f, Nat, 0, leaves)
    BY BesideTree!SolutionOnNat
  <2> QED
    BY <2>1 DEF BesideTree!Solves, PairedUpBeside, LayeredBeside
<1> QED
  BY <1>1, <1>2 DEF TreeOf, TreeBeside

TopOf(f, leaves) ==
  CHOOSE k \in 0..Len(leaves) : Len(f[k]) = 1 /\ \A j \in 0..(k - 1) : Len(f[j]) > 1

\* What merkle_root_full and merkle_branch are made of.
LEMMA LayersAre ==
  ASSUME NEW leaves
  PROVE  /\ Layers(leaves, Paired) =
              [k \in 1..(TopOf(TreeOf(leaves), leaves) + 1) |-> TreeOf(leaves)[k - 1]]
         /\ Layers(leaves, PairedBeside) =
              [k \in 1..(TopOf(TreeBeside(leaves), leaves) + 1) |->
                TreeBeside(leaves)[k - 1]]
BY Zenon DEF Layers, TopOf, TreeOf, TreeBeside, Layered, LayeredBeside

\* The top layer is the first of a single hash.
LEMMA TopFound ==
  ASSUME NEW S, NEW leaves \in Seq(S), Len(leaves) >= 1, NEW f, Layered(f, leaves)
  PROVE  /\ TopOf(f, leaves) \in 0..Len(leaves)
         /\ IsTop(TopOf(f, leaves), Lens(f))
<1>1. Halved(Lens(f)) /\ Lens(f)[0] = Len(leaves)
  BY LayersHalve
<1>2. PICK top \in 0..Len(leaves) : IsTop(top, Lens(f))
  BY <1>1, TopReached
<1>3. \A k \in 0..Len(leaves) :
        IsTop(k, Lens(f)) <=> Len(f[k]) = 1 /\ \A j \in 0..(k - 1) : Len(f[j]) > 1
  BY DEF IsTop, Lens
<1> QED
  BY <1>2, <1>3 DEF TopOf

\* The pair above the first two hashes, an odd hash twinned or not.
LEMMA SecondKept ==
  ASSUME NEW T, NEW f \in Seq(T), Len(f) > 1
  PROVE  Evened(f)[2] = f[2] /\ Paired(f)[1] = <<f[1], f[2]>>
<1>1. Evened(f)[2] = f[2]
  <2>1. Len(f) \in Nat /\ f[Len(f)] \in T
    OBVIOUS
  <2>2. Append(f, f[Len(f)])[2] = f[2]
    BY <2>1
  <2> QED
    BY <2>2 DEF Evened
<1>0. Len(f) >= 1
  OBVIOUS
<1>2. 1 \in 1..Len(Paired(f))
  <2>1. Len(f) \in Nat /\ \A x \in Nat : x > 1 => 1 \in 1..((x + 1) \div 2)
    OBVIOUS
  <2>2. Len(Paired(f)) = (Len(f) + 1) \div 2
    BY <1>0, PairedHalves
  <2> QED
    BY <2>1, <2>2
<1>3. Paired(f)[1] = <<f[2 * 1 - 1], Evened(f)[2 * 1]>>
  BY <1>0, <1>2, PairedHalves
<1> QED
  BY <1>1, <1>3

\* Only the first hash is left out.
LEMMA BesideKeeps ==
  ASSUME NEW T, NEW f \in Seq(T), Len(f) >= 1
  PROVE  /\ Beside(f) \in Seq(T \union {None}) /\ Len(Beside(f)) = Len(f)
         /\ \A i \in 2..Len(f) : Beside(f)[i] = f[i]
BY DEF Beside

\* The length of a list given by its elements.
LEMMA ListLength ==
  ASSUME NEW n \in Nat, NEW g, g = [k \in 1..n |-> g[k]]
  PROVE  Len(g) = n /\ g \in Seq({g[k] : k \in 1..n})
<1> DEFINE T == {g[k] : k \in 1..n}
<1>1. \A k \in 1..n : g[k] \in T
  OBVIOUS
<1> HIDE DEF T
<1>2. g \in [1..n -> T]
  BY <1>1, Zenon
<1>3. g \in Seq(T) /\ Len(g) = n
  BY <1>2
<1> QED
  BY <1>3 DEF T

\* The root is what was hashed onto the first leaf on the way up.
LEMMA RootClimbs ==
  ASSUME NEW n \in Nat, NEW branch, Len(branch) = n, NEW path,
         \A k \in 1..n : path[k] = Hash(path[k - 1], branch[k])
  PROVE  merkle_root(path[0], branch) = path[n]
<1> DEFINE coinbase == path[0]
           root == CHOOSE r : Root!Solves(r, 0..n, branch, coinbase)
           Climbed == {k \in Nat : k <= n => root[k] = path[k]}
<1>1. merkle_root(coinbase, branch) = root[n]
  BY Zenon DEF merkle_root, Root!Solves, HashedOnto
<1>2. Root!Solves(root, 0..n, branch, coinbase)
  BY Root!SolutionUpTo
<1> HIDE DEF root
<1>3. \A k \in 0..n : root[k] = IF k = 0 THEN coinbase ELSE Hash(root[k - 1], branch[k])
  BY <1>2, Zenon DEF Root!Solves, HashedOnto
<1>4. 0 \in Climbed
  BY <1>3
<1>5. ASSUME NEW k \in Nat, k \in Climbed PROVE k + 1 \in Climbed
  <2> SUFFICES ASSUME k + 1 <= n PROVE root[k + 1] = path[k + 1]
    OBVIOUS
  <2>1. k + 1 \in 0..n /\ k + 1 \in 1..n /\ k + 1 # 0 /\ (k + 1) - 1 = k /\ k <= n
    OBVIOUS
  <2>2. root[k + 1] = Hash(root[k], branch[k + 1])
    BY <1>3, <2>1
  <2>3. path[k + 1] = Hash(path[k], branch[k + 1])
    BY <2>1
  <2> QED
    BY <1>5, <2>1, <2>2, <2>3
<1> HIDE DEF Climbed
<1>6. n \in Climbed
  BY <1>4, <1>5, Root!Induction
<1> QED
  BY <1>1, <1>6 DEF Climbed

\* For any coinbase and any number of transactions, hashing the coinbase up the
\* branch of mining.notify gives the root of the whole tree: what
\* tests/test_merkle.py tries on a few trees (merkle.py:12-51).
THEOREM BranchGivesRoot ==
  ASSUME NEW c, NEW S, NEW ids \in Seq(S)
  PROVE  merkle_root(c, merkle_branch(ids)) = merkle_root_full(<<c>> \o ids)
<1> DEFINE U == S \union {c, None}
           leaves == <<c>> \o ids
           hidden == <<None>> \o ids
           f == TreeOf(leaves)
           b == TreeBeside(hidden)
           n == TopOf(f, leaves)
           branch == merkle_branch(ids)
           path == [k \in 0..n |-> f[k][1]]
<1>1. /\ leaves \in Seq(U) /\ Len(leaves) = Len(ids) + 1 /\ Len(leaves) >= 1
      /\ leaves[1] = c
      /\ hidden = Beside(leaves) /\ Len(hidden) = Len(leaves)
  <2>1. /\ leaves \in Seq(U) /\ hidden \in Seq(U)
        /\ Len(leaves) = Len(ids) + 1 /\ Len(hidden) = Len(ids) + 1
        /\ Len(ids) \in Nat /\ leaves[1] = c /\ hidden[1] = None
        /\ \A i \in 2..(Len(ids) + 1) : leaves[i] = hidden[i]
    OBVIOUS
  <2> HIDE DEF leaves, hidden, U
  <2>2. /\ Beside(leaves) \in Seq(U \union {None}) /\ Len(Beside(leaves)) = Len(ids) + 1
        /\ \A i \in 1..(Len(ids) + 1) : Beside(leaves)[i] = hidden[i]
    BY <2>1 DEF Beside
  <2>3. hidden = Beside(leaves)
    BY <2>1, <2>2
  <2> QED
    BY <2>1, <2>3
<1> HIDE DEF leaves, hidden, U
<1>2. Layered(f, leaves) /\ LayeredBeside(b, hidden)
  BY TreesExist
<1> HIDE DEF f, b
<1>3. \A k \in Nat : (\E T : f[k] \in Seq(T)) /\ Len(f[k]) >= 1
  BY <1>1, <1>2, LayersHalve
<1>4. \A k \in Nat : b[k] = Beside(f[k])
  BY <1>1, <1>2, LayersBeside
<1>5. n \in 0..Len(leaves) /\ Len(f[n]) = 1 /\ \A j \in 0..(n - 1) : Len(f[j]) > 1
  <2>1. n \in 0..Len(leaves) /\ IsTop(n, Lens(f))
    BY <1>1, <1>2, TopFound
  <2> HIDE DEF n
  <2>2. \A j \in 0..n : Lens(f)[j] = Len(f[j])
    BY <1>1, <2>1 DEF Lens
  <2>3. n \in Nat /\ n \in 0..n /\ \A j \in 0..(n - 1) : j \in 0..n
    BY <1>1, <2>1
  <2> QED
    BY <2>1, <2>2, <2>3, Zenon DEF IsTop
<1>6. TopOf(b, hidden) = n
  <2>1. \A k \in Nat : Len(b[k]) = Len(f[k])
    BY <1>3, <1>4, BesideKeeps
  <2>2. \A k \in 0..Len(leaves) :
          (Len(b[k]) = 1 /\ \A j \in 0..(k - 1) : Len(b[j]) > 1)
            <=> (Len(f[k]) = 1 /\ \A j \in 0..(k - 1) : Len(f[j]) > 1)
    BY <1>1, <2>1
  <2> QED
    BY <1>1, <2>2 DEF TopOf
<1>7. n \in Nat
  BY <1>1, <1>5
<1> HIDE DEF n
<1>8. merkle_root_full(leaves) = f[n][1]
  <2>1. Layers(leaves, Paired) = [k \in 1..(n + 1) |-> f[k - 1]]
    BY LayersAre DEF f, n
  <2>2. ASSUME NEW g, g = [k \in 1..(n + 1) |-> f[k - 1]] PROVE g[Len(g)] = f[n]
    <3>1. Len(g) = n + 1
      BY <1>7, <2>2, ListLength
    <3> QED
      BY <1>7, <2>2, <3>1
  <2> QED
    BY <2>1, <2>2 DEF merkle_root_full
<1>9. /\ Len(branch) = n
      /\ \A k \in 1..n : branch[k] = Evened(b[k - 1])[2]
  <2>1. Layers(hidden, PairedBeside) = [k \in 1..(n + 1) |-> b[k - 1]]
    BY <1>6, LayersAre DEF b
  <2>2. ASSUME NEW g, g = [k \in 1..(n + 1) |-> b[k - 1]]
        PROVE  Len(g) - 1 = n /\ \A k \in 1..n : g[k] = b[k - 1]
    <3>1. Len(g) = n + 1
      BY <1>7, <2>2, ListLength
    <3> QED
      BY <1>7, <2>2, <3>1
  <2>3. branch = [k \in 1..n |-> Evened(b[k - 1])[2]]
    BY <2>1, <2>2 DEF merkle_branch, hidden
  <2> HIDE DEF branch
  <2>4. Len(branch) = n
    BY <1>7, <2>3, ListLength
  <2> QED
    BY <2>3, <2>4
<1>10. ASSUME NEW k \in 1..n
       PROVE  path[k] = Hash(path[k - 1], branch[k])
  <2>1. PICK T : f[k - 1] \in Seq(T) /\ Len(f[k - 1]) > 1
    BY <1>3, <1>5, <1>7
  <2>2. f[k] = Paired(f[k - 1])
    BY <1>2, <1>7 DEF Layered
  <2>3. f[k][1] = <<f[k - 1][1], f[k - 1][2]>>
    BY <2>1, <2>2, SecondKept
  <2>5. branch[k] = f[k - 1][2]
    <3>1. b[k - 1] = Beside(f[k - 1])
      BY <1>4, <1>7
    <3>2. /\ b[k - 1] \in Seq(T \union {None}) /\ Len(b[k - 1]) = Len(f[k - 1])
          /\ b[k - 1][2] = f[k - 1][2]
      <4>1. Len(f[k - 1]) >= 1 /\ 2 \in 2..Len(f[k - 1])
        BY <2>1
      <4>2. /\ Beside(f[k - 1]) \in Seq(T \union {None})
            /\ Len(Beside(f[k - 1])) = Len(f[k - 1])
            /\ \A i \in 2..Len(f[k - 1]) : Beside(f[k - 1])[i] = f[k - 1][i]
        BY <2>1, <4>1, BesideKeeps
      <4>3. Beside(f[k - 1])[2] = f[k - 1][2]
        BY <4>1, <4>2, Zenon
      <4> QED
        BY <3>1, <4>2, <4>3
    <3>3. Evened(b[k - 1])[2] = b[k - 1][2]
      BY <2>1, <3>2, SecondKept
    <3> QED
      BY <1>9, <3>2, <3>3
  <2>6. k \in 0..n /\ k - 1 \in 0..n
    BY <1>7
  <2> QED
    BY <2>3, <2>5, <2>6 DEF Hash
<1>11. path[0] = c /\ path[n] = f[n][1]
  <2>1. f[0] = leaves
    BY <1>2 DEF Layered
  <2> QED
    BY <1>1, <1>7, <2>1
<1> HIDE DEF path, branch
<1>12. merkle_root(c, branch) = f[n][1]
  <2>1. merkle_root(path[0], branch) = path[n]
    BY <1>7, <1>9, <1>10, RootClimbs
  <2> QED
    BY <1>11, <2>1
<1> QED
  BY <1>8, <1>12 DEF branch, leaves

ShiftedOnce(param, n, below) == below \div 256
Shift == INSTANCE Recursion WITH Step <- ShiftedOnce
DigitAdded(s, k, below) == s[Len(s) + 1 - k] + 256 * below
Digits == INSTANCE Recursion WITH Step <- DigitAdded

-----------------------------------------------------------------------------
(* Encodings: what they yield, and how long it is. *)

\* A number, shifted right by a byte again and again.
Shifts(n, k) ==
  CHOOSE f : f = [i \in 1..k |-> IF i = 1 THEN n ELSE f[i - 1] \div 256]

\* What to_bytes takes its bytes from.
LEMMA LittleShifts ==
  ASSUME NEW n \in Nat, NEW k \in Nat
  PROVE  /\ Shifts(n, k) \in [1..k -> Nat]
         /\ \A i \in 1..k :
              Shifts(n, k)[i] = IF i = 1 THEN n ELSE Shifts(n, k)[i - 1] \div 256
         /\ Little(n, k) = [i \in 1..k |-> Shifts(n, k)[i] % 256]
<1> DEFINE shifted == Shifts(n, k)
<1>1. Little(n, k) = [i \in 1..k |-> shifted[i] % 256]
  BY Zenon DEF Little, Shifts
<1>2. shifted = [i \in 1..k |-> IF i = 1 THEN n ELSE shifted[i - 1] \div 256]
  <2>1. PICK h : Shift!Solves(h, Nat, 0, n)
    BY Shift!SolutionOnNat
  <2> DEFINE g == [i \in 1..k |-> h[i - 1]]
  <2>2. \A i \in Nat : h[i] = IF i = 0 THEN n ELSE h[i - 1] \div 256
    BY <2>1, Zenon DEF Shift!Solves, ShiftedOnce
  <2>3. ASSUME NEW i \in 1..k PROVE g[i] = IF i = 1 THEN n ELSE g[i - 1] \div 256
    <3>1. CASE i = 1
      BY <2>2, <3>1
    <3>2. CASE i # 1
      <4>1. i - 1 \in Nat /\ i - 1 # 0 /\ i - 1 \in 1..k /\ (i - 1) - 1 \in Nat
        BY <3>2
      <4>2. h[i - 1] = h[(i - 1) - 1] \div 256
        BY <2>2, <4>1
      <4> QED
        BY <3>2, <4>1, <4>2
    <3> QED
      BY <3>1, <3>2
  <2>4. g = [i \in 1..k |-> IF i = 1 THEN n ELSE g[i - 1] \div 256]
    BY <2>3
  <2> HIDE DEF g
  <2> QED
    BY <2>4, Zenon DEF Shifts
<1> HIDE DEF shifted
<1> DEFINE Naturals == {i \in Nat : i + 1 \in 1..k => shifted[i + 1] \in Nat}
<1>3. \A i \in 1..k : shifted[i] = IF i = 1 THEN n ELSE shifted[i - 1] \div 256
  BY <1>2
<1>4. 0 \in Naturals
  BY <1>3
<1>5. ASSUME NEW i \in Nat, i \in Naturals PROVE i + 1 \in Naturals
  <2> SUFFICES ASSUME (i + 1) + 1 \in 1..k PROVE shifted[(i + 1) + 1] \in Nat
    OBVIOUS
  <2>1. i + 1 \in 1..k /\ (i + 1) + 1 # 1 /\ ((i + 1) + 1) - 1 = i + 1
    OBVIOUS
  <2>2. shifted[i + 1] \in Nat
    BY <1>5, <2>1
  <2>3. shifted[(i + 1) + 1] = shifted[i + 1] \div 256
    BY <1>3, <2>1
  <2> QED
    BY <2>2, <2>3
<1> HIDE DEF Naturals
<1>6. \A i \in Nat : i \in Naturals
  BY <1>4, <1>5, Shift!Induction
<1>7. ASSUME NEW i \in 1..k PROVE shifted[i] \in Nat
  <2>1. i - 1 \in Naturals /\ (i - 1) + 1 = i
    BY <1>6
  <2> QED
    BY <2>1 DEF Naturals
<1>8. shifted \in [1..k -> Nat]
  BY <1>2, <1>7
<1> QED
  BY <1>1, <1>3, <1>8, Zenon DEF shifted

\* to_bytes gives so many bytes.
LEMMA LittleBytes ==
  ASSUME NEW n \in Nat, NEW k \in Nat
  PROVE  Little(n, k) \in Seq(0..255) /\ Len(Little(n, k)) = k
<1> DEFINE f == Shifts(n, k)
<1>1. f \in [1..k -> Nat] /\ Little(n, k) = [i \in 1..k |-> f[i] % 256]
  BY LittleShifts
<1> HIDE DEF f
<1>2. \A i \in 1..k : f[i] % 256 \in 0..255
  <2>1. \A x \in Nat : x % 256 \in 0..255
    OBVIOUS
  <2>2. \A i \in 1..k : f[i] \in Nat
    BY <1>1
  <2> QED
    BY <2>1, <2>2
<1> QED
  BY <1>1, <1>2

\* A run of one byte.
LEMMA FilledIs ==
  ASSUME NEW n \in Nat, NEW S, NEW b \in S
  PROVE  Filled(n, b) \in Seq(S) /\ Len(Filled(n, b)) = n
BY DEF Filled

\* How many bytes of a number are not its lowest.
Higher(n) == Cardinality({i \in 1..3 : n \div 256^i > 0})

\* How many bytes a number takes.
LEMMA HigherBytes ==
  ASSUME NEW n \in Nat
  PROVE  /\ Higher(n) \in 0..3
         /\ n < 256 => Higher(n) = 0
         /\ 256 <= n /\ n < 65536 => Higher(n) = 1
         /\ 65536 <= n /\ n < 16777216 => Higher(n) = 2
         /\ 16777216 <= n => Higher(n) = 3
<1> DEFINE T == {i \in 1..3 : n \div 256^i > 0}
<1>1. 256^1 = 256 /\ 256^2 = 65536 /\ 256^3 = 16777216
  OBVIOUS
<1>2. \A i \in 1..3 : i \in T <=> (\/ i = 1 /\ n >= 256
                                   \/ i = 2 /\ n >= 65536
                                   \/ i = 3 /\ n >= 16777216)
  <2>1. 1 \in T <=> n >= 256
    BY <1>1
  <2>2. 2 \in T <=> n >= 65536
    BY <1>1
  <2>3. 3 \in T <=> n >= 16777216
    BY <1>1
  <2>4. \A i \in 1..3 : i = 1 \/ i = 2 \/ i = 3
    OBVIOUS
  <2> HIDE DEF T
  <2> QED
    BY <2>1, <2>2, <2>3, <2>4
<1>3. T \subseteq 1..3
  OBVIOUS
<1> HIDE DEF T
<1>4. \A i : i \in 1..3 <=> i = 1 \/ i = 2 \/ i = 3
  OBVIOUS
<1>5. Cardinality({}) = 0 /\ Cardinality({1}) = 1 /\ Cardinality({1, 2}) = 2
      /\ Cardinality({1, 2, 3}) = 3
  <2>1. IsFiniteSet({}) /\ Cardinality({}) = 0
    BY FS_EmptySet
  <2>2. IsFiniteSet({1}) /\ Cardinality({1}) = 1
    BY FS_Singleton
  <2>3. IsFiniteSet({1, 2}) /\ Cardinality({1, 2}) = 2
    <3>1. {1, 2} = {1} \union {2}
      OBVIOUS
    <3> QED
      BY <2>2, <3>1, FS_AddElement
  <2>4. Cardinality({1, 2, 3}) = 3
    <3>1. {1, 2, 3} = {1, 2} \union {3}
      OBVIOUS
    <3> QED
      BY <2>3, <3>1, FS_AddElement
  <2> QED
    BY <2>1, <2>2, <2>3, <2>4
<1>6. /\ n < 256 => T = {}
      /\ 256 <= n /\ n < 65536 => T = {1}
      /\ 65536 <= n /\ n < 16777216 => T = {1, 2}
      /\ 16777216 <= n => T = {1, 2, 3}
  <2>1. \A i : i \in T <=> (\/ i = 1 /\ n >= 256
                            \/ i = 2 /\ n >= 65536
                            \/ i = 3 /\ n >= 16777216)
    <3> TAKE i
    <3>1. CASE i \in 1..3
      BY <1>2, <3>1
    <3>2. CASE i \notin 1..3
      <4>1. i \notin T /\ i # 1 /\ i # 2 /\ i # 3
        BY <1>3, <1>4, <3>2, Zenon
      <4> QED
        BY <4>1
    <3> QED
      BY <3>1, <3>2
  <2>2. CASE n < 256
    BY <2>1, <2>2
  <2>3. CASE 256 <= n /\ n < 65536
    BY <2>1, <2>3
  <2>4. CASE 65536 <= n /\ n < 16777216
    BY <2>1, <2>4
  <2>5. CASE 16777216 <= n
    BY <2>1, <2>5
  <2> QED
    BY <2>2, <2>3, <2>4, <2>5
<1>7. Higher(n) = Cardinality(T)
  BY DEF Higher, T
<1> QED
  BY <1>5, <1>6, <1>7

\* script_num gives bytes, and at most five of them.
LEMMA ScriptNumBytes ==
  ASSUME NEW n \in Nat
  PROVE  script_num(n) \in Seq(0..255) /\ Len(script_num(n)) \in 0..5
<1>1. CASE n = 0
  <2>1. script_num(n) = <<>>
    BY <1>1 DEF script_num
  <2> QED
    BY <2>1
<1>2. CASE n # 0
  <2> DEFINE out == Little(n, 1 + Higher(n))
  <2>1. script_num(n) = IF out[Len(out)] >= 128 THEN Append(out, 0) ELSE out
    BY <1>2, Zenon DEF script_num, Higher
  <2> DEFINE k == 1 + Higher(n)
  <2>2. k \in 1..4 /\ k \in Nat
    BY HigherBytes
  <2>3. out \in Seq(0..255) /\ Len(out) = k
    BY <2>2, LittleBytes
  <2> HIDE DEF out, k
  <2>4. Append(out, 0) \in Seq(0..255) /\ Len(Append(out, 0)) = k + 1
    BY <2>2, <2>3
  <2>5. CASE out[Len(out)] >= 128
    BY <2>1, <2>2, <2>4, <2>5
  <2>6. CASE ~(out[Len(out)] >= 128)
    BY <2>1, <2>2, <2>3, <2>6
  <2> QED
    BY <2>5, <2>6
<1> QED
  BY <1>1, <1>2

\* The first shifts of a number are its quotients by 256, 65536 and so on.
LEMMA LittleOf ==
  ASSUME NEW n \in Nat
  PROVE  /\ Little(n, 1) = <<n % 256>>
         /\ Little(n, 2) = <<n % 256, (n \div 256) % 256>>
         /\ Little(n, 3) = <<n % 256, (n \div 256) % 256, ((n \div 256) \div 256) % 256>>
         /\ Little(n, 4) = <<n % 256, (n \div 256) % 256, ((n \div 256) \div 256) % 256,
                             (((n \div 256) \div 256) \div 256) % 256>>
<1>1. ASSUME NEW k \in Nat, 1 <= k, k <= 4
      PROVE  /\ Little(n, k) \in Seq(0..255) /\ Len(Little(n, k)) = k
             /\ Little(n, k)[1] = n % 256
             /\ k >= 2 => Little(n, k)[2] = (n \div 256) % 256
             /\ k >= 3 => Little(n, k)[3] = ((n \div 256) \div 256) % 256
             /\ k >= 4 => Little(n, k)[4] = (((n \div 256) \div 256) \div 256) % 256
  <2> DEFINE f == Shifts(n, k)
  <2>2. /\ f \in [1..k -> Nat]
        /\ Little(n, k) = [i \in 1..k |-> f[i] % 256]
    BY LittleShifts
  <2>11. \A i \in 1..k : f[i] = IF i = 1 THEN n ELSE f[i - 1] \div 256
    BY LittleShifts
  <2>12. 1 \in 1..k /\ (k >= 2 => 2 \in 1..k) /\ (k >= 3 => 3 \in 1..k) /\ (k >= 4 => 4 \in 1..k)
    BY <1>1
  <2> HIDE DEF f
  <2>3. /\ f[1] = n
        /\ k >= 2 => f[2] = f[1] \div 256
        /\ k >= 3 => f[3] = f[2] \div 256
        /\ k >= 4 => f[4] = f[3] \div 256
    BY <2>11, <2>12
  <2> DEFINE y == n \div 256
             z == y \div 256
             w == z \div 256
  <2>10. /\ f[1] = n /\ (k >= 2 => f[2] = y) /\ (k >= 3 => f[3] = z)
         /\ (k >= 4 => f[4] = w)
    BY <1>1, <2>3
  <2>4. \A i \in 1..k : Little(n, k)[i] = f[i] % 256
    BY <2>2
  <2>5. Little(n, k) \in Seq(0..255) /\ Len(Little(n, k)) = k
    BY <1>1, LittleBytes
  <2>6. Little(n, k)[1] = n % 256
    BY <1>1, <2>10, <2>4
  <2>7. k >= 2 => Little(n, k)[2] = (n \div 256) % 256
    BY <1>1, <2>10, <2>4
  <2>8. k >= 3 => Little(n, k)[3] = ((n \div 256) \div 256) % 256
    BY <1>1, <2>10, <2>4
  <2>9. k >= 4 => Little(n, k)[4] = (((n \div 256) \div 256) \div 256) % 256
    BY <1>1, <2>10, <2>4
  <2> QED
    BY <2>5, <2>6, <2>7, <2>8, <2>9
<1> DEFINE x == n % 256
           y == (n \div 256) % 256
           z == ((n \div 256) \div 256) % 256
           w == (((n \div 256) \div 256) \div 256) % 256
<1> HIDE DEF x, y, z, w
<1>2. ASSUME NEW k \in Nat, 1 <= k, k <= 4
      PROVE  /\ Little(n, k) \in Seq(0..255) /\ Len(Little(n, k)) = k
             /\ Little(n, k)[1] = x
             /\ k >= 2 => Little(n, k)[2] = y
             /\ k >= 3 => Little(n, k)[3] = z
             /\ k >= 4 => Little(n, k)[4] = w
  BY <1>1, <1>2 DEF x, y, z, w
<1>3. ASSUME NEW k \in Nat, k = 1 PROVE Little(n, k) = <<x>>
  <2>1. 1 <= k /\ k <= 4
    BY <1>3
  <2>2. /\ Little(n, k) \in Seq(0..255) /\ Len(Little(n, k)) = 1
        /\ Little(n, k)[1] = x
    BY <1>2, <1>3, <2>1, Zenon
  <2> QED
    BY <2>2
<1>4. ASSUME NEW k \in Nat, k = 2 PROVE Little(n, k) = <<x, y>>
  <2>1. 1 <= k /\ k <= 4 /\ k >= 2
    BY <1>4
  <2>2. /\ Little(n, k) \in Seq(0..255) /\ Len(Little(n, k)) = 2
        /\ Little(n, k)[1] = x /\ Little(n, k)[2] = y
    BY <1>2, <1>4, <2>1, Zenon
  <2> QED
    BY <2>2
<1>5. ASSUME NEW k \in Nat, k = 3 PROVE Little(n, k) = <<x, y, z>>
  <2>1. 1 <= k /\ k <= 4 /\ k >= 2 /\ k >= 3
    BY <1>5
  <2>2. /\ Little(n, k) \in Seq(0..255) /\ Len(Little(n, k)) = 3
        /\ Little(n, k)[1] = x /\ Little(n, k)[2] = y /\ Little(n, k)[3] = z
    BY <1>2, <1>5, <2>1, Zenon
  <2> QED
    BY <2>2
<1>6. ASSUME NEW k \in Nat, k = 4 PROVE Little(n, k) = <<x, y, z, w>>
  <2>1. 1 <= k /\ k <= 4 /\ k >= 2 /\ k >= 3 /\ k >= 4
    BY <1>6
  <2>2. /\ Little(n, k) \in Seq(0..255) /\ Len(Little(n, k)) = 4
        /\ Little(n, k)[1] = x /\ Little(n, k)[2] = y /\ Little(n, k)[3] = z /\ Little(n, k)[4] = w
    BY <1>2, <1>6, <2>1, Zenon
  <2> QED
    BY <2>2
<1>7. 1 \in Nat /\ 2 \in Nat /\ 3 \in Nat /\ 4 \in Nat
  OBVIOUS
<1>8. Little(n, 1) = <<x>>
  BY <1>3, <1>7, Zenon
<1>9. Little(n, 2) = <<x, y>>
  BY <1>4, <1>7, Zenon
<1>10. Little(n, 3) = <<x, y, z>>
  BY <1>5, <1>7, Zenon
<1>11. Little(n, 4) = <<x, y, z, w>>
  BY <1>6, <1>7, Zenon
<1> QED
  BY <1>8, <1>9, <1>10, <1>11, Zenon DEF x, y, z, w

\* The number little-endian bytes stand for.
ValueOf(s) == CHOOSE v : Digits!Solves(v, 0..Len(s), s, 0)

\* The value of a string of bytes is defined digit by digit.
LEMMA ScriptNumReads ==
  ASSUME NEW s, NEW n
  PROVE  IsScriptNum(s, n) <=>
           /\ s # <<>> /\ s[Len(s)] < 128 /\ ValueOf(s)[Len(s)] = n
           /\ s[Len(s)] = 0 => Len(s) > 1 /\ s[Len(s) - 1] >= 128
BY Zenon DEF IsScriptNum, ValueOf, Digits!Solves, DigitAdded

\* The values of strings of up to five bytes.
LEMMA ValuesAre ==
  ASSUME NEW s \in Seq(Nat)
  PROVE  /\ Len(s) = 1 => ValueOf(s)[Len(s)] = s[1]
         /\ Len(s) = 2 => ValueOf(s)[Len(s)] = s[1] + 256 * s[2]
         /\ Len(s) = 3 => ValueOf(s)[Len(s)] = s[1] + 256 * (s[2] + 256 * s[3])
         /\ Len(s) = 4 => ValueOf(s)[Len(s)] =
                            s[1] + 256 * (s[2] + 256 * (s[3] + 256 * s[4]))
<1> DEFINE m == Len(s)
           v == ValueOf(s)
<1>1. m \in Nat
  OBVIOUS
<1>2. Digits!Solves(v, 0..m, s, 0)
  BY <1>1, Digits!SolutionUpTo DEF ValueOf
<1> HIDE DEF v, m
<1>3. \A k \in 0..m : v[k] = IF k = 0 THEN 0 ELSE s[m + 1 - k] + 256 * v[k - 1]
  BY <1>2, Zenon DEF Digits!Solves, DigitAdded, m
<1>4. /\ v[0] = 0
      /\ m >= 1 => v[1] = s[m] + 256 * v[0]
      /\ m >= 2 => v[2] = s[m - 1] + 256 * v[1]
      /\ m >= 3 => v[3] = s[m - 2] + 256 * v[2]
      /\ m >= 4 => v[4] = s[m - 3] + 256 * v[3]
  BY <1>1, <1>3
<1>5. \A i \in 1..m : s[i] \in Nat
  BY DEF m
<1>6. CASE m = 1
  BY <1>4, <1>5, <1>6 DEF m, v
<1>7. CASE m = 2
  BY <1>4, <1>5, <1>7 DEF m, v
<1>8. CASE m = 3
  BY <1>4, <1>5, <1>8 DEF m, v
<1>9. CASE m = 4
  BY <1>4, <1>5, <1>9 DEF m, v
<1> QED
  BY <1>6, <1>7, <1>8, <1>9 DEF m, v

\* What makes a string of bytes the script number of n.
LEMMA ReadsAs ==
  ASSUME NEW s \in Seq(Nat), NEW n \in Nat,
         Len(s) >= 1, s[Len(s)] < 128,
         s[Len(s)] = 0 => Len(s) > 1 /\ s[Len(s) - 1] >= 128,
         \/ Len(s) = 1 /\ n = s[1]
         \/ Len(s) = 2 /\ n = s[1] + 256 * s[2]
         \/ Len(s) = 3 /\ n = s[1] + 256 * (s[2] + 256 * s[3])
         \/ Len(s) = 4 /\ n = s[1] + 256 * (s[2] + 256 * (s[3] + 256 * s[4]))
  PROVE  IsScriptNum(s, n)
<1>1. s # <<>>
  OBVIOUS
<1>2. ValueOf(s)[Len(s)] = n
  <2> DEFINE v == ValueOf(s)[Len(s)]
  <2>1. /\ Len(s) = 1 => v = s[1]
        /\ Len(s) = 2 => v = s[1] + 256 * s[2]
        /\ Len(s) = 3 => v = s[1] + 256 * (s[2] + 256 * s[3])
        /\ Len(s) = 4 => v = s[1] + 256 * (s[2] + 256 * (s[3] + 256 * s[4]))
    BY ValuesAre
  <2> HIDE DEF v
  <2> QED
    BY <2>1 DEF v
<1> QED
  BY <1>1, <1>2, ScriptNumReads

\* script_num is the minimal signed number BIP34 asks for.
THEOREM ScriptNumFits ==
  ASSUME NEW n \in Nat, n > 0, n <= MaxHeight
  PROVE  IsScriptNum(script_num(n), n)
<1> DEFINE out == Little(n, 1 + Higher(n))
           x == n % 256
           y == (n \div 256) % 256
           z == ((n \div 256) \div 256) % 256
           w == (((n \div 256) \div 256) \div 256) % 256
<1>1. script_num(n) = IF out[Len(out)] >= 128 THEN Append(out, 0) ELSE out
  <2>1. n # 0
    OBVIOUS
  <2> QED
    BY <2>1, Zenon DEF script_num, Higher
<1>2. /\ x \in 0..255 /\ y \in 0..255 /\ z \in 0..255 /\ w \in 0..127
      /\ n = x + 256 * (y + 256 * (z + 256 * w))
      /\ n < 256 => y = 0 /\ z = 0 /\ w = 0 /\ x > 0
      /\ 256 <= n /\ n < 65536 => z = 0 /\ w = 0 /\ y > 0
      /\ 65536 <= n /\ n < 16777216 => w = 0 /\ z > 0
      /\ 16777216 <= n => w > 0
  BY SMTT(30) DEF MaxHeight
<1>3. Higher(n) \in 0..3
  BY HigherBytes
<1> HIDE DEF x, y, z, w
<1>4. CASE n < 256
  <2>1. 1 + Higher(n) = 1
    BY <1>3, <1>4, HigherBytes, SMT
  <2>2. out = <<x>>
    <3>1. out = Little(n, 1)
      BY <2>1
    <3>2. Little(n, 1) = <<x>>
      BY LittleOf DEF x
    <3> HIDE DEF out
    <3> QED
      BY <3>1, <3>2
  <2> HIDE DEF out
  <2>3. n = x /\ x > 0
    BY <1>2, <1>4, SMT
  <2>6. Len(out) = 1 /\ out[Len(out)] = x
    BY <2>2
  <2>4. CASE x >= 128
    <3> DEFINE s == Append(out, 0)
    <3>1. s \in Seq(Nat) /\ Len(s) = 2 /\ s[2] = 0
          /\ s[1] = x
      BY <1>2, <2>2, SMT
    <3>2. script_num(n) = s
      BY <1>1, <2>4, <2>6, SMT
    <3> HIDE DEF s
    <3>3. /\ Len(s) >= 1 /\ s[Len(s)] < 128
          /\ Len(s) > 1 /\ s[Len(s) - 1] >= 128
      BY <2>4, <3>1
    <3>4. n = s[1] + 256 * s[2]
      BY <1>2, <2>3, <3>1, SMT
    <3> QED
      BY <3>1, <3>2, <3>3, <3>4, ReadsAs
  <2>5. CASE ~(x >= 128)
    <3> DEFINE s == out
    <3>1. s \in Seq(Nat) /\ Len(s) = 1
          /\ s[1] = x
      BY <1>2, <2>2, SMT
    <3>2. script_num(n) = s
      BY <1>1, <2>5, <2>6, SMT
    <3>3. x \in Nat /\ x < 128
      BY <1>2, <2>5, SMT
    <3> HIDE DEF s
    <3>4. Len(s) >= 1 /\ s[Len(s)] < 128 /\ s[Len(s)] # 0
      BY <2>3, <3>1, <3>3
    <3>5. n = s[1]
      BY <2>3, <3>1, SMT
    <3> QED
      BY <3>1, <3>2, <3>4, <3>5, ReadsAs
  <2> QED
    BY <2>4, <2>5
<1>5. CASE 256 <= n /\ n < 65536
  <2>1. 1 + Higher(n) = 2
    BY <1>3, <1>5, HigherBytes, SMT
  <2>2. out = <<x, y>>
    <3>1. out = Little(n, 2)
      BY <2>1
    <3>2. Little(n, 2) = <<x, y>>
      BY LittleOf DEF x, y
    <3> HIDE DEF out
    <3> QED
      BY <3>1, <3>2
  <2> HIDE DEF out
  <2>3. n = x + 256 * y /\ y > 0
    BY <1>2, <1>5, SMT
  <2>6. Len(out) = 2 /\ out[Len(out)] = y
    BY <2>2
  <2>4. CASE y >= 128
    <3> DEFINE s == Append(out, 0)
    <3>1. s \in Seq(Nat) /\ Len(s) = 3 /\ s[3] = 0
          /\ s[1] = x /\ s[2] = y
      BY <1>2, <2>2, SMT
    <3>2. script_num(n) = s
      BY <1>1, <2>4, <2>6, SMT
    <3> HIDE DEF s
    <3>3. /\ Len(s) >= 1 /\ s[Len(s)] < 128
          /\ Len(s) > 1 /\ s[Len(s) - 1] >= 128
      BY <2>4, <3>1
    <3>4. n = s[1] + 256 * (s[2] + 256 * s[3])
      BY <1>2, <2>3, <3>1, SMT
    <3> QED
      BY <3>1, <3>2, <3>3, <3>4, ReadsAs
  <2>5. CASE ~(y >= 128)
    <3> DEFINE s == out
    <3>1. s \in Seq(Nat) /\ Len(s) = 2
          /\ s[1] = x /\ s[2] = y
      BY <1>2, <2>2, SMT
    <3>2. script_num(n) = s
      BY <1>1, <2>5, <2>6, SMT
    <3>3. y \in Nat /\ y < 128
      BY <1>2, <2>5, SMT
    <3> HIDE DEF s
    <3>4. Len(s) >= 1 /\ s[Len(s)] < 128 /\ s[Len(s)] # 0
      BY <2>3, <3>1, <3>3
    <3>5. n = s[1] + 256 * s[2]
      BY <2>3, <3>1, SMT
    <3> QED
      BY <3>1, <3>2, <3>4, <3>5, ReadsAs
  <2> QED
    BY <2>4, <2>5
<1>6. CASE 65536 <= n /\ n < 16777216
  <2>1. 1 + Higher(n) = 3
    BY <1>3, <1>6, HigherBytes, SMT
  <2>2. out = <<x, y, z>>
    <3>1. out = Little(n, 3)
      BY <2>1
    <3>2. Little(n, 3) = <<x, y, z>>
      BY LittleOf DEF x, y, z
    <3> HIDE DEF out
    <3> QED
      BY <3>1, <3>2
  <2> HIDE DEF out
  <2>3. n = x + 256 * (y + 256 * z) /\ z > 0
    BY <1>2, <1>6, SMT
  <2>6. Len(out) = 3 /\ out[Len(out)] = z
    BY <2>2
  <2>4. CASE z >= 128
    <3> DEFINE s == Append(out, 0)
    <3>1. s \in Seq(Nat) /\ Len(s) = 4 /\ s[4] = 0
          /\ s[1] = x /\ s[2] = y /\ s[3] = z
      BY <1>2, <2>2, SMT
    <3>2. script_num(n) = s
      BY <1>1, <2>4, <2>6, SMT
    <3> HIDE DEF s
    <3>3. /\ Len(s) >= 1 /\ s[Len(s)] < 128
          /\ Len(s) > 1 /\ s[Len(s) - 1] >= 128
      BY <2>4, <3>1
    <3>4. n = s[1] + 256 * (s[2] + 256 * (s[3] + 256 * s[4]))
      BY <1>2, <2>3, <3>1, SMT
    <3> QED
      BY <3>1, <3>2, <3>3, <3>4, ReadsAs
  <2>5. CASE ~(z >= 128)
    <3> DEFINE s == out
    <3>1. s \in Seq(Nat) /\ Len(s) = 3
          /\ s[1] = x /\ s[2] = y /\ s[3] = z
      BY <1>2, <2>2, SMT
    <3>2. script_num(n) = s
      BY <1>1, <2>5, <2>6, SMT
    <3>3. z \in Nat /\ z < 128
      BY <1>2, <2>5, SMT
    <3> HIDE DEF s
    <3>4. Len(s) >= 1 /\ s[Len(s)] < 128 /\ s[Len(s)] # 0
      BY <2>3, <3>1, <3>3
    <3>5. n = s[1] + 256 * (s[2] + 256 * s[3])
      BY <2>3, <3>1, SMT
    <3> QED
      BY <3>1, <3>2, <3>4, <3>5, ReadsAs
  <2> QED
    BY <2>4, <2>5
<1>7. CASE 16777216 <= n
  <2>1. 1 + Higher(n) = 4
    BY <1>3, <1>7, HigherBytes, SMT
  <2>2. out = <<x, y, z, w>>
    <3>1. out = Little(n, 4)
      BY <2>1
    <3>2. Little(n, 4) = <<x, y, z, w>>
      BY LittleOf DEF x, y, z, w
    <3> HIDE DEF out
    <3> QED
      BY <3>1, <3>2
  <2> HIDE DEF out
  <2>3. n = x + 256 * (y + 256 * (z + 256 * w)) /\ w > 0
    BY <1>2, <1>7, SMT
  <2>6. Len(out) = 4 /\ out[Len(out)] = w
    BY <2>2
  <2>4. ~(w >= 128)
    BY <1>2, SMT
  <2>5. CASE ~(w >= 128)
    <3> DEFINE s == out
    <3>1. s \in Seq(Nat) /\ Len(s) = 4
          /\ s[1] = x /\ s[2] = y /\ s[3] = z /\ s[4] = w
      BY <1>2, <2>2, SMT
    <3>2. script_num(n) = s
      BY <1>1, <2>5, <2>6, SMT
    <3>3. w \in Nat /\ w < 128
      BY <1>2, <2>5, SMT
    <3> HIDE DEF s
    <3>4. Len(s) >= 1 /\ s[Len(s)] < 128 /\ s[Len(s)] # 0
      BY <2>3, <3>1, <3>3
    <3>5. n = s[1] + 256 * (s[2] + 256 * (s[3] + 256 * s[4]))
      BY <2>3, <3>1, SMT
    <3> QED
      BY <3>1, <3>2, <3>4, <3>5, ReadsAs
  <2> QED
    BY <2>4, <2>5
<1> QED
  BY <1>4, <1>5, <1>6, <1>7, SMT

-----------------------------------------------------------------------------
(* Reading a string back. *)

\* The string f stands in b from i on.
Holds(b, i, f) ==
  /\ i + Len(f) - 1 <= Len(b)
  /\ \A k \in 1..Len(f) : b[i + k - 1] = f[k]

\* A string stands at its own beginning.
LEMMA HoldsAll ==
  ASSUME NEW S, NEW b \in Seq(S)
  PROVE  Holds(b, 1, b)
<1>1. Len(b) \in Nat /\ \A k \in 1..Len(b) : 1 + k - 1 = k
  OBVIOUS
<1> QED
  BY <1>1 DEF Holds

\* Two strings joined stand where the one does and the other behind it.
LEMMA HoldsParts ==
  ASSUME NEW S, NEW b \in Seq(S), NEW i \in Nat, i >= 1,
         NEW f \in Seq(S), NEW g \in Seq(S)
  PROVE  Holds(b, i, f \o g) <=> Holds(b, i, f) /\ Holds(b, i + Len(f), g)
<1> DEFINE m == Len(f)
           n == Len(g)
           h == f \o g
<1>1. /\ m \in Nat /\ n \in Nat /\ Len(b) \in Nat
      /\ Len(h) = m + n
      /\ \A k \in 1..m : h[k] = f[k]
      /\ \A k \in 1..n : h[m + k] = g[k]
  OBVIOUS
<1> HIDE DEF m, n, h
<1>2. ASSUME Holds(b, i, h)
      PROVE  Holds(b, i, f) /\ Holds(b, i + m, g)
  <2>1. i + (m + n) - 1 <= Len(b) /\ \A k \in 1..(m + n) : b[i + k - 1] = h[k]
    BY <1>1, <1>2 DEF Holds
  <2>2. \A k \in 1..m : b[i + k - 1] = f[k]
    BY <1>1, <2>1
  <2>3. ASSUME NEW k \in 1..n PROVE b[i + m + k - 1] = g[k]
    <3>1. m + k \in 1..(m + n) /\ i + (m + k) - 1 = i + m + k - 1
      BY <1>1
    <3>2. b[i + (m + k) - 1] = h[m + k]
      BY <2>1, <3>1
    <3> QED
      BY <1>1, <3>1, <3>2
  <2>4. i + m - 1 <= Len(b) /\ i + m + n - 1 <= Len(b)
    BY <1>1, <2>1
  <2> QED
    BY <2>2, <2>3, <2>4 DEF Holds, m, n
<1>3. ASSUME Holds(b, i, f), Holds(b, i + m, g)
      PROVE  Holds(b, i, h)
  <2>1. /\ \A k \in 1..m : b[i + k - 1] = f[k]
        /\ i + m + n - 1 <= Len(b) /\ \A k \in 1..n : b[i + m + k - 1] = g[k]
    BY <1>3 DEF Holds, m, n
  <2>2. ASSUME NEW k \in 1..(m + n) PROVE b[i + k - 1] = h[k]
    <3>1. CASE k \in 1..m
      BY <1>1, <2>1, <3>1
    <3>2. CASE k \notin 1..m
      <4>1. k - m \in 1..n /\ m + (k - m) = k /\ i + m + (k - m) - 1 = i + k - 1
        BY <1>1, <3>2
      <4>2. b[i + m + (k - m) - 1] = g[k - m] /\ h[m + (k - m)] = g[k - m]
        BY <1>1, <2>1, <4>1
      <4> QED
        BY <4>1, <4>2
    <3> QED
      BY <3>1, <3>2
  <2>3. i + (m + n) - 1 <= Len(b)
    BY <1>1, <2>1
  <2> QED
    BY <1>1, <2>2, <2>3 DEF Holds
<1> QED
  BY <1>2, <1>3 DEF m, h

\* Cutting out where a string stands gives that string.
LEMMA HoldsSlice ==
  ASSUME NEW S, NEW b \in Seq(S), NEW i \in Nat, i >= 1, NEW f \in Seq(S),
         Holds(b, i, f)
  PROVE  /\ Slice(b, i, i + Len(f) - 1) = f
         /\ SubSeq(b, i, i + Len(f) - 1) = f
<1> DEFINE n == Len(f)
           j == i + n - 1
<1>1. n \in Nat /\ Len(b) \in Nat /\ j \in Int
  OBVIOUS
<1>2. j <= Len(b) /\ \A k \in 1..n : b[i + k - 1] = f[k]
  BY DEF Holds
<1>3. Slice(b, i, j) = SubSeq(b, i, j)
  <2> HIDE DEF j
  <2>1. CASE j < Len(b)
    BY <2>1 DEF Slice
  <2>2. CASE ~(j < Len(b))
    <3>1. j = Len(b)
      BY <1>1, <1>2, <2>2
    <3> QED
      BY <2>2, <3>1 DEF Slice
  <2> QED
    BY <2>1, <2>2
<1>4. SubSeq(b, i, j) = [k \in 1..n |-> b[i + k - 1]]
  <2>1. SubSeq(b, i, j) = [k \in 1..(1 + j - i) |-> b[i + k - 1]]
    BY <1>1
  <2>2. 1 + j - i = n
    BY <1>1
  <2> QED
    BY <2>1, <2>2
<1>5. f = [k \in 1..n |-> f[k]]
  OBVIOUS
<1> HIDE DEF n
<1>6. SubSeq(b, i, j) = f
  BY <1>2, <1>4, <1>5
<1> QED
  BY <1>3, <1>6 DEF n

\* Reading where a byte stands gives that byte.
LEMMA HoldsByte ==
  ASSUME NEW S, NEW b \in Seq(S), NEW i \in Nat, i >= 1, NEW x, Holds(b, i, <<x>>)
  PROVE  At(b, i) = x
<1>1. Len(<<x>>) = 1 /\ <<x>>[1] = x /\ i + 1 - 1 = i /\ i <= Len(b)
  BY DEF Holds
<1>2. b[i] = x
  BY <1>1 DEF Holds
<1> QED
  BY <1>1, <1>2 DEF At

\* A count below 253 is its own byte.
LEMMA ReadByte ==
  ASSUME NEW S, NEW b \in Seq(S), NEW i \in Nat, i >= 1, NEW x \in Nat, x < 253,
         Holds(b, i, <<x>>)
  PROVE  ReadVarint(b, i) = [n |-> x, next |-> i + 1]
BY HoldsByte DEF ReadVarint

\* The fields of a coinbase that begins at i, each at its place.
FieldsAt(S, b, i, prevout, sig, sequence, value, script) ==
  /\ prevout \in Seq(S) /\ Len(prevout) = 36
  /\ sig \in Seq(S) /\ Len(sig) < 253
  /\ sequence \in Seq(S) /\ Len(sequence) = 4
  /\ value \in Seq(S) /\ Len(value) = 8
  /\ script \in Seq(S) /\ Len(script) < 253
  /\ Holds(b, i + 4, <<1>>)
  /\ Holds(b, i + 5, prevout)
  /\ Holds(b, i + 41, <<Len(sig)>>)
  /\ Holds(b, i + 42, sig)
  /\ Holds(b, i + 42 + Len(sig), sequence)
  /\ Holds(b, i + 46 + Len(sig), <<1>>)
  /\ Holds(b, i + 47 + Len(sig), value)
  /\ Holds(b, i + 55 + Len(sig), <<Len(script)>>)
  /\ Holds(b, i + 56 + Len(sig), script)

\* What a parser makes of a coinbase whose length fields fit.
LEMMA CoinbaseRead ==
  ASSUME NEW S, NEW b \in Seq(S), NEW i \in Nat, i >= 1,
         NEW prevout, NEW sig, NEW sequence, NEW value, NEW script,
         FieldsAt(S, b, i, prevout, sig, sequence, value, script)
  PROVE  ReadCoinbase(b, i) =
           [inputs |-> 1, outputs |-> 1, prevout |-> prevout, scriptSig |-> sig,
            sequence |-> sequence, value |-> value, script |-> script,
            next |-> i + 60 + Len(sig) + Len(script)]
<1>0. /\ prevout \in Seq(S) /\ Len(prevout) = 36
      /\ sig \in Seq(S) /\ Len(sig) < 253
      /\ sequence \in Seq(S) /\ Len(sequence) = 4
      /\ value \in Seq(S) /\ Len(value) = 8
      /\ script \in Seq(S) /\ Len(script) < 253
      /\ Holds(b, i + 4, <<1>>)
      /\ Holds(b, i + 5, prevout)
      /\ Holds(b, i + 41, <<Len(sig)>>)
      /\ Holds(b, i + 42, sig)
      /\ Holds(b, i + 42 + Len(sig), sequence)
      /\ Holds(b, i + 46 + Len(sig), <<1>>)
      /\ Holds(b, i + 47 + Len(sig), value)
      /\ Holds(b, i + 55 + Len(sig), <<Len(script)>>)
      /\ Holds(b, i + 56 + Len(sig), script)
  BY Zenon DEF FieldsAt
<1> USE <1>0
<1> DEFINE s == Len(sig)
           p == Len(script)
           ins == ReadVarint(b, i + 4)
           sigs == ReadVarint(b, ins.next + 36)
           outs == ReadVarint(b, sigs.next + sigs.n + 4)
           pk == ReadVarint(b, outs.next + 8)
<1>1. s \in Nat /\ p \in Nat /\ s < 253 /\ p < 253
  OBVIOUS
<1>2. ins = [n |-> 1, next |-> i + 5]
  <2>1. i + 4 \in Nat /\ i + 4 >= 1 /\ 1 \in Nat /\ 1 < 253 /\ i + 4 + 1 = i + 5
    OBVIOUS
  <2> QED
    BY <2>1, ReadByte
<1> HIDE DEF ins, s, p
<1>3. sigs = [n |-> s, next |-> i + 42]
  <2>1. ins.next + 36 = i + 41
    BY <1>2
  <2>2. i + 41 \in Nat /\ i + 41 >= 1 /\ i + 41 + 1 = i + 42
    OBVIOUS
  <2> QED
    BY <1>1, <2>1, <2>2, ReadByte DEF s
<1> HIDE DEF sigs
<1>4. outs = [n |-> 1, next |-> i + 47 + s]
  <2>1. sigs.next + sigs.n + 4 = i + 46 + s
    BY <1>1, <1>3
  <2>2. i + 46 + s \in Nat /\ i + 46 + s >= 1 /\ i + 46 + s + 1 = i + 47 + s /\ 1 < 253
    BY <1>1
  <2> QED
    BY <2>1, <2>2, ReadByte DEF s
<1> HIDE DEF outs
<1>5. pk = [n |-> p, next |-> i + 56 + s]
  <2>1. outs.next + 8 = i + 55 + s
    BY <1>1, <1>4
  <2>2. i + 55 + s \in Nat /\ i + 55 + s >= 1 /\ i + 55 + s + 1 = i + 56 + s
    BY <1>1
  <2> QED
    BY <1>1, <2>1, <2>2, ReadByte DEF s, p
<1> HIDE DEF pk
<1>6. ReadCoinbase(b, i) =
        [inputs |-> ins.n, outputs |-> outs.n,
         prevout |-> Slice(b, ins.next, ins.next + 35),
         scriptSig |-> Slice(b, sigs.next, sigs.next + sigs.n - 1),
         sequence |-> Slice(b, sigs.next + sigs.n, sigs.next + sigs.n + 3),
         value |-> Slice(b, outs.next, outs.next + 7),
         script |-> Slice(b, pk.next, pk.next + pk.n - 1),
         next |-> pk.next + pk.n + 4]
  BY Zenon DEF ReadCoinbase, ins, sigs, outs, pk
<1>7. Slice(b, ins.next, ins.next + 35) = prevout
  <2>1. ins.next = i + 5 /\ ins.next + 35 = (i + 5) + Len(prevout) - 1
        /\ i + 5 \in Nat /\ i + 5 >= 1
    BY <1>2
  <2>2. Slice(b, i + 5, (i + 5) + Len(prevout) - 1) = prevout
    BY <2>1, HoldsSlice
  <2> QED
    BY <2>1, <2>2
<1>8. Slice(b, sigs.next, sigs.next + sigs.n - 1) = sig
  <2>1. sigs.next = i + 42 /\ sigs.next + sigs.n - 1 = (i + 42) + Len(sig) - 1
        /\ i + 42 \in Nat /\ i + 42 >= 1
    BY <1>3 DEF s
  <2> QED
    BY <2>1, HoldsSlice
<1>9. Slice(b, sigs.next + sigs.n, sigs.next + sigs.n + 3) = sequence
  <2>1. /\ sigs.next + sigs.n = i + 42 + s
        /\ sigs.next + sigs.n + 3 = (i + 42 + s) + Len(sequence) - 1
        /\ i + 42 + s \in Nat /\ i + 42 + s >= 1
    BY <1>1, <1>3
  <2>2. Holds(b, i + 42 + s, sequence)
    BY DEF s
  <2>3. Slice(b, i + 42 + s, (i + 42 + s) + Len(sequence) - 1) = sequence
    BY <2>1, <2>2, HoldsSlice
  <2> QED
    BY <2>1, <2>3
<1>10. Slice(b, outs.next, outs.next + 7) = value
  <2>1. outs.next = i + 47 + s /\ outs.next + 7 = (i + 47 + s) + Len(value) - 1
        /\ i + 47 + s \in Nat /\ i + 47 + s >= 1
    BY <1>1, <1>4
  <2>2. Holds(b, i + 47 + s, value)
    BY DEF s
  <2>3. Slice(b, i + 47 + s, (i + 47 + s) + Len(value) - 1) = value
    BY <2>1, <2>2, HoldsSlice
  <2> QED
    BY <2>1, <2>3
<1>11. Slice(b, pk.next, pk.next + pk.n - 1) = script
  <2>1. pk.next = i + 56 + s /\ pk.next + pk.n - 1 = (i + 56 + s) + Len(script) - 1
        /\ i + 56 + s \in Nat /\ i + 56 + s >= 1
    BY <1>1, <1>5 DEF p
  <2> QED
    BY <2>1, HoldsSlice DEF s
<1>12. pk.next + pk.n + 4 = i + 60 + s + p
  BY <1>1, <1>5
<1>13. ins.n = 1 /\ outs.n = 1
  BY <1>2, <1>4
<1> QED
  BY <1>6, <1>7, <1>8, <1>9, <1>10, <1>11, <1>12, <1>13 DEF s, p

\* Two strings joined are a string as long as both.
LEMMA Joined ==
  ASSUME NEW S, NEW f \in Seq(S), NEW g \in Seq(S)
  PROVE  f \o g \in Seq(S) /\ Len(f \o g) = Len(f) + Len(g)
OBVIOUS

\* The parts of a string that stands somewhere stand there too.
LEMMA Apart ==
  ASSUME NEW S, NEW b \in Seq(S), NEW i \in Nat, i >= 1,
         NEW f \in Seq(S), NEW g \in Seq(S), Holds(b, i, f \o g)
  PROVE  Holds(b, i, f) /\ Holds(b, i + Len(f), g)
BY HoldsParts

\* Strings that stand one behind the other stand there as one.
LEMMA Together ==
  ASSUME NEW S, NEW b \in Seq(S), NEW i \in Nat, i >= 1,
         NEW f \in Seq(S), NEW g \in Seq(S),
         Holds(b, i, f), Holds(b, i + Len(f), g)
  PROVE  Holds(b, i, f \o g)
BY HoldsParts

\* The fields of a coinbase, and the string that build_coinbase_parts and
\* assemble make of them.
LaidOut(S, f) ==
  /\ f.ver \in Seq(S) /\ f.hash \in Seq(S) /\ f.index \in Seq(S) /\ f.push \in Seq(S)
  /\ f.en1 \in Seq(S) /\ f.en2 \in Seq(S) /\ f.tag \in Seq(S) /\ f.sequence \in Seq(S)
  /\ f.value \in Seq(S) /\ f.script \in Seq(S) /\ f.lock \in Seq(S)

SigOf(f) == f.push \o f.en1 \o f.en2 \o f.tag
FrontOf(f) == f.ver \o <<1>> \o f.hash \o f.index \o <<Len(SigOf(f))>> \o f.push
BackOf(f) == f.tag \o f.sequence \o <<1>> \o f.value \o <<Len(f.script)>> \o f.script \o f.lock
RawOf(f) == FrontOf(f) \o f.en1 \o f.en2 \o BackOf(f)

\* The length fields fit in a byte, and the others have the lengths they must.
Sized(S, f) ==
  /\ Len(f.ver) = 4 /\ Len(f.hash) = 32 /\ Len(f.index) = 4 /\ Len(f.sequence) = 4
  /\ Len(f.value) = 8 /\ Len(f.lock) = 4
  /\ Len(SigOf(f)) < 253 /\ Len(SigOf(f)) \in S
  /\ Len(f.script) < 253 /\ Len(f.script) \in S /\ 1 \in S

\* Where the fields of a coinbase stand.
LEMMA CoinbaseHolds ==
  ASSUME NEW S, NEW f, LaidOut(S, f), Sized(S, f),
         NEW b \in Seq(S), NEW i \in Nat, i >= 1, Holds(b, i, RawOf(f))
  PROVE  /\ RawOf(f) \in Seq(S) /\ SigOf(f) \in Seq(S) /\ f.hash \o f.index \in Seq(S)
         /\ Len(f.hash \o f.index) = 36
         /\ Len(RawOf(f)) = 60 + Len(SigOf(f)) + Len(f.script)
         /\ Holds(b, i + 4, <<1>>)
         /\ Holds(b, i + 5, f.hash \o f.index)
         /\ Holds(b, i + 41, <<Len(SigOf(f))>>)
         /\ Holds(b, i + 42, SigOf(f))
         /\ Holds(b, i + 42 + Len(SigOf(f)), f.sequence)
         /\ Holds(b, i + 46 + Len(SigOf(f)), <<1>>)
         /\ Holds(b, i + 47 + Len(SigOf(f)), f.value)
         /\ Holds(b, i + 55 + Len(SigOf(f)), <<Len(f.script)>>)
         /\ Holds(b, i + 56 + Len(SigOf(f)), f.script)
<1> DEFINE ver == f.ver
           hash == f.hash
           index == f.index
           push == f.push
           en1 == f.en1
           en2 == f.en2
           tag == f.tag
           sequence == f.sequence
           value == f.value
           script == f.script
           lock == f.lock
           one == <<1>>
           lens == <<Len(SigOf(f))>>
           lenp == <<Len(f.script)>>
           a1 == ver \o one
           a2 == a1 \o hash
           a3 == a2 \o index
           a4 == a3 \o lens
           c1 == a4 \o push
           r1 == c1 \o en1
           r2 == r1 \o en2
           d1 == tag \o sequence
           d2 == d1 \o one
           d3 == d2 \o value
           d4 == d3 \o lenp
           d5 == d4 \o script
           c2 == d5 \o lock
           raw == r2 \o c2
           s1 == push \o en1
           s2 == s1 \o en2
           sig == s2 \o tag
           prevout == hash \o index
<1>1. ver \in Seq(S) /\ hash \in Seq(S) /\ index \in Seq(S) /\ push \in Seq(S)
      /\ en1 \in Seq(S) /\ en2 \in Seq(S) /\ tag \in Seq(S) /\ sequence \in Seq(S)
      /\ value \in Seq(S) /\ script \in Seq(S) /\ lock \in Seq(S)
  BY DEF LaidOut
<1>2. one \in Seq(S) /\ lens \in Seq(S) /\ lenp \in Seq(S)
      /\ Len(one) = 1 /\ Len(lens) = 1 /\ Len(lenp) = 1
  BY DEF Sized
<1>3. RawOf(f) = raw /\ SigOf(f) = sig /\ f.hash \o f.index = prevout
  BY Zenon DEF RawOf, SigOf, FrontOf, BackOf
<1>4. Holds(b, i, raw)
  BY <1>3, Zenon
<1>5. /\ Len(ver) = 4 /\ Len(hash) = 32 /\ Len(index) = 4 /\ Len(sequence) = 4
      /\ Len(value) = 8 /\ Len(lock) = 4
  BY DEF Sized
<1> HIDE DEF ver, hash, index, push, en1, en2, tag, sequence, value, script, lock, one, lens, lenp, a1, a2, a3, a4, c1, r1, r2, d1, d2, d3, d4, d5, c2, raw, s1, s2, sig, prevout
<1>7. a1 \in Seq(S) /\ Len(a1) = Len(ver) + Len(one)
  BY <1>1, <1>2, Joined, Zenon DEF a1
<1>8. a2 \in Seq(S) /\ Len(a2) = Len(a1) + Len(hash)
  BY <1>1, <1>7, Joined, Zenon DEF a2
<1>9. a3 \in Seq(S) /\ Len(a3) = Len(a2) + Len(index)
  BY <1>1, <1>8, Joined, Zenon DEF a3
<1>10. a4 \in Seq(S) /\ Len(a4) = Len(a3) + Len(lens)
  BY <1>2, <1>9, Joined, Zenon DEF a4
<1>11. c1 \in Seq(S) /\ Len(c1) = Len(a4) + Len(push)
  BY <1>1, <1>10, Joined, Zenon DEF c1
<1>12. r1 \in Seq(S) /\ Len(r1) = Len(c1) + Len(en1)
  BY <1>1, <1>11, Joined, Zenon DEF r1
<1>13. r2 \in Seq(S) /\ Len(r2) = Len(r1) + Len(en2)
  BY <1>1, <1>12, Joined, Zenon DEF r2
<1>14. d1 \in Seq(S) /\ Len(d1) = Len(tag) + Len(sequence)
  BY <1>1, Joined, Zenon DEF d1
<1>15. d2 \in Seq(S) /\ Len(d2) = Len(d1) + Len(one)
  BY <1>14, <1>2, Joined, Zenon DEF d2
<1>16. d3 \in Seq(S) /\ Len(d3) = Len(d2) + Len(value)
  BY <1>1, <1>15, Joined, Zenon DEF d3
<1>17. d4 \in Seq(S) /\ Len(d4) = Len(d3) + Len(lenp)
  BY <1>16, <1>2, Joined, Zenon DEF d4
<1>18. d5 \in Seq(S) /\ Len(d5) = Len(d4) + Len(script)
  BY <1>1, <1>17, Joined, Zenon DEF d5
<1>19. c2 \in Seq(S) /\ Len(c2) = Len(d5) + Len(lock)
  BY <1>1, <1>18, Joined, Zenon DEF c2
<1>20. raw \in Seq(S) /\ Len(raw) = Len(r2) + Len(c2)
  BY <1>13, <1>19, Joined, Zenon DEF raw
<1>21. s1 \in Seq(S) /\ Len(s1) = Len(push) + Len(en1)
  BY <1>1, Joined, Zenon DEF s1
<1>22. s2 \in Seq(S) /\ Len(s2) = Len(s1) + Len(en2)
  BY <1>1, <1>21, Joined, Zenon DEF s2
<1>23. sig \in Seq(S) /\ Len(sig) = Len(s2) + Len(tag)
  BY <1>1, <1>22, Joined, Zenon DEF sig
<1>24. prevout \in Seq(S) /\ Len(prevout) = Len(hash) + Len(index)
  BY <1>1, Joined, Zenon DEF prevout
<1>25. Holds(b, i, r2) /\ Holds(b, i + Len(r2), c2)
  BY <1>13, <1>19, <1>4, Apart, Zenon DEF raw
<1>26. Holds(b, i, r1) /\ Holds(b, i + Len(r1), en2)
  BY <1>12, <1>1, <1>25, Apart, Zenon DEF r2
<1>27. Holds(b, i, c1) /\ Holds(b, i + Len(c1), en1)
  BY <1>11, <1>1, <1>26, Apart, Zenon DEF r1
<1>28. Holds(b, i, a4) /\ Holds(b, i + Len(a4), push)
  BY <1>10, <1>1, <1>27, Apart, Zenon DEF c1
<1>29. Holds(b, i, a3) /\ Holds(b, i + Len(a3), lens)
  BY <1>9, <1>2, <1>28, Apart, Zenon DEF a4
<1>30. Holds(b, i, a2) /\ Holds(b, i + Len(a2), index)
  BY <1>8, <1>1, <1>29, Apart, Zenon DEF a3
<1>31. Holds(b, i, a1) /\ Holds(b, i + Len(a1), hash)
  BY <1>7, <1>1, <1>30, Apart, Zenon DEF a2
<1>32. Holds(b, i, ver) /\ Holds(b, i + Len(ver), one)
  BY <1>1, <1>2, <1>31, Apart, Zenon DEF a1
<1> DEFINE j == i + Len(r2)
<1>33. j \in Nat /\ j >= 1 /\ Holds(b, j, c2)
  BY <1>13, <1>25
<1> HIDE DEF j
<1>34. Holds(b, j, d5) /\ Holds(b, j + Len(d5), lock)
  BY <1>18, <1>1, <1>33, Apart, Zenon DEF c2
<1>35. Holds(b, j, d4) /\ Holds(b, j + Len(d4), script)
  BY <1>17, <1>1, <1>34, <1>33, Apart, Zenon DEF d5
<1>36. Holds(b, j, d3) /\ Holds(b, j + Len(d3), lenp)
  BY <1>16, <1>2, <1>35, <1>33, Apart, Zenon DEF d4
<1>37. Holds(b, j, d2) /\ Holds(b, j + Len(d2), value)
  BY <1>15, <1>1, <1>36, <1>33, Apart, Zenon DEF d3
<1>38. Holds(b, j, d1) /\ Holds(b, j + Len(d1), one)
  BY <1>14, <1>2, <1>37, <1>33, Apart, Zenon DEF d2
<1>39. Holds(b, j, tag) /\ Holds(b, j + Len(tag), sequence)
  BY <1>1, <1>38, <1>33, Apart, Zenon DEF d1
<1>40. /\ Len(push) \in Nat /\ Len(en1) \in Nat /\ Len(en2) \in Nat /\ Len(tag) \in Nat
       /\ Len(script) \in Nat
  BY <1>1
<1>41. Len(a1) = 5 /\ Len(a2) = 37 /\ Len(a3) = 41 /\ Len(a4) = 42
  BY <1>2, <1>5, <1>7, <1>8, <1>9, <1>10
<1>42. /\ Len(r1) = 42 + Len(push) + Len(en1)
       /\ Len(r2) = 42 + Len(push) + Len(en1) + Len(en2)
       /\ Len(c1) = 42 + Len(push)
  BY <1>11, <1>12, <1>13, <1>40, <1>41
<1>43. /\ Len(d1) = Len(tag) + 4 /\ Len(d2) = Len(tag) + 5 /\ Len(d3) = Len(tag) + 13
       /\ Len(d4) = Len(tag) + 14 /\ Len(c2) = Len(tag) + 18 + Len(script)
  BY <1>2, <1>5, <1>14, <1>15, <1>16, <1>17, <1>18, <1>19, <1>40
<1>44. /\ Len(s1) = Len(push) + Len(en1) /\ Len(s2) = Len(push) + Len(en1) + Len(en2)
       /\ Len(sig) = Len(push) + Len(en1) + Len(en2) + Len(tag)
  BY <1>21, <1>22, <1>23, <1>40
<1>45. Len(raw) = 60 + Len(sig) + Len(script)
  BY <1>20, <1>40, <1>42, <1>43, <1>44
<1>46. Holds(b, i + 42, sig)
  <2>1. i + 42 \in Nat /\ i + 42 >= 1
    OBVIOUS
  <2>2. Holds(b, i + 42, push)
    BY <1>28, <1>41
  <2>3. Holds(b, i + 42 + Len(push), en1)
    <3>1. i + Len(c1) = i + 42 + Len(push)
      BY <1>40, <1>42
    <3> QED
      BY <1>27, <3>1
  <2>4. Holds(b, i + 42 + Len(s1), en2)
    <3>1. i + Len(r1) = i + 42 + Len(s1)
      BY <1>40, <1>42, <1>44
    <3> QED
      BY <1>26, <3>1
  <2>5. Holds(b, i + 42 + Len(s2), tag)
    <3>1. j = i + 42 + Len(s2)
      BY <1>40, <1>42, <1>44 DEF j
    <3> QED
      BY <1>39, <3>1
  <2> DEFINE k == i + 42
  <2>6. k \in Nat /\ k >= 1 /\ Holds(b, k, push) /\ Holds(b, k + Len(push), en1)
        /\ Holds(b, k + Len(s1), en2) /\ Holds(b, k + Len(s2), tag)
    BY <2>1, <2>2, <2>3, <2>4, <2>5
  <2> HIDE DEF k
  <2>7. Holds(b, k, s1)
    BY <1>1, <2>6, Together, Zenon DEF s1
  <2>8. Holds(b, k, s2)
    BY <1>1, <1>21, <2>6, <2>7, Together, Zenon DEF s2
  <2>9. Holds(b, k, sig)
    BY <1>1, <1>22, <2>6, <2>8, Together, Zenon DEF sig
  <2> QED
    BY <2>9 DEF k
<1>47. Holds(b, i + 5, prevout) /\ Len(prevout) = 36
  <2> DEFINE k == i + 5
  <2>1. k \in Nat /\ k >= 1 /\ Holds(b, k, hash) /\ Holds(b, k + Len(hash), index)
    <3>1. i + Len(a2) = i + 5 + Len(hash) /\ i + Len(a1) = i + 5
      BY <1>5, <1>41
    <3> QED
      BY <1>30, <1>31, <3>1
  <2> HIDE DEF k
  <2>2. Holds(b, k, prevout)
    BY <1>1, <2>1, Together, Zenon DEF prevout
  <2>3. Len(prevout) = 36
    BY <1>5, <1>24
  <2> QED
    BY <2>2, <2>3 DEF k
<1>48. /\ Holds(b, i + 4, one) /\ Holds(b, i + 41, lens)
       /\ Holds(b, i + 42 + Len(sig), sequence)
       /\ Holds(b, i + 46 + Len(sig), one)
       /\ Holds(b, i + 47 + Len(sig), value)
       /\ Holds(b, i + 55 + Len(sig), lenp)
       /\ Holds(b, i + 56 + Len(sig), script)
  <2>1. /\ i + Len(ver) = i + 4 /\ i + Len(a3) = i + 41
        /\ j + Len(tag) = i + 42 + Len(sig)
        /\ j + Len(d1) = i + 46 + Len(sig)
        /\ j + Len(d2) = i + 47 + Len(sig)
        /\ j + Len(d3) = i + 55 + Len(sig)
        /\ j + Len(d4) = i + 56 + Len(sig)
    BY <1>5, <1>40, <1>41, <1>42, <1>43, <1>44 DEF j
  <2> QED
    BY <1>29, <1>32, <1>35, <1>36, <1>37, <1>38, <1>39, <2>1
<1> QED
  BY <1>3, <1>20, <1>23, <1>24, <1>45, <1>46, <1>47, <1>48, Zenon
     DEF one, lens, lenp, sequence, value, script

-----------------------------------------------------------------------------
(* The coinbase of a template and that of a mock job. *)

\* A string that holds such a coinbase parses as one.
LEMMA RawRead ==
  ASSUME NEW S, NEW f, LaidOut(S, f), Sized(S, f),
         NEW b \in Seq(S), NEW i \in Nat, i >= 1, Holds(b, i, RawOf(f))
  PROVE  /\ ReadCoinbase(b, i) =
              [inputs |-> 1, outputs |-> 1, prevout |-> f.hash \o f.index,
               scriptSig |-> SigOf(f), sequence |-> f.sequence, value |-> f.value,
               script |-> f.script, next |-> i + Len(RawOf(f))]
         /\ RawOf(f) \in Seq(S)
<1> DEFINE sig == SigOf(f)
           prevout == f.hash \o f.index
           sequence == f.sequence
           value == f.value
           script == f.script
           raw == RawOf(f)
<1>1. /\ raw \in Seq(S) /\ sig \in Seq(S) /\ prevout \in Seq(S)
      /\ Len(prevout) = 36
      /\ Len(raw) = 60 + Len(sig) + Len(script)
      /\ Holds(b, i + 4, <<1>>)
      /\ Holds(b, i + 5, prevout)
      /\ Holds(b, i + 41, <<Len(sig)>>)
      /\ Holds(b, i + 42, sig)
      /\ Holds(b, i + 42 + Len(sig), sequence)
      /\ Holds(b, i + 46 + Len(sig), <<1>>)
      /\ Holds(b, i + 47 + Len(sig), value)
      /\ Holds(b, i + 55 + Len(sig), <<Len(script)>>)
      /\ Holds(b, i + 56 + Len(sig), script)
  BY CoinbaseHolds
<1>2. /\ sequence \in Seq(S) /\ Len(sequence) = 4
      /\ value \in Seq(S) /\ Len(value) = 8
      /\ script \in Seq(S) /\ Len(script) < 253
      /\ Len(sig) < 253
  BY DEF LaidOut, Sized
<1> HIDE DEF sig, prevout, sequence, value, script, raw
<1>3. ReadCoinbase(b, i) =
        [inputs |-> 1, outputs |-> 1, prevout |-> prevout, scriptSig |-> sig,
         sequence |-> sequence, value |-> value, script |-> script,
         next |-> i + 60 + Len(sig) + Len(script)]
  <2>1. FieldsAt(S, b, i, prevout, sig, sequence, value, script)
    BY <1>1, <1>2, Zenon DEF FieldsAt
  <2> QED
    BY <2>1, CoinbaseRead
<1>4. i + 60 + Len(sig) + Len(script) = i + Len(raw)
  <2>1. \A x, y \in Nat : i + 60 + x + y = i + (60 + x + y)
    OBVIOUS
  <2>2. Len(sig) \in Nat /\ Len(script) \in Nat /\ Len(raw) = 60 + Len(sig) + Len(script)
    BY <1>1, <1>2
  <2>3. i + 60 + Len(sig) + Len(script) = i + (60 + Len(sig) + Len(script))
    BY <2>1, <2>2, Zenon
  <2> QED
    BY <2>2, <2>3, Zenon
<1> QED
  BY <1>1, <1>3, <1>4, Zenon DEF sig, prevout, sequence, value, script, raw

\* The coinbase of a template, and that of a mock job.
RealCoinbase(height, value, script, en2) ==
  [ver |-> Little(2, 4), hash |-> Filled(32, 0), index |-> Filled(4, 255),
   push |-> bip34_height_push(height), en1 |-> Extranonce1, en2 |-> en2,
   tag |-> COINBASE_TAG, sequence |-> Filled(4, 255), value |-> Little(value, 8),
   script |-> script, lock |-> Filled(4, 0)]

MockScript == <<118, 169, 20>> \o Filled(20, 0) \o <<136, 172>>
MockCoinbase(en2) ==
  [ver |-> Little(1, 4), hash |-> Filled(32, 0), index |-> Filled(4, 255),
   push |-> <<>>, en1 |-> Extranonce1, en2 |-> en2,
   tag |-> <<>>, sequence |-> Filled(4, 255), value |-> Filled(8, 0),
   script |-> MockScript, lock |-> Filled(4, 0)]

\* A string over fewer symbols is one over more.
LEMMA SeqWider ==
  ASSUME NEW S, NEW T, S \subseteq T, NEW s \in Seq(S)
  PROVE  s \in Seq(T)
OBVIOUS

\* Strings of bytes and what else a block's body has.
WithBytes(S) == 0..255 \subseteq S

\* A string of bytes is one over any symbols with the bytes.
LEMMA ByteStrings ==
  ASSUME NEW S, WithBytes(S), NEW s \in Seq(0..255)
  PROVE  s \in Seq(S)
BY SeqWider, Zenon DEF WithBytes

\* The parts of a coinbase that are always the same.
LEMMA FixedParts ==
  ASSUME NEW S, WithBytes(S)
  PROVE  /\ Filled(32, 0) \in Seq(S) /\ Len(Filled(32, 0)) = 32
         /\ Filled(20, 0) \in Seq(S) /\ Len(Filled(20, 0)) = 20
         /\ Filled(8, 0) \in Seq(S) /\ Len(Filled(8, 0)) = 8
         /\ Filled(4, 0) \in Seq(S) /\ Len(Filled(4, 0)) = 4
         /\ Filled(4, 255) \in Seq(S) /\ Len(Filled(4, 255)) = 4
         /\ COINBASE_TAG \in Seq(S) /\ Len(COINBASE_TAG) = 15
         /\ Extranonce1 \in Seq(S) /\ Len(Extranonce1) = 4
<1>1. ASSUME NEW n \in Nat, NEW b \in 0..255
      PROVE  Filled(n, b) \in Seq(S) /\ Len(Filled(n, b)) = n
  <2>1. b \in S
    BY DEF WithBytes
  <2> QED
    BY <2>1, FilledIs
<1>2. /\ 0 \in 0..255 /\ 47 \in 0..255 /\ 255 \in 0..255
      /\ 32 \in Nat /\ 20 \in Nat /\ 8 \in Nat /\ 4 \in Nat /\ 15 \in Nat
  OBVIOUS
<1>3. Filled(32, 0) \in Seq(S) /\ Len(Filled(32, 0)) = 32
  BY <1>1, <1>2, Zenon
<1>4. Filled(20, 0) \in Seq(S) /\ Len(Filled(20, 0)) = 20
  BY <1>1, <1>2, Zenon
<1>5. Filled(8, 0) \in Seq(S) /\ Len(Filled(8, 0)) = 8
  BY <1>1, <1>2, Zenon
<1>6. Filled(4, 0) \in Seq(S) /\ Len(Filled(4, 0)) = 4
  BY <1>1, <1>2, Zenon
<1>7. Filled(4, 255) \in Seq(S) /\ Len(Filled(4, 255)) = 4
  BY <1>1, <1>2, Zenon
<1>8. COINBASE_TAG \in Seq(S) /\ Len(COINBASE_TAG) = 15
  BY <1>1, <1>2, Zenon DEF COINBASE_TAG
<1>9. Extranonce1 \in Seq(S) /\ Len(Extranonce1) = 4
  <2>1. Extranonce1 \in Seq(0..255) /\ Len(Extranonce1) = 4
    BY DEF Extranonce1
  <2> QED
    BY <2>1, ByteStrings, Zenon
<1> QED
  BY <1>3, <1>4, <1>5, <1>6, <1>7, <1>8, <1>9, Zenon

\* The push of a height is the length of its number and the number.
LEMMA PushBytes ==
  ASSUME NEW h \in Nat, h > 0
  PROVE  /\ bip34_height_push(h) = <<Len(script_num(h))>> \o script_num(h)
         /\ bip34_height_push(h) \in Seq(0..255)
         /\ Len(bip34_height_push(h)) = 1 + Len(script_num(h))
         /\ Len(script_num(h)) \in 0..5
<1> DEFINE s == script_num(h)
<1>1. s \in Seq(0..255) /\ Len(s) \in 0..5
  BY ScriptNumBytes
<1>2. bip34_height_push(h) = <<Len(s)>> \o s
  BY Zenon DEF bip34_height_push
<1> HIDE DEF s
<1>3. <<Len(s)>> \in Seq(0..255) /\ Len(<<Len(s)>>) = 1
  BY <1>1
<1> QED
  BY <1>1, <1>2, <1>3, Joined DEF s

\* f are the fields of a template's coinbase.
IsReal(S, f, height, value, script, en2) ==
  /\ WithBytes(S)
  /\ height \in Nat /\ height > 0 /\ value \in Nat
  /\ script \in Seq(0..255) /\ Len(script) < 253
  /\ en2 \in Seq(S) /\ Len(en2) = 4
  /\ f = RealCoinbase(height, value, script, en2)

\* The fields of a template's coinbase have the lengths they must.
LEMMA RealLaidOut ==
  ASSUME NEW S, NEW f, NEW height, NEW value, NEW script, NEW en2,
         IsReal(S, f, height, value, script, en2)
  PROVE  /\ LaidOut(S, f) /\ Sized(S, f)
         /\ Len(SigOf(f)) = 24 + Len(script_num(height))
         /\ SigOf(f) = bip34_height_push(height) \o Extranonce1 \o en2 \o COINBASE_TAG
         /\ f.hash \o f.index = Filled(32, 0) \o Filled(4, 255)
<1>0. /\ WithBytes(S)
      /\ height \in Nat /\ height > 0 /\ value \in Nat
      /\ script \in Seq(0..255) /\ Len(script) < 253
      /\ en2 \in Seq(S) /\ Len(en2) = 4
      /\ f = RealCoinbase(height, value, script, en2)
  BY Zenon DEF IsReal
<1> USE <1>0
<1> DEFINE push == bip34_height_push(height)
           k == Len(script_num(height))
<1>1. /\ f.ver = Little(2, 4) /\ f.hash = Filled(32, 0) /\ f.index = Filled(4, 255)
      /\ f.push = push /\ f.en1 = Extranonce1
      /\ f.en2 = en2 /\ f.tag = COINBASE_TAG /\ f.sequence = Filled(4, 255)
      /\ f.value = Little(value, 8) /\ f.script = script /\ f.lock = Filled(4, 0)
  BY DEF RealCoinbase
<1>2. push \in Seq(S) /\ Len(push) = 1 + k /\ k \in 0..5
  BY PushBytes, ByteStrings
<1>3. /\ Little(2, 4) \in Seq(S) /\ Len(Little(2, 4)) = 4
      /\ Little(value, 8) \in Seq(S) /\ Len(Little(value, 8)) = 8
  <2>1. ASSUME NEW n \in Nat, NEW m \in Nat
        PROVE  Little(n, m) \in Seq(S) /\ Len(Little(n, m)) = m
    BY LittleBytes, ByteStrings
  <2>2. 2 \in Nat /\ 4 \in Nat /\ 8 \in Nat
    OBVIOUS
  <2> QED
    BY <2>1, <2>2, Zenon
<1>4. script \in Seq(S)
  BY ByteStrings
<1> HIDE DEF push, k
<1>5. LaidOut(S, f)
  BY <1>1, <1>2, <1>3, <1>4, FixedParts, Zenon DEF LaidOut
<1> DEFINE s1 == push \o Extranonce1
           s2 == s1 \o en2
           sig == s2 \o COINBASE_TAG
<1>6. SigOf(f) = sig
  BY <1>1, Zenon DEF SigOf
<1>7. Extranonce1 \in Seq(S) /\ Len(Extranonce1) = 4
      /\ COINBASE_TAG \in Seq(S) /\ Len(COINBASE_TAG) = 15
  BY FixedParts, Zenon
<1> HIDE DEF s1, s2, sig
<1>8. s1 \in Seq(S) /\ Len(s1) = Len(push) + Len(Extranonce1)
  BY <1>2, <1>7, Joined, Zenon DEF s1
<1>9. s2 \in Seq(S) /\ Len(s2) = Len(s1) + Len(en2)
  BY <1>8, Joined, Zenon DEF s2
<1>10. sig \in Seq(S) /\ Len(sig) = Len(s2) + Len(COINBASE_TAG)
  BY <1>7, <1>9, Joined, Zenon DEF sig
<1>11. Len(sig) = 24 + k
  BY <1>2, <1>7, <1>8, <1>9, <1>10
<1>12. Sized(S, f)
  <2>1. Len(sig) < 253 /\ Len(sig) \in S /\ Len(script) \in S /\ 1 \in S
    <3>1. ASSUME NEW x \in Nat, x < 253 PROVE x \in S
      <4>1. x \in 0..255
        BY <3>1
      <4> QED
        BY <4>1 DEF WithBytes
    <3>2. Len(sig) \in Nat /\ Len(sig) < 253
      <4>1. \A x \in 0..5 : 24 + x \in Nat /\ 24 + x < 253
        OBVIOUS
      <4> QED
        BY <1>2, <1>11, <4>1, Zenon
    <3>3. Len(script) \in Nat /\ 1 \in Nat /\ 1 < 253
      OBVIOUS
    <3> QED
      BY <3>1, <3>2, <3>3, Zenon
  <2> QED
    BY <1>1, <1>3, <1>6, <2>1, FixedParts, Zenon DEF Sized
<1> QED
  BY <1>1, <1>5, <1>6, <1>11, <1>12, Zenon DEF k, push, sig, s2, s1

\* The script of a mock job is as long as its length says.
LEMMA MockScriptIs ==
  ASSUME NEW S, WithBytes(S)
  PROVE  MockScript \in Seq(S) /\ Len(MockScript) = 25
<1> DEFINE a == <<118, 169, 20>>
           z == <<136, 172>>
           m == Filled(20, 0)
           am == a \o m
<1>1. a \in Seq(S) /\ Len(a) = 3 /\ z \in Seq(S) /\ Len(z) = 2
  <2>1. a \in Seq(0..255) /\ z \in Seq(0..255) /\ Len(a) = 3 /\ Len(z) = 2
    OBVIOUS
  <2> QED
    BY <2>1, ByteStrings, Zenon
<1>2. m \in Seq(S) /\ Len(m) = 20
  BY FixedParts
<1>3. MockScript = am \o z
  BY Zenon DEF MockScript
<1> HIDE DEF a, z, m, am
<1>4. am \in Seq(S) /\ Len(am) = Len(a) + Len(m)
  BY <1>1, <1>2, Joined, Zenon DEF am
<1>5. am \o z \in Seq(S) /\ Len(am \o z) = Len(am) + Len(z)
  BY <1>1, <1>4, Joined, Zenon
<1> QED
  BY <1>1, <1>2, <1>3, <1>4, <1>5

\* f are the fields of a mock job's coinbase.
IsMock(S, f, en2) ==
  /\ WithBytes(S) /\ en2 \in Seq(S) /\ Len(en2) = 4
  /\ f = MockCoinbase(en2)

\* The fields of a mock job's coinbase have the lengths they must.
LEMMA MockLaidOut ==
  ASSUME NEW S, NEW f, NEW en2, IsMock(S, f, en2)
  PROVE  /\ LaidOut(S, f) /\ Sized(S, f)
         /\ Len(SigOf(f)) = 8
         /\ f.hash \o f.index = Filled(32, 0) \o Filled(4, 255)
<1>0. /\ WithBytes(S) /\ en2 \in Seq(S) /\ Len(en2) = 4
      /\ f = MockCoinbase(en2)
  BY Zenon DEF IsMock
<1> USE <1>0
<1> DEFINE nil == <<>>
<1>1. /\ f.ver = Little(1, 4) /\ f.hash = Filled(32, 0) /\ f.index = Filled(4, 255)
      /\ f.push = nil /\ f.en1 = Extranonce1
      /\ f.en2 = en2 /\ f.tag = nil /\ f.sequence = Filled(4, 255)
      /\ f.value = Filled(8, 0) /\ f.script = MockScript /\ f.lock = Filled(4, 0)
  BY DEF MockCoinbase
<1>2. nil \in Seq(S) /\ Len(nil) = 0
  OBVIOUS
<1>3. Little(1, 4) \in Seq(S) /\ Len(Little(1, 4)) = 4
  <2>1. ASSUME NEW n \in Nat, NEW m \in Nat
        PROVE  Little(n, m) \in Seq(S) /\ Len(Little(n, m)) = m
    BY LittleBytes, ByteStrings
  <2>2. 1 \in Nat /\ 4 \in Nat
    OBVIOUS
  <2> QED
    BY <2>1, <2>2, Zenon
<1> DEFINE s1 == nil \o Extranonce1
           s2 == s1 \o en2
           sig == s2 \o nil
<1> HIDE DEF nil
<1>4. MockScript \in Seq(S) /\ Len(MockScript) = 25
  BY MockScriptIs
<1>5. LaidOut(S, f)
  <2>1. /\ f.ver \in Seq(S) /\ f.push \in Seq(S) /\ f.tag \in Seq(S) /\ f.script \in Seq(S)
        /\ f.en2 \in Seq(S)
    BY <1>1, <1>2, <1>3, <1>4, Zenon
  <2>2. /\ f.hash \in Seq(S) /\ f.index \in Seq(S) /\ f.en1 \in Seq(S)
        /\ f.sequence \in Seq(S) /\ f.value \in Seq(S) /\ f.lock \in Seq(S)
    BY <1>1, FixedParts, Zenon
  <2> QED
    BY <2>1, <2>2, Zenon DEF LaidOut
<1>6. SigOf(f) = sig
  BY <1>1, Zenon DEF SigOf
<1>7. Extranonce1 \in Seq(S) /\ Len(Extranonce1) = 4
  BY FixedParts, Zenon
<1> HIDE DEF s1, s2, sig
<1>8. s1 \in Seq(S) /\ Len(s1) = Len(nil) + Len(Extranonce1)
  BY <1>2, <1>7, Joined, Zenon DEF s1
<1>9. s2 \in Seq(S) /\ Len(s2) = Len(s1) + Len(en2)
  BY <1>8, Joined, Zenon DEF s2
<1>10. sig \in Seq(S) /\ Len(sig) = Len(s2) + Len(nil)
  BY <1>2, <1>9, Joined, Zenon DEF sig
<1>11. Len(sig) = 8
  BY <1>2, <1>7, <1>8, <1>9, <1>10
<1>12. Sized(S, f)
  <2>1. Len(sig) < 253 /\ Len(sig) \in S /\ Len(MockScript) \in S /\ Len(MockScript) < 253 /\ 1 \in S
    <3>1. 8 \in 0..255 /\ 25 \in 0..255 /\ 1 \in 0..255
      OBVIOUS
    <3>2. 8 < 253 /\ 25 < 253
      OBVIOUS
    <3> QED
      BY <1>4, <1>11, <3>1, <3>2 DEF WithBytes
  <2> QED
    BY <1>1, <1>3, <1>6, <2>1, FixedParts, Zenon DEF Sized
<1> QED
  BY <1>1, <1>5, <1>6, <1>11, <1>12, Zenon

\* build_coinbase_parts and assemble lay these fields out.
LEMMA RealAssembled ==
  ASSUME NEW S, NEW f, NEW height, NEW value, NEW script, NEW en2,
         IsReal(S, f, height, value, script, en2)
  PROVE  assemble(build_coinbase_parts(height, value, script), Extranonce1, en2) = RawOf(f)
<1>0. /\ WithBytes(S)
      /\ height \in Nat /\ height > 0 /\ value \in Nat
      /\ script \in Seq(0..255) /\ Len(script) < 253
      /\ en2 \in Seq(S) /\ Len(en2) = 4
      /\ f = RealCoinbase(height, value, script, en2)
  BY Zenon DEF IsReal
<1> USE <1>0
<1> DEFINE push == bip34_height_push(height)
           parts == build_coinbase_parts(height, value, script)
<1>1. /\ f.ver = Little(2, 4) /\ f.hash = Filled(32, 0) /\ f.index = Filled(4, 255)
      /\ f.push = push /\ f.en1 = Extranonce1
      /\ f.en2 = en2 /\ f.tag = COINBASE_TAG /\ f.sequence = Filled(4, 255)
      /\ f.value = Little(value, 8) /\ f.script = script /\ f.lock = Filled(4, 0)
  BY DEF RealCoinbase
<1>2. Len(SigOf(f)) = 24 + Len(script_num(height))
  BY RealLaidOut, Zenon
<1>3. ScriptSigLen(push) = 24 + Len(script_num(height))
  <2>1. Len(push) = 1 + Len(script_num(height)) /\ Len(script_num(height)) \in 0..5
    BY PushBytes
  <2>2. Len(COINBASE_TAG) = 15
    BY FixedParts
  <2> HIDE DEF push
  <2> QED
    BY <2>1, <2>2, SMT DEF ScriptSigLen, EXTRANONCE1_SIZE, EXTRANONCE2_SIZE
<1>4. \A n \in Nat : n < 253 => encode_varint(n) = <<n>>
  BY DEF encode_varint
<1> DEFINE lens == <<Len(SigOf(f))>>
           lenp == <<Len(f.script)>>
           one == <<1>>
<1>5. encode_varint(1) = one
  <2>1. 1 \in Nat /\ 1 < 253
    OBVIOUS
  <2> QED
    BY <1>4, <2>1, Zenon
<1>6. encode_varint(ScriptSigLen(push)) = lens
  <2>1. Len(SigOf(f)) \in Nat /\ Len(SigOf(f)) < 253
    <3>1. Len(script_num(height)) \in 0..5
      BY PushBytes
    <3>2. \A x \in 0..5 : 24 + x \in Nat /\ 24 + x < 253
      OBVIOUS
    <3> QED
      BY <1>2, <3>1, <3>2, Zenon
  <2> QED
    BY <1>2, <1>3, <1>4, <2>1, Zenon
<1>7. encode_varint(Len(script)) = lenp
  <2>1. Len(script) \in Nat /\ f.script = script
    BY <1>1
  <2> QED
    BY <1>4, <2>1, Zenon
<1>8. /\ parts.c1 = Little(2, 4) \o encode_varint(1) \o Filled(32, 0) \o Filled(4, 255)
                    \o encode_varint(ScriptSigLen(push)) \o push
      /\ parts.c2 = COINBASE_TAG \o Filled(4, 255) \o encode_varint(1)
                    \o Little(value, 8) \o encode_varint(Len(script)) \o script
                    \o Filled(4, 0)
  BY DEF build_coinbase_parts
<1> HIDE DEF push, parts, lens, lenp, one
<1>9. parts.c1 = FrontOf(f)
  <2>1. parts.c1 = f.ver \o one \o f.hash \o f.index \o lens \o f.push
    BY <1>1, <1>5, <1>6, <1>8, Zenon
  <2> QED
    BY <2>1, Zenon DEF FrontOf, one, lens
<1>10. parts.c2 = BackOf(f)
  <2>1. parts.c2 = f.tag \o f.sequence \o one \o f.value \o lenp \o f.script \o f.lock
    BY <1>1, <1>5, <1>7, <1>8, Zenon
  <2> QED
    BY <2>1, Zenon DEF BackOf, one, lenp
<1> QED
  BY <1>1, <1>9, <1>10, Zenon DEF assemble, RawOf, parts

Strings(S, s, t, u) == s \in Seq(S) /\ t \in Seq(S) /\ u \in Seq(S)

\* Joining strings is associative.
LEMMA Associated ==
  ASSUME NEW S, NEW s, NEW t, NEW u, Strings(S, s, t, u)
  PROVE  (s \o t) \o u = s \o (t \o u)
BY ConcatAssociative DEF Strings

\* MockJob's two halves lay these fields out.
LEMMA MockAssembled ==
  ASSUME NEW S, NEW f, NEW en2, IsMock(S, f, en2)
  PROVE  assemble(MockParts, Extranonce1, en2) = RawOf(f)
<1>0. /\ WithBytes(S) /\ en2 \in Seq(S) /\ Len(en2) = 4
      /\ f = MockCoinbase(en2)
  BY Zenon DEF IsMock
<1> USE <1>0
<1> DEFINE nil == <<>>
           one == <<1>>
           len == <<25>>
           a == <<118, 169, 20>>
           m == Filled(20, 0)
           z == <<136, 172>>
           lens == <<Len(SigOf(f))>>
           lenp == <<Len(f.script)>>
           ver == Little(1, 4)
           lock == Filled(4, 0)
           ones == Filled(4, 255)
           value == Filled(8, 0)
<1>1. /\ f.ver = ver /\ f.hash = Filled(32, 0) /\ f.index = ones
      /\ f.push = nil /\ f.en1 = Extranonce1
      /\ f.en2 = en2 /\ f.tag = nil /\ f.sequence = ones
      /\ f.value = value /\ f.script = MockScript /\ f.lock = lock
  BY DEF MockCoinbase
<1>2. lens = <<8>> /\ lenp = len
  <2>1. Len(SigOf(f)) = 8
    BY MockLaidOut
  <2>2. Len(f.script) = 25
    BY <1>1, MockScriptIs
  <2> QED
    BY <2>1, <2>2
<1>3. /\ a \in Seq(S) /\ m \in Seq(S) /\ z \in Seq(S) /\ len \in Seq(S) /\ one \in Seq(S)
      /\ ones \in Seq(S) /\ value \in Seq(S) /\ nil \in Seq(S) /\ lock \in Seq(S)
      /\ <<8>> \in Seq(S)
  <2>1. /\ a \in Seq(0..255) /\ z \in Seq(0..255) /\ len \in Seq(0..255) /\ one \in Seq(0..255)
        /\ nil \in Seq(0..255) /\ <<8>> \in Seq(0..255)
    OBVIOUS
  <2>2. /\ a \in Seq(S) /\ z \in Seq(S) /\ len \in Seq(S) /\ one \in Seq(S)
        /\ nil \in Seq(S) /\ <<8>> \in Seq(S)
    BY <2>1, ByteStrings, Zenon
  <2>3. m \in Seq(S) /\ ones \in Seq(S) /\ value \in Seq(S) /\ lock \in Seq(S)
    BY FixedParts, Zenon
  <2> QED
    BY <2>2, <2>3, Zenon
<1>4. <<25, 118, 169, 20>> = len \o a
  OBVIOUS
<1>5. MockParts.c1 = ver \o one \o Filled(32, 0) \o ones \o lens
  BY <1>2 DEF MockParts
<1>6. MockParts.c2 = ones \o one \o value \o <<25, 118, 169, 20>> \o m \o z \o lock
  BY DEF MockParts
<1>7. MockScript = a \o m \o z
  BY Zenon DEF MockScript
<1>8. ver \in Seq(S) /\ Filled(32, 0) \in Seq(S)
  <2>1. ver \in Seq(0..255)
    <3>1. 1 \in Nat /\ 4 \in Nat
      OBVIOUS
    <3> QED
      BY <3>1, LittleBytes, Zenon
  <2> QED
    BY <2>1, ByteStrings, FixedParts, Zenon
<1> HIDE DEF nil, one, len, a, m, z, lens, lenp, ver, lock, ones, value
<1> DEFINE zeros == Filled(32, 0)
           front == ver \o one \o zeros \o ones \o lens
<1>9. front \in Seq(S)
  <2>1. lens \in Seq(S) /\ zeros \in Seq(S)
    BY <1>2, <1>3, <1>8
  <2> HIDE DEF zeros
  <2> DEFINE f1 == ver \o one
             f2 == f1 \o zeros
             f3 == f2 \o ones
  <2> HIDE DEF f1, f2, f3
  <2>2. f1 \in Seq(S)
    BY <1>3, <1>8, Joined, Zenon DEF f1
  <2>3. f2 \in Seq(S)
    BY <2>1, <2>2, Joined, Zenon DEF f2
  <2>4. f3 \in Seq(S)
    BY <1>3, <2>3, Joined, Zenon DEF f3
  <2>5. f3 \o lens \in Seq(S)
    BY <2>1, <2>4, Joined, Zenon
  <2> QED
    BY <2>5, Zenon DEF f1, f2, f3
<1> HIDE DEF zeros
<1>10. FrontOf(f) = front \o nil
  BY <1>1, Zenon DEF FrontOf, front, one, lens, zeros
<1>11. MockParts.c1 = front
  BY <1>5, Zenon DEF front, zeros
<1> HIDE DEF front
<1>12. MockParts.c1 = FrontOf(f)
  BY <1>9, <1>10, <1>11, ConcatEmptySeq, Zenon DEF nil
<1> DEFINE d1 == ones \o one
           d2 == d1 \o value
           am == a \o m
<1>13. d1 \in Seq(S)
  BY <1>3, Joined, Zenon DEF d1
<1> HIDE DEF d1
<1>14. d2 \in Seq(S)
  BY <1>3, <1>13, Joined, Zenon DEF d2
<1>15. am \in Seq(S)
  BY <1>3, Joined, Zenon DEF am
<1> HIDE DEF d2, am
<1>16. MockParts.c2 = d2 \o (len \o a) \o m \o z \o lock
  BY <1>4, <1>6, Zenon DEF d2, d1
<1>17. BackOf(f) = nil \o ones \o one \o value \o len \o MockScript \o lock
  BY <1>1, <1>2, Zenon DEF BackOf, one, lenp
<1>18. nil \o ones = ones
  BY <1>3, ConcatEmptySeq, Zenon DEF nil
<1>19. BackOf(f) = (d2 \o len) \o (am \o z) \o lock
  BY <1>7, <1>17, <1>18, Zenon DEF d2, d1, am
<1> DEFINE dl == d2 \o len
<1>20. dl \in Seq(S)
  BY <1>3, <1>14, Joined, Zenon DEF dl
<1>21. dl \o a = d2 \o (len \o a)
  <2>1. Strings(S, d2, len, a)
    BY <1>3, <1>14, Zenon DEF Strings
  <2> QED
    BY <2>1, Associated DEF dl
<1> HIDE DEF dl
<1>22. (dl \o a) \o m = dl \o am
  <2>1. Strings(S, dl, a, m)
    BY <1>3, <1>20, Zenon DEF Strings
  <2> QED
    BY <2>1, Associated DEF am
<1>23. (dl \o am) \o z = dl \o (am \o z)
  <2>1. Strings(S, dl, am, z)
    BY <1>3, <1>15, <1>20, Zenon DEF Strings
  <2> QED
    BY <2>1, Associated
<1>24. MockParts.c2 = BackOf(f)
  BY <1>16, <1>19, <1>21, <1>22, <1>23, Zenon DEF dl
<1> QED
  BY <1>1, <1>12, <1>24, Zenon DEF assemble, RawOf

-----------------------------------------------------------------------------
(* What the miner and the server make of the two halves. *)

\* What a block's body is made of.
Symbols == Nat \union Nonce

\* f are the fields of the coinbase these halves make.
MadeOf(f, parts, n) ==
  /\ LaidOut(Symbols, f) /\ Sized(Symbols, f)
  /\ assemble(parts, Extranonce1, Extranonce2(n)) = RawOf(f)
  /\ Len(SigOf(f)) \in 2..100
  /\ f.hash \o f.index = Filled(32, 0) \o Filled(4, 255)
  /\ f.sequence = Filled(4, 255)

\* Bytes are among the symbols.
LEMMA SymbolsFit == WithBytes(Symbols)
BY DEF WithBytes, Symbols

\* What the miner fills in is four symbols.
LEMMA Extranonce2Is ==
  ASSUME NEW n \in Nonce
  PROVE  Extranonce2(n) \in Seq(Symbols) /\ Len(Extranonce2(n)) = 4
<1>1. 4 \in Nat /\ n \in Symbols
  BY DEF Symbols
<1> QED
  BY <1>1, FilledIs, Zenon DEF Extranonce2, EXTRANONCE2_SIZE

\* A mock job makes a coinbase with every nonce.
LEMMA MockMade ==
  ASSUME NEW n \in Nonce
  PROVE  \E f : MadeOf(f, MockParts, n)
<1> DEFINE en2 == Extranonce2(n)
           f == MockCoinbase(en2)
<1>1. IsMock(Symbols, f, en2)
  BY SymbolsFit, Extranonce2Is, Zenon DEF IsMock
<1>2. f.sequence = Filled(4, 255)
  BY DEF MockCoinbase
<1> HIDE DEF f, en2
<1>3. /\ LaidOut(Symbols, f) /\ Sized(Symbols, f)
      /\ Len(SigOf(f)) = 8
      /\ f.hash \o f.index = Filled(32, 0) \o Filled(4, 255)
  BY <1>1, MockLaidOut, Zenon
<1>4. assemble(MockParts, Extranonce1, en2) = RawOf(f)
  BY <1>1, MockAssembled, Zenon
<1>5. Len(SigOf(f)) \in 2..100
  <2>1. 8 \in 2..100
    OBVIOUS
  <2> QED
    BY <1>3, <2>1
<1> QED
  BY <1>2, <1>3, <1>4, <1>5, Zenon DEF MadeOf, en2

\* What build_coinbase_parts is given, and the fields of what it makes.
Payable(height, value, script, n) ==
  /\ height \in Nat /\ height > 0 /\ value \in Nat /\ n \in Nonce
  /\ script \in Seq(0..255) /\ Len(script) < 253

CoinbaseOf(f, height, value, script, n) ==
  /\ MadeOf(f, build_coinbase_parts(height, value, script), n)
  /\ SigOf(f) = bip34_height_push(height) \o Extranonce1
                 \o Extranonce2(n) \o COINBASE_TAG
  /\ f.value = Little(value, 8) /\ f.script = script

\* A template makes a coinbase for every script and with every nonce.
LEMMA RealMade ==
  ASSUME NEW height, NEW value, NEW script, NEW n, Payable(height, value, script, n)
  PROVE  \E f : CoinbaseOf(f, height, value, script, n)
<1>0. /\ height \in Nat /\ height > 0 /\ value \in Nat /\ n \in Nonce
      /\ script \in Seq(0..255) /\ Len(script) < 253
  BY Zenon DEF Payable
<1> USE <1>0
<1> DEFINE en2 == Extranonce2(n)
           f == RealCoinbase(height, value, script, en2)
           parts == build_coinbase_parts(height, value, script)
<1>1. IsReal(Symbols, f, height, value, script, en2)
  BY SymbolsFit, Extranonce2Is, Zenon DEF IsReal
<1>2. f.sequence = Filled(4, 255) /\ f.value = Little(value, 8) /\ f.script = script
  BY DEF RealCoinbase
<1> HIDE DEF f, en2, parts
<1>3. /\ LaidOut(Symbols, f) /\ Sized(Symbols, f)
      /\ Len(SigOf(f)) = 24 + Len(script_num(height))
      /\ SigOf(f) = bip34_height_push(height) \o Extranonce1 \o en2 \o COINBASE_TAG
      /\ f.hash \o f.index = Filled(32, 0) \o Filled(4, 255)
  BY <1>1, RealLaidOut, Zenon
<1>4. assemble(parts, Extranonce1, en2) = RawOf(f)
  BY <1>1, RealAssembled DEF parts
<1>5. Len(SigOf(f)) \in 2..100
  <2>1. Len(script_num(height)) \in 0..5
    BY ScriptNumBytes
  <2>2. \A x \in 0..5 : 24 + x \in 2..100
    OBVIOUS
  <2> QED
    BY <1>3, <2>1, <2>2, Zenon
<1>6. MadeOf(f, parts, n)
  BY <1>2, <1>3, <1>4, <1>5, Zenon DEF MadeOf, en2
<1>7. CoinbaseOf(f, height, value, script, n)
  BY <1>2, <1>3, <1>6, Zenon DEF CoinbaseOf, parts, en2
<1> QED
  BY <1>7, Zenon

\* Such a coinbase is read back, whatever follows it.
LEMMA MadeReads ==
  ASSUME NEW parts, NEW n, NEW f, MadeOf(f, parts, n),
         NEW b \in Seq(Symbols), NEW i \in Nat, i >= 1,
         Holds(b, i, assemble(parts, Extranonce1, Extranonce2(n)))
  PROVE  /\ ReadCoinbase(b, i) =
              [inputs |-> 1, outputs |-> 1,
               prevout |-> Filled(32, 0) \o Filled(4, 255),
               scriptSig |-> SigOf(f), sequence |-> Filled(4, 255), value |-> f.value,
               script |-> f.script, next |-> i + Len(RawOf(f))]
         /\ WellFormed(ReadCoinbase(b, i))
<1>1. /\ LaidOut(Symbols, f) /\ Sized(Symbols, f)
      /\ assemble(parts, Extranonce1, Extranonce2(n)) = RawOf(f)
      /\ Len(SigOf(f)) \in 2..100
      /\ f.hash \o f.index = Filled(32, 0) \o Filled(4, 255)
      /\ f.sequence = Filled(4, 255)
  BY Zenon DEF MadeOf
<1>2. Holds(b, i, RawOf(f))
  BY <1>1, Zenon
<1> DEFINE sig == SigOf(f)
           prevout == Filled(32, 0) \o Filled(4, 255)
           ones == Filled(4, 255)
           r == ReadCoinbase(b, i)
<1>3. r = [inputs |-> 1, outputs |-> 1, prevout |-> f.hash \o f.index,
           scriptSig |-> SigOf(f), sequence |-> f.sequence, value |-> f.value,
           script |-> f.script, next |-> i + Len(RawOf(f))]
  BY <1>1, <1>2, RawRead
<1>4. r = [inputs |-> 1, outputs |-> 1, prevout |-> prevout,
           scriptSig |-> sig, sequence |-> ones, value |-> f.value,
           script |-> f.script, next |-> i + Len(RawOf(f))]
  BY <1>1, <1>3
<1> HIDE DEF r, prevout, ones, sig
<1>5. WellFormed(r)
  <2>1. /\ r.inputs = 1 /\ r.outputs = 1 /\ r.prevout = prevout
        /\ r.scriptSig = sig /\ r.sequence = ones
    BY <1>4
  <2> QED
    BY <1>1, <2>1, Zenon DEF WellFormed, prevout, sig, ones
<1> QED
  BY <1>4, <1>5 DEF r, prevout, ones, sig

-----------------------------------------------------------------------------
(* Addresses: what was encoded decodes to the same hash. *)

BitAdded(p, k, below) == 2 * below + Bit(p.data, p.from, p.first + k - 1)
Bits == INSTANCE Recursion WITH Step <- BitAdded

\* The number that so many bits make from one of them on.
Group(data, from, first, to) ==
  CHOOSE acc : acc = [k \in 0..to |->
                        IF k = 0 THEN 0
                        ELSE 2 * acc[k - 1] + Bit(data, from, first + k - 1)]

\* A group takes one bit after another.
LEMMA GroupGrows ==
  ASSUME NEW data, NEW from, NEW first, NEW to \in Nat,
         NEW acc, acc = Group(data, from, first, to)
  PROVE  /\ acc[0] = 0
         /\ \A k \in 1..to : acc[k] = 2 * acc[k - 1] + Bit(data, from, first + k - 1)
<1> DEFINE p == [data |-> data, from |-> from, first |-> first]
<1>1. p.data = data /\ p.from = from /\ p.first = first
  OBVIOUS
<1> HIDE DEF p
<1>2. PICK h : Bits!Solves(h, 0..to, p, 0)
  BY Bits!SolutionUpTo
<1>3. h = [k \in 0..to |-> IF k = 0 THEN 0
                           ELSE 2 * h[k - 1] + Bit(data, from, first + k - 1)]
  BY <1>1, <1>2, Zenon DEF Bits!Solves, BitAdded
<1>4. acc = [k \in 0..to |-> IF k = 0 THEN 0
                             ELSE 2 * acc[k - 1] + Bit(data, from, first + k - 1)]
  BY <1>3, Zenon DEF Group
<1>5. 0 \in 0..to /\ \A k \in 1..to : k \in 0..to /\ k # 0
  OBVIOUS
<1>6. acc[0] = 0
  BY <1>4, <1>5, Zenon
<1>7. \A k \in 1..to : acc[k] = 2 * acc[k - 1] + Bit(data, from, first + k - 1)
  BY <1>4, <1>5, Zenon
<1> QED
  BY <1>6, <1>7, Zenon

\* What convertbits makes of a string, group by group.
LEMMA RegroupedIs ==
  ASSUME NEW data, NEW from, NEW to, NEW n
  PROVE  Regrouped(data, from, to, n) =
           [i \in 1..n |-> Group(data, from, (i - 1) * to, to)[to]]
BY Zenon DEF Regrouped, Group

\* b are the bits of these numbers, one after the other.
BitsOf(b, data, from) ==
  /\ b \in [Nat -> {0, 1}]
  /\ \A j \in Nat : Bit(data, from, j) = b[j]

\* Five bits, and eight.
LEMMA GroupsOfFive ==
  ASSUME NEW data, NEW from, NEW b, BitsOf(b, data, from),
         NEW first \in Nat, NEW to \in Nat, to = 5
  PROVE  Group(data, from, first, to)[to] =
           16 * b[first] + 8 * b[first + 1] + 4 * b[first + 2] + 2 * b[first + 3]
           + b[first + 4]
<1> DEFINE acc == Group(data, from, first, to)
<1>1. /\ acc[0] = 0
      /\ \A k \in 1..to : acc[k] = 2 * acc[k - 1] + Bit(data, from, first + k - 1)
  BY GroupGrows
<1> HIDE DEF acc
<1>2. \A k \in 1..to : acc[k] = 2 * acc[k - 1] + b[first + k - 1]
  <2>1. \A k \in 1..to : first + k - 1 \in Nat
    OBVIOUS
  <2> QED
    BY <1>1, <2>1, Zenon DEF BitsOf
<1>3. \A j \in Nat : b[j] \in Int
  BY DEF BitsOf
<1>4. /\ acc[1] = b[first] /\ acc[2] = 2 * acc[1] + b[first + 1]
      /\ acc[3] = 2 * acc[2] + b[first + 2] /\ acc[4] = 2 * acc[3] + b[first + 3]
      /\ acc[5] = 2 * acc[4] + b[first + 4]
  BY <1>1, <1>2, <1>3
<1>5. /\ b[first] \in Int /\ b[first + 1] \in Int /\ b[first + 2] \in Int
      /\ b[first + 3] \in Int /\ b[first + 4] \in Int
  BY <1>3
<1>6. acc[5] = 16 * b[first] + 8 * b[first + 1] + 4 * b[first + 2] + 2 * b[first + 3]
               + b[first + 4]
  BY <1>4, <1>5
<1> QED
  BY <1>6, Zenon DEF acc

EightOf(b, first) ==
  128 * b[first] + 64 * b[first + 1] + 32 * b[first + 2] + 16 * b[first + 3]
  + 8 * b[first + 4] + 4 * b[first + 5] + 2 * b[first + 6] + b[first + 7]

\* A group of eight bits.
LEMMA GroupsOfEight ==
  ASSUME NEW data, NEW from, NEW b, BitsOf(b, data, from),
         NEW first \in Nat, NEW to \in Nat, to = 8
  PROVE  Group(data, from, first, to)[to] = EightOf(b, first)
<1> DEFINE acc == Group(data, from, first, to)
<1>1. /\ acc[0] = 0
      /\ \A k \in 1..to : acc[k] = 2 * acc[k - 1] + Bit(data, from, first + k - 1)
  BY GroupGrows
<1> HIDE DEF acc
<1>2. \A k \in 1..to : acc[k] = 2 * acc[k - 1] + b[first + k - 1]
  <2>1. \A k \in 1..to : first + k - 1 \in Nat
    OBVIOUS
  <2> QED
    BY <1>1, <2>1, Zenon DEF BitsOf
<1>3. \A j \in Nat : b[j] \in Int
  BY DEF BitsOf
<1>4. /\ acc[1] = b[first] /\ acc[2] = 2 * acc[1] + b[first + 1]
      /\ acc[3] = 2 * acc[2] + b[first + 2] /\ acc[4] = 2 * acc[3] + b[first + 3]
      /\ acc[5] = 2 * acc[4] + b[first + 4] /\ acc[6] = 2 * acc[5] + b[first + 5]
      /\ acc[7] = 2 * acc[6] + b[first + 6] /\ acc[8] = 2 * acc[7] + b[first + 7]
  BY <1>1, <1>2, <1>3
<1>5. /\ b[first] \in Int /\ b[first + 1] \in Int /\ b[first + 2] \in Int
      /\ b[first + 3] \in Int /\ b[first + 4] \in Int /\ b[first + 5] \in Int
      /\ b[first + 6] \in Int /\ b[first + 7] \in Int
  BY <1>3
<1>6. acc[8] = 128 * b[first] + 64 * b[first + 1] + 32 * b[first + 2] + 16 * b[first + 3]
               + 8 * b[first + 4] + 4 * b[first + 5] + 2 * b[first + 6] + b[first + 7]
  BY <1>4, <1>5
<1> QED
  BY <1>6 DEF acc, EightOf

\* The powers of two that bits are read by.
LEMMA Powers ==
  /\ 2^0 = 1 /\ 2^1 = 2 /\ 2^2 = 4 /\ 2^3 = 8 /\ 2^4 = 16 /\ 2^5 = 32 /\ 2^6 = 64
  /\ 2^7 = 128
OBVIOUS

\* The bits of a byte, from the highest.
LEMMA BitsOfByte ==
  ASSUME NEW data \in Seq(Nat), NEW w \in Nat, w = 8, NEW j \in Nat,
         j < w * Len(data)
  PROVE  LET x == data[j \div 8 + 1]
             r == j % 8
         IN  /\ x \in Nat /\ j \div 8 + 1 \in 1..Len(data)
             /\ r = 0 => Bit(data, w, j) = (x \div 128) % 2
             /\ r = 1 => Bit(data, w, j) = (x \div 64) % 2
             /\ r = 2 => Bit(data, w, j) = (x \div 32) % 2
             /\ r = 3 => Bit(data, w, j) = (x \div 16) % 2
             /\ r = 4 => Bit(data, w, j) = (x \div 8) % 2
             /\ r = 5 => Bit(data, w, j) = (x \div 4) % 2
             /\ r = 6 => Bit(data, w, j) = (x \div 2) % 2
             /\ r = 7 => Bit(data, w, j) = (x \div 1) % 2
<1> DEFINE x == data[j \div 8 + 1]
           r == j % 8
           bit == Bit(data, w, j)
<1>1. r \in 0..7 /\ j \div 8 + 1 \in 1..Len(data)
  OBVIOUS
<1>2. x \in Nat
  BY <1>1
<1>3. bit = (x \div 2^(w - 1 - r)) % 2
  <2>1. j \div w = j \div 8 /\ j % w = j % 8
    OBVIOUS
  <2> QED
    BY <2>1 DEF Bit
<1> HIDE DEF bit, x, r
<1>4. /\ r = 0 => w - 1 - r = 7
      /\ r = 1 => w - 1 - r = 6
      /\ r = 2 => w - 1 - r = 5
      /\ r = 3 => w - 1 - r = 4
      /\ r = 4 => w - 1 - r = 3
      /\ r = 5 => w - 1 - r = 2
      /\ r = 6 => w - 1 - r = 1
      /\ r = 7 => w - 1 - r = 0
  OBVIOUS
<1>5. /\ r = 0 => bit = (x \div 128) % 2
      /\ r = 1 => bit = (x \div 64) % 2
      /\ r = 2 => bit = (x \div 32) % 2
      /\ r = 3 => bit = (x \div 16) % 2
      /\ r = 4 => bit = (x \div 8) % 2
      /\ r = 5 => bit = (x \div 4) % 2
      /\ r = 6 => bit = (x \div 2) % 2
      /\ r = 7 => bit = (x \div 1) % 2
  BY <1>3, <1>4, Powers
<1> QED
  BY <1>1, <1>2, <1>5 DEF bit, x, r

\* A symbol is made of the bits read from it.
LEMMA BitsOfFive ==
  ASSUME NEW data \in Seq(Nat), NEW w \in Nat, w = 5, NEW j \in Nat,
         j < w * Len(data)
  PROVE  LET x == data[j \div 5 + 1]
             r == j % 5
         IN  /\ x \in Nat /\ j \div 5 + 1 \in 1..Len(data)
             /\ r = 0 => Bit(data, w, j) = (x \div 16) % 2
             /\ r = 1 => Bit(data, w, j) = (x \div 8) % 2
             /\ r = 2 => Bit(data, w, j) = (x \div 4) % 2
             /\ r = 3 => Bit(data, w, j) = (x \div 2) % 2
             /\ r = 4 => Bit(data, w, j) = (x \div 1) % 2
<1> DEFINE x == data[j \div 5 + 1]
           r == j % 5
           bit == Bit(data, w, j)
<1>1. r \in 0..4 /\ j \div 5 + 1 \in 1..Len(data)
  OBVIOUS
<1>2. x \in Nat
  BY <1>1
<1>3. bit = (x \div 2^(w - 1 - r)) % 2
  <2>1. j \div w = j \div 5 /\ j % w = j % 5
    OBVIOUS
  <2> QED
    BY <2>1 DEF Bit
<1> HIDE DEF bit, x, r
<1>4. /\ r = 0 => w - 1 - r = 4
      /\ r = 1 => w - 1 - r = 3
      /\ r = 2 => w - 1 - r = 2
      /\ r = 3 => w - 1 - r = 1
      /\ r = 4 => w - 1 - r = 0
  OBVIOUS
<1>5. /\ r = 0 => bit = (x \div 16) % 2
      /\ r = 1 => bit = (x \div 8) % 2
      /\ r = 2 => bit = (x \div 4) % 2
      /\ r = 3 => bit = (x \div 2) % 2
      /\ r = 4 => bit = (x \div 1) % 2
  BY <1>3, <1>4, Powers
<1> QED
  BY <1>1, <1>2, <1>5 DEF bit, x, r

\* The bits of a string of bytes, zeros after its end.
ByteBits(data, w) == [j \in Nat |-> Bit(data, w, j)]

\* Every bit is 0 or 1.
LEMMA BytesHaveBits ==
  ASSUME NEW data \in Seq(Nat), NEW w \in Nat, w = 8
  PROVE  /\ BitsOf(ByteBits(data, w), data, w)
         /\ \A j \in Nat : j >= w * Len(data) => ByteBits(data, w)[j] = 0
<1>1. ASSUME NEW j \in Nat, j >= w * Len(data) PROVE Bit(data, w, j) = 0
  BY <1>1 DEF Bit
<1>2. ASSUME NEW j \in Nat PROVE Bit(data, w, j) \in {0, 1}
  <2>1. CASE j < w * Len(data)
    <3> DEFINE x == data[j \div 8 + 1]
               r == j % 8
               bit == Bit(data, w, j)
    <3>1. /\ x \in Nat
          /\ r = 0 => bit = (x \div 128) % 2
          /\ r = 1 => bit = (x \div 64) % 2
          /\ r = 2 => bit = (x \div 32) % 2
          /\ r = 3 => bit = (x \div 16) % 2
          /\ r = 4 => bit = (x \div 8) % 2
          /\ r = 5 => bit = (x \div 4) % 2
          /\ r = 6 => bit = (x \div 2) % 2
          /\ r = 7 => bit = (x \div 1) % 2
      BY <2>1, BitsOfByte
    <3>2. r \in 0..7
      OBVIOUS
    <3> HIDE DEF x, r, bit
    <3>3. \A y \in Nat : y % 2 \in {0, 1}
      OBVIOUS
    <3>4. /\ x \div 128 \in Nat /\ x \div 64 \in Nat /\ x \div 32 \in Nat /\ x \div 16 \in Nat
          /\ x \div 8 \in Nat /\ x \div 4 \in Nat /\ x \div 2 \in Nat /\ x \div 1 \in Nat
      BY <3>1
    <3>5. r = 0 \/ r = 1 \/ r = 2 \/ r = 3 \/ r = 4 \/ r = 5 \/ r = 6 \/ r = 7
      BY <3>2
    <3> QED
      BY <3>1, <3>3, <3>4, <3>5 DEF bit
  <2>2. CASE ~(j < w * Len(data))
    <3>1. j >= w * Len(data)
      BY <2>2
    <3> QED
      BY <1>1, <3>1
  <2> QED
    BY <2>1, <2>2
<1> QED
  BY <1>1, <1>2 DEF BitsOf, ByteBits

\* A byte is the group of its eight bits.
LEMMA EightBits ==
  ASSUME NEW x \in 0..255
  PROVE  x = 128 * ((x \div 128) % 2) + 64 * ((x \div 64) % 2) + 32 * ((x \div 32) % 2)
             + 16 * ((x \div 16) % 2) + 8 * ((x \div 8) % 2) + 4 * ((x \div 4) % 2)
             + 2 * ((x \div 2) % 2) + ((x \div 1) % 2)
<1> DEFINE h == x \div 2
           g == h \div 2
           f == g \div 2
           e == f \div 2
           d == e \div 2
           c == d \div 2
           b == c \div 2
<1>1. /\ x \div 1 = x /\ x \div 4 = g /\ x \div 8 = f /\ x \div 16 = e /\ x \div 32 = d
      /\ x \div 64 = c /\ x \div 128 = b
  OBVIOUS
<1>2. /\ h \in Nat /\ g \in Nat /\ f \in Nat /\ e \in Nat /\ d \in Nat /\ c \in Nat
      /\ b \in 0..1
  OBVIOUS
<1>3. \A y \in Nat : y = 2 * (y \div 2) + (y % 2)
  OBVIOUS
<1>4. /\ x = 2 * h + (x % 2) /\ h = 2 * g + (h % 2) /\ g = 2 * f + (g % 2)
      /\ f = 2 * e + (f % 2) /\ e = 2 * d + (e % 2) /\ d = 2 * c + (d % 2)
      /\ c = 2 * b + (c % 2) /\ b = b % 2
  BY <1>2, <1>3
<1> HIDE DEF h, g, f, e, d, c, b
<1>5. x = 128 * (b % 2) + 64 * (c % 2) + 32 * (d % 2) + 16 * (e % 2) + 8 * (f % 2)
          + 4 * (g % 2) + 2 * (h % 2) + (x % 2)
  BY <1>2, <1>4
<1> QED
  BY <1>1, <1>5 DEF h

\* Of n bytes, j is the place of the k-th bit of the i-th byte.
AtBit(j, w, n, i, k) ==
  j \in Nat /\ j < w * n /\ i = j \div 8 + 1 /\ k = j % 8

\* Of n bytes, the i-th begins at this place.
Begins(first, w, n, i) ==
  first \in Nat /\ \A k \in 0..7 : AtBit(first + k, w, n, i, k)

\* In which byte a bit is.
LEMMA PlaceOfByte ==
  ASSUME NEW n \in Nat, NEW w \in Nat, w = 8, NEW i \in 1..n
  PROVE  Begins((i - 1) * w, w, n, i)
<1> DEFINE first == 8 * (i - 1)
<1>1. (i - 1) * w = first /\ first \in Nat
  OBVIOUS
<1>2. ASSUME NEW k \in 0..7
      PROVE  /\ first + k \in Nat /\ first + k < 8 * n
             /\ i = (first + k) \div 8 + 1 /\ k = (first + k) % 8
  OBVIOUS
<1> HIDE DEF first
<1>3. ASSUME NEW k \in 0..7 PROVE AtBit(first + k, w, n, i, k)
  BY <1>2 DEF AtBit
<1> QED
  BY <1>1, <1>3 DEF Begins

\* Which bit of a string a bit of a byte is.
LEMMA BitOfByte ==
  ASSUME NEW data \in Seq(Nat), NEW w \in Nat, w = 8,
         NEW j, NEW i, NEW k, AtBit(j, w, Len(data), i, k)
  PROVE  /\ k = 0 => Bit(data, w, j) = (data[i] \div 128) % 2
         /\ k = 1 => Bit(data, w, j) = (data[i] \div 64) % 2
         /\ k = 2 => Bit(data, w, j) = (data[i] \div 32) % 2
         /\ k = 3 => Bit(data, w, j) = (data[i] \div 16) % 2
         /\ k = 4 => Bit(data, w, j) = (data[i] \div 8) % 2
         /\ k = 5 => Bit(data, w, j) = (data[i] \div 4) % 2
         /\ k = 6 => Bit(data, w, j) = (data[i] \div 2) % 2
         /\ k = 7 => Bit(data, w, j) = (data[i] \div 1) % 2
BY BitsOfByte DEF AtBit

\* A byte of a string, from the bits of the string.
LEMMA Bytes ==
  ASSUME NEW data \in Seq(0..255)
  PROVE  /\ data \in Seq(Nat) /\ Len(data) \in Nat
         /\ \A i \in 1..Len(data) : data[i] \in 0..255
<1>1. 0..255 \subseteq Nat
  OBVIOUS
<1> DEFINE S == 0..255
<1>2. S \subseteq Nat /\ data \in Seq(S)
  BY <1>1
<1> HIDE DEF S
<1>3. data \in Seq(Nat)
  BY <1>2, SeqWider, Zenon
<1>4. Len(data) \in Nat /\ \A i \in 1..Len(data) : data[i] \in S
  BY <1>2
<1> QED
  BY <1>3, <1>4 DEF S

\* A byte is what its bits make.
LEMMA ByteOfBits ==
  ASSUME NEW data \in Seq(0..255), NEW w \in Nat, w = 8,
         NEW b, BitsOf(b, data, w), NEW i \in 1..Len(data),
         NEW first, Begins(first, w, Len(data), i)
  PROVE  data[i] = EightOf(b, first)
<1> DEFINE x == data[i]
<1>1. x \in 0..255 /\ data \in Seq(Nat)
  BY Bytes, Zenon
<1>2. ASSUME NEW k \in 0..7
      PROVE  AtBit(first + k, w, Len(data), i, k)
  BY Zenon DEF Begins
<1> HIDE DEF x
<1>3. ASSUME NEW k \in 0..7
      PROVE  /\ k = 0 => b[first + k] = (x \div 128) % 2
             /\ k = 1 => b[first + k] = (x \div 64) % 2
             /\ k = 2 => b[first + k] = (x \div 32) % 2
             /\ k = 3 => b[first + k] = (x \div 16) % 2
             /\ k = 4 => b[first + k] = (x \div 8) % 2
             /\ k = 5 => b[first + k] = (x \div 4) % 2
             /\ k = 6 => b[first + k] = (x \div 2) % 2
             /\ k = 7 => b[first + k] = (x \div 1) % 2
  <2>1. AtBit(first + k, w, Len(data), i, k)
    BY <1>2
  <2>2. b[first + k] = Bit(data, w, first + k)
    BY <2>1, Zenon DEF AtBit, BitsOf
  <2> DEFINE j == first + k
  <2>3. AtBit(j, w, Len(data), i, k) /\ b[j] = Bit(data, w, j)
    BY <2>1, <2>2
  <2> HIDE DEF j
  <2>4. /\ k = 0 => Bit(data, w, j) = (x \div 128) % 2
        /\ k = 1 => Bit(data, w, j) = (x \div 64) % 2
        /\ k = 2 => Bit(data, w, j) = (x \div 32) % 2
        /\ k = 3 => Bit(data, w, j) = (x \div 16) % 2
        /\ k = 4 => Bit(data, w, j) = (x \div 8) % 2
        /\ k = 5 => Bit(data, w, j) = (x \div 4) % 2
        /\ k = 6 => Bit(data, w, j) = (x \div 2) % 2
        /\ k = 7 => Bit(data, w, j) = (x \div 1) % 2
    BY <1>1, <2>3, BitOfByte DEF x
  <2> QED
    BY <2>3, <2>4, Zenon DEF j
<1>4. /\ first + 0 = first
      /\ 0 \in 0..7 /\ 1 \in 0..7 /\ 2 \in 0..7 /\ 3 \in 0..7 /\ 4 \in 0..7 /\ 5 \in 0..7
      /\ 6 \in 0..7 /\ 7 \in 0..7
  BY DEF Begins
<1>5. /\ b[first] = (x \div 128) % 2 /\ b[first + 1] = (x \div 64) % 2
      /\ b[first + 2] = (x \div 32) % 2 /\ b[first + 3] = (x \div 16) % 2
      /\ b[first + 4] = (x \div 8) % 2 /\ b[first + 5] = (x \div 4) % 2
      /\ b[first + 6] = (x \div 2) % 2 /\ b[first + 7] = (x \div 1) % 2
  BY <1>3, <1>4
<1>6. x = 128 * ((x \div 128) % 2) + 64 * ((x \div 64) % 2) + 32 * ((x \div 32) % 2)
          + 16 * ((x \div 16) % 2) + 8 * ((x \div 8) % 2) + 4 * ((x \div 4) % 2)
          + 2 * ((x \div 2) % 2) + ((x \div 1) % 2)
  BY <1>1, EightBits
<1> QED
  BY <1>5, <1>6, Zenon DEF x, EightOf

\* A group of five bits is a symbol.
LEMMA FiveBits ==
  ASSUME NEW a \in {0, 1}, NEW b \in {0, 1}, NEW c \in {0, 1}, NEW d \in {0, 1},
         NEW e \in {0, 1}, NEW x, x = 16 * a + 8 * b + 4 * c + 2 * d + e
  PROVE  /\ x \in 0..31
         /\ (x \div 16) % 2 = a /\ (x \div 8) % 2 = b /\ (x \div 4) % 2 = c
         /\ (x \div 2) % 2 = d /\ (x \div 1) % 2 = e
OBVIOUS

\* The bits of numbers below 32 made of bits are those bits.
LEMMA FivesKeepBits ==
  ASSUME NEW data, NEW from, NEW b, BitsOf(b, data, from), NEW n \in Nat,
         NEW w \in Nat, w = 5, NEW G, G = Regrouped(data, from, w, n)
  PROVE  /\ G \in Seq(0..31) /\ Len(G) = n
         /\ \A j \in Nat : j < w * n => Bit(G, w, j) = b[j]
<1>1. G = [i \in 1..n |-> Group(data, from, (i - 1) * w, w)[w]]
  BY RegroupedIs
<1>2. ASSUME NEW first \in Nat
      PROVE  Group(data, from, first, w)[w] =
               16 * b[first] + 8 * b[first + 1] + 4 * b[first + 2] + 2 * b[first + 3]
               + b[first + 4]
  BY <1>2, GroupsOfFive
<1>3. \A j \in Nat : b[j] \in {0, 1}
  BY DEF BitsOf
<1>4. ASSUME NEW i \in 1..n, NEW first \in Nat, first = (i - 1) * w
      PROVE  /\ G[i] \in 0..31
             /\ (G[i] \div 16) % 2 = b[first] /\ (G[i] \div 8) % 2 = b[first + 1]
             /\ (G[i] \div 4) % 2 = b[first + 2] /\ (G[i] \div 2) % 2 = b[first + 3]
             /\ (G[i] \div 1) % 2 = b[first + 4]
  <2>1. first + 1 \in Nat /\ first + 2 \in Nat /\ first + 3 \in Nat /\ first + 4 \in Nat
    OBVIOUS
  <2> DEFINE x == G[i]
             b0 == b[first]
             b1 == b[first + 1]
             b2 == b[first + 2]
             b3 == b[first + 3]
             b4 == b[first + 4]
  <2>2. b0 \in {0, 1} /\ b1 \in {0, 1} /\ b2 \in {0, 1} /\ b3 \in {0, 1} /\ b4 \in {0, 1}
    BY <1>3, <2>1, Zenon
  <2>3. x = Group(data, from, first, w)[w]
    BY <1>1, <1>4, Zenon
  <2>4. x = 16 * b0 + 8 * b1 + 4 * b2 + 2 * b3 + b4
    BY <1>2, <2>3, Zenon
  <2> HIDE DEF x, b0, b1, b2, b3, b4
  <2>5. /\ x \in 0..31
        /\ (x \div 16) % 2 = b0 /\ (x \div 8) % 2 = b1 /\ (x \div 4) % 2 = b2
        /\ (x \div 2) % 2 = b3 /\ (x \div 1) % 2 = b4
    BY <2>2, <2>4, FiveBits
  <2> QED
    BY <2>5, Zenon DEF x, b0, b1, b2, b3, b4
<1>5. \A i \in 1..n : (i - 1) * w \in Nat
  OBVIOUS
<1>6. \A i \in 1..n : G[i] \in 0..31
  BY <1>4, <1>5, Zenon
<1>7. G \in Seq(0..31) /\ Len(G) = n
  <2> DEFINE S == 0..31
  <2>1. \A i \in 1..n : G[i] \in S
    BY <1>6
  <2>2. G = [i \in 1..n |-> G[i]]
    BY <1>1, Zenon
  <2> HIDE DEF S
  <2>3. [i \in 1..n |-> G[i]] \in Seq(S) /\ Len([i \in 1..n |-> G[i]]) = n
    BY <2>1
  <2> QED
    BY <2>2, <2>3 DEF S
<1>8. ASSUME NEW j \in Nat, j < w * n PROVE Bit(G, w, j) = b[j]
  <2> DEFINE i == j \div 5 + 1
             k == j % 5
             first == 5 * (j \div 5)
  <2>1. /\ i \in 1..n /\ first \in Nat /\ first = (i - 1) * 5 /\ j = first + k /\ k \in 0..4
    BY <1>8
  <2>2. G \in Seq(Nat)
    <3> DEFINE S == 0..31
    <3>1. S \subseteq Nat /\ G \in Seq(S)
      BY <1>7
    <3> HIDE DEF S
    <3> QED
      BY <3>1, SeqWider, Zenon
  <2> DEFINE x == G[j \div 5 + 1]
             r == j % 5
             bit == Bit(G, w, j)
  <2>3. /\ r = 0 => bit = (x \div 16) % 2
        /\ r = 1 => bit = (x \div 8) % 2
        /\ r = 2 => bit = (x \div 4) % 2
        /\ r = 3 => bit = (x \div 2) % 2
        /\ r = 4 => bit = (x \div 1) % 2
    BY <1>7, <1>8, <2>2, BitsOfFive
  <2>4. x = G[i] /\ r = k
    OBVIOUS
  <2> HIDE DEF x, r, bit, i, k, first
  <2>5. /\ (x \div 16) % 2 = b[first] /\ (x \div 8) % 2 = b[first + 1]
        /\ (x \div 4) % 2 = b[first + 2] /\ (x \div 2) % 2 = b[first + 3]
        /\ (x \div 1) % 2 = b[first + 4]
    BY <1>4, <2>1, <2>4
  <2>6. CASE k = 0
    BY <2>1, <2>3, <2>4, <2>5, <2>6 DEF bit
  <2>7. CASE k = 1
    BY <2>1, <2>3, <2>4, <2>5, <2>7 DEF bit
  <2>8. CASE k = 2
    BY <2>1, <2>3, <2>4, <2>5, <2>8 DEF bit
  <2>9. CASE k = 3
    BY <2>1, <2>3, <2>4, <2>5, <2>9 DEF bit
  <2>10. CASE k = 4
    BY <2>1, <2>3, <2>4, <2>5, <2>10 DEF bit
  <2> QED
    BY <2>1, <2>6, <2>7, <2>8, <2>9, <2>10
<1> QED
  BY <1>7, <1>8

\* Numbers made of a string of bytes, with room for all of its bits, have the
\* same bits.
LEMMA SameBits ==
  ASSUME NEW data \in Seq(0..255), NEW e \in Nat, e = 8, NEW w \in Nat, w = 5,
         NEW n \in Nat, w * n >= e * Len(data),
         NEW G, G = Regrouped(data, e, w, n)
  PROVE  /\ G \in Seq(0..31) /\ Len(G) = n
         /\ BitsOf(ByteBits(data, e), G, w)
         /\ BitsOf(ByteBits(data, e), data, e)
         /\ \A j \in Nat : j >= e * Len(data) => Bit(G, w, j) = 0
<1> DEFINE b == ByteBits(data, e)
<1>1. data \in Seq(Nat) /\ Len(data) \in Nat
  BY Bytes, Zenon
<1>2. BitsOf(b, data, e) /\ \A j \in Nat : j >= e * Len(data) => b[j] = 0
  BY <1>1, BytesHaveBits
<1> HIDE DEF b
<1>3. /\ G \in Seq(0..31) /\ Len(G) = n
      /\ \A j \in Nat : j < w * n => Bit(G, w, j) = b[j]
  BY <1>2, FivesKeepBits
<1>4. ASSUME NEW j \in Nat, ~(j < w * n) PROVE Bit(G, w, j) = 0 /\ b[j] = 0
  <2>1. Bit(G, w, j) = 0
    <3>1. ~(j < w * Len(G))
      BY <1>3, <1>4, Zenon
    <3> QED
      BY <3>1, Zenon DEF Bit
  <2>2. j >= e * Len(data)
    <3> DEFINE x == w * n
               y == e * Len(data)
    <3>1. x \in Nat /\ y \in Nat /\ x >= y /\ ~(j < x)
      BY <1>1, <1>4
    <3> HIDE DEF x, y
    <3>2. j >= y
      BY <3>1
    <3> QED
      BY <3>2 DEF y
  <2> QED
    BY <1>2, <2>1, <2>2
<1>5. \A j \in Nat : Bit(G, w, j) = b[j]
  BY <1>3, <1>4, Zenon
<1>6. BitsOf(b, G, w)
  BY <1>2, <1>5, Zenon DEF BitsOf
<1> QED
  BY <1>2, <1>3, <1>5, <1>6, Zenon DEF b

\* Regrouped into numbers below 32 and back, a string of bytes is what it was.
LEMMA BytesComeBack ==
  ASSUME NEW data \in Seq(0..255), NEW e \in Nat, e = 8, NEW w \in Nat, w = 5,
         NEW n \in Nat, w * n >= e * Len(data),
         NEW G, G = Regrouped(data, e, w, n)
  PROVE  Regrouped(G, w, e, Len(data)) = data
<1> DEFINE b == ByteBits(data, e)
           H == Regrouped(G, w, e, Len(data))
           L == Len(data)
<1>1. BitsOf(b, G, w) /\ BitsOf(b, data, e)
  BY SameBits
<1> HIDE DEF b
<1>2. H = [i \in 1..L |-> Group(G, w, (i - 1) * e, e)[e]]
  BY RegroupedIs
<1>3. L \in Nat
  BY Bytes, Zenon
<1>4. ASSUME NEW i \in 1..L PROVE H[i] = data[i]
  <2> DEFINE first == (i - 1) * e
  <2>1. Begins(first, e, L, i)
    BY <1>3, PlaceOfByte
  <2>2. H[i] = Group(G, w, first, e)[e]
    BY <1>2, Zenon
  <2>3. first \in Nat
    BY <2>1, Zenon DEF Begins
  <2> HIDE DEF first
  <2>4. Group(G, w, first, e)[e] = EightOf(b, first)
    BY <1>1, <2>3, GroupsOfEight
  <2>5. data[i] = EightOf(b, first)
    BY <1>1, <2>1, ByteOfBits
  <2> HIDE DEF H
  <2> QED
    BY <2>2, <2>4, <2>5, Zenon
<1> HIDE DEF H
<1>5. H = [i \in 1..L |-> data[i]]
  <2>1. H = [i \in 1..L |-> H[i]]
    BY <1>2, Zenon
  <2> QED
    BY <1>4, <2>1
<1>6. data = [i \in 1..L |-> data[i]]
  OBVIOUS
<1> QED
  BY <1>5, <1>6, Zenon DEF H

\* From eight bits to five.
Sides(e, w) == e = 8 /\ w = 5

\* There is room for all the bits, and less than five bits of padding.
Padded(data, e, w, n) == w * n >= e * Len(data) /\ w * n < e * Len(data) + w

\* _convertbits with padding makes as many numbers as it takes.
LEMMA PaddedThere ==
  ASSUME NEW data \in Seq(0..255), NEW e, NEW w, Sides(e, w)
  PROVE  \E n \in Nat : /\ convertbits(data, e, w, TRUE) = Regrouped(data, e, w, n)
                        /\ Padded(data, e, w, n)
<1>s. e \in Nat /\ e = 8 /\ w \in Nat /\ w = 5
  BY DEF Sides
<1> USE <1>s
<1> DEFINE bits == e * Len(data)
           whole == bits \div w
           rest == bits % w
           n == IF rest > 0 THEN whole + 1 ELSE whole
<1>1. convertbits(data, e, w, TRUE) = Regrouped(data, e, w, n)
  BY DEF convertbits
<1>2. bits \in Nat
  <2>1. Len(data) \in Nat
    BY Bytes, Zenon
  <2> QED
    BY <2>1
<1> HIDE DEF bits
<1>3. n \in Nat /\ w * n >= bits /\ w * n < bits + w
  BY <1>2
<1> HIDE DEF n
<1> QED
  BY <1>1, <1>3, Zenon DEF bits, Padded

\* And without it takes the padding off again.
LEMMA AndBack ==
  ASSUME NEW data \in Seq(0..255), NEW e, NEW w, Sides(e, w),
         NEW n \in Nat, Padded(data, e, w, n)
  PROVE  convertbits(Regrouped(data, e, w, n), w, e, FALSE) = data
<1> SUFFICES ASSUME NEW G, G = Regrouped(data, e, w, n)
             PROVE  convertbits(G, w, e, FALSE) = data
  OBVIOUS
<1>s. e \in Nat /\ e = 8 /\ w \in Nat /\ w = 5
  BY DEF Sides
<1> USE <1>s
<1>0. w * n >= e * Len(data) /\ w * n < e * Len(data) + w
  BY Zenon DEF Padded
<1> USE <1>0
<1> DEFINE bits == w * Len(G)
           whole == bits \div e
           rest == bits % e
           clear == \A j \in (whole * e)..(bits - 1) : Bit(G, w, j) = 0
<1>1. convertbits(G, w, e, FALSE) =
        IF rest < w /\ clear THEN Regrouped(G, w, e, whole) ELSE Bad
  BY Zenon DEF convertbits
<1>2. /\ Len(G) = n
      /\ \A j \in Nat : j >= e * Len(data) => Bit(G, w, j) = 0
  BY SameBits
<1>3. Len(data) \in Nat
  BY Bytes, Zenon
<1>4. whole = Len(data) /\ rest < w
  <2> DEFINE L == Len(data)
  <2>1. L \in Nat /\ 5 * n >= 8 * L /\ 5 * n < 8 * L + 5
    BY <1>3
  <2> HIDE DEF L
  <2>2. (5 * n) \div 8 = L /\ (5 * n) % 8 < 5
    BY <2>1
  <2>3. bits = 5 * n
    BY <1>2
  <2> QED
    BY <2>2, <2>3 DEF L
<1>5. clear
  <2>1. ASSUME NEW j \in (whole * e)..(bits - 1) PROVE Bit(G, w, j) = 0
    <3>1. j \in Nat /\ j >= e * Len(data)
      BY <1>3, <1>4
    <3> QED
      BY <1>2, <3>1, Zenon
  <2> QED
    BY <2>1
<1>6. Regrouped(G, w, e, Len(data)) = data
  BY BytesComeBack
<1> HIDE DEF clear, rest, whole
<1> QED
  BY <1>1, <1>4, <1>5, <1>6, Zenon

\* Regrouping bytes as symbols and those as bytes loses nothing.
LEMMA ThereAndBack ==
  ASSUME NEW data \in Seq(0..255), NEW e, NEW w, Sides(e, w)
  PROVE  convertbits(convertbits(data, e, w, TRUE), w, e, FALSE) = data
<1>1. PICK n \in Nat : /\ convertbits(data, e, w, TRUE) = Regrouped(data, e, w, n)
                       /\ Padded(data, e, w, n)
  BY PaddedThere, Zenon
<1>2. convertbits(Regrouped(data, e, w, n), w, e, FALSE) = data
  BY <1>1, AndBack, Zenon
<1> QED
  BY <1>1, <1>2, Zenon

\* _convertbits from bytes to numbers below 32 and back loses nothing
\* (cashaddr.py).
LEMMA BytesSurvive ==
  ASSUME NEW data \in Seq(0..255)
  PROVE  convertbits(convertbits(data, 8, 5, TRUE), 5, 8, FALSE) = data
<1>1. Sides(8, 5)
  BY DEF Sides
<1> QED
  BY <1>1, ThereAndBack, Zenon

\* The tables of kinds and sizes.
LEMMA TableSizes == DOMAIN KIND = 1..4 /\ DOMAIN SIZE = 1..8
BY DEF KIND, SIZE

\* What encode puts before the hash, and what decode makes of it.
LEMMA VersionByte ==
  ASSUME NEW kind \in 1..4, NEW size \in 1..8, NEW v, v = 8 * (kind - 1) + (size - 1)
  PROVE  /\ v \in 0..255 /\ v < 128
         /\ (v \div 8) % 16 = kind - 1 /\ v % 8 = size - 1
OBVIOUS

\* What is behind the first byte of a string.
LEMMA HeadAndTail ==
  ASSUME NEW S, NEW v \in S, NEW s \in Seq(S)
  PROVE  /\ <<v>> \o s \in Seq(S) /\ <<v>> \o s # <<>> /\ (<<v>> \o s)[1] = v
         /\ Tail(<<v>> \o s) = s
<1> DEFINE p == <<v>> \o s
           t == Tail(p)
           n == Len(s)
<1>1. p \in Seq(S) /\ p # <<>> /\ p[1] = v /\ n \in Nat /\ Len(p) = n + 1
  OBVIOUS
<1>2. \A i \in 1..n : p[i + 1] = s[i]
  OBVIOUS
<1> HIDE DEF p
<1>3. t \in Seq(S) /\ Len(t) = n /\ \A i \in 1..n : t[i] = p[i + 1]
  BY <1>1
<1> HIDE DEF t
<1>4. t = s
  BY <1>2, <1>3
<1> QED
  BY <1>1, <1>4, Zenon DEF p, t

\* decode gives back the type and the hash that encode was given, of every kind
\* and size and whatever the bytes of the hash (cashaddr.py).
THEOREM DecodesAsEncoded ==
  ASSUME NEW prefix, NEW wallet, Encodable(wallet)
  PROVE  decode(encode(prefix, wallet.type, wallet.hash)) =
           [type |-> wallet.type, hash |-> wallet.hash]
<1> DEFINE type == wallet.type
           hash == wallet.hash
           kind == CHOOSE k \in DOMAIN KIND : KIND[k] = type
           size == CHOOSE s \in DOMAIN SIZE : SIZE[s] = Len(hash)
           v == 8 * (kind - 1) + (size - 1)
           packed == <<v>> \o hash
           data == convertbits(packed, 8, 5, TRUE)
           a == encode(prefix, type, hash)
           decoded == convertbits(a.data, 5, 8, FALSE)
<1>1. kind \in 1..4 /\ KIND[kind] = type /\ size \in 1..8 /\ SIZE[size] = Len(hash)
  <2>1. \E k \in DOMAIN KIND : KIND[k] = type
    BY Zenon DEF Encodable
  <2>2. \E s \in DOMAIN SIZE : SIZE[s] = Len(hash)
    BY Zenon DEF Encodable
  <2>3. kind \in DOMAIN KIND /\ KIND[kind] = type
    BY <2>1, Zenon
  <2>4. size \in DOMAIN SIZE /\ SIZE[size] = Len(hash)
    BY <2>2, Zenon
  <2> QED
    BY <2>3, <2>4, TableSizes, Zenon
<1>2. a = [prefix |-> prefix, data |-> data, sum |-> polymod(prefix, data)]
  BY Zenon DEF encode
<1>3. a.prefix = prefix /\ a.data = data /\ a.sum = polymod(a.prefix, a.data)
  BY <1>2
<1> HIDE DEF kind, size
<1> HIDE DEF type, hash, a
<1>4. v \in 0..255 /\ v < 128 /\ (v \div 8) % 16 = kind - 1 /\ v % 8 = size - 1
  BY <1>1
<1> HIDE DEF v
<1>5. hash \in Seq(0..255)
  BY Zenon DEF hash, Encodable
<1>6. /\ packed \in Seq(0..255) /\ packed # <<>> /\ packed[1] = v /\ Tail(packed) = hash
  BY <1>4, <1>5, HeadAndTail, Zenon
<1> HIDE DEF packed
<1>7. decoded = packed
  BY <1>3, <1>6, BytesSurvive, Zenon
<1> HIDE DEF decoded, data
<1>8. decode(a) =
        IF \/ a.sum # polymod(a.prefix, a.data)
           \/ decoded = Bad
           \/ decoded[1] >= 128
           \/ Len(Tail(decoded)) # SIZE[(decoded[1] % 8) + 1]
           \/ ((decoded[1] \div 8) % 16) + 1 \notin DOMAIN KIND
        THEN Bad
        ELSE [type |-> KIND[((decoded[1] \div 8) % 16) + 1], hash |-> Tail(decoded)]
  BY Zenon DEF decode, decoded
<1>9. /\ decoded # Bad /\ ~(decoded[1] >= 128)
      /\ (decoded[1] % 8) + 1 = size /\ ((decoded[1] \div 8) % 16) + 1 = kind
      /\ Tail(decoded) = hash
  <2>1. decoded # Bad /\ decoded[1] = v /\ Tail(decoded) = hash
    BY <1>6, <1>7, Zenon DEF Bad
  <2>2. (v % 8) + 1 = size /\ ((v \div 8) % 16) + 1 = kind /\ ~(v >= 128)
    BY <1>1, <1>4
  <2> QED
    BY <2>1, <2>2
<1>10. kind \in DOMAIN KIND
  BY <1>1, TableSizes
<1> QED
  BY <1>1, <1>3, <1>8, <1>9, <1>10, Zenon DEF a, type, hash

\* An address that gets a script was written by a wallet, and the script locks
\* to that wallet: to_script turns away every address that was mistyped, and
\* never locks to a hash nobody holds (cashaddr.py, stratum.py on_authorize).
THEOREM ScriptLocks ==
  ASSUME NEW a \in Username, to_script(a) # Bad
  PROVE  \E w \in Wallet : Encodable(w) /\ LockedBy(to_script(a), w)
<1> DEFINE d == decode(a)
           script == to_script(a)
<1>1. script = IF d = Bad THEN Bad
               ELSE IF d.type \in {"p2pkh", "p2pkh-tokens"}
                 THEN IF Len(d.hash) = 20
                      THEN <<118, 169, 20>> \o d.hash \o <<136, 172>> ELSE Bad
               ELSE CASE Len(d.hash) = 20 -> <<169, 20>> \o d.hash \o <<135>>
                      [] Len(d.hash) = 32 -> <<170, 32>> \o d.hash \o <<135>>
                      [] OTHER -> Bad
  BY DEF to_script
<1> HIDE DEF script
<1>2. script # Bad
  BY DEF script
<1>3. d # Bad
  BY <1>1, <1>2
<1>4. a.sum = polymod(a.prefix, a.data)
  BY <1>3 DEF decode
<1>5. PICK w \in Wallet : a = encode(a.prefix, w.type, w.hash)
  BY <1>4, UsernameAssumption
<1>6. Encodable(w)
  BY WalletAssumption
<1>7. d = [type |-> w.type, hash |-> w.hash]
  BY <1>5, <1>6, DecodesAsEncoded, Zenon
<1>8. d.type = w.type /\ d.hash = w.hash
  BY <1>7
<1> HIDE DEF d
<1>9. w.type \in {"p2pkh", "p2sh", "p2pkh-tokens", "p2sh-tokens"}
  BY <1>6 DEF Encodable, KIND
<1>10. CASE d.type \in {"p2pkh", "p2pkh-tokens"}
  <2>1. Len(w.hash) = 20 /\ script = <<118, 169, 20>> \o w.hash \o <<136, 172>>
    BY <1>1, <1>2, <1>3, <1>8, <1>10
  <2> QED
    BY <1>6, <1>8, <1>10, <2>1 DEF LockedBy, script
<1>11. CASE d.type \notin {"p2pkh", "p2pkh-tokens"}
  <2>1. w.type \in {"p2sh", "p2sh-tokens"}
    BY <1>8, <1>9, <1>11
  <2>2. script = CASE Len(d.hash) = 20 -> <<169, 20>> \o d.hash \o <<135>>
                   [] Len(d.hash) = 32 -> <<170, 32>> \o d.hash \o <<135>>
                   [] OTHER -> Bad
    BY <1>1, <1>3, <1>11, Zenon
  <2>3. \/ Len(w.hash) = 20 /\ script = <<169, 20>> \o w.hash \o <<135>>
        \/ Len(w.hash) = 32 /\ script = <<170, 32>> \o w.hash \o <<135>>
    BY <1>2, <1>8, <2>2
  <2> QED
    BY <1>6, <2>1, <2>3 DEF LockedBy, script
<1> QED
  BY <1>10, <1>11

\* Three strings joined.
LEMMA Surrounded ==
  ASSUME NEW S, NEW f, NEW g, NEW h, Strings(S, f, g, h)
  PROVE  f \o g \o h \in Seq(S) /\ Len(f \o g \o h) = Len(f) + Len(g) + Len(h)
BY DEF Strings

\* Three short strings joined are short.
LEMMA ShortLock ==
  ASSUME NEW S, NEW f, NEW g, NEW h, Strings(S, f, g, h),
         NEW n \in Nat, n = Len(f) + Len(g) + Len(h), n < 253,
         NEW s, s = f \o g \o h
  PROVE  s \in Seq(S) /\ Len(s) < 253
<1>1. s \in Seq(S) /\ Len(s) = n
  BY Surrounded
<1> QED
  BY <1>1, Zenon

\* A wallet's script is short enough for a length of one byte.
LEMMA LockBytes ==
  ASSUME NEW script, NEW w, Encodable(w), LockedBy(script, w)
  PROVE  script \in Seq(0..255) /\ Len(script) < 253
<1> DEFINE hash == w.hash
           S == 0..255
           a == <<118, 169, 20>>
           b == <<136, 172>>
           c == <<169, 20>>
           d == <<170, 32>>
           e == <<135>>
<1>1. hash \in Seq(S)
  BY Zenon DEF Encodable
<1>2. /\ a \in Seq(S) /\ b \in Seq(S) /\ c \in Seq(S) /\ d \in Seq(S) /\ e \in Seq(S)
      /\ Len(a) = 3 /\ Len(b) = 2 /\ Len(c) = 2 /\ Len(d) = 2 /\ Len(e) = 1
  OBVIOUS
<1>3. \/ Len(hash) = 20 /\ script = a \o hash \o b
      \/ Len(hash) = 20 /\ script = c \o hash \o e
      \/ Len(hash) = 32 /\ script = d \o hash \o e
  BY Zenon DEF LockedBy
<1> HIDE DEF hash, S, a, b, c, d, e
<1>4. Strings(S, a, hash, b) /\ Strings(S, c, hash, e) /\ Strings(S, d, hash, e)
  BY <1>1, <1>2, Zenon DEF Strings
<1>5. ASSUME NEW f, NEW g, NEW h, Strings(S, f, g, h), script = f \o g \o h,
             NEW n \in Nat, n = Len(f) + Len(g) + Len(h), n < 253
      PROVE  script \in Seq(0..255) /\ Len(script) < 253
  BY <1>5, ShortLock, Zenon DEF S
<1>6. /\ 25 \in Nat /\ 25 < 253 /\ 23 \in Nat /\ 23 < 253 /\ 35 \in Nat /\ 35 < 253
      /\ 25 = 3 + 20 + 2 /\ 23 = 2 + 20 + 1 /\ 35 = 2 + 32 + 1
  OBVIOUS
<1>7. CASE Len(hash) = 20 /\ script = a \o hash \o b
  <2>1. 25 = Len(a) + Len(hash) + Len(b)
    BY <1>2, <1>6, <1>7, Zenon
  <2> QED
    BY <1>4, <1>5, <1>6, <1>7, <2>1, Zenon
<1>8. CASE Len(hash) = 20 /\ script = c \o hash \o e
  <2>1. 23 = Len(c) + Len(hash) + Len(e)
    BY <1>2, <1>6, <1>8, Zenon
  <2> QED
    BY <1>4, <1>5, <1>6, <1>8, <2>1, Zenon
<1>9. CASE Len(hash) = 32 /\ script = d \o hash \o e
  <2>1. 35 = Len(d) + Len(hash) + Len(e)
    BY <1>2, <1>6, <1>9, Zenon
  <2> QED
    BY <1>4, <1>5, <1>6, <1>9, <2>1, Zenon
<1> QED
  BY <1>3, <1>7, <1>8, <1>9, Zenon

-----------------------------------------------------------------------------
(* What the state is made of. *)

\* The scripts a job can be sent with.
PaidScripts == Scripts \ {Bad}

\* What is rebuilt for a script, and the block it goes in.
CoinbaseFor(script, n) ==
  assemble(build_coinbase_parts(source.height, source.value, script),
           Extranonce1, Extranonce2(n))
BlockFor(script, v, n) ==
  serialize_block(HeaderOf(source, CoinbaseFor(script, n), v, n),
                  CoinbaseFor(script, n), source.txs)

\* The job is a template or the mock one, and is paid to scripts of addresses.
SourceInv ==
  /\ source = NoJob \/ source = MockJob \/ \E g \in Template : source = BlockTemplate(g)
  /\ payouts \in Seq(PaidScripts)

\* What the rest of the state is.
RestInv ==
  /\ firmware \in Firmware /\ rolling \in BOOLEAN
  /\ seen \subseteq Nonce \X Spelling \X SUBSET Mask
  /\ last.answer \in {"none", "duplicate", "rebuilt"}

\* What was last submitted is a block of the current job, which is not replaced
\* while something has been found on it.
BlockInv ==
  last.answer = "rebuilt" =>
    /\ found # {}
    /\ \A block \in last.block :
         /\ source.real
         /\ \E script \in PaidScripts, n \in Nonce : \E v : block = BlockFor(script, v, n)

MadeInv == SourceInv /\ RestInv /\ BlockInv

\* There is nothing yet.
LEMMA MadeInitially == Init => MadeInv
<1> SUFFICES ASSUME Init PROVE MadeInv
  OBVIOUS
<1>1. /\ source = NoJob /\ payouts = <<>> /\ firmware \in Firmware /\ rolling = FALSE
      /\ seen = {} /\ last = Quiet
  BY DEF Init
<1>2. last.answer = "none"
  BY <1>1 DEF Quiet
<1>3. <<>> \in Seq(PaidScripts)
  OBVIOUS
<1> QED
  BY <1>1, <1>2, <1>3 DEF MadeInv, SourceInv, RestInv, BlockInv

\* A job is a template or the mock one, and starts without payouts.
LEMMA InstallMakes ==
  ASSUME NEW src, src = MockJob \/ \E g \in Template : src = BlockTemplate(g),
         Install(src), MadeInv
  PROVE  MadeInv'
<1>1. /\ found = {} /\ source' = src /\ payouts' = <<>>
      /\ UNCHANGED <<firmware, rolling, seen, found, last>>
  BY DEF Install
<1>2. SourceInv'
  BY <1>1 DEF SourceInv
<1>3. RestInv'
  BY <1>1 DEF MadeInv, RestInv
<1>4. BlockInv'
  BY <1>1 DEF MadeInv, BlockInv
<1> QED
  BY <1>2, <1>3, <1>4 DEF MadeInv

\* Version rolling is agreed before anything is found.
LEMMA ConfigureMakes ==
  ASSUME Configure, WorkInv, MadeInv
  PROVE  MadeInv'
<1>1. /\ found = {} /\ rolling' = TRUE
      /\ UNCHANGED <<source, payouts, firmware, seen, found, last>>
  BY DEF Configure, WorkInv, JobInv
<1>2. SourceInv'
  BY <1>1 DEF MadeInv, SourceInv
<1>3. RestInv'
  BY <1>1 DEF MadeInv, RestInv
<1>4. BlockInv'
  BY <1>1 DEF MadeInv, BlockInv
<1> QED
  BY <1>2, <1>3, <1>4 DEF MadeInv

\* A step that leaves the job and the last submit alone leaves its block.
LEMMA SameBlocks ==
  ASSUME source' = source, last' = last, found' = found, BlockInv
  PROVE  BlockInv'
<1>1. ASSUME NEW script, NEW v, NEW n PROVE BlockFor(script, v, n)' = BlockFor(script, v, n)
  BY Zenon DEF BlockFor, CoinbaseFor
<1> QED
  BY <1>1, Zenon DEF BlockInv

\* A script is remembered if the address has one.
LEMMA AuthorizeMakes ==
  ASSUME NEW address \in Username, Authorize(address), MadeInv
  PROVE  MadeInv'
<1> DEFINE script == Script[address]
<1>1. script \in PaidScripts
  BY DEF Scripts, PaidScripts, Authorize
<1> HIDE DEF script
<1>2. /\ source' = source
      /\ payouts' = IF source.real THEN Remembered(payouts, script) ELSE payouts
      /\ UNCHANGED <<firmware, rolling, seen, found, last>>
  BY DEF Authorize, script
<1>3. payouts' \in Seq(PaidScripts)
  <2>1. payouts \in Seq(PaidScripts)
    BY DEF MadeInv, SourceInv
  <2>2. Remembered(payouts, script) \in Seq(PaidScripts)
    BY <1>1, <2>1 DEF Remembered
  <2> QED
    BY <1>2, <2>1, <2>2
<1>4. SourceInv'
  BY <1>2, <1>3 DEF MadeInv, SourceInv
<1>5. RestInv'
  BY <1>2 DEF MadeInv, RestInv
<1>6. BlockInv'
  BY <1>2, SameBlocks DEF MadeInv
<1> QED
  BY <1>4, <1>5, <1>6 DEF MadeInv

\* A block is submitted only if it is the one the miner found on this job.
LEMMA SubmitMakes ==
  ASSUME NEW wire \in wires, NEW n \in Nonce, NEW spelled \in Spelling, NEW rolled,
         NEW solved, Submit(wire, n, spelled, rolled, solved), WorkInv, MadeInv
  PROVE  MadeInv'
<1> DEFINE mined == Mined(wire, n, rolled)
           reported == Reported(wire.version, rolled)
           key == ShareKey(n, spelled, RolledBits(reported))
           lowest == Lowest(Candidates(source, payouts, n, reported), mined)
           v == MinerVersion(source.version, rolled)
<1>1. Offered(wire) /\ Wellmade(source)
  BY DEF WorkInv, JobInv
<1>2. mined = Rebuilt(source, wire.parts, v, n)
  BY <1>1, MinedIsRebuilt
<1>3. key \in Nonce \X Spelling \X SUBSET Mask
  <2>1. RolledBits(reported) \in SUBSET Mask
    BY DEF RolledBits
  <2> HIDE DEF reported
  <2> QED
    BY <2>1 DEF ShareKey
<1>4. /\ found' = found \union {[work |-> mined, spelled |-> spelled]}
      /\ UNCHANGED <<source, payouts, firmware, rolling>>
      /\ \/ seen' = seen /\ last'.answer = "duplicate"
         \/ /\ seen' = seen \union {key} /\ last'.answer = "rebuilt"
            /\ last'.block = IF source.real /\ solved /\ lowest = mined
                             THEN {serialize_block(lowest.header, lowest.coinbase, source.txs)}
                             ELSE {}
  BY DEF Submit
<1> HIDE DEF mined, key, lowest, v
<1>5. SourceInv'
  BY <1>4 DEF MadeInv, SourceInv
<1>6. RestInv'
  BY <1>3, <1>4 DEF MadeInv, RestInv
<1>7. ASSUME last'.answer = "rebuilt", NEW block \in last'.block
      PROVE  /\ source.real
             /\ \E script \in PaidScripts, m \in Nonce : \E u : block = BlockFor(script, u, m)
  <2>1. /\ source.real /\ lowest = mined
        /\ block = serialize_block(mined.header, mined.coinbase, source.txs)
    BY <1>4, <1>7
  <2>2. PICK i \in 1..Len(payouts) :
          wire.parts = build_coinbase_parts(source.height, source.value, payouts[i])
    BY <1>1, <2>1 DEF Offered, Halves, Parts
  <2>3. payouts[i] \in PaidScripts
    BY DEF MadeInv, SourceInv
  <2>4. /\ mined.coinbase = CoinbaseFor(payouts[i], n)
        /\ mined.header = HeaderOf(source, CoinbaseFor(payouts[i], n), v, n)
    BY <1>2, <2>2 DEF Rebuilt, CoinbaseFor
  <2>5. block = BlockFor(payouts[i], v, n)
    BY <2>1, <2>4 DEF BlockFor
  <2> QED
    BY <2>1, <2>3, <2>5
<1>8. BlockInv'
  <2>1. ASSUME NEW s, NEW u, NEW m PROVE BlockFor(s, u, m)' = BlockFor(s, u, m)
    BY <1>4, Zenon DEF BlockFor, CoinbaseFor
  <2>2. found' # {} /\ source'.real = source.real
    BY <1>4
  <2> QED
    BY <1>7, <2>1, <2>2, Zenon DEF BlockInv
<1> QED
  BY <1>5, <1>6, <1>8 DEF MadeInv

\* One step of each action.
LEMMA MadeKept == WorkInv /\ MadeInv /\ [Next]_vars => MadeInv'
<1> SUFFICES ASSUME WorkInv, MadeInv, [Next]_vars
             PROVE  MadeInv'
  OBVIOUS
<1>1. CASE Configure
  BY <1>1, ConfigureMakes
<1>2. CASE InstallReal
  BY <1>2, InstallMakes DEF InstallReal
<1>3. CASE InstallMock
  BY <1>3, InstallMakes DEF InstallMock
<1>4. CASE \E a \in Username : Authorize(a)
  BY <1>4, AuthorizeMakes
<1>5. CASE SubmitShare
  BY <1>5, SubmitMakes DEF SubmitShare
<1>6. CASE UNCHANGED vars
  <2>1. SourceInv' /\ RestInv'
    BY <1>6 DEF vars, MadeInv, SourceInv, RestInv
  <2>2. BlockInv'
    BY <1>6, SameBlocks DEF vars, MadeInv
  <2> QED
    BY <2>1, <2>2 DEF MadeInv
<1> QED
  BY <1>1, <1>2, <1>3, <1>4, <1>5, <1>6 DEF Next

\* Both invariants always hold.
LEMMA MadeAlways == Spec => [](WorkInv /\ MadeInv)
BY WorkInitially, WorkKept, MadeInitially, MadeKept, PTL DEF Spec

-----------------------------------------------------------------------------
(* What was sent parses as a coinbase. *)

\* A template's numbers are what its coinbase and its block are made of.
LEMMA TemplateParts ==
  ASSUME NEW g \in Template, source = BlockTemplate(g)
  PROVE  /\ source.real /\ source.height = g.height /\ source.value = g.value
         /\ source.version = g.version /\ source.txs = g.txs
         /\ source.prevhash = Reversed(g.previousblockhash)
         /\ source.branch =
              merkle_branch([i \in 1..Len(g.txs) |-> Reversed(DisplayId(g.txs[i]))])
         /\ g.height \in Nat /\ g.height > 0 /\ g.height <= MaxHeight /\ g.value \in Nat
         /\ g.txs \in Seq(Nat)
<1>1. g.height \in Nat /\ g.height > 16 /\ g.height <= MaxHeight /\ g.value \in Nat
      /\ g.txs \in Seq(Nat)
  <2>1. Mineable(g)
    BY TemplateAssumption
  <2> QED
    BY <2>1 DEF Mineable
<1>2. g.height > 0
  BY <1>1
<1> QED
  BY <1>1, <1>2 DEF BlockTemplate

\* A script of an address is bytes, short, and a wallet's.
LEMMA ScriptMade ==
  ASSUME NEW script \in PaidScripts
  PROVE  /\ script \in Seq(0..255) /\ Len(script) < 253
         /\ \E w \in Wallet : LockedBy(script, w)
<1>1. PICK a \in Username : script = to_script(a) /\ to_script(a) # Bad
  BY DEF PaidScripts, Scripts, Script
<1>2. PICK w \in Wallet : Encodable(w) /\ LockedBy(to_script(a), w)
  BY <1>1, ScriptLocks
<1>3. script \in Seq(0..255) /\ Len(script) < 253
  BY <1>1, <1>2, LockBytes, Zenon
<1> QED
  BY <1>1, <1>2, <1>3, Zenon

\* The coinbase is a string of symbols.
LEMMA RawBytes ==
  ASSUME NEW S, NEW f, LaidOut(S, f), Sized(S, f)
  PROVE  RawOf(f) \in Seq(S)
<1> DEFINE one == <<1>>
           lens == <<Len(SigOf(f))>>
           lenp == <<Len(f.script)>>
<1>1. one \in Seq(S) /\ lens \in Seq(S) /\ lenp \in Seq(S)
  BY DEF Sized
<1>2. /\ f.ver \in Seq(S) /\ f.hash \in Seq(S) /\ f.index \in Seq(S) /\ f.push \in Seq(S)
      /\ f.en1 \in Seq(S) /\ f.en2 \in Seq(S) /\ f.tag \in Seq(S) /\ f.sequence \in Seq(S)
      /\ f.value \in Seq(S) /\ f.script \in Seq(S) /\ f.lock \in Seq(S)
  BY Zenon DEF LaidOut
<1> HIDE DEF one, lens, lenp
<1>3. \A s, t \in Seq(S) : s \o t \in Seq(S)
  OBVIOUS
<1>4. f.ver \o one \o f.hash \o f.index \o lens \o f.push \in Seq(S)
  BY <1>1, <1>2, <1>3, Zenon
<1>5. f.tag \o f.sequence \o one \o f.value \o lenp \o f.script \o f.lock \in Seq(S)
  BY <1>1, <1>2, <1>3, Zenon
<1>6. FrontOf(f) \o f.en1 \o f.en2 \o BackOf(f) \in Seq(S)
  BY <1>2, <1>3, <1>4, <1>5, Zenon DEF FrontOf, BackOf, one, lens, lenp
<1> QED
  BY <1>6, Zenon DEF RawOf

\* A coinbase parses to its last byte.
Parses(raw) ==
  LET tx == ReadCoinbase(raw, 1) IN tx.next = Len(raw) + 1 /\ WellFormed(tx)

\* What the two halves make parses.
LEMMA MadeParses ==
  ASSUME NEW parts, NEW n, NEW f, MadeOf(f, parts, n)
  PROVE  Parses(assemble(parts, Extranonce1, Extranonce2(n)))
<1> DEFINE raw == assemble(parts, Extranonce1, Extranonce2(n))
           tx == ReadCoinbase(raw, 1)
<1>1. raw = RawOf(f) /\ LaidOut(Symbols, f) /\ Sized(Symbols, f)
  BY Zenon DEF MadeOf
<1>2. raw \in Seq(Symbols)
  BY <1>1, RawBytes
<1>3. Holds(raw, 1, raw) /\ 1 \in Nat /\ 1 >= 1 /\ Len(raw) \in Nat
  BY <1>2, HoldsAll
<1>4. tx.next = 1 + Len(RawOf(f)) /\ WellFormed(tx)
  <2>1. /\ tx = [inputs |-> 1, outputs |-> 1,
                 prevout |-> Filled(32, 0) \o Filled(4, 255),
                 scriptSig |-> SigOf(f), sequence |-> Filled(4, 255), value |-> f.value,
                 script |-> f.script, next |-> 1 + Len(RawOf(f))]
        /\ WellFormed(tx)
    BY <1>2, <1>3, MadeReads
  <2> HIDE DEF tx
  <2> QED
    BY <2>1
<1> HIDE DEF raw, tx
<1>5. 1 + Len(RawOf(f)) = Len(raw) + 1
  BY <1>1, <1>3
<1>6. tx.next = Len(raw) + 1 /\ WellFormed(tx)
  BY <1>4, <1>5
<1> QED
  BY <1>6, Zenon DEF raw, tx, Parses

\* Every message that was sent carries two such halves.
LEMMA SentParses ==
  ASSUME WorkInv, MadeInv
  PROVE  MinerReadsCoinbase
<1> SUFFICES ASSUME NEW wire \in wires, NEW n \in Nonce
             PROVE  Parses(assemble(wire.parts, Extranonce1, Extranonce2(n)))
  BY Zenon DEF MinerReadsCoinbase, assemble, Parses
<1>1. source # NoJob /\ wire.parts \in Halves(source, payouts)
  BY DEF WorkInv, JobInv, Offered
<1>2. \E f : MadeOf(f, wire.parts, n)
  <2>1. CASE source = MockJob
    <3>1. wire.parts = MockParts
      BY <1>1, <2>1 DEF Halves, MockJob
    <3> QED
      BY <3>1, MockMade
  <2>2. ASSUME NEW g \in Template, source = BlockTemplate(g)
        PROVE  \E f : MadeOf(f, wire.parts, n)
    <3>1. PICK i \in 1..Len(payouts) :
            wire.parts = build_coinbase_parts(g.height, g.value, payouts[i])
      BY <1>1, <2>2, TemplateParts DEF Halves, Parts
    <3>2. payouts[i] \in PaidScripts
      BY DEF MadeInv, SourceInv
    <3>3. payouts[i] \in Seq(0..255) /\ Len(payouts[i]) < 253
      BY <3>2, ScriptMade
    <3>4. g.height \in Nat /\ g.height > 0 /\ g.value \in Nat
      BY <2>2, TemplateParts
    <3>5. Payable(g.height, g.value, payouts[i], n)
      BY <3>3, <3>4, Zenon DEF Payable
    <3>6. PICK f : CoinbaseOf(f, g.height, g.value, payouts[i], n)
      BY <3>5, RealMade, Zenon
    <3>7. MadeOf(f, build_coinbase_parts(g.height, g.value, payouts[i]), n)
      BY <3>6, Zenon DEF CoinbaseOf
    <3> QED
      BY <3>1, <3>7
  <2> QED
    BY <1>1, <2>1, <2>2 DEF MadeInv, SourceInv
<1> QED
  BY <1>2, MadeParses, Zenon

-----------------------------------------------------------------------------
(* A block is read back. *)

\* The first bytes of a string are those of what stands at its beginning.
LEMMA FirstBytes ==
  ASSUME NEW S, NEW b \in Seq(S), NEW f \in Seq(S), Holds(b, 1, f),
         NEW k \in 1..Len(f)
  PROVE  At(b, k) = f[k]
<1>1. b[1 + k - 1] = f[k] /\ 1 + Len(f) - 1 <= Len(b)
  BY Zenon DEF Holds
<1>2. 1 + k - 1 = k /\ k \in 1..Len(b)
  BY <1>1
<1> QED
  BY <1>1, <1>2 DEF At

\* A count of three or five bytes: what ReadVarint makes of its bytes.
LEMMA CountOfThree ==
  ASSUME NEW b, NEW x, NEW y, At(b, 1) = 253, At(b, 2) = x, At(b, 3) = y
  PROVE  ReadVarint(b, 1) = [n |-> x + 256 * y, next |-> 4]
<1>1. 1 + 1 = 2 /\ 1 + 2 = 3 /\ 1 + 3 = 4 /\ ~(253 < 253)
  OBVIOUS
<1> QED
  BY <1>1, SMT DEF ReadVarint

\* What ReadVarint makes of a count of five bytes.
LEMMA CountOfFive ==
  ASSUME NEW b, NEW x, NEW y, NEW z,
         At(b, 1) = 254, At(b, 2) = x, At(b, 3) = y, At(b, 4) = z
  PROVE  ReadVarint(b, 1) = [n |-> x + 256 * (y + 256 * z), next |-> 6]
<1>1. ~(254 < 253) /\ 254 # 253
  OBVIOUS
<1>2. ReadVarint(b, 1) =
        [n |-> At(b, 1 + 1) + 256 * (At(b, 1 + 2) + 256 * At(b, 1 + 3)), next |-> 1 + 5]
  BY <1>1, SMT DEF ReadVarint
<1>3. 1 + 1 = 2 /\ 1 + 2 = 3 /\ 1 + 3 = 4 /\ 1 + 5 = 6
  OBVIOUS
<1>4. At(b, 1 + 1) = x /\ At(b, 1 + 2) = y /\ At(b, 1 + 3) = z
  BY <1>3, Zenon
<1> QED
  BY <1>2, <1>3, <1>4, SMT

\* A byte in front of a few.
LEMMA Prepended ==
  ASSUME NEW a, NEW x, NEW y, NEW z, NEW u
  PROVE  <<a>> \o <<x, y>> = <<a, x, y>> /\ <<a>> \o <<x, y, z, u>> = <<a, x, y, z, u>>
<1> DEFINE T == {a, x, y, z, u}
<1>1. ASSUME NEW s \in Seq(T), NEW t \in Seq(T), Len(s) = Len(t),
             \A k \in 1..Len(t) : s[k] = t[k]
      PROVE  s = t
  BY <1>1
<1>2. <<a>> \o <<x, y>> = <<a, x, y>>
  <2> DEFINE s == <<a>> \o <<x, y>>
             t == <<a, x, y>>
  <2>1. s \in Seq(T) /\ Len(s) = 3 /\ s[1] = a /\ s[2] = x /\ s[3] = y
    OBVIOUS
  <2>2. t \in Seq(T) /\ Len(t) = 3 /\ t[1] = a /\ t[2] = x /\ t[3] = y
    OBVIOUS
  <2> HIDE DEF s, t, T
  <2>3. \A k \in 1..3 : s[k] = t[k]
    BY <2>1, <2>2
  <2> QED
    BY <1>1, <2>1, <2>2, <2>3 DEF s, t
<1>3. <<a>> \o <<x, y, z, u>> = <<a, x, y, z, u>>
  <2> DEFINE s == <<a>> \o <<x, y, z, u>>
             t == <<a, x, y, z, u>>
  <2>1. s \in Seq(T) /\ Len(s) = 5
        /\ s[1] = a /\ s[2] = x /\ s[3] = y /\ s[4] = z /\ s[5] = u
    OBVIOUS
  <2>2. t \in Seq(T) /\ Len(t) = 5
        /\ t[1] = a /\ t[2] = x /\ t[3] = y /\ t[4] = z /\ t[5] = u
    OBVIOUS
  <2> HIDE DEF s, t, T
  <2>3. \A k \in 1..5 : s[k] = t[k]
    BY <2>1, <2>2
  <2> QED
    BY <1>1, <2>1, <2>2, <2>3 DEF s, t
<1> QED
  BY <1>2, <1>3

\* A count is bytes.
LEMMA CountBytes ==
  ASSUME NEW n \in Nat
  PROVE  encode_varint(n) \in Seq(0..255)
<1> DEFINE one == <<n>>
           three == <<253>> \o Little(n, 2)
           five == <<254>> \o Little(n, 4)
<1>1. Little(n, 2) \in Seq(0..255) /\ Little(n, 4) \in Seq(0..255)
  <2>1. 2 \in Nat /\ 4 \in Nat
    OBVIOUS
  <2> QED
    BY <2>1, LittleBytes, Zenon
<1>2. <<253>> \in Seq(0..255) /\ <<254>> \in Seq(0..255)
  OBVIOUS
<1>3. three \in Seq(0..255) /\ five \in Seq(0..255)
  BY <1>1, <1>2, Joined, Zenon
<1>4. n < 253 => one \in Seq(0..255)
  OBVIOUS
<1>5. encode_varint(n) = IF n < 253 THEN one ELSE IF n <= 65535 THEN three ELSE five
  BY SMT DEF encode_varint
<1> HIDE DEF one, three, five
<1> QED
  BY <1>3, <1>4, <1>5

\* The node reads the count that serialize_block wrote.
LEMMA CountReads ==
  ASSUME NEW S, WithBytes(S), NEW b \in Seq(S), NEW n \in Nat, n <= MaxTxs,
         Holds(b, 1, encode_varint(n))
  PROVE  ReadVarint(b, 1) = [n |-> n, next |-> 1 + Len(encode_varint(n))]
<1> DEFINE c == encode_varint(n)
           x == n % 256
           y == (n \div 256) % 256
           z == ((n \div 256) \div 256) % 256
           u == (((n \div 256) \div 256) \div 256) % 256
<1>1. c \in Seq(S)
  BY CountBytes, ByteStrings
<1>2. \A k \in 1..Len(c) : At(b, k) = c[k]
  BY <1>1, FirstBytes
<1>3. CASE n < 253
  <2>1. c = <<n>>
    BY <1>3, SMT DEF encode_varint
  <2>2. Holds(b, 1, <<n>>)
    BY <2>1, Zenon
  <2>3. ReadVarint(b, 1) = [n |-> n, next |-> 1 + 1]
    BY <1>3, <2>2, ReadByte
  <2>4. Len(c) = 1
    BY <2>1
  <2> QED
    BY <2>3, <2>4
<1>4. CASE n >= 253 /\ n <= 65535
  <2>1. c = <<253, x, y>>
    <3>1. ~(n < 253)
      BY <1>4
    <3>2. c = <<253>> \o Little(n, 2)
      BY <1>4, <3>1, SMT DEF encode_varint
    <3>3. Little(n, 2) = <<x, y>>
      BY LittleOf
    <3> HIDE DEF c, x, y
    <3>4. c = <<253>> \o <<x, y>>
      BY <3>2, <3>3
    <3>5. \A a : <<a>> \o <<x, y>> = <<a, x, y>>
      BY Prepended, Zenon
    <3>6. <<253>> \o <<x, y>> = <<253, x, y>>
      BY <3>5, SMT
    <3> QED
      BY <3>4, <3>6, Zenon
  <2>2. n = x + 256 * y
    BY <1>4, SMT
  <2> HIDE DEF c, x, y
  <2>3. Len(c) = 3 /\ At(b, 1) = 253 /\ At(b, 2) = x /\ At(b, 3) = y
    BY <1>2, <2>1
  <2>4. ReadVarint(b, 1) = [n |-> x + 256 * y, next |-> 4]
    BY <2>3, CountOfThree
  <2>5. 1 + Len(c) = 4
    BY <2>3
  <2> QED
    BY <2>2, <2>4, <2>5 DEF c
<1>5. CASE n > 65535
  <2>1. c = <<254, x, y, z, u>>
    <3>1. ~(n < 253) /\ ~(n <= 65535)
      BY <1>5, SMT
    <3>2. c = <<254>> \o Little(n, 4)
      BY <3>1, SMT DEF encode_varint
    <3>3. Little(n, 4) = <<x, y, z, u>>
      BY LittleOf
    <3> HIDE DEF c, x, y, z, u
    <3>4. c = <<254>> \o <<x, y, z, u>>
      BY <3>2, <3>3
    <3>5. \A a : <<a>> \o <<x, y, z, u>> = <<a, x, y, z, u>>
      BY Prepended, Zenon
    <3> QED
      BY <3>4, <3>5, SMT
  <2>2. n = x + 256 * (y + 256 * z)
    BY <1>5, SMT DEF MaxTxs
  <2> HIDE DEF c, x, y, z, u
  <2>3. Len(c) = 5 /\ At(b, 1) = 254 /\ At(b, 2) = x /\ At(b, 3) = y /\ At(b, 4) = z
    BY <1>2, <2>1
  <2>4. ReadVarint(b, 1) = [n |-> x + 256 * (y + 256 * z), next |-> 6]
    BY <2>3, CountOfFive
  <2>5. 1 + Len(c) = 6
    BY <2>3
  <2> QED
    BY <2>2, <2>4, <2>5 DEF c
<1> QED
  BY <1>3, <1>4, <1>5

\* What the node makes of the body serialize_block made of a coinbase.
TakenApart(body, raw, txs, f) ==
  LET count == ReadVarint(body, 1)
      tx == ReadCoinbase(body, count.next)
  IN  /\ count.n = 1 + Len(txs)
      /\ WellFormed(tx) /\ tx.scriptSig = SigOf(f) /\ tx.value = f.value
      /\ tx.script = f.script
      /\ Slice(body, count.next, tx.next - 1) = raw
      /\ SubSeq(body, tx.next, Len(body)) = txs

\* b is these three strings.
ThreeOf(S, b, c, r, t) ==
  c \in Seq(S) /\ r \in Seq(S) /\ t \in Seq(S) /\ b = c \o r \o t

\* Where the parts of three strings joined stand.
LEMMA BodyParts ==
  ASSUME NEW S, NEW b, NEW c, NEW r, NEW t, ThreeOf(S, b, c, r, t)
  PROVE  /\ b \in Seq(S) /\ Holds(b, 1, c) /\ Holds(b, 1 + Len(c), r)
         /\ Holds(b, 1 + Len(c) + Len(r), t)
         /\ Len(b) = 1 + Len(c) + Len(r) + Len(t) - 1
<1>0. c \in Seq(S) /\ r \in Seq(S) /\ t \in Seq(S) /\ b = c \o r \o t
  BY Zenon DEF ThreeOf
<1> USE <1>0
<1> DEFINE cr == c \o r
<1>1. cr \in Seq(S) /\ Len(cr) = Len(c) + Len(r)
  BY Joined
<1>2. b = cr \o t
  OBVIOUS
<1> HIDE DEF cr
<1>3. b \in Seq(S) /\ Len(b) = Len(cr) + Len(t)
  BY <1>1, <1>2, Joined
<1>4. Holds(b, 1, cr \o t) /\ 1 \in Nat /\ 1 >= 1
  <2>1. Holds(b, 1, b)
    BY <1>3, HoldsAll, Zenon
  <2>2. 1 \in Nat /\ 1 >= 1
    OBVIOUS
  <2> QED
    BY <1>2, <2>1, <2>2, Zenon
<1>5. Holds(b, 1, cr) /\ Holds(b, 1 + Len(cr), t)
  BY <1>1, <1>3, <1>4, Apart
<1>6. Holds(b, 1, c) /\ Holds(b, 1 + Len(c), r)
  <2>1. Holds(b, 1, c \o r)
    BY <1>5 DEF cr
  <2> QED
    BY <1>3, <1>4, <2>1, Apart
<1>7. 1 + Len(cr) = 1 + Len(c) + Len(r) /\ Len(b) = 1 + Len(c) + Len(r) + Len(t) - 1
  BY <1>1, <1>3
<1> QED
  BY <1>3, <1>5, <1>6, <1>7

\* Where the three strings stand.
Placed(S, b, c, r, t, i, j) ==
  /\ c \in Seq(S) /\ r \in Seq(S) /\ t \in Seq(S) /\ b = c \o r \o t
  /\ i = 1 + Len(c) /\ j = i + Len(r)

\* Cutting three strings apart again.
LEMMA PlacesRead ==
  ASSUME NEW S, NEW b, NEW c, NEW r, NEW t, NEW i, NEW j, Placed(S, b, c, r, t, i, j)
  PROVE  /\ b \in Seq(S) /\ i \in Nat /\ i >= 1
         /\ Holds(b, 1, c) /\ Holds(b, i, r)
         /\ Slice(b, i, j - 1) = r /\ SubSeq(b, j, Len(b)) = t
<1>0. /\ c \in Seq(S) /\ r \in Seq(S) /\ t \in Seq(S) /\ b = c \o r \o t
      /\ i = 1 + Len(c) /\ j = i + Len(r)
  BY Zenon DEF Placed
<1> USE <1>0
<1>1. ThreeOf(S, b, c, r, t)
  BY Zenon DEF ThreeOf
<1>2. /\ b \in Seq(S) /\ Holds(b, 1, c) /\ Holds(b, i, r)
  BY <1>1, BodyParts, Zenon
<1>3. Holds(b, j, t)
  BY <1>1, BodyParts, Zenon
<1>4. Len(b) = 1 + Len(c) + Len(r) + Len(t) - 1
  BY <1>1, BodyParts
<1>5. Len(c) \in Nat /\ Len(r) \in Nat /\ Len(t) \in Nat
  OBVIOUS
<1> DEFINE k == j - 1
           m == Len(b)
<1>6. /\ i \in Nat /\ i >= 1 /\ j \in Nat /\ j >= 1
      /\ k = i + Len(r) - 1 /\ m = j + Len(t) - 1
  BY <1>4, <1>5
<1> HIDE DEF k, m
<1>7. Slice(b, i, i + Len(r) - 1) = r
  BY <1>2, <1>6, HoldsSlice, Zenon
<1>8. SubSeq(b, j, j + Len(t) - 1) = t
  BY <1>2, <1>3, <1>6, HoldsSlice, Zenon
<1> QED
  BY <1>2, <1>6, <1>7, <1>8, Zenon DEF k, m

\* How such a body is built.
BodyOf(f, txs) == encode_varint(1 + Len(txs)) \o RawOf(f) \o txs

\* The body of a block comes apart into what it was made of.
LEMMA BodyReads ==
  ASSUME NEW parts, NEW n, NEW f, MadeOf(f, parts, n),
         NEW txs \in Seq(Nat), 1 + Len(txs) <= MaxTxs
  PROVE  TakenApart(BodyOf(f, txs), RawOf(f), txs, f)
<1> DEFINE c == encode_varint(1 + Len(txs))
           raw == RawOf(f)
           body == BodyOf(f, txs)
<1>1. 1 + Len(txs) \in Nat
  OBVIOUS
<1>2. /\ LaidOut(Symbols, f) /\ Sized(Symbols, f)
      /\ raw = assemble(parts, Extranonce1, Extranonce2(n))
  BY Zenon DEF MadeOf
<1>3. c \in Seq(Symbols) /\ raw \in Seq(Symbols) /\ txs \in Seq(Symbols)
  <2>1. c \in Seq(Symbols)
    BY <1>1, CountBytes, ByteStrings, SymbolsFit, Zenon
  <2>2. Nat \subseteq Symbols
    BY DEF Symbols
  <2> QED
    BY <1>2, <2>1, <2>2, RawBytes, SeqWider, Zenon
<1>4. body = c \o raw \o txs
  BY Zenon DEF BodyOf
<1>5. PICK i, j : i = 1 + Len(c) /\ j = i + Len(raw)
  OBVIOUS
<1> HIDE DEF raw, body
<1>6. Placed(Symbols, body, c, raw, txs, i, j)
  BY <1>3, <1>4, <1>5, Zenon DEF Placed
<1>7. /\ body \in Seq(Symbols) /\ i \in Nat /\ i >= 1
      /\ Holds(body, 1, c) /\ Holds(body, i, raw)
      /\ Slice(body, i, j - 1) = raw /\ SubSeq(body, j, Len(body)) = txs
  BY <1>6, PlacesRead
<1>8. ReadVarint(body, 1).n = 1 + Len(txs) /\ ReadVarint(body, 1).next = i
  <2>1. ReadVarint(body, 1) = [n |-> 1 + Len(txs), next |-> 1 + Len(c)]
    BY <1>1, <1>7, CountReads, SymbolsFit
  <2> QED
    BY <1>5, <2>1
<1> HIDE DEF c
<1> DEFINE tx == ReadCoinbase(body, i)
<1>9. /\ tx = [inputs |-> 1, outputs |-> 1,
               prevout |-> Filled(32, 0) \o Filled(4, 255),
               scriptSig |-> SigOf(f), sequence |-> Filled(4, 255), value |-> f.value,
               script |-> f.script, next |-> i + Len(RawOf(f))]
      /\ WellFormed(tx)
  <2>1. Holds(body, i, assemble(parts, Extranonce1, Extranonce2(n)))
    BY <1>2, <1>7, Zenon
  <2> QED
    BY <1>7, <2>1, MadeReads
<1> HIDE DEF tx
<1>10. /\ tx.scriptSig = SigOf(f) /\ tx.value = f.value /\ tx.script = f.script
       /\ tx.next = j
  BY <1>5, <1>9 DEF raw
<1>11. ReadCoinbase(body, ReadVarint(body, 1).next) = tx
  BY <1>8, Zenon DEF tx
<1> QED
  BY <1>7, <1>8, <1>9, <1>10, <1>11, Zenon DEF TakenApart, raw, body

\* The node finds the height at the beginning of the script.
LEMMA HeightRead ==
  ASSUME NEW S, WithBytes(S), NEW h \in Nat, h > 0, h <= MaxHeight,
         NEW en2 \in Seq(S),
         NEW sig, sig = bip34_height_push(h) \o Extranonce1 \o en2 \o COINBASE_TAG
  PROVE  StartsWithHeight(sig, h)
<1> DEFINE s == script_num(h)
           k == Len(s)
           push == bip34_height_push(h)
           rest == Extranonce1
           a == push \o rest
           b == a \o en2
<1>1. /\ push = <<k>> \o s /\ push \in Seq(S) /\ k \in 0..5
      /\ s \in Seq(S) /\ <<k>> \in Seq(S)
  <2>1. push = <<k>> \o s /\ push \in Seq(0..255) /\ k \in 0..5
    BY PushBytes, Zenon
  <2>2. s \in Seq(0..255)
    BY ScriptNumBytes
  <2>3. <<k>> \in Seq(0..255)
    BY <2>1
  <2> QED
    BY <2>1, <2>2, <2>3, ByteStrings, Zenon
<1>2. IsScriptNum(s, h)
  BY ScriptNumFits
<1>3. k >= 1
  BY <1>1, <1>2 DEF IsScriptNum
<1>4. rest \in Seq(S) /\ Len(rest) = 4 /\ COINBASE_TAG \in Seq(S)
  BY FixedParts, Zenon
<1> HIDE DEF s, push, rest
<1>5. a \in Seq(S) /\ b \in Seq(S) /\ sig \in Seq(S) /\ sig = b \o COINBASE_TAG
  <2>1. a \in Seq(S)
    BY <1>1, <1>4, Joined, Zenon
  <2>2. b \in Seq(S)
    BY <2>1, Joined, Zenon
  <2>3. sig = b \o COINBASE_TAG
    BY Zenon DEF push, rest
  <2> QED
    BY <1>4, <2>1, <2>2, <2>3, Joined, Zenon
<1> HIDE DEF k
<1>6. 1 \in Nat /\ 1 >= 1
  OBVIOUS
<1>7. Holds(sig, 1, b)
  <2>1. Holds(sig, 1, b \o COINBASE_TAG)
    BY <1>5, HoldsAll, Zenon
  <2> QED
    BY <1>4, <1>5, <1>6, <2>1, Apart, Zenon
<1>8. Holds(sig, 1, a)
  BY <1>5, <1>6, <1>7, Apart, Zenon
<1>9. Holds(sig, 1, push) /\ Holds(sig, 1 + Len(push), rest)
  BY <1>1, <1>4, <1>5, <1>6, <1>8, Apart, Zenon
<1>10. Holds(sig, 1, <<k>>) /\ Holds(sig, 1 + Len(<<k>>), s)
  BY <1>1, <1>5, <1>6, <1>9, Apart, Zenon
<1>11. Len(<<k>>) = 1 /\ 1 + Len(<<k>>) = 2 /\ Len(push) = 1 + k
  BY <1>1 DEF k
<1>12. sig[1] = k
  <2>1. 1 \in 1..1 /\ <<k>>[1] = k /\ 1 + 1 - 1 = 1
    OBVIOUS
  <2> QED
    BY <1>10, <1>11, <2>1 DEF Holds
<1>13. k <= Len(sig) - 1
  <2>1. 1 + Len(push) + Len(rest) - 1 <= Len(sig)
    BY <1>9, Zenon DEF Holds
  <2> QED
    BY <1>1, <1>4, <1>5, <1>11, <2>1
<1>14. SubSeq(sig, 2, 1 + k) = s
  <2>1. Holds(sig, 2, s) /\ 2 \in Nat /\ 2 >= 1
    BY <1>10, <1>11
  <2>2. SubSeq(sig, 2, 2 + Len(s) - 1) = s
    BY <1>1, <1>5, <2>1, HoldsSlice
  <2>3. 2 + Len(s) - 1 = 1 + k
    BY <1>1 DEF k
  <2> QED
    BY <2>2, <2>3
<1>15. k \in 1..(Len(sig) - 1)
  BY <1>1, <1>3, <1>5, <1>13
<1>16. IsScriptNum(SubSeq(sig, 2, 1 + sig[1]), h)
  BY <1>2, <1>12, <1>14, Zenon
<1> QED
  BY <1>12, <1>15, <1>16, Zenon DEF StartsWithHeight

\* Merkle ids of a template are those the node computes.
LEMMA IdsTwiceReversed ==
  ASSUME NEW txs \in Seq(Nat)
  PROVE  [i \in 1..Len(txs) |-> Reversed(DisplayId(txs[i]))]
           = [i \in 1..Len(txs) |-> Txid(txs[i])]
<1>1. ASSUME NEW x, NEW y PROVE Reversed(<<x, y>>) = <<y, x>>
  <2> DEFINE s == <<x, y>>
             r == Reversed(s)
  <2>1. Len(s) = 2 /\ s[1] = x /\ s[2] = y
    OBVIOUS
  <2> HIDE DEF s
  <2>2. r = [i \in 1..2 |-> s[2 + 1 - i]]
    BY <2>1 DEF Reversed
  <2>3. [i \in 1..2 |-> s[2 + 1 - i]] = <<y, x>>
    <3>1. 2 + 1 - 1 = 2 /\ 2 + 1 - 2 = 1
      OBVIOUS
    <3> QED
      BY <2>1, <3>1
  <2> QED
    BY <2>2, <2>3 DEF s
<1>2. ASSUME NEW t PROVE Reversed(DisplayId(t)) = Txid(t)
  BY <1>1 DEF DisplayId, Txid
<1> QED
  BY <1>2, Zenon

\* The branch of a job gives the root of its block's transactions.
LEMMA RootOfBody ==
  ASSUME NEW c, NEW txs \in Seq(Nat)
  PROVE  merkle_root(c, merkle_branch([i \in 1..Len(txs) |-> Reversed(DisplayId(txs[i]))]))
           = merkle_root_full(<<c>> \o [i \in 1..Len(txs) |-> Txid(txs[i])])
<1> DEFINE S == {Txid(t) : t \in Nat}
           ids == [i \in 1..Len(txs) |-> Txid(txs[i])]
<1>1. ids \in Seq(S)
  <2>1. \A i \in 1..Len(txs) : Txid(txs[i]) \in S
    OBVIOUS
  <2> HIDE DEF S
  <2> QED
    BY <2>1
<1>2. [i \in 1..Len(txs) |-> Reversed(DisplayId(txs[i]))] = ids
  BY IdsTwiceReversed
<1> HIDE DEF ids, S
<1>3. merkle_root(c, merkle_branch(ids)) = merkle_root_full(<<c>> \o ids)
  BY <1>1, BranchGivesRoot, Zenon
<1> QED
  BY <1>2, <1>3, Zenon DEF ids

\* What NodeTakesBlock asks of one block.
Taken(block) ==
  LET body == block.body
      count == ReadVarint(body, 1)
      tx == ReadCoinbase(body, count.next)
      coinbase == Slice(body, count.next, tx.next - 1)
      rest == SubSeq(body, tx.next, Len(body))
  IN  /\ count.n = 1 + Len(rest)
      /\ WellFormed(tx) /\ StartsWithHeight(tx.scriptSig, source.height)
      /\ tx.value = Little(source.value, 8)
      /\ \E w \in Wallet : LockedBy(tx.script, w)
      /\ \E g \in Template :
           /\ g.height = source.height /\ g.version = source.version
           /\ rest = g.txs
           /\ block.header.prev = Reversed(g.previousblockhash)
      /\ block.header.root =
           merkle_root_full(<<coinbase>> \o [i \in 1..Len(rest) |-> Txid(rest[i])])

\* A block built for a template is one the node can take.
LEMMA BlockTaken ==
  ASSUME NEW g \in Template, source = BlockTemplate(g),
         NEW script \in PaidScripts, NEW n \in Nonce, NEW v
  PROVE  Taken(BlockFor(script, v, n))
<1> DEFINE parts == build_coinbase_parts(source.height, source.value, script)
           raw == CoinbaseFor(script, n)
           block == BlockFor(script, v, n)
           txs == source.txs
<1>1. /\ source.height = g.height /\ source.value = g.value
      /\ source.version = g.version /\ source.txs = g.txs
      /\ source.prevhash = Reversed(g.previousblockhash)
      /\ source.branch =
           merkle_branch([i \in 1..Len(g.txs) |-> Reversed(DisplayId(g.txs[i]))])
      /\ g.height \in Nat /\ g.height > 0 /\ g.height <= MaxHeight /\ g.value \in Nat
      /\ g.txs \in Seq(Nat)
  BY TemplateParts
<1>2. 1 + Len(txs) <= MaxTxs
  <2>1. Mineable(g)
    BY TemplateAssumption
  <2> QED
    BY <1>1, <2>1 DEF Mineable
<1>3. /\ script \in Seq(0..255) /\ Len(script) < 253
      /\ \E w \in Wallet : LockedBy(script, w)
  BY ScriptMade
<1>4. PICK f : CoinbaseOf(f, source.height, source.value, script, n)
  <2>1. source.height \in Nat /\ source.height > 0 /\ source.value \in Nat
    BY <1>1
  <2>2. Payable(source.height, source.value, script, n)
    BY <1>3, <2>1, Zenon DEF Payable
  <2> QED
    BY <2>2, RealMade, Zenon
<1>15. /\ MadeOf(f, parts, n)
       /\ SigOf(f) = bip34_height_push(source.height) \o Extranonce1
                      \o Extranonce2(n) \o COINBASE_TAG
       /\ f.value = Little(source.value, 8) /\ f.script = script
  BY <1>4, Zenon DEF CoinbaseOf
<1>5. raw = RawOf(f)
  BY <1>15, Zenon DEF MadeOf, CoinbaseFor
<1>6. /\ block.body = BodyOf(f, txs)
      /\ block.header = Header(v, source.prevhash, merkle_root(raw, source.branch), n)
  BY <1>5 DEF BlockFor, serialize_block, BodyOf, HeaderOf
<1>7. /\ block.header.prev = source.prevhash
      /\ block.header.root = merkle_root(raw, source.branch)
  BY <1>6 DEF Header
<1> HIDE DEF parts, raw, block
<1>8. TakenApart(block.body, raw, txs, f)
  BY <1>1, <1>2, <1>15, <1>5, <1>6, BodyReads, Zenon
<1> DEFINE body == block.body
           count == ReadVarint(body, 1)
           tx == ReadCoinbase(body, count.next)
           coinbase == Slice(body, count.next, tx.next - 1)
           rest == SubSeq(body, tx.next, Len(body))
<1>9. /\ count.n = 1 + Len(txs)
      /\ WellFormed(tx) /\ tx.scriptSig = SigOf(f) /\ tx.value = f.value
      /\ tx.script = f.script /\ coinbase = raw /\ rest = txs
  BY <1>8, Zenon DEF TakenApart
<1> HIDE DEF body, count, tx, coinbase, rest, txs
<1>10. StartsWithHeight(tx.scriptSig, source.height)
  <2>1. Extranonce2(n) \in Seq(Symbols) /\ WithBytes(Symbols)
    BY Extranonce2Is, SymbolsFit
  <2>2. StartsWithHeight(SigOf(f), source.height)
    BY <1>1, <1>15, <2>1, HeightRead
  <2> QED
    BY <1>9, <2>2, Zenon
<1>11. tx.value = Little(source.value, 8) /\ \E w \in Wallet : LockedBy(tx.script, w)
  BY <1>3, <1>15, <1>9, Zenon
<1>12. block.header.root =
         merkle_root_full(<<coinbase>> \o [i \in 1..Len(rest) |-> Txid(rest[i])])
  <2>1. rest = g.txs
    BY <1>1, <1>9, Zenon DEF txs
  <2>2. merkle_root(raw, source.branch) =
          merkle_root_full(<<raw>> \o [i \in 1..Len(g.txs) |-> Txid(g.txs[i])])
    BY <1>1, RootOfBody, Zenon
  <2> QED
    BY <1>7, <1>9, <2>1, <2>2, Zenon
<1>13. \E h \in Template :
         /\ h.height = source.height /\ h.version = source.version
         /\ rest = h.txs
         /\ block.header.prev = Reversed(h.previousblockhash)
  BY <1>1, <1>7, <1>9, Zenon DEF txs
<1>14. count.n = 1 + Len(rest)
  BY <1>9, Zenon
<1> QED
  BY <1>9, <1>10, <1>11, <1>12, <1>13, <1>14, Zenon
  DEF Taken, body, count, tx, coinbase, rest, block

\* Every submitted block is built for the current template.
LEMMA AllTaken ==
  ASSUME WorkInv, MadeInv
  PROVE  NodeTakesBlock
<1> SUFFICES ASSUME last.answer = "rebuilt", NEW block \in last.block
             PROVE  Taken(block)
  BY Zenon DEF NodeTakesBlock, Taken
<1>1. source # NoJob /\ source.real
  BY DEF WorkInv, JobInv, MadeInv, BlockInv
<1>2. source # MockJob
  BY <1>1 DEF MockJob
<1>3. PICK g \in Template : source = BlockTemplate(g)
  BY <1>1, <1>2 DEF MadeInv, SourceInv
<1>4. PICK script \in PaidScripts, n \in Nonce : \E v : block = BlockFor(script, v, n)
  BY DEF MadeInv, BlockInv
<1>5. PICK v : block = BlockFor(script, v, n)
  BY <1>4
<1> QED
  BY <1>3, <1>5, BlockTaken, Zenon

\* The invariants give the types.
LEMMA AllTyped ==
  ASSUME WorkInv, MadeInv
  PROVE  TypeOK
<1>1. PaidScripts \subseteq Seq(0..255)
  BY ScriptMade
<1>2. payouts \in Seq(Seq(0..255))
  BY <1>1 DEF MadeInv, SourceInv
<1>3. source = NoJob \/ source = MockJob
      \/ \E g \in Template : g.txs = source.txs /\ g.height = source.height
  BY TemplateParts DEF MadeInv, SourceInv
<1> QED
  BY <1>2, <1>3 DEF MadeInv, RestInv, TypeOK

-----------------------------------------------------------------------------
(* Results. *)

\* Every variable keeps its type: the job is a template or the mock one, payouts
\* are strings of bytes, and the keys in seen are a nonce, as it was spelled, and
\* bits of the mask.
THEOREM TypeCorrect == Spec => []TypeOK
BY MadeAlways, AllTyped, PTL

\* Whatever the height, the value and the address, every mining.notify carries
\* two halves that with the extranonces between them parse to the last byte as
\* one coinbase (job_manager.py:62-66, coinbase.py:61-86).
THEOREM CoinbaseParses == Spec => []MinerReadsCoinbase
BY MadeAlways, SentParses, PTL

\* Whatever the template, up to three bytes of transactions, and whichever address
\* the miner gave, a block that goes to submitblock parses into the transactions
\* it counts, begins with the height, pays the template's value to a wallet, and
\* its header names the node's tip and the root of all its transactions.
THEOREM NodeTakes == Spec => []NodeTakesBlock
BY MadeAlways, AllTaken, PTL
=============================================================================
