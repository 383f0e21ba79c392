----------------------------- MODULE WorkBuilding -----------------------------
(***************************************************************************)
(* From a block template to a block: BlockTemplate (template.py) with      *)
(* coinbase.py, merkle.py and block.py, MockJob (job_manager.py), and the  *)
(* part of on_submit (stratum.py) that rebuilds what the miner hashed.     *)
(* Three parties each build the same header from what they have: the miner *)
(* from mining.notify, the server from the template and the submit, the    *)
(* node from the bytes of the block.                                       *)
(*                                                                         *)
(* Bytes are naturals; a transaction is one token of a block's body, above *)
(* any byte.  A header is a record, its fields being of fixed length, and  *)
(* its version the set of its one bits.  SHA256d is taken to be injective: *)
(* a hash is what was hashed.                                              *)
(***************************************************************************)
EXTENDS CashAddr, FiniteSets

CONSTANTS Template,      \* templates the node may give
          Wallet,        \* who has addresses: [type, hash]
          Username,      \* addresses miners authorize with
          Mask,          \* bits of VERSION_ROLLING_MASK
          Nonce,         \* nonces the miner may find
          Spelling,      \* ways to write hex digits: the case of their letters
          Firmware,      \* how miners may use rolled bits
          NoJob,
          MaxFound       \* bound: shares found on one job

\* A height is a signed 32-bit integer of the node.
MaxHeight == 2147483647
\* The block size is reached long before a count of transactions takes four bytes.
MaxTxs == 16777215

WholeWords(s) == s \in Seq(Nat) /\ Len(s) % 4 = 0

\* Past height 16, where heights stop being opcodes.
Mineable(g) ==
  /\ g.height \in Nat /\ g.height > 16 /\ g.height <= MaxHeight
  /\ g.value \in Nat
  /\ g.txs \in Seq(Nat) /\ 1 + Len(g.txs) <= MaxTxs
  /\ WholeWords(g.previousblockhash)

\* What the tables of the encoding have a place for.
Encodable(wallet) ==
  /\ wallet.type \in {KIND[k] : k \in DOMAIN KIND}
  /\ wallet.hash \in Seq(0..255)
  /\ Len(wallet.hash) \in {SIZE[s] : s \in DOMAIN SIZE}

ASSUME TemplateAssumption == \A g \in Template : Mineable(g)
ASSUME WalletAssumption == \A w \in Wallet : Encodable(w)

\* A right checksum is that of an address somebody's wallet wrote.
ASSUME UsernameAssumption ==
  \A a \in Username :
    a.sum = polymod(a.prefix, a.data) =>
      \E w \in Wallet : a = encode(a.prefix, w.type, w.hash)

VARIABLES
  source,    \* the current job, or NoJob
  payouts,   \* job_payouts of it: the scripts it was sent with
  wires,     \* the mining.notify messages of it
  firmware,  \* of the miner: "fixed", "bip310", "whole", "xor", "silent" or "sparing"
  rolling,   \* version_mask is set
  seen,      \* seen_shares of it
  found,     \* what the miner has found and submitted, and how it was spelled
  last       \* the last submit and what became of it

vars == <<source, payouts, wires, firmware, rolling, seen, found, last>>

-----------------------------------------------------------------------------
(* Encodings. *)

Reversed(s) == [i \in 1..Len(s) |-> s[Len(s) + 1 - i]]
Filled(n, b) == [i \in 1..n |-> b]

\* word_swap: each group of four bytes reversed.
word_swap(s) == [i \in 1..Len(s) |-> s[4 * ((i - 1) \div 4) + 4 - ((i - 1) % 4)]]

\* n.to_bytes(k, "little")
Little(n, k) ==
  LET shifted[i \in 1..k] == IF i = 1 THEN n ELSE shifted[i - 1] \div 256
  IN  [i \in 1..k |-> shifted[i] % 256]

\* encode_varint, up to what TLC's integers hold.
encode_varint(n) ==
  IF n < 253 THEN <<n>>
  ELSE IF n <= 65535 THEN <<253>> \o Little(n, 2)
  ELSE <<254>> \o Little(n, 4)

\* script_num: as few bytes as n takes, and one more if it would look negative.
script_num(n) ==
  IF n = 0 THEN <<>>
  ELSE LET out == Little(n, 1 + Cardinality({i \in 1..3 : n \div 256^i > 0}))
       IN  IF out[Len(out)] >= 128 THEN Append(out, 0) ELSE out

bip34_height_push(height) ==
  LET enc == script_num(height) IN <<Len(enc)>> \o enc

-----------------------------------------------------------------------------
(* Merkle trees. *)

None == <<>>
Hash(l, r) == <<l, r>>

\* The last element twice if there is an odd number.
Evened(f) == IF Len(f) % 2 = 1 THEN Append(f, f[Len(f)]) ELSE f

\* The layers of a tree, each made of the one below until one hash is left.
Layers(leaves, Above(_)) ==
  LET layer[k \in Nat] == IF k = 0 THEN leaves ELSE Above(layer[k - 1])
      top == CHOOSE k \in 0..Len(leaves) :
               Len(layer[k]) = 1 /\ \A j \in 0..(k - 1) : Len(layer[j]) > 1
  IN  [k \in 1..(top + 1) |-> layer[k - 1]]

\* merkle_root_full
Paired(f) ==
  LET e == Evened(f) IN [i \in 1..(Len(e) \div 2) |-> Hash(e[2 * i - 1], e[2 * i])]

merkle_root_full(leaves) ==
  LET layers == Layers(leaves, Paired) IN layers[Len(layers)][1]

\* (mutant) An odd last hash is paired with the first of its layer.
WithoutTwin(f) ==
  LET e == IF Len(f) % 2 = 1 THEN Append(f, f[2]) ELSE f
  IN  <<None>> \o [i \in 1..(Len(e) \div 2 - 1) |-> Hash(e[2 * i + 1], e[2 * i + 2])]

\* merkle_branch: the same tree with the coinbase, its first leaf, unknown.
PairedBeside(f) ==
  LET e == Evened(f)
  IN  <<None>> \o [i \in 1..(Len(e) \div 2 - 1) |-> Hash(e[2 * i + 1], e[2 * i + 2])]

merkle_branch(txids) ==
  LET layers == Layers(<<None>> \o txids, PairedBeside)
  IN  [k \in 1..(Len(layers) - 1) |-> Evened(layers[k])[2]]

\* merkle_root
merkle_root(coinbase_hash, branch) ==
  LET root[k \in 0..Len(branch)] ==
        IF k = 0 THEN coinbase_hash ELSE Hash(root[k - 1], branch[k])
  IN  root[Len(branch)]

-----------------------------------------------------------------------------
(* Coinbase, template and mock job. *)

EXTRANONCE1_SIZE == 4
EXTRANONCE2_SIZE == 4
COINBASE_TAG == Filled(15, 47)
Extranonce1 == <<222, 173, 190, 239>>    \* of this connection
Extranonce2(n) == Filled(EXTRANONCE2_SIZE, n)

\* (mutant) The script length leaves the tag out.
UntaggedLength(push) == Len(push) + EXTRANONCE1_SIZE + EXTRANONCE2_SIZE

ScriptSigLen(push) ==
  Len(push) + EXTRANONCE1_SIZE + EXTRANONCE2_SIZE + Len(COINBASE_TAG)

\* build_coinbase_parts: before the extranonces, and after them.
build_coinbase_parts(height, value, script) ==
  LET push == bip34_height_push(height)
  IN  [c1 |-> Little(2, 4) \o encode_varint(1) \o Filled(32, 0) \o Filled(4, 255)
              \o encode_varint(ScriptSigLen(push)) \o push,
       c2 |-> COINBASE_TAG \o Filled(4, 255) \o encode_varint(1)
              \o Little(value, 8) \o encode_varint(Len(script)) \o script
              \o Filled(4, 0)]

assemble(parts, en1, en2) == parts.c1 \o en1 \o en2 \o parts.c2

\* What a node gives for a transaction: its data, and its id as displayed.
Txid(tx) == <<tx, 0>>
DisplayId(tx) == Reversed(Txid(tx))

\* BlockTemplate.__init__
BlockTemplate(g) ==
  LET internal == Reversed(g.previousblockhash)
  IN  [real |-> TRUE, height |-> g.height, value |-> g.value, version |-> g.version,
       prevhash |-> internal, notify |-> word_swap(internal), txs |-> g.txs,
       branch |-> merkle_branch([i \in 1..Len(g.txs) |-> Reversed(DisplayId(g.txs[i]))])]

\* MockJob.__init__: a job without height, fees or payout.
MockPrev == <<9, 8, 7, 6, 5, 4, 3, 2>>
MockParts ==
  [c1 |-> Little(1, 4) \o <<1>> \o Filled(32, 0) \o Filled(4, 255) \o <<8>>,
   c2 |-> Filled(4, 255) \o <<1>> \o Filled(8, 0) \o <<25, 118, 169, 20>>
          \o Filled(20, 0) \o <<136, 172>> \o Filled(4, 0)]
MockJob ==
  [real |-> FALSE, height |-> 0, value |-> 0, version |-> {29}, prevhash |-> MockPrev,
   notify |-> word_swap(MockPrev), txs |-> <<>>, branch |-> <<>>]

\* coinb1_coinb2 of a template; a mock job always has the same two.
Parts(src, script) ==
  IF src.real THEN build_coinbase_parts(src.height, src.value, script)
  ELSE MockParts

\* notify_params
Notify(src, script) ==
  [prev |-> src.notify, parts |-> Parts(src, script), branch |-> src.branch,
   version |-> src.version]

Header(version, prev, root, nonce) ==
  [version |-> version, prev |-> prev, root |-> root, nonce |-> nonce]

\* header, and build_header_hash of a mock job
HeaderOf(src, coinbase, version, nonce) ==
  Header(version, src.prevhash, merkle_root(coinbase, src.branch), nonce)

-----------------------------------------------------------------------------
(* The miner. *)

Xor(a, b) == (a \ b) \union (b \ a)

\* The bits it may roll.  One kind agrees on a mask and never uses it.
Rollable == IF rolling /\ firmware # "silent" THEN SUBSET Mask ELSE {{}}

\* The version it hashes when it rolls these bits.
MinerVersion(base, bits) ==
  IF ~rolling \/ firmware = "silent" THEN base
  ELSE IF firmware = "xor" THEN Xor(base, bits)
  ELSE (base \ Mask) \union bits

\* What it reports of it, as the sixth parameter of its submit: the bits, or all
\* of its version, or no parameter at all -- never, or when its version is the
\* job's anyway.
Reported(base, bits) ==
  IF firmware = "silent" THEN <<>>
  ELSE IF firmware = "sparing" /\ MinerVersion(base, bits) = base THEN <<>>
  ELSE IF firmware = "whole" THEN <<MinerVersion(base, bits)>>
  ELSE <<bits>>

\* Each step of the branch is hashed onto the coinbase.
MinerRoot(wire, coinbase) ==
  LET step[k \in 0..Len(wire.branch)] ==
        IF k = 0 THEN coinbase ELSE <<step[k - 1], wire.branch[k]>>
  IN  step[Len(wire.branch)]

\* It reads the previous hash word by word.
MinerPrev(w) ==
  [i \in 1..Len(w) |-> LET word == (i - 1) \div 4 IN w[4 * word + 4 - (i - 1 - 4 * word)]]

Mined(wire, n, bits) ==
  LET coinbase == wire.parts.c1 \o Extranonce1 \o Extranonce2(n) \o wire.parts.c2
  IN  [coinbase |-> coinbase,
       header |-> Header(MinerVersion(wire.version, bits), MinerPrev(wire.prev),
                         MinerRoot(wire, coinbase), n)]

-----------------------------------------------------------------------------
(* on_submit. *)

\* Version bits count if they were agreed on and reported.
Rolls(reported) == rolling /\ reported # <<>>

\* (mutant) Bits outside the mask are kept.
Unmasked(reported) == IF Rolls(reported) THEN reported[1] ELSE {}

\* rolled_bits: whatever the miner reports, only the bits of the mask count.
RolledBits(reported) == IF Rolls(reported) THEN reported[1] \intersect Mask ELSE {}

\* (mutant) Only what BIP310 says.
Bip310Only(base, reported) ==
  IF Rolls(reported) THEN <<(base \ Mask) \union RolledBits(reported)>> ELSE <<base>>

\* The versions a submit may mean.
Versions(base, reported) ==
  IF ~Rolls(reported) THEN <<base>>
  ELSE LET bip310 == (base \ Mask) \union RolledBits(reported)
           xor == Xor(base, RolledBits(reported))
       IN  IF xor = bip310 THEN <<bip310>> ELSE <<bip310, xor>>

\* (mutant) The rolled bits are left out.
NonceOnly(n, spelled, bits) == <<n, spelled, {}>>

\* What makes two submits the same work: extranonce2, ntime and nonce as they
\* were spelled, and the rolled bits as a number.
ShareKey(n, spelled, bits) == <<n, spelled, bits>>

\* One rebuilt share for each payout and each version.
Halves(src, pays) ==
  IF src.real THEN {Parts(src, pays[i]) : i \in 1..Len(pays)} ELSE {MockParts}

Rebuilt(src, parts, v, n) ==
  LET coinbase == assemble(parts, Extranonce1, Extranonce2(n))
  IN  [coinbase |-> coinbase, header |-> HeaderOf(src, coinbase, v, n)]

Candidates(src, pays, n, reported) ==
  LET versions == Versions(src.version, reported)
  IN  {Rebuilt(src, parts, versions[i], n) : parts \in Halves(src, pays),
                                             i \in 1..Len(versions)}

\* The one with the lowest hash: the miner's, if it is there, for its hash is
\* low and the others' are random.
Lowest(cands, mined) == IF mined \in cands THEN mined ELSE CHOOSE c \in cands : TRUE

\* serialize_block: the node is sent a header and a body.
serialize_block(header, coinbase, txs) ==
  [header |-> header, body |-> encode_varint(1 + Len(txs)) \o coinbase \o txs]

Quiet == [answer |-> "none"]

-----------------------------------------------------------------------------
(* Actions. *)

Init ==
  /\ source = NoJob /\ payouts = <<>> /\ wires = {}
  /\ firmware \in Firmware /\ rolling = FALSE
  /\ seen = {} /\ found = {} /\ last = Quiet

\* on_configure: the miner asks for version rolling, which firmware does before
\* it authorizes and so before it is sent a job.
Configure ==
  /\ firmware # "fixed" /\ source = NoJob
  /\ rolling' = TRUE
  /\ UNCHANGED <<source, payouts, wires, firmware, seen, found, last>>

\* A job replaces the one before, whose shares are no longer followed here: what
\* a job leads to does not depend on the one it replaced, so it is enough to
\* replace jobs on which nothing has been found.
Install(src) ==
  /\ found = {}
  /\ source' = src
  /\ payouts' = <<>> /\ wires' = {}
  /\ UNCHANGED <<firmware, rolling, seen, found, last>>

InstallReal == \E g \in Template : Install(BlockTemplate(g))
InstallMock == Install(MockJob)

\* _remember_payout; there are no more scripts than MAX_PAYOUTS_PER_JOB.
Remembered(pays, script) ==
  IF \E i \in 1..Len(pays) : pays[i] = script THEN pays ELSE Append(pays, script)

\* What each of the addresses locks to.
Script == [address \in Username |-> to_script(address)]

\* on_authorize, for the first time or with another address, and with it
\* send_current_job.  An address without a script is refused.
Authorize(address) ==
  LET script == Script[address]
  IN  /\ source # NoJob /\ script # Bad
      /\ payouts' = IF source.real THEN Remembered(payouts, script) ELSE payouts
      /\ wires' = wires \union {Notify(source, script)}
      /\ UNCHANGED <<source, firmware, rolling, seen, found, last>>

\* A nonce that solves one coinbase does not solve another.
Solves(share, n) ==
  \A f \in found : f.work.header.nonce = n => f.work.coinbase = share.coinbase

\* The miner finds nonce n rolling these bits on a job it was sent, and submits
\* it; solved says whether the hash meets the network's target.
Submit(wire, n, spelled, rolled, solved) ==
  LET mined == Mined(wire, n, rolled)
      reported == Reported(wire.version, rolled)
      key == ShareKey(n, spelled, RolledBits(reported))
      lowest == Lowest(Candidates(source, payouts, n, reported), mined)
  IN  /\ Cardinality(found) < MaxFound /\ Solves(mined, n)
      /\ found' = found \union {[work |-> mined, spelled |-> spelled]}
      /\ IF key \in seen
         THEN /\ last' = [answer |-> "duplicate", mined |-> mined, spelled |-> spelled,
                          before |-> found]
              /\ UNCHANGED seen
         ELSE /\ seen' = seen \union {key}
              /\ last' = [answer |-> "rebuilt", mined |-> mined, spelled |-> spelled,
                          lowest |-> lowest, before |-> found,
                          block |-> IF source.real /\ solved /\ lowest = mined
                                    THEN {serialize_block(lowest.header, lowest.coinbase,
                                                          source.txs)}
                                    ELSE {}]
      /\ UNCHANGED <<source, payouts, wires, firmware, rolling>>

SubmitShare ==
  \E wire \in wires, n \in Nonce, spelled \in Spelling, rolled \in Rollable :
    \E solved \in BOOLEAN : Submit(wire, n, spelled, rolled, solved)

Next ==
  \/ Configure
  \/ InstallReal
  \/ InstallMock
  \/ \E a \in Username : Authorize(a)
  \/ SubmitShare

Spec == Init /\ [][Next]_vars

-----------------------------------------------------------------------------
(* What the others read. *)

\* Past its end a string has nothing to read.
At(b, i) == IF i \in 1..Len(b) THEN b[i] ELSE 0
Slice(b, i, j) == SubSeq(b, i, IF j < Len(b) THEN j ELSE Len(b))

\* A varint at i: its value, and where the next field begins.
ReadVarint(b, i) ==
  IF At(b, i) < 253 THEN [n |-> At(b, i), next |-> i + 1]
  ELSE IF At(b, i) = 253 THEN [n |-> At(b, i + 1) + 256 * At(b, i + 2), next |-> i + 3]
  ELSE [n |-> At(b, i + 1) + 256 * (At(b, i + 2) + 256 * At(b, i + 3)), next |-> i + 5]

\* The fields of a coinbase that begins at i: one input, one output.
ReadCoinbase(b, i) ==
  LET ins == ReadVarint(b, i + 4)
      sig == ReadVarint(b, ins.next + 36)
      outs == ReadVarint(b, sig.next + sig.n + 4)
      pk == ReadVarint(b, outs.next + 8)
  IN  [inputs |-> ins.n, outputs |-> outs.n,
       prevout |-> Slice(b, ins.next, ins.next + 35),
       scriptSig |-> Slice(b, sig.next, sig.next + sig.n - 1),
       sequence |-> Slice(b, sig.next + sig.n, sig.next + sig.n + 3),
       value |-> Slice(b, outs.next, outs.next + 7),
       script |-> Slice(b, pk.next, pk.next + pk.n - 1),
       next |-> pk.next + pk.n + 4]

WellFormed(tx) ==
  /\ tx.inputs = 1 /\ tx.outputs = 1
  /\ tx.prevout = Filled(32, 0) \o Filled(4, 255)
  /\ Len(tx.scriptSig) \in 2..100
  /\ tx.sequence = Filled(4, 255)

\* The locking script of a wallet: of a key by the 20 bytes of its hash, of a
\* script by 20 or 32; addresses that can receive tokens lock alike.
LockedBy(script, wallet) ==
  \/ /\ wallet.type \in {"p2pkh", "p2pkh-tokens"} /\ Len(wallet.hash) = 20
     /\ script = <<118, 169, 20>> \o wallet.hash \o <<136, 172>>
  \/ /\ wallet.type \in {"p2sh", "p2sh-tokens"} /\ Len(wallet.hash) = 20
     /\ script = <<169, 20>> \o wallet.hash \o <<135>>
  \/ /\ wallet.type \in {"p2sh", "p2sh-tokens"} /\ Len(wallet.hash) = 32
     /\ script = <<170, 32>> \o wallet.hash \o <<135>>

\* A script number: little-endian, the top bit of the last byte its sign, and
\* no shorter way to write it.
IsScriptNum(s, n) ==
  LET value[k \in 0..Len(s)] ==
        IF k = 0 THEN 0 ELSE s[Len(s) + 1 - k] + 256 * value[k - 1]
      top == s[Len(s)]
  IN  /\ s # <<>> /\ top < 128 /\ value[Len(s)] = n
      /\ top = 0 => Len(s) > 1 /\ s[Len(s) - 1] >= 128

StartsWithHeight(sig, height) ==
  /\ sig[1] \in 1..(Len(sig) - 1)
  /\ IsScriptNum(SubSeq(sig, 2, 1 + sig[1]), height)

-----------------------------------------------------------------------------
(* Properties. *)

\* Every variable has its type.
TypeOK ==
  /\ source = NoJob \/ source = MockJob
     \/ \E g \in Template : g.txs = source.txs /\ g.height = source.height
  /\ payouts \in Seq(Seq(0..255))
  /\ firmware \in Firmware /\ rolling \in BOOLEAN
  /\ seen \subseteq Nonce \X Spelling \X SUBSET Mask
  /\ last.answer \in {"none", "duplicate", "rebuilt"}

\* Every mining.notify, of a template or of a mock job, carries two halves that
\* with the extranonces between them parse to the last byte as one coinbase:
\* every length field is consistent (job_manager.py:62-66, coinbase.py:61-86).
MinerReadsCoinbase ==
  \A wire \in wires : \A n \in Nonce :
    LET raw == wire.parts.c1 \o Extranonce1 \o Extranonce2(n) \o wire.parts.c2
        tx == ReadCoinbase(raw, 1)
    IN  /\ tx.next = Len(raw) + 1
        /\ WellFormed(tx)

\* Whatever payout the miner worked for and whichever way its firmware rolls the
\* version, the header the server goes on with is the one the miner hashed
\* (stratum.py:650-667 and 714-717).
WorkRebuilt == last.answer = "rebuilt" => last.lowest = last.mined

\* "Rolled version bits are part of the identity: the same nonce under different
\* version bits is distinct work" (stratum.py:670): a submit is refused as a
\* duplicate if that header was submitted before and is spelled the same, and
\* only then, however the miner reports its bits.  A miner that leaves out the
\* parameter is the exception: the job's version, not reported, has the same key
\* as the version without any bit of the mask.
Unreported(one, other) ==
  /\ firmware = "sparing"
  /\ other = [one EXCEPT !.header.version = other.header.version]
  /\ {one.header.version, other.header.version} = {source.version, source.version \ Mask}
DuplicateIsSameWork ==
  /\ last.answer = "duplicate" =>
       \E f \in last.before :
         /\ f.spelled = last.spelled
         /\ f.work = last.mined \/ Unreported(f.work, last.mined)
  /\ last.answer = "rebuilt" =>
       \A f \in last.before : ~(f.work = last.mined /\ f.spelled = last.spelled)

\* A block that goes to submitblock is one the node can take: it parses into as
\* many transactions as it says, its coinbase begins with the height and pays
\* the template's value to a wallet, and to no mistyped address, its header
\* names the node's tip and the root of the tree of all its transactions.
NodeTakesBlock ==
  last.answer = "rebuilt" =>
    \A block \in last.block :
      LET body == block.body
          count == ReadVarint(body, 1)
          tx == ReadCoinbase(body, count.next)
          coinbase == Slice(body, count.next, tx.next - 1)
          rest == SubSeq(body, tx.next, Len(body))
      IN  /\ count.n = 1 + Len(rest)
          /\ WellFormed(tx) /\ StartsWithHeight(tx.scriptSig, source.height)
          /\ tx.value = Little(source.value, 8)
          /\ \E w \in Wallet : LockedBy(tx.script, w)
          /\ \E g \in Template :
               /\ g.height = source.height /\ g.version = source.version
               /\ rest = g.txs
               /\ block.header.prev = Reversed(g.previousblockhash)
          /\ block.header.root =
               merkle_root_full(<<coinbase>> \o [i \in 1..Len(rest) |-> Txid(rest[i])])
=============================================================================
