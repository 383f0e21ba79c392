---------------------------- MODULE MCWorkBuilding ----------------------------
(* Templates at the boundaries of each encoding, one dimension at a time. *)
EXTENDS WorkBuilding, TLC

MCMask == {13, 28}

PrevHash == <<1, 2, 3, 4, 5, 6, 7, 8>>
Given(height, count, version) ==
  [height |-> height, value |-> 312500000, version |-> version,
   txs |-> [i \in 1..count |-> 1000 + i], previousblockhash |-> PrevHash]

\* Heights around each number of bytes and each sign bit; 17 is the first that
\* is not pushed by an opcode of its own.
Heights == {17, 127, 128, 255, 256, 32767, 32768, 65535, 65536, 800123,
            8388607, 8388608}
\* Trees of every shape up to three layers of hashes, and counts around one varint byte.
Counts == 0..8 \union {252}
\* Without, with one and with every bit inside the mask.
Versions32 == {{29}, {29, 13}, {29, 13, 28}}

MCTemplate ==
  {Given(h, 1, {29}) : h \in Heights} \union {Given(800123, c, {29}) : c \in Counts}
  \union {Given(800123, 2, v) : v \in Versions32}

\* Neither way of spelling is special.
Letters == Permutations(Spelling)

\* Two that can be paid, and two with a hash no script is made for.
MCWallet == {[type |-> "p2pkh", hash |-> Filled(20, 1)],
             [type |-> "p2sh-tokens", hash |-> Filled(32, 2)],
             [type |-> "p2pkh", hash |-> Filled(32, 3)],
             [type |-> "p2sh", hash |-> Filled(24, 4)]}

\* Besides the wallets' own: addresses with one symbol mistyped.
Written(w) == encode("bitcoincash", w.type, w.hash)
MCUsername ==
  {Written(w) : w \in MCWallet}
  \union {[Written(w) EXCEPT !.data[9] = (@ + 1) % 32] : w \in MCWallet}
=============================================================================
