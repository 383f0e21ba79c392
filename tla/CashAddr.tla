------------------------------- MODULE CashAddr -------------------------------
(***************************************************************************)
(* cashaddr.py: from the address a miner authorizes with to the script its *)
(* blocks pay.  An address is its prefix, its payload as numbers below 32, *)
(* and its checksum, which is taken to tell any two payloads apart: the    *)
(* term of what it was computed from.                                      *)
(***************************************************************************)
EXTENDS Integers, Sequences

Bad == <<>>         \* CashAddrError

SIZE == <<20, 24, 28, 32, 40, 48, 56, 64>>
KIND == <<"p2pkh", "p2sh", "p2pkh-tokens", "p2sh-tokens">>

polymod(prefix, data) == <<prefix, data>>

\* The bits of numbers of a given width, and from them numbers of another; past
\* the end the bits are zero.
Bit(data, width, j) ==
  IF j < width * Len(data)
    THEN (data[j \div width + 1] \div 2^(width - 1 - (j % width))) % 2 ELSE 0
Regrouped(data, from, to, n) ==
  LET Value(i) == LET acc[k \in 0..to] ==
                        IF k = 0 THEN 0
                        ELSE 2 * acc[k - 1] + Bit(data, from, (i - 1) * to + k - 1)
                  IN  acc[to]
  IN  [i \in 1..n |-> Value(i)]

\* _convertbits: with pad a rest of bits makes one number more, without it must
\* be the zeros such padding leaves.
convertbits(data, from, to, pad) ==
  LET bits == from * Len(data)
      whole == bits \div to
      rest == bits % to
      clear == \A j \in (whole * to)..(bits - 1) : Bit(data, from, j) = 0
  IN  IF pad THEN Regrouped(data, from, to, IF rest > 0 THEN whole + 1 ELSE whole)
      ELSE IF rest < from /\ clear THEN Regrouped(data, from, to, whole)
      ELSE Bad

\* encode, as wallets do; kind and size are found in the tables.
encode(prefix, type, hash) ==
  LET kind == CHOOSE k \in DOMAIN KIND : KIND[k] = type
      size == CHOOSE s \in DOMAIN SIZE : SIZE[s] = Len(hash)
      data == convertbits(<<8 * (kind - 1) + (size - 1)>> \o hash, 8, 5, TRUE)
  IN  [prefix |-> prefix, data |-> data, sum |-> polymod(prefix, data)]

decode(address) ==
  LET decoded == convertbits(address.data, 5, 8, FALSE)
      version == decoded[1]
      kind == (version \div 8) % 16
      hash == Tail(decoded)
  IN  IF \/ address.sum # polymod(address.prefix, address.data)
         \/ decoded = Bad
         \/ version >= 128
         \/ Len(hash) # SIZE[(version % 8) + 1]
         \/ kind + 1 \notin DOMAIN KIND
      THEN Bad ELSE [type |-> KIND[kind + 1], hash |-> hash]

\* to_script
to_script(address) ==
  LET d == decode(address)
  IN  IF d = Bad THEN Bad
      ELSE IF d.type \in {"p2pkh", "p2pkh-tokens"}
        THEN IF Len(d.hash) = 20
             THEN <<118, 169, 20>> \o d.hash \o <<136, 172>> ELSE Bad
      ELSE CASE Len(d.hash) = 20 -> <<169, 20>> \o d.hash \o <<135>>
             [] Len(d.hash) = 32 -> <<170, 32>> \o d.hash \o <<135>>
             [] OTHER -> Bad
=============================================================================
