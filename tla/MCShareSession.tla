--------------------------- MODULE MCShareSession ---------------------------
(* Model-checking instances of ShareSession. *)
EXTENDS ShareSession, TLC

MCSettings == {[diff |-> 1, auto |-> TRUE], [diff |-> 2, auto |-> FALSE]}

NameSymmetry == Permutations(Payout) \cup Permutations(Tip) \cup Permutations(Key)
=============================================================================
