--------------------------- MODULE MCBlockSubmit ---------------------------
(* Model-checking instances of BlockSubmit. *)
EXTENDS BlockSubmit, TLC

BlockSymmetry == Permutations(Block)
=============================================================================
