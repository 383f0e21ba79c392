--------------------------- MODULE MCDiagnostics ---------------------------
(***************************************************************************)
(* Four of the thirteen checks, in their order: the ones whose verdict     *)
(* depends on the disk, on the node and on the counters.  The runner treats*)
(* every check alike, and two before "shares" and one after it are enough  *)
(* for a stop or a failure at the first, an inner and the last one.        *)
(***************************************************************************)
EXTENDS Diagnostics
MCChecks == <<"datadir", "sync", "shares", "rejects">>
=============================================================================
