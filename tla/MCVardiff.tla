----------------------------- MODULE MCVardiff -----------------------------
(* Vardiff with the constants of stratum.py, counted in ticks of 15 s.      *)
EXTENDS Vardiff

TargetSpm == 20 \div 4      \* vardiff_target_spm, 20 a minute by default
VardiffWindow == 120 \div 15
VardiffMinWindow == 30 \div 15
VardiffInterval == 45 \div 15

\* Too slow for the floor, in the range, near and beyond the ceiling.
Miners == {20, 100, 1800, 12000}
=============================================================================
