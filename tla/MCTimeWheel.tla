----------------------------- MODULE MCTimeWheel -----------------------------
(* Instances of TimeWheel for TLC.                                         *)
EXTENDS TimeWheel, TLC

(* Delays of 0 (below one interval), 1, 2, 3, 4 and 7 ticks on wheels of 3 *)
(* slots: on the hand's own slot, within a revolution, at its boundary,    *)
(* and beyond two of them.  -1 is rejected by the argument check.          *)
MCDelay == {-1, 1, 2, 5, 6, 8, 14}
MCDelaySmall == {-1, 1, 4, 8}
Symmetry == Permutations(Addr)
=============================================================================
