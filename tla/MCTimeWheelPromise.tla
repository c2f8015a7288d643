------------------------ MODULE MCTimeWheelPromise --------------------------
(* TimeWheelPromise on a wheel of 3 slots with delays of 1, 2 and 4 ticks. *)
EXTENDS TimeWheelPromise

MCDelay == {2, 4, 8}
=============================================================================
