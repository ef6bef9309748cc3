---------------------------- MODULE MCCalibration ----------------------------
(* Floats of two bytes; printing rounds the last byte of some.  Either      *)
(* offset may be without a place, and both may share one.                   *)
EXTENDS Calibration

TwoDigits(f) == IF f = [p \in 1 .. Parts |-> 1] THEN [f EXCEPT ![Parts] = 0] ELSE f
AnyPlacement == {<<1, 2>>, <<1, 1>>, <<0, 2>>, <<1, 0>>, <<0, 0>>}
=============================================================================
