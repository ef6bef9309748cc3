--------------------------- MODULE MCChannelStatus ---------------------------
(* Two configurations of two channels.                                      *)
EXTENDS ChannelStatus

Wide == [type |-> "plain", comp |-> 0, group |-> 0, step_delta |-> 2,
         over_min |-> 0, over_max |-> 3, min_range |-> 0, max_range |-> 2]

\* a cold junction, measured before the thermocouple that uses it
Junction == <<Wide, [Wide EXCEPT !.type = "B", !.comp = 1]>>

\* the two channels form a group, the first one is calibrated
Pair == <<[Wide EXCEPT !.type = "line", !.group = 1], [Wide EXCEPT !.group = 1]>>

TwoConfigs == {Junction, Pair}

SmallValues == {-1, 1, 3}
SmallOpen == -1
SmallReadings == {-1, 0, 1, 3}

\* a small stand-in for the polynomial: a sum, or no number
SmallB(mv, cold) ==
  IF cold = NaN THEN mv
  ELSE IF mv + cold \in SmallReadings THEN mv + cold ELSE NaN
=============================================================================
