------------------------------ MODULE MCJamTap ------------------------------
(***************************************************************************)
(* JamTap with words of two bits and registers of two.                     *)
(***************************************************************************)
EXTENDS JamTap

DRCaptureValue == <<0, 1>>
IRCaptureValue == <<1, 0>>
PowerUpValue == {DRSHIFT, IREXIT1}
PatternsValue == {<<>>, <<0, 1>>}
StopValue == {RESET, DRPAUSE, IRPAUSE}
TargetValue == 0..15
EndValue == {IDLE, IRPAUSE}
WaitValue == {IDLE, DRPAUSE, DRCAPTURE}
PaddingsValue ==
    {[count |-> 1, start |-> 1, data |-> <<0, 1>>],
     [count |-> 3, start |-> 2, data |-> <<0, 0, 0, 1, 1>>]}
CountsValue == {<<1, 2, 0, 3>>}
ComparedValue ==
    {[expected |-> <<1>>, mask |-> <<1>>], [expected |-> <<0, 1>>, mask |-> <<0, 1>>]}

=============================================================================
