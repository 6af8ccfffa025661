-------------------------------- MODULE MCDimmer --------------------------------
(* The dimmer with steps around the rounding of the scales.                *)
EXTENDS Dimmer

MCLow == -60
MCSteps == {-254, -30, -4, -3, -2, -1, 1, 2, 3, 4, 30, 254}
================================================================================
