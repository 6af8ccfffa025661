----------------------------- MODULE MCLightControl -----------------------------
(***************************************************************************)
(* Small instances of the light handlers: a white, a temperature and a     *)
(* colour lamp, two colours that an xy_inc turns into each other, and      *)
(* bodies for each way through updateLightState.                           *)
(***************************************************************************)
EXTENDS LightControl

CONSTANTS r1, r2, bulb, spot, strip, rgb1, rgb2, turn, stub

MCType == [l \in {bulb, spot, strip} |->
             CASE l = bulb -> "white" [] l = spot -> "temperature" [] l = strip -> "rgb"]
MCToHS == [c \in {rgb1, rgb2} |-> IF c = rgb1 THEN <<0, 10>> ELSE <<200, 90>>]
MCShiftHS == [p \in ({0, 200} \X {0, 10, 90, 100}) \X {turn} |-> <<200 - p[1][1], 100 - p[1][2]>>]

Found1(l, on) ==
    CASE l = bulb  -> [on |-> on, brightness |-> 50]
      [] l = spot  -> [on |-> on, brightness |-> 50, colorTemperature |-> 200]
      [] l = strip -> [on |-> on, brightness |-> 50, hue |-> 0, saturation |-> 10]
MCAsFound == {[l \in Light |-> Found1(l, on)] : on \in {0, 1}}

AllBodies == { <<>>,
               [on |-> TRUE], [on |-> FALSE],
               [bri |-> 254, bri_inc |-> -30], [bri_inc |-> 30],
               [on |-> TRUE, ct |-> 366, ct_inc |-> 1], [on |-> FALSE, ct_inc |-> -50],
               [on |-> TRUE, xy |-> rgb2, bri |-> 1], [xy_inc |-> turn, on |-> FALSE],
               [on |-> TRUE, hue |-> 1] }

(* For two clients at once at one lamp; a stub is an array of one number   *)
RacingBodies == { [on |-> TRUE, bri |-> 254], [on |-> FALSE, bri_inc |-> -30],
                  [xy |-> rgb2, on |-> FALSE], [xy_inc |-> turn],
                  [on |-> TRUE, xy |-> stub], [xy_inc |-> stub, bri |-> 1] }
FewBodies == { [on |-> TRUE], [on |-> FALSE], [bri |-> 254] }

Bulb == {bulb}
Strip == {strip}
AllLights == {bulb, spot, strip}
OneRequest == {r1}
TwoRequests == {r1, r2}
NoLight == {}
================================================================================
