--------------------------------- MODULE Dimmer ---------------------------------
(***************************************************************************)
(* One lamp dimmed up and down by "bri_inc" requests, each answered before *)
(* the next is sent: what the rounding of the two scales adds up to.       *)
(***************************************************************************)
EXTENDS Converters, TLAPS

CONSTANTS Low, High,   \* bounds of the levels explored
          Steps        \* the increments clients send

ASSUME DimmerAssumption == /\ Low \in Int /\ High \in Int /\ Low <= 0 /\ 100 <= High
                           /\ Steps \subseteq Int

VARIABLES level,   \* the brightness of the lamp, in Hemtjanst's scale
          inc      \* the increment of the last request

vars == <<level, inc>>

TypeOK == level \in Low..High /\ inc \in Steps \cup {0}

(* The lamp reports a level of its scale.                                  *)
Init == level \in 0..100 /\ inc = 0

(* The bridge hands on whatever comes out, also outside the scale.         *)
BrightnessInc(d) ==
    /\ Dimmed(level, d) \in Low..High
    /\ level' = Dimmed(level, d)
    /\ inc' = d

(* Mutants of WriteBack: only one of the conversions is made ...           *)
WriteBackRaw ==
    /\ level' = ToPhilipsBrightness(level)
    /\ inc' = 0

(* ... and both are, in the wrong order.                                   *)
WriteBackSwapped ==
    /\ level' = ToPhilipsBrightness(ToHemtjanstBrightness(level))
    /\ inc' = 0

(* PUT .../state with the "bri" a GET of the light shows                   *)
WriteBack ==
    /\ level' = ToHemtjanstBrightness(ToPhilipsBrightness(level))
    /\ inc' = 0

Next == WriteBack \/ \E d \in Steps : BrightnessInc(d)

Spec == Init /\ [][Next]_vars

(* Dimming up never makes the lamp darker and dimming down never makes it  *)
(* brighter, whatever the two conversions round away on the way.           *)
GoesItsWay == /\ inc' > 0 => level' >= level
              /\ inc' < 0 => level' <= level
StepsGoTheirWay == [][GoesItsWay]_vars

(* Any step down shows on a lamp that is not at 0 yet, and any step up of  *)
(* four or more does: a client that keeps dimming reaches either end.  Up  *)
(* by one to three may round away, and the lamp then never moves.          *)
Shows == /\ inc' >= 4 => level' > level
         /\ inc' < 0 /\ level >= 1 => level' < level
StepsShow == [][Shows]_vars

(* Writing back what was read changes the level by one at most, and never  *)
(* makes a lamp that is within the scale brighter.                         *)
Close == inc' = 0 /\ level \in 0..100 => level' \in {level - 1, level}
WriteBackIsClose == [][Close]_vars

------------------------------------------------------------------------------
(* What the two conversions and their composition do, for every integer,   *)
(* and with it the properties above.                                       *)

(* Every level of the lamp's scale is one of the Hue scale 1..254.         *)
LEMMA PhilipsRange ==
    ASSUME NEW i \in 0..100
    PROVE  ToPhilipsBrightness(i) \in 1..254
BY DEF GoDiv, ToPhilipsBrightness

(* Every level of the Hue scale is one of the lamp's, 254 being 100.       *)
LEMMA HemtjanstRange ==
    ASSUME NEW i \in 1..254
    PROVE  ToHemtjanstBrightness(i) \in 0..100
BY DEF GoDiv, ToHemtjanstBrightness

(* The order of two levels survives a conversion, either way.              *)
LEMMA HemtjanstMonotone ==
    ASSUME NEW i \in Int, NEW j \in Int, i <= j
    PROVE  ToHemtjanstBrightness(i) <= ToHemtjanstBrightness(j)
BY DEF GoDiv, ToHemtjanstBrightness

(* The same upwards, but for 0 and below, which 1 stands for.              *)
LEMMA PhilipsMonotone ==
    ASSUME NEW i \in Int, NEW j \in Int, i <= j
    PROVE  ToPhilipsBrightness(i) <= ToPhilipsBrightness(j) \/ j <= 0
<1>1. GoDiv(i * 254, 100) <= GoDiv(j * 254, 100)
  BY DEF GoDiv
<1>2. GoDiv(i * 254, 100) \in Int /\ GoDiv(j * 254, 100) \in Int
  BY DEF GoDiv
<1>3. CASE j > 0
  <2>1. GoDiv(j * 254, 100) >= 1
    BY <1>3 DEF GoDiv
  <2> QED BY <1>1, <1>2, <2>1 DEF ToPhilipsBrightness
<1> QED BY <1>3

(* PUT "bri" with what GET showed moves a lamp by one at most, and down.   *)
LEMMA RoundTrip ==
    ASSUME NEW v \in 0..100
    PROVE  Dimmed(v, 0) \in {v - 1, v}
BY DEF GoDiv, ToPhilipsBrightness, ToHemtjanstBrightness, Dimmed

(* An increment upwards never dims, from whatever level.                   *)
LEMMA UpNeverDims ==
    ASSUME NEW v \in Int, NEW d \in Int, d > 0
    PROVE  Dimmed(v, d) >= v
BY DEF GoDiv, ToPhilipsBrightness, ToHemtjanstBrightness, Dimmed

(* An increment downwards never brightens.                                 *)
LEMMA DownNeverBrightens ==
    ASSUME NEW v \in Int, NEW d \in Int, d < 0
    PROVE  Dimmed(v, d) <= v
BY DEF GoDiv, ToPhilipsBrightness, ToHemtjanstBrightness, Dimmed

(* Four steps of the Hue scale are more than one of the lamp's.            *)
LEMMA FourShows ==
    ASSUME NEW v \in Int, NEW d \in Int, d >= 4
    PROVE  Dimmed(v, d) > v
BY DEF GoDiv, ToPhilipsBrightness, ToHemtjanstBrightness, Dimmed

(* Rounding down makes every step down count.                              *)
LEMMA AnyStepDownShows ==
    ASSUME NEW v \in Nat \ {0}, NEW d \in Int, d < 0
    PROVE  Dimmed(v, d) < v
BY DEF GoDiv, ToPhilipsBrightness, ToHemtjanstBrightness, Dimmed

(* An increment leads from integers to integers.                           *)
LEMMA LevelIsInt ==
    ASSUME NEW v \in Int, NEW d \in Int
    PROVE  Dimmed(v, d) \in Int
BY DEF Dimmed, ToPhilipsBrightness, ToHemtjanstBrightness, GoDiv

(* A write-back goes towards 0, or stays.                                  *)
LEMMA WriteBackRange ==
    ASSUME NEW v \in Int
    PROVE  ToHemtjanstBrightness(ToPhilipsBrightness(v)) \in
              IF v >= 0 THEN 0..v ELSE v..0
BY DEF ToHemtjanstBrightness, ToPhilipsBrightness, GoDiv

(* The levels of the scale are within the bounds.                          *)
LEMMA DimmerInit == Init => TypeOK
BY DimmerAssumption DEF Init, TypeOK

(* Every step stays within the bounds.                                     *)
LEMMA DimmerNext == TypeOK /\ [Next]_vars => TypeOK'
<1> SUFFICES ASSUME TypeOK, [Next]_vars PROVE TypeOK'
  OBVIOUS
<1>1. level \in Int
  BY DimmerAssumption DEF TypeOK
<1>2. CASE WriteBack
  BY <1>1, <1>2, WriteBackRange, DimmerAssumption DEF WriteBack, TypeOK
<1>3. ASSUME NEW d \in Steps, BrightnessInc(d) PROVE TypeOK'
  BY <1>3 DEF BrightnessInc, TypeOK
<1>4. CASE UNCHANGED vars
  BY <1>4 DEF vars, TypeOK
<1> QED BY <1>2, <1>3, <1>4 DEF Next

(* The level stays an integer between the bounds.                          *)
THEOREM DimmerTypeCorrect == Spec => []TypeOK
BY DimmerInit, DimmerNext, PTL DEF Spec

(* Dimming up never darkens and dimming down never brightens, for every    *)
(* level, every increment and every sequence of them (the bri_inc of       *)
(* updateLightState through both conversions).                             *)
THEOREM DimmerGoesItsWay == Spec => StepsGoTheirWay
<1>1. TypeOK /\ [Next]_vars => [GoesItsWay]_vars
  <2> SUFFICES ASSUME TypeOK, [Next]_vars, ~UNCHANGED vars PROVE GoesItsWay
    OBVIOUS
  <2>1. level \in Int
    BY DimmerAssumption DEF TypeOK
  <2>2. CASE WriteBack
    <3>1. inc' = 0
      BY <2>2 DEF WriteBack
    <3> QED BY <3>1 DEF GoesItsWay
  <2>3. ASSUME NEW d \in Steps, BrightnessInc(d) PROVE GoesItsWay
    BY <2>1, <2>3, DimmerAssumption, UpNeverDims, DownNeverBrightens DEF BrightnessInc, GoesItsWay
  <2> QED BY <2>2, <2>3 DEF Next
<1> QED BY <1>1, DimmerTypeCorrect, PTL DEF Spec, StepsGoTheirWay

(* Any step down, and any step up of four or more, shows on the lamp.      *)
THEOREM DimmerStepsShow == Spec => StepsShow
<1>1. TypeOK /\ [Next]_vars => [Shows]_vars
  <2> SUFFICES ASSUME TypeOK, [Next]_vars, ~UNCHANGED vars PROVE Shows
    OBVIOUS
  <2>1. level \in Int
    BY DimmerAssumption DEF TypeOK
  <2>2. CASE WriteBack
    <3>1. inc' = 0
      BY <2>2 DEF WriteBack
    <3> QED BY <3>1 DEF Shows
  <2>3. ASSUME NEW d \in Steps, BrightnessInc(d) PROVE Shows
    BY <2>1, <2>3, DimmerAssumption, FourShows, AnyStepDownShows DEF BrightnessInc, Shows
  <2> QED BY <2>2, <2>3 DEF Next
<1> QED BY <1>1, DimmerTypeCorrect, PTL DEF Spec, StepsShow

(* A client that writes back the brightness it read changes it by one at   *)
(* most, and downwards.                                                    *)
THEOREM WriteBackStaysClose == Spec => WriteBackIsClose
<1>1. TypeOK /\ [Next]_vars => [Close]_vars
  <2> SUFFICES ASSUME TypeOK, [Next]_vars, ~UNCHANGED vars PROVE Close
    OBVIOUS
  <2>1. level \in Int
    BY DimmerAssumption DEF TypeOK
  <2>2. CASE WriteBack
    <3>1. level \in 0..100 => ToPhilipsBrightness(level) \in 1..254
      BY PhilipsRange
    <3> QED BY <2>2, <3>1, RoundTrip DEF WriteBack, Close, Dimmed
  <2>3. ASSUME NEW d \in Steps, BrightnessInc(d) PROVE Close
    BY <2>1, <2>3, DimmerAssumption, RoundTrip DEF BrightnessInc, Close
  <2> QED BY <2>2, <2>3 DEF Next
<1> QED BY <1>1, DimmerTypeCorrect, PTL DEF Spec, WriteBackIsClose
================================================================================
