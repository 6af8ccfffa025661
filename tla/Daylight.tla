-------------------------------- MODULE Daylight --------------------------------
(***************************************************************************)
(* The daylight sensor.  isDaylight asks a library for the sunrise and the *)
(* sunset of today's date in UTC, keeps their hour and minute, puts both   *)
(* on that date and compares the clock with them.  Near Greenwich that is  *)
(* the sun's day; further away a day begins or ends on another UTC date,   *)
(* and what the library says of that end is its own affair: here any time. *)
(***************************************************************************)
EXTENDS Integers, TLAPS

CONSTANTS Day,      \* units of time in a day
          Minute    \* units of time in a minute

ASSUME DaylightAssumption == Day \in Nat \ {0} /\ Minute \in Nat \ {0}

Time == 0 .. Day - 1

VARIABLES rise,     \* sunrise, counted from midnight UTC: before it if negative
          set,      \* sunset, after midnight the next day if beyond Day
          valid,    \* whether the library accepts the configured place
          clock,    \* the time of day, UTC
          asked,    \* the time of day at which the sensor was read last
          shown     \* what it showed then

place == <<rise, set, valid>>
vars == <<rise, set, valid, clock, asked, shown>>

(* A mutant of ToMinute: the next minute.                                  *)
ToMinuteUp(x) == x - (x % Minute) + Minute

(* Hour() and Minute() of a time: the seconds are dropped.                 *)
ToMinute(x) == x - (x % Minute)

(* GetSunriseSunset with UtcOffset 0: the time on the date, if there is one *)
OnDate(x) == IF x \in Time THEN {x} ELSE Time

(* A mutant of IsDaylight: after the sunrise or before the sunset.         *)
IsDaylightEither(t) ==
    {valid /\ (ToMinute(r) < t \/ t < ToMinute(s)) : r \in OnDate(rise), s \in OnDate(set)}

(* t.After(sunriseT) && t.Before(sunsetT), and false when the library fails *)
IsDaylight(t) ==
    {valid /\ ToMinute(r) < t /\ t < ToMinute(s) : r \in OnDate(rise), s \in OnDate(set)}

(* A place where the sun rises and sets, and whose noon is on this date;   *)
(* the first reading.                                                      *)
Init == /\ \E noon \in 0 .. Day, half \in 1 .. Day :
              /\ 2 * half < Day
              /\ rise = noon - half /\ set = noon + half
        /\ valid \in BOOLEAN
        /\ clock \in Time /\ asked = clock /\ shown \in IsDaylight(clock)

Pass == /\ clock' = (clock + 1) % Day
        /\ UNCHANGED <<rise, set, valid, asked, shown>>

(* GET /sensors, GET /sensors/1 and GET of everything                      *)
ReadSensor == /\ asked' = clock
              /\ shown' \in IsDaylight(clock)
              /\ UNCHANGED <<rise, set, valid, clock>>

Next == Pass \/ ReadSensor
Spec == Init /\ [][Next]_vars

------------------------------------------------------------------------------
(* Properties                                                              *)

(* The sun rises and sets every day at the same time.                      *)
Up(t) == \E d \in {-Day, 0, Day} : rise + d <= t /\ t < set + d

InMinuteOf(t, x) == \E d \in {-Day, 0, Day} :
    ToMinute(x + d) <= t /\ t < ToMinute(x + d) + Minute

(* The sensor never shows daylight at night, wherever the bridge is and    *)
(* whatever the library says of a sunrise or sunset on another date, but   *)
(* for the minute in which the sun rises.                                  *)
NeverAtNight == shown => Up(asked) \/ InMinuteOf(asked, rise)

(* Where both the sunrise and the sunset are on the UTC date the sensor is *)
(* right, but for the minutes of the two.                                  *)
RightNearGreenwich ==
    valid /\ rise \in Time /\ set \in Time
      => (shown <=> Up(asked)) \/ InMinuteOf(asked, rise) \/ InMinuteOf(asked, set)

(* "so that the sunrise/sunset calculation is correct" (README.md:34-36):  *)
(* the sensor shows the day of every place when the sun is up.             *)
ShownByDay ==
    valid /\ Up(asked) => shown \/ InMinuteOf(asked, rise) \/ InMinuteOf(asked, set)

------------------------------------------------------------------------------
(* Proofs, for every place where the sun rises and sets and any resolution  *)
(* of the clock.                                                           *)

(* The sun of the place is up for a part of the day around a noon of this  *)
(* date, and what is shown is what isDaylight said at the time.            *)
PlaceInv == \E noon \in 0 .. Day, half \in 1 .. Day :
    2 * half < Day /\ rise = noon - half /\ set = noon + half
ReadingInv == /\ valid \in BOOLEAN
              /\ clock \in Time /\ asked \in Time
              /\ shown \in IsDaylight(asked)
Inv == PlaceInv /\ ReadingInv

(* Dropping the seconds goes back by less than a minute.                   *)
LEMMA MinuteBounds ==
    ASSUME NEW x \in Int
    PROVE  /\ ToMinute(x) \in Int
           /\ ToMinute(x) <= x /\ x < ToMinute(x) + Minute
<1>1. x % Minute \in 0 .. Minute - 1
  BY DaylightAssumption
<1>2. \A k \in 0 .. Minute - 1 :
          x - k \in Int /\ x - k <= x /\ x < x - k + Minute
  BY DaylightAssumption
<1> QED BY <1>1, <1>2 DEF ToMinute

(* Inv is an invariant of the sensor.                                      *)
THEOREM DaylightInvariance == Spec => []Inv
<1>1. Init => Inv
  BY DEF Init, Inv, PlaceInv, ReadingInv
<1>2. Inv /\ [Next]_vars => Inv'
  <2> SUFFICES ASSUME Inv, [Next]_vars PROVE Inv'
    OBVIOUS
  <2>1. UNCHANGED place
    BY DEF Next, Pass, ReadSensor, vars, place
  <2>2. PlaceInv'
    BY <2>1 DEF Inv, PlaceInv, place
  <2>3. ReadingInv'
    <3>1. \A t : (IsDaylight(t))' = IsDaylight(t)
      BY <2>1 DEF place, IsDaylight, OnDate
    <3>2. CASE Pass
      <4>1. (clock + 1) % Day \in Time
        BY DaylightAssumption DEF Inv, ReadingInv, Time
      <4> QED BY <3>1, <3>2, <4>1 DEF Inv, ReadingInv, Pass, IsDaylight, OnDate
    <3>3. CASE ReadSensor
      BY <3>3 DEF Inv, ReadingInv, ReadSensor, IsDaylight, OnDate
    <3>4. CASE UNCHANGED vars
      BY <3>4 DEF Inv, ReadingInv, vars, IsDaylight, OnDate
    <3> QED BY <3>2, <3>3, <3>4 DEF Next
  <2> QED BY <2>2, <2>3 DEF Inv
<1> QED BY <1>1, <1>2, PTL DEF Spec

(* What the times of the library are: the true ones when they are on the   *)
(* date, and times of the day in any case.                                 *)
LEMMA Answered ==
    ASSUME Inv
    PROVE  \E r \in OnDate(rise), s \in OnDate(set) :
               /\ r \in Time /\ s \in Time
               /\ rise \in Time => r = rise
               /\ set \in Time => s = set
               /\ shown <=> valid /\ ToMinute(r) < asked /\ asked < ToMinute(s)
<1>1. PICK r \in OnDate(rise), s \in OnDate(set) :
          shown = (valid /\ ToMinute(r) < asked /\ asked < ToMinute(s))
  BY DEF Inv, ReadingInv, IsDaylight
<1>2. /\ r \in Time /\ s \in Time
      /\ rise \in Time => r = rise
      /\ set \in Time => s = set
  BY DEF OnDate
<1> QED BY <1>1, <1>2

(* No daylight is shown at night, for any place and any answer of the      *)
(* library: a day that is split by midnight UTC has an end on the date.    *)
THEOREM NightHolds == Spec => []NeverAtNight
<1>1. Inv => NeverAtNight
  <2> SUFFICES ASSUME Inv, shown PROVE Up(asked) \/ InMinuteOf(asked, rise)
    BY DEF NeverAtNight
  <2>1. PICK noon \in 0 .. Day, half \in 1 .. Day :
            2 * half < Day /\ rise = noon - half /\ set = noon + half
    BY DEF Inv, PlaceInv
  <2>2. PICK r \in Time, s \in Time :
            /\ rise \in Time => r = rise
            /\ set \in Time => s = set
            /\ ToMinute(r) < asked /\ asked < ToMinute(s)
    BY Answered
  <2>3. asked \in Int /\ 0 <= asked /\ asked < Day /\ Day \in Int
    BY DaylightAssumption DEF Inv, ReadingInv, Time
  <2>4. CASE rise < 0
    <3>1. set \in Time
      BY <2>1, <2>3, <2>4 DEF Time
    <3>2. asked < set
      BY <2>2, <2>3, <3>1, MinuteBounds DEF Time
    <3>3. rise + 0 <= asked /\ asked < set + 0
      BY <2>1, <2>3, <2>4, <3>2
    <3> QED BY <3>3 DEF Up
  <2>5. CASE rise >= 0
    <3>1. rise \in Time /\ r = rise
      BY <2>1, <2>2, <2>3, <2>5 DEF Time
    <3>2. asked < set
      <4>1. CASE set \in Time
        BY <2>2, <2>3, <4>1, MinuteBounds DEF Time
      <4>2. CASE set >= Day
        BY <2>1, <2>3, <4>2
      <4> QED BY <2>1, <2>3, <2>5, <4>1, <4>2 DEF Time
    <3>3. CASE rise <= asked
      <4>1. rise + 0 <= asked /\ asked < set + 0
        BY <2>1, <2>3, <3>2, <3>3
      <4> QED BY <4>1 DEF Up
    <3>4. CASE asked < rise
      <4>1. /\ ToMinute(rise) \in Int /\ rise < ToMinute(rise) + Minute
            /\ ToMinute(rise) < asked
        BY <2>1, <2>2, <3>1, MinuteBounds
      <4>2. ToMinute(rise) <= asked /\ asked < ToMinute(rise) + Minute
        BY <2>1, <2>3, <3>4, <4>1, DaylightAssumption
      <4>3. rise + 0 = rise
        BY <2>1
      <4> QED BY <4>2, <4>3 DEF InMinuteOf
    <3> QED BY <2>1, <2>3, <3>3, <3>4
  <2> QED BY <2>1, <2>4, <2>5
<1> QED BY <1>1, DaylightInvariance, PTL

(* Where the sun's day is within the date, the sensor is right but for the *)
(* minutes of the sunrise and of the sunset.                               *)
THEOREM GreenwichHolds == Spec => []RightNearGreenwich
<1>1. Inv => RightNearGreenwich
  <2> SUFFICES ASSUME Inv, valid, rise \in Time, set \in Time,
                      ~InMinuteOf(asked, rise), ~InMinuteOf(asked, set)
               PROVE  shown <=> Up(asked)
    BY DEF RightNearGreenwich
  <2>1. shown <=> ToMinute(rise) < asked /\ asked < ToMinute(set)
    BY Answered
  <2>2. /\ asked \in Int /\ 0 <= asked /\ asked < Day /\ Day \in Int
        /\ rise \in Int /\ 0 <= rise /\ rise < Day
        /\ set \in Int /\ 0 <= set /\ set < Day
    BY DaylightAssumption DEF Inv, ReadingInv, Time
  <2>3. Up(asked) <=> rise <= asked /\ asked < set
    <3>1. ~(rise + (-Day) <= asked /\ asked < set + (-Day))
      BY <2>2
    <3>2. ~(rise + Day <= asked /\ asked < set + Day)
      BY <2>2
    <3>3. rise + 0 = rise /\ set + 0 = set
      BY <2>2
    <3> QED BY <3>1, <3>2, <3>3 DEF Up
  <2>4. ~(ToMinute(rise) <= asked /\ asked < ToMinute(rise) + Minute)
    <3>1. rise + 0 = rise
      BY <2>2
    <3> QED BY <3>1 DEF InMinuteOf
  <2>5. ~(ToMinute(set) <= asked /\ asked < ToMinute(set) + Minute)
    <3>1. set + 0 = set
      BY <2>2
    <3> QED BY <3>1 DEF InMinuteOf
  <2>6. /\ ToMinute(rise) \in Int /\ ToMinute(rise) <= rise /\ rise < ToMinute(rise) + Minute
        /\ ToMinute(set) \in Int /\ ToMinute(set) <= set /\ set < ToMinute(set) + Minute
    BY <2>2, MinuteBounds
  <2> QED BY <2>1, <2>2, <2>3, <2>4, <2>5, <2>6, DaylightAssumption
<1> QED BY <1>1, DaylightInvariance, PTL
================================================================================
