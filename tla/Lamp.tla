---------------------------------- MODULE Lamp ----------------------------------
(***************************************************************************)
(* What PUT .../state promises when the lamps are left alone between two   *)
(* requests: a request takes effect on its lamp at once and as a whole, or *)
(* is refused and has none, and its answer says which.                     *)
(***************************************************************************)
EXTENDS Converters

CONSTANTS Light,     \* the lamps
          Hidden,    \* those no group is made for
          Type,      \* the type of each: "white", "temperature" or "rgb"
          Body,      \* what the bodies of requests may ask for
          ToHS,      \* the hue and saturation of an xy
          ShiftHS,   \* those of a hue and a saturation moved by an xy_inc
          AsFound    \* the states the lamps may be in to begin with

VARIABLES lamps,     \* the state of each lamp
          asked,     \* the request for each lamp that waits for its answer
          code       \* what the last of them was answered with

lampVars == <<lamps, asked, code>>

Requests == [path: {"light", "group"}, body: Body]
NoneAsked == [path |-> "none", body |-> <<>>]

Has(b, p) == p \in DOMAIN b

(* The parameters no lamp of a type takes, whatever it is set to           *)
NotFor(type) == CASE type = "white"       -> {"ct", "ct_inc", "xy", "xy_inc"}
                  [] type = "temperature" -> {"xy", "xy_inc"}
                  [] type = "rgb"         -> {"ct", "ct_inc"}

Settings == {"bri", "bri_inc", "ct", "ct_inc", "xy", "xy_inc"}

(* An absolute value wins over an increment of the same thing.             *)
Level(b, v) == IF Has(b, "bri") THEN ToHemtjanstBrightness(b["bri"])
               ELSE IF Has(b, "bri_inc") THEN Dimmed(v, b["bri_inc"])
               ELSE v
Mired(b, v) == IF Has(b, "ct") THEN b["ct"]
               ELSE IF Has(b, "ct_inc") THEN v + b["ct_inc"]
               ELSE v
HS(b, hs) == IF Has(b, "xy") THEN ToHS[b["xy"]]
             ELSE IF Has(b, "xy_inc") THEN ShiftHS[hs, b["xy_inc"]]
             ELSE hs

(* A lamp that is off takes settings only together with "on".              *)
Result(type, s, b) ==
    IF DOMAIN b \ (Settings \cup {"on"}) # {} \/ DOMAIN b \cap NotFor(type) # {}
    THEN "unavailable"
    ELSE IF s.on = 0 /\ DOMAIN b \cap Settings # {} /\ ~(Has(b, "on") /\ b["on"])
         THEN "off"
         ELSE "success"

Effect(s, b) ==
    [f \in DOMAIN s |->
        CASE f = "on"               -> IF Has(b, "on") THEN IF b["on"] THEN 1 ELSE 0
                                                       ELSE s.on
          [] f = "brightness"       -> Level(b, s.brightness)
          [] f = "colorTemperature" -> Mired(b, s.colorTemperature)
          [] f = "hue"              -> HS(b, <<s.hue, s.saturation>>)[1]
          [] f = "saturation"       -> HS(b, <<s.hue, s.saturation>>)[2]]

Answer(l, result) == /\ asked' = [asked EXCEPT ![l] = NoneAsked]
                     /\ code' = [code EXCEPT ![l] = result]

Ask(l, q) == /\ asked[l] = NoneAsked
             /\ asked' = [asked EXCEPT ![l] = q]
             /\ UNCHANGED <<lamps, code>>

Reachable(l) == asked[l].path = "light" \/ (asked[l].path = "group" /\ l \notin Hidden)

(* The request has its effect, the whole of it, and is told so; or none.   *)
Command(l) ==
    LET b == asked[l].body
        result == Result(Type[l], lamps[l], b)
    IN  /\ Reachable(l)
        /\ lamps' = IF result = "success"
                    THEN [lamps EXCEPT ![l] = Effect(@, b)] ELSE lamps
        /\ Answer(l, result)

(* A lamp that is not to be found this way                                 *)
Reject(l) == /\ asked[l] # NoneAsked /\ ~Reachable(l)
             /\ Answer(l, "resource")
             /\ UNCHANGED lamps

Init == /\ lamps \in AsFound
        /\ asked = [l \in Light |-> NoneAsked]
        /\ code = [l \in Light |-> "none"]

Next == \E l \in Light : Command(l) \/ Reject(l) \/ \E q \in Requests : Ask(l, q)

Spec == Init /\ [][Next]_lampVars
================================================================================
