------------------------------ MODULE LightControl ------------------------------
(***************************************************************************)
(* PUT /lights/{id}/state and PUT /groups/{id}/action: handlers that read  *)
(* what a lamp last published and send it Set messages over MQTT, with no  *)
(* lock around the two.  The lamps, the broker and the cache of the MQTT   *)
(* library are external: a lamp takes the Sets in the order they were      *)
(* sent, takes nothing but "on" while it is off (the comments of           *)
(* updateLightState count on that), and publishes what it took; Value() is *)
(* the last publication that was delivered, also just after a Set.         *)
(***************************************************************************)
EXTENDS Converters, Sequences, SequencesExt

CONSTANTS Request,      \* the handler goroutines there can be at a time
          Light,        \* the lamps
          Unknown,      \* an id no lamp has
          Hidden,       \* the lamps with a topic that starts with "rpi"
          Type,         \* the type of each lamp: "white", "temperature", "rgb"
          Body,         \* the bodies clients send, as they are decoded
          ToHS,         \* CIExyToHemtjanstHS: the hue and saturation of an xy
                        \* (an xy that it does not have is too short an array)
          ShiftHS,      \* those of a hue and a saturation moved by an xy_inc
                        \* (one that it does not have is too short, too)
          AsFound,      \* the states the lamps may be in to begin with
          Garbage,      \* a published value that is no integer
          OneAtATime,   \* whether clients leave a lamp alone until it settled
          MaxRequests,  \* bound: the requests in a behaviour
          MaxGlitches   \* bound: what the lamps do without being asked

ASSUME LightAssumption == /\ Unknown \notin Light /\ Hidden \subseteq Light
                          /\ OneAtATime \in BOOLEAN
                          /\ MaxRequests \in Nat /\ MaxGlitches \in Nat

VARIABLES lamp,      \* external: the state of each lamp
          queue,     \* external: the Sets under way to each lamp
          pub,       \* external: its publications under way to the bridge
          seen,      \* what Value() returns for each of its features
          present,   \* external: the lamps that have not left
          pc,        \* what each request does next
          req,       \* what each request is: path, lamp, body and number
                     \* (and, for the properties, its body as it came in
                     \* and how it found the lamp)
          todo,      \* the rest of what updateLightState is to do
          reg,       \* the values it has read for the increments
          issued,    \* how many requests there were
          glitches,  \* how many glitches there were
          answer     \* the last answer for each id, and to which request

lamps == <<lamp, queue, pub, seen, present, glitches>>
vars == <<lamps, pc, req, todo, reg, issued, answer>>

NoValues == [brightness |-> 0, colorTemperature |-> 0, hue |-> 0, saturation |-> 0]
NoRequest == [path |-> "none", light |-> Unknown, body |-> <<>>, by |-> 0,
              asked |-> <<>>, found |-> NoValues]

Has(b, p) == p \in DOMAIN b

(* The features of a lamp of each type, and the colours there are          *)
FeaturesOf(type) == {"on", "brightness"} \cup (CASE type = "white"       -> {}
                                                [] type = "temperature" -> {"colorTemperature"}
                                                [] type = "rgb"         -> {"hue", "saturation"})
Hues == {p[1][1] : p \in DOMAIN ShiftHS}
Saturations == {p[1][2] : p \in DOMAIN ShiftHS}
Turns == {p[2] : p \in DOMAIN ShiftHS}
ValuesOf(f) == CASE f = "on"         -> {0, 1}
                 [] f = "hue"        -> Hues
                 [] f = "saturation" -> Saturations
                 [] OTHER            -> Int

(* The conversions are total on the colours there are, and what clients    *)
(* and lamps send is of the type it is decoded to.                         *)
ASSUME ValueAssumption ==
    /\ Garbage \notin Int /\ Hues \subseteq Int /\ Saturations \subseteq Int
    /\ ShiftHS \in [(Hues \X Saturations) \X Turns -> Hues \X Saturations]
    /\ 0 \in Hues /\ 0 \in Saturations
    /\ \A c \in DOMAIN ToHS : ToHS[c] \in Hues \X Saturations
    /\ \A l \in Light : Type[l] \in {"white", "temperature", "rgb"}
    /\ \A found \in AsFound : found = [l \in Light |-> found[l]] /\ \A l \in Light :
          /\ found[l] = [f \in FeaturesOf(Type[l]) |-> found[l][f]]
          /\ \A f \in FeaturesOf(Type[l]) : found[l][f] \in ValuesOf(f)
    /\ \A b \in Body : \A p \in {"bri", "ct", "bri_inc", "ct_inc"} : Has(b, p) => b[p] \in Int

(* Nothing is under way to or from a lamp.                                 *)
Settled(l) == /\ queue[l] = <<>> /\ pub[l] = <<>>
              /\ \A r \in Request : req[r].light # l

Init ==
    /\ lamp \in AsFound /\ seen = lamp
    /\ queue = [l \in Light |-> <<>>] /\ pub = [l \in Light |-> <<>>]
    /\ pc = [r \in Request |-> "idle"]
    /\ req = [r \in Request |-> NoRequest]
    /\ todo = [r \in Request |-> <<>>]
    /\ reg = [r \in Request |-> NoValues]
    /\ present = Light /\ issued = 0 /\ glitches = 0
    /\ answer = [l \in Light \cup {Unknown} |-> [code |-> "none", by |-> 0]]

------------------------------------------------------------------------------
(* The request and its body.                                               *)

Put(r, path, l, b) ==
    /\ pc[r] = "idle" /\ issued < MaxRequests
    /\ OneAtATime /\ l \in Light => Settled(l)
    /\ issued' = issued + 1
    /\ req' = [req EXCEPT ![r] = [path |-> path, light |-> l, body |-> b, by |-> issued + 1,
                                  asked |-> b, found |-> IF l \in Light THEN lamp[l] ELSE NoValues]]
    /\ pc' = [pc EXCEPT ![r] = "find"]
    /\ UNCHANGED <<lamps, todo, reg, answer>>

(* lightStateUpdate.Bind: what the bridge cannot set makes it an error; an *)
(* absolute value makes the increment of the same thing go.                *)
Unsupported == {"hue", "sat", "alert", "effect", "transitiontime", "hue_inc", "sat_inc"}
AbsoluteOf == [bri_inc |-> "bri", ct_inc |-> "ct", xy_inc |-> "xy"]
Bind(b) == [p \in {p \in DOMAIN b : p \in DOMAIN AbsoluteOf => ~Has(b, AbsoluteOf[p])} |-> b[p]]

(* getLight reads every feature that the type of the lamp has; a value     *)
(* that does not parse makes it nil, as a lamp that left or never was does *)
Found(l) == l \in present /\ \A f \in DOMAIN seen[l] : seen[l][f] # Garbage

(* getGroup lists the lamps first, and the hidden ones are not listed.     *)
FoundBy(path, l) == Found(l) /\ (path = "group" => l \notin Hidden)

Reply(r, code) ==
    /\ pc' = [pc EXCEPT ![r] = "idle"]
    /\ req' = [req EXCEPT ![r] = NoRequest]
    /\ todo' = [todo EXCEPT ![r] = <<>>]
    /\ reg' = [reg EXCEPT ![r] = NoValues]
    /\ answer' = [answer EXCEPT ![req[r].light] = [code |-> code, by |-> req[r].by]]

(* Mutant of FindLight: a lamp that is not there is noticed on one path.   *)
FindLightOnly(r) ==
    /\ pc[r] = "find"
    /\ \/ /\ ~FoundBy(req[r].path, req[r].light) /\ req[r].path = "light"
          /\ Reply(r, "resource")
       \/ /\ FoundBy(req[r].path, req[r].light) \/ req[r].path = "group"
          /\ DOMAIN req[r].body \cap Unsupported = {}
          /\ req' = [req EXCEPT ![r].body = Bind(@)]
          /\ pc' = [pc EXCEPT ![r] = IF req[r].path = "group" THEN "again" ELSE "check"]
          /\ UNCHANGED <<todo, reg, answer>>
    /\ UNCHANGED <<lamps, issued>>

(* The handlers up to updateLightState                                     *)
FindLight(r) ==
    /\ pc[r] = "find"
    /\ \/ ~FoundBy(req[r].path, req[r].light) /\ Reply(r, "resource")
       \/ /\ FoundBy(req[r].path, req[r].light)
          /\ DOMAIN req[r].body \cap Unsupported # {}
          /\ Reply(r, "unavailable")
       \/ /\ FoundBy(req[r].path, req[r].light)
          /\ DOMAIN req[r].body \cap Unsupported = {}
          /\ req' = [req EXCEPT ![r].body = Bind(@)]
          /\ pc' = [pc EXCEPT ![r] = IF req[r].path = "group" THEN "again" ELSE "check"]
          /\ UNCHANGED <<todo, reg, answer>>
    /\ UNCHANGED <<lamps, issued>>

(* groupUpdateState looks the lamp of the group up once more and passes on *)
(* a nil, which updateLightState dereferences: Recoverer answers 500.      *)
FindAgain(r) ==
    /\ pc[r] = "again"
    /\ \/ ~Found(req[r].light) /\ Reply(r, "panic")
       \/ /\ Found(req[r].light)
          /\ pc' = [pc EXCEPT ![r] = "check"]
          /\ UNCHANGED <<req, todo, reg, answer>>
    /\ UNCHANGED <<lamps, issued>>

------------------------------------------------------------------------------
(* updateLightState                                                        *)

(* Mutant of NotFor: the cases of two types are swapped.                   *)
NotForSwapped(type) == CASE type = "white"       -> {"ct", "ct_inc", "xy", "xy_inc"}
                         [] type = "temperature" -> {"ct", "ct_inc"}
                         [] type = "rgb"         -> {"xy", "xy_inc"}

NotFor(type) == CASE type = "white"       -> {"ct", "ct_inc", "xy", "xy_inc"}
                  [] type = "temperature" -> {"xy", "xy_inc"}
                  [] type = "rgb"         -> {"ct", "ct_inc"}
Settings == {"bri", "xy", "ct", "bri_inc", "xy_inc", "ct_inc"}

(* Of a body the fields of lightStateUpdate are decoded, and no others.    *)
ASSUME BodyAssumption ==
    \A b \in Body : /\ DOMAIN b \subseteq {"on"} \cup Settings \cup Unsupported
                    /\ Has(b, "on") => b["on"] \in BOOLEAN

Set(f, v) == [do |-> "set", feature |-> f, value |-> v]
Read(f) == [do |-> "read", feature |-> f]
Move(f, d) == [do |-> "move", feature |-> f, by |-> d]

TurnsOn(b) == Has(b, "on") /\ b["on"]
TurnsOff(b) == Has(b, "on") /\ ~b["on"]
When(condition, steps) == IF condition THEN steps ELSE <<>>

(* An xy or xy_inc of fewer than two numbers: the index dt[1] panics.      *)
ShortXY(b) == Has(b, "xy") /\ b["xy"] \notin DOMAIN ToHS
ShortXYInc(b) == Has(b, "xy_inc") /\ b["xy_inc"] \notin Turns
Whole(b) == ~ShortXY(b) /\ ~ShortXYInc(b)
Break == [do |-> "break", feature |-> "hue"]

XYSteps(b) ==
    IF ShortXY(b) THEN <<Break>>
    ELSE <<Set("hue", ToHS[b["xy"]][1]), Set("saturation", ToHS[b["xy"]][2])>>
XYIncSteps(b) ==
    <<Read("hue"), Read("saturation")>>
    \o (IF ShortXYInc(b) THEN <<Break>>
        ELSE <<Move("hue", b["xy_inc"]), Move("saturation", b["xy_inc"])>>)

(* The settings, in the order of the code                                  *)
SettingSteps(b) ==
    When(Has(b, "bri"), <<Set("brightness", ToHemtjanstBrightness(b["bri"]))>>)
    \o When(Has(b, "ct"), <<Set("colorTemperature", b["ct"])>>)
    \o When(Has(b, "xy"), XYSteps(b))
    \o When(Has(b, "bri_inc"), <<Read("brightness"), Move("brightness", b["bri_inc"])>>)
    \o When(Has(b, "ct_inc"), <<Read("colorTemperature"), Move("colorTemperature", b["ct_inc"])>>)
    \o When(Has(b, "xy_inc"), XYIncSteps(b))

(* Mutant of Program: the lamp is turned on with the rest, and off first.  *)
ProgramOffFirst(on, b) == When(on /\ TurnsOff(b), <<Set("on", 0)>>)
                          \o SettingSteps(b)
                          \o When(~on /\ TurnsOn(b), <<Set("on", 1)>>)

(* Turn on first, turn off last; "on" is read once, before the rest.       *)
Program(on, b) == When(~on /\ TurnsOn(b), <<Set("on", 1)>>)
                  \o SettingSteps(b)
                  \o When(on /\ TurnsOff(b), <<Set("on", 0)>>)

IsOn(l) == seen[l]["on"] = 1

(* Mutant of Refused: a lamp that is on has to be turned on, too.          *)
RefusedEither(l, b) == (~IsOn(l) \/ ~TurnsOn(b)) /\ DOMAIN b \cap Settings # {}

(* Settings for a lamp that looks off, in a body that does not turn it on  *)
Refused(l, b) == ~IsOn(l) /\ ~TurnsOn(b) /\ DOMAIN b \cap Settings # {}

(* Mutants of Check: a lamp that is off is not looked for ...              *)
CheckTypeOnly(r) ==
    LET l == req[r].light  b == req[r].body
    IN  /\ pc[r] = "check"
        /\ \/ DOMAIN b \cap NotFor(Type[l]) # {} /\ Reply(r, "unavailable")
           \/ /\ DOMAIN b \cap NotFor(Type[l]) = {}
              /\ todo' = [todo EXCEPT ![r] = Program(IsOn(l), b)]
              /\ pc' = [pc EXCEPT ![r] = "apply"]
              /\ UNCHANGED <<req, reg, answer>>
        /\ UNCHANGED <<lamps, issued>>

(* ... and one that is off is turned on before it is refused.              *)
CheckAfterOn(r) ==
    LET l == req[r].light  b == req[r].body
    IN  /\ pc[r] = "check"
        /\ \/ DOMAIN b \cap NotFor(Type[l]) # {} /\ Reply(r, "unavailable")
           \/ /\ DOMAIN b \cap NotFor(Type[l]) = {} /\ Refused(l, b)
              /\ queue' = [queue EXCEPT ![l] =
                             Append(@, [feature |-> "on", value |-> 1, by |-> req[r].by])]
              /\ Reply(r, "off")
              /\ UNCHANGED <<lamp, pub, seen, present, glitches>>
        /\ UNCHANGED issued

(* The device of a lamp that left meanwhile is nil and dereferenced, too.  *)
Check(r) ==
    LET l == req[r].light  b == req[r].body
    IN  /\ pc[r] = "check"
        /\ \/ DOMAIN b \cap NotFor(Type[l]) # {} /\ Reply(r, "unavailable")
           \/ DOMAIN b \cap NotFor(Type[l]) = {} /\ l \notin present /\ Reply(r, "panic")
           \/ /\ DOMAIN b \cap NotFor(Type[l]) = {} /\ l \in present /\ Refused(l, b)
              /\ Reply(r, "off")
           \/ /\ DOMAIN b \cap NotFor(Type[l]) = {} /\ l \in present /\ ~Refused(l, b)
              /\ todo' = [todo EXCEPT ![r] = Program(IsOn(l), b)]
              /\ pc' = [pc EXCEPT ![r] = "apply"]
              /\ UNCHANGED <<req, reg, answer>>
        /\ UNCHANGED <<lamps, issued>>

(* Feature.Value, for an increment                                         *)
ReadFeature(r) ==
    LET l == req[r].light
    IN  /\ pc[r] = "apply" /\ todo[r] # <<>> /\ Head(todo[r]).do = "read"
        /\ LET f == Head(todo[r]).feature
           IN  \/ seen[l][f] = Garbage /\ Reply(r, "internal")
               \/ /\ seen[l][f] # Garbage
                  /\ reg' = [reg EXCEPT ![r][f] = seen[l][f]]
                  /\ todo' = [todo EXCEPT ![r] = Tail(@)]
                  /\ UNCHANGED <<pc, req, answer>>
        /\ UNCHANGED <<lamps, issued>>

(* What a feature is set to: the value asked for, or the one read, moved   *)
Target(step, values) ==
    IF step.do = "set" THEN step.value
    ELSE CASE step.feature = "brightness"       -> Dimmed(values.brightness, step.by)
           [] step.feature = "colorTemperature" -> values.colorTemperature + step.by
           [] step.feature = "hue"              -> ShiftHS[<<values.hue, values.saturation>>, step.by][1]
           [] step.feature = "saturation"       -> ShiftHS[<<values.hue, values.saturation>>, step.by][2]

(* Feature.Set                                                             *)
SetFeature(r) ==
    LET l == req[r].light
    IN  /\ pc[r] = "apply" /\ todo[r] # <<>> /\ Head(todo[r]).do \in {"set", "move"}
        /\ queue' = [queue EXCEPT ![l] =
                       Append(@, [feature |-> Head(todo[r]).feature,
                                  value   |-> Target(Head(todo[r]), reg[r]),
                                  by      |-> req[r].by])]
        /\ todo' = [todo EXCEPT ![r] = Tail(@)]
        /\ UNCHANGED <<lamp, pub, seen, present, glitches, pc, req, reg, issued, answer>>

(* dt[0] or dt[1] of a short array, with the Sets before it sent           *)
Panic(r) == /\ pc[r] = "apply" /\ todo[r] # <<>> /\ Head(todo[r]).do = "break"
            /\ Reply(r, "panic")
            /\ UNCHANGED <<lamps, issued>>

Done(r) == /\ pc[r] = "apply" /\ todo[r] = <<>>
           /\ Reply(r, "success")
           /\ UNCHANGED <<lamps, issued>>

------------------------------------------------------------------------------
(* The lamps and the broker.                                               *)

Publish(l, f, v) == pub' = [pub EXCEPT ![l] = Append(@, [feature |-> f, value |-> v])]

(* A lamp that is off takes no other setting than "on".                    *)
Taken(s, m) == IF m.feature = "on" \/ s.on = 1 THEN [s EXCEPT ![m.feature] = m.value] ELSE s

TakeSet(l) ==
    /\ queue[l] # <<>>
    /\ queue' = [queue EXCEPT ![l] = Tail(@)]
    /\ lamp' = [lamp EXCEPT ![l] = Taken(@, Head(queue[l]))]
    /\ IF lamp' # lamp THEN Publish(l, Head(queue[l]).feature, Head(queue[l]).value)
                       ELSE UNCHANGED pub
    /\ UNCHANGED <<seen, present, glitches, pc, req, todo, reg, issued, answer>>

Deliver(l) ==
    /\ pub[l] # <<>>
    /\ seen' = [seen EXCEPT ![l][Head(pub[l]).feature] = Head(pub[l]).value]
    /\ pub' = [pub EXCEPT ![l] = Tail(@)]
    /\ UNCHANGED <<lamp, queue, present, glitches, pc, req, todo, reg, issued, answer>>

(* Somebody uses the switch on the wall, the lamp publishes nonsense, or   *)
(* it leaves: the library removes its device, and it does not come back.   *)
Glitch(l) ==
    /\ glitches < MaxGlitches
    /\ glitches' = glitches + 1
    /\ \/ /\ lamp' = [lamp EXCEPT ![l].on = 1 - @]
          /\ Publish(l, "on", 1 - lamp[l].on)
          /\ UNCHANGED present
       \/ /\ \E f \in DOMAIN lamp[l] \ {"on"} : Publish(l, f, Garbage)
          /\ UNCHANGED <<lamp, present>>
       \/ /\ l \in present /\ present' = present \ {l}
          /\ UNCHANGED <<lamp, pub>>
    /\ UNCHANGED <<queue, seen, pc, req, todo, reg, issued, answer>>

Handle(r) == \/ FindLight(r) \/ FindAgain(r) \/ Check(r)
             \/ ReadFeature(r) \/ SetFeature(r) \/ Panic(r) \/ Done(r)

Next == \/ \E r \in Request : Handle(r)
        \/ \E r \in Request, path \in {"light", "group"}, l \in Light \cup {Unknown}, b \in Body :
              Put(r, path, l, b)
        \/ \E l \in Light : TakeSet(l) \/ Deliver(l) \/ Glitch(l)

Spec == Init /\ [][Next]_vars

------------------------------------------------------------------------------
(* Properties                                                              *)

LightTypeOK ==
    /\ \A l \in Light : DOMAIN lamp[l] = DOMAIN seen[l] /\ lamp[l].on \in {0, 1}
    /\ \A r \in Request :
          /\ pc[r] \in {"idle", "find", "again", "check", "apply"}
          /\ pc[r] # "idle" => req[r].by \in 1..issued
          /\ todo[r] # <<>> => pc[r] = "apply" /\ Head(todo[r]).feature \in DOMAIN lamp[req[r].light]
    /\ present \subseteq Light
    /\ issued \in 0..MaxRequests /\ glitches \in 0..MaxGlitches

(* A request that is refused, because of its lamp, its parameters or the   *)
(* lamp being off, has sent the lamp nothing.                              *)
RefusedSendsNothing ==
    \A l \in Light : answer[l].code \in {"resource", "unavailable", "off"} =>
        \A i \in 1..Len(queue[l]) : queue[l][i].by # answer[l].by

(* Of the Sets one request has under way, the one that turns on goes first *)
(* and the one that turns off goes last, also when other requests for the  *)
(* same lamp come in between.                                              *)
OnFirstOffLast ==
    \A l \in Light : \A i, j \in 1..Len(queue[l]) :
        LET m == queue[l][i]  n == queue[l][j]
        IN  i < j /\ m.by = n.by => /\ ~(n.feature = "on" /\ n.value = 1)
                                    /\ ~(m.feature = "on" /\ m.value = 0)

(* A handler panics for one of two reasons: its array of two numbers was   *)
(* short, and then what came before it has been sent; or the lamp published *)
(* nonsense or left under its hands, and then it has sent nothing.  No id, *)
(* no other body and no timing of the requests alone makes one panic.      *)
PanicExplained ==
    \A r \in Request :
        LET l == req[r].light
        IN  pc[r] # "idle" /\ pc'[r] = "idle" /\ answer'[l].code = "panic"
            => \/ ~Whole(req[r].body)
               \/ /\ l \in Light /\ glitches > 0
                  /\ \A i \in 1..Len(queue[l]) : queue[l][i].by # req[r].by
PanicsExplained == [][PanicExplained]_vars

(* "Turn on first so any other characteristic updates will propagate": no  *)
(* other update reaches a lamp that is off and does not take it.           *)
UpdatesPropagate ==
    \A l \in Light :
        queue[l] # <<>> /\ Head(queue[l]).feature # "on" => lamp[l].on = 1

(* The answer "parameter is not modifiable. Device is set to off" is given *)
(* for a device that is off, or being turned off.                          *)
OffReply ==
    \A l \in Light : answer'[l] # answer[l] /\ answer'[l].code = "off" => lamp[l].on = 0
OffReplyIsTrue == [][OffReply]_vars

(* While a request is under way its lamp counts as it was when it came in; *)
(* afterwards as it will be when it has taken the Sets.  (One request at a *)
(* time on a lamp: nothing changed it since, except that request's Sets.)  *)
UnderWay(l) == {req[r] : r \in {q \in Request : req[q].light = l}}
Only(l) == CHOOSE q \in UnderWay(l) : TRUE
Lamps == [l \in Light |-> IF UnderWay(l) # {} THEN Only(l).found
                          ELSE FoldLeft(Taken, lamp[l], queue[l])]
Asked == [l \in Light |-> IF UnderWay(l) # {}
                          THEN [path |-> Only(l).path, body |-> Only(l).asked]
                          ELSE [path |-> "none", body |-> <<>>]]

Promise == INSTANCE Lamp WITH lamps <- Lamps,
                              asked <- Asked,
                              code  <- [l \in Light |-> answer[l].code]

(* When clients leave a lamp alone until it has settled, every request has *)
(* the effect its body asks for, as a whole, or none, and the answer says  *)
(* which.                                                                  *)
KeepsPromise == Promise!Spec
================================================================================
