-------------------------------- MODULE Catalogue --------------------------------
(***************************************************************************)
(* What GET shows of the lamps: /lights, /groups and one of either, GET of *)
(* everything, which lists the lamps twice, and the counters that          *)
(* /capabilities shows.  A listing takes the devices known at one moment   *)
(* and then asks for their values one by one, with no lock, while lamps    *)
(* come and go and publish.  The devices and the cache of their values are *)
(* external (the MQTT library).                                            *)
(***************************************************************************)
EXTENDS Naturals, FiniteSets, Sequences

CONSTANTS Request,      \* the handler goroutines there can be at a time
          Light,        \* the lamps, by their ids, which are distinct
          Hidden,       \* those with a topic that starts with "rpi"
          Features,     \* the features of each lamp
          Value,        \* what lamps publish
          Garbage,      \* the one of them that does not parse
          None,         \* no lamp
          Op,           \* the requests there are, each a kind and an id
          AsFound,      \* the lamps and their values there may be to begin with
          MaxRequests,  \* bound: the requests in a behaviour
          MaxChanges    \* bound: what the lamps do in a behaviour

ASSUME CatalogueAssumption ==
    /\ Hidden \subseteq Light /\ None \notin Light /\ Garbage \in Value
    /\ \A l \in Light : "on" \in Features[l]
    /\ \A op \in Op : op.id \in Light <=> op.kind \in {"light", "group"}
    /\ \A found \in AsFound : /\ found.known \subseteq Light /\ DOMAIN found.value = Light
                              /\ \A l \in Light : DOMAIN found.value[l] = Features[l]
    /\ MaxRequests \in Nat /\ MaxChanges \in Nat

VARIABLES known,     \* external: the lamps DeviceByType("lightbulb") returns
          value,     \* external: what Value() returns for each feature
          lights,    \* config.lights
          groups,    \* config.groups
          pc,        \* what each request does next
          job,       \* what each request is about and has got so far
          issued,    \* how many requests there were
          changes    \* how many changes there were

(* For the properties only: the values of the features while they are      *)
(* listed; the lamps that could be listed all that time; those nothing     *)
(* happened to since a request came in; what overlapping listings counted. *)
VARIABLES had, steady, untouched, counts

config == <<lights, groups>>
outside == <<known, value, changes>>
ghosts == <<had, steady, untouched, counts>>
vars == <<config, outside, ghosts, pc, job, issued>>

Nothing == [x \in {} |-> Garbage]
Idle == [op |-> [kind |-> "none", id |-> None], pass |-> 1, devs |-> {}, left |-> {},
         cur |-> None, read |-> Nothing, shown |-> Nothing, first |-> Nothing,
         lights |-> 0, groups |-> 0]

(* The values a lamp is listed with, which are those of its type           *)
Needs(l) ==
    IF {"hue", "saturation"} \cap Features[l] # {}
    THEN <<"on", "brightness", "hue", "saturation">>
    ELSE IF "colorTemperature" \in Features[l] THEN <<"on", "brightness", "colorTemperature">>
    ELSE IF "brightness" \in Features[l] THEN <<"on", "brightness">>
    ELSE <<>>

(* A feature a lamp does not have has no value that is a number.           *)
ValueOf(l, f) == IF f \in Features[l] THEN value[l][f] ELSE Garbage

Init == /\ \E found \in AsFound : known = found.known /\ value = found.value
        /\ lights = Cardinality(known) /\ groups = Cardinality(known)
        /\ pc = [r \in Request |-> "idle"] /\ job = [r \in Request |-> Idle]
        /\ issued = 0 /\ changes = 0
        /\ had = [r \in Request |-> Nothing] /\ steady = [r \in Request |-> {}]
        /\ untouched = [r \in Request |-> {}] /\ counts = {lights}

------------------------------------------------------------------------------
(* The lamps.                                                              *)

Readable(l) == Needs(l) # <<>> /\ \A k \in DOMAIN Needs(l) : ValueOf(l, Needs(l)[k]) # Garbage

Change(l) == /\ changes < MaxChanges /\ changes' = changes + 1
             /\ untouched' = [r \in Request |-> untouched[r] \ {l}]
             /\ UNCHANGED <<config, pc, job, issued, counts>>

(* A lamp is announced, or leaves.                                         *)
Appear(l) == /\ Change(l) /\ l \notin known /\ known' = known \cup {l}
             /\ UNCHANGED <<value, had, steady>>
Leave(l) == /\ Change(l) /\ l \in known /\ known' = known \ {l}
            /\ steady' = [r \in Request |-> steady[r] \ {l}]
            /\ UNCHANGED <<value, had>>

Publish(l, f, v) ==
    /\ Change(l) /\ v # value[l][f] /\ value' = [value EXCEPT ![l][f] = v]
    /\ had' = [r \in Request |-> [p \in DOMAIN had[r] |->
                   IF p = <<l, f>> THEN had[r][p] \cup {v} ELSE had[r][p]]]
    /\ steady' = [r \in Request |-> {m \in steady[r] : Readable(m)'}]
    /\ UNCHANGED known

------------------------------------------------------------------------------
(* The requests.                                                           *)

Get(r, op) ==
    /\ pc[r] = "idle" /\ issued < MaxRequests /\ issued' = issued + 1
    /\ job' = [job EXCEPT ![r].op = op]
    /\ pc' = [pc EXCEPT ![r] = CASE op.kind = "light" -> "find"
                                 [] op.kind = "capabilities" -> "lights"
                                 [] OTHER -> "list"]
    /\ untouched' = [untouched EXCEPT ![r] = Light]
    /\ UNCHANGED <<config, outside, had, steady, counts>>

(* What is listed of the devices: no hidden ones, none without brightness  *)
Listed(devs) == {l \in devs \ Hidden : Needs(l) # <<>>}

(* Mutant of Begin: the map of the listing before is used again.           *)
BeginFull(r, devs, left) ==
    /\ job' = [job EXCEPT ![r].devs = devs, ![r].left = left]
    /\ had' = [had EXCEPT ![r] = [p \in UNION {{l} \X Features[l] : l \in left} |-> {value[p[1]][p[2]]}]]
    /\ steady' = [steady EXCEPT ![r] = {l \in known : Readable(l)}]

(* A new map, and the lamps to be put into it                              *)
Begin(r, devs, left) ==
    /\ job' = [job EXCEPT ![r].devs = devs, ![r].left = left, ![r].shown = Nothing]
    /\ had' = [had EXCEPT ![r] = [p \in UNION {{l} \X Features[l] : l \in left} |-> {value[p[1]][p[2]]}]]
    /\ steady' = [steady EXCEPT ![r] = {l \in known : Readable(l)}]

(* The listings whose count is not in the counter yet                      *)
Counting == {r \in Request : pc[r] = "count"}

(* getAllLightsFromMQTT: the devices at this moment ...                    *)
List(r) == /\ pc[r] = "list" /\ pc' = [pc EXCEPT ![r] = "count"]
           /\ Begin(r, known, Listed(known))
           /\ counts' = (IF Counting = {} THEN {} ELSE counts) \cup {Cardinality(known)}
           /\ UNCHANGED <<config, outside, untouched, issued>>

(* Mutant of Count: the lamps that are listed are counted.                 *)
CountListed(r) == /\ pc[r] = "count" /\ pc' = [pc EXCEPT ![r] = "read"]
                  /\ lights' = Cardinality(job[r].left)
                  /\ UNCHANGED <<groups, outside, ghosts, job, issued>>

(* ... are counted, under the lock, the hidden ones too.                   *)
Count(r) == /\ pc[r] = "count" /\ pc' = [pc EXCEPT ![r] = "read"]
            /\ lights' = Cardinality(job[r].devs)
            /\ UNCHANGED <<groups, outside, ghosts, job, issued>>

(* getLight: the one with this id, hidden or not, and nothing is counted.  *)
FindLight(r) == /\ pc[r] = "find" /\ pc' = [pc EXCEPT ![r] = "read"]
                /\ LET devs == known \cap {job[r].op.id} IN
                     Begin(r, devs, {l \in devs : Needs(l) # <<>>})
                /\ UNCHANGED <<config, outside, untouched, counts, issued>>

(* A map with an entry set                                                 *)
With(m, k, v) == [x \in DOMAIN m \cup {k} |-> IF x = k THEN v ELSE m[x]]

(* Mutant of Dropped: the first error ends the listing.                    *)
DroppedAll(j, l) == [j EXCEPT !.left = {}, !.cur = None, !.read = Nothing]

(* A value does not parse: the lamp is left out.                           *)
Dropped(j, l) == [j EXCEPT !.left = @ \ {l}, !.cur = None, !.read = Nothing]

(* newWhiteBulb, newColorTemperatureBulb and newRGBBulb: the next value of *)
(* the lamp at hand, or the first of another one.                          *)
ReadFeature(r) ==
    /\ pc[r] = "read"
    /\ \E l \in IF job[r].cur = None THEN job[r].left ELSE {job[r].cur} :
         LET j == job[r]
             f == Needs(l)[Cardinality(DOMAIN j.read) + 1]
             read == With(j.read, f, ValueOf(l, f))
         IN  job' = [job EXCEPT ![r] =
               CASE ValueOf(l, f) = Garbage -> Dropped(j, l)
                 [] ValueOf(l, f) # Garbage /\ f # Needs(l)[Len(Needs(l))] ->
                      [j EXCEPT !.left = @ \ {l}, !.cur = l, !.read = read]
                 [] OTHER -> [Dropped(j, l) EXCEPT !.shown = With(@, l, read)]]
    /\ UNCHANGED <<config, outside, ghosts, pc, issued>>

(* The listing is complete.                                                *)
AllRead(r) == pc[r] = "read" /\ job[r].left = {} /\ job[r].cur = None

(* getGroups: only here the groups are counted.                            *)
CountGroups(r) == /\ AllRead(r) /\ job[r].op.kind = "groups"
                  /\ groups' = Cardinality(DOMAIN job[r].shown)
                  /\ pc' = [pc EXCEPT ![r] = "render"]
                  /\ UNCHANGED <<lights, outside, ghosts, job, issued>>

(* getConfigAndData: the first listing is for the lights, and createGroups *)
(* lists them again.                                                       *)
ListAgain(r) == /\ AllRead(r) /\ job[r].op.kind = "all" /\ job[r].pass = 1
                /\ job' = [job EXCEPT ![r].pass = 2, ![r].first = job[r].shown]
                /\ pc' = [pc EXCEPT ![r] = "list"]
                /\ UNCHANGED <<config, outside, ghosts, issued>>

(* getCapabilities reads the two counters without the lock.                *)
ReadLights(r) == /\ pc[r] = "lights" /\ pc' = [pc EXCEPT ![r] = "groups"]
                 /\ job' = [job EXCEPT ![r].lights = lights]
                 /\ UNCHANGED <<config, outside, ghosts, issued>>
ReadGroups(r) == /\ pc[r] = "groups" /\ pc' = [pc EXCEPT ![r] = "render"]
                 /\ job' = [job EXCEPT ![r].groups = groups]
                 /\ UNCHANGED <<config, outside, ghosts, issued>>

Complete(r) == \/ pc[r] = "render"
               \/ /\ AllRead(r) /\ job[r].op.kind # "groups"
                  /\ job[r].op.kind = "all" => job[r].pass = 2

Render(r) == /\ Complete(r) /\ pc' = [pc EXCEPT ![r] = "idle"]
             /\ job' = [job EXCEPT ![r] = Idle]
             /\ had' = [had EXCEPT ![r] = Nothing] /\ steady' = [steady EXCEPT ![r] = {}]
             /\ untouched' = [untouched EXCEPT ![r] = {}]
             /\ UNCHANGED <<config, outside, counts, issued>>

Lamps == \E l \in Light : \/ Appear(l) \/ Leave(l)
                          \/ \E f \in Features[l], v \in Value : Publish(l, f, v)
Run(r) == \/ List(r) \/ Count(r) \/ FindLight(r) \/ ReadFeature(r)
          \/ CountGroups(r) \/ ListAgain(r) \/ ReadLights(r) \/ ReadGroups(r) \/ Render(r)

Next == Lamps \/ \E r \in Request : Run(r) \/ \E op \in Op : Get(r, op)

Spec == Init /\ [][Next]_vars

------------------------------------------------------------------------------
(* Properties                                                              *)

(* Every value of a listing is one that its lamp had during that listing:  *)
(* nothing is left of an earlier one or of another lamp.                   *)
ShownWasThere ==
    \A r \in Request : pc[r] \in {"read", "render"} =>
        \A l \in DOMAIN job[r].shown : \A k \in DOMAIN Needs(l) :
            /\ <<l, Needs(l)[k]>> \in DOMAIN had[r]
            /\ job[r].shown[l][Needs(l)[k]] \in had[r][<<l, Needs(l)[k]>>]

(* A lamp that is known and can be read all the time of a listing is in    *)
(* it, whatever becomes of the others; the hidden ones only by their id.   *)
SteadyIsShown ==
    \A r \in Request : AllRead(r) =>
        (IF job[r].op.kind = "light" THEN steady[r] \cap {job[r].op.id} ELSE steady[r] \ Hidden)
            \subseteq DOMAIN job[r].shown

(* GET of everything shows the same lights and groups, but for lamps to    *)
(* which something happened in the meantime.                               *)
LightsMatchGroups ==
    \A r \in Request : Complete(r) /\ job[r].op.kind = "all" =>
        LET asLight == job[r].first  asGroup == job[r].shown
        IN  \A l \in untouched[r] :
                /\ l \in DOMAIN asLight <=> l \in DOMAIN asGroup
                /\ l \in DOMAIN asLight => asLight[l] = asGroup[l]

(* Listings that overlap may leave the older count, but once they are over *)
(* the number of lights is one of their counts and none from before.       *)
CountWasTrue == Counting = {} => lights \in counts
================================================================================
