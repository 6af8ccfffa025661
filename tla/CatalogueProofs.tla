----------------------------- MODULE CatalogueProofs -----------------------------
(***************************************************************************)
(* What a listing shows and what the counters count, for any lamps,        *)
(* features and requests, however many of them overlap.                    *)
(***************************************************************************)
EXTENDS Catalogue, FiniteSetTheorems, TLAPS

(* The first k of the values a lamp is listed with                         *)
First(l, k) == {Needs(l)[i] : i \in 1..k}

(* The lamps a listing has still to read, and those it will not lose       *)
Pending(r) == job[r].left \cup ({job[r].cur} \ {None})
Covered(r) == Pending(r) \cup DOMAIN job[r].shown

Listing(r) == pc[r] \in {"count", "read", "render"}

Shape ==
    /\ DOMAIN pc = Request /\ DOMAIN job = Request
    /\ DOMAIN had = Request /\ DOMAIN steady = Request /\ DOMAIN untouched = Request
    /\ known \subseteq Light /\ DOMAIN value = Light
    /\ \A l \in Light : DOMAIN value[l] = Features[l]
    /\ \A r \in Request : /\ DOMAIN job[r] = DOMAIN Idle
                          /\ steady[r] \subseteq Light /\ untouched[r] \subseteq Light

(* Where a request is agrees with what it asks for, and it has read a part *)
(* of the lamp at hand.                                                    *)
JobOK(r) ==
    /\ pc[r] \in {"list", "count"} => job[r].op.kind # "light"
    /\ pc[r] = "find" => job[r].op.kind = "light"
    /\ pc[r] \in {"lights", "groups", "render"} => job[r].op.kind # "all"
    /\ job[r].left \subseteq Light /\ job[r].cur \in Light \cup {None}
    /\ pc[r] # "read" => job[r].cur = None
    /\ job[r].cur = None => job[r].read = Nothing
    /\ job[r].cur # None => \E k \in 1..(Len(Needs(job[r].cur)) - 1) :
                               DOMAIN job[r].read = First(job[r].cur, k)
    /\ pc[r] \in {"idle", "find", "lights", "groups"} => job[r].shown = Nothing /\ job[r].left = {}
    /\ pc[r] \in {"idle", "find", "lights", "groups"} => job[r].pass = 1

(* What has been read is what the lamp had, and what it has now is         *)
(* recorded as such.                                                       *)
Was(r, l, vals) ==
    \A f \in DOMAIN vals : f \in Features[l] /\ vals[f] \in had[r][<<l, f>>]
HadOK(r) ==
    /\ \A l \in Covered(r) :
          /\ l \in Light /\ Needs(l) # <<>>
          /\ \A f \in Features[l] : <<l, f>> \in DOMAIN had[r] /\ value[l][f] \in had[r][<<l, f>>]
    /\ job[r].cur # None => Was(r, job[r].cur, job[r].read)
    /\ \A l \in DOMAIN job[r].shown : /\ DOMAIN job[r].shown[l] = First(l, Len(Needs(l)))
                                      /\ Was(r, l, job[r].shown[l])

(* No lamp that can be read is lost on the way.                            *)
Wanted(r) == IF job[r].op.kind = "light" THEN steady[r] \cap {job[r].op.id}
                                         ELSE steady[r] \ Hidden
SteadyOK(r) == /\ \A l \in steady[r] : Readable(l)
               /\ pc[r] \in {"count", "read"} => Wanted(r) \subseteq Covered(r)

(* A lamp nothing has happened to is in a complete listing exactly when it *)
(* can be seen and read, with the values it has.                           *)
Visible(l) == l \in known \ Hidden /\ Readable(l)
Rendering(l) == [f \in First(l, Len(Needs(l))) |-> value[l][f]]
MatchOK(r, l) ==
    /\ Listing(r) =>
          /\ Visible(l) => l \in Covered(r)
          /\ l \in Covered(r) => l \in known \ Hidden
          /\ l \in DOMAIN job[r].shown => Readable(l) /\ job[r].shown[l] = Rendering(l)
          /\ l = job[r].cur => \A f \in DOMAIN job[r].read :
                 f \in Features[l] /\ job[r].read[f] = value[l][f] /\ value[l][f] # Garbage
    /\ job[r].pass = 2 => /\ l \in DOMAIN job[r].first <=> Visible(l)
                          /\ l \in DOMAIN job[r].first => job[r].first[l] = Rendering(l)

RequestOK(r) == /\ JobOK(r) /\ SteadyOK(r)
                /\ Listing(r) => HadOK(r)
                /\ job[r].op.kind = "all" => \A l \in untouched[r] : MatchOK(r, l)

(* What is being counted is recorded.                                      *)
CountInv == /\ \A r \in Counting : Cardinality(job[r].devs) \in counts
            /\ CountWasTrue

Inv == Shape /\ CountInv /\ \A r \in Request : RequestOK(r)

------------------------------------------------------------------------------
(* The values a lamp is listed with: there are four at most, all different. *)

LEMMA NeedsShape ==
    ASSUME NEW l
    PROVE  /\ Len(Needs(l)) \in Nat /\ DOMAIN Needs(l) = 1..Len(Needs(l))
           /\ Needs(l) # <<>> => Len(Needs(l)) > 1
           /\ \A i, j \in 1..Len(Needs(l)) : Needs(l)[i] = Needs(l)[j] => i = j
<1>1. CASE Needs(l) = <<"on", "brightness", "hue", "saturation">>
  BY <1>1
<1>2. CASE Needs(l) = <<"on", "brightness", "colorTemperature">>
  BY <1>2
<1>3. CASE Needs(l) = <<"on", "brightness">>
  BY <1>3
<1>4. CASE Needs(l) = <<>>
  BY <1>4
<1> QED BY <1>1, <1>2, <1>3, <1>4 DEF Needs

LEMMA FirstCounted ==
    ASSUME NEW l, NEW k \in 0..Len(Needs(l))
    PROVE  Cardinality(First(l, k)) = k
<1> DEFINE f == [i \in 1..k |-> Needs(l)[i]]
<1>1. k \in Nat /\ \A i, j \in 1..k : Needs(l)[i] = Needs(l)[j] => i = j
  BY NeedsShape
<1>2. f \in Bijection(1..k, First(l, k))
  BY <1>1 DEF Bijection, Injection, Surjection, IsInjective, First
<1>3. ExistsBijection(1..k, First(l, k))
  <2> HIDE DEF f
  <2> QED BY <1>2 DEF ExistsBijection
<1> QED BY <1>1, <1>3, FS_CountingElements

(* Nothing has been read, or the first few.                                *)
LEMMA FirstFacts ==
    ASSUME NEW l
    PROVE  /\ DOMAIN Nothing = {} /\ First(l, 0) = {}
           /\ \A k \in Nat : First(l, k + 1) = First(l, k) \cup {Needs(l)[k + 1]}
           /\ \A k \in 1..Len(Needs(l)) : First(l, k) # {}
<1>1. DOMAIN Nothing = {} /\ First(l, 0) = {}
  BY DEF Nothing, First
<1>2. \A k \in Nat : First(l, k + 1) = First(l, k) \cup {Needs(l)[k + 1]}
  BY DEF First
<1>3. \A k \in 1..Len(Needs(l)) : First(l, k) # {}
  BY NeedsShape DEF First
<1> QED BY <1>1, <1>2, <1>3

(* The initial states                                                      *)
LEMMA InitInv == Init => Inv
<1> SUFFICES ASSUME Init PROVE Inv
  OBVIOUS
<1>1. PICK found \in AsFound : known = found.known /\ value = found.value
  BY DEF Init
<1>2. Shape
  BY <1>1, CatalogueAssumption DEF Init, Shape
<1>3. \A r \in Request : RequestOK(r)
  BY CatalogueAssumption DEF Init, RequestOK, JobOK, SteadyOK, Listing, Idle
<1>4. CountInv
  BY DEF Init, CountInv, CountWasTrue, Counting
<1> QED BY <1>2, <1>3, <1>4 DEF Inv

------------------------------------------------------------------------------
(* The steps of the requests                                               *)

(* A request that is left alone, while the lamps are, is as it was.        *)
LEMMA Others ==
    ASSUME NEW q \in Request, RequestOK(q), UNCHANGED <<known, value>>,
           pc'[q] = pc[q], job'[q] = job[q], had'[q] = had[q],
           steady'[q] = steady[q], untouched'[q] = untouched[q]
    PROVE  RequestOK(q)'
<1>1. \A l : Readable(l)' <=> Readable(l)
  BY DEF Readable, ValueOf
<1>2. \A l : Rendering(l)' = Rendering(l)
  BY DEF Rendering
<1>3. Covered(q)' = Covered(q)
  BY DEF Covered, Pending
<1>4. JobOK(q)' /\ SteadyOK(q)'
  BY <1>1, <1>3 DEF RequestOK, JobOK, SteadyOK, Wanted
<1>5. (Listing(q) => HadOK(q))'
  BY <1>3 DEF RequestOK, Listing, HadOK, Was
<1>6. \A l : MatchOK(q, l)' <=> MatchOK(q, l)
  BY <1>1, <1>2, <1>3 DEF MatchOK, Listing, Visible
<1> QED BY <1>4, <1>5, <1>6 DEF RequestOK

(* A request comes in.                                                     *)
LEMMA GetKeeps ==
    ASSUME Inv, NEW r \in Request, NEW op \in Op, Get(r, op) PROVE Inv'
<1>1. Shape'
  BY DEF Inv, Shape, Get, config, outside, Idle
<1>2. CountInv'
  BY DEF Inv, Shape, Get, config, CountInv, CountWasTrue, Counting
<1>3. ASSUME NEW q \in Request, q # r PROVE RequestOK(q)'
  BY <1>3, Others DEF Inv, Shape, Get, outside
<1>4. RequestOK(r)'
  <2>1. /\ pc'[r] \in {"find", "lights", "list"}
        /\ pc'[r] = "find" <=> op.kind = "light"
        /\ pc'[r] = "lights" <=> op.kind = "capabilities"
        /\ pc[r] = "idle" /\ job'[r] = [job[r] EXCEPT !.op = op]
        /\ UNCHANGED <<value, had, steady>>
    BY DEF Inv, Shape, Get, outside
  <2>2. job'[r].op = op /\ \A f \in DOMAIN Idle : f # "op" => job'[r][f] = job[r][f]
    BY <2>1 DEF Inv, Shape, Idle
  <2>3. JobOK(r)'
    BY <2>1, <2>2 DEF Inv, RequestOK, JobOK, Idle
  <2>4. SteadyOK(r)'
    BY <2>1 DEF Inv, RequestOK, SteadyOK, Readable, ValueOf
  <2>5. ~Listing(r)' /\ job'[r].pass = 1
    BY <2>1, <2>3 DEF Listing, Inv, RequestOK, JobOK, Idle
  <2> QED BY <2>3, <2>4, <2>5 DEF RequestOK, MatchOK
<1> QED BY <1>1, <1>2, <1>3, <1>4 DEF Inv

(* What Begin does: a new map, an entry in had for each value of the lamps *)
(* to be listed.                                                           *)
LEMMA BeginFacts ==
    ASSUME Shape, NEW r \in Request, NEW devs, NEW left, left \subseteq Light,
           Begin(r, devs, left)
    PROVE  /\ DOMAIN job' = Request /\ DOMAIN had' = Request /\ DOMAIN steady' = Request
           /\ \A q \in Request : q # r => /\ job'[q] = job[q] /\ had'[q] = had[q]
                                          /\ steady'[q] = steady[q]
           /\ DOMAIN job'[r] = DOMAIN Idle
           /\ job'[r].devs = devs /\ job'[r].left = left /\ job'[r].shown = Nothing
           /\ \A f \in DOMAIN Idle \ {"devs", "left", "shown"} : job'[r][f] = job[r][f]
           /\ \A l \in left : \A f \in Features[l] :
                 <<l, f>> \in DOMAIN had'[r] /\ value[l][f] \in had'[r][<<l, f>>]
           /\ steady'[r] = {l \in known : Readable(l)}
<1>1. /\ DOMAIN job' = Request /\ DOMAIN had' = Request /\ DOMAIN steady' = Request
      /\ \A q \in Request : q # r => /\ job'[q] = job[q] /\ had'[q] = had[q]
                                     /\ steady'[q] = steady[q]
      /\ steady'[r] = {l \in known : Readable(l)}
  BY DEF Begin, Shape
<1>2. job'[r] = [job[r] EXCEPT !.devs = devs, !.left = left, !.shown = Nothing]
  BY DEF Begin, Shape
<1>3. /\ DOMAIN job'[r] = DOMAIN Idle
      /\ job'[r].devs = devs /\ job'[r].left = left /\ job'[r].shown = Nothing
      /\ \A f \in DOMAIN Idle \ {"devs", "left", "shown"} : job'[r][f] = job[r][f]
  BY <1>2 DEF Shape, Idle
<1>4. ASSUME NEW l \in left, NEW f \in Features[l]
      PROVE  <<l, f>> \in DOMAIN had'[r] /\ value[l][f] \in had'[r][<<l, f>>]
  <2> DEFINE D == UNION {{m} \X Features[m] : m \in left}
  <2>1. had'[r] = [p \in D |-> {value[p[1]][p[2]]}]
    BY DEF Begin, Shape
  <2>2. <<l, f>> \in {l} \X Features[l] /\ {l} \X Features[l] \in {{m} \X Features[m] : m \in left}
    BY <1>4
  <2>3. <<l, f>> \in D
    BY <2>2
  <2> HIDE DEF D
  <2> QED BY <2>1, <2>3
<1> QED BY <1>1, <1>3, <1>4

(* The listing starts with the devices there are.                          *)
LEMMA ListKeeps ==
    ASSUME Inv, NEW r \in Request, List(r) PROVE Inv'
<1>1. /\ pc[r] = "list" /\ pc' = [pc EXCEPT ![r] = "count"]
      /\ Begin(r, known, Listed(known))
      /\ counts' = (IF Counting = {} THEN {} ELSE counts) \cup {Cardinality(known)}
      /\ UNCHANGED <<lights, groups, known, value, changes, untouched, issued>>
  BY DEF List, config, outside
<1>2. Shape /\ Listed(known) \subseteq Light
  BY DEF Inv, Shape, Listed
<1> DEFINE left == Listed(known)
<1>3. /\ DOMAIN job' = Request /\ DOMAIN had' = Request /\ DOMAIN steady' = Request
      /\ \A q \in Request : q # r => /\ job'[q] = job[q] /\ had'[q] = had[q]
                                     /\ steady'[q] = steady[q] /\ pc'[q] = pc[q]
      /\ DOMAIN job'[r] = DOMAIN Idle
      /\ job'[r].devs = known /\ job'[r].left = left /\ job'[r].shown = Nothing
      /\ \A f \in DOMAIN Idle \ {"devs", "left", "shown"} : job'[r][f] = job[r][f]
      /\ \A l \in left : \A f \in Features[l] :
            <<l, f>> \in DOMAIN had'[r] /\ value[l][f] \in had'[r][<<l, f>>]
      /\ steady'[r] = {l \in known : Readable(l)}
      /\ pc'[r] = "count" /\ DOMAIN pc' = Request
  BY <1>1, <1>2, BeginFacts DEF Shape
<1>4. Shape'
  BY <1>1, <1>2, <1>3 DEF Shape
<1>5. CountInv'
  BY <1>1, <1>3 DEF Inv, CountInv, CountWasTrue, Counting
<1>6. ASSUME NEW q \in Request, q # r PROVE RequestOK(q)'
  BY <1>1, <1>3, <1>6, Others DEF Inv
<1>7. RequestOK(r)'
  <2>1. /\ job'[r].op = job[r].op /\ job'[r].cur = None /\ job'[r].read = Nothing
        /\ job'[r].pass = job[r].pass /\ job'[r].first = job[r].first
        /\ job[r].op.kind # "light"
    BY <1>1, <1>3 DEF Inv, RequestOK, JobOK, Idle
  <2>2. JobOK(r)'
    BY <1>2, <1>3, <2>1 DEF JobOK
  <2>3. Covered(r)' = left
    BY <1>3, <2>1 DEF Covered, Pending, Nothing
  <2>4. \A l \in left : l \in known \ Hidden /\ l \in Light /\ Needs(l) # <<>>
    BY <1>2 DEF Listed
  <2>5. \A l \in known \ Hidden : Readable(l) => l \in left
    BY DEF Listed, Readable
  <2>6. \A l : Readable(l)' <=> Readable(l)
    BY <1>1 DEF Readable, ValueOf
  <2>7. SteadyOK(r)'
    BY <1>3, <2>1, <2>3, <2>5, <2>6 DEF SteadyOK, Wanted
  <2>8. HadOK(r)'
    BY <1>1, <1>3, <2>1, <2>3, <2>4 DEF HadOK, Nothing
  <2>9. ASSUME NEW l \in untouched'[r], job'[r].op.kind = "all" PROVE MatchOK(r, l)'
    <3>1. MatchOK(r, l)
      BY <1>1, <2>1, <2>9 DEF Inv, RequestOK
    <3>2. Rendering(l)' = Rendering(l) /\ (Visible(l)' <=> Visible(l))
      BY <1>1, <2>6 DEF Rendering, Visible
    <3>3. Visible(l)' => l \in Covered(r)'
      BY <2>3, <2>5, <2>6, <1>1 DEF Visible
    <3>4. l \in Covered(r)' => l \in known' \ Hidden
      BY <1>1, <2>3, <2>4
    <3>5. l # job'[r].cur
      BY <2>1, <2>9, <1>4, CatalogueAssumption DEF Shape
    <3> QED BY <1>3, <2>1, <3>1, <3>2, <3>3, <3>4, <3>5 DEF MatchOK, Nothing
  <2> QED BY <2>2, <2>7, <2>8, <2>9 DEF RequestOK
<1> QED BY <1>4, <1>5, <1>6, <1>7 DEF Inv

(* The one lamp asked for                                                  *)
LEMMA FindLightKeeps ==
    ASSUME Inv, NEW r \in Request, FindLight(r) PROVE Inv'
<1> DEFINE devs == known \cap {job[r].op.id}
           left == {l \in devs : Needs(l) # <<>>}
<1>1. /\ pc[r] = "find" /\ pc' = [pc EXCEPT ![r] = "read"]
      /\ Begin(r, devs, left)
      /\ UNCHANGED <<lights, groups, known, value, changes, untouched, counts, issued>>
  BY DEF FindLight, config, outside
<1>2. Shape /\ left \subseteq Light
  BY DEF Inv, Shape
<1>3. /\ DOMAIN job' = Request /\ DOMAIN had' = Request /\ DOMAIN steady' = Request
      /\ \A q \in Request : q # r => /\ job'[q] = job[q] /\ had'[q] = had[q]
                                     /\ steady'[q] = steady[q] /\ pc'[q] = pc[q]
      /\ DOMAIN job'[r] = DOMAIN Idle
      /\ job'[r].left = left /\ job'[r].shown = Nothing
      /\ \A f \in DOMAIN Idle \ {"devs", "left", "shown"} : job'[r][f] = job[r][f]
      /\ \A l \in left : \A f \in Features[l] :
            <<l, f>> \in DOMAIN had'[r] /\ value[l][f] \in had'[r][<<l, f>>]
      /\ steady'[r] = {l \in known : Readable(l)}
      /\ pc'[r] = "read" /\ DOMAIN pc' = Request
  <2> HIDE DEF devs, left
  <2> QED BY <1>1, <1>2, BeginFacts DEF Shape
<1>4. Shape'
  BY <1>1, <1>2, <1>3 DEF Shape
<1>5. CountInv'
  BY <1>1, <1>3 DEF Inv, CountInv, CountWasTrue, Counting
<1>6. ASSUME NEW q \in Request, q # r PROVE RequestOK(q)'
  BY <1>1, <1>3, <1>6, Others DEF Inv
<1>7. RequestOK(r)'
  <2>1. /\ job'[r].op = job[r].op /\ job'[r].cur = None /\ job'[r].read = Nothing
        /\ job[r].op.kind = "light"
    BY <1>1, <1>3 DEF Inv, RequestOK, JobOK, Idle
  <2>2. JobOK(r)'
    BY <1>2, <1>3, <2>1 DEF JobOK
  <2>3. Covered(r)' = left
    BY <1>3, <2>1 DEF Covered, Pending, Nothing
  <2>4. \A l : Readable(l)' <=> Readable(l)
    BY <1>1 DEF Readable, ValueOf
  <2>5. \A l \in known \cap {job[r].op.id} : Readable(l) => l \in left
    BY DEF Readable
  <2>6. SteadyOK(r)'
    <3> HIDE DEF left, devs
    <3> QED BY <1>3, <2>1, <2>3, <2>4, <2>5 DEF SteadyOK, Wanted
  <2>7. HadOK(r)'
    BY <1>1, <1>2, <1>3, <2>1, <2>3 DEF HadOK, Nothing
  <2> QED BY <2>1, <2>2, <2>6, <2>7 DEF RequestOK
<1> QED BY <1>4, <1>5, <1>6, <1>7 DEF Inv

(* A step that only moves on, and changes nothing that is listed           *)
Moves(r) ==
    /\ DOMAIN pc' = Request /\ \A q \in Request : q # r => pc'[q] = pc[q]
    /\ UNCHANGED <<known, value, had, steady, untouched, counts>>
    /\ DOMAIN job' = Request /\ \A q \in Request : q # r => job'[q] = job[q]
    /\ DOMAIN job'[r] = DOMAIN Idle
LEMMA MovesKeep ==
    ASSUME Inv, NEW r \in Request, Moves(r), RequestOK(r)', CountInv' PROVE Inv'
<1>1. Shape'
  BY DEF Inv, Shape, Moves
<1>2. ASSUME NEW q \in Request, q # r PROVE RequestOK(q)'
  BY <1>2, Others DEF Inv, Moves
<1> QED BY <1>1, <1>2 DEF Inv

(* The lamps are counted.                                                  *)
LEMMA CountKeeps ==
    ASSUME Inv, NEW r \in Request, Count(r) PROVE Inv'
<1>1. /\ pc[r] = "count" /\ pc'[r] = "read" /\ job'[r] = job[r] /\ Moves(r)
      /\ lights' = Cardinality(job[r].devs) /\ UNCHANGED job
  BY DEF Inv, Shape, Count, Moves, outside, ghosts
<1>2. CountInv'
  BY <1>1 DEF Inv, CountInv, CountWasTrue, Counting, Moves
<1>3. RequestOK(r)'
  <2>1. Covered(r)' = Covered(r) /\ \A l : Readable(l)' <=> Readable(l)
    BY <1>1 DEF Covered, Pending, Readable, ValueOf, Moves
  <2>2. JobOK(r)' /\ SteadyOK(r)'
    BY <1>1, <2>1 DEF Inv, RequestOK, JobOK, SteadyOK, Wanted, Moves
  <2>3. HadOK(r)'
    BY <1>1, <2>1 DEF Inv, RequestOK, Listing, HadOK, Was, Moves
  <2>4. \A l : MatchOK(r, l) => MatchOK(r, l)'
    BY <1>1, <2>1 DEF MatchOK, Listing, Visible, Rendering, Moves
  <2> QED BY <1>1, <2>2, <2>3, <2>4 DEF Inv, RequestOK, Moves
<1> QED BY <1>1, <1>2, <1>3, MovesKeep

(* The next value of a lamp: it is one of the lamps to be read, its first  *)
(* k values are there, and the next one is asked for.                      *)
LEMMA NextValue ==
    ASSUME Inv, NEW r \in Request, pc[r] = "read",
           NEW l \in IF job[r].cur = None THEN job[r].left ELSE {job[r].cur}
    PROVE  LET k == Cardinality(DOMAIN job[r].read)
           IN  /\ l \in Pending(r) /\ l \in Light /\ l # None /\ Needs(l) # <<>>
               /\ k \in Nat /\ k + 1 \in 1..Len(Needs(l)) /\ DOMAIN job[r].read = First(l, k)
               /\ DOMAIN job[r].read # {} => l = job[r].cur
               /\ Needs(l)[k + 1] \notin DOMAIN job[r].read
<1> DEFINE k == Cardinality(DOMAIN job[r].read)
<1>1. RequestOK(r) /\ Listing(r)
  BY DEF Inv, Listing
<1>2. l \in Pending(r) /\ l \in Light /\ l # None /\ Needs(l) # <<>>
  <2>1. l \in Pending(r) /\ l \in Light /\ l # None
    BY <1>1, CatalogueAssumption DEF RequestOK, JobOK, Pending
  <2> QED BY <1>1, <2>1 DEF RequestOK, HadOK, Covered
<1>3. Len(Needs(l)) \in Nat /\ Len(Needs(l)) > 1
  BY <1>2, NeedsShape
<1>4. \E n \in 0..(Len(Needs(l)) - 1) : DOMAIN job[r].read = First(l, n)
  <2>1. CASE job[r].cur = None
    <3>1. DOMAIN job[r].read = First(l, 0)
      BY <1>1, <2>1, FirstFacts DEF RequestOK, JobOK
    <3> QED BY <1>3, <3>1
  <2>2. CASE job[r].cur # None
    BY <1>1, <1>3, <2>2 DEF RequestOK, JobOK
  <2> QED BY <2>1, <2>2
<1>5. PICK n \in 0..(Len(Needs(l)) - 1) : DOMAIN job[r].read = First(l, n)
  BY <1>4
<1>6. n = k
  BY <1>3, <1>5, FirstCounted
<1>7. DOMAIN job[r].read # {} => l = job[r].cur
  BY <1>1, FirstFacts DEF RequestOK, JobOK
<1>8. Needs(l)[k + 1] \notin DOMAIN job[r].read
  <2> SUFFICES ASSUME NEW i \in 1..n, Needs(l)[n + 1] = Needs(l)[i] PROVE FALSE
    BY <1>5, <1>6 DEF First
  <2>1. n + 1 \in 1..Len(Needs(l)) /\ i \in 1..Len(Needs(l)) /\ i # n + 1
    BY <1>3
  <2> QED BY <2>1, NeedsShape
<1> HIDE DEF k
<1> QED BY <1>2, <1>3, <1>5, <1>6, <1>7, <1>8 DEF k

(* The steps of a lamp that is being read keep what does not depend on how *)
(* the read goes.                                                          *)
LEMMA ReadKeeps ==
    ASSUME Inv, NEW r \in Request, ReadFeature(r) PROVE Inv'
<1>1. PICK l \in IF job[r].cur = None THEN job[r].left ELSE {job[r].cur} :
         LET j == job[r]
             f == Needs(l)[Cardinality(DOMAIN j.read) + 1]
             read == With(j.read, f, ValueOf(l, f))
         IN  job' = [job EXCEPT ![r] =
               CASE ValueOf(l, f) = Garbage -> Dropped(j, l)
                 [] ValueOf(l, f) # Garbage /\ f # Needs(l)[Len(Needs(l))] ->
                      [j EXCEPT !.left = @ \ {l}, !.cur = l, !.read = read]
                 [] OTHER -> [Dropped(j, l) EXCEPT !.shown = With(@, l, read)]]
  BY DEF ReadFeature
<1> DEFINE j == job[r]
           k == Cardinality(DOMAIN j.read)
           f == Needs(l)[k + 1]
           read == With(j.read, f, ValueOf(l, f))
           n == Len(Needs(l))
<1>2. /\ pc[r] = "read"
      /\ UNCHANGED <<lights, groups, known, value, changes, had, steady, untouched, counts, pc, issued>>
  BY DEF ReadFeature, config, outside, ghosts
<1>3. /\ l \in Pending(r) /\ l \in Light /\ l # None /\ Needs(l) # <<>>
      /\ k \in Nat /\ k + 1 \in 1..n /\ DOMAIN j.read = First(l, k)
      /\ DOMAIN j.read # {} => l = j.cur
      /\ f \notin DOMAIN j.read
  BY <1>2, NextValue
<1>4. /\ DOMAIN read = First(l, k + 1) /\ read[f] = ValueOf(l, f)
      /\ \A g \in First(l, k) : read[g] = j.read[g]
      /\ f \in First(l, k + 1) /\ f \notin First(l, k)
  <2>1. First(l, k + 1) = First(l, k) \cup {f}
    BY <1>3, FirstFacts
  <2> HIDE DEF f, k, j
  <2>2. /\ DOMAIN read = DOMAIN j.read \cup {f} /\ read[f] = ValueOf(l, f)
        /\ \A g \in DOMAIN j.read : g # f => read[g] = j.read[g]
    BY DEF With
  <2> QED BY <1>3, <2>1, <2>2
<1>5. /\ RequestOK(r) /\ JobOK(r) /\ SteadyOK(r) /\ HadOK(r) /\ Shape
  BY <1>2 DEF Inv, RequestOK, Listing
<1>6. ValueOf(l, f) # Garbage => f \in Features[l] /\ ValueOf(l, f) = value[l][f]
  BY DEF ValueOf
<1>7. /\ f = Needs(l)[n] <=> k + 1 = n
      /\ n \in Nat /\ n > 1
  BY <1>3, NeedsShape
<1>8. Readable(l) => ValueOf(l, f) # Garbage
  BY <1>3, NeedsShape DEF Readable
<1> DEFINE d == Dropped(j, l)
           p == [j EXCEPT !.left = @ \ {l}, !.cur = l, !.read = read]
           c == [Dropped(j, l) EXCEPT !.shown = With(@, l, read)]
<1>19. /\ DOMAIN d = DOMAIN Idle /\ DOMAIN p = DOMAIN Idle /\ DOMAIN c = DOMAIN Idle
       /\ d.left = j.left \ {l} /\ d.cur = None /\ d.read = Nothing /\ d.shown = j.shown
       /\ p.left = j.left \ {l} /\ p.cur = l /\ p.read = read /\ p.shown = j.shown
       /\ c.left = j.left \ {l} /\ c.cur = None /\ c.read = Nothing
       /\ c.shown = With(j.shown, l, read)
       /\ d.op = j.op /\ d.pass = j.pass /\ d.devs = j.devs /\ d.first = j.first
       /\ p.op = j.op /\ p.pass = j.pass /\ p.devs = j.devs /\ p.first = j.first
       /\ c.op = j.op /\ c.pass = j.pass /\ c.devs = j.devs /\ c.first = j.first
  <2>1. DOMAIN j = DOMAIN Idle
    BY <1>5 DEF Shape
  <2> HIDE DEF read, j
  <2>2. /\ DOMAIN d = DOMAIN Idle
        /\ d.left = j.left \ {l} /\ d.cur = None /\ d.read = Nothing /\ d.shown = j.shown
        /\ d.op = j.op /\ d.pass = j.pass /\ d.devs = j.devs /\ d.first = j.first
    BY <2>1 DEF d, Dropped, Idle
  <2>3. /\ DOMAIN p = DOMAIN Idle
        /\ p.left = j.left \ {l} /\ p.cur = l /\ p.read = read /\ p.shown = j.shown
        /\ p.op = j.op /\ p.pass = j.pass /\ p.devs = j.devs /\ p.first = j.first
    BY <2>1 DEF p, Idle
  <2>4. /\ c = [d EXCEPT !.shown = With(@, l, read)]
        /\ DOMAIN c = DOMAIN Idle /\ c.shown = With(j.shown, l, read)
        /\ c.left = d.left /\ c.cur = d.cur /\ c.read = d.read
        /\ c.op = d.op /\ c.pass = d.pass /\ c.devs = d.devs /\ c.first = d.first
    <3>1. c = [d EXCEPT !.shown = With(@, l, read)]
      BY DEF c, d
    <3> HIDE DEF c, d
    <3> QED BY <2>2, <3>1 DEF Idle
  <2> QED BY <2>2, <2>3, <2>4
<1>20. /\ DOMAIN job' = Request /\ \A q \in Request : q # r => job'[q] = job[q]
       /\ ValueOf(l, f) = Garbage => job'[r] = d
       /\ ValueOf(l, f) # Garbage /\ k + 1 # n => job'[r] = p
       /\ ValueOf(l, f) # Garbage /\ k + 1 = n => job'[r] = c
  <2>1. job' = [job EXCEPT ![r] = CASE ValueOf(l, f) = Garbage -> d
                                    [] ValueOf(l, f) # Garbage /\ f # Needs(l)[n] -> p
                                    [] OTHER -> c]
    BY <1>1
  <2> HIDE DEF d, p, c, f, k, n
  <2> QED BY <1>5, <1>7, <2>1 DEF Shape
<1> HIDE DEF d, p, c
<1>9. Moves(r)
  BY <1>2, <1>5, <1>19, <1>20 DEF Moves, Shape
<1>10. CountInv'
  <2>1. job'[r].devs = job[r].devs
    BY <1>19, <1>20
  <2> QED BY <1>2, <1>9, <2>1 DEF Inv, CountInv, CountWasTrue, Counting, Moves
<1>11. job'[r].op = j.op /\ job'[r].pass = j.pass /\ job'[r].first = j.first
       /\ job'[r].left = j.left \ {l}
  BY <1>19, <1>20
<1>12. \A m : /\ Readable(m)' <=> Readable(m)
              /\ Visible(m)' <=> Visible(m)
              /\ Rendering(m)' = Rendering(m)
  BY <1>2 DEF Readable, Visible, Rendering, ValueOf
<1>13. \A m \in Pending(r) : m # l => m \in j.left
  BY <1>3, <1>5 DEF Pending, JobOK
<1>14. l \in Covered(r)
  BY <1>3 DEF Covered
<1>15. ASSUME ValueOf(l, f) # Garbage
       PROVE  /\ Was(r, l, read)
              /\ \A g \in DOMAIN read : l \in untouched[r] /\ j.op.kind = "all" =>
                    g \in Features[l] /\ read[g] = value[l][g] /\ value[l][g] # Garbage
  <2>1. ASSUME NEW g \in First(l, k)
        PROVE  /\ g \in Features[l] /\ read[g] \in had[r][<<l, g>>]
               /\ l \in untouched[r] /\ j.op.kind = "all" =>
                     read[g] = value[l][g] /\ value[l][g] # Garbage
    <3>1. l = j.cur /\ g \in DOMAIN j.read /\ read[g] = j.read[g]
      BY <1>3, <1>4, <2>1
    <3>2. Was(r, l, j.read)
      BY <1>3, <1>5, <3>1 DEF HadOK
    <3>3. l \in untouched[r] /\ j.op.kind = "all" => MatchOK(r, l)
      BY <1>5 DEF RequestOK
    <3> QED BY <1>2, <3>1, <3>2, <3>3 DEF Was, MatchOK, Listing
  <2>2. f \in Features[l] /\ read[f] = value[l][f] /\ value[l][f] # Garbage
        /\ read[f] \in had[r][<<l, f>>]
    BY <1>4, <1>5, <1>6, <1>14, <1>15 DEF HadOK
  <2>3. \A g \in DOMAIN read : g \in First(l, k) \/ g = f
    BY <1>3, <1>4, FirstFacts
  <2> HIDE DEF read, f, k
  <2> QED BY <2>1, <2>2, <2>3 DEF Was
<1>16. CASE ValueOf(l, f) = Garbage
  <2>1. /\ job'[r].cur = None /\ job'[r].read = Nothing /\ job'[r].shown = j.shown
    BY <1>16, <1>19, <1>20
  <2>2. Covered(r)' \subseteq Covered(r) /\ \A m \in Covered(r) : m # l => m \in Covered(r)'
    BY <1>11, <1>13, <2>1 DEF Covered, Pending
  <2>3. JobOK(r)'
    BY <1>2, <1>5, <1>11, <2>1 DEF JobOK
  <2>4. SteadyOK(r)'
    BY <1>2, <1>5, <1>8, <1>11, <1>12, <1>16, <2>2 DEF SteadyOK, Wanted
  <2>5. HadOK(r)'
    BY <1>2, <1>5, <2>1, <2>2 DEF HadOK, Was
  <2>6. ASSUME NEW m \in untouched[r], j.op.kind = "all" PROVE MatchOK(r, m)'
    <3>1. MatchOK(r, m) /\ m # None
      BY <1>5, <2>6, CatalogueAssumption DEF RequestOK, Shape
    <3>2. Visible(m) => m # l
      BY <1>8, <1>16 DEF Visible
    <3> QED BY <1>2, <1>11, <1>12, <2>1, <2>2, <3>1, <3>2 DEF MatchOK, Listing
  <2>7. RequestOK(r)'
    BY <1>2, <1>11, <2>3, <2>4, <2>5, <2>6 DEF RequestOK
  <2> QED BY <1>9, <1>10, <2>7, MovesKeep
<1>17. CASE ValueOf(l, f) # Garbage /\ k + 1 # n
  <2>1. /\ job'[r].cur = l /\ job'[r].read = read /\ job'[r].shown = j.shown
    BY <1>17, <1>19, <1>20
  <2>2. Covered(r)' = Covered(r)
    <3> HIDE DEF read
    <3> QED BY <1>3, <1>11, <1>13, <2>1 DEF Covered, Pending
  <2>3. JobOK(r)'
    <3>1. k + 1 \in 1..(n - 1)
      BY <1>3, <1>7, <1>17
    <3> HIDE DEF read, k, n
    <3> QED BY <1>2, <1>3, <1>4, <1>5, <1>11, <2>1, <3>1 DEF JobOK, n
  <2>4. SteadyOK(r)'
    BY <1>2, <1>5, <1>11, <1>12, <2>2 DEF SteadyOK, Wanted
  <2>5. HadOK(r)'
    <3> HIDE DEF read
    <3> QED BY <1>2, <1>5, <1>15, <1>17, <2>1, <2>2 DEF HadOK, Was
  <2>6. ASSUME NEW m \in untouched[r], j.op.kind = "all" PROVE MatchOK(r, m)'
    <3>1. MatchOK(r, m)
      BY <1>5, <2>6 DEF RequestOK
    <3>2. m = l => \A g \in DOMAIN read :
             g \in Features[l] /\ read[g] = value[l][g] /\ value[l][g] # Garbage
      BY <1>15, <1>17, <2>6
    <3> HIDE DEF read
    <3> QED BY <1>2, <1>11, <1>12, <2>1, <2>2, <3>1, <3>2 DEF MatchOK, Listing
  <2>7. RequestOK(r)'
    BY <1>2, <1>11, <2>3, <2>4, <2>5, <2>6 DEF RequestOK
  <2> QED BY <1>9, <1>10, <2>7, MovesKeep
<1>18. CASE ValueOf(l, f) # Garbage /\ k + 1 = n
  <2>1. /\ job'[r].cur = None /\ job'[r].read = Nothing /\ job'[r].shown = With(j.shown, l, read)
    BY <1>18, <1>19, <1>20
  <2> DEFINE shown == job'[r].shown
  <2>2. /\ DOMAIN shown = DOMAIN j.shown \cup {l} /\ shown[l] = read
        /\ \A m \in DOMAIN j.shown : m # l => shown[m] = j.shown[m]
    <3> HIDE DEF read, j
    <3> QED BY <2>1 DEF shown, With
  <2> HIDE DEF read, shown
  <2>3. Covered(r)' = Covered(r)
    BY <1>3, <1>11, <1>13, <1>14, <2>1, <2>2 DEF Covered, Pending, shown
  <2>4. JobOK(r)'
    BY <1>2, <1>5, <1>11, <2>1 DEF JobOK
  <2>5. SteadyOK(r)'
    BY <1>2, <1>5, <1>11, <1>12, <2>3 DEF SteadyOK, Wanted
  <2>6. DOMAIN read = First(l, n)
    BY <1>4, <1>18
  <2>7. HadOK(r)'
    <3> HIDE DEF n
    <3> QED BY <1>2, <1>5, <1>15, <1>18, <2>1, <2>2, <2>3, <2>6 DEF HadOK, Was, shown, n
  <2>8. ASSUME NEW m \in untouched[r], j.op.kind = "all" PROVE MatchOK(r, m)'
    <3>1. MatchOK(r, m) /\ m # None
      BY <1>5, <2>8, CatalogueAssumption DEF RequestOK, Shape
    <3>2. m = l => Readable(l) /\ read = Rendering(l)
      <4> SUFFICES ASSUME m = l PROVE Readable(l) /\ read = Rendering(l)
        OBVIOUS
      <4>1. \A g \in First(l, n) :
               g \in Features[l] /\ read[g] = value[l][g] /\ value[l][g] # Garbage
        BY <1>15, <1>18, <2>6, <2>8
      <4>2. Readable(l)
        BY <1>3, <4>1, NeedsShape DEF Readable, ValueOf, First
      <4>3. read = Rendering(l)
        <5>1. read = [g \in DOMAIN read |-> read[g]]
          BY DEF read, With
        <5> QED BY <2>6, <4>1, <5>1 DEF Rendering
      <4> QED BY <4>2, <4>3
    <3> QED BY <1>2, <1>11, <1>12, <2>1, <2>2, <2>3, <3>1, <3>2 DEF MatchOK, Listing, shown
  <2>9. RequestOK(r)'
    BY <1>2, <1>11, <2>4, <2>5, <2>7, <2>8 DEF RequestOK
  <2> QED BY <1>9, <1>10, <2>9, MovesKeep
<1> QED BY <1>16, <1>17, <1>18

(* The groups are counted, from what has been read.                        *)
LEMMA CountGroupsKeeps ==
    ASSUME Inv, NEW r \in Request, CountGroups(r) PROVE Inv'
<1>1. /\ pc[r] = "read" /\ pc'[r] = "render" /\ job[r].op.kind = "groups" /\ job[r].cur = None
      /\ UNCHANGED <<lights, job>> /\ Moves(r)
  BY DEF Inv, Shape, CountGroups, AllRead, Moves, outside, ghosts
<1>2. CountInv'
  BY <1>1 DEF Inv, CountInv, CountWasTrue, Counting, Moves
<1>3. RequestOK(r)'
  <2>1. Covered(r)' = Covered(r) /\ \A l : Readable(l)' <=> Readable(l)
    BY <1>1 DEF Covered, Pending, Readable, ValueOf, Moves
  <2>2. JobOK(r)' /\ SteadyOK(r)'
    BY <1>1, <2>1 DEF Inv, RequestOK, JobOK, SteadyOK, Moves
  <2>3. HadOK(r)'
    BY <1>1, <2>1 DEF Inv, RequestOK, Listing, HadOK, Was, Moves
  <2> QED BY <1>1, <2>2, <2>3 DEF RequestOK
<1> QED BY <1>1, <1>2, <1>3, MovesKeep

(* The lights of everything are listed, and their groups are next.         *)
LEMMA ListAgainKeeps ==
    ASSUME Inv, NEW r \in Request, ListAgain(r) PROVE Inv'
<1>1. /\ pc[r] = "read" /\ pc'[r] = "list" /\ AllRead(r) /\ job[r].op.kind = "all"
      /\ UNCHANGED lights /\ DOMAIN pc' = Request /\ \A q \in Request : q # r => pc'[q] = pc[q]
      /\ UNCHANGED <<known, value, had, steady, untouched, counts>>
  BY DEF Inv, Shape, ListAgain, AllRead, config, outside, ghosts
<1>2. /\ DOMAIN job' = Request /\ \A q \in Request : q # r => job'[q] = job[q]
      /\ job'[r] = [job[r] EXCEPT !.pass = 2, !.first = job[r].shown]
  BY DEF Inv, Shape, ListAgain
<1>3. /\ DOMAIN job'[r] = DOMAIN Idle /\ job'[r].first = job[r].shown
      /\ \A f \in DOMAIN Idle \ {"pass", "first"} : job'[r][f] = job[r][f]
  BY <1>2 DEF Inv, Shape, Idle
<1>4. Moves(r)
  BY <1>1, <1>2, <1>3 DEF Moves
<1>5. CountInv'
  BY <1>1, <1>2 DEF Inv, CountInv, CountWasTrue, Counting
<1>6. RequestOK(r)'
  <2>1. /\ job'[r].op = job[r].op /\ job'[r].cur = None /\ job'[r].left = {}
        /\ job'[r].read = job[r].read /\ job'[r].shown = job[r].shown
    BY <1>1, <1>3 DEF AllRead, Idle
  <2>2. JobOK(r)'
    BY <1>1, <2>1 DEF Inv, RequestOK, JobOK, AllRead
  <2>3. \A l : /\ Readable(l)' <=> Readable(l)
               /\ Visible(l)' <=> Visible(l)
               /\ Rendering(l)' = Rendering(l)
    BY <1>1 DEF Readable, Visible, Rendering, ValueOf
  <2>4. SteadyOK(r)'
    BY <1>1, <2>3 DEF Inv, RequestOK, SteadyOK
  <2>5. Covered(r) = DOMAIN job[r].shown /\ Listing(r)
    BY <1>1 DEF Covered, Pending, AllRead, Listing
  <2>6. ASSUME NEW l \in untouched[r] PROVE MatchOK(r, l)'
    <3>1. MatchOK(r, l)
      BY <1>1, <2>6 DEF Inv, RequestOK
    <3>2. /\ l \in DOMAIN job[r].shown <=> Visible(l)
          /\ l \in DOMAIN job[r].shown => job[r].shown[l] = Rendering(l)
      BY <2>5, <3>1 DEF MatchOK, Visible
    <3>3. ~Listing(r)'
      BY <1>1 DEF Listing
    <3>4. /\ l \in DOMAIN job'[r].first <=> Visible(l)'
          /\ l \in DOMAIN job'[r].first => job'[r].first[l] = Rendering(l)'
      <4>1. (Visible(l)' <=> Visible(l)) /\ Rendering(l)' = Rendering(l)
        BY <2>3
      <4>2. job'[r].first = job[r].shown
        BY <1>3
      <4> QED BY <3>2, <4>1, <4>2
    <3> QED BY <3>3, <3>4 DEF MatchOK
  <2> QED BY <1>1, <2>2, <2>4, <2>6 DEF RequestOK, Listing
<1> QED BY <1>4, <1>5, <1>6, MovesKeep

(* Reading a counter says nothing of the lamps.                            *)
LEMMA ReadCountKeeps ==
    ASSUME Inv, NEW r \in Request, ReadLights(r) \/ ReadGroups(r) PROVE Inv'
<1>1. /\ pc[r] \in {"lights", "groups"} /\ pc'[r] \in {"groups", "render"} /\ UNCHANGED lights
      /\ DOMAIN pc' = Request /\ \A q \in Request : q # r => pc'[q] = pc[q]
      /\ UNCHANGED <<known, value, had, steady, untouched, counts>>
  BY DEF Inv, Shape, ReadLights, ReadGroups, config, outside, ghosts
<1>2. /\ DOMAIN job' = Request /\ \A q \in Request : q # r => job'[q] = job[q]
      /\ \/ job'[r] = [job[r] EXCEPT !.lights = lights]
         \/ job'[r] = [job[r] EXCEPT !.groups = groups]
  BY DEF Inv, Shape, ReadLights, ReadGroups
<1>3. /\ DOMAIN job'[r] = DOMAIN Idle
      /\ \A f \in DOMAIN Idle \ {"lights", "groups"} : job'[r][f] = job[r][f]
  BY <1>2 DEF Inv, Shape, Idle
<1>4. Moves(r)
  BY <1>1, <1>2, <1>3 DEF Moves
<1>5. CountInv'
  BY <1>1, <1>2 DEF Inv, CountInv, CountWasTrue, Counting
<1>6. RequestOK(r)'
  <2>1. /\ job'[r].op = job[r].op /\ job'[r].cur = None /\ job'[r].left = {}
        /\ job'[r].read = Nothing /\ job'[r].shown = Nothing /\ job'[r].pass = 1
    BY <1>1, <1>3 DEF Inv, RequestOK, JobOK, Idle
  <2>2. job[r].op.kind # "all"
    BY <1>1 DEF Inv, RequestOK, JobOK
  <2>3. JobOK(r)'
    BY <1>1, <2>1, <2>2 DEF JobOK
  <2>4. SteadyOK(r)'
    BY <1>1 DEF Inv, RequestOK, SteadyOK, Readable, ValueOf
  <2>5. HadOK(r)'
    BY <2>1 DEF HadOK, Covered, Pending, Nothing
  <2> QED BY <2>1, <2>2, <2>3, <2>4, <2>5 DEF RequestOK
<1> QED BY <1>4, <1>5, <1>6, MovesKeep

(* The answer is sent.                                                     *)
LEMMA RenderKeeps ==
    ASSUME Inv, NEW r \in Request, Render(r) PROVE Inv'
<1>1. /\ pc[r] \in {"read", "render"} /\ pc'[r] = "idle" /\ job'[r] = Idle
      /\ had'[r] = Nothing /\ steady'[r] = {} /\ untouched'[r] = {}
      /\ UNCHANGED <<lights, known, value, counts>>
      /\ \A q \in Request : q # r => /\ pc'[q] = pc[q] /\ job'[q] = job[q] /\ had'[q] = had[q]
                                     /\ steady'[q] = steady[q] /\ untouched'[q] = untouched[q]
  BY DEF Inv, Shape, Render, Complete, AllRead, config, outside
<1>2. Shape'
  BY <1>1 DEF Inv, Shape, Render
<1>3. CountInv'
  BY <1>1 DEF Inv, CountInv, CountWasTrue, Counting
<1>4. ASSUME NEW q \in Request, q # r PROVE RequestOK(q)'
  BY <1>1, <1>4, Others DEF Inv
<1>5. RequestOK(r)'
  BY <1>1 DEF RequestOK, JobOK, SteadyOK, Wanted, Listing, Idle
<1> QED BY <1>2, <1>3, <1>4, <1>5 DEF Inv

------------------------------------------------------------------------------
(* The lamps.  What happens to a lamp is recorded, and no longer promised. *)
Happens(l) ==
    /\ UNCHANGED <<lights, pc, job, counts>>
    /\ known' \subseteq Light /\ DOMAIN value' = Light
    /\ \A m \in Light : DOMAIN value'[m] = Features[m]
    /\ DOMAIN had' = Request /\ DOMAIN steady' = Request
    /\ untouched' = [r \in Request |-> untouched[r] \ {l}]
    /\ \A m : m # l => value'[m] = value[m] /\ (m \in known' <=> m \in known)
    /\ \A r \in Request :
          /\ DOMAIN had'[r] = DOMAIN had[r]
          /\ \A m \in Light : \A g \in Features[m] : <<m, g>> \in DOMAIN had[r] =>
                /\ had[r][<<m, g>>] \subseteq had'[r][<<m, g>>]
                /\ value[m][g] \in had[r][<<m, g>>] => value'[m][g] \in had'[r][<<m, g>>]
          /\ steady'[r] \subseteq steady[r] /\ \A m \in steady'[r] : Readable(m)'
LEMMA HappensKeeps ==
    ASSUME Inv, NEW l \in Light, Happens(l) PROVE Inv'
<1>1. Shape'
  BY DEF Inv, Shape, Happens
<1>2. CountInv'
  BY DEF Inv, CountInv, CountWasTrue, Counting, Happens
<1>3. ASSUME NEW r \in Request PROVE RequestOK(r)'
  <2>1. /\ JobOK(r)' /\ Covered(r)' = Covered(r) /\ (Listing(r)' <=> Listing(r))
        /\ pc'[r] = pc[r] /\ job'[r] = job[r]
    BY DEF Inv, RequestOK, JobOK, Covered, Pending, Listing, Happens
  <2>2. SteadyOK(r)'
    BY <2>1 DEF Inv, RequestOK, SteadyOK, Wanted, Happens
  <2>3. ASSUME Listing(r) PROVE HadOK(r)'
    <3>1. HadOK(r) /\ JobOK(r)
      BY <2>3 DEF Inv, RequestOK
    <3>2. \A m \in Covered(r) :
             /\ m \in Light /\ Needs(m) # <<>>
             /\ \A f \in Features[m] :
                    /\ <<m, f>> \in DOMAIN had'[r] /\ value'[m][f] \in had'[r][<<m, f>>]
                    /\ had[r][<<m, f>>] \subseteq had'[r][<<m, f>>]
      BY <3>1 DEF HadOK, Happens
    <3>3. \A m \in Covered(r) : \A vals : Was(r, m, vals) => Was(r, m, vals)'
      BY <3>2 DEF Was
    <3>4. job[r].cur # None => job[r].cur \in Covered(r)
      BY DEF Covered, Pending
    <3>5. \A m \in DOMAIN job[r].shown : m \in Covered(r)
      BY DEF Covered
    <3>6. job[r].cur # None => Was(r, job[r].cur, job[r].read)'
      BY <2>1, <3>1, <3>3, <3>4 DEF HadOK
    <3>7. \A m \in DOMAIN job[r].shown : /\ DOMAIN job[r].shown[m] = First(m, Len(Needs(m)))
                                         /\ Was(r, m, job[r].shown[m])'
      BY <2>1, <3>1, <3>3, <3>5 DEF HadOK
    <3> QED BY <2>1, <3>2, <3>6, <3>7 DEF HadOK
  <2>4. ASSUME NEW m \in untouched'[r], job[r].op.kind = "all" PROVE MatchOK(r, m)'
    <3>1. m # l /\ m \in untouched[r] /\ MatchOK(r, m)
      BY <2>4 DEF Happens, Inv, RequestOK
    <3>2. value'[m] = value[m] /\ (m \in known' <=> m \in known)
      BY <3>1 DEF Happens
    <3>3. /\ Readable(m)' <=> Readable(m)
          /\ Visible(m)' <=> Visible(m)
          /\ Rendering(m)' = Rendering(m)
      BY <3>2 DEF Readable, Visible, Rendering, ValueOf
    <3>4. ASSUME Listing(r)
          PROVE  /\ Visible(m)' => m \in Covered(r)'
                 /\ m \in Covered(r)' => m \in known' \ Hidden
                 /\ m \in DOMAIN job'[r].shown => Readable(m)' /\ job'[r].shown[m] = Rendering(m)'
                 /\ m = job'[r].cur => \A f \in DOMAIN job'[r].read :
                        f \in Features[m] /\ job'[r].read[f] = value'[m][f] /\ value'[m][f] # Garbage
      BY <2>1, <3>1, <3>2, <3>3, <3>4 DEF MatchOK
    <3>5. job'[r].pass = 2 => /\ m \in DOMAIN job'[r].first <=> Visible(m)'
                              /\ m \in DOMAIN job'[r].first => job'[r].first[m] = Rendering(m)'
      BY <2>1, <3>1, <3>3 DEF MatchOK
    <3> QED BY <2>1, <3>4, <3>5 DEF MatchOK
  <2> QED BY <2>1, <2>2, <2>3, <2>4 DEF RequestOK
<1> QED BY <1>1, <1>2, <1>3 DEF Inv

LEMMA LampsKeep ==
    ASSUME Inv, NEW l \in Light,
           \/ Appear(l) \/ Leave(l)
           \/ \E f \in Features[l], v \in Value : Publish(l, f, v)
    PROVE  Inv'
<1>1. \A r \in Request : \A m \in steady[r] : Readable(m)
  BY DEF Inv, RequestOK, SteadyOK
<1>2. Shape
  BY DEF Inv
<1>3. CASE Appear(l)
  <2>1. Happens(l)
    BY <1>1, <1>2, <1>3 DEF Shape, Appear, Change, config, Happens, Readable, ValueOf
  <2> QED BY <2>1, HappensKeeps
<1>4. CASE Leave(l)
  <2>1. Happens(l)
    BY <1>1, <1>2, <1>4 DEF Shape, Leave, Change, config, Happens, Readable, ValueOf
  <2> QED BY <2>1, HappensKeeps
<1>5. ASSUME NEW f \in Features[l], NEW v \in Value, Publish(l, f, v) PROVE Inv'
  <2>1. /\ UNCHANGED <<lights, pc, job, counts, known>>
        /\ untouched' = [r \in Request |-> untouched[r] \ {l}]
        /\ value' = [value EXCEPT ![l][f] = v]
        /\ had' = [r \in Request |-> [p \in DOMAIN had[r] |->
                     IF p = <<l, f>> THEN had[r][p] \cup {v} ELSE had[r][p]]]
        /\ steady' = [r \in Request |-> {m \in steady[r] : Readable(m)'}]
    BY <1>5 DEF Publish, Change, config
  <2>2. /\ DOMAIN value' = Light /\ \A m : m # l => value'[m] = value[m]
        /\ DOMAIN value'[l] = Features[l] /\ value'[l][f] = v
        /\ \A g \in Features[l] : g # f => value'[l][g] = value[l][g]
    BY <1>2, <2>1 DEF Shape
  <2>3. \A m \in Light : DOMAIN value'[m] = Features[m]
    BY <1>2, <2>2 DEF Shape
  <2>4. ASSUME NEW r \in Request
        PROVE  /\ DOMAIN had'[r] = DOMAIN had[r]
               /\ \A m \in Light : \A g \in Features[m] : <<m, g>> \in DOMAIN had[r] =>
                     /\ had[r][<<m, g>>] \subseteq had'[r][<<m, g>>]
                     /\ value[m][g] \in had[r][<<m, g>>] => value'[m][g] \in had'[r][<<m, g>>]
    <3>1. had'[r] = [p \in DOMAIN had[r] |->
                       IF p = <<l, f>> THEN had[r][p] \cup {v} ELSE had[r][p]]
      BY <2>1
    <3>2. ASSUME NEW m \in Light, NEW g \in Features[m], <<m, g>> \in DOMAIN had[r]
          PROVE  /\ had[r][<<m, g>>] \subseteq had'[r][<<m, g>>]
                 /\ value[m][g] \in had[r][<<m, g>>] => value'[m][g] \in had'[r][<<m, g>>]
      <4>1. CASE m = l /\ g = f
        BY <2>2, <3>1, <3>2, <4>1
      <4>2. CASE ~(m = l /\ g = f)
        <5>1. <<m, g>> # <<l, f>> /\ value'[m][g] = value[m][g]
          BY <2>2, <4>2
        <5> QED BY <3>1, <3>2, <5>1
      <4> QED BY <4>1, <4>2
    <3> QED BY <3>1, <3>2
  <2>5. Happens(l)
    BY <1>2, <2>1, <2>2, <2>3, <2>4 DEF Shape, Happens
  <2> QED BY <2>5, HappensKeeps
<1> QED BY <1>3, <1>4, <1>5

------------------------------------------------------------------------------
(* However many requests overlap, in whatever order the lamps come, go and *)
(* publish, each listing has read what there was and loses nothing it      *)
(* started with that it could read.                                        *)
THEOREM CatalogueInvariance == Spec => []Inv
<1>1. Init => Inv
  BY InitInv
<1>2. Inv /\ [Next]_vars => Inv'
  <2> SUFFICES ASSUME Inv, [Next]_vars PROVE Inv'
    OBVIOUS
  <2>1. ASSUME NEW l \in Light,
               \/ Appear(l) \/ Leave(l)
               \/ \E f \in Features[l], v \in Value : Publish(l, f, v)
        PROVE  Inv'
    BY <2>1, LampsKeep
  <2>2. ASSUME NEW r \in Request, Run(r) PROVE Inv'
    BY <2>2, ListKeeps, CountKeeps, FindLightKeeps, ReadKeeps, CountGroupsKeeps,
       ListAgainKeeps, ReadCountKeeps, RenderKeeps DEF Run
  <2>3. ASSUME NEW r \in Request, NEW op \in Op, Get(r, op) PROVE Inv'
    BY <2>3, GetKeeps
  <2>4. CASE UNCHANGED vars
    <3>1. UNCHANGED <<known, value, lights, pc, job, had, steady, untouched, counts>>
      BY <2>4 DEF vars, config, outside, ghosts
    <3>2. Shape' /\ CountInv'
      BY <3>1 DEF Inv, Shape, CountInv, CountWasTrue, Counting
    <3>3. ASSUME NEW q \in Request PROVE RequestOK(q)'
      BY <3>1, Others DEF Inv
    <3> QED BY <3>2, <3>3 DEF Inv
  <2> QED BY <2>1, <2>2, <2>3, <2>4 DEF Next, Lamps
<1> QED BY <1>1, <1>2, PTL DEF Spec

(* GET of the lights, the groups or one of them shows only values that the *)
(* lamp had while it was listed: those of the map made for this request,   *)
(* under the lamp they were read from.                                     *)
THEOREM ListingsAreTrue == Spec => []ShownWasThere
<1>1. Inv => ShownWasThere
  <2> SUFFICES ASSUME Inv, NEW r \in Request, pc[r] \in {"read", "render"},
                      NEW l \in DOMAIN job[r].shown, NEW k \in DOMAIN Needs(l)
               PROVE  /\ <<l, Needs(l)[k]>> \in DOMAIN had[r]
                      /\ job[r].shown[l][Needs(l)[k]] \in had[r][<<l, Needs(l)[k]>>]
    BY DEF ShownWasThere
  <2>1. HadOK(r) /\ l \in Covered(r)
    BY DEF Inv, RequestOK, Listing, Covered
  <2>2. Needs(l)[k] \in DOMAIN job[r].shown[l]
    BY <2>1, NeedsShape DEF HadOK, First
  <2> QED BY <2>1, <2>2 DEF HadOK, Was
<1> QED BY <1>1, CatalogueInvariance, PTL

(* A lamp that was there and could be read all the while is listed: one    *)
(* lamp with a value that does not parse, or one that leaves, takes no     *)
(* other out of the listing.                                               *)
THEOREM NothingSteadyIsLost == Spec => []SteadyIsShown
<1>1. Inv => SteadyIsShown
  BY DEF Inv, RequestOK, SteadyOK, SteadyIsShown, AllRead, Wanted, Covered, Pending
<1> QED BY <1>1, CatalogueInvariance, PTL

(* GET of everything lists the lamps twice, and the two agree on each lamp *)
(* that nothing happened to since the request came in.                     *)
THEOREM BothListingsAgree == Spec => []LightsMatchGroups
<1>1. Inv => LightsMatchGroups
  <2> SUFFICES ASSUME Inv, NEW r \in Request, Complete(r), job[r].op.kind = "all",
                      NEW l \in untouched[r]
               PROVE  /\ l \in DOMAIN job[r].first <=> l \in DOMAIN job[r].shown
                      /\ l \in DOMAIN job[r].first => job[r].first[l] = job[r].shown[l]
    BY DEF LightsMatchGroups
  <2>1. JobOK(r) /\ MatchOK(r, l)
    BY DEF Inv, RequestOK
  <2>2. AllRead(r) /\ job[r].pass = 2
    BY <2>1 DEF Complete, JobOK
  <2>3. Covered(r) = DOMAIN job[r].shown /\ Listing(r)
    BY <2>2 DEF Covered, Pending, AllRead, Listing
  <2> QED BY <2>1, <2>2, <2>3 DEF MatchOK, Visible
<1> QED BY <1>1, CatalogueInvariance, PTL

(* Once no listing is between its devices and the counter, what            *)
(* /capabilities shows as the number of lights was the number of devices   *)
(* when one of the last listings began.                                    *)
THEOREM CountersAreTrue == Spec => []CountWasTrue
<1>1. Inv => CountWasTrue
  BY DEF Inv, CountInv
<1> QED BY <1>1, CatalogueInvariance, PTL
================================================================================
