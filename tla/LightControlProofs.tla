--------------------------- MODULE LightControlProofs ---------------------------
(***************************************************************************)
(* The order of the Sets of a request, and that a refused one sends none,  *)
(* for any lamps, bodies and clients, racing or not: what ties the queues  *)
(* of the lamps to the steps the handlers have left.                       *)
(***************************************************************************)
EXTENDS LightControl, TLAPS

SequenceFacts == INSTANCE SequenceTheorems

IsSequence(s) == \E S : s \in Seq(S)

(* A sequence of anything takes anything more at its end.                  *)
LEMMA Appended ==
    ASSUME NEW s, IsSequence(s), NEW e
    PROVE  /\ IsSequence(Append(s, e)) /\ Len(s) \in Nat
           /\ Len(Append(s, e)) = Len(s) + 1
           /\ \A i \in 1..Len(s) : Append(s, e)[i] = s[i]
           /\ Append(s, e)[Len(s) + 1] = e
<1>1. PICK S : s \in Seq(S)
  BY DEF IsSequence
<1>2. s \in Seq(S \cup {e})
  BY <1>1, SequenceFacts!SeqMonotonic
<1>3. Len(s) \in Nat
  BY <1>1, SequenceFacts!LenProperties
<1> QED BY <1>2, <1>3, SequenceFacts!AppendProperties DEF IsSequence

(* Without its head it is the rest, moved by one.                          *)
LEMMA Rest ==
    ASSUME NEW s, IsSequence(s), s # <<>>
    PROVE  /\ IsSequence(Tail(s)) /\ Len(s) \in Nat /\ Len(s) > 0
           /\ Len(Tail(s)) = Len(s) - 1 /\ Head(s) = s[1]
           /\ \A i \in 1..Len(Tail(s)) : Tail(s)[i] = s[i + 1]
<1>1. PICK S : s \in Seq(S)
  BY DEF IsSequence
<1>2. Len(s) \in Nat /\ Len(s) > 0
  BY <1>1, SequenceFacts!EmptySeq
<1>3. Head(s) = s[1]
  BY <1>1, <1>2
<1> QED BY <1>1, <1>2, <1>3, SequenceFacts!HeadTailProperties DEF IsSequence

------------------------------------------------------------------------------
(* What a handler has left to do: "on" is set to 1 by the first step only  *)
(* and to 0 by the last step only.                                         *)

Ordered(steps) ==
    /\ IsSequence(steps)
    /\ \A k \in 1..Len(steps) : steps[k].feature = "on" =>
          /\ steps[k].do = "set"
          /\ steps[k].value = 1 => k = 1
          /\ steps[k].value = 0 => k = Len(steps)

(* The steps of the settings, none of which is about "on"                  *)
SettingsOf(b) ==
    {Set("brightness", ToHemtjanstBrightness(b["bri"])), Set("colorTemperature", b["ct"]),
     Set("hue", ToHS[b["xy"]][1]), Set("saturation", ToHS[b["xy"]][2]),
     Read("brightness"), Move("brightness", b["bri_inc"]),
     Read("colorTemperature"), Move("colorTemperature", b["ct_inc"]),
     Read("hue"), Read("saturation"), Move("hue", b["xy_inc"]), Move("saturation", b["xy_inc"]),
     Break}

(* The pieces that updateLightState puts together are sequences of steps.  *)
LEMMA Pieces ==
    ASSUME NEW S
    PROVE  /\ \A x \in S : <<x>> \in Seq(S) /\ Len(<<x>>) = 1 /\ <<x>>[1] = x
           /\ \A x, y \in S : <<x, y>> \in Seq(S)
           /\ \A x, y, z, w \in S : <<x, y, z, w>> \in Seq(S)
           /\ <<>> \in Seq(S) /\ Len(<<>>) = 0
           /\ \A c, s : s \in Seq(S) => When(c, s) \in Seq(S)
<1>1. <<>> \in Seq(S) /\ Len(<<>>) = 0
  BY SequenceFacts!EmptySeq
<1>2. \A x \in S : <<x>> \in Seq(S) /\ Len(<<x>>) = 1 /\ <<x>>[1] = x
  OBVIOUS
<1>3. \A x, y \in S : <<x, y>> \in Seq(S)
  OBVIOUS
<1>4. \A x, y, z, w \in S : <<x, y, z, w>> \in Seq(S)
  OBVIOUS
<1>5. \A c, s : s \in Seq(S) => When(c, s) \in Seq(S)
  BY <1>1 DEF When
<1> QED BY <1>1, <1>2, <1>3, <1>4, <1>5

(* They are about other features ...                                       *)
LEMMA SettingsNotOn == \A b : \A s \in SettingsOf(b) : s.feature # "on"
BY DEF SettingsOf, Set, Read, Move, Break

(* ... and the settings of a body are a sequence of them.                  *)
LEMMA SettingsSequence == \A b : SettingSteps(b) \in Seq(SettingsOf(b))
<1> SUFFICES ASSUME NEW b PROVE SettingSteps(b) \in Seq(SettingsOf(b))
  OBVIOUS
<1> DEFINE S == SettingsOf(b)
<1> DEFINE p1 == When(Has(b, "bri"), <<Set("brightness", ToHemtjanstBrightness(b["bri"]))>>)
           p2 == When(Has(b, "ct"), <<Set("colorTemperature", b["ct"])>>)
           p3 == When(Has(b, "xy"), XYSteps(b))
           p4 == When(Has(b, "bri_inc"), <<Read("brightness"), Move("brightness", b["bri_inc"])>>)
           p5 == When(Has(b, "ct_inc"), <<Read("colorTemperature"), Move("colorTemperature", b["ct_inc"])>>)
           p6 == When(Has(b, "xy_inc"), XYIncSteps(b))
<1>1. p1 \in Seq(S)
  <2>1. <<Set("brightness", ToHemtjanstBrightness(b["bri"]))>> \in Seq(S)
    BY Pieces DEF SettingsOf
  <2> QED BY <2>1, Pieces
<1>2. p2 \in Seq(S)
  <2>1. <<Set("colorTemperature", b["ct"])>> \in Seq(S)
    BY Pieces DEF SettingsOf
  <2> QED BY <2>1, Pieces
<1>3. p3 \in Seq(S)
  <2>1. /\ <<Set("hue", ToHS[b["xy"]][1]), Set("saturation", ToHS[b["xy"]][2])>> \in Seq(S)
        /\ <<Break>> \in Seq(S)
    BY Pieces DEF SettingsOf
  <2>2. XYSteps(b) \in Seq(S)
    BY <2>1 DEF XYSteps
  <2> QED BY <2>2, Pieces
<1>4. p4 \in Seq(S)
  <2>1. <<Read("brightness"), Move("brightness", b["bri_inc"])>> \in Seq(S)
    BY Pieces DEF SettingsOf
  <2> QED BY <2>1, Pieces
<1>5. p5 \in Seq(S)
  <2>1. <<Read("colorTemperature"), Move("colorTemperature", b["ct_inc"])>> \in Seq(S)
    BY Pieces DEF SettingsOf
  <2> QED BY <2>1, Pieces
<1>7. \A s, t \in Seq(S) : s \o t \in Seq(S)
  BY SequenceFacts!ConcatProperties
<1>6. p6 \in Seq(S)
  <2>1. /\ <<Read("hue"), Read("saturation")>> \in Seq(S)
        /\ <<Move("hue", b["xy_inc"]), Move("saturation", b["xy_inc"])>> \in Seq(S)
        /\ <<Break>> \in Seq(S)
    BY Pieces DEF SettingsOf
  <2>2. XYIncSteps(b) \in Seq(S)
    <3>1. CASE ShortXYInc(b)
      BY <1>7, <2>1, <3>1 DEF XYIncSteps
    <3>2. CASE ~ShortXYInc(b)
      BY <1>7, <2>1, <3>2 DEF XYIncSteps
    <3> QED BY <3>1, <3>2
  <2> QED BY <2>2, Pieces
<1>8. SettingSteps(b) = ((((p1 \o p2) \o p3) \o p4) \o p5) \o p6
  BY DEF SettingSteps
<1> HIDE DEF S, p1, p2, p3, p4, p5, p6
<1>9. ((((p1 \o p2) \o p3) \o p4) \o p5) \o p6 \in Seq(S)
  <2>1. (p1 \o p2) \o p3 \in Seq(S)
    BY <1>1, <1>2, <1>3, <1>7
  <2>2. (((p1 \o p2) \o p3) \o p4) \o p5 \in Seq(S)
    BY <2>1, <1>4, <1>5, <1>7
  <2> QED BY <2>2, <1>6, <1>7
<1> QED BY <1>8, <1>9 DEF S

(* updateLightState turns on first and off last, whatever the body is and  *)
(* whether the lamp looks on.                                              *)
LEMMA ProgramOrdered == \A on, b : Ordered(Program(on, b))
<1> SUFFICES ASSUME NEW on, NEW b PROVE Ordered(Program(on, b))
  OBVIOUS
<1> DEFINE S == SettingsOf(b) \cup {Set("on", 1), Set("on", 0)}
           first == When(~on /\ TurnsOn(b), <<Set("on", 1)>>)
           rest == SettingSteps(b)
           last == When(on /\ TurnsOff(b), <<Set("on", 0)>>)
<1>1. first \in Seq(S) /\ last \in Seq(S)
  <2>1. <<Set("on", 1)>> \in Seq(S) /\ <<Set("on", 0)>> \in Seq(S)
    BY Pieces
  <2> QED BY <2>1, Pieces
<1>2. rest \in Seq(S) /\ \A k \in 1..Len(rest) : rest[k].feature # "on"
  <2>1. rest \in Seq(SettingsOf(b))
    BY SettingsSequence
  <2>2. rest \in Seq(S)
    BY <2>1, SequenceFacts!SeqMonotonic
  <2>3. \A k \in 1..Len(rest) : rest[k] \in SettingsOf(b)
    BY <2>1, SequenceFacts!ElementOfSeq
  <2> QED BY <2>2, <2>3, SettingsNotOn
<1>3. /\ Len(first) \in {0, 1} /\ Len(last) \in {0, 1}
      /\ Len(first) = 1 => first[1] = Set("on", 1)
      /\ Len(last) = 1 => last[1] = Set("on", 0)
  BY DEF When
<1> HIDE DEF first, rest, last, S
<1>4. /\ first \o rest \in Seq(S)
      /\ Len(first \o rest) = Len(first) + Len(rest)
      /\ \A i \in 1..Len(first) + Len(rest) :
            (first \o rest)[i] = IF i <= Len(first) THEN first[i] ELSE rest[i - Len(first)]
  BY <1>1, <1>2, SequenceFacts!ConcatProperties
<1>5. /\ first \o rest \o last \in Seq(S)
      /\ Len(first \o rest \o last) = Len(first) + Len(rest) + Len(last)
      /\ \A i \in 1..Len(first) + Len(rest) + Len(last) :
            (first \o rest \o last)[i] = IF i <= Len(first) + Len(rest) THEN (first \o rest)[i]
                                         ELSE last[i - (Len(first) + Len(rest))]
  BY <1>1, <1>4, SequenceFacts!ConcatProperties
<1>6. Len(rest) \in Nat
  BY <1>2, SequenceFacts!LenProperties
<1>7. ASSUME NEW k \in 1..Len(first \o rest \o last),
             (first \o rest \o last)[k].feature = "on"
      PROVE  \/ k = 1 /\ (first \o rest \o last)[k] = Set("on", 1)
             \/ k = Len(first \o rest \o last) /\ (first \o rest \o last)[k] = Set("on", 0)
  <2>1. CASE k <= Len(first)
    BY <1>3, <1>4, <1>5, <1>6, <2>1
  <2>2. CASE Len(first) < k /\ k <= Len(first) + Len(rest)
    <3>1. k - Len(first) \in 1..Len(rest)
      BY <1>3, <1>6, <2>2
    <3>2. (first \o rest \o last)[k] = rest[k - Len(first)]
      BY <1>3, <1>4, <1>5, <1>6, <2>2
    <3> QED BY <1>2, <1>7, <3>1, <3>2
  <2>3. CASE Len(first) + Len(rest) < k
    BY <1>3, <1>5, <1>6, <2>3
  <2> QED BY <1>3, <1>6, <2>1, <2>2, <2>3
<1>8. /\ Set("on", 1).do = "set" /\ Set("on", 1).value = 1
      /\ Set("on", 0).do = "set" /\ Set("on", 0).value = 0
  BY DEF Set
<1>9. Ordered(first \o rest \o last)
  BY <1>5, <1>7, <1>8 DEF Ordered, IsSequence
<1> QED BY <1>9 DEF Program, first, rest, last

(* When a step has been done the rest is still in order; the lamp is not   *)
(* turned on any more, and after it has been turned off nothing is left.   *)
LEMMA RestOrdered ==
    ASSUME NEW steps, Ordered(steps), steps # <<>>
    PROVE  /\ Ordered(Tail(steps))
           /\ \A k \in 1..Len(Tail(steps)) :
                 ~(Tail(steps)[k].feature = "on" /\ Tail(steps)[k].value = 1)
           /\ Head(steps).feature = "on" =>
                 Head(steps).do = "set" /\ (Head(steps).value = 0 => Tail(steps) = <<>>)
<1> DEFINE rest == Tail(steps)
           n == Len(steps)
           m == Len(rest)
<1>1. IsSequence(steps)
  BY DEF Ordered
<1>2. /\ IsSequence(rest) /\ n \in Nat /\ n > 0
      /\ m = n - 1 /\ Head(steps) = steps[1]
      /\ \A i \in 1..m : rest[i] = steps[i + 1]
  BY <1>1, Rest
<1>3. \A k \in 1..n : steps[k].feature = "on" =>
          /\ steps[k].do = "set"
          /\ steps[k].value = 1 => k = 1
          /\ steps[k].value = 0 => k = n
  BY DEF Ordered
<1>4. m = 0 => rest = <<>>
  <2>1. PICK S : rest \in Seq(S)
    BY <1>2 DEF IsSequence
  <2> QED BY <2>1, SequenceFacts!EmptySeq
<1> HIDE DEF n, m, rest
<1>5. \A k \in 1..m : k + 1 \in 1..n /\ k + 1 # 1 /\ (k + 1 = n => k = m)
  BY <1>2
<1>6. \A k \in 1..m : rest[k].feature = "on" =>
          rest[k].do = "set" /\ rest[k].value # 1 /\ (rest[k].value = 0 => k = m)
  BY <1>2, <1>3, <1>5
<1>7. Ordered(rest)
  BY <1>2, <1>6 DEF Ordered, m
<1>8. 1 \in 1..n
  BY <1>2
<1>9. Head(steps).feature = "on" =>
          Head(steps).do = "set" /\ (Head(steps).value = 0 => n = 1)
  BY <1>2, <1>3, <1>8
<1>10. Head(steps).feature = "on" /\ Head(steps).value = 0 => rest = <<>>
  BY <1>2, <1>4, <1>9
<1> QED BY <1>6, <1>7, <1>9, <1>10 DEF m, rest

------------------------------------------------------------------------------
(* The inductive invariant.                                                *)

Active(r) == pc[r] # "idle"

(* No Set of the request with this number is under way.                    *)
Silent(n) == \A l \in Light : \A i \in 1..Len(queue[l]) : queue[l][i].by # n

Shape == /\ issued \in Nat
         /\ pc \in [Request -> {"idle", "find", "again", "check", "apply"}]
         /\ DOMAIN req = Request /\ \A r \in Request : "by" \in DOMAIN req[r]
         /\ DOMAIN todo = Request /\ DOMAIN queue = Light
         /\ DOMAIN answer = Light \cup {Unknown}
         /\ \A l \in Light : IsSequence(queue[l])

(* The requests under way have numbers of their own, which none that has   *)
(* been answered had.                                                      *)
NumberInv ==
    /\ \A r \in Request : Active(r) => req[r].by \in 1..issued
    /\ \A r, q \in Request : Active(r) /\ Active(q) /\ r # q => req[r].by # req[q].by
    /\ \A l \in Light : \A i \in 1..Len(queue[l]) : queue[l][i].by \in 1..issued
    /\ \A l \in Light \cup {Unknown} :
          /\ answer[l].by \in 0..issued
          /\ \A r \in Request : Active(r) => answer[l].by # req[r].by

(* A handler sends nothing before it has checked the body ...              *)
SilentInv == \A r \in Request : pc[r] \in {"find", "again", "check"} => Silent(req[r].by)

(* ... and then turns on with its first Set and off with its last.         *)
StepsInv == \A r \in Request : pc[r] = "apply" =>
    /\ Ordered(todo[r])
    /\ \A k \in 1..Len(todo[r]) :
          todo[r][k].feature = "on" /\ todo[r][k].value = 1 => Silent(req[r].by)
    /\ todo[r] # <<>> =>
          \A l \in Light : \A i \in 1..Len(queue[l]) :
              queue[l][i].by = req[r].by => ~(queue[l][i].feature = "on" /\ queue[l][i].value = 0)

Inv == Shape /\ NumberInv /\ SilentInv /\ StepsInv /\ RefusedSendsNothing /\ OnFirstOffLast

(* No request, no Set.                                                     *)
LEMMA InitInv == Init => Inv
<1> SUFFICES ASSUME Init PROVE Inv
  OBVIOUS
<1>1. \A l \in Light : queue[l] = <<>>
  BY DEF Init
<1>2. \A S : <<>> \in Seq(S) /\ Len(<<>>) = 0
  BY Pieces
<1>3. \A l \in Light : IsSequence(queue[l]) /\ 1..Len(queue[l]) = {}
  <2>1. IsSequence(<<>>)
    BY <1>2 DEF IsSequence
  <2>2. 1..0 = {}
    OBVIOUS
  <2> QED BY <1>1, <1>2, <2>1, <2>2
<1>4. Shape
  BY <1>3 DEF Init, Shape, NoRequest
<1>5. \A r \in Request : pc[r] = "idle"
  BY DEF Init
<1>6. \A l \in Light \cup {Unknown} : answer[l].by = 0 /\ answer[l].code = "none"
  BY DEF Init
<1>7. NumberInv /\ SilentInv /\ StepsInv
  BY <1>3, <1>5, <1>6 DEF NumberInv, SilentInv, StepsInv, Active, Init
<1>8. RefusedSendsNothing /\ OnFirstOffLast
  BY <1>3 DEF RefusedSendsNothing, OnFirstOffLast
<1> QED BY <1>4, <1>7, <1>8 DEF Inv

(* What the lamps do by themselves, and their publications, are no matter. *)
LEMMA OutsideKeeps ==
    ASSUME Inv, UNCHANGED <<queue, pc, req, todo, issued, answer>> PROVE Inv'
BY DEF Inv, Shape, NumberInv, SilentInv, StepsInv, Active, Silent, RefusedSendsNothing,
       OnFirstOffLast

(* A lamp takes the first Set, and the others are as they were.            *)
LEMMA TakeSetKeeps ==
    ASSUME Inv, NEW l \in Light, TakeSet(l) PROVE Inv'
<1>1. /\ queue[l] # <<>> /\ queue' = [queue EXCEPT ![l] = Tail(@)]
      /\ UNCHANGED <<pc, req, todo, issued, answer>>
  BY DEF TakeSet
<1>2. Shape /\ IsSequence(queue[l])
  BY DEF Inv, Shape
<1>3. \A m \in Light : m # l => queue'[m] = queue[m]
  BY <1>1, <1>2 DEF Shape
<1>4. /\ queue'[l] = Tail(queue[l]) /\ IsSequence(queue'[l]) /\ Len(queue[l]) \in Nat
      /\ Len(queue'[l]) = Len(queue[l]) - 1
      /\ \A i \in 1..Len(queue'[l]) : queue'[l][i] = queue[l][i + 1]
  BY <1>1, <1>2, Rest DEF Shape
<1>5. \A i \in 1..Len(queue'[l]) : i + 1 \in 1..Len(queue[l])
  BY <1>4
<1>6. Shape'
  BY <1>1, <1>2, <1>3, <1>4 DEF Shape
<1>7. \A m \in Light : \A i \in 1..Len(queue'[m]) :
          \E j \in 1..Len(queue[m]) : queue'[m][i] = queue[m][j]
  BY <1>3, <1>4, <1>5
<1>8. \A n : Silent(n) => Silent(n)'
  BY <1>7 DEF Silent
<1>9. NumberInv' /\ SilentInv' /\ StepsInv'
  <2>1. NumberInv'
    BY <1>1, <1>7 DEF Inv, NumberInv, Active
  <2>2. SilentInv'
    BY <1>1, <1>8 DEF Inv, SilentInv
  <2>3. StepsInv'
    BY <1>1, <1>7, <1>8 DEF Inv, StepsInv
  <2> QED BY <2>1, <2>2, <2>3
<1>10. RefusedSendsNothing'
  BY <1>1, <1>7 DEF Inv, RefusedSendsNothing
<1>11. OnFirstOffLast'
  <2> SUFFICES ASSUME NEW m \in Light, NEW i \in 1..Len(queue'[m]), NEW j \in 1..Len(queue'[m]),
                      i < j, queue'[m][i].by = queue'[m][j].by
               PROVE  /\ ~(queue'[m][j].feature = "on" /\ queue'[m][j].value = 1)
                      /\ ~(queue'[m][i].feature = "on" /\ queue'[m][i].value = 0)
    BY DEF OnFirstOffLast
  <2>1. CASE m # l
    BY <1>3, <2>1 DEF Inv, OnFirstOffLast
  <2>2. CASE m = l
    <3>1. i + 1 \in 1..Len(queue[l]) /\ j + 1 \in 1..Len(queue[l])
      BY <1>5, <2>2
    <3>2. i + 1 < j + 1
      OBVIOUS
    <3> QED BY <1>4, <2>2, <3>1, <3>2 DEF Inv, OnFirstOffLast
  <2> QED BY <2>1, <2>2
<1> QED BY <1>6, <1>9, <1>10, <1>11 DEF Inv

(* A request comes in with the next number.                                *)
LEMMA PutKeeps ==
    ASSUME Inv, NEW r \in Request, NEW path, NEW l, NEW b, Put(r, path, l, b) PROVE Inv'
<1>1. /\ pc[r] = "idle" /\ issued \in Nat /\ issued' = issued + 1
      /\ UNCHANGED <<queue, todo, answer>>
      /\ pc' = [pc EXCEPT ![r] = "find"]
  BY DEF Put, lamps, Inv, Shape
<1>2. /\ DOMAIN req' = Request
      /\ req'[r].by = issued + 1 /\ "by" \in DOMAIN req'[r]
      /\ \A q \in Request : q # r => req'[q] = req[q]
  BY DEF Put, Inv, Shape
<1>3. /\ pc'[r] = "find" /\ \A q \in Request : q # r => pc'[q] = pc[q]
  BY <1>1 DEF Inv, Shape
<1>4. Shape'
  BY <1>1, <1>2 DEF Inv, Shape
<1>5. \A k : (k \in 1..issued => k \in 1..issued' /\ k # issued + 1)
               /\ (k \in 0..issued => k \in 0..issued' /\ k # issued + 1)
  BY <1>1
<1>6. issued + 1 \in 1..issued'
  BY <1>1
<1>7. NumberInv'
  <2>1. \A q \in Request : Active(q)' => req'[q].by \in 1..issued'
    BY <1>2, <1>3, <1>5, <1>6 DEF Inv, NumberInv, Active
  <2>2. \A p, q \in Request : Active(p)' /\ Active(q)' /\ p # q => req'[p].by # req'[q].by
    BY <1>2, <1>3, <1>5 DEF Inv, NumberInv, Active
  <2>3. \A m \in Light : \A i \in 1..Len(queue'[m]) : queue'[m][i].by \in 1..issued'
    BY <1>1, <1>5 DEF Inv, NumberInv
  <2>4. \A m \in Light \cup {Unknown} :
            /\ answer'[m].by \in 0..issued'
            /\ \A q \in Request : Active(q)' => answer'[m].by # req'[q].by
    BY <1>1, <1>2, <1>3, <1>5 DEF Inv, NumberInv, Active
  <2> QED BY <2>1, <2>2, <2>3, <2>4 DEF NumberInv
<1>8. SilentInv'
  <2>1. \A n : n = issued + 1 => Silent(n)'
    BY <1>1, <1>5 DEF Inv, NumberInv, Silent
  <2>2. \A n : Silent(n)' <=> Silent(n)
    BY <1>1 DEF Silent
  <2> QED BY <1>2, <1>3, <2>1, <2>2 DEF Inv, SilentInv
<1>9. StepsInv'
  <2>1. \A n : Silent(n)' <=> Silent(n)
    BY <1>1 DEF Silent
  <2> QED BY <1>1, <1>2, <1>3, <2>1 DEF Inv, StepsInv
<1>10. RefusedSendsNothing' /\ OnFirstOffLast'
  BY <1>1 DEF Inv, RefusedSendsNothing, OnFirstOffLast
<1> QED BY <1>4, <1>7, <1>8, <1>9, <1>10 DEF Inv

(* A request is answered; a refusal comes before anything was sent.        *)
LEMMA ReplyKeeps ==
    ASSUME Inv, NEW r \in Request, NEW code, Active(r), Reply(r, code),
           UNCHANGED <<queue, issued>>,
           code \in {"resource", "unavailable", "off"} => Silent(req[r].by)
    PROVE  Inv'
<1> DEFINE l == req[r].light
           n == req[r].by
<1>1. /\ pc' = [pc EXCEPT ![r] = "idle"] /\ req' = [req EXCEPT ![r] = NoRequest]
      /\ todo' = [todo EXCEPT ![r] = <<>>]
      /\ answer' = [answer EXCEPT ![l] = [code |-> code, by |-> n]]
  BY DEF Reply
<1>2. Shape
  BY DEF Inv
<1>3. /\ pc'[r] = "idle"
      /\ \A q \in Request : q # r => pc'[q] = pc[q] /\ req'[q] = req[q] /\ todo'[q] = todo[q]
  BY <1>1, <1>2 DEF Shape
<1>4. Shape'
  BY <1>1, <1>2 DEF Shape, NoRequest
<1>5. \A m \in Light \cup {Unknown} :
          IF m = l THEN answer'[m].code = code /\ answer'[m].by = n ELSE answer'[m] = answer[m]
  BY <1>1, <1>2 DEF Shape
<1>6. n \in 1..issued /\ \A q \in Request : q # r /\ Active(q) => n # req[q].by
  BY DEF Inv, NumberInv
<1>7. n \in 0..issued
  BY <1>2, <1>6 DEF Shape
<1> HIDE DEF l, n
<1>8. NumberInv'
  <2>1. \A m \in Light \cup {Unknown} :
            /\ answer'[m].by \in 0..issued'
            /\ \A q \in Request : Active(q)' => answer'[m].by # req'[q].by
    BY <1>3, <1>5, <1>6, <1>7 DEF Inv, NumberInv, Active
  <2> QED BY <1>3, <2>1 DEF Inv, NumberInv, Active
<1>9. \A k : Silent(k)' <=> Silent(k)
  BY DEF Silent
<1>10. SilentInv' /\ StepsInv'
  BY <1>3, <1>9 DEF Inv, SilentInv, StepsInv
<1>11. RefusedSendsNothing'
  BY <1>5 DEF Inv, RefusedSendsNothing, Silent, n
<1>12. OnFirstOffLast'
  BY DEF Inv, OnFirstOffLast
<1> QED BY <1>4, <1>8, <1>10, <1>11, <1>12 DEF Inv

(* The handler goes on to the next check, or to the steps of its program.  *)
LEMMA CheckedKeeps ==
    ASSUME Inv, NEW r \in Request, pc[r] \in {"find", "again", "check"},
           NEW next \in {"again", "check", "apply"}, pc' = [pc EXCEPT ![r] = next],
           UNCHANGED <<queue, issued, answer>>,
           DOMAIN req' = Request,
           \A q \in Request : req'[q].by = req[q].by /\ "by" \in DOMAIN req'[q],
           DOMAIN todo' = Request, \A q \in Request : q # r => todo'[q] = todo[q],
           next = "apply" => Ordered(todo'[r])
    PROVE  Inv'
<1>1. /\ pc'[r] = next /\ \A q \in Request : q # r => pc'[q] = pc[q]
      /\ \A q \in Request : Active(q)' <=> Active(q)
  BY DEF Inv, Shape, Active
<1>2. Shape'
  BY DEF Inv, Shape
<1>3. NumberInv'
  BY <1>1 DEF Inv, NumberInv
<1>4. \A n : Silent(n)' <=> Silent(n)
  BY DEF Silent
<1>5. Silent(req[r].by)
  BY DEF Inv, SilentInv
<1>6. SilentInv'
  BY <1>1, <1>4, <1>5 DEF Inv, SilentInv
<1>7. StepsInv'
  <2>1. \A q \in Request : q # r /\ pc'[q] = "apply" => pc[q] = "apply"
    BY <1>1
  <2>2. \A m \in Light : \A i \in 1..Len(queue[m]) : queue[m][i].by # req[r].by
    BY <1>5 DEF Silent
  <2> QED BY <1>1, <1>4, <1>5, <2>1, <2>2 DEF Inv, StepsInv
<1>8. RefusedSendsNothing' /\ OnFirstOffLast'
  BY DEF Inv, RefusedSendsNothing, OnFirstOffLast
<1> QED BY <1>2, <1>3, <1>6, <1>7, <1>8 DEF Inv

(* The lookups                                                             *)
LEMMA FindLightKeeps ==
    ASSUME Inv, NEW r \in Request, FindLight(r) \/ FindAgain(r) PROVE Inv'
<1>1. pc[r] \in {"find", "again"} /\ Active(r) /\ UNCHANGED <<queue, issued>>
  BY DEF FindLight, FindAgain, lamps, Active
<1>2. Silent(req[r].by)
  BY <1>1 DEF Inv, SilentInv
<1>3. CASE \E code : Reply(r, code)
  BY <1>1, <1>2, <1>3, ReplyKeeps
<1>4. CASE ~\E code : Reply(r, code)
  <2>1. PICK next \in {"again", "check"} : pc' = [pc EXCEPT ![r] = next]
    BY <1>4 DEF FindLight, FindAgain
  <2>2. UNCHANGED <<todo, answer>>
    BY <1>4 DEF FindLight, FindAgain
  <2>3. DOMAIN req' = Request
    BY <1>4 DEF FindLight, FindAgain, Inv, Shape
  <2>4. \A q \in Request : req'[q].by = req[q].by /\ "by" \in DOMAIN req'[q]
    BY <1>4 DEF FindLight, FindAgain, Inv, Shape
  <2>5. DOMAIN todo = Request
    BY DEF Inv, Shape
  <2> QED BY <1>1, <2>1, <2>2, <2>3, <2>4, <2>5, CheckedKeeps
<1> QED BY <1>3, <1>4

(* updateLightState up to its first Set                                    *)
LEMMA CheckKeeps ==
    ASSUME Inv, NEW r \in Request, Check(r) PROVE Inv'
<1>1. pc[r] = "check" /\ Active(r) /\ UNCHANGED <<queue, issued>>
  BY DEF Check, lamps, Active
<1>2. Silent(req[r].by)
  BY <1>1 DEF Inv, SilentInv
<1>3. CASE \E code : Reply(r, code)
  BY <1>1, <1>2, <1>3, ReplyKeeps
<1>4. CASE ~\E code : Reply(r, code)
  <2>1. /\ pc' = [pc EXCEPT ![r] = "apply"] /\ UNCHANGED <<req, answer>>
        /\ todo' = [todo EXCEPT ![r] = Program(IsOn(req[r].light), req[r].body)]
    BY <1>4 DEF Check
  <2>2. /\ DOMAIN todo' = Request /\ \A q \in Request : q # r => todo'[q] = todo[q]
        /\ todo'[r] = Program(IsOn(req[r].light), req[r].body)
    BY <2>1 DEF Inv, Shape
  <2>3. Ordered(todo'[r])
    BY <2>2, ProgramOrdered
  <2>4. DOMAIN req = Request /\ \A q \in Request : "by" \in DOMAIN req[q]
    BY DEF Inv, Shape
  <2> QED BY <1>1, <2>1, <2>2, <2>3, <2>4, CheckedKeeps
<1> QED BY <1>3, <1>4

(* A value is read for an increment, or the request ends for one that is   *)
(* no number.                                                              *)
LEMMA ReadFeatureKeeps ==
    ASSUME Inv, NEW r \in Request, ReadFeature(r) PROVE Inv'
<1>1. /\ pc[r] = "apply" /\ Active(r) /\ todo[r] # <<>> /\ UNCHANGED <<queue, issued>>
      /\ Reply(r, "internal") \/ (todo' = [todo EXCEPT ![r] = Tail(@)]
                                   /\ UNCHANGED <<pc, req, answer>>)
  BY DEF ReadFeature, lamps, Active
<1>2. CASE Reply(r, "internal")
  BY <1>1, <1>2, ReplyKeeps
<1>3. CASE todo' = [todo EXCEPT ![r] = Tail(@)] /\ UNCHANGED <<pc, req, answer>>
  <2>1. /\ todo'[r] = Tail(todo[r]) /\ DOMAIN todo' = Request
        /\ \A q \in Request : q # r => todo'[q] = todo[q]
    BY <1>3 DEF Inv, Shape
  <2>2. Ordered(todo[r])
    BY <1>1 DEF Inv, StepsInv
  <2>3. /\ Ordered(todo'[r])
        /\ \A k \in 1..Len(todo'[r]) : ~(todo'[r][k].feature = "on" /\ todo'[r][k].value = 1)
    BY <1>1, <2>1, <2>2, RestOrdered
  <2>4. \A n : Silent(n)' <=> Silent(n)
    BY <1>1 DEF Silent
  <2>5. StepsInv'
    <3> SUFFICES ASSUME NEW q \in Request, pc[q] = "apply"
                 PROVE  /\ Ordered(todo'[q])
                        /\ \A k \in 1..Len(todo'[q]) :
                              todo'[q][k].feature = "on" /\ todo'[q][k].value = 1
                                  => Silent(req[q].by)
                        /\ todo'[q] # <<>> =>
                              \A l \in Light : \A i \in 1..Len(queue[l]) : queue[l][i].by = req[q].by
                                  => ~(queue[l][i].feature = "on" /\ queue[l][i].value = 0)
      BY <1>1, <1>3, <2>4 DEF StepsInv
    <3>1. CASE q = r
      BY <1>1, <2>3, <3>1 DEF Inv, StepsInv
    <3>2. CASE q # r
      BY <2>1, <3>2 DEF Inv, StepsInv
    <3> QED BY <3>1, <3>2
  <2>6. SilentInv' /\ NumberInv'
    BY <1>1, <1>3, <2>4 DEF Inv, SilentInv, NumberInv, Active
  <2>7. Shape' /\ RefusedSendsNothing' /\ OnFirstOffLast'
    BY <1>1, <1>3, <2>1 DEF Inv, Shape, RefusedSendsNothing, OnFirstOffLast
  <2> QED BY <2>5, <2>6, <2>7 DEF Inv
<1> QED BY <1>1, <1>2, <1>3

(* A Set is sent: the first of the request when it turns the lamp on, the  *)
(* last when it turns it off.                                              *)
LEMMA SetFeatureKeeps ==
    ASSUME Inv, NEW r \in Request, SetFeature(r) PROVE Inv'
<1> DEFINE l == req[r].light
           n == req[r].by
           step == Head(todo[r])
           m == [feature |-> step.feature, value |-> Target(step, reg[r]), by |-> n]
<1>1. /\ pc[r] = "apply" /\ todo[r] # <<>>
      /\ queue' = [queue EXCEPT ![l] = Append(@, m)]
      /\ todo' = [todo EXCEPT ![r] = Tail(@)]
      /\ UNCHANGED <<pc, req, issued, answer>>
  BY DEF SetFeature
<1>2. m.by = n /\ m.feature = step.feature /\ (step.do = "set" => m.value = step.value)
  BY DEF Target
<1>3. Shape /\ NumberInv /\ StepsInv
  BY DEF Inv
<1>4. n \in 1..issued /\ \A q \in Request : q # r /\ Active(q) => req[q].by # n
  BY <1>1, <1>3 DEF NumberInv, Active
<1>5. /\ todo'[r] = Tail(todo[r]) /\ DOMAIN todo' = Request
      /\ \A q \in Request : q # r => todo'[q] = todo[q]
  BY <1>1, <1>3 DEF Shape
<1>6. Ordered(todo[r])
  BY <1>1, <1>3 DEF StepsInv
<1>7. /\ Ordered(todo'[r])
      /\ \A k \in 1..Len(todo'[r]) : ~(todo'[r][k].feature = "on" /\ todo'[r][k].value = 1)
      /\ step.feature = "on" => step.do = "set" /\ (step.value = 0 => todo'[r] = <<>>)
  BY <1>1, <1>5, <1>6, RestOrdered
<1>8. m.feature = "on" /\ m.value = 1 => Silent(n)
  <2> SUFFICES ASSUME m.feature = "on", m.value = 1 PROVE Silent(n)
    OBVIOUS
  <2>1. step.feature = "on" /\ step.value = 1
    BY <1>2, <1>7
  <2>2. IsSequence(todo[r])
    BY <1>6 DEF Ordered
  <2>3. step = todo[r][1] /\ 1 \in 1..Len(todo[r])
    BY <1>1, <2>2, Rest
  <2> QED BY <1>1, <1>3, <2>1, <2>3 DEF StepsInv
<1>9. m.feature = "on" /\ m.value = 0 => todo'[r] = <<>>
  BY <1>2, <1>7
<1>10. \A k \in Light : k # l => queue'[k] = queue[k]
  BY <1>1, <1>3 DEF Shape
<1>11. l \in Light =>
          /\ IsSequence(queue'[l]) /\ Len(queue[l]) \in Nat
          /\ Len(queue'[l]) = Len(queue[l]) + 1
          /\ \A i \in 1..Len(queue[l]) : queue'[l][i] = queue[l][i]
          /\ queue'[l][Len(queue[l]) + 1] = m
  <2> SUFFICES ASSUME l \in Light
               PROVE  /\ IsSequence(queue'[l]) /\ Len(queue[l]) \in Nat
                      /\ Len(queue'[l]) = Len(queue[l]) + 1
                      /\ \A i \in 1..Len(queue[l]) : queue'[l][i] = queue[l][i]
                      /\ queue'[l][Len(queue[l]) + 1] = m
    OBVIOUS
  <2>1. queue'[l] = Append(queue[l], m) /\ IsSequence(queue[l])
    BY <1>1, <1>3 DEF Shape
  <2> HIDE DEF l, m
  <2> QED BY <2>1, Appended
<1> HIDE DEF l, n, step, m
<1>12. \A k \in Light : \A i \in 1..Len(queue'[k]) :
          \/ i \in 1..Len(queue[k]) /\ queue'[k][i] = queue[k][i]
          \/ k = l /\ i = Len(queue[l]) + 1 /\ queue'[k][i] = m
  <2> SUFFICES ASSUME NEW k \in Light, NEW i \in 1..Len(queue'[k])
               PROVE  \/ i \in 1..Len(queue[k]) /\ queue'[k][i] = queue[k][i]
                      \/ k = l /\ i = Len(queue[l]) + 1 /\ queue'[k][i] = m
    OBVIOUS
  <2>1. CASE k # l
    BY <1>10, <2>1
  <2>2. CASE k = l
    BY <1>11, <2>2
  <2> QED BY <2>1, <2>2
<1>13. Shape'
  <2>1. \A k \in Light : IsSequence(queue'[k])
    BY <1>3, <1>10, <1>11 DEF Shape
  <2>2. DOMAIN queue' = Light
    BY <1>1, <1>3 DEF Shape
  <2> QED BY <1>1, <1>3, <1>5, <2>1, <2>2 DEF Shape
<1>14. NumberInv'
  <2>1. \A k \in Light : \A i \in 1..Len(queue'[k]) : queue'[k][i].by \in 1..issued'
    BY <1>1, <1>2, <1>3, <1>4, <1>12 DEF NumberInv
  <2> QED BY <1>1, <1>3, <2>1 DEF NumberInv, Active
<1>15. \A k : k # n /\ Silent(k) => Silent(k)'
  BY <1>2, <1>12 DEF Silent
<1>16. SilentInv'
  <2>1. \A q \in Request : pc[q] \in {"find", "again", "check"} => req[q].by # n
    BY <1>1, <1>4 DEF Active
  <2> QED BY <1>1, <1>15, <2>1 DEF Inv, SilentInv
<1>17. StepsInv'
  <2> SUFFICES ASSUME NEW q \in Request, pc[q] = "apply"
               PROVE  /\ Ordered(todo'[q])
                      /\ \A k \in 1..Len(todo'[q]) :
                            todo'[q][k].feature = "on" /\ todo'[q][k].value = 1
                                => (\A x \in Light : \A i \in 1..Len(queue'[x]) :
                                       queue'[x][i].by # req[q].by)
                      /\ todo'[q] # <<>> =>
                            \A x \in Light : \A i \in 1..Len(queue'[x]) :
                                queue'[x][i].by = req[q].by
                                => ~(queue'[x][i].feature = "on" /\ queue'[x][i].value = 0)
    BY <1>1 DEF StepsInv, Silent
  <2>1. CASE q = r
    <3>1. todo'[q] # <<>> => ~(m.feature = "on" /\ m.value = 0)
      BY <1>9, <2>1
    <3> QED BY <1>1, <1>3, <1>7, <1>12, <2>1, <3>1 DEF StepsInv
  <2>2. CASE q # r
    <3>1. req[q].by # n /\ todo'[q] = todo[q]
      BY <1>4, <1>5, <2>2 DEF Active
    <3> QED BY <1>2, <1>3, <1>12, <3>1 DEF StepsInv, Silent
  <2> QED BY <2>1, <2>2
<1>18. RefusedSendsNothing'
  <2>1. \A k \in Light : answer[k].by # m.by
    BY <1>1, <1>2, <1>3 DEF NumberInv, Active, n
  <2> QED BY <1>1, <1>12, <2>1 DEF Inv, RefusedSendsNothing
<1>19. OnFirstOffLast'
  <2> SUFFICES ASSUME NEW k \in Light, NEW i \in 1..Len(queue'[k]), NEW j \in 1..Len(queue'[k]),
                      i < j, queue'[k][i].by = queue'[k][j].by
               PROVE  /\ ~(queue'[k][j].feature = "on" /\ queue'[k][j].value = 1)
                      /\ ~(queue'[k][i].feature = "on" /\ queue'[k][i].value = 0)
    BY DEF OnFirstOffLast
  <2>1. CASE j \in 1..Len(queue[k]) /\ queue'[k][j] = queue[k][j]
    <3>1. i \in 1..Len(queue[k]) /\ queue'[k][i] = queue[k][i]
      BY <1>10, <1>11, <2>1
    <3> QED BY <2>1, <3>1 DEF Inv, OnFirstOffLast
  <2>2. CASE k = l /\ j = Len(queue[l]) + 1 /\ queue'[k][j] = m
    <3>1. i \in 1..Len(queue[k]) /\ queue'[k][i] = queue[k][i]
      BY <1>11, <2>2
    <3>2. queue[k][i].by = n
      BY <1>2, <2>2, <3>1
    <3>3. ~Silent(n)
      BY <3>1, <3>2 DEF Silent
    <3>4. ~(queue[k][i].feature = "on" /\ queue[k][i].value = 0)
      BY <1>1, <1>3, <3>1, <3>2 DEF StepsInv, n
    <3> QED BY <1>8, <2>2, <3>1, <3>3, <3>4
  <2> QED BY <1>12, <2>1, <2>2
<1> QED BY <1>13, <1>14, <1>16, <1>17, <1>18, <1>19 DEF Inv

(* The last step is done, or a short array ends the handler: either way    *)
(* the request is answered, and what it sent goes its way.                 *)
LEMMA DoneKeeps ==
    ASSUME Inv, NEW r \in Request, Done(r) \/ Panic(r) PROVE Inv'
<1>1. /\ Active(r) /\ (Reply(r, "success") \/ Reply(r, "panic"))
      /\ UNCHANGED <<queue, issued>>
  BY DEF Done, Panic, Active, lamps
<1> QED BY <1>1, ReplyKeeps

(* Inv is an invariant of the handlers and the lamps.                      *)
THEOREM LightInvariance == Spec => []Inv
<1>1. Inv /\ [Next]_vars => Inv'
  <2> SUFFICES ASSUME Inv, [Next]_vars PROVE Inv'
    OBVIOUS
  <2>1. ASSUME NEW r \in Request, Handle(r) PROVE Inv'
    BY <2>1, FindLightKeeps, CheckKeeps, ReadFeatureKeeps, SetFeatureKeeps, DoneKeeps DEF Handle
  <2>2. ASSUME NEW r \in Request, NEW path, NEW l, NEW b, Put(r, path, l, b) PROVE Inv'
    BY <2>2, PutKeeps
  <2>3. ASSUME NEW l \in Light, TakeSet(l) PROVE Inv'
    BY <2>3, TakeSetKeeps
  <2>4. ASSUME NEW l \in Light, Deliver(l) \/ Glitch(l) PROVE Inv'
    BY <2>4, OutsideKeeps DEF Deliver, Glitch
  <2>5. CASE UNCHANGED vars
    BY <2>5, OutsideKeeps DEF vars, lamps
  <2> QED BY <2>1, <2>2, <2>3, <2>4, <2>5 DEF Next
<1> QED BY <1>1, InitInv, PTL DEF Spec

(* A refused request has sent its lamp nothing, for any lamps, bodies and  *)
(* number of clients.                                                      *)
THEOREM RefusalsHold == Spec => []RefusedSendsNothing
BY LightInvariance, PTL DEF Inv

(* Among the Sets of one request "on" goes first and "off" last, however   *)
(* many others are sent to the same lamp in between.                       *)
THEOREM OrderHolds == Spec => []OnFirstOffLast
BY LightInvariance, PTL DEF Inv

------------------------------------------------------------------------------
(* The types of what is sent and published, and that it parses until a     *)
(* lamp publishes nonsense.                                                *)

Has4 == {"bri", "ct", "bri_inc", "ct_inc"}
BodyOK(b) == \A p \in Has4 : Has(b, p) => b[p] \in Int

FeaturesAt(l) == FeaturesOf(Type[l])
Parsed(f, v) == v \in ValuesOf(f)
Published(f, v) == v \in ValuesOf(f) \cup {Garbage}

(* The steps there are for a lamp                                          *)
StepsAt(l) ==
    {s \in [do : {"set"}, feature : FeaturesAt(l), value : Int] : Parsed(s.feature, s.value)}
    \cup [do : {"read"}, feature : FeaturesAt(l) \ {"on"}]
    \cup [do : {"move"}, feature : FeaturesAt(l) \cap {"brightness", "colorTemperature"}, by : Int]
    \cup [do : {"move"}, feature : FeaturesAt(l) \cap {"hue", "saturation"}, by : Turns]

(* Those for a body: one with a short array may break off.                 *)
StepsFor(l, b) == StepsAt(l) \cup {s \in {Break} : ~Whole(b) /\ s.feature \in FeaturesAt(l)}

Readings == [brightness : Int, colorTemperature : Int, hue : Hues, saturation : Saturations]

(* The lamps, and the messages from and to them                            *)
LampInv ==
    /\ DOMAIN lamp = Light /\ DOMAIN seen = Light /\ DOMAIN pub = Light
    /\ present \subseteq Light /\ glitches \in 0..MaxGlitches
    /\ \A l \in Light :
          /\ DOMAIN lamp[l] = FeaturesAt(l) /\ DOMAIN seen[l] = FeaturesAt(l)
          /\ \A f \in FeaturesAt(l) : Parsed(f, lamp[l][f]) /\ Published(f, seen[l][f])
          /\ \A i \in 1..Len(queue[l]) : /\ queue[l][i].feature \in FeaturesAt(l)
                                         /\ Parsed(queue[l][i].feature, queue[l][i].value)
          /\ IsSequence(pub[l])
          /\ \A i \in 1..Len(pub[l]) : /\ pub[l][i].feature \in FeaturesAt(l)
                                       /\ Published(pub[l][i].feature, pub[l][i].value)

(* The handlers                                                            *)
HandlerInv ==
    /\ issued \in 0..MaxRequests
    /\ reg \in [Request -> Readings]
    /\ \A r \in Request :
          /\ DOMAIN req[r] = DOMAIN NoRequest
          /\ req[r].light \in Light \cup {Unknown}
          /\ pc[r] # "idle" => BodyOK(req[r].body)
          /\ pc[r] \in {"again", "check", "apply"} => req[r].light \in Light
          /\ pc[r] # "apply" => todo[r] = <<>>
          /\ pc[r] = "apply" => todo[r] \in Seq(StepsFor(req[r].light, req[r].body))

(* Before the first glitch every lamp is there and everything parses.      *)
Clean == /\ present = Light
         /\ \A l \in Light : /\ \A f \in DOMAIN seen[l] : seen[l][f] # Garbage
                             /\ \A i \in 1..Len(pub[l]) : pub[l][i].value # Garbage
CleanInv == glitches = 0 => Clean

TypeInv == LampInv /\ HandlerInv /\ CleanInv

(* No value that parses is garbage.                                        *)
LEMMA ParsedIsInt ==
    ASSUME NEW f, NEW v, Parsed(f, v)
    PROVE  v \in Int /\ v # Garbage
<1>1. CASE f = "on"
  BY <1>1, ValueAssumption DEF Parsed, ValuesOf
<1>2. CASE f = "hue"
  BY <1>2, ValueAssumption DEF Parsed, ValuesOf
<1>3. CASE f = "saturation"
  BY <1>3, ValueAssumption DEF Parsed, ValuesOf
<1>4. CASE f \notin {"on", "hue", "saturation"}
  BY <1>4, ValueAssumption DEF Parsed, ValuesOf
<1> QED BY <1>1, <1>2, <1>3, <1>4

(* What parses has been published by some lamp.                            *)
LEMMA ParsedIsPublished == \A f, v : Parsed(f, v) => Published(f, v)
BY DEF Parsed, Published

(* The scales give integers.                                               *)
LEMMA ScalesAreInt ==
    /\ \A i \in Int : ToHemtjanstBrightness(i) \in Int
    /\ \A i, d \in Int : Dimmed(i, d) \in Int
<1>1. \A i \in Int : GoDiv(i, 100) \in Int /\ GoDiv(i, 254) \in Int
  BY DEF GoDiv
<1>2. \A i \in Int : ToHemtjanstBrightness(i) \in Int
  BY <1>1 DEF ToHemtjanstBrightness
<1>3. \A i \in Int : ToPhilipsBrightness(i) \in Int
  BY <1>1 DEF ToPhilipsBrightness
<1> QED BY <1>2, <1>3 DEF Dimmed

(* Which features a lamp may be asked about                                *)
LEMMA FeaturesByType ==
    ASSUME NEW l \in Light
    PROVE  /\ {"on", "brightness"} \subseteq FeaturesAt(l)
           /\ "ct" \notin NotFor(Type[l]) \/ "ct_inc" \notin NotFor(Type[l])
                  => "colorTemperature" \in FeaturesAt(l)
           /\ "xy" \notin NotFor(Type[l]) \/ "xy_inc" \notin NotFor(Type[l])
                  => {"hue", "saturation"} \subseteq FeaturesAt(l)
           /\ FeaturesAt(l) \subseteq {"on", "brightness", "colorTemperature", "hue", "saturation"}
<1>1. Type[l] \in {"white", "temperature", "rgb"}
  BY ValueAssumption
<1>2. CASE Type[l] = "white"
  BY <1>2 DEF FeaturesAt, FeaturesOf, NotFor
<1>3. CASE Type[l] = "temperature"
  BY <1>3 DEF FeaturesAt, FeaturesOf, NotFor
<1>4. CASE Type[l] = "rgb"
  BY <1>4 DEF FeaturesAt, FeaturesOf, NotFor
<1> QED BY <1>1, <1>2, <1>3, <1>4

(* The program for a body that its lamp can take is one of such steps.     *)
LEMMA ProgramTyped ==
    ASSUME NEW l \in Light, NEW b, BodyOK(b), DOMAIN b \cap NotFor(Type[l]) = {}, NEW on
    PROVE  Program(on, b) \in Seq(StepsFor(l, b))
<1> DEFINE S == StepsFor(l, b)
           p1 == When(Has(b, "bri"), <<Set("brightness", ToHemtjanstBrightness(b["bri"]))>>)
           p2 == When(Has(b, "ct"), <<Set("colorTemperature", b["ct"])>>)
           p3 == When(Has(b, "xy"), XYSteps(b))
           p4 == When(Has(b, "bri_inc"), <<Read("brightness"), Move("brightness", b["bri_inc"])>>)
           p5 == When(Has(b, "ct_inc"), <<Read("colorTemperature"), Move("colorTemperature", b["ct_inc"])>>)
           p6 == When(Has(b, "xy_inc"), XYIncSteps(b))
<1>1. \A f \in FeaturesAt(l), v \in Int : Parsed(f, v) => Set(f, v) \in S
  BY DEF Set, StepsAt, StepsFor
<1>2. \A f \in FeaturesAt(l) \ {"on"} : Read(f) \in S
  BY DEF Read, StepsAt, StepsFor
<1>3. \A f \in FeaturesAt(l), d \in Int : f \in {"brightness", "colorTemperature"} => Move(f, d) \in S
  BY DEF Move, StepsAt, StepsFor
<1>4. \A f \in FeaturesAt(l), d \in Turns : f \in {"hue", "saturation"} => Move(f, d) \in S
  BY DEF Move, StepsAt, StepsFor
<1>5. \A v \in Int : Parsed("brightness", v) /\ Parsed("colorTemperature", v)
  BY DEF Parsed, ValuesOf
<1>6. /\ Parsed("on", 0) /\ Parsed("on", 1)
      /\ \A v \in Hues : Parsed("hue", v)
      /\ \A v \in Saturations : Parsed("saturation", v)
  BY DEF Parsed, ValuesOf
<1>7. {"on", "brightness"} \subseteq FeaturesAt(l)
  BY FeaturesByType
<1>8. /\ Has(b, "ct") \/ Has(b, "ct_inc") => "colorTemperature" \in FeaturesAt(l)
      /\ Has(b, "xy") \/ Has(b, "xy_inc") => {"hue", "saturation"} \subseteq FeaturesAt(l)
  BY FeaturesByType DEF Has
<1>9. /\ Has(b, "bri") => b["bri"] \in Int
      /\ Has(b, "ct") => b["ct"] \in Int
      /\ Has(b, "bri_inc") => b["bri_inc"] \in Int
      /\ Has(b, "ct_inc") => b["ct_inc"] \in Int
      /\ Has(b, "xy_inc") /\ ~ShortXYInc(b) => b["xy_inc"] \in Turns
      /\ Has(b, "xy") /\ ~ShortXY(b) =>
            ToHS[b["xy"]][1] \in Hues /\ ToHS[b["xy"]][2] \in Saturations
  BY ValueAssumption DEF BodyOK, Has4, ShortXY, ShortXYInc
<1>10. Hues \subseteq Int /\ Saturations \subseteq Int
  BY ValueAssumption
<1>21. /\ Has(b, "xy") /\ ShortXY(b) => Break \in S
       /\ Has(b, "xy_inc") /\ ShortXYInc(b) => Break \in S
  BY <1>8 DEF StepsFor, Break, Whole
<1>17. \A s, t \in Seq(S) : s \o t \in Seq(S)
  BY SequenceFacts!ConcatProperties
<1> HIDE DEF S
<1>11. p1 \in Seq(S)
  <2>1. Has(b, "bri") => Set("brightness", ToHemtjanstBrightness(b["bri"])) \in S
    BY <1>1, <1>5, <1>7, <1>9, ScalesAreInt
  <2> QED BY <2>1, Pieces DEF When
<1>12. p2 \in Seq(S)
  <2>1. Has(b, "ct") => Set("colorTemperature", b["ct"]) \in S
    BY <1>1, <1>5, <1>8, <1>9
  <2> QED BY <2>1, Pieces DEF When
<1>13. p3 \in Seq(S)
  <2>1. Has(b, "xy") /\ ~ShortXY(b) => /\ Set("hue", ToHS[b["xy"]][1]) \in S
                                       /\ Set("saturation", ToHS[b["xy"]][2]) \in S
    BY <1>1, <1>6, <1>8, <1>9, <1>10
  <2>2. Has(b, "xy") => XYSteps(b) \in Seq(S)
    BY <1>21, <2>1, Pieces DEF XYSteps
  <2> QED BY <2>2, Pieces DEF When
<1>14. p4 \in Seq(S)
  <2>1. Has(b, "bri_inc") => Read("brightness") \in S /\ Move("brightness", b["bri_inc"]) \in S
    BY <1>2, <1>3, <1>7, <1>9
  <2> QED BY <2>1, Pieces DEF When
<1>15. p5 \in Seq(S)
  <2>1. Has(b, "ct_inc") => /\ Read("colorTemperature") \in S
                            /\ Move("colorTemperature", b["ct_inc"]) \in S
    BY <1>2, <1>3, <1>8, <1>9
  <2> QED BY <2>1, Pieces DEF When
<1>16. p6 \in Seq(S)
  <2>1. Has(b, "xy_inc") => Read("hue") \in S /\ Read("saturation") \in S
    BY <1>2, <1>8
  <2>2. Has(b, "xy_inc") /\ ~ShortXYInc(b) => /\ Move("hue", b["xy_inc"]) \in S
                                              /\ Move("saturation", b["xy_inc"]) \in S
    BY <1>4, <1>8, <1>9
  <2>3. Has(b, "xy_inc") => XYIncSteps(b) \in Seq(S)
    <3> SUFFICES ASSUME Has(b, "xy_inc") PROVE XYIncSteps(b) \in Seq(S)
      OBVIOUS
    <3>1. <<Read("hue"), Read("saturation")>> \in Seq(S)
      BY <2>1, Pieces
    <3>2. CASE ShortXYInc(b)
      <4>1. <<Break>> \in Seq(S)
        BY <1>21, <3>2, Pieces
      <4> QED BY <1>17, <3>1, <3>2, <4>1 DEF XYIncSteps
    <3>3. CASE ~ShortXYInc(b)
      <4>1. <<Move("hue", b["xy_inc"]), Move("saturation", b["xy_inc"])>> \in Seq(S)
        BY <2>2, <3>3, Pieces
      <4> QED BY <1>17, <3>1, <3>3, <4>1 DEF XYIncSteps
    <3> QED BY <3>2, <3>3
  <2> QED BY <2>3, Pieces DEF When
<1>18. SettingSteps(b) \in Seq(S)
  <2>1. SettingSteps(b) = p1 \o p2 \o p3 \o p4 \o p5 \o p6
    BY DEF SettingSteps
  <2> HIDE DEF p1, p2, p3, p4, p5, p6
  <2> QED BY <1>11, <1>12, <1>13, <1>14, <1>15, <1>16, <1>17, <2>1
<1>19. \A c : When(c, <<Set("on", 1)>>) \in Seq(S) /\ When(c, <<Set("on", 0)>>) \in Seq(S)
  <2>1. Set("on", 1) \in S /\ Set("on", 0) \in S
    BY <1>1, <1>6, <1>7
  <2> QED BY <2>1, Pieces
<1>20. Program(on, b) \in Seq(S)
  BY <1>17, <1>18, <1>19 DEF Program
<1> QED BY <1>20 DEF S

(* An invariant from the first state on: the lamps are as found.           *)
LEMMA InitTyped == Init => TypeInv
<1> SUFFICES ASSUME Init PROVE TypeInv
  OBVIOUS
<1>1. /\ lamp \in AsFound /\ seen = lamp /\ present = Light /\ glitches = 0 /\ issued = 0
      /\ DOMAIN pub = Light /\ \A l \in Light : pub[l] = <<>> /\ queue[l] = <<>>
  BY DEF Init
<1>2. IsSequence(<<>>) /\ 1..Len(<<>>) = {} /\ \A S : <<>> \in Seq(S)
  <2>1. \A S : <<>> \in Seq(S) /\ Len(<<>>) = 0
    BY Pieces
  <2> QED BY <2>1 DEF IsSequence
<1>3. DOMAIN lamp = Light /\ \A l \in Light :
          /\ DOMAIN lamp[l] = FeaturesAt(l)
          /\ \A f \in FeaturesAt(l) : Parsed(f, lamp[l][f])
  <2>1. /\ lamp = [l \in Light |-> lamp[l]]
        /\ \A l \in Light : /\ lamp[l] = [f \in FeaturesOf(Type[l]) |-> lamp[l][f]]
                            /\ \A f \in FeaturesOf(Type[l]) : lamp[l][f] \in ValuesOf(f)
    BY <1>1, ValueAssumption
  <2>2. DOMAIN lamp = Light
    BY <2>1
  <2>3. \A l \in Light : DOMAIN lamp[l] = FeaturesOf(Type[l])
    BY <2>1
  <2> QED BY <2>1, <2>2, <2>3 DEF FeaturesAt, Parsed
<1>4. LampInv
  BY <1>1, <1>2, <1>3, ParsedIsPublished, LightAssumption DEF LampInv
<1>5. HandlerInv
  <2>1. NoValues \in Readings
    BY ValueAssumption DEF NoValues, Readings
  <2>2. reg \in [Request -> Readings]
    BY <2>1 DEF Init
  <2>3. issued \in 0..MaxRequests
    BY <1>1, LightAssumption
  <2> QED BY <2>2, <2>3 DEF HandlerInv, Init, NoRequest
<1>6. CleanInv
  <2>1. \A l \in Light : \A f \in DOMAIN seen[l] : seen[l][f] # Garbage
    BY <1>1, <1>3, ParsedIsInt
  <2> QED BY <1>1, <1>2, <2>1 DEF CleanInv, Clean
<1> QED BY <1>4, <1>5, <1>6 DEF TypeInv

(* A request is answered.                                                  *)
LEMMA ReplyTyped ==
    ASSUME Inv, TypeInv, NEW r \in Request, NEW code, Reply(r, code),
           UNCHANGED <<lamps, issued>>
    PROVE  TypeInv'
<1>1. /\ pc' = [pc EXCEPT ![r] = "idle"] /\ req' = [req EXCEPT ![r] = NoRequest]
      /\ todo' = [todo EXCEPT ![r] = <<>>] /\ reg' = [reg EXCEPT ![r] = NoValues]
      /\ answer' = [answer EXCEPT ![req[r].light] = [code |-> code, by |-> req[r].by]]
  BY DEF Reply
<1>2. Shape /\ LampInv /\ HandlerInv /\ CleanInv
  BY DEF Inv, TypeInv
<1>3. LampInv'
  BY <1>2 DEF LampInv, lamps
<1>4. HandlerInv'
  <2>1. NoValues \in Readings
    BY ValueAssumption DEF NoValues, Readings
  <2>2. reg' \in [Request -> Readings]
    BY <1>1, <1>2, <2>1 DEF HandlerInv
  <2>3. /\ pc'[r] = "idle" /\ req'[r] = NoRequest /\ todo'[r] = <<>>
        /\ \A q \in Request : q # r => pc'[q] = pc[q] /\ req'[q] = req[q] /\ todo'[q] = todo[q]
    BY <1>1, <1>2 DEF Shape
  <2>4. NoRequest.light = Unknown
    BY DEF NoRequest
  <2>5. issued' = issued
    OBVIOUS
  <2> QED BY <1>2, <2>2, <2>3, <2>4, <2>5 DEF HandlerInv
<1>5. CleanInv'
  BY <1>2 DEF CleanInv, Clean, lamps
<1> QED BY <1>3, <1>4, <1>5 DEF TypeInv

(* What a handler does to itself alone                                     *)
LEMMA SelfTyped ==
    ASSUME Inv, TypeInv, NEW r \in Request, UNCHANGED <<lamps, issued, answer>>,
           reg' \in [Request -> Readings],
           \A q \in Request : q # r => pc'[q] = pc[q] /\ req'[q] = req[q] /\ todo'[q] = todo[q],
           DOMAIN req'[r] = DOMAIN NoRequest, req'[r].light \in Light, BodyOK(req'[r].body),
           pc'[r] # "apply" => todo'[r] = <<>>,
           pc'[r] = "apply" => todo'[r] \in Seq(StepsFor(req'[r].light, req'[r].body))
    PROVE  TypeInv'
<1>1. LampInv'
  BY DEF TypeInv, LampInv, lamps
<1>2. HandlerInv'
  BY DEF TypeInv, HandlerInv
<1>3. CleanInv'
  BY DEF TypeInv, CleanInv, Clean, lamps
<1> QED BY <1>1, <1>2, <1>3 DEF TypeInv

(* Bind only takes parameters away.                                        *)
LEMMA BindOK == \A b : BodyOK(b) => BodyOK(Bind(b))
BY DEF BodyOK, Bind, Has, Has4

(* The lookups                                                             *)
LEMMA FindLightTyped ==
    ASSUME Inv, TypeInv, NEW r \in Request, FindLight(r) PROVE TypeInv'
<1>1. pc[r] = "find" /\ UNCHANGED <<lamps, issued>>
  BY DEF FindLight
<1>2. CASE Reply(r, "resource") \/ Reply(r, "unavailable")
  BY <1>1, <1>2, ReplyTyped
<1>3. CASE /\ FoundBy(req[r].path, req[r].light)
           /\ req' = [req EXCEPT ![r].body = Bind(@)]
           /\ pc' = [pc EXCEPT ![r] = IF req[r].path = "group" THEN "again" ELSE "check"]
           /\ UNCHANGED <<todo, reg, answer>>
  <2>1. Shape /\ HandlerInv
    BY DEF Inv, TypeInv
  <2>2. req[r].light \in Light
    BY <1>3, <2>1 DEF FoundBy, Found, TypeInv, LampInv
  <2>3. BodyOK(req[r].body) /\ DOMAIN req[r] = DOMAIN NoRequest /\ todo[r] = <<>>
    BY <1>1, <2>1 DEF HandlerInv
  <2>4. DOMAIN NoRequest = {"path", "light", "body", "by", "asked", "found"}
    BY DEF NoRequest
  <2>5. /\ DOMAIN req'[r] = DOMAIN NoRequest /\ req'[r].light = req[r].light
        /\ req'[r].body = Bind(req[r].body)
        /\ \A q \in Request : q # r => req'[q] = req[q] /\ pc'[q] = pc[q]
    BY <1>3, <2>1, <2>3, <2>4 DEF Shape
  <2>6. pc'[r] \in {"again", "check"}
    BY <1>3, <2>1 DEF Shape
  <2>7. BodyOK(req'[r].body)
    BY <2>3, <2>5, BindOK
  <2>8. reg' \in [Request -> Readings] /\ UNCHANGED <<lamps, issued, answer>> /\ todo' = todo
    BY <1>1, <1>3, <2>1 DEF HandlerInv
  <2> QED BY <2>2, <2>3, <2>5, <2>6, <2>7, <2>8, SelfTyped
<1> QED BY <1>2, <1>3 DEF FindLight

LEMMA FindAgainTyped ==
    ASSUME Inv, TypeInv, NEW r \in Request, FindAgain(r) PROVE TypeInv'
<1>1. pc[r] = "again" /\ UNCHANGED <<lamps, issued>>
  BY DEF FindAgain
<1>2. /\ Shape /\ HandlerInv /\ CleanInv /\ req[r].light \in Light
      /\ BodyOK(req[r].body) /\ DOMAIN req[r] = DOMAIN NoRequest /\ todo[r] = <<>>
  BY <1>1 DEF Inv, TypeInv, HandlerInv
<1>3. CASE Reply(r, "panic")
  BY <1>1, <1>3, ReplyTyped
<1>4. CASE pc' = [pc EXCEPT ![r] = "check"] /\ UNCHANGED <<req, todo, reg, answer>>
  <2>1. pc'[r] = "check" /\ \A q \in Request : q # r => pc'[q] = pc[q]
    BY <1>2, <1>4 DEF Shape
  <2>2. reg' \in [Request -> Readings]
    BY <1>2, <1>4 DEF HandlerInv
  <2> QED BY <1>1, <1>2, <1>4, <2>1, <2>2, SelfTyped
<1> QED BY <1>3, <1>4 DEF FindAgain

(* updateLightState up to its first Set                                    *)
LEMMA CheckTyped ==
    ASSUME Inv, TypeInv, NEW r \in Request, Check(r) PROVE TypeInv'
<1> DEFINE l == req[r].light
           b == req[r].body
<1>1. pc[r] = "check" /\ UNCHANGED <<lamps, issued>>
  BY DEF Check
<1>2. /\ Shape /\ HandlerInv /\ l \in Light /\ BodyOK(b) /\ DOMAIN req[r] = DOMAIN NoRequest
  BY <1>1 DEF Inv, TypeInv, HandlerInv
<1>3. CASE Reply(r, "unavailable") \/ Reply(r, "panic") \/ Reply(r, "off")
  BY <1>1, <1>3, ReplyTyped
<1>4. CASE /\ DOMAIN b \cap NotFor(Type[l]) = {}
           /\ todo' = [todo EXCEPT ![r] = Program(IsOn(l), b)]
           /\ pc' = [pc EXCEPT ![r] = "apply"]
           /\ UNCHANGED <<req, reg, answer>>
  <2>1. /\ pc'[r] = "apply" /\ todo'[r] = Program(IsOn(l), b)
        /\ \A q \in Request : q # r => pc'[q] = pc[q] /\ todo'[q] = todo[q]
    BY <1>2, <1>4 DEF Shape
  <2>2. todo'[r] \in Seq(StepsFor(l, b))
    BY <1>2, <1>4, <2>1, ProgramTyped
  <2>3. reg' \in [Request -> Readings]
    BY <1>2, <1>4 DEF HandlerInv
  <2> QED BY <1>1, <1>2, <1>4, <2>1, <2>2, <2>3, SelfTyped
<1> QED BY <1>3, <1>4 DEF Check

(* The first of the steps is one for the lamp, and so are the others.      *)
LEMMA StepTyped ==
    ASSUME NEW l \in Light, NEW b, NEW steps \in Seq(StepsFor(l, b)), steps # <<>>
    PROVE  /\ Head(steps) \in StepsFor(l, b) /\ Tail(steps) \in Seq(StepsFor(l, b))
           /\ Head(steps).feature \in FeaturesAt(l)
           /\ Head(steps).do # "break" => Head(steps) \in StepsAt(l)
           /\ Head(steps).do = "break" => ~Whole(b)
<1>1. Head(steps) \in StepsFor(l, b) /\ Tail(steps) \in Seq(StepsFor(l, b))
  BY SequenceFacts!HeadTailProperties
<1>2. \A s \in StepsAt(l) : s.feature \in FeaturesAt(l) /\ s.do # "break"
  BY DEF StepsAt
<1>3. \A s \in StepsFor(l, b) : \/ s \in StepsAt(l)
                                \/ s.do = "break" /\ s.feature \in FeaturesAt(l) /\ ~Whole(b)
  BY DEF StepsFor, Break
<1> QED BY <1>1, <1>2, <1>3

(* Feature.Value: what is read parses, or the request ends.                *)
LEMMA ReadFeatureTyped ==
    ASSUME Inv, TypeInv, NEW r \in Request, ReadFeature(r) PROVE TypeInv'
<1> DEFINE l == req[r].light
           f == Head(todo[r]).feature
<1>1. pc[r] = "apply" /\ todo[r] # <<>> /\ Head(todo[r]).do = "read" /\ UNCHANGED <<lamps, issued>>
  BY DEF ReadFeature
<1>2. /\ Shape /\ LampInv /\ HandlerInv /\ l \in Light
      /\ BodyOK(req[r].body) /\ DOMAIN req[r] = DOMAIN NoRequest
      /\ todo[r] \in Seq(StepsFor(l, req[r].body)) /\ reg \in [Request -> Readings]
  BY <1>1 DEF Inv, TypeInv, HandlerInv
<1>3. /\ Head(todo[r]) \in StepsAt(l) /\ Tail(todo[r]) \in Seq(StepsFor(l, req[r].body))
      /\ f \in FeaturesAt(l)
  BY <1>1, <1>2, StepTyped
<1>4. CASE Reply(r, "internal")
  BY <1>1, <1>4, ReplyTyped
<1>5. CASE /\ seen[l][f] # Garbage
           /\ reg' = [reg EXCEPT ![r][f] = seen[l][f]]
           /\ todo' = [todo EXCEPT ![r] = Tail(@)]
           /\ UNCHANGED <<pc, req, answer>>
  <2>1. f # "on"
    BY <1>1, <1>3 DEF StepsAt
  <2>2. f \in {"brightness", "colorTemperature", "hue", "saturation"}
    BY <1>2, <1>3, <2>1, FeaturesByType
  <2>3. seen[l][f] \in ValuesOf(f)
    BY <1>2, <1>3, <1>5 DEF LampInv, Published
  <2> DEFINE v == seen[l][f]
  <2>4. /\ f = "hue" => v \in Hues
        /\ f = "saturation" => v \in Saturations
        /\ f \in {"brightness", "colorTemperature"} => v \in Int
    BY <2>3 DEF ValuesOf
  <2>5. reg[r] \in Readings
    BY <1>2
  <2>6. [reg[r] EXCEPT ![f] = v] \in Readings
    <3> HIDE DEF f, v
    <3>1. CASE f = "brightness"
      BY <2>4, <2>5, <3>1 DEF Readings
    <3>2. CASE f = "colorTemperature"
      BY <2>4, <2>5, <3>2 DEF Readings
    <3>3. CASE f = "hue"
      BY <2>4, <2>5, <3>3 DEF Readings
    <3>4. CASE f = "saturation"
      BY <2>4, <2>5, <3>4 DEF Readings
    <3> QED BY <2>2, <3>1, <3>2, <3>3, <3>4
  <2>7. reg' \in [Request -> Readings]
    BY <1>2, <1>5, <2>6
  <2>8. /\ todo'[r] = Tail(todo[r])
        /\ \A q \in Request : q # r => todo'[q] = todo[q]
    BY <1>2, <1>5 DEF Shape
  <2> QED BY <1>1, <1>2, <1>3, <1>5, <2>7, <2>8, SelfTyped
<1> QED BY <1>4, <1>5 DEF ReadFeature

(* What a step sets a feature to parses.                                   *)
LEMMA TargetTyped ==
    ASSUME NEW l \in Light, NEW step \in StepsAt(l), step.do # "read", NEW values \in Readings
    PROVE  Parsed(step.feature, Target(step, values))
<1>1. CASE step.do = "set"
  BY <1>1 DEF StepsAt, Target
<1>2. CASE step.do = "move" /\ step.feature = "brightness"
  <2>1. values.brightness \in Int /\ step.by \in Int
    BY <1>2 DEF StepsAt, Readings
  <2>2. Target(step, values) = Dimmed(values.brightness, step.by)
    BY <1>2 DEF Target
  <2> QED BY <1>2, <2>1, <2>2, ScalesAreInt DEF Parsed, ValuesOf
<1>3. CASE step.do = "move" /\ step.feature = "colorTemperature"
  <2>1. values.colorTemperature \in Int /\ step.by \in Int
    BY <1>3 DEF StepsAt, Readings
  <2>2. Target(step, values) = values.colorTemperature + step.by
    BY <1>3 DEF Target
  <2> QED BY <1>3, <2>1, <2>2 DEF Parsed, ValuesOf
<1>4. CASE step.do = "move" /\ step.feature \in {"hue", "saturation"}
  <2>1. values.hue \in Hues /\ values.saturation \in Saturations /\ step.by \in Turns
    BY <1>4 DEF StepsAt, Readings
  <2> DEFINE c == ShiftHS[<<values.hue, values.saturation>>, step.by]
  <2>2. c \in Hues \X Saturations
    <3>1. <<<<values.hue, values.saturation>>, step.by>> \in (Hues \X Saturations) \X Turns
      BY <2>1
    <3>2. \A p \in (Hues \X Saturations) \X Turns : ShiftHS[p] \in Hues \X Saturations
      BY ValueAssumption
    <3> QED BY <3>1, <3>2, Zenon
  <2>3. /\ step.feature = "hue" => Target(step, values) = c[1]
        /\ step.feature = "saturation" => Target(step, values) = c[2]
    <3>1. CASE step.feature = "hue"
      BY <1>4, <3>1 DEF Target
    <3>2. CASE step.feature = "saturation"
      BY <1>4, <3>2 DEF Target
    <3> QED BY <1>4, <3>1, <3>2
  <2> HIDE DEF c
  <2> QED BY <1>4, <2>2, <2>3 DEF Parsed, ValuesOf
<1>5. \/ step.do = "set"
      \/ step.do = "move" /\ step.feature \in {"brightness", "colorTemperature", "hue", "saturation"}
  BY DEF StepsAt
<1> QED BY <1>1, <1>2, <1>3, <1>4, <1>5

(* Feature.Set                                                             *)
LEMMA SetFeatureTyped ==
    ASSUME Inv, TypeInv, NEW r \in Request, SetFeature(r) PROVE TypeInv'
<1> DEFINE l == req[r].light
           step == Head(todo[r])
           m == [feature |-> step.feature, value |-> Target(step, reg[r]), by |-> req[r].by]
<1>1. /\ pc[r] = "apply" /\ todo[r] # <<>> /\ step.do \in {"set", "move"}
      /\ queue' = [queue EXCEPT ![l] = Append(@, m)]
      /\ todo' = [todo EXCEPT ![r] = Tail(@)]
      /\ UNCHANGED <<lamp, pub, seen, present, glitches, pc, req, reg, issued, answer>>
  BY DEF SetFeature
<1>2. /\ Shape /\ LampInv /\ HandlerInv /\ CleanInv /\ l \in Light
      /\ todo[r] \in Seq(StepsFor(l, req[r].body)) /\ reg[r] \in Readings
  BY <1>1 DEF Inv, TypeInv, HandlerInv
<1>3. /\ step \in StepsAt(l) /\ Tail(todo[r]) \in Seq(StepsFor(l, req[r].body))
      /\ step.feature \in FeaturesAt(l)
  BY <1>1, <1>2, StepTyped
<1>4. m.feature \in FeaturesAt(l) /\ Parsed(m.feature, m.value)
  BY <1>1, <1>2, <1>3, TargetTyped
<1>5. /\ queue'[l] = Append(queue[l], m) /\ IsSequence(queue[l])
      /\ \A k \in Light : k # l => queue'[k] = queue[k]
  BY <1>1, <1>2 DEF Shape
<1> HIDE DEF m, step
<1>6. \A k \in Light : \A i \in 1..Len(queue'[k]) :
          /\ queue'[k][i].feature \in FeaturesAt(k)
          /\ Parsed(queue'[k][i].feature, queue'[k][i].value)
  <2> SUFFICES ASSUME NEW k \in Light, NEW i \in 1..Len(queue'[k])
               PROVE  /\ queue'[k][i].feature \in FeaturesAt(k)
                      /\ Parsed(queue'[k][i].feature, queue'[k][i].value)
    OBVIOUS
  <2>1. CASE k # l
    BY <1>2, <1>5, <2>1 DEF LampInv
  <2>2. CASE k = l
    <3>1. /\ Len(queue[l]) \in Nat /\ Len(queue'[l]) = Len(queue[l]) + 1
          /\ \A j \in 1..Len(queue[l]) : queue'[l][j] = queue[l][j]
          /\ queue'[l][Len(queue[l]) + 1] = m
      BY <1>5, Appended
    <3>2. CASE i = Len(queue[l]) + 1
      BY <1>4, <2>2, <3>1, <3>2
    <3>3. CASE i # Len(queue[l]) + 1
      <4>1. i \in 1..Len(queue[l])
        BY <2>2, <3>1, <3>3
      <4>2. queue'[k][i] = queue[l][i]
        BY <2>2, <3>1, <4>1
      <4> QED BY <1>2, <2>2, <4>1, <4>2 DEF LampInv
    <3> QED BY <3>2, <3>3
  <2> QED BY <2>1, <2>2
<1>7. LampInv'
  BY <1>1, <1>2, <1>6 DEF LampInv
<1>8. HandlerInv'
  <2>1. todo'[r] = Tail(todo[r]) /\ \A q \in Request : q # r => todo'[q] = todo[q]
    BY <1>1, <1>2 DEF Shape
  <2> QED BY <1>1, <1>2, <1>3, <2>1 DEF HandlerInv
<1>9. CleanInv'
  BY <1>1, <1>2 DEF CleanInv, Clean
<1> QED BY <1>7, <1>8, <1>9 DEF TypeInv

(* The steps of the lamps leave the handlers alone.                        *)
LEMMA LampTyped ==
    ASSUME TypeInv, UNCHANGED <<pc, req, todo, reg, issued, answer>>, LampInv',
           glitches' = 0 => /\ glitches = 0 /\ present' = Light
                            /\ \A l \in Light :
                                  /\ \A f \in DOMAIN seen'[l] : seen'[l][f] # Garbage
                                  /\ \A i \in 1..Len(pub'[l]) : pub'[l][i].value # Garbage
    PROVE  TypeInv'
<1>1. HandlerInv'
  BY DEF TypeInv, HandlerInv
<1>2. CleanInv'
  BY DEF TypeInv, CleanInv, Clean
<1> QED BY <1>1, <1>2 DEF TypeInv

(* A publication is sent after the others.                                 *)
LEMMA PublishTyped ==
    ASSUME TypeInv, NEW l \in Light, NEW f \in FeaturesAt(l), NEW v, Published(f, v),
           Publish(l, f, v)
    PROVE  /\ DOMAIN pub' = Light
           /\ \A k \in Light :
                 /\ IsSequence(pub'[k])
                 /\ \A i \in 1..Len(pub'[k]) :
                       /\ pub'[k][i].feature \in FeaturesAt(k)
                       /\ Published(pub'[k][i].feature, pub'[k][i].value)
                       /\ \/ i \in 1..Len(pub[k]) /\ pub'[k][i] = pub[k][i]
                          \/ pub'[k][i].value = v
<1> DEFINE m == [feature |-> f, value |-> v]
<1>1. pub' = [pub EXCEPT ![l] = Append(@, m)] /\ LampInv
  BY DEF Publish, TypeInv
<1>2. /\ DOMAIN pub' = Light /\ pub'[l] = Append(pub[l], m)
      /\ IsSequence(pub[l])
      /\ \A k \in Light : k # l => pub'[k] = pub[k]
  BY <1>1 DEF LampInv
<1>3. m.feature = f /\ m.value = v
  OBVIOUS
<1> HIDE DEF m
<1>4. /\ IsSequence(pub'[l]) /\ Len(pub[l]) \in Nat /\ Len(pub'[l]) = Len(pub[l]) + 1
      /\ \A j \in 1..Len(pub[l]) : pub'[l][j] = pub[l][j]
      /\ pub'[l][Len(pub[l]) + 1] = m
  BY <1>2, Appended
<1>5. ASSUME NEW i \in 1..Len(pub'[l])
      PROVE  /\ pub'[l][i].feature \in FeaturesAt(l)
             /\ Published(pub'[l][i].feature, pub'[l][i].value)
             /\ \/ i \in 1..Len(pub[l]) /\ pub'[l][i] = pub[l][i]
                \/ pub'[l][i].value = v
  <2>1. CASE i = Len(pub[l]) + 1
    BY <1>3, <1>4, <2>1
  <2>2. CASE i # Len(pub[l]) + 1
    <3>1. i \in 1..Len(pub[l]) /\ pub'[l][i] = pub[l][i]
      BY <1>4, <2>2
    <3> QED BY <1>1, <3>1 DEF LampInv
  <2> QED BY <2>1, <2>2
<1>6. ASSUME NEW k \in Light, k # l
      PROVE  /\ IsSequence(pub'[k])
             /\ \A i \in 1..Len(pub'[k]) :
                   /\ pub'[k][i].feature \in FeaturesAt(k)
                   /\ Published(pub'[k][i].feature, pub'[k][i].value)
                   /\ i \in 1..Len(pub[k]) /\ pub'[k][i] = pub[k][i]
  BY <1>1, <1>2, <1>6 DEF LampInv
<1> QED BY <1>2, <1>4, <1>5, <1>6

(* A lamp takes a Set, and publishes it.                                   *)
LEMMA TakeSetTyped ==
    ASSUME Inv, TypeInv, NEW l \in Light, TakeSet(l) PROVE TypeInv'
<1> DEFINE m == Head(queue[l])
<1>1. /\ queue[l] # <<>> /\ queue' = [queue EXCEPT ![l] = Tail(@)]
      /\ lamp' = [lamp EXCEPT ![l] = Taken(@, m)]
      /\ Publish(l, m.feature, m.value) \/ UNCHANGED pub
      /\ UNCHANGED <<seen, present, glitches, pc, req, todo, reg, issued, answer>>
  BY DEF TakeSet
<1>2. Shape /\ LampInv /\ CleanInv
  BY DEF Inv, TypeInv
<1>3. /\ queue'[l] = Tail(queue[l]) /\ Len(queue[l]) \in Nat /\ Len(queue[l]) > 0
      /\ Len(queue'[l]) = Len(queue[l]) - 1 /\ m = queue[l][1]
      /\ \A i \in 1..Len(queue'[l]) : queue'[l][i] = queue[l][i + 1]
      /\ \A k \in Light : k # l => queue'[k] = queue[k]
  BY <1>1, <1>2, Rest DEF Shape
<1>4. m.feature \in FeaturesAt(l) /\ Parsed(m.feature, m.value)
  BY <1>2, <1>3 DEF LampInv
<1> HIDE DEF m
<1>5. \A k \in Light : \A i \in 1..Len(queue'[k]) :
          /\ queue'[k][i].feature \in FeaturesAt(k)
          /\ Parsed(queue'[k][i].feature, queue'[k][i].value)
  <2>1. \A k \in Light : \A i \in 1..Len(queue'[k]) :
            \E j \in 1..Len(queue[k]) : queue'[k][i] = queue[k][j]
    <3>1. \A i \in 1..Len(queue'[l]) : i + 1 \in 1..Len(queue[l])
      BY <1>3
    <3> QED BY <1>3, <3>1
  <2> QED BY <1>2, <2>1 DEF LampInv
<1>6. /\ DOMAIN lamp' = Light
      /\ \A k \in Light : /\ DOMAIN lamp'[k] = FeaturesAt(k)
                          /\ \A f \in FeaturesAt(k) : Parsed(f, lamp'[k][f])
  <2>1. /\ DOMAIN lamp[l] = FeaturesAt(l)
        /\ \A f \in FeaturesAt(l) : Parsed(f, lamp[l][f])
    BY <1>2 DEF LampInv
  <2>2. lamp'[l] \in {lamp[l], [lamp[l] EXCEPT ![m.feature] = m.value]}
    BY <1>1, <1>2 DEF LampInv, Taken
  <2>3. /\ DOMAIN lamp'[l] = FeaturesAt(l)
        /\ \A f \in FeaturesAt(l) : Parsed(f, lamp'[l][f])
    <3>1. CASE lamp'[l] = lamp[l]
      BY <2>1, <3>1
    <3>2. CASE lamp'[l] = [lamp[l] EXCEPT ![m.feature] = m.value]
      BY <1>4, <2>1, <3>2
    <3> QED BY <2>2, <3>1, <3>2
  <2>4. \A k \in Light : k # l => lamp'[k] = lamp[k]
    BY <1>1, <1>2 DEF LampInv
  <2>5. DOMAIN lamp' = Light
    BY <1>1, <1>2 DEF LampInv
  <2> QED BY <1>2, <2>3, <2>4, <2>5 DEF LampInv
<1>7. /\ DOMAIN pub' = Light
      /\ \A k \in Light :
            /\ IsSequence(pub'[k])
            /\ \A i \in 1..Len(pub'[k]) :
                  /\ pub'[k][i].feature \in FeaturesAt(k)
                  /\ Published(pub'[k][i].feature, pub'[k][i].value)
                  /\ \/ i \in 1..Len(pub[k]) /\ pub'[k][i] = pub[k][i]
                     \/ pub'[k][i].value = m.value
  <2>1. CASE Publish(l, m.feature, m.value)
    BY <1>4, <2>1, ParsedIsPublished, PublishTyped
  <2>2. CASE UNCHANGED pub
    BY <1>2, <2>2 DEF LampInv
  <2> QED BY <1>1, <2>1, <2>2
<1>8. LampInv'
  BY <1>1, <1>2, <1>5, <1>6, <1>7 DEF LampInv
<1>9. m.value # Garbage
  BY <1>4, ParsedIsInt
<1>10. glitches' = 0 =>
           /\ glitches = 0 /\ present' = Light
           /\ \A k \in Light : /\ \A f \in DOMAIN seen'[k] : seen'[k][f] # Garbage
                               /\ \A i \in 1..Len(pub'[k]) : pub'[k][i].value # Garbage
  BY <1>1, <1>2, <1>7, <1>9 DEF CleanInv, Clean
<1> QED BY <1>1, <1>8, <1>10, LampTyped

(* A publication is delivered.                                             *)
LEMMA DeliverTyped ==
    ASSUME Inv, TypeInv, NEW l \in Light, Deliver(l) PROVE TypeInv'
<1> DEFINE m == Head(pub[l])
<1>1. /\ pub[l] # <<>> /\ pub' = [pub EXCEPT ![l] = Tail(@)]
      /\ seen' = [seen EXCEPT ![l][m.feature] = m.value]
      /\ UNCHANGED <<lamp, queue, present, glitches, pc, req, todo, reg, issued, answer>>
  BY DEF Deliver
<1>2. LampInv /\ CleanInv
  BY DEF TypeInv
<1>3. IsSequence(pub[l]) /\ \A k \in Light : k # l => pub'[k] = pub[k]
  BY <1>1, <1>2 DEF LampInv
<1>4. /\ pub'[l] = Tail(pub[l]) /\ IsSequence(pub'[l])
      /\ Len(pub[l]) \in Nat /\ Len(pub[l]) > 0
      /\ Len(pub'[l]) = Len(pub[l]) - 1 /\ m = pub[l][1]
      /\ \A i \in 1..Len(pub'[l]) : pub'[l][i] = pub[l][i + 1]
  BY <1>1, <1>2, <1>3, Rest DEF LampInv
<1>5. 1 \in 1..Len(pub[l]) /\ \A i \in 1..Len(pub'[l]) : i + 1 \in 1..Len(pub[l])
  BY <1>4
<1>6. m.feature \in FeaturesAt(l) /\ Published(m.feature, m.value)
  BY <1>2, <1>4, <1>5 DEF LampInv
<1>7. \A k \in Light : \A i \in 1..Len(pub'[k]) :
          \E j \in 1..Len(pub[k]) : pub'[k][i] = pub[k][j]
  BY <1>3, <1>4, <1>5
<1>8. glitches = 0 => m.value # Garbage
  BY <1>2, <1>4, <1>5 DEF CleanInv, Clean
<1> HIDE DEF m
<1>9. /\ DOMAIN seen' = Light
      /\ \A k \in Light :
            /\ DOMAIN seen'[k] = FeaturesAt(k)
            /\ \A f \in FeaturesAt(k) : /\ Published(f, seen'[k][f])
                                        /\ seen'[k][f] = seen[k][f] \/ seen'[k][f] = m.value
  <2>1. DOMAIN seen = Light /\ DOMAIN seen[l] = FeaturesAt(l)
    BY <1>2 DEF LampInv
  <2>2. seen'[l] = [seen[l] EXCEPT ![m.feature] = m.value]
    BY <1>1, <2>1
  <2>3. \A k \in Light : k # l => seen'[k] = seen[k]
    BY <1>1, <2>1
  <2>4. DOMAIN seen' = Light
    BY <1>1, <2>1
  <2>5. \A f \in FeaturesAt(l) : Published(f, seen[l][f])
    BY <1>2 DEF LampInv
  <2>6. /\ DOMAIN seen'[l] = FeaturesAt(l)
        /\ \A f \in FeaturesAt(l) : /\ Published(f, seen'[l][f])
                                    /\ seen'[l][f] = seen[l][f] \/ seen'[l][f] = m.value
    BY <1>6, <2>1, <2>2, <2>5
  <2> QED BY <1>2, <2>3, <2>4, <2>6 DEF LampInv
<1>10. DOMAIN pub' = Light /\ \A k \in Light : IsSequence(pub'[k])
  BY <1>1, <1>2, <1>3, <1>4 DEF LampInv
<1>11. LampInv'
  BY <1>1, <1>2, <1>7, <1>9, <1>10 DEF LampInv
<1>12. glitches' = 0 =>
           /\ glitches = 0 /\ present' = Light
           /\ \A k \in Light : /\ \A f \in DOMAIN seen'[k] : seen'[k][f] # Garbage
                               /\ \A i \in 1..Len(pub'[k]) : pub'[k][i].value # Garbage
  BY <1>1, <1>2, <1>7, <1>8, <1>9 DEF CleanInv, Clean, LampInv
<1> QED BY <1>1, <1>11, <1>12, LampTyped

(* A glitch is the only source of garbage.                                 *)
LEMMA GlitchTyped ==
    ASSUME Inv, TypeInv, NEW l \in Light, Glitch(l) PROVE TypeInv'
<1>1. /\ glitches < MaxGlitches /\ glitches' = glitches + 1
      /\ UNCHANGED <<queue, seen, pc, req, todo, reg, issued, answer>>
  BY DEF Glitch
<1>2. LampInv /\ glitches \in Nat
  BY LightAssumption DEF TypeInv, LampInv
<1>3. glitches' \in 0..MaxGlitches /\ glitches' # 0
  BY <1>1, <1>2, LightAssumption
<1>4. UNCHANGED pub \/ \E f \in FeaturesAt(l) : \E v : Published(f, v) /\ Publish(l, f, v)
  <2>1. CASE Publish(l, "on", 1 - lamp[l].on)
    <3>1. "on" \in FeaturesAt(l)
      BY FeaturesByType
    <3>2. lamp[l].on \in {0, 1}
      BY <1>2, <3>1 DEF LampInv, Parsed, ValuesOf
    <3>3. Published("on", 1 - lamp[l].on)
      BY <3>2 DEF Published, ValuesOf
    <3> QED BY <2>1, <3>1, <3>3
  <2>2. CASE \E f \in DOMAIN lamp[l] \ {"on"} : Publish(l, f, Garbage)
    BY <1>2, <2>2 DEF LampInv, Published
  <2> QED BY <2>1, <2>2 DEF Glitch
<1>8. present' \subseteq Light
  BY <1>2 DEF Glitch, LampInv
<1>5. /\ DOMAIN pub' = Light
      /\ \A k \in Light :
            /\ IsSequence(pub'[k])
            /\ \A i \in 1..Len(pub'[k]) : /\ pub'[k][i].feature \in FeaturesAt(k)
                                          /\ Published(pub'[k][i].feature, pub'[k][i].value)
  BY <1>2, <1>4, PublishTyped DEF LampInv
<1>6. /\ DOMAIN lamp' = Light
      /\ \A k \in Light : /\ DOMAIN lamp'[k] = FeaturesAt(k)
                          /\ \A f \in FeaturesAt(k) : Parsed(f, lamp'[k][f])
  <2>1. CASE UNCHANGED lamp
    BY <1>2, <2>1 DEF LampInv
  <2>2. CASE lamp' = [lamp EXCEPT ![l].on = 1 - @]
    <3>1. "on" \in FeaturesAt(l)
      BY FeaturesByType
    <3>2. 1 - lamp[l].on \in {0, 1}
      BY <1>2, <3>1 DEF LampInv, Parsed, ValuesOf
    <3>3. Parsed("on", 1 - lamp[l].on)
      BY <3>2 DEF Parsed, ValuesOf
    <3>4. lamp'[l] = [lamp[l] EXCEPT !.on = 1 - lamp[l].on]
      BY <1>2, <2>2 DEF LampInv
    <3>5. /\ DOMAIN lamp'[l] = FeaturesAt(l)
          /\ \A f \in FeaturesAt(l) : Parsed(f, lamp'[l][f])
      BY <1>2, <3>3, <3>4 DEF LampInv
    <3>6. DOMAIN lamp' = Light /\ \A k \in Light : k # l => lamp'[k] = lamp[k]
      BY <1>2, <2>2 DEF LampInv
    <3> QED BY <1>2, <3>5, <3>6 DEF LampInv
  <2> QED BY <2>1, <2>2 DEF Glitch
<1>7. LampInv'
  BY <1>1, <1>2, <1>3, <1>5, <1>6, <1>8 DEF LampInv
<1> QED BY <1>1, <1>3, <1>7, LampTyped

(* A request comes in, with a body there is.                               *)
LEMMA PutTyped ==
    ASSUME Inv, TypeInv, NEW r \in Request, NEW path, NEW l \in Light \cup {Unknown},
           NEW b \in Body, Put(r, path, l, b)
    PROVE  TypeInv'
<1>1. /\ pc[r] = "idle" /\ issued < MaxRequests /\ issued' = issued + 1
      /\ pc' = [pc EXCEPT ![r] = "find"]
      /\ UNCHANGED <<lamps, todo, reg, answer>>
  BY DEF Put
<1>2. Shape /\ LampInv /\ HandlerInv /\ CleanInv
  BY DEF Inv, TypeInv
<1>3. BodyOK(b)
  BY ValueAssumption DEF BodyOK, Has4
<1>4. /\ DOMAIN req'[r] = DOMAIN NoRequest /\ req'[r].light = l /\ req'[r].body = b
      /\ \A q \in Request : q # r => req'[q] = req[q]
  BY <1>2 DEF Put, Shape, NoRequest
<1>5. pc'[r] = "find" /\ \A q \in Request : q # r => pc'[q] = pc[q]
  BY <1>1, <1>2 DEF Shape
<1>6. issued' \in 0..MaxRequests
  BY <1>1, <1>2, LightAssumption DEF HandlerInv
<1>7. LampInv'
  BY <1>1, <1>2 DEF LampInv, lamps
<1>8. HandlerInv'
  BY <1>1, <1>2, <1>3, <1>4, <1>5, <1>6 DEF HandlerInv
<1>9. CleanInv'
  BY <1>1, <1>2 DEF CleanInv, Clean, lamps
<1> QED BY <1>7, <1>8, <1>9 DEF TypeInv

(* The types, and that everything parses before the first glitch, are an   *)
(* invariant of the handlers and the lamps.                                *)
THEOREM TypeInvariance == Spec => []TypeInv
<1>1. Inv /\ TypeInv /\ [Next]_vars => TypeInv'
  <2> SUFFICES ASSUME Inv, TypeInv, [Next]_vars PROVE TypeInv'
    OBVIOUS
  <2>1. ASSUME NEW r \in Request, Done(r) \/ Panic(r) PROVE TypeInv'
    <3>1. Reply(r, "success") \/ Reply(r, "panic")
      BY <2>1 DEF Done, Panic
    <3>2. UNCHANGED <<lamps, issued>>
      BY <2>1 DEF Done, Panic
    <3> QED BY <3>1, <3>2, ReplyTyped
  <2>2. ASSUME NEW r \in Request, Handle(r) PROVE TypeInv'
    BY <2>1, <2>2, FindLightTyped, FindAgainTyped, CheckTyped, ReadFeatureTyped, SetFeatureTyped
       DEF Handle
  <2>3. ASSUME NEW r \in Request, NEW path, NEW l \in Light \cup {Unknown}, NEW b \in Body,
               Put(r, path, l, b)
        PROVE  TypeInv'
    BY <2>3, PutTyped
  <2>4. ASSUME NEW l \in Light, TakeSet(l) \/ Deliver(l) \/ Glitch(l) PROVE TypeInv'
    BY <2>4, TakeSetTyped, DeliverTyped, GlitchTyped
  <2>5. CASE UNCHANGED vars
    <3>1. LampInv'
      BY <2>5 DEF TypeInv, LampInv, vars, lamps
    <3>2. HandlerInv' /\ CleanInv'
      BY <2>5 DEF TypeInv, HandlerInv, CleanInv, Clean, vars, lamps
    <3> QED BY <3>1, <3>2 DEF TypeInv
  <2> QED BY <2>2, <2>3, <2>4, <2>5 DEF Next
<1> QED BY <1>1, InitTyped, LightInvariance, PTL DEF Spec

(* The variables of the handlers and the lamps keep their types.           *)
THEOREM LightTypeCorrect == Spec => []LightTypeOK
<1>1. Inv /\ TypeInv => LightTypeOK
  <2> SUFFICES ASSUME Inv, TypeInv PROVE LightTypeOK
    OBVIOUS
  <2>1. Shape /\ NumberInv /\ LampInv /\ HandlerInv
    BY DEF Inv, TypeInv
  <2>2. \A l \in Light : DOMAIN lamp[l] = DOMAIN seen[l] /\ lamp[l].on \in {0, 1}
    <3>1. \A l \in Light : "on" \in FeaturesAt(l)
      BY FeaturesByType
    <3> QED BY <2>1, <3>1 DEF LampInv, Parsed, ValuesOf
  <2>3. ASSUME NEW r \in Request, todo[r] # <<>>
        PROVE  pc[r] = "apply" /\ Head(todo[r]).feature \in DOMAIN lamp[req[r].light]
    <3>1. /\ pc[r] = "apply" /\ req[r].light \in Light
          /\ todo[r] \in Seq(StepsFor(req[r].light, req[r].body))
      BY <2>1, <2>3 DEF HandlerInv
    <3> QED BY <2>1, <2>3, <3>1, StepTyped DEF LampInv
  <2>4. present \subseteq Light /\ issued \in 0..MaxRequests /\ glitches \in 0..MaxGlitches
    BY <2>1 DEF HandlerInv, LampInv
  <2>5. \A r \in Request : /\ pc[r] \in {"idle", "find", "again", "check", "apply"}
                           /\ pc[r] # "idle" => req[r].by \in 1..issued
    BY <2>1 DEF Shape, NumberInv, Active
  <2> QED BY <2>2, <2>3, <2>4, <2>5 DEF LightTypeOK
<1> QED BY <1>1, LightInvariance, TypeInvariance, PTL

(* A handler that answers with a panic before it has looked at its steps   *)
(* has sent nothing, and its lamp is not as it was found.                  *)
LEMMA EarlyPanic ==
    ASSUME Inv, TypeInv, NEW r \in Request, pc[r] \in {"again", "check"},
           ~Found(req[r].light) \/ req[r].light \notin present
    PROVE  /\ req[r].light \in Light /\ glitches > 0
           /\ \A i \in 1..Len(queue[req[r].light]) : queue[req[r].light][i].by # req[r].by
<1>1. req[r].light \in Light /\ glitches \in Nat
  BY LightAssumption DEF TypeInv, HandlerInv, LampInv
<1>2. glitches # 0
  BY <1>1 DEF TypeInv, CleanInv, Clean, Found
<1>3. Silent(req[r].by)
  BY DEF Inv, SilentInv
<1> QED BY <1>1, <1>2, <1>3 DEF Silent

(* Whatever the clients send and however their requests interleave, a      *)
(* handler panics only for a short array, or before it has sent anything   *)
(* when its lamp published nonsense or left.                               *)
THEOREM PanicsHold == Spec => PanicsExplained
<1>1. Inv /\ TypeInv /\ [Next]_vars => [PanicExplained]_vars
  <2> SUFFICES ASSUME Inv, TypeInv, Next, NEW r \in Request,
                      pc[r] # "idle", pc'[r] = "idle", answer'[req[r].light].code = "panic",
                      Whole(req[r].body)
               PROVE  /\ req[r].light \in Light /\ glitches > 0
                      /\ \A i \in 1..Len(queue[req[r].light]) :
                            queue[req[r].light][i].by # req[r].by
    BY DEF PanicExplained
  <2>1. Shape /\ HandlerInv /\ req[r].light \in DOMAIN answer
    BY DEF Inv, TypeInv, HandlerInv, Shape
  <2>2. ASSUME NEW q \in Request, NEW k, pc' = [pc EXCEPT ![q] = k] PROVE q = r
    BY <2>1, <2>2 DEF Shape
  <2>3. ASSUME NEW code, Reply(r, code) PROVE code = "panic"
    BY <2>1, <2>3 DEF Reply
  <2>4. PICK q \in Request : Handle(q)
    <3>1. ASSUME NEW q \in Request, NEW path, NEW l, NEW b, Put(q, path, l, b) PROVE FALSE
      BY <2>1, <3>1 DEF Put, Shape
    <3>2. ASSUME NEW l \in Light, TakeSet(l) \/ Deliver(l) \/ Glitch(l) PROVE FALSE
      BY <3>2 DEF TakeSet, Deliver, Glitch
    <3> QED BY <3>1, <3>2 DEF Next
  <2>5. CASE FindLight(q)
    <3>1. q = r
      BY <2>1, <2>5 DEF FindLight, Reply, Shape
    <3>2. CASE Reply(r, "resource") \/ Reply(r, "unavailable")
      BY <2>3, <3>2
    <3>3. CASE pc' = [pc EXCEPT ![q] = IF req[q].path = "group" THEN "again" ELSE "check"]
      BY <2>1, <3>1, <3>3 DEF Shape
    <3> QED BY <2>5, <3>1, <3>2, <3>3 DEF FindLight
  <2>6. CASE FindAgain(q)
    <3>1. q = r
      BY <2>1, <2>6 DEF FindAgain, Reply, Shape
    <3>2. CASE ~Found(req[r].light)
      BY <2>6, <3>1, <3>2, EarlyPanic DEF FindAgain
    <3>3. CASE pc' = [pc EXCEPT ![q] = "check"]
      BY <2>1, <3>1, <3>3 DEF Shape
    <3> QED BY <2>6, <3>1, <3>2, <3>3 DEF FindAgain
  <2>7. CASE Check(q)
    <3>1. q = r
      BY <2>1, <2>7 DEF Check, Reply, Shape
    <3>2. CASE Reply(r, "unavailable") \/ Reply(r, "off")
      BY <2>3, <3>2
    <3>3. CASE req[r].light \notin present
      BY <2>7, <3>1, <3>3, EarlyPanic DEF Check
    <3>4. CASE pc' = [pc EXCEPT ![q] = "apply"]
      BY <2>1, <3>1, <3>4 DEF Shape
    <3> QED BY <2>7, <3>1, <3>2, <3>3, <3>4 DEF Check
  <2>8. CASE ReadFeature(q)
    <3>1. Reply(q, "internal")
      BY <2>8 DEF ReadFeature
    <3> QED BY <2>2, <2>3, <3>1 DEF Reply
  <2>9. CASE SetFeature(q)
    BY <2>9 DEF SetFeature
  <2>10. CASE Panic(q)
    <3>1. q = r
      BY <2>2, <2>10 DEF Panic, Reply
    <3>2. /\ todo[r] # <<>> /\ Head(todo[r]).do = "break" /\ req[r].light \in Light
          /\ todo[r] \in Seq(StepsFor(req[r].light, req[r].body))
      BY <2>1, <2>10, <3>1 DEF Panic, HandlerInv
    <3> QED BY <3>2, StepTyped
  <2>11. CASE Done(q)
    BY <2>2, <2>3, <2>11 DEF Done, Reply
  <2> QED BY <2>4, <2>5, <2>6, <2>7, <2>8, <2>9, <2>10, <2>11 DEF Handle
<1> QED BY <1>1, LightInvariance, TypeInvariance, PTL DEF Spec, PanicsExplained
================================================================================
