----------------------------- MODULE LightRefinement -----------------------------
(***************************************************************************)
(* When clients leave a lamp alone until it has settled, and nobody else   *)
(* touches it, the handlers and the Sets they send implement Lamp: each    *)
(* request has the effect its body asks for, as a whole, or none.          *)
(***************************************************************************)
EXTENDS LightControlProofs

------------------------------------------------------------------------------
(* The Sets under way to a lamp are folded into what it will be.           *)

WellFounded == INSTANCE WellFoundedInduction

(* The order of the numbers is well-founded: of any there is a least one.  *)
LEMMA Least ==
    ASSUME NEW T, T \subseteq Nat, T # {}
    PROVE  \E n \in T : \A m \in T : n <= m
<1>1. WellFounded!IsWellFoundedOn({ss \in Nat \X Nat : ss[1] < ss[2]}, Nat)
  BY WellFounded!NatLessThanWellFounded DEF WellFounded!OpToRel
<1>2. PICK n \in T : \A m \in T : ~(<<m, n>> \in {ss \in Nat \X Nat : ss[1] < ss[2]})
  BY <1>1, WellFounded!WFMin
<1>3. \A m \in T : ~(m < n)
  BY <1>2
<1>4. \A m \in T : n <= m
  BY <1>3
<1> QED BY <1>4

(* What holds of 0, and of n + 1 when it holds of n, holds of each number. *)
LEMMA Induction ==
    ASSUME NEW T, 0 \in T, \A n \in Nat : n \in T => n + 1 \in T
    PROVE  Nat \subseteq T
<1> SUFFICES ASSUME Nat \ T # {} PROVE FALSE
  OBVIOUS
<1>1. PICK n \in Nat \ T : \A m \in Nat \ T : n <= m
  BY Least
<1>2. n # 0 /\ n - 1 \in Nat
  BY <1>1
<1>3. n - 1 \in T
  BY <1>1, <1>2
<1> QED BY <1>1, <1>2, <1>3

LEMMA Greatest ==
    ASSUME NEW n \in Nat, NEW t \in SUBSET (1..n), t # {}
    PROVE  /\ Max(t) \in t /\ \A k \in t : k <= Max(t)
           /\ \A m \in t : (\A k \in t : k <= m) => Max(t) = m
<1> DEFINE T == {n - k : k \in t}
<1>1. T \subseteq Nat /\ T # {}
  <2>1. \A k \in t : n - k \in Nat
    OBVIOUS
  <2> QED BY <2>1
<1>2. PICK m \in T : \A k \in T : m <= k
  <2> HIDE DEF T
  <2> QED BY <1>1, Least
<1>3. PICK x \in t : m = n - x
  BY <1>2
<1>4. \A k \in t : x >= k
  <2>1. \A k \in t : n - x <= n - k
    BY <1>2, <1>3
  <2> QED BY <2>1
<1>5. Max(t) \in t /\ \A k \in t : Max(t) >= k
  BY <1>4 DEF Max
<1>6. t \subseteq Int
  OBVIOUS
<1>7. ASSUME NEW g \in t, \A k \in t : k <= g PROVE Max(t) = g
  <2>1. Max(t) <= g /\ g <= Max(t) /\ Max(t) \in Int /\ g \in Int
    BY <1>5, <1>6, <1>7
  <2> QED BY <2>1
<1>8. \A k \in t : k <= Max(t)
  BY <1>5, <1>6
<1> QED BY <1>5, <1>7, <1>8

(* What FoldLeft chooses, on the indices up to n of a sequence             *)
Folds(h, s, q, n) ==
    h = [t \in SUBSET (1..n) |-> IF t = {} THEN s ELSE Taken(h[t \ {Max(t)}], q[Max(t)])]

LEMMA FoldExists == \A s, q : \A n \in Nat : \E h : Folds(h, s, q, n)
<1> SUFFICES ASSUME NEW s, NEW q PROVE \A n \in Nat : \E h : Folds(h, s, q, n)
  OBVIOUS
<1> DEFINE T == {n \in Nat : \E h : Folds(h, s, q, n)}
<1>1. 0 \in T
  <2> DEFINE h == [t \in SUBSET (1..0) |-> s]
  <2>1. SUBSET (1..0) = {{}}
    OBVIOUS
  <2>2. Folds(h, s, q, 0)
    BY <2>1 DEF Folds
  <2> QED BY <2>2
<1>2. ASSUME NEW n \in Nat, n \in T PROVE n + 1 \in T
  <2>1. PICK h : Folds(h, s, q, n)
    BY <1>2
  <2> DEFINE g == [t \in SUBSET (1..(n + 1)) |->
                     IF n + 1 \in t THEN Taken(h[t \ {n + 1}], q[n + 1]) ELSE h[t]]
  <2>2. ASSUME NEW t \in SUBSET (1..(n + 1))
        PROVE  g[t] = IF t = {} THEN s ELSE Taken(g[t \ {Max(t)}], q[Max(t)])
    <3>1. CASE t = {}
      <4>1. h[{}] = s
        BY <2>1 DEF Folds
      <4> QED BY <3>1, <4>1
    <3>2. CASE n + 1 \in t
      <4>1. Max(t) = n + 1
        <5>1. n + 1 \in Nat /\ \A k \in t : k <= n + 1
          OBVIOUS
        <5> QED BY <3>2, <5>1, Greatest
      <4>2. t \ {n + 1} \in SUBSET (1..(n + 1)) /\ n + 1 \notin t \ {n + 1}
        OBVIOUS
      <4>3. g[t \ {n + 1}] = h[t \ {n + 1}]
        BY <4>2
      <4> QED BY <3>2, <4>1, <4>3
    <3>3. CASE t # {} /\ n + 1 \notin t
      <4>1. t \in SUBSET (1..n)
        BY <3>3
      <4>2. h[t] = Taken(h[t \ {Max(t)}], q[Max(t)])
        BY <2>1, <3>3, <4>1 DEF Folds
      <4>3. g[t] = h[t] /\ g[t \ {Max(t)}] = h[t \ {Max(t)}]
        <5> DEFINE u == t \ {Max(t)}
        <5>1. u \in SUBSET (1..(n + 1)) /\ n + 1 \notin u
          BY <3>3
        <5> HIDE DEF u
        <5>2. g[u] = h[u]
          BY <5>1
        <5> QED BY <3>3, <5>2 DEF u
      <4> HIDE DEF g
      <4> QED BY <3>3, <4>2, <4>3
    <3> QED BY <3>1, <3>2, <3>3
  <2>3. Folds(g, s, q, n + 1)
    <3>1. g = [t \in SUBSET (1..(n + 1)) |-> g[t]]
      OBVIOUS
    <3> HIDE DEF g
    <3> QED BY <2>2, <3>1 DEF Folds
  <2> HIDE DEF g
  <2> QED BY <2>3
<1>3. Nat \subseteq T
  <2> HIDE DEF T
  <2> QED BY <1>1, <1>2, Induction
<1> QED BY <1>3

(* How a lamp goes through the Sets of a queue                             *)
Trace(f, s, q) ==
    /\ DOMAIN f = 0..Len(q) /\ f[0] = s
    /\ \A k \in 0..Len(q) : k # Len(q) => f[k + 1] = Taken(f[k], q[k + 1])

LEMMA FoldTraced ==
    ASSUME NEW s, NEW q, IsSequence(q)
    PROVE  \E f : Trace(f, s, q) /\ FoldLeft(Taken, s, q) = f[Len(q)]
<1> DEFINE n == Len(q)
           h == CHOOSE h : Folds(h, s, q, n)
           f == [k \in 0..n |-> h[1..k]]
<1>1. n \in Nat /\ DOMAIN q = 1..n
  <2>1. PICK S : q \in Seq(S)
    BY DEF IsSequence
  <2> QED BY <2>1
<1>2. FoldLeft(Taken, s, q) = h[1..n]
  BY <1>1 DEF FoldLeft, MapThenFoldSet, Folds
<1>3. Folds(h, s, q, n)
  BY <1>1, FoldExists
<1> HIDE DEF h
<1>4. f[0] = s
  <2>1. 1..0 = {} /\ {} \in SUBSET (1..n)
    OBVIOUS
  <2>2. h[{}] = s
    BY <1>3, <2>1 DEF Folds
  <2> QED BY <1>1, <2>1, <2>2
<1>5. ASSUME NEW k \in 0..n, k # n PROVE f[k + 1] = Taken(f[k], q[k + 1])
  <2> DEFINE t == 1..(k + 1)
  <2>1. t \in SUBSET (1..n) /\ t # {} /\ t \ {k + 1} = 1..k /\ k + 1 \in 0..n
    <3>1. k \in Nat /\ k + 1 <= n
      <4> HIDE DEF n
      <4> QED BY <1>1, <1>5
    <3>2. \A i \in t : i \in 1..n
      BY <1>1, <3>1
    <3>3. k + 1 \in t
      BY <3>1
    <3>4. \A i : i \in t /\ i # k + 1 <=> i \in 1..k
      BY <3>1
    <3> HIDE DEF t
    <3> QED BY <1>1, <3>1, <3>2, <3>3, <3>4
  <2>2. Max(t) = k + 1
    <3>1. k + 1 \in t /\ \A m \in t : m <= k + 1
      OBVIOUS
    <3> HIDE DEF t
    <3> QED BY <1>1, <2>1, <3>1, Greatest
  <2>3. h[t] = Taken(h[t \ {Max(t)}], q[Max(t)])
    <3> HIDE DEF t
    <3> QED BY <1>3, <2>1 DEF Folds
  <2>4. f[k + 1] = h[t] /\ f[k] = h[1..k]
    BY <2>1
  <2> HIDE DEF t, f
  <2> QED BY <2>1, <2>2, <2>3, <2>4
<1>6. DOMAIN f = 0..n
  OBVIOUS
<1>7. FoldLeft(Taken, s, q) = f[n]
  BY <1>1, <1>2
<1> HIDE DEF f
<1>8. Trace(f, s, q)
  BY <1>4, <1>5, <1>6 DEF Trace
<1> QED BY <1>7, <1>8

(* There is one way through them, as far as they agree.                    *)
LEMMA OneTrace ==
    \A f, g, q : \A n \in Nat :
        /\ f[0] = g[0]
        /\ \A k \in 0..n : k # n => /\ f[k + 1] = Taken(f[k], q[k + 1])
                                    /\ g[k + 1] = Taken(g[k], q[k + 1])
        => f[n] = g[n]
<1> SUFFICES ASSUME NEW f, NEW g, NEW q, NEW n \in Nat, f[0] = g[0],
                    \A k \in 0..n : k # n => /\ f[k + 1] = Taken(f[k], q[k + 1])
                                             /\ g[k + 1] = Taken(g[k], q[k + 1])
             PROVE  f[n] = g[n]
  OBVIOUS
<1> DEFINE T == {k \in Nat : k <= n => f[k] = g[k]}
<1>1. 0 \in T
  OBVIOUS
<1>2. ASSUME NEW k \in Nat, k \in T PROVE k + 1 \in T
  <2>1. CASE k + 1 <= n
    <3>1. k \in 0..n /\ k # n /\ f[k] = g[k]
      BY <1>2, <2>1
    <3>2. f[k + 1] = Taken(f[k], q[k + 1]) /\ g[k + 1] = Taken(g[k], q[k + 1])
      BY <3>1
    <3> QED BY <3>1, <3>2
  <2> QED BY <2>1
<1>3. Nat \subseteq T
  <2> HIDE DEF T
  <2> QED BY <1>1, <1>2, Induction
<1> QED BY <1>3

(* Nothing under way changes nothing, ...                                  *)
LEMMA FoldEmpty == \A s : FoldLeft(Taken, s, <<>>) = s
<1> SUFFICES ASSUME NEW s PROVE FoldLeft(Taken, s, <<>>) = s
  OBVIOUS
<1>1. IsSequence(<<>>) /\ Len(<<>>) = 0
  BY Pieces DEF IsSequence
<1>2. PICK f : Trace(f, s, <<>>) /\ FoldLeft(Taken, s, <<>>) = f[Len(<<>>)]
  BY <1>1, FoldTraced
<1> QED BY <1>1, <1>2 DEF Trace

(* ... one more Set comes after those under way, ...                       *)
LEMMA FoldAppend ==
    ASSUME NEW s, NEW q, IsSequence(q), NEW m
    PROVE  FoldLeft(Taken, s, Append(q, m)) = Taken(FoldLeft(Taken, s, q), m)
<1> DEFINE n == Len(q)
           p == Append(q, m)
<1>1. /\ IsSequence(p) /\ n \in Nat /\ Len(p) = n + 1
      /\ \A i \in 1..n : p[i] = q[i]
      /\ p[n + 1] = m
  BY Appended
<1>2. PICK f : Trace(f, s, q) /\ FoldLeft(Taken, s, q) = f[n]
  BY FoldTraced
<1> HIDE DEF p
<1>3. PICK g : Trace(g, s, p) /\ FoldLeft(Taken, s, p) = g[Len(p)]
  BY <1>1, FoldTraced
<1> HIDE DEF n
<1>4. \A k \in 0..n : k # n => /\ f[k + 1] = Taken(f[k], q[k + 1])
                               /\ g[k + 1] = Taken(g[k], q[k + 1])
  <2> SUFFICES ASSUME NEW k \in 0..n, k # n
               PROVE  /\ f[k + 1] = Taken(f[k], q[k + 1])
                      /\ g[k + 1] = Taken(g[k], q[k + 1])
    OBVIOUS
  <2>1. k \in 0..Len(p) /\ k # Len(p) /\ k + 1 \in 1..n
    BY <1>1
  <2> QED BY <1>1, <1>2, <1>3, <2>1 DEF Trace, n
<1>5. f[0] = g[0]
  BY <1>2, <1>3 DEF Trace
<1>6. f[n] = g[n]
  <2>1. n \in Nat
    BY <1>1
  <2> QED BY <1>4, <1>5, <2>1, OneTrace
<1>7. g[n + 1] = Taken(g[n], p[n + 1])
  BY <1>1, <1>3 DEF Trace
<1> QED BY <1>1, <1>2, <1>3, <1>6, <1>7 DEF p

(* ... and taking the first of them brings the lamp one further.           *)
LEMMA FoldTail ==
    ASSUME NEW s, NEW q, IsSequence(q), q # <<>>
    PROVE  FoldLeft(Taken, Taken(s, Head(q)), Tail(q)) = FoldLeft(Taken, s, q)
<1> DEFINE n == Len(q)
           p == Tail(q)
           t == Taken(s, Head(q))
<1>1. /\ IsSequence(p) /\ n \in Nat /\ n > 0 /\ Len(p) = n - 1 /\ Head(q) = q[1]
      /\ \A i \in 1..Len(p) : p[i] = q[i + 1]
  BY Rest
<1>2. PICK f : Trace(f, s, q) /\ FoldLeft(Taken, s, q) = f[n]
  BY FoldTraced
<1> HIDE DEF p, t
<1>3. PICK g : Trace(g, t, p) /\ FoldLeft(Taken, t, p) = g[Len(p)]
  BY <1>1, FoldTraced
<1> HIDE DEF n
<1> DEFINE u == [k \in 0..(n - 1) |-> f[k + 1]]
<1>4. f[1] = Taken(f[0], q[1]) /\ f[0] = s
  <2>1. 0 \in 0..n /\ 0 # n
    BY <1>1
  <2>2. f[0 + 1] = Taken(f[0], q[0 + 1])
    BY <1>2, <2>1 DEF Trace, n
  <2> QED BY <1>2, <2>2 DEF Trace
<1>5. u[0] = g[0]
  BY <1>1, <1>3, <1>4 DEF Trace, t
<1>6. \A k \in 0..(n - 1) : k # n - 1 => /\ u[k + 1] = Taken(u[k], p[k + 1])
                                         /\ g[k + 1] = Taken(g[k], p[k + 1])
  <2> SUFFICES ASSUME NEW k \in 0..(n - 1), k # n - 1
               PROVE  /\ u[k + 1] = Taken(u[k], p[k + 1])
                      /\ g[k + 1] = Taken(g[k], p[k + 1])
    OBVIOUS
  <2>1. /\ k + 1 \in 0..n /\ k + 1 # n /\ k + 1 \in 1..Len(p) /\ k + 1 \in 0..(n - 1)
        /\ k \in 0..Len(p) /\ k # Len(p)
    BY <1>1
  <2>2. u[k + 1] = f[(k + 1) + 1] /\ u[k] = f[k + 1]
    BY <2>1
  <2>3. f[(k + 1) + 1] = Taken(f[k + 1], q[(k + 1) + 1])
    BY <1>2, <2>1 DEF Trace, n
  <2>4. p[k + 1] = q[(k + 1) + 1]
    BY <1>1, <2>1
  <2>5. g[k + 1] = Taken(g[k], p[k + 1])
    BY <1>3, <2>1 DEF Trace
  <2> HIDE DEF u
  <2> QED BY <2>2, <2>3, <2>4, <2>5
<1>7. n - 1 \in Nat /\ u[n - 1] = f[n]
  BY <1>1
<1> HIDE DEF u
<1>8. u[n - 1] = g[n - 1]
  <2> DEFINE N == n - 1
  <2>1. N \in Nat /\ u[0] = g[0]
    BY <1>5, <1>7
  <2>2. \A k \in 0..N : k # N => /\ u[k + 1] = Taken(u[k], p[k + 1])
                                 /\ g[k + 1] = Taken(g[k], p[k + 1])
    BY <1>6
  <2> HIDE DEF N
  <2>3. u[N] = g[N]
    BY <2>1, <2>2, OneTrace
  <2> QED BY <2>3 DEF N
<1> QED BY <1>1, <1>2, <1>3, <1>7, <1>8 DEF p, t, n

(* The lamp as it will be when it has taken the Sets under way to it       *)
Final(l) == FoldLeft(Taken, lamp[l], queue[l])

------------------------------------------------------------------------------
(* What the steps left to a handler will do to a lamp it found in state s, *)
(* when it has to become goal.                                             *)

(* The features they set                                                   *)
SetsIn(steps) == {steps[k].feature : k \in {j \in 1..Len(steps) : steps[j].do # "read"}}

(* None is set twice, ...                                                  *)
Once(steps) ==
    \A i, j \in 1..Len(steps) :
        /\ steps[i].do # "read" /\ steps[j].do # "read"
        /\ steps[i].feature = steps[j].feature
        => i = j

(* ... one that is read has yet to be set, ...                             *)
SetAfter(steps) ==
    \A k \in 1..Len(steps) : steps[k].do = "read" =>
        \E j \in 1..Len(steps) : /\ k < j /\ steps[j].do # "read"
                                 /\ steps[j].feature = steps[k].feature

(* ... one that is moved has been read, and with it what it depends on,    *)
Sources(f) == IF f \in {"hue", "saturation"} THEN {"hue", "saturation"} ELSE {f}
ReadFirst(steps, got) ==
    \A k \in 1..Len(steps) : steps[k].do = "move" =>
        \A f \in Sources(steps[k].feature) :
            \/ f \in got
            \/ \E i \in 1..Len(steps) : i < k /\ steps[i] = Read(f)

(* ... and each gets the value it has to get.                              *)
Hits(steps, s, goal) ==
    \A k \in 1..Len(steps) : steps[k].do # "read" => Target(steps[k], s) = goal[steps[k].feature]

Plan(steps, got, s, goal) ==
    /\ Once(steps) /\ SetAfter(steps)
    /\ ReadFirst(steps, got) /\ Hits(steps, s, goal)

------------------------------------------------------------------------------
(* The inductive invariant                                                 *)

(* Clients send arrays of two numbers.                                     *)
WholeBodies == \A b \in Body : Whole(b)

Goal(r) == Promise!Effect(req[r].found, req[r].asked)
Got(r) == {f \in DOMAIN NoValues \cap DOMAIN req[r].found : reg[r][f] = req[r].found[f]}

TurnsOnFirst(step) == step.feature = "on" /\ step.do = "set" /\ step.value = 1

(* Nothing has been sent to this feature, nor does it publish anything.    *)
Untouched(l, f, s) ==
    /\ lamp[l][f] = s[f] /\ seen[l][f] = s[f]
    /\ \A i \in 1..Len(queue[l]) : queue[l][i].feature # f
    /\ \A i \in 1..Len(pub[l]) : pub[l][i].feature # f

(* The body has been accepted, and the rest of the steps leads from what   *)
(* was sent to what was asked for.                                         *)
ApplyOK(r) ==
    LET l == req[r].light  s == req[r].found
    IN  /\ Promise!Result(Type[l], s, req[r].asked) = "success"
        /\ Plan(todo[r], Got(r), s, Goal(r))
        /\ \A f \in FeaturesAt(l) : IF f \in SetsIn(todo[r]) THEN Untouched(l, f, s)
                                                             ELSE Final(l)[f] = Goal(r)[f]
        /\ todo[r] # <<>> => Final(l).on = 1 \/ TurnsOnFirst(Head(todo[r]))
        /\ s = [f \in FeaturesAt(l) |-> s[f]]

(* Before that nothing has happened since the request came in.             *)
RequestOK(r) ==
    /\ pc[r] = "idle" => req[r].light = Unknown
    /\ Active(r) => /\ req[r].asked \in Body /\ Whole(req[r].asked)
                    /\ req[r].path \in {"light", "group"}
    /\ pc[r] = "find" => req[r].body = req[r].asked
    /\ pc[r] \in {"again", "check", "apply"} =>
          /\ req[r].body = Bind(req[r].asked)
          /\ DOMAIN req[r].asked \cap Unsupported = {}
          /\ req[r].path = "group" => req[r].light \notin Hidden
    /\ pc[r] \in {"find", "again", "check"} /\ req[r].light \in Light =>
          /\ queue[req[r].light] = <<>> /\ pub[req[r].light] = <<>>
          /\ lamp[req[r].light] = req[r].found
    /\ pc[r] = "apply" => ApplyOK(r)

(* The lamp is on when it is to take a setting, and what is seen of it is  *)
(* what it will have published last.                                       *)
SeenOK(l, f) ==
    /\ (\A i \in 1..Len(pub[l]) : pub[l][i].feature # f) => seen[l][f] = lamp[l][f]
    /\ \A i \in 1..Len(pub[l]) :
          /\ pub[l][i].feature = f
          /\ \A j \in 1..Len(pub[l]) : i < j => pub[l][j].feature # f
          => pub[l][i].value = lamp[l][f]
TurnsItOff(m) == m.feature = "on" /\ m.value = 0
LampOK(l) ==
    /\ lamp[l] = [f \in FeaturesAt(l) |-> lamp[l][f]]
    /\ Final(l) = [f \in FeaturesAt(l) |-> Final(l)[f]]
    /\ \A f \in FeaturesAt(l) : SeenOK(l, f)
    /\ queue[l] # <<>> => lamp[l].on = 1 \/ (queue[l][1].feature = "on" /\ queue[l][1].value = 1)
    /\ \A i \in 1..Len(queue[l]) : TurnsItOff(queue[l][i]) =>
          /\ i = Len(queue[l])
          /\ \A r \in Request : req[r].light = l => todo[r] = <<>>

OneInv == \A r, q \in Request : req[r].light = req[q].light /\ req[r].light \in Light => r = q

Alone == /\ glitches = 0 /\ OneInv
         /\ \A r \in Request : RequestOK(r)
         /\ \A l \in Light : LampOK(l)
------------------------------------------------------------------------------
(* The steps of updateLightState lead from what was found to the goal.     *)

(* A piece of the steps that deals with features F, and no others          *)
Piece(steps, F, s, goal) ==
    /\ IsSequence(steps) /\ Plan(steps, {}, s, goal)
    /\ \A k \in 1..Len(steps) : steps[k].feature \in F
    /\ \A f \in F \cap DOMAIN s : f \in SetsIn(steps) \/ goal[f] = s[f]

(* Nothing to do                                                           *)
LEMMA NoPiece ==
    ASSUME NEW F, NEW s, NEW goal, \A f \in F \cap DOMAIN s : goal[f] = s[f]
    PROVE  Piece(<<>>, F, s, goal)
<1>1. IsSequence(<<>>) /\ Len(<<>>) = 0 /\ 1..0 = {}
  BY Pieces DEF IsSequence
<1> QED BY <1>1 DEF Piece, Plan, Once, SetAfter, ReadFirst, Hits

(* A value that is asked for as such                                       *)
LEMMA SetPiece ==
    ASSUME NEW f, NEW v, NEW s, NEW goal, goal[f] = v
    PROVE  Piece(<<Set(f, v)>>, {f}, s, goal)
<1> DEFINE steps == <<Set(f, v)>>
<1>1. /\ IsSequence(steps) /\ 1..Len(steps) = {1} /\ steps[1] = Set(f, v)
  <2>1. steps \in Seq({Set(f, v)})
    OBVIOUS
  <2>2. Len(steps) = 1 /\ steps[1] = Set(f, v)
    OBVIOUS
  <2>3. 1..1 = {1}
    OBVIOUS
  <2> HIDE DEF steps
  <2> QED BY <2>1, <2>2, <2>3 DEF IsSequence
<1>2. Set(f, v).do = "set" /\ Set(f, v).feature = f /\ Set(f, v).value = v
  BY DEF Set
<1> HIDE DEF steps
<1>3. Once(steps) /\ SetAfter(steps) /\ ReadFirst(steps, {}) /\ Hits(steps, s, goal)
  BY <1>1, <1>2 DEF Once, SetAfter, ReadFirst, Hits, Target
<1>4. f \in SetsIn(steps)
  BY <1>1, <1>2 DEF SetsIn
<1> QED BY <1>1, <1>2, <1>3, <1>4 DEF Piece, Plan, steps

(* An increment                                                            *)
LEMMA MovePiece ==
    ASSUME NEW f, f \notin {"hue", "saturation"}, NEW d, NEW s, NEW goal,
           Target(Move(f, d), s) = goal[f]
    PROVE  Piece(<<Read(f), Move(f, d)>>, {f}, s, goal)
<1> DEFINE steps == <<Read(f), Move(f, d)>>
<1>1. /\ IsSequence(steps) /\ 1..Len(steps) = {1, 2}
      /\ steps[1] = Read(f) /\ steps[2] = Move(f, d)
  <2>1. steps \in Seq({Read(f), Move(f, d)})
    OBVIOUS
  <2>2. Len(steps) = 2 /\ steps[1] = Read(f) /\ steps[2] = Move(f, d)
    OBVIOUS
  <2>3. 1..2 = {1, 2}
    OBVIOUS
  <2> HIDE DEF steps
  <2> QED BY <2>1, <2>2, <2>3 DEF IsSequence
<1>2. /\ Read(f).do = "read" /\ Read(f).feature = f
      /\ Move(f, d).do = "move" /\ Move(f, d).feature = f
  BY DEF Read, Move
<1> HIDE DEF steps
<1>3. Once(steps)
  BY <1>1, <1>2 DEF Once
<1>4. SetAfter(steps)
  BY <1>1, <1>2 DEF SetAfter
<1>5. ReadFirst(steps, {})
  BY <1>1, <1>2 DEF ReadFirst, Sources
<1>6. Hits(steps, s, goal)
  BY <1>1, <1>2 DEF Hits
<1>7. f \in SetsIn(steps)
  BY <1>1, <1>2 DEF SetsIn
<1> QED BY <1>1, <1>2, <1>3, <1>4, <1>5, <1>6, <1>7 DEF Piece, Plan, steps

(* A colour is a hue and a saturation.                                     *)
LEMMA SetColourPiece ==
    ASSUME NEW v, NEW w, NEW s, NEW goal, goal["hue"] = v, goal["saturation"] = w
    PROVE  Piece(<<Set("hue", v), Set("saturation", w)>>, {"hue", "saturation"}, s, goal)
<1> DEFINE steps == <<Set("hue", v), Set("saturation", w)>>
<1>1. /\ IsSequence(steps) /\ 1..Len(steps) = {1, 2}
      /\ steps[1] = Set("hue", v) /\ steps[2] = Set("saturation", w)
  <2>1. steps \in Seq({Set("hue", v), Set("saturation", w)})
    OBVIOUS
  <2>2. Len(steps) = 2 /\ steps[1] = Set("hue", v) /\ steps[2] = Set("saturation", w)
    OBVIOUS
  <2>3. 1..2 = {1, 2}
    OBVIOUS
  <2> HIDE DEF steps
  <2> QED BY <2>1, <2>2, <2>3 DEF IsSequence
<1>2. /\ Set("hue", v).do = "set" /\ Set("hue", v).feature = "hue" /\ Set("hue", v).value = v
      /\ Set("saturation", w).do = "set" /\ Set("saturation", w).feature = "saturation"
      /\ Set("saturation", w).value = w
  BY DEF Set
<1> HIDE DEF steps
<1>3. Once(steps) /\ SetAfter(steps) /\ ReadFirst(steps, {})
  BY <1>1, <1>2 DEF Once, SetAfter, ReadFirst
<1>4. Hits(steps, s, goal)
  BY <1>1, <1>2 DEF Hits, Target
<1>5. "hue" \in SetsIn(steps) /\ "saturation" \in SetsIn(steps)
  BY <1>1, <1>2 DEF SetsIn
<1> QED BY <1>1, <1>2, <1>3, <1>4, <1>5 DEF Piece, Plan, steps

(* Both are read before either is moved.                                   *)
LEMMA MoveColourPiece ==
    ASSUME NEW d, NEW s, NEW goal, Target(Move("hue", d), s) = goal["hue"],
           Target(Move("saturation", d), s) = goal["saturation"]
    PROVE  Piece(<<Read("hue"), Read("saturation"), Move("hue", d), Move("saturation", d)>>,
                 {"hue", "saturation"}, s, goal)
<1> DEFINE steps == <<Read("hue"), Read("saturation"), Move("hue", d), Move("saturation", d)>>
<1>1. /\ IsSequence(steps) /\ 1..Len(steps) = {1, 2, 3, 4}
      /\ steps[1] = Read("hue") /\ steps[2] = Read("saturation")
      /\ steps[3] = Move("hue", d) /\ steps[4] = Move("saturation", d)
  <2>1. steps \in Seq({Read("hue"), Read("saturation"), Move("hue", d), Move("saturation", d)})
    OBVIOUS
  <2>2. /\ Len(steps) = 4 /\ steps[1] = Read("hue") /\ steps[2] = Read("saturation")
        /\ steps[3] = Move("hue", d) /\ steps[4] = Move("saturation", d)
    OBVIOUS
  <2>3. 1..4 = {1, 2, 3, 4}
    OBVIOUS
  <2> HIDE DEF steps
  <2> QED BY <2>1, <2>2, <2>3 DEF IsSequence
<1>2. /\ Read("hue").do = "read" /\ Read("hue").feature = "hue"
      /\ Read("saturation").do = "read" /\ Read("saturation").feature = "saturation"
      /\ Move("hue", d).do = "move" /\ Move("hue", d).feature = "hue"
      /\ Move("saturation", d).do = "move" /\ Move("saturation", d).feature = "saturation"
  BY DEF Read, Move
<1> HIDE DEF steps
<1>3. Once(steps)
  BY <1>1, <1>2 DEF Once
<1>4. SetAfter(steps)
  BY <1>1, <1>2 DEF SetAfter
<1>5. ReadFirst(steps, {})
  BY <1>1, <1>2 DEF ReadFirst, Sources
<1>6. Hits(steps, s, goal)
  BY <1>1, <1>2 DEF Hits
<1>7. "hue" \in SetsIn(steps) /\ "saturation" \in SetsIn(steps)
  BY <1>1, <1>2 DEF SetsIn
<1> QED BY <1>1, <1>2, <1>3, <1>4, <1>5, <1>6, <1>7 DEF Piece, Plan, steps

(* Two pieces about different features make one.                           *)
LEMMA JoinPieces ==
    \A p, q, F, G, s, goal :
        Piece(p, F, s, goal) /\ Piece(q, G, s, goal) /\ F \cap G = {}
        => Piece(p \o q, F \cup G, s, goal)
<1> SUFFICES ASSUME NEW p, NEW q, NEW F, NEW G, NEW s, NEW goal,
                    Piece(p, F, s, goal), Piece(q, G, s, goal), F \cap G = {}
             PROVE  Piece(p \o q, F \cup G, s, goal)
  OBVIOUS
<1> DEFINE n == Len(p)
           m == Len(q)
           t == p \o q
<1>1. /\ IsSequence(t) /\ n \in Nat /\ m \in Nat /\ Len(t) = n + m
      /\ \A k \in 1..(n + m) : t[k] = IF k <= n THEN p[k] ELSE q[k - n]
  <2>1. PICK S : p \in Seq(S)
    BY DEF Piece, IsSequence
  <2>2. PICK T : q \in Seq(T)
    BY DEF Piece, IsSequence
  <2>3. p \in Seq(S \cup T) /\ q \in Seq(S \cup T)
    BY <2>1, <2>2, SequenceFacts!SeqMonotonic
  <2>4. n \in Nat /\ m \in Nat
    BY <2>1, <2>2, SequenceFacts!LenProperties
  <2> QED BY <2>3, <2>4, SequenceFacts!ConcatProperties DEF IsSequence
<1> HIDE DEF n, m, t
<1>2. /\ \A k \in 1..n : k \in 1..(n + m) /\ t[k] = p[k]
      /\ \A k \in 1..m : k + n \in 1..(n + m) /\ t[k + n] = q[k]
      /\ \A k \in 1..(n + m) : k \in 1..n \/ (k - n \in 1..m /\ k = (k - n) + n)
  <2>1. \A k \in 1..n : k \in 1..(n + m) /\ t[k] = p[k]
    BY <1>1
  <2>2. ASSUME NEW k \in 1..m PROVE k + n \in 1..(n + m) /\ t[k + n] = q[k]
    <3>1. k + n \in 1..(n + m) /\ ~(k + n <= n) /\ (k + n) - n = k
      BY <1>1
    <3>2. t[k + n] = q[(k + n) - n]
      BY <1>1, <3>1
    <3> QED BY <3>1, <3>2
  <2>3. \A k \in 1..(n + m) : k \in 1..n \/ (k - n \in 1..m /\ k = (k - n) + n)
    BY <1>1
  <2> QED BY <2>1, <2>2, <2>3
<1>3. /\ Once(p) /\ SetAfter(p) /\ ReadFirst(p, {}) /\ Hits(p, s, goal)
      /\ Once(q) /\ SetAfter(q) /\ ReadFirst(q, {}) /\ Hits(q, s, goal)
      /\ \A k \in 1..n : p[k].feature \in F
      /\ \A k \in 1..m : q[k].feature \in G
  BY DEF Piece, Plan, n, m
<1>4. Once(t)
  <2> SUFFICES ASSUME NEW i \in 1..(n + m), NEW j \in 1..(n + m), t[i].do # "read",
                      t[j].do # "read", t[i].feature = t[j].feature
               PROVE  i = j
    BY <1>1 DEF Once
  <2>1. CASE i \in 1..n /\ j \in 1..n
    BY <1>2, <1>3, <2>1 DEF Once, n
  <2>2. CASE i - n \in 1..m /\ i = (i - n) + n /\ j - n \in 1..m /\ j = (j - n) + n
    <3>1. t[i] = q[i - n] /\ t[j] = q[j - n]
      BY <1>2, <2>2
    <3>2. i - n = j - n
      BY <1>3, <2>2, <3>1 DEF Once, m
    <3> QED BY <1>1, <3>2
  <2>3. CASE i \in 1..n /\ j - n \in 1..m /\ j = (j - n) + n
    <3>1. t[i] = p[i] /\ t[j] = q[j - n]
      BY <1>2, <2>3
    <3>2. p[i].feature \in F /\ q[j - n].feature \in G
      BY <1>3, <2>3
    <3> QED BY <3>1, <3>2
  <2>4. CASE j \in 1..n /\ i - n \in 1..m /\ i = (i - n) + n
    <3>1. t[j] = p[j] /\ t[i] = q[i - n]
      BY <1>2, <2>4
    <3>2. p[j].feature \in F /\ q[i - n].feature \in G
      BY <1>3, <2>4
    <3> QED BY <3>1, <3>2
  <2> QED BY <1>2, <2>1, <2>2, <2>3, <2>4
<1>5. SetAfter(t)
  <2> SUFFICES ASSUME NEW k \in 1..(n + m), t[k].do = "read"
               PROVE  \E j \in 1..(n + m) : /\ k < j /\ t[j].do # "read"
                                            /\ t[j].feature = t[k].feature
    BY <1>1 DEF SetAfter
  <2>1. CASE k \in 1..n
    <3>1. PICK j \in 1..n : k < j /\ p[j].do # "read" /\ p[j].feature = p[k].feature
      BY <1>2, <1>3, <2>1 DEF SetAfter, n
    <3> QED BY <1>2, <2>1, <3>1
  <2>2. CASE k - n \in 1..m /\ k = (k - n) + n
    <3>1. t[k] = q[k - n]
      BY <1>2, <2>2
    <3>2. PICK j \in 1..m : k - n < j /\ q[j].do # "read" /\ q[j].feature = q[k - n].feature
      BY <1>3, <2>2, <3>1 DEF SetAfter, m
    <3>3. k < j + n /\ j + n \in 1..(n + m) /\ t[j + n] = q[j]
      BY <1>1, <1>2, <3>2
    <3> QED BY <3>1, <3>2, <3>3
  <2> QED BY <1>2, <2>1, <2>2
<1>6. ReadFirst(t, {})
  <2> SUFFICES ASSUME NEW k \in 1..(n + m), t[k].do = "move", NEW f \in Sources(t[k].feature)
               PROVE  \E i \in 1..(n + m) : i < k /\ t[i] = Read(f)
    BY <1>1 DEF ReadFirst
  <2>1. CASE k \in 1..n
    <3>1. PICK i \in 1..n : i < k /\ p[i] = Read(f)
      BY <1>2, <1>3, <2>1 DEF ReadFirst, n
    <3> QED BY <1>2, <3>1
  <2>2. CASE k - n \in 1..m /\ k = (k - n) + n
    <3>1. t[k] = q[k - n]
      BY <1>2, <2>2
    <3>2. PICK i \in 1..m : i < k - n /\ q[i] = Read(f)
      BY <1>3, <2>2, <3>1 DEF ReadFirst, m
    <3>3. i + n < k /\ i + n \in 1..(n + m) /\ t[i + n] = q[i]
      BY <1>1, <1>2, <3>2
    <3> QED BY <3>2, <3>3
  <2> QED BY <1>2, <2>1, <2>2
<1>7. Hits(t, s, goal)
  <2> SUFFICES ASSUME NEW k \in 1..(n + m), t[k].do # "read"
               PROVE  Target(t[k], s) = goal[t[k].feature]
    BY <1>1 DEF Hits
  <2>1. CASE k \in 1..n
    BY <1>2, <1>3, <2>1 DEF Hits, n
  <2>2. CASE k - n \in 1..m /\ k = (k - n) + n
    <3>1. t[k] = q[k - n]
      BY <1>2, <2>2
    <3> QED BY <1>3, <2>2, <3>1 DEF Hits, m
  <2> QED BY <1>2, <2>1, <2>2
<1>8. \A k \in 1..(n + m) : t[k].feature \in F \cup G
  <2> SUFFICES ASSUME NEW k \in 1..(n + m) PROVE t[k].feature \in F \cup G
    OBVIOUS
  <2>1. CASE k \in 1..n
    BY <1>2, <1>3, <2>1
  <2>2. CASE k - n \in 1..m /\ k = (k - n) + n
    <3>1. t[k] = q[k - n]
      BY <1>2, <2>2
    <3> QED BY <1>3, <2>2, <3>1
  <2> QED BY <1>2, <2>1, <2>2
<1>9. SetsIn(p) \subseteq SetsIn(t) /\ SetsIn(q) \subseteq SetsIn(t)
  <2>1. ASSUME NEW k \in 1..n, p[k].do # "read" PROVE p[k].feature \in SetsIn(t)
    BY <1>1, <1>2, <2>1 DEF SetsIn
  <2>2. ASSUME NEW k \in 1..m, q[k].do # "read" PROVE q[k].feature \in SetsIn(t)
    BY <1>1, <1>2, <2>2 DEF SetsIn
  <2> QED BY <2>1, <2>2 DEF SetsIn, n, m
<1>10. \A f \in (F \cup G) \cap DOMAIN s : f \in SetsIn(t) \/ goal[f] = s[f]
  BY <1>9 DEF Piece
<1> QED BY <1>1, <1>4, <1>5, <1>6, <1>7, <1>8, <1>10 DEF Piece, Plan, t

(* What is left of a body: an increment only without an absolute value     *)
LEMMA BindFacts ==
    ASSUME NEW a
    PROVE  LET b == Bind(a)
           IN  /\ \A p \in {"on", "bri", "ct", "xy"} : Has(b, p) <=> Has(a, p)
               /\ Has(b, "bri_inc") <=> Has(a, "bri_inc") /\ ~Has(a, "bri")
               /\ Has(b, "ct_inc") <=> Has(a, "ct_inc") /\ ~Has(a, "ct")
               /\ Has(b, "xy_inc") <=> Has(a, "xy_inc") /\ ~Has(a, "xy")
               /\ \A p : Has(b, p) => Has(a, p) /\ b[p] = a[p]
BY DEF Bind, AbsoluteOf, Has

(* Its arrays are the ones it came with.                                   *)
LEMMA WholeBind == ASSUME NEW a, Whole(a) PROVE Whole(Bind(a))
<1>1. \A p : Has(Bind(a), p) => Has(a, p) /\ Bind(a)[p] = a[p]
  BY BindFacts
<1> QED BY <1>1 DEF Whole, ShortXY, ShortXYInc

(* Two steps and two are four.                                             *)
LEMMA FourSteps == \A w, x, y, z : <<w, x>> \o <<y, z>> = <<w, x, y, z>>
<1> SUFFICES ASSUME NEW w, NEW x, NEW y, NEW z
             PROVE  <<w, x>> \o <<y, z>> = <<w, x, y, z>>
  OBVIOUS
<1> DEFINE S == {w, x, y, z}
           p == <<w, x>>
           q == <<y, z>>
           t == <<w, x, y, z>>
<1>1. /\ p \in Seq(S) /\ Len(p) = 2 /\ p[1] = w /\ p[2] = x
      /\ q \in Seq(S) /\ Len(q) = 2 /\ q[1] = y /\ q[2] = z
      /\ t \in Seq(S) /\ Len(t) = 4 /\ t[1] = w /\ t[2] = x /\ t[3] = y /\ t[4] = z
  OBVIOUS
<1> HIDE DEF S, p, q, t
<1>2. /\ p \o q \in Seq(S) /\ Len(p \o q) = Len(p) + Len(q)
      /\ \A i \in 1..Len(p) + Len(q) :
            (p \o q)[i] = IF i <= Len(p) THEN p[i] ELSE q[i - Len(p)]
  BY <1>1, SequenceFacts!ConcatProperties
<1>3. \A i \in 1..4 : (p \o q)[i] = t[i]
  BY <1>1, <1>2
<1>4. p \o q = t
  BY <1>1, <1>2, <1>3, SequenceFacts!SeqEqual
<1> QED BY <1>4 DEF p, q, t

(* Lamp converts brightness the same way.                                  *)
LEMMA SameScales ==
    /\ \A i : Promise!ToHemtjanstBrightness(i) = ToHemtjanstBrightness(i)
    /\ \A v, d : Promise!Dimmed(v, d) = Dimmed(v, d)
BY DEF Promise!ToHemtjanstBrightness, ToHemtjanstBrightness, Promise!GoDiv, GoDiv,
       Promise!Dimmed, Dimmed, Promise!ToPhilipsBrightness, ToPhilipsBrightness

(* The effect Lamp asks for, by what is left of the body                   *)
LEMMA GoalFacts ==
    ASSUME NEW a, NEW s
    PROVE  LET b == Bind(a)
               goal == Promise!Effect(s, a)
           IN  /\ DOMAIN goal = DOMAIN s
               /\ "on" \in DOMAIN s =>
                     goal["on"] = IF Has(b, "on") THEN IF b["on"] THEN 1 ELSE 0 ELSE s.on
               /\ "brightness" \in DOMAIN s =>
                     goal["brightness"] = IF Has(b, "bri") THEN ToHemtjanstBrightness(b["bri"])
                                          ELSE IF Has(b, "bri_inc")
                                               THEN Dimmed(s.brightness, b["bri_inc"])
                                               ELSE s.brightness
               /\ "colorTemperature" \in DOMAIN s =>
                     goal["colorTemperature"] = IF Has(b, "ct") THEN b["ct"]
                                                ELSE IF Has(b, "ct_inc")
                                                     THEN s.colorTemperature + b["ct_inc"]
                                                     ELSE s.colorTemperature
               /\ "hue" \in DOMAIN s =>
                     goal["hue"] = IF Has(b, "xy") THEN ToHS[b["xy"]][1]
                                   ELSE IF Has(b, "xy_inc")
                                        THEN ShiftHS[<<s.hue, s.saturation>>, b["xy_inc"]][1]
                                        ELSE s.hue
               /\ "saturation" \in DOMAIN s =>
                     goal["saturation"] = IF Has(b, "xy") THEN ToHS[b["xy"]][2]
                                          ELSE IF Has(b, "xy_inc")
                                               THEN ShiftHS[<<s.hue, s.saturation>>, b["xy_inc"]][2]
                                               ELSE s.saturation
<1> DEFINE b == Bind(a)
           goal == Promise!Effect(s, a)
<1>1. /\ \A p \in {"on", "bri", "ct", "xy"} : Has(b, p) <=> Has(a, p)
      /\ Has(b, "bri_inc") <=> Has(a, "bri_inc") /\ ~Has(a, "bri")
      /\ Has(b, "ct_inc") <=> Has(a, "ct_inc") /\ ~Has(a, "ct")
      /\ Has(b, "xy_inc") <=> Has(a, "xy_inc") /\ ~Has(a, "xy")
      /\ \A p : Has(b, p) => Has(a, p) /\ b[p] = a[p]
  BY BindFacts
<1>2. \A p : Promise!Has(a, p) <=> Has(a, p)
  BY DEF Promise!Has, Has
<1>3. DOMAIN goal = DOMAIN s
  BY DEF Promise!Effect
<1> HIDE DEF b
<1>4. "on" \in DOMAIN s =>
          goal["on"] = IF Has(b, "on") THEN IF b["on"] THEN 1 ELSE 0 ELSE s.on
  BY <1>1, <1>2 DEF Promise!Effect
<1>5. "brightness" \in DOMAIN s =>
          goal["brightness"] = IF Has(b, "bri") THEN ToHemtjanstBrightness(b["bri"])
                               ELSE IF Has(b, "bri_inc") THEN Dimmed(s.brightness, b["bri_inc"])
                               ELSE s.brightness
  <2>1. "brightness" \in DOMAIN s => goal["brightness"] = Promise!Level(a, s.brightness)
    BY DEF Promise!Effect
  <2> HIDE DEF goal
  <2> QED BY <1>1, <1>2, <2>1, SameScales DEF Promise!Level
<1>6. "colorTemperature" \in DOMAIN s =>
          goal["colorTemperature"] = IF Has(b, "ct") THEN b["ct"]
                                     ELSE IF Has(b, "ct_inc") THEN s.colorTemperature + b["ct_inc"]
                                     ELSE s.colorTemperature
  <2>1. "colorTemperature" \in DOMAIN s =>
            goal["colorTemperature"] = Promise!Mired(a, s.colorTemperature)
    BY DEF Promise!Effect
  <2> HIDE DEF goal
  <2> QED BY <1>1, <1>2, <2>1 DEF Promise!Mired
<1> DEFINE hs == <<s.hue, s.saturation>>
<1>7. "hue" \in DOMAIN s => goal["hue"] = Promise!HS(a, hs)[1]
  BY DEF Promise!Effect
<1>8. "saturation" \in DOMAIN s => goal["saturation"] = Promise!HS(a, hs)[2]
  BY DEF Promise!Effect
<1>9. hs[1] = s.hue /\ hs[2] = s.saturation
  OBVIOUS
<1>10. Promise!HS(a, hs) = IF Has(b, "xy") THEN ToHS[b["xy"]]
                           ELSE IF Has(b, "xy_inc") THEN ShiftHS[hs, b["xy_inc"]]
                           ELSE hs
  <2> HIDE DEF hs
  <2> QED BY <1>1, <1>2 DEF Promise!HS
<1> HIDE DEF goal, hs
<1>11. "hue" \in DOMAIN s =>
           goal["hue"] = IF Has(b, "xy") THEN ToHS[b["xy"]][1]
                         ELSE IF Has(b, "xy_inc") THEN ShiftHS[hs, b["xy_inc"]][1]
                         ELSE s.hue
  BY <1>7, <1>9, <1>10
<1>12. "saturation" \in DOMAIN s =>
           goal["saturation"] = IF Has(b, "xy") THEN ToHS[b["xy"]][2]
                                ELSE IF Has(b, "xy_inc") THEN ShiftHS[hs, b["xy_inc"]][2]
                                ELSE s.saturation
  BY <1>8, <1>9, <1>10
<1> QED BY <1>3, <1>4, <1>5, <1>6, <1>11, <1>12 DEF b, goal, hs

(* The program for a body its lamp can take leads to its effect.           *)
Five == {"on", "brightness", "colorTemperature", "hue", "saturation"}
LEMMA ProgramPlan ==
    ASSUME NEW l \in Light, NEW a, NEW s, DOMAIN s = FeaturesAt(l), s.on \in {0, 1},
           Has(a, "on") => a["on"] \in BOOLEAN, Whole(a),
           DOMAIN Bind(a) \cap NotFor(Type[l]) = {}
    PROVE  Piece(Program(s.on = 1, Bind(a)), Five, s, Promise!Effect(s, a))
<1> DEFINE b == Bind(a)
           goal == Promise!Effect(s, a)
           P(steps, F) == Piece(steps, F, s, goal)
           on == s.on = 1
           p1 == When(Has(b, "bri"), <<Set("brightness", ToHemtjanstBrightness(b["bri"]))>>)
           p2 == When(Has(b, "ct"), <<Set("colorTemperature", b["ct"])>>)
           p3 == When(Has(b, "xy"), XYSteps(b))
           p4 == When(Has(b, "bri_inc"), <<Read("brightness"), Move("brightness", b["bri_inc"])>>)
           p5 == When(Has(b, "ct_inc"), <<Read("colorTemperature"), Move("colorTemperature", b["ct_inc"])>>)
           p6 == When(Has(b, "xy_inc"), XYIncSteps(b))
           first == When(~on /\ TurnsOn(b), <<Set("on", 1)>>)
           last == When(on /\ TurnsOff(b), <<Set("on", 0)>>)
<1>1. /\ Has(b, "bri_inc") => ~Has(b, "bri")
      /\ Has(b, "ct_inc") => ~Has(b, "ct")
      /\ Has(b, "xy_inc") => ~Has(b, "xy")
      /\ Has(b, "on") => b["on"] \in BOOLEAN
  BY BindFacts
<1>2. /\ "on" \in DOMAIN s /\ "brightness" \in DOMAIN s
      /\ Has(b, "ct") \/ Has(b, "ct_inc") => "colorTemperature" \in DOMAIN s
      /\ Has(b, "xy") \/ Has(b, "xy_inc") => "hue" \in DOMAIN s /\ "saturation" \in DOMAIN s
  BY FeaturesByType DEF Has
<1>3. /\ goal["on"] = IF Has(b, "on") THEN IF b["on"] THEN 1 ELSE 0 ELSE s.on
      /\ goal["brightness"] = IF Has(b, "bri") THEN ToHemtjanstBrightness(b["bri"])
                              ELSE IF Has(b, "bri_inc") THEN Dimmed(s.brightness, b["bri_inc"])
                              ELSE s.brightness
      /\ "colorTemperature" \in DOMAIN s =>
             goal["colorTemperature"] = IF Has(b, "ct") THEN b["ct"]
                                        ELSE IF Has(b, "ct_inc")
                                             THEN s.colorTemperature + b["ct_inc"]
                                             ELSE s.colorTemperature
      /\ "hue" \in DOMAIN s =>
             goal["hue"] = IF Has(b, "xy") THEN ToHS[b["xy"]][1]
                           ELSE IF Has(b, "xy_inc")
                                THEN ShiftHS[<<s.hue, s.saturation>>, b["xy_inc"]][1]
                                ELSE s.hue
      /\ "saturation" \in DOMAIN s =>
             goal["saturation"] = IF Has(b, "xy") THEN ToHS[b["xy"]][2]
                                  ELSE IF Has(b, "xy_inc")
                                       THEN ShiftHS[<<s.hue, s.saturation>>, b["xy_inc"]][2]
                                       ELSE s.saturation
  BY <1>2, GoalFacts
<1>4. ~ShortXY(b) /\ ~ShortXYInc(b)
  BY WholeBind DEF Whole
<1> HIDE DEF b, goal
<1> DEFINE F1 == IF Has(b, "bri") THEN {"brightness"} ELSE {}
           F2 == IF Has(b, "ct") THEN {"colorTemperature"} ELSE {}
           F3 == IF Has(b, "xy") THEN {"hue", "saturation"} ELSE {}
           F4 == IF Has(b, "bri") THEN {} ELSE {"brightness"}
           F5 == IF Has(b, "ct") THEN {} ELSE {"colorTemperature"}
           F6 == IF Has(b, "xy") THEN {} ELSE {"hue", "saturation"}
           F0 == IF on THEN {} ELSE {"on"}
           F7 == IF on THEN {"on"} ELSE {}
<1>10. \A F : (\A f \in F \cap DOMAIN s : goal[f] = s[f]) => P(<<>>, F)
  BY NoPiece
<1>11. P(<<>>, {})
  BY <1>10
<1>12. P(p1, F1)
  <2>1. CASE Has(b, "bri")
    <3>1. P(<<Set("brightness", ToHemtjanstBrightness(b["bri"]))>>, {"brightness"})
      BY <1>3, <2>1, SetPiece
    <3> QED BY <2>1, <3>1 DEF When
  <2> QED BY <1>11, <2>1 DEF When
<1>13. P(p2, F2)
  <2>1. CASE Has(b, "ct")
    <3>1. P(<<Set("colorTemperature", b["ct"])>>, {"colorTemperature"})
      BY <1>2, <1>3, <2>1, SetPiece
    <3> QED BY <2>1, <3>1 DEF When
  <2> QED BY <1>11, <2>1 DEF When
<1>14. P(p3, F3)
  <2>1. CASE Has(b, "xy")
    <3>1. P(<<Set("hue", ToHS[b["xy"]][1]), Set("saturation", ToHS[b["xy"]][2])>>,
            {"hue", "saturation"})
      BY <1>2, <1>3, <2>1, SetColourPiece
    <3> QED BY <1>4, <2>1, <3>1 DEF When, XYSteps
  <2> QED BY <1>11, <2>1 DEF When
<1>15. P(p4, F4)
  <2>1. CASE Has(b, "bri_inc")
    <3>1. Target(Move("brightness", b["bri_inc"]), s) = goal["brightness"]
      BY <1>1, <1>3, <2>1 DEF Target, Move
    <3>2. P(<<Read("brightness"), Move("brightness", b["bri_inc"])>>, {"brightness"})
      BY <3>1, MovePiece
    <3> QED BY <1>1, <2>1, <3>2 DEF When
  <2>2. CASE ~Has(b, "bri_inc")
    <3>1. \A f \in F4 \cap DOMAIN s : goal[f] = s[f]
      BY <1>3, <2>2
    <3> HIDE DEF F4
    <3> QED BY <1>10, <2>2, <3>1 DEF When
  <2> QED BY <2>1, <2>2
<1>16. P(p5, F5)
  <2>1. CASE Has(b, "ct_inc")
    <3>1. Target(Move("colorTemperature", b["ct_inc"]), s) = goal["colorTemperature"]
      BY <1>1, <1>2, <1>3, <2>1 DEF Target, Move
    <3>2. P(<<Read("colorTemperature"), Move("colorTemperature", b["ct_inc"])>>, {"colorTemperature"})
      BY <3>1, MovePiece
    <3> QED BY <1>1, <2>1, <3>2 DEF When
  <2>2. CASE ~Has(b, "ct_inc")
    <3>1. \A f \in F5 \cap DOMAIN s : goal[f] = s[f]
      BY <1>3, <2>2
    <3> HIDE DEF F5
    <3> QED BY <1>10, <2>2, <3>1 DEF When
  <2> QED BY <2>1, <2>2
<1>17. P(p6, F6)
  <2>1. CASE Has(b, "xy_inc")
    <3>1. /\ Target(Move("hue", b["xy_inc"]), s) = goal["hue"]
          /\ Target(Move("saturation", b["xy_inc"]), s) = goal["saturation"]
      BY <1>1, <1>2, <1>3, <2>1 DEF Target, Move
    <3>2. P(<<Read("hue"), Read("saturation"), Move("hue", b["xy_inc"]),
              Move("saturation", b["xy_inc"])>>, {"hue", "saturation"})
      BY <3>1, MoveColourPiece
    <3>3. XYIncSteps(b) = <<Read("hue"), Read("saturation"), Move("hue", b["xy_inc"]),
                            Move("saturation", b["xy_inc"])>>
      BY <1>4, FourSteps DEF XYIncSteps
    <3> QED BY <1>1, <2>1, <3>2, <3>3 DEF When
  <2>2. CASE ~Has(b, "xy_inc")
    <3>1. \A f \in F6 \cap DOMAIN s : goal[f] = s[f]
      BY <1>3, <2>2
    <3> HIDE DEF F6
    <3> QED BY <1>10, <2>2, <3>1 DEF When
  <2> QED BY <2>1, <2>2
<1>18. P(first, F0)
  <2>1. CASE ~on /\ TurnsOn(b)
    <3>1. P(<<Set("on", 1)>>, {"on"})
      <4>1. goal["on"] = 1
        BY <1>1, <1>3, <2>1 DEF TurnsOn
      <4> QED BY <4>1, SetPiece
    <3> QED BY <2>1, <3>1 DEF When
  <2>2. CASE ~(~on /\ TurnsOn(b))
    <3>1. \A f \in F0 \cap DOMAIN s : goal[f] = s[f]
      BY <1>1, <1>3, <2>2 DEF TurnsOn
    <3> HIDE DEF F0
    <3> QED BY <1>10, <2>2, <3>1 DEF When
  <2> QED BY <2>1, <2>2
<1>19. P(last, F7)
  <2>1. CASE on /\ TurnsOff(b)
    <3>1. P(<<Set("on", 0)>>, {"on"})
      <4>1. goal["on"] = 0
        BY <1>1, <1>3, <2>1 DEF TurnsOff
      <4> QED BY <4>1, SetPiece
    <3> QED BY <2>1, <3>1 DEF When
  <2>2. CASE ~(on /\ TurnsOff(b))
    <3>1. \A f \in F7 \cap DOMAIN s : goal[f] = s[f]
      BY <1>1, <1>3, <2>2 DEF TurnsOff
    <3> HIDE DEF F7
    <3> QED BY <1>10, <2>2, <3>1 DEF When
  <2> QED BY <2>1, <2>2
<1>20. \A p, q, F, G : P(p, F) /\ P(q, G) /\ F \cap G = {} => P(p \o q, F \cup G)
  BY JoinPieces
<1>21. Program(on, b) = (first \o (((((p1 \o p2) \o p3) \o p4) \o p5) \o p6)) \o last
  BY DEF Program, SettingSteps
<1>22. /\ F1 \cap F2 = {} /\ (F1 \cup F2) \cap F3 = {} /\ (F1 \cup F2 \cup F3) \cap F4 = {}
       /\ (F1 \cup F2 \cup F3 \cup F4) \cap F5 = {}
       /\ (F1 \cup F2 \cup F3 \cup F4 \cup F5) \cap F6 = {}
       /\ F0 \cap (F1 \cup F2 \cup F3 \cup F4 \cup F5 \cup F6) = {}
       /\ (F0 \cup (F1 \cup F2 \cup F3 \cup F4 \cup F5 \cup F6)) \cap F7 = {}
       /\ F0 \cup (F1 \cup F2 \cup F3 \cup F4 \cup F5 \cup F6) \cup F7 = Five
  BY DEF Five
<1> HIDE DEF P, p1, p2, p3, p4, p5, p6, first, last, F0, F1, F2, F3, F4, F5, F6, F7, on
<1>23. P(p1 \o p2, F1 \cup F2)
  BY <1>12, <1>13, <1>20, <1>22
<1>24. P((p1 \o p2) \o p3, F1 \cup F2 \cup F3)
  BY <1>14, <1>20, <1>22, <1>23
<1>25. P(((p1 \o p2) \o p3) \o p4, F1 \cup F2 \cup F3 \cup F4)
  BY <1>15, <1>20, <1>22, <1>24
<1>26. P((((p1 \o p2) \o p3) \o p4) \o p5, F1 \cup F2 \cup F3 \cup F4 \cup F5)
  BY <1>16, <1>20, <1>22, <1>25
<1>27. P(((((p1 \o p2) \o p3) \o p4) \o p5) \o p6, F1 \cup F2 \cup F3 \cup F4 \cup F5 \cup F6)
  BY <1>17, <1>20, <1>22, <1>26
<1>28. P(first \o (((((p1 \o p2) \o p3) \o p4) \o p5) \o p6),
         F0 \cup (F1 \cup F2 \cup F3 \cup F4 \cup F5 \cup F6))
  BY <1>18, <1>20, <1>22, <1>27
<1>29. P((first \o (((((p1 \o p2) \o p3) \o p4) \o p5) \o p6)) \o last,
         F0 \cup (F1 \cup F2 \cup F3 \cup F4 \cup F5 \cup F6) \cup F7)
  BY <1>19, <1>20, <1>22, <1>28
<1>30. P(Program(on, b), Five)
  BY <1>21, <1>22, <1>29
<1> QED BY <1>30 DEF P, on, b, goal

(* After the first step the rest is a plan again: a value that is read is  *)
(* known from then on, and a feature that is set has not to be any more.   *)
LEMMA RestPlan ==
    ASSUME NEW steps, IsSequence(steps), steps # <<>>, NEW got, NEW s, NEW goal,
           Plan(steps, got, s, goal)
    PROVE  /\ Head(steps).do # "read" =>
                 /\ Plan(Tail(steps), got, s, goal)
                 /\ SetsIn(Tail(steps)) = SetsIn(steps) \ {Head(steps).feature}
                 /\ Head(steps).feature \in SetsIn(steps)
                 /\ Target(Head(steps), s) = goal[Head(steps).feature]
                 /\ Head(steps).do = "move" => Sources(Head(steps).feature) \subseteq got
           /\ \A f : Head(steps) = Read(f) =>
                 /\ Plan(Tail(steps), got \cup {f}, s, goal)
                 /\ SetsIn(Tail(steps)) = SetsIn(steps)
                 /\ f \in SetsIn(steps)
<1> DEFINE rest == Tail(steps)
           h == Head(steps)
           n == Len(steps)
           m == Len(rest)
<1>1. /\ IsSequence(rest) /\ n \in Nat /\ n > 0 /\ m = n - 1 /\ h = steps[1]
      /\ \A i \in 1..m : rest[i] = steps[i + 1]
  BY Rest
<1> HIDE DEF rest, h, n, m
<1>2. /\ \A i \in 1..m : i + 1 \in 1..n /\ i + 1 # 1
      /\ \A i \in 1..n : i = 1 \/ (i - 1 \in 1..m /\ (i - 1) + 1 = i)
      /\ 1 \in 1..n
  BY <1>1
<1>3. Once(steps) /\ SetAfter(steps) /\ ReadFirst(steps, got) /\ Hits(steps, s, goal)
  BY DEF Plan
<1>4. Once(rest)
  <2> SUFFICES ASSUME NEW i \in 1..m, NEW j \in 1..m, rest[i].do # "read", rest[j].do # "read",
                      rest[i].feature = rest[j].feature
               PROVE  i = j
    BY DEF Once, m
  <2>1. rest[i] = steps[i + 1] /\ rest[j] = steps[j + 1] /\ i + 1 \in 1..n /\ j + 1 \in 1..n
    BY <1>1, <1>2
  <2>2. i + 1 = j + 1
    BY <1>3, <2>1 DEF Once, n
  <2> QED BY <2>2
<1>5. SetAfter(rest)
  <2> SUFFICES ASSUME NEW k \in 1..m, rest[k].do = "read"
               PROVE  \E j \in 1..m : /\ k < j /\ rest[j].do # "read"
                                      /\ rest[j].feature = rest[k].feature
    BY DEF SetAfter, m
  <2>1. rest[k] = steps[k + 1] /\ k + 1 \in 1..n
    BY <1>1, <1>2
  <2>2. PICK j \in 1..n : k + 1 < j /\ steps[j].do # "read" /\ steps[j].feature = rest[k].feature
    BY <1>3, <2>1 DEF SetAfter, n
  <2>3. j - 1 \in 1..m /\ (j - 1) + 1 = j /\ k < j - 1
    BY <1>2, <2>2
  <2>4. rest[j - 1] = steps[j]
    BY <1>1, <2>3
  <2> QED BY <2>2, <2>3, <2>4
<1>6. Hits(rest, s, goal)
  <2> SUFFICES ASSUME NEW k \in 1..m, rest[k].do # "read"
               PROVE  Target(rest[k], s) = goal[rest[k].feature]
    BY DEF Hits, m
  <2>1. rest[k] = steps[k + 1] /\ k + 1 \in 1..n
    BY <1>1, <1>2
  <2> QED BY <1>3, <2>1 DEF Hits, n
<1>7. ASSUME NEW k \in 1..m, rest[k].do = "move", NEW f \in Sources(rest[k].feature)
      PROVE  f \in got \/ h = Read(f) \/ \E i \in 1..m : i < k /\ rest[i] = Read(f)
  <2>1. rest[k] = steps[k + 1] /\ k + 1 \in 1..n
    BY <1>1, <1>2
  <2>2. CASE f \in got
    BY <2>2
  <2>3. CASE \E i \in 1..n : i < k + 1 /\ steps[i] = Read(f)
    <3>1. PICK i \in 1..n : i < k + 1 /\ steps[i] = Read(f)
      BY <2>3
    <3>2. CASE i = 1
      BY <1>1, <3>1, <3>2
    <3>3. CASE i - 1 \in 1..m /\ (i - 1) + 1 = i
      <4>1. rest[i - 1] = steps[i] /\ i - 1 < k
        BY <1>1, <3>1, <3>3
      <4> QED BY <3>1, <3>3, <4>1
    <3> QED BY <1>2, <3>2, <3>3
  <2>4. f \in got \/ \E i \in 1..n : i < k + 1 /\ steps[i] = Read(f)
    BY <1>3, <1>7, <2>1 DEF ReadFirst, n
  <2> QED BY <2>2, <2>3, <2>4
<1>8. /\ SetsIn(steps) = {steps[k].feature : k \in {j \in 1..n : steps[j].do # "read"}}
      /\ SetsIn(rest) = {rest[k].feature : k \in {j \in 1..m : rest[j].do # "read"}}
  BY DEF SetsIn, n, m
<1>9. SetsIn(rest) \subseteq SetsIn(steps)
  <2> SUFFICES ASSUME NEW k \in 1..m, rest[k].do # "read"
               PROVE  rest[k].feature \in SetsIn(steps)
    BY <1>8
  <2>1. rest[k] = steps[k + 1] /\ k + 1 \in 1..n
    BY <1>1, <1>2
  <2> QED BY <1>8, <2>1
<1>10. ASSUME NEW k \in 1..n, steps[k].do # "read"
       PROVE  k = 1 \/ steps[k].feature \in SetsIn(rest)
  <2>1. CASE k - 1 \in 1..m /\ (k - 1) + 1 = k
    <3>1. rest[k - 1] = steps[k]
      BY <1>1, <2>1
    <3> QED BY <1>8, <1>10, <2>1, <3>1
  <2> QED BY <1>2, <2>1
<1>11. ASSUME h.do # "read"
       PROVE  /\ Plan(rest, got, s, goal)
              /\ SetsIn(rest) = SetsIn(steps) \ {h.feature}
              /\ h.feature \in SetsIn(steps)
              /\ Target(h, s) = goal[h.feature]
              /\ h.do = "move" => Sources(h.feature) \subseteq got
  <2>1. \A f : h # Read(f)
    BY <1>11 DEF Read
  <2>2. ReadFirst(rest, got)
    BY <1>7, <2>1 DEF ReadFirst, m
  <2>3. h.feature \in SetsIn(steps)
    BY <1>1, <1>2, <1>8, <1>11
  <2>4. h.feature \notin SetsIn(rest)
    <3> SUFFICES ASSUME NEW k \in 1..m, rest[k].do # "read", rest[k].feature = h.feature
                 PROVE  FALSE
      BY <1>8
    <3>1. rest[k] = steps[k + 1] /\ k + 1 \in 1..n /\ k + 1 # 1
      BY <1>1, <1>2
    <3>2. k + 1 = 1
      BY <1>1, <1>2, <1>3, <1>11, <3>1 DEF Once, n
    <3> QED BY <3>1, <3>2
  <2>5. \A f \in SetsIn(steps) : f = h.feature \/ f \in SetsIn(rest)
    BY <1>1, <1>8, <1>10
  <2>6. Target(h, s) = goal[h.feature]
    BY <1>1, <1>2, <1>3, <1>11 DEF Hits, n
  <2>7. h.do = "move" => Sources(h.feature) \subseteq got
    <3> SUFFICES ASSUME h.do = "move", NEW f \in Sources(h.feature) PROVE f \in got
      OBVIOUS
    <3>1. f \in got \/ \E i \in 1..n : i < 1 /\ steps[i] = Read(f)
      BY <1>1, <1>2, <1>3 DEF ReadFirst, n
    <3> QED BY <3>1
  <2>8. Plan(rest, got, s, goal)
    BY <1>4, <1>5, <1>6, <2>2 DEF Plan
  <2> QED BY <1>9, <2>3, <2>4, <2>5, <2>6, <2>7, <2>8
<1>12. ASSUME NEW f, h = Read(f)
       PROVE  /\ Plan(rest, got \cup {f}, s, goal)
              /\ SetsIn(rest) = SetsIn(steps)
              /\ f \in SetsIn(steps)
  <2>1. h.do = "read" /\ h.feature = f /\ \A g : h = Read(g) => g = f
    BY <1>12 DEF Read
  <2>2. ReadFirst(rest, got \cup {f})
    BY <1>7, <2>1 DEF ReadFirst, m
  <2>3. SetsIn(steps) \subseteq SetsIn(rest)
    BY <1>1, <1>8, <1>10, <2>1
  <2>4. f \in SetsIn(steps)
    <3>1. PICK j \in 1..n : steps[j].do # "read" /\ steps[j].feature = f
      BY <1>1, <1>2, <1>3, <2>1 DEF SetAfter, n
    <3> QED BY <1>8, <3>1
  <2>5. Plan(rest, got \cup {f}, s, goal)
    BY <1>4, <1>5, <1>6, <2>2 DEF Plan
  <2> QED BY <1>9, <2>3, <2>4, <2>5
<1> QED BY <1>11, <1>12 DEF rest, h

(* How Lamp judges a body                                                  *)
LEMMA Results ==
    ASSUME NEW l \in Light, NEW a \in Body, NEW s, s.on \in {0, 1}
    PROVE  LET b == Bind(a)
               result == Promise!Result(Type[l], s, a)
           IN  /\ DOMAIN a \cap Unsupported # {} => result = "unavailable"
               /\ DOMAIN b \cap NotFor(Type[l]) # {} => result = "unavailable"
               /\ DOMAIN a \cap Unsupported = {} /\ DOMAIN b \cap NotFor(Type[l]) = {} =>
                     result = IF s.on # 1 /\ ~TurnsOn(b) /\ DOMAIN b \cap Settings # {}
                              THEN "off" ELSE "success"
<1> DEFINE b == Bind(a)
           result == Promise!Result(Type[l], s, a)
<1>1. /\ \A p \in {"on", "bri", "ct", "xy"} : Has(b, p) <=> Has(a, p)
      /\ Has(b, "bri_inc") <=> Has(a, "bri_inc") /\ ~Has(a, "bri")
      /\ Has(b, "ct_inc") <=> Has(a, "ct_inc") /\ ~Has(a, "ct")
      /\ Has(b, "xy_inc") <=> Has(a, "xy_inc") /\ ~Has(a, "xy")
      /\ \A p : Has(b, p) => Has(a, p) /\ b[p] = a[p]
  BY BindFacts
<1>2. /\ DOMAIN a \subseteq {"on"} \cup Settings \cup Unsupported
      /\ Unsupported \cap (Settings \cup {"on"}) = {}
      /\ Promise!Settings = Settings
  BY BodyAssumption DEF Settings, Unsupported, Promise!Settings
<1>3. DOMAIN a \ (Settings \cup {"on"}) # {} <=> DOMAIN a \cap Unsupported # {}
  BY <1>2
<1>4. Promise!NotFor(Type[l]) = NotFor(Type[l])
  BY DEF Promise!NotFor, NotFor
<1>5. DOMAIN a \cap NotFor(Type[l]) = {} <=> DOMAIN b \cap NotFor(Type[l]) = {}
  <2>1. Type[l] \in {"white", "temperature", "rgb"}
    BY ValueAssumption
  <2>2. NotFor(Type[l]) \in {{"ct", "ct_inc", "xy", "xy_inc"}, {"xy", "xy_inc"}, {"ct", "ct_inc"}}
    BY <2>1 DEF NotFor
  <2> HIDE DEF b
  <2> QED BY <1>1, <2>2 DEF Has
<1>6. DOMAIN a \cap Settings = {} <=> DOMAIN b \cap Settings = {}
  <2> HIDE DEF b
  <2> QED BY <1>1 DEF Has, Settings
<1>7. TurnsOn(b) <=> Promise!Has(a, "on") /\ a["on"]
  <2> HIDE DEF b
  <2>1. Has(b, "on") <=> Has(a, "on")
    BY <1>1
  <2>2. Has(b, "on") => b["on"] = a["on"]
    BY <1>1
  <2> QED BY <2>1, <2>2 DEF TurnsOn, Has, Promise!Has
<1> HIDE DEF b
<1>8. result = IF DOMAIN a \cap Unsupported # {} \/ DOMAIN b \cap NotFor(Type[l]) # {}
               THEN "unavailable"
               ELSE IF s.on = 0 /\ DOMAIN b \cap Settings # {} /\ ~TurnsOn(b)
                    THEN "off" ELSE "success"
  BY <1>2, <1>3, <1>4, <1>5, <1>6, <1>7 DEF Promise!Result
<1> HIDE DEF result
<1> QED BY <1>8 DEF b, result

------------------------------------------------------------------------------
(* Of a body with whole arrays no step breaks off.                         *)
LEMMA WholeSteps ==
    ASSUME Alone, TypeInv, NEW r \in Request, pc[r] = "apply"
    PROVE  /\ req[r].light \in Light /\ todo[r] \in Seq(StepsAt(req[r].light))
           /\ todo[r] # <<>> => /\ Head(todo[r]) \in StepsAt(req[r].light)
                               /\ Head(todo[r]).feature \in FeaturesAt(req[r].light)
                               /\ Head(todo[r]).do # "break"
<1>1. Whole(req[r].body)
  BY WholeBind DEF Alone, RequestOK, Active
<1>2. /\ req[r].light \in Light /\ todo[r] \in Seq(StepsFor(req[r].light, req[r].body))
  BY DEF TypeInv, HandlerInv
<1>3. StepsFor(req[r].light, req[r].body) = StepsAt(req[r].light)
  BY <1>1 DEF StepsFor
<1>4. todo[r] # <<>> => Head(todo[r]).do # "break"
  BY <1>1, <1>2, StepTyped
<1> QED BY <1>2, <1>3, <1>4, StepTyped

------------------------------------------------------------------------------
(* What a step leaves alone                                                *)

SameLamp(l) == lamp'[l] = lamp[l] /\ queue'[l] = queue[l] /\ pub'[l] = pub[l] /\ seen'[l] = seen[l]
SameRequest(r) == pc'[r] = pc[r] /\ req'[r] = req[r] /\ todo'[r] = todo[r] /\ reg'[r] = reg[r]

(* A request is as it was when neither it nor its lamp did anything, ...   *)
LEMMA RequestFrame ==
    ASSUME TypeInv, NEW r \in Request, RequestOK(r), SameRequest(r),
           req[r].light \in Light => SameLamp(req[r].light)
    PROVE  RequestOK(r)'
<1>1. pc[r] \in {"again", "check", "apply"} => req[r].light \in Light
  BY DEF TypeInv, HandlerInv
<1>2. pc[r] = "apply" => ApplyOK(r)'
  BY <1>1 DEF RequestOK, ApplyOK, SameRequest, SameLamp, Goal, Got, Untouched, Final
<1> QED BY <1>1, <1>2 DEF RequestOK, SameRequest, SameLamp, Active

(* ... and a lamp when it did nothing and no request for it has got more   *)
(* to do.                                                                  *)
LEMMA LampFrame ==
    ASSUME NEW l \in Light, LampOK(l), SameLamp(l),
           \A r \in Request : req'[r].light = l /\ todo'[r] # <<>> =>
              \/ req[r].light = l /\ todo[r] # <<>>
              \/ \A i \in 1..Len(queue[l]) : ~TurnsItOff(queue[l][i])
    PROVE  LampOK(l)'
<1>1. Final(l)' = Final(l)
  BY DEF Final, SameLamp
<1>2. \A f : SeenOK(l, f)' <=> SeenOK(l, f)
  BY DEF SeenOK, SameLamp
<1>3. \A i \in 1..Len(queue[l]) : TurnsItOff(queue[l][i]) =>
          /\ i = Len(queue[l])
          /\ \A r \in Request : req'[r].light = l => todo'[r] = <<>>
  BY DEF LampOK
<1> QED BY <1>1, <1>2, <1>3 DEF LampOK, SameLamp, TurnsItOff

------------------------------------------------------------------------------
(* The steps of the handlers that send nothing                             *)

(* A step of one request that leaves the lamps as they are                 *)
LEMMA SelfAlone ==
    ASSUME Alone, Inv, TypeInv, NEW r \in Request, UNCHANGED lamps, RequestOK(r)',
           \A q \in Request : q # r => SameRequest(q),
           \A q \in Request : q # r /\ req'[r].light \in Light => req[q].light # req'[r].light,
           \A l \in Light : req'[r].light = l /\ todo'[r] # <<>> =>
               \/ req[r].light = l /\ todo[r] # <<>>
               \/ \A i \in 1..Len(queue[l]) : ~TurnsItOff(queue[l][i])
    PROVE  Alone'
<1>1. \A l \in Light : SameLamp(l)
  BY DEF lamps, SameLamp
<1>2. \A q \in Request : RequestOK(q)'
  BY <1>1, RequestFrame DEF Alone
<1>3. \A l \in Light : LampOK(l)'
  <2> SUFFICES ASSUME NEW l \in Light PROVE LampOK(l)'
    OBVIOUS
  <2>1. \A q \in Request : req'[q].light = l /\ todo'[q] # <<>> =>
            \/ req[q].light = l /\ todo[q] # <<>>
            \/ \A i \in 1..Len(queue[l]) : ~TurnsItOff(queue[l][i])
    BY DEF SameRequest
  <2> QED BY <1>1, <2>1, LampFrame DEF Alone
<1>4. OneInv'
  BY DEF Alone, OneInv, SameRequest
<1>5. glitches' = 0
  BY DEF Alone, lamps
<1> QED BY <1>2, <1>3, <1>4, <1>5 DEF Alone

(* A request comes in for a lamp that has settled.                         *)
LEMMA PutAlone ==
    ASSUME OneAtATime, WholeBodies, Alone, Inv, TypeInv,
           NEW r \in Request, NEW path \in {"light", "group"},
           NEW l \in Light \cup {Unknown}, NEW b \in Body, Put(r, path, l, b)
    PROVE  Alone'
<1> DEFINE new == [path |-> path, light |-> l, body |-> b, by |-> issued + 1,
                   asked |-> b, found |-> IF l \in Light THEN lamp[l] ELSE NoValues]
<1>1. /\ pc[r] = "idle" /\ (l \in Light => Settled(l))
      /\ req' = [req EXCEPT ![r] = new] /\ pc' = [pc EXCEPT ![r] = "find"]
      /\ UNCHANGED <<lamps, todo, reg, answer>>
  BY DEF Put
<1>2. /\ pc'[r] = "find" /\ req'[r] = new /\ todo'[r] = todo[r] /\ todo[r] = <<>>
      /\ \A q \in Request : q # r => SameRequest(q)
  BY <1>1 DEF Inv, Shape, TypeInv, HandlerInv, SameRequest
<1>3. /\ req'[r].path = path /\ req'[r].light = l /\ req'[r].body = b
      /\ req'[r].asked = b /\ (l \in Light => req'[r].found = lamp[l])
  BY <1>2
<1> HIDE DEF new
<1>4. RequestOK(r)'
  BY <1>1, <1>2, <1>3 DEF RequestOK, Active, Settled, lamps, WholeBodies
<1>5. \A q \in Request : q # r /\ req'[r].light \in Light => req[q].light # req'[r].light
  BY <1>1, <1>3 DEF Settled
<1> QED BY <1>1, <1>2, <1>4, <1>5, SelfAlone

(* A request is answered.                                                  *)
LEMMA ReplyAlone ==
    ASSUME Alone, Inv, TypeInv, NEW r \in Request, NEW code, Reply(r, code), UNCHANGED lamps
    PROVE  Alone'
<1>1. /\ pc'[r] = "idle" /\ req'[r] = NoRequest /\ todo'[r] = <<>>
      /\ \A q \in Request : q # r => SameRequest(q)
  BY DEF Reply, Inv, Shape, TypeInv, HandlerInv, SameRequest
<1>2. NoRequest.light = Unknown /\ Unknown \notin Light
  BY LightAssumption DEF NoRequest
<1>3. RequestOK(r)'
  BY <1>1, <1>2 DEF RequestOK, Active
<1> QED BY <1>1, <1>2, <1>3, SelfAlone

(* The lookups and Bind                                                    *)
LEMMA FindLightAlone ==
    ASSUME Alone, Inv, TypeInv, NEW r \in Request, FindLight(r) PROVE Alone'
<1>1. pc[r] = "find" /\ UNCHANGED lamps
  BY DEF FindLight
<1>2. CASE Reply(r, "resource") \/ Reply(r, "unavailable")
  BY <1>1, <1>2, ReplyAlone
<1>3. CASE /\ FoundBy(req[r].path, req[r].light)
           /\ DOMAIN req[r].body \cap Unsupported = {}
           /\ req' = [req EXCEPT ![r].body = Bind(@)]
           /\ pc' = [pc EXCEPT ![r] = IF req[r].path = "group" THEN "again" ELSE "check"]
           /\ UNCHANGED <<todo, reg, answer>>
  <2>1. Shape /\ HandlerInv /\ RequestOK(r)
    BY DEF Inv, TypeInv, Alone
  <2>2. /\ req[r].light \in Light /\ (req[r].path = "group" => req[r].light \notin Hidden)
        /\ DOMAIN req[r] = DOMAIN NoRequest /\ todo[r] = <<>>
    BY <1>1, <1>3, <2>1 DEF FoundBy, Found, TypeInv, LampInv, HandlerInv
  <2>3. DOMAIN NoRequest = {"path", "light", "body", "by", "asked", "found"}
    BY DEF NoRequest
  <2>4. /\ req'[r].light = req[r].light /\ req'[r].path = req[r].path
        /\ req'[r].asked = req[r].asked /\ req'[r].found = req[r].found
        /\ req'[r].body = Bind(req[r].body)
        /\ todo'[r] = <<>> /\ pc'[r] \in {"again", "check"}
        /\ \A q \in Request : q # r => SameRequest(q)
    BY <1>3, <2>1, <2>2, <2>3 DEF Shape, SameRequest
  <2>5. RequestOK(r)'
    BY <1>1, <1>3, <2>1, <2>2, <2>4 DEF RequestOK, Active, lamps
  <2>6. \A q \in Request : q # r => req[q].light # req[r].light
    BY <2>2 DEF Alone, OneInv
  <2> QED BY <1>1, <2>4, <2>5, <2>6, SelfAlone
<1> QED BY <1>2, <1>3 DEF FindLight

LEMMA FindAgainAlone ==
    ASSUME Alone, Inv, TypeInv, NEW r \in Request, FindAgain(r) PROVE Alone'
<1>1. pc[r] = "again" /\ UNCHANGED lamps
  BY DEF FindAgain
<1>2. CASE Reply(r, "panic")
  BY <1>1, <1>2, ReplyAlone
<1>3. CASE pc' = [pc EXCEPT ![r] = "check"] /\ UNCHANGED <<req, todo, reg, answer>>
  <2>1. Shape /\ HandlerInv /\ RequestOK(r)
    BY DEF Inv, TypeInv, Alone
  <2>2. /\ pc'[r] = "check" /\ todo[r] = <<>> /\ req[r].light \in Light
        /\ \A q \in Request : q # r => SameRequest(q)
    BY <1>1, <1>3, <2>1 DEF Shape, HandlerInv, SameRequest
  <2>3. RequestOK(r)'
    BY <1>1, <1>3, <2>1, <2>2 DEF RequestOK, Active, lamps
  <2>4. \A q \in Request : q # r => req[q].light # req[r].light
    BY <2>2 DEF Alone, OneInv
  <2> QED BY <1>1, <1>3, <2>2, <2>3, <2>4, SelfAlone
<1> QED BY <1>2, <1>3 DEF FindAgain

(* To know more values is no harm.                                         *)
LEMMA PlanMonotone ==
    ASSUME NEW steps, NEW got, NEW more, NEW s, NEW goal, got \subseteq more,
           Plan(steps, got, s, goal)
    PROVE  Plan(steps, more, s, goal)
BY DEF Plan, ReadFirst

(* The program for a lamp that is off turns it on first, or is empty.      *)
LEMMA ProgramHead ==
    ASSUME NEW b
    PROVE  /\ TurnsOn(b) => Head(Program(FALSE, b)) = Set("on", 1)
           /\ ~TurnsOn(b) /\ DOMAIN b \cap Settings = {} => Program(FALSE, b) = <<>>
<1>1. PICK S : SettingSteps(b) \in Seq(S)
  BY SettingsSequence
<1>2. <<>> \o <<>> = <<>>
  OBVIOUS
<1>3. CASE TurnsOn(b)
  <2> DEFINE T == S \cup {Set("on", 1)}
             first == <<Set("on", 1)>>
             rest == SettingSteps(b)
  <2>1. first \in Seq(T) /\ Len(first) = 1 /\ first[1] = Set("on", 1)
    BY Pieces
  <2>2. rest \in Seq(T) /\ <<>> \in Seq(T) /\ Len(<<>>) = 0
    BY <1>1, SequenceFacts!SeqMonotonic, Pieces
  <2>3. Program(FALSE, b) = (first \o rest) \o <<>>
    BY <1>3 DEF Program, When
  <2> HIDE DEF first, rest, T
  <2>4. first \o rest \in Seq(T) /\ Len(first \o rest) >= 1 /\ (first \o rest)[1] = Set("on", 1)
    <3>1. Len(rest) \in Nat
      BY <2>2, SequenceFacts!LenProperties
    <3>2. /\ first \o rest \in Seq(T) /\ Len(first \o rest) = 1 + Len(rest)
          /\ \A i \in 1..(1 + Len(rest)) : (first \o rest)[i] = IF i <= 1 THEN first[i] ELSE rest[i - 1]
      BY <2>1, <2>2, SequenceFacts!ConcatProperties
    <3>3. 1 \in 1..(1 + Len(rest))
      BY <3>1
    <3> QED BY <2>1, <3>1, <3>2, <3>3
  <2>5. (first \o rest) \o <<>> = first \o rest
    BY <2>4, SequenceFacts!ConcatEmptySeq
  <2>6. Head(first \o rest) = (first \o rest)[1]
    BY <2>4
  <2> QED BY <1>3, <2>3, <2>4, <2>5, <2>6
<1>4. CASE ~TurnsOn(b) /\ DOMAIN b \cap Settings = {}
  <2>1. \A p \in {"bri", "ct", "xy", "bri_inc", "ct_inc", "xy_inc"} : ~Has(b, p)
    BY <1>4 DEF Has, Settings
  <2>2. SettingSteps(b) = <<>>
    BY <1>2, <2>1 DEF SettingSteps, When
  <2> QED BY <1>2, <1>4, <2>2 DEF Program, When
<1> QED BY <1>3, <1>4

(* The body is accepted or refused.                                        *)
LEMMA CheckAlone ==
    ASSUME Alone, Inv, TypeInv, NEW r \in Request, Check(r) PROVE Alone'
<1> DEFINE l == req[r].light
           b == req[r].body
           a == req[r].asked
           s == req[r].found
<1>1. pc[r] = "check" /\ UNCHANGED lamps
  BY DEF Check
<1>2. CASE Reply(r, "unavailable") \/ Reply(r, "panic") \/ Reply(r, "off")
  BY <1>1, <1>2, ReplyAlone
<1>3. CASE /\ DOMAIN b \cap NotFor(Type[l]) = {} /\ ~Refused(l, b)
           /\ todo' = [todo EXCEPT ![r] = Program(IsOn(l), b)]
           /\ pc' = [pc EXCEPT ![r] = "apply"]
           /\ UNCHANGED <<req, reg, answer>>
  <2>1. Shape /\ HandlerInv /\ LampInv /\ RequestOK(r)
    BY DEF Inv, TypeInv, Alone
  <2>2. /\ l \in Light /\ todo[r] = <<>>
        /\ pc'[r] = "apply" /\ todo'[r] = Program(IsOn(l), b)
        /\ \A q \in Request : q # r => SameRequest(q)
    BY <1>1, <1>3, <2>1 DEF Shape, HandlerInv, SameRequest
  <2>3. /\ a \in Body /\ Whole(a) /\ req[r].path \in {"light", "group"}
        /\ b = Bind(a) /\ DOMAIN a \cap Unsupported = {}
        /\ req[r].path = "group" => l \notin Hidden
        /\ queue[l] = <<>> /\ pub[l] = <<>> /\ lamp[l] = s
    BY <1>1, <2>1, <2>2 DEF RequestOK, Active
  <2>4. 1..Len(<<>>) = {}
    BY Pieces
  <2>5. \A f \in FeaturesAt(l) : seen[l][f] = lamp[l][f]
    BY <2>2, <2>3, <2>4 DEF Alone, LampOK, SeenOK
  <2>6. /\ DOMAIN s = FeaturesAt(l) /\ s.on \in {0, 1} /\ "on" \in FeaturesAt(l)
        /\ s = [f \in FeaturesAt(l) |-> s[f]]
    <3>1. "on" \in FeaturesAt(l)
      BY <2>2, FeaturesByType
    <3>2. Parsed("on", lamp[l]["on"]) /\ DOMAIN lamp[l] = FeaturesAt(l)
      BY <2>1, <2>2, <3>1 DEF LampInv
    <3>3. lamp[l] = [f \in FeaturesAt(l) |-> lamp[l][f]]
      BY <2>2 DEF Alone, LampOK
    <3> QED BY <2>3, <3>1, <3>2, <3>3 DEF Parsed, ValuesOf
  <2>7. IsOn(l) <=> s.on = 1
    BY <2>3, <2>5, <2>6 DEF IsOn
  <2>8. Has(a, "on") => a["on"] \in BOOLEAN
    BY <2>3, BodyAssumption
  <2> DEFINE steps == Program(s.on = 1, b)
             goal == Promise!Effect(s, a)
  <2>9. Piece(steps, Five, s, goal)
    BY <1>3, <2>2, <2>3, <2>6, <2>8, ProgramPlan
  <2>10. steps = todo'[r]
    <3>1. IsOn(l) = (s.on = 1)
      BY <2>7 DEF IsOn
    <3> QED BY <2>2, <3>1
  <2>11. steps # <<>> => s.on = 1 \/ TurnsOnFirst(Head(steps))
    <3> SUFFICES ASSUME s.on # 1, steps # <<>> PROVE TurnsOnFirst(Head(steps))
      OBVIOUS
    <3>1. (s.on = 1) = FALSE
      OBVIOUS
    <3>2. steps = Program(FALSE, b)
      BY <3>1
    <3>3. TurnsOn(b) \/ DOMAIN b \cap Settings = {}
      BY <1>3, <2>7 DEF Refused
    <3>4. Head(steps) = Set("on", 1)
      <4> HIDE DEF b, steps
      <4> QED BY <3>2, <3>3, ProgramHead
    <3> HIDE DEF steps
    <3> QED BY <3>4 DEF TurnsOnFirst, Set
  <2>12. Promise!Result(Type[l], s, a) = "success"
    <3>1. s.on # 1 => TurnsOn(b) \/ DOMAIN b \cap Settings = {}
      BY <1>3, <2>7 DEF Refused
    <3> QED BY <1>3, <2>2, <2>3, <2>6, <3>1, Results
  <2>13. Final(l) = s
    BY <2>3, FoldEmpty DEF Final
  <2>14. Plan(steps, Got(r), s, goal)
    <3>1. Plan(steps, {}, s, goal)
      BY <2>9 DEF Piece
    <3> QED BY <3>1, PlanMonotone
  <2>15. \A f \in FeaturesAt(l) : f \in SetsIn(steps) \/ goal[f] = s[f]
    <3>1. FeaturesAt(l) \subseteq Five
      BY <2>2, FeaturesByType DEF Five
    <3> QED BY <2>6, <2>9, <3>1 DEF Piece
  <2>16. \A f \in FeaturesAt(l) : Untouched(l, f, s)
    BY <2>3, <2>4, <2>5 DEF Untouched
  <2> HIDE DEF steps, goal
  <2>18. ApplyOK(r)'
    <3>1. /\ req'[r] = req[r] /\ reg'[r] = reg[r]
          /\ SameLamp(l)
      BY <1>1, <1>3 DEF lamps, SameLamp
    <3>2. Final(l)' = Final(l) /\ Got(r)' = Got(r) /\ Goal(r)' = Goal(r) /\ Goal(r) = goal
      BY <1>3, <3>1 DEF Final, Got, Goal, SameLamp, goal
    <3>3. \A f : Untouched(l, f, s)' <=> Untouched(l, f, s)
      BY <1>3, <3>1 DEF Untouched, SameLamp
    <3> QED BY <1>3, <2>6, <2>10, <2>11, <2>12, <2>13, <2>14, <2>15, <2>16, <3>1, <3>2, <3>3
            DEF ApplyOK
  <2>19. RequestOK(r)'
    BY <1>3, <2>2, <2>3, <2>18 DEF RequestOK, Active
  <2>20. \A q \in Request : q # r => req[q].light # req[r].light
    BY <2>2 DEF Alone, OneInv
  <2> QED BY <1>1, <1>3, <2>2, <2>3, <2>4, <2>19, <2>20, SelfAlone
<1> QED BY <1>2, <1>3 DEF Check

(* A value is read that nobody has touched.                                *)
LEMMA ReadFeatureAlone ==
    ASSUME Alone, Inv, TypeInv, NEW r \in Request, ReadFeature(r) PROVE Alone'
<1> DEFINE l == req[r].light
           s == req[r].found
           step == Head(todo[r])
           f == step.feature
           goal == Goal(r)
<1>1. pc[r] = "apply" /\ todo[r] # <<>> /\ step.do = "read" /\ UNCHANGED lamps
  BY DEF ReadFeature
<1>2. CASE Reply(r, "internal")
  BY <1>1, <1>2, ReplyAlone
<1>3. CASE /\ reg' = [reg EXCEPT ![r][f] = seen[l][f]]
           /\ todo' = [todo EXCEPT ![r] = Tail(@)]
           /\ UNCHANGED <<pc, req, answer>>
  <2>1. Shape /\ HandlerInv /\ RequestOK(r)
    BY DEF Inv, TypeInv, Alone
  <2>2. /\ l \in Light /\ ApplyOK(r) /\ todo[r] \in Seq(StepsAt(l)) /\ IsSequence(todo[r])
        /\ reg \in [Request -> Readings]
    BY <1>1, <2>1, WholeSteps DEF HandlerInv, RequestOK, IsSequence
  <2>3. step \in StepsAt(l) /\ f \in FeaturesAt(l)
    BY <1>1, WholeSteps
  <2>4. step = Read(f) /\ f # "on"
    BY <1>1, <2>3 DEF StepsAt, Read
  <2>5. f \in DOMAIN NoValues /\ DOMAIN reg[r] = DOMAIN NoValues
    <3>1. f \in {"brightness", "colorTemperature", "hue", "saturation"}
      BY <2>2, <2>3, <2>4, FeaturesByType
    <3> HIDE DEF f
    <3> QED BY <2>2, <3>1 DEF NoValues, Readings
  <2>6. Plan(todo[r], Got(r), s, goal)
    BY <2>2 DEF ApplyOK
  <2> HIDE DEF step, goal
  <2>7. /\ Plan(Tail(todo[r]), Got(r) \cup {f}, s, goal)
        /\ SetsIn(Tail(todo[r])) = SetsIn(todo[r]) /\ f \in SetsIn(todo[r])
    BY <1>1, <2>2, <2>4, <2>6, RestPlan DEF step
  <2> HIDE DEF f
  <2>8. seen[l][f] = s[f] /\ DOMAIN s = FeaturesAt(l)
    BY <2>2, <2>3, <2>7 DEF ApplyOK, Untouched
  <2>9. /\ todo'[r] = Tail(todo[r])
        /\ \A x \in DOMAIN NoValues : reg'[r][x] = IF x = f THEN seen[l][f] ELSE reg[r][x]
        /\ \A q \in Request : q # r => SameRequest(q)
    BY <1>3, <2>1, <2>2, <2>5 DEF Shape, SameRequest
  <2>10. Got(r) \cup {f} \subseteq Got(r)'
    BY <1>3, <2>3, <2>5, <2>8, <2>9 DEF Got
  <2>11. Plan(Tail(todo[r]), Got(r)', s, goal)
    BY <2>7, <2>10, PlanMonotone
  <2>12. Final(l).on = 1
    BY <1>1, <2>2, <2>4 DEF ApplyOK, TurnsOnFirst, Read, step
  <2>13. req'[r] = req[r] /\ pc'[r] = pc[r] /\ SameLamp(l) /\ Final(l)' = Final(l) /\ Goal(r)' = Goal(r)
    BY <1>1, <1>3 DEF lamps, SameLamp, Final, Goal
  <2>14. \A g : Untouched(l, g, s)' <=> Untouched(l, g, s)
    BY <1>3, <2>13 DEF Untouched, SameLamp
  <2>15. ApplyOK(r)'
    BY <2>2, <2>7, <2>9, <2>11, <2>12, <2>13, <2>14 DEF ApplyOK, goal
  <2>16. RequestOK(r)'
    BY <1>1, <2>1, <2>13, <2>15 DEF RequestOK, Active
  <2>17. \A q \in Request : q # r => req[q].light # l
    BY <2>2 DEF Alone, OneInv
  <2> QED BY <1>1, <2>9, <2>13, <2>16, <2>17, SelfAlone
<1> QED BY <1>2, <1>3 DEF ReadFeature

LEMMA DoneAlone ==
    ASSUME Alone, Inv, TypeInv, NEW r \in Request, Done(r) PROVE Alone'
BY ReplyAlone DEF Done

LEMMA NoPanic ==
    ASSUME Alone, TypeInv, NEW r \in Request PROVE ~Panic(r)
BY WholeSteps DEF Panic

------------------------------------------------------------------------------
(* The steps that send, take and publish                                   *)

(* Only what happens at one lamp matters to it and to the request for it.  *)
LEMMA OneLampAlone ==
    ASSUME Alone, Inv, TypeInv, NEW l \in Light, UNCHANGED <<glitches, req, pc, reg>>,
           \A k \in Light : k # l => SameLamp(k), LampOK(l)',
           \A r \in Request : IF req[r].light = l THEN RequestOK(r)' ELSE todo'[r] = todo[r]
    PROVE  Alone'
<1>1. \A r \in Request : req[r].light # l => RequestOK(r)'
  <2> SUFFICES ASSUME NEW r \in Request, req[r].light # l PROVE RequestOK(r)'
    OBVIOUS
  <2>1. SameRequest(r) /\ (req[r].light \in Light => SameLamp(req[r].light))
    BY DEF SameRequest
  <2> QED BY <2>1, RequestFrame DEF Alone
<1>2. \A k \in Light : k # l => LampOK(k)'
  <2> SUFFICES ASSUME NEW k \in Light, k # l PROVE LampOK(k)'
    OBVIOUS
  <2>1. \A r \in Request : req'[r].light = k /\ todo'[r] # <<>> => req[r].light = k /\ todo[r] # <<>>
    OBVIOUS
  <2> QED BY <2>1, LampFrame DEF Alone
<1> QED BY <1>1, <1>2 DEF Alone, OneInv

(* The value a lamp is sent is the one it has to get.                      *)
LEMMA TargetKnown ==
    ASSUME NEW l \in Light, NEW step \in StepsAt(l), step.do # "read", NEW r \in Request,
           step.do = "move" => Sources(step.feature) \subseteq Got(r)
    PROVE  Target(step, reg[r]) = Target(step, req[r].found)
<1>1. CASE step.do = "set"
  BY <1>1 DEF Target
<1>2. CASE step.do = "move"
  <2>1. step.feature \in {"brightness", "colorTemperature", "hue", "saturation"}
    BY <1>2 DEF StepsAt
  <2>2. \A f \in Sources(step.feature) : reg[r][f] = req[r].found[f]
    BY <1>2 DEF Got
  <2>3. CASE step.feature \in {"brightness", "colorTemperature"}
    BY <1>2, <2>2, <2>3 DEF Target, Sources
  <2>4. CASE step.feature \in {"hue", "saturation"}
    <3>1. reg[r].hue = req[r].found.hue /\ reg[r].saturation = req[r].found.saturation
      BY <2>2, <2>4 DEF Sources
    <3>2. CASE step.feature = "hue"
      BY <1>2, <3>1, <3>2 DEF Target
    <3>3. CASE step.feature = "saturation"
      BY <1>2, <3>1, <3>3 DEF Target
    <3> QED BY <2>4, <3>2, <3>3
  <2> QED BY <2>1, <2>3, <2>4
<1>3. step.do \in {"set", "move"}
  BY DEF StepsAt
<1> QED BY <1>1, <1>2, <1>3

(* A Set brings the lamp, as it will be, one feature nearer to the goal.   *)
LEMMA SetFeatureAlone ==
    ASSUME Alone, Inv, TypeInv, NEW r \in Request, SetFeature(r) PROVE Alone'
<1> DEFINE l == req[r].light
           s == req[r].found
           step == Head(todo[r])
           f == step.feature
           v == Target(step, reg[r])
           m == [feature |-> f, value |-> v, by |-> req[r].by]
           goal == Goal(r)
<1>1. /\ pc[r] = "apply" /\ todo[r] # <<>> /\ step.do # "read"
      /\ queue' = [queue EXCEPT ![l] = Append(@, m)]
      /\ todo' = [todo EXCEPT ![r] = Tail(@)]
      /\ UNCHANGED <<lamp, pub, seen, present, glitches, pc, req, reg, issued, answer>>
  BY DEF SetFeature
<1>2. Shape /\ LampInv /\ HandlerInv /\ RequestOK(r) /\ StepsInv
  BY DEF Inv, TypeInv, Alone
<1>3. /\ l \in Light /\ ApplyOK(r) /\ todo[r] \in Seq(StepsAt(l)) /\ IsSequence(todo[r])
      /\ Ordered(todo[r]) /\ LampOK(l) /\ IsSequence(queue[l])
  BY <1>1, <1>2, WholeSteps DEF HandlerInv, RequestOK, IsSequence, StepsInv, Alone, Shape
<1>4. \A q \in Request : q # r => req[q].light # l
  BY <1>3 DEF Alone, OneInv
<1>5. step \in StepsAt(l) /\ f \in FeaturesAt(l)
  BY <1>1, WholeSteps
<1>6. Plan(todo[r], Got(r), s, goal)
  BY <1>3 DEF ApplyOK
<1>7. /\ m.feature = f /\ m.value = v
      /\ queue'[l] = Append(queue[l], m)
      /\ \A k \in Light : k # l => queue'[k] = queue[k]
      /\ todo'[r] = Tail(todo[r])
      /\ \A q \in Request : q # r => todo'[q] = todo[q]
  BY <1>1, <1>2, <1>3 DEF Shape
<1> HIDE DEF step, goal
<1>8. /\ Plan(Tail(todo[r]), Got(r), s, goal)
      /\ SetsIn(Tail(todo[r])) = SetsIn(todo[r]) \ {f} /\ f \in SetsIn(todo[r])
      /\ Target(step, s) = goal[f]
      /\ step.do = "move" => Sources(f) \subseteq Got(r)
  BY <1>1, <1>3, <1>6, RestPlan DEF step
<1> HIDE DEF m, v
<1>9. v = goal[f]
  BY <1>1, <1>3, <1>5, <1>8, TargetKnown DEF v
<1>10. /\ f = "on" => step.do = "set" /\ (step.value = 0 => Tail(todo[r]) = <<>>)
  BY <1>1, <1>3, RestOrdered DEF step
<1>11. f = "on" => v = step.value /\ v \in {0, 1}
  <2> SUFFICES ASSUME f = "on" PROVE v = step.value /\ v \in {0, 1}
    OBVIOUS
  <2>1. step.do = "set"
    BY <1>10
  <2>2. Parsed("on", step.value)
    BY <1>5, <2>1 DEF StepsAt
  <2> QED BY <2>1, <2>2 DEF v, Target, Parsed, ValuesOf
<1> DEFINE after == Final(l)
<1>12. /\ after = [g \in FeaturesAt(l) |-> after[g]]
       /\ after.on = 1 \/ (TurnsOnFirst(step) /\ f = "on" /\ v = 1)
  BY <1>1, <1>3, <1>11 DEF LampOK, ApplyOK, TurnsOnFirst, step
<1>13. Final(l)' = [after EXCEPT ![f] = v]
  <2>1. Final(l)' = FoldLeft(Taken, lamp[l], Append(queue[l], m))
    BY <1>1, <1>7 DEF Final
  <2>2. Final(l)' = Taken(after, m)
    <3>1. FoldLeft(Taken, lamp[l], Append(queue[l], m)) = Taken(FoldLeft(Taken, lamp[l], queue[l]), m)
      <4> HIDE DEF l
      <4> QED BY <1>3, FoldAppend
    <3>2. after = FoldLeft(Taken, lamp[l], queue[l])
      BY DEF Final
    <3> HIDE DEF after
    <3> QED BY <2>1, <3>1, <3>2
  <2> HIDE DEF after
  <2> QED BY <1>7, <1>12, <2>2 DEF Taken
<1> HIDE DEF after
<1>14. /\ Final(l)' = [g \in FeaturesAt(l) |-> Final(l)'[g]]
       /\ \A g \in FeaturesAt(l) : Final(l)'[g] = IF g = f THEN v ELSE after[g]
  <2> DEFINE F == Final(l)'
  <2>1. F = [after EXCEPT ![f] = v]
    BY <1>13
  <2> HIDE DEF F, f
  <2>2. F = [g \in FeaturesAt(l) |-> F[g]] /\ \A g \in FeaturesAt(l) : F[g] = IF g = f THEN v ELSE after[g]
    BY <1>5, <1>12, <2>1
  <2> QED BY <2>2 DEF F
<1> HIDE DEF f
<1>15. /\ Len(queue[l]) \in Nat /\ Len(queue'[l]) = Len(queue[l]) + 1
       /\ \A i \in 1..Len(queue[l]) : queue'[l][i] = queue[l][i]
       /\ queue'[l][Len(queue[l]) + 1] = m
  BY <1>3, <1>7, Appended
<1>16. \A i \in 1..Len(queue'[l]) : i \in 1..Len(queue[l]) \/ i = Len(queue[l]) + 1
  BY <1>15
<1>17. ApplyOK(r)'
  <2>1. \A g \in FeaturesAt(l) : g # f /\ Untouched(l, g, s) => Untouched(l, g, s)'
    BY <1>1, <1>7, <1>15, <1>16 DEF Untouched
  <2>2. \A g \in FeaturesAt(l) : IF g \in SetsIn(Tail(todo[r])) THEN Untouched(l, g, s)'
                                                               ELSE Final(l)'[g] = goal[g]
    <3> SUFFICES ASSUME NEW g \in FeaturesAt(l)
                 PROVE  IF g \in SetsIn(Tail(todo[r])) THEN Untouched(l, g, s)'
                                                       ELSE Final(l)'[g] = goal[g]
      OBVIOUS
    <3>1. IF g \in SetsIn(todo[r]) THEN Untouched(l, g, s) ELSE after[g] = goal[g]
      BY <1>3 DEF ApplyOK, goal, after
    <3> QED BY <1>8, <1>9, <1>14, <2>1, <3>1
  <2>3. Tail(todo[r]) # <<>> => Final(l)'.on = 1
    <3>1. "on" \in FeaturesAt(l)
      BY <1>3, FeaturesByType
    <3> QED BY <1>10, <1>11, <1>12, <1>14, <3>1
  <2>4. req'[r] = req[r] /\ Got(r)' = Got(r) /\ Goal(r)' = Goal(r)
    BY <1>1 DEF Got, Goal
  <2> QED BY <1>1, <1>3, <1>7, <1>8, <2>2, <2>3, <2>4 DEF ApplyOK, goal
<1>18. RequestOK(r)'
  BY <1>1, <1>2, <1>3, <1>17 DEF RequestOK, Active
<1>19. LampOK(l)'
  <2>1. \A g : SeenOK(l, g)' <=> SeenOK(l, g)
    BY <1>1 DEF SeenOK
  <2>2. lamp[l].on = 1 \/ (queue'[l][1].feature = "on" /\ queue'[l][1].value = 1)
    <3>1. CASE queue[l] = <<>>
      <4>1. after = lamp[l] /\ queue'[l][1] = m
        BY <1>15, <3>1, FoldEmpty, Pieces DEF after, Final
      <4> QED BY <1>7, <1>12, <4>1
    <3>2. CASE queue[l] # <<>>
      <4>1. 1 \in 1..Len(queue[l])
        BY <1>3, <3>2, Rest
      <4> QED BY <1>3, <1>15, <3>2, <4>1 DEF LampOK
    <3> QED BY <3>1, <3>2
  <2>3. \A i \in 1..Len(queue'[l]) : TurnsItOff(queue'[l][i]) =>
            /\ i = Len(queue'[l])
            /\ \A q \in Request : req'[q].light = l => todo'[q] = <<>>
    <3> SUFFICES ASSUME NEW i \in 1..Len(queue'[l]), TurnsItOff(queue'[l][i])
                 PROVE  /\ i = Len(queue'[l])
                        /\ \A q \in Request : req'[q].light = l => todo'[q] = <<>>
      OBVIOUS
    <3>1. CASE i \in 1..Len(queue[l])
      BY <1>1, <1>3, <1>15, <3>1 DEF LampOK
    <3>2. CASE i = Len(queue[l]) + 1
      <4>1. f = "on" /\ v = 0
        BY <1>7, <1>15, <3>2 DEF TurnsItOff
      <4>2. Tail(todo[r]) = <<>>
        BY <1>10, <1>11, <4>1
      <4> QED BY <1>1, <1>4, <1>7, <1>15, <3>2, <4>2
    <3> QED BY <1>16, <3>1, <3>2
  <2> QED BY <1>1, <1>3, <1>14, <2>1, <2>2, <2>3 DEF LampOK
<1>20. \A k \in Light : k # l => SameLamp(k)
  BY <1>1, <1>7 DEF SameLamp
<1>21. \A q \in Request : IF req[q].light = l THEN RequestOK(q)' ELSE todo'[q] = todo[q]
  BY <1>4, <1>7, <1>18
<1> QED BY <1>1, <1>3, <1>19, <1>20, <1>21, OneLampAlone

(* A lamp takes a Set, and will end up as it would have before.            *)
LEMMA TakeSetAlone ==
    ASSUME Alone, Inv, TypeInv, NEW l \in Light, TakeSet(l) PROVE Alone'
<1> DEFINE m == Head(queue[l])
           f == m.feature
           p == [feature |-> f, value |-> m.value]
           n == Len(queue[l])
           k == Len(pub[l])
<1>1. /\ queue[l] # <<>> /\ queue' = [queue EXCEPT ![l] = Tail(@)]
      /\ lamp' = [lamp EXCEPT ![l] = Taken(@, m)]
      /\ IF lamp' # lamp THEN pub' = [pub EXCEPT ![l] = Append(@, p)] ELSE pub' = pub
      /\ UNCHANGED <<seen, present, glitches, pc, req, todo, reg, issued, answer>>
  BY DEF TakeSet, Publish
<1>2. Shape /\ LampInv /\ HandlerInv /\ LampOK(l)
  BY DEF Inv, TypeInv, Alone
<1>3. /\ queue'[l] = Tail(queue[l]) /\ n \in Nat /\ n > 0
      /\ Len(queue'[l]) = n - 1 /\ m = queue[l][1]
      /\ \A i \in 1..Len(queue'[l]) : queue'[l][i] = queue[l][i + 1]
  BY <1>1, <1>2, Rest DEF Shape
<1>4. 1 \in 1..n /\ \A i \in 1..Len(queue'[l]) : i + 1 \in 1..n
  BY <1>3
<1>5. f \in FeaturesAt(l) /\ Parsed(f, m.value)
  BY <1>2, <1>3, <1>4 DEF LampInv
<1>6. lamp[l].on = 1 \/ (f = "on" /\ m.value = 1)
  BY <1>1, <1>2, <1>3 DEF LampOK
<1>7. /\ \A j \in Light : j # l => queue'[j] = queue[j] /\ lamp'[j] = lamp[j] /\ pub'[j] = pub[j]
      /\ lamp'[l] = Taken(lamp[l], m)
      /\ \/ pub'[l] = Append(pub[l], p)
         \/ pub'[l] = pub[l] /\ lamp'[l] = lamp[l]
  BY <1>1, <1>2 DEF LampInv
<1> HIDE DEF m
<1>8. /\ lamp'[l] = [g \in FeaturesAt(l) |-> lamp'[l][g]]
      /\ \A g \in FeaturesAt(l) : lamp'[l][g] = IF g = f THEN m.value ELSE lamp[l][g]
  <2>1. lamp[l] = [g \in FeaturesAt(l) |-> lamp[l][g]]
    BY <1>2 DEF LampOK
  <2>2. lamp'[l] = [lamp[l] EXCEPT ![f] = m.value]
    BY <1>6, <1>7 DEF Taken
  <2> HIDE DEF f
  <2> QED BY <1>5, <2>1, <2>2
<1>9. Final(l)' = Final(l)
  <2>1. Final(l)' = FoldLeft(Taken, Taken(lamp[l], m), Tail(queue[l]))
    BY <1>3, <1>7 DEF Final
  <2>2. FoldLeft(Taken, Taken(lamp[l], Head(queue[l])), Tail(queue[l])) = FoldLeft(Taken, lamp[l], queue[l])
    BY <1>1, <1>2, FoldTail DEF Shape
  <2> QED BY <2>1, <2>2 DEF Final, m
<1>10. /\ k \in Nat /\ Len(pub'[l]) \in {k, k + 1}
       /\ \A i \in 1..k : pub'[l][i] = pub[l][i]
       /\ \/ Len(pub'[l]) = k + 1 /\ pub'[l][k + 1] = p
          \/ Len(pub'[l]) = k /\ lamp'[l] = lamp[l]
  <2>1. IsSequence(pub[l])
    BY <1>2 DEF LampInv
  <2> HIDE DEF p
  <2> QED BY <1>7, <2>1, Appended
<1>11. \A i \in 1..Len(pub'[l]) : i \in 1..k \/ (i = k + 1 /\ Len(pub'[l]) = k + 1)
  BY <1>10
<1>12. p.feature = f /\ p.value = m.value
  OBVIOUS
<1> HIDE DEF p, f, n, k
<1>13. \A g \in FeaturesAt(l) : SeenOK(l, g)'
  <2> SUFFICES ASSUME NEW g \in FeaturesAt(l) PROVE SeenOK(l, g)'
    OBVIOUS
  <2>1. SeenOK(l, g) /\ seen' = seen
    BY <1>1, <1>2 DEF LampOK
  <2>2. CASE Len(pub'[l]) = k /\ lamp'[l] = lamp[l]
    BY <1>10, <2>1, <2>2 DEF SeenOK, k
  <2>3. CASE Len(pub'[l]) = k + 1 /\ pub'[l][k + 1] = p
    <3>1. k + 1 \in 1..Len(pub'[l]) /\ \A i \in 1..k : i \in 1..Len(pub'[l]) /\ i < k + 1
      BY <1>10, <2>3
    <3>2. CASE g = f
      <4>1. lamp'[l][g] = m.value /\ pub'[l][k + 1].feature = g /\ pub'[l][k + 1].value = m.value
        BY <1>5, <1>8, <1>12, <2>3, <3>2
      <4> QED BY <1>11, <3>1, <4>1 DEF SeenOK
    <3>3. CASE g # f
      <4>1. lamp'[l][g] = lamp[l][g] /\ pub'[l][k + 1].feature # g
        BY <1>8, <1>12, <2>3, <3>3
      <4>2. (\A i \in 1..Len(pub'[l]) : pub'[l][i].feature # g) => seen'[l][g] = lamp'[l][g]
        <5>1. (\A i \in 1..Len(pub'[l]) : pub'[l][i].feature # g) =>
              (\A i \in 1..k : pub[l][i].feature # g)
          BY <1>10, <3>1
        <5> QED BY <2>1, <4>1, <5>1 DEF SeenOK, k
      <4>3. ASSUME NEW i \in 1..Len(pub'[l]), pub'[l][i].feature = g,
                   \A j \in 1..Len(pub'[l]) : i < j => pub'[l][j].feature # g
            PROVE  pub'[l][i].value = lamp'[l][g]
        <5>1. i \in 1..k
          BY <1>11, <4>1, <4>3
        <5>2. \A j \in 1..k : i < j => pub[l][j].feature # g
          BY <1>10, <3>1, <4>3
        <5>3. pub[l][i].feature = g
          BY <1>10, <4>3, <5>1
        <5>4. pub[l][i].value = lamp[l][g]
          BY <2>1, <5>1, <5>2, <5>3 DEF SeenOK, k
        <5> QED BY <1>10, <4>1, <5>1, <5>4
      <4> QED BY <4>2, <4>3 DEF SeenOK
    <3> QED BY <3>2, <3>3
  <2> QED BY <1>10, <2>2, <2>3
<1>14. LampOK(l)'
  <2>1. queue'[l] # <<>> => lamp'[l].on = 1
    <3> SUFFICES ASSUME queue'[l] # <<>> PROVE lamp'[l].on = 1
      OBVIOUS
    <3>1. "on" \in FeaturesAt(l)
      BY FeaturesByType
    <3>2. CASE f # "on"
      BY <1>6, <1>8, <3>1, <3>2
    <3>3. CASE f = "on" /\ m.value = 1
      BY <1>8, <3>1, <3>3
    <3>4. CASE f = "on" /\ m.value = 0
      <4>1. n = 1
        BY <1>2, <1>3, <1>4, <3>4 DEF LampOK, TurnsItOff, f, n
      <4>2. IsSequence(queue'[l]) /\ Len(queue'[l]) = 0
        BY <1>1, <1>2, <1>3, <4>1, Rest DEF Shape
      <4> QED BY <4>2, SequenceFacts!EmptySeq DEF IsSequence
    <3>5. f = "on" => m.value \in {0, 1}
      BY <1>5 DEF Parsed, ValuesOf
    <3> QED BY <3>2, <3>3, <3>4, <3>5
  <2>2. \A i \in 1..Len(queue'[l]) : TurnsItOff(queue'[l][i]) =>
            /\ i = Len(queue'[l])
            /\ \A q \in Request : req'[q].light = l => todo'[q] = <<>>
    <3> SUFFICES ASSUME NEW i \in 1..Len(queue'[l]), TurnsItOff(queue'[l][i])
                 PROVE  /\ i = Len(queue'[l])
                        /\ \A q \in Request : req'[q].light = l => todo'[q] = <<>>
      OBVIOUS
    <3>1. i + 1 \in 1..n /\ TurnsItOff(queue[l][i + 1])
      BY <1>3, <1>4
    <3>2. i + 1 = n /\ \A q \in Request : req[q].light = l => todo[q] = <<>>
      BY <1>2, <3>1 DEF LampOK, n
    <3> QED BY <1>1, <1>3, <3>2
  <2> QED BY <1>2, <1>8, <1>9, <1>13, <2>1, <2>2 DEF LampOK
<1>15. ASSUME NEW r \in Request, req[r].light = l PROVE RequestOK(r)'
  <2>1. RequestOK(r) /\ SameRequest(r)
    BY <1>1 DEF Alone, SameRequest
  <2>2. pc[r] \notin {"find", "again", "check"}
    BY <1>1, <1>15, <2>1 DEF RequestOK
  <2>3. ASSUME NEW s, NEW g \in FeaturesAt(l), Untouched(l, g, s) PROVE Untouched(l, g, s)'
    <3>1. g # f
      BY <1>3, <1>4, <2>3 DEF Untouched, f, n
    <3>2. lamp'[l][g] = s[g] /\ seen'[l][g] = s[g]
      BY <1>1, <1>8, <2>3, <3>1 DEF Untouched
    <3>3. \A i \in 1..Len(queue'[l]) : queue'[l][i].feature # g
      BY <1>3, <1>4, <2>3 DEF Untouched, n
    <3>4. \A i \in 1..Len(pub'[l]) : pub'[l][i].feature # g
      <4>1. \A i \in 1..k : pub[l][i].feature # g
        BY <2>3 DEF Untouched, k
      <4> QED BY <1>10, <1>11, <1>12, <3>1, <4>1
    <3> QED BY <3>2, <3>3, <3>4 DEF Untouched
  <2>4. pc[r] = "apply" => ApplyOK(r)'
    <3> SUFFICES ASSUME pc[r] = "apply" PROVE ApplyOK(r)'
      OBVIOUS
    <3>1. ApplyOK(r)
      BY <2>1 DEF RequestOK
    <3>2. Got(r)' = Got(r) /\ Goal(r)' = Goal(r)
      BY <1>1 DEF Got, Goal
    <3> QED BY <1>1, <1>9, <1>15, <2>3, <3>1, <3>2 DEF ApplyOK
  <2> QED BY <1>1, <1>15, <2>1, <2>2, <2>4 DEF RequestOK, Active
<1>16. \A j \in Light : j # l => SameLamp(j)
  BY <1>1, <1>7 DEF SameLamp
<1>17. \A r \in Request : IF req[r].light = l THEN RequestOK(r)' ELSE todo'[r] = todo[r]
  BY <1>1, <1>15
<1> QED BY <1>1, <1>14, <1>16, <1>17, OneLampAlone

(* A publication arrives.                                                  *)
LEMMA DeliverAlone ==
    ASSUME Alone, Inv, TypeInv, NEW l \in Light, Deliver(l) PROVE Alone'
<1> DEFINE m == Head(pub[l])
           n == Len(pub[l])
<1>1. /\ pub[l] # <<>> /\ pub' = [pub EXCEPT ![l] = Tail(@)]
      /\ seen' = [seen EXCEPT ![l][m.feature] = m.value]
      /\ UNCHANGED <<lamp, queue, present, glitches, pc, req, todo, reg, issued, answer>>
  BY DEF Deliver
<1>2. LampInv /\ LampOK(l)
  BY DEF TypeInv, Alone
<1>3. /\ pub'[l] = Tail(pub[l]) /\ n \in Nat /\ n > 0
      /\ Len(pub'[l]) = n - 1 /\ m = pub[l][1]
      /\ \A i \in 1..Len(pub'[l]) : pub'[l][i] = pub[l][i + 1]
  BY <1>1, <1>2, Rest DEF LampInv
<1>4. /\ 1 \in 1..n /\ \A i \in 1..Len(pub'[l]) : i + 1 \in 1..n
      /\ \A i \in 1..n : i = 1 \/ (i - 1 \in 1..Len(pub'[l]) /\ (i - 1) + 1 = i)
  BY <1>3
<1>5. m.feature \in FeaturesAt(l)
  BY <1>2, <1>3, <1>4 DEF LampInv
<1>6. /\ \A g \in FeaturesAt(l) : seen'[l][g] = IF g = m.feature THEN m.value ELSE seen[l][g]
      /\ \A j \in Light : j # l => SameLamp(j)
  BY <1>1, <1>2, <1>5 DEF LampInv, SameLamp
<1> HIDE DEF m, n
<1>7. \A g \in FeaturesAt(l) : SeenOK(l, g)'
  <2> SUFFICES ASSUME NEW g \in FeaturesAt(l) PROVE SeenOK(l, g)'
    OBVIOUS
  <2>1. SeenOK(l, g) /\ lamp' = lamp
    BY <1>1, <1>2 DEF LampOK
  <2>2. ASSUME \A i \in 1..Len(pub'[l]) : pub'[l][i].feature # g
        PROVE  seen'[l][g] = lamp'[l][g]
    <3>1. \A j \in 1..n : j # 1 => pub[l][j].feature # g
      BY <1>3, <1>4, <2>2
    <3>2. CASE g = m.feature
      <4>1. \A j \in 1..n : 1 < j => pub[l][j].feature # g
        BY <3>1
      <4>2. pub[l][1].value = lamp[l][g]
        BY <1>3, <1>4, <2>1, <3>2, <4>1 DEF SeenOK, n
      <4> QED BY <1>3, <1>6, <2>1, <3>2, <4>2
    <3>3. CASE g # m.feature
      <4>1. \A j \in 1..n : pub[l][j].feature # g
        BY <1>3, <3>1, <3>3
      <4> QED BY <1>6, <2>1, <3>3, <4>1 DEF SeenOK, n
    <3> QED BY <3>2, <3>3
  <2>3. ASSUME NEW i \in 1..Len(pub'[l]), pub'[l][i].feature = g,
               \A j \in 1..Len(pub'[l]) : i < j => pub'[l][j].feature # g
        PROVE  pub'[l][i].value = lamp'[l][g]
    <3>1. i + 1 \in 1..n /\ pub[l][i + 1] = pub'[l][i]
      BY <1>3, <1>4
    <3>2. ASSUME NEW j \in 1..n, i + 1 < j PROVE pub[l][j].feature # g
      <4>1. j - 1 \in 1..Len(pub'[l]) /\ (j - 1) + 1 = j /\ i < j - 1
        BY <1>3, <1>4, <3>2
      <4> QED BY <1>3, <2>3, <4>1
    <3>3. pub[l][i + 1].value = lamp[l][g]
      BY <2>1, <2>3, <3>1, <3>2 DEF SeenOK, n
    <3> QED BY <2>1, <3>1, <3>3
  <2> QED BY <2>2, <2>3 DEF SeenOK
<1>8. LampOK(l)'
  <2>1. Final(l)' = Final(l)
    BY <1>1 DEF Final
  <2> QED BY <1>1, <1>2, <1>7, <2>1 DEF LampOK
<1>9. ASSUME NEW r \in Request, req[r].light = l PROVE RequestOK(r)'
  <2>1. RequestOK(r) /\ SameRequest(r)
    BY <1>1 DEF Alone, SameRequest
  <2>2. pc[r] \notin {"find", "again", "check"}
    BY <1>1, <1>9, <2>1 DEF RequestOK
  <2>3. ASSUME NEW s, NEW g \in FeaturesAt(l), Untouched(l, g, s) PROVE Untouched(l, g, s)'
    <3>1. g # m.feature
      BY <1>3, <1>4, <2>3 DEF Untouched, n
    <3>2. \A i \in 1..Len(pub'[l]) : pub'[l][i].feature # g
      BY <1>3, <1>4, <2>3 DEF Untouched, n
    <3> QED BY <1>1, <1>6, <2>3, <3>1, <3>2 DEF Untouched
  <2>4. pc[r] = "apply" => ApplyOK(r)'
    <3> SUFFICES ASSUME pc[r] = "apply" PROVE ApplyOK(r)'
      OBVIOUS
    <3>1. ApplyOK(r)
      BY <2>1 DEF RequestOK
    <3>2. Got(r)' = Got(r) /\ Goal(r)' = Goal(r) /\ Final(l)' = Final(l)
      BY <1>1 DEF Got, Goal, Final
    <3> QED BY <1>1, <1>9, <2>3, <3>1, <3>2 DEF ApplyOK
  <2> QED BY <1>1, <1>9, <2>1, <2>2, <2>4 DEF RequestOK, Active
<1>10. \A r \in Request : IF req[r].light = l THEN RequestOK(r)' ELSE todo'[r] = todo[r]
  BY <1>1, <1>9
<1> QED BY <1>1, <1>6, <1>8, <1>10, OneLampAlone

(* Alone holds from the first state on ...                                 *)
LEMMA InitAlone == Init => Alone
<1> SUFFICES ASSUME Init PROVE Alone
  OBVIOUS
<1>1. /\ lamp \in AsFound /\ seen = lamp /\ glitches = 0
      /\ \A l \in Light : pub[l] = <<>> /\ queue[l] = <<>>
      /\ \A r \in Request : pc[r] = "idle" /\ req[r] = NoRequest /\ todo[r] = <<>>
  BY DEF Init
<1>2. NoRequest.light = Unknown /\ Unknown \notin Light
  BY LightAssumption DEF NoRequest
<1>3. \A r \in Request : RequestOK(r)
  BY <1>1, <1>2 DEF RequestOK, Active
<1>4. \A l \in Light : LampOK(l)
  <2> SUFFICES ASSUME NEW l \in Light PROVE LampOK(l)
    OBVIOUS
  <2>1. 1..Len(<<>>) = {}
    BY Pieces
  <2>2. lamp[l] = [f \in FeaturesAt(l) |-> lamp[l][f]]
    BY <1>1, ValueAssumption DEF FeaturesAt
  <2>3. Final(l) = lamp[l]
    BY <1>1, FoldEmpty DEF Final
  <2> QED BY <1>1, <2>1, <2>2, <2>3 DEF LampOK, SeenOK
<1>5. OneInv
  BY <1>1, <1>2 DEF OneInv
<1> QED BY <1>1, <1>3, <1>4, <1>5 DEF Alone

(* ... and every step keeps it while clients leave a lamp alone until it   *)
(* has settled, and lamps do nothing unasked.                              *)
LEMMA NextAlone ==
    ASSUME OneAtATime, WholeBodies, MaxGlitches = 0, Alone, Inv, TypeInv, [Next]_vars
    PROVE  Alone'
<1>1. ASSUME NEW r \in Request, Handle(r) PROVE Alone'
  BY <1>1, FindLightAlone, FindAgainAlone, CheckAlone, ReadFeatureAlone, SetFeatureAlone,
     DoneAlone, NoPanic DEF Handle
<1>2. ASSUME NEW r \in Request, NEW path \in {"light", "group"}, NEW l \in Light \cup {Unknown},
             NEW b \in Body, Put(r, path, l, b)
      PROVE  Alone'
  BY <1>2, PutAlone
<1>3. ASSUME NEW l \in Light, TakeSet(l) \/ Deliver(l) PROVE Alone'
  BY <1>3, TakeSetAlone, DeliverAlone
<1>4. \A l \in Light : ~Glitch(l)
  BY DEF Glitch, Alone
<1>5. CASE UNCHANGED vars
  <2>1. /\ UNCHANGED lamps /\ req' = req /\ glitches' = glitches
        /\ \A r \in Request : SameRequest(r)
        /\ \A l \in Light : SameLamp(l)
    BY <1>5 DEF vars, lamps, SameRequest, SameLamp
  <2>2. \A r \in Request : RequestOK(r)'
    BY <2>1, RequestFrame DEF Alone
  <2>3. \A l \in Light : LampOK(l)'
    <3> SUFFICES ASSUME NEW l \in Light PROVE LampOK(l)'
      OBVIOUS
    <3>1. \A r \in Request : req'[r].light = l /\ todo'[r] # <<>> => req[r].light = l /\ todo[r] # <<>>
      BY <2>1 DEF SameRequest
    <3> QED BY <2>1, <3>1, LampFrame DEF Alone
  <2> QED BY <2>1, <2>2, <2>3 DEF Alone, OneInv
<1> QED BY <1>1, <1>2, <1>3, <1>4, <1>5 DEF Next

(* When clients leave a lamp alone until it has settled and the lamps do   *)
(* nothing unasked, there is one request at a time for a lamp, the steps   *)
(* it has left lead from what it has sent to the effect its body asks for, *)
(* and the lamp is on whenever it is to take a setting.                    *)
THEOREM AloneInvariance ==
    ASSUME OneAtATime, WholeBodies, MaxGlitches = 0
    PROVE  Spec => []Alone
<1>1. Alone /\ Inv /\ TypeInv /\ [Next]_vars => Alone'
  BY NextAlone
<1> QED BY <1>1, InitAlone, LightInvariance, TypeInvariance, PTL DEF Spec

(* "Turn on first so any other characteristic updates will propagate":     *)
(* then no update reaches a lamp that is off and does not take it, for any *)
(* lamps and bodies.                                                       *)
THEOREM UpdatesPropagateHolds ==
    ASSUME OneAtATime, WholeBodies, MaxGlitches = 0
    PROVE  Spec => []UpdatesPropagate
<1>1. Alone /\ Inv => UpdatesPropagate
  <2> SUFFICES ASSUME Alone, Inv, NEW l \in Light, queue[l] # <<>>, Head(queue[l]).feature # "on"
               PROVE  lamp[l].on = 1
    BY DEF UpdatesPropagate
  <2>1. Head(queue[l]) = queue[l][1]
    BY Rest DEF Inv, Shape
  <2> QED BY <2>1 DEF Alone, LampOK
<1> QED BY <1>1, AloneInvariance, LightInvariance, PTL

(* And whoever is told that the device is off has asked for one that is:   *)
(* what the handler saw of it was no older than the lamp itself.           *)
THEOREM OffReplyHolds ==
    ASSUME OneAtATime, WholeBodies, MaxGlitches = 0
    PROVE  Spec => OffReplyIsTrue
<1>1. Alone /\ Inv /\ TypeInv /\ [Next]_vars => [OffReply]_vars
  <2> SUFFICES ASSUME Alone, Inv, TypeInv, Next, NEW l \in Light,
                      answer'[l] # answer[l], answer'[l].code = "off"
               PROVE  lamp[l].on = 0
    BY DEF OffReply
  <2>1. Shape /\ LampInv /\ HandlerInv
    BY DEF Inv, TypeInv
  <2>2. ASSUME NEW r \in Request, NEW code, Reply(r, code)
        PROVE  req[r].light = l /\ code = "off"
    BY <2>1, <2>2 DEF Reply, Shape
  <2>11. \A r \in Request : ~Panic(r)
    BY NoPanic
  <2>3. ASSUME NEW r \in Request, Handle(r)
        PROVE  Check(r) /\ Reply(r, "off") /\ ~IsOn(req[r].light) /\ req[r].light = l
    <3>1. "off" \notin {"resource", "unavailable", "panic", "internal", "success"}
      OBVIOUS
    <3>2. ~FindLight(r)
      BY <2>2, <3>1 DEF FindLight
    <3>3. ~FindAgain(r)
      BY <2>2, <3>1 DEF FindAgain
    <3>4. ~ReadFeature(r)
      BY <2>2, <3>1 DEF ReadFeature
    <3>5. ~SetFeature(r) /\ ~Done(r)
      BY <2>2, <3>1 DEF SetFeature, Done
    <3>6. Check(r)
      BY <2>3, <2>11, <3>2, <3>3, <3>4, <3>5 DEF Handle
    <3> QED BY <2>2, <3>1, <3>6 DEF Check, Refused
  <2>4. \A r \in Request, path \in {"light", "group"}, k \in Light \cup {Unknown}, b \in Body :
            ~Put(r, path, k, b)
    BY DEF Put
  <2>5. \A k \in Light : ~TakeSet(k) /\ ~Deliver(k) /\ ~Glitch(k)
    BY DEF TakeSet, Deliver, Glitch
  <2>6. PICK r \in Request : pc[r] = "check" /\ ~IsOn(l) /\ req[r].light = l
    BY <2>3, <2>4, <2>5 DEF Next, Check
  <2>7. pub[l] = <<>>
    BY <2>6 DEF Alone, RequestOK
  <2>8. "on" \in FeaturesAt(l) /\ 1..Len(<<>>) = {}
    BY FeaturesByType, Pieces
  <2>9. seen[l]["on"] = lamp[l]["on"]
    BY <2>7, <2>8 DEF Alone, LampOK, SeenOK
  <2>10. lamp[l]["on"] \in {0, 1}
    BY <2>1, <2>8 DEF LampInv, Parsed, ValuesOf
  <2> QED BY <2>6, <2>9, <2>10 DEF IsOn
<1> QED BY <1>1, AloneInvariance, LightInvariance, TypeInvariance, PTL DEF Spec, OffReplyIsTrue

------------------------------------------------------------------------------
(* The handlers keep the promise of Lamp.                                  *)

Codes == [l \in Light |-> answer[l].code]

(* What Lamp sees of a lamp with a request under way, and of one without   *)
Mapped ==
    \A l \in Light :
        /\ \A r \in Request : req[r].light = l =>
              /\ Lamps[l] = req[r].found
              /\ Asked[l] = [path |-> req[r].path, body |-> req[r].asked]
        /\ (\A r \in Request : req[r].light # l) =>
              Lamps[l] = Final(l) /\ Asked[l] = Promise!NoneAsked

LEMMA AloneMapped == Alone => Mapped
<1> SUFFICES ASSUME Alone, NEW l \in Light
             PROVE  /\ \A r \in Request : req[r].light = l =>
                          /\ Lamps[l] = req[r].found
                          /\ Asked[l] = [path |-> req[r].path, body |-> req[r].asked]
                    /\ (\A r \in Request : req[r].light # l) =>
                          Lamps[l] = Final(l) /\ Asked[l] = Promise!NoneAsked
  BY DEF Mapped
<1>1. ASSUME NEW r \in Request, req[r].light = l
      PROVE  Lamps[l] = req[r].found /\ Asked[l] = [path |-> req[r].path, body |-> req[r].asked]
  <2>1. {q \in Request : req[q].light = l} = {r}
    BY <1>1 DEF Alone, OneInv
  <2>2. UnderWay(l) = {req[r]}
    BY <2>1 DEF UnderWay
  <2>3. Only(l) = req[r] /\ UnderWay(l) # {}
    BY <2>2 DEF Only
  <2> QED BY <2>3 DEF Lamps, Asked
<1>2. ASSUME \A r \in Request : req[r].light # l
      PROVE  Lamps[l] = Final(l) /\ Asked[l] = Promise!NoneAsked
  <2>1. UnderWay(l) = {}
    BY <1>2 DEF UnderWay
  <2> QED BY <2>1 DEF Lamps, Asked, Final, Promise!NoneAsked
<1> QED BY <1>1, <1>2

LEMMA NextMapped == Alone' => Mapped'
BY AloneMapped, PTL

(* What Lamp sees are functions of the lamps.                              *)
LEMMA MappedShape ==
    /\ Lamps = [l \in Light |-> Lamps[l]] /\ Asked = [l \in Light |-> Asked[l]]
    /\ Lamps' = [l \in Light |-> Lamps'[l]] /\ Asked' = [l \in Light |-> Asked'[l]]
BY DEF Lamps, Asked

(* It sees nothing of what a request does inside, nor of a lamp that does  *)
(* what it has been sent.                                                  *)
SameView(r) == /\ req'[r].light = req[r].light /\ req'[r].path = req[r].path
               /\ req'[r].asked = req[r].asked /\ req'[r].found = req[r].found

LEMMA ViewFrame ==
    ASSUME Mapped, Mapped', NEW l \in Light,
           \A r \in Request : req[r].light = l \/ req'[r].light = l => SameView(r),
           (\A r \in Request : req[r].light # l) => Final(l)' = Final(l)
    PROVE  Lamps'[l] = Lamps[l] /\ Asked'[l] = Asked[l]
<1>1. CASE \A r \in Request : req[r].light # l
  <2>1. \A r \in Request : req'[r].light # l
    BY <1>1 DEF SameView
  <2>2. Lamps[l] = Final(l) /\ Asked[l] = Promise!NoneAsked
    BY <1>1 DEF Mapped
  <2>3. Lamps'[l] = Final(l)' /\ Asked'[l] = Promise!NoneAsked
    BY <2>1 DEF Mapped
  <2> QED BY <1>1, <2>2, <2>3
<1>2. CASE \E r \in Request : req[r].light = l
  <2>1. PICK r \in Request : req[r].light = l
    BY <1>2
  <2>2. SameView(r) /\ req'[r].light = l
    BY <2>1 DEF SameView
  <2>3. Lamps[l] = req[r].found /\ Asked[l] = [path |-> req[r].path, body |-> req[r].asked]
    BY <2>1 DEF Mapped
  <2>4. Lamps'[l] = req'[r].found /\ Asked'[l] = [path |-> req'[r].path, body |-> req'[r].asked]
    BY <2>2 DEF Mapped
  <2> QED BY <2>2, <2>3, <2>4 DEF SameView
<1> QED BY <1>1, <1>2

LEMMA Unseen ==
    ASSUME Mapped, Mapped', answer' = answer,
           \A r \in Request : req[r].light \in Light \/ req'[r].light \in Light => SameView(r),
           \A l \in Light : (\A r \in Request : req[r].light # l) => Final(l)' = Final(l)
    PROVE  UNCHANGED Promise!lampVars
<1>1. \A l \in Light : Lamps'[l] = Lamps[l] /\ Asked'[l] = Asked[l]
  BY ViewFrame
<1>2. Lamps' = Lamps /\ Asked' = Asked
  BY <1>1, MappedShape
<1>3. Codes' = Codes
  BY DEF Codes
<1> QED BY <1>2, <1>3 DEF Promise!lampVars, Codes

(* The lamps take what they were sent, and publish it, without Lamp        *)
(* noticing.                                                               *)
LEMMA LampsUnseen ==
    ASSUME Inv, TypeInv, Mapped, Mapped', NEW l \in Light, TakeSet(l) \/ Deliver(l)
    PROVE  UNCHANGED Promise!lampVars
<1>1. UNCHANGED <<req, answer>>
  BY DEF TakeSet, Deliver
<1>2. ASSUME NEW k \in Light PROVE Final(k)' = Final(k)
  <2>1. CASE Deliver(l)
    BY <2>1 DEF Deliver, Final
  <2>2. CASE TakeSet(l) /\ k # l
    <3>1. queue'[k] = queue[k] /\ lamp'[k] = lamp[k]
      BY <2>2 DEF TakeSet
    <3> QED BY <3>1 DEF Final
  <2>3. CASE TakeSet(l) /\ k = l
    <3>1. queue'[l] = Tail(queue[l]) /\ queue[l] # <<>> /\ IsSequence(queue[l])
      BY <2>3 DEF TakeSet, Inv, Shape
    <3>2. lamp'[l] = Taken(lamp[l], Head(queue[l]))
      BY <2>3 DEF TakeSet, TypeInv, LampInv
    <3>3. Final(l)' = FoldLeft(Taken, Taken(lamp[l], Head(queue[l])), Tail(queue[l]))
      BY <3>1, <3>2 DEF Final
    <3> QED BY <2>3, <3>1, <3>3, FoldTail DEF Final
  <2> QED BY <2>1, <2>2, <2>3
<1> QED BY <1>1, <1>2, Unseen DEF SameView

(* A request comes in: Lamp sees it asked.                                 *)
LEMMA PutAsks ==
    ASSUME OneAtATime, Alone, Inv, TypeInv, Mapped, Mapped', NEW r \in Request,
           NEW path \in {"light", "group"}, NEW l \in Light \cup {Unknown}, NEW b \in Body,
           Put(r, path, l, b)
    PROVE  [Promise!Next]_(Promise!lampVars)
<1> DEFINE new == [path |-> path, light |-> l, body |-> b, by |-> issued + 1,
                   asked |-> b, found |-> IF l \in Light THEN lamp[l] ELSE NoValues]
           q == [path |-> path, body |-> b]
<1>1. /\ pc[r] = "idle" /\ (l \in Light => Settled(l))
      /\ req' = [req EXCEPT ![r] = new] /\ UNCHANGED lamps /\ answer' = answer
  BY DEF Put
<1>2. /\ req'[r] = new /\ \A o \in Request : o # r => req'[o] = req[o]
      /\ req[r].light = Unknown /\ Unknown \notin Light
  BY <1>1, LightAssumption DEF Inv, Shape, Alone, RequestOK
<1>3. /\ req'[r].path = path /\ req'[r].light = l
      /\ req'[r].asked = b /\ (l \in Light => req'[r].found = lamp[l])
  BY <1>2
<1> HIDE DEF new
<1>4. \A k \in Light : Final(k)' = Final(k)
  BY <1>1 DEF Final, lamps
<1>5. CASE l = Unknown
  <2>1. \A o \in Request : req[o].light \in Light \/ req'[o].light \in Light => SameView(o)
    BY <1>2, <1>3, <1>5 DEF SameView
  <2> QED BY <1>1, <1>4, <2>1, Unseen
<1>6. CASE l \in Light
  <2>1. /\ \A o \in Request : req[o].light # l
        /\ queue[l] = <<>>
    BY <1>1, <1>6 DEF Settled
  <2>2. Lamps[l] = lamp[l] /\ Asked[l] = Promise!NoneAsked
    <3>1. Lamps[l] = Final(l) /\ Asked[l] = Promise!NoneAsked
      BY <1>6, <2>1 DEF Mapped
    <3> QED BY <2>1, <3>1, FoldEmpty DEF Final
  <2>3. Lamps'[l] = lamp[l] /\ Asked'[l] = q
    <3>1. Lamps'[l] = req'[r].found /\ Asked'[l] = [path |-> req'[r].path, body |-> req'[r].asked]
      BY <1>3, <1>6 DEF Mapped
    <3> QED BY <1>3, <1>6, <3>1
  <2>4. \A k \in Light : k # l => Lamps'[k] = Lamps[k] /\ Asked'[k] = Asked[k]
    <3> SUFFICES ASSUME NEW k \in Light, k # l PROVE Lamps'[k] = Lamps[k] /\ Asked'[k] = Asked[k]
      OBVIOUS
    <3>1. \A o \in Request : req[o].light = k \/ req'[o].light = k => SameView(o)
      BY <1>2, <1>3 DEF SameView
    <3> QED BY <1>4, <3>1, ViewFrame
  <2> HIDE DEF q
  <2>5. Lamps' = Lamps /\ Asked' = [Asked EXCEPT ![l] = q]
    BY <1>6, <2>2, <2>3, <2>4, MappedShape
  <2>6. q \in Promise!Requests
    BY DEF q, Promise!Requests
  <2>7. Codes' = Codes
    BY <1>1 DEF Codes
  <2>8. Promise!Ask(l, q)
    BY <2>2, <2>5, <2>7 DEF Promise!Ask, Codes
  <2> QED BY <1>6, <2>6, <2>8 DEF Promise!Next
<1> QED BY <1>5, <1>6

(* A request is answered: Lamp sees its answer, and from then on the lamp  *)
(* as it will be.                                                          *)
LEMMA ReplyAnswers ==
    ASSUME Alone, Inv, Mapped, Mapped', NEW r \in Request, NEW code,
           Reply(r, code), UNCHANGED lamps, NEW l \in Light, req[r].light = l
    PROVE  /\ Promise!Answer(l, code)
           /\ Lamps[l] = req[r].found
           /\ Asked[l] = [path |-> req[r].path, body |-> req[r].asked]
           /\ Lamps' = [Lamps EXCEPT ![l] = Final(l)]
<1>1. /\ req'[r].light = Unknown /\ Unknown \notin Light
      /\ \A q \in Request : q # r => req'[q] = req[q]
      /\ \A k \in Light : answer'[k].code = IF k = l THEN code ELSE answer[k].code
  BY LightAssumption DEF Reply, NoRequest, Inv, Shape
<1>2. \A q \in Request : q # r => req[q].light # l
  BY DEF Alone, OneInv
<1>3. \A k \in Light : Final(k)' = Final(k)
  BY DEF Final, lamps
<1>4. Lamps[l] = req[r].found /\ Asked[l] = [path |-> req[r].path, body |-> req[r].asked]
  BY DEF Mapped
<1>5. Lamps'[l] = Final(l) /\ Asked'[l] = Promise!NoneAsked
  <2>1. \A q \in Request : req'[q].light # l
    BY <1>1, <1>2
  <2>2. Lamps'[l] = Final(l)' /\ Asked'[l] = Promise!NoneAsked
    BY <2>1 DEF Mapped
  <2> QED BY <1>3, <2>2
<1>6. \A k \in Light : k # l => Lamps'[k] = Lamps[k] /\ Asked'[k] = Asked[k]
  <2> SUFFICES ASSUME NEW k \in Light, k # l PROVE Lamps'[k] = Lamps[k] /\ Asked'[k] = Asked[k]
    OBVIOUS
  <2>1. \A q \in Request : req[q].light = k \/ req'[q].light = k => SameView(q)
    BY <1>1 DEF SameView
  <2> QED BY <1>3, <2>1, ViewFrame
<1>7. Codes' = [Codes EXCEPT ![l] = code]
  BY <1>1 DEF Codes
<1>8. /\ Lamps' = [Lamps EXCEPT ![l] = Final(l)]
      /\ Asked' = [Asked EXCEPT ![l] = Promise!NoneAsked]
  BY <1>5, <1>6, MappedShape
<1> QED BY <1>4, <1>7, <1>8 DEF Promise!Answer, Codes

(* A lamp that no lamp published nonsense for can be found.                *)
LEMMA FoundAlone == ASSUME Alone, TypeInv, NEW l \in Light PROVE Found(l) /\ l \in present
BY DEF Alone, TypeInv, CleanInv, Clean, Found

(* A request for a lamp that no longer is there has an answer Lamp does    *)
(* not see.                                                                *)
LEMMA NoLampUnseen ==
    ASSUME Alone, Inv, Mapped, Mapped', NEW r \in Request, NEW code,
           Reply(r, code), UNCHANGED lamps, req[r].light \notin Light
    PROVE  UNCHANGED Promise!lampVars
<1>1. /\ req'[r].light = Unknown /\ Unknown \notin Light
      /\ \A q \in Request : q # r => req'[q] = req[q]
      /\ \A k \in Light : answer'[k] = answer[k]
  BY LightAssumption DEF Reply, NoRequest, Inv, Shape
<1>2. \A l \in Light : Lamps'[l] = Lamps[l] /\ Asked'[l] = Asked[l]
  <2> SUFFICES ASSUME NEW l \in Light PROVE Lamps'[l] = Lamps[l] /\ Asked'[l] = Asked[l]
    OBVIOUS
  <2>1. \A q \in Request : req[q].light = l \/ req'[q].light = l => SameView(q)
    BY <1>1 DEF SameView
  <2>2. Final(l)' = Final(l)
    BY DEF Final, lamps
  <2> QED BY <2>1, <2>2, ViewFrame
<1>3. Lamps' = Lamps /\ Asked' = Asked
  BY <1>2, MappedShape
<1>4. Codes' = Codes
  BY <1>1 DEF Codes
<1> QED BY <1>3, <1>4 DEF Promise!lampVars, Codes

LEMMA LampStep ==
    ASSUME NEW l \in Light, Promise!Command(l) \/ Promise!Reject(l)
    PROVE  Promise!Next
<1>1. \E k \in Light : Promise!Command(k) \/ Promise!Reject(k) \/ \E q \in Promise!Requests : Promise!Ask(k, q)
  OBVIOUS
<1> QED BY <1>1 DEF Promise!Next

(* A refusal that Lamp would give as well                                  *)
LEMMA Refuses ==
    ASSUME Alone, Inv, TypeInv, Mapped, Mapped', NEW r \in Request, NEW code,
           Reply(r, code), UNCHANGED lamps, NEW l \in Light, req[r].light = l,
           pc[r] \in {"find", "again", "check"},
           req[r].path = "group" => l \notin Hidden,
           code = Promise!Result(Type[l], req[r].found, req[r].asked),
           code # "success"
    PROVE  Promise!Next
<1>1. /\ Promise!Answer(l, code) /\ Lamps[l] = req[r].found
      /\ Asked[l] = [path |-> req[r].path, body |-> req[r].asked]
      /\ Lamps' = [Lamps EXCEPT ![l] = Final(l)]
  BY ReplyAnswers
<1>2. Final(l) = req[r].found /\ req[r].path \in {"light", "group"}
  <2>1. queue[l] = <<>> /\ lamp[l] = req[r].found /\ req[r].path \in {"light", "group"}
    BY DEF Alone, RequestOK, Active
  <2> QED BY <2>1, FoldEmpty DEF Final
<1>3. Lamps' = Lamps
  BY <1>1, <1>2, MappedShape
<1>4. Asked[l].path = req[r].path /\ Asked[l].body = req[r].asked
  BY <1>1
<1>5. Promise!Command(l)
  <2>1. Promise!Result(Type[l], Lamps[l], Asked[l].body) = code
    BY <1>1, <1>4
  <2>2. Promise!Reachable(l)
    BY <1>2, <1>4 DEF Promise!Reachable
  <2> QED BY <1>1, <1>3, <2>1, <2>2 DEF Promise!Command, Promise!Answer
<1> QED BY <1>5, LampStep

(* The lookups: of the lamps that are there, a group has no hidden one.    *)
LEMMA FindLightKeepsPromise ==
    ASSUME Alone, Inv, TypeInv, Mapped, Mapped', NEW r \in Request, FindLight(r)
    PROVE  [Promise!Next]_(Promise!lampVars)
<1> DEFINE l == req[r].light
<1>1. pc[r] = "find" /\ UNCHANGED lamps /\ Shape /\ HandlerInv /\ RequestOK(r)
  BY DEF FindLight, Inv, TypeInv, Alone
<1>2. CASE ~FoundBy(req[r].path, l) /\ Reply(r, "resource")
  <2>1. CASE l \notin Light
    BY <1>1, <1>2, <2>1, NoLampUnseen
  <2>2. ASSUME NEW k \in Light, k = l PROVE Promise!Next
    <3>1. req[r].path = "group" /\ k \in Hidden
      BY <1>2, <2>2, FoundAlone DEF FoundBy
    <3>2. /\ Promise!Answer(k, "resource") /\ Lamps[k] = req[r].found
          /\ Asked[k] = [path |-> req[r].path, body |-> req[r].asked]
          /\ Lamps' = [Lamps EXCEPT ![k] = Final(k)]
      BY <1>1, <1>2, <2>2, ReplyAnswers
    <3>3. Final(k) = req[r].found
      BY <1>1, <2>2, FoldEmpty DEF Final, RequestOK
    <3>4. Lamps' = Lamps
      BY <3>2, <3>3, MappedShape
    <3>5. Asked[k].path = "group"
      BY <3>1, <3>2
    <3>6. Asked[k] # Promise!NoneAsked
      BY <3>5 DEF Promise!NoneAsked
    <3>7. Promise!Reject(k)
      BY <3>1, <3>2, <3>4, <3>5, <3>6 DEF Promise!Reject, Promise!Reachable
    <3> QED BY <3>7, LampStep
  <2> QED BY <2>1, <2>2
<1>3. CASE /\ FoundBy(req[r].path, l) /\ DOMAIN req[r].body \cap Unsupported # {}
           /\ Reply(r, "unavailable")
  <2>1. l \in Light /\ (req[r].path = "group" => l \notin Hidden)
    BY <1>3 DEF FoundBy, Found, TypeInv, LampInv
  <2>2. req[r].asked \in Body /\ DOMAIN req[r].asked \cap Unsupported # {}
        /\ lamp[l] = req[r].found
    BY <1>1, <1>3, <2>1 DEF RequestOK, Active
  <2>3. req[r].found.on \in {0, 1}
    BY <2>1, <2>2, FeaturesByType DEF TypeInv, LampInv, Parsed, ValuesOf
  <2>4. Promise!Result(Type[l], req[r].found, req[r].asked) = "unavailable"
    BY <2>1, <2>2, <2>3, Results
  <2>5. ASSUME NEW k \in Light, k = l PROVE Promise!Next
    BY <1>1, <1>3, <2>1, <2>4, <2>5, Refuses
  <2> QED BY <2>1, <2>5
<1>4. CASE /\ req' = [req EXCEPT ![r].body = Bind(@)] /\ answer' = answer
  <2>1. DOMAIN req[r] = {"path", "light", "body", "by", "asked", "found"}
    BY <1>1 DEF HandlerInv, NoRequest
  <2>2. \A q \in Request : SameView(q)
    BY <1>1, <1>4, <2>1 DEF Shape, SameView
  <2>3. \A k \in Light : Final(k)' = Final(k)
    BY <1>1 DEF Final, lamps
  <2> QED BY <1>4, <2>2, <2>3, Unseen
<1> QED BY <1>2, <1>3, <1>4 DEF FindLight

LEMMA FindAgainKeepsPromise ==
    ASSUME Alone, Inv, TypeInv, Mapped, Mapped', NEW r \in Request, FindAgain(r)
    PROVE  [Promise!Next]_(Promise!lampVars)
<1>1. pc[r] = "again" /\ req[r].light \in Light
  BY DEF FindAgain, TypeInv, HandlerInv
<1>2. Found(req[r].light)
  BY <1>1, FoundAlone
<1>3. UNCHANGED <<req, answer>> /\ UNCHANGED lamps
  BY <1>2 DEF FindAgain
<1>4. \A l \in Light : Final(l)' = Final(l)
  BY <1>3 DEF Final, lamps
<1> QED BY <1>3, <1>4, Unseen DEF SameView

(* The body is judged as Lamp judges it.                                   *)
LEMMA CheckKeepsPromise ==
    ASSUME Alone, Inv, TypeInv, Mapped, Mapped', NEW r \in Request, Check(r)
    PROVE  [Promise!Next]_(Promise!lampVars)
<1> SUFFICES ASSUME NEW l \in Light, req[r].light = l
             PROVE  [Promise!Next]_(Promise!lampVars)
  BY DEF Check, TypeInv, HandlerInv
<1> DEFINE b == req[r].body
           a == req[r].asked
           s == req[r].found
           result == Promise!Result(Type[l], s, a)
<1>1. pc[r] = "check" /\ UNCHANGED lamps
  BY DEF Check
<1>2. /\ a \in Body /\ b = Bind(a) /\ DOMAIN a \cap Unsupported = {}
      /\ req[r].path = "group" => l \notin Hidden
      /\ pub[l] = <<>> /\ lamp[l] = s
  BY <1>1 DEF Alone, RequestOK, Active
<1>3. IsOn(l) <=> s.on = 1
  <2>1. 1..Len(<<>>) = {} /\ "on" \in FeaturesAt(l)
    BY Pieces, FeaturesByType
  <2> QED BY <1>2, <2>1 DEF Alone, LampOK, SeenOK, IsOn
<1>4. s.on \in {0, 1}
  BY <1>2, FeaturesByType DEF TypeInv, LampInv, Parsed, ValuesOf
<1>5. /\ DOMAIN b \cap NotFor(Type[l]) # {} => result = "unavailable"
      /\ DOMAIN b \cap NotFor(Type[l]) = {} =>
            result = IF s.on # 1 /\ ~TurnsOn(b) /\ DOMAIN b \cap Settings # {}
                     THEN "off" ELSE "success"
  BY <1>2, <1>4, Results
<1>6. CASE DOMAIN b \cap NotFor(Type[l]) # {} /\ Reply(r, "unavailable")
  BY <1>1, <1>2, <1>5, <1>6, Refuses
<1>9. l \in present
  BY FoundAlone
<1>7. CASE DOMAIN b \cap NotFor(Type[l]) = {} /\ Refused(l, b) /\ Reply(r, "off")
  <2>1. result = "off"
    <3> HIDE DEF b, result
    <3> QED BY <1>3, <1>5, <1>7 DEF Refused
  <2> QED BY <1>1, <1>2, <1>7, <2>1, Refuses
<1>8. CASE UNCHANGED <<req, answer>>
  <2>1. \A k \in Light : Final(k)' = Final(k)
    BY <1>1 DEF Final, lamps
  <2> QED BY <1>8, <2>1, Unseen DEF SameView
<1> QED BY <1>6, <1>7, <1>8, <1>9 DEF Check

(* What is sent and read is not seen before the answer.                    *)
LEMMA StepsUnseen ==
    ASSUME Alone, Inv, TypeInv, Mapped, Mapped', NEW r \in Request,
           ReadFeature(r) \/ SetFeature(r)
    PROVE  UNCHANGED Promise!lampVars
<1> DEFINE l == req[r].light
<1>1. /\ pc[r] = "apply" /\ todo[r] # <<>> /\ l \in Light /\ todo[r] \in Seq(StepsAt(l))
  BY WholeSteps DEF ReadFeature, SetFeature
<1>2. CASE ReadFeature(r)
  <2>1. seen[l][Head(todo[r]).feature] # Garbage
    BY <1>1, WholeSteps DEF Alone, TypeInv, CleanInv, Clean, LampInv
  <2>2. UNCHANGED <<req, answer>> /\ UNCHANGED lamps
    BY <1>2, <2>1 DEF ReadFeature
  <2>3. \A k \in Light : Final(k)' = Final(k)
    BY <2>2 DEF Final, lamps
  <2> QED BY <2>2, <2>3, Unseen DEF SameView
<1>3. CASE SetFeature(r)
  <2>1. UNCHANGED <<req, answer>>
    BY <1>3 DEF SetFeature
  <2>2. \A k \in Light : k # l => Final(k)' = Final(k)
    <3> SUFFICES ASSUME NEW k \in Light, k # l PROVE Final(k)' = Final(k)
      OBVIOUS
    <3>1. lamp' = lamp /\ queue'[k] = queue[k]
      BY <1>3 DEF SetFeature, Inv, Shape
    <3> QED BY <3>1 DEF Final
  <2> QED BY <2>1, <2>2, Unseen DEF SameView
<1> QED BY <1>2, <1>3

(* When the last Set is sent, the lamp will be as it was asked to be.      *)
LEMMA DoneKeepsPromise ==
    ASSUME Alone, Inv, TypeInv, Mapped, Mapped', NEW r \in Request, Done(r)
    PROVE  [Promise!Next]_(Promise!lampVars)
<1>1. pc[r] = "apply" /\ todo[r] = <<>> /\ Reply(r, "success") /\ UNCHANGED lamps
  BY DEF Done
<1> SUFFICES ASSUME NEW l \in Light, req[r].light = l
             PROVE  [Promise!Next]_(Promise!lampVars)
  BY <1>1 DEF TypeInv, HandlerInv
<1> DEFINE a == req[r].asked
           s == req[r].found
<1>2. /\ Promise!Answer(l, "success") /\ Lamps[l] = s
      /\ Asked[l] = [path |-> req[r].path, body |-> a]
      /\ Lamps' = [Lamps EXCEPT ![l] = Final(l)]
  BY <1>1, ReplyAnswers
<1>3. /\ ApplyOK(r) /\ req[r].path \in {"light", "group"}
      /\ req[r].path = "group" => l \notin Hidden
  BY <1>1 DEF Alone, RequestOK, Active
<1>4. Final(l) = Promise!Effect(s, a)
  <2>1. SetsIn(<<>>) = {}
    <3>1. 1..Len(<<>>) = {}
      BY Pieces
    <3> QED BY <3>1 DEF SetsIn
  <2>2. s = [f \in FeaturesAt(l) |-> s[f]] /\ \A f \in FeaturesAt(l) : Final(l)[f] = Goal(r)[f]
    BY <1>1, <1>3, <2>1 DEF ApplyOK
  <2>3. DOMAIN s = FeaturesAt(l)
    BY <2>2
  <2>4. Final(l) = [f \in FeaturesAt(l) |-> Final(l)[f]]
    BY DEF Alone, LampOK
  <2> DEFINE goal == Goal(r)
  <2>5. goal = [f \in FeaturesAt(l) |-> goal[f]]
    <3> DEFINE e(f) == CASE f = "on"               -> IF Promise!Has(a, "on") THEN IF a["on"] THEN 1 ELSE 0
                                                                              ELSE s.on
                         [] f = "brightness"       -> Promise!Level(a, s.brightness)
                         [] f = "colorTemperature" -> Promise!Mired(a, s.colorTemperature)
                         [] f = "hue"              -> Promise!HS(a, <<s.hue, s.saturation>>)[1]
                         [] f = "saturation"       -> Promise!HS(a, <<s.hue, s.saturation>>)[2]
    <3>1. goal = [f \in DOMAIN s |-> e(f)]
      BY DEF Goal, Promise!Effect
    <3> HIDE DEF e, goal
    <3> QED BY <2>3, <3>1
  <2> HIDE DEF goal
  <2>6. Final(l) = goal
    BY <2>2, <2>4, <2>5 DEF goal
  <2> QED BY <2>6 DEF goal, Goal
<1>5. Promise!Command(l)
  <2>1. Promise!Result(Type[l], Lamps[l], Asked[l].body) = "success"
    BY <1>2, <1>3 DEF ApplyOK
  <2>2. Promise!Reachable(l)
    BY <1>2, <1>3 DEF Promise!Reachable
  <2>3. Lamps' = [Lamps EXCEPT ![l] = Promise!Effect(Lamps[l], Asked[l].body)]
    BY <1>2, <1>4
  <2> QED BY <1>2, <2>1, <2>2, <2>3 DEF Promise!Command, Promise!Answer
<1> QED BY <1>5, LampStep

(* When clients leave a lamp alone until it has settled and the lamps do   *)
(* nothing unasked, PUT .../state implements Lamp: each request has the    *)
(* effect its body asks for, as a whole, or none, and the answer says      *)
(* which, for any lamps, bodies, conversions and number of requests.       *)
THEOREM PromiseIsKept ==
    ASSUME OneAtATime, WholeBodies, MaxGlitches = 0
    PROVE  Spec => KeepsPromise
<1>1. Init => Promise!Init
  <2> SUFFICES ASSUME Init PROVE Promise!Init
    OBVIOUS
  <2>1. Alone /\ Mapped
    BY InitAlone, AloneMapped
  <2>2. /\ lamp \in AsFound /\ \A l \in Light : queue[l] = <<>>
        /\ \A r \in Request : req[r].light = Unknown
        /\ \A l \in Light : answer[l].code = "none"
        /\ Unknown \notin Light
    BY LightAssumption DEF Init, NoRequest
  <2>3. \A l \in Light : Lamps[l] = lamp[l] /\ Asked[l] = Promise!NoneAsked
    <3> SUFFICES ASSUME NEW l \in Light PROVE Lamps[l] = lamp[l] /\ Asked[l] = Promise!NoneAsked
      OBVIOUS
    <3>1. Lamps[l] = Final(l) /\ Asked[l] = Promise!NoneAsked
      BY <2>1, <2>2 DEF Mapped
    <3> QED BY <2>2, <3>1, FoldEmpty DEF Final
  <2>4. lamp = [l \in Light |-> lamp[l]]
    BY <2>2, ValueAssumption
  <2>5. Lamps = lamp /\ Asked = [l \in Light |-> Promise!NoneAsked]
    BY <2>3, <2>4, MappedShape
  <2>6. Codes = [l \in Light |-> "none"]
    BY <2>2 DEF Codes
  <2> QED BY <2>2, <2>5, <2>6 DEF Promise!Init, Codes
<1>2. Alone /\ Inv /\ TypeInv /\ [Next]_vars => [Promise!Next]_(Promise!lampVars)
  <2> SUFFICES ASSUME Alone, Inv, TypeInv, [Next]_vars
               PROVE  [Promise!Next]_(Promise!lampVars)
    OBVIOUS
  <2>1. Alone' /\ Mapped /\ Mapped'
    BY NextAlone, AloneMapped, NextMapped
  <2>2. ASSUME NEW r \in Request, Handle(r) PROVE [Promise!Next]_(Promise!lampVars)
    BY <2>1, <2>2, FindLightKeepsPromise, FindAgainKeepsPromise, CheckKeepsPromise, StepsUnseen,
       DoneKeepsPromise, NoPanic DEF Handle
  <2>3. ASSUME NEW r \in Request, NEW path \in {"light", "group"}, NEW l \in Light \cup {Unknown},
               NEW b \in Body, Put(r, path, l, b)
        PROVE  [Promise!Next]_(Promise!lampVars)
    BY <2>1, <2>3, PutAsks
  <2>4. ASSUME NEW l \in Light, TakeSet(l) \/ Deliver(l) PROVE UNCHANGED Promise!lampVars
    BY <2>1, <2>4, LampsUnseen
  <2>5. \A l \in Light : ~Glitch(l)
    BY DEF Glitch, Alone
  <2>6. CASE UNCHANGED vars
    <3>1. UNCHANGED <<req, answer>> /\ UNCHANGED lamps
      BY <2>6 DEF vars
    <3>2. \A l \in Light : Final(l)' = Final(l)
      BY <3>1 DEF Final, lamps
    <3> QED BY <2>1, <3>1, <3>2, Unseen DEF SameView
  <2> QED BY <2>2, <2>3, <2>4, <2>5, <2>6 DEF Next
<1> QED BY <1>1, <1>2, AloneInvariance, LightInvariance, TypeInvariance, PTL
        DEF Spec, KeepsPromise, Promise!Spec
================================================================================
