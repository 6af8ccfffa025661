----------------------------- MODULE PrefetchProofs -----------------------------
(***************************************************************************)
(* The counter of the WaitGroup is the number of goroutines under way, so  *)
(* that Start waits for all of them, for any lamps and features; and those *)
(* started for the last lamp see no other.                                 *)
(***************************************************************************)
EXTENDS Prefetch, FiniteSets, FiniteSetTheorems, TLAPS

Last == Len(devs)
Pending == {g \in Goroutine : pc[g] \in {"exists", "value"}}

(* Where the two loops are                                                 *)
LoopInv == /\ main \in {"loop", "wait", "serve"}
           /\ dev \in 0..Last /\ at \in 1..Len(fts) + 1
           /\ dev = 0 => at = Len(fts) + 1
           /\ main # "loop" => dev = Last /\ at = Len(fts) + 1
           /\ pc \in [Goroutine -> {"none", "exists", "value", "done"}]

(* The goroutines of the iterations so far are there, and no others.       *)
SpawnInv == \A i \in 1..Last, k \in 1..Len(fts) :
    pc[<<i, fts[k]>>] # "none" <=> i < dev \/ (i = dev /\ k < at)

(* The counter is the number of those that are under way.                  *)
CountInv == /\ IsFiniteSet(Pending) /\ wg = Cardinality(Pending)
            /\ main = "serve" => Pending = {}

(* What the goroutines of the last iteration have fetched                  *)
LastInv == \A k \in 1..Len(fts) :
    Last > 0 /\ pc[<<Last, fts[k]>>] = "done" /\ fts[k] \in Features[devs[Last]]
        => <<devs[Last], fts[k]>> \in fetched

Inv == LoopInv /\ SpawnInv /\ CountInv /\ LastInv

(* The lengths are numbers.                                                *)
LEMMA Lengths == Last \in Nat /\ Len(fts) \in Nat
BY PrefetchAssumption DEF Last

(* Goroutines are told apart by their iteration and their feature.         *)
LEMMA Distinct ==
    ASSUME NEW i \in 1..Last, NEW k \in 1..Len(fts), NEW j \in 1..Last, NEW m \in 1..Len(fts),
           <<i, fts[k]>> = <<j, fts[m]>>
    PROVE  i = j /\ k = m
BY PrefetchAssumption

(* At first there are none.                                                *)
LEMMA InitInv == Init => Inv
<1> SUFFICES ASSUME Init PROVE Inv
  OBVIOUS
<1>1. LoopInv
  BY Lengths DEF Init, LoopInv
<1>2. SpawnInv
  BY Lengths DEF Init, SpawnInv, Goroutine, Last
<1>3. CountInv
  <2>1. Pending = {}
    BY DEF Init, Pending
  <2> QED BY <2>1, FS_EmptySet DEF Init, CountInv
<1>4. LastInv
  BY Lengths DEF Init, LastInv, Goroutine, Last
<1> QED BY <1>1, <1>2, <1>3, <1>4 DEF Inv

(* The range clause takes the next lamp.                                   *)
LEMMA NextDeviceKeeps == Inv /\ NextDevice => Inv'
<1> SUFFICES ASSUME Inv, NextDevice PROVE Inv'
  OBVIOUS
<1>1. /\ dev \in 0..Last /\ dev < Last /\ at = Len(fts) + 1 /\ dev' = dev + 1 /\ at' = 1
      /\ main = "loop" /\ UNCHANGED <<main, wg, pc, fetched>>
  BY Lengths DEF NextDevice, Inv, LoopInv, Last
<1>2. LoopInv'
  BY <1>1, Lengths DEF Inv, LoopInv, Last, Goroutine
<1>3. SpawnInv'
  BY <1>1, Lengths DEF Inv, SpawnInv, Last
<1>4. CountInv' /\ LastInv'
  BY <1>1 DEF Inv, CountInv, LastInv, Pending, Goroutine, Last
<1> QED BY <1>2, <1>3, <1>4 DEF Inv

(* A goroutine is added and counted at once.                               *)
LEMMA SpawnKeeps == Inv /\ Spawn => Inv'
<1> SUFFICES ASSUME Inv, Spawn PROVE Inv'
  OBVIOUS
<1> DEFINE g == <<dev, fts[at]>>
<1>1. /\ dev \in 1..Last /\ at \in 1..Len(fts) /\ main = "loop"
      /\ wg' = wg + 1 /\ at' = at + 1 /\ UNCHANGED <<main, dev, fetched>>
      /\ pc' = [pc EXCEPT ![g] = "exists"]
  BY Lengths DEF Spawn, Inv, LoopInv
<1>2. g \in Goroutine /\ pc[g] = "none"
  BY <1>1, Lengths DEF Inv, SpawnInv, Goroutine, Last
<1>3. LoopInv'
  BY <1>1, <1>2, Lengths DEF Inv, LoopInv, Last, Goroutine
<1>4. SpawnInv'
  <2> SUFFICES ASSUME NEW i \in 1..Last, NEW k \in 1..Len(fts)
               PROVE  pc'[<<i, fts[k]>>] # "none" <=> i < dev \/ (i = dev /\ k < at + 1)
    BY <1>1 DEF SpawnInv, Last
  <2>1. <<i, fts[k]>> \in Goroutine
    BY DEF Goroutine, Last
  <2>2. CASE i = dev /\ k = at
    BY <1>1, <1>2, <2>2, Lengths DEF Inv, LoopInv
  <2>3. CASE ~(i = dev /\ k = at)
    <3>1. <<i, fts[k]>> # g
      BY <1>1, <2>3, Distinct
    <3>2. pc'[<<i, fts[k]>>] = pc[<<i, fts[k]>>]
      BY <1>1, <2>1, <3>1 DEF Inv, LoopInv
    <3> QED BY <1>1, <2>3, <3>2, Lengths DEF Inv, SpawnInv
  <2> QED BY <2>2, <2>3
<1>5. CountInv'
  <2>1. Pending' = Pending \cup {g} /\ g \notin Pending
    BY <1>1, <1>2 DEF Inv, LoopInv, Pending, Goroutine
  <2>2. IsFiniteSet(Pending)
    BY DEF Inv, CountInv
  <2> QED BY <1>1, <2>1, <2>2, FS_AddElement DEF Inv, CountInv
<1>6. LastInv'
  <2> SUFFICES ASSUME NEW k \in 1..Len(fts), Last > 0, pc'[<<Last, fts[k]>>] = "done",
                      fts[k] \in Features[devs[Last]]
               PROVE  <<devs[Last], fts[k]>> \in fetched
    BY <1>1 DEF LastInv, Last
  <2>1. <<Last, fts[k]>> \in Goroutine
    BY Lengths DEF Goroutine, Last
  <2>2. pc[<<Last, fts[k]>>] = "done"
    BY <1>1, <2>1 DEF Inv, LoopInv
  <2> QED BY <2>2 DEF Inv, LastInv
<1> QED BY <1>3, <1>4, <1>5, <1>6 DEF Inv

(* Start waits, and gets on when the counter is 0.                         *)
LEMMA WaitingKeeps == Inv /\ (EndLoop \/ Wait) => Inv'
<1> SUFFICES ASSUME Inv, EndLoop \/ Wait PROVE Inv'
  OBVIOUS
<1>1. UNCHANGED <<dev, at, wg, pc, fetched>>
  BY DEF EndLoop, Wait
<1>2. LoopInv'
  BY <1>1, Lengths DEF EndLoop, Wait, Inv, LoopInv, Last, Goroutine
<1>3. SpawnInv' /\ LastInv'
  BY <1>1 DEF Inv, SpawnInv, LastInv, Last
<1>4. CountInv'
  <2>1. Pending' = Pending
    BY <1>1 DEF Pending, Goroutine
  <2>2. CASE EndLoop
    BY <1>1, <2>1, <2>2 DEF EndLoop, Inv, CountInv
  <2>3. CASE Wait
    BY <1>1, <2>1, <2>3, FS_EmptySet DEF Wait, Inv, CountInv
  <2> QED BY <2>2, <2>3
<1> QED BY <1>2, <1>3, <1>4 DEF Inv

(* A goroutine under way was started in an iteration that has begun, and   *)
(* one of the last iteration still sees the last lamp.                     *)
LEMMA Started ==
    ASSUME Inv, NEW g \in Pending
    PROVE  /\ g \in Goroutine /\ pc[g] \in {"exists", "value"}
           /\ \E k \in 1..Len(fts) : g[2] = fts[k]
           /\ g[1] = Last => dev = Last
<1>1. PICK i \in 1..Last, k \in 1..Len(fts) : g = <<i, fts[k]>>
  BY DEF Pending, Goroutine, Last
<1>2. pc[g] # "none"
  BY DEF Pending
<1>3. i < dev \/ (i = dev /\ k < at)
  BY <1>1, <1>2 DEF Inv, SpawnInv
<1> QED BY <1>1, <1>3, Lengths DEF Pending, Inv, LoopInv

(* A goroutine ends and is no longer counted, or goes on to fetch.         *)
LEMMA GoroutineKeeps ==
    ASSUME Inv, NEW g \in Goroutine, Exists(g) \/ Value(g) PROVE Inv'
<1>1. g \in Pending /\ UNCHANGED <<main, dev, at>>
  BY DEF Exists, Value, Pending
<1>2. /\ pc \in [Goroutine -> {"none", "exists", "value", "done"}]
      /\ \/ pc' = [pc EXCEPT ![g] = "value"] /\ wg' = wg
         \/ pc' = [pc EXCEPT ![g] = "done"] /\ wg' = wg - 1
  BY DEF Exists, Value, Done, Inv, LoopInv
<1>3. LoopInv'
  BY <1>1, <1>2 DEF Inv, LoopInv, Last, Goroutine
<1>4. SpawnInv'
  <2>1. \A h \in Goroutine : pc'[h] # "none" <=> pc[h] # "none"
    BY <1>1, <1>2 DEF Pending
  <2>2. \A i \in 1..Last, k \in 1..Len(fts) : <<i, fts[k]>> \in Goroutine
    BY DEF Goroutine, Last
  <2> QED BY <1>1, <2>1, <2>2 DEF Inv, SpawnInv, Last
<1>5. CountInv'
  <2>1. IsFiniteSet(Pending) /\ main # "serve" /\ wg = Cardinality(Pending)
    BY <1>1 DEF Inv, CountInv
  <2>2. CASE pc' = [pc EXCEPT ![g] = "value"] /\ wg' = wg
    <3>1. Pending' = Pending
      BY <1>1, <1>2, <2>2 DEF Pending, Goroutine
    <3> QED BY <1>1, <2>1, <2>2, <3>1 DEF CountInv
  <2>3. CASE pc' = [pc EXCEPT ![g] = "done"] /\ wg' = wg - 1
    <3>1. Pending' = Pending \ {g}
      BY <1>1, <1>2, <2>3 DEF Pending, Goroutine
    <3> QED BY <1>1, <2>1, <2>3, <3>1, FS_RemoveElement DEF CountInv
  <2> QED BY <1>2, <2>2, <2>3
<1>6. LastInv'
  <2> SUFFICES ASSUME NEW k \in 1..Len(fts), Last > 0, pc'[<<Last, fts[k]>>] = "done",
                      fts[k] \in Features[devs[Last]]
               PROVE  <<devs[Last], fts[k]>> \in fetched'
    BY DEF LastInv, Last
  <2>1. <<Last, fts[k]>> \in Goroutine
    BY Lengths DEF Goroutine, Last
  <2>2. CASE pc[<<Last, fts[k]>>] = "done"
    <3>1. <<devs[Last], fts[k]>> \in fetched
      BY <2>2 DEF Inv, LastInv
    <3> QED BY <3>1 DEF Exists, Value
  <2>3. CASE pc[<<Last, fts[k]>>] # "done"
    <3>1. g = <<Last, fts[k]>>
      BY <1>2, <2>1, <2>3
    <3>2. dev = Last /\ g[2] = fts[k]
      BY <1>1, <3>1, Started
    <3>3. CASE Exists(g)
      BY <2>1, <3>1, <3>2, <3>3, <1>2 DEF Exists, Done
    <3>4. CASE Value(g)
      BY <3>2, <3>4 DEF Value
    <3> QED BY <3>3, <3>4
  <2> QED BY <2>2, <2>3
<1> QED BY <1>3, <1>4, <1>5, <1>6 DEF Inv

(* Inv is an invariant of the loop and its goroutines.                     *)
THEOREM PrefetchInvariance == Spec => []Inv
<1>1. Inv /\ [Next]_vars => Inv'
  <2> SUFFICES ASSUME Inv, [Next]_vars PROVE Inv'
    OBVIOUS
  <2>1. CASE NextDevice
    BY <2>1, NextDeviceKeeps
  <2>2. CASE Spawn
    BY <2>2, SpawnKeeps
  <2>3. CASE EndLoop \/ Wait
    BY <2>3, WaitingKeeps
  <2>4. ASSUME NEW g \in Goroutine, Exists(g) \/ Value(g) PROVE Inv'
    BY <2>4, GoroutineKeeps
  <2>5. CASE UNCHANGED vars
    BY <2>5 DEF vars, Inv, LoopInv, SpawnInv, CountInv, LastInv, Pending, Goroutine, Last
  <2> QED BY <2>1, <2>2, <2>3, <2>4, <2>5 DEF Next, Main
<1> QED BY <1>1, InitInv, PTL DEF Spec

(* Start serves only when all goroutines have finished, however many lamps *)
(* and features there are.                                                 *)
THEOREM AllJoined == Spec => []NoneLeftBehind
<1>1. Inv => NoneLeftBehind
  <2> SUFFICES ASSUME Inv, main = "serve", NEW g \in Goroutine PROVE pc[g] = "done"
    BY DEF NoneLeftBehind
  <2>1. PICK i \in 1..Last, k \in 1..Len(fts) : g = <<i, fts[k]>>
    BY DEF Goroutine, Last
  <2>2. pc[g] # "none"
    BY <2>1, Lengths DEF Inv, LoopInv, SpawnInv
  <2>3. g \notin Pending
    BY DEF Inv, CountInv
  <2> QED BY <2>2, <2>3 DEF Pending, Inv, LoopInv
<1> QED BY <1>1, PrefetchInvariance, PTL

(* The last lamp is fetched as a whole, although the goroutines share the  *)
(* variable of the loop: no iteration comes after it.                      *)
THEOREM LastHolds == Spec => []LastIsFetched
<1>1. Inv => LastIsFetched
  <2> SUFFICES ASSUME Inv, main = "serve", devs # <<>>,
                      NEW k \in 1..Len(fts), fts[k] \in Features[devs[Last]]
               PROVE  <<devs[Last], fts[k]>> \in fetched
    BY DEF LastIsFetched, Last
  <2>1. Last > 0 /\ Last \in 1..Last
    BY PrefetchAssumption, Lengths DEF Last
  <2>2. <<Last, fts[k]>> \in Goroutine
    BY <2>1 DEF Goroutine, Last
  <2>3. pc[<<Last, fts[k]>>] # "none"
    BY <2>1, Lengths DEF Inv, LoopInv, SpawnInv
  <2>4. <<Last, fts[k]>> \notin Pending
    BY DEF Inv, CountInv
  <2>5. pc[<<Last, fts[k]>>] = "done"
    BY <2>2, <2>3, <2>4 DEF Pending, Inv, LoopInv
  <2> QED BY <2>1, <2>5 DEF Inv, LastInv
<1> QED BY <1>1, PrefetchInvariance, PTL
================================================================================
