-------------------------------- MODULE Prefetch --------------------------------
(***************************************************************************)
(* Start fetches the values of the lamps before it serves: a goroutine per *)
(* lamp and feature, joined by a WaitGroup.  The goroutines get the        *)
(* feature as an argument but share the variable of the loop over lamps    *)
(* (go.mod says go 1.12: one variable for all iterations).                 *)
(***************************************************************************)
EXTENDS Naturals, Sequences

CONSTANTS Device,    \* the lamps
          devs,      \* the slice DeviceByType("lightbulb") returned
          fts,       \* the names of the features, in the order of the code
          Features   \* the features each lamp has

ASSUME PrefetchAssumption ==
    /\ devs \in Seq(Device)
    /\ fts \in Seq(STRING) /\ \A j, k \in 1..Len(fts) : fts[j] = fts[k] => j = k

VARIABLES main,      \* Start: "loop", "wait" or "serve"
          dev,       \* the lamp the loop is at, as an index of devs
          at,        \* the feature the inner loop is at
          wg,        \* the counter of the WaitGroup
          pc,        \* what the goroutine of an iteration and a feature does next
          fetched    \* the lamps and features whose value was asked for

vars == <<main, dev, at, wg, pc, fetched>>

Goroutine == (1..Len(devs)) \X {fts[k] : k \in 1..Len(fts)}

Init == /\ main = "loop" /\ dev = 0 /\ at = Len(fts) + 1
        /\ wg = 0 /\ fetched = {}
        /\ pc = [g \in Goroutine |-> "none"]

(* The range clause moves on.                                              *)
NextDevice == /\ main = "loop" /\ at > Len(fts) /\ dev < Len(devs)
              /\ dev' = dev + 1 /\ at' = 1
              /\ UNCHANGED <<main, wg, pc, fetched>>

(* Mutant of Spawn: the counter is left to the goroutine.                  *)
SpawnUncounted == /\ main = "loop" /\ at <= Len(fts)
                  /\ pc' = [pc EXCEPT ![<<dev, fts[at]>>] = "exists"]
                  /\ at' = at + 1
                  /\ UNCHANGED <<main, dev, wg, fetched>>

Spawn == /\ main = "loop" /\ at <= Len(fts)
         /\ wg' = wg + 1
         /\ pc' = [pc EXCEPT ![<<dev, fts[at]>>] = "exists"]
         /\ at' = at + 1
         /\ UNCHANGED <<main, dev, fetched>>

EndLoop == /\ main = "loop" /\ at > Len(fts) /\ dev = Len(devs)
           /\ main' = "wait"
           /\ UNCHANGED <<dev, at, wg, pc, fetched>>

Done(g) == pc' = [pc EXCEPT ![g] = "done"] /\ wg' = wg - 1

(* Mutant of Exists: Done is called where the value is fetched only.       *)
ExistsNotDone(g) ==
    /\ pc[g] = "exists"
    /\ \/ g[2] \notin Features[devs[dev]] /\ pc' = [pc EXCEPT ![g] = "done"] /\ UNCHANGED wg
       \/ g[2] \in Features[devs[dev]] /\ pc' = [pc EXCEPT ![g] = "value"] /\ UNCHANGED wg
    /\ UNCHANGED <<main, dev, at, fetched>>

(* dev is whatever lamp the loop is at by now ...                          *)
Exists(g) ==
    /\ pc[g] = "exists"
    /\ \/ g[2] \notin Features[devs[dev]] /\ Done(g)
       \/ g[2] \in Features[devs[dev]] /\ pc' = [pc EXCEPT ![g] = "value"] /\ UNCHANGED wg
    /\ UNCHANGED <<main, dev, at, fetched>>

(* ... and may be another one still when its value is asked for.           *)
Value(g) ==
    /\ pc[g] = "value"
    /\ fetched' = fetched \cup {<<devs[dev], g[2]>>}
    /\ Done(g)
    /\ UNCHANGED <<main, dev, at>>

(* Mutant of Wait: it waits for the first goroutine to finish.             *)
WaitForOne == /\ main = "wait" /\ wg < Len(devs) * Len(fts)
              /\ main' = "serve"
              /\ UNCHANGED <<dev, at, wg, pc, fetched>>

Wait == /\ main = "wait" /\ wg = 0
        /\ main' = "serve"
        /\ UNCHANGED <<dev, at, wg, pc, fetched>>

Main == NextDevice \/ Spawn \/ EndLoop \/ Wait

Next == Main \/ \E g \in Goroutine : Exists(g) \/ Value(g)

Spec == Init /\ [][Next]_vars

(* The scheduler runs every goroutine (and Value returns).                 *)
FairSpec == /\ Spec /\ WF_vars(Main)
            /\ \A g \in Goroutine : WF_vars(Exists(g) \/ Value(g))

------------------------------------------------------------------------------
(* Properties                                                              *)

(* The bridge serves requests only after every goroutine has finished.     *)
NoneLeftBehind == main = "serve" => \A g \in Goroutine : pc[g] = "done"

(* Whatever the order of the goroutines, the last lamp is fetched as a     *)
(* whole: who is started for it can see no other.                          *)
LastIsFetched ==
    main = "serve" /\ devs # <<>> =>
        {devs[Len(devs)]} \X (Features[devs[Len(devs)]] \cap {fts[k] : k \in 1..Len(fts)})
            \subseteq fetched

(* Start gets past the wait.                                               *)
Serves == <>(main = "serve")

(* "done fetching device data": every feature of every lamp was asked for. *)
AllFetched ==
    main = "serve" =>
        \A i \in 1..Len(devs), k \in 1..Len(fts) :
            fts[k] \in Features[devs[i]] => <<devs[i], fts[k]>> \in fetched
================================================================================
