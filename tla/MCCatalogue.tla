------------------------------- MODULE MCCatalogue -------------------------------
(* A lamp that can be seen, of two kinds, and a hidden one.                *)
EXTENDS Catalogue, TLC

CONSTANTS r1, r2, bulb, spot, rpi

MCRequest == {r1, r2}
MCLight == {bulb, spot, rpi}
MCHidden == {rpi}
MCFeatures == (bulb :> {"on", "brightness"}) @@ (rpi :> {"on", "brightness"})
                  @@ (spot :> {"on", "brightness", "colorTemperature"})
MCValue == {1, 2, Garbage}
MCOp == {[kind |-> k, id |-> None] : k \in {"lights", "groups", "all", "capabilities"}}
            \cup {[kind |-> "light", id |-> rpi], [kind |-> "group", id |-> spot]}
Found(there, broken) == [known |-> there, value |->
    [l \in MCLight |-> [f \in MCFeatures[l] |->
        IF l \in broken /\ f = "brightness" THEN Garbage ELSE 1]]]
MCAsFound == {Found(MCLight, {}), Found(MCLight, {spot}), Found({spot, rpi}, {})}
Symmetry == Permutations(MCRequest)
================================================================================
