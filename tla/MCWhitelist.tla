------------------------------ MODULE MCWhitelist ------------------------------
(* Small instances of the whitelist for TLC.                               *)
EXTENDS Whitelist, TLC

CONSTANTS r1, r2, u1, u2

Requests2 == {r1, r2}
Users2 == {u1, u2}

(* Requests are interchangeable, and so are the names uuid.New draws.      *)
Symmetry2 == Permutations(Requests2) \cup Permutations(Users2)
================================================================================
