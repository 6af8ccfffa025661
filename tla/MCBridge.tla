-------------------------------- MODULE MCBridge --------------------------------
(* Two handlers at a time, each on either server, and one user.            *)
EXTENDS Bridge

CONSTANTS r1, r2, u1

MCRequest == {r1, r2}
MCUser == {u1}
================================================================================
