------------------------------- MODULE UserStore -------------------------------
(***************************************************************************)
(* What the whitelist of the bridge promises to the users: a set that      *)
(* registrations and deletions change one user at a time, and what of it   *)
(* is kept outside the process.  A change that is answered with an error   *)
(* takes effect all the same, but is kept only with the next one that      *)
(* succeeds; until then a stop of the bridge undoes it.  Keeping the users *)
(* first gives up what was kept: when that goes wrong half-way, or the     *)
(* bridge stops there, nothing is kept, and the bridge does not come up.   *)
(* It never comes up with a part of the users.                             *)
(***************************************************************************)
CONSTANT User       \* the user names there can be

VARIABLES durable,  \* whether the users are kept outside the process at all
          users,    \* the users in effect, while the bridge is up
          kept,     \* the users a bridge that is started begins with
          intact,   \* FALSE while the users that were kept are given up
          online    \* whether the bridge is serving requests

storeVars == <<durable, users, kept, intact, online>>

Init == /\ durable \in BOOLEAN
        /\ users = {} /\ kept \in SUBSET User
        /\ ~durable => kept = {}
        /\ intact = TRUE /\ online = FALSE

Boot == /\ ~online /\ intact
        /\ online' = TRUE /\ users' = kept
        /\ UNCHANGED <<durable, kept, intact>>

Change(u) == /\ online
             /\ users' \in {users \cup {u}, users \ {u}}
             /\ UNCHANGED <<durable, online>>

(* The users are kept as they are now, with what failed before.            *)
Succeed(u) == /\ Change(u)
              /\ kept' = IF durable THEN users' ELSE {}
              /\ intact' = TRUE

Fail(u) == Change(u) /\ durable /\ UNCHANGED <<kept, intact>>

GiveUp == /\ online /\ durable
          /\ kept' = {} /\ intact' = FALSE
          /\ UNCHANGED <<durable, users, online>>

Halt == /\ online
        /\ online' = FALSE /\ users' = {}
        /\ UNCHANGED <<durable, kept, intact>>

Next == \/ Boot \/ GiveUp \/ Halt
        \/ \E u \in User : Succeed(u) \/ Fail(u)

Spec == Init /\ [][Next]_storeVars
================================================================================
