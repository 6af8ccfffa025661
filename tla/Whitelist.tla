------------------------------- MODULE Whitelist -------------------------------
(***************************************************************************)
(* The whitelist of the bridge: the registered users, held in a Go map     *)
(* that s.config.Whitelist points to, guarded by the RWMutex of the        *)
(* configuration, mirrored in a JSON file, and read by the authentication  *)
(* middleware and by the handlers that render the configuration.           *)
(*                                                                         *)
(* A request is a goroutine of net/http; its steps interleave with those   *)
(* of the others wherever the code holds no lock.                          *)
(***************************************************************************)
CONSTANTS Request,       \* the handler goroutines there can be at a time
          User,          \* the user names (UUIDs) uuid.New can return
          Nobody,        \* a user name that is never registered
          Free,          \* the lock when no writer holds it
          AuthDisabled   \* the option DisableAuthentication

ASSUME WhitelistAssumption ==
    /\ Nobody \notin User
    /\ Free \notin Request
    /\ AuthDisabled \in BOOLEAN

VARIABLES status,     \* the process: "down", "up" or "refused" (Start failed)
          whitelist,  \* keys of the map s.config.Whitelist points to
          lock,       \* the writer that holds s.config.Lock, or Free
          file,       \* whitelist.json: "absent", "whole", "torn", or "none"
                      \* when no path is configured
          saved,      \* keys in whitelist.json when it is whole, else {}
          pc,         \* what each request does next
          req         \* what each request asks for

(* What the clients and the history know, for the properties only.         *)
VARIABLES known,      \* the user names that were ever in the map
          members,    \* users told they are registered, and that nobody
                      \* tried to delete since
          revoked,    \* users whose deletion was confirmed
          before,     \* the users as the writer found them, else {}
          loose       \* users whose registration or deletion was answered
                      \* with an error, until the next save that succeeds

code == <<status, whitelist, lock, file, saved, pc, req>>
clients == <<known, members, revoked, before, loose>>
disk == <<file, saved>>
vars == <<code, clients>>

(* Whether WhitelistConfigPath is set, which nothing changes               *)
Persistent == file # "none"

NoRequest == [op |-> "none", caller |-> Nobody, user |-> Nobody, gone |-> {}]

(* Where a request is between the Lock and the Unlock of a writer.         *)
Writing == {"mutate", "save", "write", "commit", "rollback"}
Steps == Writing \cup {"idle", "auth", "lock", "read", "lights", "groups", "render"}
Ops == {"none", "register", "delete", "config", "data"}

Requests == [op: Ops, caller: User \cup {Nobody}, user: User \cup {Nobody},
             gone: SUBSET User]

TypeOK ==
    /\ status \in {"down", "up", "refused"}
    /\ whitelist \subseteq User
    /\ lock \in Request \cup {Free}
    /\ file \in {"none", "absent", "whole", "torn"}
    /\ saved \subseteq User
    /\ pc \in [Request -> Steps]
    /\ req \in [Request -> Requests]
    /\ known \subseteq User /\ members \subseteq User /\ revoked \subseteq User
    /\ before \subseteq User /\ loose \subseteq User

(* The process has not started; the file is one an earlier run left.       *)
Init ==
    /\ status = "down" /\ whitelist = {} /\ lock = Free
    /\ file \in {"none", "absent", "whole"}
    /\ saved \in IF file = "whole" THEN SUBSET User ELSE {{}}
    /\ pc = [r \in Request |-> "idle"]
    /\ req = [r \in Request |-> NoRequest]
    /\ known = saved /\ members = saved
    /\ revoked = {} /\ before = {} /\ loose = {}

------------------------------------------------------------------------------
(* Requests come in.                                                       *)

Accept(r, op, caller, u, first) ==
    /\ status = "up" /\ pc[r] = "idle"
    /\ req' = [req EXCEPT ![r] = [op |-> op, caller |-> caller, user |-> u,
                                  gone |-> revoked]]
    /\ pc' = [pc EXCEPT ![r] = first]
    /\ UNCHANGED <<status, whitelist, lock, disk, clients>>

(* uuid.New returns a name it never returned before.                       *)
Fresh(u) == u \notin known /\ \A q \in Request : req[q].user # u

(* Mutant of Register: the entry is stored under no name of its own.       *)
RegisterUnnamed(r, u) == Fresh(u) /\ Accept(r, "register", Nobody, Nobody, "lock")

(* POST /api with a devicetype.  Without one, or with a body that is no    *)
(* JSON, the handler answers and changes nothing.                          *)
Register(r, u) == Fresh(u) /\ Accept(r, "register", Nobody, u, "lock")

(* DELETE /api/{userID}/config/whitelist/{deleteID}                        *)
Delete(r, caller, u) == Accept(r, "delete", caller, u, "auth")

(* GET /api/{userID}/config, and GET /api/{userID} for everything          *)
Get(r, op, caller) == Accept(r, op, caller, Nobody, "auth")

------------------------------------------------------------------------------
(* The handlers.                                                           *)

Goto(r, step) == pc' = [pc EXCEPT ![r] = step]

(* The handler returns: its goroutine is free for another request.         *)
Finish(r) == /\ Goto(r, "idle")
             /\ req' = [req EXCEPT ![r] = NoRequest]

(* Mutant of Authenticate: it trusts a name that was a user at any time.   *)
AuthenticateOnce(r) ==
    /\ pc[r] = "auth" /\ lock = Free
    /\ \/ /\ AuthDisabled \/ req[r].caller \in known
          /\ Goto(r, IF req[r].op = "delete" THEN "lock" ELSE "read")
          /\ UNCHANGED req
       \/ /\ ~AuthDisabled /\ req[r].caller \notin known
          /\ Finish(r)
    /\ UNCHANGED <<status, whitelist, lock, disk, clients>>

(* The middleware reads the map under RLock, which waits for the writer,   *)
(* and releases it before the handler runs.  A request for /config is let  *)
(* through to answer with the unauthenticated configuration; the others    *)
(* are answered "unauthorized user".                                       *)
Authenticate(r) ==
    /\ pc[r] = "auth" /\ lock = Free
    /\ \/ /\ AuthDisabled \/ req[r].caller \in whitelist
          /\ Goto(r, IF req[r].op = "delete" THEN "lock" ELSE "read")
          /\ UNCHANGED req
       \/ /\ ~AuthDisabled /\ req[r].caller \notin whitelist
          /\ Finish(r)
    /\ UNCHANGED <<status, whitelist, lock, disk, clients>>

Lock(r) ==
    /\ pc[r] = "lock" /\ lock = Free
    /\ lock' = r
    /\ Goto(r, "mutate")
    /\ UNCHANGED <<status, whitelist, disk, req, clients>>

(* wt is the live map itself, so readers that take no lock see the change  *)
(* before it is saved, and also when it never is.  So is oldwt:            *)
(* copier.Copy assigns a map to a map, and copies no entries.              *)
Mutate(r) ==
    /\ pc[r] = "mutate"
    /\ before' = whitelist
    /\ \/ /\ req[r].op = "register"
          /\ whitelist' = whitelist \cup {req[r].user}
          /\ known' = known \cup {req[r].user}
          /\ UNCHANGED members
       \/ /\ req[r].op = "delete"
          /\ whitelist' = whitelist \ {req[r].user}
          /\ members' = members \ {req[r].user}
          /\ UNCHANGED known
    /\ Goto(r, "save")
    /\ UNCHANGED <<status, lock, disk, req, revoked, loose>>

(* saveWhitelistToFile without a path                                      *)
SaveSkipped(r) ==
    /\ pc[r] = "save" /\ ~Persistent
    /\ Goto(r, "commit")
    /\ UNCHANGED <<status, whitelist, lock, disk, req, clients>>

(* Mutant of SaveOpen: the error of opening the file is not looked at.     *)
SaveOpenUnchecked(r) ==
    /\ pc[r] = "save" /\ Persistent
    /\ \/ /\ file' = "torn" /\ saved' = {}
          /\ Goto(r, "write")
       \/ Goto(r, "commit") /\ UNCHANGED disk
    /\ UNCHANGED <<status, whitelist, lock, req, clients>>

(* ioutil.WriteFile opens the file, which truncates it ...                 *)
SaveOpen(r) ==
    /\ pc[r] = "save" /\ Persistent
    /\ \/ /\ file' = "torn" /\ saved' = {}
          /\ Goto(r, "write")
       \/ Goto(r, "rollback") /\ UNCHANGED disk
    /\ UNCHANGED <<status, whitelist, lock, req, clients>>

(* Mutant of SaveWrite: what is written is the map as it was before.       *)
SaveWriteOld(r) ==
    /\ pc[r] = "write"
    /\ \/ /\ file' = "whole" /\ saved' = before
          /\ Goto(r, "commit")
       \/ Goto(r, "rollback") /\ UNCHANGED disk
    /\ UNCHANGED <<status, whitelist, lock, req, clients>>

(* ... and writes it, all of it or, on an error, a part.                   *)
SaveWrite(r) ==
    /\ pc[r] = "write"
    /\ \/ /\ file' = "whole" /\ saved' = whitelist
          /\ Goto(r, "commit")
       \/ Goto(r, "rollback") /\ UNCHANGED disk
    /\ UNCHANGED <<status, whitelist, lock, req, clients>>

(* s.config.Whitelist = &wt, the success reply and the deferred Unlock     *)
Commit(r) ==
    /\ pc[r] = "commit"
    /\ lock' = Free /\ before' = {} /\ loose' = {}
    /\ \/ /\ req[r].op = "register"
          /\ members' = members \cup {req[r].user}
          /\ UNCHANGED revoked
       \/ /\ req[r].op = "delete"
          /\ revoked' = revoked \cup {req[r].user}
          /\ UNCHANGED members
    /\ Finish(r)
    /\ UNCHANGED <<status, whitelist, disk, known>>

(* Mutant of Rollback: the error path returns without the Unlock.          *)
RollbackKeepsLock(r) ==
    /\ pc[r] = "rollback"
    /\ before' = {} /\ loose' = loose \cup {req[r].user}
    /\ Finish(r)
    /\ UNCHANGED <<status, whitelist, lock, disk, known, members, revoked>>

(* s.config.Whitelist = &oldwt, the error reply and the deferred Unlock.   *)
(* oldwt is the map that was changed, so the assignment takes nothing back *)
(* and whoever reads the map sees the change stay.                         *)
Rollback(r) ==
    /\ pc[r] = "rollback"
    /\ lock' = Free
    /\ before' = {} /\ loose' = loose \cup {req[r].user}
    /\ Finish(r)
    /\ UNCHANGED <<status, whitelist, disk, known, members, revoked>>

(* createAuthenticatedConfig keeps the pointer and takes no lock.  There   *)
(* is one map for as long as the process runs, so the pointer is always to *)
(* the map as it is.                                                       *)
ReadPointer(r) ==
    /\ pc[r] = "read"
    /\ Goto(r, IF req[r].op = "data" THEN "lights" ELSE "render")
    /\ UNCHANGED <<status, whitelist, lock, disk, req, clients>>

(* getConfigAndData lists the lights twice, once more for the groups; each *)
(* listing takes the lock for a moment to set config.lights.               *)
CountLights(r) ==
    /\ lock = Free
    /\ \/ pc[r] = "lights" /\ Goto(r, "groups")
       \/ pc[r] = "groups" /\ Goto(r, "render")
    /\ UNCHANGED <<status, whitelist, lock, disk, req, clients>>

(* The JSON encoder walks the map, still without a lock.                   *)
Render(r) ==
    /\ pc[r] = "render"
    /\ Finish(r)
    /\ UNCHANGED <<status, whitelist, lock, disk, clients>>

------------------------------------------------------------------------------
(* The process.                                                            *)

(* The process ends: killed, stopped by a signal (handlers still running   *)
(* when the deadline of Shutdown passes are cut off), or thrown out by the *)
(* Go runtime when Mutate meets an encoder that walks the same map.        *)
Die ==
    /\ status = "up"
    /\ status' = "down" /\ whitelist' = {} /\ lock' = Free
    /\ pc' = [r \in Request |-> "idle"]
    /\ req' = [r \in Request |-> NoRequest]
    /\ members' = IF Persistent THEN members ELSE {}
    /\ before' = {} /\ loose' = {}
    /\ UNCHANGED <<disk, known, revoked>>

(* Mutants of Start: the file is not loaded ...                            *)
StartEmpty ==
    /\ status # "up" /\ file # "torn"
    /\ status' = "up" /\ whitelist' = {}
    /\ UNCHANGED <<lock, disk, pc, req, clients>>

(* ... and one that cannot be decoded is taken for an empty whitelist.     *)
StartAnyway ==
    /\ status # "up"
    /\ status' = "up" /\ whitelist' = saved
    /\ UNCHANGED <<lock, disk, pc, req, clients>>

(* Start with a file it can decode, or with none                           *)
Start ==
    /\ status # "up" /\ file # "torn"
    /\ status' = "up" /\ whitelist' = saved
    /\ UNCHANGED <<lock, disk, pc, req, clients>>

(* Start with a file that is no JSON: main ends with logger.Fatal.         *)
StartRefused ==
    /\ status # "up" /\ file = "torn"
    /\ status' = "refused"
    /\ UNCHANGED <<whitelist, lock, disk, pc, req, clients>>

Arrival(r) ==
    \/ \E u \in User : Register(r, u)
    \/ \E caller \in known \cup {Nobody} :
          \/ \E u \in known : Delete(r, caller, u)
          \/ \E op \in {"config", "data"} : Get(r, op, caller)

(* The steps of a handler that wait for the lock, and those that run.      *)
Wait(r) == Authenticate(r) \/ Lock(r) \/ CountLights(r)
Run(r) == \/ Mutate(r) \/ SaveSkipped(r) \/ SaveOpen(r) \/ SaveWrite(r)
          \/ Commit(r) \/ Rollback(r) \/ ReadPointer(r) \/ Render(r)

Next == \/ Die \/ Start \/ StartRefused
        \/ \E r \in Request : Arrival(r) \/ Wait(r) \/ Run(r)

Spec == Init /\ [][Next]_vars

(* The scheduler runs every goroutine, and sync.RWMutex starves neither    *)
(* readers nor writers: a waiting writer holds off new readers, and its    *)
(* mutex hands over to the longest waiter.                                 *)
FairSpec == /\ Spec
            /\ \A r \in Request : WF_vars(Run(r)) /\ SF_vars(Wait(r))

------------------------------------------------------------------------------
(* Properties                                                              *)

(* A user who was told that it is registered is in the map and, unless the *)
(* file is torn, in the file until somebody tries to delete it, whatever   *)
(* the other requests do, whichever saves fail, and across restarts.       *)
MembersKept ==
    /\ status = "up" => members \subseteq whitelist
    /\ Persistent /\ file # "torn" => members \subseteq saved

(* A user whose deletion was confirmed never comes back: not in the map,   *)
(* that every response lists and every caller is looked up in, and not in  *)
(* the file, though saves fail and the process dies and starts again.      *)
RevokedStayRevoked == revoked \cap (whitelist \cup saved) = {}

(* A request whose caller was already deleted when it came in gets past    *)
(* the middleware into no handler that answers with or changes the users.  *)
RevokedRefused ==
    \A r \in Request :
        (~AuthDisabled /\ req[r].op # "register" /\ pc[r] \notin {"idle", "auth"})
            => req[r].caller \notin req[r].gone

(* Between two writers the map and the file, unless an error tore it, have *)
(* the same users but for those whose change was answered with an error:   *)
(* the map has that change, the file does not, and the next save that      *)
(* succeeds, of whichever user, makes them equal again.                    *)
MemoryMatchesFile ==
    status = "up" /\ lock = Free /\ Persistent /\ file # "torn"
        => saved \ loose = whitelist \ loose

(* The bridge comes up with the file it stores ("path to where we will     *)
(* load and store whitelist entries", the flag of main.go).                *)
StoredFileLoads == status # "refused"

(* Every request is answered, or dies with the process.                    *)
Answered == \A r \in Request : pc[r] # "idle" ~> pc[r] = "idle"

(* The users as a client finds them: the map, but a change counts only     *)
(* from the moment its save has succeeded or failed.                       *)
Users == IF status # "up" THEN {}
         ELSE IF \E r \in Request : pc[r] \in {"save", "write"}
              THEN before
              ELSE whitelist

Store == INSTANCE UserStore WITH
            durable <- Persistent,
            users   <- Users,
            kept    <- saved,
            intact  <- (file # "torn"),
            online  <- (status = "up")

(* The whitelist is a set of users that changes one user at a time and     *)
(* only while the bridge is up, that keeps what succeeded, and with it all *)
(* that failed before, over a stop, and never comes up with a part.        *)
ImplementsUserStore == Store!Spec
================================================================================
