---------------------------- MODULE WhitelistProofs ----------------------------
(***************************************************************************)
(* Proofs about Whitelist, for any set of users and of requests, with and  *)
(* without a file, with and without authentication.                        *)
(***************************************************************************)
EXTENDS Whitelist, TLAPS

(* The writer holds the lock, and only it.                                 *)
LockInv == \A r \in Request : lock = r <=> pc[r] \in Writing

(* With the process down there is no request and nothing in memory.        *)
DownInv == status # "up" => /\ whitelist = {} /\ lock = Free
                            /\ pc = [r \in Request |-> "idle"]

(* What a request asks for agrees with how far it got.                     *)
RequestOK(r) ==
    /\ pc[r] = "idle" => req[r] = NoRequest
    /\ pc[r] = "auth" => req[r].op # "register"
    /\ pc[r] \in {"lock"} \cup Writing => req[r].op \in {"register", "delete"}
    /\ req[r].op = "register" => req[r].user \in User
    /\ req[r].op = "delete" => req[r].user \in known
RequestInv == \A r \in Request : RequestOK(r)

(* The name of a registration is new to everybody until it is in the map.  *)
Naming(r) == req[r].op = "register" /\ pc[r] \in {"lock", "mutate"}
FreshInv ==
    \A r \in Request : Naming(r) =>
        /\ req[r].user \notin known
        /\ \A q \in Request : q # r => req[q].user # req[r].user

KnownInv == whitelist \cup saved \cup before \cup members \cup revoked \cup loose
                \subseteq known

(* What the map is while the writer r is saving it                         *)
After(r) == IF req[r].op = "register" THEN before \cup {req[r].user}
                                      ELSE before \ {req[r].user}
Saving == Writing \ {"mutate"}
WriterInv ==
    \A r \in Request :
        /\ pc[r] \in Saving => whitelist = After(r)
        /\ pc[r] = "write" => Persistent /\ file = "torn"
        /\ pc[r] = "rollback" => Persistent
        /\ pc[r] = "commit" /\ Persistent => file = "whole" /\ saved = whitelist

FileInv == file # "whole" => saved = {}

(* What a request knows to be deleted was deleted.                         *)
GoneInv == \A r \in Request : req[r].gone \subseteq revoked

Inv == /\ TypeOK /\ LockInv /\ DownInv /\ RequestInv /\ FreshInv /\ KnownInv
       /\ WriterInv /\ FileInv /\ GoneInv
       /\ RevokedStayRevoked /\ RevokedRefused

------------------------------------------------------------------------------
(* What holds besides of the users that are kept.                          *)

(* The file has, unless it is torn, the users it should, but for those     *)
(* whose change was answered with an error.                                *)
Mirrors(seen) == file # "torn" => saved \ loose = seen \ loose
StepInv ==
    Persistent => \A r \in Request :
        /\ pc[r] = "mutate" => Mirrors(whitelist)
        /\ pc[r] \in {"save", "rollback"} => Mirrors(before)

(* Without a file nobody is a member when the process is down.             *)
MembersInv == MembersKept /\ (status # "up" /\ ~Persistent => members = {})

KeptInv == Inv /\ StepInv /\ MemoryMatchesFile /\ MembersInv

------------------------------------------------------------------------------
(* Every action keeps the invariant.  In each lemma the first step has the *)
(* conjuncts the action does not disturb.                                  *)

USE WhitelistAssumption DEF Persistent, code, clients, disk, Goto, Finish, Accept, NoRequest,
                            Writing, Steps, Ops, Requests

(* A registration brings in a name that no map, no client and no request has. *)
LEMMA RegisterKeeps ==
    ASSUME Inv, NEW r \in Request, NEW u \in User, Register(r, u)
    PROVE  Inv'
<1>1. TypeOK' /\ LockInv' /\ DownInv' /\ KnownInv' /\ WriterInv' /\
      FileInv' /\ RevokedStayRevoked'
  BY DEF Register, Fresh, Inv, TypeOK, LockInv, DownInv, KnownInv, WriterInv, After,
         Saving, FileInv, RevokedStayRevoked
<1>2. RequestInv'
  BY DEF Register, Fresh, Inv, RequestInv, RequestOK, TypeOK
<1>3. FreshInv'
  BY DEF Register, Fresh, Inv, FreshInv, Naming, TypeOK
<1>4. GoneInv'
  BY DEF Register, Fresh, Inv, GoneInv, RequestInv, RequestOK, TypeOK
<1>5. RevokedRefused'
  BY DEF Register, Fresh, Inv, RevokedRefused, TypeOK
<1> QED BY <1>1, <1>2, <1>3, <1>4, <1>5 DEF Inv

(* A deletion is asked for; nothing has changed yet.                       *)
LEMMA DeleteKeeps ==
    ASSUME Inv, NEW r \in Request, NEW caller \in known \cup {Nobody}, NEW u \in known,
           Delete(r, caller, u)
    PROVE  Inv'
<1>1. TypeOK' /\ LockInv' /\ DownInv' /\ FreshInv' /\ KnownInv' /\
      WriterInv' /\ FileInv' /\ RevokedStayRevoked' /\ RevokedRefused'
  BY DEF Delete, Inv, TypeOK, LockInv, DownInv, FreshInv, Naming, KnownInv,
         WriterInv, After, Saving, FileInv, RevokedStayRevoked, RevokedRefused
<1>2. RequestInv'
  BY DEF Delete, Inv, RequestInv, RequestOK, TypeOK
<1>3. GoneInv'
  BY DEF Delete, Inv, GoneInv, RequestInv, RequestOK, TypeOK
<1> QED BY <1>1, <1>2, <1>3 DEF Inv

(* A request comes in that only reads.                                     *)
LEMMA GetKeeps ==
    ASSUME Inv, NEW r \in Request, NEW caller \in known \cup {Nobody},
           NEW op \in {"config", "data"}, Get(r, op, caller)
    PROVE  Inv'
<1>1. TypeOK' /\ LockInv' /\ DownInv' /\ KnownInv' /\ WriterInv' /\
      FileInv' /\ RevokedStayRevoked' /\ RevokedRefused'
  BY DEF Get, Inv, TypeOK, LockInv, DownInv, KnownInv, WriterInv, After, Saving,
         FileInv, RevokedStayRevoked, RevokedRefused
<1>2. RequestInv'
  BY DEF Get, Inv, RequestInv, RequestOK, TypeOK
<1>3. FreshInv'
  BY DEF Get, Inv, FreshInv, Naming, RequestInv, RequestOK, TypeOK
<1>4. GoneInv'
  BY DEF Get, Inv, GoneInv, RequestInv, RequestOK, TypeOK
<1> QED BY <1>1, <1>2, <1>3, <1>4 DEF Inv

(* Who passes is in the map, so not among the deleted.                     *)
LEMMA AuthenticateKeeps ==
    ASSUME Inv, NEW r \in Request, Authenticate(r)
    PROVE  Inv'
<1>1. DownInv' /\ KnownInv' /\ FileInv' /\ RevokedStayRevoked'
  BY DEF Authenticate, Inv, DownInv, KnownInv, FileInv, RevokedStayRevoked
<1>2. TypeOK'
  <2>1. req' \in [Request -> Requests]
    BY DEF Authenticate, Inv, TypeOK
  <2>2. pc' \in [Request -> Steps]
    BY DEF Authenticate, Inv, TypeOK
  <2> QED BY <2>1, <2>2 DEF Authenticate, Inv, TypeOK
<1>3. LockInv'
  BY DEF Authenticate, Inv, LockInv, TypeOK
<1>4. RequestInv'
  <2> SUFFICES ASSUME NEW q \in Request PROVE RequestOK(q)'
    BY DEF RequestInv
  <2>1. CASE UNCHANGED req
    BY <2>1, SMT DEF Authenticate, Inv, TypeOK, RequestInv, RequestOK
  <2>2. CASE Finish(r)
    BY <2>2, SMT DEF Authenticate, Inv, TypeOK, RequestInv, RequestOK
  <2> QED BY <2>1, <2>2 DEF Authenticate
<1>5. FreshInv'
  BY DEF Authenticate, Inv, FreshInv, Naming, RequestInv, RequestOK, TypeOK
<1>6. WriterInv'
  BY DEF Authenticate, Inv, WriterInv, After, Saving, TypeOK
<1>7. GoneInv'
  BY DEF Authenticate, Inv, GoneInv, TypeOK
<1>8. RevokedRefused'
  <2>1. CASE UNCHANGED req
    <3>1. \A q \in Request : q # r => pc'[q] = pc[q]
      BY DEF Authenticate, Inv, TypeOK
    <3>2. AuthDisabled \/ req[r].caller \notin req[r].gone
      BY <2>1 DEF Authenticate, Inv, TypeOK, GoneInv, RevokedStayRevoked, RequestInv, RequestOK
    <3> QED BY <2>1, <3>1, <3>2 DEF Inv, RevokedRefused
  <2>2. CASE Finish(r)
    BY <2>2 DEF Authenticate, Inv, TypeOK, RevokedRefused
  <2> QED BY <2>1, <2>2 DEF Authenticate
<1> QED BY <1>1, <1>2, <1>3, <1>4, <1>5, <1>6, <1>7, <1>8 DEF Inv

(* Only a free lock is taken.                                              *)
LEMMA LockKeeps ==
    ASSUME Inv, NEW r \in Request, Lock(r)
    PROVE  Inv'
<1>1. TypeOK' /\ DownInv' /\ FreshInv' /\ KnownInv' /\ WriterInv' /\
      FileInv' /\ GoneInv' /\ RevokedStayRevoked' /\ RevokedRefused'
  BY DEF Lock, Inv, TypeOK, DownInv, FreshInv, Naming, KnownInv, WriterInv, After,
         Saving, FileInv, GoneInv, RevokedStayRevoked, RevokedRefused
<1>2. LockInv'
  BY DEF Lock, Inv, LockInv, TypeOK
<1>3. RequestInv'
  BY DEF Lock, Inv, RequestInv, RequestOK, TypeOK
<1> QED BY <1>1, <1>2, <1>3 DEF Inv

(* A new name is not one that was deleted, and a deletion adds nobody.     *)
LEMMA MutateKeeps ==
    ASSUME Inv, NEW r \in Request, Mutate(r)
    PROVE  Inv'
<1>1. LockInv' /\ DownInv' /\ KnownInv' /\ FileInv' /\ GoneInv' /\
      RevokedRefused'
  BY DEF Mutate, Inv, LockInv, DownInv, KnownInv, FileInv, GoneInv, RevokedRefused
<1>2. TypeOK'
  BY DEF Mutate, Inv, TypeOK, RequestInv, RequestOK
<1>3. RequestInv'
  BY DEF Mutate, Inv, RequestInv, RequestOK, TypeOK
<1>4. FreshInv'
  BY DEF Mutate, Inv, FreshInv, Naming, TypeOK
<1>5. WriterInv'
  BY DEF Mutate, Inv, WriterInv, After, Saving, LockInv, TypeOK
<1>6. RevokedStayRevoked'
  BY DEF Mutate, Inv, FreshInv, Naming, KnownInv, RevokedStayRevoked
<1> QED BY <1>1, <1>2, <1>3, <1>4, <1>5, <1>6 DEF Inv

(* Without a path the file stays absent.                                   *)
LEMMA SaveSkippedKeeps ==
    ASSUME Inv, NEW r \in Request, SaveSkipped(r)
    PROVE  Inv'
<1>1. TypeOK' /\ LockInv' /\ DownInv' /\ FreshInv' /\ KnownInv' /\
      WriterInv' /\ FileInv' /\ GoneInv' /\ RevokedStayRevoked' /\
      RevokedRefused'
  BY DEF SaveSkipped, Inv, TypeOK, LockInv, DownInv, FreshInv, Naming, KnownInv,
         WriterInv, After, Saving, FileInv, GoneInv, RevokedStayRevoked,
         RevokedRefused
<1>2. RequestInv'
  BY DEF SaveSkipped, Inv, RequestInv, RequestOK, TypeOK
<1> QED BY <1>1, <1>2 DEF Inv

(* The file is torn, or could not be opened.                               *)
LEMMA SaveOpenKeeps ==
    ASSUME Inv, NEW r \in Request, SaveOpen(r)
    PROVE  Inv'
<1>1. TypeOK' /\ DownInv' /\ KnownInv' /\ FileInv' /\ GoneInv' /\
      RevokedStayRevoked'
  BY DEF SaveOpen, Inv, TypeOK, DownInv, KnownInv, FileInv, GoneInv,
         RevokedStayRevoked
<1>2. LockInv'
  BY DEF SaveOpen, Inv, LockInv, TypeOK
<1>3. RequestInv'
  BY DEF SaveOpen, Inv, RequestInv, RequestOK, TypeOK
<1>4. FreshInv'
  BY DEF SaveOpen, Inv, FreshInv, Naming, TypeOK
<1>5. WriterInv'
  BY DEF SaveOpen, Inv, WriterInv, After, Saving, LockInv, TypeOK
<1>6. RevokedRefused'
  BY DEF SaveOpen, Inv, RevokedRefused, TypeOK
<1> QED BY <1>1, <1>2, <1>3, <1>4, <1>5, <1>6 DEF Inv

(* What is written is the map.                                             *)
LEMMA SaveWriteKeeps ==
    ASSUME Inv, NEW r \in Request, SaveWrite(r)
    PROVE  Inv'
<1>1. TypeOK' /\ DownInv' /\ KnownInv' /\ GoneInv' /\ RevokedStayRevoked'
  BY DEF SaveWrite, Inv, TypeOK, DownInv, KnownInv, GoneInv, RevokedStayRevoked
<1>2. LockInv'
  BY DEF SaveWrite, Inv, LockInv, TypeOK
<1>3. RequestInv'
  BY DEF SaveWrite, Inv, RequestInv, RequestOK, TypeOK
<1>4. FreshInv'
  BY DEF SaveWrite, Inv, FreshInv, Naming, TypeOK
<1>5. WriterInv'
  BY DEF SaveWrite, Inv, WriterInv, After, Saving, LockInv, TypeOK
<1>6. FileInv'
  BY DEF SaveWrite, Inv, FileInv, WriterInv, After, Saving, TypeOK
<1>7. RevokedRefused'
  BY DEF SaveWrite, Inv, RevokedRefused, TypeOK
<1> QED BY <1>1, <1>2, <1>3, <1>4, <1>5, <1>6, <1>7 DEF Inv

(* The name deleted is neither in the map nor in the file by now.          *)
LEMMA CommitKeeps ==
    ASSUME Inv, NEW r \in Request, Commit(r)
    PROVE  Inv'
<1>1. DownInv' /\ FileInv' /\ GoneInv' /\ RevokedRefused'
  BY DEF Commit, Inv, DownInv, FileInv, GoneInv, RevokedRefused
<1>2. TypeOK'
  BY DEF Commit, Inv, TypeOK, RequestInv, RequestOK
<1>3. LockInv'
  BY DEF Commit, Inv, LockInv, TypeOK
<1>4. RequestInv'
  BY DEF Commit, Inv, RequestInv, RequestOK, TypeOK
<1>5. FreshInv'
  BY DEF Commit, Inv, FreshInv, Naming, RequestInv, RequestOK, TypeOK
<1>6. KnownInv'
  BY DEF Commit, Inv, KnownInv, RequestInv, RequestOK, WriterInv, After,
         Saving, TypeOK
<1>7. WriterInv'
  BY DEF Commit, Inv, WriterInv, After, Saving, LockInv, TypeOK
<1>8. RevokedStayRevoked'
  BY DEF Commit, Inv, WriterInv, After, Saving, FileInv, RevokedStayRevoked
<1> QED BY <1>1, <1>2, <1>3, <1>4, <1>5, <1>6, <1>7, <1>8 DEF Inv

(* The change stays in the map, which has none of the deleted.             *)
LEMMA RollbackKeeps ==
    ASSUME Inv, NEW r \in Request, Rollback(r)
    PROVE  Inv'
<1>1. DownInv' /\ FileInv' /\ GoneInv' /\ RevokedStayRevoked' /\ RevokedRefused'
  BY DEF Rollback, Inv, DownInv, FileInv, GoneInv, RevokedStayRevoked, RevokedRefused
<1>2. TypeOK'
  BY DEF Rollback, Inv, TypeOK, RequestInv, RequestOK
<1>3. LockInv'
  BY DEF Rollback, Inv, LockInv, TypeOK
<1>4. RequestInv'
  BY DEF Rollback, Inv, RequestInv, RequestOK, TypeOK
<1>5. FreshInv'
  BY DEF Rollback, Inv, FreshInv, Naming, RequestInv, RequestOK, TypeOK
<1>6. KnownInv'
  BY DEF Rollback, Inv, KnownInv, WriterInv, After, Saving, RequestInv, RequestOK, TypeOK
<1>7. WriterInv'
  BY DEF Rollback, Inv, WriterInv, After, Saving, LockInv, TypeOK
<1> QED BY <1>1, <1>2, <1>3, <1>4, <1>5, <1>6, <1>7 DEF Inv

(* The pointer is read; nothing changes.                                   *)
LEMMA ReadPointerKeeps ==
    ASSUME Inv, NEW r \in Request, ReadPointer(r)
    PROVE  Inv'
<1>1. TypeOK' /\ LockInv' /\ DownInv' /\ FreshInv' /\ KnownInv' /\
      WriterInv' /\ FileInv' /\ GoneInv' /\ RevokedStayRevoked' /\
      RevokedRefused'
  BY DEF ReadPointer, Inv, TypeOK, LockInv, DownInv, FreshInv, Naming, KnownInv,
         WriterInv, After, Saving, FileInv, GoneInv, RevokedStayRevoked,
         RevokedRefused
<1>2. RequestInv'
  BY DEF ReadPointer, Inv, RequestInv, RequestOK, TypeOK
<1> QED BY <1>1, <1>2 DEF Inv

(* The lock is free and stays free.                                        *)
LEMMA CountLightsKeeps ==
    ASSUME Inv, NEW r \in Request, CountLights(r)
    PROVE  Inv'
<1>1. TypeOK' /\ DownInv' /\ KnownInv' /\ FileInv' /\ GoneInv' /\
      RevokedStayRevoked'
  BY DEF CountLights, Inv, TypeOK, DownInv, KnownInv, FileInv, GoneInv,
         RevokedStayRevoked
<1>2. LockInv'
  BY DEF CountLights, Inv, LockInv, TypeOK
<1>3. RequestInv'
  BY DEF CountLights, Inv, RequestInv, RequestOK, TypeOK
<1>4. FreshInv'
  BY DEF CountLights, Inv, FreshInv, Naming, TypeOK
<1>5. WriterInv'
  BY DEF CountLights, Inv, WriterInv, After, Saving, TypeOK
<1>6. RevokedRefused'
  BY DEF CountLights, Inv, RevokedRefused, TypeOK
<1> QED BY <1>1, <1>2, <1>3, <1>4, <1>5, <1>6 DEF Inv

(* A response is rendered.                                                 *)
LEMMA RenderKeeps ==
    ASSUME Inv, NEW r \in Request, Render(r)
    PROVE  Inv'
<1>1. TypeOK' /\ LockInv' /\ DownInv' /\ KnownInv' /\ WriterInv' /\
      FileInv' /\ GoneInv' /\ RevokedStayRevoked' /\ RevokedRefused'
  BY DEF Render, Inv, TypeOK, LockInv, DownInv, KnownInv, WriterInv, After, Saving,
         FileInv, GoneInv, RevokedStayRevoked, RevokedRefused
<1>2. RequestInv'
  BY DEF Render, Inv, RequestInv, RequestOK, TypeOK
<1>3. FreshInv'
  BY DEF Render, Inv, FreshInv, Naming, RequestInv, RequestOK, TypeOK
<1> QED BY <1>1, <1>2, <1>3 DEF Inv

(* The process ends, and nobody holds the lock.                            *)
LEMMA DieKeeps ==
    ASSUME Inv, Die
    PROVE  Inv'
<1>1. TypeOK' /\ LockInv' /\ DownInv' /\ RequestInv' /\ FreshInv' /\
      KnownInv' /\ WriterInv' /\ FileInv' /\ GoneInv' /\ RevokedStayRevoked' /\
      RevokedRefused'
  BY DEF Die, Inv, TypeOK, LockInv, DownInv, RequestInv, RequestOK, FreshInv, Naming, KnownInv, WriterInv, After, Saving, FileInv,
         GoneInv, RevokedStayRevoked, RevokedRefused
<1> QED BY <1>1 DEF Inv

(* The file becomes the map.                                               *)
LEMMA StartKeeps ==
    ASSUME Inv, Start
    PROVE  Inv'
<1>1. TypeOK' /\ LockInv' /\ DownInv' /\ FreshInv' /\ KnownInv' /\ FileInv' /\
      GoneInv' /\ RevokedStayRevoked' /\ RevokedRefused'
  BY DEF Start, Inv, TypeOK, LockInv, DownInv, FreshInv, Naming, KnownInv, FileInv,
         GoneInv, RevokedStayRevoked, RevokedRefused
<1>2. RequestInv'
  BY DEF Start, Inv, RequestInv, RequestOK, TypeOK
<1>3. WriterInv'
  BY DEF Start, Inv, DownInv, WriterInv, After, Saving
<1> QED BY <1>1, <1>2, <1>3 DEF Inv

(* A start that is refused changes nothing.                                *)
LEMMA StartRefusedKeeps ==
    ASSUME Inv, StartRefused
    PROVE  Inv'
<1>1. TypeOK' /\ LockInv' /\ DownInv' /\ FreshInv' /\ KnownInv' /\
      WriterInv' /\ FileInv' /\ GoneInv' /\ RevokedStayRevoked' /\
      RevokedRefused'
  BY DEF StartRefused, Inv, TypeOK, LockInv, DownInv, FreshInv, Naming, KnownInv,
         WriterInv, After, Saving, FileInv, GoneInv, RevokedStayRevoked,
         RevokedRefused
<1>2. RequestInv'
  BY DEF StartRefused, Inv, RequestInv, RequestOK, TypeOK
<1> QED BY <1>1, <1>2 DEF Inv

(* The start.                                                              *)
LEMMA InvInit == Init => Inv
<1> SUFFICES ASSUME Init PROVE Inv
  OBVIOUS
<1>1. TypeOK
  BY DEF Init, TypeOK
<1>2. LockInv /\ DownInv /\ RequestInv /\ FreshInv /\ WriterInv /\ FileInv
  BY DEF Init, LockInv, DownInv, RequestInv, RequestOK, FreshInv, Naming,
         WriterInv, Saving, FileInv
<1>3. KnownInv /\ GoneInv /\ RevokedStayRevoked /\ RevokedRefused
  BY DEF Init, KnownInv, GoneInv, RevokedStayRevoked, RevokedRefused
<1> QED BY <1>1, <1>2, <1>3 DEF Inv

(* Every step keeps the invariant.                                         *)
LEMMA InvNext == Inv /\ [Next]_vars => Inv'
<1> SUFFICES ASSUME Inv, [Next]_vars PROVE Inv'
  OBVIOUS
<1>1. CASE Die
  BY <1>1, DieKeeps
<1>2. CASE Start
  BY <1>2, StartKeeps
<1>3. CASE StartRefused
  BY <1>3, StartRefusedKeeps
<1>4. ASSUME NEW r \in Request, Arrival(r) PROVE Inv'
  BY <1>4, RegisterKeeps, DeleteKeeps, GetKeeps DEF Arrival
<1>5. ASSUME NEW r \in Request, Wait(r) PROVE Inv'
  BY <1>5, AuthenticateKeeps, LockKeeps, CountLightsKeeps DEF Wait
<1>6. ASSUME NEW r \in Request, Run(r) PROVE Inv'
  BY <1>6, MutateKeeps, SaveSkippedKeeps, SaveOpenKeeps, SaveWriteKeeps, CommitKeeps,
     RollbackKeeps, ReadPointerKeeps, RenderKeeps DEF Run
<1>7. CASE UNCHANGED vars
  BY <1>7 DEF vars, Inv, TypeOK, LockInv, DownInv, RequestInv, RequestOK, FreshInv,
         Naming, KnownInv, WriterInv, After, FileInv, GoneInv, RevokedStayRevoked,
         RevokedRefused
<1> QED BY <1>1, <1>2, <1>3, <1>4, <1>5, <1>6, <1>7 DEF Next

(* Inv holds in every reachable state, for any constants.                  *)
THEOREM Invariance == Spec => []Inv
BY InvInit, InvNext, PTL DEF Spec

(* The variables keep their types.                                         *)
THEOREM TypeCorrect == Spec => []TypeOK
<1>1. Inv => TypeOK
  BY DEF Inv
<1> QED BY <1>1, Invariance, PTL

(* A user whose deletion was confirmed never comes back (registerUser and  *)
(* deleteUser, with any failed save, restart and interleaving).            *)
THEOREM RevocationHolds == Spec => []RevokedStayRevoked
<1>1. Inv => RevokedStayRevoked
  BY DEF Inv
<1> QED BY <1>1, Invariance, PTL

(* A caller that was deleted before its request came in is not let past    *)
(* Authenticate.                                                           *)
THEOREM RefusalHolds == Spec => []RevokedRefused
<1>1. Inv => RevokedRefused
  BY DEF Inv
<1> QED BY <1>1, Invariance, PTL

------------------------------------------------------------------------------
(* What is kept.                                                           *)

(* The start, with the second invariant.                                   *)
LEMMA KeptInit == Init => KeptInv
<1> SUFFICES ASSUME Init PROVE KeptInv
  OBVIOUS
<1>1. Inv
  BY InvInit
<1>2. StepInv /\ MemoryMatchesFile /\ MembersInv
  BY DEF Init, StepInv, MemoryMatchesFile, MembersInv, MembersKept
<1> QED BY <1>1, <1>2 DEF KeptInv

(* A step outside the writers' critical section leaves all of it as it is. *)
Quiet == /\ UNCHANGED <<status, whitelist, lock, file, saved, clients>>
         /\ \A q \in Request : pc[q] \in Writing \/ pc'[q] \in Writing
                                  => pc'[q] = pc[q] /\ req'[q] = req[q]

(* What touches no user, file, lock or writer keeps it.                    *)
LEMMA QuietKeeps ==
    ASSUME KeptInv, Quiet
    PROVE  StepInv' /\ MemoryMatchesFile' /\ MembersInv'
BY DEF Quiet, KeptInv, StepInv, Mirrors, MemoryMatchesFile, MembersInv, MembersKept

(* The steps of readers and arrivals are of that kind.                     *)
LEMMA ReadersAreQuiet ==
    ASSUME Inv, NEW r \in Request,
           Arrival(r) \/ Authenticate(r) \/ CountLights(r) \/ ReadPointer(r) \/ Render(r)
    PROVE  Quiet
<1>1. CASE Arrival(r)
  BY <1>1 DEF Quiet, Inv, TypeOK, Arrival, Register, Delete, Get
<1>2. CASE Authenticate(r)
  BY <1>2 DEF Quiet, Inv, TypeOK, Authenticate
<1>3. CASE CountLights(r) \/ ReadPointer(r) \/ Render(r)
  BY <1>3 DEF Quiet, Inv, TypeOK, CountLights, ReadPointer, Render
<1> QED BY <1>1, <1>2, <1>3

(* A writer takes over what the one before left in order.                  *)
LEMMA LockKeepsKept ==
    ASSUME KeptInv, NEW r \in Request, Lock(r)
    PROVE  StepInv' /\ MemoryMatchesFile' /\ MembersInv'
<1>1. MemoryMatchesFile' /\ MembersInv'
  BY DEF Lock, KeptInv, MemoryMatchesFile, MembersInv, MembersKept
<1>2. StepInv'
  BY DEF Lock, KeptInv, DownInv, StepInv, Mirrors, MemoryMatchesFile, Inv
<1> QED BY <1>1, <1>2

(* A new name is not a member's, and a deletion ends a membership.         *)
LEMMA MutateKeepsKept ==
    ASSUME KeptInv, NEW r \in Request, Mutate(r)
    PROVE  StepInv' /\ MemoryMatchesFile' /\ MembersInv'
<1>1. StepInv'
  BY DEF Mutate, KeptInv, TypeOK, LockInv, StepInv, Mirrors, Inv
<1>2. MemoryMatchesFile'
  BY DEF Mutate, KeptInv, LockInv, MemoryMatchesFile, Inv
<1>3. MembersInv'
  BY DEF Mutate, KeptInv, MembersInv, MembersKept
<1> QED BY <1>1, <1>2, <1>3

(* Without a path there is no file to keep in step.                        *)
LEMMA SaveSkippedKeepsKept ==
    ASSUME KeptInv, NEW r \in Request, SaveSkipped(r)
    PROVE  StepInv' /\ MemoryMatchesFile' /\ MembersInv'
BY DEF SaveSkipped, KeptInv, StepInv, Mirrors, MemoryMatchesFile, MembersInv, MembersKept

(* A torn file promises nothing.                                           *)
LEMMA SaveOpenKeepsKept ==
    ASSUME KeptInv, NEW r \in Request, SaveOpen(r)
    PROVE  StepInv' /\ MemoryMatchesFile' /\ MembersInv'
<1>1. MemoryMatchesFile'
  BY DEF SaveOpen, KeptInv, MemoryMatchesFile
<1>2. StepInv'
  BY DEF SaveOpen, KeptInv, TypeOK, StepInv, Mirrors, Inv
<1>3. MembersInv'
  BY DEF SaveOpen, KeptInv, MembersInv, MembersKept
<1> QED BY <1>1, <1>2, <1>3

(* The file is the map again, or stays torn.                               *)
LEMMA SaveWriteKeepsKept ==
    ASSUME KeptInv, NEW r \in Request, SaveWrite(r)
    PROVE  StepInv' /\ MemoryMatchesFile' /\ MembersInv'
<1>1. lock = r /\ status = "up" /\ Persistent /\ file = "torn"
  BY DEF SaveWrite, KeptInv, Inv, LockInv, DownInv, WriterInv, TypeOK
<1>2. MemoryMatchesFile'
  BY <1>1 DEF SaveWrite, MemoryMatchesFile
<1>3. StepInv'
  BY <1>1 DEF SaveWrite, KeptInv, TypeOK, LockInv, StepInv, Mirrors, Inv
<1>4. MembersInv'
  BY <1>1 DEF SaveWrite, KeptInv, MembersInv, MembersKept
<1> QED BY <1>2, <1>3, <1>4

(* The map and the file have the new member, and nobody is loose any more. *)
LEMMA CommitKeepsKept ==
    ASSUME KeptInv, NEW r \in Request, Commit(r)
    PROVE  StepInv' /\ MemoryMatchesFile' /\ MembersInv'
<1>1. lock = r /\ status = "up"
  BY DEF Commit, KeptInv, Inv, LockInv, DownInv, TypeOK
<1>2. whitelist = After(r) /\ (Persistent => saved = whitelist)
  BY DEF Commit, KeptInv, Inv, WriterInv, Saving
<1>3. StepInv'
  BY <1>1 DEF Commit, KeptInv, TypeOK, LockInv, StepInv, Mirrors, Inv
<1>4. MemoryMatchesFile'
  BY <1>2 DEF Commit, MemoryMatchesFile
<1>5. MembersInv'
  BY <1>1, <1>2 DEF Commit, After, KeptInv, MembersInv, MembersKept
<1> QED BY <1>3, <1>4, <1>5

(* The map and the file differ in the one whose change was not saved.      *)
LEMMA RollbackKeepsKept ==
    ASSUME KeptInv, NEW r \in Request, Rollback(r)
    PROVE  StepInv' /\ MemoryMatchesFile' /\ MembersInv'
<1>1. lock = r /\ whitelist = After(r) /\ Persistent /\ Mirrors(before)
  BY DEF Rollback, KeptInv, Inv, LockInv, WriterInv, Saving, StepInv
<1>2. StepInv'
  BY <1>1 DEF Rollback, KeptInv, TypeOK, LockInv, StepInv, Mirrors, Inv
<1>3. MemoryMatchesFile'
  BY <1>1 DEF Rollback, After, Mirrors, MemoryMatchesFile
<1>4. MembersInv'
  BY DEF Rollback, KeptInv, MembersInv, MembersKept
<1> QED BY <1>2, <1>3, <1>4

(* The file stays, and with it every member.                               *)
LEMMA DieKeepsKept ==
    ASSUME KeptInv, Die
    PROVE  StepInv' /\ MemoryMatchesFile' /\ MembersInv'
BY DEF Die, KeptInv, StepInv, Mirrors, MemoryMatchesFile, MembersInv, MembersKept

(* The file becomes the map.                                               *)
LEMMA StartKeepsKept ==
    ASSUME KeptInv, Start
    PROVE  StepInv' /\ MemoryMatchesFile' /\ MembersInv'
<1>1. StepInv'
  BY DEF Start, KeptInv, Inv, DownInv, StepInv
<1>2. MemoryMatchesFile' /\ MembersInv'
  BY DEF Start, KeptInv, MemoryMatchesFile, MembersInv, MembersKept
<1> QED BY <1>1, <1>2

(* A start that is refused changes nothing.                                *)
LEMMA StartRefusedKeepsKept ==
    ASSUME KeptInv, StartRefused
    PROVE  StepInv' /\ MemoryMatchesFile' /\ MembersInv'
BY DEF StartRefused, KeptInv, StepInv, Mirrors, MemoryMatchesFile, MembersInv, MembersKept

(* Every step keeps the second invariant.                                  *)
LEMMA KeptNext == KeptInv /\ [Next]_vars => KeptInv'
<1> SUFFICES ASSUME KeptInv, [Next]_vars
             PROVE  StepInv' /\ MemoryMatchesFile' /\ MembersInv'
  BY InvNext DEF KeptInv
<1>1. CASE Die
  BY <1>1, DieKeepsKept
<1>2. CASE Start
  BY <1>2, StartKeepsKept
<1>3. CASE StartRefused
  BY <1>3, StartRefusedKeepsKept
<1>4. ASSUME NEW r \in Request,
             Arrival(r) \/ Authenticate(r) \/ CountLights(r) \/ ReadPointer(r) \/ Render(r)
      PROVE  Quiet
  BY <1>4, ReadersAreQuiet DEF KeptInv
<1>5. ASSUME NEW r \in Request, Wait(r) PROVE Lock(r) \/ Quiet
  BY <1>4, <1>5 DEF Wait
<1>6. ASSUME NEW r \in Request, Run(r)
      PROVE  \/ Mutate(r) \/ SaveSkipped(r) \/ SaveOpen(r) \/ SaveWrite(r)
             \/ Commit(r) \/ Rollback(r) \/ Quiet
  BY <1>4, <1>6 DEF Run
<1>7. CASE UNCHANGED vars
  <2>1. Quiet
    BY <1>7 DEF vars, Quiet
  <2> QED BY <2>1, QuietKeeps
<1>8. CASE \E r \in Request : Arrival(r) \/ Wait(r) \/ Run(r)
  BY <1>4, <1>5, <1>6, <1>8, QuietKeeps, LockKeepsKept, MutateKeepsKept,
     SaveSkippedKeepsKept, SaveOpenKeepsKept, SaveWriteKeepsKept, CommitKeepsKept,
     RollbackKeepsKept
<1> QED BY <1>1, <1>2, <1>3, <1>7, <1>8 DEF Next

(* KeptInv holds in every reachable state, for any constants.              *)
THEOREM KeptInvariance == Spec => []KeptInv
BY KeptInit, KeptNext, PTL DEF Spec

(* A registration that was confirmed is in the map and, with a path, in    *)
(* the file until somebody tries to delete it: whatever saves of others    *)
(* fail, although registerUser and deleteUser restore nothing then, and    *)
(* wherever the process dies.                                              *)
THEOREM MembershipHolds == Spec => []MembersKept
<1>1. KeptInv => MembersKept
  BY DEF KeptInv, MembersInv
<1> QED BY <1>1, KeptInvariance, PTL

(* Between two writers the file, unless it is torn, is what the map is but *)
(* for the users whose change was answered with an error since the last    *)
(* save that succeeded.                                                    *)
THEOREM MirrorHolds == Spec => []MemoryMatchesFile
<1>1. KeptInv => MemoryMatchesFile
  BY DEF KeptInv
<1> QED BY <1>1, KeptInvariance, PTL

------------------------------------------------------------------------------
(* The refinement: every step of the handlers and of the process is a step *)
(* of the store or leaves it as it is.                                     *)

(* The store shows what was before while a save is under way, else the map. *)
Between == {"save", "write"}

(* The users, seen from outside, while the bridge is up.                   *)
LEMMA UsersUp ==
    ASSUME status = "up"
    PROVE  /\ (\E r \in Request : pc[r] \in Between) => Users = before
           /\ (\A r \in Request : pc[r] \notin Between) => Users = whitelist
BY DEF Users, Between

(* The same after a step.                                                  *)
LEMMA UsersUpNext ==
    ASSUME status' = "up"
    PROVE  /\ (\E r \in Request : pc'[r] \in Between) => Users' = before'
           /\ (\A r \in Request : pc'[r] \notin Between) => Users' = whitelist'
BY DEF Users, Between

(* There is one writer at a time.                                          *)
LEMMA OneWriter ==
    ASSUME Inv, NEW r \in Request, pc[r] \in Writing
    PROVE  /\ lock = r /\ status = "up"
           /\ \A q \in Request : q # r => pc[q] \notin Between
BY DEF Inv, TypeOK, LockInv, DownInv, Between

StoreUnchanged == UNCHANGED <<Persistent, Users, saved, file # "torn", status = "up">>

(* The change shows when its save ends, whether it succeeded or failed.    *)
LEMMA SavedShows ==
    ASSUME Inv, NEW r \in Request, pc[r] \in Between,
           NEW next \in {"commit", "rollback"}, pc' = [pc EXCEPT ![r] = next],
           UNCHANGED <<status, whitelist, Persistent>>
    PROVE  \E u \in User : Store!Change(u)
<1>1. status = "up" /\ \A q \in Request : pc'[q] \notin Between
  BY OneWriter DEF Inv, TypeOK, Between
<1>2. Users = before /\ Users' = whitelist
  BY <1>1, UsersUp, UsersUpNext
<1>3. whitelist = After(r) /\ req[r].user \in User
  BY DEF Inv, WriterInv, Saving, Between, RequestInv, RequestOK, TypeOK, KnownInv
<1>4. Users' = Users \cup {req[r].user} \/ Users' = Users \ {req[r].user}
  BY <1>2, <1>3 DEF After
<1>5. Store!Change(req[r].user)
  BY <1>1, <1>4 DEF Store!Change
<1> QED BY <1>3, <1>5

(* A step that touches no user stutters in the store.                      *)
LEMMA QuietStore == ASSUME Quiet PROVE StoreUnchanged
<1>1. (\E r \in Request : pc[r] \in Between) <=> (\E r \in Request : pc'[r] \in Between)
  BY DEF Quiet, Between
<1> QED BY <1>1 DEF Quiet, StoreUnchanged, Users, Between

(* Before its save a writer changes nothing the store shows.               *)
LEMMA OpeningStore ==
    ASSUME Inv, NEW r \in Request, Lock(r) \/ Mutate(r)
    PROVE  StoreUnchanged
<1>1. CASE Lock(r)
  <2>1. \A q \in Request : pc[q] \notin Between /\ pc'[q] \notin Between
    BY <1>1 DEF Lock, Inv, TypeOK, LockInv, Between
  <2> QED BY <1>1, <2>1 DEF Lock, StoreUnchanged, Users, Between
<1>2. CASE Mutate(r)
  <2>1. status = "up" /\ \A q \in Request : pc[q] \notin Between
    BY <1>2, OneWriter DEF Mutate, Between
  <2>2. pc'[r] \in Between
    BY <1>2 DEF Mutate, Inv, TypeOK, Between
  <2> QED BY <1>2, <2>1, <2>2, UsersUp, UsersUpNext DEF Mutate, StoreUnchanged
<1> QED BY <1>1, <1>2

(* The end of a writer changes nothing it shows either.                    *)
LEMMA ClosingStore ==
    ASSUME Inv, NEW r \in Request, Commit(r) \/ Rollback(r)
    PROVE  StoreUnchanged
<1>1. status = "up" /\ \A q \in Request : pc[q] \notin Between
  BY OneWriter DEF Commit, Rollback, Between
<1>2. \A q \in Request : pc'[q] \notin Between
  BY <1>1 DEF Commit, Rollback, Inv, TypeOK, Between
<1>3. Users = whitelist /\ Users' = whitelist'
  BY <1>1, <1>2, UsersUp, UsersUpNext DEF Commit, Rollback
<1> QED BY <1>3 DEF Commit, Rollback, StoreUnchanged

(* Opening the file gives up what was kept, or fails.                      *)
LEMMA SaveOpenStore ==
    ASSUME Inv, NEW r \in Request, SaveOpen(r)
    PROVE  Store!GiveUp \/ \E u \in User : Store!Fail(u)
<1>1. status = "up" /\ Persistent /\ pc[r] \in Between
  BY OneWriter DEF SaveOpen, Between
<1>2. CASE pc' = [pc EXCEPT ![r] = "write"] /\ file' = "torn" /\ saved' = {}
  <2>1. pc'[r] \in Between
    BY <1>2 DEF Inv, TypeOK, Between
  <2>2. Users' = Users
    BY <1>1, <2>1, UsersUp, UsersUpNext DEF SaveOpen
  <2> QED BY <1>1, <1>2, <2>2 DEF SaveOpen, Store!GiveUp
<1>3. CASE pc' = [pc EXCEPT ![r] = "rollback"] /\ UNCHANGED disk
  BY <1>1, <1>3, SavedShows DEF SaveOpen, Store!Fail
<1> QED BY <1>2, <1>3 DEF SaveOpen

(* Writing it keeps the users as they are, or fails.                       *)
LEMMA SaveWriteStore ==
    ASSUME Inv, NEW r \in Request, SaveWrite(r)
    PROVE  \E u \in User : Store!Succeed(u) \/ Store!Fail(u)
<1>1. Persistent /\ status = "up" /\ pc[r] \in Between
  BY OneWriter DEF SaveWrite, Inv, WriterInv, Between
<1>2. CASE pc' = [pc EXCEPT ![r] = "commit"] /\ file' = "whole" /\ saved' = whitelist
  <2>1. \A q \in Request : pc'[q] \notin Between
    BY <1>2, OneWriter DEF SaveWrite, Inv, TypeOK, Between
  <2>2. Users' = saved'
    BY <1>1, <1>2, <2>1, UsersUpNext DEF SaveWrite
  <2> QED BY <1>1, <1>2, <2>2, SavedShows DEF SaveWrite, Store!Succeed
<1>3. CASE pc' = [pc EXCEPT ![r] = "rollback"] /\ UNCHANGED disk
  BY <1>1, <1>3, SavedShows DEF SaveWrite, Store!Fail
<1> QED BY <1>2, <1>3 DEF SaveWrite

(* Without a file the change succeeds, and nothing is kept.                *)
LEMMA SaveSkippedStore ==
    ASSUME Inv, NEW r \in Request, SaveSkipped(r)
    PROVE  \E u \in User : Store!Succeed(u)
<1>1. saved' = {} /\ ~Persistent /\ file' # "torn"
  BY DEF SaveSkipped, Inv, FileInv
<1> QED BY <1>1, SavedShows DEF SaveSkipped, Store!Succeed, Between

(* Start boots the store.                                                  *)
LEMMA StartStore == ASSUME Inv, Start PROVE Store!Boot
<1>1. status # "up" /\ status' = "up" /\ file # "torn"
  BY DEF Start
<1>2. \A q \in Request : pc'[q] \notin Between
  BY <1>1 DEF Start, Inv, DownInv, Between
<1>3. Users' = saved
  BY <1>1, <1>2, UsersUpNext DEF Start
<1> QED BY <1>1, <1>3 DEF Start, Store!Boot

(* Every step is one of the store's, or a stutter.                         *)
LEMMA StoreStep ==
    ASSUME Inv, [Next]_vars
    PROVE  [Store!Next]_(Store!storeVars)
<1> USE DEF Store!Next, Store!storeVars
<1>1. CASE Die
  BY <1>1 DEF Die, Store!Halt, Users
<1>2. CASE Start
  BY <1>2, StartStore
<1>3. CASE StartRefused
  BY <1>3 DEF StartRefused, Users
<1>4. ASSUME StoreUnchanged PROVE [Store!Next]_(Store!storeVars)
  BY <1>4 DEF StoreUnchanged
<1>5. CASE UNCHANGED vars
  BY <1>4, <1>5, QuietStore DEF vars, Quiet
<1>6. ASSUME NEW r \in Request, Arrival(r) \/ Wait(r)
      PROVE  [Store!Next]_(Store!storeVars)
  <2>1. CASE Lock(r)
    BY <1>4, <2>1, OpeningStore
  <2> QED BY <1>4, <1>6, <2>1, ReadersAreQuiet, QuietStore DEF Wait
<1>7. ASSUME NEW r \in Request, Run(r) PROVE [Store!Next]_(Store!storeVars)
  <2>1. CASE Mutate(r)
    BY <1>4, <2>1, OpeningStore
  <2>2. CASE Commit(r) \/ Rollback(r)
    BY <1>4, <2>2, ClosingStore
  <2>3. CASE SaveSkipped(r)
    BY <2>3, SaveSkippedStore
  <2>4. CASE SaveOpen(r)
    BY <2>4, SaveOpenStore
  <2>5. CASE SaveWrite(r)
    BY <2>5, SaveWriteStore
  <2>6. CASE ReadPointer(r) \/ Render(r)
    BY <1>4, <2>6, ReadersAreQuiet, QuietStore
  <2> QED BY <1>7, <2>1, <2>2, <2>3, <2>4, <2>5, <2>6 DEF Run
<1> QED BY <1>1, <1>2, <1>3, <1>5, <1>6, <1>7 DEF Next

(* The handlers, the file and the restarts together are a set of users     *)
(* that changes one user at a time and only while the bridge is up, and    *)
(* that keeps over a stop what succeeded, and all that failed before it.   *)
THEOREM WhitelistIsUserStore == Spec => ImplementsUserStore
<1>1. Init => Store!Init
  BY DEF Init, Store!Init, Users
<1>2. Inv /\ [Next]_vars => [Store!Next]_(Store!storeVars)
  BY StoreStep
<1> QED BY <1>1, <1>2, Invariance, PTL DEF Spec, ImplementsUserStore, Store!Spec
================================================================================
