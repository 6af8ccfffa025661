--------------------------------- MODULE Bridge ---------------------------------
(***************************************************************************)
(* The whole bridge as far as its users are concerned: the life cycle of   *)
(* the process and the whitelist its HTTPS handlers work on.  Start loads  *)
(* the whitelist, a handler that the HTTPS server takes in runs one of the *)
(* requests of Whitelist, and whatever ends the process cuts off what they *)
(* were doing: a crash at any time, a Fatal, a panic, or the end of main   *)
(* when the deadline of Shutdown has passed.  A process that ended may be  *)
(* started again, with the file the one before left.                       *)
(***************************************************************************)
EXTENDS Lifecycle

CONSTANTS User, Nobody, Free, AuthDisabled

VARIABLES status, whitelist, lock, file, saved, pc, req,
          known, members, revoked, before, loose

(* For the properties only: whether a save failed in this process          *)
VARIABLE spoilt

WL == INSTANCE Whitelist

ASSUME BridgeAssumption == WL!WhitelistAssumption

wlVars == <<status, whitelist, lock, file, saved, pc, req,
            known, members, revoked, before, loose>>
bridgeVars == <<vars, wlVars, spoilt>>

BridgeInit == Init /\ WL!Init /\ spoilt = FALSE

------------------------------------------------------------------------------

(* The handlers and the map go with the process; the file stays.           *)
Gone == \/ status = "up" /\ WL!Die
        \/ status # "up" /\ UNCHANGED wlVars

(* A step of the process that may be its last                              *)
Step(A) == /\ A
           /\ \/ Alive' /\ UNCHANGED wlVars
              \/ ~Alive' /\ Gone
           /\ UNCHANGED spoilt

(* main ends when the whitelist cannot be loaded, and only then.           *)
LoadWhitelist == /\ Load
                 /\ \/ Alive' /\ WL!Start
                    \/ ~Alive' /\ WL!StartRefused
                 /\ UNCHANGED spoilt

BringUp == LoadWhitelist \/ Step(Listen \/ StartMQTT \/ Serve \/ MDNS \/ StartSSDP)

(* The routes of the HTTP server reach no user.                            *)
Describe(r) == Step(Accept(r, "http") \/ (handling[r] = "http" /\ Answer(r)))

(* A request to the API comes in ...                                       *)
Call(r) == /\ Accept(r, "https") /\ WL!Arrival(r)
           /\ UNCHANGED spoilt

(* ... and its handler runs, until it answers.                             *)
Handle(r) == /\ WL!Wait(r) \/ WL!Run(r)
             /\ \/ pc'[r] = "idle" /\ Answer(r)
                \/ pc'[r] # "idle" /\ UNCHANGED vars
             /\ spoilt' = (spoilt \/ pc'[r] = "rollback")

Crash == Step(Alive /\ End("killed"))

(* The process is started again: everything but the file is as at first.   *)
Reboot == /\ ~Alive
          /\ main' = "load" /\ how' = "running" /\ stop' = 0 /\ told' = FALSE
          /\ socket' = [s \in Server |-> "none"]
          /\ serving' = [s \in Server |-> "none"]
          /\ handling' = [r \in Request |-> Closed]
          /\ ssdp' = "none" /\ broken' = FALSE /\ announced' = FALSE
          /\ mqtt' = "none" /\ expired' = FALSE /\ cut' = {}
          /\ spoilt' = FALSE
          /\ UNCHANGED wlVars

BridgeNext ==
    \/ BringUp \/ Step(Down) \/ Step(Quit) \/ Step(Interrupt) \/ Step(Expire)
    \/ Step(Responder) \/ Step(Tick) \/ Crash \/ Reboot
    \/ \E s \in Server : Step(ServeRuns(s)) \/ Step(ServeFails(s))
    \/ \E r \in Request : Describe(r) \/ Call(r) \/ Handle(r)

BridgeSpec == BridgeInit /\ [][BridgeNext]_bridgeVars

(* The scheduler runs main and the responder, and time passes.  The select *)
(* of the responder takes quit when the ticker, which fires once in 60     *)
(* seconds, is not ready too.  Nothing is asked of the handlers.           *)
FairBridge == /\ BridgeSpec
              /\ WF_bridgeVars(BringUp) /\ WF_bridgeVars(Step(Down))
              /\ SF_bridgeVars(Step(Quit)) /\ WF_bridgeVars(Step(Expire))
              /\ WF_bridgeVars(Step(Responder))

------------------------------------------------------------------------------
(* Properties                                                              *)

(* A bridge that is stopped by a signal, and has the time to answer what   *)
(* it took in, leaves a file with the users its clients know of: only a    *)
(* crash, a failed save or the deadline can lose or tear it.               *)
GracefulStopKeepsUsers ==
    [][how # "done" /\ how' = "done" /\ ~expired /\ ~spoilt /\ file # "none"
           => file' # "torn" /\ saved' = whitelist]_bridgeVars

(* What the whitelist promises of the users that were deleted holds under  *)
(* the life cycle too.                                                     *)
RevokedStayRevoked == WL!RevokedStayRevoked
RevokedRefused == WL!RevokedRefused
================================================================================
