------------------------------- MODULE Lifecycle -------------------------------
(***************************************************************************)
(* The process: main and Start bring the servers up one by one, the        *)
(* function Start returned takes them down in another order.  Beside main  *)
(* there are the goroutines of the two HTTP servers, of their handlers and *)
(* of the SSDP responder, and the deadline of Shutdown.  A Fatal of the    *)
(* logger or a panic ends all of them at once.  net/http, go-ssdp and the  *)
(* network are external.                                                   *)
(***************************************************************************)
EXTENDS Naturals

CONSTANT Request       \* the handler goroutines there can be at a time

Server == {"http", "https"}
Closed == "closed"     \* the server of a goroutine that handles nothing

VARIABLES main,       \* what main does next
          how,        \* "running", or how the process ended
          stop,       \* the signals in the channel stop, which holds one
          told,       \* whether there was a signal, for the properties only
          socket,     \* the listener of each server: "none", "open", "closed"
          serving,    \* its goroutine: "none", "spawned", "accepting", "over"
          handling,   \* the server each handler runs for, or Closed
          ssdp,       \* the SSDP goroutine: "none", "advertise", "loop", ...
          broken,     \* whether one of its advertisers is nil
          announced,  \* whether it answers searches with the address
          mqtt,       \* the MQTT client: "none", "on", "cancelled"
          expired,    \* whether the deadline of Shutdown has passed
          cut         \* the handlers the end of the process cut off

servers == <<socket, serving, handling>>
responder == <<ssdp, broken, announced>>
vars == <<main, how, stop, told, servers, responder, mqtt, expired, cut>>

Starting == {"load", "listen http", "listen https", "mqtt", "serve http",
             "serve https", "mdns", "ssdp"}
Stopping == {"quit", "wait", "cancel", "close http", "drain http",
             "close https", "drain https", "return"}
Steps == Starting \cup {"started"} \cup Stopping

LifeTypeOK ==
    /\ main \in Steps
    /\ how \in {"running", "done", "fatal", "panic", "killed"}
    /\ stop \in {0, 1} /\ told \in BOOLEAN
    /\ socket \in [Server -> {"none", "open", "closed"}]
    /\ serving \in [Server -> {"none", "spawned", "accepting", "over"}]
    /\ handling \in [Request -> Server \cup {Closed}]
    /\ ssdp \in {"none", "advertise", "loop", "alive", "bye", "gone"}
    /\ broken \in BOOLEAN /\ announced \in BOOLEAN
    /\ mqtt \in {"none", "on", "cancelled"}
    /\ expired \in BOOLEAN
    /\ cut \subseteq Request

(* signal.Notify was called just before Start.                             *)
Init == /\ main = "load" /\ how = "running" /\ stop = 0 /\ told = FALSE
        /\ socket = [s \in Server |-> "none"]
        /\ serving = [s \in Server |-> "none"]
        /\ handling = [r \in Request |-> Closed]
        /\ ssdp = "none" /\ broken = FALSE /\ announced = FALSE
        /\ mqtt = "none" /\ expired = FALSE /\ cut = {}

Alive == how = "running"
Busy(s) == \E r \in Request : handling[r] = s

(* The process ends, and with it whatever still runs.                      *)
End(cause) == /\ how' = cause
              /\ cut' = {r \in Request : handling[r] # Closed}
              /\ UNCHANGED <<main, stop, told, servers, responder, mqtt, expired>>

------------------------------------------------------------------------------
(* Start                                                                   *)

(* The whitelist, which may be no JSON                                     *)
Load == /\ Alive /\ main = "load"
        /\ \/ End("fatal")
           \/ /\ main' = "listen http"
              /\ UNCHANGED <<how, stop, told, servers, responder, mqtt, expired, cut>>

Opened(s) == /\ socket' = [socket EXCEPT ![s] = "open"]
             /\ UNCHANGED <<how, stop, told, serving, handling, responder, mqtt, expired, cut>>

(* createListener.  When the TLS port cannot be bound its error is lost in *)
(* an inner err, and the address of a nil listener is asked for.           *)
Listen == /\ Alive
          /\ \/ main = "listen http" /\ End("fatal")
             \/ main = "listen http" /\ main' = "listen https" /\ Opened("http")
             \/ main = "listen https" /\ \E cause \in {"fatal", "panic"} : End(cause)
             \/ main = "listen https" /\ main' = "mqtt" /\ Opened("https")

(* The MQTT client runs, and the first values of the lamps are fetched.    *)
StartMQTT == /\ Alive /\ main = "mqtt"
             /\ main' = "serve http" /\ mqtt' = "on"
             /\ UNCHANGED <<how, stop, told, servers, responder, expired, cut>>

Spawned(s) == /\ serving' = [serving EXCEPT ![s] = "spawned"]
              /\ UNCHANGED <<how, stop, told, socket, handling, responder, mqtt, expired, cut>>

Serve == /\ Alive
         /\ \/ main = "serve http" /\ main' = "serve https" /\ Spawned("http")
            \/ main = "serve https" /\ main' = "mdns" /\ Spawned("https")

MDNS == /\ Alive /\ main = "mdns"
        /\ \/ End("fatal")
           \/ /\ main' = "ssdp"
              /\ UNCHANGED <<how, stop, told, servers, responder, mqtt, expired, cut>>

StartSSDP == /\ Alive /\ main = "ssdp"
             /\ main' = "started" /\ ssdp' = "advertise"
             /\ UNCHANGED <<how, stop, told, servers, broken, announced, mqtt, expired, cut>>

------------------------------------------------------------------------------
(* The signal and the function that stops                                  *)

(* Mutants of Interrupt: every signal is kept ...                          *)
InterruptCounted == /\ Alive
                    /\ told' = TRUE /\ stop' = stop + 1
                    /\ UNCHANGED <<main, how, servers, responder, mqtt, expired, cut>>

(* ... and the channel stop has no buffer.                                 *)
InterruptUnbuffered ==
    /\ Alive
    /\ told' = TRUE
    /\ stop' = IF main = "started" THEN 1 ELSE stop
    /\ UNCHANGED <<main, how, servers, responder, mqtt, expired, cut>>

(* A signal that comes in before main waits for it stays in the channel; a *)
(* second one is dropped.                                                  *)
Interrupt == /\ Alive
             /\ told' = TRUE /\ stop' = 1
             /\ UNCHANGED <<main, how, servers, responder, mqtt, expired, cut>>

(* Mutant of TakeSignal: the responder is left for the process to end.     *)
TakeSignalOnly == /\ Alive /\ main = "started" /\ stop = 1
                  /\ stop' = 0 /\ main' = "cancel"
                  /\ UNCHANGED <<how, told, servers, responder, mqtt, expired, cut>>

(* From here on the deadline runs.                                         *)
TakeSignal == /\ Alive /\ main = "started" /\ stop = 1
              /\ stop' = 0 /\ main' = "quit"
              /\ UNCHANGED <<how, told, servers, responder, mqtt, expired, cut>>

Expire == /\ Alive /\ main \in Stopping /\ ~expired
          /\ expired' = TRUE
          /\ UNCHANGED <<main, how, stop, told, servers, responder, mqtt, cut>>

(* quitSSDP has no buffer: both sides meet when the responder selects.     *)
Quit == /\ Alive /\ main = "quit" /\ ssdp = "loop"
        /\ main' = "wait" /\ ssdp' = "bye"
        /\ UNCHANGED <<how, stop, told, servers, broken, announced, mqtt, expired, cut>>

WaitSSDP == /\ Alive /\ main = "wait" /\ ssdp = "gone"
            /\ main' = "cancel"
            /\ UNCHANGED <<how, stop, told, servers, responder, mqtt, expired, cut>>

(* MQTT ends while the HTTP servers still accept requests.                 *)
Cancel == /\ Alive /\ main = "cancel"
          /\ main' = "close http" /\ mqtt' = "cancelled"
          /\ UNCHANGED <<how, stop, told, servers, responder, expired, cut>>

(* http.Server.Shutdown closes the listener (or lets Serve do it, if that  *)
(* was not called yet) ...                                                 *)
Close(s) == /\ socket' = [socket EXCEPT ![s] = "closed"]
            /\ serving' = [serving EXCEPT ![s] = "over"]
            /\ UNCHANGED <<how, stop, told, handling, responder, mqtt, expired, cut>>

CloseServer == /\ Alive
               /\ \/ main = "close http" /\ main' = "drain http" /\ Close("http")
                  \/ main = "close https" /\ main' = "drain https" /\ Close("https")

(* Mutant of Drain: the handlers are not waited for.                       *)
DrainNot == /\ Alive
            /\ \/ main = "drain http" /\ main' = "close https"
               \/ main = "drain https" /\ main' = "return"
            /\ UNCHANGED <<how, stop, told, servers, responder, mqtt, expired, cut>>

(* ... and waits until no handler runs, or the deadline passes.            *)
Drain == /\ Alive
         /\ \/ main = "drain http" /\ (expired \/ ~Busy("http")) /\ main' = "close https"
            \/ main = "drain https" /\ (expired \/ ~Busy("https")) /\ main' = "return"
         /\ UNCHANGED <<how, stop, told, servers, responder, mqtt, expired, cut>>

Return == Alive /\ main = "return" /\ End("done")

------------------------------------------------------------------------------
(* The goroutines of the servers and their handlers                        *)

ServeRuns(s) == /\ Alive /\ serving[s] = "spawned"
                /\ serving' = [serving EXCEPT ![s] = "accepting"]
                /\ UNCHANGED <<main, how, stop, told, socket, handling, responder, mqtt, expired, cut>>

(* Serve returns another error than ErrServerClosed.                       *)
ServeFails(s) == Alive /\ serving[s] = "accepting" /\ End("fatal")

Accept(r, s) == /\ Alive /\ serving[s] = "accepting" /\ handling[r] = Closed
                /\ handling' = [handling EXCEPT ![r] = s]
                /\ UNCHANGED <<main, how, stop, told, socket, serving, responder, mqtt, expired, cut>>

Answer(r) == /\ Alive /\ handling[r] # Closed
             /\ handling' = [handling EXCEPT ![r] = Closed]
             /\ UNCHANGED <<main, how, stop, told, socket, serving, responder, mqtt, expired, cut>>

------------------------------------------------------------------------------
(* The goroutine of the SSDP responder                                     *)

(* ssdp.Advertise may fail, which is logged; the advertiser is nil then.   *)
Advertise == /\ Alive /\ ssdp = "advertise"
             /\ ssdp' = "loop" /\ announced' = TRUE
             /\ broken' \in BOOLEAN
             /\ UNCHANGED <<main, how, stop, told, servers, mqtt, expired, cut>>

(* A tick of aliveTick; the advertisers are dereferenced.                  *)
Tick == /\ Alive /\ ssdp = "loop"
        /\ \/ broken /\ End("panic")
           \/ /\ ~broken /\ ssdp' = "alive"
              /\ UNCHANGED <<main, how, stop, told, servers, broken, announced, mqtt, expired, cut>>

TickDone == /\ Alive /\ ssdp = "alive"
            /\ ssdp' = "loop"
            /\ UNCHANGED <<main, how, stop, told, servers, broken, announced, mqtt, expired, cut>>

Bye == /\ Alive /\ ssdp = "bye"
       /\ \/ broken /\ End("panic")
          \/ /\ ~broken /\ ssdp' = "gone" /\ announced' = FALSE
             /\ UNCHANGED <<main, how, stop, told, servers, broken, mqtt, expired, cut>>

Up == \/ Load \/ Listen \/ StartMQTT \/ Serve \/ MDNS \/ StartSSDP
Down == \/ TakeSignal \/ WaitSSDP \/ Cancel \/ CloseServer \/ Drain \/ Return
Responder == Advertise \/ TickDone \/ Bye

Next == \/ Up \/ Down \/ Quit \/ Interrupt \/ Expire
        \/ Responder \/ Tick
        \/ \E s \in Server : ServeRuns(s) \/ ServeFails(s) \/ \E r \in Request : Accept(r, s)
        \/ \E r \in Request : Answer(r)

Spec == Init /\ [][Next]_vars

------------------------------------------------------------------------------
(* Properties                                                              *)

(* A process that ends by its main cuts off a handler only when the        *)
(* deadline of Shutdown has passed, on both servers and whenever the       *)
(* request came in.                                                        *)
CutAtDeadline == how = "done" /\ ~expired => cut = {}

(* Whoever finds the bridge by SSDP finds the server it points to: it is   *)
(* announced after the server listens, and no more when it stops to.       *)
AnnouncedIsServed == how \in {"running", "done"} /\ announced => socket["http"] = "open"

(* A signal ends the process whenever it comes, also during Start and      *)
(* however long the handlers take.                                         *)
StopsWhenTold == told ~> ~Alive
================================================================================
