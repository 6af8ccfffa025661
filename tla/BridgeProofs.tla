------------------------------ MODULE BridgeProofs ------------------------------
(***************************************************************************)
(* The bridge under its life cycle implements Whitelist, keeps what the    *)
(* life cycle and the whitelist promise by themselves, and adds what only  *)
(* both together can: a graceful stop loses no user.  The proofs of the    *)
(* parts are used as they are; what is new is how their states hang        *)
(* together (Glue) and what is in the file while no save has failed.       *)
(***************************************************************************)
EXTENDS Bridge, TLAPS

------------------------------------------------------------------------------
(* The life cycle, for any number of handlers                              *)

(* How far main has got decides what the other goroutines may be doing.    *)
HttpGone == {"drain http", "close https", "drain https", "return"}
HttpOpen == {"listen https", "mqtt", "serve http", "serve https", "mdns", "ssdp",
             "started", "quit", "wait", "cancel", "close http"}

SocketInv == main \in HttpOpen => socket["http"] = "open"

SSDPInv == /\ announced => ssdp \in {"loop", "alive", "bye"}
           /\ ssdp \in {"advertise", "loop", "alive"} => main \in {"started", "quit"}
           /\ ssdp = "bye" => main = "wait"

ServingInv == /\ main \in HttpGone => serving["http"] = "over"
              /\ main \in {"drain https", "return"} => serving["https"] = "over"

(* Once a server is drained in time, and takes no more, nobody is in it.   *)
DrainInv == ~expired => /\ main \in HttpGone \ {"drain http"} => ~Busy("http")
                        /\ main = "return" => ~Busy("https")

CutInv == /\ Alive => cut = {}
          /\ CutAtDeadline

Inv == LifeTypeOK /\ SocketInv /\ SSDPInv /\ ServingInv /\ DrainInv /\ CutInv

(* The start of the process                                                *)
LEMMA LifeInit == Init => Inv
BY DEF Init, Inv, LifeTypeOK, Steps, SocketInv, SSDPInv, ServingInv, DrainInv, CutInv,
       CutAtDeadline, HttpGone, HttpOpen, Starting, Alive, Server, Closed

USE DEF Server, Closed, HttpGone, HttpOpen, Alive, servers, responder

(* An end of the process that is no return of main                         *)
LEMMA EndKeeps ==
    ASSUME Inv, NEW cause \in {"fatal", "panic", "killed"}, End(cause)
    PROVE  Inv'
<1>1. LifeTypeOK'
  BY DEF Inv, LifeTypeOK, End
<1>2. SocketInv' /\ SSDPInv' /\ ServingInv'
  BY DEF Inv, SocketInv, SSDPInv, ServingInv, End
<1>3. DrainInv'
  BY DEF Inv, DrainInv, Busy, End
<1>4. CutInv'
  BY DEF CutInv, CutAtDeadline, End
<1> QED BY <1>1, <1>2, <1>3, <1>4 DEF Inv

(* main takes the next step of Start.                                      *)
LEMMA UpKeeps == Inv /\ Up => Inv'
<1> SUFFICES ASSUME Inv, Up PROVE Inv'
  OBVIOUS
<1>1. CASE Load
  <2>1. CASE End("fatal")
    BY <2>1, EndKeeps
  <2>2. CASE main' = "listen http" /\ UNCHANGED <<how, stop, told, servers, responder, mqtt, expired, cut>>
    <3>1. main' \in Steps
      BY <1>1, <2>2 DEF Load, Steps, Starting, Stopping
    <3>2. LifeTypeOK'
      BY <3>1, <1>1, <2>2 DEF Load, Inv, LifeTypeOK
    <3>3. SocketInv' /\ SSDPInv' /\ ServingInv'
      BY <1>1, <2>2 DEF Load, Inv, LifeTypeOK, SocketInv, SSDPInv, ServingInv
    <3>4. DrainInv'
      BY <1>1, <2>2 DEF Load, Inv, LifeTypeOK, ServingInv, DrainInv, Busy
    <3>5. CutInv'
      BY <1>1, <2>2 DEF Load, Inv, CutInv, CutAtDeadline
    <3> QED BY <3>2, <3>3, <3>4, <3>5 DEF Inv
  <2> QED BY <1>1, <2>1, <2>2 DEF Load
<1>2. CASE Listen
  <2>1. ASSUME NEW cause \in {"fatal", "panic"}, End(cause) PROVE Inv'
    BY <2>1, EndKeeps
  <2>2. CASE main = "listen http" /\ main' = "listen https" /\ Opened("http")
    <3>1. main' \in Steps
      BY <1>2, <2>2 DEF Listen, Opened, Steps, Starting, Stopping
    <3>2. LifeTypeOK'
      BY <3>1, <1>2, <2>2 DEF Listen, Opened, Inv, LifeTypeOK
    <3>3. SocketInv' /\ SSDPInv' /\ ServingInv'
      BY <1>2, <2>2 DEF Listen, Opened, Inv, LifeTypeOK, SocketInv, SSDPInv, ServingInv
    <3>4. DrainInv'
      BY <1>2, <2>2 DEF Listen, Opened, Inv, LifeTypeOK, ServingInv, DrainInv, Busy
    <3>5. CutInv'
      BY <1>2, <2>2 DEF Listen, Opened, Inv, CutInv, CutAtDeadline
    <3> QED BY <3>2, <3>3, <3>4, <3>5 DEF Inv
  <2>3. CASE main = "listen https" /\ main' = "mqtt" /\ Opened("https")
    <3>1. main' \in Steps
      BY <1>2, <2>3 DEF Listen, Opened, Steps, Starting, Stopping
    <3>2. LifeTypeOK'
      BY <3>1, <1>2, <2>3 DEF Listen, Opened, Inv, LifeTypeOK
    <3>3. SocketInv' /\ SSDPInv' /\ ServingInv'
      BY <1>2, <2>3 DEF Listen, Opened, Inv, LifeTypeOK, SocketInv, SSDPInv, ServingInv
    <3>4. DrainInv'
      BY <1>2, <2>3 DEF Listen, Opened, Inv, LifeTypeOK, ServingInv, DrainInv, Busy
    <3>5. CutInv'
      BY <1>2, <2>3 DEF Listen, Opened, Inv, CutInv, CutAtDeadline
    <3> QED BY <3>2, <3>3, <3>4, <3>5 DEF Inv
  <2> QED BY <1>2, <2>1, <2>2, <2>3 DEF Listen
<1>3. CASE StartMQTT
  <2>1. main' \in Steps
    BY <1>3 DEF StartMQTT, Steps, Starting, Stopping
  <2>2. LifeTypeOK'
    BY <2>1, <1>3 DEF StartMQTT, Inv, LifeTypeOK
  <2>3. SocketInv' /\ SSDPInv' /\ ServingInv'
    BY <1>3 DEF StartMQTT, Inv, LifeTypeOK, SocketInv, SSDPInv, ServingInv
  <2>4. DrainInv'
    BY <1>3 DEF StartMQTT, Inv, LifeTypeOK, ServingInv, DrainInv, Busy
  <2>5. CutInv'
    BY <1>3 DEF StartMQTT, Inv, CutInv, CutAtDeadline
  <2> QED BY <2>2, <2>3, <2>4, <2>5 DEF Inv
<1>4. CASE Serve
  <2>1. main' \in Steps
    BY <1>4 DEF Serve, Spawned, Steps, Starting, Stopping
  <2>2. LifeTypeOK'
    BY <2>1, <1>4 DEF Serve, Spawned, Inv, LifeTypeOK
  <2>3. SocketInv' /\ SSDPInv' /\ ServingInv'
    <3>1. DOMAIN socket = Server /\ DOMAIN serving = Server
      BY DEF Inv, LifeTypeOK
    <3>2. SocketInv'
      BY <1>4, <3>1 DEF Serve, Spawned, Inv, SocketInv
    <3>3. SSDPInv'
      <4>1. UNCHANGED <<ssdp, announced>> /\ main \notin {"started", "quit", "wait"}
        BY <1>4 DEF Serve, Spawned
      <4> QED BY <4>1 DEF Inv, SSDPInv
    <3>4. ServingInv'
      BY <1>4, <3>1 DEF Serve, Spawned, Inv, ServingInv
    <3> QED BY <3>2, <3>3, <3>4
  <2>4. DrainInv'
    BY <1>4 DEF Serve, Spawned, Inv, LifeTypeOK, ServingInv, DrainInv, Busy
  <2>5. CutInv'
    BY <1>4 DEF Serve, Spawned, Inv, CutInv, CutAtDeadline
  <2> QED BY <2>2, <2>3, <2>4, <2>5 DEF Inv
<1>5. CASE MDNS
  <2>1. CASE End("fatal")
    BY <2>1, EndKeeps
  <2>2. CASE main' = "ssdp" /\ UNCHANGED <<how, stop, told, servers, responder, mqtt, expired, cut>>
    <3>1. main' \in Steps
      BY <1>5, <2>2 DEF MDNS, Steps, Starting, Stopping
    <3>2. LifeTypeOK'
      BY <3>1, <1>5, <2>2 DEF MDNS, Inv, LifeTypeOK
    <3>3. SocketInv' /\ SSDPInv' /\ ServingInv'
      BY <1>5, <2>2 DEF MDNS, Inv, LifeTypeOK, SocketInv, SSDPInv, ServingInv
    <3>4. DrainInv'
      BY <1>5, <2>2 DEF MDNS, Inv, LifeTypeOK, ServingInv, DrainInv, Busy
    <3>5. CutInv'
      BY <1>5, <2>2 DEF MDNS, Inv, CutInv, CutAtDeadline
    <3> QED BY <3>2, <3>3, <3>4, <3>5 DEF Inv
  <2> QED BY <1>5, <2>1, <2>2 DEF MDNS
<1>6. CASE StartSSDP
  <2>1. main' \in Steps
    BY <1>6 DEF StartSSDP, Steps, Starting, Stopping
  <2>2. LifeTypeOK'
    BY <2>1, <1>6 DEF StartSSDP, Inv, LifeTypeOK
  <2>3. SocketInv' /\ SSDPInv' /\ ServingInv'
    BY <1>6 DEF StartSSDP, Inv, LifeTypeOK, SocketInv, SSDPInv, ServingInv
  <2>4. DrainInv'
    BY <1>6 DEF StartSSDP, Inv, LifeTypeOK, ServingInv, DrainInv, Busy
  <2>5. CutInv'
    BY <1>6 DEF StartSSDP, Inv, CutInv, CutAtDeadline
  <2> QED BY <2>2, <2>3, <2>4, <2>5 DEF Inv
<1> QED BY <1>1, <1>2, <1>3, <1>4, <1>5, <1>6 DEF Up

(* main takes the next step of the function that stops.                    *)
LEMMA DownKeeps == Inv /\ Down => Inv'
<1> SUFFICES ASSUME Inv, Down PROVE Inv'
  OBVIOUS
<1>1. CASE TakeSignal
  <2>1. main' \in Steps
    BY <1>1 DEF TakeSignal, Steps, Starting, Stopping
  <2>2. LifeTypeOK'
    BY <2>1, <1>1 DEF TakeSignal, Inv, LifeTypeOK
  <2>3. SocketInv' /\ SSDPInv' /\ ServingInv'
    BY <1>1 DEF TakeSignal, Inv, LifeTypeOK, SocketInv, SSDPInv, ServingInv
  <2>4. DrainInv'
    BY <1>1 DEF TakeSignal, Inv, LifeTypeOK, ServingInv, DrainInv, Busy
  <2>5. CutInv'
    BY <1>1 DEF TakeSignal, Inv, CutInv, CutAtDeadline
  <2> QED BY <2>2, <2>3, <2>4, <2>5 DEF Inv
<1>2. CASE WaitSSDP
  <2>1. main' \in Steps
    BY <1>2 DEF WaitSSDP, Steps, Starting, Stopping
  <2>2. LifeTypeOK'
    BY <2>1, <1>2 DEF WaitSSDP, Inv, LifeTypeOK
  <2>3. SocketInv' /\ SSDPInv' /\ ServingInv'
    BY <1>2 DEF WaitSSDP, Inv, LifeTypeOK, SocketInv, SSDPInv, ServingInv
  <2>4. DrainInv'
    BY <1>2 DEF WaitSSDP, Inv, LifeTypeOK, ServingInv, DrainInv, Busy
  <2>5. CutInv'
    BY <1>2 DEF WaitSSDP, Inv, CutInv, CutAtDeadline
  <2> QED BY <2>2, <2>3, <2>4, <2>5 DEF Inv
<1>3. CASE Cancel
  <2>1. main' \in Steps
    BY <1>3 DEF Cancel, Steps, Starting, Stopping
  <2>2. LifeTypeOK'
    BY <2>1, <1>3 DEF Cancel, Inv, LifeTypeOK
  <2>3. SocketInv' /\ SSDPInv' /\ ServingInv'
    BY <1>3 DEF Cancel, Inv, LifeTypeOK, SocketInv, SSDPInv, ServingInv
  <2>4. DrainInv'
    BY <1>3 DEF Cancel, Inv, LifeTypeOK, ServingInv, DrainInv, Busy
  <2>5. CutInv'
    BY <1>3 DEF Cancel, Inv, CutInv, CutAtDeadline
  <2> QED BY <2>2, <2>3, <2>4, <2>5 DEF Inv
<1>4. CASE CloseServer
  <2>1. main' \in Steps
    BY <1>4 DEF CloseServer, Close, Steps, Starting, Stopping
  <2>2. LifeTypeOK'
    BY <2>1, <1>4 DEF CloseServer, Close, Inv, LifeTypeOK
  <2>3. SocketInv' /\ SSDPInv' /\ ServingInv'
    <3>1. DOMAIN socket = Server /\ DOMAIN serving = Server
      BY DEF Inv, LifeTypeOK
    <3>2. SocketInv'
      BY <1>4, <3>1 DEF CloseServer, Close, Inv, SocketInv
    <3>3. SSDPInv'
      <4>1. UNCHANGED <<ssdp, announced>> /\ main \notin {"started", "quit", "wait"}
        BY <1>4 DEF CloseServer, Close
      <4> QED BY <4>1 DEF Inv, SSDPInv
    <3>4. ServingInv'
      BY <1>4, <3>1 DEF CloseServer, Close, Inv, ServingInv
    <3> QED BY <3>2, <3>3, <3>4
  <2>4. DrainInv'
    BY <1>4 DEF CloseServer, Close, Inv, LifeTypeOK, ServingInv, DrainInv, Busy
  <2>5. CutInv'
    BY <1>4 DEF CloseServer, Close, Inv, CutInv, CutAtDeadline
  <2> QED BY <2>2, <2>3, <2>4, <2>5 DEF Inv
<1>5. CASE Drain
  <2>1. main' \in Steps
    BY <1>5 DEF Drain, Steps, Starting, Stopping
  <2>2. LifeTypeOK'
    BY <2>1, <1>5 DEF Drain, Inv, LifeTypeOK
  <2>3. SocketInv' /\ SSDPInv' /\ ServingInv'
    BY <1>5 DEF Drain, Inv, LifeTypeOK, SocketInv, SSDPInv, ServingInv
  <2>4. DrainInv'
    BY <1>5 DEF Drain, Inv, LifeTypeOK, ServingInv, DrainInv, Busy
  <2>5. CutInv'
    BY <1>5 DEF Drain, Inv, CutInv, CutAtDeadline
  <2> QED BY <2>2, <2>3, <2>4, <2>5 DEF Inv
<1>6. CASE Return
  <2>1. ~expired => {r \in Request : handling[r] # Closed} = {}
    BY <1>6 DEF Return, Inv, LifeTypeOK, DrainInv, Busy
  <2>2. LifeTypeOK'
    BY <1>6 DEF Return, End, Inv, LifeTypeOK
  <2>3. SocketInv' /\ SSDPInv' /\ ServingInv'
    BY <1>6 DEF Return, End, Inv, SocketInv, SSDPInv, ServingInv
  <2>4. DrainInv'
    BY <1>6 DEF Return, End, Inv, DrainInv, Busy
  <2>5. CutInv'
    BY <1>6, <2>1 DEF Return, End, CutInv, CutAtDeadline
  <2> QED BY <2>2, <2>3, <2>4, <2>5 DEF Inv
<1> QED BY <1>1, <1>2, <1>3, <1>4, <1>5, <1>6 DEF Down

(* A signal comes, the deadline passes, or main and the responder meet.    *)
LEMMA SignalsKeep == Inv /\ (Interrupt \/ Expire \/ Quit) => Inv'
<1> SUFFICES ASSUME Inv, Interrupt \/ Expire \/ Quit PROVE Inv'
  OBVIOUS
<1>1. CASE Interrupt
  <2>1. LifeTypeOK'
    BY <1>1 DEF Interrupt, Inv, LifeTypeOK
  <2>2. SocketInv' /\ SSDPInv' /\ ServingInv'
    BY <1>1 DEF Interrupt, Inv, LifeTypeOK, SocketInv, SSDPInv, ServingInv
  <2>3. DrainInv'
    BY <1>1 DEF Interrupt, Inv, LifeTypeOK, ServingInv, DrainInv, Busy
  <2>4. CutInv'
    BY <1>1 DEF Interrupt, Inv, CutInv, CutAtDeadline
  <2> QED BY <2>1, <2>2, <2>3, <2>4 DEF Inv
<1>2. CASE Expire
  <2>1. LifeTypeOK'
    BY <1>2 DEF Expire, Inv, LifeTypeOK
  <2>2. SocketInv' /\ SSDPInv' /\ ServingInv'
    BY <1>2 DEF Expire, Inv, LifeTypeOK, SocketInv, SSDPInv, ServingInv
  <2>3. DrainInv'
    BY <1>2 DEF Expire, Inv, LifeTypeOK, ServingInv, DrainInv, Busy
  <2>4. CutInv'
    BY <1>2 DEF Expire, Inv, CutInv, CutAtDeadline
  <2> QED BY <2>1, <2>2, <2>3, <2>4 DEF Inv
<1>3. CASE Quit
  <2>1. main' \in Steps
    BY <1>3 DEF Quit, Steps, Starting, Stopping
  <2>2. LifeTypeOK'
    BY <2>1, <1>3 DEF Quit, Inv, LifeTypeOK
  <2>3. SocketInv' /\ SSDPInv' /\ ServingInv'
    BY <1>3 DEF Quit, Inv, LifeTypeOK, SocketInv, SSDPInv, ServingInv
  <2>4. DrainInv'
    BY <1>3 DEF Quit, Inv, LifeTypeOK, ServingInv, DrainInv, Busy
  <2>5. CutInv'
    BY <1>3 DEF Quit, Inv, CutInv, CutAtDeadline
  <2> QED BY <2>2, <2>3, <2>4, <2>5 DEF Inv
<1> QED BY <1>1, <1>2, <1>3

(* The responder takes a step.                                             *)
LEMMA ResponderKeeps == Inv /\ (Responder \/ Tick) => Inv'
<1> SUFFICES ASSUME Inv, Responder \/ Tick PROVE Inv'
  OBVIOUS
<1>1. CASE End("panic")
  BY <1>1, EndKeeps
<1>2. CASE Advertise
  <2>1. LifeTypeOK'
    BY <1>2 DEF Advertise, Inv, LifeTypeOK
  <2>2. SocketInv' /\ SSDPInv' /\ ServingInv'
    BY <1>2 DEF Advertise, Inv, LifeTypeOK, SocketInv, SSDPInv, ServingInv
  <2>3. DrainInv'
    BY <1>2 DEF Advertise, Inv, LifeTypeOK, ServingInv, DrainInv, Busy
  <2>4. CutInv'
    BY <1>2 DEF Advertise, Inv, CutInv, CutAtDeadline
  <2> QED BY <2>1, <2>2, <2>3, <2>4 DEF Inv
<1>3. CASE TickDone
  <2>1. LifeTypeOK'
    BY <1>3 DEF TickDone, Inv, LifeTypeOK
  <2>2. SocketInv' /\ SSDPInv' /\ ServingInv'
    BY <1>3 DEF TickDone, Inv, LifeTypeOK, SocketInv, SSDPInv, ServingInv
  <2>3. DrainInv'
    BY <1>3 DEF TickDone, Inv, LifeTypeOK, ServingInv, DrainInv, Busy
  <2>4. CutInv'
    BY <1>3 DEF TickDone, Inv, CutInv, CutAtDeadline
  <2> QED BY <2>1, <2>2, <2>3, <2>4 DEF Inv
<1>4. CASE Bye /\ ssdp' = "gone" /\ announced' = FALSE /\ UNCHANGED <<main, how, stop, told, servers, broken, mqtt, expired, cut>>
  <2>1. LifeTypeOK'
    BY <1>4 DEF Bye, Inv, LifeTypeOK
  <2>2. SocketInv' /\ SSDPInv' /\ ServingInv'
    BY <1>4 DEF Bye, Inv, LifeTypeOK, SocketInv, SSDPInv, ServingInv
  <2>3. DrainInv'
    BY <1>4 DEF Bye, Inv, LifeTypeOK, ServingInv, DrainInv, Busy
  <2>4. CutInv'
    BY <1>4 DEF Bye, Inv, CutInv, CutAtDeadline
  <2> QED BY <2>1, <2>2, <2>3, <2>4 DEF Inv
<1>5. CASE Tick /\ ssdp' = "alive" /\ UNCHANGED <<main, how, stop, told, servers, broken, announced, mqtt, expired, cut>>
  <2>1. LifeTypeOK'
    BY <1>5 DEF Tick, Inv, LifeTypeOK
  <2>2. SocketInv' /\ SSDPInv' /\ ServingInv'
    BY <1>5 DEF Tick, Inv, LifeTypeOK, SocketInv, SSDPInv, ServingInv
  <2>3. DrainInv'
    BY <1>5 DEF Tick, Inv, LifeTypeOK, ServingInv, DrainInv, Busy
  <2>4. CutInv'
    BY <1>5 DEF Tick, Inv, CutInv, CutAtDeadline
  <2> QED BY <2>1, <2>2, <2>3, <2>4 DEF Inv
<1> QED BY <1>1, <1>2, <1>3, <1>4, <1>5 DEF Responder, Bye, Tick

(* A server starts to accept.                                              *)
LEMMA ServeRunsKeeps == ASSUME Inv, NEW s \in Server, ServeRuns(s) PROVE Inv'
<1>1. LifeTypeOK'
  BY DEF ServeRuns, Inv, LifeTypeOK
<1>2. SocketInv' /\ SSDPInv' /\ ServingInv'
  BY DEF ServeRuns, Inv, LifeTypeOK, SocketInv, SSDPInv, ServingInv
<1>3. DrainInv'
  BY DEF ServeRuns, Inv, LifeTypeOK, ServingInv, DrainInv, Busy
<1>4. CutInv'
  BY DEF ServeRuns, Inv, CutInv, CutAtDeadline
<1> QED BY <1>1, <1>2, <1>3, <1>4 DEF Inv

(* A server that is over takes in nobody.                                  *)
LEMMA AcceptKeeps ==
    ASSUME Inv, NEW s \in Server, NEW r \in Request, Accept(r, s)
    PROVE  Inv'
<1>1. LifeTypeOK'
  BY DEF Accept, Inv, LifeTypeOK
<1>2. SocketInv' /\ SSDPInv' /\ ServingInv'
  BY DEF Accept, Inv, SocketInv, SSDPInv, ServingInv
<1>3. \A t \in Server : t # s => (Busy(t)' => Busy(t))
  BY DEF Accept, Inv, LifeTypeOK, Busy
<1>4. DrainInv'
  BY <1>3 DEF Accept, Inv, ServingInv, DrainInv
<1>5. CutInv'
  BY DEF Accept, Inv, CutInv, CutAtDeadline
<1> QED BY <1>1, <1>2, <1>4, <1>5 DEF Inv

(* A handler that answers leaves its server.                               *)
LEMMA AnswerKeeps == ASSUME Inv, NEW r \in Request, Answer(r) PROVE Inv'
<1>1. LifeTypeOK'
  BY DEF Answer, Inv, LifeTypeOK
<1>2. SocketInv' /\ SSDPInv' /\ ServingInv'
  BY DEF Answer, Inv, SocketInv, SSDPInv, ServingInv
<1>3. \A t \in Server : Busy(t)' => Busy(t)
  BY DEF Answer, Inv, LifeTypeOK, Busy
<1>4. DrainInv'
  BY <1>3 DEF Answer, Inv, DrainInv
<1>5. CutInv'
  BY DEF Answer, Inv, CutInv, CutAtDeadline
<1> QED BY <1>1, <1>2, <1>4, <1>5 DEF Inv

(* Every step of the process keeps the invariant.                          *)
LEMMA LifeNext == Inv /\ [Next]_vars => Inv'
<1> SUFFICES ASSUME Inv, [Next]_vars PROVE Inv'
  OBVIOUS
<1>1. ASSUME NEW s \in Server, ServeFails(s) PROVE Inv'
  BY <1>1, EndKeeps DEF ServeFails
<1>2. CASE UNCHANGED vars
  <2>1. LifeTypeOK'
    BY <1>2 DEF vars, Inv, LifeTypeOK
  <2>2. SocketInv' /\ SSDPInv' /\ ServingInv'
    BY <1>2 DEF vars, Inv, LifeTypeOK, SocketInv, SSDPInv, ServingInv
  <2>3. DrainInv'
    BY <1>2 DEF vars, Inv, LifeTypeOK, ServingInv, DrainInv, Busy
  <2>4. CutInv'
    BY <1>2 DEF vars, Inv, CutInv, CutAtDeadline
  <2> QED BY <2>1, <2>2, <2>3, <2>4 DEF Inv
<1> QED BY <1>1, <1>2, UpKeeps, DownKeeps, SignalsKeep, ResponderKeeps, ServeRunsKeeps,
           AcceptKeeps, AnswerKeeps DEF Next

(* The inductive invariant of the life cycle: how far main has got decides *)
(* what the servers and the responder can be doing.                        *)
THEOREM LifeInvariance == Spec => []Inv
BY LifeInit, LifeNext, PTL DEF Spec

(* The variables keep their types.                                         *)
THEOREM LifeTypeCorrect == Spec => []LifeTypeOK
<1>1. Inv => LifeTypeOK
  BY DEF Inv
<1> QED BY <1>1, LifeInvariance, PTL

(* A process that ends by main, with the deadline not passed, has answered *)
(* every request it took (Shutdown of both servers in Start's function).   *)
THEOREM CutHolds == Spec => []CutAtDeadline
<1>1. Inv => CutAtDeadline
  BY DEF Inv, CutInv
<1> QED BY <1>1, LifeInvariance, PTL

(* While the bridge is announced by SSDP its HTTP listener is open.        *)
THEOREM AnnouncementHolds == Spec => []AnnouncedIsServed
<1>1. Inv => AnnouncedIsServed
  BY DEF Inv, SSDPInv, SocketInv, AnnouncedIsServed
<1> QED BY <1>1, LifeInvariance, PTL

------------------------------------------------------------------------------
(* The whitelist under the life cycle                                      *)

(* The theorems about the whitelist, by name                               *)
WLP == INSTANCE WhitelistProofs

(* The process has loaded the whitelist when main is past that, which is   *)
(* before there is a server, and a request works on the whitelist while it *)
(* is one the HTTPS server took in.                                        *)
Glue == /\ status = "up" <=> Alive /\ main # "load"
        /\ \A r \in Request : pc[r] # "idle" <=> status = "up" /\ handling[r] = "https"
        /\ main = "load" => /\ \A s \in Server : serving[s] = "none"
                           /\ \A r \in Request : handling[r] = Closed

(* While no save has failed and none is under way the file is the map.     *)
NoSave == \A r \in Request : pc[r] \notin {"save", "write"}
Intact == status = "up" /\ ~spoilt =>
             /\ \A r \in Request : pc[r] # "rollback"
             /\ NoSave /\ file # "none" => file # "torn" /\ saved = whitelist

------------------------------------------------------------------------------
(* The whitelist's part                                                    *)

(* The steps, as Bridge and as the theorems name them.                     *)
LEMMA SameSteps == WL!Next => WLP!Next
BY DEF WL!NoRequest, WLP!NoRequest, WL!Next, WLP!Next,
   WL!Die, WLP!Die, WL!Start, WLP!Start, WL!StartRefused, WLP!StartRefused,
   WL!Arrival, WLP!Arrival, WL!Register, WLP!Register, WL!Fresh, WLP!Fresh,
   WL!Accept, WLP!Accept, WL!Delete, WLP!Delete, WL!Get, WLP!Get, WL!Wait,
   WLP!Wait, WL!Run, WLP!Run, WL!Authenticate, WLP!Authenticate, WL!Goto, WLP!Goto,
   WL!Finish, WLP!Finish, WL!Lock, WLP!Lock, WL!CountLights, WLP!CountLights,
   WL!Mutate, WLP!Mutate, WL!SaveSkipped, WLP!SaveSkipped, WL!SaveOpen,
   WLP!SaveOpen, WL!SaveWrite, WLP!SaveWrite, WL!Commit, WLP!Commit, WL!Rollback,
   WLP!Rollback, WL!ReadPointer, WLP!ReadPointer, WL!Render, WLP!Render,
   WL!Persistent, WLP!Persistent, WL!disk, WLP!disk,
   WL!clients, WLP!clients

(* Every step of the bridge is one of the whitelist, or leaves it alone.   *)
LEMMA WhitelistStep == [BridgeNext]_bridgeVars => [WL!Next]_wlVars
<1>1. ASSUME Gone PROVE [WL!Next]_wlVars
  BY <1>1 DEF Gone, WL!Next
<1>2. LoadWhitelist => WL!Next
  BY DEF LoadWhitelist, WL!Next
<1>3. ASSUME NEW r \in Request, Call(r) \/ Handle(r) PROVE WL!Next
  BY <1>3 DEF Call, Handle, WL!Next
<1> QED BY <1>1, <1>2, <1>3 DEF BridgeNext, BringUp, Step, Describe, Crash, Reboot, bridgeVars

(* The same, as the theorems about the whitelist name it                   *)
LEMMA BridgeIsWLP == BridgeSpec => WLP!Spec
<1>1. BridgeInit => WLP!Init
  BY DEF BridgeInit, WL!Init, WLP!Init, WL!NoRequest, WLP!NoRequest
<1>2. [BridgeNext]_bridgeVars => [WLP!Next]_(WLP!vars)
  BY WhitelistStep, SameSteps DEF wlVars, WLP!vars, WLP!code, WLP!clients
<1> QED BY <1>1, <1>2, PTL DEF BridgeSpec, WLP!Spec

(* The whitelist of a bridge that starts, stops and dies as the life cycle *)
(* says is the whitelist of Whitelist: what is true of that one is true    *)
(* of this.                                                                *)
THEOREM BridgeIsWhitelist == BridgeSpec => WL!Spec
<1>1. BridgeInit => WL!Init
  BY DEF BridgeInit
<1>2. [BridgeNext]_bridgeVars => [WL!Next]_(WL!vars)
  BY WhitelistStep DEF wlVars, WL!vars, WL!code, WL!clients
<1> QED BY <1>1, <1>2, PTL DEF BridgeSpec, WL!Spec

(* So, whatever ends the process and whichever saves fail, no user that    *)
(* was deleted is in the whitelist again, ...                              *)
THEOREM BridgeUsersHold == BridgeSpec => []RevokedStayRevoked
<1>1. WLP!RevokedStayRevoked => RevokedStayRevoked
  BY DEF RevokedStayRevoked, WL!RevokedStayRevoked, WLP!RevokedStayRevoked
<1> QED BY <1>1, BridgeIsWLP, WLP!RevocationHolds, BridgeAssumption, PTL

(* ... and no request that comes in after the answer gets through with it. *)
THEOREM BridgeRefusalHolds == BridgeSpec => []RevokedRefused
<1>1. WLP!RevokedRefused => RevokedRefused
  BY DEF RevokedRefused, WL!RevokedRefused, WLP!RevokedRefused
<1> QED BY <1>1, BridgeIsWLP, WLP!RefusalHolds, BridgeAssumption, PTL

------------------------------------------------------------------------------
(* The process's part                                                      *)

USE DEF Server, Closed, HttpGone, HttpOpen, Alive, servers, responder

(* Steps of the process that are no request's, and not the loading         *)
Own == \/ Listen \/ StartMQTT \/ Serve \/ MDNS \/ StartSSDP \/ Down \/ Quit
       \/ Interrupt \/ Expire \/ Responder \/ Tick \/ (Alive /\ End("killed"))
       \/ \E s \in Server : ServeRuns(s) \/ ServeFails(s)

(* They happen in a process past the loading, and in no handler, but for   *)
(* the signals that may come before.                                       *)
OwnStep == /\ Alive /\ handling' = handling
           /\ main' = "load" <=> main = "load"
           /\ main = "load" => serving' = serving \/ \E s \in Server : serving[s] = "spawned"
LEMMA OwnSteps == Own => OwnStep
<1> USE DEF OwnStep
<1>1. Listen \/ StartMQTT \/ Serve \/ MDNS \/ StartSSDP => OwnStep
  BY DEF Listen, Opened, StartMQTT, Serve, Spawned, MDNS, StartSSDP, End
<1>2. Down \/ Quit => OwnStep
  BY DEF Down, TakeSignal, WaitSSDP, Cancel, CloseServer, Close, Drain, Return, End, Quit
<1>3. Interrupt \/ Expire \/ Responder \/ Tick \/ (Alive /\ End("killed")) => OwnStep
  BY DEF Interrupt, Expire, Responder, Advertise, TickDone, Bye, Tick, End
<1>4. ASSUME NEW s \in Server, ServeRuns(s) \/ ServeFails(s)
      PROVE  OwnStep
  BY <1>4 DEF ServeRuns, ServeFails, End
<1> QED BY <1>1, <1>2, <1>3, <1>4 DEF Own

(* The steps of the bridge, sorted by what they do to the handlers         *)
LEMMA Kinds ==
    ASSUME BridgeNext
    PROVE  \/ LoadWhitelist \/ Step(Own) \/ Reboot
           \/ \E r \in Request : Describe(r) \/ Call(r) \/ Handle(r)
BY DEF BridgeNext, BringUp, Step, Own, Crash

(* The life cycle's invariant survives being killed and started again.     *)
LEMMA ProcessNext == Inv /\ [BridgeNext]_bridgeVars => Inv'
<1>1. Reboot => Inv'
  BY DEF Reboot, Inv, LifeTypeOK, Steps, SocketInv, SSDPInv, ServingInv, DrainInv, CutInv,
         CutAtDeadline, Starting
<1>2. ASSUME Inv, Alive /\ End("killed") PROVE Inv'
  BY <1>2, EndKeeps
<1>3. [BridgeNext]_bridgeVars => [Next]_vars \/ Reboot \/ (Alive /\ End("killed"))
  BY DEF BridgeNext, BringUp, LoadWhitelist, Step, Describe, Call, Handle, Crash, Next, Up,
         bridgeVars, Server
<1> QED BY <1>1, <1>2, <1>3, LifeNext

(* The invariant of the life cycle holds for every process in a row.       *)
THEOREM ProcessInvariance == BridgeSpec => []Inv
<1>1. BridgeInit => Inv
  BY LifeInit DEF BridgeInit
<1> QED BY <1>1, ProcessNext, PTL DEF BridgeSpec

(* What the life cycle promises by itself, it promises here.               *)
THEOREM ProcessHolds ==
    BridgeSpec => [](LifeTypeOK /\ CutAtDeadline /\ AnnouncedIsServed)
<1>1. Inv => LifeTypeOK /\ CutAtDeadline /\ AnnouncedIsServed
  BY DEF Inv, CutInv, SSDPInv, SocketInv, AnnouncedIsServed
<1> QED BY <1>1, ProcessInvariance, PTL

------------------------------------------------------------------------------
(* Both together                                                           *)

(* The functions of the handlers                                           *)
Typed == pc \in [Request -> WLP!Steps] /\ handling \in [Request -> Server \cup {Closed}]

(* The start                                                               *)
LEMMA GlueInit == BridgeInit => Glue /\ Intact
BY DEF BridgeInit, Init, WL!Init, Glue, Intact

(* The end of the process leaves no handler, and no map.                   *)
LEMMA GoneKeeps == ASSUME Glue, OwnStep, Gone, ~Alive' PROVE Glue' /\ Intact'
BY DEF OwnStep, Gone, Glue, Intact, WL!Die, wlVars

(* A request that works on the whitelist is where its handler is.          *)
LEMMA HandlePc ==
    ASSUME Typed, NEW r \in Request, WL!Wait(r) \/ WL!Run(r)
    PROVE  /\ pc[r] # "idle" /\ UNCHANGED status
           /\ \A q \in Request : q # r => pc'[q] = pc[q]
<1>1. CASE WL!Wait(r)
  BY <1>1 DEF WL!Wait, WL!Authenticate, WL!Lock, WL!CountLights, WL!Goto, WL!Finish, Typed
<1>2. CASE WL!Run(r)
  BY <1>2 DEF WL!Run, WL!Mutate, WL!SaveSkipped, WL!SaveOpen, WL!SaveWrite, WL!Commit,
     WL!Rollback, WL!ReadPointer, WL!Render, WL!Goto, WL!Finish, Typed
<1> QED BY <1>1, <1>2

(* A handler keeps the file and the map the same, or its save is not over, *)
(* or it failed.                                                           *)
LEMMA HandleKeepsIntact ==
    ASSUME Typed, Intact, NEW r \in Request, Handle(r)
    PROVE  Intact'
<1>1. CASE WL!Wait(r)
  BY <1>1 DEF Handle, Intact, NoSave, WL!Wait, WL!Authenticate, WL!Lock, WL!CountLights,
     WL!Goto, WL!Finish, WL!disk, Typed
<1>2. CASE WL!Mutate(r) \/ WL!SaveSkipped(r)
  BY <1>2 DEF Handle, Intact, NoSave, WL!Mutate, WL!SaveSkipped, WL!Goto, WL!disk,
     WL!Persistent, Typed
<1>3. CASE WL!SaveOpen(r)
  BY <1>3 DEF Handle, Intact, NoSave, WL!SaveOpen, WL!Goto, WL!disk, WL!Persistent, Typed
<1>4. CASE WL!SaveWrite(r)
  BY <1>4 DEF Handle, Intact, NoSave, WL!SaveWrite, WL!Goto, WL!disk, Typed
<1>5. CASE WL!Commit(r) \/ WL!ReadPointer(r) \/ WL!Render(r)
  BY <1>5 DEF Handle, Intact, NoSave, WL!Commit, WL!ReadPointer, WL!Render, WL!Goto,
     WL!Finish, WL!disk, Typed
<1>6. CASE WL!Rollback(r)
  BY <1>6 DEF Handle, Intact, WL!Rollback
<1> QED BY <1>1, <1>2, <1>3, <1>4, <1>5, <1>6 DEF Handle, WL!Run

(* Every step of the bridge keeps the two together.                        *)
LEMMA GlueNext ==
    ASSUME Typed, Glue, Intact, [BridgeNext]_bridgeVars
    PROVE  Glue' /\ Intact'
<1>1. CASE LoadWhitelist
  BY <1>1 DEF LoadWhitelist, Load, End, WL!Start, WL!StartRefused, WL!clients, WL!disk,
     Glue, Intact, NoSave
<1>2. CASE Step(Own)
  <2>1. CASE Alive' /\ UNCHANGED wlVars
    BY <1>2, <2>1, OwnSteps DEF Step, OwnStep, wlVars, Glue, Intact, NoSave
  <2> QED BY <1>2, <2>1, OwnSteps, GoneKeeps DEF Step
<1>3. CASE Reboot
  BY <1>3 DEF Reboot, wlVars, Glue, Intact, NoSave
<1>4. ASSUME NEW r \in Request, Describe(r) PROVE Glue' /\ Intact'
  BY <1>4 DEF Describe, Step, Accept, Answer, Gone, wlVars, Glue, Intact, NoSave, Typed
<1>5. ASSUME NEW r \in Request, Call(r) PROVE Glue' /\ Intact'
  BY <1>5 DEF Call, Accept, WL!Arrival, WL!Register, WL!Delete, WL!Get, WL!Accept,
     WL!disk, Glue, Intact, NoSave, Typed
<1>6. ASSUME NEW r \in Request, Handle(r) PROVE Glue' /\ Intact'
  <2>1. pc[r] # "idle" /\ UNCHANGED status /\ \A q \in Request : q # r => pc'[q] = pc[q]
    BY <1>6, HandlePc DEF Handle
  <2>2. Glue'
    BY <1>6, <2>1 DEF Handle, Answer, vars, Glue, Typed
  <2> QED BY <1>6, <2>2, HandleKeepsIntact
<1>7. CASE UNCHANGED bridgeVars
  BY <1>7 DEF bridgeVars, vars, wlVars, Glue, Intact, NoSave
<1> QED BY <1>1, <1>2, <1>3, <1>4, <1>5, <1>6, <1>7, Kinds

(* A process that ends by main before the deadline has no handler left, so *)
(* no save is under way.                                                   *)
LEMMA GracefulStep ==
    ASSUME Inv, Typed, Glue, Intact, [BridgeNext]_bridgeVars,
           how # "done", how' = "done", ~expired, ~spoilt, file # "none"
    PROVE  file' # "torn" /\ saved' = whitelist
<1>1. Return /\ Gone
  BY DEF BridgeNext, BringUp, LoadWhitelist, Load, Step, Listen, Opened, StartMQTT, Serve,
     Spawned, MDNS, StartSSDP, Down, TakeSignal, WaitSSDP, Cancel, CloseServer, Close, Drain,
     Return, Quit, Interrupt, Expire, Responder, Advertise, TickDone, Bye, Tick, End, Crash,
     Reboot, ServeRuns, ServeFails, Describe, Accept, Answer, Call, Handle, bridgeVars, vars
<1>2. status = "up" /\ \A r \in Request : pc[r] = "idle"
  BY <1>1 DEF Return, Inv, DrainInv, Busy, Glue
<1>3. file # "torn" /\ saved = whitelist
  BY <1>2 DEF Intact, NoSave
<1> QED BY <1>1, <1>2, <1>3 DEF Gone, WL!Die, WL!disk

(* The end of main, when it had the time to answer what it took in and no  *)
(* save failed, leaves the users in the file (Start's shutdown function,   *)
(* saveWhitelistToFile).                                                   *)
THEOREM GracefulStopHolds == BridgeSpec => GracefulStopKeepsUsers
<1>1. Inv /\ WLP!TypeOK => Typed
  BY DEF Inv, LifeTypeOK, WLP!TypeOK, Typed
<1>2. BridgeSpec => [](Inv /\ WLP!TypeOK)
  BY ProcessInvariance, BridgeIsWLP, WLP!TypeCorrect, BridgeAssumption, PTL
<1>3. BridgeSpec => [](Glue /\ Intact)
  BY <1>1, <1>2, GlueInit, GlueNext, PTL DEF BridgeSpec
<1> QED BY <1>1, <1>2, <1>3, GracefulStep, PTL DEF BridgeSpec, GracefulStopKeepsUsers
================================================================================
