# Färgton in TLA+

Färgton is a Go program that emulates a Philips Hue bridge in front of Hemtjänst
lamps, which it reaches over MQTT. This directory holds TLA+ modules that model
its core, TLC configurations that check them on small instances, and proofs that
TLAPS checks for every value of the constants. Paths such as
`src/bridge/lights.go` are relative to the repository; `PROJECT.json` maps every
definition to the lines it models.

    tlc -config MCWhitelist.cfg MCWhitelist            # one run
    tlapm WhitelistProofs.tla                          # one module of proofs

## 1. The system

### Components

| component | source | state | operations |
|---|---|---|---|
| Whitelist and registration | `registration.go`, `server.go` (load and save), `middleware.go`, `config.go` | the map `s.config.Whitelist`, the `RWMutex` of the configuration, `whitelist.json` | `registerUser`, `deleteUser`, `saveWhitelistToFile`, `loadWhitelistFromFile`, `Authenticate`, the handlers that render the configuration |
| Light and group control | `lights.go`, `groups.go` | none of its own; it reads the values the MQTT library caches and sends Sets | `lightUpdateState`, `groupUpdateState`, `lightStateUpdate.Bind`, `updateLightState` |
| Converters | `converters.go` | none | brightness, colour temperature, colour, dates, strings |
| Life cycle | `cmd/fargton/main.go`, `server.go` (`Start` and the function it returns), `discovery.go` | listeners, goroutines, the MQTT client, the channels `stop` and `quitSSDP`, the deadline of the stop | `Start`, the signal, shutdown, `Serve`, `newSSDPResponder` |
| Prefetch | `server.go` (in `Start`) | a `WaitGroup`, the loop variable | one goroutine per lamp and feature |
| Catalogue | `lights.go`, `groups.go` (GET), `server.go` (`getConfigAndData`) | the counters `config.lights` and `config.groups` | listing of lights and groups, by id or all |
| Discovery documents | `discovery.go` | none | `description.xml`, the mDNS record |
| Sensors | `sensors.go` | none | the daylight sensor: is it between sunrise and sunset |
| Configuration | `config.go` | the options | `NewConfig` and its options, the two views of the configuration |
| Capabilities | `capabilities.go` | none | counts of lights and users |
| Errors, dummies, logging | `errors.go`, `dummy.go`, `logger.go` | none | constant answers, a log line per request |

### How they interact

`main` builds a configuration, calls `Start` and waits for a signal. `Start` loads
the whitelist, opens two listeners, connects the MQTT client and waits for the first
values of the lamps, then runs two HTTP servers, the mDNS and the SSDP responder as
goroutines, and returns the function that stops them. Every HTTP request
is a goroutine of its own. It passes `Authenticate`, which takes the read lock of the
configuration for a moment, then its handler runs without the lock, unless it writes
the whitelist. Handlers for lamps exchange messages with the MQTT library only: `Set`
sends, `Value` returns the last publication that was delivered.

### What is hard about it

* **The lock is held across file I/O, and only by writers.** A save may fail at two
  places, one of them after the file has been truncated; a crash may come in between.
  What was changed in memory is not taken back: `oldwt` is the same map (section 2).
* **Readers of the whitelist take no lock.** `createAuthenticatedConfig` hands out the
  pointer, and the JSON encoder follows it later.
* **The lamps answer late, and may leave.** `updateLightState` decides, and computes increments,
  by values that trail what was already sent, with nothing to serialise two requests; a lamp is
  looked up two or three times in a request, and may be gone the next time.
* **A handler may panic in the middle**: an `xy` or `xy_inc` of fewer than two numbers does,
  after other settings have been sent.
* **Start-up and shutdown.** A signal may come while `Start` runs; the function that
  stops waits for a goroutine with an unbuffered channel and no deadline, and spends
  one deadline of ten seconds on two servers.
* **Goroutines share a loop variable** (`go.mod` says go 1.12).
* **Listings take no lock.** A listing asks for the devices once and for their values one by
  one, while lamps come, go and publish; GET of everything does so twice; the lock protects the
  counters it leaves and nothing else.
* **The process may end under a handler**: by the deadline of the stop, by the `Fatal` of
  another goroutine, or killed; and it may be started again.
* **Times of day on one date.** Sunrise and sunset are put on the UTC date of the clock.
* **Two integer scales** for brightness, rounded on each crossing.

### What makes each component correct

* Whitelist: who was told to be registered is so, in memory and on disk, until deleted;
  who was deleted never comes back; memory and file differ in no more than the changes that were
  answered with an error; a deleted caller is refused; every request is answered; and as a whole
  it is a durable set of users, in which failed changes stay in effect (`UserStore`).
* Light control: a request takes effect as a whole or not at all and its answer says which
  (`Lamp`); whatever the interleaving, refused requests send nothing, on goes first and
  off goes last, and a handler panics for a short array or a lamp that fails it, and for nothing
  else.
* Converters: dimming goes the way it was asked to go, steps show, and writing back what
  was read is harmless.
* Life cycle: a signal ends the process whenever it comes; no handler is cut off
  before the deadline; nobody is told by SSDP of a server that does not listen.
* Life cycle and whitelist together: a stop in time leaves a file with the users in memory.
* Catalogue: what is listed was there; no lamp is lost from a listing because of another; lights
  and groups of one answer agree on lamps nothing happened to; a counter is the count of a
  listing.
* Daylight: never day at night; right where it can be, and, as documented, right everywhere
  (it is not, see section 5).
* Prefetch: `Start` gets on, after all goroutines; every value was fetched (it is not,
  see section 5).

`PROJECT.json` lists the hazards one by one, each at its line with the properties
that watch it, or with the reason why none does.

## 2. The modules

| module | what it is |
|---|---|
| `UserStore` | abstract: a set of users changed one at a time; what succeeded survives a stop, what failed does so with the next success; or all is lost sight of as a whole |
| `Whitelist` | the detailed specification; refines `UserStore` |
| `WhitelistProofs` | invariants of `Whitelist`, and that it implements `UserStore` |
| `Lamp` | abstract: what a PUT promises of a lamp that is left alone |
| `LightControl` | the handlers step by step, the queues to and from the lamps, the lamps; refines `Lamp` |
| `LightControlProofs` | the order of the Sets of a request, that a refused one sends none, the types, and why a handler panics |
| `LightRefinement` | that `LightControl` implements `Lamp` for clients that leave a lamp alone until it has settled |
| `Converters` | the two scales and the increment, with Go's division |
| `Dimmer` | a lamp moved by increments and write-backs, one at a time; lemmas on the converters for every integer, and the proofs of its properties |
| `Lifecycle` | main, `Start`, shutdown, servers, handlers, SSDP |
| `Bridge` | composition: `Lifecycle` around `Whitelist`, with kills and restarts |
| `BridgeProofs` | invariants of `Lifecycle`; that the composition implements `Whitelist`, keeps what `Lifecycle` promises, and stops without losing users |
| `Prefetch` | the loop of `Start` and its goroutines |
| `PrefetchProofs` | the WaitGroup counts the goroutines; invariants of `Prefetch` |
| `Catalogue` | the GET listings and the counters, over lamps that come, go and publish |
| `CatalogueProofs` | what a listing shows and what the counters count |
| `Daylight` | the daylight sensor, with the proofs of its properties; its configurations check it directly |
| `MC*` | instances for TLC |

Operators described as mutants in their comments are variants with a plausible bug; each
property is broken by at least one of them, which shows that it constrains the code.

### Whitelist

The map is the set of its keys (`whitelist`); the entries' other fields (dates, names of
applications) are answered but decide nothing. `lock` is the writer that holds the
`RWMutex`; a read lock that is taken and released within one step is that step's guard
`lock = Free`. The file is absent, whole with the users `saved`, or
torn, which stands for any content that is not the JSON of a whole map.

| code | action |
|---|---|
| `registerUser` up to the lock | `Register` |
| `deleteUser`, `getConfig`, `getConfigAndData`: the request | `Delete`, `Get` |
| `Authenticate` | `Authenticate` |
| `Lock()` | `Lock` |
| `copier.Copy` and the change of the map | `Mutate` |
| `saveWhitelistToFile` | `SaveSkipped`, `SaveOpen` (truncates), `SaveWrite` |
| success, deferred `Unlock` | `Commit` |
| error, `Whitelist = &oldwt`, deferred `Unlock` | `Rollback` |
| the pointer taken by `createAuthenticatedConfig` | `ReadPointer` |
| the two listings of `getConfigAndData` | `CountLights` |
| the encoder | `Render` |
| the end of the process, at any point | `Die` |
| `loadWhitelistFromFile` | `Start`, `StartRefused` |

`copier.Copy(&oldwt, &wt)` is the library's (`jinzhu/copier`, pinned by `go.mod` to a commit of
March 2018, and not part of the repository). For a source that is assignable to its target that
commit assigns it, so `oldwt`, `wt` and the map of the configuration are one map as long as the
process runs. Hence `whitelist` is one variable; `Mutate` changes it before it is saved;
`Rollback`, which makes `oldwt` the map, takes nothing back; and `ReadPointer` can
take no pointer to another map. A user whose registration was answered with an error is a user
until the bridge stops, or for good if another save succeeds before; one whose deletion was
answered with an error is none until then. What can be asked of such a store is in
`MembersKept`, `RevokedStayRevoked` and `MemoryMatchesFile`, and as a whole in `UserStore`, whose
`Fail` changes the users and keeps nothing.

`known`, `members`, `revoked`, `before`, `loose` and the field `gone` of a request are what the
history and the clients know: `before` the users as the writer found them, `loose` those whose
change was answered with an error since the last save that succeeded. Only `known` guards
anything: `Fresh` uses it to say that `uuid.New` returns new names, and `Arrival` to send names
that were users at some time (all others are like `Nobody`).

When a writer changes the map while an encoder walks it, the Go runtime may end the
process; `Die` is enabled in every such state.

### LightControl

`lamp`, `queue`, `pub` and `seen` are external: lamps take Sets in order, ignore all but
`on` while they are off (which the comments of `updateLightState` rely on) and publish
what they took; `seen` is what `Value` returns. A handler is `FindLight` (lookup
and `Bind`), for groups `FindAgain` (the second lookup), `Check` (type of lamp,
off, or the list of steps to do), one `SetFeature` or `ReadFeature` for each call of `Set`
and `Value`, and `Done`. The order of the steps in `Program` is that of the code.
A handler panics, and is answered 500, in three places: in `FindAgain` and in `Check` when the
lamp it found is not to be found any more (`present` has the lamps that have not left), and
in `Panic`, at the step `Break` that stands for the index of an `xy` or `xy_inc` of fewer
than two numbers. Such an array is one the tables of colours do not have. What was
sent before the `Break` stays sent.
`Glitch` is the switch on the wall, a publication that does not parse, and a lamp that leaves
(and does not come back). Colours are
members of a small set and their conversion is a table, since the conversion is floating
point; brightness and colour temperature are integers. A `Garbage` value of `on` itself
is left out.

`Lamp` is what a client can count on when it waits until a lamp has settled
(`OneAtATime`): a request is asked, and then has its whole effect and is answered in one
step. The refinement mapping takes a lamp with a request under way to be as the request
found it, and otherwise as it will be once it has taken the Sets in its queue, so that
the step that takes effect is the answer. The mapping keeps the body as it came in, so
the effect is that of this body and not of any.

### Dimmer and Converters

`GoDiv` truncates towards zero as Go does. `bri_inc` crosses from Hemtjänst's 0..100 to
1..254, adds and crosses back, and nothing is clamped, so that levels leave the scale;
`Low` and `High` bound what is explored. The code's `int` has 64 bits; levels
near its limits are not modelled.

### Lifecycle

One variable for where main is, one for how the process ended, one each for listener and
goroutine of both servers, for the handlers, for the SSDP goroutine and for the deadline.
`End` is a `Fatal` of the logger, a panic, or the return of main: everything stops
at once, and `cut` records the handlers that were running. The listener of TLS has
its own way to fail: its error is assigned to a shadowed `err`, and `Addr` is asked of nil.

### Bridge

`Bridge` extends `Lifecycle` and instantiates `Whitelist` over the same `Request`, which are the
handlers of both. Each of its actions is a step of one or of both:

| action | `Lifecycle` | `Whitelist` |
|---|---|---|
| `LoadWhitelist` | `Load`, or its failure | `Start`, or `StartRefused` |
| `Call` | `Accept` on the HTTPS server | `Arrival` |
| `Handle` | `Answer`, in the step that ends the request | a step of `Wait` or `Run` |
| `Describe` | a request of the HTTP server, whose routes reach no user | |
| `Step(A)` | any other step `A` | `Die`, if `A` ends the process |
| `Crash` | the process is killed | `Die`, if the whitelist was loaded |
| `Reboot` | everything as at first | |

`spoilt` says that a save failed in this process, for `GracefulStopKeepsUsers`: a `Rollback`
leaves the map with the change, and a failed write leaves the file torn, and then nothing is
promised of the file.

### Catalogue

A request lists (`List`, or `FindLight` for `getLight`, which counts nothing), writes
the counter under the lock (`Count`), and then reads the features of the lamps in the order
of `newWhiteBulb`, `newColorTemperatureBulb` and `newRGBBulb`, one `ReadFeature` each. The lamps
come in any order, since the order of `DeviceByType` is the library's. A
value that does not parse drops the lamp. `ListAgain` is the second listing of
`getConfigAndData`; `CountGroups` the counter of `getGroups`, which no other path to
`createGroups` writes; `ReadLights` and `ReadGroups` are `getCapabilities`. The lamps and their
values are external and change in between. `had`, `steady`, `untouched` and `counts` are for
the properties only. That two topics may hash to one id is left out: ids are the lamps.

### Daylight

One place, by its sunrise and sunset in units of time from midnight UTC, so that either may be
on a neighbouring date; every such place with a day shorter than 24 hours around a noon of this
date. `IsDaylight` gives the set of answers: one where the times are on the date, and any time
of the day for one that is not, since what the library returns then cannot be read in
this repository. `ToMinute` drops the seconds as the code does. `Minute` is two
units, so that there is a time within a minute.

### Prefetch

`dev` is one variable that the loop and all goroutines share; a goroutine reads it twice,
for `Exists` and for `Value`.

## 3. The runs

| run | instance | what it shows |
|---|---|---|
| `whitelist` | 2 requests, 2 users, with and without a file; 174 466 states | the safety properties under every interleaving, failure of a save, crash and restart; refinement of `UserStore`; every request is answered |
| `whitelist_torn` | violation | a start that refuses the file the bridge wrote itself |
| `bridge` | 2 handlers, 1 user; 496 462 states | deleted users stay deleted and are refused under the life cycle, whatever ends the process; nobody cut before the deadline, announced is served, a stop in time keeps the users, a signal ends the process |
| `dimmer` | levels -60..220, 12 increments | the four properties of dimming |
| `light_alone` | 3 lamps, one of each type, 2 handlers, 2 requests, 10 bodies with whole arrays; 325 742 states | refinement of `Lamp`, answers that are true, no update to a lamp that is off |
| `light_racing` | 1 colour lamp, 2 handlers, 1 glitch, 6 bodies, two with short arrays; 2 870 365 states | refused requests send nothing; on first, off last; every panic is a short array's or a lamp's |
| `light_offreply` | violation | "Device is set to off" about a lamp that is on |
| `prefetch` | 2 lamps, 3 features; 3 733 states | `Start` waits for all and gets on; the last lamp is fetched as a whole |
| `prefetch_all` | violation | lamps that are never fetched |
| `catalogue` | 3 lamps, one hidden, 2 handlers, 2 requests of 6 kinds, 1 change; 709 019 states up to symmetry | what is listed was there; no lamp is lost for another; lights and groups agree; the counter is a count |
| `daylight` | a day of 24 units, every place and time; 347 784 states | never day at night; right near Greenwich |
| `daylight_far` | violation | night by day where midnight UTC is within the day |

### Bounds, and why they are enough

* *Whitelist.* Only `Request` and `User` are bounded. Two handlers give every pair of
  a writer and another writer, or a reader, at each of their steps; the second user
  leaves one to be deleted while another is registered.
  Nothing bounds the number of requests, crashes or restarts, except that
  names are fresh: with all users known, registrations end and the rest goes on. Authentication
  is enabled; the theorems hold for any users and either.
* *Bridge.* One user is enough for a handler to be cut in any step of a registration, a
  deletion or a listing while the other handler does another; the number of
  processes in a row is not bounded. What needs two users is checked in `whitelist`, and carried
  over by the theorem that the composition implements `Whitelist`.
* *Catalogue.* `MaxChanges` is 1: one change can come between any two reads of a listing, or
  between the two listings of one answer; the values to begin with include one that does
  not parse and a lamp that is not known yet. `MaxRequests` is 2, so that two listings overlap,
  or the second finds what the first left.
* *Daylight.* The time of day, the place and the hour have 24 units, with a minute of two: each
  order of clock, sunrise and sunset, on the dates before, of and after, and within the same
  minute. The theorems are for any.
* *LightControl.* `MaxRequests` is 2: one request leaves a lamp in a state the next one
  finds, and two are in flight at once. `MaxGlitches` is 1 in `light_racing`: one switch,
  nonsense or departure between any two steps of both handlers; it is 0 in `light_alone`,
  whose promise is to clients that nobody interferes with. The bodies have each
  parameter alone or combined with one that overrides it, is out of place, or is
  ordered against it. Hue, saturation and the table of colours have two entries that an
  increment turns into each other, so that mixing up old and new shows.
* *Dimmer.* Every level of the scale, and increments on both sides of the limit of
  four below which a step may be lost in rounding.
* *Lifecycle* (in `bridge`). Finite as it is; two handlers can be on one server or on both.
* *Prefetch.* Two lamps with different features: the shared variable can make a
  goroutine miss a feature or ask for one of the other lamp.

Deadlock is checked for the whitelist, the bridge, the dimmer and the sensor. The other systems
may stop: after the last request, and when `Start` serves.

### Fairness

* `Whitelist!FairSpec`: weak fairness for the steps of a handler that need nobody, strong
  fairness for those that wait for the lock. A `sync.RWMutex` starves neither side: a
  waiting writer holds off new readers, and its mutex hands over to the longest waiter.
  Arrivals, crashes and starts are not fair. That a file operation returns is assumed.
* `Bridge!FairBridge`: main and the responder run and time passes (weak); the handshake on
  `quitSSDP` is strongly fair because the responder comes back to its `select` again
  and again, and its ticker fires once in 60 seconds. Nothing is assumed of handlers:
  they may run for ever, and the process still ends. Crashes and reboots are not fair.
* `Prefetch!FairSpec`: each goroutine runs, and `Value` returns.

## 4. What is proved

| theorem | for |
|---|---|
| `WhitelistProofs!Invariance` | the inductive invariant `Inv` |
| `TypeCorrect`, `RevocationHolds`, `RefusalHolds` | any requests and users, with and without file and authentication |
| `KeptInvariance`, `MembershipHolds`, `MirrorHolds` | the same |
| `WhitelistProofs!WhitelistIsUserStore` | `Spec => ImplementsUserStore`, the same |
| `Dimmer!DimmerTypeCorrect`, `DimmerGoesItsWay`, `DimmerStepsShow`, `WriteBackStaysClose` | every bound and every set of increments |
| `BridgeProofs!LifeInvariance`, `LifeTypeCorrect`, `CutHolds`, `AnnouncementHolds` | any set of handlers |
| `BridgeProofs!BridgeIsWhitelist`, `BridgeUsersHold`, `BridgeRefusalHolds` | `BridgeSpec => WL!Spec`, and what follows for the users; any requests and users |
| `BridgeProofs!ProcessInvariance`, `ProcessHolds`, `GracefulStopHolds` | every process in a row, killed or not |
| `LightControlProofs!LightInvariance`, `RefusalsHold`, `OrderHolds` | any lamps, bodies, clients and bounds |
| `LightControlProofs!TypeInvariance`, `LightTypeCorrect`, `PanicsHold` | the same, for bodies and publications of the types they are decoded to (`ValueAssumption`), arrays of any length |
| `LightRefinement!AloneInvariance`, `UpdatesPropagateHolds`, `OffReplyHolds`, `PromiseIsKept` | any lamps, bodies, conversions and number of requests, assuming `OneAtATime`, `MaxGlitches = 0` and arrays of two numbers (`WholeBodies`) |
| `CatalogueProofs!CatalogueInvariance`, `ListingsAreTrue`, `NothingSteadyIsLost`, `BothListingsAgree`, `CountersAreTrue` | any lamps, requests and changes between any two steps |
| `PrefetchProofs!PrefetchInvariance`, `AllJoined`, `LastHolds` | any lamps and features |
| `Daylight!DaylightInvariance`, `NightHolds`, `GreenwichHolds` | every place, any resolution of the clock, any answer of the library for another date |

The assumptions on constants are stated in the modules that declare the constants. They
keep marker values (`Nobody`, `Free`, `Unknown`) apart from the others (`WhitelistAssumption`,
`LightAssumption`), put the bounds of the dimmer around its scale (`DimmerAssumption`),
say of what types bodies, published values and the table of colours are (`ValueAssumption`:
a lamp is found with a value of the right type for each of its features, the colours there are
have a hue and a saturation, and no integer is `Garbage`; an `xy` may also be none of these
colours), that a body has no other fields than the struct
`lightStateUpdate` (`BodyAssumption`), have the names of the features be distinct
(`PrefetchAssumption`), a day and a minute last (`DaylightAssumption`), and the requests of the
catalogue be about lamps there are (`CatalogueAssumption`).

`OneAtATime` and `MaxGlitches` are constants of `LightControl`: the first makes clients wait
until a lamp has settled before they ask for something else, the second bounds what lamps do by
themselves. What is proved under `OneAtATime` and `MaxGlitches = 0` does not hold
without: `light_offreply` is the counterexample. Nor does `KeepsPromise` hold of short arrays,
after which a part of the request is in effect: `WholeBodies` is the hypothesis that there are none.

**Whitelist.** None of the properties is inductive. That a deleted user stays away needs
to know what the map and the file are at each step of a writer: `LockInv` (only
the holder of the lock is between `Lock` and `Unlock`), `WriterInv` (the map is what the writer
found with the change applied, and what is on disk at each step), `FreshInv` and `KnownInv` (a
new name is in none of the sets, so a registration cannot bring back a deleted user). `Inv` is
their conjunction, with one lemma per action. `KeptInv` adds what relates the map and the file:
until the file is written it has, but for the loose users, those the writer found (`StepInv`),
and where the members are (`MembersInv`): only a deletion takes one out of the map, and already
ends the membership, whether its save succeeds or not. The steps
of readers are handled together by the lemma `QuietKeeps`.

**Refinement.** The users of the abstract store are those the writer found while a change is being
saved, the map otherwise, and none when the process is down. So a change takes effect
when the save is over: when the file has been written (`SaveWrite`, a `Succeed`), or when
a step of it has failed (a `Fail`, which changes the users and keeps nothing); `Commit` and
`Rollback` are stutters, and a crash keeps exactly what the file has. There is one lemma for
each kind of step.

**Converters.** The conversions are arithmetic over all integers: monotone, up
never dims, down never brightens, four steps up and one step down always show. The
properties of `Dimmer` follow step by step.

**Lifecycle.** `SocketInv` and `SSDPInv` tie what the responder announces to where main is,
`ServingInv` and `DrainInv` say that a server that has been closed takes nothing
and that, before the deadline, one that has been drained has no handler. `CutAtDeadline`
is about the moment main returns and needs all of them before.

**Bridge.** Every step of the composition is one of `Whitelist` or leaves its variables alone,
so the theorems of `WhitelistProofs` hold of it, used through an instance; and one of
`Lifecycle`, a kill or a reboot, so the invariant of the life cycle is kept (`ProcessNext`). What neither
part knows is how they hang together: `Glue` (the map is loaded when main is past the loading, and a
request works on it while it is one that the HTTPS server took in) and `Intact` (while no save
has failed in this process and none is under way, the file is the map). A process that
returns from main before the deadline has drained both servers (`DrainInv`), so by `Glue`
no request is under way and by `Intact` the file is the map.

**LightControl.** `OnFirstOffLast` is about the queue of a lamp and needs what its handler has
left to send: `Ordered` says that a list of steps turns on with the first and off with the last
one, `Program` gives such a list (a lemma over all bodies), and `StepsInv` that a handler with a
turning on ahead has sent nothing, and one with anything ahead has not turned off. Requests are
told apart by their numbers (`NumberInv`); `SilentInv` says that nothing is sent before the body
is checked, which with `NumberInv` gives `RefusedSendsNothing`. Lamps that take Sets only shorten
the queues. `TypeInv` goes the whole way round: what a client asks for is decoded (`BodyOK`), so
the steps of the handler are about features of its lamp and of the right type (`HandlerInv`, with
`ProgramTyped` for every body), so is what is sent, taken and published (`LampInv`), and what is
published and seen parses, and every lamp is present, until the first glitch (`CleanInv`). So
`FindAgain` and `Check` find the lamp that `FindLight` found, however many requests come in
between, unless a lamp did something by itself; and by `SilentInv` such a request has sent
nothing (`EarlyPanic`). The only other panic is at a `Break`, which the steps of a handler have
only when an array of its body is short (`StepsFor`): `PanicsHold`.

**The refinement of `Lamp`.** `Alone` is the invariant for clients that wait: a lamp has one
request at most (`OneInv`), and what is seen of a lamp is what it published last (`SeenOK`).
Its core is `ApplyOK`: from the state a request found, the steps still to do lead to `Goal`, the
effect of the body as it came in. `Plan` says what that takes: no feature is set twice, what is moved
has been read before, and each step hits its goal; the features that are not to be set any more
already have it in `Final`, the lamp as it will be when it has taken its queue. `ProgramPlan` shows
that `Program` gives such a plan for every body that is accepted and whose arrays are whole:
`Program` is a concatenation, and
each of its parts is a `Piece` that deals with features of its own. `RestPlan` says that a plan
without its first step is a plan for the rest. That a lamp takes every Set needs `LampOK`: it is on,
or the first Set in its queue turns it on, and only the last Set turns it off. `Final` is a fold
over a sequence, which the library defines by a choice of a function on sets of indices; that there
is such a function, that it is the only one, and what the fold does when a message is added or taken
(`FoldEmpty`, `FoldAppend`, `FoldTail`) goes by an `Induction` over sets of numbers, derived from
the least element of `WellFoundedInduction`, which needs no operator as a parameter. Every
step then maps to the request being put (`PutAsks`), to the answer with its effect
(`DoneKeepsPromise`, and `ReplyAnswers` for refusals), or to a stutter.

**Catalogue.** `HadOK` says that what has been read of a lamp was among the values it had since the
request came in; `SteadyOK` that the lamps read and still to read cover those nothing
happened to; `MatchOK` that such a lamp is listed with the values it has, in
either pass, which makes the two listings agree. `JobOK` ties the place of a request to the part of
the lamp at hand it has read: `First(l, k)`, whose cardinality is `k` because no feature
is read twice, so a lamp is complete when the code says so. Changes of the lamps keep all of it
since they are recorded as they happen. `CountInv` adds to `CountWasTrue` that whoever is
about to write the counter has its count among those recorded.

**Prefetch.** `CountInv` says that the counter is the cardinality of the goroutines under way, so
that zero means none; `SpawnInv` which have been started; `LastInv` that those of the last lamp,
which no later iteration can lead astray, fetch it.

**Daylight.** A day shorter than 24 hours around a noon of this date has its sunrise or its
sunset on the date. If the sunrise is on the day before, any reading before the sunset is by
day; if the sunset is on the day after, any reading after the sunrise is; so whatever the
library says of the other end can only hide daylight.

### What is only model-checked

Liveness (`Answered`, `StopsWhenTold`, `Serves`): fairness and `ENABLED` are out of the
prover's reach.

Every invariant, action property and refinement of a passing run is stated by a theorem.

## 5. Where code and words disagree

* `whitelist_torn`: `saveWhitelistToFile` rewrites the file in place. A crash or a failed
  write after the truncation leaves a file that the next start refuses, and the bridge
  does not come up with the path that is "where we will load and store whitelist entries"
  (`src/cmd/fargton/main.go:27`). A file written aside and renamed would do.
* `light_offreply`: after a successful `{"on": true}`, and before the lamp has published
  that, a further setting is answered with "Device is set to off"
  (`src/bridge/errors.go:112`). The lamp is on. The same staleness lets settings through to a
  lamp that has just been told to turn off, which ignores them; `light_alone` shows
  that neither happens to a client that waits.
* `prefetch_all`: "done fetching device data" (`src/bridge/server.go:196`) is logged with
  features unfetched, because the goroutines share the loop variable `dev`.
* In `registerUser` and `deleteUser`, `oldwt` and `s.config.Whitelist = &oldwt`
  (`src/bridge/registration.go:58-64`, `94-100`) are written to undo a change whose save failed, and
  the tests have the case ("unsuccessfully due to bad whitelist",
  `src/bridge/registration_test.go:84`) but look at the answer only. As `oldwt` is an alias, the
  change stays: the runs show it as the `Fail` of `UserStore`, which no step undoes while the bridge
  is up, and `loose` in `MemoryMatchesFile`. No doc, comment or test claims otherwise in words, so it
  is not a run of its own. Copying the entries one by one would do.
* `daylight_far`: "so that the sunrise/sunset calculation is correct"
  (`src/README.md:34-36`). Where the sun's day contains midnight UTC, no two times on one date, with
  the sunrise first, enclose it: the sensor shows night for a part of the day or for all of it,
  whatever the library answers. Near Greenwich it is right, and it never shows day at night.

## 6. What is not modelled, and why

* The loss of power after a save that succeeded (there is no `fsync`), an error of closing
  the file, and a whitelist file that exists but cannot be read: the model's failures are
  those of opening, writing and decoding.
* A value of `on` that does not parse: it counts as off in `updateLightState`, and no documented
  behaviour is compared with it. An `xy` array of more than two numbers is like one of two.
* A lamp that left and comes back: `present` only shrinks.
* Bodies that are not JSON: they are answered and change nothing.
* Floating point: the colour conversions are a table.
* Overflow of 64-bit integers in brightness.
* Places where the sun does not rise or does not set on some day, and the drift of sunrise
  and sunset from one day to the next: the library is external, and its error is `valid = FALSE`.
* Two topics with one id: `TopicToStrInt` keeps 31 bits of a hash.
* The number of users in `/capabilities`, which is read without the lock.
* Requests that reach the lamps after the MQTT client was cancelled and before the servers are
  closed: what a Set of a cancelled client does is the library's affair.
* Keep-alive connections, TLS and the HTTP library beyond listeners, handlers and
  `Shutdown`; the mDNS responder after it started, since it only logs its errors.
* Rendering, description.xml, constant answers and logging: no state.
* Configuration options: `NewConfig` runs once and in sequence before anything else. A model
  of it would restate its assignments and defaults; the relation there is, that the id and
  the uuid of the bridge are of one address, is formatting of strings.

## 7. Plan

Done, in this order, the most important first: `Whitelist` with its abstraction and proofs;
`LightControl` with `Lamp`; `Converters` and `Dimmer` with proofs; `Lifecycle` with
proofs; `Prefetch`; the composition `Bridge` with proofs; `Catalogue`; `Daylight` with proofs;
the proofs of `LightControl` and `Prefetch`; those of `Catalogue`, and that `LightControl`
implements `Lamp`; the store in which failed changes stay, for the map that is its own copy;
panics and lamps that leave.

To come: `Lifecycle` with `LightControl`, for requests accepted after the MQTT client was
cancelled, once it is settled what a Set does then.
