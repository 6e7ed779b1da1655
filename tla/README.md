# Verification of hmauto

TLA+ models of the home automation backend (`app/`, `internal/`, `main.go`), of the life of its
process, and of the microcontroller that follows it (`mqttelectric.ino`), model-checked with TLC
and, where it matters most, proved with TLAPS. `PROJECT.json` lists components, runs, hazards, theorems and,
under `map`, the source lines behind every definition.

## 1. The system

```
 HTTP / MCP clients                                      Redis (hash per type, field per key)
      |                                                       ^  HGET / HSET
      v                                                       |
 middleware, auth --> handlers / MCP tools --> HmsttService --+--> HmsttEvent --> RabbitMQ
 (rate limiter)                                                                  amq.topic
                                                                                    | MQTT
   batch endpoint  <------------------- electric device (ESP8266) <-----------------+
```

| Component | State | Operations | Hard parts | What makes it correct |
|---|---|---|---|---|
| State service (`app/hmstt/service.go`, `handlers.go`, `mcp.go`) | one goroutine's locals per request | create, set, patch, get | no lock joins GET, HSET, publish and the read back; every error is taken for "absent" | a write does what it was asked and no more; every change is announced; every request is answered |
| State store (`store.go`, Redis) | type -> key -> entry | HGET, HSET, HGETALL, KEYS | an HSET whose reply is lost | only legal states are stored |
| Events (`event.go`, RabbitMQ) | one AMQP channel | publish | the channel is never opened again; no confirms; a publish has no deadline that works | subscribers know what is stored |
| Listings (`service.go`, `store.go`, `handlers.go`, `mcp.go`) | what has been read so far | all states, those of a type, a batch of keys | KEYS and then one HGETALL per hash, with writes in between | an answer that was true at one moment |
| Rate limiter (`internal/middleware/ratelimit.go`) | client -> bucket | Allow, cleanup | rounding, forgetting | never more than the bucket allows; a client that has earned a token gets it |
| Electric device (`mqttelectric.ino`) | pins, timer, backoff, session | setup, loop, callback, batch sync | messages lost or older than an answer; a clock that wraps | the switches show what is stored, or will |
| Life cycle (`main.go`, both servers, `mq.go`, `client.go`, `otel.go`) | which parts are open, the listeners, the connections, one deadline | start, serve, stop | two servers in an error group, one deadline for every step, `log.Fatal` | requests keep what they need; what was opened is closed; the process ends when asked |
| Health (`internal/health`) | the verdict so far | readiness, full health | one dependency after another while they change | a verdict is true of some moment of the check |
| Routes, middleware, authentication | none between requests | matching, two tokens | a shadowed key, probes that pass the limiter | every request meets the right handler |
| Configuration, bodies, observability, docs | - | - | - | not about behaviour |

They interact by calls (handlers and MCP tools call the service, the service calls store and
event), by shared state (Redis, the limiter's map under its mutex, the AMQP channel), by messages
(`amq.topic`, over the broker's MQTT bridge, to the device), and by the context of the error
group, through which a signal or the failure of one server ends the other.

## 2. The modules

| Module | Models | State and actions against the code |
|---|---|---|
| `HmsttTypes` | the vocabulary of `app/hmstt` | `canTypeChangedWithKey`, the entry, the inputs of the four operations |
| `StateRegistry` | what the service promises, without mechanism | `Invoke`, `Perform` (effect, announcement and answer, with the entry it shows, at one instant), `Fail`, `Return` |
| `HmsttService` | service, store, event, handlers | `pc[r]` is the next call of request `r`; one action per call that leaves the process, with the decision before it |
| `HmsttServiceMC` | its instances | |
| `HmsttServiceProofs` | its theorems | |
| `HmsttPromisesProofs` | under which conditions the promises hold that the runs refute | |
| `HmsttListings`, `HmsttListingsProofs` | the requests that read many states, beside those of `HmsttService` | `lpc`: `Ask`, `ReadKeys` (KEYS), `ReadType` (one HGETALL), `ReadFails`, `Taken` |
| `StateFeed` | the backend as anything outside it sees it | states stored, messages about to be told, the last value told |
| `HmsttRefinementProofs` | that the service implements `StateFeed` and, under conditions, `StateRegistry` | |
| `RateLimiter`, `RateLimiterMC`, `RateLimiterProofs` | the token buckets | `AllowNew`, `AllowKnown`, `Deny` are the three ways through `Allow`; `Cleanup`; `Tick` is time |
| `ElectricDevice`, `ElectricDeviceProofs` | the microcontroller, its broker, and the backend as `StateFeed` | `pc` is where the one thread waits: `setup_sync`, `setup_connect`, `loop`, `connect`, `sync` |
| `Lifecycle`, `LifecycleProofs` | `main`, both servers, what they open and close | `main` is the step about to be taken, `After` the order of the steps |
| `HealthChecks`, `HealthChecksProofs` | the probes in that process | `Check` asks one dependency, in any order |

```
 StateRegistry <== HmsttService ==> StateFeed        ==> implements
                     |                  |
                HmsttListings     ElectricDevice      Lifecycle -- HealthChecks
                (extends it)      (is built on it)                 (extends it)
```

`StateFeed` is the joint between backend and device. `HmsttService` is shown to implement it
(run `service_concurrent`, theorem `ServiceImplementsFeed`), and `ElectricDevice` takes its
server's steps from it: `Change`, `ChangeUntold`, `Tell` and `LoseMessages` are `StoreToTell`,
`StoreInSilence`, `Tell` and `Drop` with what they mean to the device. So the device is checked
against every order of messages that the service can produce: messages that overtake each other,
come after a later answer, or never come; but no message tells of a value that was not stored
before.

**HmsttService.** A request is `Arrive`, then `CreateRead`, `SetRead` or `PatchRead` (the
validation, the HGET and all that is computed from it), then `WriteOk`, `WriteLost` or
`WriteFailed` (the HSET), `Publish` or `PublishLost`, `ReadBack` (the handler's or the tool's
second GET) and `Return`. A get is `Arrive`, `ReadBack`, `Return`. Decisions in memory are not
steps of their own: nothing else can see them. `Faults` says what may go wrong in an instance:

| Fault | In the code |
|---|---|
| `get` | `HGet` returns an error other than a missing field: network, timeout, context cancelled |
| `set_failed` | `HSet` fails and stored nothing |
| `set_lost` | `HSet` stored the entry, and the reply is lost |
| `publish` | `PublishWithContext` fails or the message is lost; the channel closes |
| `flow` | the broker stops reading (flow control, a full socket), for a while or for good |
| `restart` | the process dies at any point and is started again |

`StateChange` gives its publish a context with a deadline of five seconds, but
`PublishWithContext` of amqp091-go (v1.10.0 in `go.mod`) does not look at it. So a publish on a
channel that is `"blocked"` does not return; it goes on when the broker reads again, and fails when
the channel closes. All requests share the one channel and are held up together
(`ChannelBlock`, `ChannelUnblock`, `ChannelClose`).

A client that goes away cancels the context and so shows as one of these. `Input` is what the
MCP tools accept, which is a superset of what the HTTP handlers let through (they also refuse
empty required fields). `overlapped`, `blind` and `unsynced` are history variables: the actions
write them and no guard reads them. `unsynced` holds the states that subscribers may be wrong
about, each put there by a named cause; `blind[r]` says that r's GET did not show what was
stored.

**RateLimiter.** `exact[c]` is history: the bucket without rounding, in units of 1/`Interval`
of a token. The float arithmetic of `Allow` is taken as the exact quotient, rounded down. The
cleanup goroutine ticks once a minute; here it may run at any time, which allows more.

**ElectricDevice.** One tick of the clock is the unit of `backoffInterval` (5 s). A pass of
`loop()` looks at the session, at one message and at the timer in this order; here the three
come in any order, which allows more. `missed` is history: the switches of which a change was
lost (no session, a lost message, a broken session), untold or overtaken since the last answer.
`LoseSession` and the delivery in `Tell` are a broker with QoS 0.

**HmsttListings.** All states and those of a type are one HGETALL per hash, the former after a
KEYS; the batch reads its type's hash once and picks from it in the order asked for. One listing
at a time is enough, since listings change nothing. "Not found" for an empty type is what the
HTTP handler says; the MCP tool answers with an empty list.

**Lifecycle.** `main` goes through `After`: configuration, tokens, Sentry, logger,
OpenTelemetry, Redis, RabbitMQ, its channel; `serving`, which is `errgrp.Wait`; then the HTTP
server, the MCP server, RabbitMQ, Redis, OpenTelemetry and the logger are closed. Every step of
the start that can fail does so in an action of its own, by `log.Fatal`. Each server is a
goroutine in `Start` (`returned`) and one in `ListenAndServe` (`listener`). A listener that fails
makes the MCP server return its error, which cancels the group's context; the HTTP server calls
`log.Fatal`. `conns` is what `http.Server` knows of each connection, which is what `Shutdown`
waits for: `CloseListener`, then `CloseIdle` again and again until nothing is busy or the
deadline has passed (`expired`). `InBackground` is the goroutine that closes the connection to
the broker, or the log file, for which `Proceed` waits no longer than the deadline; it may
finish later, while `main` goes on.

**HealthChecks.** A request on the connection `Prober` begins a check, and `Process` is a step of
`Lifecycle` with what it does to the check. `wasUp`, `wasDown` and `lostBefore` are history.
A check that is under way when the process closes its clients sees them closed.

## 3. The runs

| Run | Instance | Shows |
|---|---|---|
| `service_concurrent` | 2 requests, 1 state, all faults, overlapping | `TypeOK`, `SubscribersAgree`, `RepliesShowOwnWrite`, `WritesHonourRequests`; `ImplementsFeed`: the service refines `StateFeed` |
| `service_serial` | 2 requests, 2 states, a bad value, `set_failed` and `flow` only, no overlap on one state | `ImplementsRegistry`: the service refines `StateRegistry`, answers and the entries they show included |
| `service_answers` | 1 request, bad types, keys and values, all faults, a broker that may never read again, fairness | `StoreWellFormed`, `RequestsAnswered` |
| `service_listings` | 1 mutating request, 1 listing, 2 types, 2 keys, batches of up to 2 keys, failing reads, messages and restarts | `ListingTypeOK`, `ListingsShowOneMoment` |
| `rate_limit` | 2 clients, 2 tokens per 3 ticks, burst 3, 12 ticks | `TypeOK`, `NeverOverAdmits`, `ForgottenAreFull` |
| `electric_device` | 1 own and 1 foreign switch, 2 writers, 2 changes, 2 faults, clock modulo 6, fairness | `TypeOK`, `SwitchesFollow`, `PollsInTime`, `SwitchesConverge` |
| `lifecycle` | 2 connections to the HTTP server, one of them the prober's, 1 to the MCP server, fairness | `HealthTypeOK`, `RequestsKeepDependencies`, `CleanExit`, `VerdictsWereTrue`, `NeverReadyAgain`, `EndsOnceAsked` |
| `create_overwrites` | 2 requests, overlapping, a GET may fail | **violated**: a create overwrites |
| `set_drops_description` | 1 request, a GET may fail | **violated**: a set empties the description |
| `patch_clobbers` | 2 requests, no fault | **violated**: a patch takes back what a mutation that overlapped it stored in a field the patch does not name |
| `silent_change` | 2 requests, no fault | **violated**: subscribers end up with a value that is not stored |
| `rate_limit_starves` | 1 client | **violated**: a client that has earned a burst is turned away |

The five violations are disagreements between the code and what its comments, its API
description or its README say; `PROJECT.json`, `findings`, quotes both sides. The passing runs
say the rest: *with which* histories the promises hold. `SubscribersAgree` and
`WritesHonourRequests` excuse exactly the states and writes for which a cause is on record, so
any other way of going wrong would violate them; they do not catch those causes themselves.
These are what the runs with a violation and the theorems of `HmsttPromisesProofs` are about, and
where neither a run nor a text of the repository speaks of a cause its hazard in `PROJECT.json` has
a note instead of a property. `create_overwrites` admits both ways to an overwrite, a failed
GET and two creates that race. Its trace is the shorter one, with the failed GET; without that fault
TLC finds the race. `RequestsAnswered` says what a caller may count on: a request waits only for
a broker that has stopped reading, and then only if it has a change to publish, and for
nothing else. `ListingsShowOneMoment` is a promise the code
keeps by an accident worth knowing of: the listing of all states reads hash by hash, but
`canTypeChangedWithKey` admits one type only, so that there is one hash at most. With a second
type that can be stored the property fails. `NeverReadyAgain` says what an operator must know of
a lost broker: the connection is never dialled again, the process is not ready until it is restarted,
and the liveness probe, which always answers, does not restart it.

**Why the bounds are enough.** Requests on different slots share only the channel, so one slot
and two requests show every pairwise interleaving, and each goroutine takes up requests again
and again: an instance is not limited to two mutations. Two values and two descriptions make
every field distinguishable. A request touches one slot, so the bad types and keys need only one
request. A listing meets one writer at a time; two types, one of which can be stored, show why it
is enough to read hash by hash, and a batch of two (`BatchLength`) has missing, repeated and
swapped keys. The limiter's clock of 12 ticks fills an empty bucket (4.5 ticks), outlives
`CleanupAge` and loses two kinds of fractions. The device's bounds allow for two changes by two
writers, whose messages can overtake each other, two faults anywhere, a backoff that grows to its
ceiling, and any number of laps of the clock. The connections of `lifecycle` are one that probes,
one that does not, and one that no timeout ends; a listener serves any number, but they meet only
in what `Shutdown` waits for. `MaxTime`, `MaxChanges` and `MaxFaults` are the only bounds in
guards, `BatchLength` the only other one. The clock of the device is modulo
`Wrap` and so has no bound; `waited` is bounded by what is proved of it.

**Deadlock** is checked in every run but `lifecycle`, whose process really ends: a request can
always arrive, the cleanup always run, and the device never stops. That the process ends when it
should, and does not hang, is `EndsOnceAsked`.

**Symmetry** is used for the requests of two safety runs and the clients of the limiter, all of
which the code treats alike; not with liveness.

**Fairness.** `HmsttService`: weak fairness on each request's next call. A goroutine is
scheduled, and go-redis ends its calls by its timeouts. A publish is fair as well, but it is
enabled only while the broker reads or the channel is closed; as nothing makes the
broker read again or the channel close, it may wait for ever. Nothing is assumed
of *how* a call ends, nor that requests arrive. `ElectricDevice`: weak fairness on the passes of
`loop()` (session, message, timer, time) and on `Connect`, `GetStates` and `Synced`: a call
that does not fail returns, and failures are bounded by `MaxFaults`, so that "for good" means
after the last failure. No fairness on the environment. `HealthChecks`: weak fairness on
`main`, the deadline, and the servers' `Start`. Nothing is assumed of signals, of clients (a
stream may stay for ever), of the probes, or of what is closed in the background: that the
process ends all the same is what the deadline is for.

## 4. What is proved

`tlapm` checks every theorem from the assumptions named in the modules.

* **HmsttServiceProofs** (from `VocabularyAssumption` and `ServiceAssumption`: a nil pointer and
  a missing entry are not values, `""` is a description). For any sets of requests, types, keys,
  values and descriptions, any faults, with and without overlap:
  `TypeCorrect`, `StoreAlwaysWellFormed`, `SubscribersAlwaysAgree`, `RepliesAlwaysShowOwnWrite`,
  `WritesAlwaysHonourRequests`.
  - *Stored states are legal* needs the strengthening that what a request is about to write
    (`upd`) is legal: it was checked, or it was read from a legal store.
  - *Subscribers agree* is not inductive: whether a write is silent was decided earlier. The
    invariant `AgreeInv` adds that two mutations in flight for one slot are both marked
    (`RivalsOverlap`), that a request about to write without a message and without an overlap
    leaves the stored value as it is (`SilentWritesKeepValues`), and that a message about to be
    published without an overlap carries the stored value (`MessagesAreCurrent`).
  - *Writes honour requests* uses the same argument for the whole entry (`HonourInv`): without
    an overlap and unless the GET was blind, the entry under a request stays the one it read.
* **HmsttRefinementProofs** (also `MessageAssumption`: a nil pointer is not a message):
  `ServiceImplementsFeed`, for any faults and any overlap. An HSET maps to the step that stores,
  a publish to the one that tells, a lost message or a restart to the one that drops, the rest to
  stutters. The mapping needs no more than the types.
  `ServiceImplementsRegistry`, where mutations of a slot do not overlap and no fault but `set_failed`
  and `flow` occurs. `RegistryInv` adds to `AgreeInv` that what a request is about to write is what
  the registry would make of what is stored *now* (`WritesAreDue`): that is how an effect that is
  computed at the GET can take place at the HSET. And what it has stored stays until it reads it
  back (`StatesStay`), so that the answer shows the state as it was at the effect.
* **HmsttPromisesProofs**: the promises of the comments and the README that four runs refute, with
  the conditions under which they are kept. `Overlap = FALSE` is what a deployment has that sends
  the mutations of a state one after another (one client per state, say); it is nothing the code
  sees to. The faults named are those that must not occur, all others may:

  | Theorem | Promise | Kept without |
  |---|---|---|
  | `CreatesThatAreAloneNeverOverwrite` | `CreateNeverOverwrites` | overlap, `get` |
  | `SetsThatAreAloneKeepDescriptions` | `SetKeepsDescription` | overlap, `get` |
  | `PatchesThatAreAloneKeepFields` | `PatchKeepsFields` | overlap |
  | `SubscribersAloneKnowAll` | `QuiescentAgreement` | overlap, `set_lost`, `publish`, `restart` |

  No condition is one too many: with any one of them left out TLC finds the promise broken (the
  runs keep one instance each; the others differ from them in `Overlap` and `Faults`). The first
  three follow from `HonourInv`, with `NoneOverlapped` and, for the GETs, `NoneBlind` or, of
  patches, `PatchesSee`: a patch whose GET fails finds nothing to patch and does not write. The
  last one is `SubscribersAgree` with nothing unsynced (`AllSynced`).
* **HmsttListingsProofs** (also `BatchAssumption`): `ListingTypeCorrect` and
  `ListingsAlwaysShowOneMoment`, for any requests, types, keys, faults and length of a batch, and
  `ListingsDisturbNothing`, through which the theorems on the service hold beside listings too. The
  invariant `ReadsOneHash` says why one moment is enough: nothing read is ever put aside for a next
  read, and a listing of all states reads the hash of `switch` alone, because `LegalInv` leaves no
  other type in the store (`OneHash`). That a batch's answer is in the order of its keys
  is an induction over the loop of `GetStatesByKeys` (`LoopCollects`). It is done without an
  induction theorem: the positions up to which the loop is right form a set, and the first one
  outside of it would have a predecessor inside (`UpTo`, from the well-foundedness of `<`).
* **LifecycleProofs** (`ConnsAssumption`: no connection is to both servers):
  `LifecycleTypeCorrect`, `RequestsAlwaysKeepDependencies`, `ExitsAreClean`, for any number of
  connections. `LifeInv` says, for every step of `main`, what is open by then and which server has
  been drained by then unless the deadline passed.
* **HealthChecksProofs** (`ProberAssumption`): `HealthTypeCorrect`, `VerdictsAlwaysTrue`,
  `LostIsNeverReady`. A check has been found true of what it has asked so far (`FoundSoFar`), and
  one that began after the loss has seen it or still will (`LossShows`).
* **RateLimiterProofs** (`LimiterAssumption`, `BucketAssumption`): `LimiterTypeCorrect`, and, when
  `(CleanupAge + 1) * Rate >= Capacity`, `LimiterNeverOverAdmits` and `LimiterForgetsOnlyFull`.
  The invariant bounds each bucket, with the time since it was last seen, by the exact one. The
  condition says that a bucket is kept for as long as one takes to fill. It holds for the
  defaults (ten minutes, 60 a minute, burst 10), but the configuration can break it: with a burst
  of more than about ten times the rate a client gains tokens by being forgotten.
  `LimiterAdmitsWhoWaits` needs no condition: who is turned away has not let the limiter alone for
  the time one token takes. It is what a client may rely on instead of `EarnedBurstPasses`.
* **ElectricDeviceProofs** (`DeviceAssumption`): `DeviceTypeCorrect` (the backoff stays under its ceiling) and `DevicePollsInTime`. The
  invariant is `TimerInv`: the unsigned difference that `loop()` computes is the time that really
  passed, across any number of wraps, because that time stays below `Wrap`.
  `SwitchesAlwaysFollow` (also `NoneAssumption`), for any switches, writers and messages on their
  way: `SwitchesFollow` is inductive together with the types; the work is in the lemmas on
  `LastTold`, the last message about a switch, when one is appended to the inbox or taken from its
  front. With it, `SwitchesAtRestAreRight`: where nothing is on its way the switches show what is
  stored but for what was missed. `DeviceBackendIsFeed` closes the joint from the
  device's side: its backend does what `StateFeed` does, which is what the service was proved to
  implement.

**Only model-checked:** liveness (`RequestsAnswered`, `SwitchesConverge`, `EndsOnceAsked`), which the
prover cannot do under fairness, and, by nature, the violations. All other properties of the
passing runs are theorems.

## 5. What is left out, and assumed

* `UpdatedAt`, the metrics, logs, traces, JSON: no decision depends on them.
* go-redis may repeat a command, and Redis could execute an HSET after the caller gave up. The
  model takes an HSET that is executed at all as executed before its call returns, and nothing
  of a dead process as still under way. Redis itself keeps what it stored (docs: AOF).
* A lost message is lost for all subscribers alike; there is one `announced` value per state.
* A bucket's identifier: that `RemoteAddr` has a port, and so gives every connection a bucket.
* Rates, bursts and intervals are positive; the configuration does not check that.
* A `subscribe` of the device that is lost while its connection stays up (to the switches it is a
  row of lost messages, `ChangeUntold`).
* WiFi, wiring and `STATE_SWITCHES` (never read) of the device; a device that waits for more than
  a lap of its clock.
* Route matching, middleware and authentication: functions of one request, without state of
  their own. What they decide on (the limiter) is modelled by itself. A consequence that tests
  may miss stays a listed hazard: a state of key `batch` can be set but not read over HTTP.
* What `log.Fatal` leaves open: the process is gone, and the operating system closes it.
* The timeouts of `http.Server` appear as connections that end at any time; a
  stream of the MCP server has no write timeout in the code either.
* How the Redis client reconnects: Redis comes and goes, and a client that is open finds it again.
* Checks that meet each other: a check shares nothing with another one.
* Configuration files, the contents of logs, traces and metrics, security headers, generated
  docs, build files: not about behaviour.

## 6. Plan

Done: the vocabulary, the registry, the service and the two refinements with their proofs, the
listings, the limiter, the life cycle and the health checks with their proofs, the device on top
of what the service is proved to implement and the safety of its switches, and the conditions
under which the refuted promises hold. Left, in this order:

1. The requests' way to their handler: the order of the middleware, the tokens, the routes with
   the key `batch`, the status of each outcome, probes that the limiter turns away.
2. Service and device in one state space, to follow single requests to a switch. That the device
   sees the service only through `StateFeed`, which the service implements, makes this a question
   of presentation rather than of new behaviour.
3. The order of readiness and shutdown as a client sees it.

## 7. Running it

```
tlc -workers 2 -config service_concurrent.cfg HmsttServiceMC.tla
tlapm HmsttServiceProofs.tla
```

Most runs take less than a minute with two workers, `service_concurrent` and `service_listings`
two or three, and each proof module takes a few minutes at most.
