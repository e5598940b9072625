# TIDE in TLA+

TIDE ingests vehicle telemetry, keeps a hot state per vehicle, derives events
(speeding, idling, trips, geofences, offline), runs rules on them and publishes
them on NATS. This directory holds TLA+ modules of the parts that carry that
logic, TLC configurations that check them on small instances, and TLAPS proofs
of the safety properties that matter most. Paths below are relative to `src/`.

## The system

Two long-running processes share Redis, Postgres and NATS. `tide-api` serves
HTTP (ingest, queries, geofences, simulations, a WebSocket stream).
`tide-engine` runs the upstream adapters, the offline sweeper and the
heartbeats. Each of them owns one `Pipeline`, built by `internal/boot`.

| component | state | operations | talks to |
|---|---|---|---|
| pipeline (`internal/pipeline`, `internal/dedup`) | none of its own; dedup keys in Redis or memory | `Process` | dedup, log, state store, detectors, geofences, rules, bus |
| vehicle state (`internal/state`) | one record per vehicle, in Redis or memory | `Apply`, `CheckOffline`, `Get`, `Set`, `ListIDs`, `RebuildFrom` | called by pipeline and sweeper |
| detectors (`internal/detectors`) | speeding, idle and trip tracks per vehicle, in memory | `Detect`, under a mutex | pipeline |
| geofences (`internal/geo`) | fences, membership per vehicle | `Evaluate`, `SetFences` | pipeline, API |
| rules (`internal/rules`) | published versions, last firing and firing log per version and vehicle | `Publish`, `Evaluate`, under a mutex held while webhooks are sent | pipeline, webhooks |
| webhooks (`internal/webhooks`) | delivered and dead-lettered records | `Dispatch`, `Sign`, `Verify` | endpoints |
| event bus (`internal/eventbus`) | the NATS connection, replaced on failure; a subscription that is renewed | `Publish`, `SubscribeResilient` | NATS |
| sweeper (`cmd/tide-engine`) | none | `sweep` every 30 s | state store, bus |
| ingest endpoint (`internal/api/server.go`) | none | `handleIngest`, `Inject` | pipeline, Postgres, stream |
| simulations (`internal/api/simulate.go`) | a registry of runs with their cancel functions | start, run, status, cancel | pipeline, `Inject` |
| rate limiter (`internal/api/security.go`) | a window per client | `Allow` | ingest and simulate routes |
| adapters (`adapters/...`) | health, connection | `Connect`, `Subscribe`, `Disconnect`, `Health`, `HandleRaw` | upstreams, payload mapping, pipeline |
| payload mapping (`adapters/mqtt/mapping.go`, `adapters/traccar`) | none | `LoadMapping`, `MapPayload`, `PositionToTelemetry` | adapters |
| connections screen (`cmd/tide-api`, `AdapterRegistry`) | last heartbeat per name | `Set`, `List` | NATS subscription |
| bus health (`cmd/tide-api`) | last publish failure | `fail`, `LastError`, a 30 s ticker | registry |
| geofence endpoint (`internal/api/server.go`) | a list of fences, rows in Postgres | `Add`, `List` | geofence tracker, Postgres |
| event stream (`Hub` of `internal/api/server.go`) | WebSocket connections | `Add`, `Remove`, `Broadcast`, under a mutex | every caller of `Inject` |
| migrator (`internal/db`, `internal/boot`) | `schema_migrations`, the schema | `Pending`, `ApplyPending` at boot | Postgres |
| replay (`internal/replay`) | none | `Run`, `Compare` | a pipeline on memory stores |
| tenants, flespi, simulator, console | see "Not modelled" | | |

What is hard in it:

* `Process` holds no lock from one store access to the next. Requests for one
  vehicle interleave between `Get` and `Set`, and with the sweeper's own `Get`
  and `Set`.
* The dedup key is recorded first, so every later failure turns the client's
  retry into an acknowledged duplicate.
* Points arrive late and out of order, and detectors and fences see them in
  order of arrival.
* Redis, NATS and Postgres fail in the middle of a call, before or after
  taking effect; processes crash between two steps and lose the trackers'
  memory but not Redis.
* Upstreams deliver a message again, and its event time and dedup key are made
  up or converted on the way in.
* The bus wrapper redials outside its mutex, so redials race.
* A request creates a fence in three critical sections under two mutexes, while
  vehicles are inside of the fences that are being replaced.
* Two processes boot and migrate one database; any statement may fail, with or
  without effect, and the process goes on in memory mode.
* Every injected event is written to every WebSocket client under one mutex, on
  the path of ingestion.
* Webhooks are retried with the rules mutex held.
* Runs, adapters, heartbeats and subscriptions end and restart at any moment;
  the screen must not show what is no longer true.

`PROJECT.json` lists these as hazards, each at its line with the properties
that watch it.

## Modules

| module | models | kind |
|---|---|---|
| `VehicleState` | telemetry, `Validate`, `classifyMotion`, `Apply`, `CheckOffline` | operators |
| `Detectors` | events, their ids and validation; the three detectors | operators |
| `Geofence` | `Tracker.Evaluate` | operators |
| `RuleEngine` | `ParseSpec`'s checks, matching, the two valves, emission | operators |
| `Normalize` | `LoadMapping`, `MapPayload`, `PositionToTelemetry`, `DedupKey` | operators |
| `Rebuild` | `RebuildFrom`: grouping by vehicle, the sort, the fold | operators |
| `Replay` | `replay.Run` on a fresh pipeline | operators |
| `SerialIngest` | what ingestion promises: one point is one step | specification (abstract) |
| `Recompute` | `SerialIngest` against `Rebuild` and `Replay` of what it folded | composition |
| `Pipeline` | `Process` step by step, its callers, the sweeper, faults, crashes, retries | specification |
| `PipelineSerial` | the refinement mapping from `Pipeline` to `SerialIngest` | composition |
| `AdapterIngest` | upstream messages, normalized and handed to `Pipeline` by adapter goroutines | composition |
| `RuleValves` | `Publish`, `Evaluate` and `Dispatch` under the engine's mutex | specification |
| `ResilientBus` | `ResilientBus.Publish` and the NATS client's connection states | specification |
| `EventStream` | bus health, `Inject` and the hub, on top of `ResilientBus` | composition |
| `Migrator` | `store.Open` and `ApplyPending` of several booting processes | specification |
| `FenceStore` | the geofence endpoint and the tracker, in a process that boots by `Migrator` | composition |
| `Simulations` | the rate limiter, simulation runs and their cancellation | specification |
| `Connections` | adapters, heartbeats, the API's subscription, the registry | specification |
| `MC*` | points, fences, rules and symmetry for TLC | instances |
| `DetectorLemmas`, `SerialIngestProofs`, `PipelineProofs` (with `AdapterIngest` and `PipelineSerial`), `FenceStoreProofs` (with `Migrator`), `EventStreamProofs` (with `ResilientBus`), `RuleValvesProofs`, `SimulationsProofs`, `ConnectionsProofs` | lemmas and theorems | proofs |

How state and actions correspond to the code:

* **VehicleState, Detectors, Geofence, RuleEngine** are the Go functions as
  pure operators, on records of the fields that decide control. Speeds and
  times are integers, a nil speed is `NoSpeed`, a position is a number, a
  polygon the set of positions inside it. A detector returns its new track and
  the events it emits. A definition introduced by "The variant" in its
  comment states a plausible defect next to the definition it would
  replace; no specification uses it.
* **Pipeline**: a worker is a goroutine inside `Process`. `call[w]` holds its
  locals and program counter, `outbox[w]` its events. Steps: `Accept`,
  `Absorb`, `Reject` or `SeenFails` (dedup), `AppendLog`, `Get`, `Set`,
  `DetectStep`, `GeoStep`, `RulesStep`, one `Publish` per event, then
  `RespondOk` or `RespondPublishError`, which include the caller's part: an
  API worker injects events into Postgres, an adapter does not. A batch is a
  sequence of points of one worker: the handler stops at the first error, and
  so may the worker. `Crash` clears everything kept in memory.
  A row of `log` has the point's id, which is minted for an API worker only
  (`Mints`); a row is unique on its dedup key and on its id (`IdTaken`).
* **Normalize, AdapterIngest**: a JSON value is a record of what `toString`,
  `ParseFloat` and `time.Parse` make of it; the mapping's branches are then the
  code's. `HandleRaw` maps a message at the current clock and enters `Process`
  with the result, as often as the upstream delivers it.
* **Migrator, FenceStore**: `boot[p]` is where a process is in `boot.Build`;
  "memory" and "pg" are the two ways it ends. A request of the endpoint is
  `Add` or `AddFails`, `CopyList`, `SetFences`, with `Evaluate` of the tracker
  in between. `created` and `durable` remember what was answered 201, `alone`
  whether another request was in flight.
* **RuleValves**: `waiting` is the queue at the mutex, `run` the call that
  holds it. The clock may advance at every step, so a call may run long after
  its arrival. `Dispatch` is one action per way out and answer of the endpoint.
  The first way out is `MarshalFails`: a speed may be `Infinite` ("Inf" passes
  `ParseFloat` and `Validate`), and an event that carries it has no JSON form.
* **ResilientBus**: each connection is unused, connected, reconnecting or
  closed; `bus` is `r.bus`, `mine[p]` the connection publisher `p` works with.
  What a reconnecting connection takes goes to its buffer and is lost when the
  connection closes.
* **EventStream**: the steps of `ResilientBus`, and for every event its
  `Inject` afterwards: `Lock`, one `WriteOk` or `WriteFails` per client,
  `Unlock`. A stalled client fails a write by its deadline of 5 s, a broken one
  at once. `errAge` is the age of `lastErr` in ticks of the API's ticker.
* **Rebuild, Replay**: the loops are recursive functions over the turns
  (`OfVehicle`, `ApplyAll`, `ProcessAll`). A sort is given by the rank each
  element ends up at. A replay runs `Process` over the sorted record, on a
  pipeline that has seen nothing. `Recompute` compares both with the live
  state and events of `SerialIngest`.
* **Simulations**: a request goroutine is a handler. `Arrive` reads its clock,
  and a later `TooMany`, `Refuse` or `Simulate` counts it under the limiter's
  mutex with that reading, other handlers in between. One goroutine per run,
  one step per point, injected event or status change. The pipeline appears by
  its outcomes.
* **Connections**: time is counted in ticks of the engine's 30 s ticker, and a
  registry entry has an age. Upstream and NATS change at any moment, and the
  engine crashes and restarts at any moment. `natsLeg` says whether the running
  engine found NATS when it booted, `forwards` whether the API did: without it
  heartbeats stay on the memory bus, or nobody ever subscribes.

## Runs

Passing runs:

| run | instance | shows |
|---|---|---|
| `serial` | one vehicle, five points at four event times, five contents each, every order of arrival | `LatestWins`, `WatermarkMonotone`: no order of arrival lets an old point win. `TransitionsBracketed`, `SpeedingIsSustained`, `EventIdsDistinct`: detector events stay meaningful on late data. `RebuildAgreesInOrder`, `ReplayReproduces`: a rebuild is the live state of a vehicle whose own points came in order, and a replay of in-order telemetry gives the live events, from a record in any order |
| `concurrent` | two API workers, three points (one whose events do not validate), each sent up to twice, a fence, the default rule, a failing bus | `AckedIsDurable`, `AckedIsFolded`: an acknowledgement, of a retry too, is never a lie about storage. `NothingStranded`: a bus failure loses no computed event. `TransitionsBracketed` holds in any interleaving |
| `faults` | a request, an adapter and the sweeper, a reused dedup key, Redis (the sweeper's calls included), Postgres and bus faults with lost replies, a crash, two instants one dedup window apart, fair | `AtMostOncePerWindow`, `OfflineImpliesSilence`, `SilenceIsNoticed`: a silent vehicle is found |
| `refinement` | one adapter goroutine; an MQTT message with a sequence number, one without time and number, a Traccar position from the future; redelivered under bus faults | `RedeliveryFoldedOnce`: a redelivery is not a second fold. `ImplementsSerial`: `Pipeline` behind the adapters implements `SerialIngest` |
| `valves` | two callers, four rule files (an edit under one version, one that does not parse), webhooks open and blocked, points with and without a JSON form, four instants | `CooldownRespected`, `HourlyCapRespected`, `EveryFiringRecordedOnce`, `EvaluateGetsItsTurn` |
| `bus` | two publishers and a forwarded event, three connections, one outage, two WebSocket clients, fair | `NoConnectionLeak`, `StreamIsComplete`, `InjectReturns`, `BusTroubleIsShown` |
| `store` | two processes, two migrations, one crash; two requests, two fence bodies, three reports | `SchemaTruthful`, `PgMeansSchema`; `CreatedIsWatched`, `CreatedIsStored`, `FenceEventsBracketed` |
| `simulations` | one client, two handlers, limit two, five instants around the ends of three windows; two runs of up to two points | `BurstBounded`, `CancelStopsIntake`, `DoneMeansAll`, `EndedIsFinal`, `RunsEnd` |
| `connections` | one adapter of either kind, any number of crashes and outages, boots with and without NATS | `HealthyMeansRunning`, `CrashIsNoticed`, `HealthIsShown`, `AdapterRecovers` |

Three runs show a disagreement between the code and what is written about it:

* `worker_race`: two requests for one vehicle interleave between `States.Get`
  and `States.Set` (`internal/pipeline/pipeline.go:97`). The older point's
  write comes last and `WatermarkMonotone` fails, against
  `internal/state/state.go:108`.
* `retry_after_503`: after a bus failure the client is told to retry, the
  retry is a duplicate answered 202, and the events never reach the bus
  (`AckedIsPublished`), against the README's at-least-once delivery.
* `mqtt_ids`: `MapPayload` sets no id and the adapter path mints none, so the
  second MQTT point collides with the first on the telemetry primary key. Its
  insert fails, the failure is ignored, and the point is folded and published
  but never durable (`AckedIsDurable`), against `internal/ingest/http.go:15`.

### Bounds and why they are enough

* Two workers suffice for every race over one record: a lost update needs two
  writers, and the sweeper is a third. The theorems hold for any number.
* Points are chosen so that each guard goes both ways: speeds over the limit,
  at rest, inside the hysteresis band and missing; a fence entered and left by
  a jump; points equal in key and different in content; a point too far in the
  future that is acceptable at the second instant.
* `MaxDeliveries = 2` lets each point be retried once, which is what turns a
  failure into a duplicate; a third delivery meets the state of the second.
* `MaxCrashes = 1`, `MaxOffline` and `MaxOutages` bound events the environment
  may repeat for ever. After a crash the memory is that of a fresh process, so
  a second one adds no new kind of state. `MaxOffline` is not reached in
  `faults`. One outage of `bus` is enough for both publishers to fail, redial
  and race; `BusNeverLeaks` covers any number of outages.
* `MaxSweepFaults = 1`: Redis fails the sweeper once, in `Get` or in `Set`; the
  next sweep starts afresh.
* `LastVersion = 2` gives a first and a last migration, `MaxFences = 3` a fence
  replaced twice, `MaxReports = 3` an entry, an exit and a return.
* `ErrWindow = 2` stands for 20 ticks: an error is shown at more than one tick
  and expires.
* `MaxCalls = 3` and `MaxRetries = 1` give a firing, a call that waits for it
  and one beyond the hour, with each position in the retry loop (first, last,
  spent).
* `Limit = 2` and `Window = 2` of `simulations` with the instants 0, 2, 3, 5, 6
  are the smallest in which a delayed handler reaches the bound exactly: with
  two handlers 2 * `Limit` requests do fit into one interval, and no more. The
  constraint `RunsAtFirstInstant` lets time pass only while there is no run:
  limiter and runs share no state once a run has started, so their product
  shows nothing new.
* `StaleAfter = 1` and `MaxAttempts = 2` stand for 90 s and ten attempts: an
  entry is listed as it is for more than one tick and then goes stale.
  `MaxInFlight` is one round of heartbeats.

Deadlock is checked where the system never stops (`connections`). In the
others the bounds, not the code, end a behaviour.

### Fairness

* `Pipeline` (`faults`): a goroutine inside `Process` goes on (every call has a timeout
  or returns), and the sweeper's ticker fires. Nothing obliges clients to send
  or time to pass.
* `RuleValves`: the holder of the mutex runs, since its HTTP client has a
  timeout of 5 s, and a Go mutex does not starve a waiter (strong fairness of
  `Lock`).
* `EventStream`: time passes, a caller that has an event to inject goes on (its
  writes have a deadline), and a handler notices that its connection is dead.
  Nothing is assumed of NATS, of publishers inside `Publish`, or of clients.
* `Simulations`: a started goroutine keeps running.
* `Connections`: time passes, and the goroutines of both processes run.
  Nothing is assumed of upstreams, NATS, or the engine's restarts.

## Proofs

All theorems hold for every value of the constants that satisfies the named
assumptions (`DetectorConfig`, `IngestDomains`, `PipelineConfig`,
`AdapterConfig`, `MigratorConfig`, `FenceConfig`, `BusConfig`, `StreamConfig`,
`ValvesConfig`, `SimulationConfig`, `ConnectionsConfig`, `IdsOrdered`), which TLC evaluates in the runs of their
modules. Further hypotheses of a theorem are in its ASSUME and below.

### Ingestion as one step (`SerialIngestProofs`)

* `SerialTypes`, `SerialWatermark`, `SerialLatestWins`. The lemma
  `ApplyNewest` says that `Apply` leaves the later watermark with the speed and
  position of the point it came from. `LatestWins` is then inductive together
  with the types: a fold keeps the old witness or makes the arriving point the
  new one (`FoldFits`).
* `SerialBracketed`. `TransitionsBracketed` alone is not inductive, because the
  detectors do not look at what they emitted. `InStep` adds that the memory of
  each detector says whether its stream is open (`Matched`); `DetectBrackets`
  of `DetectorLemmas` carries both through the three detectors of a point.
* `SerialSustained`. `Clocked`: a running speeding clock was started by a folded
  point, and every point of the vehicle since was over the limit.
* `SerialEventIds`. `Sourced`: every event is about a folded point; one point
  gives no two events of one type (`DetectOut`).
* `SerialRebuild`. The property is not inductive: a sweep breaks the equality of
  live and rebuilt state, and the next point restores it. `Rebuilt` says what
  lasts: for points that came in order, the fold over them is the live state up
  to the presence (`Alike`), and altogether unless the vehicle is offline; and
  the watermark is the time of one of them, so that the next point in order is
  not late and `Apply` forgets the presence it finds (`ApplyAlike`).
  `SortedStays`: the stable sort leaves points alone that are in order, ties
  included, so the fold over the sorted points is the fold over the arrivals.
* `SerialReplay`. `Mirrors`: as long as the folded points are in replay order
  and correlated, the pipeline of the replay after those points has the live
  tracks, states that are alike, the folded dedup keys and the emitted events,
  and no error: every event of a correlated point validates (`MirrorIngest`).
  The order of the record does not matter: replay order is strict, so ranks in
  any permutation of the record are distinct and determined by the points
  (`RankOf`, `OrderedUndoes`). For the same reason it does not matter that
  `sort.Slice` is unstable on long slices.

### The pipeline's goroutines (`PipelineProofs`)

For any number of workers, vehicles, points and instants.

* `PipelineTypes`: one step per action. It rests on `DetectorLemmas`, which
  types `Apply`, `CheckOffline` and the detectors.
* `PipelineOfflineImpliesSilence`. The property is not inductive: a worker or
  the sweeper may write a record it read long ago. `Belief` strengthens it to
  every copy of a record: those stored, those in the workers' locals and the
  one in the sweeper's. Each belief is justified by its own watermark, and
  stays so as time passes (`JustifiedLater`). The sweeper's timestamp may lag
  behind the clock, never lead it.
* `PipelineAtMostOnce`. `Claims` adds to the property what the calls between
  `Seen` and `Set` have claimed: a claim is recorded in `seen` at its time or
  has been superseded a full window later, claims of one key are a window
  apart, and so are claims and folds. `DedupInv` is `Claims` with the property;
  `WriteStep` turns a claim into a fold.
* `PipelineAckedFolded` (Redis answers, no crash) and `PipelineAckedDurable`
  (Postgres answers too, and `IdsFollowKeys`: ids tell dedup keys apart, which
  the run `mqtt_ids` shows an adapter to break). A retry is acknowledged on the
  strength of the key alone, so the invariants are about keys: whatever `seen`
  holds has been folded, or logged, or a call on the way there has it
  (`FoldClaims`, `LogClaims`), and whatever was acknowledged is in `seen`
  (`Recorded`).
* `PipelineBracketed` (no crash; `Calm`: no rule emits a paired kind itself).
  `Streams` says which streams are open from the memory of detectors and
  fences, whichever worker's stage ran last. `FencesCross` does for the loops
  of the fence tracker, and `RulesSpare` for those of the rules engine, what
  `DetectBrackets` does for the detectors. `EventTypes` types events, outboxes
  and fence memory for any fences and rules.
* `PipelineNothingStranded` (all workers are API calls, Postgres answers, no
  crash; a sweeper only with a bus that works, since it drops an event the bus
  refuses). `NotYet`: a call holds no event before its detectors have run.
  What a call holds is safe until it answers, and it answers after publishing
  or injecting all of it.

* `OneWriterWatermark` (one worker, no sweeper; faults, crashes and retries at
  will). `FreshRead`: what the worker has read of a vehicle is still what is
  stored, so the write is an `Apply` on the stored record and cannot move its
  watermark back. With a second writer `FreshRead` fails, and `worker_race`
  shows what follows: only another writer can do it, not a fault or a crash.

### Adapters and the refinement (`PipelineProofs`, second half)

* `AdapterImplementsPipeline`: a step of an adapter is `Arrive` of `Pipeline`
  with the normalized point, so what is proved of `Pipeline` holds behind the
  adapters. `AdapterRedelivery` follows with `GoodKeyIsStable`: the dedup key
  of a message that carries its own event time does not depend on when it is
  mapped.
* `OneGoroutineIsSerial`, `OneAdapterIsSerial`: `Spec => ImplementsSerial` under
  `OneGoroutine`: one worker, no sweeper, Redis that answers, no crash, `Calm`,
  and a run shorter than the dedup window. These are what the implementation
  needs: a second worker breaks it (`worker_race`), the sweeper and a later
  window fold what `SerialIngest` does not. Bus and Postgres may fail. The
  mapping makes `Set` the step of `SerialIngest` (`SerialSet`): it counts as
  done what the pending `Detect` will compute (`TracksOf`, `EmittedOf`), so that
  `DetectStep` is a stutter (`SerialDetect`); fences and rules add no detector
  event (`SerialQuiet`). `DedupInv` gives that the key of a point about to be
  set was never folded, `SerialInv` that what `Get` read is still stored.

### Boot and fences (`FenceStoreProofs`)

* `MigratorTruthful`, `MigratorPgMeansSchema`. `MigratorInv` adds what each
  process knows (`BootKnows`): the migrations it no longer has to do are
  recorded, the one it is about to record was executed, and every migration is
  recorded once it serves from Postgres. Without it a process that records its
  step could record a migration the schema does not hold.
* `FenceStoreBoots` carries those over to the API process. `FencesWatched` and
  `FencesStored` rest on `FenceInv`: a created fence is in the list, in the
  tracker and in every copy still to be installed (`Watching`), and a request
  in flight has its row (`Storing`).
* `FencesBracketed`. `Remembers`: the tracker's memory is the set of fences
  whose last event is entered, for any list of fences installed in between,
  repeated ids included.

### Bus and event stream (`EventStreamProofs`)

* `BusTypes`, `BusNeverLeaks`: with the types, `NoConnectionLeak` is inductive;
  a connection is open from `Dial`, when its publisher is about to swap it in,
  until the next swap closes it.
* `StreamComplete`: `HubInv` adds the clients that the broadcast under way has
  passed already. `StreamImplementsBus` and with it `StreamNeverLeaks`: the
  stream and the ticker leave the bus alone.

### Rules (`RuleValvesProofs`)

`ValveTypes`, `CooldownHolds`, `HourlyCapHolds`, `FiringsRecorded`, for any
callers, batches and rule files, negative cooldowns and caps included.
`ValveInv` has four parts. `CallInv`: the holder of the mutex has the clock of
its grant, which makes the clock of successive firings monotone. `FiringInv`:
`lastFire` and the pruned `fireLog` remember what matters of the full history
of firings (`Remembers`: no firing is later than the last one kept, and none of
the trailing hour is lost), so that an open valve says something about the
history. `DispatchInv`: the valves are still open after the retries of
`Dispatch`. `RecordInv`: it has recorded once when it is done, or not at all
when its event has no JSON form; `JsonStays` carries the form of the event
through the steps of `Dispatch`.

### Simulations and the limiter (`SimulationsProofs`)

* `SimulationTypes`, `CancelStops`, `DoneIsComplete`, `EndIsFinal`. `Sound`
  relates registry, goroutine and context: accepted and remaining points add
  up, the status is terminal exactly when the goroutine has ended, and a
  cancelled run is at most one point further than it was.
* `BurstIsBounded`. The limiter remembers one window per client; `LimiterInv`
  says what that implies for the whole history of the requests let through.
  `Ledger`: every window was opened by one of them, windows do not overlap, and
  none holds more than the limit. An interval of one window's length then meets
  at most two windows, and misses the opener of the earlier one (`OneWindow`),
  but a handler that was overtaken between its clock and the mutex may be
  counted in a window opened after the interval. `InOrder` with `Clocks`: a
  handler does that once, since its next reading is not before that opening, and
  the handler that opened the window does not do it at all (`Overtaken`,
  `HandlersBound`). Hence less than 2 * `Limit` + `Cardinality(Handlers)` - 1;
  with two handlers TLC finds a behaviour with exactly one less.

### Connections (`ConnectionsProofs`)

`ConnectionsTypes`, `HealthyRuns`. With the types, `HealthyMeansRunning` is
inductive: `MoveStep` reduces every step of an adapter's goroutine to the place
and the health it writes together, and a crash starts both afresh. That the
heartbeats of a period are typed takes `SetToSeq` of a finite set
(`BeatsType`).

### How induction over data is done

The loops of the code are recursive functions here, and facts about them are
proved for every length: `SetInduction` (from the least element of a set of
naturals) takes the place of the induction rules with an operator parameter,
and a lemma per loop shows that the table of its turns exists
(`FenceTableExists`, `RuleTableExists`, `KeptTableExists`). `LoopTable` and
`TablesAgree` state existence and uniqueness once for any loop whose turn is
given by a table; `RebuildFrom` and the replay use them.

### Only model-checked, and why

* All liveness properties: `SilenceIsNoticed`, `EvaluateGetsItsTurn`, `RunsEnd`,
  `InjectReturns`, `BusTroubleIsShown`, `CrashIsNoticed`, `HealthIsShown`,
  `AdapterRecovers`. Fairness and `ENABLED` are out of the prover's reach.
* That `SerialIngest`'s promises hold of `Pipeline` with one goroutine follows
  from `OneGoroutineIsSerial` and the theorems of `SerialIngestProofs`. It is not
  stated as a theorem of its own, because the prover does not cite a theorem
  through `INSTANCE`.

Every safety invariant and action property of a passing run is proved.

## Observations

Behaviour met while modelling that no run is kept for:

* Motion inside the hysteresis band depends on the order of arrival, because a
  late point is skipped while a rebuild sorts (`state.go:82`, `state.go:263`).
  `RebuildAgreesInOrder` therefore assumes arrival in order.
* `sweep` may overwrite a point that arrived between its `Get` and `Set`. The
  record is consistent (`OfflineImpliesSilence`), but the point is gone from
  the hot state until the next one.
* `vehicle.offline.ended` is never emitted, though `state.go:2` speaks of
  started and ended transitions.
* If Redis records a dedup key and its reply is lost, the retry is
  acknowledged and the point was never logged. `AckedIsDurable` is therefore
  checked without Redis faults.
* An adapter returns a `PublishError` without persisting the events in it
  (`registry.go:46`); `NothingStranded` is checked for the HTTP endpoint.
* A webhook is sent the last event emitted under its rule's id, which may be
  that of another version (`rules.go:229`).
* A Traccar adapter whose handler fails once leaves `Subscribe` and stops. Its
  health then reads CONFIGURED, though `registry.go:91` says any failure is
  reflected in `Health()`. `AdapterRecovers` names this case.
* The memory buffer of `pgLog` has no cap, though its comment speaks of one
  (`boot.go:178`).
* Two publishers redial after an outage: the second one's swap closes the
  connection the first has just installed and is about to use
  (`eventbus.go:137`), so a publish fails with NATS up.
* Events are published outside every lock, so a transition's end may reach the
  bus before its start (`pipeline.go:114`).
* An event of the API that NATS echoes is injected twice: a client of the
  stream sees it twice, Postgres keeps one row.
* Of two overlapping requests the older list of fences may be installed last
  (`server.go:346`); the lost fence is watched again from the next POST on.
  `CreatedIsWatched` is therefore about requests that overlapped no other.
* A fence answered 422 because its row was refused stays in the list
  (`server.go:99`) and is watched from the next POST on. With Postgres every
  POST is refused: no code inserts the tenant that `geofences.tenant_id` refers
  to.
* Fences are never read back from Postgres, so a restart forgets them, though
  `server.go:84` calls the registry durable; and only the API's tracker is given
  any, so points the engine ingests meet no fence.
* Two fences with one id share a membership flag: a vehicle inside one of them
  only enters and exits it at every point. `Evaluate` ignores the tenant of a
  fence, and `DedupKey` has no tenant either.
* The dedup key of a Traccar position has no trace of the position itself: two
  fixes of one second with equal attributes are one. A message without
  coordinates is at 0, 0; a negative `topicVehicleIndex` is out of range.
* A vehicle's offline event is published again at every sweep whose `Set`
  failed.
* A replay with a pinned rule fires by the wall clock of the replay: cooldown
  and cap see points seconds apart as simultaneous.

* A process that boots while NATS is down keeps the memory bus for its whole
  life (`boot.go:102`): the heartbeats of such an engine reach nobody and its
  adapters are listed STALE after NATS is back; such an API never subscribes
  (`cmd/tide-api/server.go:39`). `HealthIsShown` therefore assumes that both
  booted with NATS.
* The rate limiter reads the clock before it takes its mutex (`security.go:75`),
  so a delayed request may be counted in a window opened after its reading. With
  the limit L and two handlers, 2L requests of one client can fall into one
  window's length, and one more with every further handler.
* An event with an infinite speed is refused by `json.Marshal`
  (`webhooks.go:96`): nothing is sent or recorded, while the valves count the
  firing. A NaN coordinate does the same to the distance of a trip, which the
  model does not carry.
* The MQTT adapter stays HEALTHY when its broker goes away after `Subscribe`
  (`mqtt.go:127`), and an adapter whose `Run` has returned stays stopped until
  the engine restarts. `HealthyMeansRunning` says what a state of the goroutine
  implies, not that the broker answers, and `AdapterRecovers` is mostly about
  Traccar.

## Not modelled

* The tenant directory and the flespi adapter: no process builds the first, and
  `Configure` leaves out the second; only their tests call them.
* `Sign`, `Verify`, the address filter, ray casting, haversine distance: pure
  arithmetic or classification, without state.
* `Compare` and the determinism check of the replay command: two calls of
  `Run`.
* SQL queries, configuration, health probes, tracing, command line, simulator
  data, console and SDK: input, output and presentation.

## Plan

The operators; `SerialIngest`, `Pipeline` and their refinement, with the
adapters in front; `RuleValves`, `ResilientBus` and `EventStream`, `Migrator`
and `FenceStore`, `Simulations`, `Connections`, `Rebuild`, `Replay` and
`Recompute` are written and checked, and the theorems above are proved.

Open: a `Pipeline` whose workers hold a lock per vehicle between `Get` and `Set`,
once the code has one, for which `FreshRead` would hold with any number of
workers; the pinned rule of a replay, once its valves read the event time.
