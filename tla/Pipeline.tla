------------------------------ MODULE Pipeline ------------------------------
(***************************************************************************)
(* Pipeline.Process (internal/pipeline/pipeline.go) as its goroutines run  *)
(* it, with the callers' part (handleIngest of internal/api/server.go,     *)
(* emitting of adapters/registry) and the offline sweeper of               *)
(* cmd/tide-engine/server.go.                                              *)
(*                                                                         *)
(* A worker is a goroutine inside one call of Process.  Every access to a  *)
(* shared store is one step: Seen, Log.Append, States.Get, States.Set,     *)
(* Detect, Geo.Evaluate, Rules.Evaluate, one Publish per event; nothing    *)
(* holds a lock from one step to the next.  Redis, the bus and Postgres    *)
(* may fail any call, the process may crash and clients may send a point   *)
(* again.                                                                  *)
(***************************************************************************)
EXTENDS Geofence, RuleEngine

CONSTANTS
    Keys, Vehicles, Points, Instants,   \* as in SerialIngest
    Workers,        \* concurrent calls of Process
    ApiWorkers,     \* those made by handleIngest; the rest are adapters'
    Sweeper,        \* whether the offline sweeper runs (tide-engine)
    Fences,         \* geofences, a sequence; empty when Geo is nil
    Rules,          \* published rule versions; empty when Rules is nil
    MaxFutureSkew,  \* pipeline.MaxFutureSkew, in seconds
    TTL,            \* dedup window, in seconds
    RedisFaults, BusFaults, PGFaults,   \* which backends may fail
    MaxDeliveries,  \* bound: times a client sends one point
    MaxCrashes,     \* bound: process crashes
    MaxSweepFaults, \* bound: calls of the sweeper that Redis fails
    MaxOffline      \* bound: offline events after which no sweep starts

ASSUME PipelineConfig ==
    /\ Points \subseteq Telemetry(Keys, Vehicles) /\ Points # {}
    /\ Instants \subseteq Nat
    /\ ApiWorkers \subseteq Workers
    /\ Fences \in Seq({Fences[i] : i \in DOMAIN Fences})
    /\ IsFiniteSet(Rules)
    /\ {Sweeper, RedisFaults, BusFaults, PGFaults} \subseteq BOOLEAN
    /\ {MaxFutureSkew, TTL, MaxDeliveries, MaxCrashes, MaxSweepFaults, MaxOffline} \subseteq Nat

VARIABLES
    now,        \* wall clock
    seen,       \* dedup.Store: key -> time it was recorded, or Never
    states,     \* state.Store: vehicle -> VehicleState
    log,        \* Postgres telemetry rows: [t, minted], unique on key and on id
    pgEvents,   \* Postgres event rows: a set of event ids
    tracks, members, eng,   \* Detectors, Geo and Rules, in process memory
    call,       \* the locals of each call of Process: [pc, t, at, cur]
    outbox,     \* ... and its events, with how many are published: [evs, sent]
    sw,         \* the locals of the sweeper
    bus,        \* events NATS took, in order (FanOut's memory leg takes all)
    deliveries, crashes, sweepFaults,   \* counters of the bounds
    folded,     \* history: [t, at] per States.Set, at being when Seen let t pass
    emitted,    \* history: events computed, in order
    acked       \* history: points whose caller was told success

trackers == <<tracks, members, eng>>
memory == <<trackers, outbox>>
env == <<crashes, sweepFaults>>
bounds == <<deliveries, env>>
vars == <<now, seen, states, log, pgEvents, memory, call, sw, bus, bounds, folded, emitted,
          acked>>

NoPoint == CHOOSE t \in Points : TRUE     \* t of an idle worker, never read

PCs == {"idle", "append", "get", "set", "detect", "geo", "rules", "publish", "publishError"}

IdleCall == [pc |-> "idle", t |-> NoPoint, at |-> 0, cur |-> ZeroState]
EmptyOutbox == [evs |-> <<>>, sent |-> 0]

IdleSweeper == [pc |-> "idle", ids |-> {}, at |-> 0, veh |-> NoPoint.veh, cur |-> ZeroState]

\* The memory of a fresh process.
FreshTracks == [v \in Vehicles |-> ZeroTrack]
FreshMembers == [v \in Vehicles |-> {}]
FreshEngine == ZeroEngine(Rules, Vehicles)
NoCalls == [w \in Workers |-> IdleCall]
NoEvents == [w \in Workers |-> EmptyOutbox]

Init ==
    /\ now \in Instants /\ \A i \in Instants : now <= i
    /\ seen = [k \in Keys |-> Never]
    /\ states = [v \in Vehicles |-> ZeroState]
    /\ log = <<>> /\ pgEvents = {} /\ bus = <<>>
    /\ tracks = FreshTracks /\ members = FreshMembers /\ eng = FreshEngine
    /\ call = NoCalls /\ outbox = NoEvents /\ sw = IdleSweeper
    /\ deliveries = [t \in Points |-> 0] /\ crashes = 0 /\ sweepFaults = 0
    /\ folded = <<>> /\ emitted = <<>> /\ acked = {}

----------------------------------------------------------------------------
(* Process, step by step.                                                  *)

At(w, l) == call[w].pc = l
Goto(w, l) == call' = [call EXCEPT ![w].pc = l]
Return(w) ==
    /\ call' = [call EXCEPT ![w] = IdleCall]
    /\ outbox' = [outbox EXCEPT ![w] = EmptyOutbox]

\* A caller hands t to an idle worker.
Deliver(w, t) ==
    /\ At(w, "idle")
    /\ deliveries[t] < MaxDeliveries
    /\ deliveries' = [deliveries EXCEPT ![t] = @ + 1]

Admissible(t) == Valid(t) /\ t.ts <= now + MaxFutureSkew
IsDup(t) == seen[t.key] # Never /\ now - seen[t.key] < TTL

\* Validation and the event-time check refuse t.
Reject(w, t) ==
    /\ Deliver(w, t)
    /\ ~Admissible(t)
    /\ UNCHANGED <<now, seen, states, log, pgEvents, memory, call, sw, bus, env, folded,
                   emitted, acked>>

\* Seen fails; Redis may have recorded the key before the reply was lost.
SeenFails(w, t) ==
    /\ RedisFaults
    /\ Deliver(w, t)
    /\ Admissible(t)
    /\ seen' \in {seen, IF IsDup(t) THEN seen ELSE [seen EXCEPT ![t.key] = now]}
    /\ UNCHANGED <<now, states, log, pgEvents, memory, call, sw, bus, env, folded,
                   emitted, acked>>

\* Seen reports a duplicate: the caller is told success and nothing changes.
Absorb(w, t) ==
    /\ Deliver(w, t)
    /\ Admissible(t)
    /\ IsDup(t)
    /\ acked' = acked \union {t}
    /\ UNCHANGED <<now, seen, states, log, pgEvents, memory, call, sw, bus, env, folded,
                   emitted>>

\* The variant whose test of the key does not record it.
AcceptUnrecorded(w, t) ==
    /\ Deliver(w, t)
    /\ Admissible(t)
    /\ ~IsDup(t)
    /\ call' = [call EXCEPT ![w] = [IdleCall EXCEPT !.pc = "append", !.t = t, !.at = now]]
    /\ UNCHANGED <<now, seen, states, log, pgEvents, memory, sw, bus, env, folded,
                   emitted, acked>>

\* Seen records a new key.
Accept(w, t) ==
    /\ Deliver(w, t)
    /\ Admissible(t)
    /\ ~IsDup(t)
    /\ seen' = [seen EXCEPT ![t.key] = now]
    /\ call' = [call EXCEPT ![w] = [IdleCall EXCEPT !.pc = "append", !.t = t, !.at = now]]
    /\ UNCHANGED <<now, states, log, pgEvents, memory, sw, bus, env, folded, emitted,
                   acked>>

Logged(k) == \E i \in DOMAIN log : log[i].t.key = k

\* handleIngest gives a point without an id a fresh one; the adapters hand on
\* what they mapped.
Mints(w, t) == w \in ApiWorkers /\ t.id = ""

\* The primary key of another row is this row's id.
IdTaken(w, t) ==
    ~Mints(w, t) /\ \E i \in DOMAIN log : ~log[i].minted /\ log[i].t.id = t.id

\* INSERT ... ON CONFLICT (tenant_id, dedup_key) DO NOTHING: a row with the
\* same key is left alone, one with the same id makes the statement fail;
\* every caller ignores a failure.
AppendTelemetry(w, t) ==
    \/ log' = IF Logged(t.key) \/ IdTaken(w, t) THEN log
              ELSE Append(log, [t |-> t, minted |-> Mints(w, t)])
    \/ PGFaults /\ UNCHANGED log

\* The variant that leaves the row to handleIngest.
AppendLogDeferred(w) ==
    /\ At(w, "append")
    /\ Goto(w, "get")
    /\ UNCHANGED <<now, seen, states, log, pgEvents, memory, sw, bus, bounds, folded, emitted,
                   acked>>

\* Log.Append.
AppendLog(w) ==
    /\ At(w, "append")
    /\ AppendTelemetry(w, call[w].t)
    /\ Goto(w, "get")
    /\ UNCHANGED <<now, seen, states, pgEvents, memory, sw, bus, bounds, folded, emitted,
                   acked>>

\* The variant that drops the first point of a vehicle without a state.
GetRequiresTracked(w) ==
    /\ At(w, "get")
    /\ IF states[call[w].t.veh] = ZeroState
       THEN Goto(w, "publish")
       ELSE call' = [call EXCEPT ![w].cur = states[call[w].t.veh], ![w].pc = "set"]
    /\ UNCHANGED <<now, seen, states, log, pgEvents, memory, sw, bus, bounds, folded, emitted,
                   acked>>

\* States.Get; an untracked vehicle reads as the zero state.
Get(w) ==
    /\ At(w, "get")
    /\ call' = [call EXCEPT ![w].cur = states[call[w].t.veh], ![w].pc = "set"]
    /\ UNCHANGED <<now, seen, states, log, pgEvents, memory, sw, bus, bounds, folded, emitted,
                   acked>>

\* Engine.Apply on what Get read.
Applied(w) == Apply(call[w].cur, call[w].t)

Write(w) ==
    /\ states' = [states EXCEPT ![call[w].t.veh] = Applied(w)]
    /\ folded' = Append(folded, [t |-> call[w].t, at |-> call[w].at])

Set(w) ==
    /\ At(w, "set")
    /\ Write(w)
    /\ call' = [call EXCEPT ![w].cur = Applied(w), ![w].pc = "detect"]
    /\ UNCHANGED <<now, seen, log, pgEvents, memory, sw, bus, bounds, emitted, acked>>

\* States.Get or States.Set fails and Process returns the error at once; a
\* failed Set may have written before its reply was lost.
StoreFails(w) ==
    /\ RedisFaults
    /\ \/ (At(w, "get") \/ At(w, "set")) /\ UNCHANGED <<states, folded>>
       \/ At(w, "set") /\ Write(w)
    /\ Return(w)
    /\ UNCHANGED <<now, seen, log, pgEvents, trackers, sw, bus, bounds, emitted, acked>>

\* The next stage appends out to the events of the call.
Compute(w, from, out, to) ==
    /\ At(w, from)
    /\ Goto(w, to)
    /\ outbox' = [outbox EXCEPT ![w].evs = @ \o out]
    /\ emitted' = emitted \o out
    /\ UNCHANGED <<now, seen, states, log, pgEvents, sw, bus, bounds, folded, acked>>

\* Tracker.Detect under the tracker's mutex.
DetectStep(w) ==
    LET t == call[w].t
        det == Detect(tracks[t.veh], t, call[w].cur)
    IN  /\ Compute(w, "detect", det.out, "geo")
        /\ tracks' = [tracks EXCEPT ![t.veh] = det.trk]
        /\ UNCHANGED <<members, eng>>

\* geo.Tracker.Evaluate under its own mutex.
GeoStep(w) ==
    LET t == call[w].t
        g == EvaluateFences(members[t.veh], Fences, t)
    IN  /\ Compute(w, "geo", g.out, "rules")
        /\ members' = [members EXCEPT ![t.veh] = g.mem]
        /\ UNCHANGED <<tracks, eng>>

\* Evaluate ranges over a Go map: the rules come in any order.
RuleOrders == {o \in [1 .. Cardinality(Rules) -> Rules] : IsInjective(o)}

\* The inner loop: one rule against every event.
EvaluateRule(acc, r, t, s, events, at) ==
    LET turn[n \in 0 .. Len(events)] ==
            IF n = 0 THEN acc ELSE EvaluateOne(turn[n - 1], r, events[n], t, s, at)
    IN  turn[Len(events)]

EvaluateRules(e, order, t, s, events, at) ==
    LET turn[n \in 0 .. Len(order)] ==
            IF n = 0 THEN [eng |-> e, out |-> <<>>]
            ELSE EvaluateRule(turn[n - 1], order[n], t, s, events, at)
    IN  turn[Len(order)]

\* rules.Engine.Evaluate under the engine's mutex, on the wall clock.
RulesStep(w) ==
    \E order \in RuleOrders :
        LET r == EvaluateRules(eng, order, call[w].t, call[w].cur, outbox[w].evs, now)
        IN  /\ Compute(w, "rules", r.out, "publish")
            /\ eng' = r.eng
            /\ UNCHANGED <<tracks, members>>

AllSent(w) == outbox[w].sent = Len(outbox[w].evs)
NextEvent(w) == outbox[w].evs[outbox[w].sent + 1]

\* Bus.Publish of the next event, outside every lock.
Publish(w) ==
    /\ At(w, "publish")
    /\ ~AllSent(w)
    /\ EventValid(NextEvent(w))
    /\ bus' = Append(bus, NextEvent(w))
    /\ outbox' = [outbox EXCEPT ![w].sent = @ + 1]
    /\ UNCHANGED <<now, seen, states, log, pgEvents, trackers, call, sw, bounds, folded,
                   emitted, acked>>

\* The bus is down or refuses the event: PublishError, the rest is not sent.
PublishFails(w) ==
    /\ At(w, "publish")
    /\ ~AllSent(w)
    /\ BusFaults \/ ~EventValid(NextEvent(w))
    /\ Goto(w, "publishError")
    /\ UNCHANGED <<now, seen, states, log, pgEvents, memory, sw, bus, bounds, folded, emitted,
                   acked>>

----------------------------------------------------------------------------
(* What the caller does with the result.                                   *)

\* Inject of every event: upserts by id whose errors are ignored.
Inject(w) ==
    LET ids == {DeterministicID(outbox[w].evs[i]) : i \in DOMAIN outbox[w].evs}
    IN  \/ pgEvents' = pgEvents \union ids
        \/ PGFaults /\ \E S \in SUBSET ids : pgEvents' = pgEvents \union S

\* Everything is published.  handleIngest injects the events, appends the row
\* once more and answers 202; an adapter only counts the point.
RespondOk(w) ==
    /\ At(w, "publish")
    /\ AllSent(w)
    /\ IF w \in ApiWorkers THEN Inject(w) /\ AppendTelemetry(w, call[w].t)
                            ELSE UNCHANGED <<pgEvents, log>>
    /\ acked' = acked \union {call[w].t}
    /\ Return(w)
    /\ UNCHANGED <<now, seen, states, trackers, sw, bus, bounds, folded, emitted>>

\* The variant of handleIngest that does not look inside a PublishError.
RespondPublishErrorBare(w) ==
    /\ At(w, "publishError")
    /\ Return(w)
    /\ UNCHANGED <<now, seen, states, log, pgEvents, trackers, sw, bus, bounds, folded, emitted,
                   acked>>

\* handleIngest after a PublishError: persist every event, then 503 "retry".
\* An adapter returns the error and drops the events with it.
RespondPublishError(w) ==
    /\ At(w, "publishError")
    /\ IF w \in ApiWorkers THEN Inject(w) ELSE UNCHANGED pgEvents
    /\ Return(w)
    /\ UNCHANGED <<now, seen, states, log, trackers, sw, bus, bounds, folded, emitted, acked>>

----------------------------------------------------------------------------
(* The offline sweeper: its own Get, CheckOffline, Set and Publish.        *)

OfflineEvents == SelectSeq(emitted, LAMBDA e : e.kind = "offline")

Tracked == {v \in Vehicles : states[v].lastSeen # NoTime}

\* The variant that keeps the time of the first sweep.
SweepStartStaleClock ==
    /\ Sweeper
    /\ sw.pc = "idle"
    /\ Len(OfflineEvents) < MaxOffline
    /\ Tracked # {}
    /\ sw' = [sw EXCEPT !.pc = "scan", !.ids = Tracked,
                        !.at = IF @ = 0 THEN now ELSE @]
    /\ UNCHANGED <<now, seen, states, log, pgEvents, memory, call, bus, bounds, folded, emitted,
                   acked>>

\* The ticker fires; ListIDs takes a snapshot of the tracked vehicles.
SweepStart ==
    /\ Sweeper
    /\ sw.pc = "idle"
    /\ Len(OfflineEvents) < MaxOffline
    /\ Tracked # {}
    /\ sw' = [sw EXCEPT !.pc = "scan", !.ids = Tracked, !.at = now]
    /\ UNCHANGED <<now, seen, states, log, pgEvents, memory, call, bus, bounds, folded, emitted,
                   acked>>

\* Redis fails a call of the sweeper.
SweepFault ==
    /\ RedisFaults
    /\ sweepFaults < MaxSweepFaults
    /\ sweepFaults' = sweepFaults + 1

\* Get of the next vehicle, in any order; skipped unless a change is due, or
\* when Get fails.
SweepGet(v) ==
    LET s == states[v]
        due == OfflineDue(s, 0, sw.at)
        rest == sw.ids \ {v}
        skip == [sw EXCEPT !.pc = IF rest = {} THEN "idle" ELSE "scan", !.ids = rest]
    IN  /\ sw.pc = "scan"
        /\ v \in sw.ids
        /\ \/ /\ due
              /\ sw' = [sw EXCEPT !.pc = "set", !.ids = rest, !.veh = v,
                                  !.cur = CheckOffline(s, 0, sw.at)]
              /\ UNCHANGED sweepFaults
           \/ ~due /\ sw' = skip /\ UNCHANGED sweepFaults
           \/ sw' = skip /\ SweepFault
        /\ UNCHANGED <<now, seen, states, log, pgEvents, memory, call, bus, deliveries, crashes,
                       folded, emitted, acked>>

\* The variant that writes the presence alone, into whatever is stored by now.
SweepSetMerge ==
    /\ sw.pc = "set"
    /\ \/ states' = [states EXCEPT ![sw.veh].presence = sw.cur.presence] /\ UNCHANGED sweepFaults
       \/ SweepFault /\ UNCHANGED states
    /\ sw' = [sw EXCEPT !.pc = "publish"]
    /\ UNCHANGED <<now, seen, log, pgEvents, memory, call, bus, deliveries, crashes, folded,
                   emitted, acked>>

\* Set of what CheckOffline returned; its error is ignored.
SweepSet ==
    /\ sw.pc = "set"
    /\ \/ states' = [states EXCEPT ![sw.veh] = sw.cur] /\ UNCHANGED sweepFaults
       \/ SweepFault /\ UNCHANGED states
    /\ sw' = [sw EXCEPT !.pc = "publish"]
    /\ UNCHANGED <<now, seen, log, pgEvents, memory, call, bus, deliveries, crashes, folded,
                   emitted, acked>>

SweepEvent == Event("offline", "started", sw.veh, sw.at, "sweep", TRUE)

SweepPublish ==
    /\ sw.pc = "publish"
    /\ \/ bus' = Append(bus, SweepEvent)
       \/ BusFaults /\ UNCHANGED bus
    /\ emitted' = Append(emitted, SweepEvent)
    /\ sw' = [sw EXCEPT !.pc = IF sw.ids = {} THEN "idle" ELSE "scan"]
    /\ UNCHANGED <<now, seen, states, log, pgEvents, memory, call, bounds, folded, acked>>

----------------------------------------------------------------------------
Tick ==
    /\ now' \in {i \in Instants : i > now}
    /\ UNCHANGED <<seen, states, log, pgEvents, memory, call, sw, bus, bounds, folded, emitted,
                   acked>>

\* The process dies and restarts: calls in flight and the detectors', fences'
\* and rules' memory are gone, Redis and Postgres are not.
Crash ==
    /\ crashes < MaxCrashes
    /\ crashes' = crashes + 1
    /\ tracks' = FreshTracks /\ members' = FreshMembers /\ eng' = FreshEngine
    /\ call' = NoCalls /\ outbox' = NoEvents /\ sw' = IdleSweeper
    /\ UNCHANGED <<now, seen, states, log, pgEvents, bus, deliveries, sweepFaults, folded,
                   emitted, acked>>

Arrive(w) == \E t \in Points :
    Reject(w, t) \/ SeenFails(w, t) \/ Absorb(w, t) \/ Accept(w, t)

Proceed(w) ==
    \/ AppendLog(w) \/ Get(w) \/ Set(w) \/ StoreFails(w)
    \/ DetectStep(w) \/ GeoStep(w) \/ RulesStep(w)
    \/ Publish(w) \/ PublishFails(w)
    \/ RespondOk(w) \/ RespondPublishError(w)

Sweep == SweepStart \/ (\E v \in Vehicles : SweepGet(v)) \/ SweepSet \/ SweepPublish

Next ==
    \/ \E w \in Workers : Arrive(w) \/ Proceed(w)
    \/ Sweep
    \/ Tick
    \/ Crash

Spec == Init /\ [][Next]_vars

\* A goroutine inside Process keeps running; the sweeper's ticker fires.
\* Redis fails the sweeper finitely often (MaxSweepFaults).
FairSpec == Spec /\ (\A w \in Workers : WF_vars(Proceed(w))) /\ WF_vars(Sweep)

----------------------------------------------------------------------------
\* outbox, members and the event histories have a type that depends on the
\* rules and fences: EventTypes of PipelineProofs.
TypeOK ==
    /\ now \in Instants
    /\ seen \in [Keys -> Instants \union {Never}]
    /\ states \in [Vehicles -> VehicleStates]
    /\ log \in Seq([t : Points, minted : BOOLEAN])
    /\ tracks \in [Vehicles -> Tracks]
    /\ call \in [Workers -> [pc : PCs, t : Points, at : Nat, cur : VehicleStates]]
    /\ sw \in [pc : {"idle", "scan", "set", "publish"}, ids : SUBSET Vehicles,
               at : Nat, veh : Vehicles, cur : VehicleStates]
    /\ deliveries \in [Points -> 0 .. MaxDeliveries]
    /\ crashes \in 0 .. MaxCrashes /\ sweepFaults \in 0 .. MaxSweepFaults
    /\ folded \in Seq([t : Points, at : Nat])
    /\ acked \subseteq Points

Busy(w) == ~At(w, "idle")
InFlight(k) == \E w \in Workers : Busy(w) /\ call[w].t.key = k
Folded(k) == \E i \in DOMAIN folded : folded[i].t.key = k

Distance(a, b) == IF a <= b THEN b - a ELSE a - b

\* Duplicate telemetry never causes a second state transition: two folds of
\* one dedup key were let through by Seen at least TTL apart, whatever the
\* interleaving, retries, lost replies and crashes (dedup.Store.Seen).
AtMostOncePerWindow ==
    \A i, j \in DOMAIN folded :
        (i # j /\ folded[i].t.key = folded[j].t.key)
            => Distance(folded[i].at, folded[j].at) >= TTL

\* A point whose client was told success is in the durable telemetry, or a
\* call that will put it there is still running.
AckedIsDurable == \A t \in acked : Logged(t.key) \/ InFlight(t.key)

\* ... and has been folded into the hot state.
AckedIsFolded == \A t \in acked : Folded(t.key) \/ InFlight(t.key)

Held(e) == \E w \in Workers : Busy(w) /\ \E i \in DOMAIN outbox[w].evs : outbox[w].evs[i] = e
OnBus(e) == \E i \in DOMAIN bus : bus[i] = e

\* No computed event is stranded: it is on the bus, persisted, or held by a
\* call that has not answered yet (PublishError and its handling).
NothingStranded ==
    \A i \in DOMAIN emitted :
        OnBus(emitted[i]) \/ DeterministicID(emitted[i]) \in pgEvents \/ Held(emitted[i])

\* At-least-once delivery: once a client was told its point is ingested, after
\* a retry or not, every event of the point reaches the bus.
AckedIsPublished ==
    \A i \in DOMAIN emitted :
        (\E t \in acked : t.veh = emitted[i].veh /\ t.ts = emitted[i].ts)
            => OnBus(emitted[i]) \/ Held(emitted[i])

\* Per vehicle and detector or fence, opening and closing events alternate in
\* the order they are computed, however calls interleave: each detector step
\* runs under its mutex.  (One process life.)
TransitionsBracketed == Bracketed(emitted)

\* The watermark of a vehicle never moves back.
WatermarkMonotone ==
    [][\A v \in Vehicles : states'[v].lastSeen >= states[v].lastSeen]_vars

\* A vehicle is only believed offline when it has been silent for the limit,
\* counted from the watermark stored with that belief: workers and sweeper
\* overwrite whole records, so the two fields stay consistent in any race.
OfflineImpliesSilence ==
    \A v \in Vehicles : states[v].presence = "offline" =>
        now - states[v].lastSeen > DefaultCadenceSecs * OfflineMultiplier

Silent(v) ==
    /\ states[v].lastSeen # NoTime
    /\ now - states[v].lastSeen > DefaultCadenceSecs * OfflineMultiplier

\* A vehicle that falls silent is eventually believed offline, unless it is
\* heard from again.
SilenceIsNoticed ==
    \A v \in Vehicles : Silent(v) ~> (states[v].presence = "offline" \/ ~Silent(v))
=============================================================================
