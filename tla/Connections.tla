---------------------------- MODULE Connections ----------------------------
(***************************************************************************)
(* From an upstream adapter to the Connections screen: the life of an      *)
(* adapter in the engine (adapters/registry, adapters/mqtt,                *)
(* adapters/traccar), the heartbeats that carry its health over NATS       *)
(* (cmd/tide-engine/server.go), the API's resilient subscription           *)
(* (eventbus.SubscribeResilient, cmd/tide-api/server.go) and the registry  *)
(* that lists it (AdapterRegistry of internal/api/server.go).              *)
(*                                                                         *)
(* Time is counted in periods of the engine's 30 s ticker; an entry has an *)
(* age, which saturates once it is stale.  External: the upstreams, which  *)
(* come and go, and NATS, which keeps the order and loses what it carries  *)
(* when a connection breaks.  A process that boots while NATS is down does *)
(* without it for its whole life (boot.Build); the API boots once, the     *)
(* engine again after every crash.                                         *)
(***************************************************************************)
EXTENDS Integers, Sequences, FiniteSets, SequencesExt

CONSTANTS
    Adapters,       \* configured adapters
    StaleAfter,     \* 90 s, in periods
    MaxAttempts,    \* connection attempts of the MQTT adapter
    MaxInFlight     \* bound: heartbeats NATS carries at once

ASSUME ConnectionsConfig ==
    /\ StaleAfter \in Nat
    /\ MaxAttempts \in Nat \ {0}
    /\ IsFiniteSet(Adapters) /\ "tide-engine" \notin Adapters
    /\ MaxInFlight \in Nat /\ MaxInFlight > Cardinality(Adapters)

VARIABLES
    kind,       \* adapter -> "mqtt" or "traccar"
    reachable,  \* adapter -> its broker or server answers
    health,     \* adapter -> what Health() returns
    pc,         \* adapter -> where its Run goroutine is
    attempt,    \* adapter -> failed connection attempts so far
    engineUp, due,  \* the engine runs; its ticker has fired
    natsLeg,    \* the engine's bus has a NATS leg: NATS was up when it booted
    natsUp,     \* NATS is up
    forwards,   \* the API subscribes at all: NATS was up when it booted
    sub,        \* its subscription: "off" or "on"
    wire,       \* heartbeats on their way: [name, state], in order
    entries     \* AdapterRegistry.entries: name -> [state, age]

adapter == <<kind, reachable, health, pc, attempt>>
engine == <<engineUp, due, natsLeg>>
api == <<forwards, sub, entries>>
vars == <<adapter, engine, natsUp, wire, api>>

HealthStates ==
    {"CONFIGURED", "CONNECTING", "HEALTHY", "DEGRADED", "RECONNECTING", "FAILED"}
Names == Adapters \union {"tide-engine"}
Stale == StaleAfter + 1
NoEntry == [state |-> "none", age |-> Stale]

TypeOK ==
    /\ kind \in [Adapters -> {"mqtt", "traccar"}]
    /\ reachable \in [Adapters -> BOOLEAN]
    /\ health \in [Adapters -> HealthStates]
    /\ pc \in [Adapters -> {"start", "connect", "subscribe", "poll", "handle", "running",
                            "disconnect", "stopped"}]
    /\ attempt \in [Adapters -> 0 .. MaxAttempts]
    /\ engineUp \in BOOLEAN /\ due \in BOOLEAN /\ natsLeg \in BOOLEAN
    /\ natsUp \in BOOLEAN /\ forwards \in BOOLEAN
    /\ sub \in {"off", "on"}
    /\ wire \in Seq([name : Names, state : HealthStates]) /\ Len(wire) <= MaxInFlight
    /\ entries \in [Names -> [state : HealthStates \union {"none"}, age : 0 .. Stale]]

Fresh(v) == [a \in Adapters |-> v]

Init ==
    /\ kind \in [Adapters -> {"mqtt", "traccar"}]
    /\ reachable \in [Adapters -> BOOLEAN]
    /\ health = Fresh("CONFIGURED") /\ pc = Fresh("start") /\ attempt = Fresh(0)
    /\ engineUp = TRUE /\ due = FALSE
    /\ natsUp \in BOOLEAN /\ natsLeg = natsUp
    /\ forwards \in BOOLEAN /\ sub = "off"
    /\ wire = <<>>
    /\ entries = [n \in Names |-> NoEntry]

----------------------------------------------------------------------------
(* Run(ctx) of one adapter.                                                *)

\* a's goroutine goes from one place to another and reports h.
Move(a, from, to, h) ==
    /\ engineUp
    /\ pc[a] = from
    /\ pc' = [pc EXCEPT ![a] = to]
    /\ health' = [health EXCEPT ![a] = h]
    /\ UNCHANGED <<kind, reachable, engine, natsUp, wire, api>>

Start(a) == Move(a, "start", "connect", "CONNECTING") /\ UNCHANGED attempt

\* Connect succeeds; Traccar's Subscribe is its poll loop.
ConnectOk(a) ==
    /\ reachable[a]
    /\ Move(a, "connect", IF kind[a] = "mqtt" THEN "subscribe" ELSE "poll", "HEALTHY")
    /\ UNCHANGED attempt

\* The MQTT adapter backs off and tries again ...
ConnectRetries(a) ==
    /\ kind[a] = "mqtt" /\ ~reachable[a]
    /\ attempt[a] + 1 < MaxAttempts
    /\ Move(a, "connect", "connect", "RECONNECTING")
    /\ attempt' = [attempt EXCEPT ![a] = @ + 1]

\* ... until its attempts are spent; the Traccar adapter has one.  Run
\* returns before Disconnect is deferred.
ConnectFails(a) ==
    /\ ~reachable[a]
    /\ kind[a] = "traccar" \/ attempt[a] + 1 = MaxAttempts
    /\ Move(a, "connect", "stopped", "FAILED")
    /\ UNCHANGED attempt

\* MQTT: the topics are subscribed, and from then on the client library
\* reconnects by itself; or the broker refuses one.
SubscribeOk(a) ==
    /\ reachable[a]
    /\ Move(a, "subscribe", "running", health[a])
    /\ UNCHANGED attempt

SubscribeFails(a) == Move(a, "subscribe", "disconnect", "DEGRADED") /\ UNCHANGED attempt

\* The variant of Traccar's poll that does not report its recovery.
PollOkSilent(a) ==
    /\ reachable[a]
    /\ Move(a, "poll", "handle", health[a])
    /\ UNCHANGED attempt

\* Traccar: every 15 s, fetch the positions and hand them over.
PollOk(a) ==
    /\ reachable[a]
    /\ Move(a, "poll", "handle", "HEALTHY")
    /\ UNCHANGED attempt

PollFails(a) ==
    /\ ~reachable[a]
    /\ Move(a, "poll", "poll", "DEGRADED")
    /\ UNCHANGED attempt

\* The pipeline takes every position, or refuses one: Subscribe returns.
HandleOk(a) == Move(a, "handle", "poll", health[a]) /\ UNCHANGED attempt
HandleFails(a) == Move(a, "handle", "disconnect", health[a]) /\ UNCHANGED attempt

\* The variant of Run without the deferred Disconnect.
DisconnectForgotten(a) == Move(a, "disconnect", "stopped", health[a]) /\ UNCHANGED attempt

\* The deferred Disconnect.
Disconnect(a) == Move(a, "disconnect", "stopped", "CONFIGURED") /\ UNCHANGED attempt

Run(a) ==
    \/ Start(a) \/ ConnectOk(a) \/ ConnectRetries(a) \/ ConnectFails(a)
    \/ SubscribeOk(a) \/ SubscribeFails(a)
    \/ PollOk(a) \/ PollFails(a) \/ HandleOk(a) \/ HandleFails(a)
    \/ Disconnect(a)

----------------------------------------------------------------------------
(* The engine's ticker and heartbeats.                                     *)

\* One period passes; a tick nobody has taken yet is not doubled.
Tick ==
    /\ entries' = [n \in Names |-> [entries[n] EXCEPT !.age = IF @ < Stale THEN @ + 1 ELSE @]]
    /\ due' = engineUp
    /\ UNCHANGED <<adapter, engineUp, natsLeg, natsUp, wire, forwards, sub>>

Beat(n) == [name |-> n, state |-> IF n = "tide-engine" THEN "HEALTHY" ELSE health[n]]
Beats == [i \in 1 .. Cardinality(Names) |-> Beat(SetToSeq(Names)[i])]

\* The engine's own heartbeat and one per adapter.  With NATS down the
\* engine's connection buffers or loses them; without a subscription they
\* reach nobody, and without a NATS leg they stay on the memory bus.
Heartbeat ==
    /\ engineUp
    /\ due
    /\ due' = FALSE
    /\ \/ /\ natsLeg
          /\ ~natsUp \/ sub = "on"
          /\ Len(wire) + Len(Beats) <= MaxInFlight
          /\ wire' = wire \o Beats
       \/ /\ ~natsLeg \/ ~natsUp \/ sub = "off"
          /\ UNCHANGED wire
    /\ UNCHANGED <<adapter, engineUp, natsLeg, natsUp, api>>

Crash ==
    /\ engineUp
    /\ engineUp' = FALSE /\ due' = FALSE /\ natsLeg' = FALSE
    /\ health' = Fresh("CONFIGURED") /\ pc' = Fresh("start") /\ attempt' = Fresh(0)
    /\ UNCHANGED <<kind, reachable, natsUp, wire, api>>

\* boot.Build: the bus gets its NATS leg now or never.
Restart ==
    /\ ~engineUp
    /\ engineUp' = TRUE
    /\ natsLeg' = natsUp
    /\ UNCHANGED <<adapter, due, natsUp, wire, api>>

----------------------------------------------------------------------------
(* The API: SubscribeResilient, its callback and the registry.             *)

\* Connect and subscribe; without NATS the loop backs off and tries again.
Subscribe ==
    /\ forwards
    /\ sub = "off"
    /\ natsUp
    /\ sub' = "on"
    /\ UNCHANGED <<adapter, engine, natsUp, wire, forwards, entries>>

\* The variant that subscribes once, at boot.
UnsubscribeForGood ==
    /\ sub = "on"
    /\ ~natsUp
    /\ sub' = "dead"
    /\ UNCHANGED <<adapter, engine, natsUp, wire, forwards, entries>>

\* The 5 s check finds the connection down and gives it up.
Unsubscribe ==
    /\ sub = "on"
    /\ ~natsUp
    /\ sub' = "off"
    /\ UNCHANGED <<adapter, engine, natsUp, wire, forwards, entries>>

\* A state the API does not know reads as CONFIGURED.
heartbeatStatus(h) == IF h \in HealthStates THEN h ELSE "CONFIGURED"

\* AdapterRegistry.Set, at the time of receipt.
Set(n, h) == entries' = [entries EXCEPT ![n] = [state |-> h, age |-> 0]]

\* The callback of the subscription takes one heartbeat.
Receive ==
    /\ natsUp
    /\ sub = "on"
    /\ wire # <<>>
    /\ wire' = Tail(wire)
    /\ Set(Head(wire).name, heartbeatStatus(Head(wire).state))
    /\ UNCHANGED <<adapter, engine, natsUp, forwards, sub>>

\* What NATS carries is lost while nobody is subscribed.
Lose ==
    /\ sub = "off"
    /\ wire # <<>>
    /\ wire' = Tail(wire)
    /\ UNCHANGED <<adapter, engine, natsUp, api>>

\* The variant that lists what was received last, however long ago.
ListedAnyAge(n) == entries[n].state

\* AdapterRegistry.List.
Listed(n) == IF entries[n].age > StaleAfter THEN "STALE" ELSE entries[n].state

----------------------------------------------------------------------------
UpstreamChanges(a) ==
    /\ reachable' = [reachable EXCEPT ![a] = ~@]
    /\ UNCHANGED <<kind, health, pc, attempt, engine, natsUp, wire, api>>

NatsChanges ==
    /\ natsUp' = ~natsUp
    /\ UNCHANGED <<adapter, engine, wire, api>>

Next ==
    \/ \E a \in Adapters : Run(a) \/ UpstreamChanges(a)
    \/ Tick \/ Heartbeat \/ Crash \/ Restart
    \/ Subscribe \/ Unsubscribe \/ Receive \/ Lose
    \/ NatsChanges

Spec == Init /\ [][Next]_vars

\* Time passes and the goroutines of both processes run; nothing is assumed
\* of upstreams, NATS and the engine's crashes.
FairSpec ==
    /\ Spec
    /\ \A a \in Adapters : WF_vars(Run(a))
    /\ WF_vars(Tick) /\ WF_vars(Heartbeat)
    /\ WF_vars(Subscribe) /\ WF_vars(Receive)

----------------------------------------------------------------------------
\* An adapter reports HEALTHY only while its Run goroutine is between a
\* successful Connect and Disconnect, however it came to stop.
HealthyMeansRunning ==
    \A a \in Adapters : health[a] = "HEALTHY" =>
        pc[a] \in {"subscribe", "poll", "handle", "running", "disconnect"}

\* An engine that is gone is not silently healthy: if it stays down, the
\* screen stops listing it and its adapters as HEALTHY, heartbeats still on
\* their way included.
CrashIsNoticed ==
    \A n \in Names : <>[]~engineUp => <>[](Listed(n) # "HEALTHY")

\* However engine, NATS and subscription failed before, once NATS stays up and
\* so does an engine that booted with it, an API that booted with it keeps
\* showing the health an adapter has settled in (ResilientBus and
\* SubscribeResilient come back, boot.Build does not).
HealthIsShown ==
    \A a \in Adapters, h \in HealthStates :
        forwards /\ <>[](engineUp /\ natsLeg /\ natsUp /\ health[a] = h) => []<>(Listed(a) = h)

\* An adapter of a running engine whose upstream stays reachable recovers,
\* unless its Run has returned for good.
AdapterRecovers ==
    \A a \in Adapters :
        <>[](engineUp /\ reachable[a])
            => ([]<>(health[a] = "HEALTHY") \/ <>[](pc[a] = "stopped"))
=============================================================================
