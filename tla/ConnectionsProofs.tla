-------------------------- MODULE ConnectionsProofs --------------------------
(***************************************************************************)
(* Proofs about Connections, for any set of adapters, bounds and failures. *)
(***************************************************************************)
EXTENDS Connections, FiniteSetTheorems, SequenceTheorems, TLAPS

AdapterPCs == {"start", "connect", "subscribe", "poll", "handle", "running",
               "disconnect", "stopped"}
Heartbeats == [name : Names, state : HealthStates]

\* The types of the values the actions write.
LEMMA ConnectionTypes ==
    /\ StaleAfter \in Nat /\ Stale \in Nat /\ MaxAttempts \in Nat \ {0} /\ MaxInFlight \in Nat
    /\ NoEntry \in [state : HealthStates \union {"none"}, age : 0 .. Stale]
    /\ IsFiniteSet(Names)
<1>1. StaleAfter \in Nat /\ MaxAttempts \in Nat \ {0} /\ MaxInFlight \in Nat
  BY ConnectionsConfig
<1>2. Stale \in Nat /\ NoEntry \in [state : HealthStates \union {"none"}, age : 0 .. Stale]
  BY <1>1 DEF Stale, NoEntry
<1>3. IsFiniteSet(Names)
  BY ConnectionsConfig, FS_AddElement DEF Names
<1>4. QED
  BY <1>1, <1>2, <1>3

\* Init establishes TypeOK and HealthyMeansRunning.
LEMMA InitConnections == Init => TypeOK /\ HealthyMeansRunning
<1> SUFFICES ASSUME Init PROVE TypeOK /\ HealthyMeansRunning
  OBVIOUS
<1>1. 0 \in 0 .. MaxAttempts
  BY ConnectionTypes
<1>2. Len(wire) <= MaxInFlight /\ wire \in Seq(Heartbeats)
  BY ConnectionTypes DEF Init, Heartbeats
<1>3. QED
  BY <1>1, <1>2, ConnectionTypes
  DEF Init, TypeOK, HealthyMeansRunning, Fresh, HealthStates, Heartbeats

\* A step of Run writes a place and a health that go together.
LEMMA MoveStep ==
    ASSUME TypeOK, HealthyMeansRunning, NEW a \in Adapters,
           NEW from, NEW to \in AdapterPCs, NEW h \in HealthStates,
           Move(a, from, to, h), attempt' \in [Adapters -> 0 .. MaxAttempts],
           h = "HEALTHY" => to \in {"subscribe", "poll", "handle", "running", "disconnect"}
    PROVE  TypeOK' /\ HealthyMeansRunning'
<1>1. pc' = [pc EXCEPT ![a] = to] /\ health' = [health EXCEPT ![a] = h]
  BY DEF Move
<1>2. HealthyMeansRunning'
  BY <1>1 DEF HealthyMeansRunning, TypeOK
<1>3. pc' \in [Adapters -> AdapterPCs] /\ health' \in [Adapters -> HealthStates]
  BY <1>1 DEF TypeOK, AdapterPCs
<1>4. UNCHANGED <<kind, reachable, engineUp, due, natsLeg, natsUp, forwards, sub, wire, entries>>
  BY DEF Move, engine, api
<1>5. TypeOK'
  BY <1>3, <1>4 DEF TypeOK, AdapterPCs
<1>6. QED
  BY <1>2, <1>5

\* Every step of an adapter's goroutine.
LEMMA RunStep ==
    ASSUME TypeOK, HealthyMeansRunning, NEW a \in Adapters, Run(a)
    PROVE  TypeOK' /\ HealthyMeansRunning'
<1> DEFINE Inner == {"subscribe", "poll", "handle", "running", "disconnect"}
<1>0. /\ health[a] \in HealthStates /\ attempt \in [Adapters -> 0 .. MaxAttempts]
      /\ health[a] = "HEALTHY" => pc[a] \in Inner
      /\ {"CONFIGURED", "CONNECTING", "HEALTHY", "DEGRADED", "RECONNECTING", "FAILED"}
            \subseteq HealthStates
      /\ Inner \subseteq AdapterPCs /\ {"start", "connect", "stopped"} \subseteq AdapterPCs
  BY DEF TypeOK, HealthyMeansRunning, HealthStates, AdapterPCs
<1>1. CASE Start(a)
  BY <1>0, <1>1, MoveStep DEF Start
<1>2. CASE ConnectOk(a)
  BY <1>0, <1>2, MoveStep DEF ConnectOk
<1>3. CASE ConnectRetries(a)
  <2>1. attempt' \in [Adapters -> 0 .. MaxAttempts]
    <3>1. attempt[a] \in 0 .. MaxAttempts
      BY <1>0
    <3>2. attempt[a] + 1 \in 0 .. MaxAttempts
      BY <1>3, <3>1, ConnectionTypes DEF ConnectRetries
    <3>3. QED
      BY <1>0, <1>3, <3>2 DEF ConnectRetries
  <2>2. QED
    BY <1>0, <1>3, <2>1, MoveStep DEF ConnectRetries
<1>4. CASE ConnectFails(a)
  BY <1>0, <1>4, MoveStep DEF ConnectFails
<1>5. CASE SubscribeOk(a)
  BY <1>0, <1>5, MoveStep DEF SubscribeOk
<1>6. CASE SubscribeFails(a)
  BY <1>0, <1>6, MoveStep DEF SubscribeFails
<1>7. CASE PollOk(a)
  BY <1>0, <1>7, MoveStep DEF PollOk
<1>8. CASE PollFails(a)
  BY <1>0, <1>8, MoveStep DEF PollFails
<1>9. CASE HandleOk(a)
  BY <1>0, <1>9, MoveStep DEF HandleOk
<1>10. CASE HandleFails(a)
  BY <1>0, <1>10, MoveStep DEF HandleFails
<1>11. CASE Disconnect(a)
  BY <1>0, <1>11, MoveStep DEF Disconnect
<1>12. QED
  BY <1>1, <1>2, <1>3, <1>4, <1>5, <1>6, <1>7, <1>8, <1>9, <1>10, <1>11 DEF Run

\* One period of heartbeats: one for every adapter and one for the engine.
LEMMA BeatsType == TypeOK => Beats \in Seq(Heartbeats) /\ Len(Beats) \in Nat
<1> SUFFICES ASSUME TypeOK PROVE Beats \in Seq(Heartbeats) /\ Len(Beats) \in Nat
  OBVIOUS
<1> DEFINE n == Cardinality(Names)
<1>1. n \in Nat /\ ExistsBijection(1 .. n, Names)
  BY ConnectionTypes, FS_CardinalityType
<1> HIDE DEF n
<1>2. PICK f \in [1 .. n -> Names] : IsInjective(f)
  BY <1>1 DEF ExistsBijection, Bijection, Injection
<1>3. SetToSeq(Names) \in [1 .. n -> Names]
  BY <1>2 DEF SetToSeq, n
<1>4. \A x \in Names : Beat(x) \in Heartbeats
  BY DEF TypeOK, Beat, Names, Heartbeats, HealthStates
<1>5. Beats = [i \in 1 .. n |-> Beat(SetToSeq(Names)[i])]
  BY DEF Beats, n
<1>6. Beats \in [1 .. n -> Heartbeats]
  BY <1>3, <1>4, <1>5
<1> HIDE DEF n
<1>7. Beats \in Seq(Heartbeats)
  BY <1>1, <1>6, SeqDef
<1>8. QED
  BY <1>7

\* What is on the wire is a bounded sequence of heartbeats.
WireType(q) == q \in Seq(Heartbeats) /\ Len(q) <= MaxInFlight

\* Taking one heartbeat from the wire.
LEMMA WireShrinks ==
    ASSUME NEW q, WireType(q), q # <<>>
    PROVE  WireType(Tail(q)) /\ Head(q) \in Heartbeats
<1>1. /\ Tail(q) \in Seq(Heartbeats) /\ Head(q) \in Heartbeats
      /\ Len(Tail(q)) \in Nat /\ Len(q) \in Nat /\ Len(Tail(q)) = Len(q) - 1
  BY DEF WireType
<1>2. QED
  BY <1>1, ConnectionTypes DEF WireType

\* The steps of the ticker, the subscription, NATS and the process leave the
\* adapters alone or start them afresh.
LEMMA ConnectionStep ==
    TypeOK /\ HealthyMeansRunning /\ [Next]_vars => TypeOK' /\ HealthyMeansRunning'
<1> SUFFICES ASSUME TypeOK, HealthyMeansRunning, [Next]_vars
             PROVE  TypeOK' /\ HealthyMeansRunning'
  OBVIOUS
<1> USE DEF engine, api, adapter
<1>0. WireType(wire) /\ entries \in [Names -> [state : HealthStates \union {"none"}, age : 0 .. Stale]]
  BY DEF TypeOK, WireType, Heartbeats
<1>1. ASSUME NEW a \in Adapters, Run(a) PROVE TypeOK' /\ HealthyMeansRunning'
  BY <1>1, RunStep
<1>2. ASSUME NEW a \in Adapters, UpstreamChanges(a) PROVE TypeOK' /\ HealthyMeansRunning'
  BY <1>2 DEF UpstreamChanges, TypeOK, HealthyMeansRunning
<1>3. CASE Tick
  <2>1. \A n \in Names : entries'[n] \in [state : HealthStates \union {"none"}, age : 0 .. Stale]
    <3> SUFFICES ASSUME NEW n \in Names
                 PROVE  entries'[n] \in [state : HealthStates \union {"none"}, age : 0 .. Stale]
      OBVIOUS
    <3> DEFINE old == entries[n]
    <3>1. old \in [state : HealthStates \union {"none"}, age : 0 .. Stale]
      BY <1>0
    <3>2. entries'[n] = [old EXCEPT !.age = IF @ < Stale THEN @ + 1 ELSE @]
      BY <1>3 DEF Tick
    <3> HIDE DEF old
    <3>3. (IF old.age < Stale THEN old.age + 1 ELSE old.age) \in 0 .. Stale
      BY <3>1, ConnectionTypes
    <3>4. QED
      BY <3>1, <3>2, <3>3
  <2>2. entries' = [n \in Names |-> entries'[n]]
    BY <1>3 DEF Tick
  <2>3. entries' \in [Names -> [state : HealthStates \union {"none"}, age : 0 .. Stale]]
    BY <2>1, <2>2
  <2>4. /\ UNCHANGED <<kind, reachable, health, pc, attempt, engineUp, natsLeg, natsUp, wire, forwards, sub>>
        /\ due' = engineUp
    BY <1>3 DEF Tick
  <2>5. QED
    BY <2>3, <2>4 DEF TypeOK, HealthyMeansRunning
<1>4. CASE Heartbeat
  <2>1. UNCHANGED <<kind, reachable, health, pc, attempt, engineUp, natsLeg, natsUp, forwards, sub, entries>>
    BY <1>4 DEF Heartbeat
  <2>2. due' = FALSE
    BY <1>4 DEF Heartbeat
  <2>3. wire' = wire \/ (wire' = wire \o Beats /\ Len(wire) + Len(Beats) <= MaxInFlight)
    BY <1>4 DEF Heartbeat
  <2>4. WireType(wire')
    <3>1. CASE wire' = wire
      BY <1>0, <3>1
    <3>2. CASE wire' = wire \o Beats /\ Len(wire) + Len(Beats) <= MaxInFlight
      <4>1. Beats \in Seq(Heartbeats) /\ wire \in Seq(Heartbeats)
        BY <1>0, BeatsType DEF WireType
      <4>2. wire \o Beats \in Seq(Heartbeats) /\ Len(wire \o Beats) = Len(wire) + Len(Beats)
        BY <4>1
      <4>3. QED
        BY <3>2, <4>2 DEF WireType
    <3>3. QED
      BY <2>3, <3>1, <3>2
  <2>5. QED
    BY <2>1, <2>2, <2>4 DEF TypeOK, HealthyMeansRunning, WireType, Heartbeats
<1>5. CASE Crash
  <2>1. /\ health' = Fresh("CONFIGURED") /\ pc' = Fresh("start") /\ attempt' = Fresh(0)
        /\ engineUp' = FALSE /\ due' = FALSE /\ natsLeg' = FALSE
        /\ UNCHANGED <<kind, reachable, natsUp, wire, forwards, sub, entries>>
    BY <1>5 DEF Crash
  <2>2. 0 \in 0 .. MaxAttempts
    BY ConnectionTypes
  <2>3. attempt' \in [Adapters -> 0 .. MaxAttempts]
    BY <2>1, <2>2 DEF Fresh
  <2>4. QED
    BY <2>1, <2>3 DEF Fresh, TypeOK, HealthyMeansRunning, HealthStates
<1>6. CASE Restart
  BY <1>6 DEF Restart, TypeOK, HealthyMeansRunning
<1>7. CASE Subscribe \/ Unsubscribe
  BY <1>7 DEF Subscribe, Unsubscribe, TypeOK, HealthyMeansRunning
<1>8. CASE Receive
  <2> DEFINE b == Head(wire)
             e == [state |-> heartbeatStatus(b.state), age |-> 0]
  <2>1. WireType(wire') /\ b \in Heartbeats
    BY <1>0, <1>8, WireShrinks DEF Receive
  <2> HIDE DEF b
  <2>2. e \in [state : HealthStates \union {"none"}, age : 0 .. Stale]
    BY <2>1, ConnectionTypes DEF heartbeatStatus, HealthStates
  <2>3. entries' = [entries EXCEPT ![b.name] = e]
    BY <1>8 DEF Receive, Set, b
  <2> HIDE DEF e
  <2>4. entries' \in [Names -> [state : HealthStates \union {"none"}, age : 0 .. Stale]]
    BY <1>0, <2>2, <2>3
  <2>5. UNCHANGED <<kind, reachable, health, pc, attempt, engineUp, due, natsLeg, natsUp, forwards, sub>>
    BY <1>8 DEF Receive
  <2>6. QED
    BY <2>1, <2>4, <2>5 DEF TypeOK, HealthyMeansRunning, WireType, Heartbeats
<1>9. CASE Lose
  <2>1. WireType(wire')
    BY <1>0, <1>9, WireShrinks DEF Lose
  <2>2. UNCHANGED <<kind, reachable, health, pc, attempt, engineUp, due, natsLeg, natsUp, forwards, sub, entries>>
    BY <1>9 DEF Lose
  <2>3. QED
    BY <2>1, <2>2 DEF TypeOK, HealthyMeansRunning, WireType, Heartbeats
<1>10. CASE NatsChanges
  BY <1>10 DEF NatsChanges, TypeOK, HealthyMeansRunning
<1>11. CASE UNCHANGED vars
  BY <1>11 DEF vars, TypeOK, HealthyMeansRunning
<1>12. QED
  BY <1>1, <1>2, <1>3, <1>4, <1>5, <1>6, <1>7, <1>8, <1>9, <1>10, <1>11 DEF Next

\* However upstreams, NATS and the engine fail, registry, wire and adapters
\* keep their types: in particular attempts stop at the limit, and an age
\* stops once it is stale.
THEOREM ConnectionsTypes == Spec => []TypeOK
BY InitConnections, ConnectionStep, PTL DEF Spec

\* An adapter that Health() calls HEALTHY has connected and not disconnected
\* since (Run of adapters/mqtt and adapters/traccar), for any adapters, number
\* of attempts, outages and crashes.
THEOREM HealthyRuns == Spec => []HealthyMeansRunning
BY InitConnections, ConnectionStep, PTL DEF Spec
==============================================================================
