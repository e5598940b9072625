--------------------------- MODULE PipelineProofs ---------------------------
(***************************************************************************)
(* Proofs about Pipeline, for any number of goroutines, vehicles, points,  *)
(* crashes and faults.  The adapters implement a client of Pipeline, so    *)
(* what is proved of it holds behind them; with the dedup keys the         *)
(* mappings make, it gives the promise about redelivered messages.  With   *)
(* one goroutine, the pipeline, behind an adapter or not, implements       *)
(* SerialIngest.                                                           *)
(***************************************************************************)
EXTENDS AdapterIngest, PipelineSerial, DetectorLemmas, FiniteSetTheorems

Calls == [pc : PCs, t : Points, at : Nat, cur : VehicleStates]
Rows == [t : Points, minted : BOOLEAN]
Sweeps == [pc : {"idle", "scan", "set", "publish"}, ids : SUBSET Vehicles,
           at : Nat, veh : Vehicles, cur : VehicleStates]

\* The points are telemetry of known vehicles and keys; times are naturals.
LEMMA Domains ==
    /\ \A t \in Points : t \in Telemetry(Keys, Vehicles) /\ t.veh \in Vehicles /\ t.key \in Keys
    /\ Instants \subseteq Nat
    /\ MaxDeliveries \in Nat /\ MaxCrashes \in Nat /\ MaxSweepFaults \in Nat /\ TTL \in Nat
    /\ NoPoint \in Points
<1>1. \A t \in Points : t \in Telemetry(Keys, Vehicles)
  BY PipelineConfig
<1>2. NoPoint \in Points
  BY PipelineConfig DEF NoPoint
<1>3. QED
  BY <1>1, <1>2, PipelineConfig DEF Telemetry

\* The values of a fresh process are well typed.
LEMMA FreshTypes ==
    /\ IdleCall \in Calls /\ NoCalls \in [Workers -> Calls]
    /\ FreshTracks \in [Vehicles -> Tracks]
    /\ IdleSweeper \in [pc : {"idle", "scan", "set", "publish"}, ids : SUBSET Vehicles,
                        at : Nat, veh : Vehicles, cur : VehicleStates]
<1>1. IdleCall \in Calls
  BY Domains, ZeroTypes DEF IdleCall, Calls, PCs
<1>2. QED
  BY <1>1, Domains, ZeroTypes DEF NoCalls, FreshTracks, IdleSweeper

\* Init establishes TypeOK.
LEMMA InitType == Init => TypeOK
BY Domains, ZeroTypes, FreshTypes DEF Init, TypeOK, Calls

\* Every step keeps TypeOK: one step per action.
LEMMA TypeStep == TypeOK /\ [Next]_vars => TypeOK'
<1> SUFFICES ASSUME TypeOK, [Next]_vars PROVE TypeOK'
  OBVIOUS
<1> USE Domains
<1>1. ASSUME NEW w \in Workers, NEW t \in Points, Deliver(w, t)
      PROVE  deliveries' \in [Points -> 0 .. MaxDeliveries]
  BY <1>1 DEF Deliver, TypeOK
<1>2. ASSUME NEW w \in Workers, NEW t \in Points, Reject(w, t) PROVE TypeOK'
  BY <1>1, <1>2 DEF Reject, TypeOK, memory, trackers, env
<1>3. ASSUME NEW w \in Workers, NEW t \in Points, SeenFails(w, t) PROVE TypeOK'
  <2>1. seen' \in [Keys -> Instants \union {Never}]
    BY <1>3 DEF SeenFails, TypeOK
  <2>2. QED
    BY <1>1, <1>3, <2>1 DEF SeenFails, TypeOK, memory, trackers, env
<1>4. ASSUME NEW w \in Workers, NEW t \in Points, Absorb(w, t) PROVE TypeOK'
  BY <1>1, <1>4 DEF Absorb, TypeOK, memory, trackers, env
<1>5. ASSUME NEW w \in Workers, NEW t \in Points, Accept(w, t) PROVE TypeOK'
  <2>1. [IdleCall EXCEPT !.pc = "append", !.t = t, !.at = now] \in Calls
    BY FreshTypes DEF Calls, TypeOK, PCs
  <2>2. call' \in [Workers -> Calls]
    BY <1>5, <2>1 DEF Accept, TypeOK, Calls
  <2>3. seen' \in [Keys -> Instants \union {Never}]
    BY <1>5 DEF Accept, TypeOK
  <2>4. QED
    BY <1>1, <1>5, <2>2, <2>3 DEF Accept, TypeOK, Calls, memory, trackers, env
<1>6. ASSUME NEW w \in Workers, NEW l \in PCs, Goto(w, l) PROVE call' \in [Workers -> Calls]
  BY <1>6 DEF Goto, TypeOK, Calls
<1>7. ASSUME NEW w \in Workers, Return(w) PROVE call' \in [Workers -> Calls]
  BY <1>7, FreshTypes DEF Return, TypeOK, Calls
<1>8. ASSUME NEW w \in Workers, NEW t \in Points, AppendTelemetry(w, t) PROVE log' \in Seq(Rows)
  <2> DEFINE row == [t |-> t, minted |-> Mints(w, t)]
  <2>1. log' = log \/ log' = Append(log, row)
    BY <1>8 DEF AppendTelemetry
  <2>2. log \in Seq(Rows)
    BY DEF TypeOK, Rows
  <2>3. Mints(w, t) \in BOOLEAN
    BY DEF Mints
  <2>4. row \in Rows
    BY <2>3 DEF Rows
  <2>5. Append(log, row) \in Seq(Rows)
    BY <2>2, <2>4
  <2>6. QED
    BY <2>1, <2>2, <2>5
<1>9. ASSUME NEW w \in Workers
      PROVE  call[w] \in Calls /\ call[w].t \in Points
  BY DEF TypeOK, Calls
<1>10. ASSUME NEW w \in Workers, AppendLog(w) PROVE TypeOK'
  <2>1. call' \in [Workers -> Calls]
    BY <1>6, <1>10 DEF AppendLog, PCs
  <2>2. log' \in Seq(Rows)
    BY <1>8, <1>9, <1>10 DEF AppendLog
  <2>3. QED
    BY <1>10, <2>1, <2>2 DEF AppendLog, TypeOK, Calls, Rows, memory, trackers, bounds, env
<1>11. ASSUME NEW w \in Workers, Get(w) PROVE TypeOK'
  <2>1. states[call[w].t.veh] \in VehicleStates
    BY <1>9 DEF TypeOK
  <2>2. call' = [call EXCEPT ![w].cur = states[call[w].t.veh], ![w].pc = "set"]
    BY <1>11 DEF Get
  <2>3. call' \in [Workers -> Calls]
    <3>1. call \in [Workers -> Calls]
      BY DEF TypeOK, Calls
    <3>2. QED
      BY <2>1, <2>2, <3>1 DEF Calls, PCs
  <2>4. QED
    BY <1>11, <2>3 DEF Get, TypeOK, Calls, memory, trackers, bounds, env
<1>12. ASSUME NEW w \in Workers, Write(w)
       PROVE  /\ Applied(w) \in VehicleStates
              /\ states' \in [Vehicles -> VehicleStates]
              /\ folded' \in Seq([t : Points, at : Nat])
  <2>1. Applied(w) \in VehicleStates
    BY <1>9, ApplyType DEF Applied, Calls
  <2>2. states' \in [Vehicles -> VehicleStates]
    BY <1>9, <1>12, <2>1 DEF Write, TypeOK
  <2>3. [t |-> call[w].t, at |-> call[w].at] \in [t : Points, at : Nat]
    BY <1>9 DEF Calls
  <2>4. folded' \in Seq([t : Points, at : Nat])
    BY <1>12, <2>3 DEF Write, TypeOK
  <2>5. QED
    BY <2>1, <2>2, <2>4
<1>13. ASSUME NEW w \in Workers, Set(w) PROVE TypeOK'
  <2>1. Applied(w) \in VehicleStates
    BY <1>12, <1>13 DEF Set
  <2>2. call' = [call EXCEPT ![w].cur = Applied(w), ![w].pc = "detect"]
    BY <1>13 DEF Set
  <2>3. call' \in [Workers -> Calls]
    <3>1. call \in [Workers -> Calls]
      BY DEF TypeOK, Calls
    <3>2. QED
      BY <2>1, <2>2, <3>1 DEF Calls, PCs
  <2>4. QED
    BY <1>12, <1>13, <2>3 DEF Set, TypeOK, Calls, memory, trackers, bounds, env
<1>14. ASSUME NEW w \in Workers, StoreFails(w) PROVE TypeOK'
  <2>1. states' \in [Vehicles -> VehicleStates] /\ folded' \in Seq([t : Points, at : Nat])
    BY <1>12, <1>14 DEF StoreFails, TypeOK
  <2>2. QED
    BY <1>7, <1>14, <2>1 DEF StoreFails, TypeOK, Calls, trackers, bounds, env
<1>15. ASSUME NEW w \in Workers, DetectStep(w) PROVE TypeOK'
  <2> DEFINE det == Detect(tracks[call[w].t.veh], call[w].t, call[w].cur)
  <2>1. det.trk \in Tracks
    BY <1>9, DetectType DEF TypeOK
  <2>2. /\ tracks' = [tracks EXCEPT ![call[w].t.veh] = det.trk]
        /\ Compute(w, "detect", det.out, "geo")
    BY <1>15 DEF DetectStep
  <2> HIDE DEF det
  <2>3. tracks' \in [Vehicles -> Tracks]
    BY <1>9, <2>1, <2>2 DEF TypeOK
  <2>4. call' \in [Workers -> Calls]
    BY <1>6, <2>2 DEF Compute, PCs
  <2>5. QED
    BY <2>2, <2>3, <2>4 DEF Compute, TypeOK, Calls, bounds, env
<1>16. ASSUME NEW w \in Workers, NEW from, NEW out, NEW to \in PCs,
              Compute(w, from, out, to), UNCHANGED tracks
       PROVE  TypeOK'
  <2>1. call' \in [Workers -> Calls]
    BY <1>6, <1>16 DEF Compute
  <2>2. QED
    BY <1>16, <2>1 DEF Compute, TypeOK, Calls, bounds, env
<1>17. ASSUME NEW w \in Workers, GeoStep(w) PROVE TypeOK'
  BY <1>16, <1>17 DEF GeoStep, PCs
<1>18. ASSUME NEW w \in Workers, RulesStep(w) PROVE TypeOK'
  BY <1>16, <1>18 DEF RulesStep, PCs
<1>19. ASSUME NEW w \in Workers, Publish(w) PROVE TypeOK'
  BY <1>19 DEF Publish, TypeOK, trackers, bounds, env
<1>20. ASSUME NEW w \in Workers, PublishFails(w) PROVE TypeOK'
  <2>1. call' \in [Workers -> Calls]
    BY <1>6, <1>20 DEF PublishFails, PCs
  <2>2. QED
    BY <1>20, <2>1 DEF PublishFails, TypeOK, Calls, memory, trackers, bounds, env
<1>21. ASSUME NEW w \in Workers, RespondOk(w) PROVE TypeOK'
  <2>1. log' \in Seq(Rows)
    BY <1>8, <1>9, <1>21 DEF RespondOk, TypeOK, Rows
  <2>2. acked' \subseteq Points
    BY <1>9, <1>21 DEF RespondOk, TypeOK
  <2>3. QED
    BY <1>7, <1>21, <2>1, <2>2 DEF RespondOk, TypeOK, Calls, Rows, trackers, bounds, env
<1>22. ASSUME NEW w \in Workers, RespondPublishError(w) PROVE TypeOK'
  BY <1>7, <1>22 DEF RespondPublishError, TypeOK, Calls, trackers, bounds, env
<1>23. CASE SweepStart
  <2>1. Tracked \subseteq Vehicles
    BY DEF Tracked
  <2>2. QED
    BY <1>23, <2>1 DEF SweepStart, TypeOK, memory, trackers, bounds, env
<1>24. ASSUME NEW v \in Vehicles, SweepGet(v) PROVE TypeOK'
  <2>1. CheckOffline(states[v], 0, sw.at) \in VehicleStates
    BY CheckOfflineType DEF TypeOK
  <2>2. sw \in Sweeps /\ sw.ids \ {v} \in SUBSET Vehicles
    BY DEF TypeOK, Sweeps
  <2>3. \/ sw' = [sw EXCEPT !.pc = "set", !.ids = sw.ids \ {v}, !.veh = v,
                            !.cur = CheckOffline(states[v], 0, sw.at)]
        \/ sw' = [sw EXCEPT !.pc = IF sw.ids \ {v} = {} THEN "idle" ELSE "scan",
                            !.ids = sw.ids \ {v}]
    BY <1>24 DEF SweepGet
  <2>4. sw' \in Sweeps
    BY <2>1, <2>2, <2>3 DEF Sweeps
  <2>5. sweepFaults' \in 0 .. MaxSweepFaults
    BY <1>24 DEF SweepGet, SweepFault, TypeOK
  <2>6. QED
    BY <1>24, <2>4, <2>5 DEF SweepGet, TypeOK, Sweeps, memory, trackers
<1>25. CASE SweepSet
  <2>1. sweepFaults' \in 0 .. MaxSweepFaults
    BY <1>25 DEF SweepSet, SweepFault, TypeOK
  <2>2. states' \in [Vehicles -> VehicleStates]
    BY <1>25 DEF SweepSet, TypeOK
  <2>3. sw' \in Sweeps
    BY <1>25 DEF SweepSet, TypeOK, Sweeps
  <2>4. QED
    BY <1>25, <2>1, <2>2, <2>3 DEF SweepSet, TypeOK, Sweeps, memory, trackers
<1>26. CASE SweepPublish
  BY <1>26 DEF SweepPublish, TypeOK, memory, trackers, bounds, env
<1>27. CASE Tick
  BY <1>27 DEF Tick, TypeOK, memory, trackers, bounds, env
<1>28. CASE Crash
  BY <1>28, FreshTypes DEF Crash, TypeOK, Calls
<1>29. CASE UNCHANGED vars
  BY <1>29 DEF vars, TypeOK, memory, trackers, bounds, env
<1>30. QED
  BY <1>2, <1>3, <1>4, <1>5, <1>10, <1>11, <1>13, <1>14, <1>15, <1>17, <1>18, <1>19,
     <1>20, <1>21, <1>22, <1>23, <1>24, <1>25, <1>26, <1>27, <1>28, <1>29
     DEF Next, Arrive, Proceed, Sweep

\* The stores, the detectors' memory, the calls and the sweeper stay well
\* typed through every interleaving, fault and crash.
THEOREM PipelineTypes == Spec => []TypeOK
BY InitType, TypeStep, PTL DEF Spec

----------------------------------------------------------------------------
(* The steps that matter to neither dedup nor presence.                    *)

\* A call between Seen and Set: it has claimed its key and not folded yet.
Holding(w) == call[w].pc \in {"append", "get", "set"}

CallsKept ==
    \A u \in Workers :
        /\ call'[u].cur \in {call[u].cur, ZeroState}
        /\ Holding(u)' => /\ Holding(u)
                          /\ call'[u].t = call[u].t
                          /\ call'[u].at = call[u].at

Untouched == UNCHANGED <<now, seen, folded, states, sw>> /\ CallsKept

Plain(w) ==
    \/ \E t \in Points : Reject(w, t) \/ Absorb(w, t)
    \/ AppendLog(w) \/ DetectStep(w) \/ GeoStep(w) \/ RulesStep(w)
    \/ Publish(w) \/ PublishFails(w) \/ RespondOk(w) \/ RespondPublishError(w)

\* Those steps leave the clock, the stores, the sweeper and every claim alone.
LEMMA PlainKeeps ==
    ASSUME TypeOK, NEW w \in Workers, Plain(w)
    PROVE  Untouched
<1>0. call \in [Workers -> Calls]
  BY DEF TypeOK, Calls
<1>1. ASSUME call' = call PROVE CallsKept
  BY <1>1 DEF CallsKept, Holding
<1>2. ASSUME NEW l \in PCs, Goto(w, l), Holding(w) \/ l \notin {"append", "get", "set"}
      PROVE  CallsKept
  BY <1>0, <1>2 DEF CallsKept, Holding, Goto, Calls
<1>3. ASSUME Return(w) PROVE CallsKept
  <2>1. IdleCall.cur = ZeroState /\ IdleCall.pc = "idle"
    BY DEF IdleCall
  <2>2. call' = [call EXCEPT ![w] = IdleCall]
    BY <1>3 DEF Return
  <2>3. QED
    BY <1>0, <2>1, <2>2 DEF CallsKept, Holding
<1>4. ASSUME NEW from, NEW out, NEW to \in {"geo", "rules", "publish"}, Compute(w, from, out, to)
      PROVE  Untouched
  BY <1>2, <1>4 DEF Compute, Untouched, PCs
<1>5. ASSUME NEW t \in Points, Reject(w, t) \/ Absorb(w, t) PROVE Untouched
  BY <1>1, <1>5 DEF Reject, Absorb, Untouched
<1>6. CASE AppendLog(w)
  <2>1. Holding(w)
    BY <1>6 DEF AppendLog, At, Holding
  <2>2. QED
    BY <1>2, <1>6, <2>1 DEF AppendLog, Untouched, PCs
<1>7. CASE DetectStep(w)
  BY <1>4, <1>7 DEF DetectStep
<1>8. CASE GeoStep(w)
  BY <1>4, <1>8 DEF GeoStep
<1>9. CASE RulesStep(w)
  BY <1>4, <1>9 DEF RulesStep
<1>10. CASE Publish(w)
  BY <1>1, <1>10 DEF Publish, Untouched
<1>11. CASE PublishFails(w)
  BY <1>2, <1>11 DEF PublishFails, Untouched, PCs
<1>12. CASE RespondOk(w)
  BY <1>3, <1>12 DEF RespondOk, Untouched
<1>13. CASE RespondPublishError(w)
  BY <1>3, <1>13 DEF RespondPublishError, Untouched
<1>14. QED
  BY <1>5, <1>6, <1>7, <1>8, <1>9, <1>10, <1>11, <1>12, <1>13 DEF Plain

\* Next, with those steps as one case.
LEMMA NextCases ==
    ASSUME Next
    PROVE  \/ \E w \in Workers :
                \/ Plain(w)
                \/ \E t \in Points : SeenFails(w, t) \/ Accept(w, t)
                \/ Get(w) \/ Set(w) \/ StoreFails(w)
           \/ SweepStart \/ (\E v \in Vehicles : SweepGet(v)) \/ SweepSet \/ SweepPublish
           \/ Tick
           \/ Crash
BY DEF Next, Arrive, Proceed, Sweep, Plain

----------------------------------------------------------------------------
(* Presence.  A worker and the sweeper overwrite whole records they read   *)
(* earlier, so the invariant speaks of those copies too.                   *)

Belief ==
    /\ \A v \in Vehicles : Justified(states[v], now)
    /\ \A w \in Workers : Justified(call[w].cur, now)
    /\ Justified(sw.cur, now)
    /\ sw.at <= now

\* The zero state is not offline.
LEMMA ZeroJustified == \A n : Justified(ZeroState, n)
BY DEF ZeroState, Justified

\* Every step keeps Belief.
LEMMA BeliefStep == TypeOK /\ Belief /\ [Next]_vars => Belief'
<1> SUFFICES ASSUME TypeOK, Belief, [Next]_vars PROVE Belief'
  OBVIOUS
<1>0. /\ call \in [Workers -> Calls] /\ states \in [Vehicles -> VehicleStates]
      /\ now \in Nat /\ sw.at \in Nat /\ sw.cur \in VehicleStates
      /\ \A w \in Workers : call[w].cur \in VehicleStates /\ call[w].t.veh \in Vehicles
  BY Domains DEF TypeOK, Calls
<1>1. ASSUME NEW w \in Workers, Plain(w) PROVE Belief'
  BY <1>1, PlainKeeps, ZeroJustified DEF Belief, Untouched, CallsKept
<1>2. ASSUME NEW w \in Workers, NEW t \in Points, SeenFails(w, t) PROVE Belief'
  BY <1>2 DEF SeenFails, Belief
<1>3. ASSUME NEW w \in Workers, NEW t \in Points, Accept(w, t) PROVE Belief'
  <2>1. [IdleCall EXCEPT !.pc = "append", !.t = t, !.at = now].cur = ZeroState
    BY DEF IdleCall
  <2>2. \A u \in Workers : Justified(call'[u].cur, now)
    BY <1>0, <1>3, <2>1, ZeroJustified DEF Accept, Belief
  <2>3. QED
    BY <1>3, <2>2 DEF Accept, Belief
<1>4. ASSUME NEW w \in Workers, Get(w) PROVE Belief'
  <2>1. \A u \in Workers : call'[u].cur \in {call[u].cur, states[call[w].t.veh]}
    BY <1>0, <1>4 DEF Get, Calls
  <2>2. QED
    BY <1>0, <1>4, <2>1 DEF Get, Belief
<1>5. ASSUME NEW w \in Workers PROVE Justified(Applied(w), now)
  BY <1>0, ApplyJustified DEF Belief, Applied
<1>6. ASSUME NEW w \in Workers, Write(w)
      PROVE  \A v \in Vehicles : Justified(states'[v], now)
  BY <1>0, <1>5, <1>6 DEF Write, Belief
<1>7. ASSUME NEW w \in Workers, Set(w) PROVE Belief'
  <2>1. call' = [call EXCEPT ![w].cur = Applied(w), ![w].pc = "detect"]
    BY <1>7 DEF Set
  <2>2. \A u \in Workers : call'[u].cur \in {call[u].cur, Applied(w)}
    BY <1>0, <2>1 DEF Calls
  <2>3. QED
    BY <1>5, <1>6, <1>7, <2>2 DEF Set, Belief
<1>8. ASSUME NEW w \in Workers, StoreFails(w) PROVE Belief'
  <2>1. \A v \in Vehicles : Justified(states'[v], now)
    BY <1>6, <1>8 DEF StoreFails, Belief
  <2>2. \A u \in Workers : call'[u].cur \in {call[u].cur, ZeroState}
    BY <1>0, <1>8 DEF StoreFails, Return, IdleCall
  <2>3. QED
    BY <1>8, <2>1, <2>2, ZeroJustified DEF StoreFails, Belief
<1>9. CASE SweepStart
  <2>1. sw'.cur = sw.cur /\ sw'.at = now
    BY <1>9 DEF SweepStart, TypeOK
  <2>2. QED
    BY <1>0, <1>9, <2>1 DEF SweepStart, Belief
<1>10. ASSUME NEW v \in Vehicles, SweepGet(v) PROVE Belief'
  <2>1. sw'.at = sw.at /\ sw'.cur \in {sw.cur, CheckOffline(states[v], 0, sw.at)}
    BY <1>10 DEF SweepGet, TypeOK
  <2>2. Justified(CheckOffline(states[v], 0, sw.at), now)
    BY <1>0, CheckOfflineJustified DEF Belief
  <2>3. QED
    BY <1>10, <2>1, <2>2 DEF SweepGet, Belief
<1>11. CASE SweepSet
  <2>1. sw'.cur = sw.cur /\ sw'.at = sw.at
    BY <1>11 DEF SweepSet, TypeOK
  <2>2. \A v \in Vehicles : states'[v] \in {states[v], sw.cur}
    BY <1>0, <1>11 DEF SweepSet
  <2>3. QED
    BY <1>11, <2>1, <2>2 DEF SweepSet, Belief
<1>12. CASE SweepPublish
  <2>1. sw'.cur = sw.cur /\ sw'.at = sw.at
    BY <1>12 DEF SweepPublish, TypeOK
  <2>2. QED
    BY <1>12, <2>1 DEF SweepPublish, Belief
<1>13. CASE Tick
  <2>1. now' \in Nat /\ now <= now'
    BY <1>0, <1>13, Domains DEF Tick
  <2>2. QED
    BY <1>0, <1>13, <2>1, JustifiedLater DEF Tick, Belief
<1>14. CASE Crash
  <2>1. \A w \in Workers : call'[w].cur = ZeroState
    BY <1>14 DEF Crash, NoCalls, IdleCall
  <2>2. sw'.cur = ZeroState /\ sw'.at = 0
    BY <1>14 DEF Crash, IdleSweeper
  <2>3. QED
    BY <1>0, <1>14, <2>1, <2>2, ZeroJustified DEF Crash, Belief
<1>15. CASE UNCHANGED vars
  BY <1>15 DEF vars, Belief
<1>16. QED
  BY <1>1, <1>2, <1>3, <1>4, <1>7, <1>8, <1>9, <1>10, <1>11, <1>12, <1>13, <1>14, <1>15,
     NextCases

\* No race between ingestion and the offline sweeper, and no fault or crash,
\* makes the store claim a vehicle offline that was heard from within the
\* limit, counted from the watermark of the same record.
THEOREM PipelineOfflineImpliesSilence == Spec => []OfflineImpliesSilence
<1>1. Init => Belief
  <2> SUFFICES ASSUME Init PROVE Belief
    OBVIOUS
  <2>1. now \in Nat
    BY Domains DEF Init
  <2>2. /\ \A v \in Vehicles : states[v] = ZeroState
        /\ \A w \in Workers : call[w].cur = ZeroState
        /\ sw.cur = ZeroState /\ sw.at = 0
    BY DEF Init, NoCalls, IdleCall, IdleSweeper
  <2>3. QED
    BY <2>1, <2>2, ZeroJustified DEF Belief
<1>2. Belief => OfflineImpliesSilence
  BY DEF Belief, Justified, OfflineImpliesSilence
<1>3. QED
  BY <1>1, <1>2, BeliefStep, PipelineTypes, PTL DEF Spec

----------------------------------------------------------------------------
(* The watermark.  Two writers of one vehicle can move it back (the run    *)
(* worker_race); a single one cannot, because nobody writes between its    *)
(* Get and its Set.                                                        *)

\* What Get read is still what is stored when Set applies it; no sweep runs.
FreshRead ==
    /\ \A w \in Workers : At(w, "set") => call[w].cur = states[call[w].t.veh]
    /\ sw.pc = "idle"

\* A single goroutine ingests, and the offline sweeper is off.
OneWriter(w) == Workers = {w} /\ ~Sweeper

\* Every step of a single writer keeps its read fresh.
LEMMA FreshStep ==
    ASSUME NEW w, OneWriter(w), TypeOK, FreshRead, [Next]_vars
    PROVE  FreshRead'
<1>0. call \in [Workers -> Calls] /\ w \in Workers /\ \A u \in Workers : u = w
  BY DEF TypeOK, Calls, OneWriter
<1>1. ASSUME call' = call, UNCHANGED <<sw, states>> PROVE FreshRead'
  BY <1>1 DEF FreshRead, At
<1>2. ASSUME call'[w].pc # "set", sw' = sw PROVE FreshRead'
  BY <1>0, <1>2 DEF FreshRead, At
<1>3. ASSUME NEW l \in PCs \ {"set"}, Goto(w, l), sw' = sw PROVE FreshRead'
  BY <1>0, <1>2, <1>3 DEF Goto, Calls
<1>4. ASSUME Return(w), sw' = sw PROVE FreshRead'
  BY <1>0, <1>2, <1>4 DEF Return, IdleCall
<1>5. CASE Plain(w)
  <2>1. ASSUME NEW t \in Points, Reject(w, t) \/ Absorb(w, t) PROVE FreshRead'
    BY <1>1, <2>1 DEF Reject, Absorb
  <2>2. CASE AppendLog(w) \/ PublishFails(w)
    BY <1>3, <2>2 DEF AppendLog, PublishFails, PCs
  <2>3. CASE DetectStep(w) \/ GeoStep(w) \/ RulesStep(w)
    BY <1>3, <2>3 DEF DetectStep, GeoStep, RulesStep, Compute, PCs
  <2>4. CASE Publish(w)
    BY <1>1, <2>4 DEF Publish
  <2>5. CASE RespondOk(w) \/ RespondPublishError(w)
    BY <1>4, <2>5 DEF RespondOk, RespondPublishError
  <2>6. QED
    BY <1>5, <2>1, <2>2, <2>3, <2>4, <2>5 DEF Plain
<1>6. ASSUME NEW t \in Points, SeenFails(w, t) PROVE FreshRead'
  BY <1>1, <1>6 DEF SeenFails
<1>7. ASSUME NEW t \in Points, Accept(w, t) PROVE FreshRead'
  <2>1. [IdleCall EXCEPT !.pc = "append", !.t = t, !.at = now].pc = "append"
    BY DEF IdleCall
  <2>2. QED
    BY <1>0, <1>2, <1>7, <2>1 DEF Accept
<1>8. CASE Get(w)
  <2>1. /\ call' = [call EXCEPT ![w].cur = states[call[w].t.veh], ![w].pc = "set"]
        /\ UNCHANGED <<sw, states>>
    BY <1>8 DEF Get
  <2>2. call'[w].t = call[w].t /\ call'[w].cur = states[call[w].t.veh]
    BY <1>0, <2>1 DEF Calls
  <2>3. QED
    BY <1>0, <2>1, <2>2 DEF FreshRead
<1>9. CASE Set(w)
  <2>1. call' = [call EXCEPT ![w].cur = Applied(w), ![w].pc = "detect"] /\ sw' = sw
    BY <1>9 DEF Set
  <2>2. call'[w].pc = "detect"
    BY <1>0, <2>1 DEF Calls
  <2>3. QED
    BY <1>2, <2>1, <2>2
<1>10. CASE StoreFails(w)
  BY <1>4, <1>10 DEF StoreFails
<1>11. CASE SweepStart \/ (\E v \in Vehicles : SweepGet(v)) \/ SweepSet \/ SweepPublish
  BY <1>11 DEF OneWriter, FreshRead, SweepStart, SweepGet, SweepSet, SweepPublish
<1>12. CASE Tick
  BY <1>1, <1>12 DEF Tick
<1>13. CASE Crash
  BY <1>0, <1>13 DEF Crash, NoCalls, IdleCall, IdleSweeper, FreshRead, At
<1>14. CASE UNCHANGED vars
  BY <1>1, <1>14 DEF vars
<1>15. QED
  BY <1>0, <1>5, <1>6, <1>7, <1>8, <1>9, <1>10, <1>11, <1>12, <1>13, <1>14, NextCases

\* A step that changes the store is a write of Apply to what is stored.
LEMMA FreshWrite ==
    ASSUME NEW w, OneWriter(w), TypeOK, FreshRead, Next, NEW v \in Vehicles
    PROVE  \/ states'[v] = states[v]
           \/ \E t \in Points : states'[v] = Apply(states[v], t)
<1>0. call[w].t \in Points /\ call[w].t.veh \in Vehicles /\ w \in Workers
  BY Domains DEF TypeOK, OneWriter
<1>1. ASSUME Write(w), At(w, "set")
      PROVE  states'[v] = states[v] \/ states'[v] = Apply(states[v], call[w].t)
  <2>1. states' = [states EXCEPT ![call[w].t.veh] = Apply(states[call[w].t.veh], call[w].t)]
    BY <1>0, <1>1 DEF Write, Applied, FreshRead
  <2>2. QED
    BY <1>0, <2>1 DEF TypeOK
<1>2. CASE Set(w) \/ StoreFails(w)
  BY <1>0, <1>1, <1>2 DEF Set, StoreFails
<1>3. CASE Plain(w)
  BY <1>0, <1>3, PlainKeeps DEF Untouched
<1>4. CASE \E t \in Points : SeenFails(w, t) \/ Accept(w, t)
  BY <1>4 DEF SeenFails, Accept
<1>5. CASE Get(w) \/ Tick \/ Crash
  BY <1>5 DEF Get, Tick, Crash
<1>6. CASE SweepStart \/ (\E u \in Vehicles : SweepGet(u)) \/ SweepSet \/ SweepPublish
  BY <1>6 DEF OneWriter, FreshRead, SweepStart, SweepGet, SweepSet, SweepPublish
<1>7. QED
  BY <1>2, <1>3, <1>4, <1>5, <1>6, NextCases DEF OneWriter

\* With a single writer no watermark moves back, for any points in any order,
\* any fault of Redis (a failed Set that did write included), the bus or
\* Postgres, and any number of crashes.
THEOREM OneWriterWatermark ==
    ASSUME NEW w, OneWriter(w)
    PROVE  Spec => WatermarkMonotone
<1>1. Init => FreshRead
  BY DEF Init, FreshRead, At, NoCalls, IdleCall, IdleSweeper
<1>2. TypeOK /\ FreshRead /\ [Next]_vars
        => [\A v \in Vehicles : states'[v].lastSeen >= states[v].lastSeen]_vars
  <2> SUFFICES ASSUME TypeOK, FreshRead, Next, NEW v \in Vehicles
               PROVE  states'[v].lastSeen >= states[v].lastSeen
    OBVIOUS
  <2>1. states[v] \in VehicleStates /\ states[v].lastSeen \in Nat
    BY DEF TypeOK, VehicleStates
  <2>2. ASSUME NEW t \in Points, states'[v] = Apply(states[v], t)
        PROVE  states'[v].lastSeen >= states[v].lastSeen
    <3>1. t \in Telemetry(Keys, Vehicles)
      BY PipelineConfig
    <3>2. Apply(states[v], t).lastSeen \in Nat /\ states[v].lastSeen <= Apply(states[v], t).lastSeen
      BY <2>1, <3>1, ApplyType, ApplyNewest DEF VehicleStates
    <3>3. QED
      BY <2>1, <2>2, <3>2
  <2>3. QED
    BY <2>1, <2>2, FreshWrite
<1>3. TypeOK /\ FreshRead /\ [Next]_vars => FreshRead'
  BY FreshStep
<1>4. QED
  BY <1>1, <1>2, <1>3, PipelineTypes, PTL DEF Spec, WatermarkMonotone

----------------------------------------------------------------------------
(* Dedup.  A claim on a key is a fold of it or a call between Seen and     *)
(* Set; Seen spaces all claims, so that whichever call folds next keeps    *)
(* AtMostOncePerWindow.                                                    *)

Apart(a, b) == Distance(a, b) >= TTL

Claimed(f, k, at) == f[k] # Never /\ at <= f[k]

Claims ==
    /\ \A k \in Keys : seen[k] # Never => seen[k] <= now
    /\ \A i \in DOMAIN folded : Claimed(seen, folded[i].t.key, folded[i].at)
    /\ \A w \in Workers : Holding(w) => Claimed(seen, call[w].t.key, call[w].at)
    /\ \A i \in DOMAIN folded, w \in Workers :
          (Holding(w) /\ call[w].t.key = folded[i].t.key) => Apart(folded[i].at, call[w].at)
    /\ \A u, w \in Workers :
          (u # w /\ Holding(u) /\ Holding(w) /\ call[u].t.key = call[w].t.key)
              => Apart(call[u].at, call[w].at)

DedupInv == Claims /\ AtMostOncePerWindow

\* Distance is symmetric.
LEMMA ApartSymmetric == \A a, b \in Nat : Apart(a, b) => Apart(b, a)
BY DEF Apart, Distance

\* The types the proof needs.
LEMMA ClaimTypes ==
    ASSUME TypeOK
    PROVE  /\ call \in [Workers -> Calls] /\ now \in Nat
           /\ seen \in [Keys -> Nat \union {Never}] /\ Never \notin Nat
           /\ \A w \in Workers : call[w].t.key \in Keys /\ call[w].at \in Nat
           /\ \A i \in DOMAIN folded : folded[i].t.key \in Keys /\ folded[i].at \in Nat
           /\ DOMAIN folded = 1 .. Len(folded) /\ Len(folded) \in Nat
<1>1. folded \in Seq([t : Points, at : Nat])
  BY DEF TypeOK
<1>2. \A i \in DOMAIN folded : folded[i] \in [t : Points, at : Nat]
  <2> DEFINE S == [t : Points, at : Nat]
  <2>1. folded \in Seq(S)
    BY <1>1
  <2> HIDE DEF S
  <2>2. \A i \in DOMAIN folded : folded[i] \in S
    BY <2>1
  <2>3. QED
    BY <2>2 DEF S
<1>3. \A i \in DOMAIN folded : folded[i].t.key \in Keys /\ folded[i].at \in Nat
  BY <1>2, Domains
<1>4. \A w \in Workers : call[w].t.key \in Keys /\ call[w].at \in Nat
  BY Domains DEF TypeOK
<1>5. Never \notin Nat
  BY DEF Never
<1>6. DOMAIN folded = 1 .. Len(folded) /\ Len(folded) \in Nat
  BY <1>1
<1>7. QED
  BY <1>3, <1>4, <1>5, <1>6, Domains DEF TypeOK, Calls

\* Steps that record no key, fold nothing and start no claim.
LEMMA ClaimsKept ==
    ASSUME TypeOK, DedupInv, UNCHANGED <<seen, folded>>, now' \in Nat, now <= now',
           \A u \in Workers : Holding(u)' => /\ Holding(u)
                                            /\ call'[u].t = call[u].t
                                            /\ call'[u].at = call[u].at
    PROVE  DedupInv'
<1> USE ClaimTypes
<1>1. \A k \in Keys : seen'[k] # Never => seen'[k] <= now'
  BY DEF DedupInv, Claims
<1>2. QED
  BY <1>1 DEF DedupInv, Claims, Claimed, AtMostOncePerWindow

\* Set: the claim of w becomes a fold.
LEMMA WriteStep ==
    ASSUME TypeOK, DedupInv, NEW w \in Workers, At(w, "set"), Write(w),
           UNCHANGED <<now, seen>>, ~Holding(w)',
           \A u \in Workers \ {w} : call'[u] = call[u]
    PROVE  DedupInv'
<1> DEFINE n == Len(folded) + 1
           c == call[w]
<1>1. Holding(w)
  BY DEF At, Holding
<1>2. /\ DOMAIN folded' = 1 .. n /\ DOMAIN folded = 1 .. Len(folded) /\ Len(folded) \in Nat
      /\ \A i \in DOMAIN folded : folded'[i] = folded[i]
      /\ folded'[n] = [t |-> c.t, at |-> c.at]
  BY DEF Write, TypeOK
<1>3. folded'[n].t = c.t /\ folded'[n].at = c.at
  BY <1>2
<1>4. \A u \in Workers : Holding(u)' => u # w /\ Holding(u) /\ call'[u] = call[u]
  BY DEF Holding
<1>5. c.at \in Nat /\ \A i \in DOMAIN folded : folded[i].at \in Nat
  BY ClaimTypes
<1> HIDE DEF n, c
<1>6. \A i \in DOMAIN folded : folded[i].t.key = c.t.key
          => Apart(folded[i].at, c.at) /\ Apart(c.at, folded[i].at)
  BY <1>1, <1>5, ApartSymmetric DEF DedupInv, Claims, c
<1>7. AtMostOncePerWindow'
  <2> SUFFICES ASSUME NEW i \in DOMAIN folded', NEW j \in DOMAIN folded', i # j,
                      folded'[i].t.key = folded'[j].t.key
               PROVE  Apart(folded'[i].at, folded'[j].at)
    BY DEF AtMostOncePerWindow, Apart
  <2>1. CASE i \in DOMAIN folded /\ j \in DOMAIN folded
    BY <1>2, <2>1 DEF DedupInv, AtMostOncePerWindow, Apart
  <2>2. CASE i = n /\ j \in DOMAIN folded
    BY <1>2, <1>3, <1>6, <2>2
  <2>3. CASE i \in DOMAIN folded /\ j = n
    BY <1>2, <1>3, <1>6, <2>3
  <2>4. QED
    BY <1>2, <2>1, <2>2, <2>3 DEF n
<1>8. \A i \in DOMAIN folded' : Claimed(seen', folded'[i].t.key, folded'[i].at)
  <2>1. \A i \in DOMAIN folded : Claimed(seen, folded[i].t.key, folded[i].at)
    BY DEF DedupInv, Claims
  <2>2. Claimed(seen, c.t.key, c.at)
    BY <1>1 DEF DedupInv, Claims, c
  <2>3. QED
    BY <1>2, <1>3, <2>1, <2>2 DEF Claimed, n
<1>9. \A i \in DOMAIN folded', u \in Workers :
          (Holding(u)' /\ call'[u].t.key = folded'[i].t.key)
              => Apart(folded'[i].at, call'[u].at)
  <2> SUFFICES ASSUME NEW i \in DOMAIN folded', NEW u \in Workers, Holding(u)',
                      call'[u].t.key = folded'[i].t.key
               PROVE  Apart(folded'[i].at, call'[u].at)
    OBVIOUS
  <2>1. u # w /\ Holding(u) /\ call'[u] = call[u]
    BY <1>4
  <2>2. CASE i \in DOMAIN folded
    BY <1>2, <2>1, <2>2 DEF DedupInv, Claims
  <2>3. CASE i = n
    BY <1>1, <1>3, <2>1, <2>3 DEF DedupInv, Claims, c
  <2>4. QED
    BY <1>2, <2>2, <2>3 DEF n
<1>10. QED
  BY <1>4, <1>7, <1>8, <1>9 DEF DedupInv, Claims, Claimed

\* Every step keeps DedupInv.
LEMMA DedupStep == TypeOK /\ DedupInv /\ [Next]_vars => DedupInv'
<1> SUFFICES ASSUME TypeOK, DedupInv, [Next]_vars PROVE DedupInv'
  OBVIOUS
<1> USE ClaimTypes
<1>1. ASSUME NEW w \in Workers, Plain(w) PROVE DedupInv'
  BY <1>1, PlainKeeps, ClaimsKept DEF Untouched, CallsKept
<1>2. ASSUME NEW w \in Workers, NEW t \in Points, SeenFails(w, t) PROVE DedupInv'
  <2>1. CASE seen' = seen
    BY <1>2, <2>1, ClaimsKept DEF SeenFails, Holding
  <2>2. CASE seen' = [seen EXCEPT ![t.key] = now]
    <3>1. \A k \in Keys, at \in Nat : Claimed(seen, k, at) => Claimed(seen', k, at)
      BY <2>2, Domains DEF Claimed, DedupInv, Claims
    <3>2. \A k \in Keys : seen'[k] # Never => seen'[k] <= now'
      BY <1>2, <2>2, Domains DEF SeenFails, DedupInv, Claims
    <3>3. UNCHANGED <<folded, call>>
      BY <1>2 DEF SeenFails
    <3>4. QED
      BY <3>1, <3>2, <3>3 DEF DedupInv, Claims, Holding, AtMostOncePerWindow
  <2>3. QED
    BY <1>2, <2>1, <2>2 DEF SeenFails
<1>3. ASSUME NEW w \in Workers, NEW t \in Points, Accept(w, t) PROVE DedupInv'
  <2>1. t.key \in Keys /\ seen' = [seen EXCEPT ![t.key] = now] /\ UNCHANGED <<now, folded>>
    BY <1>3, Domains DEF Accept
  <2>2. /\ call'[w].t = t /\ call'[w].at = now /\ ~Holding(w)
        /\ \A u \in Workers \ {w} : call'[u] = call[u]
    BY <1>3 DEF Accept, Deliver, At, Holding, IdleCall
  <2>3. \A at \in Nat : Claimed(seen, t.key, at) => Apart(at, now) /\ Apart(now, at)
    BY <1>3, <2>1, Domains DEF Accept, IsDup, Claimed, Apart, Distance, DedupInv, Claims
  <2>4. \A k \in Keys, at \in Nat : Claimed(seen, k, at) => Claimed(seen', k, at)
    BY <2>1 DEF Claimed, DedupInv, Claims
  <2>5. Claimed(seen', t.key, now)
    BY <2>1 DEF Claimed
  <2>6. \A k \in Keys : seen'[k] # Never => seen'[k] <= now'
    BY <2>1 DEF DedupInv, Claims
  <2>7. \A i \in DOMAIN folded' : Claimed(seen', folded'[i].t.key, folded'[i].at)
    BY <2>1, <2>4 DEF DedupInv, Claims
  <2>8. \A u \in Workers : Holding(u)' => Claimed(seen', call'[u].t.key, call'[u].at)
    BY <2>2, <2>1, <2>4, <2>5 DEF DedupInv, Claims, Holding
  <2>9. \A i \in DOMAIN folded', u \in Workers :
          (Holding(u)' /\ call'[u].t.key = folded'[i].t.key)
              => Apart(folded'[i].at, call'[u].at)
    BY <2>1, <2>2, <2>3 DEF DedupInv, Claims, Holding
  <2>10. \A u, v \in Workers :
          (u # v /\ Holding(u)' /\ Holding(v)' /\ call'[u].t.key = call'[v].t.key)
              => Apart(call'[u].at, call'[v].at)
    BY <2>1, <2>2, <2>3 DEF DedupInv, Claims, Holding
  <2>11. QED
    BY <2>1, <2>6, <2>7, <2>8, <2>9, <2>10 DEF DedupInv, Claims, AtMostOncePerWindow
<1>4. ASSUME NEW w \in Workers, Get(w) PROVE DedupInv'
  <2>1. \A u \in Workers : Holding(u)' => /\ Holding(u)
                                          /\ call'[u].t = call[u].t
                                          /\ call'[u].at = call[u].at
    BY <1>4 DEF Get, At, Holding, Calls
  <2>2. QED
    BY <1>4, <2>1, ClaimsKept DEF Get
<1>5. ASSUME NEW w \in Workers, Set(w) PROVE DedupInv'
  <2>1. call' = [call EXCEPT ![w].cur = Applied(w), ![w].pc = "detect"]
    BY <1>5 DEF Set
  <2>2. ~Holding(w)' /\ \A u \in Workers \ {w} : call'[u] = call[u]
    BY <2>1 DEF Holding, Calls
  <2>3. QED
    BY <1>5, <2>2, WriteStep DEF Set
<1>6. ASSUME NEW w \in Workers, StoreFails(w) PROVE DedupInv'
  <2>1. call' = [call EXCEPT ![w] = IdleCall] /\ IdleCall.pc = "idle"
    BY <1>6 DEF StoreFails, Return, IdleCall
  <2>2. ~Holding(w)' /\ \A u \in Workers \ {w} : call'[u] = call[u]
    BY <2>1 DEF Holding
  <2>3. CASE UNCHANGED folded
    BY <1>6, <2>2, <2>3, ClaimsKept DEF StoreFails, Holding
  <2>4. CASE At(w, "set") /\ Write(w)
    BY <1>6, <2>2, <2>4, WriteStep DEF StoreFails
  <2>5. QED
    BY <1>6, <2>3, <2>4 DEF StoreFails
<1>7. CASE SweepStart \/ (\E v \in Vehicles : SweepGet(v)) \/ SweepSet \/ SweepPublish
  <2>1. UNCHANGED <<now, seen, folded, call>>
    BY <1>7 DEF SweepStart, SweepGet, SweepSet, SweepPublish
  <2>2. QED
    BY <2>1, ClaimsKept DEF Holding
<1>8. CASE Tick
  <2>1. now' \in Nat /\ now <= now'
    BY <1>8, Domains DEF Tick
  <2>2. QED
    BY <1>8, <2>1, ClaimsKept DEF Tick, Holding
<1>9. CASE Crash
  <2>1. \A w \in Workers : ~Holding(w)'
    BY <1>9 DEF Crash, NoCalls, IdleCall, Holding
  <2>2. QED
    BY <1>9, <2>1, ClaimsKept DEF Crash
<1>10. CASE UNCHANGED vars
  BY <1>10, ClaimsKept DEF vars, Holding
<1>11. QED
  BY <1>1, <1>2, <1>3, <1>4, <1>5, <1>6, <1>7, <1>8, <1>9, <1>10, NextCases

\* At the start nothing is claimed.
LEMMA DedupInit == Init => DedupInv
<1> SUFFICES ASSUME Init PROVE DedupInv
  OBVIOUS
<1>1. /\ \A k \in Keys : seen[k] = Never
      /\ DOMAIN folded = {}
      /\ \A w \in Workers : ~Holding(w)
  BY DEF Init, NoCalls, IdleCall, Holding
<1>2. QED
  BY <1>1 DEF DedupInv, Claims, AtMostOncePerWindow

\* Whatever the interleaving of calls, the lost replies of Redis, retries and
\* crashes, telemetry of one dedup key changes a vehicle's state at most once
\* per dedup window.
THEOREM PipelineAtMostOnce == Spec => []AtMostOncePerWindow
<1>1. DedupInv => AtMostOncePerWindow
  BY DEF DedupInv
<1>2. QED
  BY <1>1, DedupInit, DedupStep, PipelineTypes, PTL DEF Spec

----------------------------------------------------------------------------
(* What an answered point can count on when Redis answers every call and   *)
(* the process lives: a recorded key belongs to a call that has not yet    *)
(* written, or has been written.                                           *)

ClaimedBy(k, l) == \E u \in Workers : call[u].pc \in l /\ call[u].t.key = k
ToAppend == {"append"}
ToFold == {"append", "get", "set"}

Recorded == /\ \A u \in Workers : Busy(u) => seen[call[u].t.key] # Never
            /\ \A t \in acked : seen[t.key] # Never

FoldClaims == \A k \in Keys : seen[k] # Never => Folded(k) \/ ClaimedBy(k, ToFold)
LogClaims == \A k \in Keys : seen[k] # Never => Logged(k) \/ ClaimedBy(k, ToAppend)

\* A call stays at one of the stages l with its point.
Stays(u, l) == call'[u].pc \in l /\ call'[u].t = call[u].t

NowFolded(k) == \E i \in DOMAIN folded' : folded'[i].t.key = k

\* What a step does to keys, answers and calls.
Progress ==
    /\ \A k \in Keys : seen'[k] # Never => seen[k] # Never \/ ClaimedBy(k, ToAppend)'
    /\ \A k \in Keys : seen[k] # Never => seen'[k] # Never
    /\ \A u \in Workers : Busy(u)' => \/ Busy(u) /\ call'[u].t = call[u].t
                                     \/ seen'[call'[u].t.key] # Never
    /\ \A t \in acked' : \/ t \in acked \/ seen[t.key] # Never
                         \/ \E u \in Workers : Busy(u) /\ t = call[u].t
    /\ \A u \in Workers : Holding(u) => Stays(u, ToFold) \/ NowFolded(call[u].t.key)
    /\ \A u \in Workers :
            At(u, "append") => Stays(u, ToAppend) \/ AppendTelemetry(u, call[u].t)
    /\ folded' = folded \/ \E r : folded' = Append(folded, r)
    /\ log' = log \/ \E r : log' = Append(log, r)

\* Without Redis faults and crashes every step of Next makes progress.
LEMMA AckProgress ==
    ASSUME TypeOK, [Next]_vars, ~RedisFaults, MaxCrashes = 0
    PROVE  Progress
<1>0. /\ call \in [Workers -> Calls] /\ seen \in [Keys -> Instants \union {Never}]
      /\ now \in Instants /\ now # Never
      /\ \A u \in Workers : call[u].t.key \in Keys
      /\ \A t \in acked : t \in Points /\ t.key \in Keys
  BY Domains DEF TypeOK, Calls, Never
<1> USE DEF ToAppend, ToFold
<1> DEFINE Quiet == UNCHANGED <<seen, folded>> /\ acked' = acked
           LogGrows == log' = log \/ \E r : log' = Append(log, r)
<1>1. ASSUME NEW w \in Workers, NEW t, AppendTelemetry(w, t) PROVE LogGrows
  BY <1>1 DEF AppendTelemetry
<1>2. ASSUME UNCHANGED <<call, seen, folded, log>>,
             \A t \in acked' : t \in acked \/ seen[t.key] # Never
      PROVE  Progress
  BY <1>2 DEF Progress, Busy, At, Holding, Stays, ClaimedBy
<1>3. ASSUME NEW w \in Workers, Quiet, LogGrows, ~Holding(w), Busy(w),
             \E l \in PCs \ ToFold : Goto(w, l)
      PROVE  Progress
  <2>1. PICK l \in PCs \ ToFold : Goto(w, l)
    BY <1>3
  <2>2. /\ call'[w].t = call[w].t /\ \A u \in Workers \ {w} : call'[u] = call[u]
    BY <1>0, <2>1 DEF Goto, Calls
  <2>3. QED
    BY <1>3, <2>2 DEF Progress, Busy, At, Holding, Stays, ClaimedBy
<1>4. ASSUME NEW w \in Workers, Return(w), ~Holding(w), Busy(w), UNCHANGED <<seen, folded>>,
             LogGrows, acked' = acked \/ acked' = acked \union {call[w].t}
      PROVE  Progress
  <2>1. IdleCall.pc = "idle" /\ call' = [call EXCEPT ![w] = IdleCall]
    BY <1>4 DEF Return, IdleCall
  <2>2. call'[w].pc = "idle" /\ \A u \in Workers \ {w} : call'[u] = call[u]
    BY <1>0, <2>1
  <2>3. QED
    BY <1>4, <2>2 DEF Progress, Busy, At, Holding, Stays, ClaimedBy
<1>5. ASSUME NEW w \in Workers, NEW t \in Points, Reject(w, t) \/ Absorb(w, t) PROVE Progress
  BY <1>0, <1>2, <1>5 DEF Reject, Absorb, IsDup
<1>6. ASSUME NEW w \in Workers, NEW t \in Points, Accept(w, t) PROVE Progress
  <2>1. /\ seen' = [seen EXCEPT ![t.key] = now] /\ t.key \in Keys
        /\ UNCHANGED <<folded, log, acked>>
    BY <1>6, Domains DEF Accept
  <2>2. /\ call'[w].t = t /\ call'[w].pc = "append" /\ call[w].pc = "idle"
        /\ \A u \in Workers \ {w} : call'[u] = call[u]
    BY <1>0, <1>6 DEF Accept, Deliver, At, IdleCall
  <2>3. \A k \in Keys : seen'[k] = IF k = t.key THEN now ELSE seen[k]
    BY <1>0, <2>1
  <2>4. QED
    BY <1>0, <2>1, <2>2, <2>3 DEF Progress, Busy, At, Holding, Stays, ClaimedBy
<1>7. ASSUME NEW w \in Workers, AppendLog(w) PROVE Progress
  <2>1. /\ call'[w].t = call[w].t /\ call'[w].pc = "get" /\ call[w].pc = "append"
        /\ \A u \in Workers \ {w} : call'[u] = call[u]
    BY <1>0, <1>7 DEF AppendLog, At, Goto, Calls
  <2>2. UNCHANGED <<seen, folded, acked>> /\ AppendTelemetry(w, call[w].t)
    BY <1>7 DEF AppendLog
  <2>3. LogGrows
    BY <1>1, <2>2
  <2>4. QED
    BY <2>1, <2>2, <2>3 DEF Progress, Busy, At, Holding, Stays, ClaimedBy
<1>8. ASSUME NEW w \in Workers, Get(w) PROVE Progress
  <2>1. /\ call'[w].t = call[w].t /\ call'[w].pc = "set" /\ call[w].pc = "get"
        /\ \A u \in Workers \ {w} : call'[u] = call[u]
    BY <1>0, <1>8 DEF Get, At, Calls
  <2>2. UNCHANGED <<seen, folded, acked, log>>
    BY <1>8 DEF Get
  <2>3. QED
    BY <2>1, <2>2 DEF Progress, Busy, At, Holding, Stays, ClaimedBy
<1>9. ASSUME NEW w \in Workers, Set(w) PROVE Progress
  <2>1. call' = [call EXCEPT ![w].cur = Applied(w), ![w].pc = "detect"]
    BY <1>9 DEF Set
  <2>2. /\ call'[w].t = call[w].t /\ call'[w].pc = "detect" /\ call[w].pc = "set"
        /\ \A u \in Workers \ {w} : call'[u] = call[u]
    BY <1>0, <1>9, <2>1 DEF Set, At, Calls
  <2>3. UNCHANGED <<seen, acked, log>>
        /\ folded' = Append(folded, [t |-> call[w].t, at |-> call[w].at])
    BY <1>9 DEF Set, Write
  <2>4. NowFolded(call[w].t.key)
    <3>1. /\ Len(folded) + 1 \in DOMAIN folded'
          /\ folded'[Len(folded) + 1] = [t |-> call[w].t, at |-> call[w].at]
      BY <2>3 DEF TypeOK
    <3>2. folded'[Len(folded) + 1].t.key = call[w].t.key
      BY <3>1
    <3>3. QED
      BY <3>1, <3>2 DEF NowFolded
  <2>5. QED
    BY <2>2, <2>3, <2>4 DEF Progress, Busy, At, Holding, Stays, ClaimedBy
<1>10. ASSUME NEW w \in Workers, NEW from \in {"detect", "geo", "rules"}, NEW out,
              NEW to \in PCs \ ToFold, Compute(w, from, out, to)
       PROVE  Progress
  BY <1>3, <1>10 DEF Compute, Busy, At, Holding
<1>11. ASSUME NEW w \in Workers, DetectStep(w) \/ GeoStep(w) \/ RulesStep(w) PROVE Progress
  BY <1>10, <1>11 DEF DetectStep, GeoStep, RulesStep, PCs
<1>12. ASSUME NEW w \in Workers, PublishFails(w) PROVE Progress
  BY <1>3, <1>12 DEF PublishFails, Busy, At, Holding, PCs
<1>13. ASSUME NEW w \in Workers, Publish(w) PROVE Progress
  BY <1>2, <1>13 DEF Publish
<1>14. ASSUME NEW w \in Workers, RespondOk(w) PROVE Progress
  <2>1. LogGrows
    BY <1>1, <1>14 DEF RespondOk
  <2>2. QED
    BY <1>4, <1>14, <2>1 DEF RespondOk, Busy, At, Holding
<1>15. ASSUME NEW w \in Workers, RespondPublishError(w) PROVE Progress
  BY <1>4, <1>15 DEF RespondPublishError, Busy, At, Holding
<1>16. CASE SweepStart \/ (\E v \in Vehicles : SweepGet(v)) \/ SweepSet \/ SweepPublish \/ Tick
  BY <1>2, <1>16 DEF SweepStart, SweepGet, SweepSet, SweepPublish, Tick
<1>17. CASE UNCHANGED vars
  BY <1>2, <1>17 DEF vars
<1>18. ~Crash /\ \A w \in Workers : ~StoreFails(w) /\ \A t \in Points : ~SeenFails(w, t)
  BY DEF Crash, SeenFails, StoreFails, TypeOK
<1>19. QED
  BY <1>5, <1>6, <1>7, <1>8, <1>9, <1>11, <1>12, <1>13, <1>14, <1>15, <1>16, <1>17, <1>18
     DEF Next, Arrive, Proceed, Sweep

\* Keys of answered and running points stay recorded.
LEMMA RecordedStep ==
    ASSUME TypeOK, TypeOK', Progress, Recorded
    PROVE  Recorded'
<1>1. /\ \A u \in Workers : call[u].t.key \in Keys /\ call'[u].t.key \in Keys
      /\ \A t \in acked' : t.key \in Keys
  BY Domains DEF TypeOK
<1>2. \A u \in Workers : Busy(u)' => seen'[call'[u].t.key] # Never
  BY <1>1 DEF Recorded, Progress
<1>3. \A t \in acked' : seen'[t.key] # Never
  BY <1>1 DEF Recorded, Progress
<1>4. QED
  BY <1>2, <1>3 DEF Recorded

\* A claim to fold is kept or made good.
LEMMA FoldClaimsStep ==
    ASSUME TypeOK, Progress, FoldClaims
    PROVE  FoldClaims'
<1> SUFFICES ASSUME NEW k \in Keys, seen'[k] # Never
             PROVE  Folded(k)' \/ ClaimedBy(k, ToFold)'
  BY DEF FoldClaims
<1>1. CASE ClaimedBy(k, ToAppend)'
  BY <1>1 DEF ClaimedBy, ToAppend, ToFold
<1>2. CASE Folded(k)
  <2>1. \A i \in DOMAIN folded : i \in DOMAIN folded' /\ folded'[i] = folded[i]
    <3>1. ASSUME NEW r, folded' = Append(folded, r)
          PROVE  \A i \in DOMAIN folded : i \in DOMAIN folded' /\ folded'[i] = folded[i]
      BY <3>1 DEF TypeOK
    <3>2. QED
      BY <3>1 DEF Progress
  <2>2. QED
    BY <1>2, <2>1 DEF Folded
<1>3. CASE ClaimedBy(k, ToFold)
  <2>1. PICK u \in Workers : Holding(u) /\ call[u].t.key = k
    BY <1>3 DEF ClaimedBy, ToFold, Holding
  <2>2. CASE Stays(u, ToFold)
    BY <2>1, <2>2 DEF Stays, ClaimedBy
  <2>3. CASE NowFolded(call[u].t.key)
    BY <2>1, <2>3 DEF NowFolded, Folded
  <2>4. QED
    BY <2>1, <2>2, <2>3 DEF Progress
<1>4. QED
  BY <1>1, <1>2, <1>3 DEF Progress, FoldClaims

\* In the absence of Redis faults and crashes, a point whose caller was told
\* success is folded into the hot state or a running call is about to fold it:
\* Seen lets a duplicate through as "absorbed" only on a key some call claimed,
\* and no call gives a claim up (Process).
THEOREM PipelineAckedFolded ==
    ASSUME ~RedisFaults, MaxCrashes = 0
    PROVE  Spec => []AckedIsFolded
<1>1. Init => Recorded /\ FoldClaims
  BY DEF Init, NoCalls, IdleCall, Recorded, FoldClaims, Busy, At
<1>2. TypeOK /\ TypeOK' /\ Recorded /\ FoldClaims /\ [Next]_vars
        => (Recorded /\ FoldClaims)'
  BY AckProgress, RecordedStep, FoldClaimsStep
<1>3. TypeOK /\ Recorded /\ FoldClaims => AckedIsFolded
  <2> SUFFICES ASSUME TypeOK, Recorded, FoldClaims, NEW t \in acked
               PROVE  Folded(t.key) \/ InFlight(t.key)
    BY DEF AckedIsFolded
  <2>1. t.key \in Keys
    BY Domains DEF TypeOK
  <2>2. QED
    BY <2>1 DEF Recorded, FoldClaims, ClaimedBy, ToFold, InFlight, Busy, At
<1>4. QED
  BY <1>1, <1>2, <1>3, PipelineTypes, PTL DEF Spec

----------------------------------------------------------------------------
\* Ids tell keys apart: a point either gets an id of its own or shares one
\* only with points of its dedup key.  An adapter that passes on messages
\* without ids breaks this (the run mqtt_ids).
IdsFollowKeys ==
    \A w \in Workers, t \in Points :
        Mints(w, t) \/ \A u \in Points : u.id = t.id => u.key = t.key

\* Log.Append leaves a row with the key, unless Postgres fails.
LEMMA AppendedIsLogged ==
    ASSUME TypeOK, ~PGFaults, IdsFollowKeys, NEW u \in Workers, NEW t \in Points,
           AppendTelemetry(u, t)
    PROVE  \E i \in DOMAIN log' : log'[i].t.key = t.key
<1> DEFINE row == [t |-> t, minted |-> Mints(u, t)]
<1>1. log \in Seq(Rows)
  BY DEF TypeOK, Rows
<1>2. CASE Logged(t.key) \/ IdTaken(u, t)
  <2>1. log' = log
    BY <1>2 DEF AppendTelemetry
  <2>2. IdTaken(u, t) => Logged(t.key)
    <3> SUFFICES ASSUME IdTaken(u, t) PROVE Logged(t.key)
      OBVIOUS
    <3>1. PICK i \in DOMAIN log : log[i].t.id = t.id
      BY DEF IdTaken
    <3>2. log[i].t \in Points
      <4>1. log[i] \in Rows
        BY <1>1
      <4>2. QED
        BY <4>1 DEF Rows
    <3>3. log[i].t.key = t.key
      BY <3>1, <3>2 DEF IdTaken, IdsFollowKeys
    <3>4. QED
      BY <3>3 DEF Logged
  <2>3. QED
    BY <1>2, <2>1, <2>2 DEF Logged
<1>3. CASE ~(Logged(t.key) \/ IdTaken(u, t))
  <2>1. log' = Append(log, row)
    BY <1>3 DEF AppendTelemetry
  <2>2. row.t = t
    OBVIOUS
  <2> HIDE DEF row
  <2>3. Len(log) + 1 \in DOMAIN log' /\ log'[Len(log) + 1] = row
    BY <1>1, <2>1
  <2>4. QED
    BY <2>2, <2>3
<1>4. QED
  BY <1>2, <1>3

\* A claim to append is kept or made good.
LEMMA LogClaimsStep ==
    ASSUME TypeOK, ~PGFaults, IdsFollowKeys, Progress, LogClaims
    PROVE  LogClaims'
<1> SUFFICES ASSUME NEW k \in Keys, seen'[k] # Never
             PROVE  Logged(k)' \/ ClaimedBy(k, ToAppend)'
  BY DEF LogClaims
<1>1. CASE Logged(k)
  <2>1. \A i \in DOMAIN log : i \in DOMAIN log' /\ log'[i] = log[i]
    <3>1. ASSUME NEW r, log' = Append(log, r)
          PROVE  \A i \in DOMAIN log : i \in DOMAIN log' /\ log'[i] = log[i]
      BY <3>1 DEF TypeOK
    <3>2. QED
      BY <3>1 DEF Progress
  <2>2. QED
    BY <1>1, <2>1 DEF Logged
<1>2. CASE ClaimedBy(k, ToAppend)
  <2>1. PICK u \in Workers : At(u, "append") /\ call[u].t.key = k
    BY <1>2 DEF ClaimedBy, ToAppend, At
  <2>2. CASE Stays(u, ToAppend)
    BY <2>1, <2>2 DEF Stays, ClaimedBy
  <2>3. CASE AppendTelemetry(u, call[u].t)
    <3>1. call[u].t \in Points
      BY DEF TypeOK
    <3>2. \E i \in DOMAIN log' : log'[i].t.key = call[u].t.key
      BY <2>3, <3>1, AppendedIsLogged
    <3>3. QED
      BY <2>1, <3>2 DEF Logged
  <2>4. QED
    BY <2>1, <2>2, <2>3 DEF Progress
<1>3. QED
  BY <1>1, <1>2 DEF Progress, LogClaims

\* In the absence of Redis and Postgres faults and of crashes, and as long as
\* ids tell keys apart, a point whose caller was told success is in the durable
\* telemetry or a running call is about to insert it (Log.Append in Process).
THEOREM PipelineAckedDurable ==
    ASSUME ~RedisFaults, ~PGFaults, MaxCrashes = 0, IdsFollowKeys
    PROVE  Spec => []AckedIsDurable
<1>1. Init => Recorded /\ LogClaims
  BY DEF Init, NoCalls, IdleCall, Recorded, LogClaims, Busy, At
<1>2. TypeOK /\ TypeOK' /\ Recorded /\ LogClaims /\ [Next]_vars
        => (Recorded /\ LogClaims)'
  BY AckProgress, RecordedStep, LogClaimsStep
<1>3. TypeOK /\ Recorded /\ LogClaims => AckedIsDurable
  <2> SUFFICES ASSUME TypeOK, Recorded, LogClaims, NEW t \in acked
               PROVE  Logged(t.key) \/ InFlight(t.key)
    BY DEF AckedIsDurable
  <2>1. t.key \in Keys
    BY Domains DEF TypeOK
  <2>2. QED
    BY <2>1 DEF Recorded, LogClaims, ClaimedBy, ToAppend, InFlight, Busy, At
<1>4. QED
  BY <1>1, <1>2, <1>3, PipelineTypes, PTL DEF Spec

----------------------------------------------------------------------------
(* What rules add to the events of a call.                                 *)

FenceIds == {Fences[i].id : i \in DOMAIN Fences}
FenceEvents == [kind : {"geofence"}, phase : Phases, veh : Vehicles, ts : Int, cause : FenceIds,
                corr : BOOLEAN]
RuleEvent(r, t) == Event(r.emit, "created", t.veh, t.ts, ruleKey(r), t.corr)
RuleEvents == {RuleEvent(r, t) : r \in Rules, t \in Points}
SweepEvents == [kind : {"offline"}, phase : Phases, veh : Vehicles, ts : Int, cause : {"sweep"},
                corr : BOOLEAN]
PipelineEvents == DetectorEvents(Vehicles) \union FenceEvents \union RuleEvents \union SweepEvents

\* No rule emits an event of a kind that comes in pairs.
Calm == \A r \in Rules : r.emit \notin Paired

\* An event of a kind without pairs moves no stream of the other kinds.
LEMMA SpareOne ==
    ASSUME NEW E, NEW q \in Seq(E), Bracketed(q), NEW e \in E, e.kind \notin Paired
    PROVE  /\ Bracketed(Append(q, e))
           /\ \A f : f.kind \in Paired => (Open(Append(q, e), f) <=> Open(q, f))
<1>1. InPlace(q, Len(q), e)
  BY DEF InPlace
<1>2. Bracketed(Append(q, e))
  BY <1>1, AppendBracketed
<1>3. \A f : Open(Append(q, e), f) <=>
                IF SameStream(e, f) THEN e.phase \notin Closing ELSE Open(q, f)
  BY AppendOpen
<1>4. QED
  BY <1>2, <1>3 DEF SameStream

\* The events q and those of acc: bracketed, with every paired stream as after q.
Spared(calm, E, q, acc) ==
    /\ acc = [eng |-> acc.eng, out |-> acc.out]
    /\ acc.out \in Seq(E)
    /\ calm => /\ Bracketed(q \o acc.out)
               /\ \A f : f.kind \in Paired => (Open(q \o acc.out, f) <=> Open(q, f))

\* One rule against one event.
LEMMA OneSpares ==
    ASSUME NEW calm \in BOOLEAN, NEW E, NEW q \in Seq(E), NEW acc, Spared(calm, E, q, acc),
           NEW r, NEW ev, NEW t, NEW s, NEW at, RuleEvent(r, t) \in E,
           calm => r.emit \notin Paired
    PROVE  Spared(calm, E, q, EvaluateOne(acc, r, ev, t, s, at))
<1> DEFINE e == RuleEvent(r, t)
           new == EvaluateOne(acc, r, ev, t, s, at)
           old == q \o acc.out
<1>1. Emission(r, t) = <<>> \/ Emission(r, t) = <<e>>
  BY DEF Emission, RuleEvent
<1>2. e \in E /\ e.kind = r.emit
  BY DEF RuleEvent, Event
<1>3. acc.out \in Seq(E) /\ acc = [eng |-> acc.eng, out |-> acc.out]
  BY DEF Spared
<1> HIDE DEF e
<1>4. /\ \/ new = acc
         \/ \E x : new = [acc EXCEPT !.eng = x]
         \/ \E x : new = [eng |-> x, out |-> acc.out \o Emission(r, t)]
  <2>1. CASE ~Matches(r, t, s, ev) \/ CoolingDown(acc.eng, r, t.veh, at)
    BY <2>1 DEF EvaluateOne
  <2>2. CASE Matches(r, t, s, ev) /\ ~CoolingDown(acc.eng, r, t.veh, at)
    <3>1. new = IF Capped(acc.eng, r, t.veh, at)
                THEN [acc EXCEPT !.eng = Prune(@, r, t.veh, at)]
                ELSE [eng |-> Fire(acc.eng, r, t.veh, at), out |-> acc.out \o Emission(r, t)]
      BY <2>2 DEF EvaluateOne
    <3> HIDE DEF new
    <3>2. QED
      BY <3>1
  <2>3. QED
    BY <2>1, <2>2
<1> HIDE DEF new
<1>5. acc.out \o <<>> = acc.out /\ acc.out \o <<e>> = Append(acc.out, e)
  BY <1>2, <1>3, AppendIsConcat
<1>6. /\ new = [eng |-> new.eng, out |-> new.out]
      /\ new.out = acc.out \/ new.out = Append(acc.out, e)
  <2>1. ASSUME NEW x, new = [acc EXCEPT !.eng = x]
        PROVE  new = [eng |-> new.eng, out |-> new.out] /\ new.out = acc.out
    BY <1>3, <2>1
  <2>2. ASSUME NEW x, new = [eng |-> x, out |-> acc.out \o Emission(r, t)]
        PROVE  new = [eng |-> new.eng, out |-> new.out] /\ new.out = acc.out \o Emission(r, t)
    BY <2>2
  <2>3. QED
    BY <1>1, <1>3, <1>4, <1>5, <2>1, <2>2
<1>7. q \o Append(acc.out, e) = Append(old, e) /\ old \in Seq(E) /\ Append(acc.out, e) \in Seq(E)
  BY <1>2, <1>3
<1>8. ASSUME calm PROVE /\ Bracketed(Append(old, e))
                        /\ \A f : f.kind \in Paired => (Open(Append(old, e), f) <=> Open(q, f))
  <2>1. Bracketed(old) /\ \A f : f.kind \in Paired => (Open(old, f) <=> Open(q, f))
    BY <1>8 DEF Spared
  <2> HIDE DEF old
  <2>2. /\ Bracketed(Append(old, e))
        /\ \A f : f.kind \in Paired => (Open(Append(old, e), f) <=> Open(old, f))
    BY <1>2, <1>7, <1>8, <2>1, SpareOne
  <2>3. QED
    BY <2>1, <2>2
<1>9. Spared(calm, E, q, new)
  <2>1. CASE new.out = acc.out
    BY <1>6, <2>1 DEF Spared
  <2>2. CASE new.out = Append(acc.out, e)
    <3>1. new.out \in Seq(E) /\ q \o new.out = Append(old, e)
      BY <1>7, <2>2
    <3> HIDE DEF old
    <3>2. QED
      BY <1>6, <1>8, <3>1 DEF Spared
  <2>3. QED
    BY <1>6, <2>1, <2>2
<1>10. QED
  BY <1>9 DEF new

\* A turn of the loop over the events (inner) or over the rules.
RuleTurn(inner, acc, x, r, t, s, events, at) ==
    IF inner THEN EvaluateOne(acc, r, x, t, s, at) ELSE EvaluateRule(acc, x, t, s, events, at)

RuleTable(inner, a, xs, r, t, s, events, at, n, g) ==
    g = [i \in 0 .. n |->
            IF i = 0 THEN a ELSE RuleTurn(inner, g[i - 1], xs[i], r, t, s, events, at)]

\* A table of the turns exists, by induction.
LEMMA RuleTableExists ==
    ASSUME NEW inner, NEW a, NEW xs, NEW r, NEW t, NEW s, NEW events, NEW at
    PROVE  \A n \in Nat : \E g : RuleTable(inner, a, xs, r, t, s, events, at, n, g)
<1> DEFINE S == {n \in Nat : \E g : RuleTable(inner, a, xs, r, t, s, events, at, n, g)}
<1>1. 0 \in S
  <2> DEFINE g == [i \in 0 .. 0 |-> a]
  <2>1. RuleTable(inner, a, xs, r, t, s, events, at, 0, g)
    BY DEF RuleTable
  <2>2. QED
    BY <2>1
<1>2. ASSUME NEW n \in S PROVE n + 1 \in S
  <2>1. PICK g : RuleTable(inner, a, xs, r, t, s, events, at, n, g)
    OBVIOUS
  <2> DEFINE last == RuleTurn(inner, g[n], xs[n + 1], r, t, s, events, at)
             h == [i \in 0 .. n + 1 |-> IF i <= n THEN g[i] ELSE last]
  <2>2. n \in Nat
    OBVIOUS
  <2>3. \A i \in 0 .. n :
            g[i] = IF i = 0 THEN a ELSE RuleTurn(inner, g[i - 1], xs[i], r, t, s, events, at)
    BY <2>1 DEF RuleTable
  <2>4. \A i \in 0 .. n + 1 :
            h[i] = IF i = 0 THEN a ELSE RuleTurn(inner, h[i - 1], xs[i], r, t, s, events, at)
    <3>1. ASSUME NEW i \in 0 .. n
          PROVE  h[i] = IF i = 0 THEN a ELSE RuleTurn(inner, h[i - 1], xs[i], r, t, s, events, at)
      <4> HIDE DEF last
      <4>1. i \in 0 .. n + 1 /\ i <= n /\ (i # 0 => i - 1 \in 0 .. n + 1 /\ i - 1 <= n)
        BY <2>2
      <4>2. h[i] = g[i]
        BY <4>1
      <4>3. i # 0 => h[i - 1] = g[i - 1]
        BY <4>1
      <4> HIDE DEF h
      <4>4. QED
        BY <2>3, <4>2, <4>3
    <3>2. h[n + 1] = last /\ h[n] = g[n] /\ (n + 1) - 1 = n
      <4> HIDE DEF last
      <4>1. QED
        BY <2>2
    <3> HIDE DEF h
    <3>3. \A i \in 0 .. n + 1 : i \in 0 .. n \/ (i = n + 1 /\ i # 0 /\ i - 1 = n)
      BY <2>2
    <3>4. QED
      BY <3>1, <3>2, <3>3
  <2>5. h = [i \in 0 .. n + 1 |-> h[i]]
    OBVIOUS
  <2> HIDE DEF h
  <2>6. RuleTable(inner, a, xs, r, t, s, events, at, n + 1, h)
    BY <2>4, <2>5 DEF RuleTable
  <2>7. QED
    BY <2>2, <2>6
<1>3. S = Nat
  <2>1. S \in SUBSET Nat
    OBVIOUS
  <2> HIDE DEF S
  <2>2. QED
    BY <1>1, <1>2, <2>1, SetInduction
<1>4. QED
  BY <1>3

\* A loop whose turns spare the streams spares them.
LEMMA LoopSpares ==
    ASSUME NEW calm \in BOOLEAN, NEW E, NEW q \in Seq(E), NEW inner, NEW a, NEW xs, NEW r, NEW t,
           NEW s, NEW events, NEW at, Len(xs) \in Nat, Spared(calm, E, q, a),
           \A i \in 1 .. Len(xs) : \A acc :
                Spared(calm, E, q, acc)
                    => Spared(calm, E, q, RuleTurn(inner, acc, xs[i], r, t, s, events, at)),
           NEW f, RuleTable(inner, a, xs, r, t, s, events, at, Len(xs), f)
    PROVE  Spared(calm, E, q, f[Len(xs)])
<1> DEFINE N == Len(xs)
           S == {n \in Nat : n <= N => Spared(calm, E, q, f[n])}
<1>1. \A i \in 0 .. N :
          f[i] = IF i = 0 THEN a ELSE RuleTurn(inner, f[i - 1], xs[i], r, t, s, events, at)
  BY DEF RuleTable
<1>2. 0 \in S
  BY <1>1
<1>3. ASSUME NEW n \in S PROVE n + 1 \in S
  <2> SUFFICES ASSUME n + 1 <= N PROVE Spared(calm, E, q, f[n + 1])
    OBVIOUS
  <2>1. n \in Nat /\ n + 1 \in 0 .. N /\ n + 1 \in 1 .. N /\ (n + 1) - 1 = n /\ n + 1 # 0 /\ n <= N
    OBVIOUS
  <2>2. Spared(calm, E, q, f[n])
    BY <2>1
  <2>3. f[n + 1] = RuleTurn(inner, f[n], xs[n + 1], r, t, s, events, at)
    BY <1>1, <2>1
  <2>4. QED
    BY <2>1, <2>2, <2>3
<1>4. S = Nat
  <2>1. S \in SUBSET Nat
    OBVIOUS
  <2> HIDE DEF S
  <2>2. QED
    BY <1>2, <1>3, <2>1, SetInduction
<1>5. N \in S
  BY <1>4
<1>6. QED
  BY <1>5

\* One rule against all the events of a call.
LEMMA RuleSpares ==
    ASSUME NEW calm \in BOOLEAN, NEW E, NEW q \in Seq(E), NEW acc, Spared(calm, E, q, acc),
           NEW r, NEW t, NEW s, NEW events, Len(events) \in Nat, NEW at, RuleEvent(r, t) \in E,
           calm => r.emit \notin Paired
    PROVE  Spared(calm, E, q, EvaluateRule(acc, r, t, s, events, at))
<1> DEFINE f == CHOOSE g : g = [n \in 0 .. Len(events) |->
                    IF n = 0 THEN acc ELSE EvaluateOne(g[n - 1], r, events[n], t, s, at)]
<1>1. EvaluateRule(acc, r, t, s, events, at) = f[Len(events)]
  BY DEF EvaluateRule
<1>2. RuleTable(TRUE, acc, events, r, t, s, events, at, Len(events), f)
  <2>1. \E g : RuleTable(TRUE, acc, events, r, t, s, events, at, Len(events), g)
    BY RuleTableExists
  <2>2. QED
    BY <2>1 DEF RuleTable, RuleTurn
<1> HIDE DEF f
<1>3. \A i \in 1 .. Len(events) : \A x :
          Spared(calm, E, q, x)
              => Spared(calm, E, q, RuleTurn(TRUE, x, events[i], r, t, s, events, at))
  BY OneSpares DEF RuleTurn
<1>4. QED
  BY <1>1, <1>2, <1>3, LoopSpares

\* rules.Engine.Evaluate: all rules against all the events of a call.
LEMMA RulesSpare ==
    ASSUME NEW calm \in BOOLEAN, NEW E, NEW q \in Seq(E), calm => Bracketed(q),
           NEW e, NEW order, Len(order) \in Nat,
           NEW t, NEW s, NEW events, Len(events) \in Nat, NEW at,
           \A i \in 1 .. Len(order) : /\ RuleEvent(order[i], t) \in E
                                      /\ calm => order[i].emit \notin Paired
    PROVE  Spared(calm, E, q, EvaluateRules(e, order, t, s, events, at))
<1> DEFINE a == [eng |-> e, out |-> <<>>]
           f == CHOOSE g : g = [n \in 0 .. Len(order) |->
                    IF n = 0 THEN [eng |-> e, out |-> <<>>]
                    ELSE EvaluateRule(g[n - 1], order[n], t, s, events, at)]
<1>1. EvaluateRules(e, order, t, s, events, at) = f[Len(order)]
  BY DEF EvaluateRules
<1>2. RuleTable(FALSE, a, order, e, t, s, events, at, Len(order), f)
  <2>1. \E g : RuleTable(FALSE, a, order, e, t, s, events, at, Len(order), g)
    <3> HIDE DEF a
    <3>1. QED
      BY RuleTableExists
  <2>2. QED
    BY <2>1 DEF RuleTable, RuleTurn
<1> HIDE DEF f
<1>3. \A i \in 1 .. Len(order) : \A x :
          Spared(calm, E, q, x)
              => Spared(calm, E, q, RuleTurn(FALSE, x, order[i], e, t, s, events, at))
  BY RuleSpares DEF RuleTurn
<1>4. Spared(calm, E, q, a)
  <2>1. q \o a.out = q /\ a.out \in Seq(E) /\ a = [eng |-> a.eng, out |-> a.out]
    OBVIOUS
  <2> HIDE DEF a
  <2>2. QED
    BY <2>1 DEF Spared
<1> HIDE DEF a
<1>5. QED
  BY <1>1, <1>2, <1>3, <1>4, LoopSpares

----------------------------------------------------------------------------
(* The events of the pipeline: their types and their streams.              *)

Outboxes == [evs : Seq(PipelineEvents), sent : Nat]

EventTypes ==
    /\ emitted \in Seq(PipelineEvents) /\ bus \in Seq(PipelineEvents)
    /\ outbox \in [Workers -> Outboxes]
    /\ \A w \in Workers : outbox[w].sent <= Len(outbox[w].evs)
    /\ members \in [Vehicles -> SUBSET FenceIds]

\* The memory of detectors and fences says which streams are open.
Streams ==
    /\ Bracketed(emitted)
    /\ \A v \in Vehicles : Matched(tracks[v], emitted, v)
    /\ \A v \in Vehicles : \A x : x \in members[v] <=> Open(emitted, FenceStream(v, x))

\* The detectors' memory depends on nothing but their own streams.
LEMMA MatchedKept ==
    ASSUME NEW trk, NEW v, NEW a, NEW b, Matched(trk, a, v),
           \A f : (f.veh = v /\ f.kind \in {"speeding", "idling", "trip"})
                    => (Open(a, f) <=> Open(b, f))
    PROVE  Matched(trk, b, v)
<1>1. \A k : Stream(v, k).veh = v /\ Stream(v, k).kind = k
  BY DEF Stream
<1>2. QED
  BY <1>1 DEF Matched

\* The detectors of a call.
LEMMA DetectStage ==
    ASSUME TypeOK, EventTypes, NEW w \in Workers, DetectStep(w)
    PROVE  /\ \E out \in Seq(PipelineEvents) : Compute(w, "detect", out, "geo")
           /\ members' = members
           /\ Streams => Streams'
<1> DEFINE t == call[w].t
           v == t.veh
           det == Detect(tracks[t.veh], t, call[w].cur)
<1>1. /\ Compute(w, "detect", det.out, "geo") /\ tracks' = [tracks EXCEPT ![t.veh] = det.trk]
      /\ members' = members
  BY DEF DetectStep
<1>2. emitted' = emitted \o det.out
  BY <1>1 DEF Compute
<1>3. t \in Telemetry(Keys, Vehicles) /\ v \in Vehicles /\ tracks[v] \in Tracks
  BY Domains DEF TypeOK
<1>4. det.out \in Seq(DetectorEvents(Vehicles))
  BY <1>3, DetectType
<1>5. DetectorEvents(Vehicles) \subseteq PipelineEvents
  BY DEF PipelineEvents
<1>6. det.out \in Seq(PipelineEvents)
  <2> HIDE DEF det
  <2>1. QED
    BY <1>4, <1>5
<1>7. ASSUME Streams PROVE Streams'
  <2>1. Bracketed(emitted) /\ Matched(tracks[v], emitted, v) /\ emitted \in Seq(PipelineEvents)
    BY <1>3, <1>7 DEF Streams, EventTypes
  <2> HIDE DEF t
  <2>2. LET d == Detect(tracks[v], t, call[w].cur)
            new == emitted \o d.out
        IN  /\ Bracketed(new)
            /\ Matched(d.trk, new, v)
            /\ \A f : (f.veh # v \/ f.kind \notin {"speeding", "idling", "trip"})
                          => (Open(new, f) <=> Open(emitted, f))
    BY <1>3, <1>5, <2>1, DetectBrackets
  <2>3. /\ Bracketed(emitted') /\ Matched(det.trk, emitted', v)
        /\ \A f : (f.veh # v \/ f.kind \notin {"speeding", "idling", "trip"})
                      => (Open(emitted', f) <=> Open(emitted, f))
    BY <1>2, <2>2
  <2> HIDE DEF det, v
  <2>4. /\ tracks'[v] = det.trk
        /\ \A u \in Vehicles : u # v => tracks'[u] = tracks[u]
    BY <1>1, <1>3 DEF TypeOK, v
  <2>5. ASSUME NEW u \in Vehicles PROVE Matched(tracks'[u], emitted', u)
    <3>1. CASE u = v
      BY <2>3, <2>4, <3>1
    <3>2. CASE u # v
      <4>1. Matched(tracks[u], emitted, u)
        BY <1>7 DEF Streams
      <4>2. Matched(tracks[u], emitted', u)
        BY <2>3, <3>2, <4>1, MatchedKept
      <4>3. QED
        BY <2>4, <3>2, <4>2
    <3>3. QED
      BY <3>1, <3>2
  <2>6. \A u, x : FenceStream(u, x).kind = "geofence"
    BY DEF FenceStream
  <2>7. \A u \in Vehicles : \A x : x \in members'[u] <=> Open(emitted', FenceStream(u, x))
    BY <1>1, <1>7, <2>3, <2>6 DEF Streams
  <2>8. QED
    BY <2>3, <2>5, <2>7 DEF Streams
<1>8. QED
  BY <1>1, <1>6, <1>7

\* The fences of a call.
LEMMA GeoStage ==
    ASSUME TypeOK, EventTypes, NEW w \in Workers, GeoStep(w)
    PROVE  /\ \E out \in Seq(PipelineEvents) : Compute(w, "geo", out, "rules")
           /\ members' \in [Vehicles -> SUBSET FenceIds]
           /\ Streams => Streams'
<1> DEFINE t == call[w].t
           v == t.veh
           g == EvaluateFences(members[t.veh], Fences, t)
<1>1. /\ Compute(w, "geo", g.out, "rules") /\ members' = [members EXCEPT ![t.veh] = g.mem]
      /\ tracks' = tracks
  BY DEF GeoStep
<1>2. emitted' = emitted \o g.out
  BY <1>1 DEF Compute
<1>3. t \in Telemetry(Keys, Vehicles) /\ v \in Vehicles
  BY Domains DEF TypeOK
<1>4. \A ph \in {"entered", "exited"}, x \in FenceIds : Crossing(ph, t, x) \in PipelineEvents
  <2> HIDE DEF t
  <2>1. t.veh \in Vehicles /\ t.ts \in Int /\ t.corr \in BOOLEAN
    BY <1>3 DEF Telemetry
  <2>2. QED
    BY <2>1 DEF Crossing, Event, FenceEvents, Phases, PipelineEvents
<1>5. Len(Fences) \in Nat /\ \A i \in 1 .. Len(Fences) : Fences[i].id \in FenceIds
  <2>1. Fences \in Seq({Fences[i] : i \in DOMAIN Fences})
    BY PipelineConfig
  <2>2. Len(Fences) \in Nat /\ DOMAIN Fences = 1 .. Len(Fences)
    BY <2>1
  <2>3. QED
    BY <2>2 DEF FenceIds
<1>6. members[v] \in SUBSET FenceIds /\ emitted \in Seq(PipelineEvents)
  BY <1>3 DEF EventTypes
<1> HIDE DEF t
<1>7. ASSUME NEW calm \in BOOLEAN,
             calm => Bracketed(emitted) /\ \A x : x \in members[v] <=> Open(emitted, FenceStream(v, x))
      PROVE  Crossed(calm, PipelineEvents, FenceIds, emitted, v, g)
  BY <1>4, <1>5, <1>6, <1>7, FencesCross
<1> HIDE DEF g, v
<1>8. g.mem \in SUBSET FenceIds /\ g.out \in Seq(PipelineEvents)
  <2>1. Crossed(FALSE, PipelineEvents, FenceIds, emitted, v, g)
    BY <1>7
  <2>2. QED
    BY <2>1 DEF Crossed
<1>9. members' = [members EXCEPT ![v] = g.mem] /\ members' \in [Vehicles -> SUBSET FenceIds]
  BY <1>1, <1>8 DEF EventTypes, v
<1>10. ASSUME Streams PROVE Streams'
  <2>1. Crossed(TRUE, PipelineEvents, FenceIds, emitted, v, g)
    BY <1>3, <1>7, <1>10 DEF Streams
  <2>2. /\ Bracketed(emitted')
        /\ \A x : x \in g.mem <=> Open(emitted', FenceStream(v, x))
        /\ \A f : (f.kind = "geofence" /\ f.veh = v) \/ (Open(emitted', f) <=> Open(emitted, f))
    BY <1>2, <2>1 DEF Crossed
  <2>3. ASSUME NEW u \in Vehicles PROVE Matched(tracks'[u], emitted', u)
    <3>1. Matched(tracks[u], emitted, u)
      BY <1>10 DEF Streams
    <3>2. \A f : (f.veh = u /\ f.kind \in {"speeding", "idling", "trip"})
                    => (Open(emitted, f) <=> Open(emitted', f))
      BY <2>2
    <3>3. QED
      BY <1>1, <3>1, <3>2, MatchedKept
  <2>4. ASSUME NEW u \in Vehicles, NEW x
        PROVE  x \in members'[u] <=> Open(emitted', FenceStream(u, x))
    <3>1. CASE u = v
      BY <1>9, <2>2, <3>1 DEF EventTypes
    <3>2. CASE u # v
      <4>1. members'[u] = members[u] /\ (x \in members[u] <=> Open(emitted, FenceStream(u, x)))
        BY <1>9, <1>10, <3>2 DEF EventTypes, Streams
      <4>2. FenceStream(u, x).veh = u
        BY DEF FenceStream
      <4>3. QED
        BY <2>2, <3>2, <4>1, <4>2
    <3>3. QED
      BY <3>1, <3>2
  <2>5. QED
    BY <2>2, <2>3, <2>4 DEF Streams
<1>11. QED
  BY <1>1, <1>8, <1>9, <1>10

\* Streams do not move when no paired stream does.
LEMMA StreamsSpared ==
    ASSUME Streams, UNCHANGED <<tracks, members>>, Bracketed(emitted'),
           \A f : f.kind \in Paired => (Open(emitted', f) <=> Open(emitted, f))
    PROVE  Streams'
<1>1. \A u, x : FenceStream(u, x).kind \in Paired
  BY DEF FenceStream, Paired
<1>2. ASSUME NEW u \in Vehicles PROVE Matched(tracks'[u], emitted', u)
  <2>1. Matched(tracks[u], emitted, u) /\ tracks'[u] = tracks[u]
    BY DEF Streams
  <2>2. \A f : (f.veh = u /\ f.kind \in {"speeding", "idling", "trip"})
                  => (Open(emitted, f) <=> Open(emitted', f))
    BY DEF Paired
  <2>3. QED
    BY <2>1, <2>2, MatchedKept
<1>3. QED
  BY <1>1, <1>2 DEF Streams

\* The rules of a call.
LEMMA RulesStage ==
    ASSUME TypeOK, EventTypes, NEW w \in Workers, RulesStep(w)
    PROVE  /\ \E out \in Seq(PipelineEvents) : Compute(w, "rules", out, "publish")
           /\ members' = members
           /\ Calm /\ Streams => Streams'
<1> DEFINE t == call[w].t
           s == call[w].cur
           evs == outbox[w].evs
<1>1. PICK order \in RuleOrders :
            LET r == EvaluateRules(eng, order, t, s, evs, now)
            IN  Compute(w, "rules", r.out, "publish") /\ UNCHANGED <<tracks, members>>
  BY DEF RulesStep
<1> DEFINE r == EvaluateRules(eng, order, t, s, evs, now)
<1>2. Compute(w, "rules", r.out, "publish") /\ UNCHANGED <<tracks, members>>
  BY <1>1
<1>3. emitted' = emitted \o r.out
  BY <1>2 DEF Compute
<1>4. order \in Seq(Rules)
  <2>1. Cardinality(Rules) \in Nat
    BY PipelineConfig, FS_CardinalityType
  <2>2. order \in [1 .. Cardinality(Rules) -> Rules]
    BY DEF RuleOrders
  <2>3. QED
    BY <2>1, <2>2, SeqDef
<1>5. Len(order) \in Nat /\ Len(evs) \in Nat /\ emitted \in Seq(PipelineEvents)
  BY <1>4 DEF EventTypes, Outboxes
<1>6. \A i \in 1 .. Len(order) : RuleEvent(order[i], t) \in PipelineEvents
  <2>1. \A i \in 1 .. Len(order) : order[i] \in Rules
    BY <1>4
  <2>2. t \in Points
    BY DEF TypeOK
  <2> HIDE DEF t
  <2>3. QED
    BY <2>1, <2>2 DEF RuleEvents, PipelineEvents
<1>7. Calm => \A i \in 1 .. Len(order) : order[i].emit \notin Paired
  BY <1>4 DEF Calm
<1> HIDE DEF t, s, evs
<1>8. ASSUME NEW calm \in BOOLEAN, calm => Calm /\ Bracketed(emitted)
      PROVE  Spared(calm, PipelineEvents, emitted, r)
  BY <1>5, <1>6, <1>7, <1>8, RulesSpare
<1> HIDE DEF r
<1>9. r.out \in Seq(PipelineEvents)
  <2>1. Spared(FALSE, PipelineEvents, emitted, r)
    BY <1>8
  <2>2. QED
    BY <2>1 DEF Spared
<1>10. ASSUME Calm, Streams PROVE Streams'
  <2>1. Spared(TRUE, PipelineEvents, emitted, r)
    BY <1>8, <1>10 DEF Streams
  <2>2. /\ Bracketed(emitted')
        /\ \A f : f.kind \in Paired => (Open(emitted', f) <=> Open(emitted, f))
    BY <1>3, <2>1 DEF Spared
  <2>3. QED
    BY <1>2, <1>10, <2>2, StreamsSpared
<1>11. QED
  BY <1>2, <1>9, <1>10

Stage(w) == DetectStep(w) \/ GeoStep(w) \/ RulesStep(w)

\* A stage of a call appends well-typed events and moves the streams with them.
LEMMA Stages ==
    ASSUME TypeOK, EventTypes, NEW w \in Workers, Stage(w)
    PROVE  /\ \E out \in Seq(PipelineEvents), from \in {"detect", "geo", "rules"},
                 to \in {"geo", "rules", "publish"} : Compute(w, from, out, to)
           /\ members' \in [Vehicles -> SUBSET FenceIds]
           /\ Calm /\ Streams => Streams'
<1>1. CASE DetectStep(w)
  BY <1>1, DetectStage DEF EventTypes
<1>2. CASE GeoStep(w)
  BY <1>2, GeoStage
<1>3. CASE RulesStep(w)
  BY <1>3, RulesStage DEF EventTypes
<1>4. QED
  BY <1>1, <1>2, <1>3 DEF Stage

\* A fresh outbox.
LEMMA EmptyTypes == EmptyOutbox \in Outboxes /\ EmptyOutbox.evs = <<>> /\ EmptyOutbox.sent = 0
BY DEF EmptyOutbox, Outboxes

\* The sweeper's event.
LEMMA SweepEventType ==
    ASSUME TypeOK
    PROVE  SweepEvent \in PipelineEvents /\ SweepEvent.kind \notin Paired
<1>1. sw.veh \in Vehicles /\ sw.at \in Int
  BY DEF TypeOK
<1>2. QED
  BY <1>1 DEF SweepEvent, Event, SweepEvents, Phases, PipelineEvents, Paired

\* Steps that neither compute, publish nor return.
Eventless(w) ==
    \/ \E t \in Points : Reject(w, t) \/ Absorb(w, t) \/ SeenFails(w, t) \/ Accept(w, t)
    \/ AppendLog(w) \/ Get(w) \/ Set(w) \/ PublishFails(w)

Answers(w) == StoreFails(w) \/ RespondOk(w) \/ RespondPublishError(w)

\* Next, by what a step does to events.
LEMMA EventCases ==
    ASSUME Next
    PROVE  \/ \E w \in Workers : Eventless(w) \/ Stage(w) \/ Publish(w) \/ Answers(w)
           \/ SweepStart \/ (\E v \in Vehicles : SweepGet(v)) \/ SweepSet \/ SweepPublish
           \/ Tick
           \/ Crash
BY DEF Next, Arrive, Proceed, Sweep, Eventless, Stage, Answers

\* Every step keeps the events well typed, and their streams as well unless
\* the process crashes.
LEMMA EventStep ==
    TypeOK /\ EventTypes /\ [Next]_vars
        => EventTypes' /\ (Calm /\ Streams /\ MaxCrashes = 0 => Streams')
<1> SUFFICES ASSUME TypeOK, EventTypes, [Next]_vars
             PROVE  EventTypes' /\ (Calm /\ Streams /\ MaxCrashes = 0 => Streams')
  OBVIOUS
<1> DEFINE Goal == EventTypes' /\ (Calm /\ Streams /\ MaxCrashes = 0 => Streams')
<1>0. /\ outbox \in [Workers -> Outboxes] /\ emitted \in Seq(PipelineEvents)
      /\ bus \in Seq(PipelineEvents)
      /\ \A w \in Workers : outbox[w].sent <= Len(outbox[w].evs)
  BY DEF EventTypes
<1>1. ASSUME UNCHANGED <<emitted, bus, outbox, members, tracks>> PROVE Goal
  BY <1>1 DEF EventTypes, Streams
<1>2. ASSUME NEW w \in Workers, Eventless(w) PROVE Goal
  <2>1. UNCHANGED <<emitted, bus, memory>>
    BY <1>2 DEF Eventless, Reject, Absorb, SeenFails, Accept, AppendLog, Get, Set, PublishFails
  <2>2. QED
    BY <1>1, <2>1 DEF memory, trackers
<1>3. ASSUME NEW w \in Workers, Stage(w) PROVE Goal
  <2>1. PICK out \in Seq(PipelineEvents) : \E from, to : Compute(w, from, out, to)
    BY <1>3, Stages
  <2>2. /\ outbox' = [outbox EXCEPT ![w].evs = @ \o out] /\ emitted' = emitted \o out
        /\ bus' = bus
    BY <2>1 DEF Compute
  <2>3. outbox[w].evs \in Seq(PipelineEvents) /\ outbox[w].sent \in Nat
    BY <1>0 DEF Outboxes
  <2>4. /\ outbox[w].evs \o out \in Seq(PipelineEvents)
        /\ Len(outbox[w].evs \o out) = Len(outbox[w].evs) + Len(out)
        /\ emitted' \in Seq(PipelineEvents)
    BY <1>0, <2>2, <2>3
  <2>5. /\ outbox'[w].evs = outbox[w].evs \o out /\ outbox'[w].sent = outbox[w].sent
        /\ \A u \in Workers \ {w} : outbox'[u] = outbox[u]
        /\ outbox' \in [Workers -> Outboxes]
    <3> DEFINE new == outbox[w].evs \o out
    <3>1. outbox' = [outbox EXCEPT ![w].evs = new]
      BY <2>2
    <3>2. new \in Seq(PipelineEvents)
      BY <2>4
    <3> HIDE DEF new
    <3>3. QED
      BY <1>0, <3>1, <3>2 DEF Outboxes, new
  <2>6. \A u \in Workers : outbox'[u].sent <= Len(outbox'[u].evs)
    <3>1. Len(outbox[w].evs) \in Nat /\ Len(out) \in Nat /\ outbox[w].sent <= Len(outbox[w].evs)
      BY <1>0, <2>3
    <3>2. outbox'[w].sent <= Len(outbox'[w].evs)
      BY <2>3, <2>4, <2>5, <3>1
    <3>3. QED
      BY <1>0, <2>5, <3>2
  <2>7. QED
    BY <1>0, <1>3, <2>2, <2>4, <2>5, <2>6, Stages DEF EventTypes
<1>4. ASSUME NEW w \in Workers, Publish(w) PROVE Goal
  <2>1. /\ outbox' = [outbox EXCEPT ![w].sent = @ + 1] /\ bus' = Append(bus, NextEvent(w))
        /\ ~AllSent(w) /\ emitted' = emitted /\ UNCHANGED trackers
    BY <1>4 DEF Publish
  <2>2. /\ outbox[w].evs \in Seq(PipelineEvents) /\ outbox[w].sent \in Nat
        /\ outbox[w].sent + 1 <= Len(outbox[w].evs)
    BY <1>0, <2>1 DEF AllSent, Outboxes
  <2>3. bus' \in Seq(PipelineEvents)
    BY <1>0, <2>1, <2>2 DEF NextEvent
  <2>4. /\ outbox'[w].evs = outbox[w].evs /\ outbox'[w].sent = outbox[w].sent + 1
        /\ \A u \in Workers \ {w} : outbox'[u] = outbox[u]
        /\ outbox' \in [Workers -> Outboxes]
    BY <1>0, <2>1 DEF Outboxes
  <2>5. \A u \in Workers : outbox'[u].sent <= Len(outbox'[u].evs)
    BY <1>0, <2>2, <2>4
  <2>6. QED
    BY <2>1, <2>3, <2>4, <2>5 DEF EventTypes, Streams, trackers
<1>5. ASSUME NEW w \in Workers, Answers(w) PROVE Goal
  <2>1. outbox' = [outbox EXCEPT ![w] = EmptyOutbox] /\ UNCHANGED <<emitted, bus, trackers>>
    BY <1>5 DEF Answers, StoreFails, RespondOk, RespondPublishError, Return
  <2>2. /\ outbox' \in [Workers -> Outboxes]
        /\ \A u \in Workers : outbox'[u] = IF u = w THEN EmptyOutbox ELSE outbox[u]
    BY <1>0, <2>1, EmptyTypes
  <2>3. \A u \in Workers : outbox'[u].sent <= Len(outbox'[u].evs)
    <3>1. Len(EmptyOutbox.evs) = 0
      BY EmptyTypes
    <3>2. QED
      BY <1>0, <2>2, <3>1, EmptyTypes
  <2>4. QED
    BY <2>1, <2>2, <2>3 DEF EventTypes, Streams, trackers
<1>6. CASE SweepPublish
  <2>1. /\ emitted' = Append(emitted, SweepEvent) /\ bus' \in {bus, Append(bus, SweepEvent)}
        /\ UNCHANGED <<outbox, members, tracks>>
    BY <1>6 DEF SweepPublish, memory, trackers
  <2>2. EventTypes'
    <3> DEFINE e == SweepEvent
    <3>1. e \in PipelineEvents
      BY SweepEventType
    <3> HIDE DEF e
    <3>2. Append(emitted, e) \in Seq(PipelineEvents) /\ Append(bus, e) \in Seq(PipelineEvents)
      BY <1>0, <3>1
    <3>3. emitted' \in Seq(PipelineEvents) /\ bus' \in Seq(PipelineEvents)
      BY <1>0, <2>1, <3>2 DEF e
    <3>4. QED
      BY <2>1, <3>3 DEF EventTypes
  <2>3. ASSUME Streams PROVE Streams'
    <3> DEFINE e == SweepEvent
    <3>1. Bracketed(emitted) /\ e \in PipelineEvents /\ e.kind \notin Paired
      BY <2>3, SweepEventType DEF Streams
    <3> HIDE DEF e
    <3>2. /\ Bracketed(Append(emitted, e))
          /\ \A f : f.kind \in Paired => (Open(Append(emitted, e), f) <=> Open(emitted, f))
      BY <1>0, <3>1, SpareOne
    <3>3. /\ Bracketed(emitted')
          /\ \A f : f.kind \in Paired => (Open(emitted', f) <=> Open(emitted, f))
      BY <2>1, <3>2 DEF e
    <3>4. QED
      BY <2>1, <2>3, <3>3, StreamsSpared
  <2>4. QED
    BY <2>2, <2>3
<1>7. CASE SweepStart \/ (\E v \in Vehicles : SweepGet(v)) \/ SweepSet \/ Tick
  BY <1>1, <1>7 DEF SweepStart, SweepGet, SweepSet, Tick, memory, trackers
<1>8. CASE Crash
  <2>1. MaxCrashes # 0
    BY <1>8 DEF Crash, TypeOK
  <2>2. /\ outbox' = [w \in Workers |-> EmptyOutbox] /\ members' = [v \in Vehicles |-> {}]
        /\ UNCHANGED <<emitted, bus>>
    BY <1>8 DEF Crash, NoEvents, FreshMembers
  <2>3. Len(EmptyOutbox.evs) = 0
    BY EmptyTypes
  <2>4. EventTypes'
    BY <1>0, <2>2, <2>3, EmptyTypes DEF EventTypes
  <2>5. QED
    BY <2>1, <2>4
<1>9. CASE UNCHANGED vars
  BY <1>1, <1>9 DEF vars, memory, trackers
<1>10. QED
  BY <1>2, <1>3, <1>4, <1>5, <1>6, <1>7, <1>8, <1>9, EventCases

\* At the start there are no events.
LEMMA EventInit == Init => EventTypes /\ Streams
<1> SUFFICES ASSUME Init PROVE EventTypes /\ Streams
  OBVIOUS
<1>1. /\ outbox = [w \in Workers |-> EmptyOutbox] /\ members = [v \in Vehicles |-> {}]
      /\ emitted = <<>> /\ bus = <<>> /\ tracks = [v \in Vehicles |-> ZeroTrack]
  BY DEF Init, NoEvents, FreshMembers, FreshTracks
<1>2. Len(EmptyOutbox.evs) = 0
  BY EmptyTypes
<1>3. EventTypes
  BY <1>1, <1>2, EmptyTypes DEF EventTypes
<1>4. \A f : ~Open(emitted, f)
  BY <1>1 DEF Open, OpenIn
<1>5. ~ZeroTrack.speeding.started /\ ~ZeroTrack.idle.started /\ ~ZeroTrack.trip.active
  BY DEF ZeroTrack
<1>6. Bracketed(emitted)
  BY <1>1 DEF Bracketed
<1>7. \A v \in Vehicles : Matched(tracks[v], emitted, v)
  BY <1>1, <1>4, <1>5 DEF Matched
<1>8. QED
  BY <1>1, <1>3, <1>4, <1>6, <1>7 DEF Streams

\* Started and ended, entered and exited alternate in every stream of a process
\* life, however many goroutines run through the detectors, the fences and the
\* rules at once and whatever Redis, the bus and Postgres do, as long as no
\* rule emits an event of a paired kind itself (the mutex of each stage).
THEOREM PipelineBracketed ==
    ASSUME MaxCrashes = 0, Calm
    PROVE  Spec => []TransitionsBracketed
<1>1. TypeOK /\ EventTypes /\ Streams /\ [Next]_vars => (EventTypes /\ Streams)'
  BY EventStep
<1>2. Streams => TransitionsBracketed
  BY DEF Streams, TransitionsBracketed
<1>3. QED
  BY <1>1, <1>2, EventInit, PipelineTypes, PTL DEF Spec

----------------------------------------------------------------------------
(* Where an event is once it has been computed.                            *)

\* A call holds no event before its detectors have run; without the sweeper
\* its goroutine does not exist.
NotYet ==
    /\ \A w \in Workers :
            call[w].pc \in {"idle", "append", "get", "set", "detect"} => outbox[w].evs = <<>>
    /\ ~Sweeper => sw.pc = "idle"

\* What a step has to do for an event that some call, the bus or Postgres has.
Safe(e) == OnBus(e) \/ DeterministicID(e) \in pgEvents \/ Held(e)

\* The same after a step.
SafeNext(e) ==
    \/ \E i \in DOMAIN bus' : bus'[i] = e
    \/ DeterministicID(e) \in pgEvents'
    \/ \E w \in Workers : call'[w].pc # "idle" /\ \E i \in DOMAIN outbox'[w].evs : outbox'[w].evs[i] = e

\* A call that is still running, with its events and perhaps more.
Holds(u) ==
    /\ call'[u].pc # "idle"
    /\ \A i \in DOMAIN outbox[u].evs :
            i \in DOMAIN outbox'[u].evs /\ outbox'[u].evs[i] = outbox[u].evs[i]

\* Nothing that was safe is lost.
LEMMA SafeStays ==
    ASSUME NEW e, Safe(e),
           bus' = bus \/ \E x \in PipelineEvents : bus' = Append(bus, x),
           EventTypes, pgEvents \subseteq pgEvents',
           \A u \in Workers : Busy(u) =>
                \/ Holds(u)
                \/ outbox[u].evs = <<>>
                \/ \A i \in DOMAIN outbox[u].evs : DeterministicID(outbox[u].evs[i]) \in pgEvents'
    PROVE  SafeNext(e)
<1>1. CASE OnBus(e)
  <2>1. \A i \in DOMAIN bus : i \in DOMAIN bus' /\ bus'[i] = bus[i]
    <3>1. ASSUME NEW x \in PipelineEvents, bus' = Append(bus, x)
          PROVE  \A i \in DOMAIN bus : i \in DOMAIN bus' /\ bus'[i] = bus[i]
      BY <3>1 DEF EventTypes
    <3>2. QED
      BY <3>1
  <2>2. QED
    BY <1>1, <2>1 DEF OnBus, SafeNext
<1>2. CASE DeterministicID(e) \in pgEvents
  BY <1>2 DEF SafeNext
<1>3. CASE Held(e)
  <2>1. PICK u \in Workers : Busy(u) /\ \E i \in DOMAIN outbox[u].evs : outbox[u].evs[i] = e
    BY <1>3 DEF Held
  <2>2. CASE Holds(u)
    BY <2>1, <2>2 DEF Holds, SafeNext
  <2>3. CASE outbox[u].evs = <<>>
    BY <2>1, <2>3
  <2>4. CASE \A i \in DOMAIN outbox[u].evs : DeterministicID(outbox[u].evs[i]) \in pgEvents'
    BY <2>1, <2>4 DEF SafeNext
  <2>5. QED
    BY <2>1, <2>2, <2>3, <2>4
<1>4. QED
  BY <1>1, <1>2, <1>3 DEF Safe

\* The hypotheses of PipelineNothingStranded.
Answering == ApiWorkers = Workers /\ ~PGFaults /\ MaxCrashes = 0 /\ (Sweeper => ~BusFaults)

\* Every step keeps what is safe, and makes safe what it computes.
LEMMA SafeStep ==
    ASSUME TypeOK, EventTypes, NotYet, NothingStranded, [Next]_vars, Answering
    PROVE  NotYet' /\ NothingStranded'
<1> DEFINE Goal == NotYet' /\ NothingStranded'
<1>0. /\ call \in [Workers -> Calls] /\ outbox \in [Workers -> Outboxes]
      /\ emitted \in Seq(PipelineEvents) /\ bus \in Seq(PipelineEvents)
  BY DEF TypeOK, Calls, EventTypes
<1>1. \A i \in DOMAIN emitted : Safe(emitted[i])
  BY DEF NothingStranded, Safe
<1>2. ASSUME UNCHANGED <<call, outbox>> PROVE \A u \in Workers : Busy(u) => Holds(u)
  BY <1>2 DEF Holds, Busy, At
<1>3. ASSUME \A i \in DOMAIN emitted' : SafeNext(emitted'[i]) PROVE NothingStranded'
  BY <1>3 DEF NothingStranded, SafeNext, OnBus, Held, Busy, At
\* A step that moves w's call on and leaves the events alone.
<1>4. ASSUME NEW w \in Workers, call'[w].pc # "idle",
             \A u \in Workers \ {w} : call'[u] = call[u],
             call'[w].pc \in {"append", "get", "set", "detect"}
                => call[w].pc \in {"idle", "append", "get", "set"},
             UNCHANGED <<outbox, bus, pgEvents, emitted, sw>>
      PROVE  Goal
  <2>1. \A u \in Workers : Busy(u) => Holds(u)
    BY <1>4 DEF Holds, Busy, At
  <2>2. NotYet'
    BY <1>4 DEF NotYet
  <2>3. \A i \in DOMAIN emitted' : SafeNext(emitted'[i])
    BY <1>1, <1>4, <2>1, SafeStays
  <2>4. QED
    BY <1>3, <2>2, <2>3
<1>5. ASSUME UNCHANGED <<call, outbox, pgEvents, bus, emitted>>, ~Sweeper => sw'.pc = "idle"
      PROVE  Goal
  <2>1. NotYet'
    BY <1>5 DEF NotYet
  <2>2. \A i \in DOMAIN emitted' : SafeNext(emitted'[i])
    BY <1>1, <1>2, <1>5, SafeStays
  <2>3. QED
    BY <1>3, <2>1, <2>2
<1>6. ASSUME NEW w \in Workers, NEW t \in Points, Reject(w, t) \/ Absorb(w, t) \/ SeenFails(w, t)
      PROVE  Goal
  BY <1>5, <1>6 DEF Reject, Absorb, SeenFails, memory, NotYet
<1>7. ASSUME NEW w \in Workers, NEW t \in Points, Accept(w, t) PROVE Goal
  <2>1. /\ call' = [call EXCEPT ![w] = [IdleCall EXCEPT !.pc = "append", !.t = t, !.at = now]]
        /\ call[w].pc = "idle" /\ UNCHANGED <<outbox, bus, pgEvents, emitted, sw>>
    BY <1>7 DEF Accept, Deliver, At, memory
  <2>2. call'[w].pc = "append" /\ \A u \in Workers \ {w} : call'[u] = call[u]
    BY <1>0, <2>1 DEF IdleCall
  <2>3. QED
    BY <1>4, <2>1, <2>2
<1>8. ASSUME NEW w \in Workers, AppendLog(w) \/ Get(w) \/ Set(w) \/ PublishFails(w) PROVE Goal
  <2>1. UNCHANGED <<outbox, bus, pgEvents, emitted, sw>>
    BY <1>8 DEF AppendLog, Get, Set, PublishFails, memory
  <2>2. /\ \A u \in Workers \ {w} : call'[u] = call[u]
        /\ \/ call[w].pc = "append" /\ call'[w].pc = "get"
           \/ call[w].pc = "get" /\ call'[w].pc = "set"
           \/ call[w].pc = "set" /\ call'[w].pc = "detect"
           \/ call[w].pc = "publish" /\ call'[w].pc = "publishError"
    BY <1>0, <1>8 DEF AppendLog, Get, Set, PublishFails, Goto, At, Calls
  <2>3. QED
    BY <1>4, <2>1, <2>2
<1>9. ASSUME NEW w \in Workers, Stage(w) PROVE Goal
  <2>1. PICK out \in Seq(PipelineEvents), from \in {"detect", "geo", "rules"},
             to \in {"geo", "rules", "publish"} : Compute(w, from, out, to)
    BY <1>9, Stages
  <2>2. /\ outbox' = [outbox EXCEPT ![w].evs = @ \o out] /\ emitted' = emitted \o out
        /\ call' = [call EXCEPT ![w].pc = to] /\ call[w].pc = from
        /\ UNCHANGED <<bus, pgEvents, sw>>
    BY <2>1 DEF Compute, Goto, At
  <2>3. /\ outbox'[w].evs = outbox[w].evs \o out /\ call'[w].pc = to
        /\ \A u \in Workers \ {w} : outbox'[u] = outbox[u] /\ call'[u] = call[u]
    BY <1>0, <2>2 DEF Outboxes, Calls
  <2>4. outbox[w].evs \in Seq(PipelineEvents)
    BY <1>0 DEF Outboxes
  <2> DEFINE evs == outbox[w].evs
  <2>5. /\ \A i \in DOMAIN evs : i \in DOMAIN (evs \o out) /\ (evs \o out)[i] = evs[i]
        /\ \A i \in DOMAIN out : Len(evs) + i \in DOMAIN (evs \o out)
                                 /\ (evs \o out)[Len(evs) + i] = out[i]
    <3>1. evs \in Seq(PipelineEvents)
      BY <2>4
    <3> HIDE DEF evs
    <3>2. /\ Len(evs) \in Nat /\ DOMAIN evs = 1 .. Len(evs)
          /\ Len(out) \in Nat /\ DOMAIN out = 1 .. Len(out)
          /\ DOMAIN (evs \o out) = 1 .. Len(evs) + Len(out)
      BY <3>1
    <3>3. \A i \in DOMAIN evs : i \in DOMAIN (evs \o out) /\ (evs \o out)[i] = evs[i]
      BY <3>1, <3>2
    <3>4. ASSUME NEW i \in DOMAIN out
          PROVE  Len(evs) + i \in DOMAIN (evs \o out) /\ (evs \o out)[Len(evs) + i] = out[i]
      <4>1. /\ i \in Nat /\ i >= 1 /\ i <= Len(out) /\ Len(evs) + i \in 1 .. Len(evs) + Len(out)
            /\ ~(Len(evs) + i <= Len(evs)) /\ (Len(evs) + i) - Len(evs) = i
        BY <3>2
      <4>2. QED
        BY <3>1, <3>2, <4>1
    <3>5. QED
      BY <3>3, <3>4
  <2>6. \A u \in Workers : Busy(u) => Holds(u)
    BY <2>3, <2>5 DEF Holds, Busy, At
  <2>7. \A i \in DOMAIN emitted : SafeNext(emitted[i])
    BY <1>1, <2>2, <2>6, SafeStays
  <2>8. \A i \in DOMAIN out : SafeNext(out[i])
    BY <2>3, <2>5 DEF SafeNext
  <2>9. \A i \in DOMAIN emitted' : \/ i \in DOMAIN emitted /\ emitted'[i] = emitted[i]
                                   \/ i - Len(emitted) \in DOMAIN out
                                      /\ emitted'[i] = out[i - Len(emitted)]
    BY <1>0, <2>2
  <2>10. \A i \in DOMAIN emitted' : SafeNext(emitted'[i])
    BY <2>7, <2>8, <2>9
  <2>11. NotYet'
    BY <2>2, <2>3 DEF NotYet
  <2>12. QED
    BY <1>3, <2>10, <2>11
<1>10. ASSUME NEW w \in Workers, Publish(w) PROVE Goal
  <2>1. /\ outbox' = [outbox EXCEPT ![w].sent = @ + 1] /\ bus' = Append(bus, NextEvent(w))
        /\ ~AllSent(w) /\ UNCHANGED <<emitted, call, pgEvents, sw>>
    BY <1>10 DEF Publish
  <2>2. NextEvent(w) \in PipelineEvents
    <3>1. /\ outbox[w].evs \in Seq(PipelineEvents) /\ outbox[w].sent \in Nat
          /\ outbox[w].sent + 1 <= Len(outbox[w].evs)
      BY <1>0, <2>1 DEF AllSent, Outboxes, EventTypes
    <3>2. QED
      BY <3>1 DEF NextEvent
  <2>3. \A u \in Workers : outbox'[u].evs = outbox[u].evs
    BY <1>0, <2>1 DEF Outboxes
  <2>4. \A u \in Workers : Busy(u) => Holds(u)
    BY <2>1, <2>3 DEF Holds, Busy, At
  <2>5. \A i \in DOMAIN emitted' : SafeNext(emitted'[i])
    BY <1>1, <2>1, <2>2, <2>4, SafeStays
  <2>6. NotYet'
    BY <2>1, <2>3 DEF NotYet
  <2>7. QED
    BY <1>3, <2>5, <2>6
\* The answer comes with every event in Postgres, or there was none.
<1>11. ASSUME NEW w \in Workers, Answers(w) PROVE Goal
  <2>1. /\ call' = [call EXCEPT ![w] = IdleCall] /\ outbox' = [outbox EXCEPT ![w] = EmptyOutbox]
        /\ UNCHANGED <<emitted, bus, sw>>
    BY <1>11 DEF Answers, StoreFails, RespondOk, RespondPublishError, Return
  <2>2. /\ call'[w].pc = "idle" /\ outbox'[w].evs = <<>>
        /\ \A u \in Workers \ {w} : call'[u] = call[u] /\ outbox'[u] = outbox[u]
    BY <1>0, <2>1, EmptyTypes DEF IdleCall
  <2>3. \/ outbox[w].evs = <<>> /\ pgEvents' = pgEvents
        \/ Inject(w)
    <3>1. CASE StoreFails(w)
      BY <3>1 DEF StoreFails, At, NotYet
    <3>2. CASE RespondOk(w) \/ RespondPublishError(w)
      BY <3>2 DEF RespondOk, RespondPublishError, Answering
    <3>3. QED
      BY <1>11, <3>1, <3>2 DEF Answers
  <2>4. /\ pgEvents \subseteq pgEvents'
        /\ \/ outbox[w].evs = <<>>
           \/ \A i \in DOMAIN outbox[w].evs : DeterministicID(outbox[w].evs[i]) \in pgEvents'
    BY <2>3 DEF Inject, Answering
  <2>5. \A u \in Workers \ {w} : Busy(u) => Holds(u)
    BY <2>2 DEF Holds, Busy, At
  <2>6. \A i \in DOMAIN emitted' : SafeNext(emitted'[i])
    BY <1>1, <2>1, <2>4, <2>5, SafeStays
  <2>7. NotYet'
    BY <2>1, <2>2 DEF NotYet
  <2>8. QED
    BY <1>3, <2>6, <2>7
<1>12. CASE SweepPublish
  <2>1. Sweeper /\ ~BusFaults
    BY <1>12 DEF SweepPublish, NotYet, Answering
  <2>2. /\ emitted' = Append(emitted, SweepEvent) /\ bus' = Append(bus, SweepEvent)
        /\ UNCHANGED <<call, outbox, pgEvents>>
    BY <1>12, <2>1 DEF SweepPublish, memory
  <2> DEFINE e == SweepEvent
  <2>3. e \in PipelineEvents
    BY SweepEventType
  <2> HIDE DEF e
  <2>4. \A i \in DOMAIN emitted : SafeNext(emitted[i])
    <3>1. bus' = Append(bus, e)
      BY <2>2 DEF e
    <3>2. QED
      BY <1>1, <1>2, <2>2, <2>3, <3>1, SafeStays
  <2>5. SafeNext(e)
    <3>1. Len(bus) + 1 \in DOMAIN Append(bus, e) /\ Append(bus, e)[Len(bus) + 1] = e
      BY <1>0, <2>3
    <3>2. QED
      BY <2>2, <3>1 DEF SafeNext, e
  <2>6. \A i \in DOMAIN Append(emitted, e) : \/ i \in DOMAIN emitted /\ Append(emitted, e)[i] = emitted[i]
                                             \/ Append(emitted, e)[i] = e
    BY <1>0, <2>3
  <2>7. emitted' = Append(emitted, e)
    BY <2>2 DEF e
  <2>8. \A i \in DOMAIN emitted' : SafeNext(emitted'[i])
    BY <2>4, <2>5, <2>6, <2>7
  <2>9. NotYet'
    BY <2>1, <2>2 DEF NotYet
  <2>10. QED
    BY <1>3, <2>8, <2>9
<1>13. CASE SweepStart \/ (\E v \in Vehicles : SweepGet(v)) \/ SweepSet
  <2>1. UNCHANGED <<call, outbox, pgEvents, bus, emitted>>
    BY <1>13 DEF SweepStart, SweepGet, SweepSet, memory
  <2>2. Sweeper
    BY <1>13 DEF SweepStart, SweepGet, SweepSet, NotYet
  <2>3. QED
    BY <1>5, <2>1, <2>2
<1>14. CASE Tick \/ UNCHANGED vars
  BY <1>5, <1>14 DEF Tick, vars, memory, NotYet
<1>15. ~Crash
  BY DEF Crash, TypeOK, Answering
<1>16. QED
  BY <1>6, <1>7, <1>8, <1>9, <1>10, <1>11, <1>12, <1>13, <1>14, <1>15, EventCases
     DEF Eventless

\* When every caller is handleIngest, Postgres answers and the process lives,
\* every event that was ever computed is on the bus, in Postgres, or held by a
\* call that has not answered: whatever Redis and the bus do, and with the
\* sweeper as long as the bus, its only outlet, works (PublishError).
THEOREM PipelineNothingStranded ==
    ASSUME ApiWorkers = Workers, ~PGFaults, MaxCrashes = 0, Sweeper => ~BusFaults
    PROVE  Spec => []NothingStranded
<1>1. Answering
  BY DEF Answering
<1>2. Init => NotYet /\ NothingStranded
  <2> SUFFICES ASSUME Init PROVE NotYet /\ NothingStranded
    OBVIOUS
  <2>1. /\ outbox = [w \in Workers |-> EmptyOutbox] /\ emitted = <<>> /\ sw = IdleSweeper
    BY DEF Init, NoEvents
  <2>2. QED
    BY <2>1, EmptyTypes DEF NotYet, NothingStranded, IdleSweeper
<1>3. TypeOK /\ EventTypes /\ NotYet /\ NothingStranded /\ [Next]_vars
        => (NotYet /\ NothingStranded)'
  BY <1>1, SafeStep
<1>4. QED
  BY <1>2, <1>3, EventInit, EventStep, PipelineTypes, PTL DEF Spec

----------------------------------------------------------------------------
(* The adapters in front of the pipeline.                                  *)

\* Every step behind an adapter is a step of Pipeline.
LEMMA AdapterStep == TypeOK /\ [AdapterNext]_vars => [Next]_vars
<1> SUFFICES ASSUME TypeOK, [AdapterNext]_vars PROVE [Next]_vars
  OBVIOUS
<1>1. ASSUME NEW w \in Workers, NEW m \in Messages, HandleRaw(w, m) PROVE Arrive(w)
  <2> DEFINE r == Normalized(Mapping, m, now)
  <2>1. now \in Instants
    BY DEF TypeOK
  <2>2. r.ok
    BY <1>1 DEF HandleRaw
  <2>3. r.t \in Points
    BY <2>1, <2>2, AdapterConfig
  <2>4. Reject(w, r.t) \/ SeenFails(w, r.t) \/ Absorb(w, r.t) \/ Accept(w, r.t)
    BY <1>1 DEF HandleRaw
  <2> HIDE DEF r
  <2>5. QED
    BY <2>3, <2>4 DEF Arrive
<1>2. CASE AdapterNext
  BY <1>1, <1>2 DEF AdapterNext, Next
<1>3. CASE UNCHANGED vars
  BY <1>3
<1>4. QED
  BY <1>2, <1>3

\* Whatever holds of the pipeline with arbitrary callers holds of the pipeline
\* behind the MQTT and Traccar adapters.
THEOREM AdapterImplementsPipeline == AdapterSpec => Spec
<1>1. TypeOK /\ [AdapterNext]_vars => TypeOK'
  BY AdapterStep, TypeStep
<1>2. AdapterSpec => []TypeOK
  BY <1>1, InitType, PTL DEF AdapterSpec
<1>3. QED
  BY <1>2, AdapterStep, PTL DEF AdapterSpec, Spec

\* A message whose event time is its own has one dedup key, whenever it comes.
LEMMA GoodKeyIsStable ==
    ASSUME NEW m, NEW a, NEW b, Normalized(Mapping, m, a).quality = "good"
    PROVE  Normalized(Mapping, m, a).t.key = Normalized(Mapping, m, b).t.key
<1>1. CASE m.src = "mqtt"
  <2>1. MapPayload(Mapping, m, a).quality = "good"
    BY <1>1 DEF Normalized
  <2>2. timeFrom(get(Mapping, m, "timestamp")) # <<>>
    BY <2>1 DEF MapPayload
  <2>3. MapPayload(Mapping, m, a).t.key = MapPayload(Mapping, m, b).t.key
    BY <2>2 DEF MapPayload
  <2>4. QED
    BY <1>1, <2>3 DEF Normalized
<1>2. CASE m.src # "mqtt"
  BY <1>2 DEF Normalized
<1>3. QED
  BY <1>1, <1>2

\* Two folds of one message within a window mean a message marked degraded,
\* for any messages, mapping, number of adapters, faults and crashes.
THEOREM AdapterRedelivery == AdapterSpec => []RedeliveryFoldedOnce
<1>1. TypeOK /\ AtMostOncePerWindow => RedeliveryFoldedOnce
  <2> SUFFICES ASSUME TypeOK, AtMostOncePerWindow,
                      NEW m \in Messages, NEW i \in FoldsOf(m), NEW j \in FoldsOf(m),
                      i # j, Distance(folded[i].at, folded[j].at) < TTL,
                      Normalized(Mapping, m, folded[i].at).quality = "good"
               PROVE  FALSE
    BY DEF RedeliveryFoldedOnce
  <2>1. /\ i \in DOMAIN folded /\ folded[i].t = Normalized(Mapping, m, folded[i].at).t
        /\ j \in DOMAIN folded /\ folded[j].t = Normalized(Mapping, m, folded[j].at).t
    BY DEF FoldsOf
  <2>2. folded[i].t.key = folded[j].t.key
    BY <2>1, GoodKeyIsStable
  <2>3. Distance(folded[i].at, folded[j].at) >= TTL
    BY <2>1, <2>2 DEF AtMostOncePerWindow
  <2>4. folded[i].at \in Nat /\ folded[j].at \in Nat
    BY <2>1, ClaimTypes
  <2>5. QED
    BY <2>3, <2>4, Domains DEF Distance
<1>2. QED
  BY <1>1, AdapterImplementsPipeline, PipelineTypes, PipelineAtMostOnce, PTL

----------------------------------------------------------------------------
(* One goroutine: Pipeline implements SerialIngest.                        *)

OwnKinds == {"speeding", "idling", "trip"}

\* A table of the loop in FromDetectors, which exists by induction.
KeptTable(seq, n, g) ==
    g = [i \in 0 .. n |->
            IF i = 0 THEN <<>>
            ELSE IF seq[i].kind \in OwnKinds THEN Append(g[i - 1], seq[i])
            ELSE g[i - 1]]

\* The table exists for every length.
LEMMA KeptTableExists ==
    ASSUME NEW seq
    PROVE  \A n \in Nat : \E g : KeptTable(seq, n, g)
<1> DEFINE S == {n \in Nat : \E g : KeptTable(seq, n, g)}
<1>1. 0 \in S
  <2> DEFINE g == [i \in 0 .. 0 |-> <<>>]
  <2>1. KeptTable(seq, 0, g)
    BY DEF KeptTable
  <2>2. QED
    BY <2>1
<1>2. ASSUME NEW n \in S PROVE n + 1 \in S
  <2>1. PICK g : KeptTable(seq, n, g)
    OBVIOUS
  <2> DEFINE last == IF seq[n + 1].kind \in OwnKinds THEN Append(g[n], seq[n + 1]) ELSE g[n]
             h == [i \in 0 .. n + 1 |-> IF i <= n THEN g[i] ELSE last]
  <2>2. n \in Nat
    OBVIOUS
  <2>3. \A i \in 0 .. n : g[i] = IF i = 0 THEN <<>>
                                 ELSE IF seq[i].kind \in OwnKinds THEN Append(g[i - 1], seq[i])
                                 ELSE g[i - 1]
    BY <2>1 DEF KeptTable
  <2>4. \A i \in 0 .. n + 1 : h[i] = IF i = 0 THEN <<>>
                                     ELSE IF seq[i].kind \in OwnKinds THEN Append(h[i - 1], seq[i])
                                     ELSE h[i - 1]
    <3>1. ASSUME NEW i \in 0 .. n
          PROVE  h[i] = IF i = 0 THEN <<>>
                        ELSE IF seq[i].kind \in OwnKinds THEN Append(h[i - 1], seq[i])
                        ELSE h[i - 1]
      <4> HIDE DEF last
      <4>1. i \in 0 .. n + 1 /\ i <= n /\ (i # 0 => i - 1 \in 0 .. n + 1 /\ i - 1 <= n)
        BY <2>2
      <4>2. h[i] = g[i]
        BY <4>1
      <4>3. i # 0 => h[i - 1] = g[i - 1]
        BY <4>1
      <4> HIDE DEF h
      <4>4. QED
        BY <2>3, <4>2, <4>3
    <3>2. h[n + 1] = last /\ h[n] = g[n] /\ (n + 1) - 1 = n
      <4> HIDE DEF last
      <4>1. QED
        BY <2>2
    <3> HIDE DEF h
    <3>3. \A i \in 0 .. n + 1 : i \in 0 .. n \/ (i = n + 1 /\ i # 0 /\ i - 1 = n)
      BY <2>2
    <3>4. QED
      BY <3>1, <3>2, <3>3
  <2>5. h = [i \in 0 .. n + 1 |-> h[i]]
    OBVIOUS
  <2> HIDE DEF h
  <2>6. KeptTable(seq, n + 1, h)
    BY <2>4, <2>5 DEF KeptTable
  <2>7. QED
    BY <2>2, <2>6
<1>3. S = Nat
  <2>1. S \in SUBSET Nat
    OBVIOUS
  <2> HIDE DEF S
  <2>2. QED
    BY <1>1, <1>2, <2>1, SetInduction
<1>4. QED
  BY <1>3

\* FromDetectors is the end of such a table.
LEMMA KeptAtEnd ==
    ASSUME NEW seq, Len(seq) \in Nat
    PROVE  \E g : KeptTable(seq, Len(seq), g) /\ FromDetectors(seq) = g[Len(seq)]
<1> DEFINE f == CHOOSE g : g = [n \in 0 .. Len(seq) |->
                    IF n = 0 THEN <<>>
                    ELSE IF seq[n].kind \in {"speeding", "idling", "trip"}
                         THEN Append(g[n - 1], seq[n])
                    ELSE g[n - 1]]
<1>1. FromDetectors(seq) = f[Len(seq)]
  BY DEF FromDetectors
<1>2. \E g : KeptTable(seq, Len(seq), g)
  BY KeptTableExists
<1>3. KeptTable(seq, Len(seq), f)
  BY <1>2 DEF KeptTable, OwnKinds
<1> HIDE DEF f
<1>4. QED
  BY <1>1, <1>3

\* One event more.
LEMMA KeptOne ==
    ASSUME NEW E, NEW seq \in Seq(E), NEW e \in E
    PROVE  FromDetectors(Append(seq, e)) =
                IF e.kind \in OwnKinds THEN Append(FromDetectors(seq), e) ELSE FromDetectors(seq)
<1> DEFINE new == Append(seq, e)
           n == Len(seq)
<1>1. /\ n \in Nat /\ Len(new) = n + 1 /\ new[n + 1] = e
      /\ \A i \in 1 .. n : new[i] = seq[i]
  OBVIOUS
<1> HIDE DEF new, n
<1>2. PICK g : KeptTable(seq, n, g) /\ FromDetectors(seq) = g[n]
  BY <1>1, KeptAtEnd DEF n
<1>3. PICK h : KeptTable(new, n + 1, h) /\ FromDetectors(new) = h[n + 1]
  <2>1. Len(new) \in Nat
    BY <1>1
  <2>2. QED
    BY <1>1, <2>1, KeptAtEnd
<1>4. \A i \in 0 .. n : g[i] = IF i = 0 THEN <<>>
                               ELSE IF seq[i].kind \in OwnKinds THEN Append(g[i - 1], seq[i])
                               ELSE g[i - 1]
  BY <1>2 DEF KeptTable
<1>5. \A i \in 0 .. n + 1 : h[i] = IF i = 0 THEN <<>>
                                   ELSE IF new[i].kind \in OwnKinds THEN Append(h[i - 1], new[i])
                                   ELSE h[i - 1]
  BY <1>3 DEF KeptTable
<1> DEFINE S == {i \in Nat : i <= n => g[i] = h[i]}
<1>6. 0 \in S
  BY <1>1, <1>4, <1>5
<1>7. ASSUME NEW i \in S PROVE i + 1 \in S
  <2> SUFFICES ASSUME i + 1 <= n PROVE g[i + 1] = h[i + 1]
    OBVIOUS
  <2>1. /\ i \in Nat /\ i <= n /\ i + 1 \in 0 .. n /\ i + 1 \in 0 .. n + 1 /\ i + 1 \in 1 .. n
        /\ (i + 1) - 1 = i /\ i + 1 # 0
    BY <1>1
  <2>2. g[i] = h[i] /\ new[i + 1] = seq[i + 1]
    BY <1>1, <2>1
  <2>3. QED
    BY <1>4, <1>5, <2>1, <2>2
<1>8. S = Nat
  <2>1. S \in SUBSET Nat
    OBVIOUS
  <2> HIDE DEF S
  <2>2. QED
    BY <1>6, <1>7, <2>1, SetInduction
<1>9. g[n] = h[n]
  BY <1>1, <1>8
<1> HIDE DEF S
<1>10. h[n + 1] = IF e.kind \in OwnKinds THEN Append(h[n], e) ELSE h[n]
  <2>1. n + 1 \in 0 .. n + 1 /\ n + 1 # 0 /\ (n + 1) - 1 = n
    BY <1>1
  <2>2. QED
    BY <1>1, <1>5, <2>1
<1>11. QED
  BY <1>2, <1>3, <1>9, <1>10 DEF new

\* Several events more: all of the detectors, or none.
LEMMA KeptMany ==
    ASSUME NEW E, NEW seq \in Seq(E), FromDetectors(seq) \in Seq(E), NEW out \in Seq(E)
    PROVE  /\ (\A i \in DOMAIN out : out[i].kind \in OwnKinds)
                => FromDetectors(seq \o out) = FromDetectors(seq) \o out
           /\ (\A i \in DOMAIN out : out[i].kind \notin OwnKinds)
                => FromDetectors(seq \o out) = FromDetectors(seq)
<1> DEFINE base == FromDetectors(seq)
           Ok(o) == /\ (\A i \in DOMAIN o : o[i].kind \in OwnKinds)
                        => FromDetectors(seq \o o) = base \o o
                    /\ (\A i \in DOMAIN o : o[i].kind \notin OwnKinds)
                        => FromDetectors(seq \o o) = base
           S == {n \in Nat : \A o \in Seq(E) : Len(o) = n => Ok(o)}
<1>0. base \in Seq(E)
  OBVIOUS
<1>1. 0 \in S
  <2> SUFFICES ASSUME NEW o \in Seq(E), Len(o) = 0 PROVE Ok(o)
    OBVIOUS
  <2> HIDE DEF base
  <2>1. o = <<>>
    OBVIOUS
  <2>2. seq \o o = seq /\ base \o o = base
    BY <1>0, <2>1
  <2>3. QED
    BY <2>2 DEF base
<1>2. ASSUME NEW n \in S PROVE n + 1 \in S
  <2> SUFFICES ASSUME NEW o \in Seq(E), Len(o) = n + 1 PROVE Ok(o)
    OBVIOUS
  <2>1. n \in Nat /\ \A x \in Seq(E) : Len(x) = n => Ok(x)
    OBVIOUS
  <2> DEFINE front == [i \in 1 .. n |-> o[i]]
             last == o[n + 1]
  <2>2. front \in Seq(E) /\ Len(front) = n /\ last \in E /\ \A i \in 1 .. n : front[i] = o[i]
    <3>1. front \in [1 .. n -> E] /\ last \in E
      BY <2>1
    <3>2. \A i \in 1 .. n : front[i] = o[i]
      OBVIOUS
    <3> HIDE DEF front
    <3>3. front \in Seq(E)
      BY <2>1, <3>1, SeqDef
    <3>4. Len(front) = n
      BY <2>1, <3>1, <3>3
    <3>5. QED
      BY <3>1, <3>2, <3>3, <3>4
  <2> HIDE DEF front, last
  <2>3. o = Append(front, last)
    <3>1. Append(front, last) \in Seq(E) /\ Len(Append(front, last)) = n + 1
      BY <2>2
    <3>2. \A i \in 1 .. n + 1 : Append(front, last)[i] = o[i]
      BY <2>1, <2>2 DEF last
    <3>3. QED
      BY <2>1, <3>1, <3>2, SeqEqual
  <2>4. Ok(front)
    BY <2>1, <2>2
  <2> HIDE DEF base
  <2> DEFINE mid == seq \o front
  <2>5. /\ seq \o o = Append(mid, last) /\ mid \in Seq(E)
        /\ base \o o = Append(base \o front, last)
    <3>1. \A s \in Seq(E) : s \o front \in Seq(E) /\ s \o o = Append(s \o front, last)
      <4> SUFFICES ASSUME NEW s \in Seq(E)
                   PROVE  s \o front \in Seq(E) /\ s \o o = Append(s \o front, last)
        OBVIOUS
      <4>1. s \o front \in Seq(E)
        BY <2>2
      <4>2. QED
        BY <2>2, <2>3
    <3>2. QED
      BY <1>0, <3>1
  <2>6. FromDetectors(seq \o o) =
            IF last.kind \in OwnKinds THEN Append(FromDetectors(mid), last) ELSE FromDetectors(mid)
    <3> HIDE DEF mid
    <3>1. QED
      BY <2>2, <2>5, KeptOne
  <2>7. /\ DOMAIN o = 1 .. n + 1 /\ DOMAIN front = 1 .. n /\ n + 1 \in DOMAIN o
        /\ \A i \in DOMAIN front : i \in DOMAIN o
    BY <2>1, <2>2
  <2>8. /\ (\A i \in DOMAIN o : o[i].kind \in OwnKinds)
              => last.kind \in OwnKinds /\ \A i \in DOMAIN front : front[i].kind \in OwnKinds
        /\ (\A i \in DOMAIN o : o[i].kind \notin OwnKinds)
              => last.kind \notin OwnKinds /\ \A i \in DOMAIN front : front[i].kind \notin OwnKinds
    BY <2>2, <2>7 DEF last
  <2>9. QED
    BY <2>4, <2>5, <2>6, <2>8
<1>3. S = Nat
  <2>1. S \in SUBSET Nat
    OBVIOUS
  <2> HIDE DEF S
  <2>2. QED
    BY <1>1, <1>2, <2>1, SetInduction
<1>4. Ok(out)
  BY <1>3
<1>5. QED
  BY <1>4

\* What FromDetectors keeps is a sequence of such events.
LEMMA KeptType ==
    ASSUME NEW E, NEW seq \in Seq(E)
    PROVE  FromDetectors(seq) \in Seq(E)
<1> DEFINE n == Len(seq)
<1>1. n \in Nat /\ \A i \in 1 .. n : seq[i] \in E
  OBVIOUS
<1> HIDE DEF n
<1>2. PICK g : KeptTable(seq, n, g) /\ FromDetectors(seq) = g[n]
  BY <1>1, KeptAtEnd DEF n
<1>3. \A i \in 0 .. n : g[i] = IF i = 0 THEN <<>>
                               ELSE IF seq[i].kind \in OwnKinds THEN Append(g[i - 1], seq[i])
                               ELSE g[i - 1]
  BY <1>2 DEF KeptTable
<1> DEFINE S == {i \in Nat : i <= n => g[i] \in Seq(E)}
<1>4. 0 \in S
  <2>1. 0 \in 0 .. n
    BY <1>1
  <2>2. g[0] = <<>>
    BY <1>3, <2>1
  <2>3. g[0] \in Seq(E)
    BY <2>2
  <2>4. QED
    BY <2>3
<1>5. ASSUME NEW i \in S PROVE i + 1 \in S
  <2> SUFFICES ASSUME i + 1 <= n PROVE g[i + 1] \in Seq(E)
    OBVIOUS
  <2>1. /\ i \in Nat /\ i <= n /\ i + 1 \in 0 .. n /\ i + 1 \in 1 .. n
        /\ (i + 1) - 1 = i /\ i + 1 # 0
    BY <1>1
  <2>2. g[i] \in Seq(E) /\ seq[i + 1] \in E
    BY <1>1, <2>1
  <2>3. g[i + 1] = IF seq[i + 1].kind \in OwnKinds THEN Append(g[i], seq[i + 1]) ELSE g[i]
    BY <1>3, <2>1
  <2> HIDE DEF S
  <2>4. QED
    BY <2>2, <2>3
<1>6. S = Nat
  <2>1. S \in SUBSET Nat
    OBVIOUS
  <2> HIDE DEF S
  <2>2. QED
    BY <1>4, <1>5, <2>1, SetInduction
<1>7. QED
  BY <1>1, <1>2, <1>6

\* What the refinement mapping says of a single goroutine.
TracksOf(w) ==
    IF At(w, "detect") THEN [tracks EXCEPT ![call[w].t.veh] = Pending(w).trk] ELSE tracks
EmittedOf(w) ==
    IF At(w, "detect") THEN FromDetectors(emitted) \o Pending(w).out ELSE FromDetectors(emitted)

\* With one goroutine the mapping is what its program counter says.
LEMMA SerialView ==
    ASSUME NEW w, Workers = {w}
    PROVE  TypeOK => SerialTracks = TracksOf(w) /\ SerialEmitted = EmittedOf(w)
<1> SUFFICES ASSUME TypeOK PROVE SerialTracks = TracksOf(w) /\ SerialEmitted = EmittedOf(w)
  OBVIOUS
<1>0. tracks = [v \in Vehicles |-> tracks[v]] /\ DOMAIN tracks = Vehicles
  BY DEF TypeOK
<1>1. CASE At(w, "detect")
  <2>1. Detecting = {w}
    BY <1>1 DEF Detecting
  <2>2. \A v : (\E u \in Detecting : call[u].t.veh = v) <=> call[w].t.veh = v
    BY <2>1
  <2>3. \A v : call[w].t.veh = v => (CHOOSE u \in Detecting : call[u].t.veh = v) = w
    BY <2>1
  <2>4. (CHOOSE u \in Detecting : TRUE) = w /\ Detecting # {}
    BY <2>1
  <2>5. SerialEmitted = EmittedOf(w)
    BY <1>1, <2>4 DEF SerialEmitted, EmittedOf
  <2> DEFINE p == Pending(w).trk
  <2>6. SerialTracks = [v \in Vehicles |-> IF call[w].t.veh = v THEN p ELSE tracks[v]]
    BY <2>2, <2>3 DEF SerialTracks
  <2>7. TracksOf(w) = [tracks EXCEPT ![call[w].t.veh] = p]
    BY <1>1 DEF TracksOf
  <2> HIDE DEF p
  <2>8. QED
    BY <1>0, <2>5, <2>6, <2>7
<1>2. CASE ~At(w, "detect")
  <2>1. Detecting = {}
    BY <1>2 DEF Detecting
  <2>2. SerialTracks = [v \in Vehicles |-> tracks[v]]
    BY <2>1 DEF SerialTracks
  <2>3. QED
    BY <1>0, <1>2, <2>1, <2>2 DEF SerialEmitted, TracksOf, EmittedOf
<1>3. QED
  BY <1>1, <1>2

\* A running call has an admissible point and an instant; what Get read is
\* still what is stored when Set applies it; the sweeper does not run.
SerialInv ==
    /\ \A w \in Workers : Busy(w) => Valid(call[w].t) /\ call[w].at \in Instants
    /\ \A w \in Workers : At(w, "set") => call[w].cur = states[call[w].t.veh]
    /\ \A i \in DOMAIN folded : folded[i].at \in Instants
    /\ sw.pc = "idle"

\* One goroutine, no sweeper, Redis that answers, no crash, rules that emit no
\* event of a paired kind, and a run shorter than the dedup window.
OneGoroutine(w) ==
    /\ Workers = {w} /\ ~Sweeper /\ ~RedisFaults /\ MaxCrashes = 0 /\ Calm
    /\ \A a, b \in Instants : Distance(a, b) < TTL

\* The steps of a single goroutine.
LEMMA OneCases ==
    ASSUME NEW w, OneGoroutine(w), TypeOK, sw.pc = "idle", Next
    PROVE  \/ \E t \in Points : Reject(w, t) \/ Absorb(w, t) \/ Accept(w, t)
           \/ AppendLog(w) \/ Get(w) \/ Set(w) \/ DetectStep(w) \/ GeoStep(w) \/ RulesStep(w)
           \/ Publish(w) \/ PublishFails(w) \/ RespondOk(w) \/ RespondPublishError(w)
           \/ Tick
<1>1. ~Crash
  BY DEF OneGoroutine, Crash, TypeOK
<1>2. ~Sweep
  BY DEF OneGoroutine, Sweep, SweepStart, SweepGet, SweepSet, SweepPublish
<1>3. ~StoreFails(w) /\ \A t \in Points : ~SeenFails(w, t)
  BY DEF OneGoroutine, StoreFails, SeenFails
<1>4. QED
  BY <1>1, <1>2, <1>3 DEF Next, Arrive, Proceed, OneGoroutine

\* Every step of one goroutine keeps that invariant.
LEMMA SerialInvStep ==
    ASSUME NEW w, OneGoroutine(w), TypeOK, SerialInv, [Next]_vars
    PROVE  SerialInv'
<1>0. /\ call \in [Workers -> Calls] /\ w \in Workers /\ \A u \in Workers : u = w
      /\ now \in Instants
  BY DEF TypeOK, Calls, OneGoroutine
<1>1. ASSUME UNCHANGED <<folded, sw, states>>, call' = call PROVE SerialInv'
  BY <1>1 DEF SerialInv, Busy, At
<1>2. ASSUME NEW l \in PCs \ {"set"}, Goto(w, l), Busy(w), UNCHANGED <<folded, sw, states>>
      PROVE  SerialInv'
  <2>1. call'[w].pc = l /\ call'[w].t = call[w].t /\ call'[w].at = call[w].at
    BY <1>0, <1>2 DEF Goto, Calls
  <2>2. QED
    BY <1>0, <1>2, <2>1 DEF SerialInv, Busy, At
<1>3. ASSUME Return(w), UNCHANGED <<folded, sw, states>> PROVE SerialInv'
  <2>1. call'[w].pc = "idle"
    BY <1>0, <1>3 DEF Return, IdleCall
  <2>2. QED
    BY <1>0, <1>3, <2>1 DEF SerialInv, Busy, At
<1>4. ASSUME NEW t \in Points, Reject(w, t) \/ Absorb(w, t) PROVE SerialInv'
  BY <1>1, <1>4 DEF Reject, Absorb
<1>5. ASSUME NEW t \in Points, Accept(w, t) PROVE SerialInv'
  <2>1. /\ call' = [call EXCEPT ![w] = [IdleCall EXCEPT !.pc = "append", !.t = t, !.at = now]]
        /\ UNCHANGED <<folded, sw, states>> /\ Valid(t)
    BY <1>5 DEF Accept, Admissible
  <2>2. call'[w].pc = "append" /\ call'[w].t = t /\ call'[w].at = now
    BY <1>0, <2>1 DEF IdleCall
  <2>3. QED
    BY <1>0, <2>1, <2>2 DEF SerialInv, Busy, At
<1>6. CASE Get(w)
  <2>1. /\ call' = [call EXCEPT ![w].cur = states[call[w].t.veh], ![w].pc = "set"]
        /\ UNCHANGED <<folded, sw, states>> /\ Busy(w)
    BY <1>6 DEF Get, Busy, At
  <2>2. /\ call'[w].pc = "set" /\ call'[w].t = call[w].t /\ call'[w].at = call[w].at
        /\ call'[w].cur = states[call[w].t.veh]
    BY <1>0, <2>1 DEF Calls
  <2>3. QED
    BY <1>0, <2>1, <2>2 DEF SerialInv, Busy, At
<1>7. CASE Set(w)
  <2>1. /\ call' = [call EXCEPT ![w].cur = Applied(w), ![w].pc = "detect"]
        /\ folded' = Append(folded, [t |-> call[w].t, at |-> call[w].at])
        /\ sw' = sw /\ Busy(w)
    BY <1>7 DEF Set, Write, Busy, At
  <2>2. /\ call'[w].pc = "detect" /\ call'[w].t = call[w].t /\ call'[w].at = call[w].at
    BY <1>0, <2>1 DEF Calls
  <2>3. \A i \in DOMAIN folded' : folded'[i].at \in Instants
    <3> DEFINE r == [t |-> call[w].t, at |-> call[w].at]
    <3>1. r.at \in Instants
      BY <1>0, <2>1 DEF SerialInv
    <3> HIDE DEF r
    <3>2. \A i \in DOMAIN folded' : (i \in DOMAIN folded /\ folded'[i] = folded[i]) \/ folded'[i] = r
      <4> DEFINE R == [t : Points, at : Nat]
      <4>1. folded \in Seq(R)
        BY DEF TypeOK
      <4>2. r \in R /\ folded' = Append(folded, r)
        BY <1>0, <2>1 DEF r, Calls
      <4> HIDE DEF R
      <4>3. /\ DOMAIN folded = 1 .. Len(folded) /\ Len(folded) \in Nat
            /\ DOMAIN folded' = 1 .. Len(folded) + 1
            /\ \A i \in 1 .. Len(folded) : folded'[i] = folded[i]
            /\ folded'[Len(folded) + 1] = r
        BY <4>1, <4>2
      <4>4. QED
        BY <4>3
    <3>3. QED
      BY <3>1, <3>2 DEF SerialInv
  <2>4. QED
    BY <1>0, <2>1, <2>2, <2>3 DEF SerialInv, Busy, At
<1>8. CASE AppendLog(w) \/ PublishFails(w)
  BY <1>2, <1>8 DEF AppendLog, PublishFails, Busy, At, PCs
<1>9. CASE DetectStep(w) \/ GeoStep(w) \/ RulesStep(w)
  BY <1>2, <1>9 DEF DetectStep, GeoStep, RulesStep, Compute, Busy, At, PCs
<1>10. CASE Publish(w) \/ Tick
  BY <1>1, <1>10 DEF Publish, Tick
<1>11. CASE RespondOk(w) \/ RespondPublishError(w)
  BY <1>3, <1>11 DEF RespondOk, RespondPublishError
<1>12. CASE UNCHANGED vars
  BY <1>1, <1>12 DEF vars
<1>13. QED
  BY <1>4, <1>5, <1>6, <1>7, <1>8, <1>9, <1>10, <1>11, <1>12, OneCases DEF SerialInv

\* The operators SerialIngest folds and detects with are those of Pipeline.
LEMMA SameOperators ==
    /\ Serial!ZeroState = ZeroState /\ Serial!ZeroTrack = ZeroTrack
    /\ \A t : Serial!Valid(t) <=> Valid(t)
    /\ \A s, t : Serial!Apply(s, t) = Apply(s, t)
    /\ \A trk, t, s : Serial!Detect(trk, t, s) = Detect(trk, t, s)
<1>1. /\ Serial!ZeroState = ZeroState /\ Serial!ZeroTrack = ZeroTrack
      /\ \A t : Serial!Valid(t) <=> Valid(t)
  BY DEF Serial!ZeroState, ZeroState, Serial!ZeroTrack, ZeroTrack, Serial!Valid, Valid,
         Serial!NoTime, NoTime, Serial!NoSpeed, NoSpeed
<1>2. ASSUME NEW s, NEW t PROVE Serial!Apply(s, t) = Apply(s, t)
  BY DEF Serial!Apply, Apply, Serial!Late, Late, Serial!Known, Known, Serial!NoTime, NoTime,
         Serial!NoSpeed, NoSpeed, Serial!classifyMotion, classifyMotion,
         Serial!MovingThresholdKmh, MovingThresholdKmh, Serial!StoppedThresholdKmh,
         StoppedThresholdKmh
<1>3. \A t, k, p : Serial!mkEvent(k, p, t) = mkEvent(k, p, t)
  BY DEF Serial!mkEvent, mkEvent, Serial!Event, Event
<1>4. \A since, t : Serial!Since(since, t) = Since(since, t) /\ Serial!speedOf(t) = speedOf(t)
  BY DEF Serial!Since, Since, Serial!speedOf, speedOf, Serial!NoTime, NoTime, Serial!NoSpeed,
         NoSpeed
<1>5. ASSUME NEW st, NEW t, NEW s
      PROVE  /\ Serial!speedingDetect(st, t) = speedingDetect(st, t)
             /\ Serial!idleDetect(st, t, s) = idleDetect(st, t, s)
             /\ Serial!tripDetect(st, t, s) = tripDetect(st, t, s)
  <2>1. Serial!speedingDetect(st, t) = speedingDetect(st, t)
    BY DEF Serial!speedingDetect, speedingDetect, Serial!NoTime, NoTime, Serial!NoSpeed, NoSpeed,
           Serial!mkEvent, mkEvent, Serial!Event, Event, Serial!Since, Since, Serial!speedOf,
           speedOf
  <2>2. Serial!idleDetect(st, t, s) = idleDetect(st, t, s)
    BY <1>3, <1>4 DEF Serial!idleDetect, idleDetect, Serial!NoTime, NoTime
  <2>3. Serial!tripDetect(st, t, s) = tripDetect(st, t, s)
    BY <1>3 DEF Serial!tripDetect, tripDetect
  <2>4. QED
    BY <2>1, <2>2, <2>3
<1>6. ASSUME NEW trk, NEW t, NEW s PROVE Serial!Detect(trk, t, s) = Detect(trk, t, s)
  BY <1>5 DEF Serial!Detect, Detect
<1>7. QED
  BY <1>1, <1>2, <1>6

\* The mapping after a step.
LEMMA SerialViewNext ==
    ASSUME NEW w, Workers = {w}
    PROVE  TypeOK' => SerialTracks' = TracksOf(w)' /\ SerialEmitted' = EmittedOf(w)'
<1>1. TypeOK => SerialTracks = TracksOf(w) /\ SerialEmitted = EmittedOf(w)
  BY SerialView
<1>2. (TypeOK => SerialTracks = TracksOf(w) /\ SerialEmitted = EmittedOf(w))'
  BY <1>1, PTL
<1>3. QED
  BY <1>2

\* A step that folds nothing and computes no event, in or out of Detect.
LEMMA SerialStay ==
    ASSUME NEW w, Workers = {w}, TypeOK, TypeOK', UNCHANGED <<states, tracks, folded, emitted>>,
           call' = call \/ (call[w].pc # "detect" /\ call'[w].pc # "detect")
    PROVE  UNCHANGED Serial!vars
<1>1. SerialTracks = TracksOf(w) /\ SerialEmitted = EmittedOf(w)
  BY SerialView
<1>2. SerialTracks' = TracksOf(w)' /\ SerialEmitted' = EmittedOf(w)'
  BY SerialViewNext
<1>3. TracksOf(w)' = TracksOf(w) /\ EmittedOf(w)' = EmittedOf(w)
  <2>1. CASE call' = call
    BY <2>1 DEF TracksOf, EmittedOf, Pending, At
  <2>2. CASE call[w].pc # "detect" /\ call'[w].pc # "detect"
    BY <2>2 DEF TracksOf, EmittedOf, At
  <2>3. QED
    BY <2>1, <2>2
<1>4. SerialFolded' = SerialFolded
  BY DEF SerialFolded
<1>5. QED
  BY <1>1, <1>2, <1>3, <1>4 DEF Serial!vars

\* Set is where a point takes effect.
LEMMA SerialSet ==
    ASSUME NEW w, OneGoroutine(w), TypeOK, TypeOK', DedupInv, SerialInv, Set(w)
    PROVE  \E t \in Points : Serial!Ingest(t)
<1> DEFINE t == call[w].t
           next == Apply(states[t.veh], t)
           det == Detect(tracks[t.veh], t, next)
<1>0. Workers = {w} /\ w \in Workers
  BY DEF OneGoroutine
<1>1. /\ call \in [Workers -> Calls] /\ t \in Points
      /\ At(w, "set") /\ call[w].cur = states[t.veh]
      /\ Valid(t) /\ call[w].at \in Instants
  BY <1>0 DEF TypeOK, Calls, Set, SerialInv, Busy, At
<1>2. /\ states' = [states EXCEPT ![t.veh] = next]
      /\ folded' = Append(folded, [t |-> t, at |-> call[w].at])
      /\ call' = [call EXCEPT ![w].cur = next, ![w].pc = "detect"]
      /\ tracks' = tracks /\ emitted' = emitted
  BY <1>1 DEF Set, Write, Applied, memory, trackers
<1>3. call'[w].pc = "detect" /\ call'[w].t = t /\ call'[w].cur = next
  BY <1>0, <1>1, <1>2 DEF Calls
<1>4. SerialTracks = tracks /\ SerialEmitted = FromDetectors(emitted)
  <2>1. ~At(w, "detect")
    BY <1>1 DEF At
  <2>2. QED
    BY <1>0, <2>1, SerialView DEF TracksOf, EmittedOf
<1>5. /\ SerialTracks' = [tracks EXCEPT ![t.veh] = det.trk]
      /\ SerialEmitted' = FromDetectors(emitted) \o det.out
  <2>1. SerialTracks' = TracksOf(w)' /\ SerialEmitted' = EmittedOf(w)'
    BY <1>0, SerialViewNext
  <2>2. Pending(w)' = Detect(tracks'[call'[w].t.veh], call'[w].t, call'[w].cur)
    BY DEF Pending
  <2>3. Pending(w)' = det
    BY <1>2, <1>3, <2>2
  <2>4. /\ TracksOf(w)' = [tracks' EXCEPT ![call'[w].t.veh] = Pending(w)'.trk]
        /\ EmittedOf(w)' = FromDetectors(emitted') \o Pending(w)'.out
    BY <1>3 DEF TracksOf, EmittedOf, At
  <2>5. QED
    BY <1>2, <1>3, <2>1, <2>3, <2>4
<1>6. \A i \in DOMAIN SerialFolded : SerialFolded[i].key # t.key
  <2> SUFFICES ASSUME NEW i \in DOMAIN folded, folded[i].t.key = t.key PROVE FALSE
    BY DEF SerialFolded
  <2>1. Holding(w)
    BY <1>1 DEF Holding, At
  <2>2. Apart(folded[i].at, call[w].at)
    BY <1>0, <2>1 DEF DedupInv, Claims
  <2>3. Distance(folded[i].at, call[w].at) < TTL
    BY <1>1 DEF OneGoroutine, SerialInv
  <2>4. folded[i].at \in Nat /\ call[w].at \in Nat
    BY <1>1, PipelineConfig DEF SerialInv
  <2>5. Distance(folded[i].at, call[w].at) \in Nat
    BY <2>4 DEF Distance
  <2>6. QED
    BY <2>2, <2>3, <2>5, Domains DEF Apart
<1>7. SerialFolded' = Append(SerialFolded, t)
  <2> DEFINE r == [t |-> t, at |-> call[w].at]
             R == [t : Points, at : Nat]
  <2>1. folded \in Seq(R) /\ r \in R /\ r.t = t
    BY <1>0, <1>1 DEF TypeOK, Calls
  <2>2. \A x \in R : x.t \in Points
    OBVIOUS
  <2>3. folded' = Append(folded, r)
    BY <1>2
  <2> HIDE DEF R, r, t
  <2>4. SerialFolded \in Seq(Points) /\ Len(SerialFolded) = Len(folded)
    <3>1. SerialFolded = [i \in 1 .. Len(folded) |-> folded[i].t]
      BY <2>1 DEF SerialFolded
    <3>2. \A i \in 1 .. Len(folded) : folded[i].t \in Points
      BY <2>1, <2>2
    <3>3. SerialFolded \in [1 .. Len(folded) -> Points] /\ Len(folded) \in Nat
      BY <2>1, <3>1, <3>2
    <3>4. SerialFolded \in Seq(Points)
      BY <3>3, SeqDef
    <3>5. QED
      BY <3>3, <3>4
  <2> DEFINE n == Len(folded)
             new == [i \in 1 .. n + 1 |-> folded'[i].t]
  <2>5. SerialFolded' = new
    BY <2>1, <2>3 DEF SerialFolded
  <2>6. /\ n \in Nat
        /\ \A i \in 1 .. n : folded'[i] = folded[i] /\ SerialFolded[i] = folded[i].t
        /\ folded'[n + 1] = r
    BY <2>1, <2>3 DEF SerialFolded
  <2>7. new \in Seq(Points) /\ Len(new) = n + 1 /\ \A i \in 1 .. n + 1 : new[i] = folded'[i].t
    <3>1. \A i \in 1 .. n + 1 : i \in 1 .. n \/ i = n + 1
      BY <2>6
    <3>2. \A i \in 1 .. n + 1 : folded'[i].t \in Points
      BY <2>1, <2>2, <2>4, <2>6, <3>1
    <3>3. n + 1 \in Nat /\ new \in [1 .. n + 1 -> Points]
      BY <2>6, <3>2
    <3>4. new \in Seq(Points)
      BY <3>3, SeqDef
    <3>5. \A i \in 1 .. n + 1 : new[i] = folded'[i].t
      OBVIOUS
    <3> HIDE DEF new
    <3>6. QED
      BY <3>3, <3>4, <3>5
  <2> HIDE DEF new
  <2>8. /\ Append(SerialFolded, t) \in Seq(Points) /\ Len(Append(SerialFolded, t)) = n + 1
        /\ Append(SerialFolded, t)[n + 1] = t
        /\ \A i \in 1 .. n : Append(SerialFolded, t)[i] = SerialFolded[i]
    <3>1. t \in Points
      BY <1>1
    <3>2. QED
      BY <2>4, <3>1
  <2>9. \A i \in 1 .. n + 1 : new[i] = Append(SerialFolded, t)[i]
    <3>1. \A i \in 1 .. n + 1 : i \in 1 .. n \/ i = n + 1
      BY <2>6
    <3>2. QED
      BY <2>1, <2>6, <2>7, <2>8, <3>1
  <2>10. QED
    BY <2>5, <2>7, <2>8, <2>9, SeqEqual
<1>8. Serial!Ingest(t)
  <2>1. /\ Serial!Valid(t)
        /\ Serial!Apply(states[t.veh], t) = next
        /\ Serial!Detect(SerialTracks[t.veh], t, next) = det
    BY <1>1, <1>4, SameOperators
  <2> HIDE DEF next, det, t
  <2>2. QED
    BY <1>2, <1>4, <1>5, <1>6, <1>7, <2>1 DEF Serial!Ingest
<1>9. QED
  BY <1>1, <1>8

\* Detect computes what the mapping has counted since Set.
LEMMA SerialDetect ==
    ASSUME NEW w, OneGoroutine(w), TypeOK, TypeOK', EventTypes, DetectStep(w)
    PROVE  UNCHANGED Serial!vars
<1> DEFINE t == call[w].t
           det == Detect(tracks[t.veh], t, call[w].cur)
<1>0. Workers = {w} /\ w \in Workers
  BY DEF OneGoroutine
<1>1. /\ At(w, "detect") /\ Goto(w, "geo") /\ emitted' = emitted \o det.out
      /\ tracks' = [tracks EXCEPT ![t.veh] = det.trk] /\ UNCHANGED <<states, folded>>
  BY DEF DetectStep, Compute
<1>2. call'[w].pc = "geo"
  BY <1>0, <1>1 DEF Goto, TypeOK
<1>3. Pending(w) = det
  BY DEF Pending
<1>4. SerialTracks = [tracks EXCEPT ![t.veh] = det.trk]
  BY <1>0, <1>1, <1>3, SerialView DEF TracksOf
<1>5. SerialEmitted = FromDetectors(emitted) \o det.out
  BY <1>0, <1>1, <1>3, SerialView DEF EmittedOf
<1>6. SerialTracks' = tracks' /\ SerialEmitted' = FromDetectors(emitted')
  <2>1. SerialTracks' = TracksOf(w)' /\ SerialEmitted' = EmittedOf(w)'
    BY <1>0, SerialViewNext
  <2>2. QED
    BY <1>2, <2>1 DEF TracksOf, EmittedOf, At
<1>7. FromDetectors(emitted \o det.out) = FromDetectors(emitted) \o det.out
  <2>1. t \in Telemetry(Keys, Vehicles) /\ tracks[t.veh] \in Tracks
    BY <1>0, Domains DEF TypeOK
  <2>2. \A i \in DOMAIN det.out : det.out[i].kind \in OwnKinds
    BY <2>1, DetectOut DEF OfPoint, OwnKinds
  <2>3. det.out \in Seq(DetectorEvents(Vehicles))
    BY <2>1, DetectType
  <2>4. DetectorEvents(Vehicles) \subseteq PipelineEvents
    BY DEF PipelineEvents
  <2> HIDE DEF det
  <2>5. det.out \in Seq(PipelineEvents) /\ emitted \in Seq(PipelineEvents)
    BY <2>3, <2>4 DEF EventTypes
  <2>6. FromDetectors(emitted) \in Seq(PipelineEvents)
    BY <2>5, KeptType
  <2>7. QED
    BY <2>2, <2>5, <2>6, KeptMany
<1> HIDE DEF det
<1>8. SerialFolded' = SerialFolded
  BY <1>1 DEF SerialFolded
<1>9. QED
  BY <1>1, <1>4, <1>5, <1>6, <1>7, <1>8 DEF Serial!vars

\* The fences of a call append fence events.
LEMMA GeoOut ==
    ASSUME TypeOK, EventTypes, NEW w \in Workers, GeoStep(w)
    PROVE  \E out \in Seq(FenceEvents) : Compute(w, "geo", out, "rules") /\ tracks' = tracks
<1> DEFINE t == call[w].t
           g == EvaluateFences(members[t.veh], Fences, t)
<1>1. Compute(w, "geo", g.out, "rules") /\ tracks' = tracks
  BY DEF GeoStep
<1>2. t \in Telemetry(Keys, Vehicles) /\ t.veh \in Vehicles
  BY Domains DEF TypeOK
<1>3. members[t.veh] \in SUBSET FenceIds
  BY <1>2 DEF EventTypes
<1> HIDE DEF t
<1>4. \A ph \in {"entered", "exited"}, x \in FenceIds : Crossing(ph, t, x) \in FenceEvents
  <2>1. t.veh \in Vehicles /\ t.ts \in Int /\ t.corr \in BOOLEAN
    BY <1>2 DEF Telemetry
  <2>2. QED
    BY <2>1 DEF Crossing, Event, FenceEvents, Phases
<1>5. Len(Fences) \in Nat /\ \A i \in 1 .. Len(Fences) : Fences[i].id \in FenceIds
  <2>1. Fences \in Seq({Fences[i] : i \in DOMAIN Fences})
    BY PipelineConfig
  <2>2. Len(Fences) \in Nat /\ DOMAIN Fences = 1 .. Len(Fences)
    BY <2>1
  <2>3. QED
    BY <2>2 DEF FenceIds
<1>6. <<>> \in Seq(FenceEvents)
  OBVIOUS
<1>7. Crossed(FALSE, FenceEvents, FenceIds, <<>>, t.veh, g)
  BY <1>3, <1>4, <1>5, <1>6, FencesCross
<1> HIDE DEF g
<1>8. g.out \in Seq(FenceEvents)
  BY <1>7 DEF Crossed
<1>9. QED
  BY <1>1, <1>8

\* The rules of a call append rule events.
LEMMA RulesOut ==
    ASSUME TypeOK, EventTypes, NEW w \in Workers, RulesStep(w)
    PROVE  \E out \in Seq(RuleEvents) : Compute(w, "rules", out, "publish") /\ tracks' = tracks
<1> DEFINE t == call[w].t
           s == call[w].cur
           evs == outbox[w].evs
<1>1. PICK order \in RuleOrders :
            LET r == EvaluateRules(eng, order, t, s, evs, now)
            IN  Compute(w, "rules", r.out, "publish") /\ tracks' = tracks
  BY DEF RulesStep
<1> DEFINE r == EvaluateRules(eng, order, t, s, evs, now)
<1>2. Compute(w, "rules", r.out, "publish") /\ tracks' = tracks
  BY <1>1
<1>3. order \in Seq(Rules)
  <2>1. Cardinality(Rules) \in Nat
    BY PipelineConfig, FS_CardinalityType
  <2>2. order \in [1 .. Cardinality(Rules) -> Rules]
    BY DEF RuleOrders
  <2>3. QED
    BY <2>1, <2>2, SeqDef
<1>4. Len(order) \in Nat /\ Len(evs) \in Nat
  BY <1>3 DEF EventTypes, Outboxes
<1>5. \A i \in 1 .. Len(order) : RuleEvent(order[i], t) \in RuleEvents
  <2>1. \A i \in 1 .. Len(order) : order[i] \in Rules
    BY <1>3
  <2>2. t \in Points
    BY DEF TypeOK
  <2> HIDE DEF t
  <2>3. QED
    BY <2>1, <2>2 DEF RuleEvents
<1> HIDE DEF t, s, evs
<1>6. <<>> \in Seq(RuleEvents)
  OBVIOUS
<1>7. Spared(FALSE, RuleEvents, <<>>, r)
  BY <1>4, <1>5, <1>6, RulesSpare
<1> HIDE DEF r
<1>8. r.out \in Seq(RuleEvents)
  BY <1>7 DEF Spared
<1>9. QED
  BY <1>2, <1>8

\* Fences and rules are no part of what SerialIngest promises.
LEMMA SerialQuiet ==
    ASSUME NEW w, OneGoroutine(w), TypeOK, TypeOK', EventTypes, GeoStep(w) \/ RulesStep(w)
    PROVE  UNCHANGED Serial!vars
<1>0. Workers = {w} /\ w \in Workers
  BY DEF OneGoroutine
<1>1. PICK out \in Seq(PipelineEvents), from \in {"geo", "rules"}, to \in {"rules", "publish"} :
            /\ Compute(w, from, out, to) /\ tracks' = tracks
            /\ \A i \in DOMAIN out : out[i].kind \notin OwnKinds
  <2>1. FenceEvents \subseteq PipelineEvents /\ RuleEvents \subseteq PipelineEvents
    BY DEF PipelineEvents
  <2>2. \A e \in FenceEvents : e.kind \notin OwnKinds
    BY DEF FenceEvents, OwnKinds
  <2>3. \A e \in RuleEvents : e.kind \notin OwnKinds
    BY DEF RuleEvents, RuleEvent, Event, OwnKinds, OneGoroutine, Calm, Paired
  <2>4. CASE GeoStep(w)
    <3>1. PICK out \in Seq(FenceEvents) : Compute(w, "geo", out, "rules") /\ tracks' = tracks
      BY <1>0, <2>4, GeoOut
    <3>2. out \in Seq(PipelineEvents) /\ \A i \in DOMAIN out : out[i].kind \notin OwnKinds
      BY <2>1, <2>2
    <3>3. QED
      BY <3>1, <3>2
  <2>5. CASE RulesStep(w)
    <3>1. PICK out \in Seq(RuleEvents) : Compute(w, "rules", out, "publish") /\ tracks' = tracks
      BY <1>0, <2>5, RulesOut
    <3>2. out \in Seq(PipelineEvents) /\ \A i \in DOMAIN out : out[i].kind \notin OwnKinds
      BY <2>1, <2>3
    <3>3. QED
      BY <3>1, <3>2
  <2>6. QED
    BY <2>4, <2>5
<1>2. /\ call[w].pc # "detect" /\ call'[w].pc # "detect" /\ emitted' = emitted \o out
      /\ UNCHANGED <<states, folded>>
  BY <1>0, <1>1 DEF Compute, Goto, At, TypeOK
<1>3. FromDetectors(emitted \o out) = FromDetectors(emitted)
  <2>1. emitted \in Seq(PipelineEvents)
    BY DEF EventTypes
  <2>2. FromDetectors(emitted) \in Seq(PipelineEvents)
    BY <2>1, KeptType
  <2>3. QED
    BY <1>1, <2>1, <2>2, KeptMany
<1>4. SerialTracks = tracks /\ SerialEmitted = FromDetectors(emitted)
  BY <1>0, <1>2, SerialView DEF TracksOf, EmittedOf, At
<1>5. SerialTracks' = tracks' /\ SerialEmitted' = FromDetectors(emitted')
  <2>1. SerialTracks' = TracksOf(w)' /\ SerialEmitted' = EmittedOf(w)'
    BY <1>0, SerialViewNext
  <2>2. QED
    BY <1>2, <2>1 DEF TracksOf, EmittedOf, At
<1>6. SerialFolded' = SerialFolded
  BY <1>2 DEF SerialFolded
<1>7. QED
  BY <1>1, <1>2, <1>3, <1>4, <1>5, <1>6 DEF Serial!vars

\* Every step of one goroutine is a step of SerialIngest or none.
LEMMA SerialStep ==
    ASSUME NEW w, OneGoroutine(w), TypeOK, TypeOK', EventTypes, DedupInv, SerialInv, [Next]_vars
    PROVE  [Serial!Next]_(Serial!vars)
<1>0. Workers = {w} /\ w \in Workers /\ call \in [Workers -> Calls]
  BY DEF OneGoroutine, TypeOK, Calls
<1>1. ASSUME UNCHANGED <<states, tracks, folded, emitted>>, call' = call
      PROVE  UNCHANGED Serial!vars
  BY <1>0, <1>1, SerialStay
<1>2. ASSUME UNCHANGED <<states, tracks, folded, emitted>>,
             call[w].pc # "detect", call'[w].pc # "detect"
      PROVE  UNCHANGED Serial!vars
  BY <1>0, <1>2, SerialStay
<1>3. ASSUME NEW t \in Points, Reject(w, t) \/ Absorb(w, t) PROVE UNCHANGED Serial!vars
  BY <1>1, <1>3 DEF Reject, Absorb, memory, trackers
<1>4. ASSUME NEW t \in Points, Accept(w, t) PROVE UNCHANGED Serial!vars
  <2>1. /\ call' = [call EXCEPT ![w] = [IdleCall EXCEPT !.pc = "append", !.t = t, !.at = now]]
        /\ UNCHANGED <<states, tracks, folded, emitted>> /\ call[w].pc = "idle"
    BY <1>4 DEF Accept, Deliver, At, memory, trackers
  <2>2. call'[w].pc = "append"
    BY <1>0, <2>1 DEF IdleCall
  <2>3. QED
    BY <1>2, <2>1, <2>2
<1>5. CASE AppendLog(w) \/ PublishFails(w)
  <2>1. PICK l \in {"get", "publishError"} : Goto(w, l)
    BY <1>5 DEF AppendLog, PublishFails
  <2>2. call[w].pc # "detect" /\ UNCHANGED <<states, tracks, folded, emitted>>
    BY <1>5 DEF AppendLog, PublishFails, At, memory, trackers
  <2>3. call'[w].pc = l
    BY <1>0, <2>1 DEF Goto, Calls
  <2>4. QED
    BY <1>2, <2>2, <2>3
<1>6. CASE Get(w)
  <2>1. /\ call' = [call EXCEPT ![w].cur = states[call[w].t.veh], ![w].pc = "set"]
        /\ UNCHANGED <<states, tracks, folded, emitted>> /\ call[w].pc = "get"
    BY <1>6 DEF Get, At, memory, trackers
  <2>2. call'[w].pc = "set"
    BY <1>0, <2>1 DEF Calls
  <2>3. QED
    BY <1>2, <2>1, <2>2
<1>7. CASE Set(w)
  <2>1. Serial!Next
    BY <1>7, SerialSet DEF Serial!Next
  <2>2. QED
    BY <2>1
<1>8. CASE DetectStep(w)
  BY <1>8, SerialDetect
<1>9. CASE GeoStep(w) \/ RulesStep(w)
  BY <1>9, SerialQuiet
<1>10. CASE Publish(w) \/ Tick
  BY <1>1, <1>10 DEF Publish, Tick, memory, trackers
<1>11. CASE RespondOk(w) \/ RespondPublishError(w)
  <2>1. Return(w) /\ call[w].pc # "detect" /\ UNCHANGED <<states, tracks, folded, emitted>>
    BY <1>11 DEF RespondOk, RespondPublishError, At, trackers
  <2>2. call'[w].pc = "idle"
    BY <1>0, <2>1 DEF Return, IdleCall
  <2>3. QED
    BY <1>2, <2>1, <2>2
<1>12. CASE UNCHANGED vars
  BY <1>1, <1>12 DEF vars, memory, trackers
<1>13. QED
  BY <1>3, <1>4, <1>5, <1>6, <1>7, <1>8, <1>9, <1>10, <1>11, <1>12, OneCases DEF SerialInv

\* The initial state maps to the initial state of SerialIngest.
LEMMA SerialInit ==
    ASSUME NEW w, OneGoroutine(w), Init
    PROVE  Serial!Init /\ SerialInv
<1>0. Workers = {w} /\ TypeOK
  BY InitType DEF OneGoroutine
<1>1. \A u \in Workers : call[u].pc = "idle"
  BY DEF Init, NoCalls, IdleCall
<1>2. folded = <<>> /\ emitted = <<>> /\ tracks = FreshTracks /\ sw.pc = "idle"
  BY DEF Init, IdleSweeper
<1>3. SerialTracks = tracks /\ SerialEmitted = FromDetectors(emitted)
  BY <1>0, <1>1, SerialView DEF TracksOf, EmittedOf, At
<1>4. FromDetectors(<<>>) = <<>>
  <2>1. Len(<<>>) = 0
    OBVIOUS
  <2>2. PICK g : KeptTable(<<>>, 0, g) /\ FromDetectors(<<>>) = g[0]
    BY <2>1, KeptAtEnd
  <2>3. QED
    BY <2>2 DEF KeptTable
<1>5. SerialFolded = <<>>
  BY <1>2 DEF SerialFolded
<1>6. tracks = [v \in Vehicles |-> Serial!ZeroTrack] /\ states = [v \in Vehicles |-> Serial!ZeroState]
  BY <1>2, SameOperators DEF Init, FreshTracks
<1>7. SerialInv
  BY <1>0, <1>1, <1>2 DEF SerialInv, Busy, At
<1>8. QED
  BY <1>2, <1>3, <1>4, <1>5, <1>6, <1>7 DEF Serial!Init

\* Process is atomic: with one goroutine, the step-by-step pipeline folds and
\* detects exactly as if every accepted point took one step, whatever the bus
\* and Postgres do and however often a point is sent again within the window.
THEOREM OneGoroutineIsSerial ==
    ASSUME NEW w, OneGoroutine(w)
    PROVE  Spec => ImplementsSerial
<1> DEFINE I == TypeOK /\ EventTypes /\ DedupInv /\ SerialInv
<1>1. Init => I /\ Serial!Init
  BY InitType, EventInit, DedupInit, SerialInit
<1>2. I /\ [Next]_vars => I' /\ [Serial!Next]_(Serial!vars)
  <2> SUFFICES ASSUME I, [Next]_vars PROVE I' /\ [Serial!Next]_(Serial!vars)
    OBVIOUS
  <2>1. TypeOK' /\ EventTypes' /\ DedupInv'
    BY TypeStep, EventStep, DedupStep
  <2>2. SerialInv'
    BY SerialInvStep
  <2>3. [Serial!Next]_(Serial!vars)
    BY <2>1, SerialStep
  <2>4. QED
    BY <2>1, <2>2, <2>3
<1>3. QED
  BY <1>1, <1>2, PTL DEF Spec, ImplementsSerial, Serial!Spec

\* So does one adapter in front of it.
THEOREM OneAdapterIsSerial ==
    ASSUME NEW w, OneGoroutine(w)
    PROVE  AdapterSpec => ImplementsSerial
<1>1. Spec => ImplementsSerial
  BY OneGoroutineIsSerial
<1>2. QED
  BY <1>1, AdapterImplementsPipeline, PTL
=============================================================================
