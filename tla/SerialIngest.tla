---------------------------- MODULE SerialIngest ----------------------------
(***************************************************************************)
(* What ingestion promises: every accepted point is folded into the hot    *)
(* state and run through the detectors in one step, once per dedup key, in *)
(* the order of arrival.  This is the abstract specification of Process    *)
(* (internal/pipeline/pipeline.go): Pipeline.tla splits the step into the  *)
(* reads and writes the code makes, and implements this module when one    *)
(* goroutine at a time ingests.                                            *)
(***************************************************************************)
EXTENDS Detectors

CONSTANTS
    Keys,       \* dedup keys
    Vehicles,
    Points,     \* the telemetry that can arrive
    Instants    \* wall-clock readings of the offline sweeper

ASSUME IngestDomains ==
    /\ Points \subseteq Telemetry(Keys, Vehicles)
    /\ Instants \subseteq Nat

VARIABLES
    states,     \* state.Store: vehicle -> VehicleState
    tracks,     \* detectors.Tracker: vehicle -> track
    folded,     \* history: the points folded into states, in order
    emitted     \* history: the events the detectors returned, in order

vars == <<states, tracks, folded, emitted>>

TypeOK ==
    /\ states \in [Vehicles -> VehicleStates]
    /\ tracks \in [Vehicles -> Tracks]
    /\ folded \in Seq(Points)
    /\ emitted \in Seq(DetectorEvents(Vehicles))

Init ==
    /\ states = [v \in Vehicles |-> ZeroState]
    /\ tracks = [v \in Vehicles |-> ZeroTrack]
    /\ folded = <<>>
    /\ emitted = <<>>

\* Process as one step.
Ingest(t) ==
    LET next == Apply(states[t.veh], t)
        det == Detect(tracks[t.veh], t, next)
    IN  /\ Valid(t)
        /\ \A i \in DOMAIN folded : folded[i].key # t.key
        /\ states' = [states EXCEPT ![t.veh] = next]
        /\ tracks' = [tracks EXCEPT ![t.veh] = det.trk]
        /\ folded' = Append(folded, t)
        /\ emitted' = emitted \o det.out

\* The sweeper finds v silent for too long.
MarkOffline(v, at) ==
    /\ OfflineDue(states[v], 0, at)
    /\ states' = [states EXCEPT ![v] = CheckOffline(@, 0, at)]
    /\ UNCHANGED <<tracks, folded, emitted>>

Next ==
    \/ \E t \in Points : Ingest(t)
    \/ \E v \in Vehicles, at \in Instants : MarkOffline(v, at)

Spec == Init /\ [][Next]_vars

----------------------------------------------------------------------------
\* The newest point wins, whatever the order of arrival: the watermark, the
\* speed and the position of a vehicle are those of a folded point that no
\* folded point of the vehicle postdates (the "late" test of Engine.Apply).
LatestWins ==
    \A v \in Vehicles :
        LET mine == {i \in DOMAIN folded : folded[i].veh = v}
        IN  IF mine = {}
            THEN states[v] = ZeroState
            ELSE \E i \in mine :
                    /\ states[v].lastSeen = folded[i].ts
                    /\ states[v].speed = folded[i].speed
                    /\ states[v].loc = folded[i].loc
                    /\ \A j \in mine : folded[j].ts <= folded[i].ts

\* The watermark of a vehicle never moves back (Engine.Apply).
WatermarkMonotone ==
    [][\A v \in Vehicles : states'[v].lastSeen >= states[v].lastSeen]_vars

\* Per vehicle and detector, .started and .ended alternate, starting with
\* .started, and .continued only occurs between the two, for points arriving
\* in any order (speedingDetect, idleDetect, tripDetect).
TransitionsBracketed == Bracketed(emitted)

\* speeding.started is only emitted when every point since one at least
\* SpeedForSecs older, in order of arrival, was over the limit: one slow
\* point in between restarts the clock (st.since in speedingDetect).
SustainedBefore(v) ==
    LET n == Len(folded')
        mine == {i \in 1 .. n : folded'[i].veh = v}
    IN  \E i \in mine : /\ folded'[n].ts - folded'[i].ts >= SpeedForSecs
                        /\ \A j \in mine : j >= i => speedOf(folded'[j]) > SpeedLimitKmh

SpeedingIsSustained ==
    [][\A k \in DOMAIN emitted' \ DOMAIN emitted :
            (emitted'[k].kind = "speeding" /\ emitted'[k].phase = "started")
                => SustainedBefore(emitted'[k].veh)]_vars

\* Consumers drop events whose id they have seen; as long as the points of a
\* vehicle have distinct event times, no two transitions share an id
\* (events.DeterministicID), so none is dropped.
EventIdsDistinct ==
    (\A i, j \in DOMAIN folded :
        (folded[i].veh = folded[j].veh /\ folded[i].ts = folded[j].ts) => i = j)
    => (\A i, j \in DOMAIN emitted :
            DeterministicID(emitted[i]) = DeterministicID(emitted[j]) => i = j)
=============================================================================
