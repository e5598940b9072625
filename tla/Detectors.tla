------------------------------ MODULE Detectors ------------------------------
(***************************************************************************)
(* The speeding, idling and trip detectors of internal/detectors: per      *)
(* vehicle memory (a track) and one step per telemetry point, as pure      *)
(* operators.  Each detector returns [trk, out]: its next memory and the   *)
(* events it emits.  Event payloads (position, speed, trip distance) are   *)
(* left out: no control depends on them.                                   *)
(***************************************************************************)
EXTENDS VehicleState, Sequences

CONSTANTS
    SpeedLimitKmh,          \* Config, in km/h and seconds
    SpeedForSecs,
    SpeedContinuedEvery,
    IdleForSecs,
    TripEndSecs

ASSUME DetectorConfig ==
    /\ SpeedLimitKmh \in Nat
    /\ SpeedForSecs \in Nat
    /\ SpeedContinuedEvery \in Nat
    /\ IdleForSecs \in Nat
    /\ TripEndSecs \in Nat

Kinds == {"speeding", "idling", "trip", "geofence", "offline", "incident"}
Phases == {"started", "continued", "ended", "entered", "exited", "created"}

\* events.Event: its type is "vehicle.<kind>.<phase>"; corr says whether the
\* correlation id is set; the id is DeterministicID(type, vehicle, ts, cause).
Event(kind, phase, veh, ts, cause, corr) ==
    [kind |-> kind, phase |-> phase, veh |-> veh, ts |-> ts, cause |-> cause,
     corr |-> corr]

\* The variant without the event time.
DeterministicIDNoTime(e) == <<e.kind, e.phase, e.veh, e.cause>>

DeterministicID(e) == <<e.kind, e.phase, e.veh, e.ts, e.cause>>

\* Event.Validate, over what the model keeps of an event.
EventValid(e) == e.corr /\ e.ts # NoTime

mkEvent(kind, phase, t) == Event(kind, phase, t.veh, t.ts, kind, t.corr)

DetectorEvents(Vehicles) ==
    [kind : Kinds, phase : Phases, veh : Vehicles, ts : Int, cause : Kinds,
     corr : BOOLEAN]

Tracks ==
    [speeding : [since : Int, started : BOOLEAN, lastContinued : Int],
     idle : [since : Int, started : BOOLEAN],
     trip : [active : BOOLEAN, startedAt : Int, lastMove : Int]]

ZeroTrack ==
    [speeding |-> [since |-> NoTime, started |-> FALSE, lastContinued |-> NoTime],
     idle |-> [since |-> NoTime, started |-> FALSE],
     trip |-> [active |-> FALSE, startedAt |-> NoTime, lastMove |-> NoTime]]

speedOf(t) == IF t.speed = NoSpeed THEN 0 ELSE t.speed

Since(since, t) == IF since = NoTime THEN t.ts ELSE since

\* The variant that does not restart the clock when the speed drops before
\* .started.
speedingDetectKeepsClock(st, t) ==
    LET over == speedOf(t) > SpeedLimitKmh
        since == Since(st.since, t)
        starts == over /\ ~st.started /\ t.ts - since >= SpeedForSecs
        ends == ~over /\ st.started
    IN  [trk |-> [since |-> IF ends THEN NoTime ELSE IF over THEN since ELSE st.since,
                  started |-> over /\ (st.started \/ starts),
                  lastContinued |-> st.lastContinued],
         out |-> CASE starts -> <<mkEvent("speeding", "started", t)>>
                   [] ends -> <<mkEvent("speeding", "ended", t)>>
                   [] OTHER -> <<>>]

\* The variant that forgets to leave the started state at .ended.
speedingDetectNoReset(st, t) ==
    LET over == speedOf(t) > SpeedLimitKmh
    IN  IF over
        THEN [trk |-> [st EXCEPT !.started = TRUE],
              out |-> IF st.started THEN <<>> ELSE <<mkEvent("speeding", "started", t)>>]
        ELSE [trk |-> [st EXCEPT !.since = NoTime],
              out |-> IF st.started THEN <<mkEvent("speeding", "ended", t)>> ELSE <<>>]

speedingDetect(st, t) ==
    LET over == speedOf(t) > SpeedLimitKmh
        since == Since(st.since, t)
    IN  CASE over /\ ~st.started /\ t.ts - since >= SpeedForSecs ->
                [trk |-> [since |-> since, started |-> TRUE, lastContinued |-> t.ts],
                 out |-> <<mkEvent("speeding", "started", t)>>]
          [] over /\ ~st.started /\ t.ts - since < SpeedForSecs ->
                [trk |-> [st EXCEPT !.since = since], out |-> <<>>]
          [] over /\ st.started /\ t.ts - st.lastContinued >= SpeedContinuedEvery ->
                [trk |-> [st EXCEPT !.lastContinued = t.ts],
                 out |-> <<mkEvent("speeding", "continued", t)>>]
          [] over /\ st.started /\ t.ts - st.lastContinued < SpeedContinuedEvery ->
                [trk |-> st, out |-> <<>>]
          [] ~over ->
                [trk |-> [st EXCEPT !.started = FALSE, !.since = NoTime],
                 out |-> IF st.started THEN <<mkEvent("speeding", "ended", t)>> ELSE <<>>]

\* The idling detector reads the motion of the state the point led to.
idleDetect(st, t, s) ==
    LET since == Since(st.since, t)
        due == ~st.started /\ t.ts - since >= IdleForSecs
    IN  IF s.motion = "idle"
        THEN [trk |-> [since |-> since, started |-> st.started \/ due],
              out |-> IF due THEN <<mkEvent("idling", "started", t)>> ELSE <<>>]
        ELSE [trk |-> [since |-> NoTime, started |-> FALSE],
              out |-> IF st.started THEN <<mkEvent("idling", "ended", t)>> ELSE <<>>]

\* A trip starts with movement and ends with the ignition or after
\* TripEndSecs without movement; one point may start and end a trip.
tripDetect(st, t, s) ==
    LET moving == s.motion = "moving"
        starts == ~st.active /\ moving
        active == st.active \/ moving
        lastMove == IF moving THEN t.ts ELSE st.lastMove
        ends == active /\ (t.ign = "off" \/ t.ts - lastMove >= TripEndSecs)
    IN  [trk |-> [active |-> active /\ ~ends,
                  startedAt |-> IF starts THEN t.ts ELSE st.startedAt,
                  lastMove |-> lastMove],
         out |-> (IF starts THEN <<mkEvent("trip", "started", t)>> ELSE <<>>)
                 \o (IF ends THEN <<mkEvent("trip", "ended", t)>> ELSE <<>>)]

\* Tracker.Detect: the three detectors in order, under the tracker's mutex.
Detect(trk, t, s) ==
    LET sp == speedingDetect(trk.speeding, t)
        id == idleDetect(trk.idle, t, s)
        tp == tripDetect(trk.trip, t, s)
    IN  [trk |-> [speeding |-> sp.trk, idle |-> id.trk, trip |-> tp.trk],
         out |-> sp.out \o id.out \o tp.out]

----------------------------------------------------------------------------
(* What a well-formed stream of transition events is.                      *)

Opening == {"started", "entered"}
Closing == {"ended", "exited"}
SameStream(e, f) == e.veh = f.veh /\ e.kind = f.kind /\ e.cause = f.cause

\* The stream of e has been opened and not closed by the first n events.
OpenIn(seq, n, e) ==
    \E j \in 1 .. n : /\ SameStream(seq[j], e)
                      /\ seq[j].phase \notin Closing
                      /\ \A k \in (j + 1) .. n : ~SameStream(seq[k], e)

\* Events that come in pairs; an offline event has no end, an incident is one
\* event.
Paired == {"speeding", "idling", "trip", "geofence"}

\* e may follow the first n events.
InPlace(seq, n, e) ==
    e.kind \in Paired => (e.phase \in Opening <=> ~OpenIn(seq, n, e))

Bracketed(seq) == \A i \in DOMAIN seq : InPlace(seq, i - 1, seq[i])
=============================================================================
