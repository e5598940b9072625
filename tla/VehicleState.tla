---------------------------- MODULE VehicleState ----------------------------
(***************************************************************************)
(* The hot state of one vehicle and the pure functions that fold telemetry *)
(* into it: internal/state/state.go.                                       *)
(*                                                                         *)
(* A telemetry point is a record                                           *)
(*   [id, key, veh, ts, speed, ign, loc, corr]                             *)
(* id is Telemetry.ID, key Telemetry.DedupKey(), ts the event time in      *)
(* seconds, speed km/h or NoSpeed (a nil pointer), ign "on", "off" or      *)
(* "nil", loc a position on a line and corr whether a correlation id is    *)
(* set.  TenantID, UpdatedAt and the trip and fence fields no code writes  *)
(* are left out.                                                           *)
(***************************************************************************)
EXTENDS Integers

\* time.Time{} and the nil *float64; a valid point has ts > 0 and speed >= 0.
NoTime == 0
NoSpeed == -1

MovingThresholdKmh == 5
StoppedThresholdKmh == 3
DefaultCadenceSecs == 300
OfflineMultiplier == 3

Motions == {"", "unknown", "moving", "idle", "stopped"}
Presences == {"", "online", "offline"}
Ignitions == {"nil", "on", "off"}

Telemetry(Keys, Vehicles) ==
    [id : STRING, key : Keys, veh : Vehicles, ts : Nat, speed : Int, ign : Ignitions,
     loc : Int, corr : BOOLEAN]

VehicleStates ==
    [motion : Motions, presence : Presences, ign : Ignitions, speed : Int,
     loc : Int, lastSeen : Nat]

\* VehicleState{}: what a Get of an untracked vehicle returns.
ZeroState ==
    [motion |-> "", presence |-> "", ign |-> "nil", speed |-> NoSpeed,
     loc |-> 0, lastSeen |-> NoTime]

\* Telemetry.Validate, over the fields the model keeps.
Valid(t) == t.ts > NoTime /\ (t.speed = NoSpeed \/ t.speed >= 0)

----------------------------------------------------------------------------
Known(m) == IF m = "" THEN "unknown" ELSE m

\* The variant that takes the ignition for the motion of a vehicle at rest.
classifyMotionRaw(prev, t) ==
    CASE t.speed = NoSpeed -> Known(prev)
      [] t.speed > MovingThresholdKmh -> "moving"
      [] OTHER -> t.ign

\* Leaving "moving" takes a speed below 3, entering it one above 5; between
\* the two the ignition decides, or nothing changes.
classifyMotion(prev, t) ==
    LET atRest == IF t.ign = "on" THEN "idle" ELSE "stopped"
        moving == \/ t.speed > MovingThresholdKmh
                  \/ prev = "moving" /\ t.speed >= StoppedThresholdKmh
    IN  CASE t.speed = NoSpeed -> Known(prev)
          [] t.speed # NoSpeed /\ moving -> "moving"
          [] t.speed # NoSpeed /\ ~moving ->
                IF t.speed < StoppedThresholdKmh \/ t.ign # "nil"
                THEN atRest ELSE Known(prev)

Late(prev, t) == prev.lastSeen # NoTime /\ t.ts < prev.lastSeen

\* The variant of Apply without the watermark check.
ApplyNoWatermark(prev, t) ==
    [motion |-> classifyMotion(prev.motion, t), presence |-> "online",
     ign |-> IF t.ign = "nil" THEN prev.ign ELSE t.ign,
     speed |-> t.speed, loc |-> t.loc, lastSeen |-> t.ts]

\* Engine.Apply: a point older than the watermark LastSeen changes nothing
\* time-sensitive, any other one overwrites the belief and means online.
Apply(prev, t) ==
    IF Late(prev, t)
    THEN [prev EXCEPT !.motion = Known(@),
                      !.presence = IF @ = "" THEN "online" ELSE @]
    ELSE [motion |-> classifyMotion(prev.motion, t), presence |-> "online",
          ign |-> IF t.ign = "nil" THEN prev.ign ELSE t.ign,
          speed |-> t.speed, loc |-> t.loc, lastSeen |-> t.ts]

\* CheckOffline: offline after OfflineMultiplier x cadence of silence.  Its
\* transition is non-nil exactly when it is due.
OfflineDue(s, cadenceSecs, now) ==
    LET cadence == IF cadenceSecs <= 0 THEN DefaultCadenceSecs ELSE cadenceSecs
    IN  /\ s.lastSeen # NoTime
        /\ s.presence # "offline"
        /\ now - s.lastSeen > cadence * OfflineMultiplier

CheckOffline(s, cadenceSecs, now) ==
    IF OfflineDue(s, cadenceSecs, now) THEN [s EXCEPT !.presence = "offline"] ELSE s

=============================================================================
