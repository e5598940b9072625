----------------------------- MODULE MCPipeline -----------------------------
(***************************************************************************)
(* Instances of Pipeline for TLC: the telemetry, fences and rules of the   *)
(* runs.                                                                   *)
(***************************************************************************)
EXTENDS Pipeline

Point(k, v, ts, speed, ign, loc) ==
    [id |-> "", key |-> k, veh |-> v, ts |-> ts, speed |-> speed, ign |-> ign, loc |-> loc,
     corr |-> TRUE]

\* Speeding inside the depot, at rest outside of it, speeding again (without
\* a correlation id: its events do not validate).
DrivePoints ==
    {Point("k1", "v", 1000, 120, "on", 1),
     Point("k2", "v", 1010, 0, "on", 5),
     [Point("k3", "v", 1020, 120, "nil", 2) EXCEPT !.corr = FALSE]}

\* Two points of a device that reuses a sequence number, hence one dedup key;
\* the second is refused until the clock gets near it.
FaultPoints ==
    {Point("k1", "v", 1000, 0, "off", 1),
     Point("k1", "v", 87000, 50, "on", 2)}

\* Reports of one vehicle seconds apart.
ClosePoints ==
    {Point("k1", "v", 1000, 50, "on", 1),
     Point("k2", "v", 1010, 0, "off", 1)}

Depot == [id |-> "depot", area |-> {1, 2}, bbox |-> {1, 2, 3}]
DepotFence == <<Depot>>

\* boot.DefaultSpeedingRule
SpeedingAlert ==
    [id |-> "speeding-alert", version |-> "v1", kind |-> "speeding", phase |-> "started",
     conds |-> {}, emit |-> "incident", webhook |-> "none", cooldown |-> 60, cap |-> 100]

WorkerSymmetry == Permutations(Workers)

DefaultRules == {SpeedingAlert}
NoFences == <<>>
=============================================================================
