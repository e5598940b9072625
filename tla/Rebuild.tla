------------------------------- MODULE Rebuild -------------------------------
(***************************************************************************)
(* state.RebuildFrom: the hot state of one vehicle recomputed from its     *)
(* durable telemetry, in event-time order.                                 *)
(***************************************************************************)
EXTENDS VehicleState, Sequences, FiniteSets

\* The variant that sorts the newest point first.
ByEventTimeDescending(points) ==
    LET rank == [i \in DOMAIN points |-> Cardinality({j \in DOMAIN points :
                        \/ points[j].ts > points[i].ts
                        \/ points[j].ts = points[i].ts /\ j <= i})]
    IN  [n \in DOMAIN points |-> points[CHOOSE i \in DOMAIN points : rank[i] = n]]

\* The insertion sort of RebuildFrom: by event time, stable.
ByEventTime(points) ==
    LET rank == [i \in DOMAIN points |-> Cardinality({j \in DOMAIN points :
                        \/ points[j].ts < points[i].ts
                        \/ points[j].ts = points[i].ts /\ j <= i})]
    IN  [n \in DOMAIN points |-> points[CHOOSE i \in DOMAIN points : rank[i] = n]]

\* The points of one vehicle, in the order of the log.
OfVehicle(points, v) ==
    LET mine[n \in 0 .. Len(points)] ==
            IF n = 0 THEN <<>>
            ELSE IF points[n].veh = v THEN Append(mine[n - 1], points[n])
            ELSE mine[n - 1]
    IN  mine[Len(points)]

ApplyAll(points) ==
    LET cur[n \in 0 .. Len(points)] ==
            IF n = 0 THEN ZeroState ELSE Apply(cur[n - 1], points[n])
    IN  cur[Len(points)]

RebuildFrom(points, v) == ApplyAll(ByEventTime(OfVehicle(points, v)))
=============================================================================
