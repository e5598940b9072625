------------------------------ MODULE Recompute ------------------------------
(***************************************************************************)
(* SerialIngest against what can be recomputed from the telemetry it       *)
(* folded: the hot state by state.RebuildFrom, the events by replay.Run.   *)
(***************************************************************************)
EXTENDS SerialIngest, Rebuild, Replay, Functions

InOrder(points) ==
    \A i, j \in DOMAIN points : i < j => points[i].ts <= points[j].ts

\* Hot state is disposable: a rebuild from the durable points gives the live
\* state of a vehicle back, as long as its points arrived in event-time order
\* and the sweeper has not marked it offline (RebuildFrom against Process).
RebuildAgreesInOrder ==
    \A v \in Vehicles :
        (InOrder(OfVehicle(folded, v)) /\ states[v].presence # "offline")
            => RebuildFrom(folded, v) = states[v]

InReplayOrder(points) ==
    \A i, j \in DOMAIN points : i < j => Before(points[i], points[j])

\* Replay is the production path: when the points arrived in event-time order
\* and carry correlation ids, as those of every adapter do, a replay of their
\* record emits exactly the events that were emitted live, in whatever order
\* p the record holds them: the sort undoes it (replay.Run against Process).
ReplayReproduces ==
    (InReplayOrder(folded) /\ \A i \in DOMAIN folded : folded[i].corr)
        => LET res == ReplayRun(folded, Vehicles)
           IN  /\ ~res.err
               /\ res.events = emitted
               /\ \A p \in Injection(DOMAIN folded, DOMAIN folded) :
                    Ordered([i \in DOMAIN folded |-> folded[p[i]]]) = Ordered(folded)
=============================================================================
