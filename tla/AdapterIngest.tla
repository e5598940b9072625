---------------------------- MODULE AdapterIngest ----------------------------
(***************************************************************************)
(* The adapters in front of the pipeline: adapters/registry's emitting     *)
(* behind HandleRaw of the MQTT adapter and the poll loop of the Traccar   *)
(* adapter.  An upstream message is normalized and handed to Process on a  *)
(* goroutine of its adapter.  A broker redelivers (QoS 1) and a poll       *)
(* returns the latest position again, so every message may arrive several  *)
(* times.                                                                  *)
(***************************************************************************)
EXTENDS Pipeline, Normalize

CONSTANTS
    Messages,   \* what the upstreams send
    Mapping     \* the MQTT adapter's MappingConfig

ASSUME AdapterConfig ==
    /\ LoadMapping(Mapping)
    /\ \A m \in Messages, at \in Instants :
            LET r == Normalized(Mapping, m, at) IN r.ok => r.t \in Points

\* Messages that do not normalize are dropped with an error nobody reads.
HandleRaw(w, m) ==
    LET r == Normalized(Mapping, m, now)
    IN  /\ r.ok
        /\ \/ Reject(w, r.t)
           \/ SeenFails(w, r.t)
           \/ Absorb(w, r.t)
           \/ Accept(w, r.t)

AdapterNext ==
    \/ \E w \in Workers \ ApiWorkers, m \in Messages : HandleRaw(w, m)
    \/ \E w \in Workers : Proceed(w)
    \/ Sweep
    \/ Tick
    \/ Crash

AdapterSpec == Init /\ [][AdapterNext]_vars

----------------------------------------------------------------------------
\* The folds of message m: a fold's point was mapped when Seen let it pass.
FoldsOf(m) ==
    {i \in DOMAIN folded :
        LET r == Normalized(Mapping, m, folded[i].at) IN r.ok /\ folded[i].t = r.t}

\* A message that is delivered again is folded once per dedup window, whatever
\* fails in between, unless its point is marked as degraded: then the mapping
\* had to make up the event time the dedup key is made of (MapPayload,
\* PositionToTelemetry and DedupKey in front of Process).
RedeliveryFoldedOnce ==
    \A m \in Messages : \A i, j \in FoldsOf(m) :
        (i # j /\ Distance(folded[i].at, folded[j].at) < TTL)
            => Normalized(Mapping, m, folded[i].at).quality # "good"
=============================================================================
