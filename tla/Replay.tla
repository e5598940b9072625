------------------------------- MODULE Replay -------------------------------
(***************************************************************************)
(* replay.Run (internal/replay/replay.go): recorded telemetry, in whatever *)
(* order the file holds it, through Process of a fresh pipeline.  The      *)
(* command (cmd/tide/replay.go) builds the pipeline on memory stores; the  *)
(* model leaves out the rule it may pin, whose valves read the wall clock. *)
(***************************************************************************)
EXTENDS Detectors, FiniteSets

CONSTANT IdOrder    \* the ids of points, in the order of Go's < on strings

ASSUME IdsOrdered ==
    /\ IdOrder \in Seq(STRING)
    /\ \A i, j \in DOMAIN IdOrder : IdOrder[i] = IdOrder[j] => i = j

IdLess(a, b) ==
    \E i, j \in DOMAIN IdOrder : i < j /\ IdOrder[i] = a /\ IdOrder[j] = b

Before(t, u) == t.ts < u.ts \/ (t.ts = u.ts /\ IdLess(t.id, u.id))

\* The position of each point in the sorted slice; sort.Slice is an insertion
\* sort on slices this short, so points that compare equal keep their order.
SortedBy(points, less(_, _)) ==
    LET rank == [i \in DOMAIN points |-> Cardinality({j \in DOMAIN points :
                        \/ less(points[j], points[i])
                        \/ ~less(points[i], points[j]) /\ j <= i})]
    IN  [n \in DOMAIN points |-> points[CHOOSE i \in DOMAIN points : rank[i] = n]]

\* The variant that leaves points of one instant in the order of the file.
OrderedByTime(points) == SortedBy(points, LAMBDA t, u : t.ts < u.ts)

\* By event time, then by id.
Ordered(points) == SortedBy(points, Before)

\* build(): a pipeline on memory stores that has seen nothing.
FreshPipeline(vehicles) ==
    [states |-> [v \in vehicles |-> ZeroState], tracks |-> [v \in vehicles |-> ZeroTrack],
     seen |-> {}, events |-> <<>>, err |-> FALSE]

\* Process on memory stores.  The first error, an invalid point or an event the
\* bus refuses, ends the replay without a result.
Process(p, t) ==
    LET next == Apply(p.states[t.veh], t)
        det == Detect(p.tracks[t.veh], t, next)
        dup == t.key \in p.seen
        refused == \E i \in DOMAIN det.out : ~EventValid(det.out[i])
    IN  CASE p.err -> p
          [] ~p.err /\ (~Valid(t) \/ (~dup /\ refused)) ->
                [p EXCEPT !.err = TRUE, !.events = <<>>]
          [] ~p.err /\ Valid(t) /\ dup -> p
          [] OTHER -> [states |-> [p.states EXCEPT ![t.veh] = next],
                       tracks |-> [p.tracks EXCEPT ![t.veh] = det.trk],
                       seen |-> p.seen \union {t.key},
                       events |-> p.events \o det.out, err |-> FALSE]

ProcessAll(points, vehicles) ==
    LET run[n \in 0 .. Len(points)] ==
            IF n = 0 THEN FreshPipeline(vehicles) ELSE Process(run[n - 1], points[n])
    IN  run[Len(points)]

ReplayRun(points, vehicles) == ProcessAll(Ordered(points), vehicles)
=============================================================================
