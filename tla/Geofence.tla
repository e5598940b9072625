------------------------------ MODULE Geofence ------------------------------
(***************************************************************************)
(* geo.Tracker.Evaluate (internal/geo/geo.go) for one vehicle, as a pure   *)
(* operator: the set of fences it is inside of, and the entered and exited *)
(* events of one point.  A fence is a record [id, area, bbox]: the         *)
(* positions its polygon contains and those of its bounding box.           *)
(***************************************************************************)
EXTENDS Detectors, SequencesExt

ContainsPoint(g, p) == p \in g.area
Candidate(g, p) == p \in g.bbox

fenceEvent(phase, t, g) == Event("geofence", phase, t.veh, t.ts, g.id, t.corr)

\* The variant that does not ask whether the vehicle was inside already.
EnterEveryPoint(acc, t, g) ==
    IF ContainsPoint(g, t.loc)
    THEN [mem |-> acc.mem \union {g.id},
          out |-> Append(acc.out, fenceEvent("entered", t, g))]
    ELSE acc

\* First loop: the candidates of the bounding-box filter.
EnterOrExit(acc, t, g) ==
    CASE Candidate(g, t.loc) /\ ContainsPoint(g, t.loc) /\ g.id \notin acc.mem ->
            [mem |-> acc.mem \union {g.id},
             out |-> Append(acc.out, fenceEvent("entered", t, g))]
      [] Candidate(g, t.loc) /\ ~ContainsPoint(g, t.loc) /\ g.id \in acc.mem ->
            [mem |-> acc.mem \ {g.id},
             out |-> Append(acc.out, fenceEvent("exited", t, g))]
      [] OTHER -> acc

\* Second loop: fences the vehicle was in and whose box it has left.
LeaveArea(acc, t, g) ==
    IF g.id \in acc.mem /\ ~Candidate(g, t.loc)
    THEN [mem |-> acc.mem \ {g.id},
          out |-> Append(acc.out, fenceEvent("exited", t, g))]
    ELSE acc

EvaluateFences(mem, fences, t) ==
    LET first[n \in 0 .. Len(fences)] ==
            IF n = 0 THEN [mem |-> mem, out |-> <<>>]
            ELSE EnterOrExit(first[n - 1], t, fences[n])
        second[n \in 0 .. Len(fences)] ==
            IF n = 0 THEN first[Len(fences)]
            ELSE LeaveArea(second[n - 1], t, fences[n])
    IN  second[Len(fences)]
=============================================================================
