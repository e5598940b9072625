--------------------------- MODULE PipelineSerial ---------------------------
(***************************************************************************)
(* With one goroutine ingesting and no sweeper (tide replay, tide          *)
(* simulate, a single adapter against tide-api's stores), the step-by-step *)
(* pipeline implements SerialIngest: a point takes effect at States.Set,   *)
(* where the detectors' part, still to come, is counted as done.           *)
(***************************************************************************)
EXTENDS Pipeline

Detecting == {w \in Workers : At(w, "detect")}

\* What the Detect a worker is about to run will return.
Pending(w) == Detect(tracks[call[w].t.veh], call[w].t, call[w].cur)

SerialTracks ==
    [v \in Vehicles |->
        IF \E w \in Detecting : call[w].t.veh = v
        THEN Pending(CHOOSE w \in Detecting : call[w].t.veh = v).trk
        ELSE tracks[v]]

\* The events of seq that come from the detectors.
FromDetectors(seq) ==
    LET kept[n \in 0 .. Len(seq)] ==
            IF n = 0 THEN <<>>
            ELSE IF seq[n].kind \in {"speeding", "idling", "trip"} THEN Append(kept[n - 1], seq[n])
            ELSE kept[n - 1]
    IN  kept[Len(seq)]

SerialEmitted ==
    IF Detecting = {} THEN FromDetectors(emitted)
    ELSE FromDetectors(emitted) \o Pending(CHOOSE w \in Detecting : TRUE).out

SerialFolded == [i \in DOMAIN folded |-> folded[i].t]

Serial == INSTANCE SerialIngest
    WITH tracks <- SerialTracks,
         folded <- SerialFolded,
         emitted <- SerialEmitted

\* Process folds every accepted point into state and detectors exactly as if
\* it ran in one step, in spite of bus failures, retries and duplicates.
ImplementsSerial == Serial!Spec
=============================================================================
