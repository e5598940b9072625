------------------------- MODULE SerialIngestProofs -------------------------
(***************************************************************************)
(* Proofs about SerialIngest: for any telemetry, in any order of arrival,  *)
(* the newest point of a vehicle decides its state.                        *)
(***************************************************************************)
EXTENDS Recompute, DetectorLemmas, FiniteSetTheorems

\* Ingestion keeps states, detector memory and histories well typed.
THEOREM SerialTypes == Spec => []TypeOK
<1>1. Init => TypeOK
  BY ZeroTypes DEF Init, TypeOK
<1>2. TypeOK /\ [Next]_vars => TypeOK'
  <2> SUFFICES ASSUME TypeOK, [Next]_vars PROVE TypeOK'
    OBVIOUS
  <2>1. ASSUME NEW t \in Points, Ingest(t) PROVE TypeOK'
    <3>1. t \in Telemetry(Keys, Vehicles) /\ t.veh \in Vehicles
      BY IngestDomains DEF Telemetry
    <3> DEFINE next == Apply(states[t.veh], t)
               det == Detect(tracks[t.veh], t, next)
    <3>2. next \in VehicleStates
      BY <3>1, ApplyType DEF TypeOK
    <3>3. det.trk \in Tracks /\ det.out \in Seq(DetectorEvents(Vehicles))
      BY <3>1, DetectType DEF TypeOK
    <3>4. /\ states' = [states EXCEPT ![t.veh] = next]
          /\ tracks' = [tracks EXCEPT ![t.veh] = det.trk]
          /\ folded' = Append(folded, t)
          /\ emitted' = emitted \o det.out
      BY <2>1 DEF Ingest
    <3> HIDE DEF next, det
    <3>5. QED
      BY <3>1, <3>2, <3>3, <3>4 DEF TypeOK
  <2>2. ASSUME NEW v \in Vehicles, NEW at \in Instants, MarkOffline(v, at) PROVE TypeOK'
    <3>1. CheckOffline(states[v], 0, at) \in VehicleStates
      BY IngestDomains, CheckOfflineType DEF TypeOK
    <3>2. QED
      BY <2>2, <3>1 DEF MarkOffline, TypeOK
  <2>3. CASE UNCHANGED vars
    BY <2>3 DEF vars, TypeOK
  <2>4. QED
    BY <2>1, <2>2, <2>3 DEF Next
<1>3. QED
  BY <1>1, <1>2, PTL DEF Spec

\* Engine.Apply never moves a watermark back, and neither does the sweeper.
THEOREM SerialWatermark == Spec => WatermarkMonotone
<1>1. TypeOK /\ [Next]_vars
        => [\A v \in Vehicles : states'[v].lastSeen >= states[v].lastSeen]_vars
  <2> SUFFICES ASSUME TypeOK, Next, NEW v \in Vehicles
               PROVE  states'[v].lastSeen >= states[v].lastSeen
    OBVIOUS
  <2>0. states[v].lastSeen \in Nat
    BY DEF TypeOK, VehicleStates
  <2>1. ASSUME NEW t \in Points, Ingest(t)
        PROVE  states'[v].lastSeen >= states[v].lastSeen
    <3>1. t \in Telemetry(Keys, Vehicles) /\ t.veh \in Vehicles
      BY IngestDomains DEF Telemetry
    <3>2. states' = [states EXCEPT ![t.veh] = Apply(states[t.veh], t)]
      BY <2>1 DEF Ingest
    <3>3. /\ Apply(states[t.veh], t).lastSeen \in Nat
          /\ states[t.veh].lastSeen <= Apply(states[t.veh], t).lastSeen
      BY <3>1, ApplyType, ApplyNewest DEF TypeOK, VehicleStates
    <3>4. QED
      BY <2>0, <3>1, <3>2, <3>3 DEF TypeOK
  <2>2. ASSUME NEW u \in Vehicles, NEW at \in Instants, MarkOffline(u, at)
        PROVE  states'[v].lastSeen >= states[v].lastSeen
    <3>1. CheckOffline(states[u], 0, at).lastSeen = states[u].lastSeen
      BY IngestDomains, CheckOfflineType DEF TypeOK
    <3>2. QED
      BY <2>0, <2>2, <3>1 DEF MarkOffline, TypeOK
  <2>3. QED
    BY <2>1, <2>2 DEF Next
<1>2. QED
  BY <1>1, SerialTypes, PTL DEF Spec, WatermarkMonotone

----------------------------------------------------------------------------
(* LatestWins, one vehicle at a time.                                      *)

Unheard(f, v) == \A i \in DOMAIN f : f[i].veh # v

NewestOf(s, f, v, i) ==
    /\ i \in DOMAIN f
    /\ f[i].veh = v
    /\ s.lastSeen = f[i].ts /\ s.speed = f[i].speed /\ s.loc = f[i].loc
    /\ \A j \in DOMAIN f : f[j].veh = v => f[j].ts <= f[i].ts

Fits(s, f, v) == \/ Unheard(f, v) /\ s = ZeroState
                 \/ \E i \in DOMAIN f : NewestOf(s, f, v, i)

\* LatestWins, restated.
LEMMA LatestWinsFits == LatestWins <=> \A v \in Vehicles : Fits(states[v], folded, v)
<1> SUFFICES ASSUME NEW v \in Vehicles
             PROVE  LET mine == {i \in DOMAIN folded : folded[i].veh = v}
                    IN  (IF mine = {}
                         THEN states[v] = ZeroState
                         ELSE \E i \in mine :
                                /\ states[v].lastSeen = folded[i].ts
                                /\ states[v].speed = folded[i].speed
                                /\ states[v].loc = folded[i].loc
                                /\ \A j \in mine : folded[j].ts <= folded[i].ts)
                        <=> Fits(states[v], folded, v)
  BY DEF LatestWins
<1> QED
  BY DEF Fits, Unheard, NewestOf

\* One fold keeps the newest point on top: by ApplyNewest the result carries
\* either the arriving point, which is then the newest, or the old one.
LEMMA FoldFits ==
    ASSUME NEW s \in VehicleStates, NEW f \in Seq(Points), NEW t \in Points,
           Valid(t), Fits(s, f, t.veh)
    PROVE  Fits(Apply(s, t), Append(f, t), t.veh)
<1>1. t \in Telemetry(Keys, Vehicles) /\ t.ts \in Nat /\ t.ts > 0 /\ s.lastSeen \in Nat
  BY IngestDomains DEF Telemetry, Valid, NoTime, VehicleStates
<1>2. \A i \in DOMAIN f : f[i].ts \in Nat
  BY IngestDomains DEF Telemetry
<1> DEFINE n == Len(f) + 1
           g == Append(f, t)
           a == Apply(s, t)
<1>3. /\ DOMAIN f = 1 .. Len(f) /\ DOMAIN g = 1 .. n /\ Len(f) \in Nat
      /\ g[n] = t /\ \A i \in DOMAIN f : g[i] = f[i]
  OBVIOUS
<1>4. /\ s.lastSeen <= a.lastSeen
      /\ t.ts <= a.lastSeen
      /\ \/ a.lastSeen = t.ts /\ a.speed = t.speed /\ a.loc = t.loc
         \/ /\ a.lastSeen = s.lastSeen /\ a.speed = s.speed /\ a.loc = s.loc
            /\ s.lastSeen # NoTime
  BY <1>1, ApplyNewest
<1> HIDE DEF n, g, a
<1>5. CASE a.lastSeen = t.ts /\ a.speed = t.speed /\ a.loc = t.loc
  <2>1. \A j \in DOMAIN f : f[j].veh = t.veh => f[j].ts <= t.ts
    BY <1>1, <1>2, <1>4, <1>5 DEF Fits, Unheard, NewestOf
  <2>2. NewestOf(a, g, t.veh, n)
    BY <1>1, <1>3, <1>5, <2>1 DEF NewestOf, n
  <2>3. QED
    BY <1>3, <2>2 DEF Fits, a, g, n
<1>6. CASE /\ a.lastSeen = s.lastSeen /\ a.speed = s.speed /\ a.loc = s.loc
           /\ s.lastSeen # NoTime
  <2>1. s # ZeroState
    BY <1>6, ZeroUnseen
  <2>2. PICK i \in DOMAIN f : NewestOf(s, f, t.veh, i)
    BY <2>1 DEF Fits
  <2>3. f[i].ts = a.lastSeen /\ g[i] = f[i] /\ i \in DOMAIN g
    BY <1>3, <1>6, <2>2 DEF NewestOf, n
  <2>4. ASSUME NEW j \in DOMAIN g, g[j].veh = t.veh PROVE g[j].ts <= g[i].ts
    <3>1. CASE j \in DOMAIN f
      BY <1>3, <2>2, <2>3, <2>4, <3>1 DEF NewestOf
    <3>2. CASE j = n
      BY <1>3, <1>4, <2>3, <3>2
    <3>3. QED
      BY <1>3, <3>1, <3>2 DEF n
  <2>5. NewestOf(a, g, t.veh, i)
    BY <1>6, <2>2, <2>3, <2>4 DEF NewestOf
  <2>6. QED
    BY <2>3, <2>5 DEF Fits, a, g
<1>7. QED
  BY <1>4, <1>5, <1>6

\* Whatever the order of arrival, the watermark, speed and position of a
\* vehicle are those of its newest point (Engine.Apply under Process).
THEOREM SerialLatestWins == Spec => []LatestWins
<1> DEFINE Inv == \A v \in Vehicles : Fits(states[v], folded, v)
<1>1. Init => Inv
  BY DEF Init, Fits, Unheard
<1>2. TypeOK /\ Inv /\ [Next]_vars => Inv'
  <2> SUFFICES ASSUME TypeOK, Inv, [Next]_vars, NEW v \in Vehicles
               PROVE  Fits(states'[v], folded', v)
    OBVIOUS
  <2>1. ASSUME NEW t \in Points, Ingest(t) PROVE Fits(states'[v], folded', v)
    <3>1. /\ Valid(t)
          /\ states' = [states EXCEPT ![t.veh] = Apply(states[t.veh], t)]
          /\ folded' = Append(folded, t)
      BY <2>1 DEF Ingest
    <3>2. CASE v = t.veh
      BY <3>1, <3>2, FoldFits DEF TypeOK
    <3>3. CASE v # t.veh
      <4>1. states'[v] = states[v]
        BY <3>1, <3>3 DEF TypeOK
      <4>2. /\ DOMAIN folded = 1 .. Len(folded) /\ DOMAIN folded' = 1 .. Len(folded) + 1
            /\ Len(folded) \in Nat
            /\ folded'[Len(folded) + 1] = t
            /\ \A i \in DOMAIN folded : folded'[i] = folded[i]
        BY <3>1 DEF TypeOK
      <4>3. CASE Unheard(folded, v) /\ states[v] = ZeroState
        BY <3>3, <4>1, <4>2, <4>3 DEF Fits, Unheard
      <4>4. ASSUME NEW i \in DOMAIN folded, NewestOf(states[v], folded, v, i)
            PROVE  NewestOf(states'[v], folded', v, i)
        BY <3>3, <4>1, <4>2, <4>4 DEF NewestOf
      <4>5. QED
        BY <4>2, <4>3, <4>4 DEF Fits
    <3>4. QED
      BY <3>2, <3>3
  <2>2. ASSUME NEW u \in Vehicles, NEW at \in Instants, MarkOffline(u, at)
        PROVE  Fits(states'[v], folded', v)
    <3>1. /\ folded' = folded
          /\ states' = [states EXCEPT ![u] = CheckOffline(states[u], 0, at)]
          /\ states[u].lastSeen # NoTime
      BY <2>2 DEF MarkOffline, OfflineDue
    <3>2. states[u] # ZeroState
      BY <3>1, ZeroUnseen
    <3>3. /\ CheckOffline(states[u], 0, at).lastSeen = states[u].lastSeen
          /\ CheckOffline(states[u], 0, at).speed = states[u].speed
          /\ CheckOffline(states[u], 0, at).loc = states[u].loc
      BY IngestDomains, CheckOfflineType DEF TypeOK
    <3>4. CASE v # u
      <4>1. states'[v] = states[v]
        BY <3>1, <3>4 DEF TypeOK
      <4>2. QED
        BY <3>1, <4>1
    <3>5. CASE v = u
      <4>1. PICK i \in DOMAIN folded : NewestOf(states[u], folded, u, i)
        BY <3>2, <3>5 DEF Fits
      <4>2. states'[u] = CheckOffline(states[u], 0, at)
        BY <3>1 DEF TypeOK
      <4>3. NewestOf(states'[u], folded', u, i)
        BY <3>1, <3>3, <4>1, <4>2 DEF NewestOf
      <4>4. QED
        BY <3>1, <3>5, <4>3 DEF Fits
    <3>6. QED
      BY <3>4, <3>5
  <2>3. CASE UNCHANGED vars
    BY <2>3 DEF vars
  <2>4. QED
    BY <2>1, <2>2, <2>3 DEF Next
<1>3. QED
  BY <1>1, <1>2, LatestWinsFits, SerialTypes, PTL DEF Spec

----------------------------------------------------------------------------
(* The events of the detectors.                                            *)

\* The memory of every vehicle's detectors says which streams are open: what
\* makes TransitionsBracketed inductive.
InStep == \A v \in Vehicles : Matched(tracks[v], emitted, v)

\* What Ingest does to the detectors and the events.
LEMMA IngestDetects ==
    ASSUME TypeOK, NEW t \in Points, Ingest(t)
    PROVE  LET d == Detect(tracks[t.veh], t, Apply(states[t.veh], t))
           IN  /\ t \in Telemetry(Keys, Vehicles) /\ t.veh \in Vehicles
               /\ tracks[t.veh] \in Tracks
               /\ d.trk \in Tracks /\ d.out \in Seq(DetectorEvents(Vehicles))
               /\ tracks' = [tracks EXCEPT ![t.veh] = d.trk]
               /\ folded' = Append(folded, t)
               /\ emitted' = emitted \o d.out
<1>1. t \in Telemetry(Keys, Vehicles) /\ t.veh \in Vehicles /\ tracks[t.veh] \in Tracks
  BY IngestDomains DEF Telemetry, TypeOK
<1>2. QED
  BY <1>1, DetectType DEF Ingest

\* Whatever arrives, in whatever order, .started and .ended alternate in every
\* stream and .continued only occurs between them (Tracker.Detect).
THEOREM SerialBracketed == Spec => []TransitionsBracketed
<1>1. Init => TransitionsBracketed /\ InStep
  BY DEF Init, TransitionsBracketed, Bracketed, InStep, Matched, Open, OpenIn, ZeroTrack
<1>2. TypeOK /\ TransitionsBracketed /\ InStep /\ [Next]_vars
        => (TransitionsBracketed /\ InStep)'
  <2> SUFFICES ASSUME TypeOK, TransitionsBracketed, InStep, [Next]_vars
               PROVE  (TransitionsBracketed /\ InStep)'
    OBVIOUS
  <2>1. ASSUME NEW t \in Points, Ingest(t) PROVE (TransitionsBracketed /\ InStep)'
    <3> DEFINE d == Detect(tracks[t.veh], t, Apply(states[t.veh], t))
               E == DetectorEvents(Vehicles)
    <3>1. /\ t \in Telemetry(Keys, Vehicles) /\ t.veh \in Vehicles
          /\ tracks[t.veh] \in Tracks
          /\ tracks' = [tracks EXCEPT ![t.veh] = d.trk]
          /\ emitted' = emitted \o d.out
      BY <2>1, IngestDetects
    <3>2. /\ emitted \in Seq(E) /\ Bracketed(emitted)
          /\ Matched(tracks[t.veh], emitted, t.veh)
      BY <3>1 DEF TypeOK, TransitionsBracketed, InStep
    <3>3. /\ Bracketed(emitted \o d.out)
          /\ Matched(d.trk, emitted \o d.out, t.veh)
          /\ \A f : f.veh # t.veh => (Open(emitted \o d.out, f) <=> Open(emitted, f))
      BY <3>1, <3>2, DetectBrackets
    <3> HIDE DEF d
    <3>4. ASSUME NEW v \in Vehicles PROVE Matched(tracks'[v], emitted', v)
      <4>1. CASE v = t.veh
        BY <3>1, <3>3, <4>1 DEF TypeOK
      <4>2. CASE v # t.veh
        <5>1. tracks'[v] = tracks[v]
          BY <3>1, <4>2 DEF TypeOK
        <5>2. \A k : Stream(v, k).veh # t.veh
          BY <4>2 DEF Stream
        <5>3. \A k : Open(emitted', Stream(v, k)) <=> Open(emitted, Stream(v, k))
          BY <3>1, <3>3, <5>2
        <5>4. QED
          BY <5>1, <5>3 DEF InStep, Matched
      <4>3. QED
        BY <4>1, <4>2
    <3>5. QED
      BY <3>1, <3>3, <3>4 DEF TransitionsBracketed, InStep
  <2>2. CASE UNCHANGED <<tracks, emitted>>
    BY <2>2 DEF TransitionsBracketed, InStep
  <2>3. QED
    BY <2>1, <2>2 DEF Next, MarkOffline, vars
<1>3. QED
  BY <1>1, <1>2, SerialTypes, PTL DEF Spec

\* A running speeding clock was started by a folded point of v, and every
\* folded point of v from there on was over the limit.
ClockedBy(trk, f, v) ==
    trk.speeding.since # NoTime =>
        \E i \in DOMAIN f :
            /\ f[i].veh = v
            /\ f[i].ts = trk.speeding.since
            /\ \A j \in DOMAIN f : (f[j].veh = v /\ j >= i) => speedOf(f[j]) > SpeedLimitKmh

Clocked == \A v \in Vehicles : ClockedBy(tracks[v], folded, v)

\* Clocked is inductive: a slow point stops the clock, a fast one keeps it or
\* starts it.
LEMMA SerialClocked == Spec => []Clocked
<1>1. Init => Clocked
  BY DEF Init, Clocked, ClockedBy, ZeroTrack
<1>2. TypeOK /\ Clocked /\ [Next]_vars => Clocked'
  <2> SUFFICES ASSUME TypeOK, Clocked, [Next]_vars, NEW v \in Vehicles
               PROVE  ClockedBy(tracks'[v], folded', v)
    BY DEF Clocked
  <2>1. ASSUME NEW t \in Points, Ingest(t) PROVE ClockedBy(tracks'[v], folded', v)
    <3> DEFINE d == Detect(tracks[t.veh], t, Apply(states[t.veh], t))
               n == Len(folded) + 1
               g == folded'
    <3>1. /\ t \in Telemetry(Keys, Vehicles) /\ t.veh \in Vehicles
          /\ tracks[t.veh] \in Tracks
          /\ tracks' = [tracks EXCEPT ![t.veh] = d.trk]
          /\ folded' = Append(folded, t)
      BY <2>1, IngestDetects
    <3>2. /\ DOMAIN folded = 1 .. Len(folded) /\ DOMAIN g = 1 .. n /\ Len(folded) \in Nat
          /\ g[n] = t /\ \A i \in DOMAIN folded : g[i] = folded[i]
      BY <3>1 DEF TypeOK
    <3>3. d.trk.speeding.since # NoTime =>
            /\ speedOf(t) > SpeedLimitKmh
            /\ \/ d.trk.speeding.since = tracks[t.veh].speeding.since
               \/ d.trk.speeding.since = Since(tracks[t.veh].speeding.since, t)
      BY <3>1, SpeedingClock
    <3> HIDE DEF d, n, g
    <3>4. CASE v # t.veh
      <4>1. tracks'[v] = tracks[v]
        BY <3>1, <3>4 DEF TypeOK
      <4>2. ClockedBy(tracks[v], folded, v)
        BY DEF Clocked
      <4>3. QED
        BY <3>2, <3>4, <4>1, <4>2 DEF ClockedBy, g, n
    <3>5. CASE v = t.veh
      <4>1. tracks'[v] = d.trk
        BY <3>1, <3>5 DEF TypeOK
      <4>2. SUFFICES ASSUME d.trk.speeding.since # NoTime
                     PROVE  \E i \in DOMAIN g :
                                /\ g[i].veh = v
                                /\ g[i].ts = d.trk.speeding.since
                                /\ \A j \in DOMAIN g :
                                    (g[j].veh = v /\ j >= i) => speedOf(g[j]) > SpeedLimitKmh
        BY <4>1 DEF ClockedBy, g
      <4>3. CASE tracks[v].speeding.since = NoTime
        <5>1. d.trk.speeding.since = t.ts
          BY <3>3, <3>5, <4>2, <4>3 DEF Since
        <5>2. \A j \in DOMAIN g : j >= n => g[j] = t
          BY <3>2 DEF n
        <5>3. QED
          BY <3>2, <3>3, <3>5, <4>2, <5>1, <5>2 DEF n
      <4>4. CASE tracks[v].speeding.since # NoTime
        <5>1. d.trk.speeding.since = tracks[v].speeding.since
          BY <3>3, <3>5, <4>2, <4>4 DEF Since
        <5>2. PICK i \in DOMAIN folded :
                /\ folded[i].veh = v
                /\ folded[i].ts = tracks[v].speeding.since
                /\ \A j \in DOMAIN folded :
                    (folded[j].veh = v /\ j >= i) => speedOf(folded[j]) > SpeedLimitKmh
          BY <4>4 DEF Clocked, ClockedBy
        <5>3. \A j \in DOMAIN g : j \in DOMAIN folded \/ j = n
          BY <3>2 DEF n
        <5>4. i \in DOMAIN g
          BY <3>2 DEF n
        <5>5. QED
          BY <3>2, <3>3, <4>2, <5>1, <5>2, <5>3, <5>4
      <4>5. QED
        BY <4>3, <4>4
    <3>6. QED
      BY <3>4, <3>5
  <2>2. CASE UNCHANGED <<tracks, folded>>
    BY <2>2 DEF Clocked
  <2>3. QED
    BY <2>1, <2>2 DEF Next, MarkOffline, vars
<1>3. QED
  BY <1>1, <1>2, SerialTypes, PTL DEF Spec

\* speeding.started is only emitted when every point of the vehicle since one
\* at least SpeedForSecs older was over the limit (speedingDetect).
THEOREM SerialSustained == Spec => SpeedingIsSustained
<1> DEFINE Only(k) == (emitted'[k].kind = "speeding" /\ emitted'[k].phase = "started")
                        => SustainedBefore(emitted'[k].veh)
<1>1. TypeOK /\ Clocked /\ [Next]_vars
        => [\A k \in DOMAIN emitted' \ DOMAIN emitted : Only(k)]_vars
  <2> SUFFICES ASSUME TypeOK, Clocked, Next, NEW k \in DOMAIN emitted' \ DOMAIN emitted,
                      emitted'[k].kind = "speeding", emitted'[k].phase = "started"
               PROVE  SustainedBefore(emitted'[k].veh)
    OBVIOUS
  <2>1. ASSUME NEW t \in Points, Ingest(t) PROVE SustainedBefore(emitted'[k].veh)
    <3> DEFINE d == Detect(tracks[t.veh], t, Apply(states[t.veh], t))
               n == Len(folded) + 1
               v == t.veh
               since == tracks[t.veh].speeding.since
    <3>1. /\ t \in Telemetry(Keys, Vehicles) /\ v \in Vehicles
          /\ tracks[v] \in Tracks
          /\ d.out \in Seq(DetectorEvents(Vehicles))
          /\ folded' = Append(folded, t)
          /\ emitted' = emitted \o d.out
      BY <2>1, IngestDetects
    <3>2. /\ DOMAIN folded = 1 .. Len(folded) /\ Len(folded) \in Nat /\ Len(folded') = n
          /\ folded'[n] = t /\ \A i \in DOMAIN folded : folded'[i] = folded[i]
      BY <3>1 DEF TypeOK
    <3>3. /\ OfPoint(d.out, {"speeding", "idling", "trip"}, t)
          /\ \A i \in DOMAIN d.out :
                (d.out[i].kind = "speeding" /\ d.out[i].phase = "started") =>
                    speedOf(t) > SpeedLimitKmh /\ t.ts - Since(since, t) >= SpeedForSecs
      BY <3>1, DetectOut
    <3>4. k - Len(emitted) \in DOMAIN d.out /\ emitted'[k] = d.out[k - Len(emitted)]
      <4> DEFINE out == d.out
      <4>1. out \in Seq(DetectorEvents(Vehicles)) /\ emitted' = emitted \o out
        BY <3>1
      <4> HIDE DEF out
      <4>2. k - Len(emitted) \in DOMAIN out /\ emitted'[k] = out[k - Len(emitted)]
        BY <4>1 DEF TypeOK
      <4>3. QED
        BY <4>2 DEF out
    <3>5. /\ emitted'[k].veh = v
          /\ speedOf(t) > SpeedLimitKmh /\ t.ts - Since(since, t) >= SpeedForSecs
      BY <3>3, <3>4 DEF OfPoint
    <3> HIDE DEF d, n, v
    <3>6. CASE since = NoTime
      <4>1. folded'[n].ts - folded'[n].ts >= SpeedForSecs
        BY <3>2, <3>5, <3>6 DEF Since
      <4>2. \A j \in 1 .. n : j >= n => j = n
        BY <3>2 DEF n
      <4>3. n \in 1 .. n
        BY <3>2 DEF n
      <4>4. QED
        BY <3>2, <3>5, <4>1, <4>2, <4>3 DEF SustainedBefore, v
    <3>7. CASE since # NoTime
      <4>1. PICK i \in DOMAIN folded :
              /\ folded[i].veh = v
              /\ folded[i].ts = since
              /\ \A j \in DOMAIN folded :
                  (folded[j].veh = v /\ j >= i) => speedOf(folded[j]) > SpeedLimitKmh
        BY <3>1, <3>7 DEF Clocked, ClockedBy, v
      <4>2. \A j \in 1 .. n : j \in DOMAIN folded \/ j = n
        BY <3>2 DEF n
      <4>3. i \in 1 .. n
        BY <3>2 DEF n
      <4>4. folded'[n].ts - folded'[i].ts >= SpeedForSecs
        BY <3>2, <3>5, <3>7, <4>1 DEF Since
      <4>5. QED
        BY <3>2, <3>5, <4>1, <4>2, <4>3, <4>4 DEF SustainedBefore
    <3>8. QED
      BY <3>6, <3>7
  <2>2. CASE emitted' = emitted
    BY <2>2
  <2>3. QED
    BY <2>1, <2>2 DEF Next, MarkOffline
<1>2. QED
  BY <1>1, SerialTypes, SerialClocked, PTL DEF Spec, SpeedingIsSustained

----------------------------------------------------------------------------
\* Every emitted event is about a folded point: its vehicle and its time.
Sourced ==
    \A m \in DOMAIN emitted :
        \E i \in DOMAIN folded :
            emitted[m].veh = folded[i].veh /\ emitted[m].ts = folded[i].ts

\* As long as the points of a vehicle have distinct times, event ids are
\* distinct, so a consumer that drops known ids drops no transition
\* (events.DeterministicID).
THEOREM SerialEventIds == Spec => []EventIdsDistinct
<1> DEFINE Inv == Sourced /\ EventIdsDistinct
<1>1. Init => Inv
  BY DEF Init, Sourced, EventIdsDistinct
<1>2. TypeOK /\ Inv /\ [Next]_vars => Inv'
  <2> SUFFICES ASSUME TypeOK, Inv, [Next]_vars PROVE Inv'
    OBVIOUS
  <2>1. ASSUME NEW t \in Points, Ingest(t) PROVE Inv'
    <3> DEFINE out == Detect(tracks[t.veh], t, Apply(states[t.veh], t)).out
               n == Len(folded) + 1
    <3>1. /\ t \in Telemetry(Keys, Vehicles) /\ tracks[t.veh] \in Tracks
          /\ out \in Seq(DetectorEvents(Vehicles))
          /\ folded' = Append(folded, t)
          /\ emitted' = emitted \o out
      BY <2>1, IngestDetects
    <3>2. OfPoint(out, {"speeding", "idling", "trip"}, t)
      BY <3>1, DetectOut
    <3> HIDE DEF out
    <3>3. /\ DOMAIN folded = 1 .. Len(folded) /\ DOMAIN folded' = 1 .. n /\ Len(folded) \in Nat
          /\ folded'[n] = t /\ \A i \in DOMAIN folded : folded'[i] = folded[i]
      BY <3>1 DEF TypeOK
    <3>4. ASSUME NEW m \in DOMAIN emitted'
          PROVE  \/ m \in DOMAIN emitted /\ emitted'[m] = emitted[m]
                 \/ /\ m - Len(emitted) \in DOMAIN out /\ m \in Nat
                    /\ emitted'[m] = out[m - Len(emitted)]
      BY <3>1 DEF TypeOK
    <3>5. Len(emitted) \in Nat
      BY DEF TypeOK
    <3>6. n \in DOMAIN folded' /\ n \notin DOMAIN folded /\ DOMAIN folded \subseteq DOMAIN folded'
      BY <3>3
    <3> HIDE DEF n
    <3>7. Sourced'
      <4> SUFFICES ASSUME NEW m \in DOMAIN emitted'
                   PROVE  \E i \in DOMAIN folded' :
                            /\ emitted'[m].veh = folded'[i].veh
                            /\ emitted'[m].ts = folded'[i].ts
        BY DEF Sourced
      <4>1. CASE m \in DOMAIN emitted /\ emitted'[m] = emitted[m]
        BY <3>3, <3>6, <4>1 DEF Sourced
      <4>2. CASE m - Len(emitted) \in DOMAIN out /\ emitted'[m] = out[m - Len(emitted)]
        BY <3>2, <3>3, <3>6, <4>2 DEF OfPoint
      <4>3. QED
        BY <3>4, <4>1, <4>2
    <3>8. EventIdsDistinct'
      <4> SUFFICES ASSUME \A i, j \in DOMAIN folded' :
                            (folded'[i].veh = folded'[j].veh /\ folded'[i].ts = folded'[j].ts)
                                => i = j,
                          NEW a \in DOMAIN emitted', NEW b \in DOMAIN emitted',
                          DeterministicID(emitted'[a]) = DeterministicID(emitted'[b])
                   PROVE  a = b
        BY DEF EventIdsDistinct
      <4>1. /\ emitted'[a].kind = emitted'[b].kind /\ emitted'[a].phase = emitted'[b].phase
            /\ emitted'[a].veh = emitted'[b].veh /\ emitted'[a].ts = emitted'[b].ts
        BY DEF DeterministicID
      <4>2. ASSUME NEW m \in DOMAIN emitted PROVE emitted[m].veh # t.veh \/ emitted[m].ts # t.ts
        <5>1. PICK i \in DOMAIN folded : /\ emitted[m].veh = folded[i].veh
                                         /\ emitted[m].ts = folded[i].ts
          BY DEF Sourced
        <5>2. QED
          BY <3>3, <3>6, <5>1
      <4>3. \A m \in DOMAIN out : out[m].veh = t.veh /\ out[m].ts = t.ts
        BY <3>2 DEF OfPoint
      <4>4. CASE a \in DOMAIN emitted /\ b \in DOMAIN emitted
        <5>1. emitted'[a] = emitted[a] /\ emitted'[b] = emitted[b]
          BY <3>1, <4>4 DEF TypeOK
        <5>2. \A i, j \in DOMAIN folded :
                (folded[i].veh = folded[j].veh /\ folded[i].ts = folded[j].ts) => i = j
          BY <3>3, <3>6
        <5>3. QED
          BY <4>4, <5>1, <5>2 DEF EventIdsDistinct
      <4>5. CASE /\ a - Len(emitted) \in DOMAIN out /\ emitted'[a] = out[a - Len(emitted)] /\ a \in Nat
                 /\ b - Len(emitted) \in DOMAIN out /\ emitted'[b] = out[b - Len(emitted)] /\ b \in Nat
        <5>1. a - Len(emitted) = b - Len(emitted)
          BY <3>2, <4>1, <4>5 DEF OfPoint
        <5>2. QED
          BY <3>5, <4>5, <5>1
      <4>6. QED
        BY <3>4, <4>1, <4>2, <4>3, <4>4, <4>5
    <3>9. QED
      BY <3>7, <3>8
  <2>2. CASE UNCHANGED <<folded, emitted>>
    BY <2>2 DEF Sourced, EventIdsDistinct
  <2>3. QED
    BY <2>1, <2>2 DEF Next, MarkOffline, vars
<1>3. QED
  BY <1>1, <1>2, SerialTypes, PTL DEF Spec
----------------------------------------------------------------------------
(* RebuildFrom.  Its two loops, as tables, and what they make of one point *)
(* more.                                                                   *)

MineTable(s, v, n, g) ==
    g = [m \in 0 .. n |-> IF m = 0 THEN <<>>
                          ELSE IF s[m].veh = v THEN Append(g[m - 1], s[m])
                          ELSE g[m - 1]]

\* OfVehicle is the end of its table, a sequence of the same points.
LEMMA MineAtEnd ==
    ASSUME NEW P, NEW s \in Seq(P), NEW v
    PROVE  \E g : /\ MineTable(s, v, Len(s), g)
                  /\ OfVehicle(s, v) = g[Len(s)] /\ OfVehicle(s, v) \in Seq(P)
<1> DEFINE n == Len(s)
           F == [x \in Seq(P) |-> [i \in 1 .. n |->
                    IF s[i].veh = v THEN Append(x, s[i]) ELSE x]]
           f == CHOOSE g : g = [m \in 0 .. Len(s) |->
                    IF m = 0 THEN <<>>
                    ELSE IF s[m].veh = v THEN Append(g[m - 1], s[m])
                    ELSE g[m - 1]]
<1>0. n \in Nat /\ <<>> \in Seq(P)
  OBVIOUS
<1>1. ASSUME NEW x \in Seq(P), NEW i \in 1 .. n
      PROVE  /\ F[x][i] = IF s[i].veh = v THEN Append(x, s[i]) ELSE x
             /\ F[x][i] \in Seq(P)
  <2>1. s[i] \in P
    OBVIOUS
  <2>2. F[x][i] = IF s[i].veh = v THEN Append(x, s[i]) ELSE x
    OBVIOUS
  <2> HIDE DEF F
  <2>3. QED
    BY <2>1, <2>2
<1> HIDE DEF F, n
<1>2. PICK g : LoopFrom(<<>>, F, Seq(P), n, g)
  <2> HIDE DEF f
  <2>1. BodyIn(F, Seq(P), n)
    BY <1>1 DEF BodyIn
  <2>2. QED
    BY <1>0, <2>1, LoopTable
<1>3. ASSUME NEW i \in 1 .. n
      PROVE  g[i] = IF s[i].veh = v THEN Append(g[i - 1], s[i]) ELSE g[i - 1]
  <2>1. i - 1 \in 0 .. n
    BY <1>0
  <2>2. g[i - 1] \in Seq(P)
    BY <1>2, <2>1 DEF LoopFrom
  <2>3. QED
    BY <1>1, <1>2, <2>2 DEF LoopFrom
<1>4. MineTable(s, v, n, g)
  <2>1. \A m \in 0 .. n : m = 0 \/ m \in 1 .. n
    BY <1>0
  <2>2. QED
    BY <1>2, <1>3, <2>1 DEF LoopFrom, MineTable
<1>5. MineTable(s, v, n, f)
  BY <1>4 DEF MineTable, n
<1>6. OfVehicle(s, v) = f[n]
  BY DEF OfVehicle, n
<1> HIDE DEF f
<1>7. f[n] = g[n]
  <2>1. \A m \in 0 .. n : f[m] = IF m = 0 THEN <<>>
                                 ELSE IF s[m].veh = v THEN Append(f[m - 1], s[m])
                                 ELSE f[m - 1]
    BY <1>5 DEF MineTable
  <2>2. 0 \in 0 .. n /\ \A i \in 1 .. n : i \in 0 .. n /\ i # 0
    BY <1>0
  <2>3. f[0] = g[0] /\ \A i \in 1 .. n : f[i - 1] = g[i - 1] => f[i] = g[i]
    BY <1>2, <1>3, <2>1, <2>2 DEF LoopFrom
  <2>4. QED
    BY <1>0, <2>3, TablesAgree
<1>8. g[n] \in Seq(P)
  BY <1>0, <1>2 DEF LoopFrom
<1>9. QED
  BY <1>5, <1>6, <1>7, <1>8 DEF n

\* The log of one vehicle grows by its own points.
LEMMA MineOne ==
    ASSUME NEW P, NEW s \in Seq(P), NEW t \in P, NEW v
    PROVE  OfVehicle(Append(s, t), v) =
                IF t.veh = v THEN Append(OfVehicle(s, v), t) ELSE OfVehicle(s, v)
<1> DEFINE new == Append(s, t)
           n == Len(s)
<1>1. /\ n \in Nat /\ new \in Seq(P) /\ Len(new) = n + 1 /\ new[n + 1] = t
      /\ \A i \in 1 .. n : new[i] = s[i]
  OBVIOUS
<1> HIDE DEF new, n
<1>2. PICK g : MineTable(s, v, n, g) /\ OfVehicle(s, v) = g[n]
  BY MineAtEnd DEF n
<1>3. PICK h : MineTable(new, v, n + 1, h) /\ OfVehicle(new, v) = h[n + 1]
  BY <1>1, MineAtEnd
<1>4. \A i \in 0 .. n : g[i] = IF i = 0 THEN <<>>
                               ELSE IF s[i].veh = v THEN Append(g[i - 1], s[i])
                               ELSE g[i - 1]
  BY <1>2 DEF MineTable
<1>5. \A i \in 0 .. n + 1 : h[i] = IF i = 0 THEN <<>>
                                   ELSE IF new[i].veh = v THEN Append(h[i - 1], new[i])
                                   ELSE h[i - 1]
  BY <1>3 DEF MineTable
<1>6. /\ 0 \in 0 .. n /\ 0 \in 0 .. n + 1 /\ n + 1 \in 0 .. n + 1 /\ n + 1 # 0 /\ (n + 1) - 1 = n
      /\ \A i \in 1 .. n : i \in 0 .. n /\ i \in 0 .. n + 1 /\ i # 0
  BY <1>1
<1>7. g[0] = h[0] /\ \A i \in 1 .. n : g[i - 1] = h[i - 1] => g[i] = h[i]
  BY <1>1, <1>4, <1>5, <1>6
<1>8. g[n] = h[n]
  BY <1>1, <1>7, TablesAgree
<1>9. h[n + 1] = IF t.veh = v THEN Append(h[n], t) ELSE h[n]
  BY <1>1, <1>5, <1>6
<1>10. QED
  BY <1>2, <1>3, <1>8, <1>9 DEF new

\* Nothing is kept of an empty log.
LEMMA MineNone == ASSUME NEW v PROVE OfVehicle(<<>>, v) = <<>>
<1>1. <<>> \in Seq({}) /\ Len(<<>>) = 0
  OBVIOUS
<1>2. PICK g : MineTable(<<>>, v, 0, g) /\ OfVehicle(<<>>, v) = g[0]
  BY <1>1, MineAtEnd
<1>3. g[0] = <<>>
  BY <1>2 DEF MineTable
<1>4. QED
  BY <1>2, <1>3

ApplyTable(s, n, g) ==
    g = [m \in 0 .. n |-> IF m = 0 THEN ZeroState ELSE Apply(g[m - 1], s[m])]

\* ApplyAll is the end of its table, a well-typed state.
LEMMA ApplyAtEnd ==
    ASSUME NEW s \in Seq(Points)
    PROVE  \E g : /\ ApplyTable(s, Len(s), g)
                  /\ ApplyAll(s) = g[Len(s)] /\ ApplyAll(s) \in VehicleStates
<1> DEFINE n == Len(s)
           F == [x \in VehicleStates |-> [i \in 1 .. n |-> Apply(x, s[i])]]
           f == CHOOSE g : g = [m \in 0 .. Len(s) |->
                    IF m = 0 THEN ZeroState ELSE Apply(g[m - 1], s[m])]
<1>0. n \in Nat /\ ZeroState \in VehicleStates
  BY ZeroTypes
<1>1. ASSUME NEW x \in VehicleStates, NEW i \in 1 .. n
      PROVE  F[x][i] = Apply(x, s[i]) /\ F[x][i] \in VehicleStates
  <2>1. s[i] \in Telemetry(Keys, Vehicles)
    BY IngestDomains
  <2>2. F[x][i] = Apply(x, s[i])
    OBVIOUS
  <2> HIDE DEF F
  <2>3. QED
    BY <2>1, <2>2, ApplyType
<1> HIDE DEF F, n
<1>2. PICK g : LoopFrom(ZeroState, F, VehicleStates, n, g)
  <2> HIDE DEF f
  <2>1. BodyIn(F, VehicleStates, n)
    BY <1>1 DEF BodyIn
  <2>2. QED
    BY <1>0, <2>1, LoopTable
<1>3. ASSUME NEW i \in 1 .. n PROVE g[i] = Apply(g[i - 1], s[i])
  <2>1. i - 1 \in 0 .. n
    BY <1>0
  <2>2. g[i - 1] \in VehicleStates
    BY <1>2, <2>1 DEF LoopFrom
  <2>3. QED
    BY <1>1, <1>2, <2>2 DEF LoopFrom
<1>4. ApplyTable(s, n, g)
  <2>1. \A m \in 0 .. n : m = 0 \/ m \in 1 .. n
    BY <1>0
  <2>2. QED
    BY <1>2, <1>3, <2>1 DEF LoopFrom, ApplyTable
<1>5. ApplyTable(s, n, f)
  BY <1>4 DEF ApplyTable, n
<1>6. ApplyAll(s) = f[n]
  BY DEF ApplyAll, n
<1> HIDE DEF f
<1>7. f[n] = g[n]
  <2>1. \A m \in 0 .. n : f[m] = IF m = 0 THEN ZeroState ELSE Apply(f[m - 1], s[m])
    BY <1>5 DEF ApplyTable
  <2>2. 0 \in 0 .. n /\ \A i \in 1 .. n : i \in 0 .. n /\ i # 0
    BY <1>0
  <2>3. f[0] = g[0] /\ \A i \in 1 .. n : f[i - 1] = g[i - 1] => f[i] = g[i]
    BY <1>2, <1>3, <2>1, <2>2 DEF LoopFrom
  <2>4. QED
    BY <1>0, <2>3, TablesAgree
<1>8. g[n] \in VehicleStates
  BY <1>0, <1>2 DEF LoopFrom
<1>9. QED
  BY <1>5, <1>6, <1>7, <1>8 DEF n

\* One point more is one Apply more.
LEMMA ApplyOne ==
    ASSUME NEW s \in Seq(Points), NEW t \in Points
    PROVE  ApplyAll(Append(s, t)) = Apply(ApplyAll(s), t)
<1> DEFINE new == Append(s, t)
           n == Len(s)
<1>1. /\ n \in Nat /\ new \in Seq(Points) /\ Len(new) = n + 1 /\ new[n + 1] = t
      /\ \A i \in 1 .. n : new[i] = s[i]
  OBVIOUS
<1> HIDE DEF new, n
<1>2. PICK g : ApplyTable(s, n, g) /\ ApplyAll(s) = g[n]
  BY ApplyAtEnd DEF n
<1>3. PICK h : ApplyTable(new, n + 1, h) /\ ApplyAll(new) = h[n + 1]
  BY <1>1, ApplyAtEnd
<1>4. \A i \in 0 .. n : g[i] = IF i = 0 THEN ZeroState ELSE Apply(g[i - 1], s[i])
  BY <1>2 DEF ApplyTable
<1>5. \A i \in 0 .. n + 1 : h[i] = IF i = 0 THEN ZeroState ELSE Apply(h[i - 1], new[i])
  BY <1>3 DEF ApplyTable
<1>6. /\ 0 \in 0 .. n /\ 0 \in 0 .. n + 1 /\ n + 1 \in 0 .. n + 1 /\ n + 1 # 0 /\ (n + 1) - 1 = n
      /\ \A i \in 1 .. n : i \in 0 .. n /\ i \in 0 .. n + 1 /\ i # 0
  BY <1>1
<1>7. g[0] = h[0] /\ \A i \in 1 .. n : g[i - 1] = h[i - 1] => g[i] = h[i]
  BY <1>1, <1>4, <1>5, <1>6
<1>8. g[n] = h[n]
  BY <1>1, <1>7, TablesAgree
<1>9. h[n + 1] = Apply(h[n], t)
  BY <1>1, <1>5, <1>6
<1>10. QED
  BY <1>2, <1>3, <1>8, <1>9 DEF new

\* No points, no state.
LEMMA ApplyNone == ApplyAll(<<>>) = ZeroState
<1>1. <<>> \in Seq(Points) /\ Len(<<>>) = 0
  OBVIOUS
<1>2. PICK g : ApplyTable(<<>>, 0, g) /\ ApplyAll(<<>>) = g[0]
  BY <1>1, ApplyAtEnd
<1>3. g[0] = ZeroState
  BY <1>2 DEF ApplyTable
<1>4. QED
  BY <1>2, <1>3

\* Sorting what is sorted changes nothing.
LEMMA SortedStays ==
    ASSUME NEW s \in Seq(Points), InOrder(s)
    PROVE  ByEventTime(s) = s
<1> DEFINE n == Len(s)
           below(i) == {j \in DOMAIN s : \/ s[j].ts < s[i].ts
                                         \/ s[j].ts = s[i].ts /\ j <= i}
           rank == [i \in DOMAIN s |-> Cardinality(below(i))]
           pick(m) == CHOOSE i \in DOMAIN s : rank[i] = m
<1>1. n \in Nat /\ DOMAIN s = 1 .. n /\ s = [i \in 1 .. n |-> s[i]]
  OBVIOUS
<1>2. \A i \in 1 .. n : s[i].ts \in Nat
  BY <1>1, IngestDomains DEF Telemetry
<1>3. ASSUME NEW i \in 1 .. n PROVE rank[i] = i
  <2>1. \A j \in 1 .. n : /\ j < i => s[j].ts <= s[i].ts
                          /\ i < j => s[i].ts <= s[j].ts
    BY <1>1 DEF InOrder
  <2>2. \A j \in 1 .. n : (s[j].ts < s[i].ts \/ (s[j].ts = s[i].ts /\ j <= i)) <=> j <= i
    BY <1>1, <1>2, <2>1
  <2>3. below(i) = 1 .. i
    BY <1>1, <2>2
  <2>4. Cardinality(1 .. i) = i
    BY FS_Interval
  <2> HIDE DEF below
  <2>5. QED
    BY <1>1, <2>3, <2>4
<1>4. ByEventTime(s) = [m \in 1 .. n |-> s[pick(m)]]
  BY <1>1 DEF ByEventTime
<1> HIDE DEF rank
<1>5. \A m \in 1 .. n : pick(m) = m
  BY <1>1, <1>3
<1> HIDE DEF pick
<1>6. [m \in 1 .. n |-> s[pick(m)]] = [m \in 1 .. n |-> s[m]]
  BY <1>5
<1>7. QED
  BY <1>1, <1>4, <1>6

\* Two states that differ in presence at most.
Alike(s, u) ==
    /\ s.motion = u.motion /\ s.ign = u.ign /\ s.speed = u.speed
    /\ s.loc = u.loc /\ s.lastSeen = u.lastSeen

\* A point that is not late forgets the presence it finds.
LEMMA ApplyAlike ==
    ASSUME NEW s, NEW u, NEW t, Alike(s, u), ~Late(s, t)
    PROVE  Apply(s, t) = Apply(u, t)
BY DEF Alike, Late, Apply

\* The live state s of a vehicle whose points are mine: its watermark is the
\* time of one of them and, when they came in order, a rebuild gives s back up
\* to what the sweeper did to its presence.  The first part makes the second
\* inductive: it says that the next point in order is not late.
Rebuilt(s, mine) ==
    /\ s.lastSeen = NoTime \/ \E i \in DOMAIN mine : mine[i].ts = s.lastSeen
    /\ InOrder(mine) => /\ Alike(ApplyAll(mine), s)
                        /\ s.presence # "offline" => ApplyAll(mine) = s

RebuildInv == \A v \in Vehicles : Rebuilt(states[v], OfVehicle(folded, v))

\* One point more.
LEMMA RebuiltFold ==
    ASSUME NEW s \in VehicleStates, NEW mine \in Seq(Points), NEW t \in Points, Rebuilt(s, mine)
    PROVE  Rebuilt(Apply(s, t), Append(mine, t))
<1> DEFINE n == Len(mine)
           g == Append(mine, t)
           a == Apply(s, t)
<1>1. /\ DOMAIN mine = 1 .. n /\ DOMAIN g = 1 .. n + 1 /\ n \in Nat /\ g[n + 1] = t
      /\ \A i \in DOMAIN mine : g[i] = mine[i] /\ i \in DOMAIN g /\ n + 1 \in DOMAIN g
                                /\ i \in Nat /\ i < n + 1
  OBVIOUS
<1>2. t \in Telemetry(Keys, Vehicles) /\ t.ts \in Nat /\ s.lastSeen \in Nat
  BY IngestDomains DEF Telemetry, VehicleStates
<1>3. a.lastSeen = t.ts \/ a.lastSeen = s.lastSeen
  BY <1>2, ApplyNewest
<1>4. n + 1 \in DOMAIN g
  BY <1>1
<1>5. ApplyAll(g) = Apply(ApplyAll(mine), t)
  BY ApplyOne
<1> HIDE DEF n, g, a
<1>6. a.lastSeen = NoTime \/ \E i \in DOMAIN g : g[i].ts = a.lastSeen
  BY <1>1, <1>3, <1>4 DEF Rebuilt
<1>7. ASSUME InOrder(g) PROVE ApplyAll(g) = a
  <2>1. InOrder(mine)
    BY <1>1, <1>7 DEF InOrder
  <2>2. \A i \in DOMAIN mine : mine[i].ts <= t.ts
    BY <1>1, <1>7 DEF InOrder
  <2>3. ~Late(s, t)
    BY <1>2, <2>2 DEF Rebuilt, Late
  <2>4. Alike(ApplyAll(mine), s)
    BY <2>1 DEF Rebuilt
  <2>5. ~Late(ApplyAll(mine), t)
    BY <2>3, <2>4 DEF Late, Alike
  <2>6. QED
    BY <1>5, <2>4, <2>5, ApplyAlike DEF a
<1>8. QED
  BY <1>6, <1>7 DEF Rebuilt, Alike, g, a

\* Hot state is disposable: for any points and vehicles, a rebuild from the
\* folded points of a vehicle that came in event-time order is its live state
\* (RebuildFrom against Process).
THEOREM SerialRebuild == Spec => []RebuildAgreesInOrder
<1>1. Init => RebuildInv
  <2> SUFFICES ASSUME Init, NEW v \in Vehicles PROVE Rebuilt(states[v], OfVehicle(folded, v))
    BY DEF RebuildInv
  <2>1. states[v] = ZeroState /\ OfVehicle(folded, v) = <<>>
    BY MineNone DEF Init
  <2>2. QED
    BY <2>1, ApplyNone, ZeroUnseen DEF Rebuilt, Alike
<1>2. TypeOK /\ RebuildInv /\ [Next]_vars => RebuildInv'
  <2> SUFFICES ASSUME TypeOK, RebuildInv, [Next]_vars, NEW v \in Vehicles
               PROVE  Rebuilt(states'[v], OfVehicle(folded', v))
    BY DEF RebuildInv
  <2>0. /\ Rebuilt(states[v], OfVehicle(folded, v)) /\ states[v] \in VehicleStates
        /\ folded \in Seq(Points) /\ states \in [Vehicles -> VehicleStates]
        /\ OfVehicle(folded, v) \in Seq(Points)
    BY MineAtEnd DEF RebuildInv, TypeOK
  <2>1. ASSUME NEW t \in Points, Ingest(t) PROVE Rebuilt(states'[v], OfVehicle(folded', v))
    <3>1. /\ states' = [states EXCEPT ![t.veh] = Apply(states[t.veh], t)]
          /\ folded' = Append(folded, t)
      BY <2>1 DEF Ingest
    <3>2. OfVehicle(folded', v) =
                IF t.veh = v THEN Append(OfVehicle(folded, v), t) ELSE OfVehicle(folded, v)
      BY <2>0, <3>1, MineOne
    <3>3. CASE t.veh = v
      BY <2>0, <3>1, <3>2, <3>3, RebuiltFold
    <3>4. CASE t.veh # v
      BY <2>0, <3>1, <3>2, <3>4
    <3>5. QED
      BY <3>3, <3>4
  <2>2. ASSUME NEW u \in Vehicles, NEW at \in Instants, MarkOffline(u, at)
        PROVE  Rebuilt(states'[v], OfVehicle(folded', v))
    <3>1. folded' = folded /\ states' = [states EXCEPT ![u] = CheckOffline(states[u], 0, at)]
      BY <2>2 DEF MarkOffline
    <3>2. CASE u = v
      <4>1. states'[v] = [states[v] EXCEPT !.presence = "offline"]
        BY <2>0, <2>2, <3>1, <3>2 DEF MarkOffline, CheckOffline
      <4>2. states'[v].presence = "offline" /\ Alike(states[v], states'[v])
        BY <2>0, <4>1 DEF Alike, VehicleStates
      <4>3. QED
        BY <2>0, <3>1, <4>2 DEF Rebuilt, Alike
    <3>3. CASE u # v
      BY <2>0, <3>1, <3>3
    <3>4. QED
      BY <3>2, <3>3
  <2>3. CASE UNCHANGED vars
    BY <2>0, <2>3 DEF vars
  <2>4. QED
    BY <2>1, <2>2, <2>3 DEF Next
<1>3. TypeOK /\ RebuildInv => RebuildAgreesInOrder
  <2> SUFFICES ASSUME TypeOK, RebuildInv, NEW v \in Vehicles,
                      InOrder(OfVehicle(folded, v)), states[v].presence # "offline"
               PROVE  RebuildFrom(folded, v) = states[v]
    BY DEF RebuildAgreesInOrder
  <2>1. OfVehicle(folded, v) \in Seq(Points)
    BY MineAtEnd DEF TypeOK
  <2>2. QED
    BY <2>1, SortedStays DEF RebuildInv, Rebuilt, RebuildFrom
<1>4. QED
  BY <1>1, <1>2, <1>3, SerialTypes, PTL DEF Spec

----------------------------------------------------------------------------
(* Replay.                                                                 *)

\* The order replay.Run sorts by has no two points before each other.
LEMMA BeforeStrict ==
    ASSUME NEW t \in Points, NEW u \in Points, Before(t, u)
    PROVE  ~Before(u, t)
<1>1. t.ts \in Nat /\ u.ts \in Nat
  BY IngestDomains DEF Telemetry
<1>2. ASSUME IdLess(t.id, u.id), IdLess(u.id, t.id) PROVE FALSE
  <2>1. PICK i, j \in DOMAIN IdOrder : i < j /\ IdOrder[i] = t.id /\ IdOrder[j] = u.id
    BY <1>2 DEF IdLess
  <2>2. PICK k, l \in DOMAIN IdOrder : k < l /\ IdOrder[k] = u.id /\ IdOrder[l] = t.id
    BY <1>2 DEF IdLess
  <2>3. i = l /\ j = k
    BY <2>1, <2>2, IdsOrdered
  <2>4. i \in Int /\ j \in Int
    BY IdsOrdered
  <2>5. QED
    BY <2>1, <2>2, <2>3, <2>4
<1>3. QED
  BY <1>1, <1>2 DEF Before

\* How many indices a permutation sends to k or below.
LEMMA RankOf ==
    ASSUME NEW n \in Nat, NEW p \in Injection(1 .. n, 1 .. n), NEW i \in 1 .. n
    PROVE  Cardinality({j \in 1 .. n : p[j] <= p[i]}) = p[i]
<1> DEFINE L == {j \in 1 .. n : p[j] <= p[i]}
           h == [j \in L |-> p[j]]
<1>1. /\ p \in [1 .. n -> 1 .. n] /\ p[i] \in 1 .. n
      /\ \A a, b \in 1 .. n : p[a] = p[b] => a = b
  BY DEF Injection, IsInjective
<1>2. \A m \in 1 .. n : \E j \in 1 .. n : p[j] = m
  <2>1. IsFiniteSet(1 .. n)
    BY FS_Interval
  <2>2. p \in Surjection(1 .. n, 1 .. n)
    BY <2>1, FS_Injection
  <2>3. QED
    BY <2>2 DEF Surjection
<1>3. h \in [L -> 1 .. p[i]]
  BY <1>1
<1>4. \A a, b \in L : h[a] = h[b] => a = b
  BY <1>1
<1>5. \A m \in 1 .. p[i] : \E j \in L : h[j] = m
  <2>1. \A m \in 1 .. p[i] : m \in 1 .. n
    BY <1>1
  <2>2. QED
    BY <1>1, <1>2, <2>1
<1> HIDE DEF L
<1>6. DOMAIN h = L
  OBVIOUS
<1> HIDE DEF h
<1>7. h \in Bijection(L, 1 .. p[i])
  BY <1>3, <1>4, <1>5, <1>6 DEF Bijection, Injection, Surjection, IsInjective
<1>8. IsFiniteSet(L)
  <2>1. IsFiniteSet(1 .. n) /\ L \subseteq 1 .. n
    BY FS_Interval DEF L
  <2>2. QED
    BY <2>1, FS_Subset
<1>9. Cardinality(1 .. p[i]) = Cardinality(L)
  <2>1. ExistsBijection(L, 1 .. p[i])
    BY <1>7 DEF ExistsBijection
  <2>2. QED
    BY <1>8, <2>1, FS_Bijection
<1>10. Cardinality(1 .. p[i]) = p[i]
  BY <1>1, FS_Interval
<1>11. QED
  BY <1>9, <1>10 DEF L

\* The sort of replay.Run undoes any shuffle of points in order.
LEMMA OrderedUndoes ==
    ASSUME NEW f \in Seq(Points), InReplayOrder(f), NEW p \in Injection(DOMAIN f, DOMAIN f)
    PROVE  Ordered([i \in DOMAIN f |-> f[p[i]]]) = f
<1> DEFINE n == Len(f)
           g == [i \in DOMAIN f |-> f[p[i]]]
           below(i) == {j \in DOMAIN g : \/ Before(g[j], g[i])
                                         \/ ~Before(g[i], g[j]) /\ j <= i}
           rank == [i \in DOMAIN g |-> Cardinality(below(i))]
           pick(m) == CHOOSE i \in DOMAIN g : rank[i] = m
<1>1. n \in Nat /\ DOMAIN f = 1 .. n /\ DOMAIN g = 1 .. n /\ f = [m \in 1 .. n |-> f[m]]
  OBVIOUS
<1>2. /\ p \in Injection(1 .. n, 1 .. n) /\ p \in [1 .. n -> 1 .. n]
      /\ \A a, b \in 1 .. n : p[a] = p[b] => a = b
  BY <1>1 DEF Injection, IsInjective
<1>3. \A i \in 1 .. n : g[i] = f[p[i]] /\ p[i] \in 1 .. n /\ g[i] \in Points
  BY <1>1, <1>2
<1>4. Ordered(g) = [m \in DOMAIN g |-> g[pick(m)]]
  BY DEF Ordered, SortedBy
<1> HIDE DEF n, g
<1>5. ASSUME NEW i \in 1 .. n PROVE rank[i] = p[i]
  <2>1. ASSUME NEW j \in 1 .. n
        PROVE  (Before(g[j], g[i]) \/ (~Before(g[i], g[j]) /\ j <= i)) <=> p[j] <= p[i]
    <3>0. p[i] \in 1 .. n /\ p[j] \in 1 .. n
      BY <1>2
    <3>1. p[i] \in Nat /\ p[j] \in Nat
      BY <1>1, <3>0
    <3>2. CASE p[j] < p[i]
      <4>1. Before(g[j], g[i])
        BY <1>1, <1>3, <3>2 DEF InReplayOrder
      <4>2. QED
        BY <3>1, <3>2, <4>1
    <3>3. CASE p[j] = p[i]
      <4>1. i = j
        BY <1>2, <3>3
      <4>2. ~Before(g[i], g[j])
        BY <1>3, <4>1, BeforeStrict
      <4>3. QED
        BY <3>1, <3>3, <4>1, <4>2
    <3>4. CASE p[i] < p[j]
      <4>1. Before(g[i], g[j])
        BY <1>1, <1>3, <3>4 DEF InReplayOrder
      <4>2. ~Before(g[j], g[i])
        BY <1>3, <4>1, BeforeStrict
      <4>3. QED
        BY <3>1, <3>4, <4>1, <4>2
    <3>5. QED
      BY <3>1, <3>2, <3>3, <3>4
  <2>2. below(i) = {j \in 1 .. n : p[j] <= p[i]}
    BY <1>1, <2>1
  <2> HIDE DEF below
  <2>3. QED
    BY <1>1, <1>2, <2>2, RankOf
<1>6. \A m \in 1 .. n : \E i \in 1 .. n : p[i] = m
  <2>1. IsFiniteSet(1 .. n)
    BY <1>1, FS_Interval
  <2>2. p \in Surjection(1 .. n, 1 .. n)
    BY <1>2, <2>1, FS_Injection
  <2>3. QED
    BY <2>2 DEF Surjection
<1> HIDE DEF rank
<1>7. ASSUME NEW m \in 1 .. n PROVE g[pick(m)] = f[m]
  <2>1. pick(m) \in 1 .. n /\ rank[pick(m)] = m
    BY <1>1, <1>5, <1>6
  <2>2. p[pick(m)] = m
    BY <1>5, <2>1
  <2>3. QED
    BY <1>3, <2>1, <2>2
<1> HIDE DEF pick
<1>8. QED
  BY <1>1, <1>4, <1>7 DEF g

\* ... and leaves points in order alone.
LEMMA OrderedStays ==
    ASSUME NEW f \in Seq(Points), InReplayOrder(f)
    PROVE  Ordered(f) = f
<1> DEFINE p == [i \in DOMAIN f |-> i]
<1>1. p \in Injection(DOMAIN f, DOMAIN f)
  BY DEF Injection, IsInjective
<1>2. [i \in DOMAIN f |-> f[p[i]]] = f
  OBVIOUS
<1> HIDE DEF p
<1>3. QED
  BY <1>1, <1>2, OrderedUndoes

\* The pipelines a replay goes through.
Pipelines ==
    [states : [Vehicles -> VehicleStates], tracks : [Vehicles -> Tracks], seen : SUBSET Keys,
     events : Seq(DetectorEvents(Vehicles)), err : BOOLEAN]

\* Process keeps a pipeline well typed.
LEMMA ProcessType ==
    ASSUME NEW q \in Pipelines, NEW t \in Points
    PROVE  Process(q, t) \in Pipelines
<1> DEFINE next == Apply(q.states[t.veh], t)
           det == Detect(q.tracks[t.veh], t, next)
           done == [states |-> [q.states EXCEPT ![t.veh] = next],
                    tracks |-> [q.tracks EXCEPT ![t.veh] = det.trk],
                    seen |-> q.seen \union {t.key},
                    events |-> q.events \o det.out, err |-> FALSE]
<1>1. t \in Telemetry(Keys, Vehicles) /\ t.veh \in Vehicles /\ t.key \in Keys
  BY IngestDomains DEF Telemetry
<1>2. next \in VehicleStates
  BY <1>1, ApplyType DEF Pipelines
<1>3. det.trk \in Tracks /\ det.out \in Seq(DetectorEvents(Vehicles))
  BY <1>1, DetectType DEF Pipelines
<1>4. Process(q, t) \in {q, [q EXCEPT !.err = TRUE, !.events = <<>>], done}
  BY DEF Process
<1> HIDE DEF next, det
<1>5. done \in Pipelines
  <2>1. /\ [q.states EXCEPT ![t.veh] = next] \in [Vehicles -> VehicleStates]
        /\ [q.tracks EXCEPT ![t.veh] = det.trk] \in [Vehicles -> Tracks]
        /\ q.seen \union {t.key} \in SUBSET Keys
    BY <1>1, <1>2, <1>3 DEF Pipelines
  <2>2. q.events \o det.out \in Seq(DetectorEvents(Vehicles))
    BY <1>3 DEF Pipelines
  <2>3. QED
    BY <2>1, <2>2 DEF Pipelines
<1> HIDE DEF done
<1>6. [q EXCEPT !.err = TRUE, !.events = <<>>] \in Pipelines
  <2>1. <<>> \in Seq(DetectorEvents(Vehicles)) /\ TRUE \in BOOLEAN
    OBVIOUS
  <2>2. QED
    BY <2>1 DEF Pipelines
<1>7. QED
  BY <1>4, <1>5, <1>6

RunTable(s, n, g) ==
    g = [m \in 0 .. n |-> IF m = 0 THEN FreshPipeline(Vehicles) ELSE Process(g[m - 1], s[m])]

\* ProcessAll is the end of its table.
LEMMA RunAtEnd ==
    ASSUME NEW s \in Seq(Points)
    PROVE  \E g : /\ RunTable(s, Len(s), g)
                  /\ ProcessAll(s, Vehicles) = g[Len(s)]
                  /\ ProcessAll(s, Vehicles) \in Pipelines
<1> DEFINE n == Len(s)
           z == FreshPipeline(Vehicles)
           F == [x \in Pipelines |-> [i \in 1 .. n |-> Process(x, s[i])]]
           f == CHOOSE g : g = [m \in 0 .. Len(s) |->
                    IF m = 0 THEN FreshPipeline(Vehicles) ELSE Process(g[m - 1], s[m])]
<1>0. n \in Nat /\ z \in Pipelines
  BY ZeroTypes DEF FreshPipeline, Pipelines
<1>1. ASSUME NEW x \in Pipelines, NEW i \in 1 .. n
      PROVE  F[x][i] = Process(x, s[i]) /\ F[x][i] \in Pipelines
  <2>1. F[x][i] = Process(x, s[i]) /\ s[i] \in Points
    OBVIOUS
  <2> HIDE DEF F
  <2>2. QED
    BY <2>1, ProcessType
<1> HIDE DEF F, n, z
<1>2. PICK g : LoopFrom(z, F, Pipelines, n, g)
  <2> HIDE DEF f
  <2>1. BodyIn(F, Pipelines, n)
    BY <1>1 DEF BodyIn
  <2>2. QED
    BY <1>0, <2>1, LoopTable
<1>3. ASSUME NEW i \in 1 .. n PROVE g[i] = Process(g[i - 1], s[i])
  <2>1. i - 1 \in 0 .. n
    BY <1>0
  <2>2. g[i - 1] \in Pipelines
    BY <1>2, <2>1 DEF LoopFrom
  <2>3. QED
    BY <1>1, <1>2, <2>2 DEF LoopFrom
<1>4. RunTable(s, n, g)
  <2>1. \A m \in 0 .. n : m = 0 \/ m \in 1 .. n
    BY <1>0
  <2>2. QED
    BY <1>2, <1>3, <2>1 DEF LoopFrom, RunTable, z
<1>5. RunTable(s, n, f)
  BY <1>4 DEF RunTable, n
<1>6. ProcessAll(s, Vehicles) = f[n]
  BY DEF ProcessAll, n
<1> HIDE DEF f
<1>7. f[n] = g[n]
  <2>1. \A m \in 0 .. n : f[m] = IF m = 0 THEN z ELSE Process(f[m - 1], s[m])
    BY <1>5 DEF RunTable, z
  <2>2. 0 \in 0 .. n /\ \A i \in 1 .. n : i \in 0 .. n /\ i # 0
    BY <1>0
  <2>3. f[0] = g[0] /\ \A i \in 1 .. n : f[i - 1] = g[i - 1] => f[i] = g[i]
    BY <1>2, <1>3, <2>1, <2>2 DEF LoopFrom
  <2>4. QED
    BY <1>0, <2>3, TablesAgree
<1>8. g[n] \in Pipelines
  BY <1>0, <1>2 DEF LoopFrom
<1>9. QED
  BY <1>5, <1>6, <1>7, <1>8 DEF n

\* One point more is one Process more.
LEMMA RunOne ==
    ASSUME NEW s \in Seq(Points), NEW t \in Points
    PROVE  ProcessAll(Append(s, t), Vehicles) = Process(ProcessAll(s, Vehicles), t)
<1> DEFINE new == Append(s, t)
           n == Len(s)
           z == FreshPipeline(Vehicles)
<1>1. /\ n \in Nat /\ new \in Seq(Points) /\ Len(new) = n + 1 /\ new[n + 1] = t
      /\ \A i \in 1 .. n : new[i] = s[i]
  OBVIOUS
<1> HIDE DEF new, n, z
<1>2. PICK g : RunTable(s, n, g) /\ ProcessAll(s, Vehicles) = g[n]
  BY RunAtEnd DEF n
<1>3. PICK h : RunTable(new, n + 1, h) /\ ProcessAll(new, Vehicles) = h[n + 1]
  BY <1>1, RunAtEnd
<1>4. \A i \in 0 .. n : g[i] = IF i = 0 THEN z ELSE Process(g[i - 1], s[i])
  BY <1>2 DEF RunTable, z
<1>5. \A i \in 0 .. n + 1 : h[i] = IF i = 0 THEN z ELSE Process(h[i - 1], new[i])
  BY <1>3 DEF RunTable, z
<1>6. /\ 0 \in 0 .. n /\ 0 \in 0 .. n + 1 /\ n + 1 \in 0 .. n + 1 /\ n + 1 # 0 /\ (n + 1) - 1 = n
      /\ \A i \in 1 .. n : i \in 0 .. n /\ i \in 0 .. n + 1 /\ i # 0
  BY <1>1
<1>7. g[0] = h[0] /\ \A i \in 1 .. n : g[i - 1] = h[i - 1] => g[i] = h[i]
  BY <1>1, <1>4, <1>5, <1>6
<1>8. g[n] = h[n]
  BY <1>1, <1>7, TablesAgree
<1>9. h[n + 1] = Process(h[n], t)
  BY <1>1, <1>5, <1>6
<1>10. QED
  BY <1>2, <1>3, <1>8, <1>9 DEF new

\* A replay of nothing is a fresh pipeline.
LEMMA RunNone == ProcessAll(<<>>, Vehicles) = FreshPipeline(Vehicles)
<1>1. <<>> \in Seq(Points) /\ Len(<<>>) = 0
  OBVIOUS
<1>2. PICK g : RunTable(<<>>, 0, g) /\ ProcessAll(<<>>, Vehicles) = g[0]
  BY <1>1, RunAtEnd
<1>3. g[0] = FreshPipeline(Vehicles)
  BY <1>2 DEF RunTable
<1>4. QED
  BY <1>2, <1>3

Correlated(f) == \A i \in DOMAIN f : f[i].corr

\* The replaying pipeline q is where the live one is, up to the presence of
\* vehicles, which only the live sweeper changes.
Mirrors(q, st, tr, f, em) ==
    /\ ~q.err /\ q.events = em /\ q.tracks = tr
    /\ q.seen = {f[i].key : i \in DOMAIN f}
    /\ \A v \in Vehicles : Alike(q.states[v], st[v])

ReplayInv ==
    (InReplayOrder(folded) /\ Correlated(folded))
        => Mirrors(ProcessAll(folded, Vehicles), states, tracks, folded, emitted)

\* The first points of a record in order are in order, and the last is not
\* older than any.
LEMMA OrderedPrefix ==
    ASSUME NEW f \in Seq(Points), NEW t \in Points,
           InReplayOrder(Append(f, t)), Correlated(Append(f, t))
    PROVE  /\ InReplayOrder(f) /\ Correlated(f) /\ t.corr
           /\ \A i \in DOMAIN f : f[i].ts <= t.ts
<1> DEFINE n == Len(f)
           g == Append(f, t)
<1>1. /\ n \in Nat /\ DOMAIN f = 1 .. n /\ DOMAIN g = 1 .. n + 1 /\ g[n + 1] = t
      /\ \A i \in DOMAIN f : g[i] = f[i]
  OBVIOUS
<1>2. \A i \in DOMAIN f : i \in DOMAIN g /\ n + 1 \in DOMAIN g /\ i < n + 1
  BY <1>1
<1>3. n + 1 \in DOMAIN g
  BY <1>1
<1>4. InReplayOrder(g) /\ Correlated(g)
  OBVIOUS
<1> HIDE DEF g, n
<1>5. \A i \in DOMAIN f : Before(f[i], t)
  BY <1>1, <1>2, <1>4 DEF InReplayOrder
<1>6. \A i \in DOMAIN f : f[i].ts \in Nat /\ t.ts \in Nat
  BY IngestDomains DEF Telemetry
<1>7. \A i \in DOMAIN f : f[i].ts <= t.ts
  BY <1>5, <1>6 DEF Before
<1>8. InReplayOrder(f) /\ Correlated(f) /\ t.corr
  BY <1>1, <1>2, <1>3, <1>4 DEF InReplayOrder, Correlated
<1>9. QED
  BY <1>7, <1>8

\* Live and replayed, the next point in order has the same effect: it is late
\* in neither, new in both, and its events carry its correlation id.
LEMMA MirrorIngest ==
    ASSUME TypeOK, LatestWins, NEW t \in Points, Ingest(t), NEW q \in Pipelines,
           Mirrors(q, states, tracks, folded, emitted), t.corr,
           \A i \in DOMAIN folded : folded[i].ts <= t.ts
    PROVE  Mirrors(Process(q, t), states', tracks', folded', emitted')
<1> DEFINE next == Apply(states[t.veh], t)
           det == Detect(tracks[t.veh], t, next)
           done == [states |-> [q.states EXCEPT ![t.veh] = next],
                    tracks |-> [q.tracks EXCEPT ![t.veh] = det.trk],
                    seen |-> q.seen \union {t.key},
                    events |-> q.events \o det.out, err |-> FALSE]
<1>1. /\ t \in Telemetry(Keys, Vehicles) /\ t.veh \in Vehicles /\ t.ts \in Nat
      /\ tracks[t.veh] \in Tracks /\ folded \in Seq(Points)
      /\ states \in [Vehicles -> VehicleStates]
  BY IngestDomains DEF Telemetry, TypeOK
<1>2. /\ Valid(t) /\ \A i \in DOMAIN folded : folded[i].key # t.key
      /\ states' = [states EXCEPT ![t.veh] = next]
      /\ tracks' = [tracks EXCEPT ![t.veh] = det.trk]
      /\ folded' = Append(folded, t)
      /\ emitted' = emitted \o det.out
  BY DEF Ingest
<1>3. ~Late(states[t.veh], t)
  <2>1. Fits(states[t.veh], folded, t.veh)
    BY <1>1, LatestWinsFits
  <2>2. states[t.veh].lastSeen = NoTime \/ \E i \in DOMAIN folded :
                                                states[t.veh].lastSeen = folded[i].ts
    BY <2>1, ZeroUnseen DEF Fits, NewestOf
  <2>3. \A i \in DOMAIN folded : folded[i].ts \in Nat
    BY <1>1, IngestDomains DEF Telemetry
  <2>4. QED
    BY <1>1, <2>2, <2>3 DEF Late
<1>4. Alike(q.states[t.veh], states[t.veh]) /\ ~Late(q.states[t.veh], t)
  BY <1>1, <1>3 DEF Mirrors, Alike, Late
<1>5. Apply(q.states[t.veh], t) = next
  BY <1>4, ApplyAlike
<1>6. q.tracks[t.veh] = tracks[t.veh] /\ ~q.err /\ t.key \notin q.seen
  BY <1>2 DEF Mirrors
<1>7. \A i \in DOMAIN det.out : EventValid(det.out[i])
  <2>1. OfPoint(det.out, {"speeding", "idling", "trip"}, t)
    BY <1>1, DetectOut
  <2>2. t.ts # NoTime
    BY <1>1, <1>2 DEF Valid, NoTime
  <2> HIDE DEF det
  <2>3. \A i \in DOMAIN det.out : det.out[i].corr = t.corr /\ det.out[i].ts = t.ts
    BY <2>1 DEF OfPoint
  <2>4. QED
    BY <2>2, <2>3 DEF EventValid
<1> HIDE DEF next
<1>8. Process(q, t) = done
  <2> DEFINE qd == Detect(q.tracks[t.veh], t, Apply(q.states[t.veh], t))
  <2>1. qd = det
    BY <1>5, <1>6
  <2>2. ~(\E i \in DOMAIN qd.out : ~EventValid(qd.out[i]))
    BY <1>7, <2>1
  <2>3. Process(q, t) =
            [states |-> [q.states EXCEPT ![t.veh] = Apply(q.states[t.veh], t)],
             tracks |-> [q.tracks EXCEPT ![t.veh] = qd.trk],
             seen |-> q.seen \union {t.key},
             events |-> q.events \o qd.out, err |-> FALSE]
    BY <1>2, <1>6, <2>2 DEF Process
  <2> HIDE DEF qd, det
  <2>4. QED
    BY <1>5, <2>1, <2>3
<1> HIDE DEF det
<1>9. /\ ~done.err /\ done.events = emitted' /\ done.tracks = tracks'
      /\ done.seen = q.seen \union {t.key}
      /\ done.states = [q.states EXCEPT ![t.veh] = next]
  BY <1>2 DEF Mirrors
<1> HIDE DEF done
<1>10. done.seen = {folded'[i].key : i \in DOMAIN folded'}
  <2> DEFINE n == Len(folded)
  <2>1. /\ n \in Nat /\ DOMAIN folded = 1 .. n /\ DOMAIN folded' = 1 .. n + 1
        /\ folded'[n + 1] = t /\ \A i \in DOMAIN folded : folded'[i] = folded[i]
    BY <1>1, <1>2
  <2> HIDE DEF n
  <2>2. \A i \in DOMAIN folded' : i \in DOMAIN folded \/ i = n + 1
    BY <2>1
  <2>3. n + 1 \in DOMAIN folded' /\ \A i \in DOMAIN folded : i \in DOMAIN folded'
    BY <2>1
  <2>4. q.seen = {folded[i].key : i \in DOMAIN folded}
    BY DEF Mirrors
  <2>5. QED
    BY <1>9, <2>1, <2>2, <2>3, <2>4
<1>11. ASSUME NEW v \in Vehicles PROVE Alike(done.states[v], states'[v])
  <2>1. q.states \in [Vehicles -> VehicleStates]
    BY DEF Pipelines
  <2>2. CASE v = t.veh
    <3>1. done.states[v] = next /\ states'[v] = next
      BY <1>1, <1>2, <1>9, <2>1, <2>2
    <3>2. QED
      BY <3>1 DEF Alike
  <2>3. CASE v # t.veh
    <3>1. done.states[v] = q.states[v] /\ states'[v] = states[v]
      BY <1>1, <1>2, <1>9, <2>1, <2>3
    <3>2. QED
      BY <3>1 DEF Mirrors
  <2>4. QED
    BY <2>2, <2>3
<1>12. QED
  BY <1>8, <1>9, <1>10, <1>11 DEF Mirrors

\* The replay of an empty record mirrors the initial state.
LEMMA ReplayInit == Init => ReplayInv
<1> SUFFICES ASSUME Init PROVE Mirrors(FreshPipeline(Vehicles), states, tracks, folded, emitted)
  BY RunNone DEF ReplayInv, Init
<1>1. folded = <<>> /\ DOMAIN folded = {}
  BY DEF Init
<1>2. {folded[i].key : i \in DOMAIN folded} = {}
  BY <1>1
<1>3. QED
  BY <1>2 DEF Init, Mirrors, FreshPipeline, Alike

\* Every step of ingestion and of the sweeper keeps the mirror.
LEMMA ReplayStep == TypeOK /\ LatestWins /\ ReplayInv /\ [Next]_vars => ReplayInv'
<1> SUFFICES ASSUME TypeOK, LatestWins, ReplayInv, [Next]_vars,
                    InReplayOrder(folded'), Correlated(folded')
             PROVE  Mirrors(ProcessAll(folded', Vehicles), states', tracks', folded', emitted')
  BY DEF ReplayInv
<1>0. folded \in Seq(Points) /\ ProcessAll(folded, Vehicles) \in Pipelines
  BY RunAtEnd DEF TypeOK
<1>1. ASSUME NEW t \in Points, Ingest(t)
      PROVE  Mirrors(ProcessAll(folded', Vehicles), states', tracks', folded', emitted')
  <2>1. folded' = Append(folded, t)
    BY <1>1 DEF Ingest
  <2>2. /\ InReplayOrder(folded) /\ Correlated(folded) /\ t.corr
        /\ \A i \in DOMAIN folded : folded[i].ts <= t.ts
    BY <1>0, <2>1, OrderedPrefix
  <2>3. Mirrors(ProcessAll(folded, Vehicles), states, tracks, folded, emitted)
    BY <2>2 DEF ReplayInv
  <2>4. ProcessAll(folded', Vehicles) = Process(ProcessAll(folded, Vehicles), t)
    BY <1>0, <2>1, RunOne
  <2>5. QED
    BY <1>0, <1>1, <2>2, <2>3, <2>4, MirrorIngest
<1>2. ASSUME NEW u \in Vehicles, NEW at \in Instants, MarkOffline(u, at)
      PROVE  Mirrors(ProcessAll(folded', Vehicles), states', tracks', folded', emitted')
  <2>1. /\ UNCHANGED <<tracks, folded, emitted>>
        /\ states' = [states EXCEPT ![u] = CheckOffline(states[u], 0, at)]
    BY <1>2 DEF MarkOffline
  <2>2. Mirrors(ProcessAll(folded, Vehicles), states, tracks, folded, emitted)
    BY <2>1 DEF ReplayInv
  <2>3. ASSUME NEW v \in Vehicles PROVE Alike(states[v], states'[v])
    <3>1. states \in [Vehicles -> VehicleStates]
      BY DEF TypeOK
    <3>2. CASE u = v
      <4>1. states'[v] = [states[v] EXCEPT !.presence = "offline"]
        BY <1>2, <2>1, <3>1, <3>2 DEF MarkOffline, CheckOffline
      <4>2. QED
        BY <3>1, <4>1 DEF Alike, VehicleStates
    <3>3. CASE u # v
      BY <2>1, <3>1, <3>3 DEF Alike
    <3>4. QED
      BY <3>2, <3>3
  <2>4. \A v \in Vehicles : Alike(ProcessAll(folded, Vehicles).states[v], states'[v])
    BY <2>2, <2>3 DEF Mirrors, Alike
  <2>5. QED
    BY <2>1, <2>2, <2>4 DEF Mirrors
<1>3. CASE UNCHANGED vars
  BY <1>3 DEF vars, ReplayInv
<1>4. QED
  BY <1>1, <1>2, <1>3 DEF Next

\* For any points that arrive in event-time order with correlation ids, the
\* sort of replay.Run undoes whatever order their record is in, and Process on
\* a fresh pipeline then emits exactly the events emitted live.
THEOREM SerialReplay == Spec => []ReplayReproduces
<1>1. TypeOK /\ ReplayInv => ReplayReproduces
  <2> SUFFICES ASSUME TypeOK, ReplayInv, InReplayOrder(folded), Correlated(folded)
               PROVE  LET res == ReplayRun(folded, Vehicles)
                      IN  /\ ~res.err
                          /\ res.events = emitted
                          /\ \A p \in Injection(DOMAIN folded, DOMAIN folded) :
                                Ordered([i \in DOMAIN folded |-> folded[p[i]]]) = Ordered(folded)
    BY DEF ReplayReproduces, Correlated
  <2>1. folded \in Seq(Points)
    BY DEF TypeOK
  <2>2. Ordered(folded) = folded
    BY <2>1, OrderedStays
  <2>3. \A p \in Injection(DOMAIN folded, DOMAIN folded) :
            Ordered([i \in DOMAIN folded |-> folded[p[i]]]) = folded
    BY <2>1, OrderedUndoes
  <2>4. ReplayRun(folded, Vehicles) = ProcessAll(folded, Vehicles)
    BY <2>2 DEF ReplayRun
  <2>5. QED
    BY <2>2, <2>3, <2>4 DEF ReplayInv, Mirrors
<1>2. QED
  BY <1>1, ReplayInit, ReplayStep, SerialTypes, SerialLatestWins, PTL DEF Spec
=============================================================================
