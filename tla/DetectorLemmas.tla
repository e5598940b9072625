--------------------------- MODULE DetectorLemmas ---------------------------
(***************************************************************************)
(* Facts about the pure functions of VehicleState, Detectors and Geofence, *)
(* for any keys K and vehicles V: what they return and what they preserve. *)
(***************************************************************************)
EXTENDS Geofence, SequenceTheorems, WellFoundedInduction, TLAPS

\* Induction over the naturals, with a set for the predicate: a set with no
\* least counterexample has none.
LEMMA SetInduction ==
    ASSUME NEW S \in SUBSET Nat, 0 \in S, \A n \in S : n + 1 \in S
    PROVE  S = Nat
<1> DEFINE T == Nat \ S
           R == OpToRel(<, Nat)
<1>1. SUFFICES ASSUME T # {} PROVE FALSE
  OBVIOUS
<1>2. IsWellFoundedOn(R, Nat)
  BY NatLessThanWellFounded
<1>3. T \subseteq Nat
  OBVIOUS
<1> HIDE DEF R
<1>4. \E x \in T : \A y \in T : ~(<<y, x>> \in R)
  <2> HIDE DEF T
  <2> QED BY <1>1, <1>2, <1>3, WFMin
<1>5. PICK x \in T : \A y \in T : ~(<<y, x>> \in R)
  BY <1>4
<1>6. x \in Nat /\ x # 0 /\ x - 1 \in Nat
  BY <1>5
<1>7. x - 1 \in T
  BY <1>6, <1>5
<1>8. <<x - 1, x>> \in R
  BY <1>6 DEF R, OpToRel
<1> QED
  BY <1>5, <1>7, <1>8

\* A loop over 1 .. n whose body F stays in D, and the table of its values.
BodyIn(F, D, n) == \A x \in D, i \in 1 .. n : F[x][i] \in D
LoopFrom(z, F, D, n, g) ==
    g \in [0 .. n -> D] /\ g[0] = z /\ \A i \in 1 .. n : g[i] = F[g[i - 1]][i]

\* Every such loop has a table.
LEMMA LoopTable ==
    ASSUME NEW D, NEW z \in D, NEW n \in Nat, NEW F, BodyIn(F, D, n)
    PROVE  \E g : LoopFrom(z, F, D, n, g)
<1> USE DEF LoopFrom, BodyIn
<1> DEFINE Table(g, m) == /\ g \in [0 .. m -> D] /\ g[0] = z
                          /\ \A i \in 1 .. m : g[i] = F[g[i - 1]][i]
           S == {m \in Nat : m <= n => \E g : Table(g, m)}
<1>1. 0 \in S
  <2> DEFINE g == [i \in 0 .. 0 |-> z]
  <2>1. Table(g, 0)
    OBVIOUS
  <2>2. QED
    BY <2>1
<1>2. ASSUME NEW m \in S PROVE m + 1 \in S
  <2> SUFFICES ASSUME m + 1 <= n PROVE \E g : Table(g, m + 1)
    OBVIOUS
  <2>1. m \in Nat /\ m <= n /\ m + 1 \in 1 .. n
    OBVIOUS
  <2>2. PICK g : Table(g, m)
    BY <2>1
  <2> DEFINE last == F[g[m]][m + 1]
             h == [i \in 0 .. m + 1 |-> IF i <= m THEN g[i] ELSE last]
  <2>3. last \in D
    BY <2>1, <2>2
  <2>4. h \in [0 .. m + 1 -> D]
    <3> HIDE DEF last
    <3>1. \A i \in 0 .. m + 1 : i <= m => i \in 0 .. m
      BY <2>1
    <3>2. QED
      BY <2>2, <2>3, <3>1
  <2>5. h[0] = z
    BY <2>1, <2>2
  <2>6. ASSUME NEW i \in 1 .. m PROVE h[i] = F[h[i - 1]][i]
    <3> HIDE DEF last
    <3>1. i \in 0 .. m + 1 /\ i <= m /\ i - 1 \in 0 .. m + 1 /\ i - 1 <= m
      BY <2>1
    <3>2. h[i] = g[i] /\ h[i - 1] = g[i - 1]
      BY <3>1
    <3> HIDE DEF h
    <3>3. QED
      BY <2>2, <3>2
  <2>7. h[m + 1] = last /\ h[m] = g[m] /\ (m + 1) - 1 = m
    <3> HIDE DEF last
    <3>1. QED
      BY <2>1
  <2> HIDE DEF h
  <2>8. \A i \in 1 .. m + 1 : i \in 1 .. m \/ i = m + 1
    BY <2>1
  <2>9. Table(h, m + 1)
    BY <2>4, <2>5, <2>6, <2>7, <2>8
  <2>10. QED
    BY <2>9
<1>3. S = Nat
  <2>1. S \in SUBSET Nat
    OBVIOUS
  <2> HIDE DEF S
  <2>2. QED
    BY <1>1, <1>2, <2>1, SetInduction
<1>4. PICK g : Table(g, n)
  BY <1>3
<1>5. QED
  BY <1>4

\* Two tables of one loop agree.
LEMMA TablesAgree ==
    ASSUME NEW n \in Nat, NEW g, NEW h, g[0] = h[0],
           \A i \in 1 .. n : g[i - 1] = h[i - 1] => g[i] = h[i]
    PROVE  g[n] = h[n]
<1> DEFINE S == {m \in Nat : m <= n => g[m] = h[m]}
<1>1. 0 \in S
  OBVIOUS
<1>2. ASSUME NEW m \in S PROVE m + 1 \in S
  <2> SUFFICES ASSUME m + 1 <= n PROVE g[m + 1] = h[m + 1]
    OBVIOUS
  <2>1. m \in Nat /\ m <= n /\ m + 1 \in 1 .. n /\ (m + 1) - 1 = m
    OBVIOUS
  <2>2. QED
    BY <2>1
<1>3. S = Nat
  <2>1. S \in SUBSET Nat
    OBVIOUS
  <2> HIDE DEF S
  <2>2. QED
    BY <1>1, <1>2, <2>1, SetInduction
<1>4. QED
  BY <1>3

\* Engine.Apply returns a well-typed state.
LEMMA ApplyType ==
    ASSUME NEW K, NEW V, NEW s \in VehicleStates, NEW t \in Telemetry(K, V)
    PROVE  Apply(s, t) \in VehicleStates
<1>1. classifyMotion(s.motion, t) \in Motions
  BY DEF classifyMotion, Known, VehicleStates, Motions, Telemetry, Ignitions
<1>2. QED
  BY <1>1 DEF Apply, Known, Late, VehicleStates, Telemetry, Motions, Presences,
              Ignitions

\* After Engine.Apply the watermark is the later of the two times, and speed
\* and position are those of the point it came from.
LEMMA ApplyNewest ==
    ASSUME NEW K, NEW V, NEW s \in VehicleStates, NEW t \in Telemetry(K, V)
    PROVE  /\ s.lastSeen <= Apply(s, t).lastSeen
           /\ t.ts <= Apply(s, t).lastSeen
           /\ \/ /\ Apply(s, t).lastSeen = t.ts
                 /\ Apply(s, t).speed = t.speed
                 /\ Apply(s, t).loc = t.loc
              \/ /\ Apply(s, t).lastSeen = s.lastSeen
                 /\ Apply(s, t).speed = s.speed
                 /\ Apply(s, t).loc = s.loc
                 /\ s.lastSeen # NoTime
BY DEF Apply, Late, VehicleStates, Telemetry, NoTime

\* CheckOffline changes the presence and nothing else.
LEMMA CheckOfflineType ==
    ASSUME NEW s \in VehicleStates, NEW at \in Nat
    PROVE  /\ CheckOffline(s, 0, at) \in VehicleStates
           /\ CheckOffline(s, 0, at).lastSeen = s.lastSeen
           /\ CheckOffline(s, 0, at).speed = s.speed
           /\ CheckOffline(s, 0, at).loc = s.loc
BY DEF CheckOffline, VehicleStates, Presences

\* The belief in s is justified at time n: offline only after the silence the
\* code asks for, counted from the watermark in the same record.
Justified(s, n) ==
    s.presence = "offline" => n - s.lastSeen > DefaultCadenceSecs * OfflineMultiplier

\* Engine.Apply makes no vehicle offline and keeps presence and watermark
\* together when it does not overwrite both.
LEMMA ApplyJustified ==
    ASSUME NEW s \in VehicleStates, NEW t, NEW n \in Nat, Justified(s, n)
    PROVE  Justified(Apply(s, t), n)
BY DEF Apply, Late, Justified, VehicleStates

\* CheckOffline is right at the time it is given and at any later time.
LEMMA CheckOfflineJustified ==
    ASSUME NEW s \in VehicleStates, NEW at \in Nat, NEW n \in Nat, at <= n, Justified(s, n)
    PROVE  Justified(CheckOffline(s, 0, at), n)
BY DEF CheckOffline, OfflineDue, Justified, VehicleStates, DefaultCadenceSecs, OfflineMultiplier

\* A justified belief stays justified as time passes.
LEMMA JustifiedLater ==
    ASSUME NEW s \in VehicleStates, NEW m \in Nat, NEW n \in Nat, m <= n, Justified(s, m)
    PROVE  Justified(s, n)
BY DEF Justified, VehicleStates, DefaultCadenceSecs, OfflineMultiplier

SpeedingTracks == [since : Int, started : BOOLEAN, lastContinued : Int]
IdleTracks == [since : Int, started : BOOLEAN]
TripTracks == [active : BOOLEAN, startedAt : Int, lastMove : Int]

\* The events of the detectors are well typed.
LEMMA EventType ==
    ASSUME NEW K, NEW V, NEW t \in Telemetry(K, V), NEW k \in Kinds, NEW ph \in Phases
    PROVE  mkEvent(k, ph, t) \in DetectorEvents(V)
BY DEF mkEvent, Event, Telemetry, DetectorEvents

\* Each detector keeps its memory, and what it emits, well typed.
LEMMA SpeedingType ==
    ASSUME NEW K, NEW V, NEW st \in SpeedingTracks, NEW t \in Telemetry(K, V)
    PROVE  /\ speedingDetect(st, t).trk \in SpeedingTracks
           /\ speedingDetect(st, t).out \in Seq(DetectorEvents(V))
<1>1. \A ph \in Phases : mkEvent("speeding", ph, t) \in DetectorEvents(V)
  BY EventType DEF Kinds
<1>2. "started" \in Phases /\ "continued" \in Phases /\ "ended" \in Phases
  BY DEF Phases
<1>3. Since(st.since, t) \in Int /\ speedOf(t) \in Int
  BY DEF Since, speedOf, Telemetry, SpeedingTracks
<1> DEFINE over == speedOf(t) > SpeedLimitKmh
           since == Since(st.since, t)
           good == /\ speedingDetect(st, t).trk \in SpeedingTracks
                   /\ speedingDetect(st, t).out \in Seq(DetectorEvents(V))
<1>4. t.ts \in Int /\ st.since \in Int /\ st.lastContinued \in Int /\ st.started \in BOOLEAN
  BY DEF SpeedingTracks, Telemetry
<1>5. CASE over /\ ~st.started /\ t.ts - since >= SpeedForSecs
  <2>1. speedingDetect(st, t) =
          [trk |-> [since |-> since, started |-> TRUE, lastContinued |-> t.ts],
           out |-> <<mkEvent("speeding", "started", t)>>]
    BY <1>3, <1>4, <1>5, DetectorConfig DEF speedingDetect
  <2>2. QED
    BY <2>1, <1>1, <1>2, <1>3, <1>4 DEF SpeedingTracks
<1>6. CASE over /\ ~st.started /\ t.ts - since < SpeedForSecs
  <2>1. speedingDetect(st, t) = [trk |-> [st EXCEPT !.since = since], out |-> <<>>]
    BY <1>3, <1>4, <1>6, DetectorConfig DEF speedingDetect
  <2>2. QED
    BY <2>1, <1>3 DEF SpeedingTracks
<1>7. CASE over /\ st.started /\ t.ts - st.lastContinued >= SpeedContinuedEvery
  <2>1. speedingDetect(st, t) = [trk |-> [st EXCEPT !.lastContinued = t.ts],
                                 out |-> <<mkEvent("speeding", "continued", t)>>]
    BY <1>3, <1>4, <1>7, DetectorConfig DEF speedingDetect
  <2>2. QED
    BY <2>1, <1>1, <1>2, <1>4 DEF SpeedingTracks
<1>8. CASE over /\ st.started /\ t.ts - st.lastContinued < SpeedContinuedEvery
  <2>1. speedingDetect(st, t) = [trk |-> st, out |-> <<>>]
    BY <1>3, <1>4, <1>8, DetectorConfig DEF speedingDetect
  <2>2. QED
    BY <2>1 DEF SpeedingTracks
<1>9. CASE ~over
  <2>1. speedingDetect(st, t) =
          [trk |-> [st EXCEPT !.started = FALSE, !.since = NoTime],
           out |-> IF st.started THEN <<mkEvent("speeding", "ended", t)>> ELSE <<>>]
    BY <1>9 DEF speedingDetect
  <2>2. [st EXCEPT !.started = FALSE, !.since = NoTime] \in SpeedingTracks
    <3> DEFINE mid == [st EXCEPT !.started = FALSE]
    <3>1. mid \in SpeedingTracks
      BY DEF SpeedingTracks
    <3> HIDE DEF mid
    <3>2. [mid EXCEPT !.since = NoTime] \in SpeedingTracks
      BY <3>1 DEF SpeedingTracks, NoTime
    <3>3. QED
      BY <3>2 DEF mid
  <2>3. <<mkEvent("speeding", "ended", t)>> \in Seq(DetectorEvents(V))
    BY <1>1, <1>2
  <2>4. QED
    BY <2>1, <2>2, <2>3
<1>10. QED
  BY <1>3, <1>4, <1>5, <1>6, <1>7, <1>8, <1>9, DetectorConfig

\* See SpeedingType.
LEMMA IdleType ==
    ASSUME NEW K, NEW V, NEW st \in IdleTracks, NEW t \in Telemetry(K, V), NEW s
    PROVE  /\ idleDetect(st, t, s).trk \in IdleTracks
           /\ idleDetect(st, t, s).out \in Seq(DetectorEvents(V))
<1>1. \A ph \in {"started", "ended"} : mkEvent("idling", ph, t) \in DetectorEvents(V)
  BY EventType DEF Kinds, Phases
<1>2. Since(st.since, t) \in Int
  BY DEF Since, Telemetry, IdleTracks
<1>3. QED
  BY <1>1, <1>2, DetectorConfig DEF idleDetect, IdleTracks, NoTime

\* See SpeedingType.
LEMMA TripType ==
    ASSUME NEW K, NEW V, NEW st \in TripTracks, NEW t \in Telemetry(K, V), NEW s
    PROVE  /\ tripDetect(st, t, s).trk \in TripTracks
           /\ tripDetect(st, t, s).out \in Seq(DetectorEvents(V))
<1>1. \A ph \in {"started", "ended"} : mkEvent("trip", ph, t) \in DetectorEvents(V)
  BY EventType DEF Kinds, Phases
<1>2. t.ts \in Int
  BY DEF Telemetry
<1>3. QED
  BY <1>1, <1>2, DetectorConfig DEF tripDetect, TripTracks

\* Tracker.Detect, the three detectors together.
LEMMA DetectType ==
    ASSUME NEW K, NEW V, NEW trk \in Tracks, NEW t \in Telemetry(K, V), NEW s
    PROVE  /\ Detect(trk, t, s).trk \in Tracks
           /\ Detect(trk, t, s).out \in Seq(DetectorEvents(V))
<1>1. trk.speeding \in SpeedingTracks /\ trk.idle \in IdleTracks /\ trk.trip \in TripTracks
  BY DEF Tracks, SpeedingTracks, IdleTracks, TripTracks
<1> DEFINE sp == speedingDetect(trk.speeding, t)
           id == idleDetect(trk.idle, t, s)
           tp == tripDetect(trk.trip, t, s)
<1>2. sp.trk \in SpeedingTracks /\ sp.out \in Seq(DetectorEvents(V))
  BY <1>1, SpeedingType
<1>3. id.trk \in IdleTracks /\ id.out \in Seq(DetectorEvents(V))
  BY <1>1, IdleType
<1>4. tp.trk \in TripTracks /\ tp.out \in Seq(DetectorEvents(V))
  BY <1>1, TripType
<1>5. Detect(trk, t, s) =
        [trk |-> [speeding |-> sp.trk, idle |-> id.trk, trip |-> tp.trk],
         out |-> sp.out \o id.out \o tp.out]
  BY DEF Detect
<1> HIDE DEF sp, id, tp
<1>6. QED
  BY <1>2, <1>3, <1>4, <1>5 DEF Tracks, SpeedingTracks, IdleTracks, TripTracks

\* The state and the memory of an untracked vehicle are well typed.
LEMMA ZeroTypes == ZeroState \in VehicleStates /\ ZeroTrack \in Tracks
BY DEF ZeroState, ZeroTrack, VehicleStates, Tracks, Motions, Presences, Ignitions,
       NoTime, NoSpeed

\* An untracked vehicle has no watermark.
LEMMA ZeroUnseen == ZeroState.lastSeen = NoTime
BY DEF ZeroState

----------------------------------------------------------------------------
(* What each detector emits, by cases.                                     *)

\* speeding.started, .continued and .ended, and the memory that goes with them.
LEMMA SpeedingCases ==
    ASSUME NEW K, NEW V, NEW st \in SpeedingTracks, NEW t \in Telemetry(K, V)
    PROVE  LET d == speedingDetect(st, t) IN
           \/ d.out = <<>> /\ (d.trk.started <=> st.started)
           \/ /\ d.out = <<mkEvent("speeding", "started", t)>>
              /\ ~st.started /\ d.trk.started
              /\ t.ts - Since(st.since, t) >= SpeedForSecs
              /\ speedOf(t) > SpeedLimitKmh
           \/ d.out = <<mkEvent("speeding", "continued", t)>> /\ st.started /\ d.trk.started
           \/ d.out = <<mkEvent("speeding", "ended", t)>> /\ st.started /\ ~d.trk.started
<1>1. Since(st.since, t) \in Int /\ speedOf(t) \in Int
  BY DEF Since, speedOf, Telemetry, SpeedingTracks
<1>2. t.ts \in Int /\ st.since \in Int /\ st.lastContinued \in Int /\ st.started \in BOOLEAN
  BY DEF SpeedingTracks, Telemetry
<1> DEFINE over == speedOf(t) > SpeedLimitKmh
           since == Since(st.since, t)
           d == speedingDetect(st, t)
<1>3. CASE over /\ ~st.started /\ t.ts - since >= SpeedForSecs
  <2>1. d = [trk |-> [since |-> since, started |-> TRUE, lastContinued |-> t.ts],
             out |-> <<mkEvent("speeding", "started", t)>>]
    BY <1>1, <1>2, <1>3, DetectorConfig DEF speedingDetect
  <2>2. QED
    BY <2>1, <1>3
<1>4. CASE over /\ ~st.started /\ t.ts - since < SpeedForSecs
  <2>1. d = [trk |-> [st EXCEPT !.since = since], out |-> <<>>]
    BY <1>1, <1>2, <1>4, DetectorConfig DEF speedingDetect
  <2>2. QED
    BY <2>1 DEF SpeedingTracks
<1>5. CASE over /\ st.started /\ t.ts - st.lastContinued >= SpeedContinuedEvery
  <2>1. d = [trk |-> [st EXCEPT !.lastContinued = t.ts],
             out |-> <<mkEvent("speeding", "continued", t)>>]
    BY <1>1, <1>2, <1>5, DetectorConfig DEF speedingDetect
  <2>2. QED
    BY <2>1, <1>5 DEF SpeedingTracks
<1>6. CASE over /\ st.started /\ t.ts - st.lastContinued < SpeedContinuedEvery
  <2>1. d = [trk |-> st, out |-> <<>>]
    BY <1>1, <1>2, <1>6, DetectorConfig DEF speedingDetect
  <2>2. QED
    BY <2>1
<1>7. CASE ~over
  <2> DEFINE trk == [st EXCEPT !.started = FALSE, !.since = NoTime]
             out == IF st.started THEN <<mkEvent("speeding", "ended", t)>> ELSE <<>>
  <2>1. d = [trk |-> trk, out |-> out]
    BY <1>7 DEF speedingDetect
  <2>2. ~trk.started
    BY DEF SpeedingTracks
  <2> HIDE DEF trk, d
  <2>3. ~d.trk.started /\ d.out = out
    BY <2>1, <2>2
  <2>4. \/ d.out = <<>> /\ ~st.started
        \/ d.out = <<mkEvent("speeding", "ended", t)>> /\ st.started
    BY <2>3
  <2>5. QED
    BY <2>3, <2>4, <1>2 DEF d
<1>8. QED
  BY <1>1, <1>2, <1>3, <1>4, <1>5, <1>6, <1>7, DetectorConfig

\* idling.started and .ended.
LEMMA IdleCases ==
    ASSUME NEW K, NEW V, NEW st \in IdleTracks, NEW t \in Telemetry(K, V), NEW s
    PROVE  LET d == idleDetect(st, t, s) IN
           \/ d.out = <<>> /\ (d.trk.started <=> st.started)
           \/ d.out = <<mkEvent("idling", "started", t)>> /\ ~st.started /\ d.trk.started
           \/ d.out = <<mkEvent("idling", "ended", t)>> /\ st.started /\ ~d.trk.started
BY DEF idleDetect, IdleTracks

\* trip.started and .ended; one point may do both.
LEMMA TripCases ==
    ASSUME NEW K, NEW V, NEW st \in TripTracks, NEW t \in Telemetry(K, V), NEW s
    PROVE  LET d == tripDetect(st, t, s)
               started == mkEvent("trip", "started", t)
               ended == mkEvent("trip", "ended", t)
           IN
           \/ d.out = <<>> /\ (d.trk.active <=> st.active)
           \/ d.out = <<started>> /\ ~st.active /\ d.trk.active
           \/ d.out = <<ended>> /\ st.active /\ ~d.trk.active
           \/ d.out = <<started>> \o <<ended>> /\ ~st.active /\ ~d.trk.active
<1> DEFINE moving == s.motion = "moving"
           starts == ~st.active /\ moving
           active == st.active \/ moving
           lastMove == IF moving THEN t.ts ELSE st.lastMove
           ends == active /\ (t.ign = "off" \/ t.ts - lastMove >= TripEndSecs)
           d == tripDetect(st, t, s)
<1>1. /\ d.trk.active = (active /\ ~ends)
      /\ d.out = (IF starts THEN <<mkEvent("trip", "started", t)>> ELSE <<>>)
                 \o (IF ends THEN <<mkEvent("trip", "ended", t)>> ELSE <<>>)
  BY DEF tripDetect
<1>2. st.active \in BOOLEAN /\ ends \in BOOLEAN
  BY DEF TripTracks
<1>3. ends => active
  OBVIOUS
<1> HIDE DEF ends, d
<1>4. CASE ~starts /\ ~ends
  <2>1. d.out = <<>> /\ d.trk.active = active /\ active = st.active
    BY <1>1, <1>2, <1>4
  <2>2. QED
    BY <2>1 DEF d
<1>5. CASE starts /\ ~ends
  <2>1. d.out = <<mkEvent("trip", "started", t)>>
    BY <1>1, <1>5
  <2>2. ~st.active /\ d.trk.active
    BY <1>1, <1>5
  <2>3. QED
    BY <2>1, <2>2 DEF d
<1>6. CASE ~starts /\ ends
  <2>1. d.out = <<mkEvent("trip", "ended", t)>>
    <3> DEFINE e == mkEvent("trip", "ended", t)
    <3>1. d.out = <<>> \o <<e>>
      BY <1>1, <1>6
    <3> HIDE DEF e, d
    <3>2. <<>> \o <<e>> = <<e>>
      OBVIOUS
    <3>3. QED
      BY <3>1, <3>2 DEF e
  <2>2. st.active /\ ~d.trk.active
    BY <1>1, <1>3, <1>6
  <2>3. QED
    BY <2>1, <2>2 DEF d
<1>7. CASE starts /\ ends
  <2>1. d.out = <<mkEvent("trip", "started", t)>> \o <<mkEvent("trip", "ended", t)>>
    BY <1>1, <1>7
  <2>2. ~st.active /\ ~d.trk.active
    BY <1>1, <1>7
  <2>3. QED
    BY <2>1, <2>2 DEF d
<1>8. QED
  BY <1>4, <1>5, <1>6, <1>7

----------------------------------------------------------------------------
(* Bracketed streams, one event at a time.                                 *)

Open(seq, e) == OpenIn(seq, Len(seq), e)

\* The last event of a stream decides whether it is open.
LEMMA AppendOpen ==
    ASSUME NEW E, NEW seq \in Seq(E), NEW e \in E, NEW f
    PROVE  Open(Append(seq, e), f) <=>
                IF SameStream(e, f) THEN e.phase \notin Closing ELSE Open(seq, f)
<1> DEFINE n == Len(seq) + 1
           new == Append(seq, e)
<1>1. /\ Len(new) = n /\ n \in Nat /\ n \in 1 .. n /\ new[n] = e
      /\ \A i \in 1 .. Len(seq) : i \in 1 .. n /\ i # n /\ new[i] = seq[i]
      /\ \A i \in 1 .. n : i = n \/ i \in 1 .. Len(seq)
  OBVIOUS
<1>2. \A j \in 1 .. Len(seq) : (j + 1) .. n = ((j + 1) .. Len(seq)) \union {n}
  OBVIOUS
<1>3. (n + 1) .. n = {}
  OBVIOUS
<1>4. \A j \in 1 .. Len(seq) : (j + 1) .. Len(seq) \subseteq 1 .. Len(seq)
  OBVIOUS
<1> HIDE DEF n, new
<1>5. CASE SameStream(e, f)
  <2>1. ASSUME NEW j \in 1 .. Len(seq), \A k \in (j + 1) .. n : ~SameStream(new[k], f)
        PROVE  FALSE
    BY <1>1, <1>2, <1>5, <2>1
  <2>2. Open(new, f) <=> new[n].phase \notin Closing
    BY <1>1, <1>3, <1>5, <2>1 DEF Open, OpenIn
  <2>3. QED
    BY <1>1, <1>5, <2>2 DEF new
<1>6. CASE ~SameStream(e, f)
  <2>1. \A j \in 1 .. Len(seq) :
          (\A k \in (j + 1) .. n : ~SameStream(new[k], f))
              <=> \A k \in (j + 1) .. Len(seq) : ~SameStream(seq[k], f)
    BY <1>1, <1>2, <1>4, <1>6
  <2>2. Open(new, f) <=> Open(seq, f)
    BY <1>1, <1>6, <2>1 DEF Open, OpenIn
  <2>3. QED
    BY <1>6, <2>2 DEF new
<1>7. QED
  BY <1>5, <1>6

\* An event in its place keeps a sequence bracketed.
LEMMA AppendBracketed ==
    ASSUME NEW E, NEW seq \in Seq(E), NEW e \in E,
           Bracketed(seq), InPlace(seq, Len(seq), e)
    PROVE  Bracketed(Append(seq, e))
<1> DEFINE n == Len(seq) + 1
           new == Append(seq, e)
<1>1. /\ DOMAIN new = 1 .. n /\ DOMAIN seq = 1 .. Len(seq) /\ n \in Nat /\ new[n] = e
      /\ \A i \in 1 .. Len(seq) : new[i] = seq[i]
      /\ \A i \in 1 .. n : i = n \/ i \in 1 .. Len(seq)
      /\ n - 1 = Len(seq)
  OBVIOUS
<1>2. ASSUME NEW i \in 1 .. n, NEW f PROVE OpenIn(new, i - 1, f) <=> OpenIn(seq, i - 1, f)
  <2>1. \A j \in 1 .. (i - 1) : /\ new[j] = seq[j]
                               /\ \A k \in (j + 1) .. (i - 1) : new[k] = seq[k]
    BY <1>1
  <2>2. QED
    BY <2>1 DEF OpenIn
<1> HIDE DEF n, new
<1>3. QED
  BY <1>1, <1>2 DEF Bracketed, InPlace, new

----------------------------------------------------------------------------
(* The detectors' memory says which streams are open.                      *)

\* Any event of detector k on vehicle v.
Stream(v, k) == [veh |-> v, kind |-> k, cause |-> k]

\* new extends seq by events of the stream of detector k on v alone, keeps it
\* bracketed and leaves the stream open iff b holds.
Grown(E, seq, new, v, k, b) ==
    /\ new \in Seq(E)
    /\ Bracketed(new)
    /\ b <=> Open(new, Stream(v, k))
    /\ \A f : ~SameStream(Stream(v, k), f) => (Open(new, f) <=> Open(seq, f))

\* One event: it opens a closed stream, or continues or closes an open one.
LEMMA GrownByOne ==
    ASSUME NEW K, NEW V, NEW E, DetectorEvents(V) \subseteq E, NEW seq \in Seq(E),
           NEW t \in Telemetry(K, V), NEW k \in {"speeding", "idling", "trip"},
           NEW ph \in {"started", "continued", "ended"},
           Bracketed(seq), ph = "started" <=> ~Open(seq, Stream(t.veh, k))
    PROVE  Grown(E, seq, Append(seq, mkEvent(k, ph, t)), t.veh, k, ph # "ended")
<1> DEFINE e == mkEvent(k, ph, t)
<1>1. e \in E
  BY EventType DEF Kinds, Phases
<1>2. /\ e.veh = t.veh /\ e.kind = k /\ e.cause = k /\ e.phase = ph
  BY DEF mkEvent, Event
<1>3. \A f : SameStream(e, f) <=> SameStream(Stream(t.veh, k), f)
  BY <1>2 DEF SameStream, Stream
<1>4. SameStream(Stream(t.veh, k), Stream(t.veh, k))
  BY DEF SameStream
<1>5. \A f : SameStream(f, e) <=> SameStream(f, Stream(t.veh, k))
  BY <1>2 DEF SameStream, Stream
<1>6. Open(seq, e) <=> Open(seq, Stream(t.veh, k))
  BY <1>5 DEF Open, OpenIn
<1> HIDE DEF e
<1>7. InPlace(seq, Len(seq), e)
  BY <1>2, <1>6 DEF InPlace, Opening, Open
<1>8. Bracketed(Append(seq, e)) /\ Append(seq, e) \in Seq(E)
  BY <1>1, <1>7, AppendBracketed
<1>9. \A f : Open(Append(seq, e), f) <=>
                IF SameStream(e, f) THEN e.phase \notin Closing ELSE Open(seq, f)
  BY <1>1, AppendOpen
<1>10. QED
  BY <1>2, <1>3, <1>4, <1>8, <1>9 DEF Grown, Closing, e

\* What SpeedingCases, IdleCases and TripCases allow.
Emits(out, k, t, before, after) ==
    \/ out = <<>> /\ (after <=> before)
    \/ out = <<mkEvent(k, "started", t)>> /\ ~before /\ after
    \/ out = <<mkEvent(k, "continued", t)>> /\ before /\ after
    \/ out = <<mkEvent(k, "ended", t)>> /\ before /\ ~after
    \/ /\ out = <<mkEvent(k, "started", t)>> \o <<mkEvent(k, "ended", t)>>
       /\ ~before /\ ~after

\* The output of one detector extends a bracketed sequence.
LEMMA GrownByDetector ==
    ASSUME NEW K, NEW V, NEW E, DetectorEvents(V) \subseteq E, NEW seq \in Seq(E),
           NEW t \in Telemetry(K, V), NEW k \in {"speeding", "idling", "trip"},
           NEW out, NEW before, NEW after,
           Bracketed(seq), before <=> Open(seq, Stream(t.veh, k)),
           Emits(out, k, t, before, after)
    PROVE  Grown(E, seq, seq \o out, t.veh, k, after)
<1>1. \A ph \in {"started", "continued", "ended"} : mkEvent(k, ph, t) \in E
  BY EventType DEF Kinds, Phases
<1>2. ASSUME NEW e \in E PROVE seq \o <<e>> = Append(seq, e)
  BY <1>2, AppendIsConcat
<1>3. CASE out = <<>> /\ (after <=> before)
  <2>1. seq \o out = seq
    BY <1>3, ConcatEmptySeq
  <2>2. QED
    BY <1>3, <2>1 DEF Grown
<1>4. ASSUME NEW ph \in {"started", "continued", "ended"}, out = <<mkEvent(k, ph, t)>>,
             ph = "started" <=> ~before, ph # "ended" <=> after
      PROVE  Grown(E, seq, seq \o out, t.veh, k, after)
  <2>1. seq \o out = Append(seq, mkEvent(k, ph, t))
    BY <1>1, <1>2, <1>4
  <2>2. Grown(E, seq, Append(seq, mkEvent(k, ph, t)), t.veh, k, ph # "ended")
    BY <1>4, GrownByOne
  <2>3. QED
    BY <1>4, <2>1, <2>2 DEF Grown
<1>5. CASE /\ out = <<mkEvent(k, "started", t)>> \o <<mkEvent(k, "ended", t)>>
           /\ ~before /\ ~after
  <2> DEFINE e == mkEvent(k, "started", t)
             f == mkEvent(k, "ended", t)
             mid == Append(seq, e)
  <2>1. e \in E /\ f \in E /\ mid \in Seq(E)
    BY <1>1
  <2>2. Grown(E, seq, mid, t.veh, k, TRUE)
    <3>1. Grown(E, seq, mid, t.veh, k, "started" # "ended")
      BY <1>5, GrownByOne
    <3>2. QED
      BY <3>1 DEF Grown
  <2>3. Grown(E, mid, Append(mid, f), t.veh, k, FALSE)
    <3>1. Bracketed(mid) /\ Open(mid, Stream(t.veh, k))
      BY <2>2 DEF Grown
    <3> HIDE DEF mid
    <3>2. Grown(E, mid, Append(mid, f), t.veh, k, "ended" # "ended")
      BY <2>1, <3>1, GrownByOne
    <3>3. QED
      BY <3>2 DEF Grown
  <2>4. seq \o out = Append(mid, f)
    <3> HIDE DEF e, f
    <3>1. <<e>> \in Seq(E) /\ <<f>> \in Seq(E)
      BY <2>1
    <3>2. seq \o (<<e>> \o <<f>>) = (seq \o <<e>>) \o <<f>>
      BY <3>1, ConcatAssociative
    <3>3. mid \o <<f>> = Append(mid, f)
      BY <2>1, AppendIsConcat
    <3>4. QED
      BY <1>2, <1>5, <2>1, <3>2, <3>3 DEF e, f
  <2>5. QED
    BY <1>5, <2>2, <2>3, <2>4 DEF Grown
<1>6. QED
  BY <1>3, <1>4, <1>5 DEF Emits

\* The memory of the three detectors of v tells which of its streams are open.
Matched(trk, seq, v) ==
    /\ trk.speeding.started <=> Open(seq, Stream(v, "speeding"))
    /\ trk.idle.started <=> Open(seq, Stream(v, "idling"))
    /\ trk.trip.active <=> Open(seq, Stream(v, "trip"))

\* Tracker.Detect extends a bracketed sequence and keeps the memory of every
\* vehicle in step with it: that of the point's vehicle by its new memory, that
\* of any other because its streams are not touched.
LEMMA DetectBrackets ==
    ASSUME NEW K, NEW V, NEW E, DetectorEvents(V) \subseteq E, NEW seq \in Seq(E),
           NEW trk \in Tracks, NEW t \in Telemetry(K, V), NEW s,
           Bracketed(seq), Matched(trk, seq, t.veh)
    PROVE  LET d == Detect(trk, t, s)
               new == seq \o d.out
           IN  /\ Bracketed(new)
               /\ Matched(d.trk, new, t.veh)
               /\ \A f : (f.veh # t.veh \/ f.kind \notin {"speeding", "idling", "trip"})
                            => (Open(new, f) <=> Open(seq, f))
<1>1. trk.speeding \in SpeedingTracks /\ trk.idle \in IdleTracks /\ trk.trip \in TripTracks
  BY DEF Tracks, SpeedingTracks, IdleTracks, TripTracks
<1> DEFINE sp == speedingDetect(trk.speeding, t)
           id == idleDetect(trk.idle, t, s)
           tp == tripDetect(trk.trip, t, s)
           d == Detect(trk, t, s)
<1>2. /\ sp.out \in Seq(E) /\ id.out \in Seq(E) /\ tp.out \in Seq(E)
  <2>1. /\ sp.out \in Seq(DetectorEvents(V)) /\ id.out \in Seq(DetectorEvents(V))
        /\ tp.out \in Seq(DetectorEvents(V))
    BY <1>1, SpeedingType, IdleType, TripType
  <2> HIDE DEF sp, id, tp
  <2>2. QED
    BY <2>1
<1>3. Emits(sp.out, "speeding", t, trk.speeding.started, sp.trk.started)
  BY <1>1, SpeedingCases DEF Emits
<1>4. Emits(id.out, "idling", t, trk.idle.started, id.trk.started)
  BY <1>1, IdleCases DEF Emits
<1>5. Emits(tp.out, "trip", t, trk.trip.active, tp.trk.active)
  BY <1>1, TripCases DEF Emits
<1>6. d = [trk |-> [speeding |-> sp.trk, idle |-> id.trk, trip |-> tp.trk],
           out |-> sp.out \o id.out \o tp.out]
  BY DEF Detect
<1> HIDE DEF sp, id, tp, d
<1> DEFINE one == seq \o sp.out
           two == one \o id.out
           new == two \o tp.out
<1>7. ~SameStream(Stream(t.veh, "speeding"), Stream(t.veh, "idling"))
      /\ ~SameStream(Stream(t.veh, "speeding"), Stream(t.veh, "trip"))
      /\ ~SameStream(Stream(t.veh, "idling"), Stream(t.veh, "speeding"))
      /\ ~SameStream(Stream(t.veh, "idling"), Stream(t.veh, "trip"))
      /\ ~SameStream(Stream(t.veh, "trip"), Stream(t.veh, "speeding"))
      /\ ~SameStream(Stream(t.veh, "trip"), Stream(t.veh, "idling"))
  BY DEF SameStream, Stream
<1>8. Grown(E, seq, one, t.veh, "speeding", sp.trk.started)
  BY <1>3, GrownByDetector DEF Matched
<1>9. one \in Seq(E) /\ Bracketed(one) /\ (trk.idle.started <=> Open(one, Stream(t.veh, "idling")))
  BY <1>7, <1>8 DEF Grown, Matched
<1> HIDE DEF one
<1>10. Grown(E, one, two, t.veh, "idling", id.trk.started)
  BY <1>4, <1>9, GrownByDetector
<1>11. /\ two \in Seq(E) /\ Bracketed(two)
       /\ trk.trip.active <=> Open(two, Stream(t.veh, "trip"))
  BY <1>7, <1>8, <1>10 DEF Grown, Matched
<1> HIDE DEF two
<1>12. Grown(E, two, new, t.veh, "trip", tp.trk.active)
  BY <1>5, <1>11, GrownByDetector
<1> HIDE DEF new
<1>13. seq \o d.out = new
  <2> DEFINE a == sp.out
             b == id.out
             c == tp.out
             bc == a \o b
  <2>1. d.out = bc \o c
    BY <1>6
  <2>2. a \in Seq(E) /\ b \in Seq(E) /\ c \in Seq(E) /\ bc \in Seq(E)
    BY <1>2
  <2> HIDE DEF a, b, c
  <2>3. (seq \o a) \o b = seq \o (a \o b)
    BY <2>2, ConcatAssociative
  <2> HIDE DEF bc
  <2>4. (seq \o bc) \o c = seq \o (bc \o c)
    <3>1. bc \in Seq(E) /\ c \in Seq(E)
      BY <2>2 DEF bc
    <3>2. QED
      BY <3>1, ConcatAssociative
  <2>5. two = seq \o bc
    <3>1. two = (seq \o a) \o b
      BY DEF two, one, a, b
    <3>2. QED
      BY <2>3, <3>1 DEF bc
  <2>6. QED
    BY <2>1, <2>4, <2>5 DEF new, c
<1>14. Matched(d.trk, new, t.veh)
  BY <1>6, <1>7, <1>8, <1>10, <1>12 DEF Grown, Matched
<1>15. ASSUME NEW f, f.veh # t.veh \/ f.kind \notin {"speeding", "idling", "trip"}
       PROVE  Open(new, f) <=> Open(seq, f)
  <2>1. \A k \in {"speeding", "idling", "trip"} : ~SameStream(Stream(t.veh, k), f)
    BY <1>15 DEF SameStream, Stream
  <2>2. QED
    BY <1>8, <1>10, <1>12, <2>1 DEF Grown
<1>16. QED
  BY <1>12, <1>13, <1>14, <1>15 DEF Grown, d

----------------------------------------------------------------------------
(* The events of one point.                                                *)

\* Events of point t, of kinds in ks, no two of the same type.
OfPoint(out, ks, t) ==
    /\ \A i \in DOMAIN out :
            out[i].veh = t.veh /\ out[i].ts = t.ts /\ out[i].corr = t.corr /\ out[i].kind \in ks
    /\ \A i, j \in DOMAIN out :
            (out[i].kind = out[j].kind /\ out[i].phase = out[j].phase) => i = j

\* What one detector emits for a point.
LEMMA EmitsOfPoint ==
    ASSUME NEW k, NEW t, NEW out, NEW before, NEW after, Emits(out, k, t, before, after)
    PROVE  OfPoint(out, {k}, t)
<1> DEFINE s == mkEvent(k, "started", t)
           c == mkEvent(k, "continued", t)
           e == mkEvent(k, "ended", t)
<1>1. /\ s.veh = t.veh /\ s.ts = t.ts /\ s.corr = t.corr /\ s.kind = k /\ s.phase = "started"
      /\ c.veh = t.veh /\ c.ts = t.ts /\ c.corr = t.corr /\ c.kind = k /\ c.phase = "continued"
      /\ e.veh = t.veh /\ e.ts = t.ts /\ e.corr = t.corr /\ e.kind = k /\ e.phase = "ended"
  BY DEF mkEvent, Event
<1>2. out = <<>> \/ out = <<s>> \/ out = <<c>> \/ out = <<e>> \/ out = <<s>> \o <<e>>
  BY DEF Emits
<1> HIDE DEF s, c, e
<1>3. CASE out = <<>>
  BY <1>3 DEF OfPoint
<1>4. ASSUME NEW x \in {s, c, e}, out = <<x>> PROVE OfPoint(out, {k}, t)
  <2>1. DOMAIN out = {1} /\ out[1] = x
    BY <1>4
  <2>2. x.veh = t.veh /\ x.ts = t.ts /\ x.corr = t.corr /\ x.kind = k
    BY <1>1, <1>4
  <2>3. QED
    BY <2>1, <2>2 DEF OfPoint
<1>5. CASE out = <<s>> \o <<e>>
  <2>1. DOMAIN out = {1, 2} /\ out[1] = s /\ out[2] = e
    BY <1>5
  <2>2. QED
    BY <1>1, <2>1 DEF OfPoint
<1>6. QED
  BY <1>2, <1>3, <1>4, <1>5

\* The outputs of two detectors, one after the other.
LEMMA OfPointConcat ==
    ASSUME NEW E, NEW a \in Seq(E), NEW b \in Seq(E), NEW A, NEW B, NEW t,
           OfPoint(a, A, t), OfPoint(b, B, t), A \intersect B = {}
    PROVE  OfPoint(a \o b, A \union B, t)
<1> DEFINE ab == a \o b
<1>1. ASSUME NEW i \in DOMAIN ab
      PROVE  \/ i \in DOMAIN a /\ ab[i] = a[i]
             \/ i - Len(a) \in DOMAIN b /\ ab[i] = b[i - Len(a)] /\ i \in Nat
  OBVIOUS
<1>2. Len(a) \in Nat /\ DOMAIN a = 1 .. Len(a)
  OBVIOUS
<1> HIDE DEF ab
<1>3. \A i \in DOMAIN ab : ab[i].veh = t.veh /\ ab[i].ts = t.ts /\ ab[i].kind \in A \union B
  BY <1>1 DEF OfPoint
<1>4. ASSUME NEW i \in DOMAIN ab, NEW j \in DOMAIN ab,
             ab[i].kind = ab[j].kind, ab[i].phase = ab[j].phase
      PROVE  i = j
  <2>1. CASE i \in DOMAIN a /\ ab[i] = a[i] /\ j \in DOMAIN a /\ ab[j] = a[j]
    BY <1>4, <2>1 DEF OfPoint
  <2>2. CASE /\ i - Len(a) \in DOMAIN b /\ ab[i] = b[i - Len(a)] /\ i \in Nat
             /\ j - Len(a) \in DOMAIN b /\ ab[j] = b[j - Len(a)] /\ j \in Nat
    <3>1. i - Len(a) = j - Len(a)
      BY <1>4, <2>2 DEF OfPoint
    <3>2. QED
      BY <1>2, <2>2, <3>1
  <2>3. QED
    BY <1>1, <1>4, <2>1, <2>2 DEF OfPoint
<1>5. QED
  BY <1>3, <1>4 DEF OfPoint, ab

\* What Tracker.Detect emits for one point: events of that point, each type at
\* most once, and speeding.started only over the limit after long enough.
LEMMA DetectOut ==
    ASSUME NEW K, NEW V, NEW trk \in Tracks, NEW t \in Telemetry(K, V), NEW s
    PROVE  LET out == Detect(trk, t, s).out
           IN  /\ OfPoint(out, {"speeding", "idling", "trip"}, t)
               /\ \A i \in DOMAIN out :
                    (out[i].kind = "speeding" /\ out[i].phase = "started") =>
                        /\ speedOf(t) > SpeedLimitKmh
                        /\ t.ts - Since(trk.speeding.since, t) >= SpeedForSecs
<1>1. trk.speeding \in SpeedingTracks /\ trk.idle \in IdleTracks /\ trk.trip \in TripTracks
  BY DEF Tracks, SpeedingTracks, IdleTracks, TripTracks
<1> DEFINE sp == speedingDetect(trk.speeding, t)
           id == idleDetect(trk.idle, t, s)
           tp == tripDetect(trk.trip, t, s)
           E == DetectorEvents(V)
           a == sp.out
           b == id.out
           c == tp.out
           sure == /\ speedOf(t) > SpeedLimitKmh
                   /\ t.ts - Since(trk.speeding.since, t) >= SpeedForSecs
<1>2. a \in Seq(E) /\ b \in Seq(E) /\ c \in Seq(E)
  BY <1>1, SpeedingType, IdleType, TripType
<1>3. OfPoint(a, {"speeding"}, t)
  <2>1. Emits(a, "speeding", t, trk.speeding.started, sp.trk.started)
    BY <1>1, SpeedingCases DEF Emits
  <2>2. QED
    BY <2>1, EmitsOfPoint
<1>4. OfPoint(b, {"idling"}, t)
  <2>1. Emits(b, "idling", t, trk.idle.started, id.trk.started)
    BY <1>1, IdleCases DEF Emits
  <2>2. QED
    BY <2>1, EmitsOfPoint
<1>5. OfPoint(c, {"trip"}, t)
  <2>1. Emits(c, "trip", t, trk.trip.active, tp.trk.active)
    BY <1>1, TripCases DEF Emits
  <2>2. QED
    BY <2>1, EmitsOfPoint
<1>6. \A i \in DOMAIN a : a[i].phase = "started" => sure
  <2>1. mkEvent("speeding", "continued", t).phase # "started"
        /\ mkEvent("speeding", "ended", t).phase # "started"
    BY DEF mkEvent, Event
  <2>2. \/ a = <<>>
        \/ a = <<mkEvent("speeding", "started", t)>> /\ sure
        \/ a = <<mkEvent("speeding", "continued", t)>>
        \/ a = <<mkEvent("speeding", "ended", t)>>
    BY <1>1, SpeedingCases
  <2> HIDE DEF a, sure
  <2>3. QED
    BY <2>1, <2>2
<1>7. Detect(trk, t, s).out = (a \o b) \o c
  BY DEF Detect
<1> HIDE DEF a, b, c, sure
<1> DEFINE ab == a \o b
           out == ab \o c
<1>8. ab \in Seq(E) /\ OfPoint(ab, {"speeding", "idling"}, t)
  <2>1. OfPoint(ab, {"speeding"} \union {"idling"}, t)
    BY <1>2, <1>3, <1>4, OfPointConcat
  <2>2. {"speeding"} \union {"idling"} = {"speeding", "idling"}
    OBVIOUS
  <2>3. QED
    BY <1>2, <2>1, <2>2
<1>9. \A i \in DOMAIN ab : (ab[i].kind = "speeding" /\ ab[i].phase = "started") => sure
  <2>1. \A i \in DOMAIN ab : \/ i \in DOMAIN a /\ ab[i] = a[i]
                             \/ i - Len(a) \in DOMAIN b /\ ab[i] = b[i - Len(a)]
    BY <1>2
  <2> HIDE DEF ab
  <2>2. QED
    BY <1>4, <1>6, <2>1 DEF OfPoint
<1> HIDE DEF ab
<1>10. OfPoint(out, {"speeding", "idling", "trip"}, t)
  <2>1. OfPoint(out, {"speeding", "idling"} \union {"trip"}, t)
    BY <1>2, <1>5, <1>8, OfPointConcat
  <2>2. {"speeding", "idling"} \union {"trip"} = {"speeding", "idling", "trip"}
    OBVIOUS
  <2>3. QED
    BY <2>1, <2>2
<1>11. \A i \in DOMAIN out : (out[i].kind = "speeding" /\ out[i].phase = "started") => sure
  <2>1. \A i \in DOMAIN out : \/ i \in DOMAIN ab /\ out[i] = ab[i]
                              \/ i - Len(ab) \in DOMAIN c /\ out[i] = c[i - Len(ab)]
    BY <1>2, <1>8
  <2> HIDE DEF out
  <2>2. QED
    BY <1>5, <1>9, <2>1 DEF OfPoint
<1>12. Detect(trk, t, s).out = out
  BY <1>7 DEF ab
<1> HIDE DEF out
<1>13. QED
  BY <1>10, <1>11, <1>12 DEF sure

\* The speeding clock after a point: stopped below the limit; over it, as it
\* was or started by this point.
LEMMA SpeedingClock ==
    ASSUME NEW K, NEW V, NEW trk \in Tracks, NEW t \in Telemetry(K, V), NEW s
    PROVE  LET since == Detect(trk, t, s).trk.speeding.since
           IN  since # NoTime =>
                    /\ speedOf(t) > SpeedLimitKmh
                    /\ since = trk.speeding.since \/ since = Since(trk.speeding.since, t)
<1> DEFINE st == trk.speeding
           d == speedingDetect(st, t)
<1>1. Detect(trk, t, s).trk.speeding = d.trk
  BY DEF Detect
<1>2. st \in SpeedingTracks
  BY DEF Tracks, SpeedingTracks
<1> HIDE DEF st
<1>3. Since(st.since, t) \in Int /\ speedOf(t) \in Int
  BY <1>2 DEF Since, speedOf, Telemetry, SpeedingTracks
<1>4. t.ts \in Int /\ st.since \in Int /\ st.lastContinued \in Int /\ st.started \in BOOLEAN
  BY <1>2 DEF SpeedingTracks, Telemetry
<1>5. CASE speedOf(t) > SpeedLimitKmh
  <2>1. \/ d.trk = [since |-> Since(st.since, t), started |-> TRUE, lastContinued |-> t.ts]
        \/ d.trk = [st EXCEPT !.since = Since(st.since, t)]
        \/ d.trk = [st EXCEPT !.lastContinued = t.ts]
        \/ d.trk = st
    BY <1>3, <1>4, <1>5, DetectorConfig DEF speedingDetect
  <2>2. d.trk.since = st.since \/ d.trk.since = Since(st.since, t)
    BY <1>2, <2>1 DEF SpeedingTracks
  <2>3. QED
    BY <1>1, <1>5, <2>2 DEF st
<1>6. CASE ~(speedOf(t) > SpeedLimitKmh)
  <2>1. d.trk = [st EXCEPT !.started = FALSE, !.since = NoTime]
    BY <1>6 DEF speedingDetect
  <2>2. d.trk.since = NoTime
    BY <1>2, <2>1 DEF SpeedingTracks
  <2>3. QED
    BY <1>1, <2>2
<1>7. QED
  BY <1>5, <1>6

----------------------------------------------------------------------------
(* The fence tracker's memory says which fence streams are open.           *)

\* Any event of fence x on vehicle v, and the event of a point that crosses it.
FenceStream(v, x) == [veh |-> v, kind |-> "geofence", cause |-> x]
Crossing(ph, t, x) == Event("geofence", ph, t.veh, t.ts, x, t.corr)

\* After the events q and those of acc, the streams are bracketed, the fences
\* of v that are open are those acc remembers, and no other stream has moved;
\* all that provided it was so before q (calm).
Crossed(calm, E, X, q, v, acc) ==
    /\ acc \in [mem : SUBSET X, out : Seq(E)]
    /\ calm =>
        /\ Bracketed(q \o acc.out)
        /\ \A x : x \in acc.mem <=> Open(q \o acc.out, FenceStream(v, x))
        /\ \A f : (f.kind = "geofence" /\ f.veh = v) \/ (Open(q \o acc.out, f) <=> Open(q, f))

\* One crossing: it enters a fence the vehicle is not in, or leaves one it is in.
LEMMA CrossOne ==
    ASSUME NEW calm \in BOOLEAN, NEW E, NEW X, NEW q \in Seq(E), NEW t, NEW acc,
           Crossed(calm, E, X, q, t.veh, acc),
           NEW x \in X, NEW ph \in {"entered", "exited"}, Crossing(ph, t, x) \in E,
           ph = "entered" <=> x \notin acc.mem
    PROVE  Crossed(calm, E, X, q, t.veh,
                   [mem |-> IF ph = "entered" THEN acc.mem \union {x} ELSE acc.mem \ {x},
                    out |-> Append(acc.out, Crossing(ph, t, x))])
<1> DEFINE e == Crossing(ph, t, x)
           v == t.veh
           old == q \o acc.out
           m == IF ph = "entered" THEN acc.mem \union {x} ELSE acc.mem \ {x}
           out == Append(acc.out, e)
           new == [mem |-> m, out |-> out]
<1>1. /\ e.veh = v /\ e.kind = "geofence" /\ e.cause = x /\ e.phase = ph /\ e \in E
  BY DEF Crossing, Event
<1>2. acc.out \in Seq(E) /\ acc.mem \subseteq X
  BY DEF Crossed
<1> HIDE DEF e, v
<1>3. /\ old \in Seq(E) /\ out \in Seq(E) /\ m \subseteq X
      /\ q \o out = Append(old, e)
  BY <1>1, <1>2
<1>4. new.mem = m /\ new.out = out /\ new \in [mem : SUBSET X, out : Seq(E)]
  BY <1>3
<1>5. ASSUME calm
      PROVE  /\ Bracketed(Append(old, e))
             /\ \A y : y \in m <=> Open(Append(old, e), FenceStream(v, y))
             /\ \A f : (f.kind = "geofence" /\ f.veh = v) \/ (Open(Append(old, e), f) <=> Open(q, f))
  <2>1. /\ Bracketed(old)
        /\ \A y : y \in acc.mem <=> Open(old, FenceStream(v, y))
        /\ \A f : (f.kind = "geofence" /\ f.veh = v) \/ (Open(old, f) <=> Open(q, f))
    BY <1>5 DEF Crossed, v
  <2> HIDE DEF old, out
  <2>2. \A f : SameStream(f, e) <=> SameStream(f, FenceStream(v, x))
    BY <1>1 DEF SameStream, FenceStream
  <2>3. Open(old, e) <=> Open(old, FenceStream(v, x))
    BY <2>2 DEF Open, OpenIn
  <2>4. InPlace(old, Len(old), e)
    BY <1>1, <2>1, <2>3 DEF InPlace, Opening, Open
  <2>5. Bracketed(Append(old, e))
    BY <1>1, <1>3, <2>1, <2>4, AppendBracketed
  <2>6. \A f : Open(Append(old, e), f) <=>
                  IF SameStream(e, f) THEN e.phase \notin Closing ELSE Open(old, f)
    BY <1>1, <1>3, AppendOpen
  <2>7. \A y : SameStream(e, FenceStream(v, y)) <=> y = x
    BY <1>1 DEF SameStream, FenceStream
  <2>8. \A f : ~(f.kind = "geofence" /\ f.veh = v) => ~SameStream(e, f)
    BY <1>1 DEF SameStream
  <2>9. ph \notin Closing <=> ph = "entered"
    BY DEF Closing
  <2>10. ASSUME NEW y PROVE y \in m <=> Open(Append(old, e), FenceStream(v, y))
    <3>1. CASE y = x
      BY <1>1, <2>6, <2>7, <2>9, <3>1
    <3>2. CASE y # x
      <4>1. Open(Append(old, e), FenceStream(v, y)) <=> Open(old, FenceStream(v, y))
        BY <2>6, <2>7, <3>2
      <4>2. y \in m <=> y \in acc.mem
        BY <3>2
      <4>3. QED
        BY <2>1, <4>1, <4>2
    <3>3. QED
      BY <3>1, <3>2
  <2>11. \A f : (f.kind = "geofence" /\ f.veh = v) \/ (Open(Append(old, e), f) <=> Open(q, f))
    BY <2>1, <2>6, <2>8
  <2>12. QED
    BY <2>5, <2>10, <2>11
<1> HIDE DEF new, m, old, out
<1>6. Crossed(calm, E, X, q, v, new)
  BY <1>3, <1>4, <1>5 DEF Crossed
<1>7. QED
  BY <1>6 DEF new, m, out, e, v

\* A turn of either loop of Tracker.Evaluate.
FenceTurn(first, acc, t, g) == IF first THEN EnterOrExit(acc, t, g) ELSE LeaveArea(acc, t, g)

\* A turn keeps memory and events in step.
LEMMA TurnCross ==
    ASSUME NEW calm \in BOOLEAN, NEW E, NEW X, NEW q \in Seq(E), NEW t, NEW acc,
           Crossed(calm, E, X, q, t.veh, acc),
           NEW g, g.id \in X, Crossing("entered", t, g.id) \in E,
           Crossing("exited", t, g.id) \in E, NEW first \in BOOLEAN
    PROVE  Crossed(calm, E, X, q, t.veh, FenceTurn(first, acc, t, g))
<1> DEFINE in == [mem |-> acc.mem \union {g.id}, out |-> Append(acc.out, Crossing("entered", t, g.id))]
           away == [mem |-> acc.mem \ {g.id}, out |-> Append(acc.out, Crossing("exited", t, g.id))]
           turn == FenceTurn(first, acc, t, g)
<1>1. \/ turn = acc
      \/ g.id \notin acc.mem /\ turn = in
      \/ g.id \in acc.mem /\ turn = away
  BY DEF FenceTurn, EnterOrExit, LeaveArea, fenceEvent, Crossing
<1>2. CASE g.id \notin acc.mem /\ turn = in
  <2>1. Crossed(calm, E, X, q, t.veh, [mem |-> IF "entered" = "entered" THEN acc.mem \union {g.id} ELSE acc.mem \ {g.id},
                    out |-> Append(acc.out, Crossing("entered", t, g.id))])
    BY <1>2, CrossOne
  <2>2. QED
    BY <1>2, <2>1
<1>3. CASE g.id \in acc.mem /\ turn = away
  <2>1. Crossed(calm, E, X, q, t.veh, [mem |-> IF "exited" = "entered" THEN acc.mem \union {g.id} ELSE acc.mem \ {g.id},
                    out |-> Append(acc.out, Crossing("exited", t, g.id))])
    BY <1>3, CrossOne
  <2>2. QED
    BY <1>3, <2>1
<1>4. QED
  BY <1>1, <1>2, <1>3

\* A table of the turns of a loop, which exists by induction.
FenceTable(first, a, t, fs, n, g) ==
    g = [i \in 0 .. n |-> IF i = 0 THEN a ELSE FenceTurn(first, g[i - 1], t, fs[i])]

\* A table of the turns exists, by induction.
LEMMA FenceTableExists ==
    ASSUME NEW first, NEW a, NEW t, NEW fs
    PROVE  \A n \in Nat : \E g : FenceTable(first, a, t, fs, n, g)
<1> DEFINE S == {n \in Nat : \E g : FenceTable(first, a, t, fs, n, g)}
<1>1. 0 \in S
  <2> DEFINE g == [i \in 0 .. 0 |-> a]
  <2>1. FenceTable(first, a, t, fs, 0, g)
    BY DEF FenceTable
  <2>2. QED
    BY <2>1
<1>2. ASSUME NEW n \in S PROVE n + 1 \in S
  <2>1. PICK g : FenceTable(first, a, t, fs, n, g)
    OBVIOUS
  <2> DEFINE h == [i \in 0 .. n + 1 |-> IF i <= n THEN g[i] ELSE FenceTurn(first, g[n], t, fs[n + 1])]
  <2>2. n \in Nat
    OBVIOUS
  <2>3. \A i \in 0 .. n : g[i] = IF i = 0 THEN a ELSE FenceTurn(first, g[i - 1], t, fs[i])
    BY <2>1 DEF FenceTable
  <2>4. \A i \in 0 .. n + 1 : h[i] = IF i = 0 THEN a ELSE FenceTurn(first, h[i - 1], t, fs[i])
    <3>1. ASSUME NEW i \in 0 .. n
          PROVE  h[i] = IF i = 0 THEN a ELSE FenceTurn(first, h[i - 1], t, fs[i])
      <4>1. i \in 0 .. n + 1 /\ i <= n /\ (i # 0 => i - 1 \in 0 .. n + 1 /\ i - 1 <= n)
        BY <2>2
      <4>2. h[i] = g[i]
        BY <4>1
      <4>3. i # 0 => h[i - 1] = g[i - 1]
        BY <4>1
      <4> HIDE DEF h
      <4>4. QED
        BY <2>3, <4>2, <4>3
    <3>2. h[n + 1] = FenceTurn(first, g[n], t, fs[n + 1]) /\ h[n] = g[n] /\ (n + 1) - 1 = n
      BY <2>2
    <3> HIDE DEF h
    <3>3. \A i \in 0 .. n + 1 : i \in 0 .. n \/ (i = n + 1 /\ i # 0 /\ i - 1 = n)
      BY <2>2
    <3>4. QED
      BY <3>1, <3>2, <3>3
  <2>5. h = [i \in 0 .. n + 1 |-> h[i]]
    OBVIOUS
  <2> HIDE DEF h
  <2>6. FenceTable(first, a, t, fs, n + 1, h)
    BY <2>4, <2>5 DEF FenceTable
  <2>7. QED
    BY <2>2, <2>6
<1>3. S = Nat
  <2>1. S \in SUBSET Nat
    OBVIOUS
  <2> HIDE DEF S
  <2>2. QED
    BY <1>1, <1>2, <2>1, SetInduction
<1>4. QED
  BY <1>3

\* A loop over the fences.
LEMMA LoopCross ==
    ASSUME NEW calm \in BOOLEAN, NEW E, NEW X, NEW q \in Seq(E), NEW t, NEW a,
           Crossed(calm, E, X, q, t.veh, a),
           NEW fs, Len(fs) \in Nat, NEW first \in BOOLEAN,
           \A i \in 1 .. Len(fs) : /\ fs[i].id \in X
                                   /\ Crossing("entered", t, fs[i].id) \in E
                                   /\ Crossing("exited", t, fs[i].id) \in E,
           NEW f, FenceTable(first, a, t, fs, Len(fs), f)
    PROVE  Crossed(calm, E, X, q, t.veh, f[Len(fs)])
<1> DEFINE N == Len(fs)
           S == {n \in Nat : n <= N => Crossed(calm, E, X, q, t.veh, f[n])}
<1>1. \A i \in 0 .. N : f[i] = IF i = 0 THEN a ELSE FenceTurn(first, f[i - 1], t, fs[i])
  BY DEF FenceTable
<1>2. 0 \in S
  BY <1>1
<1>3. ASSUME NEW n \in S PROVE n + 1 \in S
  <2> SUFFICES ASSUME n + 1 <= N PROVE Crossed(calm, E, X, q, t.veh, f[n + 1])
    OBVIOUS
  <2>1. n \in Nat /\ n + 1 \in 0 .. N /\ n + 1 \in 1 .. N /\ (n + 1) - 1 = n /\ n + 1 # 0 /\ n <= N
    OBVIOUS
  <2>2. Crossed(calm, E, X, q, t.veh, f[n])
    BY <2>1
  <2>3. f[n + 1] = FenceTurn(first, f[n], t, fs[n + 1])
    BY <1>1, <2>1
  <2>4. Crossed(calm, E, X, q, t.veh, FenceTurn(first, f[n], t, fs[n + 1]))
    BY <2>1, <2>2, TurnCross
  <2>5. QED
    BY <2>3, <2>4
<1>4. S = Nat
  <2>1. S \in SUBSET Nat
    OBVIOUS
  <2> HIDE DEF S
  <2>2. QED
    BY <1>2, <1>3, <2>1, SetInduction
<1>5. N \in S
  BY <1>4
<1>6. QED
  BY <1>5

\* Tracker.Evaluate: its two loops, from memory that matches the events so far.
LEMMA FencesCross ==
    ASSUME NEW calm \in BOOLEAN, NEW E, NEW X, NEW q \in Seq(E), NEW t, NEW mem \in SUBSET X,
           calm => Bracketed(q) /\ \A x : x \in mem <=> Open(q, FenceStream(t.veh, x)),
           NEW fs, Len(fs) \in Nat,
           \A i \in 1 .. Len(fs) : /\ fs[i].id \in X
                                   /\ Crossing("entered", t, fs[i].id) \in E
                                   /\ Crossing("exited", t, fs[i].id) \in E
    PROVE  Crossed(calm, E, X, q, t.veh, EvaluateFences(mem, fs, t))
<1> DEFINE N == Len(fs)
           a == [mem |-> mem, out |-> <<>>]
           f == CHOOSE g : g = [n \in 0 .. Len(fs) |->
                    IF n = 0 THEN [mem |-> mem, out |-> <<>>] ELSE EnterOrExit(g[n - 1], t, fs[n])]
           h == CHOOSE g : g = [n \in 0 .. Len(fs) |->
                    IF n = 0 THEN f[Len(fs)] ELSE LeaveArea(g[n - 1], t, fs[n])]
<1>1. EvaluateFences(mem, fs, t) = h[N]
  BY DEF EvaluateFences
<1>2. FenceTable(TRUE, a, t, fs, N, f)
  <2>1. \E g : FenceTable(TRUE, a, t, fs, N, g)
    <3> HIDE DEF a
    <3>1. QED
      BY FenceTableExists
  <2>2. QED
    BY <2>1 DEF FenceTable, FenceTurn
<1> HIDE DEF f
<1>3. FenceTable(FALSE, f[N], t, fs, N, h)
  <2> DEFINE b == f[N]
  <2>1. \E g : FenceTable(FALSE, b, t, fs, N, g)
    <3> HIDE DEF b
    <3>1. QED
      BY FenceTableExists
  <2>2. QED
    BY <2>1 DEF FenceTable, FenceTurn
<1> HIDE DEF h
<1>4. Crossed(calm, E, X, q, t.veh, a)
  <2>1. q \o a.out = q /\ a \in [mem : SUBSET X, out : Seq(E)] /\ a.mem = mem
    OBVIOUS
  <2> HIDE DEF a
  <2>2. QED
    BY <2>1 DEF Crossed
<1> HIDE DEF a
<1>5. Crossed(calm, E, X, q, t.veh, f[N])
  BY <1>2, <1>4, LoopCross
<1>6. Crossed(calm, E, X, q, t.veh, h[N])
  <2> DEFINE b == f[N]
  <2>1. Crossed(calm, E, X, q, t.veh, b) /\ FenceTable(FALSE, b, t, fs, N, h)
    BY <1>3, <1>5
  <2> HIDE DEF b
  <2>2. QED
    BY <2>1, LoopCross
<1>7. QED
  BY <1>1, <1>6
=============================================================================
