----------------------------- MODULE RuleEngine -----------------------------
(***************************************************************************)
(* rules.Engine (internal/rules/rules.go): matching and the safety valves, *)
(* as pure operators on the engine's memory.                               *)
(*                                                                         *)
(* A published version is a record [id, version, kind, phase, conds, emit, *)
(* webhook, cooldown, cap]: kind and phase are when.eventType, conds a set *)
(* of [field, op, value], emit the kind of the emitted ".created" event or *)
(* "", webhook "none" or the kind of its target.  The engine's memory is a *)
(* pair of functions of <<id, version, vehicle>>: lastFire and fireLog.    *)
(***************************************************************************)
EXTENDS Detectors

Hour == 3600
Never == -1000000   \* no entry in lastFire

Infinite == 1000000 \* the speed "Inf", which ParseFloat and Validate accept

Ops == {">", ">=", "<", "<=", "=="}
DefaultCap == 100

\* ParseSpec refuses an unknown operator and replaces a cap of zero.
Parses(spec) == \A c \in spec.conds : c.op \in Ops
ParseSpec(spec) == [spec EXCEPT !.cap = IF @ = 0 THEN DefaultCap ELSE @]

\* fieldValue; NoSpeed for a nil pointer, an unknown field or the fuel level,
\* which the model's telemetry does not carry.
fieldValue(t, s, field) ==
    CASE field = "speedKmh" -> t.speed
      [] field = "stateSpeedKmh" -> s.speed
      [] OTHER -> NoSpeed

\* encoding/json has no form for an infinite number.  The payload of an emitted
\* event holds matchedInputs, what every condition of its rule saw, and that of
\* a speeding event the speed.  (The distance of a trip, which a NaN coordinate
\* would spoil in the same way, is not in the model.)
InputsHaveJson(r, t, s) == \A c \in r.conds : fieldValue(t, s, c.field) # Infinite
EventHasJson(ev, t) == ev.kind = "speeding" => speedOf(t) # Infinite

matchOp(op, got, want) ==
    CASE op = ">" -> got > want
      [] op = ">=" -> got >= want
      [] op = "<" -> got < want
      [] op = "<=" -> got <= want
      [] op = "==" -> got = want
      [] OTHER -> FALSE

Matches(r, t, s, ev) ==
    /\ ev.kind = r.kind /\ ev.phase = r.phase /\ ev.veh = t.veh
    /\ \A c \in r.conds : LET got == fieldValue(t, s, c.field)
                          IN  got # NoSpeed /\ matchOp(c.op, got, c.value)

ruleKey(r) == <<r.id, r.version>>
valveKey(r, v) == <<r.id, r.version, v>>

ZeroEngine(Rules, Vehicles) ==
    LET vks == {valveKey(r, v) : r \in Rules, v \in Vehicles}
    IN  [lastFire |-> [k \in vks |-> Never], fireLog |-> [k \in vks |-> <<>>]]

\* The cooldown valve: disabled at zero, closed until cooldown has elapsed.
CoolingDown(eng, r, v, now) ==
    /\ r.cooldown > 0
    /\ eng.lastFire[valveKey(r, v)] # Never
    /\ now - eng.lastFire[valveKey(r, v)] < r.cooldown

\* The loop over the log that keeps what lies after the cut.
After(log, cut) ==
    LET kept[n \in 0 .. Len(log)] ==
            IF n = 0 THEN <<>>
            ELSE IF log[n] > cut THEN Append(kept[n - 1], log[n]) ELSE kept[n - 1]
    IN  kept[Len(log)]

\* Firings of the trailing hour.
Recent(eng, r, v, now) == After(eng.fireLog[valveKey(r, v)], now - Hour)

\* The variant that lets one action too many through.
CappedLate(eng, r, v, now) == Len(Recent(eng, r, v, now)) > r.cap

Capped(eng, r, v, now) == Len(Recent(eng, r, v, now)) >= r.cap

Fire(eng, r, v, now) ==
    [lastFire |-> [eng.lastFire EXCEPT ![valveKey(r, v)] = now],
     fireLog |-> [eng.fireLog EXCEPT ![valveKey(r, v)] =
                    Append(Recent(eng, r, v, now), now)]]

\* The firing log is pruned even when the cap holds the action back.
Prune(eng, r, v, now) ==
    [eng EXCEPT !.fireLog[valveKey(r, v)] = Recent(eng, r, v, now)]

\* The event a firing emits; an invalid one is dropped and the rule still
\* counts as fired.
Emission(r, t) ==
    LET e == Event(r.emit, "created", t.veh, t.ts, ruleKey(r), t.corr)
    IN  IF r.emit # "" /\ EventValid(e) THEN <<e>> ELSE <<>>

\* One iteration of Evaluate's two loops: rule r against event ev.
EvaluateOne(acc, r, ev, t, s, now) ==
    CASE ~Matches(r, t, s, ev) \/ CoolingDown(acc.eng, r, t.veh, now) -> acc
      [] Matches(r, t, s, ev) /\ ~CoolingDown(acc.eng, r, t.veh, now) ->
            IF Capped(acc.eng, r, t.veh, now)
            THEN [acc EXCEPT !.eng = Prune(@, r, t.veh, now)]
            ELSE [eng |-> Fire(acc.eng, r, t.veh, now),
                  out |-> acc.out \o Emission(r, t)]
=============================================================================
