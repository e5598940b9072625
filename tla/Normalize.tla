------------------------------ MODULE Normalize ------------------------------
(***************************************************************************)
(* How the adapters turn what an upstream sends into telemetry:            *)
(* adapters/mqtt/mapping.go and adapters/traccar/traccar.go.               *)
(*                                                                         *)
(* An MQTT message is [src |-> "mqtt", topic, doc, raw]: doc gives, for    *)
(* every canonical field, the JSON value at the path the mapping names for *)
(* it, or Absent; raw identifies the payload.  A JSON value is a record    *)
(* [kind, text, num, time]: what toString, ParseFloat and time.Parse make  *)
(* of it, where <<>> stands for a failure and <<n>> for the result n.  A   *)
(* Traccar position is [src |-> "traccar", pos, dev, fixTime, lat, lng,    *)
(* knots, ign, raw]; raw identifies its protocol and attributes.           *)
(*                                                                         *)
(* Speeds are rounded down to whole units, coordinates are small integers. *)
(***************************************************************************)
EXTENDS VehicleState, Sequences

Absent == [kind |-> "absent", text |-> "", num |-> <<>>, time |-> <<>>]

toFloat(v) == IF v.kind \in {"number", "string"} THEN v.num ELSE <<>>

\* "" when the value has no text; callers treat the two alike.
toString(v) == IF v.kind \in {"number", "string", "bool"} THEN v.text ELSE ""

\* The checks of LoadMapping: a mapping that fails one configures no adapter.
LoadMapping(c) == c.broker /\ c.topics # {} /\ c.speedUnit \in {"", "kmh", "mph", "ms"}

providerOf(c) == IF c.provider = "" THEN "mqtt" ELSE c.provider

\* The closure get and lookup: a field the mapping does not name is absent.
get(c, m, name) == IF name \in c.fields THEN m.doc[name] ELSE Absent

vehicleOf(c, m) ==
    LET named == toString(get(c, m, "vehicleId"))
    IN  IF named = "" /\ c.topicVehicleIndex # <<>> /\ c.topicVehicleIndex[1] < Len(m.topic)
        THEN m.topic[c.topicVehicleIndex[1] + 1] ELSE named

kmh(unit, f) ==
    CASE unit = "mph" -> (f * 160934) \div 100000
      [] unit = "ms" -> (f * 36) \div 10
      [] OTHER -> f

speedFrom(c, m) ==
    LET f == toFloat(get(c, m, "speed"))
    IN  IF f = <<>> THEN NoSpeed ELSE kmh(c.speedUnit, f[1])

onOff(b) == IF b THEN "on" ELSE "off"

ignitionFrom(v) ==
    CASE v.kind = "bool" -> onOff(v.text = "true")
      [] v.kind = "string" -> onOff(v.text \in {"true", "1", "on"})
      [] v.kind = "number" -> onOff(v.num # <<0>>)
      [] OTHER -> "nil"

\* The event time of a message, or <<>>: a date, or epoch seconds.
timeFrom(v) ==
    LET f == toFloat(v)
    IN  CASE v.kind = "string" /\ v.time # <<>> -> v.time
          [] (v.kind # "string" \/ v.time = <<>>) /\ f # <<>> /\ f[1] > 1000000000 -> f
          [] OTHER -> <<>>

Coordinate(v) == LET f == toFloat(v) IN IF f = <<>> THEN 0 ELSE f[1]

\* A numbering of the pairs of small coordinates.
Place(lat, lng) == 1000 * lat + lng

\* Telemetry.DedupKey: by sequence number, else by event time and payload.
DedupKey(provider, device, seq, ts, raw) ==
    IF seq # <<>>
    THEN [provider |-> provider, device |-> device, seq |-> seq[1]]
    ELSE [provider |-> provider, device |-> device, ts |-> ts, hash |-> raw]

\* The variant that stamps every message with the time it was received.
MapPayloadReceivedAt(c, m, now) ==
    LET veh == vehicleOf(c, m)
        t == [id |-> "", key |-> DedupKey(providerOf(c), veh, <<>>, now, m.raw),
              veh |-> veh, ts |-> now, speed |-> speedFrom(c, m),
              ign |-> ignitionFrom(get(c, m, "ignition")),
              loc |-> Place(Coordinate(get(c, m, "lat")), Coordinate(get(c, m, "lng"))),
              corr |-> TRUE]
    IN  [ok |-> c.tenant /\ veh # "" /\ Valid(t), t |-> t, quality |-> "good"]

\* MapPayload: a message without an event time gets the time it is mapped at
\* and is marked; no message gets an id.
MapPayload(c, m, now) ==
    LET veh == vehicleOf(c, m)
        time == timeFrom(get(c, m, "timestamp"))
        ts == IF time = <<>> THEN now ELSE time[1]
        seq == toFloat(get(c, m, "sequence"))
        t == [id |-> "", key |-> DedupKey(providerOf(c), veh, seq, ts, m.raw),
              veh |-> veh, ts |-> ts, speed |-> speedFrom(c, m),
              ign |-> ignitionFrom(get(c, m, "ignition")),
              loc |-> Place(Coordinate(get(c, m, "lat")), Coordinate(get(c, m, "lng"))),
              corr |-> TRUE]
    IN  [ok |-> c.tenant /\ veh # "" /\ Valid(t), t |-> t,
         quality |-> IF time = <<>> THEN "degraded:no-timestamp" ELSE "good"]

\* PositionToTelemetry: the dedup key has no trace of the position itself.
PositionToTelemetry(p) ==
    LET t == [id |-> p.pos, key |-> DedupKey("traccar", p.dev, <<>>, p.fixTime, p.raw),
              veh |-> p.dev, ts |-> p.fixTime, speed |-> (p.knots * 1852) \div 1000,
              ign |-> IF p.ign.kind = "bool" THEN onOff(p.ign.text = "true") ELSE "nil",
              loc |-> Place(p.lat, p.lng), corr |-> TRUE]
    IN  [ok |-> Valid(t), t |-> t, quality |-> "good"]

\* HandleRaw of either adapter, up to its call of emit.
Normalized(c, m, now) ==
    IF m.src = "mqtt" THEN MapPayload(c, m, now) ELSE PositionToTelemetry(m)
=============================================================================
