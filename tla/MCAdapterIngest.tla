--------------------------- MODULE MCAdapterIngest ---------------------------
(***************************************************************************)
(* AdapterIngest for TLC: one vehicle that reports over MQTT and is known  *)
(* to Traccar, at real epoch seconds.                                      *)
(***************************************************************************)
EXTENDS AdapterIngest, PipelineSerial

Epoch == 1700000000

FleetMapping ==
    [broker |-> TRUE, topics |-> {"fleet/+/telemetry"}, tenant |-> TRUE, provider |-> "",
     fields |-> {"vehicleId", "lat", "lng", "speed", "ignition", "timestamp", "sequence"},
     speedUnit |-> "ms", topicVehicleIndex |-> <<1>>]

Number(n) == [kind |-> "number", text |-> ToString(n), num |-> <<n>>, time |-> <<>>]
Text(s) == [kind |-> "string", text |-> s, num |-> <<>>, time |-> <<>>]
Date(i) == [Text("date") EXCEPT !.time = <<i>>]
Truth(b) == [kind |-> "bool", text |-> IF b THEN "true" ELSE "false", num |-> <<>>, time |-> <<>>]

Mqtt(raw, doc) ==
    [src |-> "mqtt", topic |-> <<"fleet", "v", "telemetry">>, raw |-> raw,
     doc |-> [f \in FleetMapping.fields |-> IF f \in DOMAIN doc THEN doc[f] ELSE Absent]]

\* Numbered, in epoch seconds.
Numbered == Mqtt("p1", [timestamp |-> Number(Epoch), sequence |-> Number(7), speed |-> Number(9),
                        lat |-> Number(1), lng |-> Number(2), ignition |-> Text("on")])

\* Neither a number nor a time that parses; no position.
Bare == Mqtt("p2", [vehicleId |-> Text("v"), timestamp |-> Text("soon"), ignition |-> Number(0)])

\* Unnumbered, with a date; its speed does not parse.
Dated == Mqtt("p3", [timestamp |-> Date(Epoch - 10), speed |-> Text("fast")])

\* A position the clock has yet to reach.
Polled == [src |-> "traccar", pos |-> "traccar-5", dev |-> "v", fixTime |-> Epoch + 1200,
           lat |-> 1, lng |-> 3, knots |-> 30, ign |-> Truth(TRUE), raw |-> "osmand"]

FleetMessages == {Numbered, Bare, Polled}
MqttMessages == {Numbered, Dated}

Readings == {Normalized(Mapping, m, at) : m \in Messages, at \in Instants}
ReadPoints == {r.t : r \in {q \in Readings : q.ok}}
ReadKeys == {t.key : t \in ReadPoints}
ReadVehicles == {t.veh : t \in ReadPoints}
NoFences == <<>>
=============================================================================
