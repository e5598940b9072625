--------------------------- MODULE MCSerialIngest ---------------------------
(***************************************************************************)
(* SerialIngest on one vehicle: five points at four event times, each of   *)
(* any of five kinds, folded in any order of arrival.                      *)
(***************************************************************************)
EXTENDS Recompute

\* Keys are event times; 116 is a second point at 115.
MCKeys == {100, 115, 116, 500, 900}
TimeOf(k) == IF k = 116 THEN 115 ELSE k
IdOf(k) == IF k = 116 THEN "b" ELSE "a"
MCIdOrder == <<"a", "b">>

\* <<speed, ignition>>: speeding, at rest with the engine on, driving with
\* the ignition reported off, in the hysteresis band, nothing reported.
Contents == {<<120, "on">>, <<0, "on">>, <<10, "off">>, <<4, "nil">>, <<NoSpeed, "nil">>}

MCPoints ==
    {[id |-> IdOf(k), key |-> k, veh |-> "v", ts |-> TimeOf(k), speed |-> c[1],
      ign |-> c[2], loc |-> k % 7, corr |-> TRUE] : k \in MCKeys, c \in Contents}
=============================================================================
