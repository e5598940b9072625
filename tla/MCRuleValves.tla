---------------------------- MODULE MCRuleValves ----------------------------
(***************************************************************************)
(* Instances of RuleValves: a rule with a cooldown and a webhook, an edit  *)
(* of it under the same version that emits nothing, a geofence rule with   *)
(* neither, and a rule that does not parse; points with and without a      *)
(* speed that JSON can hold.                                               *)
(***************************************************************************)
EXTENDS RuleValves

Pt == [key |-> "k", veh |-> "v", ts |-> 10, speed |-> 120, ign |-> "on", loc |-> 1,
       corr |-> TRUE]
InfPt == [Pt EXCEPT !.speed = Infinite]
St == [ZeroState EXCEPT !.speed = 120, !.lastSeen = 10]

Rule(id, version, kind, phase, conds, emit, webhook, cooldown, cap) ==
    [id |-> id, version |-> version, kind |-> kind, phase |-> phase, conds |-> conds,
     emit |-> emit, webhook |-> webhook, cooldown |-> cooldown, cap |-> cap]

Fast == {[field |-> "speedKmh", op |-> ">", value |-> 100]}

Typo == {[field |-> "speedKmh", op |-> "=>", value |-> 100]}

ValveSpecs ==
    {Rule("alert", "v1", "speeding", "started", Fast, "incident", "open", 60, 0),
     Rule("alert", "v1", "speeding", "started", Fast, "", "blocked", 0, 1),
     Rule("gate", "v1", "geofence", "entered", {}, "incident", "none", 0, 3),
     Rule("typo", "v1", "speeding", "started", Typo, "incident", "none", 0, 3)}

MCBatches ==
    {[t |-> Pt, s |-> St, evs |-> <<mkEvent("speeding", "started", Pt)>>],
     [t |-> InfPt, s |-> [St EXCEPT !.speed = Infinite],
      evs |-> <<mkEvent("speeding", "started", InfPt)>>],
     [t |-> Pt, s |-> St, evs |-> <<Event("geofence", "entered", "v", 10, "f1", TRUE),
                                    Event("geofence", "entered", "v", 10, "f2", TRUE)>>]}
=============================================================================
