----------------------------- MODULE FenceStore -----------------------------
(***************************************************************************)
(* The geofence endpoint of tide-api on top of its boot: handleGeofences   *)
(* and GeofenceStore (internal/api/server.go), PG.AddGeofence              *)
(* (internal/store/pg.go) and the tracker's SetFences and Evaluate         *)
(* (internal/geo/geo.go).                                                  *)
(*                                                                         *)
(* POST is three critical sections under two mutexes: Add appends to the   *)
(* list and inserts the row, List copies the list, SetFences hands it to   *)
(* the tracker.  Requests and telemetry interleave between them.  A        *)
(* restart empties the list, and nothing reads the rows back.              *)
(***************************************************************************)
EXTENDS Migrator, Geofence

CONSTANTS
    Api,            \* the process that serves the endpoint
    Requests,       \* concurrent POST requests
    FenceBodies,    \* fences clients send: [id, tenant, corners, area, bbox]
    TenantRows,     \* tenants that geofences.tenant_id may refer to
    Vehicles,
    Places,         \* positions vehicles report
    MaxFences,      \* bound: fences in the list
    MaxReports      \* bound: points evaluated

ASSUME FenceConfig ==
    /\ Api \in Procs
    /\ FenceBodies # {}
    /\ MaxFences \in Nat /\ MaxReports \in Nat

VARIABLES
    fences,     \* GeofenceStore.fences
    rows,       \* Postgres: ids of the geofences table
    watched,    \* Tracker.fences
    members,    \* Tracker.members
    req,        \* the locals of each POST: [pc, f, list, alone]
    emitted,    \* history: fence events of this process life, in order
    reports,    \* counter of the bound, and the clock of the points
    created,    \* history: fences of this process life answered 201 by a POST no other overlapped
    durable     \* history: ids answered 201 with Postgres, in any process life

fenceVars == <<fences, rows, watched, members, req, emitted, reports, created, durable>>
vars == <<migratorVars, fenceVars>>

NoFence == CHOOSE f \in FenceBodies : TRUE      \* f of an idle request, never read
IdleRequest == [pc |-> "idle", f |-> NoFence, list |-> <<>>, alone |-> FALSE]
NoRequests == [r \in Requests |-> IdleRequest]
NoMembers == [v \in Vehicles |-> {}]

Init ==
    /\ MigratorInit
    /\ fences = <<>> /\ rows = {} /\ watched = <<>> /\ members = NoMembers
    /\ req = NoRequests
    /\ emitted = <<>> /\ reports = 0 /\ created = {} /\ durable = {}

Serving == boot[Api].pc \in {"memory", "pg"}
HasPG == boot[Api].pc = "pg"

\* The checks of Add; a fence that fails them is answered 422.
Complete(f) == f.id # "" /\ f.tenant # "" /\ f.corners >= 3

\* The part of Add before the row: the fence is in the list from here on.
Listed(r, f) ==
    /\ Serving
    /\ req[r].pc = "idle"
    /\ Complete(f)
    /\ Len(fences) < MaxFences
    /\ fences' = Append(fences, f)

\* r is handling f; requests in flight overlap from now on.
Enter(r, f) ==
    LET others == {q \in Requests \ {r} : req[q].pc # "idle"}
    IN  req' = [q \in Requests |->
                    IF q = r
                    THEN [pc |-> "list", f |-> f, list |-> <<>>, alone |-> others = {}]
                    ELSE [req[q] EXCEPT !.alone = FALSE]]

\* The variant that answers 201 although the row was refused.
AddAnyway(r, f) ==
    /\ Listed(r, f)
    /\ Enter(r, f)
    /\ rows' \in {rows, IF HasPG THEN rows \union {f.id} ELSE rows}
    /\ UNCHANGED <<migratorVars, watched, members, emitted, reports, created, durable>>

\* Add succeeds: INSERT ... ON CONFLICT (id) DO NOTHING, or no Postgres.
Add(r, f) ==
    /\ Listed(r, f)
    /\ Enter(r, f)
    /\ HasPG => f.tenant \in TenantRows
    /\ rows' = IF HasPG THEN rows \union {f.id} ELSE rows
    /\ UNCHANGED <<migratorVars, watched, members, emitted, reports, created, durable>>

\* The row is refused (no such tenant, Postgres down) or its reply is lost:
\* 422, with the fence left in the list.
AddFails(r, f) ==
    /\ HasPG
    /\ Listed(r, f)
    /\ rows' \in {rows} \union (IF f.tenant \in TenantRows THEN {rows \union {f.id}} ELSE {})
    /\ UNCHANGED <<migratorVars, watched, members, req, emitted, reports, created, durable>>

\* List copies the list.
CopyList(r) ==
    /\ req[r].pc = "list"
    /\ req' = [req EXCEPT ![r].pc = "set", ![r].list = fences]
    /\ UNCHANGED <<migratorVars, fences, rows, watched, members, emitted, reports, created,
                   durable>>

Answer201(r) ==
    /\ req' = [req EXCEPT ![r] = IdleRequest]
    /\ created' = created \union (IF req[r].alone THEN {req[r].f} ELSE {})
    /\ durable' = durable \union (IF HasPG THEN {req[r].f.id} ELSE {})

\* The variant that installs the new fence alone.
SetFencesNewest(r) ==
    /\ req[r].pc = "set"
    /\ watched' = <<req[r].f>>
    /\ Answer201(r)
    /\ UNCHANGED <<migratorVars, fences, rows, members, emitted, reports>>

\* The variant that forgets who is inside.
SetFencesFresh(r) ==
    /\ req[r].pc = "set"
    /\ watched' = req[r].list
    /\ members' = NoMembers
    /\ Answer201(r)
    /\ UNCHANGED <<migratorVars, fences, rows, emitted, reports>>

\* SetFences installs the copy, 201.  The membership of vehicles stays.
SetFences(r) ==
    /\ req[r].pc = "set"
    /\ watched' = req[r].list
    /\ Answer201(r)
    /\ UNCHANGED <<migratorVars, fences, rows, members, emitted, reports>>

\* A point of v at place p reaches Tracker.Evaluate.
Evaluate(v, p) ==
    LET t == [veh |-> v, ts |-> reports + 1, loc |-> p, corr |-> TRUE]
        g == EvaluateFences(members[v], watched, t)
    IN  /\ Serving
        /\ reports < MaxReports
        /\ reports' = reports + 1
        /\ members' = [members EXCEPT ![v] = g.mem]
        /\ emitted' = emitted \o g.out
        /\ UNCHANGED <<migratorVars, fences, rows, watched, req, created, durable>>

\* The process of the endpoint restarts: only the rows are left.
RestartApi ==
    /\ Restart(Api)
    /\ fences' = <<>> /\ watched' = <<>> /\ members' = NoMembers /\ req' = NoRequests
    /\ emitted' = <<>> /\ created' = {}
    /\ UNCHANGED <<rows, reports, durable>>

Elsewhere == \E p \in Procs : (Boot(p) \/ (p # Api /\ Restart(p))) /\ UNCHANGED fenceVars

Post(r) == (\E f \in FenceBodies : Add(r, f) \/ AddFails(r, f)) \/ CopyList(r) \/ SetFences(r)

Next ==
    \/ Elsewhere
    \/ RestartApi
    \/ \E r \in Requests : Post(r)
    \/ \E v \in Vehicles, p \in Places : Evaluate(v, p)

Spec == Init /\ [][Next]_vars

----------------------------------------------------------------------------
InSeq(f, s) == \E i \in DOMAIN s : s[i] = f

\* A fence created by a POST that overlapped no other one stays watched for the
\* rest of the process life, whatever later requests do to each other: the
\* list only grows, and no copy without the fence is left to be installed
\* (Add, List and SetFences of handleGeofences).
CreatedIsWatched == \A f \in created : InSeq(f, watched)

\* A 201 with Postgres means a row of that id, restarts included (Add returns
\* AddGeofence's error).
CreatedIsStored == durable \subseteq rows

\* Per vehicle and fence, entered and exited alternate while requests replace
\* the fences, in any order, under a vehicle that is inside of one.
FenceEventsBracketed == Bracketed(emitted)
=============================================================================
