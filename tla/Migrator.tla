------------------------------ MODULE Migrator ------------------------------
(***************************************************************************)
(* Booting against Postgres: store.Open and db.Migrator.ApplyPending       *)
(* (internal/db/migrator.go) as boot.Build calls them, in processes that   *)
(* start, crash and restart independently (tide-api and tide-engine share  *)
(* one database).                                                          *)
(*                                                                         *)
(* A migration file runs as one implicit transaction and is written with   *)
(* IF NOT EXISTS, so it may run again; recording it is a statement of its  *)
(* own.  Any statement may fail, before or after it took effect.           *)
(***************************************************************************)
EXTENDS Integers

CONSTANTS
    Procs,          \* processes that boot
    LastVersion,    \* the migration files are numbered 1 .. LastVersion
    MaxCrashes      \* bound: process crashes

ASSUME MigratorConfig == LastVersion \in Nat /\ MaxCrashes \in Nat

VARIABLES
    schema,     \* migrations whose SQL Postgres has executed
    recorded,   \* rows of schema_migrations
    boot,       \* per process: [pc, todo]; pc is "memory" or "pg" once it serves
    crashes     \* counter of the bound

migratorVars == <<schema, recorded, boot, crashes>>

Versions == 1 .. LastVersion
BootPCs == {"start", "apply", "record", "memory", "pg"}

Booting == [pc |-> "start", todo |-> {}]

MigratorInit ==
    /\ schema = {} /\ recorded = {}
    /\ boot = [p \in Procs |-> Booting]
    /\ crashes = 0

\* v is the migration ApplyPending is at: files are sorted by number.
IsFirst(v, todo) == v \in todo /\ \A u \in todo : v <= u

\* store.Open or a statement of the migrator fails: memory mode.
FallBack(p) == boot' = [boot EXCEPT ![p] = [pc |-> "memory", todo |-> {}]]

OpenFails(p) ==
    /\ boot[p].pc = "start"
    /\ FallBack(p)
    /\ UNCHANGED <<schema, recorded, crashes>>

\* Pending: the files whose number schema_migrations lacks.
Pending(p) ==
    /\ boot[p].pc = "start"
    /\ boot' = [boot EXCEPT ![p] = [pc |-> "apply", todo |-> Versions \ recorded]]
    /\ UNCHANGED <<schema, recorded, crashes>>

\* The variant that records a migration before it runs.
ApplyFileRecordedFirst(p, v) ==
    /\ boot[p].pc = "apply"
    /\ IsFirst(v, boot[p].todo)
    /\ boot' = [boot EXCEPT ![p].pc = "record"] \/ FallBack(p)
    /\ recorded' = recorded \union {v}
    /\ UNCHANGED <<schema, crashes>>

\* Exec of the next file; when it fails its effect may be there all the same.
ApplyFile(p, v) ==
    /\ boot[p].pc = "apply"
    /\ IsFirst(v, boot[p].todo)
    /\ \/ /\ schema' = schema \union {v}
          /\ boot' = [boot EXCEPT ![p].pc = "record"] \/ FallBack(p)
       \/ UNCHANGED schema /\ FallBack(p)
    /\ UNCHANGED <<recorded, crashes>>

\* INSERT INTO schema_migrations ... ON CONFLICT DO NOTHING.
RecordFile(p, v) ==
    /\ boot[p].pc = "record"
    /\ IsFirst(v, boot[p].todo)
    /\ \/ /\ recorded' = recorded \union {v}
          /\ \/ boot' = [boot EXCEPT ![p].pc = "apply", ![p].todo = @ \ {v}]
             \/ FallBack(p)
       \/ UNCHANGED recorded /\ FallBack(p)
    /\ UNCHANGED <<schema, crashes>>

\* The variant that serves from Postgres after a failure as well.
ServeAnyway(p) ==
    /\ boot[p].pc = "apply"
    /\ boot' = [boot EXCEPT ![p] = [pc |-> "pg", todo |-> {}]]
    /\ UNCHANGED <<schema, recorded, crashes>>

\* ApplyPending returns without an error: b.PG is set.
Serve(p) ==
    /\ boot[p].pc = "apply" /\ boot[p].todo = {}
    /\ boot' = [boot EXCEPT ![p] = [pc |-> "pg", todo |-> {}]]
    /\ UNCHANGED <<schema, recorded, crashes>>

Restart(p) ==
    /\ crashes < MaxCrashes
    /\ crashes' = crashes + 1
    /\ boot' = [boot EXCEPT ![p] = Booting]
    /\ UNCHANGED <<schema, recorded>>

Boot(p) ==
    \/ OpenFails(p) \/ Pending(p) \/ Serve(p)
    \/ \E v \in Versions : ApplyFile(p, v) \/ RecordFile(p, v)

MigratorNext == \E p \in Procs : Boot(p) \/ Restart(p)

MigratorSpec == MigratorInit /\ [][MigratorNext]_migratorVars

----------------------------------------------------------------------------
MigratorTypeOK ==
    /\ schema \in SUBSET Versions /\ recorded \in SUBSET Versions
    /\ boot \in [Procs -> [pc : BootPCs, todo : SUBSET Versions]]
    /\ crashes \in 0 .. MaxCrashes

NoGaps(S) == \A v \in S : \A u \in Versions : u < v => u \in S

\* What schema_migrations says is true: a recorded migration was executed, and
\* migrations were executed and recorded without gaps, whichever processes
\* boot at once, crash between the two statements or lose a reply.
SchemaTruthful == recorded \subseteq schema /\ NoGaps(recorded) /\ NoGaps(schema)

\* A process that writes to Postgres does so on the whole schema.
PgMeansSchema == \A p \in Procs : boot[p].pc = "pg" => schema = Versions
=============================================================================
