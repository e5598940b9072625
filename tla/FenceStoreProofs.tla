-------------------------- MODULE FenceStoreProofs --------------------------
(***************************************************************************)
(* Proofs about Migrator and FenceStore, for any number of processes,      *)
(* migrations, requests, fences, restarts and failures of Postgres.        *)
(***************************************************************************)
EXTENDS FenceStore, DetectorLemmas

Boots == [pc : BootPCs, todo : SUBSET Versions]

\* What a booting process knows: the migrations it has no more to do are
\* recorded, the one it is about to record was executed, and there is nothing
\* left once it serves from Postgres.
BootKnows(b) ==
    /\ b.pc \in {"apply", "record"} => \A v \in Versions : v \in b.todo \/ v \in recorded
    /\ b.pc = "record" => \A v \in Versions : IsFirst(v, b.todo) => v \in schema
    /\ b.pc = "pg" => recorded = Versions

MigratorInv ==
    /\ MigratorTypeOK
    /\ SchemaTruthful
    /\ \A p \in Procs : BootKnows(boot[p])

\* The invariant holds of an empty database.
LEMMA MigratorInitInv == MigratorInit => MigratorInv
BY MigratorConfig
   DEF MigratorInit, MigratorInv, MigratorTypeOK, SchemaTruthful, NoGaps, BootKnows, Booting,
       BootPCs, Versions

\* Every step of every process keeps the invariant.
LEMMA MigratorStep == MigratorInv /\ [MigratorNext]_migratorVars => MigratorInv'
<1> SUFFICES ASSUME MigratorInv, [MigratorNext]_migratorVars PROVE MigratorInv'
  OBVIOUS
<1>0. boot \in [Procs -> Boots]
  BY DEF MigratorInv, MigratorTypeOK, Boots
<1> DEFINE Grows == /\ schema \subseteq schema' /\ schema' \subseteq Versions
                    /\ recorded \subseteq recorded' /\ recorded' \subseteq Versions
                    /\ crashes' \in 0 .. MaxCrashes
                    /\ SchemaTruthful'
\* A step that sets boot[p] to b and lets the tables grow.
<1>1. ASSUME NEW p \in Procs, NEW b \in Boots, Grows,
             boot' = [boot EXCEPT ![p] = b],
             /\ b.pc \in {"apply", "record"} => \A v \in Versions : v \in b.todo \/ v \in recorded'
             /\ b.pc = "record" => \A v \in Versions : IsFirst(v, b.todo) => v \in schema'
             /\ b.pc = "pg" => recorded' = Versions
      PROVE  MigratorInv'
  <2>1. boot' \in [Procs -> Boots]
    BY <1>0, <1>1
  <2>2. ASSUME NEW q \in Procs PROVE BootKnows(boot[q])'
    <3>1. CASE q = p
      <4>1. boot'[q] = b
        BY <1>0, <1>1, <3>1
      <4>2. QED
        BY <1>1, <4>1 DEF BootKnows, IsFirst
    <3>2. CASE q # p
      <4>1. boot'[q] = boot[q]
        BY <1>0, <1>1, <3>2
      <4>2. BootKnows(boot[q])
        BY DEF MigratorInv
      <4>3. QED
        BY <1>1, <4>1, <4>2 DEF BootKnows, IsFirst
    <3>3. QED
      BY <3>1, <3>2
  <2>3. QED
    BY <1>1, <2>1, <2>2 DEF MigratorInv, MigratorTypeOK, Boots
<1>2. ASSUME UNCHANGED <<schema, recorded>>, crashes' \in 0 .. MaxCrashes PROVE Grows
  BY <1>2 DEF MigratorInv, MigratorTypeOK, SchemaTruthful, NoGaps
<1>3. crashes \in 0 .. MaxCrashes
  BY DEF MigratorInv, MigratorTypeOK
<1>4. [pc |-> "memory", todo |-> {}] \in Boots /\ Booting \in Boots
  BY DEF Boots, BootPCs, Booting
<1>5. ASSUME NEW p \in Procs, FallBack(p), Grows PROVE MigratorInv'
  BY <1>1, <1>4, <1>5 DEF FallBack
<1>6. ASSUME NEW p \in Procs, OpenFails(p) PROVE MigratorInv'
  BY <1>2, <1>3, <1>5, <1>6 DEF OpenFails
<1>7. ASSUME NEW p \in Procs, Pending(p) PROVE MigratorInv'
  <2>1. [pc |-> "apply", todo |-> Versions \ recorded] \in Boots
    BY DEF Boots, BootPCs
  <2>2. Grows
    BY <1>2, <1>3, <1>7 DEF Pending
  <2>3. QED
    BY <1>1, <1>7, <2>1, <2>2 DEF Pending
<1>8. ASSUME NEW p \in Procs, NEW v \in Versions, IsFirst(v, boot[p].todo),
             boot[p].pc \in {"apply", "record"}
      PROVE  /\ \A u \in Versions : u < v => u \in recorded
             /\ boot[p] \in Boots /\ BootKnows(boot[p])
             /\ \A u \in Versions : IsFirst(u, boot[p].todo) => u = v
  <2>1. BootKnows(boot[p]) /\ boot[p] \in Boots
    BY <1>0 DEF MigratorInv
  <2>2. \A u \in Versions : u < v => u \notin boot[p].todo
    BY <1>8, MigratorConfig DEF IsFirst, Versions
  <2>3. \A u \in Versions : IsFirst(u, boot[p].todo) => u = v
    BY <1>8, MigratorConfig DEF IsFirst, Versions
  <2>4. QED
    BY <1>8, <2>1, <2>2, <2>3 DEF BootKnows
<1>9. ASSUME NEW p \in Procs, NEW v \in Versions, ApplyFile(p, v) PROVE MigratorInv'
  <2>1. /\ \A u \in Versions : u < v => u \in recorded
        /\ boot[p] \in Boots /\ BootKnows(boot[p])
        /\ \A u \in Versions : IsFirst(u, boot[p].todo) => u = v
    BY <1>8, <1>9 DEF ApplyFile
  <2>2. Grows
    <3>1. schema' \in {schema, schema \union {v}} /\ UNCHANGED <<recorded, crashes>>
      BY <1>9 DEF ApplyFile
    <3>2. recorded \subseteq schema /\ NoGaps(recorded) /\ NoGaps(schema)
      BY DEF MigratorInv, SchemaTruthful
    <3>3. NoGaps(schema)'
      BY <2>1, <3>1, <3>2, MigratorConfig DEF NoGaps, Versions
    <3>4. QED
      BY <1>3, <3>1, <3>2, <3>3
         DEF MigratorInv, MigratorTypeOK, SchemaTruthful, NoGaps
  <2>3. CASE FallBack(p)
    BY <1>5, <2>2, <2>3
  <2>4. CASE boot' = [boot EXCEPT ![p].pc = "record"] /\ schema' = schema \union {v}
    <3> DEFINE b == [boot[p] EXCEPT !.pc = "record"]
    <3>1. b \in Boots /\ b.pc = "record" /\ b.todo = boot[p].todo
      BY <2>1 DEF Boots, BootPCs
    <3>2. boot' = [boot EXCEPT ![p] = b]
      BY <1>0, <2>4 DEF Boots
    <3>3. \A u \in Versions : u \in b.todo \/ u \in recorded'
      BY <1>9, <2>1, <3>1 DEF ApplyFile, BootKnows
    <3>4. \A u \in Versions : IsFirst(u, b.todo) => u \in schema'
      BY <2>1, <2>4, <3>1
    <3> HIDE DEF b
    <3>5. QED
      BY <1>1, <2>2, <3>1, <3>2, <3>3, <3>4
  <2>5. QED
    BY <1>9, <2>3, <2>4 DEF ApplyFile
<1>10. ASSUME NEW p \in Procs, NEW v \in Versions, RecordFile(p, v) PROVE MigratorInv'
  <2>1. /\ \A u \in Versions : u < v => u \in recorded
        /\ boot[p] \in Boots /\ BootKnows(boot[p])
        /\ v \in schema
    BY <1>8, <1>10 DEF RecordFile, BootKnows
  <2>2. Grows
    <3>1. recorded' \in {recorded, recorded \union {v}} /\ UNCHANGED <<schema, crashes>>
      BY <1>10 DEF RecordFile
    <3>2. recorded \subseteq schema /\ NoGaps(recorded) /\ NoGaps(schema)
      BY DEF MigratorInv, SchemaTruthful
    <3>3. NoGaps(recorded)'
      BY <2>1, <3>1, <3>2, MigratorConfig DEF NoGaps, Versions
    <3>4. QED
      BY <1>3, <2>1, <3>1, <3>2, <3>3
         DEF MigratorInv, MigratorTypeOK, SchemaTruthful, NoGaps
  <2>3. CASE FallBack(p)
    BY <1>5, <2>2, <2>3
  <2>4. CASE /\ boot' = [boot EXCEPT ![p].pc = "apply", ![p].todo = @ \ {v}]
             /\ recorded' = recorded \union {v}
    <3> DEFINE b == [boot[p] EXCEPT !.pc = "apply", !.todo = @ \ {v}]
    <3>1. b \in Boots /\ b.pc = "apply" /\ b.todo = boot[p].todo \ {v}
      BY <2>1 DEF Boots, BootPCs
    <3>2. boot' = [boot EXCEPT ![p] = b]
      BY <1>0, <2>4 DEF Boots
    <3>3. \A u \in Versions : u \in b.todo \/ u \in recorded'
      BY <1>10, <2>1, <2>4, <3>1 DEF RecordFile, BootKnows
    <3> HIDE DEF b
    <3>4. QED
      BY <1>1, <2>2, <3>1, <3>2, <3>3
  <2>5. QED
    BY <1>10, <2>3, <2>4 DEF RecordFile
<1>11. ASSUME NEW p \in Procs, Serve(p) PROVE MigratorInv'
  <2>1. [pc |-> "pg", todo |-> {}] \in Boots
    BY DEF Boots, BootPCs
  <2>2. Grows
    BY <1>2, <1>3, <1>11 DEF Serve
  <2>3. recorded' = Versions
    BY <1>11 DEF Serve, MigratorInv, MigratorTypeOK, BootKnows
  <2>4. QED
    BY <1>1, <1>11, <2>1, <2>2, <2>3 DEF Serve
<1>12. ASSUME NEW p \in Procs, Restart(p) PROVE MigratorInv'
  <2>1. Grows
    BY <1>2, <1>3, <1>12, MigratorConfig DEF Restart
  <2>2. QED
    BY <1>1, <1>4, <1>12, <2>1 DEF Restart, Booting
<1>13. CASE UNCHANGED migratorVars
  BY <1>13 DEF migratorVars, MigratorInv, MigratorTypeOK, SchemaTruthful, NoGaps, BootKnows,
               IsFirst
<1>14. QED
  BY <1>6, <1>7, <1>9, <1>10, <1>11, <1>12, <1>13 DEF MigratorNext, Boot

\* schema_migrations never claims what was not executed and has no gaps.
THEOREM MigratorTruthful == MigratorSpec => []SchemaTruthful
<1>1. MigratorInv => SchemaTruthful
  BY DEF MigratorInv
<1>2. QED
  BY <1>1, MigratorInitInv, MigratorStep, PTL DEF MigratorSpec

\* A process only writes to Postgres when every migration has been executed.
THEOREM MigratorPgMeansSchema == MigratorSpec => []PgMeansSchema
<1>1. MigratorInv => PgMeansSchema
  BY DEF MigratorInv, MigratorTypeOK, SchemaTruthful, BootKnows, PgMeansSchema
<1>2. QED
  BY <1>1, MigratorInitInv, MigratorStep, PTL DEF MigratorSpec

----------------------------------------------------------------------------
(* The geofence endpoint.                                                  *)

Reqs == [pc : {"idle", "list", "set"}, f : FenceBodies, list : Seq(FenceBodies),
         alone : BOOLEAN]

FenceTypes ==
    /\ fences \in Seq(FenceBodies) /\ watched \in Seq(FenceBodies)
    /\ req \in [Requests -> Reqs]

\* A created fence is in the list, in the tracker and in every copy that is yet
\* to be installed; a request's own fence is in the list and in its copy; a
\* request is alone as long as no other is in flight.
Watching ==
    /\ \A f \in created : InSeq(f, fences) /\ InSeq(f, watched)
    /\ \A f \in created, r \in Requests : req[r].pc = "set" => InSeq(f, req[r].list)
    /\ \A r \in Requests : req[r].pc # "idle" => InSeq(req[r].f, fences)
    /\ \A r \in Requests : req[r].pc = "set" => InSeq(req[r].f, req[r].list)
    /\ \A r, q \in Requests : (r # q /\ req[r].pc # "idle" /\ req[r].alone)
                                    => req[q].pc = "idle"

\* A request in flight has its row, when there is a database at all.
Storing ==
    /\ durable \subseteq rows
    /\ \A r \in Requests : req[r].pc # "idle" => Serving /\ (HasPG => req[r].f.id \in rows)

FenceInv == FenceTypes /\ Watching /\ Storing

\* Appending keeps what is in a sequence and adds its argument.
LEMMA AppendIn ==
    ASSUME NEW s \in Seq(FenceBodies), NEW g \in FenceBodies
    PROVE  /\ Append(s, g) \in Seq(FenceBodies)
           /\ InSeq(g, Append(s, g))
           /\ \A f : InSeq(f, s) => InSeq(f, Append(s, g))
<1>1. Append(s, g) \in Seq(FenceBodies) /\ Len(Append(s, g)) = Len(s) + 1
  OBVIOUS
<1>2. Append(s, g)[Len(s) + 1] = g /\ Len(s) + 1 \in DOMAIN Append(s, g)
  OBVIOUS
<1>3. \A i \in DOMAIN s : i \in DOMAIN Append(s, g) /\ Append(s, g)[i] = s[i]
  OBVIOUS
<1>4. QED
  BY <1>1, <1>2, <1>3 DEF InSeq

\* An idle request is well typed.
LEMMA IdleRequestType == IdleRequest \in Reqs /\ IdleRequest.pc = "idle"
<1>1. NoFence \in FenceBodies
  BY FenceConfig DEF NoFence
<1>2. QED
  BY <1>1 DEF IdleRequest, Reqs

\* The invariant holds before the first boot.
LEMMA FenceInit == Init => FenceInv
BY IdleRequestType DEF Init, NoRequests, FenceInv, FenceTypes, Watching, Storing

\* A serving process boots no further.
LEMMA ServingStays ==
    ASSUME MigratorTypeOK, Serving, Elsewhere
    PROVE  UNCHANGED fenceVars /\ boot'[Api] = boot[Api]
<1>1. PICK p \in Procs : (Boot(p) \/ (p # Api /\ Restart(p))) /\ UNCHANGED fenceVars
  BY DEF Elsewhere
<1>2. p # Api
  BY <1>1 DEF Serving, Boot, OpenFails, Pending, Serve, ApplyFile, RecordFile
<1>3. boot'[Api] = boot[Api]
  BY <1>1, <1>2, FenceConfig
     DEF MigratorTypeOK, Boot, OpenFails, FallBack, Pending, Serve, ApplyFile, RecordFile, Restart
<1>4. QED
  BY <1>1, <1>3

\* Every step keeps the invariant: one step per action.
LEMMA FenceStep == MigratorTypeOK /\ FenceInv /\ [Next]_vars => FenceInv'
<1> SUFFICES ASSUME MigratorTypeOK, FenceInv, [Next]_vars PROVE FenceInv'
  OBVIOUS
<1>0. fences \in Seq(FenceBodies) /\ watched \in Seq(FenceBodies) /\ req \in [Requests -> Reqs]
  BY DEF FenceInv, FenceTypes
<1>1. ASSUME NEW r \in Requests, NEW f \in FenceBodies, Add(r, f) PROVE FenceInv'
  <2>1. /\ fences' = Append(fences, f) /\ Enter(r, f) /\ Serving /\ req[r].pc = "idle"
        /\ rows' = IF HasPG THEN rows \union {f.id} ELSE rows
        /\ UNCHANGED <<migratorVars, watched, created, durable>>
    BY <1>1 DEF Add, Listed
  <2>2. /\ req'[r] = [pc |-> "list", f |-> f, list |-> <<>>,
                      alone |-> {q \in Requests \ {r} : req[q].pc # "idle"} = {}]
        /\ \A q \in Requests \ {r} : req'[q] = [req[q] EXCEPT !.alone = FALSE]
        /\ DOMAIN req' = Requests
    <3>1. req' = [q \in Requests |->
                    IF q = r
                    THEN [pc |-> "list", f |-> f, list |-> <<>>,
                          alone |-> {x \in Requests \ {r} : req[x].pc # "idle"} = {}]
                    ELSE [req[q] EXCEPT !.alone = FALSE]]
      BY <2>1 DEF Enter
    <3>2. QED
      BY <3>1, Zenon
  <2>3. /\ req'[r].pc = "list" /\ req'[r].f = f
        /\ req'[r].alone => \A q \in Requests \ {r} : req[q].pc = "idle"
    <3> DEFINE others == {q \in Requests \ {r} : req[q].pc # "idle"}
    <3>1. req'[r] = [pc |-> "list", f |-> f, list |-> <<>>, alone |-> others = {}]
      BY <2>2
    <3>2. others = {} => \A q \in Requests \ {r} : req[q].pc = "idle"
      OBVIOUS
    <3>3. \A a \in BOOLEAN :
              req'[r] = [pc |-> "list", f |-> f, list |-> <<>>, alone |-> a]
                 => req'[r].pc = "list" /\ req'[r].f = f /\ (req'[r].alone => a = TRUE)
      OBVIOUS
    <3>4. (others = {}) \in BOOLEAN
      BY Zenon
    <3>5. QED
      BY <3>1, <3>2, <3>3, <3>4, Zenon
  <2>4. \A q \in Requests \ {r} :
            /\ req'[q].pc = req[q].pc /\ req'[q].f = req[q].f /\ req'[q].list = req[q].list
            /\ req'[q].alone = FALSE
    BY <1>0, <2>2 DEF Reqs
  <2>5. req'[r] \in Reqs
    BY <2>2 DEF Reqs
  <2>6. \A q \in Requests \ {r} : req'[q] \in Reqs
    BY <1>0, <2>2 DEF Reqs
  <2>7. FenceTypes'
    <3>1. req' = [q \in Requests |-> req'[q]]
      BY <2>1 DEF Enter
    <3>2. QED
      BY <1>0, <2>1, <2>5, <2>6, <3>1, AppendIn DEF FenceTypes
  <2>8. InSeq(f, fences') /\ \A g : InSeq(g, fences) => InSeq(g, fences')
    BY <1>0, <2>1, AppendIn
  <2>9. Watching'
    BY <2>1, <2>3, <2>4, <2>8 DEF FenceInv, Watching
  <2>10. Serving' /\ HasPG' = HasPG /\ rows \subseteq rows' /\ (HasPG => f.id \in rows')
    BY <2>1 DEF Serving, HasPG, migratorVars
  <2>11. Storing'
    BY <2>1, <2>3, <2>4, <2>10 DEF FenceInv, Storing
  <2>12. QED
    BY <2>7, <2>9, <2>11 DEF FenceInv
<1>2. ASSUME NEW r \in Requests, NEW f \in FenceBodies, AddFails(r, f) PROVE FenceInv'
  <2>1. /\ fences' = Append(fences, f) /\ rows \subseteq rows'
        /\ UNCHANGED <<migratorVars, watched, req, created, durable>>
    BY <1>2 DEF AddFails, Listed
  <2>2. fences' \in Seq(FenceBodies) /\ \A g : InSeq(g, fences) => InSeq(g, fences')
    BY <1>0, <2>1, AppendIn
  <2>3. Serving' = Serving /\ HasPG' = HasPG
    BY <2>1 DEF Serving, HasPG, migratorVars
  <2>4. FenceTypes' /\ Watching'
    BY <2>1, <2>2 DEF FenceInv, FenceTypes, Watching
  <2>5. Storing'
    BY <2>1, <2>3 DEF FenceInv, Storing
  <2>6. QED
    BY <2>4, <2>5 DEF FenceInv
<1>3. ASSUME NEW r \in Requests, CopyList(r) PROVE FenceInv'
  <2>1. /\ req[r].pc = "list" /\ req' = [req EXCEPT ![r].pc = "set", ![r].list = fences]
        /\ UNCHANGED <<migratorVars, fences, rows, watched, created, durable>>
    BY <1>3 DEF CopyList
  <2>2. /\ req'[r].pc = "set" /\ req'[r].list = fences /\ req'[r].f = req[r].f
        /\ req'[r].alone = req[r].alone
        /\ \A q \in Requests \ {r} : req'[q] = req[q]
        /\ req' \in [Requests -> Reqs]
    BY <1>0, <2>1 DEF Reqs
  <2>3. Serving' = Serving /\ HasPG' = HasPG
    BY <2>1 DEF Serving, HasPG, migratorVars
  <2>4. Watching'
    BY <2>1, <2>2 DEF FenceInv, Watching
  <2>5. Storing'
    BY <2>1, <2>2, <2>3 DEF FenceInv, Storing
  <2>6. QED
    BY <1>0, <2>1, <2>2, <2>4, <2>5 DEF FenceInv, FenceTypes
<1>4. ASSUME NEW r \in Requests, SetFences(r) PROVE FenceInv'
  <2>1. /\ req[r].pc = "set" /\ watched' = req[r].list
        /\ req' = [req EXCEPT ![r] = IdleRequest]
        /\ created' = created \union (IF req[r].alone THEN {req[r].f} ELSE {})
        /\ durable' = durable \union (IF HasPG THEN {req[r].f.id} ELSE {})
        /\ UNCHANGED <<migratorVars, fences, rows>>
    BY <1>4 DEF SetFences, Answer201
  <2>2. /\ req'[r].pc = "idle" /\ \A q \in Requests \ {r} : req'[q] = req[q]
        /\ req' \in [Requests -> Reqs]
    BY <1>0, <2>1, IdleRequestType
  <2>3. watched' \in Seq(FenceBodies)
    BY <1>0, <2>1 DEF Reqs
  <2>4. Watching'
    BY <2>1, <2>2 DEF FenceInv, Watching
  <2>5. Serving' = Serving /\ HasPG' = HasPG
    BY <2>1 DEF Serving, HasPG, migratorVars
  <2>6. Storing'
    BY <2>1, <2>2, <2>5 DEF FenceInv, Storing
  <2>7. QED
    BY <1>0, <2>1, <2>2, <2>3, <2>4, <2>6 DEF FenceInv, FenceTypes
<1>5. ASSUME UNCHANGED <<fences, rows, watched, req, created, durable>>,
             Serving => (Serving' /\ HasPG' = HasPG)
      PROVE  FenceInv'
  BY <1>5 DEF FenceInv, FenceTypes, Watching, Storing
<1>6. ASSUME NEW v \in Vehicles, NEW p \in Places, Evaluate(v, p) PROVE FenceInv'
  BY <1>5, <1>6 DEF Evaluate, migratorVars, Serving, HasPG
<1>7. CASE RestartApi
  BY <1>7, IdleRequestType DEF RestartApi, NoRequests, FenceInv, FenceTypes, Watching, Storing
<1>8. CASE Elsewhere
  <2>1. UNCHANGED fenceVars
    BY <1>8 DEF Elsewhere
  <2>2. Serving => (Serving' /\ HasPG' = HasPG)
    BY <1>8, ServingStays DEF Serving, HasPG
  <2>3. QED
    BY <1>5, <2>1, <2>2 DEF fenceVars
<1>9. CASE UNCHANGED vars
  BY <1>5, <1>9 DEF vars, fenceVars, migratorVars, Serving, HasPG
<1>10. QED
  BY <1>1, <1>2, <1>3, <1>4, <1>6, <1>7, <1>8, <1>9 DEF Next, Post

\* Under the endpoint the processes boot as Migrator says, so what is proved of
\* it holds here.
THEOREM FenceStoreBoots == Spec => MigratorSpec
<1>1. Init => MigratorInit
  BY DEF Init
<1>2. [Next]_vars => [MigratorNext]_migratorVars
  <2> SUFFICES ASSUME [Next]_vars PROVE [MigratorNext]_migratorVars
    OBVIOUS
  <2>1. CASE Elsewhere
    BY <2>1 DEF Elsewhere, MigratorNext
  <2>2. CASE RestartApi
    BY <2>2, FenceConfig DEF RestartApi, MigratorNext
  <2>3. ASSUME NEW r \in Requests, Post(r) PROVE UNCHANGED migratorVars
    BY <2>3 DEF Post, Add, AddFails, CopyList, SetFences
  <2>4. ASSUME NEW v \in Vehicles, NEW p \in Places, Evaluate(v, p)
        PROVE  UNCHANGED migratorVars
    BY <2>4 DEF Evaluate
  <2>5. QED
    BY <2>1, <2>2, <2>3, <2>4 DEF Next, vars
<1>3. QED
  BY <1>1, <1>2, PTL DEF Spec, MigratorSpec
\* The types of the migrator, as an invariant here.
LEMMA BootTypes == Spec => []MigratorTypeOK
<1>1. MigratorInv => MigratorTypeOK
  BY DEF MigratorInv
<1>2. QED
  BY <1>1, FenceStoreBoots, MigratorInitInv, MigratorStep, PTL DEF MigratorSpec

\* A fence whose POST overlapped no other stays watched, for any number of
\* requests.
THEOREM FencesWatched == Spec => []CreatedIsWatched
<1>1. FenceInv => CreatedIsWatched
  BY DEF FenceInv, Watching, CreatedIsWatched
<1>2. QED
  BY <1>1, FenceInit, FenceStep, BootTypes, PTL DEF Spec

\* A 201 with Postgres means a row, through every restart and lost reply.
THEOREM FencesStored == Spec => []CreatedIsStored
<1>1. FenceInv => CreatedIsStored
  BY DEF FenceInv, Storing, CreatedIsStored
<1>2. QED
  BY <1>1, FenceInit, FenceStep, BootTypes, PTL DEF Spec

----------------------------------------------------------------------------
(* The events of the fences.                                               *)

FenceIds == {f.id : f \in FenceBodies}
FenceEvents == [kind : {"geofence"}, phase : Phases, veh : Vehicles, ts : Int, cause : FenceIds,
                corr : BOOLEAN]

\* The tracker's memory of a vehicle is the fences whose last event is entered.
Remembers == \A v \in Vehicles : \A x : x \in members[v] <=> Open(emitted, FenceStream(v, x))

EventInv ==
    /\ emitted \in Seq(FenceEvents) /\ reports \in Nat
    /\ members \in [Vehicles -> SUBSET FenceIds]
    /\ Bracketed(emitted)
    /\ Remembers

\* Nothing was emitted, and nobody is inside of a fence.
LEMMA NoEvents ==
    ASSUME NEW q, q = <<>>
    PROVE  Bracketed(q) /\ q \in Seq(FenceEvents) /\ \A f : ~Open(q, f)
BY DEF Bracketed, Open, OpenIn

\* Only a point and a restart change what the tracker remembers: a point by
\* FencesCross, whatever fences are being watched by then.
LEMMA EventStep == EventInv /\ FenceTypes /\ [Next]_vars => EventInv'
<1> SUFFICES ASSUME EventInv, FenceTypes, [Next]_vars PROVE EventInv'
  OBVIOUS
<1>1. ASSUME UNCHANGED <<emitted, members, reports>> PROVE EventInv'
  BY <1>1 DEF EventInv, Remembers
<1>2. CASE RestartApi
  <2>1. /\ emitted' = <<>> /\ members' = [v \in Vehicles |-> {}] /\ reports' = reports
    BY <1>2 DEF RestartApi, NoMembers
  <2>2. Bracketed(emitted') /\ emitted' \in Seq(FenceEvents) /\ \A f : ~Open(emitted', f)
    BY <2>1, NoEvents
  <2>3. QED
    BY <2>1, <2>2 DEF EventInv, Remembers
<1>3. ASSUME NEW v \in Vehicles, NEW p \in Places, Evaluate(v, p) PROVE EventInv'
  <2> DEFINE t == [veh |-> v, ts |-> reports + 1, loc |-> p, corr |-> TRUE]
             g == EvaluateFences(members[v], watched, t)
  <2>1. /\ reports' = reports + 1 /\ members' = [members EXCEPT ![v] = g.mem]
        /\ emitted' = emitted \o g.out
    BY <1>3 DEF Evaluate
  <2>2. t.veh = v /\ t.ts \in Int /\ t.corr \in BOOLEAN
    BY DEF EventInv
  <2> HIDE DEF t
  <2>3. \A ph \in {"entered", "exited"}, x \in FenceIds : Crossing(ph, t, x) \in FenceEvents
    BY <2>2 DEF Crossing, Event, FenceEvents, Phases
  <2>4. Len(watched) \in Nat /\ \A i \in 1 .. Len(watched) : watched[i].id \in FenceIds
    BY DEF FenceTypes, FenceIds
  <2>5. /\ members[v] \in SUBSET FenceIds /\ emitted \in Seq(FenceEvents) /\ Bracketed(emitted)
        /\ \A x : x \in members[v] <=> Open(emitted, FenceStream(t.veh, x))
    BY <2>2 DEF EventInv, Remembers
  <2>6. Crossed(TRUE, FenceEvents, FenceIds, emitted, t.veh, EvaluateFences(members[v], watched, t))
    BY <2>3, <2>4, <2>5, FencesCross
  <2>7. Crossed(TRUE, FenceEvents, FenceIds, emitted, v, g)
    BY <2>2, <2>6
  <2> HIDE DEF g
  <2>8. /\ g.mem \in SUBSET FenceIds /\ g.out \in Seq(FenceEvents)
        /\ Bracketed(emitted')
        /\ \A x : x \in g.mem <=> Open(emitted', FenceStream(v, x))
        /\ \A f : (f.kind = "geofence" /\ f.veh = v) \/ (Open(emitted', f) <=> Open(emitted, f))
    BY <2>1, <2>7 DEF Crossed
  <2>9. emitted' \in Seq(FenceEvents) /\ reports' \in Nat
    BY <2>1, <2>5, <2>8 DEF EventInv
  <2>10. members' \in [Vehicles -> SUBSET FenceIds]
    BY <2>1, <2>8 DEF EventInv
  <2>11. Remembers'
    <3>1. ASSUME NEW u \in Vehicles, NEW x
          PROVE  x \in members'[u] <=> Open(emitted', FenceStream(u, x))
      <4>1. CASE u = v
        BY <2>1, <2>8, <4>1 DEF EventInv
      <4>2. CASE u # v
        <5>1. members'[u] = members[u] /\ (x \in members[u] <=> Open(emitted, FenceStream(u, x)))
          BY <2>1, <4>2 DEF EventInv, Remembers
        <5>2. FenceStream(u, x).veh = u
          BY DEF FenceStream
        <5>3. QED
          BY <2>8, <4>2, <5>1, <5>2
      <4>3. QED
        BY <4>1, <4>2
    <3>2. QED
      BY <3>1 DEF Remembers
  <2>12. QED
    BY <2>8, <2>9, <2>10, <2>11 DEF EventInv
<1>4. ASSUME NEW r \in Requests, Post(r) PROVE EventInv'
  BY <1>1, <1>4 DEF Post, Add, AddFails, CopyList, SetFences
<1>5. CASE Elsewhere
  BY <1>1, <1>5 DEF Elsewhere, fenceVars
<1>6. CASE UNCHANGED vars
  BY <1>1, <1>6 DEF vars, fenceVars
<1>7. QED
  BY <1>2, <1>3, <1>4, <1>5, <1>6 DEF Next

\* Entered and exited alternate for every vehicle and fence of a process life,
\* whatever the polygons, however many requests replace the fences and in
\* whatever order the replaced lists are installed.
THEOREM FencesBracketed == Spec => []FenceEventsBracketed
<1>1. Init => EventInv
  BY NoEvents DEF Init, NoMembers, EventInv, Remembers
<1>2. FenceInv => FenceTypes
  BY DEF FenceInv
<1>3. EventInv => FenceEventsBracketed
  BY DEF EventInv, FenceEventsBracketed
<1>4. QED
  BY <1>1, <1>2, <1>3, FenceInit, FenceStep, EventStep, BootTypes, PTL DEF Spec
=============================================================================
