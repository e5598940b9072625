----------------------------- MODULE RuleValves -----------------------------
(***************************************************************************)
(* The rules engine under concurrent callers (internal/rules/rules.go):    *)
(* Publish, and Evaluate as the pipeline's goroutines call it.  Evaluate   *)
(* takes the engine's mutex, then reads the clock once, then tries every   *)
(* rule on every event.  A firing with a webhook calls Dispatcher.Dispatch *)
(* (internal/webhooks/webhooks.go), retries and all, with the mutex held,  *)
(* so the clock moves on while others wait for it.                         *)
(*                                                                         *)
(* A rule's webhook is "none", "blocked" (a target ValidateURL refuses) or *)
(* "open".  External: the endpoint, which may give any answer to each      *)
(* request.                                                                *)
(***************************************************************************)
EXTENDS RuleEngine, SequencesExt

CONSTANTS
    Callers,    \* goroutines inside Rules.Evaluate
    Specs,      \* rule files: specifications that may be parsed and published
    Vehicles,
    Batches,    \* inputs of Evaluate: [t, s, evs]
    Instants,   \* wall-clock readings
    MaxRetries, \* Dispatcher.MaxRetries
    MaxCalls    \* bound: calls of Evaluate

\* A rule file, as the model reads it.
RuleFiles ==
    [id : STRING, version : STRING, kind : STRING, phase : STRING,
     conds : SUBSET [field : STRING, op : STRING, value : Int], emit : STRING,
     webhook : {"none", "blocked", "open"}, cooldown : Int, cap : Int]

ASSUME ValvesConfig ==
    /\ Instants \subseteq Nat
    /\ MaxRetries \in Nat /\ MaxCalls \in Nat
    /\ Specs \subseteq RuleFiles /\ IsFiniteSet(Specs)
    /\ Batches # {} /\ \A b \in Batches : b.t.veh \in Vehicles

VARIABLES
    now,
    published,  \* the versions the engine holds
    eng,        \* lastFire and fireLog
    waiting,    \* caller -> its batch and arrival time, while it wants the mutex
    run,        \* the call that holds the mutex: its clock reading, the rules and
                \* events its loops have left
    calls,      \* counter of the bound
    fires,      \* history: [rule, veh, at, json] per firing, at being when its call
                \* was granted the mutex, json whether its event has a JSON form
    records     \* the dispatcher's Delivered and DeadLetter: [id, ok]

vars == <<now, published, eng, waiting, run, calls, fires, records>>

NoBatch == CHOOSE b \in Batches : TRUE
Idle == [b |-> NoBatch, since |-> -1]       \* a caller outside Evaluate
NoHook == [phase |-> "none", attempt |-> 0]  \* no Dispatch in progress
NoCall == [busy |-> FALSE, b |-> NoBatch, at |-> 0, granted |-> 0, rules |-> <<>>, evs |-> <<>>,
           out |-> <<>>, hook |-> NoHook]

\* Besides the types: a published version has one content.
TypeOK ==
    /\ now \in Instants
    /\ published \subseteq {ParseSpec(r) : r \in Specs}
    /\ \A r, q \in published : ruleKey(r) = ruleKey(q) => r = q
    /\ waiting \in [Callers -> [b : Batches, since : Instants \union {-1}]]
    /\ run.busy \in BOOLEAN /\ run.at \in Nat /\ run.granted \in Nat
    /\ run.hook \in [phase : {"none", "send", "done"}, attempt : 0 .. MaxRetries + 1]
    /\ calls \in 0 .. MaxCalls

Init ==
    /\ now \in Instants /\ \A i \in Instants : now <= i
    /\ published = {}
    /\ eng = ZeroEngine(Specs, Vehicles)
    /\ waiting = [c \in Callers |-> Idle]
    /\ run = NoCall
    /\ calls = 0
    /\ fires = <<>> /\ records = <<>>

\* Publish: a version is immutable, the same content may be published again.
PublishRule(r) ==
    /\ ~run.busy
    /\ Parses(r)
    /\ \A q \in published : ruleKey(q) # ruleKey(r)
    /\ published' = published \union {ParseSpec(r)}
    /\ UNCHANGED <<now, eng, waiting, run, calls, fires, records>>

\* A goroutine calls Evaluate and asks for the mutex.
Call(c, b) ==
    /\ waiting[c] = Idle
    /\ calls < MaxCalls
    /\ calls' = calls + 1
    /\ waiting' = [waiting EXCEPT ![c] = [b |-> b, since |-> now]]
    /\ UNCHANGED <<now, published, eng, run, fires, records>>

\* The loops take the rules in any order of the map.
Orders == {o \in [1 .. Cardinality(published) -> published] : IsInjective(o)}

Start(c, at) ==
    /\ waiting[c] # Idle
    /\ ~run.busy
    /\ \E o \in Orders :
        run' = [busy |-> TRUE, b |-> waiting[c].b, at |-> at, granted |-> now,
                rules |-> o, evs |-> waiting[c].b.evs, out |-> <<>>, hook |-> NoHook]
    /\ waiting' = [waiting EXCEPT ![c] = Idle]
    /\ UNCHANGED <<now, published, eng, calls, fires, records>>

\* The variant that reads the clock before it takes the mutex.
LockStaleClock(c) == Start(c, waiting[c].since)

\* The mutex is granted and e.now() is read.
Lock(c) == Start(c, now)

----------------------------------------------------------------------------
(* One iteration of the loops, up to and from Dispatch.                    *)

CurRule == Head(run.rules)
CurEvent == Head(run.evs)
Veh == run.b.t.veh

Exhausted == run.rules = <<>> \/ run.evs = <<>>
Evaluating == run.busy /\ ~Exhausted /\ run.hook.phase = "none"

\* Every rule is tried on every event of the batch, in order.
GoOn(out) ==
    LET last == Len(run.evs) = 1
    IN  run' = [run EXCEPT !.rules = IF last THEN Tail(@) ELSE @,
                           !.evs = IF last THEN run.b.evs ELSE Tail(@),
                           !.out = out, !.hook = NoHook]

Fires ==
    /\ Matches(CurRule, run.b.t, run.b.s, CurEvent)
    /\ ~CoolingDown(eng, CurRule, Veh, run.at)
    /\ ~Capped(eng, CurRule, Veh, run.at)

\* No match, or a valve holds it back (the log is pruned all the same).
Skip ==
    /\ Evaluating
    /\ ~Fires
    /\ eng' = EvaluateOne([eng |-> eng, out |-> run.out], CurRule, CurEvent, run.b.t,
                          run.b.s, run.at).eng
    /\ GoOn(run.out)
    /\ UNCHANGED <<now, published, waiting, calls, fires, records>>

\* The webhook target: the last event emitted under the rule's id, if any.
Emitted == {i \in DOMAIN run.out : run.out[i].cause[1] = CurRule.id}
Target == IF Emitted = {} THEN CurEvent ELSE run.out[Max(Emitted)]

\* Whether json.Marshal takes it: by the conditions of the version that emitted
\* it, or by what the detector put into the triggering event.
TargetHasJson ==
    IF Emitted = {} THEN EventHasJson(CurEvent, run.b.t)
    ELSE \A r \in published :
            ruleKey(r) = Target.cause => InputsHaveJson(r, run.b.t, run.b.s)

\* lastFire and fireLog, once the actions are done, whatever became of them.
Fired(out) ==
    /\ eng' = Fire(eng, CurRule, Veh, run.at)
    /\ fires' = Append(fires, [rule |-> CurRule, veh |-> Veh, at |-> run.granted,
                                json |-> TargetHasJson])
    /\ GoOn(out)
    /\ UNCHANGED <<now, published, waiting, calls>>

\* A firing that at most emits.
FireQuietly ==
    /\ Evaluating
    /\ Fires
    /\ CurRule.webhook = "none"
    /\ Fired(run.out \o Emission(CurRule, run.b.t))
    /\ UNCHANGED records

record(ok) == records' = Append(records, [id |-> DeterministicID(Target), ok |-> ok])

\* A firing with a webhook emits and enters Dispatch.
EnterDispatch ==
    /\ Evaluating
    /\ Fires
    /\ CurRule.webhook # "none"
    /\ run' = [run EXCEPT !.out = @ \o Emission(CurRule, run.b.t), !.hook.phase = "send"]
    /\ UNCHANGED <<now, published, eng, waiting, calls, fires, records>>

HookTo(phase, attempt) ==
    /\ run' = [run EXCEPT !.hook = [phase |-> phase, attempt |-> attempt]]
    /\ UNCHANGED <<now, published, eng, waiting, calls, fires>>

\* Dispatch gives up at once, and records nothing, when the event has no JSON.
MarshalFails ==
    /\ run.hook.phase = "send"
    /\ ~TargetHasJson
    /\ HookTo("done", 0)
    /\ UNCHANGED records

Sending == run.hook.phase = "send" /\ TargetHasJson

\* The address check refuses the target before any request is made.
Blocked ==
    /\ Sending
    /\ CurRule.webhook = "blocked"
    /\ record(FALSE)
    /\ HookTo("done", 0)

Request == Sending /\ CurRule.webhook = "open" /\ run.hook.attempt <= MaxRetries

\* 2xx or 3xx.
Succeeds ==
    /\ Request
    /\ record(TRUE)
    /\ HookTo("done", 0)

\* The variant that records a client error and goes on retrying.
ClientErrorRetried ==
    /\ Request
    /\ record(FALSE)
    /\ HookTo("send", run.hook.attempt + 1)

\* 4xx other than 429: dead-lettered, no retry.
ClientError ==
    /\ Request
    /\ record(FALSE)
    /\ HookTo("done", 0)

\* The variant in which an answer of 429 starts the count over.
RetryRestarts ==
    /\ Request
    /\ \E n \in {run.hook.attempt + 1, 0} : HookTo("send", n)
    /\ UNCHANGED records

\* 5xx, 429 or no answer: sleep and go round.
RetryLater ==
    /\ Request
    /\ HookTo("send", run.hook.attempt + 1)
    /\ UNCHANGED records

\* The retries are spent.
DeadLetter ==
    /\ Sending
    /\ run.hook.attempt > MaxRetries
    /\ record(FALSE)
    /\ HookTo("done", 0)

LeaveDispatch ==
    /\ run.hook.phase = "done"
    /\ Fired(run.out)
    /\ UNCHANGED records

Dispatch == MarshalFails \/ Blocked \/ Succeeds \/ ClientError \/ RetryLater \/ DeadLetter

Unlock ==
    /\ run.busy
    /\ Exhausted
    /\ run' = NoCall
    /\ UNCHANGED <<now, published, eng, waiting, calls, fires, records>>

Tick ==
    /\ now' \in {i \in Instants : i > now}
    /\ UNCHANGED <<published, eng, waiting, run, calls, fires, records>>

\* The goroutine that holds the mutex.
Holder == Skip \/ FireQuietly \/ EnterDispatch \/ Dispatch \/ LeaveDispatch \/ Unlock

Next ==
    \/ \E r \in Specs : PublishRule(r)
    \/ \E c \in Callers : (\E b \in Batches : Call(c, b)) \/ Lock(c)
    \/ Holder \/ Tick

Spec == Init /\ [][Next]_vars

\* The holder runs, its requests time out (Client.Timeout), and a sync.Mutex
\* does not starve a goroutine that waits for it.
FairSpec == Spec /\ WF_vars(Holder) /\ \A c \in Callers : SF_vars(Lock(c))

----------------------------------------------------------------------------
Same(f, g) == ruleKey(f.rule) = ruleKey(g.rule) /\ f.veh = g.veh

\* The calls in which one rule version fires on one vehicle get the mutex at
\* least the cooldown apart, however long callers wait for it (T062).
CooldownRespected ==
    \A i, j \in DOMAIN fires :
        (i < j /\ Same(fires[i], fires[j]) /\ fires[i].rule.cooldown > 0)
            => fires[j].at - fires[i].at >= fires[i].rule.cooldown

\* In the hour up to any firing, a rule version fires on a vehicle at most
\* MaxActionsPerHour times, though the log is pruned as it goes (T062).
HourlyCapRespected ==
    \A j \in DOMAIN fires :
        Cardinality({i \in 1 .. j : /\ Same(fires[i], fires[j])
                                    /\ fires[i].at > fires[j].at - Hour})
            <= fires[j].rule.cap

\* Every firing of a rule with a webhook leaves exactly one record, delivered
\* or dead-lettered, whatever the endpoint answers and however often, if its
\* event has a JSON form, and none if not (Dispatcher.record on each way out of
\* Dispatch but the first).
EveryFiringRecordedOnce ==
    Len(records) = Cardinality({i \in DOMAIN fires : fires[i].rule.webhook # "none" /\ fires[i].json})
                   + (IF run.hook.phase = "done" /\ TargetHasJson THEN 1 ELSE 0)

\* A caller of Evaluate gets its turn though webhooks are retried with the
\* mutex held and an endpoint may never answer: the retries are bounded.
EvaluateGetsItsTurn == \A c \in Callers : waiting[c] # Idle ~> waiting[c] = Idle
=============================================================================
