---------------------------- MODULE Simulations ----------------------------
(***************************************************************************)
(* Simulation runs of the API (internal/api/simulate.go) behind its rate   *)
(* limiter (internal/api/security.go): POST /v1/simulate passes the        *)
(* limiter and starts a goroutine that feeds generated points to the       *)
(* pipeline; DELETE cancels its context, which the goroutine looks at      *)
(* between two points.                                                     *)
(*                                                                         *)
(* Process (Pipeline.tla) appears by its outcomes: done, with a number of  *)
(* events; a PublishError that carries the events; any other error, which  *)
(* is also what a cancelled context makes of a call to Redis.              *)
(***************************************************************************)
EXTENDS Integers, Sequences, FiniteSets

CONSTANTS
    Clients,        \* client addresses
    Handlers,       \* request goroutines that are in the limiter at once
    Limit, Window,  \* RateLimiter: requests per window, seconds
    Instants,       \* wall-clock readings
    MaxPoints,      \* maxSimPoints
    Generated,      \* how many points a scenario may generate
    MaxEvents,      \* bound: events of one point
    MaxRuns,        \* bound: runs started
    MaxRefused      \* bound: requests of one window answered 429

ASSUME SimulationConfig ==
    /\ IsFiniteSet(Handlers) /\ Handlers # {}
    /\ Limit \in Nat \ {0} /\ Window \in Nat \ {0}
    /\ Instants \subseteq Nat
    /\ Generated \subseteq Nat
    /\ {MaxPoints, MaxEvents, MaxRuns, MaxRefused} \subseteq Nat

VARIABLES
    now,
    arrived,    \* handler -> the request it brings and the clock it read
    hits,       \* client -> [count, reset], the limiter's windows
    seq,        \* simRegistry.seq
    runs,       \* id -> simStatus
    cancelled,  \* ids whose context is cancelled
    pc,         \* id -> where its goroutine is
    left,       \* id -> [points, events]: what its loops still have to do
    allowed,    \* history: the requests let through, each with its handler, client,
                \* clock reading and the reading that opened the window it counted in
    atCancel    \* history: id -> Accepted when the context was cancelled

limiter == <<arrived, hits, allowed>>
sims == <<seq, runs, cancelled, pc, left, atCancel>>
vars == <<now, limiter, sims>>

Ids == 1 .. MaxRuns
Terminal == {"done", "cancelled", "failed"}
Idle == [client |-> "none", at |-> -1]
NoStatus == [state |-> "none", points |-> 0, accepted |-> 0, events |-> 0]

TypeOK ==
    /\ now \in Instants
    /\ arrived \in [Handlers -> [client : Clients, at : Instants] \union {Idle}]
    /\ hits \in [Clients -> [count : Nat, reset : Int]]
    /\ seq \in 0 .. MaxRuns
    /\ runs \in [Ids -> [state : {"none", "running"} \union Terminal, points : 0 .. MaxPoints,
                         accepted : 0 .. MaxPoints, events : Nat]]
    /\ cancelled \subseteq 1 .. seq
    /\ pc \in [Ids -> {"none", "generate", "select", "process", "inject", "ended"}]
    /\ left \in [Ids -> [points : 0 .. MaxPoints, events : 0 .. MaxEvents]]
    /\ atCancel \in [Ids -> 0 .. MaxPoints]

NoHits == [c \in Clients |-> [count |-> 0, reset |-> -1]]

Init ==
    /\ now \in Instants /\ \A i \in Instants : now <= i
    /\ arrived = [h \in Handlers |-> Idle]
    /\ hits = NoHits
    /\ seq = 0
    /\ runs = [i \in Ids |-> NoStatus]
    /\ cancelled = {}
    /\ pc = [i \in Ids |-> "none"]
    /\ left = [i \in Ids |-> [points |-> 0, events |-> 0]]
    /\ allowed = <<>>
    /\ atCancel = [i \in Ids |-> 0]

----------------------------------------------------------------------------
(* The limiter.                                                            *)

\* RateLimiter.Allow up to its mutex: the clock is read before Lock.
Arrive(h, c) ==
    /\ arrived[h] = Idle
    /\ arrived' = [arrived EXCEPT ![h] = [client |-> c, at |-> now]]
    /\ UNCHANGED <<now, hits, allowed, sims>>

\* The variant that starts a window at its own end.
CountRequestSliding(h) ==
    LET t == arrived[h].at
    IN  /\ arrived[h] # Idle
        /\ hits' = [hits EXCEPT ![arrived[h].client] =
                        IF t >= @.reset THEN [count |-> 1, reset |-> t]
                        ELSE [@ EXCEPT !.count = @ + 1]]
        /\ arrived' = [arrived EXCEPT ![h] = Idle]

\* RateLimiter.Allow under its mutex: it counts the request, in a new window
\* once the clock that the request read, perhaps long ago, is past the end of
\* the old one.
CountRequest(h) ==
    LET t == arrived[h].at
        w == hits[arrived[h].client]
    IN  /\ arrived[h] # Idle
        /\ hits' = [hits EXCEPT ![arrived[h].client] =
                        IF t > w.reset THEN [count |-> 1, reset |-> t + Window]
                        ELSE [count |-> w.count + 1, reset |-> w.reset]]
        /\ arrived' = [arrived EXCEPT ![h] = Idle]

Allow(h) ==
    LET c == arrived[h].client
    IN  /\ CountRequest(h)
        /\ hits'[c].count <= Limit
        /\ allowed' = Append(allowed, [handler |-> h, client |-> c, at |-> arrived[h].at,
                                       opened |-> hits'[c].reset - Window])

\* 429.
TooMany(h) ==
    LET c == arrived[h].client
    IN  /\ CountRequest(h)
        /\ hits[c].count < Limit + MaxRefused
        /\ hits'[c].count > Limit
        /\ UNCHANGED <<now, allowed, sims>>

\* A request the handler refuses (vehicle count, fault rates, scenario).
Refuse(h) ==
    /\ Allow(h)
    /\ UNCHANGED <<now, sims>>

----------------------------------------------------------------------------
(* handleSimulate and runSim.                                              *)

Simulate(h) ==
    /\ seq < MaxRuns
    /\ Allow(h)
    /\ seq' = seq + 1
    /\ runs' = [runs EXCEPT ![seq + 1] = [NoStatus EXCEPT !.state = "running"]]
    /\ pc' = [pc EXCEPT ![seq + 1] = "generate"]
    /\ UNCHANGED <<now, cancelled, left, atCancel>>

Goto(i, l) == pc' = [pc EXCEPT ![i] = l]
End(i, state) ==
    /\ runs' = [runs EXCEPT ![i].state = state]
    /\ Goto(i, "ended")
    /\ UNCHANGED <<now, limiter, seq, cancelled, left, atCancel>>

\* Generate, Apply the faults, cut to maxSimPoints.
Generate(i, n) ==
    LET kept == IF n > MaxPoints THEN MaxPoints ELSE n
    IN  /\ pc[i] = "generate"
        /\ runs' = [runs EXCEPT ![i].points = kept]
        /\ left' = [left EXCEPT ![i].points = kept]
        /\ Goto(i, "select")
        /\ UNCHANGED <<now, limiter, seq, cancelled, atCancel>>

\* The variant that does not look at the context between points.
SelectNextBlind(i) ==
    /\ pc[i] = "select"
    /\ left[i].points > 0
    /\ Goto(i, "process")
    /\ UNCHANGED <<now, limiter, seq, runs, cancelled, left, atCancel>>

\* The loop: done, cancelled, or the next point.
SelectNext(i) ==
    /\ pc[i] = "select"
    /\ left[i].points > 0
    /\ i \notin cancelled
    /\ Goto(i, "process")
    /\ UNCHANGED <<now, limiter, seq, runs, cancelled, left, atCancel>>

\* The variant that returns without a word to the registry.
SelectCancelledSilently(i) ==
    /\ pc[i] = "select"
    /\ left[i].points > 0
    /\ i \in cancelled
    /\ Goto(i, "ended")
    /\ UNCHANGED <<now, limiter, seq, runs, cancelled, left, atCancel>>

SelectCancelled(i) ==
    /\ pc[i] = "select"
    /\ left[i].points > 0
    /\ i \in cancelled
    /\ End(i, "cancelled")

SelectDone(i) ==
    /\ pc[i] = "select"
    /\ left[i].points = 0
    /\ End(i, "done")

\* Process returns nil: the point counts, its events are injected one by one.
ProcessOk(i, n) ==
    /\ pc[i] = "process"
    /\ runs' = [runs EXCEPT ![i].accepted = @ + 1]
    /\ left' = [left EXCEPT ![i] = [points |-> @.points - 1, events |-> n]]
    /\ Goto(i, "inject")
    /\ UNCHANGED <<now, limiter, seq, cancelled, atCancel>>

InjectNext(i) ==
    /\ pc[i] = "inject"
    /\ left[i].events > 0
    /\ runs' = [runs EXCEPT ![i].events = @ + 1]
    /\ left' = [left EXCEPT ![i].events = @ - 1]
    /\ UNCHANGED <<now, limiter, seq, cancelled, pc, atCancel>>

InjectDone(i) ==
    /\ pc[i] = "inject"
    /\ left[i].events = 0
    /\ Goto(i, "select")
    /\ UNCHANGED <<now, limiter, seq, runs, cancelled, left, atCancel>>

\* The variant that does not count a point whose events were not published.
ProcessPublishErrorDropped(i, n) ==
    /\ pc[i] = "process"
    /\ runs' = [runs EXCEPT ![i].events = @ + n]
    /\ left' = [left EXCEPT ![i].points = @ - 1]
    /\ Goto(i, "select")
    /\ UNCHANGED <<now, limiter, seq, cancelled, atCancel>>

\* A PublishError: its events are injected, the point counts, the run goes on.
\* The counts are written without the registry's mutex; the goroutine is
\* their only writer, so one step stands for them.
ProcessPublishError(i, n) ==
    /\ pc[i] = "process"
    /\ n > 0
    /\ runs' = [runs EXCEPT ![i].events = @ + n, ![i].accepted = @ + 1]
    /\ left' = [left EXCEPT ![i].points = @ - 1]
    /\ Goto(i, "select")
    /\ UNCHANGED <<now, limiter, seq, cancelled, atCancel>>

\* Any other error ends the run.
ProcessFails(i) ==
    /\ pc[i] = "process"
    /\ End(i, "failed")

----------------------------------------------------------------------------
Known(i) == runs[i].state # "none"

CancelContext(i) ==
    /\ Known(i)
    /\ cancelled' = cancelled \union {i}
    /\ atCancel' = IF i \in cancelled THEN atCancel
                   ELSE [atCancel EXCEPT ![i] = runs[i].accepted]
    /\ UNCHANGED <<now, limiter, seq, pc, left>>

\* The variant in which the handler ends the run itself.
CancelSetsState(i) ==
    /\ CancelContext(i)
    /\ runs' = [runs EXCEPT ![i].state = "cancelled"]

\* DELETE of a known run, ended or not: cancel its context.
Cancel(i) ==
    /\ CancelContext(i)
    /\ UNCHANGED runs

Tick ==
    /\ now' \in {t \in Instants : t > now}
    /\ UNCHANGED <<limiter, sims>>

Run(i) ==
    \/ \E n \in Generated : Generate(i, n)
    \/ SelectNext(i) \/ SelectCancelled(i) \/ SelectDone(i)
    \/ \E n \in 0 .. MaxEvents : ProcessOk(i, n) \/ ProcessPublishError(i, n)
    \/ ProcessFails(i)
    \/ InjectNext(i) \/ InjectDone(i)

Next ==
    \/ \E h \in Handlers, c \in Clients : Arrive(h, c)
    \/ \E h \in Handlers : TooMany(h) \/ Refuse(h) \/ Simulate(h)
    \/ \E i \in Ids : Run(i) \/ Cancel(i)
    \/ Tick

Spec == Init /\ [][Next]_vars

\* A started goroutine keeps running: every call in it is bounded.
FairSpec == Spec /\ \A i \in Ids : WF_vars(Run(i))

----------------------------------------------------------------------------
\* By the clocks they read, a client that straddles the end of a window gets
\* less than twice the limit of requests through in any interval of the window's
\* length (the request that opened the earlier window lies outside of it), and
\* one more for each handler but one that can be overtaken between its clock
\* and the mutex and be counted in a window opened after the interval
\* (RateLimiter.Allow).
BurstBounded ==
    \A c \in Clients, k \in DOMAIN allowed :
        Cardinality({j \in DOMAIN allowed : /\ allowed[j].client = c
                                            /\ allowed[j].at >= allowed[k].at
                                            /\ allowed[j].at <= allowed[k].at + Window})
            < 2 * Limit + Cardinality(Handlers) - 1

\* After DELETE has answered, at most the point in progress is still accepted.
CancelStopsIntake ==
    \A i \in cancelled : runs[i].accepted <= atCancel[i] + 1

\* A run that reports done has accepted every point it announced, bus
\* failures or not.
DoneMeansAll ==
    \A i \in Ids : runs[i].state = "done" => runs[i].accepted = runs[i].points

\* Once a poll may have seen a run ended, neither a DELETE nor the goroutine
\* changes what it ended as or its counts.
EndedIsFinal ==
    [][\A i \in Ids : runs[i].state \in Terminal => runs'[i] = runs[i]]_vars

\* Every run ends.
RunsEnd == \A i \in Ids : runs[i].state = "running" ~> runs[i].state \in Terminal
=============================================================================
