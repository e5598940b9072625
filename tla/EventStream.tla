---------------------------- MODULE EventStream ----------------------------
(***************************************************************************)
(* What tide-api does around its bus: the health it lists for the bus      *)
(* (LastError and the ticker of cmd/tide-api/server.go), and the stream of *)
(* events to WebSocket clients (Hub, Inject and handleStream of            *)
(* internal/api/server.go).  Every caller of Publish injects its event     *)
(* afterwards, published or not, and so does the NATS subscription for     *)
(* what it receives; Broadcast writes to every client under the hub's      *)
(* mutex.                                                                  *)
(*                                                                         *)
(* Time is counted in periods of the 30 s ticker.  External: the clients,  *)
(* which join, stop reading and go away.                                   *)
(***************************************************************************)
EXTENDS ResilientBus

CONSTANTS
    Forwards,       \* events the subscription receives
    Clients,        \* WebSocket connections, each used once
    Nobody,         \* not a caller: the mutex is free
    ErrWindow       \* 10 min, in periods

ASSUME StreamConfig ==
    /\ ErrWindow \in Nat \ {0}
    /\ Forwards \intersect Publishers = {}
    /\ Nobody \notin Forwards \union Publishers

Callers == Publishers \union Forwards

VARIABLES
    errAge,     \* periods since lastErr, saturating at ErrWindow; no error reads the same
    entry,      \* the registry's entry "eventbus"
    hub,        \* Hub.conns
    stream,     \* client -> "out", "open", "stalled", "broken", "closed" or "over"
    lock, todo, \* holder of Hub.mu, and the clients its Broadcast has yet to write to
    injected,   \* callers whose Inject has returned
    seen        \* history: client -> events a client of the hub was sent, or joined after

health == <<errAge, entry>>
streamVars == <<hub, stream, lock, todo, injected, seen>>
allVars == <<vars, health, streamVars>>

StreamInit ==
    /\ Init
    /\ errAge = ErrWindow /\ entry = "none"
    /\ hub = {} /\ stream = [c \in Clients |-> "out"]
    /\ lock = Nobody /\ todo = {} /\ injected = {}
    /\ seen = [c \in Clients |-> {}]

----------------------------------------------------------------------------
(* The bus and its health.                                                 *)

\* A step of ResilientBus; fail stamps lastErr.
BusStep ==
    LET failing == \E p \in Publishers : pc[p] # "failed" /\ pc'[p] = "failed"
    IN  /\ Next
        /\ errAge' = IF failing THEN 0 ELSE errAge
        /\ UNCHANGED <<entry, streamVars>>

\* The variant that never forgets an error.
ReportedSticky == IF lastErr THEN "DEGRADED" ELSE "HEALTHY"

\* What the ticker sets: trouble within the last ErrWindow periods.
Reported == IF errAge < ErrWindow THEN "DEGRADED" ELSE "HEALTHY"

Tick ==
    /\ entry' = Reported
    /\ errAge' = IF errAge < ErrWindow THEN errAge + 1 ELSE errAge
    /\ UNCHANGED <<vars, streamVars>>

----------------------------------------------------------------------------
(* Inject: Broadcast.                                                      *)

\* e is published, or has been received.
Ready(e) == e \in Publishers => pc[e] \in {"ok", "failed"}

Lock(e) ==
    /\ Ready(e) /\ e \notin injected
    /\ lock = Nobody
    /\ lock' = e /\ todo' = hub
    /\ UNCHANGED <<vars, health, hub, stream, injected, seen>>

\* WriteJSON to a client that reads.
WriteOk(e, c) ==
    /\ lock = e /\ c \in todo
    /\ stream[c] = "open"
    /\ seen' = [seen EXCEPT ![c] = @ \union {e}]
    /\ todo' = todo \ {c}
    /\ UNCHANGED <<vars, health, hub, stream, lock, injected>>

Forget(c) == hub' = hub \ {c} /\ seen' = [seen EXCEPT ![c] = {}]

\* The variant without a write deadline: only a broken connection fails.
WriteFailsNoDeadline(e, c) ==
    /\ lock = e /\ c \in todo
    /\ stream[c] = "broken"
    /\ stream' = [stream EXCEPT ![c] = "closed"]
    /\ todo' = todo \ {c}
    /\ Forget(c)
    /\ UNCHANGED <<vars, health, lock, injected>>

\* The variant that gives up the whole broadcast at the first failure.
WriteFailsStops(e, c) ==
    /\ lock = e /\ c \in todo
    /\ stream[c] \in {"stalled", "broken"}
    /\ stream' = [stream EXCEPT ![c] = "closed"]
    /\ todo' = {}
    /\ Forget(c)
    /\ UNCHANGED <<vars, health, lock, injected>>

\* The connection is broken, or the client has not read for 5 s: it is closed
\* and forgotten, and the broadcast goes on.
WriteFails(e, c) ==
    /\ lock = e /\ c \in todo
    /\ stream[c] \in {"stalled", "broken"}
    /\ stream' = [stream EXCEPT ![c] = "closed"]
    /\ todo' = todo \ {c}
    /\ Forget(c)
    /\ UNCHANGED <<vars, health, lock, injected>>

Unlock(e) ==
    /\ lock = e /\ todo = {}
    /\ lock' = Nobody
    /\ injected' = injected \union {e}
    /\ UNCHANGED <<vars, health, hub, stream, todo, seen>>

Inject(e) == Lock(e) \/ Unlock(e) \/ \E c \in Clients : WriteOk(e, c) \/ WriteFails(e, c)

----------------------------------------------------------------------------
(* handleStream and its client.                                            *)

\* Upgrade and Add.
Add(c) ==
    /\ stream[c] = "out"
    /\ lock = Nobody
    /\ hub' = hub \union {c}
    /\ stream' = [stream EXCEPT ![c] = "open"]
    /\ seen' = [seen EXCEPT ![c] = injected]
    /\ UNCHANGED <<vars, health, lock, todo, injected>>

\* ReadMessage fails on a broken or closed connection: Remove, Close.
Remove(c) ==
    /\ stream[c] \in {"broken", "closed"}
    /\ lock = Nobody
    /\ stream' = [stream EXCEPT ![c] = "over"]
    /\ Forget(c)
    /\ UNCHANGED <<vars, health, lock, todo, injected>>

\* The client stops reading, reads on, or goes away.
ClientChanges(c) ==
    /\ \/ stream[c] = "open" /\ \E s \in {"stalled", "broken"} : stream' = [stream EXCEPT ![c] = s]
       \/ stream[c] = "stalled" /\ \E s \in {"open", "broken"} : stream' = [stream EXCEPT ![c] = s]
    /\ UNCHANGED <<vars, health, hub, lock, todo, injected, seen>>

StreamNext ==
    \/ BusStep \/ Tick
    \/ \E e \in Callers : Inject(e)
    \/ \E c \in Clients : Add(c) \/ Remove(c) \/ ClientChanges(c)

StreamSpec == StreamInit /\ [][StreamNext]_allVars

\* Time passes, callers go on and handlers notice a dead connection; nothing is
\* assumed of NATS and of the clients.
FairStreamSpec ==
    /\ StreamSpec
    /\ WF_allVars(Tick)
    /\ \A e \in Callers : WF_allVars(Inject(e))
    /\ \A c \in Clients : WF_allVars(Remove(c))

----------------------------------------------------------------------------
\* A client of the hub has every event injected since it joined, whichever
\* other clients broke or stalled meanwhile (the loop of Hub.Broadcast).
StreamIsComplete == \A c \in hub : injected \subseteq seen[c]

Settled ==
    /\ \A e \in Callers : Ready(e) => e \in injected
    /\ \A c \in hub : stream[c] # "broken"

\* No client can hold up ingestion: whoever has an event to inject returns,
\* however many clients stop reading under the hub's mutex, and a client that
\* broke is forgotten (the deadline of Hub.Broadcast, Remove of handleStream).
InjectReturns == []<>Settled

\* A failed publish is listed as DEGRADED at the next tick, and once publishes
\* stop failing the bus is listed HEALTHY again for good (LastError).
BusTroubleIsShown ==
    /\ (errAge = 0) ~> (entry = "DEGRADED")
    /\ <>[](errAge # 0) => <>[](entry = "HEALTHY")
=============================================================================
