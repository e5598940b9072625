---------------------------- MODULE ResilientBus ----------------------------
(***************************************************************************)
(* eventbus.ResilientBus (internal/eventbus/eventbus.go): concurrent calls *)
(* of Publish over one replaceable NATS connection.  The mutex guards the  *)
(* pointer, not the calls: a publisher reads the pointer, publishes on the *)
(* connection outside the lock and, on failure, dials, swaps and closes,   *)
(* then retries on the connection it dialed.                               *)
(*                                                                         *)
(* External: the nats.go connection.  It takes a message while connected,  *)
(* buffers it while it tries to reconnect (Publish returns nil) and        *)
(* refuses it once closed; when the reconnect budget is spent it closes    *)
(* and its buffer is gone.                                                 *)
(***************************************************************************)
EXTENDS Integers, FiniteSets

CONSTANTS
    Publishers,     \* calls of Publish, one event each
    Invalid,        \* publishers whose event does not validate
    Conns,          \* connection identities; bounds the dials
    Initial,        \* the connection made at boot
    MaxOutages      \* bound: how often NATS goes down

ASSUME BusConfig ==
    /\ Invalid \subseteq Publishers
    /\ Initial \in Conns
    /\ MaxOutages \in Nat

VARIABLES
    natsUp, outages,
    conn,       \* connection -> "unused", "connected", "reconnecting" or "closed"
    buffer,     \* connection -> events waiting for it to reconnect
    bus,        \* r.bus
    pc, mine,   \* publisher -> where it is, the connection it uses
    broker,     \* events that reached NATS
    lastErr     \* r.lastErr is set: a publish has failed

vars == <<natsUp, outages, conn, buffer, bus, pc, mine, broker, lastErr>>

TypeOK ==
    /\ natsUp \in BOOLEAN
    /\ outages \in 0 .. MaxOutages
    /\ conn \in [Conns -> {"unused", "connected", "reconnecting", "closed"}]
    /\ buffer \in [Conns -> SUBSET Publishers]
    /\ bus \in Conns
    /\ pc \in [Publishers -> {"idle", "first", "dial", "swap", "retry", "ok", "failed"}]
    /\ mine \in [Publishers -> Conns]
    /\ broker \subseteq Publishers
    /\ lastErr \in BOOLEAN

Init ==
    /\ natsUp = TRUE /\ outages = 0
    /\ conn = [c \in Conns |-> IF c = Initial THEN "connected" ELSE "unused"]
    /\ buffer = [c \in Conns |-> {}]
    /\ bus = Initial
    /\ pc = [p \in Publishers |-> "idle"]
    /\ mine = [p \in Publishers |-> Initial]
    /\ broker = {}
    /\ lastErr = FALSE

Goto(p, l) == pc' = [pc EXCEPT ![p] = l]

\* bus := r.bus, under the mutex.
Snapshot(p) ==
    /\ pc[p] = "idle"
    /\ mine' = [mine EXCEPT ![p] = bus]
    /\ Goto(p, "first")
    /\ UNCHANGED <<natsUp, outages, conn, buffer, bus, broker, lastErr>>

\* NATSBus.Publish on p's connection; the event is validated first.
Send(p, good, bad) ==
    /\ \/ /\ p \notin Invalid
          /\ conn[mine[p]] = "connected"
          /\ broker' = broker \union {p}
          /\ Goto(p, good)
          /\ UNCHANGED <<buffer, lastErr>>
       \/ /\ p \notin Invalid
          /\ conn[mine[p]] = "reconnecting"
          /\ buffer' = [buffer EXCEPT ![mine[p]] = @ \union {p}]
          /\ Goto(p, good)
          /\ UNCHANGED <<broker, lastErr>>
       \/ /\ p \in Invalid \/ conn[mine[p]] = "closed"
          /\ Goto(p, bad)
          /\ lastErr' = (lastErr \/ bad = "failed")
          /\ UNCHANGED <<buffer, broker>>
    /\ UNCHANGED <<natsUp, outages, conn, bus, mine>>

FirstTry(p) == pc[p] = "first" /\ Send(p, "ok", "dial")

\* r.dial(), outside the mutex.
Dial(p) ==
    /\ pc[p] = "dial"
    /\ natsUp
    /\ \E c \in Conns :
        /\ conn[c] = "unused"
        /\ conn' = [conn EXCEPT ![c] = "connected"]
        /\ mine' = [mine EXCEPT ![p] = c]
    /\ Goto(p, "swap")
    /\ UNCHANGED <<natsUp, outages, buffer, bus, broker, lastErr>>

DialFails(p) ==
    /\ pc[p] = "dial"
    /\ ~natsUp
    /\ Goto(p, "failed")
    /\ lastErr' = TRUE
    /\ UNCHANGED <<natsUp, outages, conn, buffer, bus, mine, broker>>

\* The variant that forgets to close the connection it replaces.
SwapKeepsOld(p) ==
    /\ pc[p] = "swap"
    /\ bus' = mine[p]
    /\ Goto(p, "retry")
    /\ UNCHANGED <<natsUp, outages, conn, buffer, mine, broker, lastErr>>

\* Close whatever r.bus is by now and install the new one, under the mutex.
\* Closing a connection that is down loses what it buffered.
Swap(p) ==
    /\ pc[p] = "swap"
    /\ conn' = [conn EXCEPT ![bus] = "closed"]
    /\ buffer' = [buffer EXCEPT ![bus] = {}]
    /\ bus' = mine[p]
    /\ Goto(p, "retry")
    /\ UNCHANGED <<natsUp, outages, mine, broker, lastErr>>

Retry(p) == pc[p] = "retry" /\ Send(p, "ok", "failed")

\* The server goes down: every open connection starts to reconnect.
Outage ==
    /\ natsUp
    /\ outages < MaxOutages
    /\ natsUp' = FALSE
    /\ outages' = outages + 1
    /\ conn' = [c \in Conns |-> IF conn[c] = "connected" THEN "reconnecting" ELSE conn[c]]
    /\ UNCHANGED <<buffer, bus, pc, mine, broker, lastErr>>

Recover ==
    /\ ~natsUp
    /\ natsUp' = TRUE
    /\ UNCHANGED <<outages, conn, buffer, bus, pc, mine, broker, lastErr>>

\* A connection reconnects and flushes, or gives up.
Reconnect(c) ==
    /\ conn[c] = "reconnecting"
    /\ natsUp
    /\ conn' = [conn EXCEPT ![c] = "connected"]
    /\ broker' = broker \union buffer[c]
    /\ buffer' = [buffer EXCEPT ![c] = {}]
    /\ UNCHANGED <<natsUp, outages, bus, pc, mine, lastErr>>

GiveUp(c) ==
    /\ conn[c] = "reconnecting"
    /\ ~natsUp
    /\ conn' = [conn EXCEPT ![c] = "closed"]
    /\ buffer' = [buffer EXCEPT ![c] = {}]
    /\ UNCHANGED <<natsUp, outages, bus, pc, mine, broker, lastErr>>

Step(p) == Snapshot(p) \/ FirstTry(p) \/ Dial(p) \/ DialFails(p) \/ Swap(p) \/ Retry(p)

Next ==
    \/ \E p \in Publishers : Step(p)
    \/ Outage \/ Recover
    \/ \E c \in Conns : Reconnect(c) \/ GiveUp(c)

Spec == Init /\ [][Next]_vars

----------------------------------------------------------------------------
Open(c) == conn[c] \in {"connected", "reconnecting"}

\* No connection leaks, whatever redials race: an open connection is the one
\* in r.bus or one that a publisher has dialed and is about to install.
NoConnectionLeak ==
    \A c \in Conns : Open(c) => \/ c = bus
                                \/ \E p \in Publishers : pc[p] = "swap" /\ mine[p] = c
=============================================================================
