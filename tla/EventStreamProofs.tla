------------------------- MODULE EventStreamProofs -------------------------
(***************************************************************************)
(* Proofs about ResilientBus and EventStream, for any number of            *)
(* publishers, forwarded events, clients, connections and outages.         *)
(***************************************************************************)
EXTENDS EventStream, TLAPS

\* Every step of the bus keeps the types.
LEMMA TypeStep == TypeOK /\ [Next]_vars => TypeOK'
<1> SUFFICES ASSUME TypeOK, [Next]_vars PROVE TypeOK'
  OBVIOUS
<1> USE BusConfig DEF TypeOK
<1>1. ASSUME NEW p \in Publishers, Snapshot(p) PROVE TypeOK'
  BY <1>1 DEF Snapshot, Goto
<1>2. ASSUME NEW p \in Publishers, FirstTry(p) PROVE TypeOK'
  BY <1>2 DEF FirstTry, Send, Goto
<1>3. ASSUME NEW p \in Publishers, Dial(p) PROVE TypeOK'
  BY <1>3 DEF Dial, Goto
<1>4. ASSUME NEW p \in Publishers, DialFails(p) PROVE TypeOK'
  <2>1. lastErr' \in BOOLEAN
    BY <1>4 DEF DialFails
  <2>2. QED
    BY <1>4, <2>1 DEF DialFails, Goto
<1>5. ASSUME NEW p \in Publishers, Swap(p) PROVE TypeOK'
  <2>1. buffer' \in [Conns -> SUBSET Publishers]
    BY <1>5 DEF Swap
  <2>2. conn' \in [Conns -> {"unused", "connected", "reconnecting", "closed"}]
    BY <1>5 DEF Swap
  <2>3. QED
    BY <1>5, <2>1, <2>2 DEF Swap, Goto
<1>6. ASSUME NEW p \in Publishers, Retry(p) PROVE TypeOK'
  <2>1. lastErr' \in BOOLEAN
    BY <1>6 DEF Retry, Send
  <2>2. buffer' \in [Conns -> SUBSET Publishers]
    BY <1>6 DEF Retry, Send
  <2>3. QED
    BY <1>6, <2>1, <2>2 DEF Retry, Send, Goto
<1>7. CASE Outage
  <2>1. natsUp' \in BOOLEAN
    BY <1>7 DEF Outage
  <2>2. conn' \in [Conns -> {"unused", "connected", "reconnecting", "closed"}]
    BY <1>7 DEF Outage
  <2>3. QED
    BY <1>7, <2>1, <2>2 DEF Outage
<1>8. CASE Recover
  <2>1. natsUp' \in BOOLEAN
    BY <1>8 DEF Recover
  <2>2. QED
    BY <1>8, <2>1 DEF Recover
<1>9. ASSUME NEW c \in Conns, Reconnect(c) PROVE TypeOK'
  BY <1>9 DEF Reconnect
<1>10. ASSUME NEW c \in Conns, GiveUp(c) PROVE TypeOK'
  BY <1>10 DEF GiveUp
<1>11. CASE UNCHANGED vars
  BY <1>11 DEF vars
<1>12. QED
  BY <1>1, <1>2, <1>3, <1>4, <1>5, <1>6, <1>7, <1>8, <1>9, <1>10, <1>11
     DEF Next, Step

\* Every step of ResilientBus keeps its state well typed.
THEOREM BusTypes == Spec => []TypeOK
<1>1. Init => TypeOK
  <2> SUFFICES ASSUME Init PROVE TypeOK
    OBVIOUS
  <2>1. natsUp \in BOOLEAN /\ lastErr \in BOOLEAN
    BY DEF Init
  <2>2. outages \in 0 .. MaxOutages
    BY BusConfig DEF Init
  <2>3. QED
    BY BusConfig, <2>1, <2>2 DEF Init, TypeOK
<1>2. QED
  BY <1>1, TypeStep, PTL DEF Spec

\* However the redials of concurrent Publish calls interleave with outages,
\* an open connection is the installed one or is about to be installed:
\* ResilientBus.Publish leaks none.
THEOREM BusNeverLeaks == Spec => []NoConnectionLeak
<1>1. Init => NoConnectionLeak
  BY DEF Init, NoConnectionLeak, Open
<1>2. TypeOK /\ NoConnectionLeak /\ [Next]_vars => NoConnectionLeak'
  <2> SUFFICES ASSUME TypeOK, NoConnectionLeak, [Next]_vars,
                      NEW c \in Conns, Open(c)'
               PROVE  c = bus' \/ \E p \in Publishers : pc'[p] = "swap" /\ mine'[p] = c
    BY DEF NoConnectionLeak
  <2> USE DEF TypeOK, Open
  <2> DEFINE Kept(d) == d = bus' \/ \E p \in Publishers : pc'[p] = "swap" /\ mine'[p] = d
  <2>1. ASSUME NEW p \in Publishers, Snapshot(p) PROVE Kept(c)
    BY <2>1 DEF Snapshot, Goto, NoConnectionLeak
  <2>2. ASSUME NEW p \in Publishers, FirstTry(p) PROVE Kept(c)
    BY <2>2 DEF FirstTry, Send, Goto, NoConnectionLeak
  <2>3. ASSUME NEW p \in Publishers, Dial(p) PROVE Kept(c)
    BY <2>3 DEF Dial, Goto, NoConnectionLeak
  <2>4. ASSUME NEW p \in Publishers, DialFails(p) PROVE Kept(c)
    BY <2>4 DEF DialFails, Goto, NoConnectionLeak
  <2>5. ASSUME NEW p \in Publishers, Swap(p) PROVE Kept(c)
    BY <2>5 DEF Swap, Goto, NoConnectionLeak
  <2>6. ASSUME NEW p \in Publishers, Retry(p) PROVE Kept(c)
    BY <2>6 DEF Retry, Send, Goto, NoConnectionLeak
  <2>7. CASE Outage
    BY <2>7 DEF Outage, NoConnectionLeak
  <2>8. CASE Recover
    BY <2>8 DEF Recover, NoConnectionLeak
  <2>9. ASSUME NEW d \in Conns, Reconnect(d) PROVE Kept(c)
    BY <2>9 DEF Reconnect, NoConnectionLeak
  <2>10. ASSUME NEW d \in Conns, GiveUp(d) PROVE Kept(c)
    BY <2>10 DEF GiveUp, NoConnectionLeak
  <2>11. CASE UNCHANGED vars
    BY <2>11 DEF vars, NoConnectionLeak
  <2>12. QED
    BY <2>1, <2>2, <2>3, <2>4, <2>5, <2>6, <2>7, <2>8, <2>9, <2>10, <2>11
       DEF Next, Step
<1>3. QED
  BY <1>1, <1>2, BusTypes, PTL DEF Spec

----------------------------------------------------------------------------
(* The event stream.                                                       *)

\* The strengthening: while a Broadcast is under way, the clients of the hub it
\* has passed already have its event too; todo is empty between broadcasts.
HubInv ==
    /\ seen \in [Clients -> SUBSET Callers]
    /\ hub \subseteq Clients /\ todo \subseteq hub
    /\ injected \subseteq Callers
    /\ lock = Nobody => todo = {}
    /\ \A c \in hub : injected \subseteq seen[c]
    /\ \A c \in hub \ todo : lock # Nobody => lock \in seen[c]

\* The invariant of the hub holds at first.
LEMMA HubInit == StreamInit => HubInv
BY DEF StreamInit, HubInv

\* Every step keeps it: only WriteOk, WriteFails, Lock, Unlock, Add and Remove
\* touch the hub.
LEMMA HubStep == HubInv /\ [StreamNext]_allVars => HubInv'
<1> SUFFICES ASSUME HubInv, [StreamNext]_allVars PROVE HubInv'
  OBVIOUS
<1> USE DEF HubInv
<1>1. CASE BusStep
  BY <1>1 DEF BusStep, streamVars
<1>2. CASE Tick
  BY <1>2 DEF Tick, streamVars
<1>3. ASSUME NEW e \in Callers, Lock(e) PROVE HubInv'
  BY <1>3, StreamConfig DEF Lock, Callers
<1>4. ASSUME NEW e \in Callers, NEW c \in Clients, WriteOk(e, c) PROVE HubInv'
  BY <1>4 DEF WriteOk
<1>5. ASSUME NEW e \in Callers, NEW c \in Clients, WriteFails(e, c) PROVE HubInv'
  BY <1>5, StreamConfig DEF WriteFails, Forget, Callers
<1>6. ASSUME NEW e \in Callers, Unlock(e) PROVE HubInv'
  BY <1>6, StreamConfig DEF Unlock, Callers
<1>7. ASSUME NEW c \in Clients, Add(c) PROVE HubInv'
  BY <1>7 DEF Add
<1>8. ASSUME NEW c \in Clients, Remove(c) PROVE HubInv'
  BY <1>8 DEF Remove, Forget
<1>9. ASSUME NEW c \in Clients, ClientChanges(c) PROVE HubInv'
  BY <1>9 DEF ClientChanges
<1>10. CASE UNCHANGED allVars
  BY <1>10 DEF allVars, streamVars
<1>11. QED
  BY <1>1, <1>2, <1>3, <1>4, <1>5, <1>6, <1>7, <1>8, <1>9, <1>10 DEF StreamNext, Inject

\* A client of the hub has every event injected since it joined (Broadcast),
\* for any number of clients and callers.
THEOREM StreamComplete == StreamSpec => []StreamIsComplete
<1>1. HubInv => StreamIsComplete
  BY DEF HubInv, StreamIsComplete
<1>2. QED
  BY HubInit, HubStep, <1>1, PTL DEF StreamSpec

\* The API's stream and health only watch the bus: EventStream implements
\* ResilientBus, step by step.
THEOREM StreamImplementsBus == StreamSpec => Spec
<1>1. StreamInit => Init
  BY DEF StreamInit
<1>2. [StreamNext]_allVars => [Next]_vars
  BY DEF StreamNext, allVars, BusStep, Tick, Inject, Lock, Unlock, WriteOk, WriteFails, Add,
         Remove, ClientChanges
<1>3. QED
  BY <1>1, <1>2, PTL DEF StreamSpec, Spec

\* So connections do not leak under the whole API either (Publish of
\* ResilientBus).
THEOREM StreamNeverLeaks == StreamSpec => []NoConnectionLeak
BY StreamImplementsBus, BusNeverLeaks, PTL
=============================================================================
