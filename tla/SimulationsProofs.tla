-------------------------- MODULE SimulationsProofs --------------------------
(***************************************************************************)
(* Proofs about Simulations, for any number of clients, handlers, runs,    *)
(* points, limits and windows.                                             *)
(***************************************************************************)
EXTENDS Simulations, FiniteSetTheorems, WellFoundedInduction, TLAPS

Statuses == [state : {"none", "running"} \union Terminal, points : 0 .. MaxPoints,
             accepted : 0 .. MaxPoints, events : Nat]
Lefts == [points : 0 .. MaxPoints, events : 0 .. MaxEvents]
SimPCs == {"none", "generate", "select", "process", "inject", "ended"}

\* What the registry, the goroutine of run i and the context know of each
\* other: the status is terminal exactly when the goroutine has ended, accepted
\* and remaining points add up, and a cancelled run accepts at most the point
\* it is processing.
Sound(i) ==
    /\ i > seq <=> pc[i] = "none"
    /\ runs[i].state = "none" <=> pc[i] = "none"
    /\ runs[i].state \in Terminal <=> pc[i] = "ended"
    /\ pc[i] \in {"none", "generate"} => runs[i].accepted = 0
    /\ pc[i] \in {"select", "process", "inject"}
            => runs[i].accepted + left[i].points = runs[i].points
    /\ pc[i] = "process" => left[i].points > 0
    /\ runs[i].state = "done" => runs[i].accepted = runs[i].points
    /\ i \in cancelled =>
            runs[i].accepted <= atCancel[i] + (IF pc[i] = "process" THEN 0 ELSE 1)

SimInv == TypeOK /\ \A i \in Ids : Sound(i)

\* The other runs do not notice a step of one.
Others(i) ==
    \A j \in Ids \ {i} : runs'[j] = runs[j] /\ pc'[j] = pc[j] /\ left'[j] = left[j]

\* A step of the goroutine of run i alone keeps SimInv if it keeps the types
\* and leaves run i sound.
LEMMA RunKeeps ==
    ASSUME SimInv, NEW i \in Ids, Others(i), UNCHANGED <<now, limiter, seq, cancelled, atCancel>>,
           runs' \in [Ids -> Statuses], pc' \in [Ids -> SimPCs], left' \in [Ids -> Lefts],
           Sound(i)'
    PROVE  SimInv'
<1>1. TypeOK'
  BY DEF SimInv, TypeOK, limiter, Statuses, SimPCs, Lefts
<1>2. ASSUME NEW j \in Ids \ {i} PROVE Sound(j)'
  BY <1>2 DEF SimInv, Sound, Others
<1>3. QED
  BY <1>1, <1>2 DEF SimInv

\* Every step of a run keeps SimInv, and changes nothing of a run that has
\* ended.
LEMMA RunStep ==
    ASSUME SimInv, NEW i \in Ids, Run(i)
    PROVE  SimInv' /\ \A j \in Ids : runs[j].state \in Terminal => runs'[j] = runs[j]
<1>0. /\ runs \in [Ids -> Statuses] /\ pc \in [Ids -> SimPCs] /\ left \in [Ids -> Lefts]
      /\ Sound(i) /\ MaxPoints \in Nat /\ MaxEvents \in Nat /\ Generated \subseteq Nat
      /\ runs[i] \in Statuses /\ left[i] \in Lefts
  BY SimulationConfig DEF SimInv, TypeOK, Statuses, SimPCs, Lefts
<1>1. ASSUME pc[i] # "ended", Others(i)
      PROVE  \A j \in Ids : runs[j].state \in Terminal => runs'[j] = runs[j]
  BY <1>0, <1>1 DEF Others, Sound
<1> DEFINE Good == pc[i] # "ended" /\ Others(i) /\ SimInv'
<1>2. ASSUME NEW l \in SimPCs, Goto(i, l)
      PROVE  pc' \in [Ids -> SimPCs] /\ pc'[i] = l /\ \A j \in Ids \ {i} : pc'[j] = pc[j]
  BY <1>0, <1>2 DEF Goto
<1>3. ASSUME NEW n \in Generated, Generate(i, n) PROVE Good
  <2> DEFINE kept == IF n > MaxPoints THEN MaxPoints ELSE n
  <2>1. kept \in 0 .. MaxPoints
    BY <1>0
  <2>2. /\ pc[i] = "generate" /\ Goto(i, "select")
        /\ runs' = [runs EXCEPT ![i].points = kept]
        /\ left' = [left EXCEPT ![i].points = kept]
        /\ UNCHANGED <<now, limiter, seq, cancelled, atCancel>>
    BY <1>3 DEF Generate
  <2> HIDE DEF kept
  <2>3. /\ runs' \in [Ids -> Statuses] /\ runs'[i] = [runs[i] EXCEPT !.points = kept]
        /\ left' \in [Ids -> Lefts] /\ left'[i] = [left[i] EXCEPT !.points = kept]
        /\ \A j \in Ids \ {i} : runs'[j] = runs[j] /\ left'[j] = left[j]
    BY <1>0, <2>1, <2>2 DEF Statuses, Lefts
  <2>4. /\ runs'[i].points = kept /\ runs'[i].accepted = 0 /\ left'[i].points = kept
        /\ runs'[i].state = runs[i].state
    BY <1>0, <2>2, <2>3 DEF Statuses, Lefts, Sound
  <2>5. pc' \in [Ids -> SimPCs] /\ pc'[i] = "select" /\ \A j \in Ids \ {i} : pc'[j] = pc[j]
    BY <1>2, <2>2 DEF SimPCs
  <2>6. Sound(i)'
    BY <1>0, <2>1, <2>2, <2>4, <2>5 DEF Sound, Terminal
  <2>7. QED
    BY <2>2, <2>3, <2>5, <2>6, RunKeeps DEF Others
<1>4. ASSUME SelectNext(i) PROVE Good
  <2>1. /\ pc[i] = "select" /\ Goto(i, "process") /\ left[i].points > 0 /\ i \notin cancelled
        /\ UNCHANGED <<now, limiter, seq, runs, cancelled, left, atCancel>>
    BY <1>4 DEF SelectNext
  <2>2. pc' \in [Ids -> SimPCs] /\ pc'[i] = "process" /\ \A j \in Ids \ {i} : pc'[j] = pc[j]
    BY <1>2, <2>1 DEF SimPCs
  <2>3. Sound(i)'
    BY <1>0, <2>1, <2>2 DEF Sound
  <2>4. QED
    BY <1>0, <2>1, <2>2, <2>3, RunKeeps DEF Others
<1>5. ASSUME NEW state \in Terminal, End(i, state), pc[i] \in {"select", "process"},
             state = "done" => runs[i].accepted = runs[i].points
      PROVE  Good
  <2>1. /\ Goto(i, "ended") /\ runs' = [runs EXCEPT ![i].state = state]
        /\ UNCHANGED <<now, limiter, seq, cancelled, left, atCancel>>
    BY <1>5 DEF End
  <2>2. pc' \in [Ids -> SimPCs] /\ pc'[i] = "ended" /\ \A j \in Ids \ {i} : pc'[j] = pc[j]
    BY <1>2, <2>1 DEF SimPCs
  <2>3. /\ runs' \in [Ids -> Statuses] /\ runs'[i] = [runs[i] EXCEPT !.state = state]
        /\ \A j \in Ids \ {i} : runs'[j] = runs[j]
    BY <1>0, <2>1 DEF Statuses
  <2>4. /\ runs'[i].state = state /\ runs'[i].accepted = runs[i].accepted
        /\ runs'[i].points = runs[i].points
    BY <1>0, <2>3 DEF Statuses
  <2>5. /\ i \in cancelled' => i \in cancelled
        /\ atCancel'[i] = atCancel[i] /\ atCancel[i] \in Nat /\ runs[i].accepted \in Nat
    BY <1>0, <2>1 DEF SimInv, TypeOK, Statuses
  <2>6. Sound(i)'
    BY <1>0, <1>5, <2>1, <2>2, <2>4, <2>5 DEF Sound, Terminal
  <2>7. QED
    BY <1>0, <1>5, <2>1, <2>2, <2>3, <2>6, RunKeeps DEF Others
<1>6. ASSUME SelectCancelled(i) \/ ProcessFails(i) PROVE Good
  BY <1>5, <1>6 DEF SelectCancelled, ProcessFails, Terminal
<1>7. ASSUME SelectDone(i) PROVE Good
  <2>1. runs[i].accepted = runs[i].points
    BY <1>0, <1>7 DEF SelectDone, Sound, Statuses
  <2>2. QED
    BY <1>5, <1>7, <2>1 DEF SelectDone, Terminal
<1>8. ASSUME NEW n \in 0 .. MaxEvents, NEW m \in 0 .. MaxEvents, NEW l \in {"inject", "select"},
             pc[i] = "process", Goto(i, l),
             Others(i), UNCHANGED <<now, limiter, seq, cancelled, atCancel>>,
             runs' \in [Ids -> Statuses] \/ runs[i].accepted = MaxPoints,
             runs'[i].accepted = runs[i].accepted + 1, runs'[i].points = runs[i].points,
             runs'[i].state = runs[i].state,
             left' \in [Ids -> Lefts], left'[i].points = left[i].points - 1
      PROVE  Good
  <2>1. /\ runs[i].accepted \in Nat /\ left[i].points \in Nat /\ left[i].points > 0
        /\ runs[i].accepted + left[i].points = runs[i].points /\ runs[i].points <= MaxPoints
        /\ runs[i].points \in Nat
        /\ atCancel[i] \in Nat
    BY <1>0, <1>8 DEF Sound, Statuses, Lefts, SimInv, TypeOK
  <2>2. runs[i].accepted # MaxPoints
    BY <1>0, <2>1
  <2>3. pc' \in [Ids -> SimPCs] /\ pc'[i] = l /\ \A j \in Ids \ {i} : pc'[j] = pc[j]
    BY <1>2, <1>8 DEF SimPCs
  <2>4. Sound(i)'
    BY <1>0, <1>8, <2>1, <2>3 DEF Sound, Terminal
  <2>5. QED
    BY <1>8, <2>2, <2>3, <2>4, RunKeeps
<1>9. ASSUME NEW n \in 0 .. MaxEvents, ProcessOk(i, n) PROVE Good
  <2>1. /\ pc[i] = "process" /\ Goto(i, "inject")
        /\ runs' = [runs EXCEPT ![i].accepted = @ + 1]
        /\ left' = [left EXCEPT ![i] = [points |-> @.points - 1, events |-> n]]
        /\ UNCHANGED <<now, limiter, seq, cancelled, atCancel>>
    BY <1>9 DEF ProcessOk
  <2>2. left[i].points - 1 \in 0 .. MaxPoints
    BY <1>0, <2>1 DEF Sound, Lefts
  <2>3. left' \in [Ids -> Lefts] /\ left'[i].points = left[i].points - 1
    BY <1>0, <2>1, <2>2 DEF Lefts
  <2>4. /\ runs'[i].accepted = runs[i].accepted + 1 /\ runs'[i].points = runs[i].points
        /\ runs'[i].state = runs[i].state
    BY <1>0, <2>1 DEF Statuses
  <2>5. runs' \in [Ids -> Statuses] \/ runs[i].accepted = MaxPoints
    <3> SUFFICES ASSUME runs[i].accepted # MaxPoints PROVE runs' \in [Ids -> Statuses]
      OBVIOUS
    <3>1. runs[i].accepted + 1 \in 0 .. MaxPoints
      BY <1>0 DEF Statuses
    <3>2. QED
      BY <1>0, <2>1, <3>1 DEF Statuses
  <2>6. Others(i)
    <3>1. \A j \in Ids \ {i} : pc'[j] = pc[j]
      BY <1>2, <2>1 DEF SimPCs
    <3>2. QED
      BY <1>0, <2>1, <3>1 DEF Others
  <2>7. QED
    BY <1>8, <2>1, <2>3, <2>4, <2>5, <2>6
<1>10. ASSUME NEW n \in 0 .. MaxEvents, ProcessPublishError(i, n) PROVE Good
  <2>1. /\ pc[i] = "process" /\ Goto(i, "select")
        /\ runs' = [runs EXCEPT ![i].events = @ + n, ![i].accepted = @ + 1]
        /\ left' = [left EXCEPT ![i].points = @ - 1]
        /\ UNCHANGED <<now, limiter, seq, cancelled, atCancel>>
    BY <1>10 DEF ProcessPublishError
  <2>2. left[i].points - 1 \in 0 .. MaxPoints
    BY <1>0, <2>1 DEF Sound, Lefts
  <2>3. left' \in [Ids -> Lefts] /\ left'[i].points = left[i].points - 1
    BY <1>0, <2>1, <2>2 DEF Lefts
  <2>4. /\ runs'[i].accepted = runs[i].accepted + 1 /\ runs'[i].points = runs[i].points
        /\ runs'[i].state = runs[i].state
        /\ \A j \in Ids \ {i} : runs'[j] = runs[j]
    BY <1>0, <2>1 DEF Statuses
  <2>5. runs' \in [Ids -> Statuses] \/ runs[i].accepted = MaxPoints
    BY <1>0, <2>1 DEF Statuses
  <2>6. Others(i)
    <3>1. \A j \in Ids \ {i} : pc'[j] = pc[j]
      BY <1>2, <2>1 DEF SimPCs
    <3>2. QED
      BY <1>0, <2>1, <2>4, <3>1 DEF Others
  <2>7. QED
    BY <1>8, <2>1, <2>3, <2>4, <2>5, <2>6
<1>11. ASSUME InjectNext(i) PROVE Good
  <2>1. /\ pc[i] = "inject" /\ left[i].events > 0
        /\ runs' = [runs EXCEPT ![i].events = @ + 1]
        /\ left' = [left EXCEPT ![i].events = @ - 1]
        /\ UNCHANGED <<now, limiter, seq, cancelled, pc, atCancel>>
    BY <1>11 DEF InjectNext
  <2>2. /\ runs' \in [Ids -> Statuses] /\ runs'[i].accepted = runs[i].accepted
        /\ runs'[i].points = runs[i].points /\ runs'[i].state = runs[i].state
        /\ \A j \in Ids \ {i} : runs'[j] = runs[j]
    BY <1>0, <2>1 DEF Statuses
  <2>3. /\ left' \in [Ids -> Lefts] /\ left'[i].points = left[i].points
        /\ \A j \in Ids \ {i} : left'[j] = left[j]
    BY <1>0, <2>1 DEF Lefts
  <2>4. Sound(i)'
    BY <1>0, <2>1, <2>2, <2>3 DEF Sound
  <2>5. QED
    BY <1>0, <2>1, <2>2, <2>3, <2>4, RunKeeps DEF Others
<1>12. ASSUME InjectDone(i) PROVE Good
  <2>1. /\ pc[i] = "inject" /\ Goto(i, "select")
        /\ UNCHANGED <<now, limiter, seq, runs, cancelled, left, atCancel>>
    BY <1>12 DEF InjectDone
  <2>2. pc' \in [Ids -> SimPCs] /\ pc'[i] = "select" /\ \A j \in Ids \ {i} : pc'[j] = pc[j]
    BY <1>2, <2>1 DEF SimPCs
  <2>3. Sound(i)'
    BY <1>0, <2>1, <2>2 DEF Sound
  <2>4. QED
    BY <1>0, <2>1, <2>2, <2>3, RunKeeps DEF Others
<1>13. Good
  BY <1>3, <1>4, <1>6, <1>7, <1>9, <1>10, <1>11, <1>12 DEF Run
<1>14. QED
  BY <1>1, <1>13

Windows == [count : Nat, reset : Int]
Arrivals == [client : Clients, at : Instants] \union {Idle}

\* RateLimiter.Allow keeps the types of the windows, and is entered by a
\* handler that has read the clock.
LEMMA CountTypes ==
    ASSUME TypeOK, NEW h \in Handlers, CountRequest(h)
    PROVE  /\ arrived[h] # Idle /\ arrived[h].client \in Clients
           /\ arrived[h].at \in Nat
           /\ hits' \in [Clients -> Windows]
           /\ arrived' \in [Handlers -> Arrivals]
           /\ arrived' = [arrived EXCEPT ![h] = Idle]
<1> DEFINE c == arrived[h].client
           t == arrived[h].at
           w == hits[c]
           next == IF t > w.reset THEN [count |-> 1, reset |-> t + Window]
                   ELSE [count |-> w.count + 1, reset |-> w.reset]
<1>1. arrived[h] # Idle /\ arrived[h] \in Arrivals
  BY DEF CountRequest, TypeOK, Arrivals
<1>2. c \in Clients /\ t \in Nat
  BY <1>1, SimulationConfig DEF Arrivals
<1>3. Window \in Int /\ w \in Windows
  BY <1>2, SimulationConfig DEF TypeOK, Windows
<1>4. next \in Windows
  BY <1>2, <1>3 DEF Windows
<1>5. hits' = [hits EXCEPT ![c] = next] /\ arrived' = [arrived EXCEPT ![h] = Idle]
  BY DEF CountRequest
<1> HIDE DEF next
<1>6. hits' \in [Clients -> Windows]
  BY <1>2, <1>4, <1>5 DEF TypeOK, Windows
<1>7. arrived' \in [Handlers -> Arrivals]
  BY <1>5 DEF TypeOK, Arrivals
<1>8. QED
  BY <1>1, <1>2, <1>5, <1>6, <1>7

\* Every step keeps SimInv, and none changes the status of an ended run.
LEMMA SimStep ==
    ASSUME SimInv, [Next]_vars
    PROVE  SimInv' /\ \A j \in Ids : runs[j].state \in Terminal => runs'[j] = runs[j]
<1> DEFINE Good == SimInv' /\ \A j \in Ids : runs[j].state \in Terminal => runs'[j] = runs[j]
<1>1. ASSUME UNCHANGED sims, now' \in Instants, hits' \in [Clients -> Windows],
             arrived' \in [Handlers -> Arrivals]
      PROVE  Good
  <2>1. TypeOK'
    BY <1>1 DEF SimInv, TypeOK, sims, Windows, Arrivals
  <2>2. \A j \in Ids : Sound(j)'
    BY <1>1 DEF SimInv, Sound, sims
  <2>3. QED
    BY <1>1, <2>1, <2>2 DEF SimInv, sims
<1>2. ASSUME NEW h \in Handlers, TooMany(h) \/ Refuse(h) PROVE Good
  <2>1. UNCHANGED sims /\ now' = now /\ CountRequest(h)
    BY <1>2 DEF TooMany, Refuse, Allow
  <2>2. QED
    BY <1>1, <2>1, CountTypes DEF SimInv, TypeOK
<1>3. ASSUME NEW h \in Handlers, Simulate(h) PROVE Good
  <2> DEFINE new == [NoStatus EXCEPT !.state = "running"]
  <2>0. PICK i : i = seq + 1
    OBVIOUS
  <2>1. /\ CountRequest(h) /\ seq < MaxRuns /\ seq' = i
        /\ runs' = [runs EXCEPT ![i] = new]
        /\ pc' = [pc EXCEPT ![i] = "generate"]
        /\ UNCHANGED <<now, cancelled, left, atCancel>>
    BY <1>3, <2>0 DEF Simulate, Allow
  <2>2. /\ i \in Ids /\ seq \in Nat /\ i \in 0 .. MaxRuns /\ 1 .. seq \subseteq 1 .. i
        /\ \A j \in Ids : j > i <=> (j > seq /\ j # i)
        /\ i \notin 1 .. seq
    <3>1. MaxRuns \in Nat /\ seq \in 0 .. MaxRuns
      BY SimulationConfig DEF SimInv, TypeOK
    <3>2. QED
      BY <2>0, <2>1, <3>1 DEF Ids
  <2>3. /\ new \in Statuses /\ new.state = "running" /\ new.accepted = 0
    BY SimulationConfig DEF Statuses, NoStatus
  <2> HIDE DEF new
  <2>4. /\ runs' \in [Ids -> Statuses] /\ pc' \in [Ids -> SimPCs]
        /\ runs'[i] = new /\ pc'[i] = "generate"
        /\ \A j \in Ids \ {i} : runs'[j] = runs[j] /\ pc'[j] = pc[j]
    BY <2>1, <2>2, <2>3 DEF SimInv, TypeOK, Statuses, SimPCs
  <2>5. pc[i] = "none" /\ i \notin cancelled
    BY <2>0, <2>2 DEF SimInv, Sound, TypeOK
  <2>6. TypeOK'
    <3>1. hits' \in [Clients -> Windows] /\ arrived' \in [Handlers -> Arrivals]
      BY <2>1, CountTypes DEF SimInv
    <3>2. QED
      BY <2>1, <2>2, <2>4, <3>1 DEF SimInv, TypeOK, Statuses, SimPCs, Windows, Arrivals
  <2>7. Sound(i)'
    BY <2>1, <2>2, <2>3, <2>4, <2>5 DEF Sound, Terminal
  <2>8. ASSUME NEW j \in Ids \ {i} PROVE Sound(j)'
    BY <2>1, <2>2, <2>4 DEF SimInv, Sound
  <2>9. runs[i].state \notin Terminal
    BY <2>2, <2>5 DEF SimInv, Sound
  <2>10. QED
    BY <2>4, <2>6, <2>7, <2>8, <2>9 DEF SimInv
<1>4. ASSUME NEW i \in Ids, Cancel(i) PROVE Good
  <2>1. /\ runs[i].state # "none" /\ cancelled' = cancelled \union {i}
        /\ atCancel' = IF i \in cancelled THEN atCancel
                       ELSE [atCancel EXCEPT ![i] = runs[i].accepted]
        /\ UNCHANGED <<now, limiter, seq, pc, left, runs>>
    BY <1>4 DEF Cancel, CancelContext, Known
  <2>2. seq \in Nat /\ i \in Nat /\ i \in 1 .. seq /\ runs[i].accepted \in 0 .. MaxPoints
    BY <2>1 DEF SimInv, Sound, TypeOK, Ids
  <2>3. TypeOK'
    BY <2>1, <2>2 DEF SimInv, TypeOK, limiter
  <2>4. /\ atCancel'[i] = IF i \in cancelled THEN atCancel[i] ELSE runs[i].accepted
        /\ \A j \in Ids \ {i} : atCancel'[j] = atCancel[j]
    BY <2>1 DEF SimInv, TypeOK
  <2>5. Sound(i)'
    BY <2>1, <2>2, <2>4, SimulationConfig DEF SimInv, Sound
  <2>6. \A j \in Ids \ {i} : Sound(j)'
    BY <2>1, <2>4 DEF SimInv, Sound
  <2>7. QED
    BY <2>1, <2>3, <2>5, <2>6 DEF SimInv
<1>5. CASE Tick
  BY <1>1, <1>5 DEF Tick, limiter, SimInv, TypeOK, Windows, Arrivals
<1>6. CASE UNCHANGED vars
  BY <1>1, <1>6 DEF vars, limiter, SimInv, TypeOK, Windows, Arrivals
<1>7. ASSUME NEW h \in Handlers, NEW c \in Clients, Arrive(h, c) PROVE Good
  <2>1. arrived' \in [Handlers -> Arrivals]
    BY <1>7 DEF Arrive, SimInv, TypeOK, Arrivals
  <2>2. QED
    BY <1>1, <1>7, <2>1 DEF Arrive, SimInv, TypeOK, Windows
<1>8. QED
  BY <1>2, <1>3, <1>4, <1>5, <1>6, <1>7, RunStep DEF Next

\* SimInv is an invariant.
LEMMA SimInvariant == Spec => []SimInv
<1>1. Init => SimInv
  <2> SUFFICES ASSUME Init PROVE SimInv
    OBVIOUS
  <2>1. NoStatus \in Statuses
    BY SimulationConfig DEF NoStatus, Statuses
  <2>2. TypeOK
    BY <2>1, SimulationConfig DEF Init, TypeOK, NoHits, Statuses
  <2>3. \A i \in Ids : Sound(i)
    BY SimulationConfig DEF Init, Sound, NoStatus, Ids, Terminal
  <2>4. QED
    BY <2>2, <2>3 DEF SimInv
<1>2. SimInv /\ [Next]_vars => SimInv'
  BY SimStep
<1>3. QED
  BY <1>1, <1>2, PTL DEF Spec

\* The registry, the goroutines and the limiter keep their types.
THEOREM SimulationTypes == Spec => []TypeOK
<1>1. SimInv => TypeOK
  BY DEF SimInv
<1>2. QED
  BY <1>1, SimInvariant, PTL

\* After DELETE has answered, a run accepts at most one more point, whatever it
\* was doing at that moment (the select between two points in runSim).
THEOREM CancelStops == Spec => []CancelStopsIntake
<1>1. SimInv => CancelStopsIntake
  <2> SUFFICES ASSUME SimInv, NEW i \in cancelled
               PROVE  runs[i].accepted <= atCancel[i] + 1
    BY DEF CancelStopsIntake
  <2>1. i \in Ids /\ atCancel[i] \in Nat /\ runs[i].accepted \in Nat
    BY SimulationConfig DEF SimInv, TypeOK, Ids
  <2>2. QED
    BY <2>1 DEF SimInv, Sound
<1>2. QED
  BY <1>1, SimInvariant, PTL

\* A run that reports done has accepted every point it announced, through any
\* number of PublishErrors (runSim).
THEOREM DoneIsComplete == Spec => []DoneMeansAll
<1>1. SimInv => DoneMeansAll
  BY DEF SimInv, Sound, DoneMeansAll
<1>2. QED
  BY <1>1, SimInvariant, PTL

\* The status of an ended run does not change any more: neither a late DELETE
\* nor the goroutine touches it (handleSimulateID, runSim).
THEOREM EndIsFinal == Spec => EndedIsFinal
<1>1. SimInv /\ [Next]_vars
        => [\A i \in Ids : runs[i].state \in Terminal => runs'[i] = runs[i]]_vars
  BY SimStep
<1>2. QED
  BY <1>1, SimInvariant, PTL DEF Spec, EndedIsFinal

----------------------------------------------------------------------------
(* The limiter.  A window is known by the clock reading that opened it.    *)

Grants == [handler : Handlers, client : Clients, at : Nat, opened : Int]
Of(q, c) == {j \in DOMAIN q : q[j].client = c}
InWindow(q, c, o) == {j \in Of(q, c) : q[j].opened = o}
Opener(q, c, i, o) == i \in Of(q, c) /\ q[i].at = o /\ q[i].opened = o

\* What the limiter knows of client c whose window ends at e and has counted
\* m: every window was opened by a request that was let through, none starts
\* before the one before it is over, and none lets more than Limit through.
Ledger(q, c, m, e) ==
    /\ m = 0 => e < 0
    /\ m > 0 => \E i : Opener(q, c, i, e - Window)
    /\ \A j \in Of(q, c) : q[j].opened <= e - Window /\ q[j].at <= q[j].opened + Window
    /\ \A j \in Of(q, c) : \E i : i <= j /\ Opener(q, c, i, q[j].opened)
    /\ \A j, k \in Of(q, c) :
            q[j].opened < q[k].opened => q[j].opened + Window < q[k].opened
    /\ \A o \in Int : Cardinality(InWindow(q, c, o)) <= Limit
    /\ Cardinality(InWindow(q, c, e - Window)) <= m

\* The clock a handler reads for its next request is not before the opening of
\* a window it was counted in before.
InOrder(q) ==
    \A i, j \in DOMAIN q :
        i < j /\ q[i].handler = q[j].handler => q[i].opened <= q[j].at

\* Handlers, clients and times of the requests let through.
LEMMA GrantTypes ==
    ASSUME NEW q \in Seq(Grants), NEW j \in DOMAIN q
    PROVE  /\ j \in Nat /\ q[j] \in Grants /\ q[j].handler \in Handlers
           /\ q[j].client \in Clients /\ q[j].at \in Nat /\ q[j].opened \in Int
<1>1. q[j] \in Grants /\ j \in Nat
  OBVIOUS
<1>2. QED
  BY <1>1 DEF Grants

\* Sets of indices are finite.
LEMMA IndicesFinite ==
    ASSUME NEW q \in Seq(Grants), NEW S \in SUBSET DOMAIN q
    PROVE  IsFiniteSet(S) /\ Cardinality(S) \in Nat
<1>1. IsFiniteSet(1 .. Len(q)) /\ DOMAIN q = 1 .. Len(q)
  BY FS_Interval
<1>2. QED
  BY <1>1, FS_Subset, FS_CardinalityType

\* A request more.
LEMMA AppendIndices ==
    ASSUME NEW q \in Seq(Grants), NEW g \in Grants
    PROVE  /\ Append(q, g) \in Seq(Grants)
           /\ DOMAIN Append(q, g) = DOMAIN q \union {Len(q) + 1}
           /\ Len(q) + 1 \notin DOMAIN q
           /\ Append(q, g)[Len(q) + 1] = g
           /\ \A j \in DOMAIN q : j < Len(q) + 1 /\ Append(q, g)[j] = q[j]
OBVIOUS

\* A request more in the windows of a client.
LEMMA WindowAppend ==
    ASSUME NEW q \in Seq(Grants), NEW g \in Grants, NEW c, NEW o
    PROVE  Cardinality(InWindow(Append(q, g), c, o)) =
              Cardinality(InWindow(q, c, o)) + IF g.client = c /\ g.opened = o THEN 1 ELSE 0
<1> DEFINE n == Len(q) + 1
           p == Append(q, g)
           old == InWindow(q, c, o)
           new == InWindow(p, c, o)
<1>1. /\ DOMAIN p = DOMAIN q \union {n} /\ n \notin DOMAIN q
      /\ p[n] = g /\ \A j \in DOMAIN q : p[j] = q[j]
  BY AppendIndices
<1>2. IsFiniteSet(old) /\ Cardinality(old) \in Nat
  BY IndicesFinite DEF InWindow, Of
<1> HIDE DEF n, p
<1>3. CASE g.client = c /\ g.opened = o
  <2>1. new = old \union {n} /\ n \notin old
    BY <1>1, <1>3 DEF InWindow, Of
  <2> HIDE DEF old, new
  <2>2. Cardinality(new) = Cardinality(old) + 1
    BY <1>2, <2>1, FS_AddElement
  <2>3. QED
    BY <1>3, <2>2 DEF old, new, p
<1>4. CASE ~(g.client = c /\ g.opened = o)
  <2>1. new = old
    BY <1>1, <1>4 DEF InWindow, Of
  <2>2. QED
    BY <1>2, <1>4, <2>1 DEF p
<1>5. QED
  BY <1>3, <1>4

\* A request let through in the window that opened at o, or that opens it.
LEMMA LedgerAppend ==
    ASSUME NEW q \in Seq(Grants), NEW g \in Grants, NEW c \in Clients, g.client = c,
           NEW m \in Nat, NEW e \in Int, NEW l \in Nat, NEW f \in Int,
           Ledger(q, c, m, e), g.opened = f - Window, g.at <= f, l <= Limit, l > 0,
           \/ f = e /\ l = m + 1
           \/ l = 1 /\ g.at = g.opened /\ g.at > e
    PROVE  Ledger(Append(q, g), c, l, f)
<1> DEFINE n == Len(q) + 1
           p == Append(q, g)
<1>1. /\ DOMAIN p = DOMAIN q \union {n} /\ n \notin DOMAIN q /\ p \in Seq(Grants)
      /\ p[n] = g /\ \A j \in DOMAIN q : j < n /\ p[j] = q[j]
  BY AppendIndices
<1>2. Window \in Nat /\ Limit \in Nat /\ g.at \in Nat /\ g.opened \in Int /\ n \in Nat
  BY SimulationConfig DEF Grants
<1>3. \A o \in Int : Cardinality(InWindow(q, c, o)) \in Nat
  BY IndicesFinite DEF InWindow, Of
<1>4. \A o \in Int : Cardinality(InWindow(p, c, o)) =
            Cardinality(InWindow(q, c, o)) + IF g.opened = o THEN 1 ELSE 0
  BY WindowAppend
<1>5. \A j \in Of(q, c) : /\ j \in DOMAIN q /\ j \in Nat /\ q[j].opened \in Int /\ q[j].at \in Nat
                          /\ q[j].opened <= e - Window /\ q[j].at <= q[j].opened + Window
  BY GrantTypes DEF Of, Ledger
<1>6. \A j, k \in Of(q, c) : q[j].opened < q[k].opened => q[j].opened + Window < q[k].opened
  BY DEF Ledger
<1> HIDE DEF n, p
<1>7. /\ Of(p, c) = Of(q, c) \union {n}
      /\ \A i, o : Opener(q, c, i, o) => Opener(p, c, i, o)
  <2>1. Of(p, c) = Of(q, c) \union {n}
    BY <1>1 DEF Of
  <2>2. QED
    BY <1>1, <2>1 DEF Opener, Of
<1>8. e <= f
  BY <1>2
<1>9. \E i : i <= n /\ Opener(p, c, i, f - Window)
  <2>1. CASE f = e /\ l = m + 1
    <3>1. m > 0
      BY <1>2, <2>1 DEF Ledger
    <3>2. PICK i : Opener(q, c, i, e - Window)
      BY <3>1 DEF Ledger
    <3>3. i \in DOMAIN q /\ i \in Nat /\ i < n
      BY <1>1, <1>5, <3>2 DEF Opener
    <3>4. QED
      BY <1>2, <1>7, <2>1, <3>2, <3>3
  <2>2. CASE g.at = g.opened
    BY <1>1, <1>2, <1>7, <2>2 DEF Opener
  <2>3. QED
    BY <2>1, <2>2
<1>10. ASSUME NEW j \in Of(p, c)
       PROVE  /\ p[j].opened <= f - Window /\ p[j].at <= p[j].opened + Window
              /\ \E i : i <= j /\ Opener(p, c, i, p[j].opened)
  <2>1. CASE j = n
    BY <1>1, <1>2, <1>9, <2>1
  <2>2. CASE j \in Of(q, c)
    <3>1. p[j] = q[j]
      BY <1>1, <1>5, <2>2
    <3>2. PICK i : i <= j /\ Opener(q, c, i, q[j].opened)
      BY <2>2 DEF Ledger
    <3>3. QED
      BY <1>2, <1>5, <1>7, <1>8, <2>2, <3>1, <3>2
  <2>3. QED
    BY <1>7, <2>1, <2>2
<1>11. ASSUME NEW j \in Of(p, c), NEW k \in Of(p, c), p[j].opened < p[k].opened
       PROVE  p[j].opened + Window < p[k].opened
  <2>1. CASE j \in Of(q, c) /\ k \in Of(q, c)
    BY <1>1, <1>5, <1>6, <1>11, <2>1
  <2>2. CASE k = n /\ j = n
    BY <1>2, <1>1, <1>11, <2>2
  <2>3. CASE k = n /\ j \in Of(q, c)
    <3>1. p[j].opened = q[j].opened /\ p[k].opened = g.opened
      BY <1>1, <1>5, <2>3
    <3>2. CASE l = 1 /\ g.at = g.opened /\ g.at > e
      <4>1. q[j].opened \in Int /\ q[j].opened <= e - Window
        BY <1>5, <2>3
      <4>2. QED
        BY <1>2, <3>1, <3>2, <4>1
    <3>3. CASE f = e /\ l = m + 1
      <4>1. PICK i \in Of(q, c) : q[i].opened = g.opened
        <5>1. m > 0
          BY <1>2, <3>3 DEF Ledger
        <5>2. QED
          BY <3>3, <5>1 DEF Ledger, Opener
      <4>2. q[j].opened < q[i].opened /\ j \in Of(q, c)
        BY <1>11, <2>3, <3>1, <4>1
      <4>3. q[j].opened + Window < q[i].opened
        BY <1>6, <4>2
      <4>4. QED
        BY <3>1, <4>1, <4>3
    <3>4. QED
      BY <3>2, <3>3
  <2>4. CASE j = n /\ k \in Of(q, c)
    <3>1. p[k].opened = q[k].opened /\ p[j].opened = g.opened
      BY <1>1, <1>5, <2>4
    <3>2. q[k].opened \in Int /\ q[k].opened <= e - Window
      BY <1>5, <2>4
    <3>3. g.opened < q[k].opened
      BY <1>11, <3>1
    <3>4. g.opened = f - Window /\ e - Window <= f - Window
      BY <1>2, <1>8
    <3>5. QED
      BY <1>2, <3>2, <3>3, <3>4
  <2>5. QED
    BY <1>7, <2>1, <2>2, <2>3, <2>4
<1>12. Cardinality(InWindow(p, c, f - Window)) <= l
  <2>1. CASE f = e /\ l = m + 1
    BY <1>2, <1>3, <1>4, <2>1 DEF Ledger
  <2>2. CASE l = 1 /\ g.at = g.opened /\ g.at > e
    <3>1. InWindow(q, c, f - Window) = {}
      BY <1>2, <1>5, <2>2 DEF InWindow
    <3>2. Cardinality(InWindow(q, c, f - Window)) = 0
      BY <3>1, FS_EmptySet
    <3>3. QED
      BY <1>2, <1>4, <2>2, <3>2
  <2>3. QED
    BY <2>1, <2>2
<1>13. ASSUME NEW o \in Int PROVE Cardinality(InWindow(p, c, o)) <= Limit
  <2>1. CASE o = g.opened
    <3>1. f - Window \in Int
      BY <1>2
    <3>2. Cardinality(InWindow(p, c, o)) \in Nat
      BY <1>1, IndicesFinite DEF InWindow, Of
    <3>3. QED
      BY <1>2, <1>12, <2>1, <3>2
  <2>2. CASE o # g.opened
    BY <1>3, <1>4, <2>2 DEF Ledger
  <2>3. QED
    BY <2>1, <2>2
<1>14. l # 0 /\ \E i : Opener(p, c, i, f - Window)
  BY <1>9
<1>15. Ledger(p, c, l, f)
  <2>1. /\ \A j \in Of(p, c) : p[j].opened <= f - Window /\ p[j].at <= p[j].opened + Window
        /\ \A j \in Of(p, c) : \E i : i <= j /\ Opener(p, c, i, p[j].opened)
    BY <1>10
  <2>2. \A j, k \in Of(p, c) : p[j].opened < p[k].opened => p[j].opened + Window < p[k].opened
    BY <1>11
  <2>3. QED
    BY <1>12, <1>13, <1>14, <2>1, <2>2, Zenon DEF Ledger
<1>16. QED
  BY <1>15 DEF p

\* Another client's request.
LEMMA LedgerOther ==
    ASSUME NEW q \in Seq(Grants), NEW g \in Grants, NEW c, g.client # c,
           NEW m, NEW e, Ledger(q, c, m, e)
    PROVE  Ledger(Append(q, g), c, m, e)
<1> DEFINE n == Len(q) + 1
           p == Append(q, g)
<1>1. /\ DOMAIN p = DOMAIN q \union {n} /\ n \notin DOMAIN q
      /\ p[n] = g /\ \A j \in DOMAIN q : j < n /\ p[j] = q[j]
  BY AppendIndices
<1> HIDE DEF n, p
<1>2. Of(p, c) = Of(q, c) /\ \A j \in Of(q, c) : p[j] = q[j]
  BY <1>1 DEF Of
<1>3. /\ \A o : InWindow(p, c, o) = InWindow(q, c, o)
      /\ \A i, o : Opener(p, c, i, o) <=> Opener(q, c, i, o)
  BY <1>2 DEF InWindow, Opener
<1>4. Ledger(p, c, m, e)
  BY <1>2, <1>3 DEF Ledger
<1>5. QED
  BY <1>4 DEF p

\* A refused request is counted all the same.
LEMMA LedgerRefused ==
    ASSUME NEW q \in Seq(Grants), NEW c, NEW m \in Nat, NEW e \in Int,
           Ledger(q, c, m, e), m > 0
    PROVE  Ledger(q, c, m + 1, e)
<1>1. Cardinality(InWindow(q, c, e - Window)) \in Nat
  BY IndicesFinite DEF InWindow, Of
<1>2. m + 1 # 0 /\ Cardinality(InWindow(q, c, e - Window)) <= m + 1
  BY <1>1 DEF Ledger
<1>3. QED
  BY <1>2 DEF Ledger

\* A nonempty set of naturals has a least element.
LEMMA Least ==
    ASSUME NEW S \in SUBSET Nat, S # {}
    PROVE  \E m \in S : \A n \in S : m <= n
<1>1. PICK m \in S : \A n \in S : ~(<<n, m>> \in OpToRel(<, Nat))
  BY NatLessThanWellFounded, WFMin
<1>2. \A n \in S : ~(n < m)
  BY <1>1 DEF OpToRel
<1>3. QED
  BY <1>2

\* An injection by handlers bounds a set of requests: distinct handlers, and
\* none of them the given one.
LEMMA HandlersBound ==
    ASSUME NEW q \in Seq(Grants), NEW S \in SUBSET DOMAIN q, NEW s \in Handlers,
           \A j \in S : q[j].handler # s,
           \A i, j \in S : q[i].handler = q[j].handler => i = j
    PROVE  Cardinality(S) <= Cardinality(Handlers) - 1
<1> DEFINE f == [j \in S |-> q[j].handler]
           T == Handlers \ {s}
<1>1. IsFiniteSet(T) /\ Cardinality(T) = Cardinality(Handlers) - 1
  BY SimulationConfig, FS_RemoveElement
<1>2. \A j \in S : q[j].handler \in T
  BY GrantTypes
<1>3. f \in [S -> T] /\ \A i, j \in S : f[i] = f[j] => i = j
  BY <1>2
<1>4. f \in Injection(S, T)
  BY <1>3 DEF Injection, IsInjective
<1> HIDE DEF f, T
<1>5. QED
  BY <1>1, <1>4, FS_Injection

\* The requests of one window that lie in an interval number at most Limit,
\* and one less when the request that opened the window does not lie in it.
LEMMA OneWindow ==
    ASSUME NEW q \in Seq(Grants), NEW c, NEW m, NEW e, Ledger(q, c, m, e),
           NEW S \in SUBSET Of(q, c), \A j, k \in S : q[j].opened = q[k].opened
    PROVE  /\ Cardinality(S) <= Limit
           /\ (\A j \in S : q[j].at # q[j].opened) => Cardinality(S) <= Limit - 1
<1>0. Limit \in Nat /\ Limit > 0
  BY SimulationConfig
<1>1. CASE S = {}
  BY <1>0, <1>1, FS_EmptySet
<1>2. CASE S # {}
  <2>1. PICK k \in S : TRUE
    BY <1>2
  <2> DEFINE o == q[k].opened
             W == InWindow(q, c, o)
  <2>2. k \in DOMAIN q /\ o \in Int /\ S \subseteq W
    BY <2>1, GrantTypes DEF InWindow, Of
  <2>3. W \subseteq DOMAIN q /\ IsFiniteSet(W) /\ Cardinality(W) \in Nat
    <3>1. W \subseteq DOMAIN q
      BY DEF InWindow, Of
    <3>2. QED
      BY <3>1, IndicesFinite
  <2>4. Cardinality(W) <= Limit
    BY <2>2 DEF Ledger
  <2>5. PICK i : Opener(q, c, i, o)
    BY <2>1 DEF Ledger
  <2>6. i \in W /\ q[i].at = q[i].opened
    BY <2>5 DEF Opener, InWindow
  <2> HIDE DEF W
  <2>7. /\ IsFiniteSet(S) /\ Cardinality(S) \in Nat /\ Cardinality(S) <= Cardinality(W)
    BY <2>2, <2>3, FS_Subset, FS_CardinalityType
  <2>8. ASSUME \A j \in S : q[j].at # q[j].opened PROVE Cardinality(S) <= Limit - 1
    <3>1. S \subseteq W \ {i}
      BY <2>2, <2>6, <2>8
    <3>2. IsFiniteSet(W \ {i}) /\ Cardinality(W \ {i}) = Cardinality(W) - 1
      BY <2>3, <2>6, FS_RemoveElement
    <3>3. Cardinality(S) <= Cardinality(W \ {i})
      BY <3>1, <3>2, FS_Subset
    <3>4. QED
      BY <1>0, <2>3, <2>4, <2>7, <3>2, <3>3
  <2>9. QED
    BY <1>0, <2>3, <2>4, <2>7, <2>8
<1>3. QED
  BY <1>1, <1>2

\* Requests overtaken until a window was opened after x had passed come from
\* distinct handlers, and the handler that opened the first of these windows
\* brings none of them.
LEMMA Overtaken ==
    ASSUME NEW q \in Seq(Grants), NEW c, NEW m, NEW e, Ledger(q, c, m, e), InOrder(q),
           NEW x \in Int, NEW S \in SUBSET Of(q, c),
           \A j \in S : q[j].at <= x /\ q[j].opened > x
    PROVE  Cardinality(S) <= Cardinality(Handlers) - 1
<1>1. S \subseteq DOMAIN q /\ S \subseteq Nat
  BY GrantTypes DEF Of
<1>2. ASSUME NEW i \in S, NEW j \in S, q[i].handler = q[j].handler PROVE i = j
  <2>1. ASSUME NEW a \in S, NEW b \in S, a < b, q[a].handler = q[b].handler PROVE FALSE
    <3>1. q[a].opened <= q[b].at
      BY <1>1, <2>1 DEF InOrder
    <3>2. q[a].opened \in Int /\ q[b].at \in Int /\ q[a].opened > x /\ q[b].at <= x
      BY <1>1, GrantTypes
    <3>3. QED
      BY <3>1, <3>2
  <2>2. i \in Nat /\ j \in Nat /\ (i < j \/ j < i \/ i = j)
    BY <1>1
  <2>3. QED
    BY <1>2, <2>1, <2>2
<1>3. CASE S = {}
  <2>1. PICK s \in Handlers : TRUE
    BY SimulationConfig
  <2>2. QED
    BY <1>1, <1>3, <2>1, HandlersBound
<1>4. CASE S # {}
  <2>1. PICK first \in S : \A j \in S : first <= j
    BY <1>1, <1>4, Least
  <2>2. PICK i : i <= first /\ Opener(q, c, i, q[first].opened)
    BY DEF Ledger
  <2>3. /\ i \in DOMAIN q /\ i \in Nat /\ q[i].at = q[i].opened /\ q[i].opened > x
        /\ q[i].opened \in Int /\ q[i].handler \in Handlers
    BY <2>2, GrantTypes DEF Opener, Of
  <2>4. ASSUME NEW j \in S, q[j].handler = q[i].handler PROVE FALSE
    <3>1. j \in DOMAIN q /\ j \in Nat /\ q[j].at \in Int /\ q[j].at <= x
      BY <1>1, GrantTypes
    <3>2. i # j
      BY <2>3, <3>1
    <3>3. first \in Nat /\ first <= j
      BY <1>1, <2>1
    <3>4. i < j
      BY <2>2, <2>3, <3>1, <3>2, <3>3
    <3>5. q[i].opened <= q[j].at
      BY <2>3, <2>4, <3>1, <3>4 DEF InOrder
    <3>6. QED
      BY <2>3, <3>1, <3>5
  <2>5. QED
    BY <1>1, <1>2, <2>3, <2>4, HandlersBound
<1>5. QED
  BY <1>3, <1>4

\* Three finite sets cover a fourth.
LEMMA CoverOfThree ==
    ASSUME NEW S, NEW A, NEW B, NEW C, S \subseteq A \union B \union C,
           IsFiniteSet(A), IsFiniteSet(B), IsFiniteSet(C)
    PROVE  /\ Cardinality(S) \in Nat
           /\ Cardinality(S) <= Cardinality(A) + Cardinality(B) + Cardinality(C)
<1>1. ASSUME NEW X, NEW Y, IsFiniteSet(X), IsFiniteSet(Y)
      PROVE  /\ IsFiniteSet(X \union Y) /\ Cardinality(X \union Y) \in Nat
             /\ Cardinality(X) \in Nat /\ Cardinality(Y) \in Nat
             /\ Cardinality(X \union Y) <= Cardinality(X) + Cardinality(Y)
  <2>1. /\ IsFiniteSet(X \union Y) /\ IsFiniteSet(X \cap Y)
        /\ Cardinality(X \union Y) = Cardinality(X) + Cardinality(Y) - Cardinality(X \cap Y)
    BY <1>1, FS_Union, FS_Subset
  <2>2. /\ Cardinality(X) \in Nat /\ Cardinality(Y) \in Nat /\ Cardinality(X \cap Y) \in Nat
        /\ Cardinality(X \union Y) \in Nat
    BY <1>1, <2>1, FS_CardinalityType
  <2>3. QED
    BY <2>1, <2>2
<1> DEFINE D == A \union B
<1>2. /\ IsFiniteSet(D) /\ Cardinality(D) \in Nat /\ Cardinality(A) \in Nat
      /\ Cardinality(B) \in Nat /\ Cardinality(D) <= Cardinality(A) + Cardinality(B)
  BY <1>1
<1>3. S \subseteq D \union C
  OBVIOUS
<1> HIDE DEF D
<1>4. /\ IsFiniteSet(D \union C) /\ Cardinality(D \union C) \in Nat /\ Cardinality(C) \in Nat
      /\ Cardinality(D \union C) <= Cardinality(D) + Cardinality(C)
  BY <1>1, <1>2
<1>5. Cardinality(S) \in Nat /\ Cardinality(S) <= Cardinality(D \union C)
  BY <1>3, <1>4, FS_Subset, FS_CardinalityType
<1>6. QED
  BY <1>2, <1>4, <1>5

\* An interval of the window's length holds the end of one window, without the
\* request that opened it, one whole window, and requests overtaken until a
\* later window.
LEMMA Burst ==
    ASSUME NEW q \in Seq(Grants), NEW c, NEW m, NEW e, Ledger(q, c, m, e), InOrder(q),
           NEW x \in Int
    PROVE  Cardinality({j \in DOMAIN q : q[j].client = c /\ q[j].at >= x /\ q[j].at <= x + Window})
              < 2 * Limit + Cardinality(Handlers) - 1
<1> DEFINE S == {j \in DOMAIN q : q[j].client = c /\ q[j].at >= x /\ q[j].at <= x + Window}
           A == {j \in S : q[j].opened < x}
           B == {j \in S : q[j].opened >= x /\ q[j].opened <= x + Window}
           C == {j \in S : q[j].opened > x + Window}
<1>0. Window \in Nat /\ Limit \in Nat /\ Cardinality(Handlers) \in Nat
  BY SimulationConfig, FS_CardinalityType
<1>1. S \subseteq Of(q, c) /\ S \subseteq DOMAIN q
  BY DEF Of
<1>2. \A j \in S : q[j].opened \in Int /\ q[j].at \in Nat /\ q[j].at <= q[j].opened + Window
  BY <1>1, GrantTypes DEF Ledger
<1>3. \A j, k \in S : \/ q[j].opened = q[k].opened
                      \/ q[j].opened + Window < q[k].opened
                      \/ q[k].opened + Window < q[j].opened
  <2> SUFFICES ASSUME NEW j \in S, NEW k \in S
               PROVE  \/ q[j].opened = q[k].opened
                      \/ q[j].opened + Window < q[k].opened
                      \/ q[k].opened + Window < q[j].opened
    OBVIOUS
  <2>1. /\ q[j].opened < q[k].opened => q[j].opened + Window < q[k].opened
        /\ q[k].opened < q[j].opened => q[k].opened + Window < q[j].opened
    BY <1>1 DEF Ledger
  <2>2. q[j].opened \in Int /\ q[k].opened \in Int
    BY <1>2
  <2>3. QED
    BY <2>1, <2>2
<1>4. \A j \in S : q[j].at >= x /\ q[j].at <= x + Window
  OBVIOUS
<1>5. S \subseteq A \union B \union C
  BY <1>0, <1>2
<1> HIDE DEF S
<1>6. Cardinality(A) <= Limit - 1
  <2>1. \A j \in A : j \in S /\ q[j].opened < x
    OBVIOUS
  <2>2. \A j \in A : q[j].at # q[j].opened /\ q[j].opened >= x - Window
    BY <1>0, <1>2, <1>4, <2>1
  <2>3. \A j, k \in A : q[j].opened = q[k].opened
    BY <1>0, <1>2, <1>3, <2>1, <2>2
  <2>4. A \subseteq Of(q, c)
    BY <1>1, <2>1
  <2> HIDE DEF A
  <2>5. QED
    BY <2>2, <2>3, <2>4, OneWindow
<1>7. Cardinality(B) <= Limit
  <2>1. \A j \in B : j \in S /\ q[j].opened >= x /\ q[j].opened <= x + Window
    OBVIOUS
  <2>2. \A j, k \in B : q[j].opened = q[k].opened
    BY <1>0, <1>2, <1>3, <2>1
  <2>3. B \subseteq Of(q, c)
    BY <1>1, <2>1
  <2> HIDE DEF B
  <2>4. QED
    BY <2>2, <2>3, OneWindow
<1>8. Cardinality(C) <= Cardinality(Handlers) - 1
  <2>1. \A j \in C : q[j].at <= x + Window /\ q[j].opened > x + Window
    BY <1>4
  <2>2. C \subseteq Of(q, c) /\ x + Window \in Int
    BY <1>0, <1>1
  <2> HIDE DEF C
  <2>3. QED
    BY <2>1, <2>2, Overtaken
<1>9. /\ A \subseteq DOMAIN q /\ B \subseteq DOMAIN q /\ C \subseteq DOMAIN q
  BY <1>1
<1> HIDE DEF A, B, C
<1>10. /\ IsFiniteSet(A) /\ IsFiniteSet(B) /\ IsFiniteSet(C)
       /\ Cardinality(A) \in Nat /\ Cardinality(B) \in Nat /\ Cardinality(C) \in Nat
  BY <1>9, IndicesFinite
<1>11. /\ Cardinality(S) \in Nat
       /\ Cardinality(S) <= Cardinality(A) + Cardinality(B) + Cardinality(C)
  BY <1>5, <1>10, CoverOfThree
<1>12. Cardinality(S) < 2 * Limit + Cardinality(Handlers) - 1
  BY <1>0, <1>6, <1>7, <1>8, <1>10, <1>11
<1>13. QED
  BY <1>12 DEF S

\* The limiter's invariant: the ledger of every client, and that no clock
\* reading is from the future or from before what its handler has seen.
Clocks ==
    /\ \A c \in Clients : hits[c].reset - Window <= now
    /\ \A h \in Handlers : arrived[h].at <= now
    /\ \A i \in DOMAIN allowed :
            /\ allowed[i].opened <= now
            /\ arrived[allowed[i].handler] # Idle
                    => allowed[i].opened <= arrived[allowed[i].handler].at

LimiterInv ==
    /\ allowed \in Seq(Grants)
    /\ \A c \in Clients : Ledger(allowed, c, hits[c].count, hits[c].reset)
    /\ InOrder(allowed)
    /\ Clocks

\* Nobody has been counted at first.
LEMMA LimiterInit == Init => LimiterInv
<1> SUFFICES ASSUME Init PROVE LimiterInv
  OBVIOUS
<1>1. /\ allowed = <<>> /\ now \in Nat /\ Limit \in Nat /\ Window \in Nat
      /\ \A c \in Clients : hits[c] = [count |-> 0, reset |-> -1]
      /\ \A h \in Handlers : arrived[h] = Idle
  BY SimulationConfig DEF Init, NoHits
<1>2. allowed \in Seq(Grants) /\ InOrder(allowed)
  BY <1>1 DEF InOrder
<1>3. Clocks
  BY <1>1 DEF Clocks, Idle
<1>4. ASSUME NEW c \in Clients PROVE Ledger(allowed, c, hits[c].count, hits[c].reset)
  <2>1. \A o : InWindow(<<>>, c, o) = {}
    BY DEF InWindow, Of
  <2>2. \A o : Cardinality(InWindow(<<>>, c, o)) = 0
    BY <2>1, FS_EmptySet
  <2>3. Of(<<>>, c) = {}
    BY DEF Of
  <2>4. Ledger(<<>>, c, 0, -1)
    BY <1>1, <2>2, <2>3 DEF Ledger
  <2>5. QED
    BY <1>1, <2>4
<1>5. QED
  BY <1>2, <1>3, <1>4 DEF LimiterInv

\* What counting does to the window of its client, and to no other.
LEMMA Counted ==
    ASSUME TypeOK, NEW h \in Handlers, CountRequest(h)
    PROVE  LET c == arrived[h].client
               t == arrived[h].at
           IN  /\ hits[c].count \in Nat /\ hits[c].reset \in Int
               /\ hits'[c].count \in Nat /\ hits'[c].reset \in Int
               /\ t > hits[c].reset => hits'[c].count = 1 /\ hits'[c].reset = t + Window
               /\ ~(t > hits[c].reset) => /\ hits'[c].count = hits[c].count + 1
                                          /\ hits'[c].reset = hits[c].reset
               /\ \A d \in Clients \ {c} : hits'[d] = hits[d]
<1> DEFINE c == arrived[h].client
           t == arrived[h].at
           w == hits[c]
           next == IF t > w.reset THEN [count |-> 1, reset |-> t + Window]
                   ELSE [count |-> w.count + 1, reset |-> w.reset]
<1>1. c \in Clients /\ t \in Nat /\ hits' \in [Clients -> Windows]
  BY CountTypes
<1>2. hits \in [Clients -> Windows]
  BY DEF TypeOK, Windows
<1>3. hits' = [hits EXCEPT ![c] = next]
  BY DEF CountRequest
<1>4. hits'[c] = next /\ \A d \in Clients \ {c} : hits'[d] = hits[d]
  <2> HIDE DEF next
  <2>1. QED
    BY <1>1, <1>2, <1>3
<1>5. hits[c] \in Windows /\ hits'[c] \in Windows
  BY <1>1, <1>2
<1>6. QED
  BY <1>4, <1>5 DEF Windows

\* A request that is let through.
LEMMA AllowKeeps ==
    ASSUME TypeOK, LimiterInv, NEW h \in Handlers, Allow(h), now' = now
    PROVE  LimiterInv'
<1> DEFINE c == arrived[h].client
           t == arrived[h].at
           f == hits'[c].reset
           g == [handler |-> h, client |-> c, at |-> t, opened |-> f - Window]
<1>1. /\ CountRequest(h) /\ hits'[c].count <= Limit /\ allowed' = Append(allowed, g)
  BY DEF Allow
<1>2. /\ arrived[h] # Idle /\ c \in Clients /\ t \in Nat /\ arrived' = [arrived EXCEPT ![h] = Idle]
      /\ hits' \in [Clients -> Windows]
  BY <1>1, CountTypes
<1>3. /\ hits[c].count \in Nat /\ hits[c].reset \in Int
      /\ hits'[c].count \in Nat /\ f \in Int
      /\ t > hits[c].reset => hits'[c].count = 1 /\ f = t + Window
      /\ ~(t > hits[c].reset) => hits'[c].count = hits[c].count + 1 /\ f = hits[c].reset
      /\ \A d \in Clients \ {c} : hits'[d] = hits[d]
  BY <1>1, Counted
<1>4. now \in Nat /\ Window \in Nat /\ Window > 0 /\ Limit \in Nat
  BY SimulationConfig DEF TypeOK
<1>5. /\ g \in Grants /\ g.handler = h /\ g.client = c /\ g.at = t /\ g.opened = f - Window
  BY <1>2, <1>3, <1>4 DEF Grants
<1>6. /\ allowed \in Seq(Grants) /\ InOrder(allowed)
      /\ \A d \in Clients : Ledger(allowed, d, hits[d].count, hits[d].reset)
  BY DEF LimiterInv
<1>7. /\ \A d \in Clients : hits[d].reset - Window <= now
      /\ \A k \in Handlers : arrived[k].at <= now
      /\ \A i \in DOMAIN allowed :
            /\ allowed[i].opened <= now
            /\ arrived[allowed[i].handler] # Idle
                    => allowed[i].opened <= arrived[allowed[i].handler].at
  BY DEF LimiterInv, Clocks
<1>8. t <= now /\ f - Window <= now
  BY <1>2, <1>3, <1>4, <1>7
<1>9. Ledger(allowed', c, hits'[c].count, f)
  <2> DEFINE m == hits[c].count
             e == hits[c].reset
             l == hits'[c].count
  <2>1. Ledger(allowed, c, m, e) /\ m \in Nat /\ e \in Int /\ l \in Nat
    BY <1>2, <1>3, <1>6
  <2>2. /\ t \in Nat /\ f \in Int /\ l <= Limit
        /\ t > e => l = 1 /\ f = t + Window
        /\ ~(t > e) => l = m + 1 /\ f = e
    BY <1>1, <1>2, <1>3
  <2> HIDE DEF g, c, t, f, m, e, l
  <2>3. /\ l > 0 /\ t <= f
        /\ \/ f = e /\ l = m + 1
           \/ l = 1 /\ t = f - Window /\ t > e
    BY <1>4, <2>1, <2>2
  <2>4. Ledger(Append(allowed, g), c, l, f)
    BY <1>2, <1>3, <1>5, <1>6, <2>1, <2>2, <2>3, LedgerAppend
  <2>5. QED
    BY <1>1, <2>4 DEF l
<1>10. ASSUME NEW d \in Clients, d # c
       PROVE  Ledger(allowed', d, hits'[d].count, hits'[d].reset)
  <2>1. hits'[d] = hits[d] /\ g.client # d
    BY <1>3, <1>10
  <2> HIDE DEF g
  <2>2. QED
    BY <1>1, <1>5, <1>6, <2>1, LedgerOther
<1>11. \A d \in Clients : Ledger(allowed', d, hits'[d].count, hits'[d].reset)
  BY <1>9, <1>10
<1> DEFINE n == Len(allowed) + 1
<1> HIDE DEF g, c, t, f
<1>12. /\ allowed' \in Seq(Grants)
       /\ DOMAIN allowed' = DOMAIN allowed \union {n} /\ n \notin DOMAIN allowed
       /\ allowed'[n] = g /\ \A j \in DOMAIN allowed : j < n /\ allowed'[j] = allowed[j]
  BY <1>1, <1>5, <1>6, AppendIndices
<1>13. n \in Nat /\ \A j \in DOMAIN allowed : j \in Nat
  BY <1>6
<1> HIDE DEF n
<1>14. InOrder(allowed')
  <2> SUFFICES ASSUME NEW i \in DOMAIN allowed', NEW j \in DOMAIN allowed', i < j,
                      allowed'[i].handler = allowed'[j].handler
               PROVE  allowed'[i].opened <= allowed'[j].at
    BY DEF InOrder
  <2>1. i \in DOMAIN allowed
    BY <1>12, <1>13
  <2>2. CASE j \in DOMAIN allowed
    BY <1>6, <1>12, <2>1, <2>2 DEF InOrder
  <2>3. CASE j = n
    <3>1. allowed'[j].at = t /\ allowed[i].handler = h /\ allowed'[i] = allowed[i]
      BY <1>5, <1>12, <2>1, <2>3
    <3>2. allowed[i].opened <= arrived[h].at
      BY <1>2, <1>7, <2>1, <3>1
    <3>3. QED
      BY <3>1, <3>2 DEF t
  <2>4. QED
    BY <1>12, <2>2, <2>3
<1>15. Clocks'
  <2>1. ASSUME NEW d \in Clients PROVE hits'[d].reset - Window <= now
    <3>1. CASE d = c
      BY <1>8, <3>1 DEF f
    <3>2. CASE d # c
      BY <1>3, <1>7, <3>2
    <3>3. QED
      BY <3>1, <3>2
  <2>2. \A k \in Handlers : arrived'[k] = IF k = h THEN Idle ELSE arrived[k]
    BY <1>2 DEF TypeOK
  <2>3. ASSUME NEW k \in Handlers PROVE arrived'[k].at <= now
    BY <1>4, <1>7, <2>2 DEF Idle
  <2>4. ASSUME NEW i \in DOMAIN allowed'
        PROVE  /\ allowed'[i].opened <= now
               /\ arrived'[allowed'[i].handler] # Idle
                    => allowed'[i].opened <= arrived'[allowed'[i].handler].at
    <3>1. CASE i = n
      BY <1>5, <1>8, <1>12, <2>2, <3>1
    <3>2. CASE i \in DOMAIN allowed
      <4>1. allowed'[i] = allowed[i] /\ allowed[i].handler \in Handlers
        BY <1>6, <1>12, <3>2, GrantTypes
      <4>2. QED
        BY <1>7, <2>2, <3>2, <4>1
    <3>3. QED
      BY <1>12, <3>1, <3>2
  <2>5. QED
    BY <2>1, <2>3, <2>4 DEF Clocks
<1>16. QED
  BY <1>11, <1>12, <1>14, <1>15 DEF LimiterInv

\* A request that is refused.
LEMMA RefusalKeeps ==
    ASSUME TypeOK, LimiterInv, NEW h \in Handlers, TooMany(h)
    PROVE  LimiterInv'
<1> DEFINE c == arrived[h].client
           t == arrived[h].at
<1>1. /\ CountRequest(h) /\ hits'[c].count > Limit /\ now' = now /\ allowed' = allowed
  BY DEF TooMany
<1>2. /\ c \in Clients /\ t \in Nat /\ arrived' = [arrived EXCEPT ![h] = Idle]
  BY <1>1, CountTypes
<1>3. /\ hits[c].count \in Nat /\ hits[c].reset \in Int
      /\ t > hits[c].reset => hits'[c].count = 1
      /\ ~(t > hits[c].reset) => /\ hits'[c].count = hits[c].count + 1
                                 /\ hits'[c].reset = hits[c].reset
      /\ \A d \in Clients \ {c} : hits'[d] = hits[d]
  BY <1>1, Counted
<1>4. now \in Nat /\ Limit \in Nat /\ Limit > 0
  BY SimulationConfig DEF TypeOK
<1>5. /\ hits'[c].count = hits[c].count + 1 /\ hits'[c].reset = hits[c].reset
      /\ hits[c].count > 0
  BY <1>1, <1>3, <1>4
<1>6. ASSUME NEW d \in Clients PROVE Ledger(allowed', d, hits'[d].count, hits'[d].reset)
  <2>1. CASE d = c
    <3> HIDE DEF c
    <3>1. allowed \in Seq(Grants) /\ Ledger(allowed, c, hits[c].count, hits[c].reset)
      BY <1>2 DEF LimiterInv
    <3>2. Ledger(allowed, c, hits[c].count + 1, hits[c].reset)
      BY <1>3, <1>5, <3>1, LedgerRefused
    <3>3. QED
      BY <1>1, <1>5, <2>1, <3>2
  <2>2. CASE d # c
    BY <1>1, <1>3, <2>2 DEF LimiterInv
  <2>3. QED
    BY <2>1, <2>2
<1>7. \A k \in Handlers : arrived'[k] = IF k = h THEN Idle ELSE arrived[k]
  BY <1>2 DEF TypeOK
<1>8. \A i \in DOMAIN allowed : allowed[i].handler \in Handlers
  BY GrantTypes DEF LimiterInv
<1>9. \A d \in Clients : hits'[d].reset = hits[d].reset
  BY <1>3, <1>5
<1>10. Clocks'
  BY <1>1, <1>4, <1>7, <1>8, <1>9 DEF LimiterInv, Clocks, Idle
<1>11. QED
  BY <1>1, <1>6, <1>10 DEF LimiterInv

\* A handler reads the clock.
LEMMA ArriveKeeps ==
    ASSUME TypeOK, LimiterInv, NEW h \in Handlers, NEW c \in Clients, Arrive(h, c)
    PROVE  LimiterInv'
<1>1. /\ now' = now /\ hits' = hits /\ allowed' = allowed
      /\ arrived' = [arrived EXCEPT ![h] = [client |-> c, at |-> now]]
  BY DEF Arrive
<1>2. now \in Nat
  BY SimulationConfig DEF TypeOK
<1>3. \A k \in Handlers : arrived'[k] = IF k = h THEN [client |-> c, at |-> now] ELSE arrived[k]
  BY <1>1 DEF TypeOK
<1>4. \A i \in DOMAIN allowed : allowed[i].handler \in Handlers
  BY GrantTypes DEF LimiterInv
<1>5. Clocks'
  BY <1>1, <1>2, <1>3, <1>4 DEF LimiterInv, Clocks
<1>6. QED
  BY <1>1, <1>5 DEF LimiterInv

\* Every step keeps the invariant of the limiter.
LEMMA LimiterStep ==
    ASSUME TypeOK, LimiterInv, [Next]_vars PROVE LimiterInv'
<1>1. CASE \E h \in Handlers, c \in Clients : Arrive(h, c)
  BY <1>1, ArriveKeeps
<1>2. CASE \E h \in Handlers : TooMany(h) \/ Refuse(h) \/ Simulate(h)
  BY <1>2, RefusalKeeps, AllowKeeps DEF Refuse, Simulate
<1>3. CASE Tick
  <2>1. now' > now /\ hits' = hits /\ allowed' = allowed /\ arrived' = arrived
    BY <1>3 DEF Tick, limiter
  <2>2. now \in Nat /\ now' \in Nat /\ Window \in Nat
    BY <1>3, SimulationConfig DEF TypeOK, Tick
  <2>3. \A c \in Clients : hits[c].reset \in Int
    BY DEF TypeOK
  <2>4. \A h \in Handlers : arrived[h].at \in Int
    <3>1. \A h \in Handlers : arrived[h] \in [client : Clients, at : Instants] \/ arrived[h] = Idle
      BY DEF TypeOK
    <3>2. Instants \subseteq Int /\ Idle.at \in Int
      BY SimulationConfig DEF Idle
    <3>3. ASSUME NEW h \in Handlers PROVE arrived[h].at \in Int
      <4>1. CASE arrived[h] \in [client : Clients, at : Instants]
        <5>1. arrived[h].at \in Instants
          BY <4>1
        <5>2. QED
          BY <3>2, <5>1
      <4>2. CASE arrived[h] = Idle
        BY <3>2, <4>2
      <4>3. QED
        BY <3>1, <4>1, <4>2
    <3>4. QED
      BY <3>3
  <2>5. \A i \in DOMAIN allowed : allowed[i].opened \in Int
    BY GrantTypes DEF LimiterInv
  <2>6. Clocks'
    BY <2>1, <2>2, <2>3, <2>4, <2>5 DEF LimiterInv, Clocks
  <2>7. QED
    BY <2>1, <2>6 DEF LimiterInv
<1>4. CASE (\E i \in Ids : Run(i) \/ Cancel(i)) \/ UNCHANGED vars
  <2>1. now' = now /\ hits' = hits /\ allowed' = allowed /\ arrived' = arrived
    BY <1>4 DEF Run, Cancel, CancelContext, Generate, SelectNext, SelectCancelled, SelectDone, End,
                ProcessOk, ProcessPublishError, ProcessFails, InjectNext, InjectDone, limiter, vars
  <2>2. QED
    BY <2>1 DEF LimiterInv, Clocks
<1>5. QED
  BY <1>1, <1>2, <1>3, <1>4 DEF Next

(***************************************************************************)
(* RateLimiter.Allow, for every limit, window, number of clients and of    *)
(* handlers, and however long a handler waits for the mutex after it read  *)
(* the clock: in no interval of the window's length does it let a client   *)
(* through twice the limit and one request for each further handler.       *)
(***************************************************************************)
THEOREM BurstIsBounded == Spec => []BurstBounded
<1>1. TypeOK /\ LimiterInv /\ [Next]_vars => LimiterInv'
  BY LimiterStep
<1>2. TypeOK /\ LimiterInv => BurstBounded
  <2> SUFFICES ASSUME TypeOK, LimiterInv, NEW c \in Clients, NEW k \in DOMAIN allowed
               PROVE  Cardinality({j \in DOMAIN allowed : /\ allowed[j].client = c
                                                          /\ allowed[j].at >= allowed[k].at
                                                          /\ allowed[j].at <= allowed[k].at + Window})
                         < 2 * Limit + Cardinality(Handlers) - 1
    BY DEF BurstBounded
  <2>1. allowed \in Seq(Grants) /\ InOrder(allowed) /\ Ledger(allowed, c, hits[c].count, hits[c].reset)
    BY DEF LimiterInv
  <2>2. allowed[k].at \in Int
    BY <2>1, GrantTypes
  <2>3. QED
    BY <2>1, <2>2, Burst
<1>3. QED
  BY <1>1, <1>2, LimiterInit, SimulationTypes, PTL DEF Spec
=============================================================================
