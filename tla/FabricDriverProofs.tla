------------------------- MODULE FabricDriverProofs -------------------------
(***************************************************************************)
(* Proofs about FabricDriver, for every sequence of workers and set of     *)
(* tasks, any limits on rounds and any number of restarts.  Every step of  *)
(* the driver is one of the steps WorkerAgentsProofs describes, so the     *)
(* invariants of store and agents hold of it as well.  The last theorem    *)
(* says when giving up is justified.                                       *)
(***************************************************************************)
EXTENDS FabricDriver, WorkerAgentsProofs

DriverPlace == {"start", "check", "turn", "awaiting", "sweep", "compare", "final",
                "returned", "stalled", "raised"}

DriverTyped ==
    driver \in [pc : DriverPlace, turn : 1..Len(Driven), rounds : Nat,
                idle_rounds : Nat, before : {driver.before}]

(* only the run the driver awaits is under way                             *)
RunsAtRest ==
    \A r \in Run : ~(DriverAt("awaiting") /\ r = RunOfTurn) => At(r, "idle")

DriverInv ==
    /\ AgentInv
    /\ DriverTyped
    /\ RunsAtRest
    /\ DriverAt("returned") => AllTerminal

-----------------------------------------------------------------------------
(* Steps. *)

(* The run whose turn it is belongs to a driven worker.                    *)
LEMMA TurnIsRun ==
    ASSUME DriverTyped
    PROVE  /\ RunOfTurn \in Run /\ WorkerOf(RunOfTurn) = Driven[driver.turn]
           /\ Driven[driver.turn] \in Worker
  <1>1. Driven[driver.turn] \in Worker
    BY DriverAssumption DEF DriverTyped
  <1> QED
    BY <1>1, DriverAssumption DEF RunOfTurn, Run, WorkerOf

(* A step of one run does not touch the local state of another.            *)
LEMMA RunStepIsLocal ==
    ASSUME RunsTyped, NEW r \in Run, RunStep(r), NEW q \in Run \ {r}
    PROVE  runs'[q] = runs[q]
  <1>1. runs = [x \in Run |-> runs[x]]
    BY DEF RunsTyped
  <1>2. \/ \E pc \in RunPlace : GoTo(r, pc)
        \/ \E x : runs' = [runs EXCEPT ![r] = x]
    <2>1. CASE \E lag \in Lags : ClaimReturnsTask(r, lag)
      BY <2>1 DEF ClaimReturnsTask
    <2>2. CASE ~\E lag \in Lags : ClaimReturnsTask(r, lag)
      BY <2>2 DEF RunStep, RunProceeds, HandlerReturns, HandlerRaises, Complete,
         CompleteRaises, StartAgent, Heartbeat, Recover, ClaimReturnsNone, Fail,
         FailRaises, RunPlace, Handling, Return
    <2> QED
      BY <2>1, <2>2
  <1> QED
    BY <1>1, <1>2 DEF GoTo

(* The driver's steps are store steps, and steps of agents in their effect *)
(* on tasks and hands.                                                     *)
LEMMA DriverStepIsAgentStep ==
    ASSUME AgentInv, DriverTyped, [DriverNext]_driverVars
    PROVE  [Next]_vars /\ RunsTyped' /\ AgentStep
  <1>a. IInv /\ RunsTyped /\ AttemptRunsOnce
    BY DEF AgentInv
  <1>b. RunOfTurn \in Run /\ Driven[driver.turn] \in Worker
    BY TurnIsRun
  <1>1. CASE [AgentNext]_allVars
    BY <1>a, <1>1, AgentStepIsStoreStep, StepOfAgents
  <1>2. ASSUME NEW lag \in Lags, StartNext(lag), ~UNCHANGED allVars
        PROVE  [Next]_vars /\ RunsTyped' /\ AgentStep
    <2>1. /\ \E c \in Concurrency[Driven[driver.turn]] :
                register_worker(Driven[driver.turn], c, lag)
          /\ UNCHANGED <<runs, crashes>>
      BY <1>2 DEF StartNext, vars, agentVars, allVars
    <2>2. UNCHANGED tasks /\ Next
      BY <1>b, <2>1 DEF register_worker, Next
    <2>3. RunsTyped' /\ \A r \in Run : SameHands(r)
      BY <1>a, <2>1 DEF RunsTyped, SameHands, InHand
    <2> QED
      BY <2>1, <2>2, <2>3, SameTasksKept DEF AgentStep, Quiet, Unfinished
  <1>3. ASSUME NEW lag \in Lags, Sweep(lag)
        PROVE  [Next]_vars /\ RunsTyped' /\ AgentStep
    <2>1. recover_expired_leases(lag) /\ UNCHANGED <<runs, crashes>>
      BY <1>3 DEF Sweep, agentVars
    <2>2. \A t \in Task : Kept(t) \/ Returned(t)
      BY <1>a, <2>1, StepOfSweep DEF recover_expired_leases
    <2>3. RunsTyped' /\ \A r \in Run : SameHands(r)
      BY <1>a, <2>1 DEF RunsTyped, SameHands, InHand
    <2> QED
      BY <2>1, <2>2, <2>3 DEF AgentStep, Quiet, Unfinished, Next
  <1>4. CASE DriverCrash
    <2>1. /\ UNCHANGED vars /\ crashes' = crashes + 1
          /\ runs' = [r \in Run |-> IdleRun]
      BY <1>4 DEF DriverCrash
    <2>2. RunsTyped' /\ \A r \in Run : ~InHand(r)'
      BY <1>a, <2>1 DEF RunsTyped, RunState, RunPlace, IdleRun, InHand, Handling
    <2> QED
      BY <2>1, <2>2, SameTasksKept DEF AgentStep, Dies, vars
  <1>5. CASE TurnBegins \/ TurnContinues \/ TurnRaises
    BY <1>1, <1>5, <1>b DEF TurnBegins, TurnContinues, TurnRaises, AgentNext, RunStep,
                            RunProceeds
  <1>6. CASE DriverPassTime \/ \E t \in Task :
                ClientCancels(t) \/ \E lag \in Lags : DriverSubmits(t, lag)
    BY <1>1, <1>6 DEF DriverPassTime, ClientCancels, DriverSubmits, AgentNext, Client
  <1>7. CASE CheckRound \/ RoundsExhausted \/ TurnEnds \/ Compare \/ FinalCheck
             \/ UNCHANGED driverVars
    BY <1>1, <1>7 DEF CheckRound, RoundsExhausted, TurnEnds, Compare, FinalCheck,
                      driverVars, allVars, vars, agentVars
  <1>8. CASE UNCHANGED allVars
    BY <1>1, <1>8
  <1> QED
    BY <1>2, <1>3, <1>4, <1>5, <1>6, <1>7, <1>8 DEF DriverNext, DriverStep

(* What is terminal stays so, and only a submission adds a task.           *)
LEMMA TerminalStays ==
    ASSUME IInv, AgentStep, AllTerminal, \A t \in Task : ~Enqueued(t)
    PROVE  AllTerminal'
  <1>1. \A t \in Task : Unfinished(t) \/ Claimed(t) \/ Completed(t)
    BY DEF AgentStep, Quiet, Submits, Dies, Takes, Records, Abandons, Unfinished
  <1>2. \A t \in Task : tasks[t].state \in Terminal \cup {"absent"}
    BY RowFacts DEF AllTerminal, Submitted
  <1>3. \A t \in Task : tasks'[t].state = tasks[t].state
    BY <1>1, <1>2 DEF Unfinished, Kept, Returned, Cancelled, Claimed, Completed,
                      Waiting, Terminal
  <1> QED
    BY <1>3 DEF AllTerminal, Submitted

Updated(pc, turn, rounds, idle, before) ==
    [pc |-> pc, turn |-> turn, rounds |-> rounds, idle_rounds |-> idle, before |-> before]

(* The driver's record stays one when fields are replaced.                 *)
LEMMA DriverUpdate ==
    ASSUME NEW pc \in DriverPlace, NEW turn \in 1..Len(Driven),
           NEW rounds \in Nat, NEW idle \in Nat, NEW before,
           driver' = Updated(pc, turn, rounds, idle, before)
    PROVE  /\ DriverTyped'
           /\ driver'.pc = pc /\ driver'.turn = turn /\ driver'.rounds = rounds
           /\ driver'.idle_rounds = idle /\ driver'.before = before
  <1>1. driver' = [pc |-> pc, turn |-> turn, rounds |-> rounds,
                   idle_rounds |-> idle, before |-> before]
    BY DEF Updated
  <1>2. /\ driver'.pc = pc /\ driver'.turn = turn /\ driver'.rounds = rounds
        /\ driver'.idle_rounds = idle /\ driver'.before = before
    BY <1>1
  <1>3. driver' \in [pc : DriverPlace, turn : 1..Len(Driven), rounds : Nat,
                     idle_rounds : Nat, before : {driver'.before}]
    BY <1>1, <1>2
  <1> QED
    BY <1>2, <1>3 DEF DriverTyped

(* What a step does to the driver itself and to the runs.                  *)
LEMMA StepOfDriver ==
    ASSUME DriverInv, [DriverNext]_driverVars
    PROVE  DriverTyped' /\ RunsAtRest'
  <1>a. /\ DriverTyped /\ RunsTyped /\ RunsAtRest
        /\ runs = [r \in Run |-> runs[r]]
        /\ Len(Driven) \in Nat \ {0}
    BY DriverAssumption DEF DriverInv, AgentInv, RunsTyped
  <1>b. RunOfTurn \in Run /\ Driven[driver.turn] \in Worker
    BY <1>a, TurnIsRun
  <1>c. ASSUME NEW pc \in DriverPlace, DriverGoTo(pc)
        PROVE  DriverTyped' /\ driver'.pc = pc /\ driver'.turn = driver.turn
    BY <1>a, <1>c DEF DriverTyped, DriverGoTo
  <1>d. /\ driver.pc \in DriverPlace /\ driver.turn \in 1..Len(Driven)
        /\ driver.rounds \in Nat /\ driver.rounds + 1 \in Nat /\ driver.idle_rounds \in Nat
    BY <1>a DEF DriverTyped
  <1>1. CASE \E lag \in Lags : StartNext(lag)
    <2>1. runs' = runs /\ ~DriverAt("awaiting")
      BY <1>1 DEF StartNext, agentVars, DriverAt
    <2>2. DriverTyped' /\ driver'.pc \in {"start", "check"}
      <3> DEFINE last == ~(driver.turn < Len(Driven))
                 place == IF last THEN "check" ELSE driver.pc
                 next == IF last THEN 1 ELSE driver.turn + 1
      <3>1. driver' = Updated(place, next, driver.rounds, driver.idle_rounds, driver.before)
        BY <1>a, <1>1 DEF StartNext, DriverTyped, Updated
      <3>2. place \in {"start", "check"} /\ next \in 1..Len(Driven)
        BY <1>a, <1>1 DEF StartNext, DriverTyped, DriverAt
      <3> HIDE DEF place, next
      <3> QED
        BY <1>d, <3>1, <3>2, DriverUpdate DEF DriverPlace
    <2> QED
      BY <1>a, <2>1, <2>2 DEF RunsAtRest, DriverAt, At
  <1>2. CASE CheckRound \/ RoundsExhausted \/ FinalCheck
    <2>1. runs' = runs /\ ~DriverAt("awaiting")
      BY <1>2 DEF CheckRound, RoundsExhausted, FinalCheck, agentVars, DriverAt
    <2>2. DriverTyped' /\ driver'.pc \in {"returned", "turn", "final", "stalled"}
      <3>1. CASE CheckRound
        <4>1. CASE AllTerminal
          BY <1>c, <3>1, <4>1 DEF CheckRound, DriverGoTo, DriverPlace
        <4>2. CASE ~AllTerminal
          <5>1. driver' = Updated("turn", 1, driver.rounds, driver.idle_rounds, Snapshot)
            BY <1>a, <3>1, <4>2 DEF CheckRound, DriverTyped, Updated
          <5> QED
            BY <1>a, <1>d, <5>1, DriverUpdate DEF DriverPlace
        <4> QED
          BY <4>1, <4>2
      <3>2. CASE RoundsExhausted \/ FinalCheck
        BY <1>c, <3>2 DEF RoundsExhausted, FinalCheck, DriverPlace
      <3> QED
        BY <1>2, <3>1, <3>2
    <2> QED
      BY <1>a, <2>1, <2>2 DEF RunsAtRest, DriverAt, At
  <1>3. CASE TurnBegins
    <2>1. DriverTyped' /\ driver'.pc = "awaiting" /\ driver'.turn = driver.turn
      BY <1>c, <1>3 DEF TurnBegins, DriverPlace
    <2>2. RunStep(RunOfTurn) /\ ~DriverAt("awaiting")
      BY <1>3 DEF TurnBegins, RunStep, RunProceeds, DriverAt
    <2>3. \A q \in Run \ {RunOfTurn} : runs'[q] = runs[q]
      BY <1>a, <1>b, <2>2, RunStepIsLocal
    <2>4. RunOfTurn' = RunOfTurn
      BY <2>1 DEF RunOfTurn
    <2> QED
      BY <1>a, <2>1, <2>2, <2>3, <2>4 DEF RunsAtRest, DriverAt, At
  <1>4. CASE TurnContinues
    <2>1. RunStep(RunOfTurn) /\ driver' = driver /\ DriverAt("awaiting")
      BY <1>4 DEF TurnContinues, RunStep
    <2>2. \A q \in Run \ {RunOfTurn} : runs'[q] = runs[q]
      BY <1>a, <1>b, <2>1, RunStepIsLocal
    <2> QED
      BY <1>a, <2>1, <2>2 DEF RunsAtRest, DriverAt, At, DriverTyped, RunOfTurn
  <1>5. CASE TurnRaises
    <2>1. DriverTyped' /\ driver'.pc = "raised"
      BY <1>c, <1>5 DEF TurnRaises, DriverPlace
    <2>2. RunStep(RunOfTurn) /\ Return(RunOfTurn) /\ DriverAt("awaiting")
      BY <1>5 DEF TurnRaises, RunStep, FailRaises
    <2>3. \A q \in Run \ {RunOfTurn} : runs'[q] = runs[q]
      BY <1>a, <1>b, <2>2, RunStepIsLocal
    <2>4. runs'[RunOfTurn].pc = "idle"
      BY <1>a, <1>b, <2>2 DEF Return, IdleRun
    <2> QED
      BY <1>a, <2>1, <2>2, <2>3, <2>4 DEF RunsAtRest, DriverAt, At
  <1>6. CASE TurnEnds
    <2>1. runs' = runs /\ At(RunOfTurn, "idle")
      BY <1>6 DEF TurnEnds, agentVars
    <2>2. DriverTyped' /\ driver'.pc \in {"turn", "sweep"}
      <3> DEFINE last == ~(driver.turn < Len(Driven))
                 place == IF last THEN "sweep" ELSE "turn"
                 next == IF last THEN driver.turn ELSE driver.turn + 1
      <3>1. driver' = Updated(place, next, driver.rounds, driver.idle_rounds, driver.before)
        BY <1>a, <1>6 DEF TurnEnds, DriverTyped, Updated
      <3>2. place \in {"turn", "sweep"} /\ next \in 1..Len(Driven)
        BY <1>a DEF DriverTyped
      <3> HIDE DEF place, next
      <3> QED
        BY <1>d, <3>1, <3>2, DriverUpdate DEF DriverPlace
    <2> QED
      BY <1>a, <2>1, <2>2 DEF RunsAtRest, DriverAt, At
  <1>7. CASE \E lag \in Lags : Sweep(lag)
    <2>1. runs' = runs /\ ~DriverAt("awaiting")
      BY <1>7 DEF Sweep, agentVars, DriverAt
    <2>2. DriverTyped' /\ driver'.pc = "compare"
      BY <1>c, <1>7 DEF Sweep, DriverPlace
    <2> QED
      BY <1>a, <2>1, <2>2 DEF RunsAtRest, DriverAt, At
  <1>8. CASE Compare
    <2>1. runs' = runs /\ ~DriverAt("awaiting")
      BY <1>8 DEF Compare, agentVars, DriverAt
    <2> DEFINE n == IF NoChange THEN driver.idle_rounds + 1 ELSE 0
               place == IF NoChange /\ driver.idle_rounds + 1 >= IdleRoundLimit
                        THEN "final" ELSE "check"
    <2>2. driver' = Updated(place, driver.turn, driver.rounds + 1, n, driver.before)
      BY <1>a, <1>8 DEF Compare, DriverTyped, Updated
    <2>3. n \in Nat /\ place \in {"final", "check"}
      BY <1>a DEF DriverTyped
    <2> HIDE DEF n, place
    <2>4. DriverTyped' /\ driver'.pc \in {"final", "check"}
      BY <1>d, <2>2, <2>3, DriverUpdate DEF DriverPlace
    <2> QED
      BY <1>a, <2>1, <2>4 DEF RunsAtRest, DriverAt, At
  <1>9. CASE DriverCrash
    <2>1. driver' = DriverStart /\ runs' = [r \in Run |-> IdleRun]
      BY <1>9 DEF DriverCrash
    <2>2. DriverTyped' /\ driver'.pc = "start"
      BY <1>a, <2>1 DEF DriverStart, DriverTyped, DriverPlace
    <2> QED
      BY <2>1, <2>2 DEF RunsAtRest, At, IdleRun
  <1>10. CASE \/ DriverPassTime \/ UNCHANGED driverVars
              \/ \E t \in Task : ClientCancels(t) \/ \E lag \in Lags : DriverSubmits(t, lag)
    <2>1. UNCHANGED <<runs, driver>>
      BY <1>10 DEF DriverPassTime, PassTime, ClientCancels, Cancel, DriverSubmits, Submit,
                   agentVars, driverVars
    <2> QED
      BY <1>a, <2>1 DEF RunsAtRest, DriverAt, At, DriverTyped, RunOfTurn
  <1> QED
    BY <1>1, <1>2, <1>3, <1>4, <1>5, <1>6, <1>7, <1>8, <1>9, <1>10
       DEF DriverNext, DriverStep

(* The driver returns after a look at terminal tasks, and later steps do   *)
(* not submit.                                                             *)
LEMMA ReturnedStaysDone ==
    ASSUME DriverInv, [DriverNext]_driverVars, DriverAt("returned")'
    PROVE  AllTerminal'
  <1>1. CASE DriverAt("returned")
    <2>1. DriverPassTime \/ (\E t \in Task : ClientCancels(t)) \/ UNCHANGED driverVars
      BY <1>1 DEF DriverNext, DriverStep, StartNext, CheckRound, RoundsExhausted,
         TurnBegins, TurnContinues, TurnRaises, TurnEnds, Sweep, Compare, FinalCheck,
         DriverCrash, DriverSubmits, DriverAt
    <2>2. \A t \in Task : Kept(t) \/ Cancelled(t)
      <3>1. CASE DriverPassTime
        BY <3>1, TickKeepsTasks DEF DriverPassTime, PassTime, DriverInv, AgentInv
      <3>2. CASE \E t \in Task : ClientCancels(t)
        BY <3>2, StepOfCancellation DEF ClientCancels, Cancel, DriverInv, AgentInv
      <3>3. CASE UNCHANGED driverVars
        BY <3>3, SameTasksKept DEF driverVars
      <3> QED
        BY <2>1, <3>1, <3>2, <3>3
    <2>3. \A t \in Task : ~Enqueued(t)
      BY <2>2 DEF Kept, Cancelled, Enqueued
    <2> QED
      BY <1>1, <2>3, DriverStepIsAgentStep, TerminalStays DEF DriverInv, AgentInv
  <1>2. CASE ~DriverAt("returned")
    <2>1. AllTerminal /\ UNCHANGED vars
      <3>1. CheckRound \/ FinalCheck
        <4>1. ~\E lag \in Lags : StartNext(lag) \/ Sweep(lag)
          BY DEF StartNext, Sweep, DriverGoTo, DriverAt, DriverInv, DriverTyped
        <4>2. ~(RoundsExhausted \/ TurnBegins \/ TurnRaises \/ TurnEnds \/ Compare)
          BY DEF RoundsExhausted, TurnBegins, TurnRaises, TurnEnds, Compare, DriverGoTo,
                 DriverAt, DriverInv, DriverTyped
        <4>3. ~DriverCrash /\ driver' # driver
          BY <1>2 DEF DriverCrash, DriverStart, DriverAt
        <4> QED
          BY <4>1, <4>2, <4>3 DEF DriverNext, DriverStep, TurnContinues, DriverPassTime,
             ClientCancels, DriverSubmits, driverVars
      <3>2. driver = [driver EXCEPT !.pc = @]
        BY DEF DriverInv, DriverTyped
      <3> QED
        BY <3>1 DEF CheckRound, FinalCheck, DriverGoTo, DriverAt, DriverInv, DriverTyped
    <2> QED
      BY <2>1 DEF AllTerminal, Submitted, vars
  <1> QED
    BY <1>1, <1>2

-----------------------------------------------------------------------------
(* The driver's invariant. *)

(* The driver starts with all runs idle.                                   *)
LEMMA DriverInitInv == DriverInit => DriverInv
  <1> SUFFICES ASSUME DriverInit PROVE DriverInv
    OBVIOUS
  <1>1. AgentInv
    BY AgentInitInv DEF DriverInit, SlotInv
  <1>2. driver = DriverStart /\ \A r \in Run : At(r, "idle")
    BY DEF DriverInit, AgentInit, At, IdleRun
  <1>3. Len(Driven) \in Nat \ {0}
    BY DriverAssumption
  <1> QED
    BY <1>1, <1>2, <1>3 DEF DriverInv, DriverTyped, DriverStart, DriverPlace,
       RunsAtRest, DriverAt

(* Every step of driver, clients and time keeps the invariant.             *)
LEMMA DriverStepKeepsInv == DriverInv /\ [DriverNext]_driverVars => DriverInv'
  <1> SUFFICES ASSUME DriverInv, [DriverNext]_driverVars PROVE DriverInv'
    OBVIOUS
  <1>1. AgentInv'
    BY DriverStepIsAgentStep, EffectKeepsInv DEF DriverInv
  <1> QED
    BY <1>1, StepOfDriver, ReturnedStaysDone DEF DriverInv

(* The invariant holds in every behaviour of the driver.                   *)
THEOREM DriverInvariant == DriverSpec => []DriverInv
  BY DriverInitInv, DriverStepKeepsInv, PTL DEF DriverSpec

(* A driver that has returned leaves only terminal tasks behind, and no    *)
(* run of its agents under way: for any workers, tasks, limits, restarts,  *)
(* cancellations and retry delays.                                         *)
THEOREM ReturnsWhenDone == DriverSpec => []ReturnsOnlyWhenDone
  <1>1. DriverInv => ReturnsOnlyWhenDone
    BY DEF DriverInv, ReturnsOnlyWhenDone, RunsAtRest, DriverAt
  <1> QED
    BY <1>1, DriverInvariant, PTL

(* A driver lets one run of a worker go at a time, so what it drives to    *)
(* success has the result of the attempt that held the lease, also when it *)
(* was restarted while its predecessor's leases were in force.             *)
THEOREM DrivenResultsAreCurrent == DriverSpec => []ResultOfCurrentAttempt
  <1> DEFINE CurrentInv == DriverInv /\ HandsAreCurrent /\ ResultOfCurrentAttempt
  <1>1. DriverInit => CurrentInv
    BY DriverInitInv, AgentInitInv DEF DriverInit, SlotInv
  <1>2. CurrentInv /\ [DriverNext]_driverVars => CurrentInv'
    <2> SUFFICES ASSUME CurrentInv, [DriverNext]_driverVars PROVE CurrentInv'
      OBVIOUS
    <2>1. DriverInv' /\ AgentInv /\ AgentInv'
      BY DriverStepKeepsInv DEF DriverInv
    <2>2. AgentStep /\ OneSlot
      BY <2>1, DriverStepIsAgentStep, DriverAssumption DEF DriverInv, OneSlot
    <2> QED
      BY <2>1, <2>2, HandsStayCurrent, ResultsStayCurrent DEF AgentInv
  <1>3. CurrentInv => ResultOfCurrentAttempt
    OBVIOUS
  <1> QED
    BY <1>1, <1>2, <1>3, PTL DEF DriverSpec

(* A driven store is a store: all that is proved of it holds of the drive. *)
THEOREM DriverDrivesTheStore == DriverSpec => Spec
  <1>1. DriverInit => Init
    BY DEF DriverInit, AgentInit
  <1>2. DriverInv /\ [DriverNext]_driverVars => [Next]_vars
    BY DriverStepIsAgentStep DEF DriverInv
  <1> QED
    BY <1>1, <1>2, DriverInvariant, PTL DEF DriverSpec, Spec

-----------------------------------------------------------------------------
(***************************************************************************)
(* When the driver gives up.  The statement needs that a task which waits  *)
(* can be claimed at once: no retry delay (the default of WorkerAgent), no *)
(* claim with an older timestamp than the failure before it, and a scan    *)
(* that reads every row.  Without the first a driver gives up too early.   *)
(***************************************************************************)
WaitingIsClaimable ==
    RetryDelays \subseteq {0} /\ MaxLag = 0 /\ Cardinality(Task) <= ScanLimit

AllAvailable == \A t \in Task : tasks[t].available_in <= 0

(* The availability a row is given after a failure.                        *)
LEMMA FailureIsAvailable ==
    ASSUME WaitingIsClaimable, IInv, NEW t \in Task, NEW lag \in Lags, NEW d \in {0}
    PROVE  RowAfterFailure(t, d, lag).available_in = 0
  <1> DEFINE s == IF Retryable(t) THEN "RETRY_WAIT" ELSE "DEAD_LETTER"
             a == IF Retryable(t) THEN d - lag ELSE 0
  <1>1. RowAfterFailure(t, d, lag) =
          [tasks[t] EXCEPT !.state = s, !.available_in = a,
                           !.lease_owner = NoWorker, !.expires_in = 0]
    BY DEF RowAfterFailure
  <1>2. lag = 0 /\ a = 0
    BY DEF Lags, WaitingIsClaimable
  <1>3. tasks[t] \in TaskRow
    BY RowFacts
  <1> HIDE DEF s, a
  <1> QED
    BY <1>1, <1>2, <1>3 DEF TaskRow

(* No operation of the store makes a task wait.                            *)
LEMMA StaysAvailable ==
    ASSUME WaitingIsClaimable, IInv, [Next]_vars, AllAvailable
    PROVE  AllAvailable'
  <1> SUFFICES ASSUME NEW t \in Task
               PROVE  tasks'[t].available_in <= 0
    BY DEF AllAvailable
  <1>a. /\ tasks = [u \in Task |-> tasks[u]]
        /\ \A u \in Task : tasks[u] \in TaskRow
        /\ tasks[t].available_in <= 0
        /\ Lags = {0} /\ \A d \in RetryDelays : d = 0
    BY RowFacts DEF AllAvailable, Lags, WaitingIsClaimable
  <1>1. ASSUME UNCHANGED tasks
        PROVE  tasks'[t].available_in <= 0
    BY <1>1, <1>a
  <1>2. CASE Tick
    <2> DEFINE a == IF tasks[t].state \in Waiting
                    THEN CountDown(tasks[t].available_in) ELSE tasks[t].available_in
               e == IF tasks[t].state = "LEASED"
                    THEN CountDown(tasks[t].expires_in) ELSE tasks[t].expires_in
    <2>1. tasks'[t] = [tasks[t] EXCEPT !.available_in = a, !.expires_in = e]
      BY <1>2 DEF Tick
    <2>2. a <= 0
      BY <1>a DEF CountDown, TaskRow
    <2> HIDE DEF a, e
    <2> QED
      BY <1>a, <2>1, <2>2 DEF TaskRow
  <1>3. ASSUME NEW lag \in Lags
        PROVE  RecoveredTasks(lag)[t].available_in <= 0
    <2>1. \/ RecoveredTasks(lag)[t] = tasks[t]
          \/ RecoveredTasks(lag)[t] = RowAfterFailure(t, 0, lag)
      BY RecoveredRow
    <2> QED
      BY <1>a, <2>1, FailureIsAvailable
  <1>4. ASSUME NEW u \in Task, NEW lag \in Lags, submit_task(u, lag)
        PROVE  tasks'[t].available_in <= 0
    <2> DEFINE n == Cardinality({v \in Task : tasks[v].state # "absent"})
    <2>1. tasks' = [tasks EXCEPT ![u] =
             [tasks[u] EXCEPT !.state = "PENDING", !.available_in = -lag, !.created = n]]
      BY <1>4 DEF submit_task
    <2> HIDE DEF n
    <2>2. lag \in Int /\ lag = 0
      BY <1>a
    <2>3. -lag <= 0
      BY <2>2
    <2> QED
      BY <1>a, <2>1, <2>3 DEF TaskRow
  <1>5. ASSUME NEW u \in Task, NEW w \in Worker, NEW lag \in Lags,
               heartbeat_task(u, w, lag)
        PROVE  tasks'[t].available_in <= 0
    <2>1. tasks' = [tasks EXCEPT ![u] =
                      [tasks[u] EXCEPT !.expires_in = LeaseSeconds - lag]]
      BY <1>a, <1>5 DEF heartbeat_task
    <2> QED
      BY <1>a, <2>1 DEF TaskRow
  <1>6. ASSUME NEW u \in Task, NEW w \in Worker, NEW lag \in Lags,
               NEW d \in RetryDelays, fail_task(u, w, d, lag)
        PROVE  tasks'[t].available_in <= 0
    <2>1. tasks' = [tasks EXCEPT ![u] = RowAfterFailure(u, d, lag)] /\ d \in {0}
      BY <1>a, <1>6 DEF fail_task
    <2>2. RowAfterFailure(u, d, lag).available_in = 0
      BY <2>1, FailureIsAvailable
    <2> QED
      BY <1>a, <2>1, <2>2
  <1>7. ASSUME NEW u \in Task, cancel_task(u)
        PROVE  tasks'[t].available_in <= 0
    <2>1. tasks' = [tasks EXCEPT ![u] =
                [tasks[u] EXCEPT !.state = "CANCELLED", !.available_in = 0,
                                 !.lease_owner = NoWorker, !.expires_in = 0]]
      BY <1>7 DEF cancel_task
    <2> QED
      BY <1>a, <2>1 DEF TaskRow
  <1>8. ASSUME NEW u \in Task, NEW w \in Worker, NEW r, complete_task(u, w, r)
        PROVE  tasks'[t].available_in <= 0
    <2>1. tasks' = [tasks EXCEPT ![u] =
                [tasks[u] EXCEPT !.state = "SUCCEEDED", !.result = r,
                                 !.lease_owner = NoWorker, !.expires_in = 0]]
      BY <1>8 DEF complete_task
    <2> QED
      BY <1>a, <2>1 DEF TaskRow
  <1>9. ASSUME NEW lag \in Lags, NEW w \in Worker, ClaimRefused(w, lag)
        PROVE  tasks'[t].available_in <= 0
    <2>1. tasks' = RecoveredTasks(lag)
      BY <1>9 DEF ClaimRefused, ClaimFindsWorkerNotOnline, ClaimFindsWorkerStale,
                  ClaimFindsWorkerFull, ClaimFindsNothing, recover_expired_leases
    <2> QED
      BY <1>3, <2>1
  <1>10. ASSUME NEW lag \in Lags, NEW w \in Worker, NEW c \in Task, ClaimLeases(w, c, lag)
         PROVE  tasks'[t].available_in <= 0
    <2> DEFINE ts == RecoveredTasks(lag)
    <2>1. /\ tasks' = [ts EXCEPT ![c] = LeasedRow(ts[c], w, lag)]
          /\ ts = [u \in Task |-> ts[u]]
      BY <1>10 DEF ClaimLeases, RecoveredTasks
    <2>2. ts[c] \in TaskRow
      <3>1. Inv(RecoveredWorkers(lag), ts, RecoveredLetters(lag))
        BY RecoveryKeepsInv
      <3> HIDE DEF ts
      <3> QED
        BY <3>1 DEF Inv, TaskRowOK
    <2>3. ts[t].available_in <= 0
      BY <1>3
    <2> HIDE DEF ts
    <2>4. LeasedRow(ts[c], w, lag).available_in = 0
      BY <2>2 DEF LeasedRow, TaskRow
    <2> QED
      BY <2>1, <2>3, <2>4
  <1>11. CASE \/ \E lag \in Lags, w \in Worker :
                   \/ \E c \in Concurrency[w] : register_worker(w, c, lag)
                   \/ heartbeat_worker(w, lag)
              \/ \E lag \in Lags : expire_stale_workers(lag)
              \/ \E w \in Worker, s \in WorkerState \ {"absent"} : set_worker_state(w, s)
              \/ UNCHANGED vars
    <2>1. tasks' = tasks
      BY <1>11 DEF register_worker, heartbeat_worker, expire_stale_workers,
                   set_worker_state, vars
    <2> QED
      BY <2>1, <1>1
  <1>12. ASSUME NEW lag \in Lags, recover_expired_leases(lag)
         PROVE  tasks'[t].available_in <= 0
    BY <1>3, <1>12 DEF recover_expired_leases
  <1> QED
    BY <1>2, <1>4, <1>5, <1>6, <1>7, <1>8, <1>9, <1>10, <1>11, <1>12 DEF Next

(* A scan as long as the table reads every row that is ready.              *)
LEMMA ScanReadsAll ==
    ASSUME WaitingIsClaimable, NEW ts, NEW lag, \A u \in Task : ts[u].created \in Nat
    PROVE  Scanned(ts, lag) = Ready(ts, lag)
  <1> SUFFICES ASSUME NEW t \in Ready(ts, lag)
               PROVE  Cardinality({u \in Ready(ts, lag) : Before(ts, u, t)}) < ScanLimit
    BY DEF Scanned, Ready
  <1> DEFINE S == {u \in Ready(ts, lag) : Before(ts, u, t)}
  <1>1. t \in Task /\ Priority[t] \in Int
    BY StoreAssumption DEF Ready
  <1>2. S \subseteq Task \ {t}
    <2>1. ~Before(ts, t, t)
      BY <1>1 DEF Before
    <2> QED
      BY <2>1 DEF Ready
  <1>3. /\ IsFiniteSet(Task) /\ Cardinality(Task) \in Nat
        /\ IsFiniteSet(Task \ {t}) /\ Cardinality(Task \ {t}) = Cardinality(Task) - 1
    BY <1>1, StoreAssumption, FS_CardinalityType, FS_RemoveElement
  <1>4. Cardinality(S) <= Cardinality(Task \ {t}) /\ Cardinality(S) \in Nat
    BY <1>2, <1>3, FS_Subset, FS_CardinalityType
  <1> QED
    BY <1>3, <1>4, StoreAssumption DEF WaitingIsClaimable

NothingFor(w) ==
    \A t \in Task : tasks[t].state \in Waiting => Capability[t] \notin Capabilities[w]

NothingLeased == \A t \in Task : tasks[t].state # "LEASED"

(* An ONLINE worker with a recent heartbeat, when nothing is leased, is    *)
(* refused only for want of a task it could run.                           *)
LEMMA RefusalMeansNothing ==
    ASSUME WaitingIsClaimable, IInv, AllAvailable, NothingLeased,
           NEW w \in Worker, NEW lag \in Lags, ClaimRefused(w, lag),
           workers[w].state = "ONLINE", workers[w].max_concurrency >= 1,
           workers[w].heartbeat_age <= HeartbeatTimeout
    PROVE  /\ NothingFor(w) /\ \A t \in Task : Kept(t)
           /\ \A v \in Worker : workers'[v] = workers[v]
  <1>1. /\ tasks = [t \in Task |-> tasks[t]] /\ \A t \in Task : tasks[t] \in TaskRow
        /\ workers = [v \in Worker |-> workers[v]]
        /\ \A v \in Worker : workers[v] \in WorkerRow
    BY DEF IInv, Inv, TaskRowOK, WorkerRowOK
  <1>2. lag \in Int /\ lag = 0
    BY DEF Lags, WaitingIsClaimable
  <1>3. ~Stale(w, lag)
    BY <1>1, <1>2, StoreAssumption DEF Stale, WorkerRow
  <1>4. \A t \in Task : ~Expired(t, lag)
    BY DEF Expired, NothingLeased
  <1>5. RecoveredTasks(lag) = tasks
    BY <1>1, <1>4 DEF RecoveredTasks
  <1>6. RecoveredWorkers(lag) = workers
    <2> SUFFICES ASSUME NEW v \in Worker
                 PROVE  [workers[v] EXCEPT !.current_load =
                           Decremented(@, Cardinality(ExpiredOf(v, lag)))] = workers[v]
      BY <1>1 DEF RecoveredWorkers
    <2>1. ExpiredOf(v, lag) = {}
      BY <1>4 DEF ExpiredOf, Leases
    <2>2. Cardinality(ExpiredOf(v, lag)) = 0
      BY <2>1, FS_EmptySet
    <2>3. Decremented(workers[v].current_load, Cardinality(ExpiredOf(v, lag)))
            = workers[v].current_load
      BY <1>1, <2>2 DEF Decremented, WorkerRow
    <2> QED
      BY <1>1, <2>3 DEF WorkerRow
  <1>7. HasCapacity(w, lag)
    <2>1. LeaseSet(tasks, w) = {}
      BY DEF LeaseSet, RowLeasedBy, NothingLeased
    <2>2. workers[w].current_load = 0
      BY <2>1, FS_EmptySet DEF IInv, Inv
    <2> QED
      BY <1>1, <1>6, <2>2 DEF HasCapacity, WorkerRow
  <1>8. ClaimFindsNothing(w, lag)
    BY <1>3, <1>7 DEF ClaimRefused, ClaimFindsWorkerNotOnline, ClaimFindsWorkerStale,
                      ClaimFindsWorkerFull
  <1>9. NothingFor(w)
    <2> SUFFICES ASSUME NEW t \in Task, tasks[t].state \in Waiting,
                        Capability[t] \in Capabilities[w]
                 PROVE  FALSE
      BY DEF NothingFor
    <2>1. -lag >= 0
      BY <1>2
    <2>2. t \in Ready(tasks, lag)
      BY <1>1, <1>2, <2>1 DEF Ready, AllAvailable, TaskRow
    <2>3. Scanned(tasks, lag) = Ready(tasks, lag)
      BY <1>1, ScanReadsAll DEF TaskRow
    <2>4. t \in Candidates(tasks, w, lag)
      BY <2>2, <2>3 DEF Candidates
    <2> QED
      BY <1>5, <1>8, <2>4 DEF ClaimFindsNothing
  <1>10. tasks' = tasks /\ workers' = workers
    BY <1>5, <1>6, <1>8 DEF ClaimFindsNothing, recover_expired_leases
  <1> QED
    BY <1>9, <1>10, SameTasksKept

(***************************************************************************)
(* The driver's agents always find their worker ONLINE with a free slot    *)
(* and a recent heartbeat when they come to claim.                         *)
(***************************************************************************)
Claiming(r) == At(r, "recover") \/ At(r, "claim")

WorkersServe ==
    /\ \A w \in Worker :
          /\ workers[w].state \in {"absent", "ONLINE"}
          /\ workers[w].state = "ONLINE" => workers[w].max_concurrency >= 1
    /\ \A r \in Run : Claiming(r) =>
          /\ workers[WorkerOf(r)].state = "ONLINE"
          /\ workers[WorkerOf(r)].heartbeat_age <= HeartbeatTimeout

SameService(w) ==
    /\ workers'[w].state = workers[w].state
    /\ workers'[w].max_concurrency = workers[w].max_concurrency
    /\ workers'[w].heartbeat_age = workers[w].heartbeat_age

(* Operations that change the load only.                                   *)
LEMMA LoadKeepsService ==
    ASSUME IInv, NEW w \in Worker,
           \/ \E lag \in Lags : workers' = RecoveredWorkers(lag)
           \/ \E lag \in Lags, v \in Worker, t \in Task : ClaimLeases(v, t, lag)
           \/ \E v \in Worker : workers' = ReleaseLoad(workers, v)
           \/ workers' = workers
    PROVE  SameService(w)
  <1>1. workers = [v \in Worker |-> workers[v]] /\ \A v \in Worker : workers[v] \in WorkerRow
    BY DEF IInv, Inv, WorkerRowOK
  <1>2. ASSUME NEW lag \in Lags
        PROVE  /\ RecoveredWorkers(lag) = [v \in Worker |-> RecoveredWorkers(lag)[v]]
               /\ RecoveredWorkers(lag)[w].state = workers[w].state
               /\ RecoveredWorkers(lag)[w].max_concurrency = workers[w].max_concurrency
               /\ RecoveredWorkers(lag)[w].heartbeat_age = workers[w].heartbeat_age
               /\ \E n : RecoveredWorkers(lag)[w] = [workers[w] EXCEPT !.current_load = n]
    <2> DEFINE n == Decremented(workers[w].current_load, Cardinality(ExpiredOf(w, lag)))
    <2>1. /\ RecoveredWorkers(lag) = [v \in Worker |-> RecoveredWorkers(lag)[v]]
          /\ RecoveredWorkers(lag)[w] = [workers[w] EXCEPT !.current_load = n]
      BY DEF RecoveredWorkers
    <2> HIDE DEF n
    <2> QED
      BY <1>1, <2>1 DEF WorkerRow
  <1>3. CASE \E lag \in Lags : workers' = RecoveredWorkers(lag)
    BY <1>2, <1>3 DEF SameService
  <1>4. ASSUME NEW lag \in Lags, NEW v \in Worker, NEW t \in Task, ClaimLeases(v, t, lag)
        PROVE  SameService(w)
    <2> DEFINE ws == RecoveredWorkers(lag)
    <2>1. workers' = [ws EXCEPT ![v] = [ws[v] EXCEPT !.current_load = ws[v].current_load + 1]]
      BY <1>4 DEF ClaimLeases
    <2>2. /\ ws = [u \in Worker |-> ws[u]]
          /\ ws[w].state = workers[w].state
          /\ ws[w].max_concurrency = workers[w].max_concurrency
          /\ ws[w].heartbeat_age = workers[w].heartbeat_age
          /\ \E n : ws[w] = [workers[w] EXCEPT !.current_load = n]
      BY <1>2
    <2> HIDE DEF ws
    <2> QED
      BY <1>1, <2>1, <2>2 DEF SameService, WorkerRow
  <1>5. ASSUME NEW v \in Worker, workers' = ReleaseLoad(workers, v)
        PROVE  SameService(w)
    <2> DEFINE n == Decremented(workers[v].current_load, 1)
    <2>1. workers' = [workers EXCEPT ![v] = [workers[v] EXCEPT !.current_load = n]]
      BY <1>5 DEF ReleaseLoad
    <2> HIDE DEF n
    <2> QED
      BY <1>1, <2>1 DEF SameService, WorkerRow
  <1> QED
    BY <1>3, <1>4, <1>5 DEF SameService

(* Workers that serve go on doing so when only loads change and no run     *)
(* comes to the point of claiming.                                         *)
LEMMA ServiceGoesOn ==
    ASSUME WorkersServe, \A w \in Worker : SameService(w),
           \A r \in Run : Claiming(r)' => Claiming(r)
    PROVE  WorkersServe'
  BY RunHasWorker DEF WorkersServe, SameService

(* Registration and heartbeat bring a worker ONLINE.                       *)
LEMMA ServiceBegins ==
    ASSUME WaitingIsClaimable, IInv, WorkersServe, NEW w \in Worker, NEW lag \in Lags,
           \/ \E c \in Concurrency[w] : register_worker(w, c, lag)
           \/ heartbeat_worker(w, lag),
           \A r \in Run : Claiming(r)' => Claiming(r) \/ WorkerOf(r) = w
    PROVE  WorkersServe'
  <1>1. workers = [v \in Worker |-> workers[v]] /\ \A v \in Worker : workers[v] \in WorkerRow
    BY DEF IInv, Inv, WorkerRowOK
  <1>2. lag = 0 /\ HeartbeatTimeout \in Nat
    BY StoreAssumption DEF Lags, WaitingIsClaimable
  <1>3. /\ \A v \in Worker \ {w} : workers'[v] = workers[v]
        /\ workers'[w].state = "ONLINE" /\ workers'[w].heartbeat_age = 0
        /\ workers'[w].max_concurrency >= 1
    <2>1. ASSUME NEW c \in Concurrency[w], register_worker(w, c, lag)
          PROVE  /\ \A v \in Worker \ {w} : workers'[v] = workers[v]
                 /\ workers'[w].state = "ONLINE" /\ workers'[w].heartbeat_age = 0
                 /\ workers'[w].max_concurrency >= 1
      <3>1. workers' = [workers EXCEPT ![w] =
                [workers[w] EXCEPT !.state = "ONLINE", !.max_concurrency = c,
                                   !.heartbeat_age = lag]]
        BY <2>1 DEF register_worker
      <3>2. c >= 1
        BY StoreAssumption
      <3> QED
        BY <1>1, <1>2, <3>1, <3>2 DEF WorkerRow
    <2>2. CASE heartbeat_worker(w, lag)
      <3>1. workers' = [workers EXCEPT ![w] =
                [workers[w] EXCEPT !.state = StateAfterHeartbeat(w), !.heartbeat_age = lag]]
        BY <2>2 DEF heartbeat_worker
      <3>2. workers[w].state = "ONLINE" /\ StateAfterHeartbeat(w) = "ONLINE"
        <4>1. workers[w].state # "absent" /\ workers[w].state \in {"absent", "ONLINE"}
          BY <2>2 DEF heartbeat_worker, Registered, WorkersServe
        <4> QED
          BY <4>1 DEF StateAfterHeartbeat
      <3>3. workers[w].max_concurrency >= 1
        BY <3>2 DEF WorkersServe
      <3> QED
        BY <1>1, <1>2, <3>1, <3>2, <3>3 DEF WorkerRow
    <2> QED
      BY <2>1, <2>2
  <1>4. ASSUME NEW r \in Run, Claiming(r)'
        PROVE  /\ workers'[WorkerOf(r)].state = "ONLINE"
               /\ workers'[WorkerOf(r)].heartbeat_age <= HeartbeatTimeout
    BY <1>2, <1>3, <1>4, RunHasWorker DEF WorkersServe
  <1> QED
    BY <1>3, <1>4 DEF WorkersServe

(* A step of a run leaves the workers in service.                          *)
LEMMA RunKeepsService ==
    ASSUME WaitingIsClaimable, IInv, RunsTyped, WorkersServe,
           NEW r \in Run, RunStep(r)
    PROVE  WorkersServe'
  <1>a. /\ \A q \in Run \ {r} : runs'[q] = runs[q]
        /\ runs = [q \in Run |-> runs[q]] /\ runs[r] \in RunState
        /\ WorkerOf(r) \in Worker
    BY RunStepIsLocal, RunHasWorker DEF RunsTyped
  <1>b. /\ \A q \in Run \ {r} : Claiming(q)' => Claiming(q)
        /\ \A pc : GoTo(r, pc) => runs'[r].pc = pc
        /\ Return(r) => ~Claiming(r)'
    BY <1>a DEF Claiming, At, GoTo, Return, IdleRun, RunState
  <1>1. ASSUME NEW lag \in Lags, StartAgent(r, lag) \/ Heartbeat(r, lag)
        PROVE  WorkersServe'
    <2>1. \/ \E c \in Concurrency[WorkerOf(r)] : register_worker(WorkerOf(r), c, lag)
          \/ heartbeat_worker(WorkerOf(r), lag)
      BY <1>1 DEF StartAgent, Heartbeat
    <2> QED
      BY <1>a, <1>b, <2>1, ServiceBegins
  <1>2. ASSUME NEW lag \in Lags, Recover(r, lag)
        PROVE  WorkersServe'
    <2>1. workers' = RecoveredWorkers(lag) /\ Claiming(r)
      BY <1>2 DEF Recover, recover_expired_leases, Claiming
    <2> QED
      BY <1>b, <2>1, LoadKeepsService, ServiceGoesOn
  <1>3. ASSUME NEW lag \in Lags, ClaimReturnsNone(r, lag)
        PROVE  WorkersServe'
    <2>1. Claiming(r) /\ Return(r) /\ ClaimRefused(WorkerOf(r), lag)
      BY <1>3 DEF ClaimReturnsNone, Claiming
    <2>2. ~Stale(WorkerOf(r), lag)
      <3>1. /\ workers[WorkerOf(r)].heartbeat_age <= HeartbeatTimeout
            /\ workers[WorkerOf(r)].heartbeat_age \in Nat
        BY <1>a, <2>1 DEF WorkersServe, IInv, Inv, WorkerRowOK, WorkerRow
      <3> QED
        BY <3>1, StoreAssumption DEF Stale, Lags
    <2>3. workers' = RecoveredWorkers(lag)
      BY <2>1, <2>2 DEF ClaimRefused, ClaimFindsWorkerNotOnline, ClaimFindsWorkerStale,
                        ClaimFindsWorkerFull, ClaimFindsNothing, recover_expired_leases
    <2> QED
      BY <1>b, <2>1, <2>3, LoadKeepsService, ServiceGoesOn
  <1>4. ASSUME NEW lag \in Lags, ClaimReturnsTask(r, lag)
        PROVE  WorkersServe'
    <2>1. Claiming(r) /\ \E t \in Task : ClaimLeases(WorkerOf(r), t, lag)
      BY <1>4 DEF ClaimReturnsTask, Claiming
    <2> QED
      BY <1>a, <1>b, <2>1, LoadKeepsService, ServiceGoesOn
  <1>5. CASE HandlerReturns(r) \/ HandlerRaises(r) \/ CompleteRaises(r)
    <2>1. workers' = workers /\ (GoTo(r, "complete") \/ GoTo(r, "fail"))
      BY <1>5 DEF HandlerReturns, HandlerRaises, CompleteRaises, vars
    <2>2. ~Claiming(r)'
      BY <1>b, <2>1 DEF Claiming, At
    <2> QED
      BY <1>b, <2>1, <2>2, LoadKeepsService, ServiceGoesOn
  <1>6. CASE Complete(r) \/ FailRaises(r) \/ \E lag \in Lags : Fail(r, lag)
    <2>1. /\ Return(r)
          /\ workers' = ReleaseLoad(workers, WorkerOf(r)) \/ workers' = workers
      BY <1>6 DEF Complete, complete_task, Fail, fail_task, FailRaises, vars
    <2> QED
      BY <1>a, <1>b, <2>1, LoadKeepsService, ServiceGoesOn
  <1> QED
    BY <1>1, <1>2, <1>3, <1>4, <1>5, <1>6 DEF RunStep, RunProceeds

(* Every step of the drive leaves the workers in service.                  *)
LEMMA DriverKeepsService ==
    ASSUME WaitingIsClaimable, DriverInv, WorkersServe, [DriverNext]_driverVars
    PROVE  WorkersServe'
  <1>a. IInv /\ RunsTyped /\ DriverTyped /\ RunOfTurn \in Run
    BY TurnIsRun DEF DriverInv, AgentInv
  <1>1. CASE TurnBegins \/ TurnContinues \/ TurnRaises
    <2>1. RunStep(RunOfTurn)
      BY <1>1 DEF TurnBegins, TurnContinues, TurnRaises, RunStep, RunProceeds
    <2> QED
      BY <1>a, <2>1, RunKeepsService
  <1>2. ASSUME NEW lag \in Lags, StartNext(lag)
        PROVE  WorkersServe'
    <2>1. /\ \/ \E c \in Concurrency[Driven[driver.turn]] :
                    register_worker(Driven[driver.turn], c, lag)
             \/ workers' = workers
          /\ \A r \in Run : Claiming(r)' => Claiming(r)
      BY <1>2 DEF StartNext, vars, agentVars, Claiming, At
    <2> QED
      BY <1>a, <2>1, TurnIsRun, ServiceBegins, LoadKeepsService, ServiceGoesOn
  <1>3. ASSUME NEW lag \in Lags, Sweep(lag)
        PROVE  WorkersServe'
    <2>1. workers' = RecoveredWorkers(lag) /\ \A r \in Run : Claiming(r)' => Claiming(r)
      BY <1>3 DEF Sweep, recover_expired_leases, agentVars, Claiming, At
    <2> QED
      BY <1>a, <2>1, LoadKeepsService, ServiceGoesOn
  <1>4. ASSUME NEW t \in Task, ClientCancels(t)
        PROVE  WorkersServe'
    <2>1. /\ workers' = workers \/ workers' = ReleaseLoad(workers, tasks[t].lease_owner)
          /\ tasks[t].state = "LEASED" \/ workers' = workers
          /\ \A r \in Run : Claiming(r)' => Claiming(r)
      BY <1>4 DEF ClientCancels, Cancel, cancel_task, agentVars, Claiming, At
    <2>2. tasks[t].state = "LEASED" => tasks[t].lease_owner \in Worker
      BY <1>a, RowFacts DEF TaskRow
    <2> QED
      BY <1>a, <2>1, <2>2, LoadKeepsService, ServiceGoesOn
  <1>5. CASE DriverPassTime
    <2>1. /\ Prompt /\ \A r \in Run : Claiming(r)' => Claiming(r)
          /\ workers' = [w \in Worker |->
                [workers[w] EXCEPT !.heartbeat_age =
                   IF Registered(w) /\ workers[w].heartbeat_age <= HeartbeatTimeout + MaxLag
                   THEN workers[w].heartbeat_age + 1 ELSE workers[w].heartbeat_age]]
      BY <1>5 DEF DriverPassTime, PassTime, Tick, agentVars, Claiming, At
    <2>2. ASSUME NEW w \in Worker
          PROVE  /\ workers[w].heartbeat_age \in Nat
                 /\ workers'[w].state = workers[w].state
                 /\ workers'[w].max_concurrency = workers[w].max_concurrency
                 /\ \/ workers'[w].heartbeat_age = workers[w].heartbeat_age
                    \/ workers'[w].heartbeat_age = workers[w].heartbeat_age + 1
      <3> DEFINE n == IF Registered(w) /\ workers[w].heartbeat_age <= HeartbeatTimeout + MaxLag
                      THEN workers[w].heartbeat_age + 1 ELSE workers[w].heartbeat_age
      <3>1. /\ workers'[w] = [workers[w] EXCEPT !.heartbeat_age = n]
            /\ n = workers[w].heartbeat_age \/ n = workers[w].heartbeat_age + 1
        BY <2>1
      <3>2. workers[w] \in WorkerRow
        BY <1>a DEF IInv, Inv, WorkerRowOK
      <3> HIDE DEF n
      <3> QED
        BY <3>1, <3>2 DEF WorkerRow
    <2>3. ASSUME NEW r \in Run, Claiming(r)'
          PROVE  /\ workers'[WorkerOf(r)].state = "ONLINE"
                 /\ workers'[WorkerOf(r)].heartbeat_age <= HeartbeatTimeout
      <3>1. /\ workers[WorkerOf(r)].heartbeat_age < HeartbeatTimeout
            /\ workers[WorkerOf(r)].state = "ONLINE"
        BY <2>1, <2>3 DEF Prompt, Claiming, WorkersServe
      <3> QED
        BY <2>2, <3>1, RunHasWorker, StoreAssumption
    <2> QED
      BY <2>2, <2>3 DEF WorkersServe
  <1>6. CASE \/ CheckRound \/ RoundsExhausted \/ TurnEnds \/ Compare \/ FinalCheck
             \/ UNCHANGED driverVars
             \/ \E t \in Task, lag \in Lags : DriverSubmits(t, lag)
    <2>1. workers' = workers /\ \A r \in Run : Claiming(r)' => Claiming(r)
      BY <1>6 DEF CheckRound, RoundsExhausted, TurnEnds, Compare, FinalCheck, driverVars,
                  DriverSubmits, Submit, submit_task, vars, agentVars, Claiming, At
    <2> QED
      BY <1>a, <2>1, LoadKeepsService, ServiceGoesOn
  <1>7. CASE DriverCrash
    <2>1. workers' = workers /\ \A r \in Run : Claiming(r)' => Claiming(r)
      BY <1>7 DEF DriverCrash, vars, Claiming, At, IdleRun
    <2> QED
      BY <1>a, <2>1, LoadKeepsService, ServiceGoesOn
  <1> QED
    BY <1>1, <1>2, <1>3, <1>4, <1>5, <1>6, <1>7 DEF DriverNext, DriverStep

-----------------------------------------------------------------------------
(***************************************************************************)
(* A round.  A task only goes forward in its attempts, and within one      *)
(* attempt in its state, so a snapshot that matches the one before the     *)
(* round was matched all through the round.                                *)
(***************************************************************************)
Rank(state) == IF state \in Terminal THEN 2 ELSE IF state = "RETRY_WAIT" THEN 1 ELSE 0

NotBefore(t) ==
    LET old == driver.before[t] IN
    \/ tasks[t].attempts > old[2]
    \/ /\ tasks[t].attempts = old[2]
       /\ tasks[t].state = old[1] \/ Rank(tasks[t].state) > Rank(old[1])

BeforeIsPast ==
    /\ driver.before \in [Submitted -> TaskState \X Nat]
    /\ \A t \in Submitted : NotBefore(t)

(* How a step moves a task that was submitted.                             *)
LEMMA TasksGoForward ==
    ASSUME IInv, IInv', AgentStep, \A u \in Task : ~Enqueued(u), NEW t \in Task
    PROVE  /\ tasks'[t].state = "absent" <=> tasks[t].state = "absent"
           /\ \/ Kept(t)
              \/ tasks'[t].attempts > tasks[t].attempts
              \/ /\ tasks'[t].attempts = tasks[t].attempts
                 /\ Rank(tasks'[t].state) > Rank(tasks[t].state)
  <1>1. Unfinished(t) \/ Claimed(t) \/ Completed(t)
    BY DEF AgentStep, Quiet, Submits, Dies, Takes, Records, Abandons, Unfinished
  <1>2. tasks[t].attempts \in Nat /\ tasks'[t].attempts \in Nat
    BY RowFacts DEF IInv, Inv, TaskRowOK, TaskRow
  <1>3. CASE Kept(t)
    BY <1>3 DEF Kept
  <1>4. CASE Claimed(t)
    BY <1>2, <1>4 DEF Claimed, Waiting
  <1>5. CASE Returned(t) \/ Completed(t) \/ Cancelled(t)
    <2>1. /\ tasks[t].state \in {"LEASED", "PENDING", "RETRY_WAIT"}
          /\ tasks'[t].state \in Terminal \cup {"RETRY_WAIT"}
          /\ tasks'[t].state = "RETRY_WAIT" => tasks[t].state = "LEASED"
          /\ tasks'[t].attempts = tasks[t].attempts
      BY <1>5 DEF Returned, Completed, Cancelled, Terminal
    <2>2. /\ Rank("LEASED") = 0 /\ Rank("PENDING") = 0 /\ Rank("RETRY_WAIT") = 1
          /\ \A s \in Terminal : Rank(s) = 2
      BY DEF Rank, Terminal
    <2>3. Rank(tasks'[t].state) > Rank(tasks[t].state)
      BY <2>1, <2>2
    <2> QED
      BY <2>1, <2>3 DEF Terminal
  <1> QED
    BY <1>1, <1>3, <1>4, <1>5 DEF Unfinished

(* If nothing has changed after a step of the round, nothing had changed   *)
(* before it and the step did not touch a task.                            *)
LEMMA RoundGoesForward ==
    ASSUME IInv, IInv', AgentStep, \A u \in Task : ~Enqueued(u),
           BeforeIsPast, driver'.before = driver.before
    PROVE  /\ BeforeIsPast'
           /\ NoChange' => NoChange /\ \A t \in Task : Kept(t)
  <1>a. \A t \in Task :
          /\ tasks'[t].state = "absent" <=> tasks[t].state = "absent"
          /\ \/ Kept(t)
             \/ tasks'[t].attempts > tasks[t].attempts
             \/ /\ tasks'[t].attempts = tasks[t].attempts
                /\ Rank(tasks'[t].state) > Rank(tasks[t].state)
    BY TasksGoForward
  <1>b. \A t \in Task : /\ tasks[t].attempts \in Nat /\ tasks'[t].attempts \in Nat
                       /\ tasks[t].state \in TaskState /\ tasks'[t].state \in TaskState
    BY RowFacts DEF IInv, Inv, TaskRowOK, TaskRow
  <1>c. \A s : Rank(s) \in {0, 1, 2}
    BY DEF Rank
  <1>1. Submitted' = Submitted
    BY <1>a DEF Submitted
  <1>2. ASSUME NEW t \in Submitted
        PROVE  /\ driver.before[t] \in TaskState \X Nat
               /\ t \in Task /\ NotBefore(t)
    BY <1>2 DEF BeforeIsPast, Submitted
  <1>3. ASSUME NEW t \in Submitted
        PROVE  NotBefore(t)'
    <2> DEFINE old == driver.before[t]
    <2>1. /\ old[2] \in Nat /\ driver'.before[t] = old
          /\ \/ tasks[t].attempts > old[2]
             \/ /\ tasks[t].attempts = old[2]
                /\ tasks[t].state = old[1] \/ Rank(tasks[t].state) > Rank(old[1])
      BY <1>2 DEF NotBefore
    <2> HIDE DEF old
    <2>2. \/ tasks'[t].attempts > old[2]
          \/ /\ tasks'[t].attempts = old[2]
             /\ tasks'[t].state = old[1] \/ Rank(tasks'[t].state) > Rank(old[1])
      <3>1. CASE Kept(t)
        BY <2>1, <3>1 DEF Kept
      <3>2. CASE tasks'[t].attempts > tasks[t].attempts
        BY <1>2, <1>b, <2>1, <3>2
      <3>3. CASE /\ tasks'[t].attempts = tasks[t].attempts
                 /\ Rank(tasks'[t].state) > Rank(tasks[t].state)
        BY <1>c, <2>1, <3>3
      <3> QED
        BY <1>2, <1>a, <3>1, <3>2, <3>3
    <2> QED
      BY <2>1, <2>2 DEF NotBefore
  <1>4. BeforeIsPast'
    BY <1>1, <1>3 DEF BeforeIsPast
  <1>5. ASSUME NoChange'
        PROVE  NoChange /\ \A t \in Task : Kept(t)
    <2>1. ASSUME NEW t \in Submitted
          PROVE  Kept(t) /\ driver.before[t] = <<tasks[t].state, tasks[t].attempts>>
      <3> DEFINE old == driver.before[t]
      <3>1. old = <<tasks'[t].state, tasks'[t].attempts>>
        BY <1>1, <1>5 DEF NoChange, Snapshot
      <3>2. /\ old[1] = tasks'[t].state /\ old[2] = tasks'[t].attempts
            /\ \/ tasks[t].attempts > old[2]
               \/ /\ tasks[t].attempts = old[2]
                  /\ tasks[t].state = old[1] \/ Rank(tasks[t].state) > Rank(old[1])
        BY <1>2, <3>1 DEF NotBefore
      <3>3. Kept(t)
        BY <1>2, <1>a, <1>b, <1>c, <3>2
      <3> QED
        BY <3>1, <3>3 DEF Kept
    <2>2. ASSUME NEW t \in Task \ Submitted
          PROVE  Kept(t)
      <3>1. Unfinished(t) \/ Claimed(t) \/ Completed(t)
        BY DEF AgentStep, Quiet, Submits, Dies, Takes, Records, Abandons, Unfinished
      <3>2. tasks[t].state = "absent"
        BY <2>2 DEF Submitted
      <3> QED
        BY <3>1, <3>2 DEF Unfinished, Returned, Cancelled, Claimed, Completed, Waiting
    <2>3. Snapshot = driver.before
      BY <2>1 DEF Snapshot, BeforeIsPast
    <2> QED
      BY <2>1, <2>2, <2>3 DEF NoChange
  <1> QED
    BY <1>4, <1>5

InRound == {"turn", "awaiting", "sweep", "compare"}

(* the turn of the i-th worker in this round is over                       *)
Served(i) ==
    \/ i < driver.turn
    \/ driver.pc \in {"sweep", "compare"}
    \/ i = driver.turn /\ DriverAt("awaiting") /\ At(RunOfTurn, "idle")

RoundInv ==
    driver.pc \in InRound =>
        /\ BeforeIsPast
        /\ crashes = 0 /\ NoChange =>
              /\ \A i \in 1..Len(Driven) : Served(i) => NothingFor(Driven[i])
              /\ \A r \in Run : ~InHand(r)

LimitInv ==
    driver.pc \in InRound \cup {"start", "check"} => driver.idle_rounds < IdleRoundLimit

GaveUpInv ==
    /\ driver.pc \in {"final", "stalled"} /\ driver.idle_rounds >= IdleRoundLimit
    /\ crashes = 0
    => ~WorkLeft

StallInv ==
    DriverInv /\ AllAvailable /\ WorkersServe /\ RoundInv /\ LimitInv /\ GaveUpInv

(* The steps that begin a round or go on with it.                          *)
LEMMA StepsOfRound ==
    ASSUME DriverTyped, [DriverNext]_driverVars, driver'.pc \in InRound
    PROVE  \/ CheckRound /\ driver'.pc = "turn" /\ driver'.turn = 1 /\ driver'.before = Snapshot
           \/ /\ driver.pc \in InRound
              /\ driver'.before = driver.before
              /\ \/ TurnBegins /\ driver'.pc = "awaiting" /\ driver'.turn = driver.turn
                 \/ TurnContinues
                 \/ TurnEnds /\ driver'.pc = "turn" /\ driver'.turn = driver.turn + 1
                 \/ TurnEnds /\ driver'.pc = "sweep" /\ driver.turn = Len(Driven)
                 \/ \E lag \in Lags : Sweep(lag)
                 \/ DriverPassTime \/ (\E t \in Task : ClientCancels(t))
                 \/ UNCHANGED driverVars
  <1>a. /\ driver = Updated(driver.pc, driver.turn, driver.rounds, driver.idle_rounds,
                            driver.before)
        /\ driver.turn \in 1..Len(Driven) /\ Len(Driven) \in Nat
    BY DriverAssumption DEF DriverTyped, Updated
  <1>b. ASSUME NEW pc, DriverGoTo(pc)
        PROVE  /\ driver'.pc = pc /\ driver'.turn = driver.turn
               /\ driver'.before = driver.before
    BY <1>a, <1>b DEF DriverGoTo, Updated
  <1>1. ~\E lag \in Lags : StartNext(lag)
    <2> SUFFICES ASSUME NEW lag \in Lags, StartNext(lag)
                 PROVE  driver'.pc \in {"start", "check"}
      BY DEF InRound
    <2>1. driver.pc = "start"
      BY DEF StartNext, DriverAt
    <2>2. \/ driver' = [driver EXCEPT !.turn = driver.turn + 1]
          \/ driver' = [driver EXCEPT !.pc = "check", !.turn = 1]
      BY DEF StartNext
    <2> QED
      BY <1>a, <2>1, <2>2 DEF Updated
  <1>2. CASE CheckRound
    <2>1. CASE AllTerminal
      <3>1. driver' = [driver EXCEPT !.pc = "returned"]
        BY <1>2, <2>1 DEF CheckRound
      <3> QED
        BY <1>a, <3>1 DEF Updated, InRound
    <2>2. CASE ~AllTerminal
      <3>1. driver' = [driver EXCEPT !.pc = "turn", !.turn = 1, !.before = Snapshot]
        BY <1>2, <2>2 DEF CheckRound
      <3> QED
        BY <1>2, <1>a, <3>1 DEF Updated
    <2> QED
      BY <2>1, <2>2
  <1>3. ~RoundsExhausted /\ ~FinalCheck /\ ~TurnRaises
    BY <1>b DEF RoundsExhausted, FinalCheck, TurnRaises, InRound
  <1>4. ~Compare
    <2> SUFFICES ASSUME Compare PROVE driver'.pc \in {"final", "check"}
      BY DEF InRound
    <2> DEFINE n == IF NoChange THEN driver.idle_rounds + 1 ELSE 0
               place == IF NoChange /\ driver.idle_rounds + 1 >= IdleRoundLimit
                        THEN "final" ELSE "check"
    <2>1. driver' = [driver EXCEPT !.idle_rounds = n, !.rounds = driver.rounds + 1, !.pc = place]
      BY DEF Compare
    <2>2. place \in {"final", "check"}
      OBVIOUS
    <2> HIDE DEF n, place
    <2> QED
      BY <1>a, <2>1, <2>2 DEF Updated
  <1>5. ~DriverCrash
    BY DEF DriverCrash, DriverStart, InRound
  <1>6. ~\E t \in Task, lag \in Lags : DriverSubmits(t, lag)
    BY DEF DriverSubmits, DriverAt, InRound
  <1>7. CASE TurnBegins
    BY <1>7, <1>b DEF TurnBegins, DriverAt, InRound
  <1>8. CASE TurnEnds
    <2>1. DriverAt("awaiting")
      BY <1>8 DEF TurnEnds
    <2>2. CASE driver.turn < Len(Driven)
      <3>1. driver' = [driver EXCEPT !.pc = "turn", !.turn = driver.turn + 1]
        BY <1>8, <2>2 DEF TurnEnds
      <3> QED
        BY <1>8, <1>a, <2>1, <3>1 DEF Updated, DriverAt, InRound
    <2>3. CASE ~(driver.turn < Len(Driven))
      <3>1. driver' = [driver EXCEPT !.pc = "sweep"]
        BY <1>8, <2>3 DEF TurnEnds
      <3>2. driver.turn = Len(Driven)
        BY <1>a, <2>3
      <3> QED
        BY <1>8, <1>a, <2>1, <3>1, <3>2 DEF Updated, DriverAt, InRound
    <2> QED
      BY <2>2, <2>3
  <1>9. CASE \E lag \in Lags : Sweep(lag)
    BY <1>9, <1>b DEF Sweep, DriverAt, InRound
  <1>10. CASE TurnContinues \/ DriverPassTime \/ (\E t \in Task : ClientCancels(t))
              \/ UNCHANGED driverVars
    <2>1. driver' = driver
      BY <1>10 DEF TurnContinues, DriverPassTime, ClientCancels, driverVars
    <2> QED
      BY <1>10, <2>1
  <1> QED
    BY <1>1, <1>2, <1>3, <1>4, <1>5, <1>6, <1>7, <1>8, <1>9, <1>10
       DEF DriverNext, DriverStep

(* What the steps of a round do to tasks and hands.                        *)
LEMMA EffectInRound ==
    ASSUME DriverInv,
           \/ TurnBegins \/ TurnContinues \/ TurnEnds
           \/ \E lag \in Lags : Sweep(lag)
           \/ DriverPassTime \/ (\E t \in Task : ClientCancels(t))
           \/ UNCHANGED driverVars
    PROVE  RunEffect(RunOfTurn)
  <1>a. IInv /\ RunsTyped /\ RunOfTurn \in Run
    BY TurnIsRun DEF DriverInv, AgentInv
  <1>1. CASE TurnBegins \/ TurnContinues
    <2>1. RunStep(RunOfTurn)
      BY <1>1 DEF TurnBegins, TurnContinues, RunStep, RunProceeds
    <2> QED
      BY <1>a, <2>1, StepOfRun
  <1>2. ASSUME UNCHANGED <<runs, crashes>>, \A t \in Task : Unfinished(t)
        PROVE  RunEffect(RunOfTurn)
    BY <1>2 DEF RunEffect, Quiet, SameHands, InHand
  <1>3. CASE TurnEnds \/ UNCHANGED driverVars
    <2>1. UNCHANGED <<runs, crashes, tasks>>
      BY <1>3 DEF TurnEnds, vars, agentVars, driverVars
    <2> QED
      BY <1>2, <2>1, SameTasksKept DEF Unfinished
  <1>4. CASE \E lag \in Lags : Sweep(lag)
    BY <1>2, <1>4, <1>a, StepOfSweep DEF Sweep, recover_expired_leases, agentVars, Unfinished
  <1>5. CASE DriverPassTime
    BY <1>2, <1>5, <1>a, TickKeepsTasks DEF DriverPassTime, PassTime, agentVars, Unfinished
  <1>6. CASE \E t \in Task : ClientCancels(t)
    BY <1>2, <1>6, <1>a, StepOfCancellation DEF ClientCancels, Cancel, agentVars, Unfinished
  <1> QED
    BY <1>1, <1>3, <1>4, <1>5, <1>6

(* In a round without change a run that comes back to its caller was       *)
(* refused, because nothing waits that its worker could run.               *)
LEMMA IdleTurnMeansNothing ==
    ASSUME WaitingIsClaimable, DriverInv, AllAvailable, WorkersServe, crashes = 0,
           \A r \in Run : ~InHand(r),
           TurnContinues, At(RunOfTurn, "idle")'
    PROVE  NothingFor(Driven[driver.turn])
  <1>a. /\ IInv /\ RunsTyped /\ LeasedTaskIsHandled
        /\ RunOfTurn \in Run /\ WorkerOf(RunOfTurn) = Driven[driver.turn]
        /\ Driven[driver.turn] \in Worker
        /\ runs = [r \in Run |-> runs[r]] /\ runs[RunOfTurn] \in RunState
    BY TurnIsRun DEF DriverInv, AgentInv, RunsTyped
  <1>1. ~At(RunOfTurn, "idle") /\ RunProceeds(RunOfTurn) /\ runs'[RunOfTurn].pc = "idle"
    <2>1. RunOfTurn' = RunOfTurn
      BY DEF TurnContinues, RunOfTurn
    <2> QED
      BY <2>1 DEF TurnContinues, At
  <1>2. \A pc : GoTo(RunOfTurn, pc) => pc = "idle"
    BY <1>1, <1>a DEF GoTo, RunState
  <1>3. PICK lag \in Lags : ClaimReturnsNone(RunOfTurn, lag)
    <2>1. ~\E lag \in Lags : \/ StartAgent(RunOfTurn, lag) \/ Heartbeat(RunOfTurn, lag)
                             \/ Recover(RunOfTurn, lag)
      BY <1>2 DEF StartAgent, Heartbeat, Recover
    <2>2. ~(HandlerReturns(RunOfTurn) \/ HandlerRaises(RunOfTurn) \/ CompleteRaises(RunOfTurn))
      BY <1>2 DEF HandlerReturns, HandlerRaises, CompleteRaises
    <2>3. ~(Complete(RunOfTurn) \/ \E lag \in Lags : Fail(RunOfTurn, lag))
      BY <1>a DEF Complete, Fail, At, InHand, Handling
    <2>4. ~\E lag \in Lags : ClaimReturnsTask(RunOfTurn, lag)
      <3> SUFFICES ASSUME NEW t \in Task,
                          runs' = [runs EXCEPT ![RunOfTurn] =
                            [pc |-> "handler", task |-> t, attempt |-> tasks'[t].attempts]]
                   PROVE  FALSE
        BY DEF ClaimReturnsTask
      <3> QED
        BY <1>1, <1>a
    <2> QED
      BY <1>1, <2>1, <2>2, <2>3, <2>4 DEF RunProceeds
  <1>4. ClaimRefused(Driven[driver.turn], lag) /\ Claiming(RunOfTurn)
    BY <1>3, <1>a DEF ClaimReturnsNone, Claiming
  <1>5. NothingLeased
    BY <1>a DEF LeasedTaskIsHandled, NothingLeased, InHand
  <1>6. /\ workers[Driven[driver.turn]].state = "ONLINE"
        /\ workers[Driven[driver.turn]].max_concurrency >= 1
        /\ workers[Driven[driver.turn]].heartbeat_age <= HeartbeatTimeout
    BY <1>4, <1>a DEF WorkersServe
  <1> QED
    BY <1>4, <1>5, <1>6, <1>a, RefusalMeansNothing

(* Kept tasks leave a worker without work without work.                    *)
LEMMA NothingStays ==
    ASSUME NEW w \in Worker, NothingFor(w), \A t \in Task : Kept(t)
    PROVE  NothingFor(w)'
  BY DEF NothingFor, Kept

(* Every step keeps what a round knows.                                    *)
LEMMA RoundKeepsInv ==
    ASSUME WaitingIsClaimable, StallInv, [DriverNext]_driverVars, DriverInv'
    PROVE  RoundInv'
  <1> DEFINE Quietly == /\ \A i \in 1..Len(Driven) : Served(i) => NothingFor(Driven[i])
                        /\ \A r \in Run : ~InHand(r)
  <1> SUFFICES ASSUME driver'.pc \in InRound
               PROVE  BeforeIsPast' /\ (crashes' = 0 /\ NoChange' => Quietly')
    BY DEF RoundInv
  <1>a. /\ DriverInv /\ DriverTyped /\ DriverTyped' /\ IInv /\ IInv' /\ RunsTyped
        /\ RunOfTurn \in Run /\ Driven \in Seq(Worker) /\ Len(Driven) \in Nat
    BY TurnIsRun, DriverAssumption DEF StallInv, DriverInv, AgentInv
  <1>b. \A i \in 1..Len(Driven) : Driven[i] \in Worker
    BY <1>a
  <1>1. CASE CheckRound /\ driver'.pc = "turn" /\ driver'.turn = 1 /\ driver'.before = Snapshot
    <2>1. /\ tasks' = tasks /\ runs' = runs /\ ~DriverAt("awaiting")
      BY <1>1 DEF CheckRound, vars, agentVars, DriverAt
    <2>2. Submitted' = Submitted
      BY <2>1 DEF Submitted
    <2>3. BeforeIsPast'
      <3>1. ASSUME NEW t \in Submitted
            PROVE  /\ tasks[t].state \in TaskState /\ tasks[t].attempts \in Nat
                   /\ driver'.before[t] = <<tasks[t].state, tasks[t].attempts>>
        BY <1>1, <1>a, <3>1, RowFacts DEF Submitted, Snapshot
      <3>2. driver'.before = [t \in Submitted |-> driver'.before[t]]
        BY <1>1 DEF Snapshot
      <3>3. driver'.before \in [Submitted -> TaskState \X Nat]
        <4>1. \A t \in Submitted : driver'.before[t] \in TaskState \X Nat
          <5>1. \A st \in TaskState, n \in Nat : <<st, n>> \in TaskState \X Nat
            OBVIOUS
          <5> QED
            BY <3>1, <5>1
        <4> QED
          BY <3>2, <4>1
      <3>4. \A t \in Submitted : NotBefore(t)'
        BY <2>1, <3>1 DEF NotBefore
      <3> QED
        BY <2>2, <3>3, <3>4 DEF BeforeIsPast
    <2>4. \A r \in Run : ~InHand(r)'
      BY <1>a, <2>1 DEF DriverInv, RunsAtRest, At, InHand, Handling
    <2>5. \A i \in 1..Len(Driven) : ~Served(i)'
      BY <1>1 DEF Served, DriverAt
    <2> QED
      BY <2>3, <2>4, <2>5
  <1>2. CASE /\ driver.pc \in InRound
             /\ driver'.before = driver.before
             /\ \/ TurnBegins /\ driver'.pc = "awaiting" /\ driver'.turn = driver.turn
                \/ TurnContinues
                \/ TurnEnds /\ driver'.pc = "turn" /\ driver'.turn = driver.turn + 1
                \/ TurnEnds /\ driver'.pc = "sweep" /\ driver.turn = Len(Driven)
                \/ \E lag \in Lags : Sweep(lag)
                \/ DriverPassTime \/ (\E t \in Task : ClientCancels(t))
                \/ UNCHANGED driverVars
    <2>1. RunEffect(RunOfTurn)
      BY <1>2, <1>a, EffectInRound
    <2>2. AgentStep /\ \A t \in Task : ~Enqueued(t)
      <3>1. AgentStep
        BY <1>a, <2>1 DEF RunEffect, AgentStep
      <3>2. \A t \in Task : Unfinished(t) \/ Claimed(t) \/ Completed(t)
        BY <2>1 DEF RunEffect, Quiet, Takes, Records, Abandons, Unfinished
      <3> QED
        BY <3>1, <3>2 DEF Unfinished, Kept, Returned, Cancelled, Claimed, Completed, Enqueued
    <2>3. BeforeIsPast /\ (crashes = 0 /\ NoChange => Quietly)
      BY <1>2 DEF StallInv, RoundInv
    <2>4. BeforeIsPast' /\ (NoChange' => NoChange /\ \A t \in Task : Kept(t))
      BY <1>2, <1>a, <2>2, <2>3, RoundGoesForward
    <2>5. ASSUME crashes' = 0, NoChange'
          PROVE  Quietly'
      <3>1. crashes = 0
        BY <1>a, <2>1, <2>5 DEF RunEffect, Quiet, Takes, Records, Abandons
      <3>2. Quietly /\ \A t \in Task : Kept(t)
        BY <2>3, <2>4, <2>5, <3>1
      <3>3. \A r \in Run : ~InHand(r)'
        <4>1. ~Takes(RunOfTurn)
          <5> SUFFICES ASSUME NEW t \in Task, Claimed(t) PROVE FALSE
            BY DEF Takes
          <5> QED
            BY <1>a, <3>2, RowFacts DEF Claimed, Kept
        <4>2. ~Records(RunOfTurn) /\ ~Abandons(RunOfTurn)
          BY <1>a, <3>2 DEF Records, Abandons
        <4> QED
          BY <2>1, <3>2, <4>1, <4>2 DEF RunEffect, Quiet, SameHands
      <3>4. ASSUME NEW i \in 1..Len(Driven), Served(i)'
            PROVE  Served(i) \/ (i = driver.turn /\ NothingFor(Driven[i]))
        <4>1. i \in Int /\ driver.turn \in Int
          BY <1>a DEF DriverTyped
        <4>2. CASE TurnBegins /\ driver'.pc = "awaiting" /\ driver'.turn = driver.turn
          <5>1. ~At(RunOfTurn, "idle")'
            <6>1. RunOfTurn' = RunOfTurn
              BY <4>2 DEF RunOfTurn
            <6>2. runs'[RunOfTurn].pc = "recover"
              BY <4>2, <1>a DEF TurnBegins, Heartbeat, GoTo, RunsTyped, RunState
            <6> QED
              BY <6>1, <6>2 DEF At
          <5> QED
            BY <3>4, <4>2, <5>1 DEF Served
        <4>3. CASE TurnContinues
          <5>1. driver' = driver
            BY <4>3 DEF TurnContinues
          <5>2. CASE At(RunOfTurn, "idle")'
            <6>1. NothingFor(Driven[driver.turn])
              BY <1>a, <3>1, <3>2, <4>3, <5>2, IdleTurnMeansNothing DEF StallInv
            <6> QED
              BY <3>4, <5>1, <6>1 DEF Served
          <5>3. CASE ~At(RunOfTurn, "idle")'
            BY <3>4, <5>1, <5>3 DEF Served
          <5> QED
            BY <5>2, <5>3
        <4>4. CASE TurnEnds /\ driver'.pc = "turn" /\ driver'.turn = driver.turn + 1
          <5>1. i < driver.turn + 1
            BY <3>4, <4>4 DEF Served, DriverAt
          <5>2. i < driver.turn \/ i = driver.turn
            BY <4>1, <5>1
          <5> QED
            BY <4>4, <5>2 DEF Served, TurnEnds
        <4>5. CASE TurnEnds /\ driver'.pc = "sweep" /\ driver.turn = Len(Driven)
          <5>1. i < driver.turn \/ i = driver.turn
            BY <4>1, <4>5
          <5> QED
            BY <4>5, <5>1 DEF Served, TurnEnds
        <4>6. CASE \E lag \in Lags : Sweep(lag)
          BY <4>6 DEF Sweep, DriverAt, Served
        <4>7. CASE DriverPassTime \/ (\E t \in Task : ClientCancels(t)) \/ UNCHANGED driverVars
          <5>1. driver' = driver /\ runs' = runs
            BY <4>7 DEF DriverPassTime, PassTime, ClientCancels, Cancel, driverVars, agentVars
          <5> QED
            BY <3>4, <5>1 DEF Served, DriverAt, At, RunOfTurn
        <4> QED
          BY <1>2, <4>2, <4>3, <4>4, <4>5, <4>6, <4>7
      <3>5. ASSUME NEW i \in 1..Len(Driven), Served(i)'
            PROVE  NothingFor(Driven[i])'
        <4>1. NothingFor(Driven[i])
          BY <3>2, <3>4, <3>5
        <4> QED
          BY <1>b, <3>2, <4>1, NothingStays
      <3> QED
        BY <3>3, <3>5
    <2> QED
      BY <2>4, <2>5
  <1> QED
    BY <1>1, <1>2, <1>a, StepsOfRound

(* Every step keeps what the counter of idle rounds says.                  *)
LEMMA DriverKeepsLimits ==
    ASSUME StallInv, [DriverNext]_driverVars
    PROVE  LimitInv' /\ GaveUpInv'
  <1>a. /\ DriverInv /\ DriverTyped /\ IInv /\ LeasedTaskIsHandled
        /\ driver = Updated(driver.pc, driver.turn, driver.rounds, driver.idle_rounds,
                            driver.before)
        /\ driver.idle_rounds \in Nat /\ IdleRoundLimit \in Nat \ {0}
        /\ driver.turn \in 1..Len(Driven)
    BY DriverAssumption DEF StallInv, DriverInv, AgentInv, DriverTyped, Updated
  <1>b. LimitInv /\ GaveUpInv /\ RoundInv
    BY DEF StallInv
  <1>c. ASSUME NEW pc, DriverGoTo(pc)
        PROVE  driver'.pc = pc /\ driver'.idle_rounds = driver.idle_rounds
    BY <1>a, <1>c DEF DriverGoTo, Updated
  <1>1. ASSUME driver'.idle_rounds = driver.idle_rounds,
               driver.pc \in InRound \cup {"start", "check"},
               driver'.pc \in DriverPlace
        PROVE  LimitInv' /\ GaveUpInv'
    BY <1>1, <1>a, <1>b DEF LimitInv, GaveUpInv
  <1>2. CASE \E lag \in Lags : StartNext(lag)
    <2>1. /\ driver.pc = "start"
          /\ \/ driver' = [driver EXCEPT !.turn = driver.turn + 1]
             \/ driver' = [driver EXCEPT !.pc = "check", !.turn = 1]
      BY <1>2 DEF StartNext, DriverAt
    <2>2. driver'.idle_rounds = driver.idle_rounds /\ driver'.pc \in {"start", "check"}
      BY <1>a, <2>1 DEF Updated
    <2> QED
      BY <1>1, <2>1, <2>2 DEF DriverPlace
  <1>3. CASE CheckRound
    <2>1. /\ driver.pc = "check"
          /\ \/ driver' = [driver EXCEPT !.pc = "returned"]
             \/ driver' = [driver EXCEPT !.pc = "turn", !.turn = 1, !.before = Snapshot]
      BY <1>3 DEF CheckRound, DriverAt
    <2>2. driver'.idle_rounds = driver.idle_rounds /\ driver'.pc \in {"returned", "turn"}
      BY <1>a, <2>1 DEF Updated
    <2> QED
      BY <1>1, <2>1, <2>2 DEF DriverPlace
  <1>4. CASE \/ RoundsExhausted \/ TurnBegins \/ TurnRaises
             \/ \E lag \in Lags : Sweep(lag)
    <2>1. /\ driver.pc \in InRound \cup {"check"}
          /\ \E pc \in {"final", "awaiting", "raised", "compare"} : DriverGoTo(pc)
      BY <1>4 DEF RoundsExhausted, TurnBegins, TurnRaises, Sweep, DriverAt, InRound
    <2>2. /\ driver'.idle_rounds = driver.idle_rounds
          /\ driver'.pc \in {"final", "awaiting", "raised", "compare"}
      BY <1>c, <2>1
    <2> QED
      BY <1>1, <2>1, <2>2 DEF DriverPlace
  <1>5. CASE TurnEnds
    <2>1. /\ driver.pc = "awaiting"
          /\ \/ driver' = [driver EXCEPT !.pc = "turn", !.turn = driver.turn + 1]
             \/ driver' = [driver EXCEPT !.pc = "sweep"]
      BY <1>5 DEF TurnEnds, DriverAt
    <2>2. driver'.idle_rounds = driver.idle_rounds /\ driver'.pc \in {"turn", "sweep"}
      BY <1>a, <2>1 DEF Updated
    <2> QED
      BY <1>1, <2>1, <2>2 DEF DriverPlace, InRound
  <1>6. CASE TurnContinues
    <2>1. driver' = driver /\ driver.pc = "awaiting"
      BY <1>6 DEF TurnContinues, DriverAt
    <2> QED
      BY <1>1, <2>1 DEF DriverPlace, InRound
  <1>7. CASE Compare
    <2> DEFINE n == IF NoChange THEN driver.idle_rounds + 1 ELSE 0
               place == IF NoChange /\ driver.idle_rounds + 1 >= IdleRoundLimit
                        THEN "final" ELSE "check"
    <2>1. /\ driver' = [driver EXCEPT !.idle_rounds = n, !.rounds = driver.rounds + 1,
                                      !.pc = place]
          /\ driver.pc = "compare" /\ UNCHANGED <<tasks, crashes>>
      BY <1>7 DEF Compare, DriverAt, vars, agentVars
    <2>2. /\ n \in Nat
          /\ place = "check" => n < IdleRoundLimit
          /\ place \in {"final", "check"}
      BY <1>a
    <2>3. place = "final" => NoChange
      OBVIOUS
    <2> HIDE DEF n, place
    <2>4. driver'.idle_rounds = n /\ driver'.pc = place
      BY <1>a, <2>1 DEF Updated
    <2>5. ASSUME NoChange, crashes = 0
          PROVE  ~WorkLeft
      <3>1. \A i \in 1..Len(Driven) : NothingFor(Driven[i])
        BY <1>b, <2>1, <2>5 DEF RoundInv, InRound, Served
      <3>2. NothingLeased
        BY <1>a, <1>b, <2>1, <2>5 DEF RoundInv, InRound, LeasedTaskIsHandled, NothingLeased,
                                      InHand
      <3> QED
        BY <3>1, <3>2 DEF WorkLeft, NothingFor, NothingLeased
    <2>6. WorkLeft' <=> WorkLeft
      BY <2>1 DEF WorkLeft
    <2>7. LimitInv'
      BY <2>2, <2>4 DEF LimitInv, InRound
    <2>8. GaveUpInv'
      <3> SUFFICES ASSUME driver'.pc \in {"final", "stalled"}, crashes' = 0
                   PROVE  ~WorkLeft'
        BY DEF GaveUpInv
      <3>1. NoChange /\ crashes = 0
        BY <2>1, <2>2, <2>3, <2>4
      <3> QED
        BY <2>5, <2>6, <3>1
    <2> QED
      BY <2>7, <2>8
  <1>8. CASE FinalCheck
    <2>1. /\ driver.pc = "final" /\ UNCHANGED <<tasks, crashes>>
          /\ \E pc \in {"returned", "stalled"} : DriverGoTo(pc)
      BY <1>8 DEF FinalCheck, DriverAt, vars, agentVars
    <2>2. driver'.idle_rounds = driver.idle_rounds /\ driver'.pc \in {"returned", "stalled"}
      BY <1>c, <2>1
    <2>3. WorkLeft' <=> WorkLeft
      BY <2>1 DEF WorkLeft
    <2> QED
      BY <1>b, <2>1, <2>2, <2>3 DEF LimitInv, GaveUpInv, InRound
  <1>9. CASE DriverCrash
    <2>1. driver'.pc = "start" /\ driver'.idle_rounds = 0
      BY <1>9 DEF DriverCrash, DriverStart
    <2> QED
      BY <1>a, <2>1 DEF LimitInv, GaveUpInv
  <1>10. CASE \E t \in Task, lag \in Lags : DriverSubmits(t, lag)
    <2>1. driver' = driver /\ driver.pc = "start"
      BY <1>10 DEF DriverSubmits, DriverAt
    <2> QED
      BY <1>1, <2>1 DEF DriverPlace
  <1>11. CASE DriverPassTime \/ (\E t \in Task : ClientCancels(t)) \/ UNCHANGED driverVars
    <2>1. driver' = driver /\ crashes' = crashes
      BY <1>11 DEF DriverPassTime, PassTime, ClientCancels, Cancel, driverVars, agentVars
    <2>2. \A t \in Task : Kept(t) \/ Cancelled(t)
      BY <1>11, <1>a, TickKeepsTasks, StepOfCancellation, SameTasksKept
         DEF DriverPassTime, PassTime, ClientCancels, Cancel, driverVars
    <2>3. WorkLeft' => WorkLeft
      BY <2>2 DEF WorkLeft, Kept, Cancelled, Waiting
    <2> QED
      BY <1>b, <2>1, <2>3 DEF LimitInv, GaveUpInv
  <1> QED
    BY <1>2, <1>3, <1>4, <1>5, <1>6, <1>7, <1>8, <1>9, <1>10, <1>11
       DEF DriverNext, DriverStep

(* The driver starts with nothing counted and nobody registered.           *)
LEMMA StallInitInv == DriverInit => StallInv
  <1> SUFFICES ASSUME DriverInit PROVE StallInv
    OBVIOUS
  <1>1. DriverInv
    BY DriverInitInv
  <1>2. AllAvailable
    BY DEF DriverInit, AgentInit, Init, AllAvailable, NoTaskRow
  <1>3. WorkersServe
    BY DEF DriverInit, AgentInit, Init, WorkersServe, NoWorkerRow, Claiming, At, IdleRun
  <1>4. driver.pc = "start" /\ driver.idle_rounds = 0
    BY DEF DriverInit, DriverStart
  <1>5. RoundInv /\ LimitInv /\ GaveUpInv
    BY <1>4, DriverAssumption DEF RoundInv, LimitInv, GaveUpInv, InRound
  <1> QED
    BY <1>1, <1>2, <1>3, <1>5 DEF StallInv

(* When every waiting task can be claimed at once, a driver that was not   *)
(* restarted and gives up for idleness leaves no unfinished task that any  *)
(* of its workers could be given.                                          *)
THEOREM StallsOnlyWithoutWork ==
    ASSUME WaitingIsClaimable
    PROVE  DriverSpec => []StallMeansNoProgress
  <1>1. StallInv /\ [DriverNext]_driverVars => StallInv'
    <2> SUFFICES ASSUME StallInv, [DriverNext]_driverVars PROVE StallInv'
      OBVIOUS
    <2>1. DriverInv /\ WorkersServe /\ AllAvailable /\ IInv
      BY DEF StallInv, DriverInv, AgentInv
    <2>2. DriverInv' /\ [Next]_vars
      BY <2>1, DriverStepKeepsInv, DriverStepIsAgentStep DEF DriverInv
    <2>3. AllAvailable' /\ WorkersServe'
      BY <2>1, <2>2, StaysAvailable, DriverKeepsService
    <2> QED
      BY <2>2, <2>3, RoundKeepsInv, DriverKeepsLimits DEF StallInv
  <1>2. StallInv => StallMeansNoProgress
    BY DEF StallInv, GaveUpInv, StallMeansNoProgress, DriverAt
  <1> QED
    BY <1>1, <1>2, StallInitInv, PTL DEF DriverSpec
=============================================================================
