------------------------- MODULE WorkerAgentsProofs -------------------------
(***************************************************************************)
(* Proofs about WorkerAgents, for every set of workers and tasks, any      *)
(* number of concurrent runs and crashes and all constants of the store.   *)
(*                                                                         *)
(* An agent's step is a step of the store, so the store's invariant and    *)
(* its lemmas on what an operation does to a task are used as they are.    *)
(* The lemma StepOfAgents says once what a step does to the tasks and to   *)
(* the hands they are in; the invariants follow from it.                   *)
(***************************************************************************)
EXTENDS WorkerAgents, ExecutionFabricStepProofs

RunPlace == {"idle", "heartbeat", "recover", "claim"} \cup Handling

RunState == [pc : RunPlace, task : Task \cup {"none"}, attempt : Nat]

InHand(r) == runs[r].pc \in Handling

RunsTyped ==
    /\ runs \in [Run -> RunState]
    /\ \A r \in Run : InHand(r) => runs[r].task \in Task /\ runs[r].attempt >= 1
    /\ crashes \in Nat

AgentInv ==
    /\ IInv
    /\ RunsTyped
    /\ AttemptRunsOnce
    /\ LeasedTaskIsHandled

(* With one run per worker, a run whose worker has its task on lease is    *)
(* executing the attempt of that lease.                                    *)
OneSlot == \A i, j \in Slots : i = j

HandsAreCurrent ==
    \A r \in Run : InHand(r) /\ LeasedBy(runs[r].task, WorkerOf(r)) =>
        runs[r].attempt = tasks[runs[r].task].attempts

SlotInv == AgentInv /\ HandsAreCurrent /\ ResultOfCurrentAttempt

-----------------------------------------------------------------------------
(* What a step of the agents may be. *)

Unfinished(t) == Kept(t) \/ Returned(t) \/ Cancelled(t)

(* the run keeps what it has in hand, if anything                          *)
SameHands(r) ==
    /\ InHand(r)' <=> InHand(r)
    /\ InHand(r) => /\ runs'[r].task = runs[r].task
                    /\ runs'[r].attempt = runs[r].attempt

OthersSame(r) == \A q \in Run \ {r} : SameHands(q)

(* no hand changes, and no task is submitted, claimed or succeeds          *)
Quiet ==
    /\ \A t \in Task : Unfinished(t)
    /\ \A r \in Run : SameHands(r)
    /\ crashes' = crashes

(* a client submits a task                                                 *)
Submits ==
    /\ \E t \in Task : Enqueued(t) /\ \A u \in Task \ {t} : Kept(u)
    /\ \A r \in Run : SameHands(r)
    /\ crashes' = crashes

(* the run claims a task                                                   *)
Takes(r) ==
    /\ ~InHand(r) /\ InHand(r)' /\ OthersSame(r)
    /\ \E t \in Task :
          /\ Claimed(t) /\ tasks'[t].lease_owner = WorkerOf(r)
          /\ \A u \in Task \ {t} : Kept(u) \/ Returned(u)
          /\ runs'[r].task = t /\ runs'[r].attempt = tasks'[t].attempts
    /\ crashes' = crashes

(* the run records the outcome of its task                                 *)
Records(r) ==
    /\ InHand(r) /\ ~InHand(r)' /\ OthersSame(r)
    /\ LeasedBy(runs[r].task, WorkerOf(r))
    /\ \/ Completed(runs[r].task) /\ tasks'[runs[r].task].result = runs[r].attempt
       \/ Returned(runs[r].task)
    /\ \A u \in Task \ {runs[r].task} : Kept(u)
    /\ crashes' = crashes

(* the run gives up a task that is not its worker's any more               *)
Abandons(r) ==
    /\ InHand(r) /\ ~InHand(r)' /\ OthersSame(r)
    /\ ~LeasedBy(runs[r].task, WorkerOf(r))
    /\ \A t \in Task : Kept(t)
    /\ crashes' = crashes

(* a process dies with all its runs                                        *)
Dies ==
    /\ \A r \in Run : SameHands(r) \/ ~InHand(r)'
    /\ \A t \in Task : Kept(t)
    /\ crashes' = crashes + 1

RunEffect(r) == Quiet \/ Takes(r) \/ Records(r) \/ Abandons(r)

AgentStep ==
    \/ Quiet \/ Submits \/ Dies
    \/ \E r \in Run : Takes(r) \/ Records(r) \/ Abandons(r)

(* A run that goes from one place to another.                              *)
LEMMA GoToEffect ==
    ASSUME RunsTyped, NEW r \in Run, NEW pc \in RunPlace, GoTo(r, pc),
           crashes' = crashes,
           pc \in Handling <=> InHand(r)
    PROVE  RunsTyped' /\ \A q \in Run : SameHands(q)
  <1>1. /\ runs' \in [Run -> RunState]
        /\ \A q \in Run \ {r} : runs'[q] = runs[q]
        /\ runs'[r].pc = pc /\ runs'[r].task = runs[r].task
        /\ runs'[r].attempt = runs[r].attempt
    BY DEF RunsTyped, RunState, GoTo
  <1> QED
    BY <1>1 DEF RunsTyped, SameHands, InHand

(* A run that returns to its caller.                                       *)
LEMMA ReturnEffect ==
    ASSUME RunsTyped, NEW r \in Run, Return(r), crashes' = crashes
    PROVE  /\ RunsTyped' /\ OthersSame(r) /\ ~InHand(r)'
           /\ ~InHand(r) => SameHands(r)
  <1>1. /\ runs' \in [Run -> RunState]
        /\ \A q \in Run \ {r} : runs'[q] = runs[q]
        /\ runs'[r].pc = "idle"
    BY DEF RunsTyped, RunState, RunPlace, Return, IdleRun
  <1> QED
    BY <1>1 DEF RunsTyped, OthersSame, SameHands, InHand, Handling

(* Every run belongs to a worker.                                          *)
LEMMA RunHasWorker == \A r \in Run : WorkerOf(r) \in Worker
  BY DEF Run, WorkerOf

(* Every step of the agents is a step of the store: the attempt a handler  *)
(* completes is one the store has counted.                                 *)
LEMMA AgentStepIsStoreStep ==
    ASSUME IInv, RunsTyped, AttemptRunsOnce, [AgentNext]_allVars
    PROVE  [Next]_vars
  <1>1. ASSUME NEW r \in Run, Complete(r)
        PROVE  Next
    <2>1. /\ runs[r].task \in Task
          /\ runs[r].attempt \in 1..MaxAttempts[runs[r].task]
      <3>1. /\ InHand(r) /\ runs[r].task \in Task /\ runs[r].attempt >= 1
            /\ runs[r].attempt \in Nat
        BY <1>1 DEF Complete, At, InHand, Handling, RunsTyped, RunState
      <3>2. runs[r].attempt <= tasks[runs[r].task].attempts
        BY <3>1 DEF AttemptRunsOnce, InHand
      <3>3. /\ tasks[runs[r].task].attempts \in 1..MaxAttempts[runs[r].task]
            /\ MaxAttempts[runs[r].task] \in Nat
        BY <1>1, <3>1, RowFacts DEF Complete, complete_task, LeasedBy
      <3> QED
        BY <3>1, <3>2, <3>3
    <2> QED
      BY <1>1, <2>1, RunHasWorker DEF Complete, Next
  <1>2. ASSUME NEW r \in Run, NEW lag \in Lags, StartAgent(r, lag)
        PROVE  Next
    BY <1>2, RunHasWorker DEF StartAgent, Next
  <1>3. ASSUME NEW r \in Run, NEW lag \in Lags, Heartbeat(r, lag)
        PROVE  Next
    BY <1>3, RunHasWorker DEF Heartbeat, Next
  <1>4. ASSUME NEW r \in Run, NEW lag \in Lags, Recover(r, lag)
        PROVE  Next
    BY <1>4, RunHasWorker DEF Recover, Next
  <1>5. ASSUME NEW r \in Run, NEW lag \in Lags, ClaimReturnsNone(r, lag)
        PROVE  Next
    BY <1>5, RunHasWorker DEF ClaimReturnsNone, Next
  <1>6. ASSUME NEW r \in Run, NEW lag \in Lags, ClaimReturnsTask(r, lag)
        PROVE  Next
    BY <1>6, RunHasWorker DEF ClaimReturnsTask, Next
  <1>7. ASSUME NEW r \in Run, NEW lag \in Lags, Fail(r, lag)
        PROVE  Next
    <2>1. runs[r].task \in Task
      BY <1>7 DEF Fail, At, InHand, Handling, RunsTyped
    <2> QED
      BY <1>7, <2>1, RunHasWorker DEF Fail, Next
  <1>8. ASSUME NEW w \in Worker, Stop(w)
        PROVE  Next
    BY <1>8 DEF Stop, Next, WorkerState
  <1>9. CASE Client
    BY <1>9 DEF Client, Cancel, Submit, Next
  <1>10. CASE PassTime
    BY <1>10 DEF PassTime, Next
  <1>11. CASE \/ \E r \in Run : HandlerReturns(r) \/ HandlerRaises(r)
                                \/ CompleteRaises(r) \/ FailRaises(r)
              \/ \E w \in Worker : Crash(w)
              \/ UNCHANGED allVars
    BY <1>11 DEF HandlerReturns, HandlerRaises, CompleteRaises, FailRaises, Crash,
                 allVars, vars
  <1> QED
    BY <1>1, <1>2, <1>3, <1>4, <1>5, <1>6, <1>7, <1>8, <1>9, <1>10, <1>11
       DEF AgentNext, RunStep, RunProceeds

(* What a step of a run does to the tasks and to the hands they are in.    *)
LEMMA StepOfRun ==
    ASSUME IInv, RunsTyped, NEW run \in Run, RunStep(run)
    PROVE  RunsTyped' /\ RunEffect(run)
  <1>u. \A t \in Task : Kept(t) \/ Returned(t) => Unfinished(t)
    BY DEF Unfinished
  <1>v. ASSUME UNCHANGED tasks PROVE \A t \in Task : Kept(t)
    BY <1>v, SameTasksKept
  <1>h. /\ \A r \in Run : WorkerOf(r) \in Worker
        /\ {"idle", "heartbeat", "recover", "claim"} \cup Handling = RunPlace
    BY RunHasWorker DEF RunPlace
  <1>1. ASSUME NEW r \in Run, NEW lag \in Lags, StartAgent(r, lag)
        PROVE  RunsTyped' /\ RunEffect(r)
    <2>1. UNCHANGED tasks /\ crashes' = crashes /\ GoTo(r, "heartbeat") /\ ~InHand(r)
      BY <1>1 DEF StartAgent, register_worker, At, InHand, Handling
    <2>2. RunsTyped' /\ \A q \in Run : SameHands(q)
      BY <1>h, <2>1, GoToEffect DEF Handling
    <2> QED
      BY <1>u, <1>v, <2>1, <2>2 DEF RunEffect, Quiet
  <1>2. ASSUME NEW r \in Run, NEW lag \in Lags, Heartbeat(r, lag)
        PROVE  RunsTyped' /\ RunEffect(r)
    <2>1. UNCHANGED tasks /\ crashes' = crashes /\ GoTo(r, "recover") /\ ~InHand(r)
      BY <1>2 DEF Heartbeat, heartbeat_worker, At, InHand, Handling
    <2>2. RunsTyped' /\ \A q \in Run : SameHands(q)
      BY <1>h, <2>1, GoToEffect DEF Handling
    <2> QED
      BY <1>u, <1>v, <2>1, <2>2 DEF RunEffect, Quiet
  <1>3. ASSUME NEW r \in Run, NEW lag \in Lags, Recover(r, lag)
        PROVE  RunsTyped' /\ RunEffect(r)
    <2>1. crashes' = crashes /\ GoTo(r, "claim") /\ ~InHand(r)
      BY <1>3 DEF Recover, At, InHand, Handling
    <2>2. RunsTyped' /\ \A q \in Run : SameHands(q)
      BY <1>h, <2>1, GoToEffect DEF Handling
    <2>3. \A t \in Task : Kept(t) \/ Returned(t)
      BY <1>3, StepOfSweep DEF Recover, recover_expired_leases
    <2> QED
      BY <1>u, <2>1, <2>2, <2>3 DEF RunEffect, Quiet
  <1>4. ASSUME NEW r \in Run, NEW lag \in Lags, ClaimReturnsNone(r, lag)
        PROVE  RunsTyped' /\ RunEffect(r)
    <2>1. crashes' = crashes /\ Return(r) /\ ~InHand(r)
      BY <1>4 DEF ClaimReturnsNone, At, InHand, Handling
    <2>2. RunsTyped' /\ \A q \in Run : SameHands(q)
      BY <2>1, ReturnEffect DEF OthersSame
    <2>3. \A t \in Task : Kept(t) \/ Returned(t)
      BY <1>4, <1>h, StepOfRefusal DEF ClaimReturnsNone
    <2> QED
      BY <1>u, <2>1, <2>2, <2>3 DEF RunEffect, Quiet
  <1>5. ASSUME NEW r \in Run, NEW lag \in Lags, ClaimReturnsTask(r, lag)
        PROVE  RunsTyped' /\ RunEffect(r)
    <2>1. PICK t \in Task :
            /\ ClaimLeases(WorkerOf(r), t, lag)
            /\ runs' = [runs EXCEPT ![r] =
                  [pc |-> "handler", task |-> t, attempt |-> tasks'[t].attempts]]
      BY <1>5 DEF ClaimReturnsTask
    <2>2. /\ Claimed(t) /\ tasks'[t].lease_owner = WorkerOf(r)
          /\ \A u \in Task \ {t} : Kept(u) \/ Returned(u)
      BY <1>h, <2>1, StepOfClaim
    <2>3. tasks'[t].attempts \in Nat /\ tasks'[t].attempts >= 1
      BY <2>2, RowFacts DEF Claimed
    <2>4. /\ runs' \in [Run -> RunState]
          /\ \A q \in Run \ {r} : runs'[q] = runs[q]
          /\ runs'[r].pc = "handler" /\ runs'[r].task = t
          /\ runs'[r].attempt = tasks'[t].attempts
      BY <2>1, <2>3 DEF RunsTyped, RunState, RunPlace, Handling
    <2>5. crashes' = crashes /\ ~InHand(r)
      BY <1>5 DEF ClaimReturnsTask, At, InHand, Handling
    <2>6. RunsTyped'
      BY <2>3, <2>4, <2>5 DEF RunsTyped, InHand
    <2>7. OthersSame(r) /\ InHand(r)'
      BY <2>4 DEF OthersSame, SameHands, InHand, Handling
    <2> QED
      BY <2>2, <2>4, <2>5, <2>6, <2>7 DEF RunEffect, Takes
  <1>6. ASSUME NEW r \in Run, HandlerReturns(r) \/ HandlerRaises(r) \/ CompleteRaises(r)
        PROVE  RunsTyped' /\ RunEffect(r)
    <2>1. /\ UNCHANGED tasks /\ crashes' = crashes /\ InHand(r)
          /\ GoTo(r, "complete") \/ GoTo(r, "fail")
      BY <1>6 DEF HandlerReturns, HandlerRaises, CompleteRaises, vars, At, InHand, Handling
    <2>2. RunsTyped' /\ \A q \in Run : SameHands(q)
      BY <1>h, <2>1, GoToEffect DEF Handling
    <2> QED
      BY <1>u, <1>v, <2>1, <2>2 DEF RunEffect, Quiet
  <1>7. ASSUME NEW r \in Run, Complete(r)
        PROVE  RunsTyped' /\ RunEffect(r)
    <2>1. crashes' = crashes /\ Return(r) /\ InHand(r) /\ runs[r].task \in Task
      BY <1>7 DEF Complete, At, InHand, Handling, RunsTyped
    <2>2. RunsTyped' /\ OthersSame(r) /\ ~InHand(r)'
      BY <2>1, ReturnEffect
    <2>3. /\ Completed(runs[r].task) /\ tasks'[runs[r].task].result = runs[r].attempt
          /\ \A t \in Task \ {runs[r].task} : Kept(t)
      BY <1>7, <1>h, <2>1, StepOfCompletion DEF Complete
    <2>4. LeasedBy(runs[r].task, WorkerOf(r))
      BY <1>7 DEF Complete, complete_task
    <2> QED
      BY <2>1, <2>2, <2>3, <2>4 DEF RunEffect, Records
  <1>8. ASSUME NEW r \in Run, NEW lag \in Lags, Fail(r, lag)
        PROVE  RunsTyped' /\ RunEffect(r)
    <2>1. crashes' = crashes /\ Return(r) /\ InHand(r) /\ runs[r].task \in Task
      BY <1>8 DEF Fail, At, InHand, Handling, RunsTyped
    <2>2. RunsTyped' /\ OthersSame(r) /\ ~InHand(r)'
      BY <2>1, ReturnEffect
    <2>3. PICK d \in RetryDelays : fail_task(runs[r].task, WorkerOf(r), d, lag)
      BY <1>8 DEF Fail
    <2>4. /\ Returned(runs[r].task)
          /\ \A t \in Task \ {runs[r].task} : Kept(t)
      BY <1>h, <2>1, <2>3, StepOfFailure
    <2>5. LeasedBy(runs[r].task, WorkerOf(r))
      BY <2>3 DEF fail_task
    <2> QED
      BY <2>1, <2>2, <2>4, <2>5 DEF RunEffect, Records
  <1>9. ASSUME NEW r \in Run, FailRaises(r)
        PROVE  RunsTyped' /\ RunEffect(r)
    <2>1. /\ UNCHANGED tasks /\ crashes' = crashes /\ Return(r) /\ InHand(r)
          /\ ~LeasedBy(runs[r].task, WorkerOf(r))
      BY <1>9 DEF FailRaises, vars, At, InHand, Handling
    <2>2. RunsTyped' /\ OthersSame(r) /\ ~InHand(r)'
      BY <2>1, ReturnEffect
    <2> QED
      BY <1>v, <2>1, <2>2 DEF RunEffect, Abandons
  <1> QED
    BY <1>1, <1>2, <1>3, <1>4, <1>5, <1>6, <1>7, <1>8, <1>9 DEF RunStep, RunProceeds

(* What any step does.                                                     *)
LEMMA StepOfAgents ==
    ASSUME IInv, RunsTyped, [AgentNext]_allVars
    PROVE  RunsTyped' /\ AgentStep
  <1>u. \A t \in Task : Kept(t) \/ Returned(t) => Unfinished(t)
    BY DEF Unfinished
  <1>s. ASSUME UNCHANGED runs PROVE \A q \in Run : SameHands(q)
    BY <1>s DEF SameHands, InHand
  <1>t. ASSUME UNCHANGED <<runs, crashes>> PROVE RunsTyped'
    BY <1>t DEF RunsTyped, InHand
  <1>v. ASSUME UNCHANGED tasks PROVE \A t \in Task : Kept(t)
    BY <1>v, SameTasksKept
  <1>1. ASSUME NEW r \in Run, RunStep(r)
        PROVE  RunsTyped' /\ AgentStep
    BY <1>1, StepOfRun DEF RunEffect, AgentStep
  <1>2. ASSUME NEW w \in Worker, Crash(w)
         PROVE  RunsTyped' /\ AgentStep
    <2>1. /\ UNCHANGED tasks /\ crashes' = crashes + 1
          /\ runs' = [r \in Run |-> IF WorkerOf(r) = w THEN IdleRun ELSE runs[r]]
      BY <1>2 DEF Crash, vars
    <2>2. /\ runs' \in [Run -> RunState]
          /\ \A r \in Run : runs'[r] = runs[r] \/ runs'[r].pc = "idle"
      BY <2>1 DEF RunsTyped, RunState, RunPlace, IdleRun
    <2>3. RunsTyped' /\ \A r \in Run : SameHands(r) \/ ~InHand(r)'
      BY <2>1, <2>2 DEF RunsTyped, SameHands, InHand, Handling
    <2> QED
      BY <1>v, <2>1, <2>3 DEF AgentStep, Dies
  <1>3. ASSUME NEW w \in Worker, Stop(w)
         PROVE  RunsTyped' /\ AgentStep
    <2>1. UNCHANGED <<tasks, runs, crashes>>
      BY <1>3 DEF Stop, set_worker_state
    <2> QED
      BY <1>u, <1>v, <1>s, <1>t, <2>1 DEF AgentStep, Quiet
  <1>4. CASE Client
    <2>1. UNCHANGED <<runs, crashes>>
      BY <1>4 DEF Client, Cancel, Submit, agentVars
    <2>2. CASE \E t \in Task : Cancel(t)
      <3>1. \A t \in Task : Unfinished(t)
        BY <2>2, StepOfCancellation DEF Cancel, Unfinished
      <3> QED
        BY <1>s, <1>t, <2>1, <3>1 DEF AgentStep, Quiet
    <2>3. CASE \E t \in Task, lag \in Lags : Submit(t, lag)
      <3>1. \E t \in Task : Enqueued(t) /\ \A u \in Task \ {t} : Kept(u)
        BY <2>3, StepOfSubmission DEF Submit
      <3> QED
        BY <1>s, <1>t, <2>1, <3>1 DEF AgentStep, Submits
    <2> QED
      BY <1>4, <2>2, <2>3 DEF Client
  <1>5. CASE PassTime
    <2>1. UNCHANGED <<runs, crashes>> /\ \A t \in Task : Kept(t)
      BY <1>5, TickKeepsTasks DEF PassTime, agentVars
    <2> QED
      BY <1>u, <1>s, <1>t, <2>1 DEF AgentStep, Quiet
  <1>6. CASE UNCHANGED allVars
    <2>1. UNCHANGED <<tasks, runs, crashes>>
      BY <1>6 DEF allVars
    <2> QED
      BY <1>u, <1>v, <1>s, <1>t, <2>1 DEF AgentStep, Quiet
  <1> QED
    BY <1>1, <1>2, <1>3, <1>4, <1>5, <1>6 DEF AgentNext

-----------------------------------------------------------------------------
(* Preservation of the invariants. *)

(* No step takes an attempt back, and a run still in hand of a step that   *)
(* claims nothing was so before.                                           *)
LEMMA HandsOfStep ==
    ASSUME IInv, AgentStep
    PROVE  /\ \A t \in Task : /\ tasks[t].attempts \in Nat /\ tasks'[t].attempts \in Nat
                              /\ tasks'[t].attempts >= tasks[t].attempts
           /\ \A r \in Run : InHand(r)' => SameHands(r) \/ Takes(r)
  <1>1. \A t \in Task : Unfinished(t) \/ Enqueued(t) \/ Claimed(t) \/ Completed(t)
    BY DEF AgentStep, Quiet, Submits, Dies, Takes, Records, Abandons, Unfinished
  <1>2. \A t \in Task : tasks[t].attempts \in Nat
    BY RowFacts
  <1>3. \A t \in Task : \/ tasks'[t].attempts = tasks[t].attempts
                        \/ tasks'[t].attempts = tasks[t].attempts + 1
    BY <1>1 DEF Unfinished, Kept, Enqueued, Returned, Cancelled, Claimed, Completed
  <1>4. \A r \in Run : InHand(r)' => SameHands(r) \/ Takes(r)
    BY DEF AgentStep, Quiet, Submits, Dies, Takes, Records, Abandons, OthersSame
  <1> QED
    BY <1>2, <1>3, <1>4

(* A claim starts an attempt of which no run has heard.                    *)
LEMMA AttemptsStayDistinct ==
    ASSUME IInv, RunsTyped, RunsTyped', AttemptRunsOnce, AgentStep
    PROVE  AttemptRunsOnce'
  <1>1. /\ \A t \in Task : /\ tasks[t].attempts \in Nat /\ tasks'[t].attempts \in Nat
                           /\ tasks'[t].attempts >= tasks[t].attempts
        /\ \A r \in Run : InHand(r)' => SameHands(r) \/ Takes(r)
    BY HandsOfStep
  <1>2. \A r \in Run : InHand(r) =>
           /\ runs[r].task \in Task /\ runs[r].attempt \in Nat
           /\ runs[r].attempt <= tasks[runs[r].task].attempts
    BY DEF RunsTyped, RunState, AttemptRunsOnce, InHand
  <1>3. \A r \in Run : InHand(r)' => runs'[r].attempt <= tasks'[runs'[r].task].attempts
    <2> SUFFICES ASSUME NEW r \in Run, InHand(r)'
                 PROVE  runs'[r].attempt <= tasks'[runs'[r].task].attempts
      OBVIOUS
    <2>1. CASE SameHands(r)
      BY <1>1, <1>2, <2>1 DEF SameHands
    <2>2. CASE Takes(r)
      BY <1>1, <2>2 DEF Takes
    <2> QED
      BY <1>1, <2>1, <2>2
  <1>4. ASSUME NEW r \in Run, NEW q \in Run \ {r}, InHand(r)', InHand(q)',
               runs'[q].task = runs'[r].task
        PROVE  runs'[q].attempt # runs'[r].attempt
    <2>1. ASSUME NEW x \in Run, NEW y \in Run \ {x}, InHand(y)', Takes(x),
                 runs'[x].task = runs'[y].task
          PROVE  runs'[x].attempt # runs'[y].attempt
      <3>1. PICK t \in Task : /\ Claimed(t) /\ runs'[x].task = t
                              /\ runs'[x].attempt = tasks'[t].attempts
        BY <2>1 DEF Takes
      <3>2. SameHands(y)
        BY <2>1 DEF Takes, OthersSame
      <3>3. runs'[y].attempt <= tasks[t].attempts /\ runs'[y].attempt \in Nat
        BY <1>2, <2>1, <3>1, <3>2 DEF SameHands
      <3>4. runs'[x].attempt = tasks[t].attempts + 1
        BY <3>1 DEF Claimed
      <3> QED
        BY <1>1, <3>3, <3>4
    <2>2. CASE SameHands(r) /\ SameHands(q)
      BY <1>4, <2>2 DEF SameHands, AttemptRunsOnce, InHand
    <2>3. CASE Takes(r)
      BY <1>4, <2>1, <2>3
    <2>4. CASE Takes(q)
      BY <1>4, <2>1, <2>4
    <2> QED
      BY <1>1, <1>4, <2>2, <2>3, <2>4
  <1> QED
    BY <1>3, <1>4 DEF AttemptRunsOnce, InHand

(* A task that stays leased stays in its hand; a hand lets go only of a    *)
(* task that is no longer leased, or of one that another worker leases.    *)
LEMMA LeasesStayHandled ==
    ASSUME IInv, RunsTyped, LeasedTaskIsHandled, AgentStep
    PROVE  LeasedTaskIsHandled'
  <1> SUFFICES ASSUME crashes' = 0, NEW t \in Task, tasks'[t].state = "LEASED"
               PROVE  \E r \in Run : /\ WorkerOf(r) = tasks'[t].lease_owner
                                     /\ InHand(r)' /\ runs'[r].task = t
                                     /\ runs'[r].attempt = tasks'[t].attempts
    BY DEF LeasedTaskIsHandled, InHand
  <1>1. crashes = 0 /\ ~Dies
    BY DEF AgentStep, Quiet, Submits, Dies, Takes, Records, Abandons, RunsTyped
  <1>2. CASE Kept(t)
    <2>1. PICK r \in Run : /\ WorkerOf(r) = tasks'[t].lease_owner
                           /\ InHand(r) /\ runs[r].task = t
                           /\ runs[r].attempt = tasks'[t].attempts
      BY <1>1, <1>2 DEF LeasedTaskIsHandled, InHand, Kept
    <2>2. LeasedBy(t, WorkerOf(r))
      BY <1>2, <2>1 DEF LeasedBy, Kept
    <2>3. ~Records(r)
      BY <2>1 DEF Records, Completed, Returned
    <2>4. ~Abandons(r)
      BY <2>1, <2>2 DEF Abandons
    <2>5. SameHands(r)
      BY <1>1, <2>1, <2>3, <2>4 DEF AgentStep, Quiet, Submits, Takes, Records, Abandons, OthersSame
    <2> QED
      BY <2>1, <2>5 DEF SameHands
  <1>3. CASE ~Kept(t)
    <2>1. ~Unfinished(t) /\ ~Enqueued(t) /\ ~Completed(t)
      BY <1>3 DEF Unfinished, Enqueued, Returned, Cancelled, Completed
    <2>2. PICK r \in Run : Takes(r)
      BY <1>1, <2>1 DEF AgentStep, Quiet, Submits, Records, Abandons, Unfinished
    <2>3. PICK c \in Task :
            /\ tasks'[c].lease_owner = WorkerOf(r)
            /\ \A u \in Task \ {c} : Kept(u) \/ Returned(u)
            /\ runs'[r].task = c /\ runs'[r].attempt = tasks'[c].attempts
      BY <2>2 DEF Takes
    <2>4. c = t
      BY <2>1, <2>3 DEF Unfinished
    <2> QED
      BY <2>2, <2>3, <2>4 DEF Takes
  <1> QED
    BY <1>2, <1>3

(* With one slot a worker that claims has nothing else in hand.            *)
LEMMA HandsStayCurrent ==
    ASSUME OneSlot, IInv, IInv', RunsTyped, HandsAreCurrent, AgentStep
    PROVE  HandsAreCurrent'
  <1> SUFFICES ASSUME NEW r \in Run, InHand(r)', LeasedBy(runs[r].task, WorkerOf(r))'
               PROVE  runs'[r].attempt = tasks'[runs'[r].task].attempts
    BY DEF HandsAreCurrent, InHand, LeasedBy, WorkerOf
  <1>1. CASE Takes(r)
    BY <1>1 DEF Takes
  <1>2. CASE SameHands(r)
    <2> DEFINE t == runs[r].task
    <2>1. /\ InHand(r) /\ t \in Task /\ runs'[r].task = t
          /\ runs'[r].attempt = runs[r].attempt
          /\ tasks'[t].state = "LEASED" /\ tasks'[t].lease_owner = WorkerOf(r)
      BY <1>2 DEF SameHands, RunsTyped, LeasedBy
    <2> HIDE DEF t
    <2>2. CASE Kept(t)
      <3>1. LeasedBy(t, WorkerOf(r)) /\ tasks'[t].attempts = tasks[t].attempts
        BY <2>1, <2>2 DEF LeasedBy, Kept
      <3> QED
        BY <2>1, <3>1 DEF HandsAreCurrent, t
    <2>3. CASE ~Kept(t)
      <3>1. ~Unfinished(t) /\ ~Enqueued(t) /\ ~Completed(t)
        BY <2>1, <2>3 DEF Unfinished, Enqueued, Returned, Cancelled, Completed
      <3>2. PICK q \in Run : Takes(q)
        BY <2>1, <3>1 DEF AgentStep, Quiet, Submits, Dies, Records, Abandons, Unfinished
      <3>3. tasks'[t].lease_owner = WorkerOf(q)
        BY <2>1, <3>1, <3>2 DEF Takes, Unfinished
      <3>4. q = r
        <4>1. \A x \in Run : x = <<x[1], x[2]>> /\ x[2] \in Slots
          BY DEF Run
        <4>2. q[1] = r[1]
          BY <2>1, <3>3 DEF WorkerOf
        <4> QED
          BY <4>1, <4>2 DEF OneSlot
      <3> QED
        BY <2>1, <3>2, <3>4 DEF Takes
    <2> QED
      BY <2>2, <2>3
  <1> QED
    BY <1>1, <1>2, HandsOfStep

(* Then a task succeeds with the result of the attempt the store counts,   *)
(* and keeps both.                                                         *)
LEMMA ResultsStayCurrent ==
    ASSUME IInv, RunsTyped, HandsAreCurrent, ResultOfCurrentAttempt, AgentStep
    PROVE  ResultOfCurrentAttempt'
  <1> SUFFICES ASSUME NEW t \in Task, tasks'[t].state = "SUCCEEDED"
               PROVE  tasks'[t].result = tasks'[t].attempts
    BY DEF ResultOfCurrentAttempt
  <1>1. CASE Kept(t)
    BY <1>1 DEF Kept, ResultOfCurrentAttempt
  <1>2. CASE ~Kept(t)
    <2>1. ~Unfinished(t) /\ ~Enqueued(t) /\ ~Claimed(t)
      BY <1>2 DEF Unfinished, Enqueued, Returned, Cancelled, Claimed
    <2>2. PICK r \in Run : Records(r) /\ runs[r].task = t
      BY <2>1 DEF AgentStep, Quiet, Submits, Dies, Takes, Records, Abandons, Unfinished
    <2>3. runs[r].attempt = tasks[t].attempts
      BY <2>2 DEF Records, HandsAreCurrent
    <2>4. ~Returned(t)
      BY <2>1 DEF Unfinished
    <2> QED
      BY <2>2, <2>3, <2>4 DEF Records, Completed
  <1> QED
    BY <1>1, <1>2

-----------------------------------------------------------------------------
(* The invariants of the specification. *)

(* Nothing is leased, in hand or succeeded at the start.                   *)
LEMMA AgentInitInv == AgentInit => SlotInv
  <1> SUFFICES ASSUME AgentInit PROVE SlotInv
    OBVIOUS
  <1>1. IInv
    BY InitInv DEF AgentInit
  <1>2. \A r \in Run : runs[r] \in RunState /\ ~InHand(r)
    BY DEF AgentInit, IdleRun, RunState, RunPlace, InHand, Handling
  <1>3. RunsTyped
    BY <1>2 DEF AgentInit, RunsTyped
  <1>4. \A t \in Task : tasks[t].state = "absent"
    BY DEF AgentInit, Init, NoTaskRow
  <1> QED
    BY <1>1, <1>2, <1>3, <1>4 DEF SlotInv, AgentInv, AttemptRunsOnce, InHand,
       LeasedTaskIsHandled, HandsAreCurrent, ResultOfCurrentAttempt

(* A store step that is one of these steps of the agents keeps the         *)
(* invariant, whoever takes it and for any number of slots.                *)
LEMMA EffectKeepsInv ==
    ASSUME AgentInv, [Next]_vars, RunsTyped', AgentStep
    PROVE  AgentInv'
  <1>1. IInv /\ RunsTyped /\ AttemptRunsOnce /\ LeasedTaskIsHandled
    BY DEF AgentInv
  <1>2. IInv'
    BY <1>1, NextKeepsInv
  <1> QED
    BY <1>1, <1>2, AttemptsStayDistinct, LeasesStayHandled DEF AgentInv

(* Every step of the agents does.                                          *)
LEMMA AgentStepKeepsInv == AgentInv /\ [AgentNext]_allVars => AgentInv'
  <1> SUFFICES ASSUME AgentInv, [AgentNext]_allVars PROVE AgentInv'
    OBVIOUS
  <1>1. [Next]_vars /\ RunsTyped' /\ AgentStep
    BY AgentStepIsStoreStep, StepOfAgents DEF AgentInv
  <1> QED
    BY <1>1, EffectKeepsInv

(* With one slot it also keeps hands and results current.                  *)
LEMMA SlotStepKeepsInv ==
    ASSUME OneSlot
    PROVE  SlotInv /\ [AgentNext]_allVars => SlotInv'
  <1> SUFFICES ASSUME SlotInv, [AgentNext]_allVars PROVE SlotInv'
    OBVIOUS
  <1>1. AgentInv /\ AgentInv' /\ HandsAreCurrent /\ ResultOfCurrentAttempt
    BY AgentStepKeepsInv DEF SlotInv
  <1>2. AgentStep
    BY <1>1, StepOfAgents DEF AgentInv
  <1> QED
    BY <1>1, <1>2, HandsStayCurrent, ResultsStayCurrent DEF SlotInv, AgentInv

(* The fair specification whose liveness is model-checked is one of the    *)
(* agents' behaviours, so what is proved of AgentSpec holds of it.         *)
THEOREM LiveSpecIsAgentSpec == LiveSpec => AgentSpec
  <1>1. [LiveNext]_allVars => [AgentNext]_allVars
    BY DEF LiveNext, AgentNext
  <1> QED
    BY <1>1, PTL DEF LiveSpec, AgentSpec

(* The invariant of agents and store holds in every behaviour.             *)
THEOREM AgentInvariant == AgentSpec => []AgentInv
  <1>1. AgentInit => AgentInv
    BY AgentInitInv DEF SlotInv
  <1> QED
    BY <1>1, AgentStepKeepsInv, PTL DEF AgentSpec

(* An attempt is executed at most once, whatever crashes, expired leases   *)
(* and cancellations happen and however many runs a worker allows itself.  *)
THEOREM AttemptsRunOnce == AgentSpec => []AttemptRunsOnce
  <1>1. AgentInv => AttemptRunsOnce
    BY DEF AgentInv
  <1> QED
    BY <1>1, AgentInvariant, PTL

(* As long as no process dies, a leased task is in the hands of a run of   *)
(* the worker that the store names: no path of run_once drops a task.      *)
THEOREM LeasesAreHandled == AgentSpec => []LeasedTaskIsHandled
  <1>1. AgentInv => LeasedTaskIsHandled
    BY DEF AgentInv
  <1> QED
    BY <1>1, AgentInvariant, PTL

(* A worker that runs one task at a time never completes a task with the   *)
(* result of an attempt whose lease it has lost.                           *)
THEOREM ResultsAreCurrent ==
    ASSUME OneSlot
    PROVE  AgentSpec => []ResultOfCurrentAttempt
  <1>1. AgentInit => SlotInv
    BY AgentInitInv
  <1>2. SlotInv => ResultOfCurrentAttempt
    BY DEF SlotInv
  <1> QED
    BY <1>1, <1>2, SlotStepKeepsInv, PTL DEF AgentSpec

(* The store keeps every promise of its own when agents drive it.          *)
THEOREM AgentsDriveTheStore == AgentSpec => Spec
  <1>1. AgentInit => Init
    BY DEF AgentInit
  <1>2. AgentInv /\ [AgentNext]_allVars => [Next]_vars
    BY AgentStepIsStoreStep DEF AgentInv
  <1> QED
    BY <1>1, <1>2, AgentInvariant, PTL DEF AgentSpec, Spec

(* So the agents' tasks live the life that TaskLifecycle promises.         *)
THEOREM AgentsImplementLifecycle == AgentSpec => ImplementsLifecycle
  BY AgentsDriveTheStore, StoreImplementsLifecycle
=============================================================================
