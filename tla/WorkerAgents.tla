---------------------------- MODULE WorkerAgents ----------------------------
(***************************************************************************)
(* WorkerAgent processes (src/src/aios/execution_fabric/fabric.py) driving *)
(* the store.  A run <<w, i>> is one call of run_once by the agent of      *)
(* worker w: it heartbeats, recovers expired leases, claims, runs the      *)
(* handler and records the outcome, each in a store transaction of its own.*)
(* An agent allows itself max_concurrency tasks, so several runs of one    *)
(* worker may be under way; nothing but the worker id tells them apart.    *)
(***************************************************************************)
EXTENDS ExecutionFabricStore

CONSTANTS
    Slots,        \* concurrent calls of run_once per worker
    MaxCrashes    \* bound: process crashes in a behaviour

ASSUME AgentAssumption == MaxCrashes \in Nat

VARIABLES
    started,      \* [Worker -> self.started]
    runs,         \* [Run -> [pc, task, attempt]]: the local state of run_once
    crashes       \* crashes so far

agentVars == <<started, runs, crashes>>
allVars == <<workers, tasks, dead_letters, started, runs, crashes>>

Run == Worker \X Slots
WorkerOf(r) == r[1]

IdleRun == [pc |-> "idle", task |-> "none", attempt |-> 0]

(* the points of run_once at which a task is in the agent's hands *)
Handling == {"handler", "complete", "fail"}

AgentInit ==
    /\ Init
    /\ started = [w \in Worker |-> FALSE]
    /\ runs = [r \in Run |-> IdleRun]
    /\ crashes = 0

At(r, pc) == runs[r].pc = pc
GoTo(r, pc) == runs' = [runs EXCEPT ![r].pc = pc]
Return(r) == runs' = [runs EXCEPT ![r] = IdleRun]

-----------------------------------------------------------------------------
(* run_once, statement by statement.  WorkerAgent.start registers the      *)
(* worker with its configured concurrency when it has not been started.    *)

StartAgent(r, lag) ==
    /\ At(r, "idle") /\ ~started[WorkerOf(r)]
    /\ \E c \in Concurrency[WorkerOf(r)] : register_worker(WorkerOf(r), c, lag)
    /\ started' = [started EXCEPT ![WorkerOf(r)] = TRUE]
    /\ GoTo(r, "heartbeat")
    /\ UNCHANGED crashes

Heartbeat(r, lag) ==
    /\ At(r, "heartbeat") \/ (At(r, "idle") /\ started[WorkerOf(r)])
    /\ heartbeat_worker(WorkerOf(r), lag)
    /\ GoTo(r, "recover")
    /\ UNCHANGED <<started, crashes>>

Recover(r, lag) ==
    /\ At(r, "recover")
    /\ recover_expired_leases(lag)
    /\ GoTo(r, "claim")
    /\ UNCHANGED <<started, crashes>>

ClaimReturnsNone(r, lag) ==
    /\ At(r, "claim")
    /\ ClaimRefused(WorkerOf(r), lag)
    /\ Return(r)
    /\ UNCHANGED <<started, crashes>>

ClaimReturnsTask(r, lag) ==
    /\ At(r, "claim")
    /\ \E t \in Task :
          /\ ClaimLeases(WorkerOf(r), t, lag)
          /\ runs' = [runs EXCEPT ![r] =
                [pc |-> "handler", task |-> t, attempt |-> tasks'[t].attempts]]
    /\ UNCHANGED <<started, crashes>>

(* the handler returns a dictionary *)
HandlerReturns(r) ==
    /\ At(r, "handler")
    /\ GoTo(r, "complete")
    /\ UNCHANGED <<vars, started, crashes>>

(***************************************************************************)
(* No handler is registered, the handler raises or returns something else, *)
(* or the awaiting task is cancelled: all are recorded with fail_task.     *)
(***************************************************************************)
HandlerRaises_Drops(r) ==                                           \* mutant
    /\ At(r, "handler")
    /\ Return(r)
    /\ UNCHANGED <<vars, started, crashes>>

HandlerRaises(r) ==
    /\ At(r, "handler")
    /\ GoTo(r, "fail")
    /\ UNCHANGED <<vars, started, crashes>>

Complete(r) ==
    /\ At(r, "complete")
    /\ complete_task(runs[r].task, WorkerOf(r), runs[r].attempt)
    /\ Return(r)
    /\ UNCHANGED <<started, crashes>>

(* complete_task raises, because the lease is no longer this worker's or   *)
(* because the result has no JSON form: the except clause calls fail_task  *)
CompleteRaises(r) ==
    /\ At(r, "complete")
    /\ GoTo(r, "fail")
    /\ UNCHANGED <<vars, started, crashes>>

Fail(r, lag) ==
    /\ At(r, "fail")
    /\ \E d \in RetryDelays : fail_task(runs[r].task, WorkerOf(r), d, lag)
    /\ Return(r)
    /\ UNCHANGED <<started, crashes>>

(* fail_task raises too: run_once ends with the exception *)
FailRaises(r) ==
    /\ At(r, "fail")
    /\ ~LeasedBy(runs[r].task, WorkerOf(r))
    /\ Return(r)
    /\ UNCHANGED <<vars, started, crashes>>

-----------------------------------------------------------------------------
(* Around the runs: an orderly stop, the death of the process, clients,    *)
(* and time.                                                               *)

Stop(w) ==
    /\ started[w]
    /\ \E s \in {"FAILED", "OFFLINE"} : set_worker_state(w, s)
    /\ started' = [started EXCEPT ![w] = FALSE]
    /\ UNCHANGED <<runs, crashes>>

Crash(w) ==
    /\ crashes < MaxCrashes /\ started[w]
    /\ crashes' = crashes + 1
    /\ started' = [started EXCEPT ![w] = FALSE]
    /\ runs' = [r \in Run |-> IF WorkerOf(r) = w THEN IdleRun ELSE runs[r]]
    /\ UNCHANGED vars

Submit(t, lag) == submit_task(t, lag) /\ UNCHANGED agentVars

Cancel(t) == cancel_task(t) /\ UNCHANGED agentVars

PassTime == Tick /\ UNCHANGED agentVars

RunProceeds(r) ==
    \/ HandlerReturns(r) \/ HandlerRaises(r)
    \/ Complete(r) \/ CompleteRaises(r)
    \/ \E lag \in Lags :
          \/ StartAgent(r, lag) \/ Heartbeat(r, lag) \/ Recover(r, lag)
          \/ ClaimReturnsNone(r, lag) \/ ClaimReturnsTask(r, lag)
          \/ Fail(r, lag)

RunStep(r) == RunProceeds(r) \/ FailRaises(r)

Client ==
    \E t \in Task : Cancel(t) \/ \E lag \in Lags : Submit(t, lag)

AgentNext ==
    \/ \E r \in Run : RunStep(r)
    \/ \E w \in Worker : Stop(w) \/ Crash(w)
    \/ Client
    \/ PassTime

AgentSpec == AgentInit /\ [][AgentNext]_allVars

(***************************************************************************)
(* For liveness: heartbeat_worker, recover_expired_leases and claim_task   *)
(* follow each other without an await, so a run reaches its claim before   *)
(* the heartbeat it has just sent times out (30 seconds in the code).      *)
(* Agents keep calling run_once, handlers return, time passes, and nobody  *)
(* stops an agent for good.                                                *)
(***************************************************************************)
Prompt ==
    \A r \in Run : At(r, "recover") \/ At(r, "claim") =>
        workers[WorkerOf(r)].heartbeat_age < HeartbeatTimeout

LiveNext ==
    \/ \E r \in Run : RunStep(r)
    \/ \E w \in Worker : Crash(w)
    \/ Client
    \/ Prompt /\ PassTime

LiveSpec ==
    /\ AgentInit /\ [][LiveNext]_allVars
    /\ \A r \in Run : WF_allVars(RunStep(r))
    /\ WF_allVars(Prompt /\ PassTime)

-----------------------------------------------------------------------------
(* Properties. *)

(* An attempt is executed at most once: two handlers may run the same task *)
(* at the same time (the first outlived its lease), but never the same     *)
(* attempt, and the store counts at least as many attempts as any handler. *)
AttemptRunsOnce ==
    \A r \in Run : runs[r].pc \in Handling =>
        /\ runs[r].attempt <= tasks[runs[r].task].attempts
        /\ \A q \in Run \ {r} :
              runs[q].pc \in Handling /\ runs[q].task = runs[r].task
              => runs[q].attempt # runs[r].attempt

(* As long as no process died, every leased task is in the hands of a run  *)
(* of the worker the store names, for the attempt the store counts: an     *)
(* agent never drops a task it claimed without recording an outcome.       *)
LeasedTaskIsHandled ==
    crashes = 0 =>
        \A t \in Task : tasks[t].state = "LEASED" =>
            \E r \in Run : /\ WorkerOf(r) = tasks[t].lease_owner
                           /\ runs[r].pc \in Handling
                           /\ runs[r].task = t
                           /\ runs[r].attempt = tasks[t].attempts

(* The result of a succeeded task comes from the attempt that held the     *)
(* lease; a handler whose lease was recovered cannot complete the task     *)
(* (phase 23: "rejection of late completion by the former lease owner").   *)
ResultOfCurrentAttempt ==
    \A t \in Task : tasks[t].state = "SUCCEEDED" => tasks[t].result = tasks[t].attempts

(* Every submitted task ends: crashes, expired leases, failures and retry  *)
(* delays only postpone success, the dead letters or a cancellation.       *)
TasksTerminate ==
    \A t \in Task : tasks[t].state # "absent" ~> tasks[t].state \in Terminal
=============================================================================
