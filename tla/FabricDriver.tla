---------------------------- MODULE FabricDriver ----------------------------
(***************************************************************************)
(* drive_workers_until_terminal (src/src/aios/execution_fabric/fabric.py): *)
(* one process that calls run_once of its agents in turn, round after      *)
(* round, until every task of the execution is terminal, or gives up after *)
(* idle_round_limit rounds in which no task changed.  The agents are those *)
(* of WorkerAgents with one run each, which the driver lets go one at a    *)
(* time.                                                                   *)
(***************************************************************************)
EXTENDS WorkerAgents, Sequences

CONSTANTS
    Driven,           \* the sequence of workers it drives
    IdleRoundLimit,   \* idle_round_limit
    MaxRounds         \* max_rounds

ASSUME DriverAssumption ==
    /\ Driven \in Seq(Worker) /\ Driven # <<>>
    /\ Slots = {1}
    /\ IdleRoundLimit \in Nat \ {0}
    /\ MaxRounds \in Nat \ {0}

VARIABLE driver       \* [pc, turn, rounds, idle_rounds, before]

driverVars == <<workers, tasks, dead_letters, started, runs, crashes, driver>>

Submitted == {t \in Task : tasks[t].state # "absent"}
AllTerminal == Submitted # {} /\ \A t \in Submitted : tasks[t].state \in Terminal
Snapshot == [t \in Submitted |-> <<tasks[t].state, tasks[t].attempts>>]

RunOfTurn == <<Driven[driver.turn], 1>>

DriverStart == [pc |-> "start", turn |-> 1, rounds |-> 0, idle_rounds |-> 0,
                before |-> <<>>]

DriverInit == AgentInit /\ driver = DriverStart

DriverAt(pc) == driver.pc = pc
DriverGoTo(pc) == driver' = [driver EXCEPT !.pc = pc]

(* for worker in workers: if not worker.started: worker.start()            *)
StartNext(lag) ==
    /\ DriverAt("start") /\ Submitted # {}
    /\ LET w == Driven[driver.turn] IN
       IF started[w]
       THEN UNCHANGED <<vars, agentVars>>
       ELSE /\ \E c \in Concurrency[w] : register_worker(w, c, lag)
            /\ started' = [started EXCEPT ![w] = TRUE]
            /\ UNCHANGED <<runs, crashes>>
    /\ driver' = IF driver.turn < Len(Driven)
                 THEN [driver EXCEPT !.turn = @ + 1]
                 ELSE [driver EXCEPT !.pc = "check", !.turn = 1]

CheckRound ==
    /\ DriverAt("check") /\ driver.rounds < MaxRounds
    /\ driver' = IF AllTerminal
                 THEN [driver EXCEPT !.pc = "returned"]
                 ELSE [driver EXCEPT !.pc = "turn", !.turn = 1, !.before = Snapshot]
    /\ UNCHANGED <<vars, agentVars>>

RoundsExhausted ==
    /\ DriverAt("check") /\ driver.rounds = MaxRounds
    /\ DriverGoTo("final")
    /\ UNCHANGED <<vars, agentVars>>

(* await worker.run_once(): its first step, then the others                *)
TurnBegins ==
    /\ DriverAt("turn")
    /\ \E lag \in Lags : Heartbeat(RunOfTurn, lag)
    /\ DriverGoTo("awaiting")

TurnContinues ==
    /\ DriverAt("awaiting") /\ ~At(RunOfTurn, "idle")
    /\ RunProceeds(RunOfTurn)
    /\ UNCHANGED driver

(* run_once raises, and the exception leaves the driver                    *)
TurnRaises ==
    /\ DriverAt("awaiting")
    /\ FailRaises(RunOfTurn)
    /\ DriverGoTo("raised")

TurnEnds_NeverSweeps ==                                             \* mutant
    /\ DriverAt("awaiting") /\ At(RunOfTurn, "idle")
    /\ driver' = [driver EXCEPT !.pc = "turn", !.turn = IF @ < Len(Driven) THEN @ + 1 ELSE 1]
    /\ UNCHANGED <<vars, agentVars>>

TurnEnds ==
    /\ DriverAt("awaiting") /\ At(RunOfTurn, "idle")
    /\ driver' = IF driver.turn < Len(Driven)
                 THEN [driver EXCEPT !.pc = "turn", !.turn = @ + 1]
                 ELSE [driver EXCEPT !.pc = "sweep"]
    /\ UNCHANGED <<vars, agentVars>>

Sweep(lag) ==
    /\ DriverAt("sweep")
    /\ recover_expired_leases(lag)
    /\ DriverGoTo("compare")
    /\ UNCHANGED agentVars

NoChange == Snapshot = driver.before

Compare_CountsEveryRound ==                                         \* mutant
    /\ DriverAt("compare")
    /\ driver' = [driver EXCEPT
          !.idle_rounds = @ + 1,
          !.rounds = @ + 1,
          !.pc = IF driver.idle_rounds + 1 >= IdleRoundLimit THEN "final" ELSE "check"]
    /\ UNCHANGED <<vars, agentVars>>

Compare ==
    /\ DriverAt("compare")
    /\ driver' = [driver EXCEPT
          !.idle_rounds = IF NoChange THEN @ + 1 ELSE 0,
          !.rounds = @ + 1,
          !.pc = IF NoChange /\ driver.idle_rounds + 1 >= IdleRoundLimit
                 THEN "final" ELSE "check"]
    /\ UNCHANGED <<vars, agentVars>>

FinalCheck_AlwaysReturns ==                                         \* mutant
    /\ DriverAt("final")
    /\ DriverGoTo("returned")
    /\ UNCHANGED <<vars, agentVars>>

FinalCheck ==
    /\ DriverAt("final")
    /\ DriverGoTo(IF AllTerminal THEN "returned" ELSE "stalled")
    /\ UNCHANGED <<vars, agentVars>>

(* the process dies and is started again on the same durable store         *)
DriverCrash ==
    /\ crashes < MaxCrashes /\ driver.pc \notin {"start", "returned", "stalled", "raised"}
    /\ crashes' = crashes + 1
    /\ started' = [w \in Worker |-> FALSE]
    /\ runs' = [r \in Run |-> IdleRun]
    /\ driver' = DriverStart
    /\ UNCHANGED vars

DriverStep ==
    \/ CheckRound \/ RoundsExhausted \/ TurnBegins \/ TurnContinues
    \/ TurnRaises \/ TurnEnds \/ Compare \/ FinalCheck
    \/ \E lag \in Lags : StartNext(lag) \/ Sweep(lag)

(* DistributedProjectCycle submits every task before it drives.            *)
DriverSubmits(t, lag) ==
    DriverAt("start") /\ driver.turn = 1 /\ Submit(t, lag) /\ UNCHANGED driver

ClientCancels(t) == Cancel(t) /\ UNCHANGED driver

DriverPassTime == Prompt /\ PassTime /\ UNCHANGED driver

DriverNext ==
    \/ DriverStep
    \/ DriverCrash
    \/ DriverPassTime
    \/ \E t \in Task : ClientCancels(t) \/ \E lag \in Lags : DriverSubmits(t, lag)

DriverSpec ==
    DriverInit /\ [][DriverNext]_driverVars /\ WF_driverVars(DriverStep)

-----------------------------------------------------------------------------
(* Properties. *)

(* an unfinished task some driven worker could still be given              *)
WorkLeft ==
    \E t \in Task, i \in 1..Len(Driven) :
        /\ tasks[t].state \in Waiting \cup {"LEASED"}
        /\ Capability[t] \in Capabilities[Driven[i]]

(* "Round-robin workers until all execution tasks are terminal or no       *)
(* progress is possible" (fabric.py:163): a driver that was not restarted  *)
(* gives up for idleness only when no unfinished task can ever be given to *)
(* a driven worker.                                                        *)
StallMeansNoProgress ==
    DriverAt("stalled") /\ driver.idle_rounds >= IdleRoundLimit /\ crashes = 0
    => ~WorkLeft

(* "stalled executions fail rather than claiming false completion" (phase  *)
(* 23): once the driver has returned, every task of the execution is       *)
(* terminal and stays so, and none is still in the hands of one of its     *)
(* agents.                                                                 *)
ReturnsOnlyWhenDone ==
    DriverAt("returned") =>
        /\ AllTerminal
        /\ \A r \in Run : At(r, "idle")

(* A drive comes to an end: it returns, stalls or raises.                  *)
DriveEnds ==
    DriverAt("check") ~> driver.pc \in {"returned", "stalled", "raised"}
=============================================================================
