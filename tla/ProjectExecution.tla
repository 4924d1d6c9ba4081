-------------------------- MODULE ProjectExecution --------------------------
(***************************************************************************)
(* Executions of user projects: the requests that queue and steer them     *)
(* (api/v1/endpoints/project_executions.py), the leased worker processes   *)
(* that run them (services/project_execution_worker.py), the runner thread *)
(* of an attempt and its evidence directory (services/project_execution.py)*)
(* and the host maintenance gate (services/host_maintenance_admission.py). *)
(*                                                                         *)
(* A claim gives the record a new lease token, the next attempt number and *)
(* the next fencing generation at once, so the attempt number stands for   *)
(* all three.  A thread cannot be stopped: it outlives the task that lost  *)
(* its lease and goes on in the directory that the next attempt gets too.  *)
(* Time is relative: countdowns to an expiry or to the end of a delay.     *)
(***************************************************************************)
EXTENDS Integers, FiniteSets

CONSTANTS
    Execution, Project, ProjectOf,      \* the project of each execution
    Worker, NoWorker,
    LeaseSeconds, RetryDelay, MaxAttempts,
    TenantLimit,                        \* one tenant owns all the projects
    Capacity,
    MaxRequests                         \* bound: requests in a behaviour

ASSUME ExecutionAssumption ==
    /\ ProjectOf \in [Execution -> Project]
    /\ NoWorker \notin Worker
    /\ {LeaseSeconds, RetryDelay, MaxAttempts, TenantLimit, Capacity} \subseteq Nat \ {0}
    /\ MaxRequests \in Nat

VARIABLES
    rows,       \* [Execution -> row of project_executions]
    project,    \* [Project -> projects.status]
    gate,       \* the maintenance authority of scope project_execution
    workers,    \* [Worker -> [phase, picked]]
    tasks,      \* [Execution -> [attempt -> its task and its thread]]
    job,        \* [Execution -> what its evidence directory holds]
    pending,    \* [Execution -> the request that has passed its checks]
    requests    \* requests so far

vars == <<rows, project, gate, workers, tasks, job, pending, requests>>

Attempt == 1..MaxAttempts

(* What the receipt says of a run: the runner approved it, only the owner's *)
(* approval is missing, or other findings block the release.                *)
Result == {"approved", "approvable", "withheld"}

Active == {"queued", "running"}
Status == Active \cup {"absent", "paused", "completed", "failed", "cancelled"}

(* token: the attempt whose lease is recorded, 0 if none; result: what     *)
(* result_summary and evidence_path record of a completed run.  The stage  *)
(* follows from the other fields: a failed record is dead-lettered, and an *)
(* approved one has the stage "approved" unless its review is pending.     *)
Row == [status : Status, attempts : 0..MaxAttempts,
        token : 0..MaxAttempts, owner : Worker \cup {NoWorker},
        lease : 0..LeaseSeconds, delay : 0..RetryDelay,
        approved : BOOLEAN,
        review : {"not_requested", "pending", "approved", "rejected"},
        result : Result \cup {"none"}]

NewRow(status) ==
    [status |-> status, attempts |-> 0, token |-> 0, owner |-> NoWorker, lease |-> 0,
     delay |-> 0, approved |-> FALSE, review |-> "not_requested", result |-> "none"]

ProjectStatus == {"planning", "in_progress", "active", "review", "rework",
                  "completed", "cancelled"}

(* task: "load" (the payload is read), "wait" (thread and heartbeat are    *)
(* watched), "done"; thread: "start", "build" (it made the staging         *)
(* directory), a result, or the error it ended with.  What ended is        *)
(* forgotten: a task that is done with a thread that is no more is NoTask. *)
Failure == {"transient", "permanent"}
Task == [worker : Worker \cup {NoWorker}, task : {"none", "load", "wait", "done"},
         thread : {"none", "start", "build"} \cup Result \cup Failure]

NoTask == [worker |-> NoWorker, task |-> "none", thread |-> "none"]

Init ==
    /\ rows = [e \in Execution |-> NewRow("absent")]
    /\ project = [p \in Project |-> "planning"]
    /\ gate = "open"
    /\ workers = [w \in Worker |-> [phase |-> "poll", picked |-> {}]]
    /\ tasks = [e \in Execution |-> [n \in Attempt |-> NoTask]]
    /\ job = [e \in Execution |-> "empty"]
    /\ pending = [e \in Execution |-> "none"]
    /\ requests = 0

-----------------------------------------------------------------------------
(* Requests (project_executions.py). *)

(* The rows whose FOR UPDATE lock a claim or a request holds.              *)
Locked(e) == pending[e] # "none" \/ \E w \in Worker : e \in workers[w].picked

OtherActive(e) ==
    \E f \in Execution \ {e} : ProjectOf[f] = ProjectOf[e] /\ rows[f].status \in Active

(* uq_project_executions_active_project: what the commit is checked by     *)
IndexAllows_Always(e) == TRUE                                       \* mutant
IndexAllows(e) == ~OtherActive(e)

Request ==
    /\ requests < MaxRequests
    /\ requests' = requests + 1
    /\ UNCHANGED <<gate, workers, tasks, job>>

SetRow(e, row) == rows' = [rows EXCEPT ![e] = row]
SetProject(e, status) == project' = [project EXCEPT ![ProjectOf[e]] = status]

(* start, resume and rework read that no other execution is active ...     *)
Check(e, action, from) ==
    /\ rows[e].status \in from /\ ~Locked(e) /\ ~OtherActive(e)
    /\ Request
    /\ pending' = [pending EXCEPT ![e] = action]
    /\ UNCHANGED <<rows, project>>

(* ... and commit later, when the index may refuse them                    *)
Commit(e, action, row, status) ==
    /\ pending[e] = action
    /\ pending' = [pending EXCEPT ![e] = "none"]
    /\ IF IndexAllows(e)
       THEN SetRow(e, row) /\ project' = [project EXCEPT ![ProjectOf[e]] = status]
       ELSE UNCHANGED <<rows, project>>
    /\ UNCHANGED <<gate, workers, tasks, job, requests>>

start_project_execution(e) ==
    \/ Check(e, "start", {"absent"})
    \/ Commit(e, "start", NewRow("queued"), "planning")

resume(e) ==
    \/ Check(e, "resume", {"paused"})
    \/ Commit(e, "resume", [rows[e] EXCEPT !.status = "queued"],
              project[ProjectOf[e]])

rework(e) ==
    \/ Check(e, "rework", {"completed", "failed", "paused"})
    \/ Commit(e, "rework",
              [rows[e] EXCEPT !.status = "queued", !.approved = FALSE,
                              !.review = "not_requested", !.result = "none"],
              "planning")

(* The other transitions, and the owner's approval: one transaction each   *)
Transition(e, from) ==
    /\ rows[e].status \in from /\ ~Locked(e)
    /\ Request
    /\ UNCHANGED pending

pause(e) ==
    /\ Transition(e, {"queued"})
    /\ SetRow(e, [rows[e] EXCEPT !.status = "paused"])
    /\ UNCHANGED project

cancel(e) ==
    /\ Transition(e, {"queued", "paused", "failed"})
    /\ SetRow(e, [rows[e] EXCEPT !.status = "cancelled"])
    /\ SetProject(e, "cancelled")

request_review(e) ==
    /\ Transition(e, {"completed"}) /\ rows[e].result # "none"
    /\ SetRow(e, [rows[e] EXCEPT !.review = "pending"])
    /\ SetProject(e, "review")

reject(e) ==
    /\ Transition(e, {"completed"}) /\ rows[e].review # "rejected"
    /\ SetRow(e, [rows[e] EXCEPT !.review = "rejected", !.approved = FALSE])
    /\ SetProject(e, "rework")

approve_project_execution(e) ==
    /\ Transition(e, {"completed"})
    /\ ~(rows[e].approved /\ rows[e].review # "pending")
    /\ rows[e].result = "approvable"
    /\ SetRow(e, [rows[e] EXCEPT !.approved = TRUE, !.review = "approved"])
    /\ SetProject(e, "completed")

UserStep(e) ==
    \/ start_project_execution(e) \/ resume(e) \/ rework(e) \/ pause(e) \/ cancel(e)
    \/ request_review(e) \/ reject(e) \/ approve_project_execution(e)

(* The gate's row is locked exclusively; a claim holds it shared.          *)
Admitting == {w \in Worker : workers[w].phase = "commit"}

SetGate(status) ==
    /\ gate # status
    /\ gate' = status
    /\ requests < MaxRequests /\ requests' = requests + 1
    /\ UNCHANGED <<rows, project, workers, tasks, job, pending>>

close_admission_Unlocked == SetGate("closed")                       \* mutant
close_admission == Admitting = {} /\ SetGate("closed")
open_admission == Admitting = {} /\ SetGate("open")

-----------------------------------------------------------------------------
(* Claiming (project_execution_worker.py). *)

Slots(w) == {en \in Execution \X Attempt :
    /\ tasks[en[1]][en[2]].worker = w
    /\ tasks[en[1]][en[2]].task \in {"load", "wait"}}

Settled(row, status) ==
    [row EXCEPT !.status = status, !.token = 0, !.owner = NoWorker, !.lease = 0]

Exhausted(e) ==
    rows[e].status = "running" /\ rows[e].attempts >= MaxAttempts /\ rows[e].lease = 0

ActiveCount == Cardinality({e \in Execution : rows[e].status = "running" /\ rows[e].lease > 0})

EligibleQueued_NoBudget(e) ==                                       \* mutant
    rows[e].status = "queued" /\ rows[e].delay = 0 /\ ActiveCount < TenantLimit

EligibleQueued(e) ==
    /\ rows[e].status = "queued" /\ rows[e].attempts < MaxAttempts
    /\ rows[e].delay = 0
    /\ ActiveCount < TenantLimit

EligibleRecovery_Never(e) == FALSE                                  \* mutant
EligibleRecovery(e) ==
    rows[e].status = "running" /\ rows[e].attempts < MaxAttempts /\ rows[e].lease = 0

Eligible == {e \in Execution : (EligibleQueued(e) \/ EligibleRecovery(e)) /\ ~Locked(e)}

(* The transaction that opens a claim: what is exhausted becomes a dead    *)
(* letter (no such row is eligible, so the two commute).                   *)
reap_exhausted_leases_KeepsProject ==                               \* mutant
    /\ rows' = [e \in Execution |->
          IF gate = "open" /\ Exhausted(e) /\ ~Locked(e)
          THEN Settled(rows[e], "failed") ELSE rows[e]]
    /\ UNCHANGED project

reap_exhausted_leases ==
    LET dead == IF gate = "open" THEN {e \in Execution : Exhausted(e) /\ ~Locked(e)} ELSE {}
    IN  /\ rows' = [e \in Execution |->
              IF e \in dead THEN Settled(rows[e], "failed") ELSE rows[e]]
        /\ project' = [p \in Project |->
              IF \E e \in dead : ProjectOf[e] = p THEN "planning" ELSE project[p]]

(* The claim's SELECT ... FOR UPDATE SKIP LOCKED; which eligible record    *)
(* comes first by priority and age is left open.                           *)
Select(w) ==
    /\ workers[w].phase = "poll" /\ Cardinality(Slots(w)) < Capacity
    /\ reap_exhausted_leases
    /\ IF gate = "open" /\ Eligible # {}
       THEN \E e \in Eligible :
               workers' = [workers EXCEPT ![w] = [phase |-> "commit", picked |-> {e}]]
       ELSE UNCHANGED workers
    /\ UNCHANGED <<gate, tasks, job, pending, requests>>

claim(w) ==
    /\ workers[w].phase = "commit"
    /\ workers' = [workers EXCEPT ![w] = [phase |-> "poll", picked |-> {}]]
    /\ \E e \in workers[w].picked : LET n == rows[e].attempts + 1 IN
          /\ SetRow(e, [rows[e] EXCEPT !.status = "running",
                                       !.attempts = n, !.token = n, !.owner = w,
                                       !.lease = LeaseSeconds, !.delay = 0])
          /\ SetProject(e, "in_progress")
          /\ tasks' = [tasks EXCEPT ![e][n] =
                 [worker |-> w, task |-> "load", thread |-> "none"]]
    /\ UNCHANGED <<gate, job, pending, requests>>

-----------------------------------------------------------------------------
(* The task of an attempt: execute_claim and the heartbeat beside it. *)

(* The WHERE clause that every write of an attempt repeats                 *)
Holds_AnyLease(e, n) == rows[e].status = "running"                  \* mutant

Holds(e, n) ==
    /\ rows[e].status = "running"
    /\ rows[e].token = n
    /\ rows[e].owner = tasks[e][n].worker

(* The end of a task.  A thread that still runs goes on without it.        *)
Leave(e, n) ==
    tasks' = [tasks EXCEPT ![e][n] =
        IF @.thread \in {"start", "build"} THEN [@ EXCEPT !.task = "done"] ELSE NoTask]

(* No lease, or an error while the assets are prepared: the exception      *)
(* leaves execute_claim before there is a heartbeat or a thread.           *)
load_payload(e, n) ==
    /\ tasks[e][n].task = "load"
    /\ \/ /\ Holds(e, n)
          /\ tasks' = [tasks EXCEPT ![e][n].task = "wait", ![e][n].thread = "start"]
       \/ Leave(e, n)
    /\ UNCHANGED <<rows, project, gate, workers, job, pending, requests>>

(* A lost lease ends the task and, through fail, writes nothing.           *)
renew(e, n) ==
    /\ tasks[e][n].task = "wait" /\ ~Locked(e)
    /\ IF Holds(e, n)
       THEN rows' = [rows EXCEPT ![e].lease = LeaseSeconds] /\ UNCHANGED tasks
       ELSE Leave(e, n) /\ UNCHANGED rows
    /\ UNCHANGED <<project, gate, workers, job, pending, requests>>

complete(e, n) ==
    /\ tasks[e][n].task = "wait" /\ tasks[e][n].thread \in Result /\ ~Locked(e)
    /\ Leave(e, n)
    /\ LET result == tasks[e][n].thread IN
       IF Holds(e, n)
       THEN /\ SetRow(e, [Settled(rows[e], "completed") EXCEPT
                             !.delay = 0, !.approved = (result = "approved"),
                             !.result = result])
            /\ SetProject(e, IF result = "approved" THEN "active" ELSE "planning")
       ELSE UNCHANGED <<rows, project>>
    /\ UNCHANGED <<gate, workers, job, pending, requests>>

FailedRow(row, error) ==
    IF error = "transient" /\ row.attempts < MaxAttempts
    THEN [Settled(row, "queued") EXCEPT !.delay = RetryDelay]
    ELSE Settled(row, "failed")

fail(e, n, error) ==
    /\ Leave(e, n)
    /\ IF Holds(e, n)
       THEN SetRow(e, FailedRow(rows[e], error)) /\ SetProject(e, "planning")
       ELSE UNCHANGED <<rows, project>>
    /\ UNCHANGED <<gate, workers, job, pending, requests>>

(* The thread failed; complete raised (an unknown error is transient); or, *)
(* while the thread goes on, the heartbeat raised or the worker that shuts *)
(* down cancelled the task.                                                *)
Fails(e, n) ==
    /\ tasks[e][n].task = "wait" /\ ~Locked(e)
    /\ \E error \in Failure :
          /\ error = "transient" \/ tasks[e][n].thread = error
          /\ fail(e, n, error)

-----------------------------------------------------------------------------
(* The thread of an attempt: ProjectPlanningRunner.run. *)

(* The end of a thread, which nobody sees once its task is done.           *)
Returns(e, n, outcome) ==
    tasks' = [tasks EXCEPT ![e][n] =
        IF @.task = "done" THEN NoTask ELSE [@ EXCEPT !.thread = outcome]]

Builds(e, n) ==
    /\ tasks' = [tasks EXCEPT ![e][n].thread = "build"]
    /\ job' = [job EXCEPT ![e] = "staging"]

(* A receipt is returned again.  A staging directory is somebody else's,   *)
(* or was left by a crash: refused for good (the planning stage) or with   *)
(* FileExistsError, an OSError and so transient (the other stages).        *)
RunnerStarts_Again(e, n) ==                                         \* mutant
    /\ tasks[e][n].thread = "start"
    /\ IF job[e] = "staging"
       THEN (\E error \in Failure : Returns(e, n, error)) /\ UNCHANGED job
       ELSE Builds(e, n)
    /\ UNCHANGED <<rows, project, gate, workers, pending, requests>>

RunnerStarts(e, n) ==
    /\ tasks[e][n].thread = "start"
    /\ \/ job[e] \in Result /\ Returns(e, n, job[e]) /\ UNCHANGED job
       \/ /\ job[e] = "staging"
          /\ \E error \in Failure : Returns(e, n, error)
          /\ UNCHANGED job
       \/ job[e] = "empty" /\ Builds(e, n)
    /\ UNCHANGED <<rows, project, gate, workers, pending, requests>>

(* update_stage: raises in the thread once the lease is lost               *)
RunnerReports(e, n) ==
    /\ tasks[e][n].thread = "build" /\ ~Locked(e)
    /\ IF Holds(e, n)
       THEN SetProject(e, "in_progress") /\ UNCHANGED <<tasks, job>>
       ELSE /\ Returns(e, n, "transient")
            /\ job' = [job EXCEPT ![e] = "empty"]
            /\ UNCHANGED project
    /\ UNCHANGED <<rows, gate, workers, pending, requests>>

RunnerEnds(e, n) ==
    /\ tasks[e][n].thread = "build"
    /\ \/ \E result \in Result : Returns(e, n, result) /\ job' = [job EXCEPT ![e] = result]
       \/ \E error \in Failure : Returns(e, n, error) /\ job' = [job EXCEPT ![e] = "empty"]
    /\ UNCHANGED <<rows, project, gate, workers, pending, requests>>

-----------------------------------------------------------------------------
(* Workers stop and die; time passes. *)

Drain(w) ==
    /\ workers[w].phase = "poll"
    /\ workers' = [workers EXCEPT ![w].phase = "draining"]
    /\ UNCHANGED <<rows, project, gate, tasks, job, pending, requests>>

(* The claim under way is rolled back, the threads die where they are.     *)
Crash(w) ==
    /\ workers[w].phase # "gone"
    /\ workers' = [workers EXCEPT ![w] = [phase |-> "gone", picked |-> {}]]
    /\ tasks' = [e \in Execution |-> [n \in Attempt |->
          IF tasks[e][n].worker = w THEN NoTask ELSE tasks[e][n]]]
    /\ UNCHANGED <<rows, project, gate, job, pending, requests>>

Tick ==
    /\ rows' = [e \in Execution |-> [rows[e] EXCEPT
          !.lease = IF @ > 0 THEN @ - 1 ELSE @,
          !.delay = IF @ > 0 THEN @ - 1 ELSE @]]
    /\ UNCHANGED <<project, gate, workers, tasks, job, pending, requests>>

WorkerStep(w) == Select(w) \/ claim(w)

TaskEnds(e, n) == load_payload(e, n) \/ complete(e, n) \/ Fails(e, n)
TaskStep(e, n) == TaskEnds(e, n) \/ renew(e, n)

ThreadStep(e, n) == RunnerStarts(e, n) \/ RunnerReports(e, n) \/ RunnerEnds(e, n)

Next ==
    \/ \E e \in Execution : UserStep(e)
    \/ close_admission \/ open_admission
    \/ \E w \in Worker : WorkerStep(w) \/ Drain(w) \/ Crash(w)
    \/ \E e \in Execution, n \in Attempt : TaskStep(e, n) \/ ThreadStep(e, n)
    \/ Tick

(* The loop of a worker, its tasks and its threads go on until it is gone; *)
(* a request that has passed its checks is committed; time passes.         *)
Fairness ==
    /\ \A w \in Worker : WF_vars(WorkerStep(w))
    /\ \A e \in Execution, n \in Attempt :
          WF_vars(TaskEnds(e, n)) /\ WF_vars(RunnerStarts(e, n) \/ RunnerEnds(e, n))
    /\ \A e \in Execution : WF_vars(pending[e] # "none" /\ UserStep(e))
    /\ WF_vars(Tick)

Spec == Init /\ [][Next]_vars /\ Fairness

-----------------------------------------------------------------------------
(* Properties. *)

TypeOK ==
    /\ rows \in [Execution -> Row]
    /\ project \in [Project -> ProjectStatus]
    /\ gate \in {"open", "closed"}
    /\ workers \in [Worker -> [phase : {"poll", "commit", "draining", "gone"},
                               picked : SUBSET Execution]]
    /\ tasks \in [Execution -> [Attempt -> Task]]
    /\ job \in [Execution -> {"empty", "staging"} \cup Result]
    /\ pending \in [Execution -> {"none", "start", "resume", "rework"}]
    /\ requests \in 0..MaxRequests

(* Two executions of a project are never queued or running at once, though *)
(* start, resume and rework check that before they commit.                 *)
OneActivePerProject ==
    \A e, f \in Execution :
        e # f /\ ProjectOf[e] = ProjectOf[f] =>
            ~(rows[e].status \in Active /\ rows[f].status \in Active)

(* The result a completed execution records is the one its directory keeps *)
(* although abandoned threads go on there, and no two threads ever build   *)
(* in it at once.                                                          *)
EvidenceIsFinal ==
    \A e \in Execution :
        /\ rows[e].status = "completed" => rows[e].result = job[e]
        /\ \A n, m \in Attempt :
              tasks[e][n].thread = "build" /\ tasks[e][m].thread = "build" => n = m

(* What a project shows follows from its executions, through claims,       *)
(* reports, recoveries, dead letters and reviews: work in progress means   *)
(* that an execution is running, completion that one is approved.          *)
ProjectShowsExecutions ==
    \A p \in Project :
        /\ project[p] = "in_progress" =>
              \E e \in Execution : ProjectOf[e] = p /\ rows[e].status = "running"
        /\ project[p] = "completed" =>
              \E e \in Execution : ProjectOf[e] = p /\ rows[e].approved

(* An attempt is ended or replaced by its own task, or after its lease has *)
(* expired: "stale workers cannot commit after fencing rotation".          *)
AttemptsAreFenced ==
    [][\A e \in Execution :
          rows[e].status = "running" /\ rows'[e].token # rows[e].token =>
              \/ rows[e].lease = 0
              \/ tasks[e][rows[e].token].task = "wait"
                 /\ tasks'[e][rows[e].token].task # "wait"]_vars

(* Once the gate is closed no attempt begins, not even one whose claim had *)
(* already read that the gate was open.                                    *)
ClosedGateAdmitsNothing ==
    [][gate = "closed" => \A e \in Execution : rows'[e].attempts <= rows[e].attempts]_vars

(* As long as a worker serves and the gate is open, an execution queued    *)
(* with attempts left is settled or withdrawn: no crash, lost lease, left  *)
(* staging directory or tenant limit strands it.                           *)
QueuedIsSettled ==
    \A e \in Execution :
        rows[e].status = "queued" /\ rows[e].attempts < MaxAttempts ~>
            \/ rows[e].status \notin Active
            \/ gate = "closed"
            \/ \A w \in Worker : workers[w].phase \in {"draining", "gone"}

(* "Full governed project execution and rework loops": an execution that a *)
(* request has put into the queue is one a worker may claim.               *)
QueuedCanBeClaimed ==
    \A e \in Execution : rows[e].status = "queued" => rows[e].attempts < MaxAttempts
=============================================================================
