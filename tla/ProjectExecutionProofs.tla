----------------------- MODULE ProjectExecutionProofs -----------------------
(***************************************************************************)
(* Proofs about ProjectExecution, for every set of executions, projects    *)
(* and workers and every value of the limits.                              *)
(***************************************************************************)
EXTENDS ProjectExecution, TLAPS

(* What a row lock protects: a record that a claim has picked stays as it  *)
(* was read, and nobody else has picked it or is about to change it.       *)
PickedOK(w, e) ==
    /\ pending[e] = "none"
    /\ rows[e].status \in Active
    /\ rows[e].status = "running" => rows[e].lease = 0
    /\ rows[e].attempts < MaxAttempts
    /\ \A v \in Worker : e \in workers[v].picked => v = w

PendingOK(e) ==
    /\ pending[e] = "start" => rows[e].status = "absent"
    /\ pending[e] = "resume" => rows[e].status = "paused"
    /\ pending[e] = "rework" => rows[e].status \in {"completed", "failed", "paused"}

LockInv ==
    /\ \A w \in Worker, e \in Execution : e \in workers[w].picked => PickedOK(w, e)
    /\ \A e \in Execution : PendingOK(e)

(* A claim past its reads keeps the gate open.                             *)
GateInv == \A w \in Worker : workers[w].phase = "commit" => gate = "open"

(* What a directory holds follows the threads that work in it.             *)
JobOK(e) ==
    /\ rows[e].status = "completed" => rows[e].result \in Result /\ rows[e].result = job[e]
    /\ \A n \in Attempt : tasks[e][n].thread = "build" => job[e] = "staging"
    /\ \A n \in Attempt : tasks[e][n].thread \in Result => job[e] = tasks[e][n].thread
    /\ \A n, m \in Attempt :
          tasks[e][n].thread = "build" /\ tasks[e][m].thread = "build" => n = m

JobInv == \A e \in Execution : JobOK(e)

IndInv ==
    /\ TypeOK
    /\ LockInv
    /\ GateInv
    /\ JobInv

-----------------------------------------------------------------------------
(* The operations, by the part of the state they touch. *)

(* One step of the system, by who takes it.                                *)
LEMMA NextCases ==
    ASSUME Next
    PROVE  \/ \E e \in Execution : UserStep(e)
           \/ close_admission \/ open_admission
           \/ \E w \in Worker : Select(w)
           \/ \E w \in Worker : claim(w)
           \/ \E w \in Worker : Drain(w)
           \/ \E w \in Worker : Crash(w)
           \/ \E e \in Execution, n \in Attempt : load_payload(e, n)
           \/ \E e \in Execution, n \in Attempt : complete(e, n)
           \/ \E e \in Execution, n \in Attempt : Fails(e, n)
           \/ \E e \in Execution, n \in Attempt : renew(e, n)
           \/ \E e \in Execution, n \in Attempt : RunnerStarts(e, n)
           \/ \E e \in Execution, n \in Attempt : RunnerReports(e, n)
           \/ \E e \in Execution, n \in Attempt : RunnerEnds(e, n)
           \/ Tick
  BY DEF Next, WorkerStep, TaskStep, TaskEnds, ThreadStep

(* A transaction of a user: one record, which nobody else has locked, its  *)
(* project and the request's own mark.  A record that it queues was not    *)
(* active and has no active sibling.                                       *)
UserChange(e, row, status, request) ==
    /\ row \in Row /\ status \in ProjectStatus
    /\ request \in {"none", "start", "resume", "rework"}
    /\ rows' = [rows EXCEPT ![e] = row]
    /\ project' = [project EXCEPT ![ProjectOf[e]] = status]
    /\ pending' = [pending EXCEPT ![e] = request]
    /\ rows[e].status # "running"
    /\ row.status # "running"
    /\ row.attempts <= rows[e].attempts
    /\ \A w \in Worker : e \notin workers[w].picked
    /\ row.status \in Active => rows[e].status \in Active \/ ~OtherActive(e)
    /\ row.status = "completed" => rows[e].status = "completed" /\ row.result = rows[e].result
    /\ request = "start" => row.status = "absent"
    /\ request = "resume" => row.status = "paused"
    /\ request = "rework" => row.status \in {"completed", "failed", "paused"}
    /\ status = "in_progress" => project[ProjectOf[e]] = "in_progress"
    /\ status = "completed" =>
          \/ row.approved
          \/ row.approved = rows[e].approved /\ project[ProjectOf[e]] = "completed"

UserEffect(e) ==
    /\ UNCHANGED <<gate, workers, tasks, job>>
    /\ requests' \in 0..MaxRequests
    /\ \E row, status, request : UserChange(e, row, status, request)

(* The checks of start, resume and rework change nothing but the mark.     *)
LEMMA CheckShape ==
    ASSUME TypeOK, NEW e \in Execution, NEW action \in {"start", "resume", "rework"},
           NEW from, Check(e, action, from),
           "running" \notin from,
           action = "start" => from = {"absent"},
           action = "resume" => from = {"paused"},
           action = "rework" => from = {"completed", "failed", "paused"}
    PROVE  UserEffect(e)
  <1>1. ProjectOf[e] \in Project
    BY ExecutionAssumption
  <1>2. /\ rows[e] \in Row /\ project[ProjectOf[e]] \in ProjectStatus
        /\ rows = [rows EXCEPT ![e] = rows[e]]
        /\ project = [project EXCEPT ![ProjectOf[e]] = project[ProjectOf[e]]]
    BY <1>1 DEF TypeOK
  <1>3. rows[e].status \in from /\ \A w \in Worker : e \notin workers[w].picked
    BY DEF Check, Locked
  <1>4. rows[e].attempts \in Nat
    BY <1>2, ExecutionAssumption DEF Row
  <1>5. UserChange(e, rows[e], project[ProjectOf[e]], action)
    BY <1>2, <1>3, <1>4 DEF Check, UserChange, Active
  <1> QED
    BY <1>5, ExecutionAssumption DEF Check, Request, UserEffect, TypeOK

(* Their commit changes the record, unless the index refuses it.           *)
LEMMA CommitShape ==
    ASSUME TypeOK, LockInv, NEW e \in Execution,
           NEW action \in {"start", "resume", "rework"}, NEW row \in Row,
           NEW status \in ProjectStatus, Commit(e, action, row, status),
           row.status = "queued", row.attempts <= rows[e].attempts,
           status = "in_progress" => project[ProjectOf[e]] = "in_progress",
           status = "completed" =>
               row.approved = rows[e].approved /\ project[ProjectOf[e]] = "completed"
    PROVE  UserEffect(e)
  <1>1. ProjectOf[e] \in Project
    BY ExecutionAssumption
  <1>2. /\ rows[e] \in Row /\ project[ProjectOf[e]] \in ProjectStatus
        /\ rows = [rows EXCEPT ![e] = rows[e]]
        /\ project = [project EXCEPT ![ProjectOf[e]] = project[ProjectOf[e]]]
    BY <1>1 DEF TypeOK
  <1>3. /\ rows[e].status \in {"absent", "completed", "failed", "paused"}
        /\ \A w \in Worker : e \notin workers[w].picked
    BY DEF Commit, LockInv, PendingOK, PickedOK
  <1>4. rows[e].attempts \in Nat
    BY <1>2, ExecutionAssumption DEF Row
  <1>5. CASE IndexAllows(e)
    <2>1. UserChange(e, row, status, "none")
      BY <1>3, <1>5 DEF Commit, UserChange, SetRow, IndexAllows, Active
    <2> QED  BY <2>1 DEF Commit, UserEffect, TypeOK
  <1>6. CASE ~IndexAllows(e)
    <2>1. UserChange(e, rows[e], project[ProjectOf[e]], "none")
      BY <1>2, <1>3, <1>4, <1>6 DEF Commit, UserChange, Active
    <2> QED  BY <2>1 DEF Commit, UserEffect, TypeOK
  <1> QED
    BY <1>5, <1>6

(* A transition of an unlocked record that does not run.                   *)
LEMMA TransitionShape ==
    ASSUME TypeOK, NEW e \in Execution, NEW from, Transition(e, from),
           "running" \notin from,
           NEW row \in Row, NEW status \in ProjectStatus, SetRow(e, row),
           project' = [project EXCEPT ![ProjectOf[e]] = status],
           row.status \notin Active, row.attempts <= rows[e].attempts,
           row.status = "completed" =>
               rows[e].status = "completed" /\ row.result = rows[e].result,
           status = "in_progress" => project[ProjectOf[e]] = "in_progress",
           status = "completed" =>
               \/ row.approved
               \/ row.approved = rows[e].approved /\ project[ProjectOf[e]] = "completed"
    PROVE  UserEffect(e)
  <1>1. rows[e].status # "running"
    BY DEF Transition
  <1>2. /\ pending[e] = "none"
        /\ pending' = [pending EXCEPT ![e] = "none"]
        /\ \A w \in Worker : e \notin workers[w].picked
    BY DEF Transition, Locked, TypeOK
  <1>3. UserChange(e, row, status, "none")
    BY <1>1, <1>2 DEF UserChange, SetRow, Active
  <1> QED
    BY <1>3, ExecutionAssumption DEF Transition, Request, UserEffect, TypeOK

(* Every transaction of a user is such a change.                           *)
LEMMA UserStepShape ==
    ASSUME TypeOK, LockInv, NEW e \in Execution, UserStep(e)
    PROVE  UserEffect(e)
  <1>1. /\ ProjectOf[e] \in Project /\ MaxRequests \in Nat
        /\ requests \in 0..MaxRequests
        /\ rows[e] \in Row /\ project[ProjectOf[e]] \in ProjectStatus
        /\ project = [project EXCEPT ![ProjectOf[e]] = project[ProjectOf[e]]]
    BY ExecutionAssumption DEF TypeOK
  <1>2. rows[e].attempts \in Nat /\ MaxAttempts \in Nat /\ 0 <= rows[e].attempts
    BY <1>1, ExecutionAssumption DEF Row
  <1>3. CASE start_project_execution(e)
    <2>1. CASE Check(e, "start", {"absent"})
      BY <2>1, CheckShape, Zenon
    <2>2. CASE Commit(e, "start", NewRow("queued"), "planning")
      <3>1. /\ NewRow("queued") \in Row /\ "planning" \in ProjectStatus
            /\ NewRow("queued").status = "queued" /\ NewRow("queued").attempts = 0
        BY <1>2, ExecutionAssumption DEF NewRow, Row, Status, Active, ProjectStatus
      <3> QED  BY <1>1, <1>2, <2>2, <3>1, CommitShape
    <2> QED  BY <1>3, <2>1, <2>2 DEF start_project_execution
  <1>4. CASE resume(e)
    <2> DEFINE row == [rows[e] EXCEPT !.status = "queued"]
    <2>1. CASE Check(e, "resume", {"paused"})
      BY <2>1, CheckShape, Zenon
    <2>2. CASE Commit(e, "resume", row, project[ProjectOf[e]])
      <3>1. /\ row \in Row /\ row.status = "queued" /\ row.attempts = rows[e].attempts
            /\ row.approved = rows[e].approved
        BY <1>1 DEF Row, Status, Active
      <3> HIDE DEF row
      <3> QED  BY <1>1, <1>2, <2>2, <3>1, CommitShape
    <2> QED  BY <1>4, <2>1, <2>2 DEF resume
  <1>5. CASE rework(e)
    <2> DEFINE row == [rows[e] EXCEPT !.status = "queued", !.approved = FALSE,
                                      !.review = "not_requested", !.result = "none"]
    <2>1. CASE Check(e, "rework", {"completed", "failed", "paused"})
      BY <2>1, CheckShape, Zenon
    <2>2. CASE Commit(e, "rework", row, "planning")
      <3>1. /\ row \in Row /\ row.status = "queued" /\ row.attempts = rows[e].attempts
            /\ "planning" \in ProjectStatus
        BY <1>1 DEF Row, Status, Active, ProjectStatus
      <3> HIDE DEF row
      <3> QED  BY <1>1, <1>2, <2>2, <3>1, CommitShape
    <2> QED  BY <1>5, <2>1, <2>2 DEF rework
  <1>7. CASE pause(e)
    <2> DEFINE row == [rows[e] EXCEPT !.status = "paused"]
    <2>1. /\ row \in Row /\ row.status = "paused" /\ row.attempts = rows[e].attempts
          /\ row.approved = rows[e].approved
      BY <1>1 DEF Row, Status, Active
    <2>2. Transition(e, {"queued"}) /\ SetRow(e, row) /\ project' = project
      BY <1>7 DEF pause
    <2> HIDE DEF row
    <2> QED  BY <1>1, <1>2, <2>1, <2>2, TransitionShape DEF Active
  <1>8. CASE cancel(e)
    <2> DEFINE row == [rows[e] EXCEPT !.status = "cancelled"]
    <2>1. /\ row \in Row /\ row.status = "cancelled" /\ row.attempts = rows[e].attempts
      BY <1>1 DEF Row, Status, Active
    <2>2. Transition(e, {"queued", "paused", "failed"}) /\ SetRow(e, row) /\ SetProject(e, "cancelled")
      BY <1>8 DEF cancel
    <2> HIDE DEF row
    <2>3. /\ "running" \notin {"queued", "paused", "failed"} /\ row.status \notin Active
          /\ "cancelled" \in ProjectStatus /\ row.attempts <= rows[e].attempts
      BY <1>2, <2>1 DEF Active, ProjectStatus
    <2>4. project' = [project EXCEPT ![ProjectOf[e]] = "cancelled"]
      BY <2>2 DEF SetProject
    <2> QED  BY <2>1, <2>2, <2>3, <2>4, TransitionShape
  <1>9. ASSUME NEW row, NEW status, Transition(e, {"completed"}), SetRow(e, row),
               SetProject(e, status), row \in Row,
               row.status = rows[e].status, row.attempts = rows[e].attempts,
               row.result = rows[e].result, status \in ProjectStatus,
               status # "in_progress", status = "completed" => row.approved
        PROVE  UserEffect(e)
    <2>1. rows[e].status = "completed"
      BY <1>9 DEF Transition
    <2>2. /\ "running" \notin {"completed"} /\ row.status \notin Active
          /\ row.attempts <= rows[e].attempts
      BY <1>2, <1>9, <2>1 DEF Active
    <2>3. project' = [project EXCEPT ![ProjectOf[e]] = status]
      BY <1>9 DEF SetProject
    <2> QED
      BY <1>2, <1>9, <2>1, <2>2, <2>3, TransitionShape
  <1>10. CASE request_review(e)
    <2> DEFINE row == [rows[e] EXCEPT !.review = "pending"]
    <2>1. /\ row \in Row /\ row.status = rows[e].status /\ row.attempts = rows[e].attempts
          /\ row.result = rows[e].result
      BY <1>1 DEF Row
    <2>2. Transition(e, {"completed"}) /\ SetRow(e, row) /\ SetProject(e, "review")
      BY <1>10 DEF request_review
    <2> HIDE DEF row
    <2> QED  BY <1>9, <2>1, <2>2 DEF ProjectStatus
  <1>11. CASE reject(e)
    <2> DEFINE row == [rows[e] EXCEPT !.review = "rejected", !.approved = FALSE]
    <2>1. /\ row \in Row /\ row.status = rows[e].status /\ row.attempts = rows[e].attempts
          /\ row.result = rows[e].result
      BY <1>1 DEF Row
    <2>2. Transition(e, {"completed"}) /\ SetRow(e, row) /\ SetProject(e, "rework")
      BY <1>11 DEF reject
    <2> HIDE DEF row
    <2> QED  BY <1>9, <2>1, <2>2 DEF ProjectStatus
  <1>12. CASE approve_project_execution(e)
    <2> DEFINE row == [rows[e] EXCEPT !.approved = TRUE, !.review = "approved"]
    <2>1. /\ row \in Row /\ row.status = rows[e].status /\ row.attempts = rows[e].attempts
          /\ row.result = rows[e].result /\ row.approved
      BY <1>1 DEF Row
    <2>2. Transition(e, {"completed"}) /\ SetRow(e, row) /\ SetProject(e, "completed")
      BY <1>12 DEF approve_project_execution
    <2> HIDE DEF row
    <2> QED  BY <1>9, <2>1, <2>2 DEF ProjectStatus
  <1> QED
    BY <1>3, <1>4, <1>5, <1>7, <1>8, <1>10, <1>11, <1>12 DEF UserStep

-----------------------------------------------------------------------------
(* Type correctness. *)

(* The types of the parts a step works on.                                 *)
LEMMA Types ==
    ASSUME TypeOK
    PROVE  /\ \A e \in Execution : rows[e] \in Row /\ ProjectOf[e] \in Project
           /\ \A e \in Execution, n \in Attempt : tasks[e][n] \in Task
           /\ MaxAttempts \in Nat \ {0} /\ LeaseSeconds \in Nat \ {0}
           /\ RetryDelay \in Nat \ {0} /\ MaxRequests \in Nat
           /\ NoTask \in Task
  BY ExecutionAssumption DEF TypeOK, NoTask, Task

(* What a row becomes when its attempt ends is a row.                      *)
LEMMA SettledType ==
    ASSUME NEW row \in Row, NEW status \in Status
    PROVE  /\ Settled(row, status) \in Row
           /\ Settled(row, status).status = status
           /\ Settled(row, status).token = 0
           /\ Settled(row, status).attempts = row.attempts
           /\ Settled(row, status).approved = row.approved
           /\ Settled(row, status).result = row.result
  <1>1. MaxAttempts \in Nat /\ LeaseSeconds \in Nat
    BY ExecutionAssumption
  <1>2. 0 \in 0..MaxAttempts /\ 0 \in 0..LeaseSeconds /\ NoWorker \in Worker \cup {NoWorker}
    BY <1>1
  <1>3. Settled(row, status) \in Row
    BY <1>2 DEF Settled, Row
  <1> QED
    BY <1>3 DEF Settled, Row

(* So is the row of a failed attempt, queued again or dead-lettered.       *)
LEMMA FailedRowType ==
    ASSUME NEW row \in Row, NEW error
    PROVE  /\ FailedRow(row, error) \in Row
           /\ FailedRow(row, error).status \in {"queued", "failed"}
           /\ FailedRow(row, error).token = 0
           /\ FailedRow(row, error).attempts = row.attempts
           /\ FailedRow(row, error).approved = row.approved
  <1>1. "queued" \in Status /\ "failed" \in Status
    BY DEF Status, Active
  <1>2. RetryDelay \in 0..RetryDelay
    BY ExecutionAssumption
  <1>3. Settled(row, "queued") \in Row /\ Settled(row, "failed") \in Row
    BY <1>1, SettledType
  <1>4. [Settled(row, "queued") EXCEPT !.delay = RetryDelay] \in Row
    BY <1>2, <1>3 DEF Row
  <1> QED
    BY <1>1, <1>3, <1>4, SettledType DEF FailedRow, Row

(* Leaving a task and ending a thread keep the table of tasks.             *)
LEMMA TasksType ==
    ASSUME TypeOK, NEW e \in Execution, NEW n \in Attempt,
           \/ Leave(e, n)
           \/ \E outcome \in Result \cup Failure : Returns(e, n, outcome)
           \/ Builds(e, n)
    PROVE  tasks' \in [Execution -> [Attempt -> Task]]
  <1>1. tasks[e][n] \in Task /\ NoTask \in Task /\ tasks \in [Execution -> [Attempt -> Task]]
    BY Types DEF TypeOK
  <1>2. CASE Leave(e, n)
    <2>1. [tasks[e][n] EXCEPT !.task = "done"] \in Task
      BY <1>1 DEF Task
    <2> QED  BY <1>1, <1>2, <2>1 DEF Leave
  <1>3. ASSUME NEW outcome \in Result \cup Failure, Returns(e, n, outcome)
        PROVE  tasks' \in [Execution -> [Attempt -> Task]]
    <2>1. [tasks[e][n] EXCEPT !.thread = outcome] \in Task
      BY <1>1 DEF Task
    <2> QED  BY <1>1, <1>3, <2>1 DEF Returns
  <1>4. CASE Builds(e, n)
    <2>1. [tasks[e][n] EXCEPT !.thread = "build"] \in Task
      BY <1>1 DEF Task
    <2> QED  BY <1>1, <1>4, <2>1 DEF Builds
  <1> QED
    BY <1>2, <1>3, <1>4

(* Every step keeps the types; a claim stays within the attempts because   *)
(* the row it picked is locked.                                            *)
LEMMA TypeStep ==
    ASSUME TypeOK, LockInv, [Next]_vars
    PROVE  TypeOK'
  <1> USE Types
  <1>1. CASE UNCHANGED vars
    BY <1>1 DEF TypeOK, vars
  <1>2. ASSUME NEW e \in Execution, UserStep(e) PROVE TypeOK'
    <2>1. PICK row, status, request : UserChange(e, row, status, request)
      BY <1>2, UserStepShape DEF UserEffect
    <2> QED  BY <1>2, <2>1, UserStepShape DEF UserEffect, UserChange, TypeOK
  <1>3. CASE close_admission \/ open_admission
    BY <1>3 DEF close_admission, open_admission, SetGate, TypeOK
  <1>4. ASSUME NEW w \in Worker, Select(w) PROVE TypeOK'
    <2>1. rows' \in [Execution -> Row]
      <3>1. "failed" \in Status
        BY DEF Status
      <3> QED  BY <1>4, <3>1, SettledType DEF Select, reap_exhausted_leases, TypeOK
    <2>2. project' \in [Project -> ProjectStatus]
      BY <1>4 DEF Select, reap_exhausted_leases, TypeOK, ProjectStatus
    <2>3. workers' \in [Worker -> [phase : {"poll", "commit", "draining", "gone"},
                                   picked : SUBSET Execution]]
      <3>1. CASE UNCHANGED workers
        BY <3>1 DEF TypeOK
      <3>2. ASSUME NEW e \in Eligible,
                   workers' = [workers EXCEPT ![w] = [phase |-> "commit", picked |-> {e}]]
            PROVE  workers' \in [Worker -> [phase : {"poll", "commit", "draining", "gone"},
                                            picked : SUBSET Execution]]
        <4>1. e \in Execution
          BY DEF Eligible
        <4> QED  BY <3>2, <4>1 DEF TypeOK
      <3> QED  BY <1>4, <3>1, <3>2 DEF Select
    <2> QED  BY <1>4, <2>1, <2>2, <2>3 DEF Select, TypeOK
  <1>5. ASSUME NEW w \in Worker, claim(w) PROVE TypeOK'
    <2>1. PICK e \in workers[w].picked :
             /\ rows' = [rows EXCEPT ![e] = [rows[e] EXCEPT
                   !.status = "running", !.attempts = rows[e].attempts + 1,
                   !.token = rows[e].attempts + 1, !.owner = w,
                   !.lease = LeaseSeconds, !.delay = 0]]
             /\ SetProject(e, "in_progress")
             /\ tasks' = [tasks EXCEPT ![e][rows[e].attempts + 1] =
                   [worker |-> w, task |-> "load", thread |-> "none"]]
      BY <1>5 DEF claim, SetRow
    <2>2. e \in Execution /\ PickedOK(w, e)
      BY DEF TypeOK, LockInv
    <2>3. rows[e].attempts + 1 \in Attempt /\ rows[e].attempts + 1 \in 0..MaxAttempts
      BY <2>2 DEF PickedOK, Row, Attempt
    <2>4. rows' \in [Execution -> Row]
      <3>1. [rows[e] EXCEPT
                   !.status = "running", !.attempts = rows[e].attempts + 1,
                   !.token = rows[e].attempts + 1, !.owner = w,
                   !.lease = LeaseSeconds, !.delay = 0] \in Row
        <4>1. LeaseSeconds \in 0..LeaseSeconds /\ 0 \in 0..RetryDelay
              /\ "running" \in Status /\ rows[e] \in Row
          BY <2>2, ExecutionAssumption DEF Status, Active
        <4> QED  BY <2>3, <4>1 DEF Row
      <3> QED  BY <2>1, <2>2, <3>1 DEF TypeOK
    <2>5. tasks' \in [Execution -> [Attempt -> Task]]
      BY <2>1, <2>2, <2>3 DEF TypeOK, Task
    <2>6. project' \in [Project -> ProjectStatus]
      BY <2>1, <2>2 DEF TypeOK, SetProject, ProjectStatus
    <2>7. workers' \in [Worker -> [phase : {"poll", "commit", "draining", "gone"},
                                   picked : SUBSET Execution]]
      BY <1>5 DEF claim, TypeOK
    <2> QED  BY <1>5, <2>4, <2>5, <2>6, <2>7 DEF claim, TypeOK
  <1>6. ASSUME NEW w \in Worker, Drain(w) \/ Crash(w) PROVE TypeOK'
    <2>1. CASE Drain(w)
      BY <2>1 DEF Drain, TypeOK
    <2>2. CASE Crash(w)
      BY <2>2 DEF Crash, TypeOK
    <2> QED  BY <1>6, <2>1, <2>2
  <1>7. ASSUME NEW e \in Execution, NEW n \in Attempt,
               load_payload(e, n) \/ renew(e, n) PROVE TypeOK'
    <2>1. tasks' \in [Execution -> [Attempt -> Task]]
      <3>1. CASE Leave(e, n)
        BY <3>1, TasksType
      <3>2. CASE UNCHANGED tasks
        BY <3>2 DEF TypeOK
      <3>3. CASE tasks' = [tasks EXCEPT ![e][n].task = "wait", ![e][n].thread = "start"]
        <4>1. [tasks[e][n] EXCEPT !.task = "wait", !.thread = "start"] \in Task
          BY DEF Task
        <4>2. tasks' = [tasks EXCEPT ![e] = [tasks[e] EXCEPT ![n] =
                          [tasks[e][n] EXCEPT !.task = "wait", !.thread = "start"]]]
          BY <3>3 DEF TypeOK, Task
        <4> QED  BY <4>1, <4>2 DEF TypeOK
      <3> QED  BY <1>7, <3>1, <3>2, <3>3 DEF load_payload, renew
    <2>2. rows' \in [Execution -> Row]
      <3>1. [rows[e] EXCEPT !.lease = LeaseSeconds] \in Row
        BY DEF Row
      <3> QED  BY <1>7, <3>1 DEF load_payload, renew, TypeOK
    <2> QED  BY <1>7, <2>1, <2>2 DEF load_payload, renew, TypeOK
  <1>8. ASSUME NEW e \in Execution, NEW n \in Attempt, complete(e, n) PROVE TypeOK'
    <2> DEFINE row == [Settled(rows[e], "completed") EXCEPT
                         !.delay = 0, !.approved = (tasks[e][n].thread = "approved"),
                         !.result = tasks[e][n].thread]
    <2>1. row \in Row
      <3>1. "completed" \in Status /\ tasks[e][n].thread \in Result
        BY <1>8 DEF Status, complete
      <3>2. Settled(rows[e], "completed") \in Row
        BY <3>1, SettledType
      <3>3. 0 \in 0..RetryDelay
        BY ExecutionAssumption
      <3> HIDE DEF Settled
      <3> QED  BY <3>1, <3>2, <3>3 DEF Row
    <2>2. rows' \in [Execution -> Row] /\ project' \in [Project -> ProjectStatus]
      BY <1>8, <2>1 DEF complete, SetRow, SetProject, TypeOK, ProjectStatus
    <2> QED  BY <1>8, <2>2, TasksType DEF complete, TypeOK
  <1>9. ASSUME NEW e \in Execution, NEW n \in Attempt, Fails(e, n) PROVE TypeOK'
    <2>1. PICK error : fail(e, n, error)
      BY <1>9 DEF Fails
    <2>2. rows' \in [Execution -> Row] /\ project' \in [Project -> ProjectStatus]
      <3>1. FailedRow(rows[e], error) \in Row
        BY FailedRowType
      <3>2. rows' = rows \/ rows' = [rows EXCEPT ![e] = FailedRow(rows[e], error)]
        BY <2>1 DEF fail, SetRow
      <3>3. project' = project \/ project' = [project EXCEPT ![ProjectOf[e]] = "planning"]
        BY <2>1 DEF fail, SetProject
      <3>4. rows' \in [Execution -> Row]
        BY <3>1, <3>2 DEF TypeOK
      <3> QED  BY <3>3, <3>4 DEF TypeOK, ProjectStatus
    <2> QED  BY <2>1, <2>2, TasksType DEF fail, TypeOK
  <1>10. ASSUME NEW e \in Execution, NEW n \in Attempt,
                RunnerStarts(e, n) \/ RunnerReports(e, n) \/ RunnerEnds(e, n)
         PROVE  TypeOK'
    <2>1. tasks' \in [Execution -> [Attempt -> Task]]
      <3>1. \/ UNCHANGED tasks \/ Builds(e, n)
            \/ \E outcome \in Result \cup Failure : Returns(e, n, outcome)
        BY <1>10 DEF RunnerStarts, RunnerReports, RunnerEnds, Failure
      <3> QED  BY <3>1, TasksType DEF TypeOK
    <2>2. job' \in [Execution -> {"empty", "staging"} \cup Result]
      BY <1>10 DEF RunnerStarts, RunnerReports, RunnerEnds, Builds, TypeOK
    <2>3. project' \in [Project -> ProjectStatus]
      BY <1>10 DEF RunnerStarts, RunnerReports, RunnerEnds, SetProject, TypeOK, ProjectStatus
    <2> QED  BY <1>10, <2>1, <2>2, <2>3 DEF RunnerStarts, RunnerReports, RunnerEnds, TypeOK
  <1>11. CASE Tick
    <2>1. \A e \in Execution : rows'[e] \in Row
      <3> SUFFICES ASSUME NEW e \in Execution PROVE rows'[e] \in Row
        OBVIOUS
      <3>1. /\ (IF rows[e].lease > 0 THEN rows[e].lease - 1 ELSE rows[e].lease)
                  \in 0..LeaseSeconds
            /\ (IF rows[e].delay > 0 THEN rows[e].delay - 1 ELSE rows[e].delay)
                  \in 0..RetryDelay
        BY DEF Row
      <3>2. rows'[e] = [rows[e] EXCEPT
               !.lease = IF rows[e].lease > 0 THEN rows[e].lease - 1 ELSE rows[e].lease,
               !.delay = IF rows[e].delay > 0 THEN rows[e].delay - 1 ELSE rows[e].delay]
        BY <1>11 DEF Tick, Row
      <3> QED  BY <3>1, <3>2 DEF Row
    <2> QED  BY <1>11, <2>1 DEF Tick, TypeOK
  <1> QED
    BY <1>1, <1>2, <1>3, <1>4, <1>5, <1>6, <1>7, <1>8, <1>9, <1>10, <1>11, NextCases

-----------------------------------------------------------------------------
(* Row locks and the gate. *)

(* A step that writes unlocked records only, and leaves the locks alone,   *)
(* keeps what the locks protect.                                           *)
LEMMA UnlockedStep ==
    ASSUME TypeOK, LockInv,
           UNCHANGED <<workers, pending>>,
           \A e \in Execution : Locked(e) => rows'[e] = rows[e]
    PROVE  LockInv'
  <1>1. ASSUME NEW w \in Worker, NEW e \in Execution, e \in workers'[w].picked
        PROVE  PickedOK(w, e)'
    <2>1. Locked(e) /\ PickedOK(w, e)
      BY <1>1 DEF Locked, LockInv
    <2> QED  BY <2>1 DEF PickedOK
  <1>2. ASSUME NEW e \in Execution PROVE PendingOK(e)'
    <2>1. PendingOK(e) /\ (pending[e] # "none" => rows'[e] = rows[e])
      BY DEF Locked, LockInv
    <2> QED  BY <2>1 DEF PendingOK
  <1> QED
    BY <1>1, <1>2 DEF LockInv

(* What an attempt writes, it writes to a record that nobody has locked.   *)
LEMMA AttemptWrites ==
    ASSUME TypeOK, NEW e \in Execution, NEW n \in Attempt,
           \/ load_payload(e, n) \/ renew(e, n) \/ complete(e, n) \/ Fails(e, n)
           \/ RunnerStarts(e, n) \/ RunnerReports(e, n) \/ RunnerEnds(e, n)
    PROVE  /\ UNCHANGED <<workers, pending, gate, requests>>
           /\ \A f \in Execution : f # e \/ Locked(f) => rows'[f] = rows[f]
  <1>1. CASE load_payload(e, n) \/ RunnerStarts(e, n) \/ RunnerReports(e, n) \/ RunnerEnds(e, n)
    BY <1>1 DEF load_payload, RunnerStarts, RunnerReports, RunnerEnds
  <1>2. CASE renew(e, n)
    BY <1>2 DEF renew, TypeOK
  <1>3. CASE complete(e, n)
    <2>1. ~Locked(e) /\ (rows' = rows \/ \E row : SetRow(e, row))
      BY <1>3 DEF complete
    <2> QED  BY <1>3, <2>1 DEF complete, SetRow, TypeOK
  <1>4. CASE Fails(e, n)
    <2>1. PICK error : ~Locked(e) /\ fail(e, n, error)
      BY <1>4 DEF Fails
    <2> QED  BY <2>1 DEF fail, SetRow, TypeOK
  <1> QED
    BY <1>1, <1>2, <1>3, <1>4

(* The claim's transaction picks a record that nobody had locked, and that *)
(* its own dead letters leave alone.                                       *)
LEMMA SelectLocks ==
    ASSUME TypeOK, LockInv, NEW w \in Worker, Select(w)
    PROVE  LockInv'
  <1> USE Types
  <1>1. \A e \in Execution : Locked(e) => rows'[e] = rows[e]
    BY DEF Select, reap_exhausted_leases
  <1>2. CASE UNCHANGED workers
    BY <1>1, <1>2, UnlockedStep DEF Select
  <1>3. ASSUME NEW e \in Eligible,
               workers' = [workers EXCEPT ![w] = [phase |-> "commit", picked |-> {e}]]
        PROVE  LockInv'
    <2>1. /\ e \in Execution /\ ~Locked(e)
          /\ EligibleQueued(e) \/ EligibleRecovery(e)
      BY DEF Eligible
    <2>2. /\ rows[e].status \in Active
          /\ rows[e].status = "running" => rows[e].lease = 0
          /\ rows[e].attempts < MaxAttempts
      BY <2>1 DEF EligibleQueued, EligibleRecovery, Active
    <2>3. rows'[e] = rows[e]
      <3>1. ~Exhausted(e)
        BY <2>1, <2>2 DEF Exhausted, Row
      <3> QED  BY <2>1, <3>1 DEF Select, reap_exhausted_leases
    <2>4. pending' = pending
      BY DEF Select
    <2>5. ASSUME NEW v \in Worker, NEW f \in Execution, f \in workers'[v].picked
          PROVE  PickedOK(v, f)'
      <3>1. CASE v = w
        <4>1. f = e
          BY <1>3, <2>5, <3>1 DEF TypeOK
        <4>2. \A u \in Worker : e \in workers'[u].picked => u = w
          BY <1>3, <2>1 DEF Locked, TypeOK
        <4>3. pending[e] = "none"
          BY <2>1 DEF Locked
        <4> QED  BY <2>2, <2>3, <2>4, <3>1, <4>1, <4>2, <4>3 DEF PickedOK
      <3>2. CASE v # w
        <4>1. f \in workers[v].picked /\ f # e
          BY <1>3, <2>1, <2>5, <3>2 DEF Locked, TypeOK
        <4>2. PickedOK(v, f) /\ rows'[f] = rows[f]
          BY <1>1, <4>1 DEF LockInv, Locked
        <4>3. \A u \in Worker : f \in workers'[u].picked => f \in workers[u].picked
          BY <1>3, <4>1 DEF TypeOK
        <4> QED  BY <2>4, <4>2, <4>3 DEF PickedOK
      <3> QED  BY <3>1, <3>2
    <2>6. ASSUME NEW f \in Execution PROVE PendingOK(f)'
      <3>1. PendingOK(f) /\ (pending[f] # "none" => rows'[f] = rows[f])
        BY <1>1 DEF Locked, LockInv
      <3> QED  BY <2>4, <3>1 DEF PendingOK
    <2> QED
      BY <2>5, <2>6 DEF LockInv
  <1> QED
    BY <1>2, <1>3 DEF Select

(* Every step keeps what the row locks protect.                            *)
LEMMA LockStep ==
    ASSUME TypeOK, LockInv, [Next]_vars
    PROVE  LockInv'
  <1>1. CASE UNCHANGED vars
    BY <1>1, UnlockedStep DEF vars
  <1>2. ASSUME NEW e \in Execution, UserStep(e) PROVE LockInv'
    <2>1. workers' = workers
      BY <1>2, UserStepShape DEF UserEffect
    <2>2. PICK row, status, request : UserChange(e, row, status, request)
      BY <1>2, UserStepShape DEF UserEffect
    <2>3. \A f \in Execution \ {e} : rows'[f] = rows[f] /\ pending'[f] = pending[f]
      BY <2>2 DEF UserChange, TypeOK
    <2>4. rows'[e] = row /\ pending'[e] = request
      BY <2>2 DEF UserChange, TypeOK
    <2>5. ASSUME NEW w \in Worker, NEW f \in Execution, f \in workers'[w].picked
          PROVE  PickedOK(w, f)'
      <3>1. f # e /\ PickedOK(w, f)
        BY <2>1, <2>2, <2>5 DEF UserChange, LockInv
      <3> QED  BY <2>1, <2>3, <3>1 DEF PickedOK
    <2>6. ASSUME NEW f \in Execution PROVE PendingOK(f)'
      <3>1. CASE f = e
        BY <2>2, <2>4, <3>1 DEF UserChange, PendingOK
      <3>2. CASE f # e
        BY <2>3, <3>2 DEF LockInv, PendingOK
      <3> QED  BY <3>1, <3>2
    <2> QED  BY <2>5, <2>6 DEF LockInv
  <1>3. CASE close_admission \/ open_admission
    BY <1>3, UnlockedStep DEF close_admission, open_admission, SetGate
  <1>4. ASSUME NEW w \in Worker, Select(w) PROVE LockInv'
    BY <1>4, SelectLocks
  <1>5. ASSUME NEW w \in Worker, claim(w) PROVE LockInv'
    <2>1. PICK e \in workers[w].picked : \E row : rows' = [rows EXCEPT ![e] = row]
      BY <1>5 DEF claim, SetRow
    <2>2. /\ pending' = pending
          /\ workers' = [workers EXCEPT ![w] = [phase |-> "poll", picked |-> {}]]
      BY <1>5 DEF claim
    <2>3. e \in Execution /\ PickedOK(w, e)
      BY DEF TypeOK, LockInv
    <2>4. \A f \in Execution \ {e} : rows'[f] = rows[f]
      BY <2>1 DEF TypeOK
    <2>5. \A v \in Worker : workers'[v].picked \subseteq workers[v].picked
                            /\ (v = w => workers'[v].picked = {})
      BY <2>2 DEF TypeOK
    <2>6. ASSUME NEW v \in Worker, NEW f \in Execution, f \in workers'[v].picked
          PROVE  PickedOK(v, f)'
      <3>1. v # w /\ f \in workers[v].picked
        BY <2>5, <2>6
      <3>2. f # e /\ PickedOK(v, f)
        BY <2>3, <3>1 DEF LockInv, PickedOK
      <3> QED  BY <2>2, <2>4, <2>5, <3>2 DEF PickedOK
    <2>7. ASSUME NEW f \in Execution PROVE PendingOK(f)'
      <3>1. PendingOK(f) /\ pending[e] = "none"
        BY <2>3 DEF LockInv, PickedOK
      <3> QED  BY <2>2, <2>4, <3>1 DEF PendingOK
    <2> QED  BY <2>6, <2>7 DEF LockInv
  <1>6. ASSUME NEW w \in Worker, Drain(w) \/ Crash(w) PROVE LockInv'
    <2>1. UNCHANGED <<rows, pending>>
      BY <1>6 DEF Drain, Crash
    <2>2. \A v \in Worker : workers'[v].picked \subseteq workers[v].picked
      BY <1>6 DEF Drain, Crash, TypeOK
    <2>3. ASSUME NEW v \in Worker, NEW f \in Execution, f \in workers'[v].picked
          PROVE  PickedOK(v, f)'
      <3>1. PickedOK(v, f)
        BY <2>2, <2>3 DEF LockInv
      <3> QED  BY <2>1, <2>2, <3>1 DEF PickedOK
    <2>4. \A f \in Execution : PendingOK(f)'
      BY <2>1 DEF LockInv, PendingOK
    <2> QED  BY <2>3, <2>4 DEF LockInv
  <1>7. ASSUME NEW e \in Execution, NEW n \in Attempt,
               \/ load_payload(e, n) \/ renew(e, n) \/ complete(e, n) \/ Fails(e, n)
               \/ RunnerStarts(e, n) \/ RunnerReports(e, n) \/ RunnerEnds(e, n)
        PROVE  LockInv'
    BY <1>7, AttemptWrites, UnlockedStep
  <1>8. CASE Tick
    <2>1. UNCHANGED <<workers, pending>>
      BY <1>8 DEF Tick
    <2>2. \A e \in Execution :
             /\ rows'[e].status = rows[e].status /\ rows'[e].attempts = rows[e].attempts
             /\ rows[e].lease = 0 => rows'[e].lease = 0
      <3> SUFFICES ASSUME NEW e \in Execution
                   PROVE  /\ rows'[e].status = rows[e].status
                          /\ rows'[e].attempts = rows[e].attempts
                          /\ rows[e].lease = 0 => rows'[e].lease = 0
        OBVIOUS
      <3>1. rows[e] \in Row /\ rows \in [Execution -> Row]
        BY Types DEF TypeOK
      <3>2. rows'[e] = [rows[e] EXCEPT
               !.lease = IF rows[e].lease > 0 THEN rows[e].lease - 1 ELSE rows[e].lease,
               !.delay = IF rows[e].delay > 0 THEN rows[e].delay - 1 ELSE rows[e].delay]
        BY <1>8, <3>1 DEF Tick, Row
      <3> QED  BY <3>1, <3>2 DEF Row
    <2>3. ASSUME NEW w \in Worker, NEW e \in Execution, e \in workers'[w].picked
          PROVE  PickedOK(w, e)'
      <3>1. PickedOK(w, e)
        BY <2>1, <2>3 DEF LockInv
      <3> QED  BY <2>1, <2>2, <3>1 DEF PickedOK
    <2>4. \A e \in Execution : PendingOK(e)'
      BY <2>1, <2>2 DEF LockInv, PendingOK
    <2> QED  BY <2>3, <2>4 DEF LockInv
  <1> QED
    BY <1>1, <1>2, <1>3, <1>4, <1>5, <1>6, <1>7, <1>8, NextCases

(* The gate is locked while it changes and while a claim is under way.     *)
LEMMA GateStep ==
    ASSUME TypeOK, LockInv, GateInv, [Next]_vars
    PROVE  GateInv'
  <1>1. CASE UNCHANGED vars
    BY <1>1 DEF GateInv, vars
  <1>2. ASSUME NEW e \in Execution, UserStep(e) PROVE GateInv'
    BY <1>2, UserStepShape DEF UserEffect, GateInv
  <1>3. CASE close_admission \/ open_admission
    BY <1>3 DEF close_admission, open_admission, SetGate, Admitting, GateInv
  <1>4. ASSUME NEW w \in Worker, Select(w) \/ claim(w) \/ Drain(w) \/ Crash(w) PROVE GateInv'
    <2>1. UNCHANGED gate /\ \A v \in Worker : workers[v].phase = "commit" => gate = "open"
      BY <1>4 DEF Select, claim, Drain, Crash, GateInv
    <2>2. \A v \in Worker : workers'[v].phase = "commit" =>
             workers[v].phase = "commit" \/ gate = "open"
      <3>1. CASE Select(w)
        BY <3>1 DEF Select, TypeOK
      <3>2. CASE claim(w)
        BY <3>2 DEF claim, TypeOK
      <3>3. CASE Drain(w)
        BY <3>3 DEF Drain, TypeOK
      <3>4. CASE Crash(w)
        BY <3>4 DEF Crash, TypeOK
      <3> QED  BY <1>4, <3>1, <3>2, <3>3, <3>4
    <2> QED  BY <2>1, <2>2 DEF GateInv
  <1>5. ASSUME NEW e \in Execution, NEW n \in Attempt,
               \/ load_payload(e, n) \/ renew(e, n) \/ complete(e, n) \/ Fails(e, n)
               \/ RunnerStarts(e, n) \/ RunnerReports(e, n) \/ RunnerEnds(e, n)
        PROVE  GateInv'
    BY <1>5, AttemptWrites DEF GateInv
  <1>6. CASE Tick
    BY <1>6 DEF Tick, GateInv
  <1> QED
    BY <1>1, <1>2, <1>3, <1>4, <1>5, <1>6, NextCases

-----------------------------------------------------------------------------
(* Evidence. *)

Ended == {"build"} \cup Result

(* A step that leaves the directories alone keeps what they say of their   *)
(* threads and records, if a record completes with what its directory      *)
(* holds and a thread returns what its directory holds.                    *)
LEMMA JobQuiet ==
    ASSUME JobInv, job' = job,
           \A e \in Execution : rows'[e].status = "completed" =>
               \/ rows[e].status = "completed" /\ rows'[e].result = rows[e].result
               \/ rows'[e].result \in Result /\ rows'[e].result = job[e],
           \A e \in Execution, n \in Attempt : tasks'[e][n].thread \in Ended =>
               \/ tasks'[e][n].thread = tasks[e][n].thread
               \/ tasks'[e][n].thread \in Result /\ tasks'[e][n].thread = job[e]
    PROVE  JobInv'
  <1> SUFFICES ASSUME NEW e \in Execution PROVE JobOK(e)'
    BY DEF JobInv
  <1>1. JobOK(e)
    BY DEF JobInv
  <1>2. "build" \notin Result
    BY DEF Result
  <1>3. \A n \in Attempt : tasks'[e][n].thread = "build" => tasks[e][n].thread = "build"
    BY <1>2 DEF Ended
  <1>4. \A n \in Attempt : tasks'[e][n].thread \in Result => job'[e] = tasks'[e][n].thread
    BY <1>1 DEF Ended, JobOK
  <1>5. rows'[e].status = "completed" => rows'[e].result \in Result /\ rows'[e].result = job'[e]
    BY <1>1 DEF JobOK
  <1> QED
    BY <1>1, <1>3, <1>4, <1>5 DEF JobOK

(* What leaving a task and ending a thread do to the threads.              *)
LEMMA ThreadEffects ==
    ASSUME TypeOK, NEW e \in Execution, NEW n \in Attempt
    PROVE  /\ Leave(e, n) => \A f \in Execution, m \in Attempt :
                 tasks'[f][m].thread \in {tasks[f][m].thread, "none"}
           /\ \A outcome : Returns(e, n, outcome) =>
                 /\ tasks'[e][n].thread \in {outcome, "none"}
                 /\ \A f \in Execution, m \in Attempt :
                       <<f, m>> # <<e, n>> => tasks'[f][m] = tasks[f][m]
           /\ Builds(e, n) =>
                 /\ tasks'[e][n].thread = "build"
                 /\ \A f \in Execution, m \in Attempt :
                       <<f, m>> # <<e, n>> => tasks'[f][m] = tasks[f][m]
  <1>1. tasks \in [Execution -> [Attempt -> Task]] /\ tasks[e][n] \in Task
        /\ NoTask.thread = "none"
    BY Types DEF TypeOK, NoTask
  <1>2. [tasks[e][n] EXCEPT !.task = "done"].thread = tasks[e][n].thread
        /\ \A outcome : [tasks[e][n] EXCEPT !.thread = outcome].thread = outcome
    BY <1>1 DEF Task
  <1>3. ASSUME Leave(e, n)
        PROVE  \A f \in Execution, m \in Attempt :
                  tasks'[f][m].thread \in {tasks[f][m].thread, "none"}
    BY <1>1, <1>2, <1>3 DEF Leave
  <1>4. ASSUME NEW outcome, Returns(e, n, outcome)
        PROVE  /\ tasks'[e][n].thread \in {outcome, "none"}
               /\ \A f \in Execution, m \in Attempt :
                     <<f, m>> # <<e, n>> => tasks'[f][m] = tasks[f][m]
    BY <1>1, <1>2, <1>4 DEF Returns
  <1>5. ASSUME Builds(e, n)
        PROVE  /\ tasks'[e][n].thread = "build"
               /\ \A f \in Execution, m \in Attempt :
                     <<f, m>> # <<e, n>> => tasks'[f][m] = tasks[f][m]
    BY <1>1, <1>2, <1>5 DEF Builds
  <1> QED
    BY <1>3, <1>4, <1>5

(* A thread that starts finds its directory's result, another's staging    *)
(* directory, or nothing, and only then builds.                            *)
LEMMA StartsKeepsJob ==
    ASSUME TypeOK, JobInv, NEW e \in Execution, NEW n \in Attempt, RunnerStarts(e, n)
    PROVE  JobInv'
  <1>1. rows' = rows
    BY DEF RunnerStarts
  <1>2. CASE job' = job /\ \E outcome \in Failure \cup {job[e]} :
               Returns(e, n, outcome) /\ (outcome \in Failure \/ outcome \in Result)
    <2>1. PICK outcome \in Failure \cup {job[e]} :
             Returns(e, n, outcome) /\ (outcome \in Failure \/ outcome \in Result)
      BY <1>2
    <2>2. \A f \in Failure : f \notin Ended
      BY DEF Failure, Ended, Result
    <2>3. \A f \in Execution, m \in Attempt : tasks'[f][m].thread \in Ended =>
               \/ tasks'[f][m].thread = tasks[f][m].thread
               \/ tasks'[f][m].thread \in Result /\ tasks'[f][m].thread = job[f]
      <3> SUFFICES ASSUME NEW f \in Execution, NEW m \in Attempt, tasks'[f][m].thread \in Ended
                   PROVE  \/ tasks'[f][m].thread = tasks[f][m].thread
                          \/ tasks'[f][m].thread \in Result /\ tasks'[f][m].thread = job[f]
        OBVIOUS
      <3>1. CASE <<f, m>> # <<e, n>>
        BY <2>1, <3>1, ThreadEffects
      <3>2. CASE <<f, m>> = <<e, n>>
        <4>1. f = e /\ m = n /\ "none" \notin Ended
          BY <3>2 DEF Ended, Result
        <4>2. tasks'[e][n].thread \in {outcome, "none"}
          BY <2>1, ThreadEffects
        <4> QED  BY <2>1, <2>2, <4>1, <4>2
      <3> QED  BY <3>1, <3>2
    <2> QED  BY <1>1, <1>2, <2>3, JobQuiet
  <1>3. CASE job[e] = "empty" /\ Builds(e, n)
    <2>1. job' = [job EXCEPT ![e] = "staging"] /\ job'[e] = "staging"
      BY <1>3 DEF Builds, TypeOK
    <2>2. \A f \in Execution, m \in Attempt :
             <<f, m>> # <<e, n>> => tasks'[f][m] = tasks[f][m]
      BY <1>3, ThreadEffects
    <2>3. ASSUME NEW f \in Execution PROVE JobOK(f)'
      <3>1. JobOK(f)
        BY DEF JobInv
      <3>2. CASE f # e
        <4>1. job'[f] = job[f] /\ \A m \in Attempt : tasks'[f][m] = tasks[f][m]
          BY <2>1, <2>2, <3>2 DEF TypeOK
        <4> QED  BY <1>1, <3>1, <4>1 DEF JobOK
      <3>3. CASE f = e
        <4>1. /\ "empty" \notin Result /\ "staging" \notin Result
              /\ "build" \notin Result
          BY DEF Result
        <4>2. /\ rows[e].status # "completed"
              /\ \A m \in Attempt : tasks[e][m].thread \notin Ended
          BY <1>3, <3>1, <3>3, <4>1 DEF JobOK, Ended
        <4>3. \A m \in Attempt : tasks'[e][m].thread \in Ended => m = n
          BY <2>2, <4>2
        <4>4. tasks'[e][n].thread = "build"
          BY <1>3, ThreadEffects
        <4>5. \A m \in Attempt : tasks'[e][m].thread \in Result => FALSE
          BY <4>1, <4>3, <4>4 DEF Ended
        <4> QED  BY <1>1, <2>1, <3>3, <4>2, <4>3, <4>5 DEF JobOK, Ended
      <3> QED  BY <3>2, <3>3
    <2> QED  BY <2>3 DEF JobInv
  <1> QED
    BY <1>2, <1>3 DEF RunnerStarts, Failure

(* A thread that ends takes its staging directory away, or leaves a result *)
(* in its place, which is the one it returns.                              *)
LEMMA EndsKeepsJob ==
    ASSUME TypeOK, JobInv, NEW e \in Execution, NEW n \in Attempt,
           tasks[e][n].thread = "build", rows' = rows,
           NEW outcome \in Result \cup Failure, Returns(e, n, outcome),
           NEW kept \in {"empty"} \cup Result, job' = [job EXCEPT ![e] = kept],
           outcome \in Result => kept = outcome
    PROVE  JobInv'
  <1>1. \A f \in Execution, m \in Attempt :
           <<f, m>> # <<e, n>> => tasks'[f][m] = tasks[f][m]
    BY ThreadEffects
  <1>2. ASSUME NEW f \in Execution PROVE JobOK(f)'
    <2>1. JobOK(f)
      BY DEF JobInv
    <2>2. CASE f # e
      <3>1. job'[f] = job[f] /\ \A m \in Attempt : tasks'[f][m] = tasks[f][m]
        BY <1>1, <2>2 DEF TypeOK
      <3> QED  BY <2>1, <3>1 DEF JobOK
    <2>3. CASE f = e
      <3>1. "staging" \notin Result /\ "build" \notin Result /\ "none" \notin Ended
        BY DEF Result, Ended
      <3>2. job[e] = "staging" /\ job'[e] = kept
        BY <2>1, <2>3 DEF JobOK, TypeOK
      <3>3. /\ rows[e].status # "completed"
            /\ \A m \in Attempt : m # n => tasks[e][m].thread \notin Ended
        BY <2>1, <2>3, <3>1, <3>2 DEF JobOK, Ended
      <3>4. \A m \in Attempt : tasks'[e][m].thread \in Ended => m = n
        BY <1>1, <3>3
      <3>5. tasks'[e][n].thread \in {outcome, "none"} /\ outcome # "build"
        BY ThreadEffects DEF Result, Failure
      <3>6. tasks'[e][n].thread # "build"
        BY <3>5
      <3>7. outcome \in Failure => outcome \notin Result
        BY DEF Failure, Result
      <3>8. \A m \in Attempt : tasks'[e][m].thread # "build"
        BY <3>4, <3>6 DEF Ended
      <3>9. \A m \in Attempt : tasks'[e][m].thread \in Result => kept = tasks'[e][m].thread
        BY <3>1, <3>4, <3>5, <3>7 DEF Ended
      <3> QED  BY <2>3, <3>2, <3>3, <3>8, <3>9 DEF JobOK
    <2> QED  BY <2>2, <2>3
  <1> QED
    BY <1>2 DEF JobInv

(* The record of a run that its task completes under its lease.            *)
LEMMA CompleteRow ==
    ASSUME TypeOK, NEW e \in Execution, NEW n \in Attempt, complete(e, n), Holds(e, n)
    PROVE  /\ rows'[e].status = "completed" /\ rows'[e].token = 0
           /\ rows'[e].result = tasks[e][n].thread
  <1> DEFINE row == Settled(rows[e], "completed")
  <1>1. row \in Row /\ row.status = "completed" /\ row.token = 0
    <2>1. "completed" \in Status
      BY DEF Status
    <2> QED  BY <2>1, Types, SettledType
  <1>2. rows' = [rows EXCEPT ![e] = [row EXCEPT
            !.delay = 0, !.approved = (tasks[e][n].thread = "approved"),
            !.result = tasks[e][n].thread]]
    BY DEF complete, SetRow
  <1> HIDE DEF row
  <1> QED
    BY <1>1, <1>2 DEF TypeOK, Row

(* Every step keeps what the directories say.                              *)
LEMMA JobStep ==
    ASSUME TypeOK, LockInv, JobInv, [Next]_vars
    PROVE  JobInv'
  <1> USE Types
  <1>1. CASE UNCHANGED vars
    BY <1>1, JobQuiet DEF vars
  <1>2. ASSUME NEW e \in Execution, UserStep(e) PROVE JobInv'
    <2>1. PICK row, status, request : UserChange(e, row, status, request)
      BY <1>2, UserStepShape DEF UserEffect
    <2>2. UNCHANGED <<tasks, job>>
      BY <1>2, UserStepShape DEF UserEffect
    <2>3. \A f \in Execution : rows'[f].status = "completed" =>
             rows[f].status = "completed" /\ rows'[f].result = rows[f].result
      BY <2>1 DEF UserChange, TypeOK
    <2> QED  BY <2>2, <2>3, JobQuiet
  <1>3. CASE close_admission \/ open_admission
    BY <1>3, JobQuiet DEF close_admission, open_admission, SetGate
  <1>4. ASSUME NEW w \in Worker, Select(w) PROVE JobInv'
    <2>1. \A e \in Execution : rows'[e] \in {rows[e], Settled(rows[e], "failed")}
      BY <1>4 DEF Select, reap_exhausted_leases
    <2>2. \A e \in Execution : Settled(rows[e], "failed").status = "failed"
      BY SettledType DEF Status
    <2> QED  BY <1>4, <2>1, <2>2, JobQuiet DEF Select
  <1>5. ASSUME NEW w \in Worker, claim(w) PROVE JobInv'
    <2>1. PICK e \in workers[w].picked :
             /\ rows' = [rows EXCEPT ![e] = [rows[e] EXCEPT
                   !.status = "running", !.attempts = rows[e].attempts + 1,
                   !.token = rows[e].attempts + 1, !.owner = w,
                   !.lease = LeaseSeconds, !.delay = 0]]
             /\ tasks' = [tasks EXCEPT ![e][rows[e].attempts + 1] =
                   [worker |-> w, task |-> "load", thread |-> "none"]]
      BY <1>5 DEF claim, SetRow
    <2>2. e \in Execution /\ job' = job
      BY <1>5 DEF TypeOK, claim
    <2>3. \A f \in Execution : rows'[f].status = "completed" => rows'[f] = rows[f]
      BY <2>1, <2>2 DEF TypeOK, Row
    <2>4. \A f \in Execution, m \in Attempt :
             tasks'[f][m].thread \in {tasks[f][m].thread, "none"}
      BY <2>1, <2>2 DEF TypeOK
    <2>5. "none" \notin Ended
      BY DEF Ended, Result
    <2> QED  BY <2>2, <2>3, <2>4, <2>5, JobQuiet
  <1>6. ASSUME NEW w \in Worker, Drain(w) PROVE JobInv'
    BY <1>6, JobQuiet DEF Drain
  <1>7. ASSUME NEW w \in Worker, Crash(w) PROVE JobInv'
    <2>1. \A f \in Execution, m \in Attempt :
             tasks'[f][m].thread \in {tasks[f][m].thread, "none"}
      BY <1>7 DEF Crash, NoTask
    <2>2. "none" \notin Ended
      BY DEF Ended, Result
    <2> QED  BY <1>7, <2>1, <2>2, JobQuiet DEF Crash
  <1>8. ASSUME NEW e \in Execution, NEW n \in Attempt,
               load_payload(e, n) \/ renew(e, n) \/ complete(e, n) \/ Fails(e, n)
        PROVE  JobInv'
    <2>1. \A f \in Execution, m \in Attempt :
             tasks'[f][m].thread \in {tasks[f][m].thread, "none", "start"}
      <3>1. CASE Leave(e, n) \/ UNCHANGED tasks
        BY <3>1, ThreadEffects
      <3>2. CASE tasks' = [tasks EXCEPT ![e][n].task = "wait", ![e][n].thread = "start"]
        BY <3>2 DEF TypeOK, Task
      <3> QED
        BY <1>8, <3>1, <3>2 DEF load_payload, renew, complete, Fails, fail
    <2>2. "none" \notin Ended /\ "start" \notin Ended
      BY DEF Ended, Result
    <2>3. \A f \in Execution : rows'[f].status = "completed" =>
               \/ rows[f].status = "completed" /\ rows'[f].result = rows[f].result
               \/ rows'[f].result \in Result /\ rows'[f].result = job[f]
      <3> SUFFICES ASSUME rows' # rows, rows'[e].status = "completed"
                   PROVE  \/ rows[e].status = "completed" /\ rows'[e].result = rows[e].result
                          \/ rows'[e].result \in Result /\ rows'[e].result = job[e]
        BY <1>8, AttemptWrites
      <3>1. CASE load_payload(e, n)
        BY <3>1 DEF load_payload
      <3>2. CASE renew(e, n)
        BY <3>2 DEF renew, TypeOK, Row
      <3>3. CASE complete(e, n)
        <4>1. Holds(e, n) /\ tasks[e][n].thread \in Result
          BY <3>3 DEF complete
        <4> QED  BY <3>3, <4>1, CompleteRow DEF JobInv, JobOK
      <3>4. CASE Fails(e, n)
        <4>1. PICK error : rows'[e] = FailedRow(rows[e], error)
          BY <3>4 DEF Fails, fail, SetRow, TypeOK
        <4> QED  BY <4>1, FailedRowType
      <3> QED  BY <1>8, <3>1, <3>2, <3>3, <3>4
    <2>4. job' = job
      BY <1>8 DEF load_payload, renew, complete, Fails, fail
    <2> QED  BY <2>1, <2>2, <2>3, <2>4, JobQuiet
  <1>9. ASSUME NEW e \in Execution, NEW n \in Attempt, RunnerStarts(e, n) PROVE JobInv'
    BY <1>9, StartsKeepsJob
  <1>10. ASSUME NEW e \in Execution, NEW n \in Attempt, RunnerReports(e, n) PROVE JobInv'
    <2>1. CASE UNCHANGED <<tasks, job>>
      BY <1>10, <2>1, JobQuiet DEF RunnerReports
    <2>2. CASE Returns(e, n, "transient") /\ job' = [job EXCEPT ![e] = "empty"]
      <3>1. tasks[e][n].thread = "build" /\ rows' = rows
        BY <1>10 DEF RunnerReports
      <3>2. "transient" \in Result \cup Failure /\ "empty" \in {"empty"} \cup Result
            /\ "transient" \notin Result
        BY DEF Failure, Result
      <3> QED  BY <2>2, <3>1, <3>2, EndsKeepsJob
    <2> QED  BY <1>10, <2>1, <2>2 DEF RunnerReports
  <1>11. ASSUME NEW e \in Execution, NEW n \in Attempt, RunnerEnds(e, n) PROVE JobInv'
    <2>1. tasks[e][n].thread = "build" /\ rows' = rows
      BY <1>11 DEF RunnerEnds
    <2>2. ASSUME NEW result \in Result, Returns(e, n, result), job' = [job EXCEPT ![e] = result]
          PROVE  JobInv'
      BY <2>1, <2>2, EndsKeepsJob
    <2>3. ASSUME NEW error \in Failure, Returns(e, n, error), job' = [job EXCEPT ![e] = "empty"]
          PROVE  JobInv'
      BY <2>1, <2>3, EndsKeepsJob DEF Failure, Result
    <2> QED  BY <1>11, <2>2, <2>3 DEF RunnerEnds
  <1>12. CASE Tick
    <2>1. \A e \in Execution :
             rows'[e].status = rows[e].status /\ rows'[e].result = rows[e].result
      BY <1>12 DEF Tick, Row
    <2> QED  BY <1>12, <2>1, JobQuiet DEF Tick
  <1> QED
    BY <1>1, <1>2, <1>3, <1>4, <1>5, <1>6, <1>7, <1>8, <1>9, <1>10, <1>11, <1>12, NextCases

-----------------------------------------------------------------------------
(* The inductive invariant and what follows from it. *)

(* The initial states satisfy the invariant.                               *)
LEMMA InitIndInv == Init => IndInv
  <1> SUFFICES ASSUME Init PROVE IndInv
    OBVIOUS
  <1>1. TypeOK
    <2>1. /\ 0 \in 0..MaxAttempts /\ 0 \in 0..LeaseSeconds /\ 0 \in 0..RetryDelay
          /\ 0 \in 0..MaxRequests /\ "absent" \in Status
      BY ExecutionAssumption DEF Status
    <2>2. NewRow("absent") \in Row
      BY <2>1 DEF NewRow, Row
    <2> QED
      BY <2>1, <2>2 DEF Init, TypeOK, ProjectStatus, NoTask, Task
  <1>2. LockInv
    BY DEF Init, LockInv, PickedOK, PendingOK
  <1>3. GateInv
    BY DEF Init, GateInv
  <1>4. JobInv
    <2>1. \A e \in Execution : rows[e].status = "absent"
      BY DEF Init, NewRow
    <2>2. \A e \in Execution, n \in Attempt : tasks[e][n].thread = "none"
      BY DEF Init, NoTask
    <2>3. "none" \notin Result
      BY DEF Result
    <2> QED  BY <2>1, <2>2, <2>3 DEF JobInv, JobOK
  <1> QED
    BY <1>1, <1>2, <1>3, <1>4 DEF IndInv

(* Every step preserves it.                                                *)
LEMMA NextIndInv == IndInv /\ [Next]_vars => IndInv'
  BY TypeStep, LockStep, GateStep, JobStep DEF IndInv

(* The invariant holds in every reachable state.                           *)
THEOREM Invariance == Spec => []IndInv
  BY InitIndInv, NextIndInv, PTL DEF Spec

(* Type correctness: an attempt's number, token, lease and delay stay      *)
(* within their limits whoever claims, retries or reworks the record.      *)
THEOREM TypeCorrect == Spec => []TypeOK
  <1>1. IndInv => TypeOK
    BY DEF IndInv
  <1> QED
    BY <1>1, Invariance, PTL

(* Evidence is final, for any number of attempts and abandoned threads.    *)
THEOREM Evidence == Spec => []EvidenceIsFinal
  <1>1. IndInv => EvidenceIsFinal
    BY DEF IndInv, JobInv, JobOK, EvidenceIsFinal
  <1> QED
    BY <1>1, Invariance, PTL

-----------------------------------------------------------------------------
(* How a step may change a record, and what a project shows. *)

SameRun(e) ==
    /\ rows'[e].status = rows[e].status /\ rows'[e].attempts = rows[e].attempts
    /\ rows'[e].token = rows[e].token /\ rows'[e].approved = rows[e].approved

ByUser(e) ==
    /\ rows[e].status # "running" /\ rows'[e].status # "running"
    /\ rows'[e].attempts <= rows[e].attempts
    /\ \A f \in Execution \ {e} : rows'[f] = rows[f]
    /\ rows'[e].status \in Active => rows[e].status \in Active \/ ~OtherActive(e)
    /\ project'[ProjectOf[e]] = "completed" =>
          rows'[e].approved \/ rows'[e].approved = rows[e].approved

Claimed(e) ==
    /\ gate = "open"
    /\ rows[e].status \in Active
    /\ rows[e].status = "running" => rows[e].lease = 0
    /\ rows'[e].status = "running"
    /\ rows'[e].approved = rows[e].approved

AttemptEnds(e) ==
    /\ rows[e].status = "running" /\ rows'[e].status # "running"
    /\ rows'[e].attempts = rows[e].attempts
    /\ \/ rows[e].lease = 0
       \/ /\ tasks[e][rows[e].token].task = "wait"
          /\ tasks'[e][rows[e].token].task # "wait"
    /\ project'[ProjectOf[e]] \notin {"in_progress", "completed"}

RowChange(e) == SameRun(e) \/ ByUser(e) \/ Claimed(e) \/ AttemptEnds(e)

(* An attempt that writes its last word holds the lease, and its task ends.*)
LEMMA LastWord ==
    ASSUME TypeOK, NEW e \in Execution, NEW n \in Attempt,
           complete(e, n) \/ Fails(e, n), rows' # rows
    PROVE  AttemptEnds(e) /\ \A f \in Execution \ {e} : rows'[f] = rows[f]
  <1> USE Types
  <1>1. Holds(e, n) /\ tasks[e][n].task = "wait" /\ Leave(e, n)
    BY DEF complete, Fails, fail
  <1>2. rows[e].status = "running" /\ rows[e].token = n
    BY <1>1 DEF Holds
  <1>3. tasks'[e][n].task # "wait"
    <2>1. /\ tasks \in [Execution -> [Attempt -> Task]] /\ tasks[e][n] \in Task
          /\ NoTask.task = "none"
      BY DEF TypeOK, NoTask
    <2>2. [tasks[e][n] EXCEPT !.task = "done"].task = "done"
      BY <2>1 DEF Task
    <2> QED  BY <1>1, <2>1, <2>2 DEF Leave
  <1>4. ProjectOf[e] \in Project /\ project \in [Project -> ProjectStatus]
    BY DEF TypeOK
  <1>5. CASE complete(e, n)
    <2> DEFINE row == Settled(rows[e], "completed")
    <2>1. row \in Row /\ row.status = "completed" /\ row.attempts = rows[e].attempts
      <3>1. "completed" \in Status
        BY DEF Status
      <3> QED  BY <3>1, SettledType
    <2>2. /\ rows' = [rows EXCEPT ![e] = [row EXCEPT
                !.delay = 0, !.approved = (tasks[e][n].thread = "approved"),
                !.result = tasks[e][n].thread]]
          /\ project'[ProjectOf[e]] \in {"active", "planning"}
      BY <1>1, <1>4, <1>5 DEF complete, SetRow, SetProject
    <2> HIDE DEF row
    <2>3. rows'[e].status = "completed" /\ rows'[e].attempts = rows[e].attempts
      BY <2>1, <2>2 DEF TypeOK, Row
    <2>4. \A f \in Execution \ {e} : rows'[f] = rows[f]
      BY <2>2 DEF TypeOK
    <2> QED  BY <1>1, <1>2, <1>3, <2>2, <2>3, <2>4 DEF AttemptEnds
  <1>6. CASE Fails(e, n)
    <2>1. PICK error : /\ rows' = [rows EXCEPT ![e] = FailedRow(rows[e], error)]
                       /\ SetProject(e, "planning")
      BY <1>1, <1>6 DEF Fails, fail, SetRow
    <2>2. rows'[e] = FailedRow(rows[e], error) /\ project'[ProjectOf[e]] = "planning"
      BY <1>4, <2>1 DEF SetProject, TypeOK
    <2>3. \A f \in Execution \ {e} : rows'[f] = rows[f]
      BY <2>1 DEF TypeOK
    <2>4. rows'[e].status # "running" /\ rows'[e].attempts = rows[e].attempts
      BY <2>2, FailedRowType
    <2> QED  BY <1>1, <1>2, <1>3, <2>2, <2>3, <2>4 DEF AttemptEnds
  <1> QED
    BY <1>5, <1>6

(* Every step changes a record in one of these ways.                       *)
LEMMA RowStep ==
    ASSUME IndInv, [Next]_vars, NEW e \in Execution
    PROVE  RowChange(e)
  <1> USE Types DEF IndInv
  <1>1. rows[e] \in Row /\ rows \in [Execution -> Row]
    BY DEF TypeOK
  <1>2. CASE rows' = rows
    BY <1>2 DEF SameRun, RowChange
  <1>3. ASSUME NEW f \in Execution, UserStep(f) PROVE RowChange(e)
    <2>1. PICK row, status, request : UserChange(f, row, status, request)
      BY <1>3, UserStepShape DEF UserEffect
    <2>2. CASE f # e
      <3>1. rows'[e] = rows[e]
        BY <1>1, <2>1, <2>2 DEF UserChange
      <3> QED  BY <3>1 DEF SameRun, RowChange
    <2>3. CASE f = e
      <3>1. rows'[e] = row /\ \A g \in Execution \ {e} : rows'[g] = rows[g]
        BY <1>1, <2>1, <2>3 DEF UserChange
      <3>2. project'[ProjectOf[e]] = status
        BY <2>1, <2>3 DEF UserChange, TypeOK
      <3> QED  BY <2>1, <2>3, <3>1, <3>2 DEF UserChange, ByUser, RowChange
    <2> QED  BY <2>2, <2>3
  <1>4. ASSUME NEW w \in Worker, Select(w) PROVE RowChange(e)
    <2>1. CASE rows'[e] = rows[e]
      BY <2>1 DEF SameRun, RowChange
    <2>2. CASE rows'[e] # rows[e]
      <3>1. /\ gate = "open" /\ Exhausted(e) /\ ~Locked(e)
            /\ rows'[e] = Settled(rows[e], "failed")
            /\ project'[ProjectOf[e]] = "planning"
        BY <1>4, <2>2 DEF Select, reap_exhausted_leases
      <3>2. rows'[e].status = "failed" /\ rows'[e].attempts = rows[e].attempts
        BY <1>1, <3>1, SettledType DEF Status
      <3> QED  BY <3>1, <3>2 DEF Exhausted, AttemptEnds, RowChange
    <2> QED  BY <2>1, <2>2
  <1>5. ASSUME NEW w \in Worker, claim(w) PROVE RowChange(e)
    <2>1. PICK f \in workers[w].picked :
             rows' = [rows EXCEPT ![f] = [rows[f] EXCEPT
                   !.status = "running", !.attempts = rows[f].attempts + 1,
                   !.token = rows[f].attempts + 1, !.owner = w,
                   !.lease = LeaseSeconds, !.delay = 0]]
      BY <1>5 DEF claim, SetRow
    <2>2. f \in Execution /\ PickedOK(w, f) /\ gate = "open"
      BY <1>5 DEF TypeOK, LockInv, GateInv, claim
    <2>3. CASE f # e
      <3>1. rows'[e] = rows[e]
        BY <1>1, <2>1, <2>3
      <3> QED  BY <3>1 DEF SameRun, RowChange
    <2>4. CASE f = e
      <3>1. rows'[e].status = "running" /\ rows'[e].approved = rows[e].approved
        BY <1>1, <2>1, <2>4 DEF Row
      <3> QED  BY <2>2, <2>4, <3>1 DEF PickedOK, Claimed, RowChange
    <2> QED  BY <2>3, <2>4
  <1>6. ASSUME NEW f \in Execution, NEW n \in Attempt, renew(f, n) PROVE RowChange(e)
    BY <1>1, <1>6 DEF renew, Row, SameRun, RowChange
  <1>7. ASSUME NEW f \in Execution, NEW n \in Attempt, complete(f, n) \/ Fails(f, n)
        PROVE  RowChange(e)
    BY <1>2, <1>7, LastWord DEF SameRun, RowChange
  <1>8. CASE Tick
    <2>1. rows'[e] = [rows[e] EXCEPT
             !.lease = IF rows[e].lease > 0 THEN rows[e].lease - 1 ELSE rows[e].lease,
             !.delay = IF rows[e].delay > 0 THEN rows[e].delay - 1 ELSE rows[e].delay]
      BY <1>1, <1>8 DEF Tick, Row
    <2> QED  BY <1>1, <2>1 DEF Row, SameRun, RowChange
  <1>9. CASE close_admission \/ open_admission
    BY <1>2, <1>9 DEF close_admission, open_admission, SetGate
  <1>10. ASSUME NEW w \in Worker, Drain(w) \/ Crash(w) PROVE RowChange(e)
    BY <1>2, <1>10 DEF Drain, Crash
  <1>11. ASSUME NEW f \in Execution, NEW n \in Attempt,
                \/ load_payload(f, n) \/ RunnerStarts(f, n)
                \/ RunnerReports(f, n) \/ RunnerEnds(f, n)
         PROVE  RowChange(e)
    BY <1>2, <1>11 DEF load_payload, RunnerStarts, RunnerReports, RunnerEnds
  <1>12. CASE UNCHANGED vars
    BY <1>2, <1>12 DEF vars
  <1> QED
    BY <1>3, <1>4, <1>5, <1>6, <1>7, <1>8, <1>9, <1>10, <1>11, <1>12, NextCases

(* Every step that makes a project show work or completion has an          *)
(* execution to show for it.                                               *)
LEMMA ProjectStep ==
    ASSUME IndInv, [Next]_vars, NEW p \in Project, project'[p] # project[p],
           project'[p] \in {"in_progress", "completed"}
    PROVE  \E e \in Execution :
              /\ ProjectOf[e] = p
              /\ project'[p] = "in_progress" => rows'[e].status = "running"
              /\ project'[p] = "completed" => rows'[e].approved
  <1> DEFINE Shown(e) == /\ ProjectOf[e] = p
                         /\ project'[p] = "in_progress" => rows'[e].status = "running"
                         /\ project'[p] = "completed" => rows'[e].approved
  <1> SUFFICES \E e \in Execution : Shown(e)
    OBVIOUS
  <1> USE Types DEF IndInv
  <1>1. project \in [Project -> ProjectStatus] /\ rows \in [Execution -> Row]
    BY DEF TypeOK
  <1>2. CASE project' = project
    BY <1>2
  <1>3. ASSUME NEW f \in Execution, UserStep(f) PROVE Shown(f)
    <2>1. PICK row, status, request : UserChange(f, row, status, request)
      BY <1>3, UserStepShape DEF UserEffect
    <2>2. ProjectOf[f] = p /\ project'[p] = status /\ rows'[f] = row
      BY <1>1, <2>1 DEF UserChange
    <2> QED  BY <2>1, <2>2 DEF UserChange
  <1>4. ASSUME NEW w \in Worker, Select(w) PROVE FALSE
    BY <1>1, <1>4 DEF Select, reap_exhausted_leases
  <1>5. ASSUME NEW w \in Worker, claim(w) PROVE \E e \in Execution : Shown(e)
    <2>1. PICK f \in workers[w].picked :
             /\ rows' = [rows EXCEPT ![f] = [rows[f] EXCEPT
                   !.status = "running", !.attempts = rows[f].attempts + 1,
                   !.token = rows[f].attempts + 1, !.owner = w,
                   !.lease = LeaseSeconds, !.delay = 0]]
             /\ project' = [project EXCEPT ![ProjectOf[f]] = "in_progress"]
      BY <1>5 DEF claim, SetRow, SetProject
    <2>2. f \in Execution
      BY DEF TypeOK
    <2>3. rows'[f].status = "running"
      BY <1>1, <2>1, <2>2 DEF Row
    <2>4. ProjectOf[f] = p /\ project'[p] = "in_progress"
      BY <1>1, <2>1, <2>2
    <2> QED  BY <2>2, <2>3, <2>4
  <1>6. ASSUME NEW f \in Execution, NEW n \in Attempt, RunnerReports(f, n) PROVE Shown(f)
    <2>1. Holds(f, n) /\ rows' = rows /\ project' = [project EXCEPT ![ProjectOf[f]] = "in_progress"]
      BY <1>2, <1>6 DEF RunnerReports, SetProject
    <2>2. ProjectOf[f] = p /\ project'[p] = "in_progress"
      BY <1>1, <2>1
    <2> QED  BY <2>1, <2>2 DEF Holds
  <1>7. ASSUME NEW f \in Execution, NEW n \in Attempt, complete(f, n) \/ Fails(f, n)
        PROVE  FALSE
    <2>1. project' = project \/ project' = [project EXCEPT ![ProjectOf[f]] = "planning"]
          \/ project' = [project EXCEPT ![ProjectOf[f]] = "active"]
      BY <1>7 DEF complete, Fails, fail, SetProject
    <2> QED  BY <1>1, <2>1
  <1>8. CASE Tick \/ close_admission \/ open_admission
    BY <1>2, <1>8 DEF Tick, close_admission, open_admission, SetGate
  <1>9. ASSUME NEW w \in Worker, Drain(w) \/ Crash(w) PROVE FALSE
    BY <1>9 DEF Drain, Crash
  <1>10. ASSUME NEW f \in Execution, NEW n \in Attempt,
                load_payload(f, n) \/ renew(f, n) \/ RunnerStarts(f, n) \/ RunnerEnds(f, n)
         PROVE  FALSE
    BY <1>10 DEF load_payload, renew, RunnerStarts, RunnerEnds
  <1> QED
    BY <1>3, <1>4, <1>5, <1>6, <1>7, <1>8, <1>9, <1>10, NextCases DEF vars

-----------------------------------------------------------------------------
(* The theorems that follow from how records change. *)

(* No attempt begins while the gate is closed: only a claim raises the     *)
(* attempts, and a claim past its reads keeps the gate open.               *)
THEOREM AdmissionCloses == Spec => ClosedGateAdmitsNothing
  <1>1. IndInv /\ [Next]_vars =>
           [gate = "closed" => \A e \in Execution : rows'[e].attempts <= rows[e].attempts]_vars
    <2> SUFFICES ASSUME IndInv, [Next]_vars, gate = "closed", NEW e \in Execution
                 PROVE  rows'[e].attempts <= rows[e].attempts
      BY DEF vars
    <2>1. rows[e].attempts \in Nat
      BY Types DEF IndInv, Row
    <2>2. RowChange(e)
      BY RowStep
    <2> QED
      BY <2>1, <2>2 DEF RowChange, SameRun, ByUser, Claimed, AttemptEnds
  <1> QED
    BY <1>1, Invariance, PTL DEF Spec, ClosedGateAdmitsNothing

(* An attempt is replaced or ended only by its own task, or once its lease *)
(* has expired, for any number of workers.                                 *)
THEOREM Fencing == Spec => AttemptsAreFenced
  <1>1. IndInv /\ [Next]_vars =>
           [\A e \in Execution :
              rows[e].status = "running" /\ rows'[e].token # rows[e].token =>
                  \/ rows[e].lease = 0
                  \/ tasks[e][rows[e].token].task = "wait"
                     /\ tasks'[e][rows[e].token].task # "wait"]_vars
    <2> SUFFICES ASSUME IndInv, [Next]_vars, NEW e \in Execution,
                        rows[e].status = "running", rows'[e].token # rows[e].token
                 PROVE  \/ rows[e].lease = 0
                        \/ tasks[e][rows[e].token].task = "wait"
                           /\ tasks'[e][rows[e].token].task # "wait"
      BY DEF vars
    <2>1. RowChange(e)
      BY RowStep
    <2> QED
      BY <2>1 DEF RowChange, SameRun, ByUser, Claimed, AttemptEnds
  <1> QED
    BY <1>1, Invariance, PTL DEF Spec, AttemptsAreFenced

(* One active execution per project, for any number of requests that have  *)
(* passed their checks: the index decides when they commit.                *)
THEOREM OneActive == Spec => []OneActivePerProject
  <1>1. Init => OneActivePerProject
    BY DEF Init, NewRow, OneActivePerProject, Active
  <1>2. IndInv /\ OneActivePerProject /\ [Next]_vars => OneActivePerProject'
    <2> SUFFICES ASSUME IndInv, OneActivePerProject, [Next]_vars,
                        NEW e \in Execution, NEW f \in Execution,
                        e # f, ProjectOf[e] = ProjectOf[f],
                        rows'[e].status \in Active, rows'[f].status \in Active
                 PROVE  FALSE
      BY DEF OneActivePerProject
    <2>1. RowChange(e) /\ RowChange(f)
      BY RowStep
    <2>2. ~(rows[e].status \in Active /\ rows[f].status \in Active)
      BY DEF OneActivePerProject
    <2>3. ASSUME NEW g \in {e, f}, rows[g].status \notin Active
          PROVE  FALSE
      <3>1. ByUser(g) /\ ~OtherActive(g)
        BY <2>1, <2>3 DEF RowChange, SameRun, ByUser, Claimed, AttemptEnds, Active
      <3>2. PICK h \in {e, f} : h # g
        OBVIOUS
      <3>3. rows[h].status \in Active
        BY <3>1, <3>2 DEF ByUser
      <3> QED  BY <3>1, <3>2, <3>3 DEF OtherActive
    <2> QED  BY <2>2, <2>3
  <1> QED
    BY <1>1, <1>2, Invariance, PTL DEF Spec

(* A project shows work or completion only while an execution does.        *)
THEOREM ProjectShows == Spec => []ProjectShowsExecutions
  <1>1. Init => ProjectShowsExecutions
    BY DEF Init, ProjectShowsExecutions
  <1>2. IndInv /\ ProjectShowsExecutions /\ [Next]_vars => ProjectShowsExecutions'
    <2> SUFFICES ASSUME IndInv, ProjectShowsExecutions, [Next]_vars, NEW p \in Project,
                        project'[p] \in {"in_progress", "completed"}
                 PROVE  \E e \in Execution :
                           /\ ProjectOf[e] = p
                           /\ project'[p] = "in_progress" => rows'[e].status = "running"
                           /\ project'[p] = "completed" => rows'[e].approved
      BY DEF ProjectShowsExecutions
    <2>1. CASE project'[p] # project[p]
      BY <2>1, ProjectStep
    <2>2. CASE project'[p] = project[p]
      <3>1. PICK e \in Execution :
               /\ ProjectOf[e] = p
               /\ project[p] = "in_progress" => rows[e].status = "running"
               /\ project[p] = "completed" => rows[e].approved
        BY <2>2 DEF ProjectShowsExecutions
      <3>2. RowChange(e)
        BY RowStep
      <3>3. ~AttemptEnds(e)
        BY <3>1 DEF AttemptEnds
      <3> QED
        BY <2>2, <3>1, <3>2, <3>3 DEF RowChange, SameRun, ByUser, Claimed
    <2> QED  BY <2>1, <2>2
  <1> QED
    BY <1>1, <1>2, Invariance, PTL DEF Spec

=============================================================================
