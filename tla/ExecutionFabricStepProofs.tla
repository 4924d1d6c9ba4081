--------------------- MODULE ExecutionFabricStepProofs ---------------------
(***************************************************************************)
(* Proofs of what a step of the store may never do.  The lemma StepOfTask  *)
(* says once what any operation can do to one task; the action properties  *)
(* and the refinement of TaskLifecycle follow from it.                     *)
(***************************************************************************)
EXTENDS ExecutionFabricProofs

Kept(t) ==
    /\ tasks'[t].state = tasks[t].state
    /\ tasks'[t].attempts = tasks[t].attempts
    /\ tasks'[t].lease_owner = tasks[t].lease_owner
    /\ tasks'[t].result = tasks[t].result

Enqueued(t) ==
    /\ tasks[t].state = "absent" /\ tasks'[t].state = "PENDING"
    /\ tasks'[t].attempts = tasks[t].attempts
    /\ tasks'[t].lease_owner = tasks[t].lease_owner

Claimed(t) ==
    /\ \/ tasks[t].state \in Waiting
       \/ tasks[t].state = "LEASED" /\ tasks[t].expires_in <= 0
    /\ tasks[t].attempts < MaxAttempts[t]
    /\ tasks'[t].state = "LEASED"
    /\ tasks'[t].attempts = tasks[t].attempts + 1
    /\ tasks'[t].lease_owner \in Worker

Returned(t) ==
    /\ tasks[t].state = "LEASED"
    /\ tasks'[t].state = IF Retryable(t) THEN "RETRY_WAIT" ELSE "DEAD_LETTER"
    /\ tasks'[t].attempts = tasks[t].attempts
    /\ tasks'[t].lease_owner = NoWorker

Completed(t) ==
    /\ tasks[t].state = "LEASED" /\ tasks'[t].state = "SUCCEEDED"
    /\ tasks'[t].attempts = tasks[t].attempts
    /\ tasks'[t].lease_owner = NoWorker

Cancelled(t) ==
    /\ tasks[t].state \in {"PENDING", "RETRY_WAIT", "LEASED"}
    /\ tasks'[t].state = "CANCELLED"
    /\ tasks'[t].attempts = tasks[t].attempts
    /\ tasks'[t].lease_owner = NoWorker

OrdinaryStep(t) ==
    Kept(t) \/ Enqueued(t) \/ Returned(t) \/ Completed(t) \/ Cancelled(t)

(* What the invariant gives about one task row, as plain facts. *)
LEMMA RowFacts ==
    ASSUME IInv, NEW t \in Task
    PROVE  /\ tasks = [u \in Task |-> tasks[u]]
           /\ tasks[t] \in TaskRow
           /\ tasks[t].state \in TaskState
           /\ tasks[t].attempts \in Nat /\ tasks[t].expires_in \in Int
           /\ tasks[t].state = "LEASED" <=> tasks[t].lease_owner # NoWorker
           /\ tasks[t].state \in Waiting => tasks[t].attempts < MaxAttempts[t]
           /\ tasks[t].state = "LEASED" => tasks[t].attempts \in 1..MaxAttempts[t]
           /\ tasks[t].state = "absent" => tasks[t].attempts = 0
           /\ MaxAttempts[t] \in Nat \ {0}
  <1>1. TaskRowOK(t, tasks[t], dead_letters[t]) /\ tasks = [u \in Task |-> tasks[u]]
    BY DEF IInv, Inv
  <1>2. MaxAttempts[t] \in Nat \ {0}
    BY StoreAssumption
  <1>3. /\ tasks[t] \in TaskRow
        /\ tasks[t].state \in TaskState
        /\ tasks[t].attempts \in Nat /\ tasks[t].expires_in \in Int
    BY <1>1 DEF TaskRowOK, TaskRow
  <1>4. /\ tasks[t].state = "LEASED" <=> tasks[t].lease_owner # NoWorker
        /\ tasks[t].state = "LEASED" => tasks[t].attempts \in 1..MaxAttempts[t]
        /\ tasks[t].state = "absent" => tasks[t].attempts = 0
    BY <1>1 DEF TaskRowOK
  <1>5. tasks[t].state \in Waiting => tasks[t].attempts < MaxAttempts[t]
    BY <1>1, <1>2, <1>3 DEF TaskRowOK, Waiting
  <1> QED
    BY <1>1, <1>2, <1>3, <1>4, <1>5

(* The columns of a row whose lease ended without success. *)
LEMMA FailureFields ==
    ASSUME IInv, NEW t \in Task, NEW delay, NEW lag
    PROVE  /\ RowAfterFailure(t, delay, lag).state =
                IF Retryable(t) THEN "RETRY_WAIT" ELSE "DEAD_LETTER"
           /\ RowAfterFailure(t, delay, lag).attempts = tasks[t].attempts
           /\ RowAfterFailure(t, delay, lag).lease_owner = NoWorker
  <1> DEFINE s == IF Retryable(t) THEN "RETRY_WAIT" ELSE "DEAD_LETTER"
             a == IF Retryable(t) THEN delay - lag ELSE 0
  <1>1. RowAfterFailure(t, delay, lag) =
          [tasks[t] EXCEPT !.state = s, !.available_in = a,
                           !.lease_owner = NoWorker, !.expires_in = 0]
    BY DEF RowAfterFailure
  <1> HIDE DEF s, a
  <1>2. tasks[t] \in TaskRow
    BY RowFacts
  <1>3. /\ RowAfterFailure(t, delay, lag).state = s
        /\ RowAfterFailure(t, delay, lag).attempts = tasks[t].attempts
        /\ RowAfterFailure(t, delay, lag).lease_owner = NoWorker
    BY <1>1, <1>2 DEF TaskRow
  <1> QED
    BY <1>3 DEF s

(* A recovery sweep leaves a task alone or ends its expired lease. *)
LEMMA RecoveredRow ==
    ASSUME IInv, NEW t \in Task, NEW lag \in Lags
    PROVE  \/ /\ RecoveredTasks(lag)[t] = tasks[t]
              /\ ~Expired(t, lag)
           \/ /\ RecoveredTasks(lag)[t] = RowAfterFailure(t, 0, lag)
              /\ tasks[t].state = "LEASED" /\ tasks[t].expires_in <= 0
  <1>1. lag \in Int /\ 0 <= lag
    BY StoreAssumption DEF Lags
  <1>2. tasks[t].expires_in \in Int
    BY RowFacts
  <1>3. CASE Expired(t, lag)
    BY <1>1, <1>2, <1>3 DEF RecoveredTasks, Expired
  <1>4. CASE ~Expired(t, lag)
    BY <1>4 DEF RecoveredTasks
  <1> QED
    BY <1>3, <1>4

(* A claim starts one task and, to the others, does what a recovery does. *)
LEMMA StepOfClaim ==
    ASSUME IInv, NEW w \in Worker, NEW c \in Task, NEW lag \in Lags,
           ClaimLeases(w, c, lag)
    PROVE  /\ Claimed(c) /\ tasks'[c].lease_owner = w
           /\ \A t \in Task \ {c} : Kept(t) \/ Returned(t)
  <1> DEFINE ts == RecoveredTasks(lag)
  <1>1. /\ tasks' = [ts EXCEPT ![c] = LeasedRow(ts[c], w, lag)]
        /\ ts[c].state \in Waiting
    BY DEF ClaimLeases, Selected, Candidates, Scanned, Ready
  <1>2. ts = [t \in Task |-> ts[t]]
    BY DEF RecoveredTasks
  <1>3. \A t \in Task \ {c} : Kept(t) \/ Returned(t)
    <2> SUFFICES ASSUME NEW t \in Task \ {c}
                 PROVE  Kept(t) \/ Returned(t)
      OBVIOUS
    <2>1. tasks'[t] = ts[t]
      BY <1>1, <1>2
    <2> HIDE DEF ts
    <2>2. \/ ts[t] = tasks[t]
          \/ ts[t] = RowAfterFailure(t, 0, lag) /\ tasks[t].state = "LEASED"
      BY RecoveredRow DEF ts
    <2> QED
      BY <2>1, <2>2, FailureFields DEF Kept, Returned
  <1>4. Claimed(c) /\ tasks'[c].lease_owner = w
    <2>1. tasks'[c] = LeasedRow(ts[c], w, lag)
      BY <1>1, <1>2
    <2>2. ts[c] \in TaskRow
      <3>1. Inv(RecoveredWorkers(lag), ts, RecoveredLetters(lag))
        BY RecoveryKeepsInv
      <3> HIDE DEF ts
      <3> QED
        BY <3>1 DEF Inv, TaskRowOK
    <2> HIDE DEF ts
    <2>3. /\ tasks'[c].state = "LEASED" /\ tasks'[c].attempts = ts[c].attempts + 1
          /\ tasks'[c].lease_owner = w
      BY <2>1, <2>2 DEF LeasedRow, TaskRow
    <2>4. \/ ts[c] = tasks[c]
          \/ /\ ts[c] = RowAfterFailure(c, 0, lag)
             /\ tasks[c].state = "LEASED" /\ tasks[c].expires_in <= 0
      BY RecoveredRow DEF ts
    <2>5. CASE ts[c] = tasks[c]
      <3>1. tasks[c].state \in Waiting
        BY <1>1, <2>5
      <3>2. tasks[c].attempts < MaxAttempts[c]
        BY <3>1, RowFacts
      <3> QED
        BY <2>3, <2>5, <3>1, <3>2 DEF Claimed
    <2>6. CASE /\ ts[c] = RowAfterFailure(c, 0, lag)
               /\ tasks[c].state = "LEASED" /\ tasks[c].expires_in <= 0
      <3>1. Retryable(c) /\ ts[c].attempts = tasks[c].attempts
        BY <1>1, <2>6, FailureFields DEF Waiting
      <3> QED
        BY <2>3, <2>6, <3>1 DEF Claimed, Retryable
    <2> QED
      BY <2>4, <2>5, <2>6
  <1> QED
    BY <1>3, <1>4

(* An operation that leaves the table alone keeps every task.              *)
LEMMA SameTasksKept ==
    ASSUME tasks' = tasks
    PROVE  \A t \in Task : Kept(t)
  BY DEF Kept

(* Time passes for the countdowns only.                                    *)
LEMMA TickKeepsTasks ==
    ASSUME IInv, Tick, NEW t \in Task
    PROVE  Kept(t)
  <1> DEFINE a == IF tasks[t].state \in Waiting
                  THEN CountDown(tasks[t].available_in) ELSE tasks[t].available_in
             e == IF tasks[t].state = "LEASED"
                  THEN CountDown(tasks[t].expires_in) ELSE tasks[t].expires_in
  <1>1. tasks'[t] = [tasks[t] EXCEPT !.available_in = a, !.expires_in = e]
    BY DEF Tick
  <1>2. tasks[t] \in TaskRow
    BY RowFacts
  <1> HIDE DEF a, e
  <1> QED
    BY <1>1, <1>2 DEF Kept, TaskRow

(* A sweep ends expired leases and keeps everything else.                  *)
LEMMA StepOfSweep ==
    ASSUME IInv, NEW lag \in Lags, tasks' = RecoveredTasks(lag), NEW t \in Task
    PROVE  Kept(t) \/ Returned(t)
  <1>1. \/ tasks'[t] = tasks[t]
        \/ tasks'[t] = RowAfterFailure(t, 0, lag) /\ tasks[t].state = "LEASED"
    BY RecoveredRow
  <1> QED
    BY <1>1, FailureFields DEF Kept, Returned

(* A refused claim has swept.                                              *)
LEMMA StepOfRefusal ==
    ASSUME IInv, NEW lag \in Lags, NEW w \in Worker, ClaimRefused(w, lag), NEW t \in Task
    PROVE  Kept(t) \/ Returned(t)
  <1>1. tasks' = RecoveredTasks(lag)
    BY DEF ClaimRefused, ClaimFindsWorkerNotOnline, ClaimFindsWorkerStale,
           ClaimFindsWorkerFull, ClaimFindsNothing, recover_expired_leases
  <1> QED
    BY <1>1, StepOfSweep

(* A submission enqueues its task.                                         *)
LEMMA StepOfSubmission ==
    ASSUME IInv, NEW u \in Task, NEW lag \in Lags, submit_task(u, lag)
    PROVE  Enqueued(u) /\ \A t \in Task \ {u} : Kept(t)
  <1> DEFINE n == Cardinality({v \in Task : tasks[v].state # "absent"})
  <1>1. /\ tasks' = [tasks EXCEPT ![u] =
              [tasks[u] EXCEPT !.state = "PENDING", !.available_in = -lag,
                               !.created = n]]
        /\ tasks[u].state = "absent"
    BY DEF submit_task
  <1>2. tasks = [t \in Task |-> tasks[t]] /\ tasks[u] \in TaskRow
    BY RowFacts
  <1> HIDE DEF n
  <1> QED
    BY <1>1, <1>2 DEF Enqueued, Kept, TaskRow

(* A heartbeat only moves the expiry of its lease.                         *)
LEMMA StepOfHeartbeat ==
    ASSUME IInv, NEW u \in Task, NEW w \in Worker, NEW lag \in Lags,
           heartbeat_task(u, w, lag), NEW t \in Task
    PROVE  Kept(t)
  <1>1. tasks = [v \in Task |-> tasks[v]] /\ tasks[u] \in TaskRow
    BY RowFacts
  <1>2. tasks' = [tasks EXCEPT ![u] =
                    [tasks[u] EXCEPT !.expires_in = LeaseSeconds - lag]]
    BY <1>1 DEF heartbeat_task
  <1>3. CASE u = t
    BY <1>1, <1>2, <1>3 DEF Kept, TaskRow
  <1>4. CASE u # t
    BY <1>1, <1>2, <1>4 DEF Kept
  <1> QED
    BY <1>3, <1>4

(* A failure gives its own task back, or buries it.                        *)
LEMMA StepOfFailure ==
    ASSUME IInv, NEW u \in Task, NEW w \in Worker, NEW lag \in Lags,
           NEW d \in RetryDelays, fail_task(u, w, d, lag)
    PROVE  Returned(u) /\ \A t \in Task \ {u} : Kept(t)
  <1>1. /\ tasks' = [tasks EXCEPT ![u] = RowAfterFailure(u, d, lag)]
        /\ tasks[u].state = "LEASED"
    BY DEF fail_task, LeasedBy
  <1>2. tasks = [t \in Task |-> tasks[t]]
    BY RowFacts
  <1> QED
    BY <1>1, <1>2, FailureFields DEF Returned, Kept

(* A cancellation ends its own task unless it has ended before.            *)
LEMMA StepOfCancellation ==
    ASSUME IInv, NEW u \in Task, cancel_task(u)
    PROVE  (Cancelled(u) \/ Kept(u)) /\ \A t \in Task \ {u} : Kept(t)
  <1>1. /\ tasks' = [tasks EXCEPT ![u] =
              [tasks[u] EXCEPT !.state = "CANCELLED", !.available_in = 0,
                               !.lease_owner = NoWorker, !.expires_in = 0]]
        /\ tasks[u].state \notin {"absent", "SUCCEEDED", "DEAD_LETTER"}
    BY DEF cancel_task
  <1>2. tasks = [t \in Task |-> tasks[t]] /\ tasks[u] \in TaskRow
    BY RowFacts
  <1>3. /\ tasks'[u].state = "CANCELLED" /\ tasks'[u].lease_owner = NoWorker
        /\ tasks'[u].attempts = tasks[u].attempts
        /\ tasks'[u].result = tasks[u].result
    BY <1>1, <1>2 DEF TaskRow
  <1>4. \/ tasks[u].state \in {"PENDING", "RETRY_WAIT", "LEASED"}
        \/ tasks[u].state = "CANCELLED" /\ tasks[u].lease_owner = NoWorker
    BY <1>1, RowFacts DEF TaskState
  <1>5. \A t \in Task \ {u} : Kept(t)
    BY <1>1, <1>2 DEF Kept
  <1> QED
    BY <1>3, <1>4, <1>5 DEF Kept, Cancelled

(* A completion ends its own task with the result it was given.            *)
LEMMA StepOfCompletion ==
    ASSUME IInv, NEW u \in Task, NEW w \in Worker, NEW a, complete_task(u, w, a)
    PROVE  /\ Completed(u) /\ tasks'[u].result = a
           /\ \A t \in Task \ {u} : Kept(t)
  <1>1. /\ tasks' = [tasks EXCEPT ![u] =
              [tasks[u] EXCEPT !.state = "SUCCEEDED", !.result = a,
                               !.lease_owner = NoWorker, !.expires_in = 0]]
        /\ tasks[u].state = "LEASED"
    BY DEF complete_task, LeasedBy
  <1>2. tasks = [t \in Task |-> tasks[t]] /\ tasks[u] \in TaskRow
    BY RowFacts
  <1>3. \A t \in Task \ {u} : Kept(t)
    BY <1>1, <1>2 DEF Kept
  <1>4. Completed(u) /\ tasks'[u].result = a
    BY <1>1, <1>2 DEF Completed, TaskRow
  <1> QED
    BY <1>3, <1>4

(* Every step that is no claim does one ordinary thing, or nothing, to a   *)
(* task.                                                                   *)
LEMMA StepOfOthers ==
    ASSUME IInv, [Next]_vars, NEW t \in Task,
           \A lag \in Lags, w \in Worker, c \in Task : ~ClaimLeases(w, c, lag)
    PROVE  OrdinaryStep(t)
  <1>1. CASE Tick
    BY <1>1, TickKeepsTasks DEF OrdinaryStep
  <1>2. ASSUME NEW u \in Task, NEW lag \in Lags, submit_task(u, lag)
        PROVE  OrdinaryStep(t)
    BY <1>2, StepOfSubmission DEF OrdinaryStep
  <1>3. ASSUME NEW u \in Task, NEW w \in Worker, NEW lag \in Lags,
               heartbeat_task(u, w, lag)
        PROVE  OrdinaryStep(t)
    BY <1>3, StepOfHeartbeat DEF OrdinaryStep
  <1>4. ASSUME NEW u \in Task, NEW w \in Worker, NEW lag \in Lags,
               NEW d \in RetryDelays, fail_task(u, w, d, lag)
        PROVE  OrdinaryStep(t)
    BY <1>4, StepOfFailure DEF OrdinaryStep
  <1>5. ASSUME NEW u \in Task, cancel_task(u)
        PROVE  OrdinaryStep(t)
    BY <1>5, StepOfCancellation DEF OrdinaryStep
  <1>6. ASSUME NEW u \in Task, NEW w \in Worker, NEW a, complete_task(u, w, a)
        PROVE  OrdinaryStep(t)
    BY <1>6, StepOfCompletion DEF OrdinaryStep
  <1>7. ASSUME NEW lag \in Lags, NEW w \in Worker, ClaimRefused(w, lag)
        PROVE  OrdinaryStep(t)
    BY <1>7, StepOfRefusal DEF OrdinaryStep
  <1>8. ASSUME NEW lag \in Lags, recover_expired_leases(lag)
        PROVE  OrdinaryStep(t)
    BY <1>8, StepOfSweep DEF OrdinaryStep, recover_expired_leases
  <1>9. CASE \/ \E lag \in Lags, w \in Worker :
                   \/ \E c \in Concurrency[w] : register_worker(w, c, lag)
                   \/ heartbeat_worker(w, lag)
             \/ \E lag \in Lags : expire_stale_workers(lag)
             \/ \E w \in Worker, s \in WorkerState \ {"absent"} : set_worker_state(w, s)
             \/ UNCHANGED vars
    <2>1. tasks' = tasks
      BY <1>9 DEF register_worker, heartbeat_worker, expire_stale_workers,
                  set_worker_state, vars
    <2> QED
      BY <2>1, SameTasksKept DEF OrdinaryStep
  <1> QED
    BY <1>1, <1>2, <1>3, <1>4, <1>5, <1>6, <1>7, <1>8, <1>9 DEF Next

(* What any step of the store does to the tasks.                           *)
LEMMA StepOfTask ==
    ASSUME IInv, [Next]_vars
    PROVE  \/ \A t \in Task : OrdinaryStep(t)
           \/ \E c \in Task : /\ Claimed(c)
                             /\ \A t \in Task \ {c} : OrdinaryStep(t)
  <1>1. CASE \E lag \in Lags, w \in Worker, c \in Task : ClaimLeases(w, c, lag)
    <2>1. PICK lag \in Lags, w \in Worker, c \in Task : ClaimLeases(w, c, lag)
      BY <1>1
    <2>2. Claimed(c) /\ \A t \in Task \ {c} : Kept(t) \/ Returned(t)
      BY <2>1, StepOfClaim
    <2> QED
      BY <2>2 DEF OrdinaryStep
  <1>2. CASE \A lag \in Lags, w \in Worker, c \in Task : ~ClaimLeases(w, c, lag)
    BY <1>2, StepOfOthers
  <1> QED
    BY <1>1, <1>2
-----------------------------------------------------------------------------
(* Action properties. *)

(* A task that has succeeded, was dead-lettered or was cancelled keeps its *)
(* state, result and attempts through every later operation.               *)
THEOREM TerminalStaysFinal == Spec => TerminalIsFinal
  <1>1. IInv /\ [Next]_vars =>
          [\A t \in Task : tasks[t].state \in Terminal =>
              /\ tasks'[t].state = tasks[t].state
              /\ tasks'[t].result = tasks[t].result
              /\ tasks'[t].attempts = tasks[t].attempts]_vars
    <2> SUFFICES ASSUME IInv, [Next]_vars, NEW t \in Task, tasks[t].state \in Terminal
                 PROVE  /\ tasks'[t].state = tasks[t].state
                        /\ tasks'[t].result = tasks[t].result
                        /\ tasks'[t].attempts = tasks[t].attempts
      OBVIOUS
    <2>1. OrdinaryStep(t) \/ Claimed(t)
      BY StepOfTask
    <2>2. tasks[t].state \notin {"absent", "PENDING", "RETRY_WAIT", "LEASED"}
      BY DEF Terminal
    <2>3. Kept(t)
      BY <2>1, <2>2 DEF OrdinaryStep, Enqueued, Returned, Completed, Cancelled,
                        Claimed, Waiting
    <2> QED
      BY <2>3 DEF Kept
  <1> QED
    BY <1>1, InvariantHolds, PTL DEF Spec, TerminalIsFinal

(* A lease that has not expired is never passed to another attempt.        *)
THEOREM LiveLeaseStays == Spec => LiveLeaseIsKept
  <1>1. IInv /\ [Next]_vars =>
          [\A t \in Task :
              /\ tasks[t].state = "LEASED"
              /\ tasks'[t].attempts # tasks[t].attempts
              => tasks[t].expires_in <= 0]_vars
    <2> SUFFICES ASSUME IInv, [Next]_vars, NEW t \in Task,
                        tasks[t].state = "LEASED",
                        tasks'[t].attempts # tasks[t].attempts
                 PROVE  tasks[t].expires_in <= 0
      OBVIOUS
    <2>1. OrdinaryStep(t) \/ Claimed(t)
      BY StepOfTask
    <2>2. Claimed(t)
      BY <2>1 DEF OrdinaryStep, Kept, Enqueued, Returned, Completed, Cancelled
    <2> QED
      BY <2>2 DEF Claimed, Waiting
  <1> QED
    BY <1>1, InvariantHolds, PTL DEF Spec, LiveLeaseIsKept

(* A worker is given work only while ONLINE with a heartbeat in time, and  *)
(* afterwards really holds no more leases than it registered for.          *)
THEOREM ClaimsAreAdmitted == Spec => ClaimsRespectWorker
  <1>1. ASSUME IInv, IInv', [Next]_vars, NEW w \in Worker, NEW t \in Task,
               tasks'[t].lease_owner = w,
               tasks'[t].attempts > tasks[t].attempts
        PROVE  /\ workers[w].state = "ONLINE"
               /\ workers[w].heartbeat_age <= HeartbeatTimeout + MaxLag
               /\ Cardinality(Leases(w)') <= workers[w].max_concurrency
    <2>1. tasks[t].attempts \in Nat
      BY <1>1, RowFacts
    <2>2. ~OrdinaryStep(t)
      BY <1>1, <2>1 DEF OrdinaryStep, Kept, Enqueued, Returned, Completed, Cancelled
    <2>3. PICK lag \in Lags, v \in Worker, c \in Task : ClaimLeases(v, c, lag)
      BY <1>1, <2>2, StepOfOthers
    <2>4. c = t
      BY <1>1, <2>2, <2>3, StepOfClaim DEF OrdinaryStep
    <2> DEFINE ts == RecoveredTasks(lag)
               ws == RecoveredWorkers(lag)
    <2>5. /\ Inv(ws, ts, RecoveredLetters(lag))
          /\ ws = [u \in Worker |-> ws[u]] /\ ts = [u \in Task |-> ts[u]]
      BY <1>1, RecoveryKeepsInv DEF Inv
    <2>6. /\ tasks' = [ts EXCEPT ![t] = LeasedRow(ts[t], v, lag)]
          /\ workers' = [ws EXCEPT ![v].current_load = @ + 1]
          /\ workers[v].state = "ONLINE" /\ ~Stale(v, lag)
          /\ ws[v].current_load < workers[v].max_concurrency
      BY <2>3, <2>4 DEF ClaimLeases, HasCapacity
    <2> HIDE DEF ts, ws
    <2>7. ts[t] \in TaskRow /\ ws[v] \in WorkerRow
      BY <2>5 DEF Inv, TaskRowOK, WorkerRowOK
    <2>8. v = w
      <3>1. tasks'[t] = LeasedRow(ts[t], v, lag)
        BY <2>5, <2>6
      <3>2. tasks'[t].lease_owner = v
        BY <2>7, <3>1 DEF LeasedRow, TaskRow
      <3> QED
        BY <1>1, <3>2
    <2>9. workers[w].heartbeat_age <= HeartbeatTimeout + MaxLag
      <3>1. /\ lag \in Int /\ lag <= MaxLag /\ MaxLag \in Nat /\ HeartbeatTimeout \in Nat
        BY StoreAssumption DEF Lags
      <3>2. workers[w].heartbeat_age \in Nat
        BY <1>1 DEF IInv, Inv, WorkerRowOK, WorkerRow
      <3> QED
        BY <2>6, <2>8, <3>1, <3>2 DEF Stale
    <2>10. Cardinality(Leases(w)') <= workers[w].max_concurrency
      <3>1. Cardinality(Leases(w)') = workers'[w].current_load
        BY <1>1 DEF IInv, Inv, Leases, LeasedBy, LeaseSet, RowLeasedBy
      <3>2. workers'[w].current_load = ws[w].current_load + 1
        BY <2>5, <2>6, <2>7, <2>8 DEF WorkerRow
      <3>3. ws[w].current_load \in Nat /\ workers[w].max_concurrency \in Nat
        BY <1>1, <2>7, <2>8 DEF IInv, Inv, WorkerRowOK, WorkerRow
      <3> QED
        BY <2>6, <2>8, <3>1, <3>2, <3>3
    <2> QED
      BY <2>6, <2>8, <2>9, <2>10
  <1>2. IInv /\ IInv' /\ [Next]_vars =>
          [\A w \in Worker : (\E t \in Task :
              /\ tasks'[t].lease_owner = w
              /\ tasks'[t].attempts > tasks[t].attempts) =>
            /\ workers[w].state = "ONLINE"
            /\ workers[w].heartbeat_age <= HeartbeatTimeout + MaxLag
            /\ Cardinality(Leases(w)') <= workers[w].max_concurrency]_vars
    BY <1>1
  <1> QED
    BY <1>2, InvariantHolds, PTL DEF Spec, ClaimsRespectWorker

-----------------------------------------------------------------------------
(* The store implements the lifecycle. *)

LifeOfTasks == [t \in Task |-> [phase |-> PhaseOf(tasks[t].state),
                               attempts |-> tasks[t].attempts,
                               holder |-> tasks[t].lease_owner]]

(* The phases of the states, each by itself. *)
LEMMA Phases ==
    /\ PhaseOf("absent") = "absent" /\ PhaseOf("PENDING") = "waiting"
    /\ PhaseOf("RETRY_WAIT") = "waiting" /\ PhaseOf("LEASED") = "running"
    /\ PhaseOf("SUCCEEDED") = "succeeded" /\ PhaseOf("DEAD_LETTER") = "buried"
    /\ PhaseOf("CANCELLED") = "cancelled"
  BY DEF PhaseOf, Waiting

(* What a step of one task is, as one of the lifecycle's alternatives.     *)
LEMMA OrdinaryStepRefines ==
    ASSUME IInv, NEW t \in Task, OrdinaryStep(t)
    PROVE  /\ \/ LifeOfTasks'[t] = LifeOfTasks[t]
              \/ Lifecycle!Submit(t) \/ Lifecycle!GiveBack(t)
              \/ Lifecycle!Bury(t) \/ Lifecycle!Succeed(t) \/ Lifecycle!Cancel(t)
           /\ LifeOfTasks'[t].attempts = LifeOfTasks[t].attempts
  <1>1. /\ LifeOfTasks[t].phase = PhaseOf(tasks[t].state)
        /\ LifeOfTasks[t].attempts = tasks[t].attempts
        /\ LifeOfTasks'[t] = [phase |-> PhaseOf(tasks'[t].state),
                              attempts |-> tasks'[t].attempts,
                              holder |-> tasks'[t].lease_owner]
    BY DEF LifeOfTasks
  <1>2. /\ tasks[t].attempts \in Nat /\ MaxAttempts[t] \in Nat
        /\ tasks[t].state = "absent" => tasks[t].attempts = 0
        /\ tasks[t].state = "absent" => tasks[t].lease_owner = NoWorker
        /\ tasks[t].state = "LEASED" => tasks[t].attempts \in 1..MaxAttempts[t]
    BY RowFacts
  <1>3. LifeOfTasks'[t].attempts = LifeOfTasks[t].attempts
    BY <1>1 DEF OrdinaryStep, Kept, Enqueued, Returned, Completed, Cancelled
  <1>4. CASE Kept(t)
    BY <1>4 DEF Kept, LifeOfTasks
  <1>5. CASE Enqueued(t)
    <2>1. Lifecycle!Submit(t)
      BY <1>2, <1>5, Phases DEF Enqueued, Lifecycle!Submit, Lifecycle!LifeOf
    <2> QED
      BY <1>3, <2>1
  <1>6. CASE Returned(t) /\ Retryable(t)
    <2>1. Lifecycle!GiveBack(t)
      BY <1>6, Phases DEF Returned, Retryable, Lifecycle!GiveBack, Lifecycle!LifeOf
    <2> QED
      BY <1>3, <2>1
  <1>7. CASE Returned(t) /\ ~Retryable(t)
    <2>1. tasks[t].attempts = MaxAttempts[t]
      BY <1>2, <1>7 DEF Returned, Retryable
    <2>2. Lifecycle!Bury(t)
      BY <1>7, <2>1, Phases DEF Returned, Lifecycle!Bury, Lifecycle!LifeOf
    <2> QED
      BY <1>3, <2>2
  <1>8. CASE Completed(t)
    <2>1. Lifecycle!Succeed(t)
      BY <1>8, Phases DEF Completed, Lifecycle!Succeed, Lifecycle!LifeOf
    <2> QED
      BY <1>3, <2>1
  <1>9. CASE Cancelled(t)
    <2>1. Lifecycle!Cancel(t)
      BY <1>9, Phases DEF Cancelled, Lifecycle!Cancel, Lifecycle!LifeOf
    <2> QED
      BY <1>3, <2>1
  <1> QED
    BY <1>4, <1>5, <1>6, <1>7, <1>8, <1>9 DEF OrdinaryStep

(* A claim is a start of the lifecycle.                                    *)
LEMMA ClaimedRefines ==
    ASSUME IInv, NEW t \in Task, Claimed(t)
    PROVE  Lifecycle!Start(t)
  <1>1. tasks[t].state \in {"PENDING", "RETRY_WAIT", "LEASED"}
    BY DEF Claimed, Waiting
  <1>2. PhaseOf(tasks[t].state) \in {"waiting", "running"}
    BY <1>1, Phases
  <1>3. /\ tasks'[t].attempts = tasks[t].attempts + 1
        /\ tasks[t].attempts < MaxAttempts[t]
        /\ tasks'[t].lease_owner \in Worker
        /\ PhaseOf(tasks'[t].state) = "running"
    BY Phases DEF Claimed
  <1> QED
    BY <1>2, <1>3 DEF Lifecycle!Start, Lifecycle!LifeOf

(* Every behaviour of the store is a behaviour of TaskLifecycle: bounded   *)
(* attempts, one holder at a time and one end, for all constants.          *)
THEOREM StoreImplementsLifecycle == Spec => ImplementsLifecycle
  <1>1. Init => Lifecycle!Init
    <2> SUFFICES ASSUME Init
                 PROVE  Lifecycle!Init
      OBVIOUS
    <2>1. \A t \in Task : /\ PhaseOf(tasks[t].state) = "absent"
                         /\ tasks[t].attempts = 0 /\ tasks[t].lease_owner = NoWorker
      BY Phases DEF Init, NoTaskRow
    <2> QED
      BY <2>1 DEF Lifecycle!Init, Lifecycle!LifeOf
  <1>2. IInv /\ [Next]_vars => [Lifecycle!Next]_LifeOfTasks
    <2> SUFFICES ASSUME IInv, [Next]_vars
                 PROVE  Lifecycle!Next
      OBVIOUS
    <2>1. \/ \A t \in Task : OrdinaryStep(t)
          \/ \E c \in Task : /\ Claimed(c)
                            /\ \A t \in Task \ {c} : OrdinaryStep(t)
      BY StepOfTask
    <2>2. \A t \in Task : OrdinaryStep(t) =>
             /\ \/ LifeOfTasks'[t] = LifeOfTasks[t]
                \/ Lifecycle!Submit(t) \/ Lifecycle!GiveBack(t)
                \/ Lifecycle!Bury(t) \/ Lifecycle!Succeed(t) \/ Lifecycle!Cancel(t)
             /\ ~Lifecycle!Started(t)
      <3> SUFFICES ASSUME NEW t \in Task, OrdinaryStep(t)
                   PROVE  /\ \/ LifeOfTasks'[t] = LifeOfTasks[t]
                             \/ Lifecycle!Submit(t) \/ Lifecycle!GiveBack(t)
                             \/ Lifecycle!Bury(t) \/ Lifecycle!Succeed(t)
                             \/ Lifecycle!Cancel(t)
                          /\ ~Lifecycle!Started(t)
        OBVIOUS
      <3>1. LifeOfTasks'[t].attempts = LifeOfTasks[t].attempts
        BY OrdinaryStepRefines
      <3>2. tasks'[t].attempts = tasks[t].attempts /\ tasks[t].attempts \in Nat
        BY <3>1, RowFacts DEF LifeOfTasks
      <3>3. ~Lifecycle!Started(t)
        BY <3>2 DEF Lifecycle!Started
      <3> QED
        BY <3>3, OrdinaryStepRefines
    <2>3. \A t \in Task : Claimed(t) => Lifecycle!Start(t)
      BY ClaimedRefines
    <2> QED
      BY <2>1, <2>2, <2>3 DEF Lifecycle!Next, LifeOfTasks
  <1> QED
    BY <1>1, <1>2, InvariantHolds, PTL DEF Spec, ImplementsLifecycle, Lifecycle!Spec, LifeOfTasks
=============================================================================
