------------------------ MODULE ExecutionFabricStore ------------------------
(***************************************************************************)
(* The durable task queue, worker registry and dead-letter table of        *)
(* src/src/aios/execution_fabric/store.py.  Every operation runs inside    *)
(* one BEGIN IMMEDIATE transaction and is one action here; an operation    *)
(* that raises rolls back and is no step at all.                           *)
(*                                                                         *)
(* Time is relative: a row keeps how long ago its heartbeat was, and how   *)
(* long until it becomes available or its lease expires.  An operation     *)
(* reads time.time() before it waits for the write lock, so it may act on  *)
(* a timestamp that is up to MaxLag old when the transaction runs; lag     *)
(* names that delay.                                                       *)
(***************************************************************************)
EXTENDS Integers, FiniteSets

CONSTANTS
    Worker, Task,        \* worker ids; tasks, named by their idempotency key
    NoWorker,            \* the NULL of lease_owner
    MaxAttempts,         \* [Task -> max_attempts]
    Priority,            \* [Task -> priority], the smallest first
    Capability,          \* [Task -> the capability it asks for]
    Capabilities,        \* [Worker -> the capabilities it registers]
    Concurrency,         \* [Worker -> the max_concurrency values it may register]
    RetryDelays,         \* the retry delays a failure may ask for
    LeaseSeconds, HeartbeatTimeout,
    MaxLag,              \* bound: the longest wait for the write lock
    ScanLimit            \* rows claim_task reads (LIMIT 256 in the code)

ASSUME StoreAssumption ==
    /\ IsFiniteSet(Task)
    /\ NoWorker \notin Worker
    /\ MaxAttempts \in [Task -> Nat \ {0}]
    /\ Priority \in [Task -> Int]
    /\ Capabilities \in [Worker -> SUBSET {Capability[t] : t \in Task}]
    /\ Concurrency \in [Worker -> SUBSET (Nat \ {0})]
    /\ RetryDelays \subseteq Nat
    /\ LeaseSeconds \in Nat \ {0}
    /\ HeartbeatTimeout \in Nat \ {0}
    /\ MaxLag \in Nat
    /\ ScanLimit \in Nat \ {0}

VARIABLES
    workers,       \* [Worker -> row of table workers]
    tasks,         \* [Task -> row of table tasks]
    dead_letters   \* [Task -> attempts of its dead_letters row, 0 without one]

vars == <<workers, tasks, dead_letters>>

-----------------------------------------------------------------------------
(* Rows. *)

WorkerState == {"absent", "ONLINE", "DRAINING", "OFFLINE", "FAILED"}
TaskState == {"absent", "PENDING", "LEASED", "RETRY_WAIT",
              "SUCCEEDED", "DEAD_LETTER", "CANCELLED"}
Terminal == {"SUCCEEDED", "DEAD_LETTER", "CANCELLED"}
Waiting == {"PENDING", "RETRY_WAIT"}

Lags == 0..MaxLag

WorkerRow == [state : WorkerState, current_load : Nat,
              max_concurrency : Nat, heartbeat_age : Nat]

(***************************************************************************)
(* created orders tasks by created_at; result is the attempt whose handler *)
(* produced result_json, 0 for NULL.  available_in is meaningful while the *)
(* row waits and expires_in while it is leased, the only times the code    *)
(* reads those columns; otherwise they are 0.                              *)
(***************************************************************************)
TaskRow == [state : TaskState, attempts : Nat, available_in : Int,
            lease_owner : Worker \cup {NoWorker}, expires_in : Int,
            created : Nat, result : Nat]

NoWorkerRow == [state |-> "absent", current_load |-> 0,
                max_concurrency |-> 0, heartbeat_age |-> 0]

NoTaskRow == [state |-> "absent", attempts |-> 0, available_in |-> 0,
              lease_owner |-> NoWorker, expires_in |-> 0,
              created |-> 0, result |-> 0]

Init ==
    /\ workers = [w \in Worker |-> NoWorkerRow]
    /\ tasks = [t \in Task |-> NoTaskRow]
    /\ dead_letters = [t \in Task |-> 0]

Registered(w) == workers[w].state # "absent"
LeasedBy(t, w) == tasks[t].state = "LEASED" /\ tasks[t].lease_owner = w
Leases(w) == {t \in Task : LeasedBy(t, w)}

-----------------------------------------------------------------------------
(* The worker registry. *)

register_worker(w, capacity, lag) ==
    /\ workers' = [workers EXCEPT ![w] =
          [@ EXCEPT !.state = "ONLINE", !.max_concurrency = capacity,
                    !.heartbeat_age = lag]]
    /\ UNCHANGED <<tasks, dead_letters>>

(* DRAINING and FAILED stick; any other state, OFFLINE too, becomes ONLINE *)
StateAfterHeartbeat(w) ==
    IF workers[w].state \in {"DRAINING", "FAILED"} THEN workers[w].state ELSE "ONLINE"

heartbeat_worker(w, lag) ==
    /\ Registered(w)
    /\ workers' = [workers EXCEPT ![w] =
          [@ EXCEPT !.state = StateAfterHeartbeat(w), !.heartbeat_age = lag]]
    /\ UNCHANGED <<tasks, dead_letters>>

set_worker_state(w, state) ==
    /\ Registered(w)
    /\ workers' = [workers EXCEPT ![w].state = state]
    /\ UNCHANGED <<tasks, dead_letters>>

Stale(w, lag) == workers[w].heartbeat_age - lag > HeartbeatTimeout

expire_stale_workers(lag) ==
    /\ workers' = [w \in Worker |->
          IF workers[w].state = "ONLINE" /\ Stale(w, lag)
          THEN [workers[w] EXCEPT !.state = "OFFLINE"] ELSE workers[w]]
    /\ UNCHANGED <<tasks, dead_letters>>

-----------------------------------------------------------------------------
(* Submission.  A second submission of a key returns the first row or      *)
(* raises, so only the first is a step.                                    *)

submit_task(t, lag) ==
    /\ tasks[t].state = "absent"
    /\ tasks' = [tasks EXCEPT ![t] =
          [@ EXCEPT !.state = "PENDING", !.available_in = -lag,
                    !.created = Cardinality({u \in Task : tasks[u].state # "absent"})]]
    /\ UNCHANGED <<workers, dead_letters>>

-----------------------------------------------------------------------------
(* The end of an unsuccessful lease: retry or dead letter. *)

Retryable_OffByOne(t) == tasks[t].attempts <= MaxAttempts[t]      \* mutant

Retryable(t) == tasks[t].attempts < MaxAttempts[t]

RowAfterFailure_AlwaysRetries(t, delay, lag) ==                     \* mutant
    [tasks[t] EXCEPT !.state = "RETRY_WAIT", !.available_in = delay - lag,
                     !.lease_owner = NoWorker, !.expires_in = 0]

RowAfterFailure_KeepsOwner(t, delay, lag) ==                        \* mutant
    [tasks[t] EXCEPT !.state = IF Retryable(t) THEN "RETRY_WAIT" ELSE "DEAD_LETTER",
                     !.available_in = IF Retryable(t) THEN delay - lag ELSE 0]

RowAfterFailure(t, delay, lag) ==
    [tasks[t] EXCEPT !.state = IF Retryable(t) THEN "RETRY_WAIT" ELSE "DEAD_LETTER",
                     !.available_in = IF Retryable(t) THEN delay - lag ELSE 0,
                     !.lease_owner = NoWorker, !.expires_in = 0]

LetterAfterFailure(t) ==
    IF Retryable(t) THEN dead_letters[t] ELSE tasks[t].attempts

(* _decrement_worker_load_locked, n times *)
Decremented(load, n) == IF load > n THEN load - n ELSE 0

ReleaseLoad(ws, w) ==
    [ws EXCEPT ![w].current_load = Decremented(@, 1)]

(* _recover_expired_locked: what the tables become when every lease that   *)
(* has expired at the timestamp is taken back                              *)
Expired_IgnoresExpiry(t, lag) == tasks[t].state = "LEASED"          \* mutant

Expired(t, lag) == tasks[t].state = "LEASED" /\ tasks[t].expires_in <= -lag

ExpiredOf(w, lag) == {t \in Leases(w) : Expired(t, lag)}

RecoveredTasks_ToPending(lag) == [t \in Task |->                    \* mutant
    IF Expired(t, lag)
    THEN [RowAfterFailure(t, 0, lag) EXCEPT !.state = "PENDING"] ELSE tasks[t]]

RecoveredTasks(lag) == [t \in Task |->
    IF Expired(t, lag) THEN RowAfterFailure(t, 0, lag) ELSE tasks[t]]

RecoveredWorkers(lag) == [w \in Worker |->
    [workers[w] EXCEPT !.current_load = Decremented(@, Cardinality(ExpiredOf(w, lag)))]]

RecoveredLetters(lag) == [t \in Task |->
    IF Expired(t, lag) THEN LetterAfterFailure(t) ELSE dead_letters[t]]

recover_expired_leases(lag) ==
    /\ tasks' = RecoveredTasks(lag)
    /\ workers' = RecoveredWorkers(lag)
    /\ dead_letters' = RecoveredLetters(lag)

-----------------------------------------------------------------------------
(* Claiming.  claim_task first recovers expired leases, then decides on    *)
(* the recovered tables; whatever it decides, the recovery is committed.   *)

Before(ts, t, u) ==
    \/ Priority[t] < Priority[u]
    \/ Priority[t] = Priority[u] /\ ts[t].created < ts[u].created

Ready_PendingOnly(ts, lag) ==                                       \* mutant
    {t \in Task : ts[t].state = "PENDING" /\ ts[t].available_in <= -lag}

Ready(ts, lag) ==
    {t \in Task : ts[t].state \in Waiting /\ ts[t].available_in <= -lag}

(* the first ScanLimit rows of ORDER BY priority, created_at, task_id *)
Scanned(ts, lag) ==
    {t \in Ready(ts, lag) :
        Cardinality({u \in Ready(ts, lag) : Before(ts, u, t)}) < ScanLimit}

Candidates(ts, w, lag) ==
    {t \in Scanned(ts, lag) : Capability[t] \in Capabilities[w]}

Selected(ts, w, lag) ==
    {t \in Candidates(ts, w, lag) :
        \A u \in Candidates(ts, w, lag) : ~Before(ts, u, t)}

HasCapacity_OffByOne(w, lag) ==                                     \* mutant
    RecoveredWorkers(lag)[w].current_load <= workers[w].max_concurrency

HasCapacity(w, lag) ==
    RecoveredWorkers(lag)[w].current_load < workers[w].max_concurrency

ClaimFindsWorkerNotOnline(w, lag) ==
    /\ Registered(w) /\ workers[w].state # "ONLINE"
    /\ recover_expired_leases(lag)

ClaimFindsWorkerStale(w, lag) ==
    /\ workers[w].state = "ONLINE" /\ Stale(w, lag)
    /\ tasks' = RecoveredTasks(lag)
    /\ workers' = [RecoveredWorkers(lag) EXCEPT ![w].state = "OFFLINE"]
    /\ dead_letters' = RecoveredLetters(lag)

ClaimFindsWorkerFull(w, lag) ==
    /\ workers[w].state = "ONLINE" /\ ~Stale(w, lag)
    /\ ~HasCapacity(w, lag)
    /\ recover_expired_leases(lag)

ClaimFindsNothing(w, lag) ==
    /\ workers[w].state = "ONLINE" /\ ~Stale(w, lag)
    /\ HasCapacity(w, lag)
    /\ Candidates(RecoveredTasks(lag), w, lag) = {}
    /\ recover_expired_leases(lag)

LeasedRow(row, w, lag) ==
    [row EXCEPT !.state = "LEASED", !.attempts = @ + 1, !.available_in = 0,
                !.lease_owner = w, !.expires_in = LeaseSeconds - lag]

ClaimLeases_ChargesOnce(w, t, lag) ==                               \* mutant
    /\ workers[w].state = "ONLINE" /\ ~Stale(w, lag)
    /\ HasCapacity(w, lag)
    /\ t \in Selected(RecoveredTasks(lag), w, lag)
    /\ tasks' = [RecoveredTasks(lag) EXCEPT ![t] =
          [LeasedRow(@, w, lag) EXCEPT !.attempts = 1]]
    /\ workers' = [RecoveredWorkers(lag) EXCEPT ![w].current_load = @ + 1]
    /\ dead_letters' = RecoveredLetters(lag)

ClaimLeases(w, t, lag) ==
    /\ workers[w].state = "ONLINE" /\ ~Stale(w, lag)
    /\ HasCapacity(w, lag)
    /\ t \in Selected(RecoveredTasks(lag), w, lag)
    /\ tasks' = [RecoveredTasks(lag) EXCEPT ![t] = LeasedRow(@, w, lag)]
    /\ workers' = [RecoveredWorkers(lag) EXCEPT ![w].current_load = @ + 1]
    /\ dead_letters' = RecoveredLetters(lag)

ClaimRefused(w, lag) ==
    \/ ClaimFindsWorkerNotOnline(w, lag)
    \/ ClaimFindsWorkerStale(w, lag)
    \/ ClaimFindsWorkerFull(w, lag)
    \/ ClaimFindsNothing(w, lag)

-----------------------------------------------------------------------------
(* The lease holder.  A lease is recognised by its worker id alone, and an *)
(* expired lease stays usable until somebody recovers it.                  *)

heartbeat_task(t, w, lag) ==
    /\ LeasedBy(t, w)
    /\ tasks' = [tasks EXCEPT ![t].expires_in = LeaseSeconds - lag]
    /\ UNCHANGED <<workers, dead_letters>>

complete_task_AnyState(t, w, result) ==                             \* mutant
    /\ tasks[t].state # "absent"
    /\ tasks' = [tasks EXCEPT ![t] =
          [@ EXCEPT !.state = "SUCCEEDED", !.result = result,
                    !.lease_owner = NoWorker, !.expires_in = 0]]
    /\ workers' = ReleaseLoad(workers, w)
    /\ UNCHANGED dead_letters

complete_task(t, w, result) ==
    /\ LeasedBy(t, w)
    /\ tasks' = [tasks EXCEPT ![t] =
          [@ EXCEPT !.state = "SUCCEEDED", !.result = result,
                    !.lease_owner = NoWorker, !.expires_in = 0]]
    /\ workers' = ReleaseLoad(workers, w)
    /\ UNCHANGED dead_letters

fail_task(t, w, delay, lag) ==
    /\ LeasedBy(t, w)
    /\ tasks' = [tasks EXCEPT ![t] = RowAfterFailure(t, delay, lag)]
    /\ workers' = ReleaseLoad(workers, w)
    /\ dead_letters' = [dead_letters EXCEPT ![t] = LetterAfterFailure(t)]

cancel_task_KeepsLoad(t) ==                                         \* mutant
    /\ tasks[t].state \notin {"absent", "SUCCEEDED", "DEAD_LETTER"}
    /\ tasks' = [tasks EXCEPT ![t] =
          [@ EXCEPT !.state = "CANCELLED", !.lease_owner = NoWorker, !.expires_in = 0]]
    /\ UNCHANGED <<workers, dead_letters>>

cancel_task_OfDeadLetter(t) ==                                      \* mutant
    /\ tasks[t].state = "DEAD_LETTER"
    /\ tasks' = [tasks EXCEPT ![t].state = "CANCELLED"]
    /\ UNCHANGED <<workers, dead_letters>>

cancel_task(t) ==
    /\ tasks[t].state \notin {"absent", "SUCCEEDED", "DEAD_LETTER"}
    /\ tasks' = [tasks EXCEPT ![t] =
          [@ EXCEPT !.state = "CANCELLED", !.available_in = 0,
                    !.lease_owner = NoWorker, !.expires_in = 0]]
    /\ workers' = IF tasks[t].state = "LEASED"
                  THEN ReleaseLoad(workers, tasks[t].lease_owner) ELSE workers
    /\ UNCHANGED dead_letters

-----------------------------------------------------------------------------
(***************************************************************************)
(* One second passes.  Clocks stop once no comparison can tell them apart: *)
(* ages above HeartbeatTimeout + MaxLag, countdowns below -MaxLag.         *)
(***************************************************************************)
CountDown(n) == IF n > -MaxLag THEN n - 1 ELSE n

Tick ==
    /\ workers' = [w \in Worker |->
          [workers[w] EXCEPT !.heartbeat_age =
              IF Registered(w) /\ @ <= HeartbeatTimeout + MaxLag THEN @ + 1 ELSE @]]
    /\ tasks' = [t \in Task |->
          [tasks[t] EXCEPT
              !.available_in = IF tasks[t].state \in Waiting THEN CountDown(@) ELSE @,
              !.expires_in = IF tasks[t].state = "LEASED" THEN CountDown(@) ELSE @]]
    /\ UNCHANGED dead_letters

(* Any client may call any operation at any time. *)
Next ==
    \/ Tick
    \/ \E lag \in Lags :
          \/ expire_stale_workers(lag)
          \/ recover_expired_leases(lag)
          \/ \E w \in Worker :
                \/ \E c \in Concurrency[w] : register_worker(w, c, lag)
                \/ heartbeat_worker(w, lag)
                \/ ClaimRefused(w, lag)
                \/ \E t \in Task :
                      \/ ClaimLeases(w, t, lag)
                      \/ heartbeat_task(t, w, lag)
                      \/ \E d \in RetryDelays : fail_task(t, w, d, lag)
          \/ \E t \in Task : submit_task(t, lag)
    \/ \E w \in Worker, s \in WorkerState \ {"absent"} : set_worker_state(w, s)
    \/ \E t \in Task : cancel_task(t)
    \/ \E t \in Task, w \in Worker :
          \E a \in 1..MaxAttempts[t] : complete_task(t, w, a)

Spec == Init /\ [][Next]_vars

-----------------------------------------------------------------------------
(* Properties. *)

(* Rows stay within the ranges of their columns; attempts never exceeds    *)
(* max_attempts, and no countdown or age leaves the window Tick keeps.     *)
TypeOK ==
    /\ workers \in [Worker -> WorkerRow]
    /\ \A w \in Worker : workers[w].heartbeat_age <= HeartbeatTimeout + MaxLag + 1
    /\ tasks \in [Task -> TaskRow]
    /\ \A t \in Task :
          /\ tasks[t].attempts <= MaxAttempts[t]
          /\ tasks[t].result <= MaxAttempts[t]
          /\ tasks[t].expires_in >= -MaxLag /\ tasks[t].available_in >= -MaxLag
    /\ dead_letters \in [Task -> Nat]

(* The current_load the claim compares with max_concurrency is the number  *)
(* of leases the worker holds, through every claim, completion, failure,   *)
(* recovery, cancellation and re-registration.                             *)
LoadMatchesLeases ==
    \A w \in Worker : workers[w].current_load = Cardinality(Leases(w))

(* A task has a lease owner exactly while it is LEASED, and that owner is  *)
(* a registered worker (the foreign key of lease_owner).                   *)
LeaseHasHolder ==
    \A t \in Task :
        /\ tasks[t].state = "LEASED" <=> tasks[t].lease_owner # NoWorker
        /\ tasks[t].state = "LEASED" => Registered(tasks[t].lease_owner)

(* attempts counts the leases granted: none before the first claim, at     *)
(* least one while leased, and some left whenever a retry is scheduled.    *)
AttemptsAccounted ==
    \A t \in Task :
        /\ tasks[t].state \in {"absent", "PENDING"} => tasks[t].attempts = 0
        /\ tasks[t].state = "RETRY_WAIT" => tasks[t].attempts \in 1..(MaxAttempts[t] - 1)
        /\ tasks[t].state = "LEASED" => tasks[t].attempts \in 1..MaxAttempts[t]

(* A dead-letter row exists exactly for the tasks in DEAD_LETTER, and it   *)
(* records that every attempt was used, whichever of failure, recovery or  *)
(* a claim's recovery sweep wrote it.                                      *)
DeadLettersExact ==
    \A t \in Task :
        dead_letters[t] = IF tasks[t].state = "DEAD_LETTER" THEN MaxAttempts[t] ELSE 0

(* A terminal task keeps its state, its result and its attempts: no late   *)
(* completion, failure, cancellation or recovery reopens or rewrites it.   *)
TerminalIsFinal ==
    [][\A t \in Task : tasks[t].state \in Terminal =>
          /\ tasks'[t].state = tasks[t].state
          /\ tasks'[t].result = tasks[t].result
          /\ tasks'[t].attempts = tasks[t].attempts]_vars

(* A task passes from one attempt to the next in a single transaction only *)
(* when its lease had expired: no claim takes a live lease from its holder.*)
LiveLeaseIsKept ==
    [][\A t \in Task :
          /\ tasks[t].state = "LEASED"
          /\ tasks'[t].attempts # tasks[t].attempts
          => tasks[t].expires_in <= 0]_vars

(* A worker is given work only while it is ONLINE with a heartbeat in      *)
(* time, and never beyond the concurrency it registered: the leases it     *)
(* really holds afterwards are counted, not current_load.                  *)
ClaimsRespectWorker ==
    [][\A w \in Worker : (\E t \in Task :
            /\ tasks'[t].lease_owner = w
            /\ tasks'[t].attempts > tasks[t].attempts) =>
          /\ workers[w].state = "ONLINE"
          /\ workers[w].heartbeat_age <= HeartbeatTimeout + MaxLag
          /\ Cardinality(Leases(w)') <= workers[w].max_concurrency]_vars

(* The store implements the life of a task that TaskLifecycle promises.    *)
PhaseOf(state) ==
    CASE state = "absent" -> "absent"
      [] state \in Waiting -> "waiting"
      [] state = "LEASED" -> "running"
      [] state = "SUCCEEDED" -> "succeeded"
      [] state = "DEAD_LETTER" -> "buried"
      [] state = "CANCELLED" -> "cancelled"

Lifecycle == INSTANCE TaskLifecycle WITH
    life <- [t \in Task |-> [phase |-> PhaseOf(tasks[t].state),
                             attempts |-> tasks[t].attempts,
                             holder |-> tasks[t].lease_owner]]

(* Every run of the store is a run of the abstract lifecycle.              *)
ImplementsLifecycle == Lifecycle!Spec
=============================================================================
