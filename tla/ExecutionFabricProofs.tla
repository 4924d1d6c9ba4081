----------------------- MODULE ExecutionFabricProofs -----------------------
(***************************************************************************)
(* Proofs about ExecutionFabricStore, for every set of workers and tasks   *)
(* and every value of its constants.                                       *)
(*                                                                         *)
(* The invariant is stated of tables passed as arguments, because a claim  *)
(* first computes recovered tables and then changes those: the lemma       *)
(* RecoveryKeepsInv is used for the recovery and again inside the claim.   *)
(***************************************************************************)
EXTENDS ExecutionFabricStore, FiniteSetTheorems, TLAPS

RowLeasedBy(row, w) == row.state = "LEASED" /\ row.lease_owner = w

LeaseSet(ts, w) == {t \in Task : RowLeasedBy(ts[t], w)}

(* a worker row by itself *)
WorkerRowOK(row) ==
    /\ row \in WorkerRow
    /\ row.heartbeat_age <= HeartbeatTimeout + MaxLag + 1

(* a task row and its dead-letter row by themselves *)
TaskRowOK(t, row, letter) ==
    /\ row \in TaskRow
    /\ row.result <= MaxAttempts[t]
    /\ row.expires_in >= -MaxLag /\ row.available_in >= -MaxLag
    /\ row.attempts <= MaxAttempts[t]
    /\ row.state \in {"absent", "PENDING"} => row.attempts = 0
    /\ row.state = "RETRY_WAIT" => row.attempts \in 1..(MaxAttempts[t] - 1)
    /\ row.state = "LEASED" => row.attempts \in 1..MaxAttempts[t]
    /\ row.state = "LEASED" <=> row.lease_owner # NoWorker
    /\ letter = IF row.state = "DEAD_LETTER" THEN MaxAttempts[t] ELSE 0

HolderOK(ws, row) == row.state = "LEASED" => ws[row.lease_owner].state # "absent"

Inv(ws, ts, dl) ==
    /\ ws = [w \in Worker |-> ws[w]]
    /\ ts = [t \in Task |-> ts[t]]
    /\ dl = [t \in Task |-> dl[t]]
    /\ \A w \in Worker : WorkerRowOK(ws[w])
    /\ \A t \in Task : TaskRowOK(t, ts[t], dl[t])
    /\ \A t \in Task : HolderOK(ws, ts[t])
    /\ \A w \in Worker : ws[w].current_load = Cardinality(LeaseSet(ts, w))

IInv == Inv(workers, tasks, dead_letters)

-----------------------------------------------------------------------------
(* Counting leases. *)

(* The leases of a worker are a finite set with a cardinality. *)
LEMMA LeaseSetFinite ==
    ASSUME NEW ts, NEW w
    PROVE  /\ IsFiniteSet(LeaseSet(ts, w))
           /\ Cardinality(LeaseSet(ts, w)) \in Nat
  <1>1. LeaseSet(ts, w) \in SUBSET Task
    BY DEF LeaseSet
  <1>2. IsFiniteSet(LeaseSet(ts, w))
    BY <1>1, StoreAssumption, FS_Subset
  <1> QED
    BY <1>2, FS_CardinalityType

(* Replacing one row changes a worker's number of leases by that row only. *)
LEMMA OneRowChanges ==
    ASSUME NEW ts, ts = [u \in Task |-> ts[u]],
           NEW t \in Task, NEW row, NEW w
    PROVE  Cardinality(LeaseSet([ts EXCEPT ![t] = row], w)) =
             Cardinality(LeaseSet(ts, w))
             - (IF RowLeasedBy(ts[t], w) THEN 1 ELSE 0)
             + (IF RowLeasedBy(row, w) THEN 1 ELSE 0)
  <1> DEFINE S == LeaseSet(ts, w)
             U == LeaseSet([ts EXCEPT ![t] = row], w)
  <1>1. IsFiniteSet(S) /\ Cardinality(S) \in Nat
    BY LeaseSetFinite
  <1>2. t \in S <=> RowLeasedBy(ts[t], w)
    BY DEF LeaseSet
  <1>3. /\ IsFiniteSet(S \ {t})
        /\ Cardinality(S \ {t}) = IF t \in S THEN Cardinality(S) - 1 ELSE Cardinality(S)
    BY <1>1, FS_RemoveElement
  <1>4. /\ Cardinality((S \ {t}) \cup {t}) = Cardinality(S \ {t}) + 1
    BY <1>3, FS_AddElement
  <1>5. Cardinality(S \ {t}) \in Nat
    BY <1>3, FS_CardinalityType
  <1>6. CASE RowLeasedBy(row, w)
    <2>1. U = (S \ {t}) \cup {t}
      BY <1>6 DEF LeaseSet
    <2>2. Cardinality(U) = Cardinality(S \ {t}) + 1
      BY <2>1, <1>4
    <2>3. Cardinality(U) = Cardinality(S) - (IF t \in S THEN 1 ELSE 0) + 1
      <3> HIDE DEF S, U
      <3> QED  BY <2>2, <1>1, <1>3
    <2> QED
      BY <2>3, <1>2, <1>6
  <1>7. CASE ~RowLeasedBy(row, w)
    <2>1. U = S \ {t}
      BY <1>7 DEF LeaseSet
    <2>2. Cardinality(U) = Cardinality(S) - (IF t \in S THEN 1 ELSE 0) + 0
      <3> HIDE DEF S, U
      <3> QED  BY <2>1, <1>1, <1>3
    <2> QED
      BY <2>2, <1>2, <1>7
  <1> QED
    BY <1>6, <1>7

(* The holder of a lease has at least one lease. *)
LEMMA HolderHasLease ==
    ASSUME NEW ts, NEW t \in Task, NEW w, RowLeasedBy(ts[t], w)
    PROVE  Cardinality(LeaseSet(ts, w)) >= 1
  <1>1. LeaseSet(ts, w) # {}
    BY DEF LeaseSet
  <1>2. IsFiniteSet(LeaseSet(ts, w)) /\ Cardinality(LeaseSet(ts, w)) \in Nat
    BY LeaseSetFinite
  <1>3. Cardinality(LeaseSet(ts, w)) # 0
    BY <1>1, <1>2, FS_EmptySet
  <1> QED
    BY <1>2, <1>3

-----------------------------------------------------------------------------
(* Preservation, operation shape by operation shape. *)

(* A change of worker rows that keeps loads and registrations. *)
LEMMA WorkersKeepInv ==
    ASSUME NEW ws, NEW ts, NEW dl, Inv(ws, ts, dl),
           NEW vs, vs = [w \in Worker |-> vs[w]],
           \A w \in Worker : /\ WorkerRowOK(vs[w])
                             /\ vs[w].current_load = ws[w].current_load
                             /\ ws[w].state # "absent" => vs[w].state # "absent"
    PROVE  Inv(vs, ts, dl)
  <1>1. \A t \in Task : HolderOK(vs, ts[t])
    <2> SUFFICES ASSUME NEW t \in Task, ts[t].state = "LEASED"
                 PROVE  vs[ts[t].lease_owner].state # "absent"
      BY DEF HolderOK
    <2>1. ts[t].lease_owner \in Worker
      BY DEF Inv, TaskRowOK, TaskRow
    <2> QED
      BY <2>1 DEF Inv, HolderOK
  <1> QED
    BY <1>1 DEF Inv

(* A change of one task row together with the loads it accounts for. *)
LEMMA OneRowKeepsInv ==
    ASSUME NEW ws, NEW ts, NEW dl, Inv(ws, ts, dl),
           NEW t \in Task, NEW row, NEW letter, TaskRowOK(t, row, letter),
           NEW vs, vs = [w \in Worker |-> vs[w]], HolderOK(vs, row),
           \A w \in Worker :
              /\ WorkerRowOK(vs[w])
              /\ ws[w].state # "absent" => vs[w].state # "absent"
              /\ vs[w].current_load = ws[w].current_load
                    - (IF RowLeasedBy(ts[t], w) THEN 1 ELSE 0)
                    + (IF RowLeasedBy(row, w) THEN 1 ELSE 0)
    PROVE  Inv(vs, [ts EXCEPT ![t] = row], [dl EXCEPT ![t] = letter])
  <1> DEFINE ts2 == [ts EXCEPT ![t] = row]
             dl2 == [dl EXCEPT ![t] = letter]
  <1>0. /\ ts = [u \in Task |-> ts[u]] /\ dl = [u \in Task |-> dl[u]]
        /\ \A u \in Task : TaskRowOK(u, ts[u], dl[u]) /\ HolderOK(ws, ts[u])
        /\ \A w \in Worker : ws[w].current_load = Cardinality(LeaseSet(ts, w))
    BY DEF Inv
  <1>1. /\ ts2 = [u \in Task |-> ts2[u]] /\ dl2 = [u \in Task |-> dl2[u]]
        /\ ts2[t] = row /\ dl2[t] = letter
        /\ \A u \in Task \ {t} : ts2[u] = ts[u] /\ dl2[u] = dl[u]
    BY <1>0
  <1>2. \A u \in Task : TaskRowOK(u, ts2[u], dl2[u])
    BY <1>0, <1>1
  <1>3. \A u \in Task : HolderOK(vs, ts2[u])
    <2> SUFFICES ASSUME NEW u \in Task \ {t}, ts[u].state = "LEASED"
                 PROVE  vs[ts[u].lease_owner].state # "absent"
      BY <1>1 DEF HolderOK
    <2>1. ts[u].lease_owner \in Worker
      BY <1>0 DEF TaskRowOK, TaskRow
    <2> QED
      BY <2>1, <1>0 DEF HolderOK
  <1>4. \A w \in Worker : vs[w].current_load = Cardinality(LeaseSet(ts2, w))
    <2> SUFFICES ASSUME NEW w \in Worker
                 PROVE  vs[w].current_load = Cardinality(LeaseSet(ts2, w))
      OBVIOUS
    <2> QED
      BY <1>0, OneRowChanges
  <1> HIDE DEF ts2, dl2
  <1>5. Inv(vs, ts2, dl2)
    BY <1>1, <1>2, <1>3, <1>4 DEF Inv
  <1> QED
    BY <1>5 DEF ts2, dl2

(* The end of a lease: its row leaves LEASED and its holder's load drops. *)
LEMMA ReleaseKeepsInv ==
    ASSUME NEW ws, NEW ts, NEW dl, Inv(ws, ts, dl),
           NEW t \in Task, NEW w \in Worker, RowLeasedBy(ts[t], w),
           NEW row, NEW letter, TaskRowOK(t, row, letter), row.state # "LEASED"
    PROVE  Inv(ReleaseLoad(ws, w), [ts EXCEPT ![t] = row], [dl EXCEPT ![t] = letter])
  <1> DEFINE vs == ReleaseLoad(ws, w)
  <1>1. /\ ws = [v \in Worker |-> ws[v]]
        /\ \A v \in Worker : WorkerRowOK(ws[v])
        /\ ws[w].current_load = Cardinality(LeaseSet(ts, w))
    BY DEF Inv
  <1>2. ws[w].current_load >= 1
    BY <1>1, HolderHasLease
  <1>3. /\ vs = [v \in Worker |-> vs[v]]
        /\ \A v \in Worker \ {w} : vs[v] = ws[v]
        /\ vs[w] = [ws[w] EXCEPT !.current_load = Decremented(ws[w].current_load, 1)]
    BY <1>1 DEF ReleaseLoad
  <1>4. ws[w] \in WorkerRow
    BY <1>1 DEF WorkerRowOK
  <1>5. Decremented(ws[w].current_load, 1) = ws[w].current_load - 1
    BY <1>2, <1>4 DEF Decremented, WorkerRow
  <1>6. /\ WorkerRowOK(vs[w]) /\ vs[w].state = ws[w].state
        /\ vs[w].current_load = ws[w].current_load - 1
    BY <1>1, <1>2, <1>3, <1>4, <1>5 DEF WorkerRowOK, WorkerRow
  <1>7. ~RowLeasedBy(row, w) /\ HolderOK(vs, row)
    BY DEF RowLeasedBy, HolderOK
  <1> HIDE DEF vs
  <1>8. \A v \in Worker :
           /\ WorkerRowOK(vs[v])
           /\ ws[v].state # "absent" => vs[v].state # "absent"
           /\ vs[v].current_load = ws[v].current_load
                 - (IF RowLeasedBy(ts[t], v) THEN 1 ELSE 0)
                 + (IF RowLeasedBy(row, v) THEN 1 ELSE 0)
    <2> SUFFICES ASSUME NEW v \in Worker
                 PROVE  /\ WorkerRowOK(vs[v])
                        /\ ws[v].state # "absent" => vs[v].state # "absent"
                        /\ vs[v].current_load = ws[v].current_load
                              - (IF RowLeasedBy(ts[t], v) THEN 1 ELSE 0)
                              + (IF RowLeasedBy(row, v) THEN 1 ELSE 0)
      OBVIOUS
    <2>1. CASE v = w
      BY <2>1, <1>4, <1>6, <1>7 DEF WorkerRow
    <2>2. CASE v # w
      <3>1. ~RowLeasedBy(ts[t], v) /\ ~RowLeasedBy(row, v)
        BY <2>2 DEF RowLeasedBy
      <3>2. vs[v] = ws[v] /\ WorkerRowOK(ws[v])
        BY <2>2, <1>1, <1>3
      <3> QED
        BY <3>1, <3>2 DEF WorkerRowOK, WorkerRow
    <2> QED
      BY <2>1, <2>2
  <1>9. Inv(vs, [ts EXCEPT ![t] = row], [dl EXCEPT ![t] = letter])
    BY <1>3, <1>7, <1>8, OneRowKeepsInv
  <1> QED
    BY <1>9 DEF vs

-----------------------------------------------------------------------------
(* Failure, recovery and claim. *)

(* The columns a task's row gets when its lease starts or ends. *)
LEMMA RowUpdate ==
    ASSUME NEW r \in TaskRow, NEW s \in TaskState, NEW n \in Nat, NEW a \in Int,
           NEW o \in Worker \cup {NoWorker}, NEW e \in Int
    PROVE  /\ [r EXCEPT !.state = s, !.attempts = n, !.available_in = a,
                        !.lease_owner = o, !.expires_in = e] \in TaskRow
           /\ [r EXCEPT !.state = s, !.available_in = a,
                        !.lease_owner = o, !.expires_in = e] \in TaskRow
           /\ [r EXCEPT !.state = s, !.available_in = a, !.created = n] \in TaskRow
           /\ [r EXCEPT !.state = s, !.result = n,
                        !.lease_owner = o, !.expires_in = e] \in TaskRow
  BY DEF TaskRow

(* The columns the passing of time changes. *)
LEMMA CountdownUpdate ==
    ASSUME NEW r \in TaskRow, NEW a \in Int, NEW e \in Int
    PROVE  [r EXCEPT !.available_in = a, !.expires_in = e] \in TaskRow
  BY DEF TaskRow

(* The row and the dead letter a failed or expired lease leaves are sound. *)
LEMMA FailureRow ==
    ASSUME IInv, NEW t \in Task, tasks[t].state = "LEASED",
           NEW delay \in Nat, NEW lag \in Lags
    PROVE  /\ TaskRowOK(t, RowAfterFailure(t, delay, lag), LetterAfterFailure(t))
           /\ RowAfterFailure(t, delay, lag).state # "LEASED"
  <1> DEFINE s == IF Retryable(t) THEN "RETRY_WAIT" ELSE "DEAD_LETTER"
             a == IF Retryable(t) THEN delay - lag ELSE 0
             row == RowAfterFailure(t, delay, lag)
  <1>1. /\ TaskRowOK(t, tasks[t], dead_letters[t])
        /\ MaxAttempts[t] \in Nat \ {0} /\ MaxLag \in Nat /\ NoWorker \notin Worker
        /\ lag \in Int /\ 0 <= lag /\ lag <= MaxLag
    BY StoreAssumption DEF IInv, Inv, Lags
  <1>2. /\ tasks[t] \in TaskRow /\ tasks[t].attempts \in Nat
        /\ tasks[t].attempts \in 1..MaxAttempts[t] /\ dead_letters[t] = 0
    BY <1>1 DEF TaskRowOK, TaskRow
  <1>3. s \in TaskState /\ a \in Int /\ a >= -MaxLag
    BY <1>1 DEF TaskState
  <1>4. row = [tasks[t] EXCEPT !.state = s, !.available_in = a,
                               !.lease_owner = NoWorker, !.expires_in = 0]
    BY DEF RowAfterFailure
  <1> HIDE DEF row
  <1>5. /\ row.state = s /\ row.available_in = a
        /\ row.lease_owner = NoWorker /\ row.expires_in = 0
        /\ row.attempts = tasks[t].attempts /\ row.result = tasks[t].result
    <2> HIDE DEF s, a
    <2> QED  BY <1>2, <1>4 DEF TaskRow
  <1>6. row \in TaskRow
    <2> HIDE DEF s, a
    <2>1. [tasks[t] EXCEPT !.state = s, !.available_in = a,
                           !.lease_owner = NoWorker, !.expires_in = 0] \in TaskRow
      <3>1. /\ tasks[t] \in TaskRow /\ s \in TaskState /\ a \in Int
            /\ NoWorker \in Worker \cup {NoWorker} /\ 0 \in Int
        BY <1>2, <1>3
      <3> QED  BY <3>1, RowUpdate, Zenon
    <2> QED  BY <2>1, <1>4
  <1>7. TaskRowOK(t, row, LetterAfterFailure(t)) /\ row.state # "LEASED"
    <2>1. CASE Retryable(t)
      BY <2>1, <1>1, <1>2, <1>3, <1>5, <1>6
         DEF TaskRowOK, LetterAfterFailure, Retryable
    <2>2. CASE ~Retryable(t)
      BY <2>2, <1>1, <1>2, <1>3, <1>5, <1>6
         DEF TaskRowOK, LetterAfterFailure, Retryable
    <2> QED
      BY <2>1, <2>2
  <1> QED
    BY <1>7 DEF row

(* Recovering every expired lease keeps the invariant. *)
LEMMA RecoveryKeepsInv ==
    ASSUME IInv, NEW lag \in Lags
    PROVE  Inv(RecoveredWorkers(lag), RecoveredTasks(lag), RecoveredLetters(lag))
  <1> DEFINE ws == RecoveredWorkers(lag)
             ts == RecoveredTasks(lag)
             dl == RecoveredLetters(lag)
  <1>0. /\ \A w \in Worker : WorkerRowOK(workers[w])
        /\ \A t \in Task : TaskRowOK(t, tasks[t], dead_letters[t])
        /\ \A t \in Task : HolderOK(workers, tasks[t])
        /\ \A w \in Worker : workers[w].current_load = Cardinality(LeaseSet(tasks, w))
    BY DEF IInv, Inv
  <1>1. /\ ws = [w \in Worker |-> ws[w]] /\ ts = [t \in Task |-> ts[t]]
        /\ dl = [t \in Task |-> dl[t]]
    BY DEF RecoveredWorkers, RecoveredTasks, RecoveredLetters
  <1>2. \A t \in Task : IF Expired(t, lag)
                        THEN /\ ts[t] = RowAfterFailure(t, 0, lag)
                             /\ dl[t] = LetterAfterFailure(t)
                        ELSE ts[t] = tasks[t] /\ dl[t] = dead_letters[t]
    BY DEF RecoveredTasks, RecoveredLetters
  <1>3. \A t \in Task : Expired(t, lag) =>
           /\ TaskRowOK(t, RowAfterFailure(t, 0, lag), LetterAfterFailure(t))
           /\ RowAfterFailure(t, 0, lag).state # "LEASED"
    BY FailureRow DEF Expired
  <1>4. \A w \in Worker :
           /\ WorkerRowOK(ws[w]) /\ ws[w].state = workers[w].state
           /\ ws[w].current_load = Cardinality(LeaseSet(ts, w))
    <2> SUFFICES ASSUME NEW w \in Worker
                 PROVE  /\ WorkerRowOK(ws[w]) /\ ws[w].state = workers[w].state
                        /\ ws[w].current_load = Cardinality(LeaseSet(ts, w))
      OBVIOUS
    <2> DEFINE S == LeaseSet(tasks, w)
               E == ExpiredOf(w, lag)
    <2>1. E \subseteq S
      BY DEF ExpiredOf, Leases, LeasedBy, LeaseSet, RowLeasedBy
    <2>2. LeaseSet(ts, w) = S \ E
      <3>1. ASSUME NEW t \in Task
            PROVE  t \in LeaseSet(ts, w) <=> t \in S \ E
        <4>1. CASE Expired(t, lag)
          <5>1. ts[t].state # "LEASED"
            BY <4>1, <1>2, <1>3
          <5>2. t \in S => t \in E
            BY <4>1 DEF ExpiredOf, Leases, LeasedBy, LeaseSet, RowLeasedBy
          <5> QED
            BY <5>1, <5>2 DEF LeaseSet, RowLeasedBy
        <4>2. CASE ~Expired(t, lag)
          BY <4>2, <1>2 DEF ExpiredOf, LeaseSet
        <4> QED
          BY <4>1, <4>2
      <3> QED
        BY <3>1 DEF LeaseSet
    <2>3. IsFiniteSet(S) /\ Cardinality(S) \in Nat
      BY LeaseSetFinite
    <2>4. /\ IsFiniteSet(E) /\ Cardinality(E) \in Nat /\ Cardinality(E) <= Cardinality(S)
          /\ Cardinality(S \ E) = Cardinality(S) - Cardinality(E)
      <3>1. S \cap E = E /\ E \in SUBSET S
        BY <2>1
      <3>2. IsFiniteSet(E) /\ Cardinality(E) <= Cardinality(S)
        BY <3>1, <2>3, FS_Subset
      <3>3. Cardinality(E) \in Nat
        BY <3>2, FS_CardinalityType
      <3>4. Cardinality(S \ E) = Cardinality(S) - Cardinality(S \cap E)
        BY <2>3, FS_Difference
      <3> QED
        BY <3>1, <3>2, <3>3, <3>4
    <2>5. workers[w] \in WorkerRow /\ workers[w].current_load = Cardinality(S)
      BY <1>0 DEF WorkerRowOK
    <2> HIDE DEF S, E
    <2>6. Decremented(workers[w].current_load, Cardinality(E)) = Cardinality(S \ E)
      BY <2>3, <2>4, <2>5 DEF Decremented
    <2>7. ws[w] = [workers[w] EXCEPT
                      !.current_load = Decremented(workers[w].current_load, Cardinality(E))]
      BY DEF RecoveredWorkers, E
    <2>8. Cardinality(S \ E) \in Nat
      BY <2>3, <2>4
    <2> QED
      BY <1>0, <2>2, <2>5, <2>6, <2>7, <2>8 DEF WorkerRowOK, WorkerRow
  <1> HIDE DEF ws, ts, dl
  <1>5. \A t \in Task : TaskRowOK(t, ts[t], dl[t])
    BY <1>0, <1>2, <1>3
  <1>6. \A t \in Task : HolderOK(ws, ts[t])
    <2> SUFFICES ASSUME NEW t \in Task, ts[t].state = "LEASED"
                 PROVE  ws[ts[t].lease_owner].state # "absent"
      BY DEF HolderOK
    <2>1. ts[t] = tasks[t]
      BY <1>2, <1>3
    <2>2. tasks[t].lease_owner \in Worker
      BY <2>1, <1>0 DEF TaskRowOK, TaskRow
    <2> QED
      BY <2>1, <2>2, <1>0, <1>4 DEF HolderOK
  <1>7. Inv(ws, ts, dl)
    BY <1>1, <1>4, <1>5, <1>6 DEF Inv
  <1> QED
    BY <1>7 DEF ws, ts, dl

(* A claim that leases a task: recovery, then one row and one load. *)
LEMMA ClaimKeepsInv ==
    ASSUME IInv, NEW w \in Worker, NEW t \in Task, NEW lag \in Lags,
           ClaimLeases(w, t, lag)
    PROVE  IInv'
  <1> DEFINE ws == RecoveredWorkers(lag)
             ts == RecoveredTasks(lag)
             dl == RecoveredLetters(lag)
             vs == [ws EXCEPT ![w].current_load = @ + 1]
             row == LeasedRow(ts[t], w, lag)
  <1>1. Inv(ws, ts, dl)
    BY RecoveryKeepsInv
  <1>2. /\ workers' = vs /\ tasks' = [ts EXCEPT ![t] = row] /\ dead_letters' = dl
        /\ ts[t].state \in Waiting
    BY DEF ClaimLeases, Selected, Candidates, Scanned, Ready
  <1>3. ws[w].state = "ONLINE"
    <2>1. workers[w].state = "ONLINE" /\ WorkerRowOK(workers[w])
      BY DEF ClaimLeases, IInv, Inv
    <2>2. ws[w] = [workers[w] EXCEPT !.current_load =
                      Decremented(workers[w].current_load, Cardinality(ExpiredOf(w, lag)))]
      BY DEF RecoveredWorkers
    <2> QED
      BY <2>1, <2>2 DEF WorkerRowOK, WorkerRow
  <1> HIDE DEF ws, ts, dl
  <1>4. /\ TaskRowOK(t, ts[t], dl[t])
        /\ \A v \in Worker : WorkerRowOK(ws[v])
        /\ ws = [v \in Worker |-> ws[v]] /\ dl = [u \in Task |-> dl[u]]
        /\ ws[w].current_load = Cardinality(LeaseSet(ts, w))
    BY <1>1 DEF Inv
  <1>5. TaskRowOK(t, row, dl[t])
    <2>1. /\ MaxAttempts[t] \in Nat \ {0} /\ MaxLag \in Nat /\ NoWorker \notin Worker
          /\ LeaseSeconds \in Nat \ {0} /\ lag \in Int /\ 0 <= lag /\ lag <= MaxLag
      BY StoreAssumption DEF Lags
    <2>2. ts[t] \in TaskRow /\ ts[t].attempts \in Nat
      BY <1>4 DEF TaskRowOK, TaskRow
    <2>3. /\ row.state = "LEASED" /\ row.attempts = ts[t].attempts + 1
          /\ row.available_in = 0 /\ row.lease_owner = w
          /\ row.expires_in = LeaseSeconds - lag
          /\ row.created = ts[t].created /\ row.result = ts[t].result
      BY <2>2 DEF LeasedRow, TaskRow
    <2>4. row \in TaskRow
      <3> DEFINE n == ts[t].attempts + 1
                 e == LeaseSeconds - lag
      <3>1. n \in Nat /\ e \in Int /\ "LEASED" \in TaskState
        BY <2>1, <2>2 DEF TaskState
      <3>2. row = [ts[t] EXCEPT !.state = "LEASED", !.attempts = n, !.available_in = 0,
                                !.lease_owner = w, !.expires_in = e]
        BY DEF LeasedRow
      <3> HIDE DEF n, e, row
      <3>3. [ts[t] EXCEPT !.state = "LEASED", !.attempts = n, !.available_in = 0,
                          !.lease_owner = w, !.expires_in = e] \in TaskRow
        <4>1. /\ ts[t] \in TaskRow /\ w \in Worker \cup {NoWorker} /\ 0 \in Int
          BY <2>2
        <4> QED  BY <4>1, <3>1, RowUpdate, Zenon
      <3> QED
        BY <3>2, <3>3
    <2>5. ts[t].attempts < MaxAttempts[t] /\ dl[t] = 0
      BY <2>1, <2>2, <1>2, <1>4 DEF TaskRowOK, Waiting
    <2> HIDE DEF row
    <2> QED
      BY <2>1, <2>2, <2>3, <2>4, <2>5, <1>4 DEF TaskRowOK
  <1>6. /\ vs = [v \in Worker |-> vs[v]]
        /\ \A v \in Worker \ {w} : vs[v] = ws[v]
        /\ WorkerRowOK(vs[w]) /\ vs[w].state = "ONLINE"
        /\ vs[w].current_load = ws[w].current_load + 1
    BY <1>3, <1>4 DEF WorkerRowOK, WorkerRow
  <1>7. row.state = "LEASED" /\ row.lease_owner = w /\ ts[t].state # "LEASED"
    BY <1>2, <1>4 DEF TaskRowOK, TaskRow, Waiting, LeasedRow
  <1> HIDE DEF vs, row
  <1>8. HolderOK(vs, row)
    BY <1>6, <1>7 DEF HolderOK
  <1>9. \A v \in Worker :
           /\ WorkerRowOK(vs[v])
           /\ ws[v].state # "absent" => vs[v].state # "absent"
           /\ vs[v].current_load = ws[v].current_load
                 - (IF RowLeasedBy(ts[t], v) THEN 1 ELSE 0)
                 + (IF RowLeasedBy(row, v) THEN 1 ELSE 0)
    <2> SUFFICES ASSUME NEW v \in Worker
                 PROVE  /\ WorkerRowOK(vs[v])
                        /\ ws[v].state # "absent" => vs[v].state # "absent"
                        /\ vs[v].current_load = ws[v].current_load
                              - (IF RowLeasedBy(ts[t], v) THEN 1 ELSE 0)
                              + (IF RowLeasedBy(row, v) THEN 1 ELSE 0)
      OBVIOUS
    <2>1. ~RowLeasedBy(ts[t], v) /\ (RowLeasedBy(row, v) <=> v = w)
      BY <1>7 DEF RowLeasedBy
    <2>2. ws[v].current_load \in Nat
      BY <1>4 DEF WorkerRowOK, WorkerRow
    <2>3. CASE v = w
      BY <2>1, <2>2, <2>3, <1>6
    <2>4. CASE v # w
      BY <2>1, <2>2, <2>4, <1>4, <1>6
    <2> QED
      BY <2>3, <2>4
  <1>10. dl = [dl EXCEPT ![t] = dl[t]]
    BY <1>4
  <1>11. Inv(vs, [ts EXCEPT ![t] = row], [dl EXCEPT ![t] = dl[t]])
    BY <1>1, <1>5, <1>6, <1>8, <1>9, OneRowKeepsInv
  <1> QED
    BY <1>2, <1>10, <1>11 DEF IInv

(* A claim that returns nothing still commits its recovery. *)
LEMMA RefusalKeepsInv ==
    ASSUME IInv, NEW w \in Worker, NEW lag \in Lags, ClaimRefused(w, lag)
    PROVE  IInv'
  <1> DEFINE ws == RecoveredWorkers(lag)
             ts == RecoveredTasks(lag)
             dl == RecoveredLetters(lag)
             vs == [ws EXCEPT ![w].state = "OFFLINE"]
  <1>1. Inv(ws, ts, dl)
    BY RecoveryKeepsInv
  <1>2. \/ workers' = ws /\ tasks' = ts /\ dead_letters' = dl
        \/ workers' = vs /\ tasks' = ts /\ dead_letters' = dl
    BY DEF ClaimRefused, ClaimFindsWorkerNotOnline, ClaimFindsWorkerStale,
           ClaimFindsWorkerFull, ClaimFindsNothing, recover_expired_leases
  <1> HIDE DEF ws, ts, dl
  <1>3. /\ ws = [v \in Worker |-> ws[v]]
        /\ \A v \in Worker : WorkerRowOK(ws[v])
    BY <1>1 DEF Inv
  <1>4. /\ vs = [v \in Worker |-> vs[v]]
        /\ \A v \in Worker \ {w} : vs[v] = ws[v]
        /\ WorkerRowOK(vs[w]) /\ vs[w].state = "OFFLINE"
        /\ vs[w].current_load = ws[w].current_load
    BY <1>3 DEF WorkerRowOK, WorkerRow, WorkerState
  <1> HIDE DEF vs
  <1>5. Inv(vs, ts, dl)
    BY <1>1, <1>3, <1>4, WorkersKeepInv
  <1> QED
    BY <1>1, <1>2, <1>5 DEF IInv

(* register_worker, heartbeat_worker, set_worker_state, expire_stale_workers *)
LEMMA RegistryKeepsInv ==
    ASSUME IInv,
           \/ \E w \in Worker, lag \in Lags :
                 \/ \E c \in Concurrency[w] : register_worker(w, c, lag)
                 \/ heartbeat_worker(w, lag)
           \/ \E lag \in Lags : expire_stale_workers(lag)
           \/ \E w \in Worker, s \in WorkerState \ {"absent"} : set_worker_state(w, s)
    PROVE  IInv'
  <1>0. /\ workers = [w \in Worker |-> workers[w]]
        /\ \A w \in Worker : WorkerRowOK(workers[w]) /\ workers[w] \in WorkerRow
        /\ MaxLag \in Nat /\ HeartbeatTimeout \in Nat
        /\ \A w \in Worker : Concurrency[w] \subseteq Nat
    BY StoreAssumption DEF IInv, Inv, WorkerRowOK
  <1>1. ASSUME NEW w \in Worker, NEW lag \in Lags, NEW c \in Concurrency[w],
               register_worker(w, c, lag)
        PROVE  IInv'
    <2> DEFINE vs == [workers EXCEPT ![w] =
                        [@ EXCEPT !.state = "ONLINE", !.max_concurrency = c,
                                  !.heartbeat_age = lag]]
    <2>1. workers' = vs /\ tasks' = tasks /\ dead_letters' = dead_letters
      BY <1>1 DEF register_worker
    <2>2. lag \in Nat /\ lag <= HeartbeatTimeout + MaxLag + 1 /\ c \in Nat
      BY <1>0 DEF Lags
    <2>3. /\ vs = [v \in Worker |-> vs[v]]
          /\ \A v \in Worker \ {w} : vs[v] = workers[v]
          /\ WorkerRowOK(vs[w]) /\ vs[w].state = "ONLINE"
          /\ vs[w].current_load = workers[w].current_load
      BY <1>0, <2>2 DEF WorkerRowOK, WorkerRow, WorkerState
    <2> HIDE DEF vs
    <2>4. Inv(vs, tasks, dead_letters)
      BY <1>0, <2>3, WorkersKeepInv DEF IInv
    <2> QED
      BY <2>1, <2>4 DEF IInv
  <1>2. ASSUME NEW w \in Worker, NEW lag \in Lags, heartbeat_worker(w, lag)
        PROVE  IInv'
    <2> DEFINE st == StateAfterHeartbeat(w)
               vs == [workers EXCEPT ![w] =
                        [@ EXCEPT !.state = st, !.heartbeat_age = lag]]
    <2>1. workers' = vs /\ tasks' = tasks /\ dead_letters' = dead_letters
      BY <1>2 DEF heartbeat_worker
    <2>2. lag \in Nat /\ lag <= HeartbeatTimeout + MaxLag + 1
      BY <1>0 DEF Lags
    <2>3. st \in WorkerState /\ st # "absent"
      BY DEF StateAfterHeartbeat, WorkerState
    <2> HIDE DEF st
    <2>4. /\ vs = [v \in Worker |-> vs[v]]
          /\ \A v \in Worker \ {w} : vs[v] = workers[v]
          /\ WorkerRowOK(vs[w]) /\ vs[w].state # "absent"
          /\ vs[w].current_load = workers[w].current_load
      BY <1>0, <2>2, <2>3 DEF WorkerRowOK, WorkerRow
    <2> HIDE DEF vs
    <2>5. Inv(vs, tasks, dead_letters)
      BY <1>0, <2>4, WorkersKeepInv DEF IInv
    <2> QED
      BY <2>1, <2>5 DEF IInv
  <1>3. ASSUME NEW lag \in Lags, expire_stale_workers(lag)
        PROVE  IInv'
    <2> DEFINE vs == [w \in Worker |->
                        IF workers[w].state = "ONLINE" /\ Stale(w, lag)
                        THEN [workers[w] EXCEPT !.state = "OFFLINE"] ELSE workers[w]]
    <2>1. workers' = vs /\ tasks' = tasks /\ dead_letters' = dead_letters
      BY <1>3 DEF expire_stale_workers
    <2>2. \A w \in Worker : /\ WorkerRowOK(vs[w])
                            /\ vs[w].current_load = workers[w].current_load
                            /\ workers[w].state # "absent" => vs[w].state # "absent"
      BY <1>0 DEF WorkerRowOK, WorkerRow, WorkerState
    <2>3. vs = [w \in Worker |-> vs[w]]
      OBVIOUS
    <2> HIDE DEF vs
    <2>4. Inv(vs, tasks, dead_letters)
      BY <2>2, <2>3, WorkersKeepInv DEF IInv
    <2> QED
      BY <2>1, <2>4 DEF IInv
  <1>4. ASSUME NEW w \in Worker, NEW s \in WorkerState \ {"absent"},
               set_worker_state(w, s)
        PROVE  IInv'
    <2> DEFINE vs == [workers EXCEPT ![w].state = s]
    <2>1. workers' = vs /\ tasks' = tasks /\ dead_letters' = dead_letters
      BY <1>4 DEF set_worker_state
    <2>2. /\ vs = [v \in Worker |-> vs[v]]
          /\ \A v \in Worker \ {w} : vs[v] = workers[v]
          /\ WorkerRowOK(vs[w]) /\ vs[w].state # "absent"
          /\ vs[w].current_load = workers[w].current_load
      BY <1>0 DEF WorkerRowOK, WorkerRow
    <2> HIDE DEF vs
    <2>3. Inv(vs, tasks, dead_letters)
      BY <1>0, <2>2, WorkersKeepInv DEF IInv
    <2> QED
      BY <2>1, <2>3 DEF IInv
  <1> QED
    BY <1>1, <1>2, <1>3, <1>4

(* The lease holder's operations, cancellation and submission. *)
LEMMA TaskOperationKeepsInv ==
    ASSUME IInv, NEW t \in Task,
           \/ \E lag \in Lags : submit_task(t, lag)
           \/ \E w \in Worker, lag \in Lags :
                 \/ heartbeat_task(t, w, lag)
                 \/ \E d \in RetryDelays : fail_task(t, w, d, lag)
           \/ cancel_task(t)
           \/ \E w \in Worker : \E a \in 1..MaxAttempts[t] : complete_task(t, w, a)
    PROVE  IInv'
  <1>a. /\ MaxAttempts[t] \in Nat \ {0} /\ MaxLag \in Nat /\ NoWorker \notin Worker
        /\ LeaseSeconds \in Nat \ {0} /\ RetryDelays \subseteq Nat
    BY StoreAssumption
  <1>b. \A lag \in Lags : lag \in Int /\ 0 <= lag /\ lag <= MaxLag
    BY <1>a DEF Lags
  <1>c. /\ Inv(workers, tasks, dead_letters)
        /\ workers = [w \in Worker |-> workers[w]]
        /\ dead_letters = [u \in Task |-> dead_letters[u]]
        /\ TaskRowOK(t, tasks[t], dead_letters[t]) /\ HolderOK(workers, tasks[t])
        /\ \A w \in Worker : WorkerRowOK(workers[w])
    BY DEF IInv, Inv
  <1>d. /\ tasks[t] \in TaskRow
        /\ \A w \in Worker : workers[w].current_load \in Nat
    BY <1>c DEF TaskRowOK, WorkerRowOK, WorkerRow
  <1>0. /\ Inv(workers, tasks, dead_letters)
        /\ workers = [w \in Worker |-> workers[w]]
        /\ dead_letters = [u \in Task |-> dead_letters[u]]
        /\ TaskRowOK(t, tasks[t], dead_letters[t]) /\ HolderOK(workers, tasks[t])
        /\ tasks[t] \in TaskRow
        /\ \A w \in Worker : WorkerRowOK(workers[w]) /\ workers[w].current_load \in Nat
        /\ MaxAttempts[t] \in Nat \ {0} /\ MaxLag \in Nat /\ NoWorker \notin Worker
        /\ LeaseSeconds \in Nat \ {0} /\ RetryDelays \subseteq Nat
        /\ \A lag \in Lags : lag \in Int /\ 0 <= lag /\ lag <= MaxLag
    BY <1>a, <1>b, <1>c, <1>d
  <1>00. dead_letters = [dead_letters EXCEPT ![t] = dead_letters[t]]
    BY <1>0
  <1>1. ASSUME NEW lag \in Lags, submit_task(t, lag)
        PROVE  IInv'
    <2> DEFINE n == Cardinality({u \in Task : tasks[u].state # "absent"})
               row == [tasks[t] EXCEPT !.state = "PENDING", !.available_in = -lag,
                                       !.created = n]
    <2>1. /\ tasks' = [tasks EXCEPT ![t] = row]
          /\ workers' = workers /\ dead_letters' = dead_letters
          /\ tasks[t].state = "absent"
      BY <1>1 DEF submit_task
    <2>2. n \in Nat
      <3>1. {u \in Task : tasks[u].state # "absent"} \in SUBSET Task
        OBVIOUS
      <3>2. IsFiniteSet({u \in Task : tasks[u].state # "absent"})
        BY <3>1, StoreAssumption, FS_Subset
      <3> QED
        BY <3>2, FS_CardinalityType
    <2> HIDE DEF n
    <2>a. row \in TaskRow
      <3>1. "PENDING" \in TaskState /\ -lag \in Int
        BY <1>0 DEF TaskState
      <3> QED
        BY <1>0, <2>2, <3>1, RowUpdate, Zenon
    <2>b. /\ row.state = "PENDING" /\ row.available_in = -lag
          /\ row.attempts = tasks[t].attempts /\ row.result = tasks[t].result
          /\ row.expires_in = tasks[t].expires_in
          /\ row.lease_owner = tasks[t].lease_owner
      BY <1>0 DEF TaskRow
    <2> HIDE DEF row
    <2>3. TaskRowOK(t, row, dead_letters[t])
      BY <1>0, <2>1, <2>a, <2>b DEF TaskRowOK
    <2>4. row.state # "LEASED" /\ tasks[t].state # "LEASED"
      BY <2>1, <2>b
    <2>c. /\ HolderOK(workers, row)
          /\ \A w \in Worker : ~RowLeasedBy(tasks[t], w) /\ ~RowLeasedBy(row, w)
      BY <2>4 DEF HolderOK, RowLeasedBy
    <2>5. Inv(workers, [tasks EXCEPT ![t] = row],
              [dead_letters EXCEPT ![t] = dead_letters[t]])
      BY <1>0, <2>3, <2>c, OneRowKeepsInv
    <2> QED
      BY <1>00, <2>1, <2>5 DEF IInv
  <1>2. ASSUME NEW w \in Worker, NEW lag \in Lags, heartbeat_task(t, w, lag)
        PROVE  IInv'
    <2> DEFINE row == [tasks[t] EXCEPT !.expires_in = LeaseSeconds - lag]
    <2>1. /\ tasks' = [tasks EXCEPT ![t] = row]
          /\ workers' = workers /\ dead_letters' = dead_letters
      BY <1>2 DEF heartbeat_task
    <2>2. TaskRowOK(t, row, dead_letters[t])
      BY <1>0 DEF TaskRowOK, TaskRow
    <2>3. row.state = tasks[t].state /\ row.lease_owner = tasks[t].lease_owner
      BY <1>0 DEF TaskRow
    <2> HIDE DEF row
    <2>4. Inv(workers, [tasks EXCEPT ![t] = row],
              [dead_letters EXCEPT ![t] = dead_letters[t]])
      BY <1>0, <2>2, <2>3, OneRowKeepsInv DEF HolderOK, RowLeasedBy
    <2> QED
      BY <1>00, <2>1, <2>4 DEF IInv
  <1>3. ASSUME NEW w \in Worker, NEW lag \in Lags, NEW d \in RetryDelays,
               fail_task(t, w, d, lag)
        PROVE  IInv'
    <2>1. RowLeasedBy(tasks[t], w) /\ tasks[t].state = "LEASED" /\ d \in Nat
      BY <1>0, <1>3 DEF fail_task, LeasedBy, RowLeasedBy
    <2>2. /\ TaskRowOK(t, RowAfterFailure(t, d, lag), LetterAfterFailure(t))
          /\ RowAfterFailure(t, d, lag).state # "LEASED"
      BY <2>1, FailureRow
    <2>3. Inv(ReleaseLoad(workers, w), [tasks EXCEPT ![t] = RowAfterFailure(t, d, lag)],
              [dead_letters EXCEPT ![t] = LetterAfterFailure(t)])
      BY <1>0, <2>1, <2>2, ReleaseKeepsInv
    <2> QED
      BY <1>3, <2>3 DEF IInv, fail_task
  <1>4. ASSUME cancel_task(t)
        PROVE  IInv'
    <2> DEFINE row == [tasks[t] EXCEPT !.state = "CANCELLED", !.available_in = 0,
                                       !.lease_owner = NoWorker, !.expires_in = 0]
    <2>1. /\ tasks' = [tasks EXCEPT ![t] = row] /\ dead_letters' = dead_letters
          /\ tasks[t].state \notin {"SUCCEEDED", "DEAD_LETTER"}
          /\ workers' = IF tasks[t].state = "LEASED"
                        THEN ReleaseLoad(workers, tasks[t].lease_owner) ELSE workers
      BY <1>4 DEF cancel_task
    <2>a. row \in TaskRow
      <3>1. /\ "CANCELLED" \in TaskState /\ 0 \in Int
            /\ NoWorker \in Worker \cup {NoWorker}
        BY DEF TaskState
      <3> QED
        BY <1>0, <3>1, RowUpdate, Zenon
    <2>b. /\ row.state = "CANCELLED" /\ row.available_in = 0 /\ row.expires_in = 0
          /\ row.attempts = tasks[t].attempts /\ row.result = tasks[t].result
          /\ row.lease_owner = NoWorker
      BY <1>0 DEF TaskRow
    <2> HIDE DEF row
    <2>2. TaskRowOK(t, row, dead_letters[t]) /\ row.state # "LEASED"
      BY <1>0, <2>1, <2>a, <2>b DEF TaskRowOK
    <2>3. CASE tasks[t].state = "LEASED"
      <3> DEFINE w == tasks[t].lease_owner
      <3>1. w \in Worker /\ RowLeasedBy(tasks[t], w)
        BY <1>0, <2>3 DEF TaskRowOK, TaskRow, RowLeasedBy
      <3>2. Inv(ReleaseLoad(workers, w), [tasks EXCEPT ![t] = row],
                [dead_letters EXCEPT ![t] = dead_letters[t]])
        BY <1>0, <2>2, <3>1, ReleaseKeepsInv
      <3> QED
        BY <1>00, <2>1, <2>3, <3>2 DEF IInv
    <2>4. CASE tasks[t].state # "LEASED"
      <3>1. Inv(workers, [tasks EXCEPT ![t] = row],
                [dead_letters EXCEPT ![t] = dead_letters[t]])
        BY <1>0, <2>2, <2>4, OneRowKeepsInv DEF HolderOK, RowLeasedBy
      <3> QED
        BY <1>00, <2>1, <2>4, <3>1 DEF IInv
    <2> QED
      BY <2>3, <2>4
  <1>5. ASSUME NEW w \in Worker, NEW a \in 1..MaxAttempts[t], complete_task(t, w, a)
        PROVE  IInv'
    <2> DEFINE row == [tasks[t] EXCEPT !.state = "SUCCEEDED", !.result = a,
                                       !.lease_owner = NoWorker, !.expires_in = 0]
    <2>1. /\ tasks' = [tasks EXCEPT ![t] = row] /\ dead_letters' = dead_letters
          /\ workers' = ReleaseLoad(workers, w)
          /\ RowLeasedBy(tasks[t], w)
      BY <1>5 DEF complete_task, LeasedBy, RowLeasedBy
    <2>a. row \in TaskRow
      <3>1. /\ "SUCCEEDED" \in TaskState /\ 0 \in Int /\ a \in Nat
            /\ NoWorker \in Worker \cup {NoWorker}
        BY <1>0 DEF TaskState
      <3> QED
        BY <1>0, <3>1, RowUpdate, Zenon
    <2>b. /\ row.state = "SUCCEEDED" /\ row.result = a /\ row.expires_in = 0
          /\ row.attempts = tasks[t].attempts
          /\ row.available_in = tasks[t].available_in
          /\ row.lease_owner = NoWorker
      BY <1>0 DEF TaskRow
    <2> HIDE DEF row
    <2>2. TaskRowOK(t, row, dead_letters[t]) /\ row.state # "LEASED"
      BY <1>0, <2>1, <2>a, <2>b DEF TaskRowOK, RowLeasedBy
    <2>3. Inv(ReleaseLoad(workers, w), [tasks EXCEPT ![t] = row],
              [dead_letters EXCEPT ![t] = dead_letters[t]])
      BY <1>0, <2>1, <2>2, ReleaseKeepsInv
    <2> QED
      BY <1>00, <2>1, <2>3 DEF IInv
  <1> QED
    BY <1>1, <1>2, <1>3, <1>4, <1>5

(* The passing of time moves no lease. *)
LEMMA TickKeepsInv ==
    ASSUME IInv, Tick
    PROVE  IInv'
  <1> DEFINE vs == [w \in Worker |->
                [workers[w] EXCEPT !.heartbeat_age =
                    IF Registered(w) /\ @ <= HeartbeatTimeout + MaxLag THEN @ + 1 ELSE @]]
             ts == [t \in Task |->
                [tasks[t] EXCEPT
                    !.available_in = IF tasks[t].state \in Waiting THEN CountDown(@) ELSE @,
                    !.expires_in = IF tasks[t].state = "LEASED" THEN CountDown(@) ELSE @]]
  <1>0. /\ \A w \in Worker : WorkerRowOK(workers[w]) /\ workers[w] \in WorkerRow
        /\ \A t \in Task : /\ TaskRowOK(t, tasks[t], dead_letters[t])
                           /\ HolderOK(workers, tasks[t])
                           /\ tasks[t] \in TaskRow
        /\ \A w \in Worker : workers[w].current_load = Cardinality(LeaseSet(tasks, w))
        /\ dead_letters = [t \in Task |-> dead_letters[t]]
        /\ MaxLag \in Nat /\ HeartbeatTimeout \in Nat
    BY StoreAssumption DEF IInv, Inv, TaskRowOK, WorkerRowOK
  <1>1. workers' = vs /\ tasks' = ts /\ dead_letters' = dead_letters
    BY DEF Tick
  <1>2. \A w \in Worker : /\ WorkerRowOK(vs[w]) /\ vs[w].state = workers[w].state
                          /\ vs[w].current_load = workers[w].current_load
    BY <1>0 DEF WorkerRowOK, WorkerRow
  <1>3. \A n \in Int : n >= -MaxLag => CountDown(n) \in Int /\ CountDown(n) >= -MaxLag
    BY <1>0 DEF CountDown
  <1>4. \A t \in Task : /\ TaskRowOK(t, ts[t], dead_letters[t])
                        /\ ts[t].state = tasks[t].state
                        /\ ts[t].lease_owner = tasks[t].lease_owner
    <2> SUFFICES ASSUME NEW t \in Task
                 PROVE  /\ TaskRowOK(t, ts[t], dead_letters[t])
                        /\ ts[t].state = tasks[t].state
                        /\ ts[t].lease_owner = tasks[t].lease_owner
      OBVIOUS
    <2> DEFINE a == IF tasks[t].state \in Waiting
                    THEN CountDown(tasks[t].available_in) ELSE tasks[t].available_in
               e == IF tasks[t].state = "LEASED"
                    THEN CountDown(tasks[t].expires_in) ELSE tasks[t].expires_in
    <2>1. /\ a \in Int /\ a >= -MaxLag /\ e \in Int /\ e >= -MaxLag
      BY <1>0, <1>3 DEF TaskRowOK, TaskRow
    <2>2. ts[t] = [tasks[t] EXCEPT !.available_in = a, !.expires_in = e]
      OBVIOUS
    <2> HIDE DEF a, e
    <2>3. tasks[t] \in TaskRow /\ TaskRowOK(t, tasks[t], dead_letters[t])
      BY <1>0
    <2> HIDE DEF ts
    <2>4. ts[t] \in TaskRow
      <3>1. [tasks[t] EXCEPT !.available_in = a, !.expires_in = e] \in TaskRow
        BY <2>1, <2>3, CountdownUpdate, Zenon
      <3> QED
        BY <2>2, <3>1
    <2>5. /\ ts[t].state = tasks[t].state /\ ts[t].lease_owner = tasks[t].lease_owner
          /\ ts[t].attempts = tasks[t].attempts /\ ts[t].result = tasks[t].result
          /\ ts[t].available_in = a /\ ts[t].expires_in = e
      BY <2>2, <2>3 DEF TaskRow
    <2> QED
      BY <1>0, <2>1, <2>3, <2>4, <2>5 DEF TaskRowOK
  <1>5. vs = [w \in Worker |-> vs[w]] /\ ts = [t \in Task |-> ts[t]]
    OBVIOUS
  <1> HIDE DEF vs, ts
  <1>6. \A w \in Worker : LeaseSet(ts, w) = LeaseSet(tasks, w)
    BY <1>4 DEF LeaseSet, RowLeasedBy
  <1>7. \A t \in Task : HolderOK(vs, ts[t])
    <2> SUFFICES ASSUME NEW t \in Task, ts[t].state = "LEASED"
                 PROVE  vs[ts[t].lease_owner].state # "absent"
      BY DEF HolderOK
    <2>1. tasks[t].lease_owner \in Worker
      BY <1>0, <1>4 DEF TaskRowOK, TaskRow
    <2> QED
      BY <2>1, <1>0, <1>2, <1>4 DEF HolderOK
  <1>8. Inv(vs, ts, dead_letters)
    BY <1>0, <1>2, <1>4, <1>5, <1>6, <1>7 DEF Inv
  <1> QED
    BY <1>1, <1>8 DEF IInv

-----------------------------------------------------------------------------
(* The invariant of the specification. *)

(* The empty database satisfies the invariant. *)
LEMMA InitInv == Init => IInv
  <1> SUFFICES ASSUME Init
               PROVE  IInv
    OBVIOUS
  <1>1. /\ workers = [w \in Worker |-> workers[w]]
        /\ tasks = [t \in Task |-> tasks[t]]
        /\ dead_letters = [t \in Task |-> dead_letters[t]]
    BY DEF Init
  <1>2. \A w \in Worker : WorkerRowOK(workers[w]) /\ workers[w].current_load = 0
    BY StoreAssumption DEF Init, NoWorkerRow, WorkerRowOK, WorkerRow, WorkerState
  <1>3. \A t \in Task : TaskRowOK(t, tasks[t], dead_letters[t]) /\ tasks[t].state = "absent"
    BY StoreAssumption DEF Init, NoTaskRow, TaskRowOK, TaskRow, TaskState
  <1>4. \A t \in Task : HolderOK(workers, tasks[t])
    BY <1>3 DEF HolderOK
  <1>5. \A w \in Worker : workers[w].current_load = Cardinality(LeaseSet(tasks, w))
    <2>1. \A w \in Worker : LeaseSet(tasks, w) = {}
      BY <1>3 DEF LeaseSet, RowLeasedBy
    <2> QED
      BY <2>1, <1>2, FS_EmptySet
  <1> QED
    BY <1>1, <1>2, <1>3, <1>4, <1>5 DEF IInv, Inv

(* Every operation, and the passing of time, keeps the invariant. *)
LEMMA NextKeepsInv == IInv /\ [Next]_vars => IInv'
  <1> SUFFICES ASSUME IInv, [Next]_vars
               PROVE  IInv'
    OBVIOUS
  <1>1. CASE Tick
    BY <1>1, TickKeepsInv
  <1>2. ASSUME NEW lag \in Lags, expire_stale_workers(lag)
        PROVE  IInv'
    BY <1>2, RegistryKeepsInv
  <1>3. ASSUME NEW lag \in Lags, recover_expired_leases(lag)
        PROVE  IInv'
    BY <1>3, RecoveryKeepsInv DEF recover_expired_leases, IInv
  <1>4. ASSUME NEW lag \in Lags, NEW w \in Worker,
               \/ \E c \in Concurrency[w] : register_worker(w, c, lag)
               \/ heartbeat_worker(w, lag)
        PROVE  IInv'
    BY <1>4, RegistryKeepsInv
  <1>5. ASSUME NEW lag \in Lags, NEW w \in Worker, ClaimRefused(w, lag)
        PROVE  IInv'
    BY <1>5, RefusalKeepsInv
  <1>6. ASSUME NEW lag \in Lags, NEW w \in Worker, NEW t \in Task,
               ClaimLeases(w, t, lag)
        PROVE  IInv'
    BY <1>6, ClaimKeepsInv
  <1>7. ASSUME NEW lag \in Lags, NEW w \in Worker, NEW t \in Task,
               \/ heartbeat_task(t, w, lag)
               \/ \E d \in RetryDelays : fail_task(t, w, d, lag)
        PROVE  IInv'
    BY <1>7, TaskOperationKeepsInv
  <1>8. ASSUME NEW lag \in Lags, NEW t \in Task, submit_task(t, lag)
        PROVE  IInv'
    BY <1>8, TaskOperationKeepsInv
  <1>9. ASSUME NEW w \in Worker, NEW s \in WorkerState \ {"absent"},
               set_worker_state(w, s)
        PROVE  IInv'
    BY <1>9, RegistryKeepsInv
  <1>10. ASSUME NEW t \in Task, cancel_task(t)
         PROVE  IInv'
    BY <1>10, TaskOperationKeepsInv
  <1>11. ASSUME NEW t \in Task, NEW w \in Worker,
                NEW a \in 1..MaxAttempts[t], complete_task(t, w, a)
         PROVE  IInv'
    BY <1>11, TaskOperationKeepsInv
  <1>12. CASE UNCHANGED vars
    <2>1. /\ workers' = workers /\ tasks' = tasks /\ dead_letters' = dead_letters
      BY <1>12 DEF vars
    <2> QED
      BY <2>1 DEF IInv
  <1> QED
    BY <1>1, <1>2, <1>3, <1>4, <1>5, <1>6, <1>7, <1>8, <1>9, <1>10, <1>11, <1>12
       DEF Next

(* What the invariant says of the rows, as the specification's properties. *)
LEMMA InvImplies ==
    IInv => /\ TypeOK /\ LoadMatchesLeases /\ LeaseHasHolder
            /\ AttemptsAccounted /\ DeadLettersExact
  <1> SUFFICES ASSUME IInv
               PROVE  /\ TypeOK /\ LoadMatchesLeases /\ LeaseHasHolder
                      /\ AttemptsAccounted /\ DeadLettersExact
    OBVIOUS
  <1>1. /\ workers = [w \in Worker |-> workers[w]]
        /\ tasks = [t \in Task |-> tasks[t]]
        /\ dead_letters = [t \in Task |-> dead_letters[t]]
        /\ \A w \in Worker : WorkerRowOK(workers[w])
        /\ \A t \in Task : TaskRowOK(t, tasks[t], dead_letters[t])
        /\ \A t \in Task : HolderOK(workers, tasks[t])
        /\ \A w \in Worker : workers[w].current_load = Cardinality(LeaseSet(tasks, w))
    BY DEF IInv, Inv
  <1>2. \A t \in Task : MaxAttempts[t] \in Nat
    BY StoreAssumption
  <1>3. TypeOK
    <2>1. \A t \in Task : dead_letters[t] \in Nat
      BY <1>1, <1>2 DEF TaskRowOK
    <2>2. \A t \in Task : tasks[t] \in TaskRow
      BY <1>1 DEF TaskRowOK
    <2>3. \A w \in Worker : workers[w] \in WorkerRow
      BY <1>1 DEF WorkerRowOK
    <2>4. /\ workers \in [Worker -> WorkerRow] /\ tasks \in [Task -> TaskRow]
          /\ dead_letters \in [Task -> Nat]
      BY <1>1, <2>1, <2>2, <2>3
    <2> QED
      BY <1>1, <2>4 DEF TypeOK, TaskRowOK, WorkerRowOK
  <1>4. LoadMatchesLeases
    BY <1>1 DEF LoadMatchesLeases, Leases, LeasedBy, LeaseSet, RowLeasedBy
  <1>5. LeaseHasHolder
    BY <1>1 DEF LeaseHasHolder, TaskRowOK, HolderOK, Registered
  <1>6. AttemptsAccounted
    BY <1>1 DEF AttemptsAccounted, TaskRowOK
  <1>7. DeadLettersExact
    BY <1>1 DEF DeadLettersExact, TaskRowOK
  <1> QED
    BY <1>3, <1>4, <1>5, <1>6, <1>7

(* Every reachable database satisfies the inductive invariant. *)
THEOREM InvariantHolds == Spec => []IInv
  BY InitInv, NextKeepsInv, PTL DEF Spec

(* Rows keep their types and ranges for every number of workers and tasks, *)
(* every max_attempts and any delay of the write lock: attempts stays      *)
(* within max_attempts whatever mixture of claims, failures and recoveries *)
(* a task goes through.                                                    *)
THEOREM TypeCorrect == Spec => []TypeOK
  BY InvariantHolds, InvImplies, PTL

(* current_load, which store.py increments and decrements in five          *)
(* different places, always is the number of leases of the worker.         *)
THEOREM LoadIsExact == Spec => []LoadMatchesLeases
  BY InvariantHolds, InvImplies, PTL

(* lease_owner is set exactly on LEASED rows, to a registered worker.      *)
THEOREM HolderExact == Spec => []LeaseHasHolder
  BY InvariantHolds, InvImplies, PTL

(* attempts counts the leases granted, and a scheduled retry has one left. *)
THEOREM AttemptsExact == Spec => []AttemptsAccounted
  BY InvariantHolds, InvImplies, PTL

(* The dead-letter table holds exactly the tasks that used every attempt.  *)
THEOREM DeadLettersAreExact == Spec => []DeadLettersExact
  BY InvariantHolds, InvImplies, PTL
=============================================================================
