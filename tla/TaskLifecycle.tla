--------------------------- MODULE TaskLifecycle ---------------------------
(***************************************************************************)
(* What the execution fabric promises of every task, whatever its workers  *)
(* do: a submitted task is run under a bounded number of attempts, one     *)
(* holder at a time; it ends exactly once, as a success, in the dead       *)
(* letters after its last attempt, or cancelled.  ExecutionFabricStore     *)
(* implements this specification.                                          *)
(***************************************************************************)
EXTENDS Integers, FiniteSets

CONSTANTS
    Task,         \* the tasks (their idempotency keys)
    Worker,       \* the workers that may hold them
    NoWorker,     \* the holder of a task nobody runs
    MaxAttempts   \* [Task -> attempts a task is granted]

VARIABLE life     \* [Task -> [phase, attempts, holder]]

Phase == {"absent", "waiting", "running", "succeeded", "buried", "cancelled"}

Life == [phase : Phase, attempts : Nat, holder : Worker \cup {NoWorker}]

LifeOf(phase, attempts, holder) ==
    [phase |-> phase, attempts |-> attempts, holder |-> holder]

Init == life = [t \in Task |-> LifeOf("absent", 0, NoWorker)]

(***************************************************************************)
(* One task's alternatives.  A store transaction may take a task back from *)
(* its holder and start it again at once, hence Start from "running".      *)
(***************************************************************************)
Submit(t) ==
    /\ life[t].phase = "absent"
    /\ life'[t] = LifeOf("waiting", 0, NoWorker)

Start(t) ==
    /\ life[t].phase \in {"waiting", "running"}
    /\ life[t].attempts < MaxAttempts[t]
    /\ \E w \in Worker : life'[t] = LifeOf("running", life[t].attempts + 1, w)

GiveBack(t) ==
    /\ life[t].phase = "running"
    /\ life[t].attempts < MaxAttempts[t]
    /\ life'[t] = LifeOf("waiting", life[t].attempts, NoWorker)

Bury(t) ==
    /\ life[t].phase = "running"
    /\ life[t].attempts = MaxAttempts[t]
    /\ life'[t] = LifeOf("buried", life[t].attempts, NoWorker)

Succeed(t) ==
    /\ life[t].phase = "running"
    /\ life'[t] = LifeOf("succeeded", life[t].attempts, NoWorker)

Cancel(t) ==
    /\ life[t].phase \in {"waiting", "running"}
    /\ life'[t] = LifeOf("cancelled", life[t].attempts, NoWorker)

Started(t) == life'[t].attempts > life[t].attempts

(***************************************************************************)
(* A step moves any number of tasks (a recovery sweep ends many leases) but*)
(* starts at most one and adds at most one.                                *)
(***************************************************************************)
Next ==
    /\ life' = [t \in Task |-> life'[t]]
    /\ \A t \in Task :
          \/ life'[t] = life[t]
          \/ Submit(t) \/ Start(t) \/ GiveBack(t)
          \/ Bury(t) \/ Succeed(t) \/ Cancel(t)
    /\ \A t, u \in Task : Started(t) /\ Started(u) => t = u

Spec == Init /\ [][Next]_life
=============================================================================
