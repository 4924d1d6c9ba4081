-------------------------- MODULE SocialPublishing --------------------------
(***************************************************************************)
(* Publishing one post to the accounts it targets: the user's operations   *)
(* of app/services/social_posts.py, the leased worker processes of         *)
(* app/services/social_publish_worker.py, and the one call of              *)
(* app/services/social_meta_publisher.py that makes content visible.       *)
(*                                                                         *)
(* Every operation on the database is one transaction under the post's and *)
(* the targets' row locks, except the claim, which takes two.  A worker    *)
(* process has an id of its own (a uuid), so an element of Worker runs     *)
(* once.  Time is relative: countdowns to an expiry or a due time.         *)
(***************************************************************************)
EXTENDS Integers, FiniteSets

CONSTANTS
    Account,       \* the accounts a post may target, a row each
    Worker, NoWorker,
    LeaseSeconds, MaxAttempts, Backoff,
    ClaimLimit,
    MaxEdits       \* bound: user operations in a behaviour

ASSUME PublishingAssumption ==
    /\ Account # {} /\ NoWorker \notin Worker
    /\ LeaseSeconds \in Nat \ {0}
    /\ MaxAttempts \in Nat \ {0}
    /\ Backoff \in Nat \ {0}
    /\ ClaimLimit \in Nat \ {0}
    /\ MaxEdits \in Nat

VARIABLES
    post,       \* [status, due]: the row of social_posts
    targets,    \* [Account -> row of social_post_targets, "absent" if none]
    visible,    \* [Account -> how often the post is visible there]
    workers,    \* [Worker -> [phase, stale]]
    claims,     \* [Worker -> [Account -> the claim in process]]
    edits       \* user operations so far

vars == <<post, targets, visible, workers, claims, edits>>

Never == -1     \* next_attempt_at IS NULL
Lead == 1       \* SCHEDULE_MIN_LEAD: a schedule lies in the future

OpenStatus == {"pending", "publishing", "retry_wait"}
TargetStatus == OpenStatus \cup {"published", "failed", "canceled"}
PostStatus == {"draft", "scheduled", "publishing", "published",
               "partially_failed", "failed", "canceled", "deleted"}
Editable == {"draft", "scheduled"}

(* row tells the rows apart that a post's target on one account has had;   *)
(* lease counts down to the expiry and means nothing without an owner.     *)
Target == [status : TargetStatus \cup {"absent"}, row : 0..MaxEdits, attempts : Nat,
           due : Int, owner : Worker \cup {NoWorker}, lease : -1..LeaseSeconds,
           dispatched : BOOLEAN]

NewTarget(row, due) ==
    [status |-> "pending", row |-> row, attempts |-> 0, due |-> due,
     owner |-> NoWorker, lease |-> 0, dispatched |-> FALSE]

NoTarget == [NewTarget(0, Never) EXCEPT !.status = "absent"]

(* What an error is for finalize: nobody knows whether the post exists, or *)
(* it does not and may be tried again or not.  An expired token is one of  *)
(* the latter: that the account is marked for reconnection is left out.    *)
Failure == {"ambiguous", "transient", "permanent"}

(* pc: "prepare" (build the request, upload), "dispatch" (before_commit),  *)
(* "call" (the request that publishes), "finalize"; "none": no claim.      *)
Claim == [pc : {"none", "prepare", "dispatch", "call", "finalize"},
          row : 0..MaxEdits, attempt : Nat,
          outcome : Failure \cup {"none", "published"}]

NoClaim == [pc |-> "none", row |-> 0, attempt |-> 0, outcome |-> "none"]

(* phase: "recover", "announce" (scheduled -> publishing), "process", or   *)
(* "gone"; stale is what recover_stale has read and not settled yet.       *)
Process == [phase : {"recover", "announce", "process", "gone"}, stale : SUBSET Account]

Init ==
    /\ post = [status |-> "draft", due |-> Never]
    /\ targets = [a \in Account |-> NewTarget(0, Never)]
    /\ visible = [a \in Account |-> 0]
    /\ workers = [w \in Worker |-> [phase |-> "process", stale |-> {}]]
    /\ claims = [w \in Worker |-> [a \in Account |-> NoClaim]]
    /\ edits = 0

-----------------------------------------------------------------------------
(* The post as the sum of its targets (social_posts.py). *)

Present(ts) == {a \in Account : ts[a].status # "absent"}
Live(ts) == {a \in Present(ts) : ts[a].status # "canceled"}

AggregateOpen(status, ts) ==
    CASE status = "scheduled" /\ \A a \in Live(ts) : ts[a].status = "pending" -> "scheduled"
      [] status = "draft" -> "draft"
      [] OTHER -> "publishing"

AggregateSettled(ts) ==
    IF \A a \in Live(ts) : ts[a].status = "published" THEN "published"
    ELSE IF \E a \in Live(ts) : ts[a].status = "published" THEN "partially_failed"
    ELSE "failed"

aggregate_status_IgnoresRetries(status, ts) ==                      \* mutant
    CASE Present(ts) = {} -> status
      [] Present(ts) # {} /\ Live(ts) = {} -> "canceled"
      [] \E a \in Live(ts) : ts[a].status \in {"pending", "publishing"} ->
             AggregateOpen(status, ts)
      [] OTHER -> AggregateSettled(ts)

aggregate_status(status, ts) ==
    CASE Present(ts) = {} -> status
      [] Present(ts) # {} /\ Live(ts) = {} -> "canceled"
      [] \E a \in Live(ts) : ts[a].status \in OpenStatus -> AggregateOpen(status, ts)
      [] OTHER -> AggregateSettled(ts)

(* scheduled_at, of interest only while the post is scheduled              *)
PostWithStatus(status) ==
    [status |-> status, due |-> IF status = "scheduled" THEN post.due ELSE Never]

(* _refresh_post: the post follows its targets in the same transaction     *)
Refresh(ts) ==
    /\ targets' = ts
    /\ post' = PostWithStatus(aggregate_status(post.status, ts))

-----------------------------------------------------------------------------
(* The user's operations (social_posts.py). *)

Edit ==
    /\ edits < MaxEdits
    /\ edits' = edits + 1
    /\ UNCHANGED <<visible, workers, claims>>

(* _replace_targets: the old rows are deleted with their leases            *)
ReplaceTargets(chosen, due) ==
    targets' = [a \in Account |->
        IF a \in chosen THEN NewTarget(edits + 1, due) ELSE NoTarget]

update_post(chosen) ==
    /\ post.status \in Editable /\ chosen # {}
    /\ Edit
    /\ ReplaceTargets(chosen, IF post.status = "scheduled" THEN post.due ELSE Never)
    /\ UNCHANGED post

Arm(due, status) ==
    /\ post.status \in Editable
    /\ Edit
    /\ targets' = [a \in Account |->
          IF a \in Present(targets)
          THEN [targets[a] EXCEPT !.status = "pending", !.due = due] ELSE targets[a]]
    /\ post' = [status |-> status, due |-> IF status = "scheduled" THEN due ELSE Never]

schedule_post == Arm(Lead, "scheduled")
publish_now == Arm(0, "publishing")

Cancelable(t) ==
    /\ t.status \in {"pending", "retry_wait"}
    /\ ~(t.owner # NoWorker /\ t.lease > 0)
    /\ ~t.dispatched

cancel_post ==
    /\ post.status \in {"scheduled", "publishing"}
    /\ Edit
    /\ Refresh([a \in Account |->
          IF Cancelable(targets[a])
          THEN [targets[a] EXCEPT !.status = "canceled", !.due = Never] ELSE targets[a]])

delete_post ==
    /\ post.status \in {"draft", "canceled"}
    /\ Edit
    /\ post' = [status |-> "deleted", due |-> Never]
    /\ targets' = [a \in Account |-> NoTarget]

UserStep ==
    \/ \E chosen \in SUBSET Account : update_post(chosen)
    \/ schedule_post \/ publish_now \/ cancel_post \/ delete_post

-----------------------------------------------------------------------------
(* One cycle of a worker, run_once (social_publish_worker.py). *)

Expired(t) == t.status = "publishing" /\ t.owner # NoWorker /\ t.lease < 0

Failed(t) == [t EXCEPT !.status = "failed", !.due = Never, !.owner = NoWorker, !.lease = 0]

Goes(w, phase) == workers' = [workers EXCEPT ![w].phase = phase]

(* the first half of recover_stale: a read without locks                   *)
ReadStale(w) ==
    /\ workers[w].phase = "process"
    /\ \A a \in Account : claims[w][a].pc = "none"
    /\ workers' = [workers EXCEPT
          ![w] = [phase |-> "recover", stale |-> {a \in Account : Expired(targets[a])}]]
    /\ UNCHANGED <<post, targets, visible, claims, edits>>

Recovered_Replays(t) ==                                             \* mutant
    IF t.attempts >= MaxAttempts THEN Failed(t)
    ELSE [t EXCEPT !.status = "retry_wait", !.due = 0, !.owner = NoWorker, !.lease = 0,
                   !.dispatched = FALSE]

Recovered_KeepsLease(t) ==                                          \* mutant
    IF t.dispatched \/ t.attempts >= MaxAttempts THEN Failed(t)
    ELSE [t EXCEPT !.due = 0, !.owner = NoWorker, !.lease = 0]

Recovered(t) ==
    IF t.dispatched \/ t.attempts >= MaxAttempts THEN Failed(t)
    ELSE [t EXCEPT !.status = "retry_wait", !.due = 0, !.owner = NoWorker, !.lease = 0]

(* the second half, a transaction per target that checks again             *)
recover_stale(w, a) ==
    /\ workers[w].phase = "recover" /\ a \in workers[w].stale
    /\ workers' = [workers EXCEPT ![w].stale = @ \ {a}]
    /\ IF Expired(targets[a])
       THEN Refresh([targets EXCEPT ![a] = Recovered(@)])
       ELSE UNCHANGED <<post, targets>>
    /\ UNCHANGED <<visible, claims, edits>>

Due(t) ==
    /\ t.status \in {"pending", "retry_wait"} /\ t.due = 0
    /\ ~t.dispatched
    /\ t.owner = NoWorker \/ t.lease < 0

Claimable ==
    IF post.status \in {"scheduled", "publishing"}
    THEN {a \in Account : Due(targets[a])} ELSE {}

(* FOR UPDATE SKIP LOCKED: rows that another transaction holds are left    *)
claim_due(w) ==
    /\ workers[w].phase = "recover" /\ workers[w].stale = {}
    /\ \E chosen \in SUBSET Claimable :
          /\ Cardinality(chosen) <= ClaimLimit
          /\ Claimable # {} => chosen # {}
          /\ targets' = [a \in Account |->
                IF a \in chosen
                THEN [targets[a] EXCEPT !.status = "publishing", !.owner = w,
                                        !.lease = LeaseSeconds, !.attempts = @ + 1]
                ELSE targets[a]]
          /\ claims' = [claims EXCEPT ![w] = [a \in Account |->
                IF a \in chosen
                THEN [pc |-> "prepare", row |-> targets[a].row,
                      attempt |-> targets[a].attempts + 1, outcome |-> "none"]
                ELSE NoClaim]]
          /\ Goes(w, IF chosen = {} THEN "process" ELSE "announce")
    /\ UNCHANGED <<post, visible, edits>>

(* the second transaction of claim_due                                     *)
Announce(w) ==
    /\ workers[w].phase = "announce"
    /\ post' = PostWithStatus(IF post.status = "scheduled" THEN "publishing" ELSE post.status)
    /\ Goes(w, "process")
    /\ UNCHANGED <<targets, visible, claims, edits>>

-----------------------------------------------------------------------------
(* A claim in process, concurrently with the others of its worker. *)

Reaches(w, a, pc) ==
    workers[w].phase = "process" /\ claims[w][a].pc = pc

(* the lease check of _guarded_update and finalize                         *)
Holds(w, a) ==
    /\ targets[a].row = claims[w][a].row
    /\ targets[a].owner = w
    /\ targets[a].status = "publishing"
    /\ targets[a].attempts = claims[w][a].attempt

Drop(w, a) == claims' = [claims EXCEPT ![w][a] = NoClaim]

Answer(w, a, outcome) ==
    claims' = [claims EXCEPT ![w][a].pc = "finalize", ![w][a].outcome = outcome]

(* _prepare and the uploads before the call, which nobody can see: they    *)
(* read that the worker owns the row, and may fail in any way.             *)
Prepare(w, a) ==
    /\ Reaches(w, a, "prepare")
    /\ IF targets[a].row = claims[w][a].row /\ targets[a].owner = w
       THEN \/ claims' = [claims EXCEPT ![w][a].pc = "dispatch"]
            \/ \E failure \in Failure : Answer(w, a, failure)
       ELSE Drop(w, a)
    /\ UNCHANGED <<post, targets, visible, workers, edits>>

mark_dispatch_started_Unguarded(w, a) ==                            \* mutant
    /\ Reaches(w, a, "dispatch")
    /\ targets' = [targets EXCEPT ![a].dispatched = TRUE]
    /\ claims' = [claims EXCEPT ![w][a].pc = "call"]
    /\ UNCHANGED <<post, visible, workers, edits>>

mark_dispatch_started(w, a) ==
    /\ Reaches(w, a, "dispatch")
    /\ IF Holds(w, a)
       THEN /\ targets' = [targets EXCEPT ![a].dispatched = TRUE]
            /\ claims' = [claims EXCEPT ![w][a].pc = "call"]
       ELSE Drop(w, a) /\ UNCHANGED targets
    /\ UNCHANGED <<post, visible, workers, edits>>

(* The call.  Graph may publish and answer with an id; it may publish and  *)
(* the answer be lost or hold no id; or it refuses with an error object,   *)
(* or is never reached, and has published nothing.                         *)
Call(w, a) ==
    /\ Reaches(w, a, "call")
    /\ \/ /\ visible' = [visible EXCEPT ![a] = @ + 1]
          /\ \E outcome \in {"published", "ambiguous"} : Answer(w, a, outcome)
       \/ /\ \E failure \in Failure : Answer(w, a, failure)
          /\ UNCHANGED visible
    /\ UNCHANGED <<post, targets, workers, edits>>

Retried(t) ==
    [t EXCEPT !.status = "retry_wait", !.due = Backoff, !.dispatched = FALSE,
              !.owner = NoWorker, !.lease = 0]

Outcome_RetriesForever(t, outcome) ==                               \* mutant
    CASE outcome = "published" ->
             [t EXCEPT !.status = "published", !.due = Never, !.owner = NoWorker, !.lease = 0]
      [] outcome = "transient" -> Retried(t)
      [] OTHER -> Failed(t)

Outcome(t, outcome) ==
    CASE outcome = "published" ->
             [t EXCEPT !.status = "published", !.due = Never, !.owner = NoWorker, !.lease = 0]
      [] outcome = "transient" /\ t.attempts < MaxAttempts -> Retried(t)
      [] OTHER -> Failed(t)

finalize(w, a) ==
    /\ Reaches(w, a, "finalize")
    /\ IF Holds(w, a)
       THEN Refresh([targets EXCEPT ![a] = Outcome(@, claims[w][a].outcome)])
       ELSE UNCHANGED <<post, targets>>
    /\ Drop(w, a)
    /\ UNCHANGED <<visible, workers, edits>>

(* An exception process() does not handle: gather records it, the target   *)
(* waits for its lease to expire.                                          *)
Raise(w, a) ==
    /\ workers[w].phase = "process" /\ claims[w][a].pc # "none"
    /\ Drop(w, a)
    /\ UNCHANGED <<post, targets, visible, workers, edits>>

Crash(w) ==
    /\ workers[w].phase # "gone"
    /\ workers' = [workers EXCEPT ![w] = [phase |-> "gone", stale |-> {}]]
    /\ claims' = [claims EXCEPT ![w] = [a \in Account |-> NoClaim]]
    /\ UNCHANGED <<post, targets, visible, edits>>

CycleStep(w) ==
    \/ ReadStale(w) \/ claim_due(w) \/ Announce(w)
    \/ \E a \in Account : recover_stale(w, a)

ProcessStep(w, a) ==
    Prepare(w, a) \/ mark_dispatch_started(w, a) \/ Call(w, a) \/ finalize(w, a)

Tick ==
    /\ targets' = [a \in Account |-> [targets[a] EXCEPT
          !.due = IF @ > 0 THEN @ - 1 ELSE @,
          !.lease = IF targets[a].owner # NoWorker /\ @ >= 0 THEN @ - 1 ELSE @]]
    /\ post' = [post EXCEPT !.due = IF @ > 0 THEN @ - 1 ELSE @]
    /\ UNCHANGED <<visible, workers, claims, edits>>

Next ==
    \/ UserStep
    \/ \E w \in Worker :
          \/ CycleStep(w) \/ Crash(w)
          \/ \E a \in Account : ProcessStep(w, a) \/ Raise(w, a)
    \/ Tick

WorkerStep(w) == CycleStep(w) \/ \E a \in Account : ProcessStep(w, a)

(* A worker's event loop goes on until it is gone; time passes.            *)
Fairness ==
    /\ \A w \in Worker : WF_vars(WorkerStep(w))
    /\ WF_vars(Tick)

Spec == Init /\ [][Next]_vars /\ Fairness

-----------------------------------------------------------------------------
(* Properties. *)

TypeOK ==
    /\ post \in [status : PostStatus, due : Int]
    /\ targets \in [Account -> Target]
    /\ \A a \in Account : targets[a].attempts <= MaxAttempts + edits
    /\ visible \in [Account -> Nat]
    /\ workers \in [Worker -> Process]
    /\ claims \in [Worker -> [Account -> Claim]]
    /\ edits \in 0..MaxEdits

(* "Never twice": whatever fails, expires, is edited or retried, a post    *)
(* appears at most once on an account, and a target that is waiting for    *)
(* another attempt has not appeared at all.                                *)
NeverTwice ==
    \A a \in Account :
        /\ visible[a] <= 1
        /\ targets[a].status \in {"pending", "retry_wait", "canceled"} => visible[a] = 0
        /\ targets[a].status = "published" => visible[a] = 1

(* The post's status is the one its targets add up to, although claims,    *)
(* recovery and edits change either in transactions of their own: a        *)
(* settled post has no open target, an open one has nothing to hide.       *)
PostMatchesTargets ==
    /\ post.status \in {"published", "partially_failed"} <=>
          /\ \A a \in Live(targets) : targets[a].status \notin OpenStatus
          /\ \E a \in Account : targets[a].status = "published"
    /\ post.status = "published" => \A a \in Live(targets) : targets[a].status = "published"
    /\ post.status = "failed" => \A a \in Live(targets) : targets[a].status = "failed"
    /\ post.status = "canceled" => Live(targets) = {}
    /\ post.status = "publishing" =>
          \E a \in Account : targets[a].status \in OpenStatus
    /\ post.status \in {"draft", "deleted"} =>
          \A a \in Account : targets[a].status \in {"pending", "absent"}

(* What becomes visible is what the user last saved and has not canceled   *)
(* or deleted, while the row says that the call is under way or that its   *)
(* outcome is not known.                                                   *)
PublishesCurrentContent ==
    [][\A a \in Account : visible'[a] # visible[a] =>
          /\ targets[a].dispatched
          /\ targets[a].status \in {"publishing", "failed"}
          /\ \E w \in Worker : claims[w][a].pc = "call" /\ claims[w][a].row = targets[a].row
       ]_vars

Armed(a) ==
    targets[a].status \in OpenStatus /\ post.status \in {"scheduled", "publishing"}

NoWorkerLeft == \A w \in Worker : workers[w].phase = "gone"

(* As long as one worker serves on, every target of a post that is armed   *)
(* is settled, or withdrawn by the user: no lease, dispatch mark or edit   *)
(* strands one of them.                                                    *)
TargetsSettle ==
    (\E a \in Account : Armed(a)) ~> (\A a \in Account : ~Armed(a)) \/ NoWorkerLeft
=============================================================================
