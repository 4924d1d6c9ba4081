----------------------- MODULE SocialPublishingProofs -----------------------
(***************************************************************************)
(* Proofs about SocialPublishing, for every set of accounts and workers    *)
(* and every value of the limits.                                          *)
(***************************************************************************)
EXTENDS SocialPublishing, TLAPS

Waiting == {"pending", "retry_wait", "canceled", "absent"}

(* What a row says of the account: only a call under way or unsettled, or  *)
(* a published target, may have made the post visible.                     *)
RowOK(a) ==
    /\ targets[a].status \in Waiting => ~targets[a].dispatched
    /\ visible[a] \in {0, 1}
    /\ visible[a] = 1 =>
          \/ targets[a].status = "published"
          \/ targets[a].dispatched /\ targets[a].status \in {"publishing", "failed"}
    /\ targets[a].status = "published" => visible[a] = 1

(* A worker that is about to call is alone with it, the row is the one it  *)
(* claimed and is marked, and nothing has become visible.                  *)
CallOK(w, a) ==
    claims[w][a].pc = "call" =>
        /\ targets[a].row = claims[w][a].row
        /\ targets[a].dispatched
        /\ targets[a].status \in {"publishing", "failed"}
        /\ targets[a].status = "publishing" => targets[a].owner = w
        /\ visible[a] = 0
        /\ \A v \in Worker : claims[v][a].pc = "call" => v = w

(* What a worker that still holds the lease may conclude from its claim.   *)
HoldOK(w, a) ==
    Holds(w, a) =>
        /\ claims[w][a].pc \in {"prepare", "dispatch"} => ~targets[a].dispatched
        /\ claims[w][a].pc = "finalize" /\ claims[w][a].outcome = "transient" => visible[a] = 0
        /\ claims[w][a].pc = "finalize" /\ claims[w][a].outcome = "published" => visible[a] = 1

AccountInv ==
    \A a \in Account : RowOK(a) /\ \A w \in Worker : CallOK(w, a) /\ HoldOK(w, a)

(* As long as the user may edit the post no claim has got past its reads:  *)
(* the claim's second transaction moves the post on first.                 *)
PhaseInv ==
    \A w \in Worker :
        /\ post.status \in Editable =>
              \A a \in Account :
                  \/ claims[w][a].pc = "none"
                  \/ claims[w][a].pc = "prepare" /\ workers[w].phase = "announce"
        /\ workers[w].phase = "announce" => post.status # "draft"

EditInv ==
    post.status \in Editable =>
        /\ \A a \in Account : ~targets[a].dispatched /\ targets[a].status # "published"
        /\ \E a \in Account : targets[a].status \in OpenStatus

(* An attempt is still due only if the budget has one left.                *)
AttemptInv ==
    \A a \in Account : targets[a].status \in {"pending", "retry_wait"} =>
        targets[a].attempts + 1 <= MaxAttempts + edits

IndInv ==
    /\ TypeOK
    /\ AttemptInv
    /\ AccountInv
    /\ PhaseInv
    /\ EditInv
    /\ PostMatchesTargets

-----------------------------------------------------------------------------
(* The post as the sum of its targets. *)

(* PostMatchesTargets for any status and targets.                          *)
Matches(status, ts) ==
    /\ status \in {"published", "partially_failed"} <=>
          /\ \A a \in Live(ts) : ts[a].status \notin OpenStatus
          /\ \E a \in Account : ts[a].status = "published"
    /\ status = "published" => \A a \in Live(ts) : ts[a].status = "published"
    /\ status = "failed" => \A a \in Live(ts) : ts[a].status = "failed"
    /\ status = "canceled" => Live(ts) = {}
    /\ status = "publishing" => \E a \in Account : ts[a].status \in OpenStatus
    /\ status \in {"draft", "deleted"} => \A a \in Account : ts[a].status \in {"pending", "absent"}

(* The cases of an open post.                                              *)
LEMMA AggregateOpenCases ==
    ASSUME NEW status, NEW ts
    PROVE  \/ AggregateOpen(status, ts) = "scheduled" /\ status = "scheduled"
           \/ AggregateOpen(status, ts) = "draft" /\ status = "draft"
           \/ AggregateOpen(status, ts) = "publishing"
  BY Zenon DEF AggregateOpen

(* The cases of a settled one.                                             *)
LEMMA AggregateSettledCases ==
    ASSUME NEW ts
    PROVE  \/ /\ AggregateSettled(ts) = "published"
              /\ \A a \in Live(ts) : ts[a].status = "published"
           \/ /\ AggregateSettled(ts) = "partially_failed"
              /\ \E a \in Live(ts) : ts[a].status = "published"
           \/ /\ AggregateSettled(ts) = "failed"
              /\ \A a \in Live(ts) : ts[a].status # "published"
  BY Zenon DEF AggregateSettled

(* The cases of a post with targets.                                       *)
LEMMA AggregateCases ==
    ASSUME NEW status, NEW ts, Present(ts) # {}
    PROVE  \/ aggregate_status(status, ts) = "canceled" /\ Live(ts) = {}
           \/ /\ aggregate_status(status, ts) = AggregateOpen(status, ts)
              /\ \E a \in Live(ts) : ts[a].status \in OpenStatus
           \/ /\ aggregate_status(status, ts) = AggregateSettled(ts)
              /\ Live(ts) # {}
              /\ \A a \in Live(ts) : ts[a].status \notin OpenStatus
  BY Zenon DEF aggregate_status

(* What refreshing a post makes of it.                                     *)
LEMMA AggregateMatches ==
    ASSUME NEW ts \in [Account -> Target], Present(ts) # {},
           NEW status \in PostStatus \ {"draft", "deleted"}
    PROVE  /\ aggregate_status(status, ts) \in PostStatus \ {"draft", "deleted"}
           /\ Matches(aggregate_status(status, ts), ts)
           /\ aggregate_status(status, ts) \in Editable =>
                 status \in Editable /\ \E a \in Account : ts[a].status \in OpenStatus
  <1> DEFINE s == aggregate_status(status, ts)
  <1>1. /\ \A a \in Account : ts[a].status \in TargetStatus \cup {"absent"}
        /\ Live(ts) \subseteq Account
        /\ \A a \in Account : ts[a].status \in OpenStatus \cup {"published", "failed"}
                              <=> a \in Live(ts)
    <2>1. \A a \in Account : ts[a].status \in TargetStatus \cup {"absent"}
      BY DEF Target
    <2> QED  BY <2>1 DEF Live, Present, TargetStatus, OpenStatus
  <1>2. CASE s = "canceled" /\ Live(ts) = {}
    BY <1>1, <1>2 DEF Matches, PostStatus, Editable
  <1>3. CASE s = AggregateOpen(status, ts) /\ \E a \in Live(ts) : ts[a].status \in OpenStatus
    <2>1. s \in {"scheduled", "publishing"} /\ (s = "scheduled" => status = "scheduled")
      BY <1>3, AggregateOpenCases
    <2> HIDE DEF s
    <2> QED  BY <1>1, <1>3, <2>1 DEF Matches, PostStatus, Editable, s
  <1>4. CASE /\ s = AggregateSettled(ts) /\ Live(ts) # {}
             /\ \A a \in Live(ts) : ts[a].status \notin OpenStatus
    <2>1. \/ s = "published" /\ \A a \in Live(ts) : ts[a].status = "published"
          \/ s = "partially_failed" /\ \E a \in Live(ts) : ts[a].status = "published"
          \/ s = "failed" /\ \A a \in Live(ts) : ts[a].status # "published"
      BY <1>4, AggregateSettledCases, Zenon
    <2> HIDE DEF s
    <2>2. Matches(s, ts) /\ s \in {"published", "partially_failed", "failed"}
      <3>1. CASE s = "published" /\ \A a \in Live(ts) : ts[a].status = "published"
        BY <1>1, <1>4, <3>1 DEF Matches
      <3>2. CASE s = "partially_failed" /\ \E a \in Live(ts) : ts[a].status = "published"
        BY <1>1, <1>4, <3>2 DEF Matches
      <3>3. CASE s = "failed" /\ \A a \in Live(ts) : ts[a].status # "published"
        BY <1>1, <1>4, <3>3 DEF Matches
      <3> QED  BY <2>1, <3>1, <3>2, <3>3
    <2> QED  BY <2>2 DEF PostStatus, Editable, s
  <1> QED
    BY <1>2, <1>3, <1>4, AggregateCases

-----------------------------------------------------------------------------
(* Accounts, one at a time. *)

SameRow(a) ==
    /\ targets'[a].status = targets[a].status /\ targets'[a].row = targets[a].row
    /\ targets'[a].attempts = targets[a].attempts /\ targets'[a].owner = targets[a].owner
    /\ targets'[a].dispatched = targets[a].dispatched
    /\ visible'[a] = visible[a]

SameClaims(a) == \A v \in Worker : claims'[v][a] \in {claims[v][a], NoClaim}

AccountOK(a) == RowOK(a) /\ \A w \in Worker : CallOK(w, a) /\ HoldOK(w, a)

(* Nothing happens to an account, or claims on it are given up.            *)
LEMMA QuietAccount ==
    ASSUME NEW a \in Account, AccountOK(a), SameRow(a), SameClaims(a)
    PROVE  AccountOK(a)'
  <1>1. RowOK(a)'
    BY DEF AccountOK, RowOK, SameRow
  <1>2. ASSUME NEW w \in Worker PROVE CallOK(w, a)' /\ HoldOK(w, a)'
    <2>1. NoClaim.pc = "none"
      BY DEF NoClaim
    <2>2. \A v \in Worker : claims'[v][a].pc # "none" => claims'[v][a] = claims[v][a]
      BY <2>1 DEF SameClaims
    <2>3. CallOK(w, a)'
      BY <2>2 DEF AccountOK, CallOK, SameRow
    <2>4. HoldOK(w, a)'
      BY <2>2 DEF AccountOK, HoldOK, Holds, SameRow
    <2> QED  BY <2>3, <2>4
  <1> QED
    BY <1>1, <1>2 DEF AccountOK

(* A row without a call is made to wait, withdrawn or replaced.            *)
LEMMA WaitingAccount ==
    ASSUME NEW a \in Account, AccountOK(a), SameClaims(a), visible'[a] = visible[a],
           ~targets[a].dispatched, targets[a].status # "published",
           targets'[a].status \in Waiting, ~targets'[a].dispatched
    PROVE  AccountOK(a)'
  <1>1. visible[a] = 0
    BY DEF AccountOK, RowOK
  <1>2. RowOK(a)'
    BY <1>1 DEF RowOK, Waiting
  <1>3. ASSUME NEW w \in Worker PROVE CallOK(w, a)' /\ HoldOK(w, a)'
    <2>1. claims[w][a].pc # "call" /\ NoClaim.pc = "none"
      BY DEF AccountOK, CallOK, NoClaim
    <2>2. claims'[w][a].pc # "call"
      BY <2>1 DEF SameClaims
    <2>3. ~Holds(w, a)'
      BY DEF Holds, Waiting
    <2> QED  BY <2>2, <2>3 DEF CallOK, HoldOK
  <1> QED
    BY <1>2, <1>3 DEF AccountOK

(* A row whose lease its holder has, or whose lease has expired, fails.    *)
LEMMA FailedAccount ==
    ASSUME NEW a \in Account, AccountOK(a), SameClaims(a), visible'[a] = visible[a],
           targets[a].status = "publishing", targets'[a].status = "failed",
           targets'[a].row = targets[a].row,
           targets'[a].dispatched = targets[a].dispatched
    PROVE  AccountOK(a)'
  <1>1. RowOK(a)'
    BY DEF AccountOK, RowOK, Waiting
  <1>2. ASSUME NEW w \in Worker PROVE CallOK(w, a)' /\ HoldOK(w, a)'
    <2>1. NoClaim.pc = "none"
      BY DEF NoClaim
    <2>2. \A v \in Worker : claims'[v][a].pc # "none" => claims'[v][a] = claims[v][a]
      BY <2>1 DEF SameClaims
    <2>3. CallOK(w, a)'
      BY <2>2 DEF AccountOK, CallOK
    <2>4. ~Holds(w, a)'
      BY DEF Holds
    <2> QED  BY <2>3, <2>4 DEF HoldOK
  <1> QED
    BY <1>1, <1>2 DEF AccountOK

(* A holder that has no call under way, so that nobody has.                *)
LEMMA HolderAlone ==
    ASSUME NEW a \in Account, AccountOK(a), NEW w \in Worker, Holds(w, a),
           claims[w][a].pc # "call"
    PROVE  /\ \A v \in Worker : claims[v][a].pc # "call"
           /\ \A v \in Worker : v # w => ~Holds(v, a)
  BY DEF AccountOK, CallOK, Holds

(* The other claims on an account when w's changes.                        *)
OtherClaims(w, a) == \A v \in Worker : v # w => claims'[v][a] = claims[v][a]

(* A waiting row is claimed.                                               *)
LEMMA ClaimedAccount ==
    ASSUME NEW a \in Account, NEW w \in Worker, AccountOK(a), OtherClaims(w, a),
           visible'[a] = visible[a],
           targets[a].status \in {"pending", "retry_wait"}, ~targets[a].dispatched,
           targets'[a].status = "publishing", targets'[a].owner = w,
           ~targets'[a].dispatched, claims'[w][a].pc = "prepare"
    PROVE  AccountOK(a)'
  <1>1. visible[a] = 0
    BY DEF AccountOK, RowOK
  <1>2. RowOK(a)'
    BY <1>1 DEF RowOK, Waiting
  <1>3. ASSUME NEW v \in Worker PROVE CallOK(v, a)' /\ HoldOK(v, a)'
    <2>1. CallOK(v, a)'
      BY DEF AccountOK, CallOK, OtherClaims
    <2>2. CASE v = w
      BY <2>1, <2>2 DEF HoldOK
    <2>3. CASE v # w
      BY <2>1, <2>3 DEF HoldOK, Holds
    <2> QED  BY <2>1, <2>2, <2>3
  <1> QED
    BY <1>2, <1>3 DEF AccountOK

(* A claim goes on, or is answered, before the call.                       *)
LEMMA PreparedAccount ==
    ASSUME NEW a \in Account, NEW w \in Worker, AccountOK(a), OtherClaims(w, a),
           targets' = targets, visible' = visible,
           claims[w][a].pc = "prepare",
           claims'[w][a].pc \in {"dispatch", "finalize"},
           claims'[w][a].row = claims[w][a].row, claims'[w][a].attempt = claims[w][a].attempt,
           claims'[w][a].pc = "finalize" => claims'[w][a].outcome # "published"
    PROVE  AccountOK(a)'
  <1>1. RowOK(a)'
    BY DEF AccountOK, RowOK
  <1>2. ASSUME NEW v \in Worker PROVE CallOK(v, a)' /\ HoldOK(v, a)'
    <2>1. claims'[w][a].pc # "call" /\ claims'[w][a].pc # "prepare"
      OBVIOUS
    <2>2. CASE v = w
      <3>1. CallOK(v, a)'
        BY <2>1, <2>2 DEF CallOK
      <3>2. Holds(v, a)' => ~targets[a].dispatched /\ targets[a].status = "publishing"
        BY <2>2 DEF AccountOK, HoldOK, Holds
      <3>3. Holds(v, a)' => visible[a] = 0
        BY <3>2 DEF AccountOK, RowOK
      <3>4. HoldOK(v, a)'
        BY <2>1, <2>2, <3>2, <3>3 DEF HoldOK
      <3> QED  BY <3>1, <3>4
    <2>3. CASE v # w
      <3>1. CallOK(v, a)'
        BY <2>1, <2>3 DEF AccountOK, CallOK, OtherClaims
      <3>2. HoldOK(v, a)'
        BY <2>3 DEF AccountOK, HoldOK, Holds, OtherClaims
      <3> QED  BY <3>1, <3>2
    <2> QED  BY <2>2, <2>3
  <1> QED
    BY <1>1, <1>2 DEF AccountOK

(* The mark that a call is about to be made.                               *)
LEMMA MarkedAccount ==
    ASSUME NEW a \in Account, NEW w \in Worker, AccountOK(a), OtherClaims(w, a),
           Holds(w, a), claims[w][a].pc = "dispatch", visible' = visible,
           targets'[a].dispatched, targets'[a].status = targets[a].status,
           targets'[a].row = targets[a].row, targets'[a].owner = targets[a].owner,
           claims'[w][a].pc = "call", claims'[w][a].row = claims[w][a].row
    PROVE  AccountOK(a)'
  <1>1. /\ targets[a].status = "publishing" /\ targets[a].owner = w
        /\ targets[a].row = claims[w][a].row
    BY DEF Holds
  <1>2. visible[a] = 0
    BY <1>1 DEF AccountOK, HoldOK, RowOK
  <1>3. RowOK(a)'
    BY <1>1, <1>2 DEF RowOK, Waiting
  <1>4. ASSUME NEW v \in Worker PROVE CallOK(v, a)' /\ HoldOK(v, a)'
    <2>1. \A u \in Worker : claims'[u][a].pc = "call" => u = w
      BY HolderAlone DEF OtherClaims
    <2>2. CallOK(v, a)'
      BY <1>1, <1>2, <2>1 DEF CallOK
    <2>3. CASE v = w
      BY <2>2, <2>3 DEF HoldOK
    <2>4. CASE v # w
      BY <1>1, <2>2, <2>4 DEF HoldOK, Holds
    <2> QED  BY <2>2, <2>3, <2>4
  <1> QED
    BY <1>3, <1>4 DEF AccountOK

(* The call is answered: only it can have made the post visible.           *)
LEMMA CalledAccount ==
    ASSUME NEW a \in Account, NEW w \in Worker, AccountOK(a), OtherClaims(w, a),
           targets' = targets, claims[w][a].pc = "call",
           claims'[w][a].pc = "finalize",
           \/ visible'[a] = visible[a] + 1 /\ claims'[w][a].outcome # "transient"
           \/ visible'[a] = visible[a] /\ claims'[w][a].outcome # "published"
    PROVE  AccountOK(a)'
  <1>1. /\ visible[a] = 0 /\ targets[a].dispatched
        /\ targets[a].status \in {"publishing", "failed"}
        /\ targets[a].status = "publishing" => targets[a].owner = w
        /\ \A v \in Worker : claims[v][a].pc = "call" => v = w
    BY DEF AccountOK, CallOK
  <1>2. visible'[a] \in {0, 1}
    BY <1>1
  <1>3. RowOK(a)'
    BY <1>1, <1>2 DEF RowOK, Waiting
  <1>4. ASSUME NEW v \in Worker PROVE CallOK(v, a)' /\ HoldOK(v, a)'
    <2>1. claims'[v][a].pc # "call"
      BY <1>1 DEF OtherClaims
    <2>2. CASE v = w
      BY <1>1, <2>1, <2>2 DEF CallOK, HoldOK
    <2>3. CASE v # w
      <3>1. ~Holds(v, a)'
        BY <1>1, <2>3 DEF Holds
      <3> QED  BY <2>1, <3>1 DEF CallOK, HoldOK
    <2> QED  BY <2>1, <2>2, <2>3 DEF CallOK
  <1> QED
    BY <1>3, <1>4 DEF AccountOK

(* The holder records that its call published the post, or that nothing    *)
(* was published and another attempt may follow.                           *)
LEMMA SettledAccount ==
    ASSUME NEW a \in Account, NEW w \in Worker, AccountOK(a), SameClaims(a),
           Holds(w, a), claims[w][a].pc = "finalize", visible' = visible,
           \/ /\ claims[w][a].outcome = "published"
              /\ targets'[a].status = "published"
           \/ /\ claims[w][a].outcome = "transient"
              /\ targets'[a].status = "retry_wait" /\ ~targets'[a].dispatched
    PROVE  AccountOK(a)'
  <1>1. \A v \in Worker : claims[v][a].pc # "call"
    BY HolderAlone
  <1>2. RowOK(a)'
    BY DEF AccountOK, HoldOK, RowOK, Waiting
  <1>3. ASSUME NEW v \in Worker PROVE CallOK(v, a)' /\ HoldOK(v, a)'
    <2>1. NoClaim.pc = "none"
      BY DEF NoClaim
    <2>2. CallOK(v, a)'
      BY <1>1, <2>1 DEF CallOK, SameClaims
    <2>3. ~Holds(v, a)'
      BY DEF Holds
    <2> QED  BY <2>2, <2>3 DEF HoldOK
  <1> QED
    BY <1>2, <1>3 DEF AccountOK

-----------------------------------------------------------------------------
(* Types, and the parts of the invariant that a step leaves alone. *)

(* The types of the parts a step works on.                                 *)
LEMMA Types ==
    ASSUME TypeOK
    PROVE  /\ \A a \in Account : targets[a] \in Target
           /\ \A w \in Worker, a \in Account : claims[w][a] \in Claim
           /\ MaxAttempts \in Nat \ {0} /\ LeaseSeconds \in Nat \ {0} /\ MaxEdits \in Nat
           /\ edits \in Nat
           /\ NoClaim \in Claim
           /\ \A row \in 0..MaxEdits, due \in Int : NewTarget(row, due) \in Target
           /\ NoTarget \in Target /\ NoTarget.status = "absent" /\ ~NoTarget.dispatched
           /\ NoTarget.attempts = 0
  <1>1. MaxAttempts \in Nat \ {0} /\ LeaseSeconds \in Nat \ {0} /\ MaxEdits \in Nat
    BY PublishingAssumption
  <1>2. 0 \in 0..MaxEdits /\ 0 \in -1..LeaseSeconds /\ Never \in Int
    BY <1>1 DEF Never
  <1>3. NoClaim \in Claim
    BY <1>2 DEF NoClaim, Claim
  <1>4. \A row \in 0..MaxEdits, due \in Int : NewTarget(row, due) \in Target
    BY <1>2 DEF NewTarget, Target, TargetStatus, OpenStatus
  <1>5. /\ NoTarget \in Target /\ NoTarget.status = "absent" /\ ~NoTarget.dispatched
        /\ NoTarget.attempts = 0
    BY <1>2 DEF NoTarget, NewTarget, Target
  <1> QED
    BY <1>1, <1>3, <1>4, <1>5 DEF TypeOK

(* A target that fails.                                                    *)
LEMMA FailedType ==
    ASSUME NEW t \in Target
    PROVE  /\ Failed(t) \in Target
           /\ Failed(t).status = "failed" /\ Failed(t).row = t.row
           /\ Failed(t).attempts = t.attempts /\ Failed(t).dispatched = t.dispatched
  <1>1. 0 \in -1..LeaseSeconds /\ Never \in Int /\ "failed" \in TargetStatus
    BY PublishingAssumption DEF Never, TargetStatus
  <1> QED
    BY <1>1 DEF Failed, Target

(* A target whose lease has expired fails or waits for another attempt.    *)
LEMMA RecoveredCases ==
    ASSUME NEW t \in Target, t.attempts \in Nat
    PROVE  /\ Recovered(t) \in Target
           /\ Recovered(t).attempts = t.attempts
           /\ \/ Recovered(t) = Failed(t)
              \/ /\ ~t.dispatched /\ t.attempts < MaxAttempts
                 /\ Recovered(t).status = "retry_wait" /\ ~Recovered(t).dispatched
  <1>1. 0 \in -1..LeaseSeconds /\ 0 \in Int /\ "retry_wait" \in TargetStatus
        /\ NoWorker \in Worker \cup {NoWorker} /\ MaxAttempts \in Nat
    BY PublishingAssumption DEF TargetStatus, OpenStatus
  <1> DEFINE r == [t EXCEPT !.status = "retry_wait", !.due = 0, !.owner = NoWorker, !.lease = 0]
  <1>2. /\ r \in Target /\ r.status = "retry_wait" /\ r.attempts = t.attempts
        /\ r.dispatched = t.dispatched
    BY <1>1 DEF Target
  <1>3. Recovered(t) = IF t.dispatched \/ t.attempts >= MaxAttempts THEN Failed(t) ELSE r
    BY DEF Recovered
  <1> HIDE DEF r
  <1> QED
    BY <1>1, <1>2, <1>3, FailedType

(* What the outcome of a call makes of the target.                         *)
LEMMA OutcomeCases ==
    ASSUME NEW t \in Target, NEW outcome, t.attempts \in Nat
    PROVE  /\ Outcome(t, outcome) \in Target
           /\ Outcome(t, outcome).attempts = t.attempts
           /\ \/ Outcome(t, outcome) = Failed(t)
              \/ /\ outcome = "published"
                 /\ Outcome(t, outcome).status = "published"
              \/ /\ outcome = "transient" /\ t.attempts < MaxAttempts
                 /\ Outcome(t, outcome).status = "retry_wait"
                 /\ ~Outcome(t, outcome).dispatched
  <1> DEFINE q == [t EXCEPT !.status = "published", !.due = Never,
                            !.owner = NoWorker, !.lease = 0]
  <1>1. 0 \in -1..LeaseSeconds /\ Never \in Int /\ Backoff \in Int
        /\ "retry_wait" \in TargetStatus /\ "published" \in TargetStatus
    BY PublishingAssumption DEF Never, TargetStatus, OpenStatus
  <1>2. q \in Target /\ q.status = "published" /\ q.attempts = t.attempts
    BY <1>1 DEF Target
  <1>3. /\ Retried(t) \in Target /\ Retried(t).status = "retry_wait"
        /\ Retried(t).attempts = t.attempts /\ ~Retried(t).dispatched
    BY <1>1 DEF Retried, Target
  <1>4. \/ outcome = "published" /\ Outcome(t, outcome) = q
        \/ outcome = "transient" /\ t.attempts < MaxAttempts /\ Outcome(t, outcome) = Retried(t)
        \/ Outcome(t, outcome) = Failed(t)
    BY Zenon DEF Outcome
  <1> HIDE DEF q
  <1> QED
    BY <1>2, <1>3, <1>4, FailedType

(* Once the post cannot be edited any more, what guards its edits holds.   *)
LEMMA LateStep ==
    ASSUME post'.status \notin Editable
    PROVE  PhaseInv' /\ EditInv'
  BY DEF PhaseInv, EditInv, Editable

(* A claim that its worker processes: the post has left the user's hands.  *)
LEMMA ClaimIsLate ==
    ASSUME PhaseInv, NEW w \in Worker, NEW a \in Account,
           workers[w].phase = "process", claims[w][a].pc # "none"
    PROVE  post.status \notin Editable
  BY DEF PhaseInv

(* Claims that stay or are given up while the phases stay.                 *)
LEMMA PhaseKept ==
    ASSUME PhaseInv, post'.status \in Editable => post.status \in Editable,
           post'.status = "draft" => post.status = "draft",
           \A w \in Worker :
              \/ /\ workers'[w].phase = workers[w].phase
                 /\ \A a \in Account : claims'[w][a].pc \in {claims[w][a].pc, "none"}
              \/ /\ workers'[w].phase # "announce"
                 /\ \A a \in Account : claims'[w][a].pc = "none"
    PROVE  PhaseInv'
  <1> SUFFICES ASSUME NEW w \in Worker
               PROVE  /\ post'.status \in Editable =>
                            \A a \in Account :
                               \/ claims'[w][a].pc = "none"
                               \/ claims'[w][a].pc = "prepare" /\ workers'[w].phase = "announce"
                      /\ workers'[w].phase = "announce" => post'.status # "draft"
    BY DEF PhaseInv
  <1>1. CASE /\ workers'[w].phase = workers[w].phase
             /\ \A a \in Account : claims'[w][a].pc \in {claims[w][a].pc, "none"}
    <2>1. post.status \in Editable =>
             \A a \in Account :
                               \/ claims[w][a].pc = "none"
                               \/ claims[w][a].pc = "prepare" /\ workers[w].phase = "announce"
      BY DEF PhaseInv
    <2>2. workers[w].phase = "announce" => post.status # "draft"
      BY DEF PhaseInv
    <2> QED  BY <1>1, <2>1, <2>2
  <1>2. CASE /\ workers'[w].phase # "announce"
             /\ \A a \in Account : claims'[w][a].pc = "none"
    BY <1>2
  <1> QED
    BY <1>1, <1>2

(* A step that leaves the post, and the targets open that are open.        *)
LEMMA MatchesKept ==
    ASSUME PostMatchesTargets, post'.status = post.status,
           \A a \in Account :
              \/ targets'[a].status = targets[a].status
              \/ /\ targets[a].status \in OpenStatus /\ targets'[a].status \in OpenStatus
                 /\ post.status \notin {"draft", "deleted"}
    PROVE  PostMatchesTargets'
  <1>1. \A a \in Account : targets'[a].status \in OpenStatus <=> targets[a].status \in OpenStatus
    OBVIOUS
  <1>2. \A a \in Account : targets'[a].status \notin OpenStatus
                           => targets'[a].status = targets[a].status
    OBVIOUS
  <1>3. Live(targets)' = Live(targets)
    BY <1>1, <1>2 DEF Live, Present, OpenStatus
  <1>4. "published" \notin OpenStatus /\ "failed" \notin OpenStatus
    BY DEF OpenStatus
  <1>5. \A a \in Account : /\ targets'[a].status = "published" <=> targets[a].status = "published"
                           /\ targets'[a].status = "failed" <=> targets[a].status = "failed"
    BY <1>1, <1>2, <1>4
  <1>6. Live(targets) \subseteq Account
    BY DEF Live, Present
  <1>7. post.status \in {"draft", "deleted"} =>
           \A a \in Account : targets'[a].status = targets[a].status
    OBVIOUS
  <1> QED
    BY <1>1, <1>3, <1>5, <1>6, <1>7 DEF PostMatchesTargets

(* A step that refreshes the post.                                         *)
LEMMA RefreshStep ==
    ASSUME TypeOK, NEW ts \in [Account -> Target], Refresh(ts),
           post.status \notin {"draft", "deleted"}, Present(ts) # {}
    PROVE  /\ targets' = ts
           /\ post' \in [status : PostStatus, due : Int]
           /\ PostMatchesTargets'
           /\ post'.status # "draft"
           /\ post'.status \in Editable =>
                 post.status \in Editable /\ \E a \in Account : ts[a].status \in OpenStatus
  <1> DEFINE s == aggregate_status(post.status, ts)
  <1>1. post.status \in PostStatus \ {"draft", "deleted"} /\ post.due \in Int
    BY DEF TypeOK
  <1>2. /\ s \in PostStatus \ {"draft", "deleted"}
        /\ Matches(s, ts)
        /\ s \in Editable => post.status \in Editable /\ \E a \in Account : ts[a].status \in OpenStatus
    BY <1>1, AggregateMatches
  <1>3. targets' = ts /\ post' = PostWithStatus(s)
    BY DEF Refresh
  <1> HIDE DEF s
  <1>4. post'.status = s /\ post' \in [status : PostStatus, due : Int]
    BY <1>1, <1>2, <1>3 DEF PostWithStatus, Never
  <1>5. PostMatchesTargets'
    BY <1>2, <1>3, <1>4 DEF Matches, PostMatchesTargets, Live, Present
  <1> QED
    BY <1>2, <1>3, <1>4, <1>5

(* A post that is scheduled or being published has an open target.         *)
LEMMA OpenTarget ==
    ASSUME PostMatchesTargets, EditInv, post.status \in {"draft", "scheduled", "publishing"}
    PROVE  \E a \in Account : targets[a].status \in OpenStatus
  BY DEF PostMatchesTargets, EditInv, Editable

-----------------------------------------------------------------------------
(* The user's operations. *)

(* An operation that replaces or arms the targets of an editable post.     *)
LEMMA EditStep ==
    ASSUME IndInv, post.status \in Editable, Edit,
           post' \in [status : {"draft", "scheduled", "publishing"}, due : Int],
           post'.status = "draft" => post.status = "draft",
           targets' \in [Account -> Target],
           \A a \in Account :
              /\ targets'[a].status \in {"pending", "absent"}
              /\ ~targets'[a].dispatched
              /\ targets'[a].attempts + 1 <= MaxAttempts + edits',
           \E a \in Account : targets'[a].status = "pending"
    PROVE  IndInv'
  <1> USE Types DEF IndInv
  <1>1. UNCHANGED <<visible, workers, claims>> /\ edits' \in 0..MaxEdits
    BY DEF Edit, TypeOK
  <1>2. \A a \in Account : targets'[a].attempts \in Nat
    BY DEF Target
  <1>3. TypeOK'
    <2>1. \A a \in Account : targets'[a].attempts <= MaxAttempts + edits'
      BY <1>1, <1>2
    <2>2. post' \in [status : PostStatus, due : Int]
      BY DEF PostStatus
    <2> QED  BY <1>1, <2>1, <2>2 DEF TypeOK
  <1>4. AttemptInv'
    BY DEF AttemptInv
  <1>5. AccountInv'
    <2>1. ASSUME NEW a \in Account PROVE AccountOK(a)'
      <3>1. /\ AccountOK(a) /\ SameClaims(a) /\ visible'[a] = visible[a]
            /\ ~targets[a].dispatched /\ targets[a].status # "published"
        BY <1>1 DEF AccountInv, AccountOK, SameClaims, EditInv
      <3>2. targets'[a].status \in Waiting
        BY DEF Waiting
      <3> QED  BY <3>1, <3>2, WaitingAccount
    <2> QED  BY <2>1 DEF AccountInv, AccountOK
  <1>6. PhaseInv'
    BY <1>1, PhaseKept
  <1>7. EditInv'
    BY DEF EditInv, OpenStatus
  <1>8. PostMatchesTargets'
    BY DEF PostMatchesTargets, OpenStatus, Live, Present
  <1> QED
    BY <1>3, <1>4, <1>5, <1>6, <1>7, <1>8

(* New targets.                                                            *)
LEMMA UpdateStep ==
    ASSUME IndInv, NEW chosen \in SUBSET Account, update_post(chosen)
    PROVE  IndInv'
  <1> USE Types DEF IndInv
  <1> DEFINE due == IF post.status = "scheduled" THEN post.due ELSE Never
             new == NewTarget(edits + 1, due)
  <1>1. /\ post.status \in Editable /\ chosen # {} /\ Edit /\ post' = post
        /\ targets' = [a \in Account |-> IF a \in chosen THEN new ELSE NoTarget]
    BY DEF update_post, ReplaceTargets
  <1>2. /\ due \in Int /\ edits + 1 \in 0..MaxEdits /\ edits' = edits + 1
    BY <1>1 DEF TypeOK, Edit, Never
  <1>3. /\ new \in Target /\ new.status = "pending" /\ ~new.dispatched /\ new.attempts = 0
    BY <1>2 DEF NewTarget
  <1> HIDE DEF due, new
  <1>4. \A a \in Account : targets'[a] \in {new, NoTarget}
    BY <1>1
  <1>5. targets' \in [Account -> Target]
    BY <1>1, <1>3
  <1>6. 0 + 1 <= MaxAttempts + edits'
    BY <1>2
  <1>7. \A a \in Account :
              /\ targets'[a].status \in {"pending", "absent"}
              /\ ~targets'[a].dispatched
              /\ targets'[a].attempts + 1 <= MaxAttempts + edits'
    BY <1>3, <1>4, <1>6
  <1>8. \E a \in Account : targets'[a].status = "pending"
    BY <1>1, <1>3
  <1>9. post' \in [status : {"draft", "scheduled", "publishing"}, due : Int]
    BY <1>1 DEF TypeOK, Editable
  <1> QED
    BY <1>1, <1>5, <1>7, <1>8, <1>9, EditStep

(* Scheduling and publishing arm every target, canceled ones included.     *)
LEMMA ArmStep ==
    ASSUME IndInv, NEW due \in Int, NEW status \in {"scheduled", "publishing"}, Arm(due, status)
    PROVE  IndInv'
  <1> USE Types DEF IndInv
  <1>1. /\ post.status \in Editable /\ Edit
        /\ targets' = [a \in Account |->
              IF a \in Present(targets)
              THEN [targets[a] EXCEPT !.status = "pending", !.due = due] ELSE targets[a]]
        /\ post' = [status |-> status, due |-> IF status = "scheduled" THEN due ELSE Never]
    BY DEF Arm
  <1>2. post' \in [status : {"draft", "scheduled", "publishing"}, due : Int]
        /\ post'.status # "draft"
    <2>1. (IF status = "scheduled" THEN due ELSE Never) \in Int
      BY DEF Never
    <2> QED  BY <1>1, <2>1
  <1>3. edits' = edits + 1
    BY <1>1 DEF Edit
  <1>4. ASSUME NEW a \in Account
        PROVE  /\ targets'[a] \in Target
               /\ targets'[a].status = IF targets[a].status = "absent" THEN "absent" ELSE "pending"
               /\ ~targets'[a].dispatched
               /\ targets'[a].attempts + 1 <= MaxAttempts + edits'
    <2>1. /\ targets[a] \in Target /\ targets[a].attempts <= MaxAttempts + edits
          /\ targets[a].attempts \in Nat /\ ~targets[a].dispatched
      BY <1>1 DEF TypeOK, EditInv, Target
    <2>2. CASE a \in Present(targets)
      <3>1. targets'[a] = [targets[a] EXCEPT !.status = "pending", !.due = due]
        BY <1>1, <2>2
      <3>2. "pending" \in TargetStatus
        BY DEF TargetStatus, OpenStatus
      <3>3. targets'[a] \in Target
        BY <2>1, <3>1, <3>2 DEF Target
      <3>4. /\ targets'[a].status = "pending" /\ ~targets'[a].dispatched
            /\ targets'[a].attempts = targets[a].attempts
        BY <2>1, <3>1 DEF Target
      <3> QED  BY <1>3, <2>1, <2>2, <3>3, <3>4 DEF Present
    <2>3. CASE a \notin Present(targets)
      <3>1. targets'[a] = targets[a] /\ targets[a].status = "absent"
        BY <1>1, <2>3 DEF Present
      <3>2. targets[a].attempts + 1 <= MaxAttempts + edits'
        BY <1>3, <2>1
      <3> QED  BY <2>1, <3>1, <3>2
    <2> QED  BY <2>2, <2>3
  <1>5. targets' \in [Account -> Target]
    BY <1>1, <1>4
  <1>6. \E a \in Account : targets'[a].status = "pending"
    <2>1. PICK a \in Account : targets[a].status \in OpenStatus
      BY <1>1 DEF EditInv
    <2>2. targets[a].status # "absent"
      BY <2>1 DEF OpenStatus
    <2> QED  BY <1>4, <2>2
  <1> QED
    BY <1>1, <1>2, <1>4, <1>5, <1>6, EditStep

(* A cancellation withdraws what no worker has begun.                      *)
LEMMA CancelStep ==
    ASSUME IndInv, cancel_post
    PROVE  IndInv'
  <1> USE Types DEF IndInv
  <1> DEFINE ts == [a \in Account |->
                      IF Cancelable(targets[a])
                      THEN [targets[a] EXCEPT !.status = "canceled", !.due = Never]
                      ELSE targets[a]]
  <1>1. post.status \in {"scheduled", "publishing"} /\ Edit /\ Refresh(ts)
    BY DEF cancel_post
  <1>2. UNCHANGED <<visible, workers, claims>> /\ edits' \in 0..MaxEdits /\ edits' = edits + 1
    <2>1. Edit /\ edits \in 0..MaxEdits
      BY <1>1 DEF TypeOK
    <2> QED  BY <2>1 DEF Edit
  <1>3. ASSUME NEW a \in Account
        PROVE  /\ ts[a] \in Target /\ ts[a].attempts = targets[a].attempts
               /\ targets[a].status # "absent" => ts[a].status # "absent"
               /\ \/ ts[a] = targets[a]
                  \/ /\ targets[a].status \in {"pending", "retry_wait"}
                     /\ ~targets[a].dispatched
                     /\ ts[a].status = "canceled" /\ ~ts[a].dispatched
    <2>1. CASE Cancelable(targets[a])
      <3>1. "canceled" \in TargetStatus /\ Never \in Int
        BY DEF TargetStatus, Never
      <3>2. ts[a] = [targets[a] EXCEPT !.status = "canceled", !.due = Never]
        BY <2>1
      <3> HIDE DEF ts
      <3> QED  BY <2>1, <3>1, <3>2 DEF Cancelable, Target
    <2>2. CASE ~Cancelable(targets[a])
      BY <2>2
    <2> QED  BY <2>1, <2>2
  <1>4. ts \in [Account -> Target]
    BY <1>3
  <1> HIDE DEF ts
  <1>5. Present(ts) # {}
    <2>1. PICK a \in Account : targets[a].status \in OpenStatus
      BY <1>1, OpenTarget
    <2> QED  BY <1>3, <2>1 DEF Present, OpenStatus
  <1>6. /\ targets' = ts /\ post' \in [status : PostStatus, due : Int]
        /\ PostMatchesTargets' /\ post'.status # "draft"
        /\ post'.status \in Editable =>
              post.status \in Editable /\ \E a \in Account : ts[a].status \in OpenStatus
    BY <1>1, <1>4, <1>5, RefreshStep
  <1>7. TypeOK'
    <2>1. \A a \in Account : targets'[a].attempts <= MaxAttempts + edits'
      <3> TAKE a \in Account
      <3>1. targets[a].attempts <= MaxAttempts + edits /\ targets[a].attempts \in Nat
        BY DEF TypeOK, Target
      <3> QED  BY <1>2, <1>3, <1>6, <3>1
    <2> QED  BY <1>2, <1>4, <1>6, <2>1 DEF TypeOK
  <1>8. AttemptInv'
    <2> SUFFICES ASSUME NEW a \in Account, targets'[a].status \in {"pending", "retry_wait"}
                 PROVE  targets'[a].attempts + 1 <= MaxAttempts + edits'
      BY DEF AttemptInv
    <2>1. targets'[a] = targets[a] /\ targets[a].attempts \in Nat
      BY <1>3, <1>6 DEF Target
    <2> QED  BY <1>2, <2>1 DEF AttemptInv
  <1>9. AccountInv'
    <2>1. ASSUME NEW a \in Account PROVE AccountOK(a)'
      <3>1. AccountOK(a) /\ SameClaims(a) /\ visible'[a] = visible[a]
        BY <1>2 DEF AccountInv, AccountOK, SameClaims
      <3>2. CASE ts[a] = targets[a]
        BY <1>6, <3>1, <3>2, QuietAccount DEF SameRow
      <3>3. CASE ts[a] # targets[a]
        BY <1>3, <1>6, <3>1, <3>3, WaitingAccount DEF Waiting
      <3> QED  BY <3>2, <3>3
    <2> QED  BY <2>1 DEF AccountInv, AccountOK
  <1>10. PhaseInv'
    BY <1>2, <1>6, PhaseKept
  <1>11. EditInv'
    <2>1. ASSUME post'.status \in Editable, NEW a \in Account
          PROVE  ~targets'[a].dispatched /\ targets'[a].status # "published"
      <3>1. ~targets[a].dispatched /\ targets[a].status # "published"
        BY <1>6, <2>1 DEF EditInv
      <3> QED  BY <1>3, <1>6, <3>1
    <2> QED  BY <1>6, <2>1 DEF EditInv
  <1> QED
    BY <1>6, <1>7, <1>8, <1>9, <1>10, <1>11

(* A draft or a canceled post is deleted with its targets.                 *)
LEMMA DeleteStep ==
    ASSUME IndInv, delete_post
    PROVE  IndInv'
  <1> USE Types DEF IndInv
  <1>1. /\ post.status \in {"draft", "canceled"} /\ Edit
        /\ post' = [status |-> "deleted", due |-> Never]
        /\ targets' = [a \in Account |-> NoTarget]
    BY DEF delete_post
  <1>2. UNCHANGED <<visible, workers, claims>> /\ edits' \in 0..MaxEdits
    BY <1>1 DEF Edit, TypeOK
  <1>3. \A a \in Account : targets'[a] = NoTarget
    BY <1>1
  <1>4. \A a \in Account : targets[a].status \in Waiting
    BY <1>1 DEF PostMatchesTargets, Live, Present, Waiting
  <1>5. TypeOK'
    <2>1. targets' \in [Account -> Target] /\ post' \in [status : PostStatus, due : Int]
      BY <1>1 DEF PostStatus, Never
    <2>2. \A a \in Account : targets'[a].attempts <= MaxAttempts + edits'
      BY <1>2, <1>3
    <2> QED  BY <1>2, <2>1, <2>2 DEF TypeOK
  <1>6. AttemptInv'
    BY <1>3 DEF AttemptInv
  <1>7. AccountInv'
    <2>1. ASSUME NEW a \in Account PROVE AccountOK(a)'
      <3>1. /\ AccountOK(a) /\ SameClaims(a) /\ visible'[a] = visible[a]
            /\ ~targets[a].dispatched
        BY <1>2, <1>4 DEF AccountInv, AccountOK, SameClaims, RowOK
      <3>2. targets[a].status # "published"
        BY <1>4 DEF Waiting
      <3>3. targets'[a].status \in Waiting /\ ~targets'[a].dispatched
        BY <1>3 DEF Waiting
      <3> QED  BY <3>1, <3>2, <3>3, WaitingAccount
    <2> QED  BY <2>1 DEF AccountInv, AccountOK
  <1>8. PhaseInv' /\ EditInv'
    BY <1>1, LateStep DEF Editable
  <1>9. PostMatchesTargets'
    BY <1>1, <1>3 DEF PostMatchesTargets, Live, Present
  <1> QED
    BY <1>5, <1>6, <1>7, <1>8, <1>9

-----------------------------------------------------------------------------
(* The cycle of a worker. *)

(* A claim that changes, and the others that do not.                       *)
LEMMA ClaimChange ==
    ASSUME TypeOK, NEW w \in Worker, NEW a \in Account, NEW c \in Claim,
           claims' = [claims EXCEPT ![w][a] = c]
    PROVE  /\ claims' \in [Worker -> [Account -> Claim]]
           /\ claims'[w][a] = c
           /\ \A v \in Worker, b \in Account :
                 v # w \/ b # a => claims'[v][b] = claims[v][b]
  BY DEF TypeOK

(* Giving up a claim.                                                      *)
LEMMA DropShape ==
    ASSUME TypeOK, NEW w \in Worker, NEW a \in Account, Drop(w, a)
    PROVE  /\ claims' \in [Worker -> [Account -> Claim]]
           /\ \A b \in Account : SameClaims(b)
  <1>1. claims' = [claims EXCEPT ![w][a] = NoClaim] /\ NoClaim \in Claim
    BY Types DEF Drop
  <1>2. /\ claims' \in [Worker -> [Account -> Claim]] /\ claims'[w][a] = NoClaim
        /\ \A v \in Worker, b \in Account :
                 v # w \/ b # a => claims'[v][b] = claims[v][b]
    BY <1>1, ClaimChange
  <1> QED
    BY <1>2 DEF SameClaims

(* A step that leaves the post and what the rows say of it.                *)
LEMMA RowsKept ==
    ASSUME IndInv, TypeOK', post'.status = post.status, edits' = edits,
           \A a \in Account : SameRow(a) /\ SameClaims(a)
    PROVE  AttemptInv' /\ AccountInv' /\ EditInv' /\ PostMatchesTargets'
  <1> USE DEF IndInv
  <1>1. AttemptInv'
    BY DEF AttemptInv, SameRow
  <1>2. AccountInv'
    BY QuietAccount DEF AccountInv, AccountOK
  <1>3. EditInv'
    BY DEF EditInv, SameRow
  <1>4. PostMatchesTargets'
    BY MatchesKept DEF SameRow
  <1> QED
    BY <1>1, <1>2, <1>3, <1>4

(* Reading what has expired, and ending a process.                         *)
LEMMA ReadStaleStep ==
    ASSUME IndInv, NEW w \in Worker, ReadStale(w) \/ Crash(w)
    PROVE  IndInv'
  <1> USE Types DEF IndInv
  <1>1. UNCHANGED <<post, targets, visible, edits>>
    BY DEF ReadStale, Crash
  <1>2. /\ claims' \in [Worker -> [Account -> Claim]] /\ workers' \in [Worker -> Process]
        /\ \A a \in Account : SameClaims(a)
        /\ \A v \in Worker : v # w => workers'[v] = workers[v]
                                      /\ \A a \in Account : claims'[v][a] = claims[v][a]
        /\ workers'[w].phase # "announce" /\ \A a \in Account : claims'[w][a].pc = "none"
    <2>1. CASE ReadStale(w)
      <3>1. [phase |-> "recover", stale |-> {a \in Account : Expired(targets[a])}] \in Process
        BY DEF Process
      <3> QED  BY <2>1, <3>1 DEF ReadStale, TypeOK, SameClaims
    <2>2. CASE Crash(w)
      <3>1. [phase |-> "gone", stale |-> {}] \in Process /\ NoClaim.pc = "none"
        BY DEF Process, NoClaim
      <3> QED  BY <2>2, <3>1 DEF Crash, TypeOK, SameClaims
    <2> QED  BY <2>1, <2>2
  <1>3. TypeOK'
    BY <1>1, <1>2 DEF TypeOK
  <1>4. \A a \in Account : SameRow(a)
    BY <1>1 DEF SameRow
  <1>5. PhaseInv'
    <2>1. \A v \in Worker :
             \/ /\ workers'[v].phase = workers[v].phase
                /\ \A a \in Account : claims'[v][a].pc \in {claims[v][a].pc, "none"}
             \/ /\ workers'[v].phase # "announce"
                /\ \A a \in Account : claims'[v][a].pc = "none"
      BY <1>2
    <2> QED  BY <1>1, <2>1, PhaseKept
  <1> QED
    BY <1>1, <1>2, <1>3, <1>4, <1>5, RowsKept

(* A lease that has expired is taken back, or the target fails.            *)
LEMMA RecoverStep ==
    ASSUME IndInv, NEW w \in Worker, NEW a \in Account, recover_stale(w, a)
    PROVE  IndInv'
  <1> USE Types DEF IndInv
  <1>1. /\ UNCHANGED <<visible, claims, edits>>
        /\ workers' = [workers EXCEPT ![w].stale = workers[w].stale \ {a}]
    BY DEF recover_stale
  <1>2. /\ workers' \in [Worker -> Process]
        /\ \A v \in Worker : workers'[v].phase = workers[v].phase
    BY <1>1 DEF TypeOK, Process
  <1>3. \A b \in Account : SameClaims(b)
    BY <1>1 DEF SameClaims
  <1>4. CASE UNCHANGED <<post, targets>>
    <2>1. TypeOK'
      BY <1>1, <1>2, <1>4 DEF TypeOK
    <2>2. \A b \in Account : SameRow(b)
      BY <1>1, <1>4 DEF SameRow
    <2>3. PhaseInv'
      BY <1>1, <1>2, <1>4, PhaseKept
    <2> QED  BY <1>1, <1>3, <1>4, <2>1, <2>2, <2>3, RowsKept
  <1>5. CASE Expired(targets[a]) /\ Refresh([targets EXCEPT ![a] = Recovered(targets[a])])
    <2> DEFINE ts == [targets EXCEPT ![a] = Recovered(targets[a])]
    <2>1. targets[a].status = "publishing" /\ targets[a].attempts \in Nat
      BY <1>5 DEF Expired, Target
    <2>2. /\ Recovered(targets[a]) \in Target
          /\ Recovered(targets[a]).attempts = targets[a].attempts
          /\ \/ Recovered(targets[a]) = Failed(targets[a])
             \/ /\ ~targets[a].dispatched /\ targets[a].attempts < MaxAttempts
                /\ Recovered(targets[a]).status = "retry_wait"
                /\ ~Recovered(targets[a]).dispatched
      BY <2>1, RecoveredCases
    <2>3. /\ ts \in [Account -> Target] /\ ts[a] = Recovered(targets[a])
          /\ \A b \in Account : b # a => ts[b] = targets[b]
      BY <2>2 DEF TypeOK
    <2>4. Refresh(ts)
      BY <1>5
    <2> HIDE DEF ts
    <2>5. Failed(targets[a]).status = "failed" /\ Failed(targets[a]).row = targets[a].row
          /\ Failed(targets[a]).dispatched = targets[a].dispatched
      BY FailedType
    <2>6. Present(ts) # {}
      BY <2>2, <2>3, <2>5 DEF Present
    <2>7. post.status \notin {"draft", "deleted"}
      BY <2>1 DEF PostMatchesTargets
    <2>8. /\ targets' = ts /\ post' \in [status : PostStatus, due : Int]
          /\ PostMatchesTargets' /\ post'.status # "draft"
          /\ post'.status \in Editable =>
                post.status \in Editable /\ \E b \in Account : ts[b].status \in OpenStatus
      BY <2>3, <2>4, <2>6, <2>7, RefreshStep
    <2>9. TypeOK'
      <3>1. \A b \in Account : targets'[b].attempts <= MaxAttempts + edits'
        BY <1>1, <2>2, <2>3, <2>8 DEF TypeOK
      <3> QED  BY <1>1, <1>2, <2>3, <2>8, <3>1 DEF TypeOK
    <2>10. AttemptInv'
      <3>1. targets'[a].status = "retry_wait" => targets'[a].attempts + 1 <= MaxAttempts + edits'
        BY <1>1, <2>1, <2>2, <2>3, <2>5, <2>8
      <3>2. targets'[a].status # "pending"
        BY <2>2, <2>3, <2>5, <2>8
      <3> QED  BY <1>1, <2>3, <2>8, <3>1, <3>2 DEF AttemptInv
    <2>11. AccountInv'
      <3>1. ASSUME NEW b \in Account PROVE AccountOK(b)'
        <4>1. AccountOK(b) /\ SameClaims(b) /\ visible'[b] = visible[b]
          BY <1>1, <1>3 DEF AccountInv, AccountOK
        <4>2. CASE b # a
          BY <2>3, <2>8, <4>1, <4>2, QuietAccount DEF SameRow
        <4>3. CASE b = a /\ ts[a] = Failed(targets[a])
          BY <2>1, <2>5, <2>8, <4>1, <4>3, FailedAccount
        <4>4. CASE b = a /\ ts[a] # Failed(targets[a])
          BY <2>1, <2>2, <2>3, <2>8, <4>1, <4>4, WaitingAccount DEF Waiting
        <4> QED  BY <4>2, <4>3, <4>4
      <3> QED  BY <3>1 DEF AccountInv, AccountOK
    <2>12. PhaseInv'
      BY <1>1, <1>2, <2>8, PhaseKept
    <2>13. EditInv'
      <3>1. ASSUME post'.status \in Editable, NEW b \in Account
            PROVE  ~targets'[b].dispatched /\ targets'[b].status # "published"
        <4>1. ~targets[b].dispatched /\ targets[b].status # "published"
              /\ ~targets[a].dispatched
          BY <2>8, <3>1 DEF EditInv
        <4> QED  BY <2>2, <2>3, <2>5, <2>8, <4>1
      <3> QED  BY <2>8, <3>1 DEF EditInv
    <2> QED  BY <2>8, <2>9, <2>10, <2>11, <2>12, <2>13
  <1> QED
    BY <1>4, <1>5 DEF recover_stale

(* A worker claims rows that are due: their attempt is within the budget,  *)
(* nothing of them is visible.                                             *)
LEMMA ClaimStep ==
    ASSUME IndInv, NEW w \in Worker, claim_due(w)
    PROVE  IndInv'
  <1> USE Types DEF IndInv
  <1>1. PICK chosen \in SUBSET Claimable :
          /\ targets' = [a \in Account |->
                IF a \in chosen
                THEN [targets[a] EXCEPT !.status = "publishing", !.owner = w,
                                        !.lease = LeaseSeconds, !.attempts = targets[a].attempts + 1]
                ELSE targets[a]]
          /\ claims' = [claims EXCEPT ![w] = [a \in Account |->
                IF a \in chosen
                THEN [pc |-> "prepare", row |-> targets[a].row,
                      attempt |-> targets[a].attempts + 1, outcome |-> "none"]
                ELSE NoClaim]]
          /\ Goes(w, IF chosen = {} THEN "process" ELSE "announce")
    BY DEF claim_due
  <1>2. UNCHANGED <<post, visible, edits>>
    BY DEF claim_due
  <1>3. /\ workers' \in [Worker -> Process]
        /\ workers'[w].phase = IF chosen = {} THEN "process" ELSE "announce"
        /\ \A v \in Worker : v # w => workers'[v] = workers[v]
    BY <1>1 DEF Goes, TypeOK, Process
  <1>4. ASSUME NEW a \in chosen
        PROVE  /\ a \in Account /\ post.status \in {"scheduled", "publishing"}
               /\ targets[a].status \in {"pending", "retry_wait"} /\ ~targets[a].dispatched
    BY DEF Claimable, Due
  <1>5. ASSUME NEW a \in Account
        PROVE  /\ a \in chosen =>
                     /\ targets'[a] \in Target
                     /\ targets'[a].status = "publishing" /\ targets'[a].owner = w
                     /\ ~targets'[a].dispatched
                     /\ targets'[a].attempts = targets[a].attempts + 1
                     /\ claims'[w][a] \in Claim /\ claims'[w][a].pc = "prepare"
               /\ a \notin chosen => targets'[a] = targets[a] /\ claims'[w][a] = NoClaim
               /\ \A v \in Worker : v # w => claims'[v][a] = claims[v][a]
    <2>1. CASE a \in chosen
      <3>1. /\ "publishing" \in TargetStatus /\ LeaseSeconds \in -1..LeaseSeconds
            /\ targets[a].attempts + 1 \in Nat /\ targets[a].row \in 0..MaxEdits
        <4>1. targets[a] \in Target
          BY DEF TypeOK
        <4>2. LeaseSeconds \in -1..LeaseSeconds
          BY PublishingAssumption
        <4>3. targets[a].attempts \in Nat /\ targets[a].row \in 0..MaxEdits
          BY <4>1 DEF Target
        <4>4. "publishing" \in TargetStatus
          BY DEF TargetStatus, OpenStatus
        <4> HIDE DEF IndInv
        <4> QED  BY <4>2, <4>3, <4>4
      <3>2. targets'[a] = [targets[a] EXCEPT !.status = "publishing", !.owner = w,
                              !.lease = LeaseSeconds, !.attempts = targets[a].attempts + 1]
        BY <1>1, <2>1
      <3>3. targets'[a] \in Target
        BY <3>1, <3>2 DEF Target
      <3>4. /\ targets'[a].status = "publishing" /\ targets'[a].owner = w
            /\ ~targets'[a].dispatched /\ targets'[a].attempts = targets[a].attempts + 1
        BY <1>4, <2>1, <3>2 DEF Target
      <3>5. claims'[w][a] = [pc |-> "prepare", row |-> targets[a].row,
                             attempt |-> targets[a].attempts + 1, outcome |-> "none"]
        BY <1>1, <2>1 DEF TypeOK
      <3>6. claims'[w][a] \in Claim /\ claims'[w][a].pc = "prepare"
        BY <3>1, <3>5 DEF Claim
      <3>7. \A v \in Worker : v # w => claims'[v][a] = claims[v][a]
        BY <1>1 DEF TypeOK
      <3> QED  BY <2>1, <3>3, <3>4, <3>6, <3>7
    <2>2. CASE a \notin chosen
      BY <1>1, <2>2 DEF TypeOK
    <2> QED  BY <2>1, <2>2
  <1>6. /\ targets' \in [Account -> Target]
        /\ claims' \in [Worker -> [Account -> Claim]]
    <2>1. \A a \in Account : targets'[a] \in Target
      BY <1>5
    <2>2. \A a \in Account : claims'[w][a] \in Claim
      BY <1>5
    <2>3. DOMAIN claims'[w] = Account /\ claims'[w] = [a \in Account |-> claims'[w][a]]
      BY <1>1 DEF TypeOK
    <2>4. claims'[w] \in [Account -> Claim]
      BY <2>2, <2>3
    <2>5. claims' \in [Worker -> [Account -> Claim]]
      BY <1>1, <2>4 DEF TypeOK
    <2> QED  BY <1>1, <2>1, <2>5
  <1>7. TypeOK'
    <2>1. \A a \in Account : targets'[a].attempts <= MaxAttempts + edits'
      <3> TAKE a \in Account
      <3>1. CASE a \in chosen
        BY <1>2, <1>4, <1>5, <3>1 DEF AttemptInv
      <3>2. CASE a \notin chosen
        BY <1>2, <1>5, <3>2 DEF TypeOK
      <3> QED  BY <3>1, <3>2
    <2> QED  BY <1>2, <1>3, <1>6, <2>1 DEF TypeOK
  <1>8. AttemptInv'
    BY <1>2, <1>5 DEF AttemptInv
  <1>9. AccountInv'
    <2>1. ASSUME NEW a \in Account PROVE AccountOK(a)'
      <3>1. AccountOK(a) /\ visible'[a] = visible[a]
        BY <1>2 DEF AccountInv, AccountOK
      <3>2. CASE a \in chosen
        BY <1>4, <1>5, <3>1, <3>2, ClaimedAccount DEF OtherClaims
      <3>3. CASE a \notin chosen
        <4>1. SameRow(a) /\ SameClaims(a)
          BY <1>5, <3>1, <3>3 DEF SameRow, SameClaims
        <4> QED  BY <3>1, <4>1, QuietAccount
      <3> QED  BY <3>2, <3>3
    <2> QED  BY <2>1 DEF AccountInv, AccountOK
  <1>10. PhaseInv'
    <2> SUFFICES ASSUME NEW v \in Worker
                 PROVE  /\ post.status \in Editable =>
                              \A a \in Account :
                                 \/ claims'[v][a].pc = "none"
                                 \/ claims'[v][a].pc = "prepare" /\ workers'[v].phase = "announce"
                        /\ workers'[v].phase = "announce" => post.status # "draft"
      BY <1>2 DEF PhaseInv
    <2>1. CASE v # w
      BY <1>3, <1>5, <2>1 DEF PhaseInv
    <2>2. CASE v = w
      <3>1. NoClaim.pc = "none"
        BY DEF NoClaim
      <3>2. workers'[w].phase = "announce" => post.status # "draft"
        BY <1>3, <1>4
      <3> QED  BY <1>3, <1>5, <2>2, <3>1, <3>2
    <2> QED  BY <2>1, <2>2
  <1>11. \A a \in Account :
            \/ targets'[a].status = targets[a].status
            \/ /\ targets[a].status \in OpenStatus /\ targets'[a].status \in OpenStatus
               /\ post.status \notin {"draft", "deleted"}
    BY <1>4, <1>5 DEF OpenStatus
  <1>12. EditInv'
    <2>1. \A a \in Account : targets[a].status \in OpenStatus => targets'[a].status \in OpenStatus
      BY <1>11
    <2>2. \A a \in Account : ~targets[a].dispatched /\ targets[a].status # "published"
                             => ~targets'[a].dispatched /\ targets'[a].status # "published"
      BY <1>5
    <2> QED  BY <1>2, <2>1, <2>2 DEF EditInv
  <1>13. PostMatchesTargets'
    BY <1>2, <1>11, MatchesKept
  <1> QED
    BY <1>7, <1>8, <1>9, <1>10, <1>12, <1>13

(* The second transaction of a claim takes the post out of the user's      *)
(* hands.                                                                  *)
LEMMA AnnounceStep ==
    ASSUME IndInv, NEW w \in Worker, Announce(w)
    PROVE  IndInv'
  <1> USE Types DEF IndInv
  <1>1. /\ workers[w].phase = "announce" /\ Goes(w, "process")
        /\ UNCHANGED <<targets, visible, claims, edits>>
        /\ post' = PostWithStatus(IF post.status = "scheduled" THEN "publishing" ELSE post.status)
    BY DEF Announce
  <1>2. post.status # "draft"
    BY <1>1 DEF PhaseInv
  <1>3. /\ post'.status = IF post.status = "scheduled" THEN "publishing" ELSE post.status
        /\ post' \in [status : PostStatus, due : Int]
    BY <1>1 DEF PostWithStatus, Never, TypeOK, PostStatus
  <1>4. TypeOK'
    <2>1. workers' \in [Worker -> Process]
      BY <1>1 DEF Goes, TypeOK, Process
    <2> QED  BY <1>1, <1>3, <2>1 DEF TypeOK
  <1>5. AttemptInv' /\ AccountInv'
    <2>1. AttemptInv'
      BY <1>1 DEF AttemptInv
    <2>2. \A a \in Account : AccountOK(a) /\ SameRow(a) /\ SameClaims(a)
      BY <1>1 DEF AccountInv, AccountOK, SameRow, SameClaims
    <2>3. \A a \in Account : AccountOK(a)'
      BY <2>2, QuietAccount
    <2> QED  BY <2>1, <2>3 DEF AccountInv, AccountOK
  <1>6. PhaseInv' /\ EditInv'
    BY <1>2, <1>3, LateStep DEF Editable
  <1>7. PostMatchesTargets'
    <2>1. CASE post.status = "scheduled"
      <3>1. \E a \in Account : targets[a].status \in OpenStatus
        BY <2>1, OpenTarget
      <3> QED  BY <1>1, <1>3, <2>1, <3>1 DEF PostMatchesTargets, Live, Present
    <2>2. CASE post.status # "scheduled"
      BY <1>1, <1>3, <2>2, MatchesKept
    <2> QED  BY <2>1, <2>2
  <1> QED
    BY <1>4, <1>5, <1>6, <1>7

-----------------------------------------------------------------------------
(* A claim in process. *)

(* A claim in process goes on, and what changes is its account.            *)
LEMMA ClaimGoesOn ==
    ASSUME IndInv, NEW w \in Worker, NEW a \in Account, NEW c \in Claim,
           workers[w].phase = "process", claims[w][a].pc # "none",
           claims' = [claims EXCEPT ![w][a] = c],
           UNCHANGED <<post, workers, edits>>,
           targets' \in [Account -> Target], visible' \in [Account -> Nat],
           \A b \in Account : b # a => targets'[b] = targets[b] /\ visible'[b] = visible[b],
           targets'[a].status = targets[a].status,
           targets'[a].attempts = targets[a].attempts,
           AccountOK(a)'
    PROVE  IndInv'
  <1> USE Types DEF IndInv
  <1>1. /\ claims' \in [Worker -> [Account -> Claim]]
        /\ \A v \in Worker, b \in Account : v # w \/ b # a => claims'[v][b] = claims[v][b]
    BY ClaimChange
  <1>2. \A b \in Account : /\ targets'[b].status = targets[b].status
                           /\ targets'[b].attempts = targets[b].attempts
    OBVIOUS
  <1>3. TypeOK'
    BY <1>1, <1>2 DEF TypeOK
  <1>4. AttemptInv'
    BY <1>2 DEF AttemptInv
  <1>5. AccountInv'
    <2>1. ASSUME NEW b \in Account, b # a PROVE AccountOK(b)'
      <3>1. AccountOK(b) /\ SameRow(b) /\ SameClaims(b)
        BY <1>1, <2>1 DEF AccountInv, AccountOK, SameRow, SameClaims
      <3> QED  BY <3>1, QuietAccount
    <2> QED  BY <2>1 DEF AccountInv, AccountOK
  <1>6. PhaseInv' /\ EditInv'
    BY ClaimIsLate, LateStep
  <1>7. PostMatchesTargets'
    BY <1>2, MatchesKept
  <1> QED
    BY <1>3, <1>4, <1>5, <1>6, <1>7

(* A claim in process is given up.                                         *)
LEMMA DropStep ==
    ASSUME IndInv, NEW w \in Worker, NEW a \in Account,
           workers[w].phase = "process", claims[w][a].pc # "none", Drop(w, a),
           UNCHANGED <<post, targets, visible, workers, edits>>
    PROVE  IndInv'
  <1>1. TypeOK' /\ \A b \in Account : SameRow(b) /\ SameClaims(b)
    BY DropShape DEF IndInv, TypeOK, SameRow
  <1>2. PhaseInv' /\ EditInv'
    BY ClaimIsLate, LateStep DEF IndInv
  <1> QED
    BY <1>1, <1>2, RowsKept DEF IndInv

(* An answer is a claim like the one it ends, but for what it says.        *)
LEMMA AnswerShape ==
    ASSUME TypeOK, NEW w \in Worker, NEW a \in Account,
           NEW outcome \in Failure \cup {"published"}, Answer(w, a, outcome)
    PROVE  \E c \in Claim :
              /\ claims' = [claims EXCEPT ![w][a] = c]
              /\ c.pc = "finalize" /\ c.outcome = outcome
              /\ c.row = claims[w][a].row /\ c.attempt = claims[w][a].attempt
  <1> DEFINE c == [claims[w][a] EXCEPT !.pc = "finalize", !.outcome = outcome]
  <1>1. claims[w][a] \in Claim
    BY Types
  <1>2. /\ c \in Claim /\ c.pc = "finalize" /\ c.outcome = outcome
        /\ c.row = claims[w][a].row /\ c.attempt = claims[w][a].attempt
    BY <1>1 DEF Claim
  <1>3. claims' = [claims EXCEPT ![w][a] = c]
    BY <1>1 DEF Answer, TypeOK, Claim
  <1> QED
    BY <1>2, <1>3

(* Preparing a claim, its failure or the loss of the row.                  *)
LEMMA PrepareStep ==
    ASSUME IndInv, NEW w \in Worker, NEW a \in Account, Prepare(w, a)
    PROVE  IndInv'
  <1> USE DEF IndInv
  <1>1. /\ workers[w].phase = "process" /\ claims[w][a].pc = "prepare"
        /\ UNCHANGED <<post, targets, visible, workers, edits>>
    BY DEF Prepare, Reaches
  <1>2. CASE Drop(w, a)
    BY <1>1, <1>2, DropStep
  <1>3. ASSUME NEW c \in Claim, claims' = [claims EXCEPT ![w][a] = c],
               c.pc \in {"dispatch", "finalize"},
               c.row = claims[w][a].row, c.attempt = claims[w][a].attempt,
               c.pc = "finalize" => c.outcome # "published"
        PROVE  IndInv'
    <2>1. claims'[w][a] = c /\ OtherClaims(w, a)
      BY <1>3, ClaimChange DEF OtherClaims
    <2>2. AccountOK(a)
      BY DEF AccountInv, AccountOK
    <2>3. AccountOK(a)'
      BY <1>1, <1>3, <2>1, <2>2, PreparedAccount
    <2> QED  BY <1>1, <1>3, <2>3, ClaimGoesOn DEF TypeOK
  <1>4. CASE claims' = [claims EXCEPT ![w][a].pc = "dispatch"]
    <2> DEFINE c == [claims[w][a] EXCEPT !.pc = "dispatch"]
    <2>1. claims[w][a] \in Claim
      BY Types
    <2>2. /\ c \in Claim /\ c.pc = "dispatch"
          /\ c.row = claims[w][a].row /\ c.attempt = claims[w][a].attempt
      BY <2>1 DEF Claim
    <2>3. claims' = [claims EXCEPT ![w][a] = c]
      BY <1>4
    <2> HIDE DEF c
    <2> QED  BY <1>3, <2>2, <2>3
  <1>5. ASSUME NEW failure \in Failure, Answer(w, a, failure) PROVE IndInv'
    <2>1. failure # "published"
      BY DEF Failure
    <2>2. PICK c \in Claim :
              /\ claims' = [claims EXCEPT ![w][a] = c]
              /\ c.pc = "finalize" /\ c.outcome = failure
              /\ c.row = claims[w][a].row /\ c.attempt = claims[w][a].attempt
      BY <1>5, AnswerShape
    <2> QED  BY <1>3, <2>1, <2>2
  <1> QED
    BY <1>2, <1>4, <1>5 DEF Prepare

(* The mark before the call.                                               *)
LEMMA MarkStep ==
    ASSUME IndInv, NEW w \in Worker, NEW a \in Account, mark_dispatch_started(w, a)
    PROVE  IndInv'
  <1> USE DEF IndInv
  <1>1. /\ workers[w].phase = "process" /\ claims[w][a].pc = "dispatch"
        /\ UNCHANGED <<post, visible, workers, edits>>
    BY DEF mark_dispatch_started, Reaches
  <1>2. CASE Drop(w, a) /\ UNCHANGED targets
    BY <1>1, <1>2, DropStep
  <1>3. CASE /\ Holds(w, a)
             /\ targets' = [targets EXCEPT ![a].dispatched = TRUE]
             /\ claims' = [claims EXCEPT ![w][a].pc = "call"]
    <2> DEFINE c == [claims[w][a] EXCEPT !.pc = "call"]
               t == [targets[a] EXCEPT !.dispatched = TRUE]
    <2>1. claims[w][a] \in Claim /\ targets[a] \in Target
      BY Types
    <2>2. c \in Claim /\ c.pc = "call" /\ c.row = claims[w][a].row
      BY <2>1 DEF Claim
    <2>3. /\ t \in Target /\ t.dispatched /\ t.status = targets[a].status
          /\ t.row = targets[a].row /\ t.owner = targets[a].owner
          /\ t.attempts = targets[a].attempts
      BY <2>1 DEF Target
    <2>4. claims' = [claims EXCEPT ![w][a] = c] /\ targets' = [targets EXCEPT ![a] = t]
      BY <1>3
    <2> HIDE DEF c, t
    <2>5. claims'[w][a] = c /\ OtherClaims(w, a)
      BY <2>2, <2>4, ClaimChange DEF OtherClaims
    <2>6. /\ targets' \in [Account -> Target] /\ targets'[a] = t
          /\ \A b \in Account : b # a => targets'[b] = targets[b]
      BY <2>3, <2>4 DEF TypeOK
    <2>7. AccountOK(a)
      BY DEF AccountInv, AccountOK
    <2>8. AccountOK(a)'
      BY <1>1, <1>3, <2>2, <2>3, <2>5, <2>6, <2>7, MarkedAccount
    <2> QED  BY <1>1, <2>2, <2>3, <2>4, <2>6, <2>8, ClaimGoesOn DEF TypeOK
  <1> QED
    BY <1>2, <1>3 DEF mark_dispatch_started

(* The call.                                                               *)
LEMMA CallStep ==
    ASSUME IndInv, NEW w \in Worker, NEW a \in Account, Call(w, a)
    PROVE  IndInv'
  <1> USE DEF IndInv
  <1>1. /\ workers[w].phase = "process" /\ claims[w][a].pc = "call"
        /\ UNCHANGED <<post, targets, workers, edits>>
    BY DEF Call, Reaches
  <1>2. PICK outcome \in Failure \cup {"published"} :
          /\ Answer(w, a, outcome)
          /\ \/ /\ visible' = [visible EXCEPT ![a] = visible[a] + 1]
                /\ outcome # "transient"
             \/ visible' = visible /\ outcome # "published"
    BY DEF Call, Failure
  <1>3. PICK c \in Claim :
              /\ claims' = [claims EXCEPT ![w][a] = c]
              /\ c.pc = "finalize" /\ c.outcome = outcome
              /\ c.row = claims[w][a].row /\ c.attempt = claims[w][a].attempt
    BY <1>2, AnswerShape
  <1>4. claims'[w][a] = c /\ OtherClaims(w, a)
    BY <1>3, ClaimChange DEF OtherClaims
  <1>5. /\ visible' \in [Account -> Nat]
        /\ \A b \in Account : b # a => visible'[b] = visible[b]
        /\ \/ visible'[a] = visible[a] + 1 /\ outcome # "transient"
           \/ visible'[a] = visible[a] /\ outcome # "published"
    BY <1>2 DEF TypeOK
  <1>6. AccountOK(a)
    BY DEF AccountInv, AccountOK
  <1>7. AccountOK(a)'
    BY <1>1, <1>3, <1>4, <1>5, <1>6, CalledAccount
  <1> QED
    BY <1>1, <1>3, <1>5, <1>7, ClaimGoesOn DEF TypeOK

(* The outcome is recorded by the holder; anyone else's is forgotten.      *)
LEMMA FinalizeStep ==
    ASSUME IndInv, NEW w \in Worker, NEW a \in Account, finalize(w, a)
    PROVE  IndInv'
  <1> USE Types DEF IndInv
  <1>1. /\ workers[w].phase = "process" /\ claims[w][a].pc = "finalize"
        /\ Drop(w, a) /\ UNCHANGED <<visible, workers, edits>>
    BY DEF finalize, Reaches
  <1>2. CASE UNCHANGED <<post, targets>>
    BY <1>1, <1>2, DropStep
  <1> DEFINE outcome == claims[w][a].outcome
             t == Outcome(targets[a], outcome)
             ts == [targets EXCEPT ![a] = t]
  <1>3. CASE Holds(w, a) /\ Refresh(ts)
    <2>1. targets[a].status = "publishing" /\ targets[a].attempts \in Nat
      BY <1>3 DEF Holds, Target
    <2>2. /\ t \in Target
          /\ t.attempts = targets[a].attempts
          /\ \/ t = Failed(targets[a])
             \/ outcome = "published" /\ t.status = "published"
             \/ /\ outcome = "transient" /\ targets[a].attempts < MaxAttempts
                /\ t.status = "retry_wait" /\ ~t.dispatched
      BY <2>1, OutcomeCases
    <2>3. /\ Failed(targets[a]).status = "failed" /\ Failed(targets[a]).row = targets[a].row
          /\ Failed(targets[a]).dispatched = targets[a].dispatched
      BY FailedType
    <2> HIDE DEF t
    <2>4. /\ ts \in [Account -> Target] /\ ts[a] = t
          /\ \A b \in Account : b # a => ts[b] = targets[b]
      BY <2>2 DEF TypeOK
    <2>5. Refresh(ts)
      BY <1>3
    <2> HIDE DEF ts
    <2>6. Present(ts) # {} /\ post.status \notin Editable
      BY <1>1, <2>2, <2>3, <2>4, ClaimIsLate DEF Present
    <2>7. post.status \notin {"draft", "deleted"}
      BY <2>1 DEF PostMatchesTargets
    <2>8. /\ targets' = ts /\ post' \in [status : PostStatus, due : Int]
          /\ PostMatchesTargets' /\ post'.status \notin Editable
      BY <2>4, <2>5, <2>6, <2>7, RefreshStep
    <2>9. claims' \in [Worker -> [Account -> Claim]] /\ \A b \in Account : SameClaims(b)
      BY <1>1, DropShape
    <2>10. TypeOK'
      <3>1. \A b \in Account : targets'[b].attempts <= MaxAttempts + edits'
        BY <1>1, <2>2, <2>4, <2>8 DEF TypeOK
      <3> QED  BY <1>1, <2>4, <2>8, <2>9, <3>1 DEF TypeOK
    <2>11. AttemptInv'
      <3>1. targets'[a].status = "retry_wait" => targets'[a].attempts + 1 <= MaxAttempts + edits'
        BY <1>1, <2>1, <2>2, <2>3, <2>4, <2>8
      <3>2. targets'[a].status # "pending"
        BY <2>2, <2>3, <2>4, <2>8
      <3> QED  BY <1>1, <2>4, <2>8, <3>1, <3>2 DEF AttemptInv
    <2>12. AccountInv'
      <3>1. ASSUME NEW b \in Account PROVE AccountOK(b)'
        <4>1. AccountOK(b) /\ SameClaims(b) /\ visible' = visible
          BY <1>1, <2>9 DEF AccountInv, AccountOK
        <4>2. CASE b # a
          BY <2>4, <2>8, <4>1, <4>2, QuietAccount DEF SameRow
        <4>3. CASE b = a /\ t = Failed(targets[a])
          BY <2>1, <2>3, <2>4, <2>8, <4>1, <4>3, FailedAccount
        <4>4. CASE b = a /\ t # Failed(targets[a])
          BY <1>1, <1>3, <2>2, <2>4, <2>8, <4>1, <4>4, SettledAccount
        <4> QED  BY <4>2, <4>3, <4>4
      <3> QED  BY <3>1 DEF AccountInv, AccountOK
    <2> QED  BY <2>8, <2>10, <2>11, <2>12, LateStep
  <1> QED
    BY <1>2, <1>3 DEF finalize

(* Time passes.                                                            *)
LEMMA TickStep ==
    ASSUME IndInv, Tick
    PROVE  IndInv'
  <1> USE DEF IndInv
  <1>1. UNCHANGED <<visible, workers, claims, edits>>
    BY DEF Tick
  <1>2. post'.status = post.status /\ post' \in [status : PostStatus, due : Int]
    <2>1. (IF post.due > 0 THEN post.due - 1 ELSE post.due) \in Int
      BY DEF TypeOK
    <2> QED  BY <2>1 DEF Tick, TypeOK
  <1>3. ASSUME NEW a \in Account
        PROVE  /\ targets'[a] \in Target /\ SameRow(a) /\ SameClaims(a)
    <2> DEFINE due == IF targets[a].due > 0 THEN targets[a].due - 1 ELSE targets[a].due
               lease == IF targets[a].owner # NoWorker /\ targets[a].lease >= 0
                        THEN targets[a].lease - 1 ELSE targets[a].lease
    <2>1. targets[a] \in Target /\ LeaseSeconds \in Nat
      BY Types
    <2>2. due \in Int /\ lease \in -1..LeaseSeconds
      BY <2>1 DEF Target
    <2>3. targets'[a] = [targets[a] EXCEPT !.due = due, !.lease = lease]
      BY DEF Tick
    <2> HIDE DEF due, lease
    <2>4. targets'[a] \in Target
      BY <2>1, <2>2, <2>3 DEF Target
    <2>5. SameRow(a)
      BY <1>1, <2>1, <2>3 DEF SameRow, Target
    <2> QED  BY <1>1, <2>4, <2>5 DEF SameClaims
  <1>4. targets' \in [Account -> Target]
    BY <1>3 DEF Tick
  <1>5. TypeOK'
    BY <1>1, <1>2, <1>3, <1>4 DEF TypeOK, SameRow
  <1>6. PhaseInv'
    BY <1>1, <1>2, PhaseKept
  <1> QED
    BY <1>1, <1>2, <1>3, <1>5, <1>6, RowsKept

-----------------------------------------------------------------------------
(* The theorems. *)

(* The draft whose targets nobody has looked at.                           *)
LEMMA InitInv ==
    ASSUME Init
    PROVE  IndInv
  <1>1. /\ MaxAttempts \in Nat \ {0} /\ LeaseSeconds \in Nat \ {0} /\ MaxEdits \in Nat
        /\ 0 \in 0..MaxEdits /\ 0 \in -1..LeaseSeconds /\ Never \in Int
    BY PublishingAssumption DEF Never
  <1> DEFINE new == NewTarget(0, Never)
  <1>2. /\ new \in Target /\ new.status = "pending" /\ new.attempts = 0 /\ ~new.dispatched
    BY <1>1 DEF NewTarget, Target, TargetStatus, OpenStatus
  <1>3. NoClaim \in Claim /\ NoClaim.pc = "none"
    BY <1>1 DEF NoClaim, Claim
  <1>4. /\ post = [status |-> "draft", due |-> Never]
        /\ targets = [a \in Account |-> new]
        /\ visible = [a \in Account |-> 0]
        /\ workers = [w \in Worker |-> [phase |-> "process", stale |-> {}]]
        /\ claims = [w \in Worker |-> [a \in Account |-> NoClaim]]
        /\ edits = 0
    BY DEF Init
  <1> HIDE DEF new
  <1>5. TypeOK
    <2>1. [phase |-> "process", stale |-> {}] \in Process
      BY DEF Process
    <2>2. post \in [status : PostStatus, due : Int]
      BY <1>1, <1>4 DEF PostStatus
    <2>3. targets \in [Account -> Target] /\ \A a \in Account : targets[a].attempts = 0
      BY <1>2, <1>4
    <2>4. workers \in [Worker -> Process] /\ claims \in [Worker -> [Account -> Claim]]
      BY <1>3, <1>4, <2>1
    <2>5. visible \in [Account -> Nat] /\ edits \in 0..MaxEdits /\ 0 <= MaxAttempts + edits
      BY <1>1, <1>4
    <2> QED  BY <2>2, <2>3, <2>4, <2>5 DEF TypeOK
  <1>6. AttemptInv
    BY <1>1, <1>2, <1>4 DEF AttemptInv
  <1>7. AccountInv
    <2>1. ASSUME NEW a \in Account, NEW w \in Worker PROVE CallOK(w, a) /\ HoldOK(w, a)
      BY <1>2, <1>3, <1>4 DEF CallOK, HoldOK
    <2>2. ASSUME NEW a \in Account PROVE RowOK(a)
      BY <1>2, <1>4 DEF RowOK
    <2> QED  BY <2>1, <2>2 DEF AccountInv
  <1>8. PhaseInv
    BY <1>3, <1>4 DEF PhaseInv
  <1>9. \E a \in Account : targets[a].status \in OpenStatus
    BY <1>2, <1>4, PublishingAssumption DEF OpenStatus
  <1>10. EditInv
    BY <1>2, <1>4, <1>9 DEF EditInv
  <1>11. PostMatchesTargets
    BY <1>2, <1>4 DEF PostMatchesTargets
  <1> QED
    BY <1>5, <1>6, <1>7, <1>8, <1>10, <1>11 DEF IndInv

(* Every step of the user, of a worker and of time.                        *)
LEMMA NextInv ==
    ASSUME IndInv, [Next]_vars
    PROVE  IndInv'
  <1>1. CASE UserStep
    <2>1. ASSUME NEW chosen \in SUBSET Account, update_post(chosen) PROVE IndInv'
      BY <2>1, UpdateStep
    <2>2. CASE schedule_post
      <3>1. Lead \in Int
        BY DEF Lead
      <3> QED  BY <2>2, <3>1, ArmStep DEF schedule_post
    <2>3. CASE publish_now
      BY <2>3, ArmStep DEF publish_now
    <2>4. CASE cancel_post
      BY <2>4, CancelStep
    <2>5. CASE delete_post
      BY <2>5, DeleteStep
    <2> QED  BY <1>1, <2>1, <2>2, <2>3, <2>4, <2>5 DEF UserStep
  <1>2. ASSUME NEW w \in Worker, CycleStep(w) \/ Crash(w) PROVE IndInv'
    BY <1>2, ReadStaleStep, ClaimStep, AnnounceStep, RecoverStep DEF CycleStep
  <1>3. ASSUME NEW w \in Worker, NEW a \in Account, ProcessStep(w, a) \/ Raise(w, a) PROVE IndInv'
    <2>1. CASE ProcessStep(w, a)
      BY <2>1, PrepareStep, MarkStep, CallStep, FinalizeStep DEF ProcessStep
    <2>2. CASE Raise(w, a)
      BY <2>2, DropStep DEF Raise
    <2> QED  BY <1>3, <2>1, <2>2
  <1>4. CASE Tick
    BY <1>4, TickStep
  <1>5. CASE UNCHANGED vars
    BY <1>5 DEF vars, IndInv, TypeOK, AttemptInv, AccountInv, RowOK, CallOK, HoldOK, Holds,
                PhaseInv, EditInv, PostMatchesTargets, Live, Present
  <1> QED
    BY <1>1, <1>2, <1>3, <1>4, <1>5 DEF Next

(* The inductive invariant holds in every behaviour.                       *)
THEOREM Invariance == Spec => []IndInv
  <1>1. Init => IndInv
    BY InitInv
  <1>2. IndInv /\ [Next]_vars => IndInv'
    BY NextInv
  <1> QED
    BY <1>1, <1>2, PTL DEF Spec

(* Every variable keeps its type, and no target is attempted more often    *)
(* than the budget and the user's operations allow.                        *)
THEOREM TypeCorrect == Spec => []TypeOK
  <1>1. IndInv => TypeOK
    BY DEF IndInv
  <1> QED
    BY <1>1, Invariance, PTL

(* A post appears on an account at most once.                              *)
THEOREM AtMostOnce == Spec => []NeverTwice
  <1>1. IndInv => NeverTwice
    <2> SUFFICES ASSUME IndInv, NEW a \in Account
                 PROVE  /\ visible[a] <= 1
                        /\ targets[a].status \in {"pending", "retry_wait", "canceled"}
                              => visible[a] = 0
                        /\ targets[a].status = "published" => visible[a] = 1
      BY DEF NeverTwice
    <2>1. RowOK(a)
      BY DEF IndInv, AccountInv
    <2> QED  BY <2>1 DEF RowOK, Waiting
  <1> QED
    BY <1>1, Invariance, PTL

(* The post's status is the one its targets add up to.                     *)
THEOREM PostFollowsTargets == Spec => []PostMatchesTargets
  <1>1. IndInv => PostMatchesTargets
    BY DEF IndInv
  <1> QED
    BY <1>1, Invariance, PTL

(* What becomes visible is what the user last saved.                       *)
THEOREM CurrentContent == Spec => PublishesCurrentContent
  <1> DEFINE Good == \A a \in Account : visible'[a] # visible[a] =>
                        /\ targets[a].dispatched
                        /\ targets[a].status \in {"publishing", "failed"}
                        /\ \E w \in Worker : claims[w][a].pc = "call"
                                             /\ claims[w][a].row = targets[a].row
  <1>1. ASSUME IndInv, [Next]_vars PROVE Good
    <2>1. ASSUME visible' = visible PROVE Good
      BY <2>1
    <2>2. ASSUME NEW w \in Worker, NEW a \in Account, Call(w, a) PROVE Good
      <3>1. claims[w][a].pc = "call" /\ visible \in [Account -> Nat]
        BY <1>1, <2>2 DEF Call, Reaches, IndInv, TypeOK
      <3>2. \A b \in Account : b # a => visible'[b] = visible[b]
        BY <2>2, <3>1 DEF Call
      <3>3. CallOK(w, a)
        BY <1>1 DEF IndInv, AccountInv
      <3> QED  BY <3>1, <3>2, <3>3 DEF CallOK
    <2>3. UserStep => visible' = visible
      BY DEF UserStep, update_post, schedule_post, publish_now, cancel_post, delete_post, Arm, Edit
    <2>4. \A w \in Worker : CycleStep(w) \/ Crash(w) => visible' = visible
      BY DEF CycleStep, ReadStale, claim_due, Announce, recover_stale, Crash
    <2>5. \A w \in Worker, a \in Account :
             Prepare(w, a) \/ mark_dispatch_started(w, a) \/ finalize(w, a) \/ Raise(w, a)
             => visible' = visible
      BY DEF Prepare, mark_dispatch_started, finalize, Raise
    <2>6. Tick \/ UNCHANGED vars => visible' = visible
      BY DEF Tick, vars
    <2> HIDE DEF Good
    <2> QED  BY <1>1, <2>1, <2>2, <2>3, <2>4, <2>5, <2>6 DEF Next, ProcessStep
  <1>2. IndInv /\ [Next]_vars => [Good]_vars
    BY <1>1
  <1> QED
    BY <1>2, Invariance, PTL DEF Spec, PublishesCurrentContent

=============================================================================
