\* One account, two worker processes that may die, four operations of the user.
SPECIFICATION Spec
CONSTANTS
    Account = {a1}
    Worker = {w1, w2}
    NoWorker = NoWorker
    LeaseSeconds = 1
    MaxAttempts = 2
    Backoff = 1
    ClaimLimit = 1
    MaxEdits = 4
INVARIANTS
    TypeOK
    NeverTwice
    PostMatchesTargets
PROPERTIES
    PublishesCurrentContent
    TargetsSettle
