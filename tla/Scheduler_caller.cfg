CONSTANTS
    Lanes = {l1}
    NativeLanes = {l1}
    Length = 1
    StopOnFailure = TRUE
    Runners = {r1}
    Callers = {c1}
    Kinds = {"runDue", "reconcile", "poll", "retryFailed"}
    MaxPolls = 1
    MaxRevision = 1
    MaxRetries = 1
    RetryOutlivesLease = FALSE
    NoOne = noOne
    Gone = gone
SYMMETRY CallSymmetry
SPECIFICATION Spec
INVARIANTS OneCopy SettledIsTrue CompletedIsOver
PROPERTIES ProgressIsFenced
CHECK_DEADLOCK FALSE
