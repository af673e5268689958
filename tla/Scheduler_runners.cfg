CONSTANTS
    Lanes = {l1}
    NativeLanes = {}
    Length = 1
    StopOnFailure = TRUE
    Runners = {r1, r2}
    Callers = {c1}
    Kinds = {"runDue", "retryFailed"}
    MaxPolls = 1
    MaxRevision = 0
    MaxRetries = 1
    RetryOutlivesLease = FALSE
    NoOne = noOne
    Gone = gone
SYMMETRY CallSymmetry
SPECIFICATION Spec
INVARIANTS CancelledIsQuiet
PROPERTIES FenceHolds KeysAreKept
CHECK_DEADLOCK FALSE
