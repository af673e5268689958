CONSTANTS
    Lanes = {l1}
    NativeLanes = {}
    Length = 2
    StopOnFailure = TRUE
    Runners = {r1}
    Callers = {c1}
    Kinds = {"runDue"}
    MaxPolls = 1
    MaxRevision = 1
    MaxRetries = 0
    RetryOutlivesLease = FALSE
    NoOne = noOne
    Gone = gone
SPECIFICATION LiveSpec
INVARIANTS InOrder
PROPERTIES NeverStalls InterruptedIsRecovered
CHECK_DEADLOCK FALSE
