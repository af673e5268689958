CONSTANTS
    Targets = {t1}
    Calls = {c1, c2, c3}
    Fingerprints = {f1, f2}
    RetryIds = {r1, r2}
    Original = original
    None = none
SYMMETRY CallSymmetry
SPECIFICATION Spec
INVARIANTS RetryableMeansDead RetryOutcomeNeverDropped
PROPERTIES SettledOnlyReopenedByRetry ImplementsAtMostOnce ImplementsKeyedTargets
CHECK_DEADLOCK FALSE
