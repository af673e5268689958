CONSTANTS
    Jobs = {j1, j2}
    Ops = {o1, o2, o3}
    Cancels = {o3}
    Retries = {}
    Slots = 2
    Attempts = 3
    NoOne = noOne
SYMMETRY Symmetry
SPECIFICATION Spec
INVARIANTS OneJobPerSlot OccupantHolds NothingLeaks
CHECK_DEADLOCK FALSE
