CONSTANTS
    Jobs = {j1, j2}
    Ops = {o1, o2, o3, o4}
    Cancels = {}
    Retries = {o4}
    Slots = 1
    Attempts = 1
    NoOne = noOne
SYMMETRY Symmetry
SPECIFICATION Spec
INVARIANTS OneJobPerSlot
CHECK_DEADLOCK FALSE
