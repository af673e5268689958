SPECIFICATION LiveSpec
CONSTANTS
  Ops = {o1, o2}
  NoOp = NoOp
  Kinds = {"resolve", "rotate", "revoke", "save", "delete"}
  Revokers = {o1}
  Faults = 1
  Hook = "contract"
INVARIANTS PresentedOnce UnmarkedIsLive
PROPERTIES NothingOverwritten RefreshEnds
CHECK_DEADLOCK FALSE
