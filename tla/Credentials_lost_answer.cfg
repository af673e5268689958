SPECIFICATION Spec
CONSTANTS
  Ops = {o1, o2}
  NoOp = NoOp
  Kinds = {"resolve"}
  Revokers = {}
  Faults = 0
  Hook = "refreshOAuthToken"
SYMMETRY Symmetric
INVARIANTS PresentedOnce

CHECK_DEADLOCK FALSE
