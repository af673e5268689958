SPECIFICATION HandlersSpec
CONSTANTS
  Ops = {o1, o2, o3}
  Kinds = {"discover", "select", "complete", "revoke"}
  Accounts = {a1, a2}
  Revocable = {a1}
  Tries = 2
  Faults = 1
SYMMETRY Symmetric
INVARIANTS PickersAgree OneWinner RevokedOnce ForgottenIsConsumed ActiveIsGranted RevokedBeforeRemoved
PROPERTIES OneUseAttempt
CHECK_DEADLOCK FALSE
