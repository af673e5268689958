SPECIFICATION CallLiveSpec
CONSTANTS
  c1 = c1
  c2 = c2
  c3 = c3
  Calls = {c1, c2, c3}
  MaxActive = 1
  MaxQueued = 1
  Items <- ItemsOfCalls
INVARIANTS SlotsAreHeld KeptWhileFetched NothingLeftBehind
PROPERTIES NoBarging QueueIsServed
CHECK_DEADLOCK FALSE
