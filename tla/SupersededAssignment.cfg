SPECIFICATION Spec
CONSTANTS
  Delegation = {d1, d2}
  MaxEvents = 4
INVARIANT ReplaysClean
CHECK_DEADLOCK FALSE
