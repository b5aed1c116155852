\* Everything may happen: crashes, edits, other updates of the session.
SPECIFICATION Spec
CONSTANTS
  first = first
  second = second
  Iterations <- MCIterationIds
  None = None
  Crashes = TRUE
  MaxEdits = 1
  MaxSession = 2
INVARIANTS
  ActiveOwnsTarget
  NothingRunsOn
PROPERTIES
  RollbackRestores
  AcceptedIsTested
CHECK_DEADLOCK FALSE
SYMMETRY MCSymmetry
