\* An owner who wants out, with crashes; nobody else touches the source or the session.
SPECIFICATION FairSpec
CONSTANTS
  first = first
  second = second
  Iterations = {first}
  None = None
  Crashes = TRUE
  MaxEdits = 0
  MaxSession = 1
PROPERTIES
  GetsOut
CHECK_DEADLOCK FALSE
