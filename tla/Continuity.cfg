SPECIFICATION FairSpec
CONSTANTS
  assign = assign
  start = start
  mark = mark
  mend = mend
  d1 = d1
  Delegation = {d1}
  Appends = {assign, start}
  Checkpoints = {mark}
  Reconciles = {mend}
  Operations = {assign, start, mark}
  OperationOf <- MCOperationOf
  RequestOf <- MCRequestOf
  Mortal = {start}
  MaxRaces = 1
  None = None
INVARIANTS
  ManifestsFollow
  LegalWhereItStands
PROPERTIES
  KeepsLog
  HeadOnlyForward
  Heals
CHECK_DEADLOCK FALSE
