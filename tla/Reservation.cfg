\* Racing callers that may die, and runs that may be removed.
SPECIFICATION Spec
CONSTANTS
  c1 = c1
  c2 = c2
  c3 = c3
  c4 = c4
  opA = opA
  opB = opB
  smoke = smoke
  validation = validation
  Calls <- MCCalls
  Operations <- MCOperations
  Requests <- MCRequests
  OpOf <- MCOpOf
  ReqOf <- MCReqOf
  None = None
  Conflict = Conflict
  Crashes = TRUE
  Retention = TRUE
  MaxExecutions = 2
INVARIANTS
  ExecutedOnceWhileKept
  AnsweredRunIsComplete
PROPERTIES
  KeepsPromise
  NoRestart
