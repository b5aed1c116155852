SPECIFICATION FairSpec
CONSTANTS
  Starters = {s1, s2}
  Cancellers = {c1, c2}
  CrashPoints <- AllSteps
  RaisePoints <- AllRaises
  StarterFails = TRUE
  RestoreFails = TRUE
INVARIANTS
  OneWorker
  StoppedUnlessStale
  CancelIsHonoured
  ResultUnlessStale
PROPERTIES
  TerminalIsFinal
  CancelSettles
