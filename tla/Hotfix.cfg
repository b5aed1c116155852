\* A bundle, single writes and restores, and the bridge stopping anywhere.
SPECIFICATION Spec
CONSTANTS
  Files = {f1, f2}
  Callers = {bundle, client}
  Hotfixers = {bundle}
  Base = base
  MaxMutations = 3
  MaxCheckpoints = 2
  MaxWrites = 4
SYMMETRY Symmetry
INVARIANTS Recoverable
PROPERTIES AllOrNothing OverwritesKnown
CHECK_DEADLOCK FALSE
