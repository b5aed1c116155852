SPECIFICATION HandoffSpec
CONSTANTS
  TestJobs = {j1, j2}
  Settlers = {c1, c2}
SYMMETRY MCSymmetry
INVARIANTS
  ExclusiveInstallation
  RestoredOrOwed
