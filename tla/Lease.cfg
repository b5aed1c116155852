\* Three processes that may die at any file-system call, and disk faults.
SPECIFICATION FairSpec
CONSTANTS
  l1 = l1
  l2 = l2
  l3 = l3
  p1 = p1
  p2 = p2
  p3 = p3
  None = None
  Leases <- MCLeases
  Pids <- MCPids
  PidOf <- OnePerPid
  CrashPoints <- Everywhere
  DiskFaults = TRUE
INVARIANTS
  MutexUnlessRaced
  NoOvertaking
  NoLeakedLock
 
