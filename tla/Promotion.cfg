SPECIFICATION Spec
CONSTANTS
  job = job
  matrix = matrix
  scan = scan
  r1 = r1
  r2 = r2
  checkJob = checkJob
  attestJob = attestJob
  ship = ship
  shipAgain = shipAgain
  checkMatrix = checkMatrix
  attestMatrix = attestMatrix
  promote = promote
  promoteAgain = promoteAgain
  checkScan = checkScan
  attestScan = attestScan
  package = package
  None = None
  Subjects = {job, matrix, scan}
  Revision = {r1, r2}
  First = r1
  Calls = {checkJob, attestJob, ship, shipAgain, checkMatrix, attestMatrix, promote, promoteAgain, checkScan, attestScan, package}
  StageOf <- MCStageOf
  WorkOf <- MCWorkOf
  SubjectOf <- MCSubjectOf
  SourceOf <- MCSourceOf
  Tested <- MCTested
  Perishable = {matrix}
  Mortal = {promote}
  MaxCommits = 3
INVARIANTS
  ReleaseIsTested
  ForwardIsEarned
  PackageStands
  PromotesInPlace
  CandidateOfForward
CHECK_DEADLOCK FALSE
