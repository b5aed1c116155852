\* Slow holders included: what a robbed lock breaks is excepted by the properties.
SPECIFICATION Spec
CONSTANTS
  create = create
  accept = accept
  retry = retry
  edit = edit
  opA = opA
  NoOperation = NoOperation
  NoCall = NoCall
  Calls <- MCCalls
  Creators = {create}
  Operations = {opA}
  OperationOf <- MCOperationOf
  MaxRevision = 3
  Slow = TRUE
INVARIANTS
  ChainIntact
  AppliedOnce
PROPERTIES
  KeepsRegister
CHECK_DEADLOCK FALSE
