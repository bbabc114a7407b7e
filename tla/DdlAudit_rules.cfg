SPECIFICATION Spec
CONSTANTS
  Conforming <- MCConforming
  Requests <- MCRequests
INVARIANTS
  TypeOK
  NothingUnnoticed
  NotValidReported
  ForeignKeysReviewed
CHECK_DEADLOCK FALSE
