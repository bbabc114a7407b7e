SPECIFICATION Spec
CONSTANTS
  Conforming <- MCConforming
  Requests <- SubscriptionRequests
INVARIANT
  DisablingWarned
CHECK_DEADLOCK FALSE
