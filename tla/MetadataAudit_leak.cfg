SPECIFICATION Spec
CONSTANTS
  Schemas = {"app", "ops"}
  Tables = {"t"}
  NoSchema = "unset"
  Jobs <- AllJobs
  Catalogs0 <- MCCatalogs
  MaxDDL = 0
INVARIANTS
  ClientsReleased
CHECK_DEADLOCK FALSE
