SPECIFICATION Spec
CONSTANTS
  Schemas = {"app", "ops"}
  Tables = {"t"}
  NoSchema = "unset"
  Jobs <- AllJobs
  Catalogs0 <- MCCatalogs
  MaxDDL = 2
INVARIANTS
  TypeOK
  DetectedClientsReleased
  InferredSchemaWitnessed
  SnapshotOfNamedTable
  PassIsEarned
  FaultsFailAudit
PROPERTIES
  AuditEnds
CHECK_DEADLOCK FALSE
