SPECIFICATION Spec
CONSTANTS
  Owners = {"a", "q"}
  NoTarget = NoTarget
  NoConnection = NoConnection
  NoSecret = NoSecret
  NoPrincipal = NoPrincipal
  Configs <- MCConfigs
  Workloads <- MCWorkloads
  Servers <- MCServers
  Linked = {"mysql-8.0", "tidb-8.5"}
INVARIANTS
  TypeOK
  HandlerReleases
  WorkerCleansUp
  AccessPermitted
  SessionOfItsServer
  CleanExitDrained
PROPERTIES
  WorkersEnd
  ShutdownEnds
  ImplementsRequestContract
CHECK_DEADLOCK FALSE
