SPECIFICATION Spec
CONSTANTS
  Symbols = {"eq", "count1", "count0"}
  Namespaces = {"pg_catalog", "public"}
  PgCatalog = "pg_catalog"
  Types = {"int4", "float8"}
  Poly = "any"
  NoArgs = "none"
  NoType = "notype"
  Bodies = {"builtin", "unaudited", "user"}
  NoBody = "nobody"
  Bindings = {"b1", "b2"}
  Roles = {"app", "admin"}
  Pins = {"db16v17", "db16v99"}
  SupportedPins = {"db16v17"}
  Unqualified = "unqualified"
  NoIdent = NoIdent
  NoFact = NoFact
  Manifest <- MCManifest
  Paths <- MCPaths
  Sessions0 <- OneSession
  UserBodies = {"user"}
  LiteralType = "int4"
  Coercible <- MCCoercible
  N = 1
  Shapes <- CountShapes
  Catalogs0 <- OverloadCatalog
  UserRoutines <- NoRoutine
  MaxDDL = 0
  MaxDrift = 0
  MaxRounds = 0
INVARIANTS
  CountRunsAudited
CHECK_DEADLOCK FALSE
