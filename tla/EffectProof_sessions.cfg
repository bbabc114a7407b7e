SPECIFICATION Spec
CONSTANTS
  Symbols = {"eq", "count1", "count0"}
  Namespaces = {"pg_catalog", "public"}
  PgCatalog = "pg_catalog"
  Types = {"int4", "float8"}
  Poly = "any"
  NoArgs = "none"
  NoType = "notype"
  Bodies = {"builtin", "unaudited", "user"}
  NoBody = "nobody"
  Bindings = {"b1", "b2"}
  Roles = {"app", "admin"}
  Pins = {"db16v17", "db16v99"}
  SupportedPins = {"db16v17"}
  Unqualified = "unqualified"
  NoIdent = NoIdent
  NoFact = NoFact
  Manifest <- MCManifest
  Paths <- MCPaths
  Sessions0 <- OneSession
  UserBodies = {"user"}
  LiteralType = "int4"
  Coercible <- MCCoercible
  N = 2
  Shapes <- SessionShapes
  Catalogs0 <- OneCatalog
  UserRoutines <- PublicCount
  MaxDDL = 1
  MaxDrift = 1
  MaxRounds = 1
INVARIANTS
  NoOpenTransaction
  PromotionFromOneSnapshot
  PromotedUnderOneSession
  FaultsFailClosed
PROPERTIES
  ProofEnds
CHECK_DEADLOCK FALSE
