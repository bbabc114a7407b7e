SPECIFICATION Spec
CONSTANTS
  Relations = {"r1", "r2"}
  Names <- MCNames
  NoName = ""
  Cols = {"c1", "c2"}
  AllRelations = "*"
  NoEntry = NoEntry
  Statements <- StarStatements
  Catalogs0 <- TableCatalog
  Replacements <- MCReplacements
  MaxDDL = 0
INVARIANTS
  PhysicalRequirementCompleteness
CHECK_DEADLOCK FALSE
