SPECIFICATION Spec
CONSTANTS
  Relations = {"r1", "r2"}
  Names <- MCNames
  NoName = ""
  Cols = {"c1", "c2"}
  AllRelations = "*"
  NoEntry = NoEntry
  Statements <- MCStatements
  Catalogs0 <- MCCatalogs
  Replacements <- MCReplacements
  MaxDDL = 2
INVARIANTS
  TypeOK
  CompleteBeforeDeadline
  AdmittedReadsTables
  AdmittedColumnsExist
  ReportCoversReads
  AdmittedCoversReads
  QuietAnalysisAdmits
PROPERTIES
  AnalysisEnds
CHECK_DEADLOCK FALSE
