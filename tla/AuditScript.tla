---------------------------- MODULE AuditScript ----------------------------
(***************************************************************************)
(* What the audit makes of a SQL script: the tables its statements target, *)
(* the schema each is looked up in, and the verdict their findings add up  *)
(* to.  A script is a sequence of statements.  A statement is told apart   *)
(* by the kind of work it does, by the table it names, with or without a   *)
(* schema, and by the worst level of the findings the rules raise on its   *)
(* text.  A chunk the parser rejects is a statement with op = "bad"; its   *)
(* level is "notice" when the text looks like PostgreSQL.  Names are equal *)
(* up to case, as the code's lower-cased keys make them.                   *)
(***************************************************************************)
EXTENDS Integers, Sequences, FiniteSets

CONSTANTS Schemas, Tables,
          NoSchema        \* the empty schema name

ASSUME NamesAssumption == /\ IsFiniteSet(Schemas) /\ IsFiniteSet(Tables)
                          /\ NoSchema \notin Schemas

Dialects == {"mysql", "tidb", "postgresql"}
MySQLCompatible(dialect) == dialect \in {"mysql", "tidb"}

Operations == {"create", "alter", "dml", "index", "object", "unsupported", "bad"}
Levels == {"none", "notice", "warning", "blocker"}
Verdicts == {"none", "pass", "review", "reject"}

Statement == [op : Operations, schema : Schemas \cup {NoSchema},
              table : Tables, level : Levels]

(* CREATE, ALTER, DROP and TRUNCATE TABLE and the DML statements target a   *)
(* table; a standalone index statement does only through its owner.         *)
TableBacked(statement) == statement.op \in {"create", "alter", "dml"}

Parsed(script) == {i \in DOMAIN script : script[i].op # "bad"}
Failures(script) == DOMAIN script \ Parsed(script)
Unsupported(script) == {i \in DOMAIN script : script[i].op = "unsupported"}
Audited(script) == Parsed(script) \ Unsupported(script)

(***************************************************************************)
(* Schema inference looks at each target once, in order of appearance, and *)
(* needs it to exist as soon as one statement other than CREATE TABLE      *)
(* names it.                                                               *)
(***************************************************************************)
SameTarget(a, b) == TableBacked(a) /\ TableBacked(b)
                    /\ a.schema = b.schema /\ a.table = b.table

NewTarget(script, i) ==
  TableBacked(script[i]) /\ \A j \in 1..(i - 1) : ~SameTarget(script[i], script[j])

RequiresExisting(script, i) ==
  \E j \in DOMAIN script : SameTarget(script[i], script[j]) /\ script[j].op # "create"

(* The schema a statement's table is loaded from: its own qualifier only    *)
(* for MySQL and TiDB DML, the schema of the request otherwise.             *)
MetadataTargetSchema(dialect, requested, statement) ==
  IF MySQLCompatible(dialect) /\ statement.op = "dml" /\ statement.schema # NoSchema
  THEN statement.schema
  ELSE requested

(* The schema the owner of a standalone index is looked up in. *)
IndexSchema(requested, statement) ==
  IF statement.schema # NoSchema THEN statement.schema ELSE requested

Aggregate(levels) ==
  CASE "blocker" \in levels -> "reject"
    [] "blocker" \notin levels /\ "warning" \in levels -> "review"
    [] OTHER -> "pass"

(* A MySQL or TiDB DML statement whose target is loaded as absent is        *)
(* blocked, at the default level of that rule.  missing is the set of       *)
(* statements loaded so.                                                    *)
ExistenceBlocks(script, dialect, missing) ==
  MySQLCompatible(dialect) /\ \E i \in missing : script[i].op = "dml"

FindingVerdict(script, dialect, missing) ==
  Aggregate({script[i].level : i \in Audited(script)}
            \cup IF ExistenceBlocks(script, dialect, missing) THEN {"blocker"} ELSE {})

PossibleMismatch(script, dialect) ==
  MySQLCompatible(dialect) /\ \E i \in Failures(script) : script[i].level = "notice"

(* A script part of which was not audited is never passed: the floor is     *)
(* applied after the dialect notices, each of which aggregates anew.        *)
BugFloorBeforeNotices(script, dialect, missing) ==
  LET verdict == FindingVerdict(script, dialect, missing) IN
  IF verdict = "pass" /\ ~PossibleMismatch(script, dialect)
     /\ (Failures(script) # {} \/ Unsupported(script) # {})
  THEN "review" ELSE verdict

FinalVerdict(script, dialect, missing) ==
  LET verdict == FindingVerdict(script, dialect, missing) IN
  IF verdict = "pass" /\ (Failures(script) # {} \/ Unsupported(script) # {})
  THEN "review" ELSE verdict

UnparsedVerdict(script, dialect) ==
  IF PossibleMismatch(script, dialect) THEN "review" ELSE "none"

FinalError(script) ==
  CASE Failures(script) # {} -> "parser"
    [] Failures(script) = {} /\ Unsupported(script) # {} -> "unsupported"
    [] OTHER -> "none"

FinalDiagnostics(script) ==
  (IF Failures(script) # {} THEN {"parser_error"} ELSE {})
  \cup (IF Unsupported(script) # {} THEN {"unsupported_statement"} ELSE {})
=============================================================================
