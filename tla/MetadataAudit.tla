--------------------------- MODULE MetadataAudit ---------------------------
(***************************************************************************)
(* One metadata-aware audit: Prepare opens a client, detects the dialect   *)
(* and settles the schema; Service.Audit loads a snapshot of each target   *)
(* table and evaluates the script; the HTTP handler answers with the       *)
(* result or with a timeout, whichever it sees first.  Every query is an   *)
(* action of its own, and none runs in a transaction: other sessions       *)
(* change tables between any two, queries fail, and the deadline of the    *)
(* request passes at any point, after which every query fails.             *)
(*                                                                         *)
(* The version of a table stands for its columns, constraints and          *)
(* indexes; 0 is a table that does not exist.  Object lookups and planner  *)
(* estimates never fail an audit, and their outcome is part of the level   *)
(* a statement of the script is given.                                     *)
(***************************************************************************)
EXTENDS AuditScript

CONSTANTS Jobs,        \* the requests considered
          Catalogs0,   \* the catalogs a request may find
          MaxDDL       \* changes of tables during the audit

Keys == Schemas \X Tables
Catalog == [Keys -> 0..(Cardinality(Keys) + MaxDDL)]

(* configured is the dialect of the request or of its connection, mysqlAt   *)
(* and pgAt what answers at the two ports: without a port the drivers go    *)
(* to 3306 and 5432, which need not be the same server.                     *)
Job == [configured : Dialects \cup {"none"}, mysqlAt : {"none", "mysql", "tidb"},
        pgAt : BOOLEAN, schema : Schemas \cup {NoSchema},
        database : Schemas \cup {NoSchema}, script : Seq(Statement), http : BOOLEAN]

ASSUME ConstantsAssumption == /\ Jobs \subseteq Job
                              /\ Catalogs0 \subseteq [Keys -> 0..Cardinality(Keys)]
                              /\ MaxDDL \in Nat

VARIABLES catalog, ddl, ctxDone,           \* the servers and the clock
          history, faulted,                \* catalogs seen; a needed query failed
          job, pc, next, open,             \* the audit, its clients not closed
          dialect, schema, source, resolved,
          snapshots, parts, target,        \* the cache, the snapshot being read,
                                           \* the snapshot of each statement
          result, reply

env == <<catalog, ddl, history>>
prepared == <<dialect, schema, source, resolved>>
loaded == <<snapshots, parts, target>>
vars == <<env, ctxDone, faulted, job, pc, next, open, prepared, loaded, result, reply>>

Outcome(error, verdict, diagnostics) ==
  [error |-> error, verdict |-> verdict, diagnostics |-> diagnostics]
NoOutcome == Outcome("pending", "none", {})
Timeout == Outcome("timeout", "none", {})

Script == job.script
Explicit == job.configured # "none"
Current == Script[next]

Init ==
  /\ catalog \in Catalogs0 /\ ddl = 0 /\ history = {catalog}
  /\ ctxDone = FALSE /\ faulted = FALSE
  /\ job \in Jobs /\ pc = "normalize" /\ next = 1 /\ open = {}
  /\ dialect = "none" /\ schema = NoSchema /\ source = "none" /\ resolved = {}
  /\ snapshots = <<>> /\ parts = <<>> /\ target = [i \in DOMAIN job.script |-> <<>>]
  /\ result = NoOutcome /\ reply = NoOutcome

----------------------------------------------------------------------------
(* The other sessions and the clock. *)

Alter ==
  /\ ddl < MaxDDL /\ pc # "done"
  /\ \E k \in Keys, v \in {0, Cardinality(Keys) + ddl + 1} :
       /\ v # catalog[k]
       /\ catalog' = [catalog EXCEPT ![k] = v]
  /\ ddl' = ddl + 1
  /\ history' = history \cup {catalog'}
  /\ UNCHANGED <<ctxDone, faulted, job, pc, next, open, prepared, loaded, result, reply>>

Expire ==
  /\ ~ctxDone /\ reply = NoOutcome
  /\ ctxDone' = TRUE
  /\ UNCHANGED <<env, faulted, job, pc, next, open, prepared, loaded, result, reply>>

----------------------------------------------------------------------------
(* How an audit ends.  The deferred Close of Prepare, and after it the one  *)
(* of the caller, runs on every path but the one DetectFails takes.         *)

EndWith(outcome) == /\ pc' = "done"
                    /\ result' = outcome
                    /\ UNCHANGED <<env, ctxDone, job, next, prepared, loaded, reply>>

Finish(outcome) == EndWith(outcome) /\ open' = {} /\ UNCHANGED faulted

Fail(error) == Finish(Outcome(error, "none", {}))

LoadFails(error) ==
  EndWith(Outcome(error, "none", {})) /\ open' = {} /\ faulted' = TRUE

Goto(label) == /\ pc' = label
               /\ UNCHANGED <<env, ctxDone, faulted, job, result, reply>>

----------------------------------------------------------------------------
(* Prepare: a client and its dialect. *)

Conflict(d) == /\ MySQLCompatible(d)
               /\ job.database # NoSchema /\ job.schema # NoSchema
               /\ job.database # job.schema

Normalize ==
  /\ pc = "normalize"
  /\ IF Conflict(job.configured)
     THEN Fail("catalog_conflict")
     ELSE Goto("open") /\ UNCHANGED <<next, open, prepared, loaded>>

Serves(driver) == IF driver = "postgresql" THEN job.pgAt ELSE job.mysqlAt # "none"
FirstDriver == IF job.configured = "postgresql" THEN "postgresql" ELSE "mysql"

(* Over HTTP the context of the request bounds the dial; the opener of the  *)
(* command line does not look at it.                                        *)
Opens(driver, label) ==
  /\ Serves(driver) /\ (job.http => ~ctxDone)
  /\ open' = open \cup {driver}
  /\ Goto(label) /\ UNCHANGED <<next, prepared, loaded>>

Open == pc = "open" /\ Opens(FirstDriver, "detect")

OpenFails ==
  /\ pc = "open"
  /\ IF Explicit
     THEN Fail("connection_open")
     ELSE Goto("open_postgresql") /\ UNCHANGED <<next, open, prepared, loaded>>

OpenPostgreSQL == pc = "open_postgresql" /\ Opens("postgresql", "detect")
OpenPostgreSQLFails == pc = "open_postgresql" /\ Fail("connection_open")

Answer == IF "mysql" \in open THEN job.mysqlAt ELSE "postgresql"

Detect ==
  /\ pc \in {"detect", "redetect"} /\ ~ctxDone
  /\ dialect' = Answer
  /\ Goto("check") /\ UNCHANGED <<next, open, schema, source, resolved, loaded>>

(* With a dialect given, the client is dropped without a Close; without     *)
(* one it is closed and PostgreSQL is tried.                                *)
DetectFails ==
  /\ pc = "detect"
  /\ \/ /\ Explicit
        /\ EndWith(Outcome("dialect_detect", "none", {}))
        /\ UNCHANGED <<open, faulted>>
     \/ /\ ~Explicit
        /\ open' = {}
        /\ Goto("reopen") /\ UNCHANGED <<next, prepared, loaded>>

Reopen == pc = "reopen" /\ Opens("postgresql", "redetect")
ReopenFails == pc = "reopen" /\ Fail("dialect_detect")

BugRetriesForever ==
  pc = "redetect" /\ open' = {} /\ Goto("reopen") /\ UNCHANGED <<next, prepared, loaded>>

RedetectFails == pc = "redetect" /\ Fail("dialect_detect")

----------------------------------------------------------------------------
(* Prepare: the schema. *)

Mismatch == Explicit /\ job.configured # dialect
DatabaseRequired == dialect = "postgresql" /\ job.schema # NoSchema
                    /\ job.database = NoSchema

CheckError ==
  CASE Mismatch -> "dialect_mismatch"
    [] ~Mismatch /\ DatabaseRequired -> "database_required"
    [] ~Mismatch /\ Conflict(dialect) -> "catalog_conflict"
    [] OTHER -> "none"

BugMismatchKeepsClient ==
  /\ pc = "check" /\ CheckError # "none"
  /\ EndWith(Outcome(CheckError, "none", {}))
  /\ open' = (IF Mismatch THEN open ELSE {})
  /\ UNCHANGED faulted

CheckFails == pc = "check" /\ CheckError # "none" /\ Fail(CheckError)

(* The database of a MySQL or TiDB connection is its schema. *)
ExplicitSchema == IF job.schema = NoSchema /\ MySQLCompatible(dialect)
                  THEN job.database ELSE job.schema

TakeExplicitSchema ==
  /\ pc = "check" /\ CheckError = "none" /\ ExplicitSchema # NoSchema
  /\ schema' = ExplicitSchema
  /\ source' = (IF job.schema = NoSchema THEN "database" ELSE "request")
  /\ Goto("audit") /\ UNCHANGED <<next, open, dialect, resolved, loaded>>

(* Target collection parses the script first; a deadline passed by then is  *)
(* reported as unparsable too.                                              *)
CollectTargets ==
  /\ pc = "check" /\ CheckError = "none" /\ ExplicitSchema = NoSchema
  /\ IF ctxDone \/ Parsed(Script) = {}
     THEN Fail("invalid_sql")
     ELSE Goto("lookup") /\ UNCHANGED <<next, open, prepared, loaded>>

SkipLookup ==
  /\ pc = "lookup" /\ next \in DOMAIN Script
  /\ ~NewTarget(Script, next) \/ Current.schema # NoSchema
  /\ resolved' = (IF NewTarget(Script, next) THEN resolved \cup {Current.schema}
                                             ELSE resolved)
  /\ next' = next + 1
  /\ Goto("lookup") /\ UNCHANGED <<open, dialect, schema, source, loaded>>

Where(c, table) == {s \in Schemas : c[<<s, table>>] # 0}

BugTakesAnyOf(found, required) == found = {} /\ required
HintRequired(found, required) == Cardinality(found) > 1 \/ (found = {} /\ required)

FindSchemas ==
  /\ pc = "lookup" /\ next \in DOMAIN Script
  /\ NewTarget(Script, next) /\ Current.schema = NoSchema
  /\ ~ctxDone
  /\ LET found == Where(catalog, Current.table)
     IN  \/ /\ HintRequired(found, RequiresExisting(Script, next))
            /\ Fail("schema_hint_required")
         \/ /\ ~HintRequired(found, RequiresExisting(Script, next))
            /\ resolved' = resolved
                 \cup (IF found = {} THEN {} ELSE {CHOOSE s \in found : TRUE})
            /\ next' = next + 1
            /\ Goto("lookup") /\ UNCHANGED <<open, dialect, schema, source, loaded>>

FindSchemasFails ==
  /\ pc = "lookup" /\ next \in DOMAIN Script
  /\ NewTarget(Script, next) /\ Current.schema = NoSchema
  /\ LoadFails("schema_lookup")

InferSchema ==
  /\ pc = "lookup" /\ next \notin DOMAIN Script
  /\ \/ Cardinality(resolved) > 1 /\ Fail("schema_hint_required")
     \/ /\ Cardinality(resolved) <= 1
        /\ schema' = (IF resolved = {} THEN NoSchema ELSE CHOOSE s \in resolved : TRUE)
        /\ source' = (IF resolved = {} THEN "none" ELSE "inferred")
        /\ next' = 1
        /\ Goto("audit") /\ UNCHANGED <<open, dialect, resolved, loaded>>

----------------------------------------------------------------------------
(* Service.Audit. *)

BeginAudit ==
  /\ pc = "audit"
  /\ IF ctxDone
     THEN Fail("cancelled")
     ELSE Goto("parse") /\ UNCHANGED <<next, open, prepared, loaded>>

PolicyFails == pc = "audit" /\ ~ctxDone /\ Fail("config_invalid")

(* A parser that finds the deadline passed gives up with the context's      *)
(* error and no parse failure, which Audit takes for a text the parser      *)
(* cannot read; one that looks like PostgreSQL is reviewed for that alone.  *)
ParseCancelled ==
  /\ pc = "parse" /\ ctxDone
  /\ Finish(IF PossibleMismatch(Script, dialect)
            THEN Outcome("cancelled", "review", {})
            ELSE Outcome("parser", "none", {"parser_error"}))

ParseRejectsAll ==
  /\ pc = "parse" /\ ~ctxDone /\ Parsed(Script) = {}
  /\ Finish(Outcome("parser", UnparsedVerdict(Script, dialect), {"parser_error"}))

Parse ==
  /\ pc = "parse" /\ ~ctxDone /\ Parsed(Script) # {}
  /\ Goto("facts") /\ UNCHANGED <<next, open, prepared, loaded>>

ExtractCancelled == pc = "facts" /\ ctxDone /\ Fail("cancelled")

LoadInstanceFacts ==
  /\ pc = "facts" /\ ~ctxDone
  /\ Goto("enrich") /\ next' = 1 /\ UNCHANGED <<open, prepared, loaded>>

LoadInstanceFactsFails == pc = "facts" /\ LoadFails("metadata")

----------------------------------------------------------------------------
(* Enrichment: the snapshot of each statement's table. *)

(* No table stands in the empty schema. *)
VersionIn(c, s, table) == IF s = NoSchema THEN 0 ELSE c[<<s, table>>]
Version(s, table) == VersionIn(catalog, s, table)

OwnerSearched == /\ Current.op = "index" /\ dialect = "postgresql"
                 /\ IndexSchema(schema, Current) # NoSchema

NextStatement == next' = next + 1 /\ Goto("enrich") /\ UNCHANGED <<open, prepared>>

SkipStatement ==
  /\ pc = "enrich" /\ next \in DOMAIN Script
  /\ ~TableBacked(Current) /\ ~OwnerSearched
  /\ NextStatement /\ UNCHANGED loaded

Enrich ==
  /\ pc = "enrich" /\ next \in DOMAIN Script /\ TableBacked(Current)
  /\ Goto("attach") /\ UNCHANGED <<next, open, prepared, loaded>>

FindOwner ==
  /\ pc = "enrich" /\ next \in DOMAIN Script /\ OwnerSearched /\ ~ctxDone
  /\ \/ /\ Version(IndexSchema(schema, Current), Current.table) # 0
        /\ Goto("attach") /\ UNCHANGED <<next, open, prepared, loaded>>
     \/ /\ Version(IndexSchema(schema, Current), Current.table) = 0
        /\ NextStatement /\ UNCHANGED loaded

FindOwnerFails ==
  pc = "enrich" /\ next \in DOMAIN Script /\ OwnerSearched /\ LoadFails("metadata")

TargetSchema == MetadataTargetSchema(dialect, schema, Current)

BugKeyedByTable(s, table) == <<NoSchema, table>>
SnapshotKey(s, table) == <<s, table>>
Key == SnapshotKey(TargetSchema, Current.table)

Attach ==
  /\ pc = "attach" /\ Key \in DOMAIN snapshots
  /\ target' = [target EXCEPT ![next] = snapshots[Key]]
  /\ NextStatement /\ UNCHANGED <<snapshots, parts>>

BugKeepsParts(snapshot) ==
  /\ snapshots' = [k \in DOMAIN snapshots \cup {Key} |->
                     IF k = Key THEN snapshot ELSE snapshots[k]]
  /\ parts' = snapshot

Remember(snapshot) ==
  /\ snapshots' = [k \in DOMAIN snapshots \cup {Key} |->
                     IF k = Key THEN snapshot ELSE snapshots[k]]
  /\ parts' = <<>>

(* The table's row, its columns, its indexes; for PostgreSQL also its       *)
(* constraints.  A table without a row is absent, and read no further.      *)
Queries == IF dialect = "postgresql" THEN 4 ELSE 3

ReadSnapshot ==
  /\ pc = "attach" /\ Key \notin DOMAIN snapshots /\ ~ctxDone
  /\ LET read == Append(parts, Version(TargetSchema, Current.table))
     IN  IF read[1] = 0 \/ Len(read) = Queries
         THEN Remember(read)
         ELSE parts' = read /\ UNCHANGED snapshots
  /\ Goto("attach") /\ UNCHANGED <<next, open, prepared, target>>

BugErrorIsAbsent ==
  /\ pc = "attach" /\ Key \notin DOMAIN snapshots
  /\ Remember(<<0>>) /\ faulted' = TRUE
  /\ UNCHANGED <<env, ctxDone, job, pc, next, open, prepared, target, result, reply>>

ReadSnapshotFails ==
  pc = "attach" /\ Key \notin DOMAIN snapshots /\ LoadFails("metadata")

Enriched ==
  /\ pc = "enrich" /\ next \notin DOMAIN Script
  /\ Goto("evaluate") /\ UNCHANGED <<next, open, prepared, loaded>>

Missing == {i \in DOMAIN Script : target[i] = <<0>>}

Evaluate ==
  /\ pc = "evaluate"
  /\ IF ctxDone
     THEN Fail("cancelled")
     ELSE Finish(Outcome(FinalError(Script), FinalVerdict(Script, dialect, Missing),
                         FinalDiagnostics(Script)))

----------------------------------------------------------------------------
(* The handler: it waits for the result or for the deadline. *)

Deliver ==
  /\ pc = "done" /\ reply = NoOutcome
  /\ reply' = result
  /\ UNCHANGED <<env, ctxDone, faulted, job, pc, next, open, prepared, loaded, result>>

Abandon ==
  /\ job.http /\ ctxDone /\ reply = NoOutcome
  /\ reply' = Timeout
  /\ UNCHANGED <<env, ctxDone, faulted, job, pc, next, open, prepared, loaded, result>>

Prepare ==
  \/ Normalize \/ Open \/ OpenFails \/ OpenPostgreSQL \/ OpenPostgreSQLFails
  \/ Detect \/ DetectFails \/ Reopen \/ ReopenFails \/ RedetectFails
  \/ CheckFails \/ TakeExplicitSchema \/ CollectTargets
  \/ SkipLookup \/ FindSchemas \/ FindSchemasFails \/ InferSchema

Audit ==
  \/ BeginAudit \/ PolicyFails \/ ParseCancelled \/ ParseRejectsAll \/ Parse
  \/ ExtractCancelled \/ LoadInstanceFacts \/ LoadInstanceFactsFails
  \/ SkipStatement \/ Enrich \/ FindOwner \/ FindOwnerFails
  \/ Attach \/ ReadSnapshot \/ ReadSnapshotFails \/ Enriched \/ Evaluate

Next == Prepare \/ Audit \/ Deliver \/ Abandon \/ Alter \/ Expire

(* A query returns or fails, as the drivers' dial and read do; the handler  *)
(* is woken by whichever of its two channels is ready.                      *)
Fairness == WF_vars(Prepare \/ Audit) /\ WF_vars(Deliver \/ Abandon)

Spec == Init /\ [][Next]_vars /\ Fairness

----------------------------------------------------------------------------
(* Properties. *)

Labels == {"normalize", "open", "open_postgresql", "detect", "reopen", "redetect",
           "check", "lookup", "audit", "parse", "facts", "enrich", "attach",
           "evaluate", "done"}

TypeOK ==
  /\ pc \in Labels
  /\ catalog \in Catalog /\ ddl \in 0..MaxDDL /\ history \subseteq Catalog
  /\ ctxDone \in BOOLEAN /\ faulted \in BOOLEAN
  /\ job \in Jobs /\ next \in 1..(Len(Script) + 1)
  /\ open \subseteq {"mysql", "postgresql"}
  /\ dialect \in Dialects \cup {"none"} /\ schema \in Schemas \cup {NoSchema}
  /\ source \in {"none", "request", "database", "inferred"}
  /\ resolved \subseteq Schemas
  /\ DOMAIN snapshots \subseteq (Schemas \cup {NoSchema}) \X Tables
  /\ Len(parts) < Queries /\ DOMAIN target = DOMAIN Script
  /\ result.verdict \in Verdicts /\ (pc = "done" <=> result # NoOutcome)
  /\ reply \in {NoOutcome, Timeout, result}

(* An audit that learned the dialect, or was free to look for it, ends with *)
(* every client it opened closed, one of two tried in turn included: each   *)
(* error path of Prepare and of Audit runs a deferred Close or its own.     *)
DetectedClientsReleased ==
  pc = "done" /\ (dialect # "none" \/ ~Explicit) => open = {}

(* Inference picks a schema only if each unqualified target stood in it,    *)
(* and in no other, at some moment of the audit; a table only created may   *)
(* also have stood nowhere.                                                 *)
InferredSchemaWitnessed ==
  source = "inferred" =>
    \A i \in DOMAIN Script :
      TableBacked(Script[i]) /\ Script[i].schema = NoSchema =>
        \E c \in history :
          \/ Where(c, Script[i].table) = {schema}
          \/ Where(c, Script[i].table) = {} /\ ~RequiresExisting(Script, i)

(* The schema whose table a statement runs on. *)
NamedSchema(statement) ==
  IF statement.schema # NoSchema THEN statement.schema ELSE schema

Named(c, statement) == VersionIn(c, NamedSchema(statement), statement.table)

(* Each query behind the snapshot attached to a statement read the table    *)
(* the statement runs on, at a version it had during the audit, whatever    *)
(* statements before it left in the cache.  Exempt is what the code does    *)
(* not do: a qualifier other than the schema of the request is followed     *)
(* for MySQL and TiDB DML only.                                             *)
QualifierFollowed(statement) ==
  \/ statement.schema \in {NoSchema, schema}
  \/ statement.op = "dml" /\ MySQLCompatible(dialect)

SnapshotOfNamedTable ==
  \A i \in DOMAIN target :
    QualifierFollowed(Script[i]) =>
      \A q \in DOMAIN target[i] : \E c \in history : target[i][q] = Named(c, Script[i])

(* A script passes only if every statement of it was parsed and audited,    *)
(* none raised a warning, and, for MySQL and TiDB, each DML statement's     *)
(* table existed at some moment of the audit.                               *)
PassIsEarned ==
  result.verdict = "pass" =>
    /\ Audited(Script) = DOMAIN Script
    /\ \A i \in DOMAIN Script : Script[i].level \in {"none", "notice"}
    /\ MySQLCompatible(dialect) =>
         \A i \in DOMAIN Script : Script[i].op = "dml" =>
            \E c \in history : Named(c, Script[i]) # 0

(* When a query the audit depends on fails, the audit fails, with no        *)
(* verdict: an error is never taken for an absent table.                    *)
FaultsFailAudit ==
  pc = "done" /\ faulted => result.error # "none" /\ result.verdict = "none"

(* The caller is answered, and the audit ends even when the handler has     *)
(* stopped waiting for it.                                                  *)
AuditEnds == <>[](pc = "done" /\ reply # NoOutcome)

(* What an audit still has to do: a lookup for each statement while the     *)
(* schema is inferred, and for each statement that is enriched a search,    *)
(* the queries of its snapshot and the attachment.                          *)
Length == Len(Script)
Enrichment(n) == 6 * (Length + 1 - n)
ReadsLeft == IF Key \in DOMAIN snapshots THEN 1 ELSE Queries - Len(parts) + 1

StepsLeft ==
  CASE pc = "normalize"       -> 7 * Length + 13
    [] pc = "open"            -> 7 * Length + 12
    [] pc = "open_postgresql" -> 7 * Length + 11
    [] pc = "detect"          -> 7 * Length + 10
    [] pc = "reopen"          -> 7 * Length + 9
    [] pc = "redetect"        -> 7 * Length + 8
    [] pc = "check"           -> 7 * Length + 7
    [] pc = "lookup"          -> 7 * Length + 7 - next
    [] pc = "audit"           -> 6 * Length + 5
    [] pc = "parse"           -> 6 * Length + 4
    [] pc = "facts"           -> 6 * Length + 3
    [] pc = "enrich"          -> Enrichment(next) + 2
    [] pc = "attach"          -> Enrichment(next + 1) + 2 + ReadsLeft
    [] pc = "evaluate"        -> 1
    [] pc = "done"            -> 0

(* Each step of Prepare or Audit leaves less to do: a failed detection is   *)
(* retried once (prepare.go:293), no target is looked up twice, and a       *)
(* snapshot that was read is not read again.  What other sessions, the      *)
(* clock and the handler do neither undoes a step nor adds one.             *)
AuditAdvances ==
  [][IF Prepare \/ Audit THEN StepsLeft' < StepsLeft ELSE StepsLeft' = StepsLeft]_vars

(* Statements on one table are audited against one snapshot of it: the      *)
(* cache answers all but the first (metadata.go:85), though DDL may have    *)
(* changed the table since.                                                 *)
SnapshotShared ==
  \A i, j \in DOMAIN target :
    /\ target[i] # <<>> /\ target[j] # <<>>
    /\ Script[i].table = Script[j].table
    /\ MetadataTargetSchema(dialect, schema, Script[i])
         = MetadataTargetSchema(dialect, schema, Script[j])
    => target[i] = target[j]

(* A statement of a comment which the code does not keep.                   *)

(* OpenDBContext: "The caller is responsible for closing the returned       *)
(* *sql.DB."                                                                *)
ClientsReleased == pc = "done" => open = {}
=============================================================================
