------------------------------- MODULE DdlAudit -------------------------------
(***************************************************************************)
(* The audit of a script of DDL statements without metadata: every         *)
(* statement is extracted, the rules the policy leaves standing are        *)
(* registered, each accepted statement is evaluated, the rules about the   *)
(* whole script look at all of them in order, and the findings add up to a *)
(* verdict (application/audit/service.go, extract.go, evaluate.go;         *)
(* domain/rule/registry.go; the two kinds of global rules).  The caller    *)
(* may give up at any time: the next step that looks at the context ends   *)
(* the audit without a result.                                             *)
(***************************************************************************)
EXTENDS PgAlterTable, TiDBExtraction, PolicyDefaults

CONSTANT Requests     \* what may be asked: a dialect, the parse trees of the script and
                      \* the settings the policy file holds

ASSUME RequestsAssumption ==
    \A r \in Requests : r.dialect \in Dialects /\ r.nodes \in Seq(Nodes) /\ r.file \subseteq Settings

VARIABLES dialect, script, file,  \* the request
          phase,                  \* what the audit does next
          at,                     \* the statement it looks at
          statements,             \* what was extracted
          loaded,                 \* the rules that can apply
          accepted,               \* the statements the rules see
          unsupported,            \* the places in the script of the others
          results,                \* the findings on each accepted statement
          action,                 \* the action the global rule looks at
          pending,                \* the constraints it still waits to see validated
          verdict,
          cancelled

vars == <<dialect, script, file, phase, at, statements, loaded, accepted, unsupported,
          results, action, pending, verdict, cancelled>>

request == <<dialect, script, file>>

Phases == {"extract", "evaluate", "global", "aggregate", "done", "failed"}

\* The extractor a dialect's parser comes with; MySQL is parsed as TiDB.
Extracted(d, node) == IF d = "postgresql" THEN Extract(node) ELSE ExtractTiDB(node)

Finding(policy, r, place) == [id |-> r.id, level |-> ConfiguredLevel(policy, r), at |-> place]

\* EvaluateStatementDetailed: what the rules that are registered find in a statement.
FoundBy(rules, policy, d, ddl) ==
    UNION {{Finding(policy, r, k) : k \in Fires(r, d, ddl)} : r \in rules}

Findings(ddl) == FoundBy(loaded, file, dialect, ddl)

(***************************************************************************)
(* The rules about the whole script.                                       *)
(***************************************************************************)
NotValidRule == "ddl.pg.alter.not_valid_constraint.validate.require"

\* Both global rules are warnings unless the policy says otherwise.
GlobalLevel(id) == IF Setting(file, id).level = "" THEN "warning" ELSE Setting(file, id).level

\* Registered, and its parameter on.
Stands(id) == Setting(file, id).enabled /\ SwitchedOn(Setting(file, id))

\* alterConstraintKey: the constraint an action of a statement is about, with the
\* schema as the statement writes it.
ConstraintKey(ddl, k) == <<ddl.table, ddl.alters[k].name>>

\* notValidConstraintAddition
AddsNotValid(ddl, k) ==
    /\ ddl.op = "alter_table" /\ ddl.table # NoTable
    /\ ddl.alters[k].action = "add_constraint"
    /\ ddl.alters[k].name # ""
    /\ "not_valid" \in ddl.alters[k].facts
    /\ {"constraint_type=check", "constraint_type=foreign_key"} \cap ddl.alters[k].facts # {}

\* validateConstraintKey
Validates(ddl, k) ==
    /\ ddl.op = "alter_table" /\ ddl.table # NoTable
    /\ ddl.alters[k].action = "validate_constraint"
    /\ ddl.alters[k].name # ""

\* A mistake: a validation is matched by the constraint's name alone.
BugAfterAction(items, ddl, i, k) ==
    CASE AddsNotValid(ddl, k) ->
            items \cup {[statement |-> i, action |-> k, key |-> ConstraintKey(ddl, k)]}
      [] Validates(ddl, k) -> {item \in items : item.key[2] # ddl.alters[k].name}
      [] OTHER -> items

\* What one action does to the constraints that are waited for; validating one takes
\* every earlier addition of it off the list.
AfterAction(items, ddl, i, k) ==
    CASE AddsNotValid(ddl, k) ->
            items \cup {[statement |-> i, action |-> k, key |-> ConstraintKey(ddl, k)]}
      [] Validates(ddl, k) -> {item \in items : item.key # ConstraintKey(ddl, k)}
      [] OTHER -> items

\* mergeAlterRule: the names more than one ALTER TABLE is about, whatever the schema.
MergeRule == [mysql |-> "ddl.alter.merge.mysql.require", tidb |-> "ddl.alter.merge.tidb.require"]

RepeatedAlters ==
    LET altered == {i \in DOMAIN accepted : AppliesToAlterTable(accepted[i])}
    IN {accepted[i].table.name : i \in
          {i \in altered : \E j \in altered \ {i} : accepted[j].table.name = accepted[i].table.name}}

MergeFindings ==
    IF dialect \in DOMAIN MergeRule /\ Stands(MergeRule[dialect]) THEN RepeatedAlters ELSE {}

(***************************************************************************)
(* The verdict: Aggregate, and Audit's floor for what was not audited.     *)
(***************************************************************************)
StatementFindings == UNION {results[i] : i \in DOMAIN results}

FoundLevels ==
    {f.level : f \in StatementFindings}
      \cup {GlobalLevel(MergeRule[dialect]) : name \in MergeFindings}
      \cup {GlobalLevel(NotValidRule) : item \in pending}

Verdict ==
    IF "blocker" \in FoundLevels THEN "reject"
    ELSE IF "warning" \in FoundLevels \/ unsupported # {} THEN "review"
    ELSE "pass"

(***************************************************************************)
(* The audit.                                                              *)
(***************************************************************************)
Init ==
    /\ \E r \in Requests : dialect = r.dialect /\ script = r.nodes /\ file = r.file
    /\ phase = "extract" /\ at = 1
    /\ statements = <<>> /\ accepted = <<>> /\ results = <<>>
    /\ loaded = {} /\ unsupported = {} /\ pending = {}
    /\ action = 1
    /\ verdict = "none"
    /\ cancelled = FALSE

\* Extract looks at the context before each statement.
ExtractNext ==
    /\ phase = "extract" /\ ~cancelled
    /\ at \in DOMAIN script
    /\ statements' = Append(statements, Extracted(dialect, script[at]))
    /\ at' = at + 1
    /\ UNCHANGED <<request, phase, loaded, accepted, unsupported, results, action, pending,
                   verdict, cancelled>>

\* Register, once everything is extracted.
RegisterRules ==
    /\ phase = "extract" /\ ~cancelled
    /\ at \notin DOMAIN script
    /\ loaded' = Loaded(file)
    /\ phase' = "evaluate" /\ at' = 1
    /\ UNCHANGED <<request, statements, accepted, unsupported, results, action, pending,
                   verdict, cancelled>>

\* A mistake: the statement counts as accepted before the context is looked at.
BugEvaluateNext ==
    /\ phase = "evaluate"
    /\ at \in DOMAIN statements
    /\ IF statements[at] = Unsupported
       THEN /\ unsupported' = unsupported \cup {at}
            /\ UNCHANGED <<accepted, results>>
       ELSE /\ accepted' = Append(accepted, statements[at])
            /\ results' = IF cancelled THEN results ELSE Append(results, Findings(statements[at]))
            /\ UNCHANGED unsupported
    /\ at' = at + 1
    /\ UNCHANGED <<request, phase, statements, loaded, action, pending, verdict, cancelled>>

\* EvaluateStatements: a statement that was refused is set aside under its place in
\* the script; the others are numbered anew.
EvaluateNext ==
    /\ phase = "evaluate"
    /\ at \in DOMAIN statements
    /\ IF statements[at] = Unsupported
       THEN /\ unsupported' = unsupported \cup {at}
            /\ UNCHANGED <<accepted, results>>
       ELSE /\ ~cancelled
            /\ accepted' = Append(accepted, statements[at])
            /\ results' = Append(results, Findings(statements[at]))
            /\ UNCHANGED unsupported
    /\ at' = at + 1
    /\ UNCHANGED <<request, phase, statements, loaded, action, pending, verdict, cancelled>>

\* EvaluateGlobal: a rule that is not registered, or switched off, looks at nothing.
StartGlobal ==
    /\ phase = "evaluate" /\ ~cancelled
    /\ at \notin DOMAIN statements
    /\ phase' = IF dialect = "postgresql" /\ Stands(NotValidRule) THEN "global" ELSE "aggregate"
    /\ at' = 1 /\ action' = 1
    /\ UNCHANGED <<request, statements, loaded, accepted, unsupported, results, pending,
                   verdict, cancelled>>

\* notValidConstraintValidateRequiredRule.EvaluateAll, action by action; the context is
\* looked at before each statement.
GlobalAction ==
    /\ phase = "global"
    /\ at \in DOMAIN accepted
    /\ action = 1 => ~cancelled
    /\ action \in DOMAIN accepted[at].alters
    /\ pending' = AfterAction(pending, accepted[at], at, action)
    /\ action' = action + 1
    /\ UNCHANGED <<request, phase, at, statements, loaded, accepted, unsupported, results,
                   verdict, cancelled>>

GlobalNext ==
    /\ phase = "global"
    /\ at \in DOMAIN accepted
    /\ action = 1 => ~cancelled
    /\ action \notin DOMAIN accepted[at].alters
    /\ at' = at + 1 /\ action' = 1
    /\ UNCHANGED <<request, phase, statements, loaded, accepted, unsupported, results, pending,
                   verdict, cancelled>>

EndGlobal ==
    /\ phase = "global"
    /\ at \notin DOMAIN accepted
    /\ phase' = "aggregate"
    /\ UNCHANGED <<request, at, statements, loaded, accepted, unsupported, results, action,
                   pending, verdict, cancelled>>

AggregateFindings ==
    /\ phase = "aggregate"
    /\ verdict' = Verdict
    /\ phase' = "done"
    /\ UNCHANGED <<request, at, statements, loaded, accepted, unsupported, results, action,
                   pending, cancelled>>

\* A step that looks at the context finds it over: there is no result.
Fail ==
    /\ cancelled
    /\ phase \in {"extract", "evaluate", "global"}
    /\ phase = "evaluate" /\ at \in DOMAIN statements => statements[at] # Unsupported
    /\ phase = "global" => action = 1 /\ at \in DOMAIN accepted
    /\ phase' = "failed"
    /\ UNCHANGED <<request, at, statements, loaded, accepted, unsupported, results, action,
                   pending, verdict, cancelled>>

\* The caller's context ends.
Cancel ==
    /\ ~cancelled
    /\ phase \notin {"done", "failed"}
    /\ cancelled' = TRUE
    /\ UNCHANGED <<request, phase, at, statements, loaded, accepted, unsupported, results,
                   action, pending, verdict>>

Next ==
    \/ ExtractNext \/ RegisterRules \/ EvaluateNext
    \/ StartGlobal \/ GlobalAction \/ GlobalNext \/ EndGlobal
    \/ AggregateFindings \/ Fail \/ Cancel

Spec == Init /\ [][Next]_vars

(***************************************************************************)
(* Properties.                                                             *)
(***************************************************************************)
TypeOK ==
    /\ dialect \in Dialects
    /\ phase \in Phases
    /\ at \in Nat /\ action \in Nat
    /\ Len(statements) <= Len(script)
    /\ unsupported \subseteq DOMAIN script
    /\ DOMAIN results = DOMAIN accepted
    /\ \A item \in pending : /\ item.statement \in DOMAIN accepted
                             /\ item.action \in DOMAIN accepted[item.statement].alters
    /\ verdict \in {"none", "pass", "review", "reject"}
    /\ cancelled \in BOOLEAN

\* The number a statement of the script has among the accepted ones.
Number(p) == Cardinality((1 .. p) \ unsupported)

(***************************************************************************)
(* The forms the coverage catalog names as audited without a finding       *)
(* (docs/reference/ddl-coverage-catalog.json), and what the code is as     *)
(* silent about: CREATE TABLE, whose rules are not modelled, a column that *)
(* may be null and has a default, a NOT VALID check the statement does not *)
(* name, the default replica identity, sequences that keep their values,   *)
(* objects that SET SCHEMA takes for tables, and what has no name among    *)
(* the actions of MySQL and TiDB.                                          *)
(***************************************************************************)
SilentCommand(d, cmd) ==
    \/ cmd.subtype \in {"DropOids", "Option", "Other"}
    \/ cmd.subtype = "AddColumn" /\ cmd.flags = {"default"}
    \/ cmd.subtype = "AddConstraint" /\ cmd.kind = "primary_key" /\ d = "postgresql"
    \/ cmd.subtype = "AddConstraint" /\ cmd.kind = "check" /\ "not_valid" \in cmd.flags
    \/ cmd.subtype = "ReplicaIdentity" /\ cmd.kind = "d"

SilentStatement(node) ==
    \/ node.node \in {"CreateStmt", "CreateTableStmt", "CreateTableAsStmt", "OtherStmt"}
    \/ node.node \in {"CreateSeqStmt", "AlterSeqStmt"} /\ node.flags = {}
    \/ node.node = "RefreshMatViewStmt" /\ node.flags = {"concurrently"}
    \/ node.node = "IndexStmt" /\ "concurrently" \in node.flags
    \/ node.node = "AlterObjectSchemaStmt" /\ node.table = NoTable
    \/ node.node = "AlterTableStmt" /\ node.object \in {"OBJECT_TABLE", ""}

\* A command is noticed by a finding about it or about its statement; a foreign key, by
\* the one about foreign keys.
CommandNoticed(d, found, cmds, k) ==
    \/ SilentCommand(d, cmds[k])
    \/ \E f \in found : f.at \in {0, k} \/ (cmds[k].kind = "foreign_key" /\ f.id = ForeignKeyForbid)

\* A statement has a finding, and so has each command of an ALTER TABLE that is an
\* action of its own, except the forms above.
Noticed(d, node, ddl, found) ==
    /\ SilentStatement(node) \/ found # {}
    /\ DOMAIN ddl.alters = DOMAIN node.cmds =>
          \A k \in DOMAIN node.cmds : CommandNoticed(d, found, node.cmds, k)

\* An audit under the default policy leaves nothing it accepts unnoticed, wherever in a
\* script it stands and whatever is refused around it.
NothingUnnoticed ==
    phase = "done" /\ file = {} =>
        \A p \in DOMAIN script \ unsupported :
            Noticed(dialect, script[p], accepted[Number(p)], results[Number(p)])

\* Each statement that may be asked about is noticed by itself: what NothingUnnoticed
\* says of the scripts of one statement.
FormsNoticed ==
    \A r \in Requests : r.file = {} => \A i \in DOMAIN r.nodes :
        LET ddl == Extracted(r.dialect, r.nodes[i])
        IN ddl # Unsupported =>
              Noticed(r.dialect, r.nodes[i], ddl, FoundBy(DefaultRules, {}, r.dialect, ddl))

\* The actions of the accepted statements, by statement and number; their order.
Positions == UNION {{<<i, k>> : k \in DOMAIN accepted[i].alters} : i \in DOMAIN accepted}

Before(p, q) == p[1] < q[1] \/ (p[1] = q[1] /\ p[2] < q[2])

\* Validated by a later action of the script.
ValidatedAfter(p) ==
    \E q \in Positions : /\ Before(p, q)
                         /\ Validates(accepted[q[1]], q[2])
                         /\ ConstraintKey(accepted[q[1]], q[2]) = ConstraintKey(accepted[p[1]], p[2])

\* The rule about NOT VALID constraints reports exactly the additions that no later
\* action validates: a validation counts for every earlier addition of its constraint
\* and for no later one, across statements, actions of one statement, and statements
\* that were refused in between.
NotValidReported ==
    phase \in {"aggregate", "done"} /\ dialect = "postgresql" /\ Stands(NotValidRule) =>
        {<<item.statement, item.action>> : item \in pending} =
            {p \in Positions : AddsNotValid(accepted[p[1]], p[2]) /\ ~ValidatedAfter(p)}

\* A foreign key rule other than the one about schemas has reported constraint k.
ForeignKeyReported(found, k) ==
    \E f \in found : f.at = k /\ (IsNamingRule(f.id) \/ f.id = ForeignKeyForbid)

\* Naming rules yield to the rule that forbids foreign keys only while it reports
\* them: whatever the policy file, a badly named foreign key of a CREATE TABLE is
\* reported by one of the two when a naming rule is enabled and has a pattern.
ForeignKeysReviewed ==
    phase = "done" /\ (\E r \in ForeignKeyNamingRules : Stands(r.id)) =>
        \A i \in DOMAIN accepted : \A k \in ForeignKeys(accepted[i]) :
            \/ ~AppliesToCreateTable(accepted[i])
            \/ accepted[i].constraints[k].name \in Conforming \cup {""}
            \/ ForeignKeyReported(results[i], k)

(***************************************************************************)
(* What the proofs state besides: a completed audit, as a function of the  *)
(* script and the policy file, and how an audit gets there.                *)
(***************************************************************************)
Refused == {p \in DOMAIN script : Extracted(dialect, script[p]) = Unsupported}

\* What an audit has to find in the p-th statement.
Due(p) == FoundBy(Loaded(file), file, dialect, Extracted(dialect, script[p]))

\* The report is that of the script: what is set aside are the statements that are
\* refused, and the others, in order, are the accepted ones with the findings due on
\* each, none missing and none besides (evaluate.go:27-84).
ScriptReported ==
    phase = "done" =>
        /\ unsupported = Refused
        /\ DOMAIN accepted = {Number(p) : p \in DOMAIN script \ Refused}
        /\ \A p \in DOMAIN script \ Refused :
              /\ accepted[Number(p)] = Extracted(dialect, script[p])
              /\ results[Number(p)] = Due(p)

\* The levels of all findings due: on the statements, on the tables altered twice and
\* on the constraints never validated.
DueLevels ==
    {f.level : f \in UNION {Due(p) : p \in DOMAIN script \ Refused}}
      \cup {GlobalLevel(MergeRule[dialect]) : name \in MergeFindings}
      \cup {GlobalLevel(NotValidRule) : item \in pending}

\* The verdict is what is due to the script: it passes only when nothing was refused
\* and nothing due is a blocker or a warning, and a blocker anywhere in it rejects it
\* (report/result.go:134-141; service.go:166-171).
VerdictDue ==
    phase = "done" =>
        /\ verdict = "reject" <=> "blocker" \in DueLevels
        /\ verdict = "pass" <=> Refused = {} /\ {"blocker", "warning"} \cap DueLevels = {}
        /\ verdict # "none"

\* Where the audit is: the stage, the statement, the action.
Stage == [extract |-> 0, evaluate |-> 1, global |-> 2, aggregate |-> 3, done |-> 4, failed |-> 4]

Onwards ==
    \/ Stage[phase] < Stage[phase']
    \/ phase = phase' /\ at < at'
    \/ phase = phase' /\ at = at' /\ action < action'

\* The places it can be at are those of the script.
WithinScript ==
    /\ phase = "extract" => at \in 1 .. (Len(script) + 1)
    /\ phase = "evaluate" => at \in 1 .. (Len(statements) + 1)
    /\ phase = "global" =>
          /\ at \in 1 .. (Len(accepted) + 1)
          /\ at \in DOMAIN accepted => \A k \in 1 .. (action - 1) : k \in DOMAIN accepted[at].alters
    /\ Len(statements) <= Len(script) /\ Len(accepted) <= Len(script)

\* Every step goes on, except the caller's, which moves nothing and comes once.
ScriptAdvances ==
    [][Onwards \/ (~cancelled /\ cancelled' /\ UNCHANGED <<phase, at, action>>)]_vars

\* docs/reference/rules.md:877: an ALTER SUBSCRIPTION ... DISABLE is warned about.
DisablingWarned ==
    phase = "done" /\ file = {} =>
        \A p \in DOMAIN script \ unsupported :
            script[p].node = "AlterSubscriptionStmt" /\ "disable" \in script[p].flags =>
                \E f \in results[Number(p)] : f.id = "ddl.pg.alter_subscription.disable.warn"

=============================================================================
