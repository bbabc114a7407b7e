------------------------------ MODULE DdlRules ------------------------------
(***************************************************************************)
(* What a DDL statement is to the rules, what a rule is, and when a rule   *)
(* reports a finding (domain/spec/ddl.go, domain/rule/registry.go,         *)
(* domain/rule/ddl/common.go).                                             *)
(*                                                                         *)
(* A statement carries FACTS: an option of the code whose value is "true"  *)
(* is the option's name, any other option is "name=value" (the strings are *)
(* atoms; nothing looks inside one).  An alter action carries its own      *)
(* facts.  Messages, explanations and finding metadata are left out: no    *)
(* property is about them, and no rule reads another rule's finding.       *)
(***************************************************************************)
EXTENDS Naturals, Sequences, FiniteSets

CONSTANT Conforming     \* the constraint names the naming policy accepts

Dialects == {"mysql", "tidb", "postgresql"}
MySqlLike == {"mysql", "tidb"}

Levels == {"notice", "warning", "blocker"}

(***************************************************************************)
(* Statements.  A table is [schema, name]; a schema the statement does not *)
(* write is "", and so is a constraint the statement does not name.        *)
(***************************************************************************)
NoTable == [schema |-> "", name |-> ""]

\* One alter action of a statement.
Alter(action, name, facts) == [action |-> action, name |-> name, facts |-> facts]

\* A constraint a statement adds; schema is that of the table it references.
Constraint(type, name, schema) == [type |-> type, name |-> name, schema |-> schema]

\* An extracted statement: its operation, the object type, its options, the
\* table it is about (NoTable when DDL.Table is nil), its alter actions and, for
\* the extractions that fill them, the constraints it adds.
Ddl(op, type, facts, table, alters) ==
    [op |-> op, type |-> type, facts |-> facts, table |-> table, alters |-> alters,
     constraints |-> <<>>]

(***************************************************************************)
(* Parse trees, as far as the extractors tell them apart: the type of the  *)
(* node, the object type it is about, its flags (the clauses written), the *)
(* table it names, and its commands (ALTER TABLE) or elements (CREATE      *)
(* TABLE).  A command has a subtype, the kind of constraint ("" when it is *)
(* none), the constraint's name, the schema it references, and its flags.  *)
(***************************************************************************)
Node(node, object, flags, table, cmds) ==
    [node |-> node, object |-> object, flags |-> flags, table |-> table, cmds |-> cmds]

Command(subtype, kind, name, schema, flags) ==
    [subtype |-> subtype, kind |-> kind, name |-> name, schema |-> schema, flags |-> flags]

\* The trees a script may hold.
Commands == [subtype : STRING, kind : STRING, name : STRING, schema : STRING,
             flags : SUBSET STRING]

Nodes == [node : STRING, object : STRING, flags : SUBSET STRING,
          table : [schema : STRING, name : STRING], cmds : Seq(Commands)]

\* A statement about an object that is not a table.
Object(op, type, facts) == Ddl(op, type, facts, NoTable, <<>>)

\* appliesToAlterTable: ALTER TABLE of a known table with at least one action.
\* No extractor leaves the operation empty or "unknown".
AppliesToAlterTable(ddl) ==
    /\ ddl.op = "alter_table"
    /\ ddl.table # NoTable
    /\ ddl.alters # <<>>

\* appliesToCreateTable, for statements whose operation is set.
AppliesToCreateTable(ddl) == ddl.op = "create_table" /\ ddl.table # NoTable

\* The foreign keys a rule about them looks at, appliesToCreateTableOrAlterFKConstraint:
\* those of CREATE TABLE, and those of an ALTER TABLE that says it adds one.
ForeignKeys(ddl) ==
    IF \/ AppliesToCreateTable(ddl)
       \/ /\ AppliesToAlterTable(ddl)
          /\ \E k \in DOMAIN ddl.alters : /\ ddl.alters[k].action = "add_constraint"
                                        /\ "constraint_type=foreign_key" \in ddl.alters[k].facts
    THEN {k \in DOMAIN ddl.constraints : ddl.constraints[k].type = "foreign_key"}
    ELSE {}

\* The positions of the actions named, matchingAlterActions.
MatchingAlterActions(ddl, actions) ==
    IF AppliesToAlterTable(ddl)
    THEN {k \in DOMAIN ddl.alters : ddl.alters[k].action \in actions}
    ELSE {}

\* matchingStandaloneDDLActions: DROP INDEX and the renaming of an index are the
\* statements whose actions count although they have no table.
MatchingStandaloneActions(ddl, actions) ==
    IF ddl.table = NoTable /\ <<ddl.op, actions>> \in
         {<<"drop_index", {"drop_index"}>>, <<"alter_table", {"rename_index"}>>}
    THEN {k \in DOMAIN ddl.alters : ddl.alters[k].action \in actions}
    ELSE {}

(***************************************************************************)
(* Rules.  A rule of a family is a row: the dialects it is for, its scope, *)
(* the operations or the actions it looks at, the object type it wants ("" *)
(* for any), the facts it needs, those of which it needs one and those     *)
(* that silence it.  The scope says what the rule reports: the statement   *)
(* ("statement"), the statement if it has a table ("table statement"), the *)
(* matching actions of an ALTER TABLE of a known table ("alter table"),    *)
(* those and the ones of a statement without a table ("standalone too"),   *)
(* the matching actions of any statement ("anywhere"), or foreign keys.    *)
(***************************************************************************)
StatementRule(id, level, dialects, ops, type, all) ==
    [id |-> id, level |-> level, dialects |-> dialects, scope |-> "statement",
     ops |-> ops, type |-> type, actions |-> {}, all |-> all, some |-> {}, none |-> {}]

AlterRule(id, level, dialects, scope, actions, all) ==
    [id |-> id, level |-> level, dialects |-> dialects, scope |-> scope,
     ops |-> {}, type |-> "", actions |-> actions, all |-> all, some |-> {}, none |-> {}]

ForeignKeyRule(id, level, dialects, scope) == AlterRule(id, level, dialects, scope, {}, {})

Satisfies(facts, r) ==
    /\ r.all \subseteq facts
    /\ r.some = {} \/ r.some \cap facts # {}
    /\ r.none \cap facts = {}

\* The foreign keys a rule reports: all, those to a table of another schema when
\* both are written, or the named ones of a CREATE TABLE that break the naming policy.
MatchingForeignKeys(r, ddl) ==
    CASE r.scope = "foreign keys" -> ForeignKeys(ddl)
      [] r.scope = "foreign keys across schemas" ->
            {k \in ForeignKeys(ddl) :
                "" \notin {ddl.table.schema, ddl.constraints[k].schema}
                /\ ddl.table.schema # ddl.constraints[k].schema}
      [] r.scope = "foreign key names" ->
            {k \in ForeignKeys(ddl) : AppliesToCreateTable(ddl)
                                      /\ ddl.constraints[k].name \notin Conforming \cup {""}}

MatchingActions(r, ddl) ==
    CASE r.scope = "alter table" -> MatchingAlterActions(ddl, r.actions)
      [] r.scope = "standalone too" ->
            MatchingAlterActions(ddl, r.actions) \cup MatchingStandaloneActions(ddl, r.actions)
      [] r.scope = "anywhere" ->
            {k \in DOMAIN ddl.alters : ddl.alters[k].action \in r.actions}

\* A statement counts by its operation or, for CREATE INDEX, by an action that does
\* the same.
MatchingStatement(r, ddl) ==
    /\ ddl.op \in r.ops \/ MatchingAlterActions(ddl, r.actions) # {}
    /\ r.type \in {"", ddl.type}
    /\ r.scope = "table statement" => ddl.table # NoTable
    /\ Satisfies(ddl.facts, r)

\* AppliesTo and Evaluate of a rule on one statement: where it reports, 0 for the
\* statement as a whole, k for its k-th action (or, for a rule about foreign keys,
\* its k-th constraint).
Fires(r, dialect, ddl) ==
    IF dialect \notin r.dialects THEN {}
    ELSE CASE r.scope \in {"statement", "table statement"} ->
                 IF MatchingStatement(r, ddl) THEN {0} ELSE {}
           [] r.scope \in {"foreign keys", "foreign keys across schemas", "foreign key names"} ->
                 MatchingForeignKeys(r, ddl)
           [] OTHER -> {k \in MatchingActions(r, ddl) : Satisfies(ddl.alters[k].facts, r)}

=============================================================================
