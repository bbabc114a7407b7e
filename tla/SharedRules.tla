----------------------------- MODULE SharedRules -----------------------------
(***************************************************************************)
(* The statement rules of MySQL and TiDB's DDL and those every dialect     *)
(* shares (domain/rule/ddl), except the rules about the inside of CREATE   *)
(* TABLE and those that need metadata.  Rows are as in PgRules.            *)
(***************************************************************************)
EXTENDS DdlRules

(***************************************************************************)
(* Operations that are refused (object_lifecycle_rules.go).                *)
(***************************************************************************)
ForbiddenOperation(id, op) ==
    [StatementRule(id, "blocker", Dialects, {op}, "", {}) EXCEPT !.scope = "table statement"]

ForbiddenOperationRules ==
    { ForbiddenOperation("ddl.view.create.forbid", "create_view"),
      ForbiddenOperation("ddl.view.drop.forbid", "drop_view"),
      ForbiddenOperation("ddl.table.drop.forbid", "drop_table"),
      ForbiddenOperation("ddl.table.truncate.forbid", "truncate_table") }

(***************************************************************************)
(* Actions that are refused (alter_rules.go, alter_semantic_rules.go).     *)
(***************************************************************************)
ForbiddenAction(id, level, dialects, action) ==
    AlterRule(id, level, dialects, "standalone too", {action}, {})

ForbiddenActionRules ==
    { ForbiddenAction("ddl.alter.drop_column.forbid", "warning", Dialects, "drop_column"),
      ForbiddenAction("ddl.alter.drop_primary_key.forbid", "blocker", Dialects, "drop_primary_key"),
      ForbiddenAction("ddl.alter.drop_index.forbid", "warning", Dialects, "drop_index"),
      ForbiddenAction("ddl.alter.rename_table.forbid", "blocker", Dialects, "rename_table"),
      ForbiddenAction("ddl.alter.rename_column.forbid", "blocker", Dialects, "rename_column"),
      ForbiddenAction("ddl.alter.rename_index.forbid", "blocker", Dialects, "rename_index"),
      ForbiddenAction("ddl.alter.change_column.forbid", "blocker", Dialects, "change_column"),
      ForbiddenAction("ddl.alter.modify_column.forbid", "warning", Dialects, "modify_column") }

PgForbiddenActionRules ==
    { ForbiddenAction("ddl.alter." \o action \o ".forbid", "warning", {"postgresql"}, action) :
        action \in {"set_data_type", "set_default", "drop_default", "set_not_null",
                    "drop_not_null", "drop_expression", "set_generated", "drop_identity"} }

\* forbiddenExplicitAlterColumnChangeRule: an action that states a property of the
\* column; <<action, property>>.  MODIFY COLUMN's nullability needs metadata.
ExplicitChangeRules ==
    { AlterRule("ddl.alter." \o c[1] \o ".explicit_" \o c[2] \o "_change.forbid", "blocker",
                Dialects, "alter table", {c[1]}, {"touches_" \o c[2]}) :
        c \in {<<"change_column", "nullability">>, <<"modify_column", "default">>,
               <<"change_column", "default">>, <<"modify_column", "auto_increment">>,
               <<"change_column", "auto_increment">>, <<"set_default", "default">>,
               <<"drop_default", "default">>, <<"set_not_null", "nullability">>,
               <<"drop_not_null", "nullability">>} }

\* Without metadata the prior state of the column is unknown.
UnknownPriorNullabilityRules ==
    { AlterRule("ddl.alter.modify_column.explicit_nullability_change.unknown_prior_state.advisory",
                "notice", MySqlLike, "alter table", {"modify_column"}, {"touches_nullability"}) }

(***************************************************************************)
(* Foreign keys (table_option_rules.go, identifier_rules.go).              *)
(***************************************************************************)
ForeignKeyForbid == "ddl.table.foreign_key.forbid"

ForeignKeyNamingRules ==
    { ForeignKeyRule(id, "warning", Dialects, "foreign key names") :
        id \in {"ddl.constraint.foreign_key.name.prefix.require",
               "ddl.constraint.foreign_key.name.suffix.require",
               "ddl.constraint.foreign_key.name.contains.require"} }

ForeignKeyRules ==
    { ForeignKeyRule(ForeignKeyForbid, "blocker", Dialects, "foreign keys"),
      ForeignKeyRule("ddl.pg.table.foreign_key.cross_schema.advisory", "notice",
                     {"postgresql"}, "foreign keys across schemas") }

(***************************************************************************)
(* Notices of MySQL and TiDB (database_lifecycle_rules.go,                 *)
(* mysql_tidb_lifecycle_rules.go, mysql_tidb_alter_action_rules.go).       *)
(***************************************************************************)
DatabaseRules ==
    { StatementRule("ddl.database.create.notice", "notice", MySqlLike, {"create_schema"}, "database", {}),
      StatementRule("ddl.database.drop.warn", "warning", MySqlLike, {"drop_schema"}, "database", {}) }

\* mysqlTidbLifecycleRule
Lifecycle(op, name, type) ==
    StatementRule("ddl." \o name \o ".notice", "notice", MySqlLike, {op}, type, {})

\* Users, roles, privileges, procedures.
AccountRules ==
    { Lifecycle(verb \o "_" \o type, verb \o "_" \o type, type) :
        verb \in {"create", "drop"}, type \in {"procedure", "user", "role"} }
    \cup { Lifecycle("alter_user", "alter_user", "user"), Lifecycle("grant", "grant", ""),
           Lifecycle("revoke", "revoke", "") }

\* Tables, indexes and databases; ALTER TABLE ... ADD INDEX counts as CREATE INDEX.
TableLifecycleRules ==
    { Lifecycle("rename_table", "rename_table", ""), Lifecycle("drop_index", "drop_index", ""),
      [Lifecycle("create_index", "create_index", "") EXCEPT !.actions = {"add_index"}],
      Lifecycle("alter_schema", "alter_database", "database") }

\* What only TiDB has, although the rules look at both.
TiDBLifecycleRules ==
    { Lifecycle(verb \o "_" \o type, verb \o "_" \o type, type) :
        verb \in {"create", "alter", "drop"}, type \in {"placement_policy", "sequence"} }
    \cup { Lifecycle("drop_resource_group", "drop_resource_group", "resource_group") }

ActionNotice(id, dialects, action) ==
    AlterRule(id, "notice", dialects, "alter table", {action}, {})

ActionNoticeRules ==
    { ActionNotice("ddl.alter.add_column.notice", MySqlLike, "add_columns"),
      ActionNotice("ddl.alter.add_constraint.notice", MySqlLike, "add_constraint"),
      ActionNotice("ddl.alter.drop_column.notice", MySqlLike, "drop_column"),
      ActionNotice("ddl.alter.modify_column.notice", MySqlLike, "modify_column"),
      ActionNotice("ddl.alter.drop_index.notice", MySqlLike, "drop_index"),
      ActionNotice("ddl.alter.drop_foreign_key.notice", MySqlLike, "drop_foreign_key"),
      ActionNotice("ddl.tidb.alter_table.placement_policy.notice", {"tidb"}, "placement_policy") }

SharedStatementRules ==
    UNION { ForbiddenOperationRules, ForbiddenActionRules, PgForbiddenActionRules,
            ExplicitChangeRules, UnknownPriorNullabilityRules, ForeignKeyNamingRules,
            ForeignKeyRules, DatabaseRules, AccountRules, TableLifecycleRules,
            TiDBLifecycleRules, ActionNoticeRules }

=============================================================================
