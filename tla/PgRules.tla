------------------------------- MODULE PgRules -------------------------------
(***************************************************************************)
(* The statement rules of PostgreSQL's DDL, the files                      *)
(* domain/rule/ddl/postgresql_*_rules.go.  Each family of the code builds  *)
(* its rules from a row (id, factory level, operation or action,           *)
(* condition); the families differ in the condition they accept, not in    *)
(* how it is evaluated, so that here a family is the set of its rows.      *)
(***************************************************************************)
EXTENDS DdlRules

\* A rule about a PostgreSQL statement with the facts given.
On(id, level, op, all) == StatementRule(id, level, {"postgresql"}, {op}, "", all)

\* pgObjectLifecycleRule: a rule that also wants the type of the object.
OnType(id, level, op, type, all) == StatementRule(id, level, {"postgresql"}, {op}, type, all)

\* pgAlterActionAdvisoryRule: a rule about one action of ALTER TABLE.
OnAction(id, level, action, all) ==
    AlterRule(id, level, {"postgresql"}, "alter table", {action}, all)

\* A mistake: the statement must have a table.
BugAnywhere(id, level, action) ==
    AlterRule(id, level, {"postgresql"}, "alter table", {action}, {})

\* pgAlterBoundedNoticeRule: the same for any statement with that action.
Anywhere(id, level, action) == AlterRule(id, level, {"postgresql"}, "anywhere", {action}, {})

\* The actions of ALTER EVENT TRIGGER that are not a disabling.
EventTriggerStates ==
    {"action=enable", "action=enable_replica", "action=enable_always", "action=rename"}

(***************************************************************************)
(* Migrations: locks and rewrites (postgresql_migration_rules.go).         *)
(***************************************************************************)
\* CREATE INDEX blocks writes unless CONCURRENTLY.
IndexMigrationRules ==
    { [On("ddl.pg.create_index.concurrently.require", "warning", "create_index", {})
          EXCEPT !.none = {"concurrently"}] }

\* DROP INDEX blocks reads and writes.
DropIndexRules ==
    { On("ddl.pg.drop_index.advisory", "notice", "drop_index", {}) }

\* ADD COLUMN ... NOT NULL DEFAULT rewrites the table.
AddColumnMigrationRules ==
    { OnAction("ddl.pg.alter.add_column.non_null_default.rewrite.warn", "warning",
               "add_column", {"not_null", "default"}) }

\* ADD COLUMN ... NOT NULL without a default fails on a table with rows.
AddColumnNoDefaultRules ==
    { [OnAction("ddl.pg.alter.add_column.non_null_no_default.warn", "warning", "add_column", {"not_null"})
          EXCEPT !.none = {"default"}] }

\* ADD CHECK scans the table unless NOT VALID.
ConstraintMigrationRules ==
    { [OnAction("ddl.pg.alter.add_check.not_valid.require", "warning", "add_constraint", {"constraint_type=check"})
          EXCEPT !.none = {"not_valid"}] }

\* SET DATA TYPE may rewrite.
SetDataTypeRules ==
    { OnAction("ddl.pg.alter.set_data_type.rewrite.warn", "warning", "set_data_type", {}) }

\* ADD UNIQUE builds its index under a lock.
ConstraintAdvisoryRules ==
    { OnAction("ddl.pg.alter.add_unique_constraint.concurrent_index.advisory", "notice",
               "add_constraint", {"constraint_type=unique"}) }

\* DROP CONSTRAINT.
DropConstraintRules ==
    { OnAction("ddl.pg.alter.drop_constraint.advisory", "notice", "drop_constraint", {}) }

(***************************************************************************)
(* ALTER TABLE (postgresql_alter_table_rules.go).                          *)
(***************************************************************************)
\* A nullable column without a default; the other columns are the migration rules'.
AddColumnNullableRules ==
    { [OnAction("ddl.pg.alter.add_column.nullable.notice", "notice", "add_column", {})
          EXCEPT !.none = {"not_null", "default"}] }

\* One rule per action.
AlterActionRules ==
    { OnAction("ddl.pg.alter.drop_column.advisory", "warning", "drop_column", {}),
      OnAction("ddl.pg.alter.validate_constraint.advisory", "notice", "validate_constraint", {}),
      OnAction("ddl.pg.alter.set_schema.advisory", "notice", "set_schema", {}),
      OnAction("ddl.pg.alter.owner.advisory", "notice", "change_owner", {}),
      OnAction("ddl.pg.alter.enable_trigger.notice", "notice", "enable_trigger", {}),
      OnAction("ddl.pg.alter.disable_trigger.warn", "warning", "disable_trigger", {}),
      OnAction("ddl.pg.alter.attach_partition.advisory", "notice", "attach_partition", {}),
      OnAction("ddl.pg.alter.detach_partition.warn", "warning", "detach_partition", {}),
      OnAction("ddl.pg.alter.set_logged.notice", "notice", "set_logged", {}),
      OnAction("ddl.pg.alter.set_unlogged.notice", "notice", "set_unlogged", {}) }

\* Where and how a table is stored.
StorageLayoutRules ==
    { OnAction("ddl.pg.alter.set_tablespace.notice", "notice", "set_tablespace", {}),
      OnAction("ddl.pg.alter.set_access_method.warn", "warning", "set_access_method", {}),
      OnAction("ddl.pg.alter.set_reloptions.warn", "warning", "set_reloptions", {}),
      OnAction("ddl.pg.alter.reset_reloptions.notice", "notice", "reset_reloptions", {}) }

\* How a column is stored; clustering and DETACH ... FINALIZE share the engine.
ColumnStorageRules ==
    { OnAction("ddl.pg.alter.set_column_statistics.notice", "notice", "set_statistics", {}),
      OnAction("ddl.pg.alter.set_column_options.notice", "notice", "set_column_options", {}),
      OnAction("ddl.pg.alter.reset_column_options.notice", "notice", "reset_column_options", {}),
      OnAction("ddl.pg.alter.set_column_storage.notice", "notice", "set_storage", {}),
      OnAction("ddl.pg.alter.set_column_compression.notice", "notice", "set_compression", {}),
      OnAction("ddl.pg.alter.cluster_on.notice", "notice", "cluster_on", {}),
      OnAction("ddl.pg.alter.set_without_cluster.notice", "notice", "set_without_cluster", {}),
      OnAction("ddl.pg.alter.detach_partition_finalize.notice", "notice",
               "detach_partition_finalize", {}) }

\* When triggers and rewrite rules fire.
FiringRules ==
    { OnAction("ddl.pg.alter.enable_replica_trigger.notice", "notice",
               "enable_replica_trigger", {}),
      OnAction("ddl.pg.alter.enable_always_trigger.notice", "notice", "enable_always_trigger", {}),
      OnAction("ddl.pg.alter.enable_rule.notice", "notice", "enable_rule", {}),
      OnAction("ddl.pg.alter.disable_rule.warn", "warning", "disable_rule", {}),
      OnAction("ddl.pg.alter.enable_replica_rule.notice", "notice", "enable_replica_rule", {}),
      OnAction("ddl.pg.alter.enable_always_rule.notice", "notice", "enable_always_rule", {}) }

\* REPLICA IDENTITY DEFAULT has no rule.
ReplicaIdentityRules ==
    { OnAction("ddl.pg.alter.replica_identity_full.warn", "warning", "replica_identity",
               {"identity=full"}),
      OnAction("ddl.pg.alter.replica_identity_nothing.warn", "warning", "replica_identity",
               {"identity=nothing"}),
      OnAction("ddl.pg.alter.replica_identity_using_index.notice", "notice",
               "replica_identity", {"identity=using_index"}) }

\* INHERIT and OF.
RelationshipRules ==
    { OnAction("ddl.pg.alter.add_inherit.notice", "notice", "add_inherit", {}),
      OnAction("ddl.pg.alter.drop_inherit.notice", "notice", "drop_inherit", {}),
      OnAction("ddl.pg.alter.add_of_type.notice", "notice", "add_of_type", {}),
      OnAction("ddl.pg.alter.drop_of_type.notice", "notice", "drop_of_type", {}) }

\* ALTER CONSTRAINT.
DeferrabilityRules ==
    { OnAction("ddl.pg.alter.constraint_deferrable.notice", "notice",
               "alter_constraint_deferrable", {}),
      OnAction("ddl.pg.alter.constraint_initially_deferred.notice", "notice",
               "alter_constraint_initially_deferred", {}) }

\* These look at the actions of any statement, with a table or without.
BoundedNoticeRules ==
    { Anywhere("ddl.pg.alter.set_expression.notice", "notice", "set_expression"),
      Anywhere("ddl.pg.alter.add_identity.notice", "notice", "add_identity"),
      Anywhere("ddl.pg.alter.add_exclusion_constraint.notice", "notice",
               "add_exclusion_constraint"),
      Anywhere("ddl.pg.alter.move_all_tablespace.notice", "notice", "move_all_tablespace") }

(***************************************************************************)
(* Objects: one file of the code each.                                     *)
(***************************************************************************)
\* Schemas and sequences.
SchemaSequenceRules ==
    { OnType("ddl.pg.create_schema.notice", "notice", "create_schema", "schema", {}),
      On("ddl.pg.drop_schema.advisory", "notice", "drop_schema", {}),
      On("ddl.pg.drop_schema.cascade.warn", "warning", "drop_schema", {"cascade"}),
      On("ddl.pg.create_sequence.cycle.warn", "warning", "create_sequence", {"cycle"}),
      On("ddl.pg.alter_sequence.restart.warn", "warning", "alter_sequence", {"restart"}),
      On("ddl.pg.alter_sequence.cycle.warn", "warning", "alter_sequence", {"cycle"}),
      On("ddl.pg.drop_sequence.advisory", "notice", "drop_sequence", {}),
      On("ddl.pg.drop_sequence.cascade.warn", "warning", "drop_sequence", {"cascade"}) }

\* Materialized views, and the actions on schemas and indexes.
ObjectActionRules ==
    { On("ddl.pg.drop_materialized_view.advisory", "notice", "drop_materialized_view", {}),
      On("ddl.pg.drop_materialized_view.cascade.warn", "warning", "drop_materialized_view",
               {"cascade"}),
      OnType("ddl.pg.alter_schema.rename.notice", "notice", "alter_schema", "schema",
               {"action=rename"}),
      OnType("ddl.pg.alter_schema.owner.notice", "notice", "alter_schema", "schema",
               {"action=set_owner"}),
      OnType("ddl.pg.alter_index.rename.notice", "notice", "alter_index", "index",
               {"action=rename"}),
      OnType("ddl.pg.alter_index.set_tablespace.notice", "notice", "alter_index", "index",
               {"action=set_tablespace"}),
      On("ddl.pg.alter_materialized_view.rename.notice", "notice", "alter_materialized_view",
               {"action=rename"}),
      On("ddl.pg.alter_materialized_view.set_schema.notice", "notice",
               "alter_materialized_view", {"action=set_schema"}) }

\* Views. The two ALTER VIEW rules have the same condition.
AdvancedViewRules ==
    { On("ddl.pg.create_or_replace_view.advisory", "notice", "create_view", {"replace"}),
      On("ddl.pg.create_temp_view.notice", "notice", "create_view", {"temporary"}),
      On("ddl.pg.create_view.check_option.notice", "notice", "create_view", {"check_option"}),
      OnType("ddl.pg.alter_view.rename.notice", "notice", "alter_view", "view", {}),
      OnType("ddl.pg.alter_view.set_schema.notice", "notice", "alter_view", "view", {}),
      On("ddl.pg.drop_view.cascade.warn", "warning", "drop_view", {"cascade"}) }

\* REFRESH MATERIALIZED VIEW.
RefreshRules ==
    { [On("ddl.pg.refresh_materialized_view.concurrently.warn", "warning", "refresh_materialized_view", {})
          EXCEPT !.none = {"concurrently"}],
      On("ddl.pg.refresh_materialized_view.no_data.notice", "notice",
               "refresh_materialized_view", {"with_no_data"}) }

\* CREATE FUNCTION and CREATE PROCEDURE.
CreateRoutineRules ==
    { On("ddl.pg.create_function.notice", "notice", "create_function", {}),
      On("ddl.pg.create_function.security_definer.warn", "warning", "create_function",
               {"security_definer"}),
      On("ddl.pg.create_or_replace_function.advisory", "notice", "create_function", {"replace"}),
      On("ddl.pg.create_procedure.notice", "notice", "create_procedure", {}) }

\* DROP FUNCTION and DROP PROCEDURE.
DropRoutineRules ==
    { On("ddl.pg.drop_function.advisory", "notice", "drop_function", {}),
      On("ddl.pg.drop_procedure.advisory", "notice", "drop_procedure", {}) }

\* Types; ADD VALUE BEFORE or AFTER has a rule of its own.
EnumTypeRules ==
    { On("ddl.pg.create_type.enum.notice", "notice", "create_type", {"type_kind=enum"}),
      On("ddl.pg.alter_type.add_value.advisory", "warning", "alter_type", {"action=add_value"}),
      On("ddl.pg.drop_type.advisory", "warning", "drop_type", {}),
      On("ddl.pg.drop_type.cascade.warn", "warning", "drop_type", {"cascade"}),
      [On("ddl.pg.alter_type.add_value.position.notice", "notice", "alter_type", {"action=add_value"})
          EXCEPT !.some = {"placement=before", "placement=after"}] }

\* The attributes and the name of a composite type.
CompositeTypeRules ==
    { On("ddl.pg.create_type.composite.notice", "notice", "create_type", {"type_kind=composite"}),
      On("ddl.pg.alter_type.composite_rename.notice", "notice", "alter_type", {"action=rename"}),
      On("ddl.pg.alter_type.composite_set_schema.notice", "notice", "alter_type",
               {"action=set_schema"}),
      On("ddl.pg.alter_type.add_attribute.notice", "notice", "alter_type",
               {"action=add_attribute"}),
      On("ddl.pg.alter_type.drop_attribute.warn", "warning", "alter_type",
               {"action=drop_attribute"}),
      On("ddl.pg.alter_type.alter_attribute_type.warn", "warning", "alter_type",
               {"action=alter_attribute_type"}),
      On("ddl.pg.alter_type.rename_attribute.notice", "notice", "alter_type",
               {"action=rename_attribute"}) }

\* Domains; a rule may name several actions.
DomainRules ==
    { On("ddl.pg.create_domain.notice", "notice", "create_domain", {}),
      [On("ddl.pg.alter_domain.constraint.notice", "notice", "alter_domain", {})
          EXCEPT !.some =
             {"action=add_constraint", "action=drop_constraint", "action=validate_constraint"}],
      [On("ddl.pg.alter_domain.default.notice", "notice", "alter_domain", {})
          EXCEPT !.some = {"action=set_default", "action=drop_default"}],
      [On("ddl.pg.alter_domain.not_null.notice", "notice", "alter_domain", {})
          EXCEPT !.some = {"action=set_not_null", "action=drop_not_null"}],
      On("ddl.pg.alter_domain.rename.notice", "notice", "alter_domain", {"action=rename"}),
      On("ddl.pg.drop_domain.advisory", "warning", "drop_domain", {}),
      On("ddl.pg.drop_domain.cascade.warn", "warning", "drop_domain", {"cascade"}) }

\* Extensions and their members.
ExtensionRules ==
    { On("ddl.pg.create_extension.notice", "notice", "create_extension", {}),
      On("ddl.pg.create_extension.cascade.warn", "warning", "create_extension", {"cascade"}),
      On("ddl.pg.alter_extension.update.notice", "notice", "alter_extension", {"action=update"}),
      On("ddl.pg.alter_extension.set_schema.notice", "notice", "alter_extension",
               {"action=set_schema"}),
      On("ddl.pg.drop_extension.advisory", "warning", "drop_extension", {}),
      On("ddl.pg.drop_extension.cascade.warn", "warning", "drop_extension", {"cascade"}),
      On("ddl.pg.alter_extension.add_member.notice", "notice", "alter_extension",
               {"action=add_member"}),
      On("ddl.pg.alter_extension.drop_member.warn", "warning", "alter_extension",
               {"action=drop_member"}) }

\* GRANT and REVOKE on tables.
PrivilegeRules ==
    { On("ddl.pg.grant.table_privilege.notice", "notice", "grant_table", {}),
      On("ddl.pg.grant.table_privilege.all.warn", "warning", "grant_table", {"all_privileges"}),
      On("ddl.pg.revoke.table_privilege.notice", "notice", "revoke_table", {}),
      On("ddl.pg.revoke.table_privilege.cascade.warn", "warning", "revoke_table", {"cascade"}) }

\* Row-level security: policies and the table switches.
PolicyRules ==
    { OnType("ddl.pg.create_policy.notice", "notice", "create_policy", "policy", {}),
      OnType("ddl.pg.alter_policy.notice", "notice", "alter_policy", "policy", {}),
      OnType("ddl.pg.drop_policy.warn", "warning", "drop_policy", "policy", {}),
      OnAction("ddl.pg.alter.enable_rls.notice", "notice", "enable_rls", {}),
      OnAction("ddl.pg.alter.disable_rls.warn", "warning", "disable_rls", {}),
      OnAction("ddl.pg.alter.force_rls.notice", "notice", "force_rls", {}),
      OnAction("ddl.pg.alter.no_force_rls.notice", "notice", "no_force_rls", {}) }

\* Triggers.
TriggerRules ==
    { OnType("ddl.pg.create_trigger.notice", "notice", "create_trigger", "trigger", {}),
      OnType("ddl.pg.create_constraint_trigger.warn", "warning", "create_trigger", "trigger",
               {"constraint"}),
      OnType("ddl.pg.drop_trigger.advisory", "notice", "drop_trigger", "trigger", {}) }

\* Event triggers and rewrite rules; "non_disable" is any other action.
EventRules ==
    { On("ddl.pg.create_event_trigger.notice", "notice", "create_event_trigger", {}),
      [On("ddl.pg.alter_event_trigger.notice", "notice", "alter_event_trigger", {})
          EXCEPT !.some = EventTriggerStates],
      On("ddl.pg.alter_event_trigger.disable.warn", "warning", "alter_event_trigger",
               {"action=disable"}),
      On("ddl.pg.drop_event_trigger.warn", "warning", "drop_event_trigger", {}),
      On("ddl.pg.create_rule.notice", "notice", "create_rule", {}),
      On("ddl.pg.alter_rule.notice", "notice", "alter_rule", {"action=rename"}),
      On("ddl.pg.drop_rule.warn", "warning", "drop_rule", {}) }

\* Publications and subscriptions.
ReplicationRules ==
    { On("ddl.pg.create_publication.notice", "notice", "create_publication", {}),
      On("ddl.pg.alter_publication.notice", "notice", "alter_publication", {}),
      On("ddl.pg.drop_publication.warn", "warning", "drop_publication", {}),
      On("ddl.pg.create_subscription.notice", "notice", "create_subscription", {}),
      On("ddl.pg.alter_subscription.notice", "notice", "alter_subscription", {}),
      On("ddl.pg.alter_subscription.disable.warn", "warning", "alter_subscription",
               {"action=disable"}),
      On("ddl.pg.drop_subscription.warn", "warning", "drop_subscription", {}) }

\* Foreign tables and servers.
ForeignObjectRules ==
    { On("ddl.pg.create_foreign_table.notice", "notice", "create_foreign_table", {}),
      On("ddl.pg.alter_foreign_table.notice", "notice", "alter_foreign_table", {}),
      On("ddl.pg.drop_foreign_table.warn", "warning", "drop_foreign_table", {}),
      On("ddl.pg.create_foreign_server.notice", "notice", "create_foreign_server", {}),
      On("ddl.pg.alter_foreign_server.notice", "notice", "alter_foreign_server", {}),
      On("ddl.pg.drop_foreign_server.warn", "warning", "drop_foreign_server", {}) }

\* User mappings and foreign data wrappers.
ForeignMappingRules ==
    { On("ddl.pg.create_user_mapping.notice", "notice", "create_user_mapping", {}),
      On("ddl.pg.alter_user_mapping.notice", "notice", "alter_user_mapping", {}),
      On("ddl.pg.drop_user_mapping.warn", "warning", "drop_user_mapping", {}),
      On("ddl.pg.create_foreign_data_wrapper.notice", "notice", "create_foreign_data_wrapper", {}),
      On("ddl.pg.alter_foreign_data_wrapper.notice", "notice", "alter_foreign_data_wrapper", {}),
      On("ddl.pg.drop_foreign_data_wrapper.warn", "warning", "drop_foreign_data_wrapper", {}) }

\* COMMENT and SECURITY LABEL; IS NULL removes.
AnnotationRules ==
    { On("ddl.pg.comment_on.notice", "notice", "comment_on", {"is_null=false"}),
      On("ddl.pg.comment_on.remove.notice", "notice", "comment_on", {"is_null"}),
      On("ddl.pg.security_label.notice", "notice", "security_label", {"is_null=false"}),
      On("ddl.pg.security_label.remove.notice", "notice", "security_label", {"is_null"}) }

\* Collations.
CollationRules ==
    { On("ddl.pg.create_collation.notice", "notice", "create_collation", {}),
      On("ddl.pg.alter_collation.notice", "notice", "alter_collation", {}),
      On("ddl.pg.drop_collation.warn", "warning", "drop_collation", {}) }

\* Extended statistics.
StatisticsRules ==
    { On("ddl.pg.create_statistics.notice", "notice", "create_statistics", {}),
      On("ddl.pg.alter_statistics.notice", "notice", "alter_statistics", {}),
      On("ddl.pg.drop_statistics.warn", "warning", "drop_statistics", {}) }

\* Aggregates, operators and conversions.
SemanticObjectRules ==
    { On("ddl.pg.create_aggregate.notice", "notice", "create_aggregate", {}),
      On("ddl.pg.alter_aggregate.notice", "notice", "alter_aggregate", {}),
      On("ddl.pg.drop_aggregate.warn", "warning", "drop_aggregate", {}),
      On("ddl.pg.create_operator.notice", "notice", "create_operator", {}),
      On("ddl.pg.alter_operator.notice", "notice", "alter_operator", {}),
      On("ddl.pg.drop_operator.warn", "warning", "drop_operator", {}),
      On("ddl.pg.create_conversion.notice", "notice", "create_conversion", {}),
      On("ddl.pg.alter_conversion.notice", "notice", "alter_conversion", {}),
      On("ddl.pg.drop_conversion.warn", "warning", "drop_conversion", {}) }

\* Operator families and classes.
OperatorFamilyRules ==
    { On("ddl.pg.create_operator_family.notice", "notice", "create_operator_family", {}),
      On("ddl.pg.alter_operator_family.notice", "notice", "alter_operator_family", {}),
      On("ddl.pg.drop_operator_family.warn", "warning", "drop_operator_family", {}),
      On("ddl.pg.create_operator_class.notice", "notice", "create_operator_class", {}),
      On("ddl.pg.alter_operator_class.notice", "notice", "alter_operator_class", {}),
      On("ddl.pg.drop_operator_class.warn", "warning", "drop_operator_class", {}) }

\* Transforms, access methods, large objects.
BoundaryRules ==
    { On("ddl.pg.create_transform.notice", "notice", "create_transform", {}),
      On("ddl.pg.create_access_method.notice", "notice", "create_access_method", {}),
      On("ddl.pg.drop_transform.warn", "warning", "drop_transform", {}),
      On("ddl.pg.drop_access_method.warn", "warning", "drop_access_method", {}),
      On("ddl.pg.alter_large_object.owner.notice", "notice", "alter_large_object", {}) }

\* Text search configurations and dictionaries.
TextSearchRules ==
    { On("ddl.pg.create_text_search_configuration.notice", "notice",
               "create_text_search_configuration", {}),
      On("ddl.pg.alter_text_search_configuration.notice", "notice",
               "alter_text_search_configuration", {}),
      On("ddl.pg.drop_text_search_configuration.warn", "warning",
               "drop_text_search_configuration", {}),
      On("ddl.pg.create_text_search_dictionary.notice", "notice",
               "create_text_search_dictionary", {}),
      On("ddl.pg.alter_text_search_dictionary.notice", "notice",
               "alter_text_search_dictionary", {}),
      On("ddl.pg.drop_text_search_dictionary.warn", "warning", "drop_text_search_dictionary", {}) }

\* Text search parsers and templates.
TextSearchParserRules ==
    { On("ddl.pg.create_text_search_parser.notice", "notice", "create_text_search_parser", {}),
      On("ddl.pg.alter_text_search_parser.notice", "notice", "alter_text_search_parser", {}),
      On("ddl.pg.drop_text_search_parser.warn", "warning", "drop_text_search_parser", {}),
      On("ddl.pg.create_text_search_template.notice", "notice", "create_text_search_template", {}),
      On("ddl.pg.alter_text_search_template.notice", "notice", "alter_text_search_template", {}),
      On("ddl.pg.drop_text_search_template.warn", "warning", "drop_text_search_template", {}) }

\* All of them.
PgStatementRules ==
    UNION { IndexMigrationRules, DropIndexRules, AddColumnMigrationRules,
            AddColumnNoDefaultRules, ConstraintMigrationRules, SetDataTypeRules,
            ConstraintAdvisoryRules, DropConstraintRules, AddColumnNullableRules,
            AlterActionRules, StorageLayoutRules, ColumnStorageRules,
            FiringRules, ReplicaIdentityRules, RelationshipRules,
            DeferrabilityRules, BoundedNoticeRules, SchemaSequenceRules,
            ObjectActionRules, AdvancedViewRules, RefreshRules,
            CreateRoutineRules, DropRoutineRules, EnumTypeRules,
            CompositeTypeRules, DomainRules, ExtensionRules,
            PrivilegeRules, PolicyRules, TriggerRules,
            EventRules, ReplicationRules, ForeignObjectRules,
            ForeignMappingRules, AnnotationRules, CollationRules,
            StatisticsRules, SemanticObjectRules, OperatorFamilyRules,
            BoundaryRules, TextSearchRules, TextSearchParserRules }

=============================================================================
