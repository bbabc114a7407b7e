--------------------------- MODULE PolicyDefaults ---------------------------
(***************************************************************************)
(* The default policy (domain/policy/defaults_ddl*.go) for the rules that  *)
(* are modelled, what a policy file makes of it (viper/loader.go), and     *)
(* what it takes for a rule to be loaded (domain/policy/suppression.go,    *)
(* domain/rule/ddl/register.go).                                           *)
(*                                                                         *)
(* A setting is what the policy says of one rule: whether it is enabled,   *)
(* the level of its findings ("" when none is written), and the switch of  *)
(* its parameter: "on" or "off" for "forbid" and "required", "on" for a    *)
(* naming pattern that is not empty, "absent" when nothing is written.     *)
(***************************************************************************)
EXTENDS SharedRules, PgRules

SettingOf(id, enabled, level, switch) ==
    [id |-> id, enabled |-> enabled, level |-> level, switch |-> switch]

\* What a policy may hold; nothing checks that a level it writes is one of the three.
Settings == [id : STRING, enabled : BOOLEAN, level : STRING, switch : {"on", "off", "absent"}]

Default(level, ids) == {SettingOf(id, TRUE, level, "on") : id \in ids}

SwitchedOff(level, ids) == {SettingOf(id, TRUE, level, "off") : id \in ids}

\* The naming of foreign keys; no pattern is set.
ForeignKeyNamingDefaults ==
    SwitchedOff("warning",
          {"ddl.constraint.foreign_key.name.prefix.require",
           "ddl.constraint.foreign_key.name.suffix.require",
           "ddl.constraint.foreign_key.name.contains.require"})

\* Foreign keys, and the operations that are refused.
TableDefaults ==
    Default("blocker",
          {"ddl.table.foreign_key.forbid", "ddl.view.create.forbid",
           "ddl.view.drop.forbid", "ddl.table.drop.forbid", "ddl.table.truncate.forbid"})

\* Databases and the notices of MySQL and TiDB.
LifecycleDefaults ==
    Default("notice",
          {"ddl.database.create.notice", "ddl.rename_table.notice",
           "ddl.create_index.notice", "ddl.drop_index.notice",
           "ddl.alter_database.notice", "ddl.create_procedure.notice",
           "ddl.drop_procedure.notice", "ddl.create_user.notice",
           "ddl.alter_user.notice", "ddl.drop_user.notice", "ddl.create_role.notice",
           "ddl.drop_role.notice", "ddl.grant.notice", "ddl.revoke.notice",
           "ddl.drop_resource_group.notice", "ddl.create_placement_policy.notice",
           "ddl.alter_placement_policy.notice", "ddl.drop_placement_policy.notice",
           "ddl.create_sequence.notice", "ddl.alter_sequence.notice",
           "ddl.drop_sequence.notice", "ddl.alter.add_column.notice",
           "ddl.alter.add_constraint.notice", "ddl.alter.drop_column.notice",
           "ddl.alter.modify_column.notice", "ddl.alter.drop_index.notice",
           "ddl.alter.drop_foreign_key.notice",
           "ddl.tidb.alter_table.placement_policy.notice"})
    \cup Default("warning",
          {"ddl.database.drop.warn"})

\* Actions that are refused, or would be.
AlterDefaults ==
    SwitchedOff("warning",
          {"ddl.alter.drop_column.forbid", "ddl.alter.drop_index.forbid"})
    \cup Default("blocker",
          {"ddl.alter.drop_primary_key.forbid", "ddl.alter.rename_table.forbid",
           "ddl.alter.rename_column.forbid", "ddl.alter.rename_index.forbid"})

\* CHANGE and MODIFY COLUMN, and the actions of PostgreSQL.
ColumnActionDefaults ==
    Default("warning",
          {"ddl.alter.set_data_type.forbid", "ddl.alter.set_default.forbid",
           "ddl.alter.drop_default.forbid", "ddl.alter.set_not_null.forbid",
           "ddl.alter.drop_not_null.forbid", "ddl.alter.drop_expression.forbid",
           "ddl.alter.set_generated.forbid", "ddl.alter.drop_identity.forbid"})
    \cup SwitchedOff("warning",
          {"ddl.alter.modify_column.forbid"})
    \cup Default("blocker",
          {"ddl.alter.change_column.forbid"})

\* Explicit changes, and repeated ALTER TABLE.
ExplicitChangeDefaults ==
    Default("notice",
          {"ddl.alter.modify_column.explicit_nullability_change.unknown_prior_state.advisory"})
    \cup Default("warning",
          {"ddl.alter.merge.mysql.require"})
    \cup SwitchedOff("warning",
          {"ddl.alter.merge.tidb.require"})
    \cup Default("blocker",
          {"ddl.alter.change_column.explicit_nullability_change.forbid",
           "ddl.alter.modify_column.explicit_default_change.forbid",
           "ddl.alter.change_column.explicit_default_change.forbid",
           "ddl.alter.modify_column.explicit_auto_increment_change.forbid",
           "ddl.alter.change_column.explicit_auto_increment_change.forbid",
           "ddl.alter.set_default.explicit_default_change.forbid",
           "ddl.alter.drop_default.explicit_default_change.forbid",
           "ddl.alter.set_not_null.explicit_nullability_change.forbid",
           "ddl.alter.drop_not_null.explicit_nullability_change.forbid"})

\* Migration safety.
PgMigrationDefaults ==
    Default("notice",
          {"ddl.pg.table.foreign_key.cross_schema.advisory",
           "ddl.pg.drop_index.advisory",
           "ddl.pg.alter.add_unique_constraint.concurrent_index.advisory",
           "ddl.pg.alter.drop_constraint.advisory"})
    \cup Default("warning",
          {"ddl.pg.create_index.concurrently.require",
           "ddl.pg.alter.add_column.non_null_default.rewrite.warn",
           "ddl.pg.alter.add_check.not_valid.require",
           "ddl.pg.alter.set_data_type.rewrite.warn",
           "ddl.pg.alter.not_valid_constraint.validate.require",
           "ddl.pg.alter.add_column.non_null_no_default.warn"})

\* ALTER TABLE.
PgTableDefaults ==
    Default("notice",
          {"ddl.pg.alter.validate_constraint.advisory",
           "ddl.pg.alter.add_column.nullable.notice", "ddl.pg.alter.set_schema.advisory",
           "ddl.pg.alter.owner.advisory", "ddl.pg.alter.enable_trigger.notice",
           "ddl.pg.alter.attach_partition.advisory", "ddl.pg.alter.set_logged.notice",
           "ddl.pg.alter.set_unlogged.notice", "ddl.pg.alter.set_tablespace.notice",
           "ddl.pg.alter.enable_replica_trigger.notice",
           "ddl.pg.alter.enable_always_trigger.notice",
           "ddl.pg.alter.enable_rule.notice", "ddl.pg.alter.enable_replica_rule.notice",
           "ddl.pg.alter.enable_always_rule.notice",
           "ddl.pg.alter.reset_reloptions.notice",
           "ddl.pg.alter.set_column_statistics.notice",
           "ddl.pg.alter.set_column_options.notice",
           "ddl.pg.alter.reset_column_options.notice",
           "ddl.pg.alter.set_column_storage.notice",
           "ddl.pg.alter.set_column_compression.notice",
           "ddl.pg.alter.cluster_on.notice", "ddl.pg.alter.set_without_cluster.notice"})
    \cup Default("warning",
          {"ddl.pg.alter.drop_column.advisory", "ddl.pg.alter.disable_trigger.warn",
           "ddl.pg.alter.detach_partition.warn", "ddl.pg.alter.set_access_method.warn",
           "ddl.pg.alter.disable_rule.warn", "ddl.pg.alter.set_reloptions.warn"})

\* Schemas, sequences, materialized views.
PgObjectDefaults ==
    Default("notice",
          {"ddl.pg.alter.detach_partition_finalize.notice",
           "ddl.pg.alter.replica_identity_using_index.notice",
           "ddl.pg.drop_schema.advisory", "ddl.pg.create_schema.notice",
           "ddl.pg.drop_sequence.advisory", "ddl.pg.drop_materialized_view.advisory",
           "ddl.pg.refresh_materialized_view.no_data.notice"})
    \cup Default("warning",
          {"ddl.pg.alter.replica_identity_full.warn",
           "ddl.pg.alter.replica_identity_nothing.warn",
           "ddl.pg.drop_schema.cascade.warn", "ddl.pg.create_sequence.cycle.warn",
           "ddl.pg.alter_sequence.restart.warn", "ddl.pg.alter_sequence.cycle.warn",
           "ddl.pg.drop_sequence.cascade.warn",
           "ddl.pg.drop_materialized_view.cascade.warn",
           "ddl.pg.refresh_materialized_view.concurrently.warn"})

\* Types, domains, table privileges.
PgTypeDefaults ==
    Default("notice",
          {"ddl.pg.create_type.enum.notice",
           "ddl.pg.alter_type.add_value.position.notice",
           "ddl.pg.create_type.composite.notice",
           "ddl.pg.alter_type.composite_rename.notice",
           "ddl.pg.alter_type.composite_set_schema.notice",
           "ddl.pg.alter_type.add_attribute.notice",
           "ddl.pg.alter_type.rename_attribute.notice", "ddl.pg.create_domain.notice",
           "ddl.pg.alter_domain.constraint.notice", "ddl.pg.alter_domain.default.notice",
           "ddl.pg.alter_domain.not_null.notice", "ddl.pg.alter_domain.rename.notice",
           "ddl.pg.grant.table_privilege.notice", "ddl.pg.revoke.table_privilege.notice"})
    \cup Default("warning",
          {"ddl.pg.alter_type.add_value.advisory", "ddl.pg.drop_type.advisory",
           "ddl.pg.drop_type.cascade.warn", "ddl.pg.alter_type.drop_attribute.warn",
           "ddl.pg.alter_type.alter_attribute_type.warn", "ddl.pg.drop_domain.advisory",
           "ddl.pg.drop_domain.cascade.warn", "ddl.pg.grant.table_privilege.all.warn",
           "ddl.pg.revoke.table_privilege.cascade.warn"})

\* Extensions, policies, triggers, routines.
PgExtensionDefaults ==
    Default("notice",
          {"ddl.pg.create_extension.notice", "ddl.pg.alter_extension.update.notice",
           "ddl.pg.alter_extension.set_schema.notice",
           "ddl.pg.alter_extension.add_member.notice", "ddl.pg.create_policy.notice",
           "ddl.pg.alter_policy.notice", "ddl.pg.alter.enable_rls.notice",
           "ddl.pg.alter.force_rls.notice", "ddl.pg.alter.no_force_rls.notice",
           "ddl.pg.create_trigger.notice", "ddl.pg.drop_trigger.advisory",
           "ddl.pg.create_function.notice", "ddl.pg.create_or_replace_function.advisory",
           "ddl.pg.drop_function.advisory", "ddl.pg.create_procedure.notice",
           "ddl.pg.drop_procedure.advisory"})
    \cup Default("warning",
          {"ddl.pg.create_extension.cascade.warn", "ddl.pg.drop_extension.advisory",
           "ddl.pg.drop_extension.cascade.warn",
           "ddl.pg.alter_extension.drop_member.warn", "ddl.pg.drop_policy.warn",
           "ddl.pg.alter.disable_rls.warn", "ddl.pg.create_constraint_trigger.warn",
           "ddl.pg.create_function.security_definer.warn"})

\* Views, replication.
PgViewDefaults ==
    Default("notice",
          {"ddl.pg.create_or_replace_view.advisory", "ddl.pg.create_temp_view.notice",
           "ddl.pg.create_view.check_option.notice", "ddl.pg.alter_view.rename.notice",
           "ddl.pg.alter_view.set_schema.notice", "ddl.pg.alter_schema.rename.notice",
           "ddl.pg.alter_schema.owner.notice", "ddl.pg.alter_index.rename.notice",
           "ddl.pg.alter_index.set_tablespace.notice",
           "ddl.pg.alter_materialized_view.rename.notice",
           "ddl.pg.alter_materialized_view.set_schema.notice",
           "ddl.pg.create_publication.notice", "ddl.pg.alter_publication.notice",
           "ddl.pg.create_subscription.notice", "ddl.pg.alter_subscription.notice"})
    \cup Default("warning",
          {"ddl.pg.drop_view.cascade.warn", "ddl.pg.drop_publication.warn",
           "ddl.pg.alter_subscription.disable.warn", "ddl.pg.drop_subscription.warn"})

\* Foreign objects, annotations, event triggers, rules, collations.
PgForeignDefaults ==
    Default("notice",
          {"ddl.pg.create_foreign_table.notice", "ddl.pg.alter_foreign_table.notice",
           "ddl.pg.create_foreign_server.notice", "ddl.pg.alter_foreign_server.notice",
           "ddl.pg.create_user_mapping.notice", "ddl.pg.alter_user_mapping.notice",
           "ddl.pg.create_foreign_data_wrapper.notice",
           "ddl.pg.alter_foreign_data_wrapper.notice", "ddl.pg.comment_on.notice",
           "ddl.pg.comment_on.remove.notice", "ddl.pg.security_label.notice",
           "ddl.pg.security_label.remove.notice", "ddl.pg.create_event_trigger.notice",
           "ddl.pg.alter_event_trigger.notice", "ddl.pg.create_rule.notice",
           "ddl.pg.alter_rule.notice", "ddl.pg.create_collation.notice",
           "ddl.pg.alter_collation.notice"})
    \cup Default("warning",
          {"ddl.pg.drop_foreign_table.warn", "ddl.pg.drop_foreign_server.warn",
           "ddl.pg.drop_user_mapping.warn", "ddl.pg.drop_foreign_data_wrapper.warn",
           "ddl.pg.alter_event_trigger.disable.warn", "ddl.pg.drop_event_trigger.warn",
           "ddl.pg.drop_rule.warn", "ddl.pg.drop_collation.warn"})

\* Statistics and the semantic objects.
PgSemanticDefaults ==
    Default("notice",
          {"ddl.pg.create_statistics.notice", "ddl.pg.alter_statistics.notice",
           "ddl.pg.create_aggregate.notice", "ddl.pg.alter_aggregate.notice",
           "ddl.pg.create_operator.notice", "ddl.pg.alter_operator.notice",
           "ddl.pg.create_conversion.notice", "ddl.pg.alter_conversion.notice",
           "ddl.pg.create_operator_family.notice", "ddl.pg.alter_operator_family.notice",
           "ddl.pg.create_operator_class.notice", "ddl.pg.alter_operator_class.notice",
           "ddl.pg.create_text_search_configuration.notice",
           "ddl.pg.alter_text_search_configuration.notice",
           "ddl.pg.create_text_search_dictionary.notice",
           "ddl.pg.alter_text_search_dictionary.notice",
           "ddl.pg.create_text_search_parser.notice",
           "ddl.pg.alter_text_search_parser.notice",
           "ddl.pg.create_text_search_template.notice",
           "ddl.pg.alter_text_search_template.notice"})
    \cup Default("warning",
          {"ddl.pg.drop_statistics.warn", "ddl.pg.drop_aggregate.warn",
           "ddl.pg.drop_operator.warn", "ddl.pg.drop_conversion.warn",
           "ddl.pg.drop_operator_family.warn", "ddl.pg.drop_operator_class.warn",
           "ddl.pg.drop_text_search_configuration.warn",
           "ddl.pg.drop_text_search_dictionary.warn",
           "ddl.pg.drop_text_search_parser.warn"})

\* Text search, transforms, relationships, deferrability, boundaries.
PgRelationshipDefaults ==
    Default("notice",
          {"ddl.pg.create_transform.notice", "ddl.pg.create_access_method.notice",
           "ddl.pg.alter_large_object.owner.notice", "ddl.pg.alter.add_inherit.notice",
           "ddl.pg.alter.drop_inherit.notice", "ddl.pg.alter.add_of_type.notice",
           "ddl.pg.alter.drop_of_type.notice",
           "ddl.pg.alter.constraint_deferrable.notice",
           "ddl.pg.alter.constraint_initially_deferred.notice",
           "ddl.pg.alter.set_expression.notice", "ddl.pg.alter.add_identity.notice",
           "ddl.pg.alter.add_exclusion_constraint.notice",
           "ddl.pg.alter.move_all_tablespace.notice"})
    \cup Default("warning",
          {"ddl.pg.drop_text_search_template.warn", "ddl.pg.drop_transform.warn",
           "ddl.pg.drop_access_method.warn"})

\* ddlRules
DefaultSettings ==
    UNION { ForeignKeyNamingDefaults, TableDefaults, LifecycleDefaults,
            AlterDefaults, ColumnActionDefaults, ExplicitChangeDefaults,
            PgMigrationDefaults, PgTableDefaults, PgObjectDefaults,
            PgTypeDefaults, PgExtensionDefaults, PgViewDefaults,
            PgForeignDefaults, PgSemanticDefaults, PgRelationshipDefaults }

DefaultPolicy ==
    [id \in {s.id : s \in DefaultSettings} |-> CHOOSE s \in DefaultSettings : s.id = id]

\* LoadPolicy: a setting of the policy file replaces the default one as a whole; what
\* it leaves out is not taken over from it.  A rule neither knows is not enabled.
Setting(file, id) ==
    CASE \E s \in file : s.id = id -> CHOOSE s \in file : s.id = id
      [] ~ (\E s \in file : s.id = id) /\ id \in DOMAIN DefaultPolicy -> DefaultPolicy[id]
      [] OTHER -> SettingOf(id, FALSE, "", "absent")

IsNamingRule(id) == \E r \in ForeignKeyNamingRules : r.id = id

\* boolParam: a parameter that is not written is on; a pattern that is not, empty.
SwitchedOn(setting) ==
    setting.switch \in IF IsNamingRule(setting.id) THEN {"on"} ELSE {"on", "absent"}

\* A mistake: the switch of the rule that forbids foreign keys is not looked at.
BugSuppressesForeignKeyNaming(file, id) ==
    IsNamingRule(id) /\ Setting(file, ForeignKeyForbid).enabled

\* SuppressesForeignKeyNaming: names are not governed while foreign keys themselves
\* are forbidden.
SuppressesForeignKeyNaming(file, id) ==
    LET forbid == Setting(file, ForeignKeyForbid)
    IN IsNamingRule(id) /\ forbid.enabled /\ forbid.switch # "off"

StatementRules == SharedStatementRules \cup PgStatementRules

\* Register constructs a rule that is enabled and not suppressed.
Registers(file, id) == Setting(file, id).enabled /\ ~SuppressesForeignKeyNaming(file, id)

\* The rules that are registered and, their parameter being on, can apply.
Loaded(file) ==
    {r \in StatementRules : Registers(file, r.id) /\ SwitchedOn(Setting(file, r.id))}

\* What is loaded without a policy file.
DefaultRules == Loaded({})

\* configuredLevel: the level of the policy or, when it has none, that of the rule.
ConfiguredLevel(file, r) ==
    IF Setting(file, r.id).level = "" THEN r.level ELSE Setting(file, r.id).level

=============================================================================
