----------------------------- MODULE PgAlterTable -----------------------------
(***************************************************************************)
(* ALTER TABLE of PostgreSQL and the entry point of the extraction         *)
(* (extractor_ddl_alter.go, alterFromCmd and what it is called from;       *)
(* extractor.go).  A statement with a command the code does not know is    *)
(* refused as a whole.                                                     *)
(***************************************************************************)
EXTENDS PgExtraction

NoAlter == Alter("none", "", {})

(***************************************************************************)
(* alterFromCmd, in the order of its cases.  Most subtypes are an action   *)
(* by another name.                                                        *)
(***************************************************************************)
\* Columns.  A column added carries whether it is NOT NULL and has a default; the
\* other constraints written with it are dropped.
ColumnAlter(cmd) ==
    CASE cmd.subtype = "AddColumn" ->
            Alter("add_column", "", cmd.flags \cap {"not_null", "default"})
      [] cmd.subtype = "DropColumn" -> Alter("drop_column", "", {})
      [] cmd.subtype = "DropExpression" -> Alter("drop_expression", "", {})
      [] cmd.subtype = "SetExpression" -> Alter("set_expression", "", {})
      [] cmd.subtype = "SetIdentity" -> Alter("set_generated", "", {})
      [] cmd.subtype = "DropIdentity" -> Alter("drop_identity", "", {})
      [] cmd.subtype = "AddIdentity" -> Alter("add_identity", "", {})
      [] cmd.subtype = "AlterColumnType" -> Alter("set_data_type", "", {})
      [] cmd.subtype = "ColumnDefault" ->
            Alter(IF "default" \in cmd.flags THEN "set_default" ELSE "drop_default",
                  "", {"touches_default"})
      [] cmd.subtype = "SetNotNull" -> Alter("set_not_null", "", {"touches_nullability"})
      [] cmd.subtype = "DropNotNull" -> Alter("drop_not_null", "", {"touches_nullability"})
      [] OTHER -> NoAlter

\* supportedConstraintType, as the option the action carries.
ConstraintTypes ==
    [ primary_key |-> "constraint_type=primary_key", unique |-> "constraint_type=unique",
      foreign_key |-> "constraint_type=foreign_key", check |-> "constraint_type=check" ]

\* Constraints: an exclusion constraint needs a name and is an action of its own.
ConstraintAlter(cmd) ==
    CASE cmd.subtype = "AddConstraint" /\ cmd.kind = "exclusion" ->
            IF cmd.name = "" THEN NoAlter ELSE Alter("add_exclusion_constraint", cmd.name, {})
      [] cmd.subtype = "AddConstraint" /\ cmd.kind \in DOMAIN ConstraintTypes ->
            Alter("add_constraint", cmd.name,
                  {ConstraintTypes[cmd.kind]} \cup (cmd.flags \cap {"not_valid"}))
      [] cmd.subtype = "DropConstraint" -> Alter("drop_constraint", cmd.name, {})
      [] cmd.subtype = "ValidateConstraint" -> Alter("validate_constraint", cmd.name, {})
      [] OTHER -> NoAlter

\* Owners, triggers, rules, partitions, storage and row-level security.
TableActions ==
    [ EnableTrig |-> "enable_trigger", EnableTrigAll |-> "enable_trigger",
      EnableTrigUser |-> "enable_trigger", DisableTrig |-> "disable_trigger",
      DisableTrigAll |-> "disable_trigger", DisableTrigUser |-> "disable_trigger",
      EnableReplicaTrig |-> "enable_replica_trigger", EnableAlwaysTrig |-> "enable_always_trigger",
      EnableRule |-> "enable_rule", DisableRule |-> "disable_rule",
      EnableReplicaRule |-> "enable_replica_rule", EnableAlwaysRule |-> "enable_always_rule",
      AttachPartition |-> "attach_partition", DetachPartition |-> "detach_partition",
      SetLogged |-> "set_logged", SetUnLogged |-> "set_unlogged",
      SetTableSpace |-> "set_tablespace", SetAccessMethod |-> "set_access_method",
      EnableRowSecurity |-> "enable_rls", DisableRowSecurity |-> "disable_rls",
      ForceRowSecurity |-> "force_rls", NoForceRowSecurity |-> "no_force_rls" ]

\* Storage parameters, column storage, clustering.
StorageActions ==
    [ SetRelOptions |-> "set_reloptions", ResetRelOptions |-> "reset_reloptions",
      SetStatistics |-> "set_statistics", SetOptions |-> "set_column_options",
      ResetOptions |-> "reset_column_options", SetStorage |-> "set_storage",
      SetCompression |-> "set_compression", ClusterOn |-> "cluster_on",
      DropCluster |-> "set_without_cluster",
      DetachPartitionFinalize |-> "detach_partition_finalize" ]

\* Inheritance, typed tables, OIDs.
RelationshipActions ==
    [ AddInherit |-> "add_inherit", DropInherit |-> "drop_inherit", AddOf |-> "add_of_type",
      DropOf |-> "drop_of_type", DropOids |-> "set_without_oids" ]

\* replicaIdentityFromDef.
ReplicaIdentities ==
    [ d |-> "identity=default", f |-> "identity=full", n |-> "identity=nothing",
      i |-> "identity=using_index" ]

\* ALTER CONSTRAINT of a foreign key; of anything else it is refused.
DeferrabilityAlter(cmd) ==
    IF cmd.kind # "foreign_key"
    THEN NoAlter
    ELSE Alter(IF "initially_deferred" \in cmd.flags
               THEN "alter_constraint_initially_deferred" ELSE "alter_constraint_deferrable",
               cmd.name, {"constraint_type=foreign_key"})

AlterFromCmd(cmd) ==
    CASE cmd.subtype = "ChangeOwner" ->
            IF "named_role" \in cmd.flags THEN Alter("change_owner", "", {}) ELSE NoAlter
      [] cmd.subtype = "ReplicaIdentity" ->
            IF cmd.kind \in DOMAIN ReplicaIdentities
            THEN Alter("replica_identity", "", {ReplicaIdentities[cmd.kind]}) ELSE NoAlter
      [] cmd.subtype = "AlterConstraint" -> DeferrabilityAlter(cmd)
      [] cmd.subtype \in DOMAIN TableActions -> Alter(TableActions[cmd.subtype], "", {})
      [] cmd.subtype \in DOMAIN StorageActions -> Alter(StorageActions[cmd.subtype], "", {})
      [] cmd.subtype \in DOMAIN RelationshipActions ->
            Alter(RelationshipActions[cmd.subtype], "", {})
      [] OTHER -> IF ColumnAlter(cmd) # NoAlter THEN ColumnAlter(cmd) ELSE ConstraintAlter(cmd)

\* projectAlterConstraintFK and projectAlterConstraintCheck: only a constraint that
\* is an action of its own becomes a constraint of the statement.
ProjectedConstraints(cmds) ==
    ElementConstraints(SelectSeq(cmds, LAMBDA cmd : cmd.subtype = "AddConstraint"))

\* extractAlterTypeCompositeFromAlterTableStmt: the first action of ALTER TYPE.
CompositeActions ==
    [ AddColumn |-> "action=add_attribute", DropColumn |-> "action=drop_attribute",
      AlterColumnType |-> "action=alter_attribute_type" ]

AlterCompositeType(node) ==
    IF node.cmds[1].subtype \in DOMAIN CompositeActions
    THEN Object("alter_type", "type", {"type_kind=composite", CompositeActions[node.cmds[1].subtype]})
    ELSE Unsupported

\* The first action of ALTER INDEX.
AlterIndexStmt(node) ==
    IF node.cmds[1].subtype = "SetTableSpace"
    THEN About("alter", node, {"action=set_tablespace"})
    ELSE Unsupported

AlterTableStmt(node) ==
    LET alters == [k \in DOMAIN node.cmds |-> AlterFromCmd(node.cmds[k])]
    IN CASE node.object = "OBJECT_TYPE" -> AlterCompositeType(node)
         [] node.object = "OBJECT_INDEX" -> AlterIndexStmt(node)
         [] node.object = "OBJECT_FOREIGN_TABLE" -> AlterForeignTableStmt(node)
         [] node.object = "OBJECT_TABLE" ->
               IF \E k \in DOMAIN alters : alters[k] = NoAlter
               THEN Unsupported
               ELSE [Ddl("alter_table", "", {}, node.table, alters)
                        EXCEPT !.constraints = ProjectedConstraints(node.cmds)]
         [] OTHER -> Unsupported

\* ALTER TABLE ALL IN TABLESPACE has no table.
AlterTableMoveAllStmt(node) ==
    IF node.object = "OBJECT_TABLE"
    THEN Ddl("alter_table", "", {}, NoTable, << Alter("move_all_tablespace", "", {}) >>)
    ELSE Unsupported

(***************************************************************************)
(* pgExtractor.Extract.  A node of any other type is refused; GRANT of a   *)
(* role and ALTER DEFAULT PRIVILEGES have a handler that refuses them.     *)
(***************************************************************************)
Extract(node) ==
    CASE node.node = "CreateStmt" -> CreateStmt(node)
      [] node.node = "ViewStmt" -> ViewStmt(node)
      [] node.node = "AlterTableStmt" -> AlterTableStmt(node)
      [] node.node = "AlterTableMoveAllStmt" -> AlterTableMoveAllStmt(node)
      [] node.node = "AlterObjectSchemaStmt" -> AlterObjectSchemaStmt(node)
      [] node.node = "RenameStmt" -> RenameStmt(node)
      [] node.node = "DropStmt" -> DropStmt(node)
      [] node.node = "IndexStmt" -> IndexStmt(node)
      [] node.node = "TruncateStmt" -> TruncateStmt(node)
      [] node.node = "CreateSchemaStmt" -> CreateSchemaStmt(node)
      [] node.node = "CreateSeqStmt" -> CreateSeqStmt(node)
      [] node.node = "AlterSeqStmt" -> AlterSeqStmt(node)
      [] node.node = "CreateTableAsStmt" -> CreateTableAsStmt(node)
      [] node.node = "RefreshMatViewStmt" -> RefreshMatViewStmt(node)
      [] node.node = "CreateEnumStmt" -> CreateEnumStmt(node)
      [] node.node = "AlterEnumStmt" -> AlterEnumStmt(node)
      [] node.node = "CompositeTypeStmt" -> CompositeTypeStmt(node)
      [] node.node = "CreateDomainStmt" -> CreateDomainStmt(node)
      [] node.node = "AlterDomainStmt" -> AlterDomainStmt(node)
      [] node.node = "CreateExtensionStmt" -> CreateExtensionStmt(node)
      [] node.node = "AlterExtensionStmt" -> AlterExtensionStmt(node)
      [] node.node = "AlterExtensionContentsStmt" -> AlterExtensionContentsStmt(node)
      [] node.node = "GrantStmt" -> GrantStmt(node)
      [] node.node = "CreatePolicyStmt" -> CreatePolicyStmt(node)
      [] node.node = "AlterPolicyStmt" -> AlterPolicyStmt(node)
      [] node.node = "CreateTrigStmt" -> CreateTrigStmt(node)
      [] node.node = "CreateFunctionStmt" -> CreateFunctionStmt(node)
      [] node.node = "CreatePublicationStmt" -> CreatePublicationStmt(node)
      [] node.node = "AlterPublicationStmt" -> AlterPublicationStmt(node)
      [] node.node = "CreateSubscriptionStmt" -> CreateSubscriptionStmt(node)
      [] node.node = "AlterSubscriptionStmt" -> AlterSubscriptionStmt(node)
      [] node.node = "DropSubscriptionStmt" -> DropSubscriptionStmt(node)
      [] node.node = "CreateForeignTableStmt" -> CreateForeignTableStmt(node)
      [] node.node = "CreateForeignServerStmt" -> ForeignServerStmt(node, "create")
      [] node.node = "AlterForeignServerStmt" -> ForeignServerStmt(node, "alter")
      [] node.node = "CreateUserMappingStmt" -> UserMappingStmt(node, "create")
      [] node.node = "AlterUserMappingStmt" -> UserMappingStmt(node, "alter")
      [] node.node = "DropUserMappingStmt" -> UserMappingStmt(node, "drop")
      [] node.node = "CreateFdwStmt" -> FdwStmt(node, "create")
      [] node.node = "AlterFdwStmt" -> FdwStmt(node, "alter")
      [] node.node = "CommentStmt" -> CommentStmt(node)
      [] node.node = "SecLabelStmt" -> SecLabelStmt(node)
      [] node.node = "CreateEventTrigStmt" -> CreateEventTrigStmt(node)
      [] node.node = "AlterEventTrigStmt" -> AlterEventTrigStmt(node)
      [] node.node = "RuleStmt" -> RuleStmt(node)
      [] node.node = "DefineStmt" -> DefineStmt(node)
      [] node.node \in {"CreateConversionStmt", "CreateOpFamilyStmt", "CreateOpClassStmt",
                        "CreateTransformStmt", "CreateAmStmt"} -> CreateSemanticObjectStmt(node)
      [] node.node = "CreateStatsStmt" -> CreateStatsStmt(node)
      [] node.node = "AlterStatsStmt" -> AlterStatsStmt(node)
      [] node.node = "AlterOwnerStmt" -> AlterOwnerStmt(node)
      [] OTHER -> Unsupported

=============================================================================
