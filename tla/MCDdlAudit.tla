----------------------------- MODULE MCDdlAudit -----------------------------
(***************************************************************************)
(* Scripts for DdlAudit: every form of statement the extractors tell       *)
(* apart, alone and under the default policy; short scripts for the rules  *)
(* about a whole script; foreign keys under the policy files that matter.  *)
(***************************************************************************)
EXTENDS DdlAudit

T == [schema |-> "", name |-> "t"]
ST == [schema |-> "s", name |-> "t"]
U == [schema |-> "", name |-> "u"]

\* A statement about an object that is not a relation, or whose relation no rule needs.
Plain(node, object, flags) == Node(node, object, flags, NoTable, <<>>)

OnTable(node, object, flags) == Node(node, object, flags, T, <<>>)

Sub(subtype) == Command(subtype, "", "", "", {})

Objects == DOMAIN ObjectType \ {"OBJECT_TABLE", "OBJECT_VIEW", "OBJECT_INDEX", "OBJECT_COLUMN",
                                "OBJECT_LARGEOBJECT", "OBJECT_USER_MAPPING",
                                "OBJECT_SUBSCRIPTION"}

(***************************************************************************)
(* PostgreSQL.                                                             *)
(***************************************************************************)
PgDrops ==
    {Plain("DropStmt", o, f) : o \in Objects, f \in {{}, {"cascade"}}}
    \cup {OnTable("DropStmt", o, f) : o \in {"OBJECT_TABLE", "OBJECT_VIEW", "OBJECT_INDEX"},
                                      f \in {{}, {"cascade"}, {"several"}}}
    \cup {Plain("DropStmt", "OBJECT_CAST", {}), OnTable("TruncateStmt", "", {})}

PgCreates ==
    {OnTable("ViewStmt", "", f) : f \in SUBSET {"replace", "temporary", "check_option"}}
    \cup {Plain("CreateSchemaStmt", "", f) : f \in {{}, {"authorization"}, {"nested"}}}
    \cup {Plain("CreateSeqStmt", "", f) : f \in {{}, {"cycle"}}}
    \cup {Plain("CreateTableAsStmt", "OBJECT_MATVIEW", f) : f \in {{}, {"with_no_data"}}}
    \cup {Plain("CreateTableAsStmt", "OBJECT_TABLE", {})}
    \cup {Plain("CreateExtensionStmt", "", f) : f \in {{}, {"cascade"}}}
    \cup {Plain("CreateFunctionStmt", o, f) :
            o \in {"OBJECT_FUNCTION", "OBJECT_PROCEDURE"},
            f \in SUBSET {"replace", "security_definer"}}
    \cup {OnTable("IndexStmt", "", f) : f \in {{}, {"concurrently"}, {"nulls_not_distinct"}}}
    \cup {Plain("RefreshMatViewStmt", "", f) : f \in {{}, {"concurrently"}, {"with_no_data"}}}
    \cup {OnTable("CreateTrigStmt", "", f) : f \in {{}, {"constraint"}}}
    \cup {OnTable("CreatePolicyStmt", "", {}), OnTable("AlterPolicyStmt", "", {})}
    \cup {Plain("RuleStmt", "", f) : f \in {{}, {"replace"}}}
    \cup {Plain("DefineStmt", o, {}) : o \in DefinedObjects \cup {"OBJECT_TYPE"}}
    \cup {Plain(node, "", {}) :
            node \in {"CreateEnumStmt", "CompositeTypeStmt", "CreateDomainStmt",
                      "CreatePublicationStmt", "CreateSubscriptionStmt", "CreateEventTrigStmt",
                      "CreateForeignTableStmt", "CreateForeignServerStmt",
                      "CreateUserMappingStmt", "CreateFdwStmt", "CreateStatsStmt",
                      "CreateRoleStmt"}}
    \cup {Plain("CreateConversionStmt", "OBJECT_CONVERSION", {}),
          Plain("CreateOpFamilyStmt", "OBJECT_OPFAMILY", {}),
          Plain("CreateOpClassStmt", "OBJECT_OPCLASS", {}),
          Plain("CreateTransformStmt", "OBJECT_TRANSFORM", {}),
          Plain("CreateAmStmt", "OBJECT_ACCESS_METHOD", {})}

Relations == {"OBJECT_TABLE", "OBJECT_COLUMN", "OBJECT_INDEX", "OBJECT_SEQUENCE"}

PgAlters ==
    {OnTable("RenameStmt", o, {}) : o \in Relations \cup {"OBJECT_VIEW", "OBJECT_MATVIEW",
                                          "OBJECT_ATTRIBUTE", "OBJECT_RULE"}}
    \cup {Plain("RenameStmt", o, {}) :
            o \in RenamedObjects \cup {"OBJECT_TYPE", "OBJECT_DOMAIN", "OBJECT_SCHEMA",
                                       "OBJECT_EVENT_TRIGGER", "OBJECT_ROLE"}}
    \cup {OnTable("AlterObjectSchemaStmt", o, {}) : o \in {"OBJECT_TABLE", "OBJECT_VIEW",
                                                         "OBJECT_MATVIEW", "OBJECT_SEQUENCE"}}
    \cup {Plain("AlterObjectSchemaStmt", o, {}) :
            o \in (MovedObjects \cup MovedTextSearchObjects
                     \cup {"OBJECT_FUNCTION", "OBJECT_DOMAIN"}) \ {"OBJECT_VIEW", "OBJECT_MATVIEW"}}
    \cup {Plain("AlterOwnerStmt", o, {}) : o \in OwnedObjects \cup {"OBJECT_FUNCTION"}}
    \cup {Plain("AlterSeqStmt", "", f) : f \in {{}, {"restart"}, {"cycle"}}}
    \cup {Plain("AlterEnumStmt", "", f) : f \in {{}, {"placement=before"}, {"placement=after"}}}
    \cup {Node("AlterDomainStmt", "", f, NoTable, << Sub(s) >>) :
            s \in DOMAIN DomainActions \cup {"T", "other"}, f \in {{}, {"default"}}}
    \cup {Plain("AlterExtensionContentsStmt", "", f) : f \in {{}, {"drop"}}}
    \cup {Plain("AlterSubscriptionStmt", "", f) :
            f \in {{}, {"disable", "after_blank"}, {"enable"}, {"enable", "named_disable"}}}
    \cup {Plain("AlterEventTrigStmt", "", f) : f \in {{"D"}, {"R"}, {"A"}, {"O"}}}
    \cup {Plain(node, o, f) : node \in {"CommentStmt", "SecLabelStmt"},
                              o \in AnnotatedObjects \cup {"OBJECT_ROLE"}, f \in {{}, {"null"}}}
    \cup {Plain("GrantStmt", o, f) : o \in {"OBJECT_TABLE", "OBJECT_SEQUENCE"},
             f \in SUBSET {"revoke", "all_privileges", "cascade"} \cup {{"all_in_schema"}}}
    \cup {Plain(node, "", {}) :
            node \in {"AlterExtensionStmt", "AlterPublicationStmt", "DropSubscriptionStmt",
                      "AlterForeignServerStmt", "AlterUserMappingStmt", "DropUserMappingStmt",
                      "AlterFdwStmt", "AlterStatsStmt", "GrantRoleStmt"}}
    \cup {Plain("AlterTableMoveAllStmt", o, {}) : o \in {"OBJECT_TABLE", "OBJECT_INDEX"}}

\* Every command of ALTER TABLE.
PgCommands ==
    {Sub(s) : s \in DOMAIN TableActions \cup DOMAIN StorageActions \cup DOMAIN RelationshipActions
                    \cup {"DropColumn", "DropExpression", "SetExpression", "SetIdentity",
                          "DropIdentity", "AddIdentity", "AlterColumnType", "SetNotNull",
                          "DropNotNull", "ReAddIndex"}}
    \cup {Command("AddColumn", "", "", "", f) : f \in SUBSET {"not_null", "default"}}
    \cup {Command("ColumnDefault", "", "", "", f) : f \in {{}, {"default"}}}
    \cup {Command("AddConstraint", k, name, "", f) :
            k \in {"primary_key", "unique", "foreign_key", "check", "exclusion"},
            name \in {"", "c"}, f \in {{}, {"not_valid"}}}
    \cup {Command(s, "", "c", "", {}) : s \in {"DropConstraint", "ValidateConstraint"}}
    \cup {Command("AlterConstraint", k, "c", "", f) :
            k \in {"foreign_key", "check"}, f \in {{}, {"initially_deferred"}}}
    \cup {Command("ChangeOwner", "", "", "", f) : f \in {{}, {"named_role"}}}
    \cup {Command("ReplicaIdentity", k, "", "", {}) : k \in DOMAIN ReplicaIdentities}

AlterOf(table, cmds) == Node("AlterTableStmt", "OBJECT_TABLE", {}, table, cmds)

PgTableAlters ==
    {AlterOf(T, << c >>) : c \in PgCommands}
    \cup {AlterOf(T, << Sub("SetLogged"), c >>) : c \in PgCommands}
    \cup {Node("AlterTableStmt", o, {}, T, << Sub(s) >>) :
            o \in {"OBJECT_TYPE", "OBJECT_INDEX", "OBJECT_FOREIGN_TABLE", "OBJECT_VIEW"},
            s \in {"AddColumn", "DropColumn", "AlterColumnType", "SetTableSpace"}}

(***************************************************************************)
(* MySQL and TiDB.                                                         *)
(***************************************************************************)
TiDBCommands ==
    {Sub(s) : s \in (DOMAIN ActionNames \ {"ModifyColumn", "ChangeColumn", "AddConstraint"})
                      \cup {"Other"}}
    \cup {Command(s, "", "", "", f) : s \in {"ModifyColumn", "ChangeColumn"},
                                      f \in SUBSET {"nullability", "default", "auto_increment"}}
    \cup {Command("AddConstraint", k, "", "", {}) : k \in {"index", "unique", "foreign_key"}}
    \cup {Command("AddConstraint", "unique", "", "", {"says_constraint"}),
          Command("AddColumns", "", "", "", {"several"}),
          Command("Option", "", "", "", {"placement_policy"})}

TiDBNodes ==
    {Node("AlterTableStmt", "", {}, T, << c >>) : c \in TiDBCommands}
    \cup {OnTable("DropTableStmt", "", f) : f \in {{}, {"view"}}}
    \cup {OnTable("RenameTableStmt", "", f) : f \in {{}, {"several"}}}
    \cup {OnTable(node, "", {}) : node \in {"CreateViewStmt", "TruncateTableStmt",
                                           "CreateIndexStmt", "DropIndexStmt"}}
    \cup {Plain(node, "", f) : node \in {"CreateUserStmt", "DropUserStmt"}, f \in {{}, {"role"}}}
    \cup {Plain(node, "", {}) :
            node \in {"CreateDatabaseStmt", "DropDatabaseStmt", "AlterDatabaseStmt",
                      "ProcedureInfo", "DropProcedureStmt", "AlterUserStmt", "GrantStmt",
                      "RevokeStmt", "OtherStmt"}}

OnlyTiDBNodes ==
    {Plain(node, "", {}) :
        node \in {"DropResourceGroupStmt", "CreatePlacementPolicyStmt",
                  "AlterPlacementPolicyStmt", "DropPlacementPolicyStmt", "CreateSequenceStmt",
                  "AlterSequenceStmt", "DropSequenceStmt"}}

(***************************************************************************)
(* Requests.                                                               *)
(***************************************************************************)
Request(d, nodes, settings) == [dialect |-> d, nodes |-> nodes, file |-> settings]

SingleStatements ==
    {Request("postgresql", << n >>, {}) :
        n \in PgDrops \cup PgCreates \cup PgAlters \cup PgTableAlters}
    \cup {Request(d, << n >>, {}) : d \in MySqlLike, n \in TiDBNodes}
    \cup {Request("tidb", << n >>, {}) : n \in OnlyTiDBNodes}

\* Additions and validations of one constraint of t, and of s.t, alone or with another
\* action in the same statement; a statement that is refused.
NotValidAdd(kind, name) == Command("AddConstraint", kind, name, "", {"not_valid"})

Validation(name) == Command("ValidateConstraint", "", name, "", {})

ConstraintSteps ==
    {AlterOf(t, << c >>) : t \in {T, ST},
                           c \in {NotValidAdd("check", "c"), Validation("c")}}
    \cup {AlterOf(T, << NotValidAdd("foreign_key", "c"), Validation("c") >>),
          AlterOf(T, << Validation("c"), NotValidAdd("check", "c") >>),
          AlterOf(T, << NotValidAdd("check", "d") >>),
          Plain("GrantRoleStmt", "", {})}

ValidationFiles ==
    { {}, {SettingOf(NotValidRule, TRUE, "blocker", "absent")},
      {SettingOf(NotValidRule, TRUE, "", "off")} }

ValidationScripts ==
    {Request("postgresql", <<a, b, c>>, {}) : a, b, c \in ConstraintSteps}
    \cup {Request("postgresql", <<a, b>>, f) : a, b \in ConstraintSteps, f \in ValidationFiles}

\* Several ALTER TABLE of one table, of one name in two schemas, of two tables.
MergeScripts ==
    {Request(d, <<Node("AlterTableStmt", "", {}, a, << Sub("DropColumn") >>),
                  Node("AlterTableStmt", "", {}, b, << Sub("AddColumns") >>)>>, {}) :
        d \in MySqlLike, a, b \in {T, ST, U}}

\* A foreign key with its table or with a column, or added later.
ForeignKey(subtype, name, schema) == Command(subtype, "foreign_key", name, schema, {})

ForeignKeyNames == {"", "fk_ok", "other"}

ForeignKeyScripts ==
    {Node("CreateStmt", "", {}, ST, << ForeignKey(s, name, schema) >>) :
        s \in {"Constraint", "AddColumn"}, name \in ForeignKeyNames, schema \in {"", "s", "z"}}
    \cup {AlterOf(ST, << ForeignKey(s, name, schema) >>) :
        s \in {"AddConstraint", "AddColumn"}, name \in ForeignKeyNames, schema \in {"s", "z"}}
    \cup {Node("CreateStmt", "", {"partition"}, T, <<>>)}

TiDBForeignKeyScripts ==
    {Node("CreateTableStmt", "", {}, T, << ForeignKey(s, name, "") >>) :
        s \in {"Constraint", "AddColumn"}, name \in ForeignKeyNames}

ForbidSettings ==
    { {}, {SettingOf(ForeignKeyForbid, FALSE, "blocker", "on")},
      {SettingOf(ForeignKeyForbid, TRUE, "blocker", "off")},
      {SettingOf(ForeignKeyForbid, TRUE, "", "absent")} }

NamingSettings ==
    { {}, {SettingOf("ddl.constraint.foreign_key.name.prefix.require", TRUE, "warning", "on")},
      {SettingOf("ddl.constraint.foreign_key.name.prefix.require", FALSE, "warning", "on")} }

ForeignKeyFiles == {a \cup b : a \in ForbidSettings, b \in NamingSettings}

ForeignKeyRequests ==
    {Request("postgresql", << n >>, f) : n \in ForeignKeyScripts, f \in ForeignKeyFiles}
    \cup {Request(d, << n >>, f) :
            d \in MySqlLike, n \in TiDBForeignKeyScripts, f \in ForeignKeyFiles}

MCRequests ==
    UNION {SingleStatements, ValidationScripts, MergeScripts, ForeignKeyRequests}

\* ALTER SUBSCRIPTION, the word after a blank or after a line break.
SubscriptionRequests ==
    {Request("postgresql", << Plain("AlterSubscriptionStmt", "", f) >>, {}) :
        f \in {{"disable", "after_blank"}, {"disable"}, {"enable"}, {}}}
    \cup {Request("postgresql", << a, b >>, {}) :
        a \in PgCreates, b \in {Plain("AlterSubscriptionStmt", "", {"enable"})}}

MCConforming == {"fk_ok"}

=============================================================================
