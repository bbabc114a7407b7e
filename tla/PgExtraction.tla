---------------------------- MODULE PgExtraction ----------------------------
(***************************************************************************)
(* How a parsed PostgreSQL statement becomes the statement the rules see   *)
(* (infrastructure/parser/postgresql/extractor*.go), or is refused as      *)
(* unsupported.  Only what some rule can tell apart is kept: names, other  *)
(* than those of constraints, and the options that only decorate a finding *)
(* are left out.                                                           *)
(***************************************************************************)
EXTENDS DdlRules

\* unsupportedStatement: reported apart, seen by no rule.
Unsupported == Object("unsupported", "", {})

Facts(node, names) == node.flags \cap names

\* The facts only the value of an option decides.
When(condition, facts) == IF condition THEN facts ELSE {}

(***************************************************************************)
(* The names the code gives an object type and the operations on it        *)
(* (domain/spec/ddl.go).                                                   *)
(***************************************************************************)
ObjectType ==
    [ OBJECT_SCHEMA |-> "schema", OBJECT_SEQUENCE |-> "sequence",
      OBJECT_MATVIEW |-> "materialized_view", OBJECT_TYPE |-> "type",
      OBJECT_DOMAIN |-> "domain", OBJECT_EXTENSION |-> "extension",
      OBJECT_POLICY |-> "policy", OBJECT_TRIGGER |-> "trigger",
      OBJECT_FUNCTION |-> "function", OBJECT_PROCEDURE |-> "procedure",
      OBJECT_PUBLICATION |-> "publication", OBJECT_FOREIGN_TABLE |-> "foreign_table",
      OBJECT_FOREIGN_SERVER |-> "foreign_server", OBJECT_FDW |-> "foreign_data_wrapper",
      OBJECT_EVENT_TRIGGER |-> "event_trigger", OBJECT_RULE |-> "rule",
      OBJECT_COLLATION |-> "collation", OBJECT_STATISTIC_EXT |-> "statistics",
      OBJECT_AGGREGATE |-> "aggregate", OBJECT_OPERATOR |-> "operator",
      OBJECT_CONVERSION |-> "conversion", OBJECT_OPFAMILY |-> "operator_family",
      OBJECT_OPCLASS |-> "operator_class",
      OBJECT_TSCONFIGURATION |-> "text_search_configuration",
      OBJECT_TSDICTIONARY |-> "text_search_dictionary",
      OBJECT_TSPARSER |-> "text_search_parser",
      OBJECT_TSTEMPLATE |-> "text_search_template",
      OBJECT_TRANSFORM |-> "transform", OBJECT_ACCESS_METHOD |-> "access_method",
      OBJECT_VIEW |-> "view", OBJECT_INDEX |-> "index", OBJECT_TABLE |-> "table",
      OBJECT_COLUMN |-> "column", OBJECT_LARGEOBJECT |-> "large_object",
      OBJECT_USER_MAPPING |-> "user_mapping", OBJECT_SUBSCRIPTION |-> "subscription" ]

Operation(verb, type) == verb \o "_" \o type

\* A statement about an object of the type a node names.
About(verb, node, facts) ==
    LET type == ObjectType[node.object] IN Object(Operation(verb, type), type, facts)

(***************************************************************************)
(* DROP and TRUNCATE (extractor_ddl_drop.go).  Only the first name of a    *)
(* list is looked at.                                                      *)
(***************************************************************************)
DroppedObjects ==
    {"OBJECT_SCHEMA", "OBJECT_SEQUENCE", "OBJECT_MATVIEW", "OBJECT_TYPE", "OBJECT_DOMAIN",
     "OBJECT_EXTENSION", "OBJECT_POLICY", "OBJECT_FUNCTION", "OBJECT_PROCEDURE",
     "OBJECT_PUBLICATION", "OBJECT_FOREIGN_TABLE", "OBJECT_FOREIGN_SERVER"}

DroppedSemanticObjects ==
    {"OBJECT_FDW", "OBJECT_EVENT_TRIGGER", "OBJECT_RULE", "OBJECT_COLLATION",
     "OBJECT_STATISTIC_EXT", "OBJECT_AGGREGATE", "OBJECT_OPERATOR", "OBJECT_CONVERSION",
     "OBJECT_OPFAMILY", "OBJECT_OPCLASS", "OBJECT_TSCONFIGURATION", "OBJECT_TSDICTIONARY",
     "OBJECT_TSPARSER", "OBJECT_TSTEMPLATE", "OBJECT_TRANSFORM", "OBJECT_ACCESS_METHOD"}

\* A table keeps no option, an index no CASCADE; a list of views is refused.
DroppedRelation(node) ==
    CASE node.object = "OBJECT_TABLE" -> Ddl("drop_table", "", {}, node.table, <<>>)
      [] node.object = "OBJECT_VIEW" /\ "several" \notin node.flags ->
            Ddl("drop_view", "view", Facts(node, {"cascade"}), node.table, <<>>)
      [] node.object = "OBJECT_INDEX" ->
            Ddl("drop_index", "", {}, NoTable, << Alter("drop_index", "", {}) >>)
      [] OTHER -> Unsupported

DropStmt(node) ==
    CASE node.object \in DroppedObjects \cup DroppedSemanticObjects ->
            About("drop", node, Facts(node, {"cascade"}))
      [] node.object = "OBJECT_TRIGGER" -> About("drop", node, {})
      [] OTHER -> DroppedRelation(node)

TruncateStmt(node) == Ddl("truncate_table", "", {}, node.table, <<>>)

(***************************************************************************)
(* CREATE (extractor_ddl_create.go and its neighbours).                    *)
(***************************************************************************)
\* applyTableConstraint and applyColumnConstraints: a foreign key or a check adds
\* itself, written as a table constraint or with its column; UNIQUE and PRIMARY KEY
\* become indexes, which no rule modelled looks at.
ElementConstraints(cmds) ==
    LET adds == SelectSeq(cmds, LAMBDA c : c.kind \in {"foreign_key", "check"})
    IN [k \in DOMAIN adds |-> Constraint(adds[k].kind, adds[k].name, adds[k].schema)]

CreateStmt(node) ==
    IF "partition" \in node.flags \/ \E k \in DOMAIN node.cmds : node.cmds[k].kind = "exclusion"
    THEN Unsupported
    ELSE [Ddl("create_table", "", {}, node.table, <<>>)
             EXCEPT !.constraints = ElementConstraints(node.cmds)]

ViewStmt(node) ==
    Ddl("create_view", "view", Facts(node, {"replace", "temporary", "check_option"}),
        node.table, <<>>)

CreateSchemaStmt(node) ==
    IF node.flags \cap {"authorization", "nested"} # {}
    THEN Unsupported
    ELSE Object("create_schema", "schema", {})

CreateSeqStmt(node) == Object("create_sequence", "sequence", Facts(node, {"cycle"}))

\* CREATE TABLE AS makes a materialized view or is refused.
CreateTableAsStmt(node) ==
    IF node.object = "OBJECT_MATVIEW"
    THEN About("create", node, Facts(node, {"with_no_data"}))
    ELSE Unsupported

CreateEnumStmt(node) == Object("create_type", "type", {"type_kind=enum"})

CompositeTypeStmt(node) == Object("create_type", "type", {"type_kind=composite"})

CreateDomainStmt(node) == Object("create_domain", "domain", {"type_kind=domain"})

CreateExtensionStmt(node) == Object("create_extension", "extension", Facts(node, {"cascade"}))

CreateFunctionStmt(node) ==
    About("create", node, Facts(node, {"replace", "security_definer"}))

IndexStmt(node) ==
    IF "nulls_not_distinct" \in node.flags
    THEN Unsupported
    ELSE Ddl("create_index", "", Facts(node, {"concurrently"}), node.table, <<>>)

RefreshMatViewStmt(node) ==
    Object("refresh_materialized_view", "materialized_view",
           Facts(node, {"concurrently", "with_no_data"}))

CreatePolicyStmt(node) == Ddl("create_policy", "policy", {}, node.table, <<>>)

AlterPolicyStmt(node) == Ddl("alter_policy", "policy", {}, node.table, <<>>)

CreateTrigStmt(node) ==
    Ddl("create_trigger", "trigger", Facts(node, {"constraint"}), node.table, <<>>)

(***************************************************************************)
(* Replication, event triggers, rewrite rules, foreign objects, comments.  *)
(***************************************************************************)
CreatePublicationStmt(node) == Object("create_publication", "publication", {})

AlterPublicationStmt(node) == Object("alter_publication", "publication", {})

CreateSubscriptionStmt(node) == Object("create_subscription", "subscription", {})

\* The parser does not tell ENABLE from DISABLE, so the code looks in the text for a
\* blank followed by DISABLE: a DISABLE after a line break is none, the name of the
\* subscription may be one.
AlterSubscriptionStmt(node) ==
    Object("alter_subscription", "subscription",
           When(\/ {"disable", "after_blank"} \subseteq node.flags
                \/ "enable" \in node.flags /\ "named_disable" \in node.flags,
                {"action=disable"}))

DropSubscriptionStmt(node) == Object("drop_subscription", "subscription", {})

CreateEventTrigStmt(node) == Object("create_event_trigger", "event_trigger", {})

AlterEventTrigStmt(node) ==
    Object("alter_event_trigger", "event_trigger",
           IF "D" \in node.flags THEN {"action=disable"}
           ELSE IF "R" \in node.flags THEN {"action=enable_replica"}
           ELSE IF "A" \in node.flags THEN {"action=enable_always"}
           ELSE {"action=enable"})

RuleStmt(node) == Object("create_rule", "rule", Facts(node, {"replace"}))

CreateForeignTableStmt(node) == Object("create_foreign_table", "foreign_table", {})

AlterForeignTableStmt(node) == Object("alter_foreign_table", "foreign_table", {})

ForeignServerStmt(node, verb) == Object(Operation(verb, "foreign_server"), "foreign_server", {})

UserMappingStmt(node, verb) == Object(Operation(verb, "user_mapping"), "user_mapping", {})

FdwStmt(node, verb) ==
    Object(Operation(verb, "foreign_data_wrapper"), "foreign_data_wrapper", {})

\* pgObjectTypeToTargetType: what can be commented on or labelled.
AnnotatedObjects ==
    {"OBJECT_TABLE", "OBJECT_VIEW", "OBJECT_MATVIEW", "OBJECT_INDEX", "OBJECT_SEQUENCE",
     "OBJECT_SCHEMA", "OBJECT_COLUMN", "OBJECT_FUNCTION", "OBJECT_PROCEDURE", "OBJECT_TYPE",
     "OBJECT_DOMAIN", "OBJECT_EXTENSION"}

\* IS NULL removes the comment.
Nullness(node) == IF "null" \in node.flags THEN {"is_null"} ELSE {"is_null=false"}

CommentStmt(node) ==
    IF node.object \in AnnotatedObjects
    THEN Object("comment_on", "comment", Nullness(node))
    ELSE Unsupported

SecLabelStmt(node) ==
    IF node.object \in AnnotatedObjects
    THEN Object("security_label", "security_label", Nullness(node))
    ELSE Unsupported

(***************************************************************************)
(* Statements that define, rename, move or give away an object             *)
(* (extractor_ddl_alter.go).                                               *)
(***************************************************************************)
DefinedObjects ==
    {"OBJECT_COLLATION", "OBJECT_AGGREGATE", "OBJECT_OPERATOR", "OBJECT_TSCONFIGURATION",
     "OBJECT_TSDICTIONARY", "OBJECT_TSPARSER", "OBJECT_TSTEMPLATE"}

DefineStmt(node) ==
    IF node.object \in DefinedObjects THEN About("create", node, {}) ELSE Unsupported

CreateStatsStmt(node) == Object("create_statistics", "statistics", {})

AlterStatsStmt(node) == Object("alter_statistics", "statistics", {"action=set_statistics_target"})

\* Conversions, operator families and classes, transforms and access methods.
CreateSemanticObjectStmt(node) == About("create", node, {})

\* Renamed under their own operation.
RenamedTypes ==
    [ OBJECT_TYPE |-> {"action=rename", "type_kind=composite"},
      OBJECT_DOMAIN |-> {"action=rename"}, OBJECT_VIEW |-> {"action=rename_view"},
      OBJECT_SCHEMA |-> {"action=rename"}, OBJECT_MATVIEW |-> {"action=rename"},
      OBJECT_EVENT_TRIGGER |-> {"action=rename"}, OBJECT_RULE |-> {"action=rename"} ]

RenamedObjects ==
    {"OBJECT_COLLATION", "OBJECT_STATISTIC_EXT", "OBJECT_AGGREGATE", "OBJECT_CONVERSION",
     "OBJECT_OPFAMILY", "OBJECT_OPCLASS", "OBJECT_TSCONFIGURATION", "OBJECT_TSDICTIONARY",
     "OBJECT_TSPARSER", "OBJECT_TSTEMPLATE"}

\* Renamed through ALTER TABLE; anything that names no relation is refused.
RenamedRelation(node) ==
    IF node.table = NoTable THEN Unsupported
    ELSE CASE node.object = "OBJECT_COLUMN" ->
                 Ddl("alter_table", "", {}, node.table, << Alter("rename_column", "", {}) >>)
           [] node.object = "OBJECT_TABLE" ->
                 Ddl("alter_table", "", {}, node.table, << Alter("rename_table", "", {}) >>)
           [] node.object = "OBJECT_INDEX" -> About("alter", node, {"action=rename"})
           [] OTHER -> Unsupported

RenameStmt(node) ==
    CASE node.object = "OBJECT_ATTRIBUTE" ->
            Object("alter_type", "type", {"action=rename_attribute", "type_kind=composite"})
      [] node.object \in DOMAIN RenamedTypes -> About("alter", node, RenamedTypes[node.object])
      [] node.object \in RenamedObjects -> About("alter", node, {"action=rename"})
      [] OTHER -> RenamedRelation(node)

\* SET SCHEMA under the object's own operation.
MovedObjects ==
    {"OBJECT_TYPE", "OBJECT_EXTENSION", "OBJECT_VIEW", "OBJECT_MATVIEW", "OBJECT_COLLATION",
     "OBJECT_STATISTIC_EXT", "OBJECT_AGGREGATE", "OBJECT_OPERATOR", "OBJECT_CONVERSION",
     "OBJECT_OPFAMILY"}

MovedTextSearchObjects ==
    {"OBJECT_OPCLASS", "OBJECT_TSCONFIGURATION", "OBJECT_TSDICTIONARY", "OBJECT_TSPARSER",
     "OBJECT_TSTEMPLATE"}

\* Every other object is taken for a table, although a function, a procedure or a
\* domain is not a relation and leaves the statement without one.
AlterObjectSchemaStmt(node) ==
    IF node.object \in MovedObjects \cup MovedTextSearchObjects
    THEN About("alter", node, {"action=set_schema"})
    ELSE Ddl("alter_table", "", {}, node.table, << Alter("set_schema", "", {}) >>)

OwnedObjects ==
    {"OBJECT_SCHEMA", "OBJECT_COLLATION", "OBJECT_STATISTIC_EXT", "OBJECT_AGGREGATE",
     "OBJECT_OPERATOR", "OBJECT_CONVERSION", "OBJECT_OPFAMILY", "OBJECT_OPCLASS",
     "OBJECT_TSCONFIGURATION", "OBJECT_TSDICTIONARY", "OBJECT_LARGEOBJECT"}

AlterOwnerStmt(node) ==
    IF node.object \in OwnedObjects
    THEN About("alter", node, {"action=set_owner"})
    ELSE Unsupported

AlterSeqStmt(node) == Object("alter_sequence", "sequence", Facts(node, {"restart", "cycle"}))

AlterEnumStmt(node) ==
    Object("alter_type", "type",
           {"type_kind=enum", "action=add_value"}
             \cup Facts(node, {"placement=before", "placement=after"}))

\* The subtype is a letter.
DomainActions ==
    [ O |-> "action=set_not_null", N |-> "action=drop_not_null", C |-> "action=add_constraint",
      X |-> "action=drop_constraint", V |-> "action=validate_constraint" ]

AlterDomainStmt(node) ==
    LET subtype == node.cmds[1].subtype
    IN CASE subtype = "T" ->
               Object("alter_domain", "domain",
                      IF "default" \in node.flags
                      THEN {"action=set_default"} ELSE {"action=drop_default"})
         [] subtype \in DOMAIN DomainActions ->
               Object("alter_domain", "domain", {DomainActions[subtype]})
         [] OTHER -> Unsupported

AlterExtensionStmt(node) == Object("alter_extension", "extension", {"action=update"})

AlterExtensionContentsStmt(node) ==
    Object("alter_extension", "extension",
           IF "drop" \in node.flags THEN {"action=drop_member"} ELSE {"action=add_member"})

\* Privileges on tables; CASCADE counts when they are revoked.
GrantStmt(node) ==
    CASE \/ "all_in_schema" \in node.flags
         \/ node.object # "OBJECT_TABLE" -> Unsupported
      [] OTHER ->
            IF "revoke" \in node.flags
            THEN Object("revoke_table", "table", Facts(node, {"all_privileges", "cascade"}))
            ELSE Object("grant_table", "table", Facts(node, {"all_privileges"}))

=============================================================================
