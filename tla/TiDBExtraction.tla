--------------------------- MODULE TiDBExtraction ---------------------------
(***************************************************************************)
(* How a statement parsed by TiDB's parser, for MySQL and TiDB, becomes    *)
(* the statement the rules see (infrastructure/parser/tidb/extractor.go).  *)
(* A node the code does not know is not refused: it gets a warning and no  *)
(* DDL, and no rule looks at it.                                           *)
(***************************************************************************)
EXTENDS DdlRules

LOCAL INSTANCE SequencesExt

\* Statement.DDL is nil.
NoDdl == Object("none", "", {})

\* Table constraints; a foreign key written with its column is not looked at, and the
\* schema it references is not kept.
ExtractCreateTable(node) ==
    LET adds == SelectSeq(node.cmds, LAMBDA c : c.subtype = "Constraint"
                                                /\ c.kind \in {"foreign_key", "check"})
    IN [Ddl("create_table", "", {}, node.table, <<>>) EXCEPT
           !.constraints = [k \in DOMAIN adds |-> Constraint(adds[k].kind, adds[k].name, "")]]

ExtractCreateView(node) == Ddl("create_view", "", {}, node.table, <<>>)

\* The first table of the list.
ExtractDropTable(node) ==
    Ddl(IF "view" \in node.flags THEN "drop_view" ELSE "drop_table", "", {}, node.table, <<>>)

ExtractTruncateTable(node) == Ddl("truncate_table", "", {}, node.table, <<>>)

ExtractCreateDatabase(node) == Object("create_schema", "database", {})

ExtractDropDatabase(node) == Object("drop_schema", "database", {})

(***************************************************************************)
(* ALTER TABLE.                                                            *)
(***************************************************************************)
\* alterActionName: the specifications that have a name; any other is numbered.
ActionNames ==
    [ AddColumns |-> "add_columns", DropColumn |-> "drop_column",
      ModifyColumn |-> "modify_column", ChangeColumn |-> "change_column",
      RenameColumn |-> "rename_column", RenameTable |-> "rename_table",
      DropPrimaryKey |-> "drop_primary_key", DropIndex |-> "drop_index",
      AddConstraint |-> "add_constraint", RenameIndex |-> "rename_index",
      Option |-> "table_option", DropForeignKey |-> "drop_foreign_key" ]

AlterActionName(subtype) ==
    IF subtype \in DOMAIN ActionNames THEN ActionNames[subtype] ELSE "alter_number"

\* The parser makes a constraint of an index; the text of the clause tells ADD INDEX
\* from ADD CONSTRAINT.
AlterActionNameForSpec(s) ==
    IF s.subtype = "AddConstraint" /\ s.kind \in {"index", "unique"}
       /\ "says_constraint" \notin s.flags
    THEN "add_index"
    ELSE AlterActionName(s.subtype)

\* alterColumnChangeFacts: what MODIFY and CHANGE COLUMN state.
AlterColumnChangeFacts(s) ==
    IF s.subtype \in {"ModifyColumn", "ChangeColumn"}
    THEN {"touches_" \o p : p \in s.flags \cap {"nullability", "default", "auto_increment"}}
    ELSE {}

\* extractAlterSpec
ExtractAlterSpec(s) ==
    Alter(IF s.subtype = "Option" /\ "placement_policy" \in s.flags
          THEN "placement_policy" ELSE AlterActionNameForSpec(s),
          s.name, AlterColumnChangeFacts(s))

\* ADD (c1 ..., c2 ...) is an action for each column.
ExtractAlterSpecs(s) ==
    IF s.subtype = "AddColumns" /\ "several" \in s.flags
    THEN << Alter("add_columns", "", {}), Alter("add_columns", "", {}) >>
    ELSE << ExtractAlterSpec(s) >>

\* A constraint an ALTER TABLE adds is no constraint of the statement, and its action
\* does not say of which type it is.
ExtractAlterTable(node) ==
    Ddl("alter_table", "", {}, node.table,
        FlattenSeq([k \in DOMAIN node.cmds |-> ExtractAlterSpecs(node.cmds[k])]))

(***************************************************************************)
(* Indexes, renames, databases.                                            *)
(***************************************************************************)
ExtractCreateIndex(node) ==
    Ddl("create_index", "", {}, node.table, << Alter("create_index", "", {}) >>)

ExtractDropIndex(node) ==
    Ddl("drop_index", "", {}, node.table, << Alter("drop_index", "", {}) >>)

\* An action for each pair of names.
ExtractRenameTable(node) ==
    Ddl("rename_table", "", {}, node.table,
        IF "several" \in node.flags
        THEN << Alter("rename_table", "", {}), Alter("rename_table", "", {}) >>
        ELSE << Alter("rename_table", "", {}) >>)

ExtractAlterDatabase(node) == Object("alter_schema", "database", {})

(***************************************************************************)
(* Procedures, users, roles, privileges, placement, sequences.             *)
(***************************************************************************)
ExtractProcedure(verb) == Object(verb \o "_procedure", "procedure", {})

ExtractUser(node, verb) ==
    LET type == IF "role" \in node.flags THEN "role" ELSE "user"
    IN Object(verb \o "_" \o type, type, {})

ExtractAlterUser == Object("alter_user", "user", {})

ExtractGrant == Object("grant", "", {})

ExtractRevoke == Object("revoke", "", {})

ExtractDropResourceGroup == Object("drop_resource_group", "resource_group", {})

ExtractPlacementPolicy(verb) == Object(verb \o "_placement_policy", "placement_policy", {})

ExtractSequence(verb) == Object(verb \o "_sequence", "sequence", {})

\* tidbExtractor.Extract
ExtractTiDB(node) ==
    CASE node.node = "CreateTableStmt" -> ExtractCreateTable(node)
      [] node.node = "CreateViewStmt" -> ExtractCreateView(node)
      [] node.node = "AlterTableStmt" -> ExtractAlterTable(node)
      [] node.node = "DropTableStmt" -> ExtractDropTable(node)
      [] node.node = "TruncateTableStmt" -> ExtractTruncateTable(node)
      [] node.node = "CreateDatabaseStmt" -> ExtractCreateDatabase(node)
      [] node.node = "DropDatabaseStmt" -> ExtractDropDatabase(node)
      [] node.node = "CreateIndexStmt" -> ExtractCreateIndex(node)
      [] node.node = "DropIndexStmt" -> ExtractDropIndex(node)
      [] node.node = "RenameTableStmt" -> ExtractRenameTable(node)
      [] node.node = "AlterDatabaseStmt" -> ExtractAlterDatabase(node)
      [] node.node = "ProcedureInfo" -> ExtractProcedure("create")
      [] node.node = "DropProcedureStmt" -> ExtractProcedure("drop")
      [] node.node = "CreateUserStmt" -> ExtractUser(node, "create")
      [] node.node = "AlterUserStmt" -> ExtractAlterUser
      [] node.node = "DropUserStmt" -> ExtractUser(node, "drop")
      [] node.node = "GrantStmt" -> ExtractGrant
      [] node.node = "RevokeStmt" -> ExtractRevoke
      [] node.node = "DropResourceGroupStmt" -> ExtractDropResourceGroup
      [] node.node = "CreatePlacementPolicyStmt" -> ExtractPlacementPolicy("create")
      [] node.node = "AlterPlacementPolicyStmt" -> ExtractPlacementPolicy("alter")
      [] node.node = "DropPlacementPolicyStmt" -> ExtractPlacementPolicy("drop")
      [] node.node = "CreateSequenceStmt" -> ExtractSequence("create")
      [] node.node = "AlterSequenceStmt" -> ExtractSequence("alter")
      [] node.node = "DropSequenceStmt" -> ExtractSequence("drop")
      [] OTHER -> NoDdl

=============================================================================
