-------------------------- MODULE MCMetadataAudit --------------------------
EXTENDS MetadataAudit

St(op, s, t, level) == [op |-> op, schema |-> s, table |-> t, level |-> level]

(* One script for each way its statements can share, or not share, a table, *)
(* a schema and the parser's verdict.                                       *)
Scripts ==
  {<<St("dml", NoSchema, "t", "none")>>,
   <<St("alter", "app", "t", "warning"), St("create", NoSchema, "t", "none")>>,
   <<St("create", NoSchema, "t", "none"), St("dml", "ops", "t", "notice")>>,
   <<St("dml", NoSchema, "t", "none"), St("dml", "ops", "t", "none")>>,
   <<St("dml", NoSchema, "t", "none"), St("bad", NoSchema, "t", "notice")>>,
   <<St("dml", NoSchema, "t", "blocker"), St("unsupported", NoSchema, "t", "none")>>,
   <<St("object", NoSchema, "t", "none"), St("bad", NoSchema, "t", "none")>>,
   <<St("index", NoSchema, "t", "none"), St("alter", NoSchema, "t", "none")>>,
   <<St("bad", NoSchema, "t", "notice")>>}

Request(configured, mysqlAt, pgAt, s, database, script, http) ==
  [configured |-> configured, mysqlAt |-> mysqlAt, pgAt |-> pgAt, schema |-> s,
   database |-> database, script |-> script, http |-> http]

(* Over HTTP the dialect is always given; the command line and MCP may      *)
(* leave it to be detected, at one server or, without a port, at two.       *)
MCJobs ==
  {Request(d, m, p, s, db, script, TRUE) :
     d \in {"mysql", "postgresql"}, m \in {"mysql"}, p \in {TRUE},
     s \in {NoSchema, "app"}, db \in {NoSchema, "ops"}, script \in Scripts}
  \cup
  {Request("none", m, p, s, db, script, FALSE) :
     m \in {"none", "tidb"}, p \in BOOLEAN,
     s \in {NoSchema, "app"}, db \in {NoSchema, "app"}, script \in Scripts}

(* The mismatch of a dialect given and a dialect detected. *)
MismatchJobs ==
  {Request("tidb", "mysql", FALSE, NoSchema, NoSchema, script, http) :
     script \in Scripts, http \in BOOLEAN}

AllJobs == MCJobs \cup MismatchJobs

(* The table stands in one schema, in both, or in neither. *)
MCCatalogs == {[k \in Keys |-> IF k[1] = "app" THEN a ELSE o] : a \in {0, 1}, o \in {0, 2}}
=============================================================================
