---------------------------- MODULE MCHttpServer ----------------------------
(***************************************************************************)
(* Small instances of HttpServer: two requests at a time, three named      *)
(* connections, and the configurations that differ in what they permit.    *)
(***************************************************************************)
EXTENDS HttpServer

MCConnection(id, dialect, purposes, allowed) ==
  [id |-> id, dialect |-> dialect, endpoint |-> "first", portGiven |-> TRUE,
   database |-> TRUE, password |-> "first", tls |-> FALSE, caFile |-> FALSE,
   purposes |-> purposes, allowed |-> allowed, readable |-> TRUE]

MCKey(id, secret) == [id |-> id, secret |-> secret, source |-> "second", readable |-> TRUE]

Both == <<"audit", "query_access">>

Connections ==
  <<MCConnection("main", "mysql", Both, <<"k1">>),
    MCConnection("report", "postgresql", <<"query_access">>, <<"k2">>),
    MCConnection("old", "mysql", <<"query_access">>, <<"k1", "k2">>)>>

MCConfig(auth, connections, keys) ==
  [auth |-> auth, connections |-> connections, keys |-> keys]

(* k2 and k3 have the same secret, which no check forbids. *)
ThreeKeys == <<MCKey("k1", "s1"), MCKey("k2", "s2"), MCKey("k3", "s2")>>

(* Refused at the start: a purpose named twice, authentication without keys, *)
(* a reference to a key that is not there, two connections of one name, TLS  *)
(* to a socket, a secret that cannot be read.                                *)
RefusedConfigs ==
  {MCConfig(FALSE, <<MCConnection("main", "mysql", <<"audit", "audit">>, << >>)>>, ThreeKeys),
   MCConfig(TRUE, << >>, << >>),
   MCConfig(TRUE, Connections, <<MCKey("k1", "s1")>>),
   MCConfig(FALSE, Connections \o Connections, ThreeKeys),
   MCConfig(FALSE, <<[Connections[1] EXCEPT !.endpoint = "second", !.tls = TRUE]>>, ThreeKeys),
   MCConfig(FALSE, Connections, <<[MCKey("k1", "s1") EXCEPT !.readable = FALSE]>>)}

MCConfigs ==
  {MCConfig(TRUE, Connections, ThreeKeys), MCConfig(FALSE, Connections, ThreeKeys)}
  \cup RefusedConfigs

(* "old" is a TiDB whose version cannot be read, "report" a PostgreSQL. *)
MCServers ==
  [id \in {"main", "report", "old"} |->
     CASE id = "main" -> [product |-> "tidb", version |-> "tidb-8.5"]
       [] id = "report" -> [product |-> "postgresql", version |-> "postgresql-17"]
       [] OTHER -> [product |-> "tidb", version |-> "unreadable"]]

Call(path, connection, secret) ==
  [path |-> path, connection |-> connection, secret |-> secret]

Audits  == {Call("audit", "main", "s1"), Call("audit", "report", "s2"),
            Call("audit", NoConnection, NoSecret)}
Queries == {Call("query_access", "main", "s1"), Call("query_access", "report", "s2"),
            Call("query_access", "old", "s1"), Call("query_access", "none", "s3"),
            Call("query_access", NoConnection, "s1")}
Health  == {Call("health", NoConnection, NoSecret)}

(* An audit beside a query analysis. *)
MCWorkloads ==
  {[o \in Owners |-> IF o = "a" THEN audit ELSE query] :
     audit \in Audits, query \in Queries \cup Health}
=============================================================================
