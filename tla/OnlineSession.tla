---------------------------- MODULE OnlineSession ----------------------------
(***************************************************************************)
(* online.OpenSession and Session.Close: a pool of one connection is       *)
(* opened, pinged, its connection pinned, and the server's identity read   *)
(* and checked on it.  Whatever fails on the way gives back what exists.   *)
(*                                                                         *)
(* A request has at most one session, so a session is named by its owner.  *)
(* An owner whose context is over gets no answer from the database any     *)
(* more (parameter alive of the actions); closing needs none.              *)
(***************************************************************************)
EXTENDS Naturals

CONSTANTS Owners,
          NoTarget       \* CapabilityTarget ""

VARIABLES stage,     \* of each owner: how far OpenSession is
          pool,      \* the sql.DB
          conn,      \* the sql.Conn pinned from it
          target     \* CapabilityTarget derived from the identity observed

session == <<stage, pool, conn, target>>

Stages == {"none", "pool", "pinged", "pinned", "open", "failed", "connClosed", "closed"}

----------------------------------------------------------------------------
(* What a server answers to SELECT VERSION(): its product, and whether the  *)
(* version in the text is one of a series, none, or cannot be read.  A TiDB *)
(* answer begins with the MySQL version it is compatible with, here 8.0, so *)
(* that one whose own version cannot be read still reads as a MySQL.        *)

Products == {"postgresql", "tidb", "mysql", "mariadb", "unknown"}
Versions == {"mysql-5.7", "mysql-8.0", "mysql-8.4", "tidb-8.5", "postgresql-17",
             "other", "unreadable"}

Series(product) ==
  CASE product = "postgresql" -> {"postgresql-17"}
    [] product = "tidb" -> {"tidb-8.5"}
    [] product = "mysql" -> {"mysql-5.7", "mysql-8.0", "mysql-8.4"}
    [] OTHER -> {}

Identity(product, series) == [error |-> "none", product |-> product, series |-> series]
NoIdentity(error) == [error |-> error, product |-> "none", series |-> "other"]

(* parsePostgreSQLIdentity, parseTiDBIdentity, parseMySQLIdentity: ErrIdentityUnknown *)
(* is "not mine"; a recognised product outside its series is another error.           *)
ParseAs(product, raw) ==
  CASE product # raw.product /\ ~(product = "mysql" /\ raw.product = "tidb")
         -> NoIdentity(IF product = "mysql" /\ raw.product # "mariadb"
                       THEN "malformed" ELSE "unknown")
    [] product = raw.product /\ raw.version = "unreadable"
         -> NoIdentity(IF product = "mysql" THEN "malformed" ELSE "unknown")
    [] product = "mysql" /\ raw.product = "tidb" -> Identity("mysql", "mysql-8.0")
    [] product = raw.product /\ raw.version \in Series(product)
         -> Identity(product, raw.version)
    [] OTHER -> NoIdentity("unsupported")

(* ParseServerIdentity tries the products in this order and stops at the first    *)
(* that knows the text; "" (any) is the expectation of a caller-owned connection. *)
BugMySQLBeforeTiDB == <<"postgresql", "mysql", "tidb">>
ParseOrder == <<"postgresql", "tidb", "mysql">>

ParseServerIdentity(raw, expected) ==
  LET Known(i) == ParseAs(ParseOrder[i], raw).error # "unknown"
      First == CHOOSE i \in 1..3 : Known(i) /\ \A j \in 1..(i - 1) : ~Known(j)
  IN IF \A i \in 1..3 : ~Known(i) THEN NoIdentity("unknown")
     ELSE IF expected \notin {"any", ParseOrder[First]} THEN NoIdentity("mismatch")
     ELSE ParseAs(ParseOrder[First], raw)

BugTargetIsProduct(identity) ==
  IF identity.error = "none" THEN identity.product ELSE NoTarget

DeriveCapabilityTarget(identity) ==
  IF identity.error = "none" THEN identity.series ELSE NoTarget

DialectOf(t) ==
  CASE t = "postgresql-17" -> "postgresql"
    [] t = "tidb-8.5" -> "tidb"
    [] OTHER -> "mysql"

----------------------------------------------------------------------------
(* OpenSession. *)

SessionInit ==
  /\ stage = [o \in Owners |-> "none"] /\ pool = [o \in Owners |-> "none"]
  /\ conn = [o \in Owners |-> "none"] /\ target = [o \in Owners |-> NoTarget]

(* A dialect or a configuration no connector can be made of. *)
ConfigFails(o) ==
  /\ stage[o] = "none"
  /\ stage' = [stage EXCEPT ![o] = "failed"]
  /\ UNCHANGED <<pool, conn, target>>

OpenDB(o) ==
  /\ stage[o] = "none"
  /\ stage' = [stage EXCEPT ![o] = "pool"]
  /\ pool' = [pool EXCEPT ![o] = "open"]
  /\ UNCHANGED <<conn, target>>

Ping(o, alive) ==
  /\ stage[o] = "pool" /\ alive
  /\ stage' = [stage EXCEPT ![o] = "pinged"]
  /\ UNCHANGED <<pool, conn, target>>

Pin(o, alive) ==
  /\ stage[o] = "pinged" /\ alive
  /\ stage' = [stage EXCEPT ![o] = "pinned"]
  /\ conn' = [conn EXCEPT ![o] = "pinned"]
  /\ UNCHANGED <<pool, target>>

(* The ping, or taking the connection, fails: the pool is closed. *)
ConnectFails(o) ==
  /\ stage[o] \in {"pool", "pinged"}
  /\ stage' = [stage EXCEPT ![o] = "failed"]
  /\ pool' = [pool EXCEPT ![o] = "closed"]
  /\ UNCHANGED <<conn, target>>

Identify(o, alive, raw, expected) ==
  /\ stage[o] = "pinned" /\ alive
  /\ ParseServerIdentity(raw, expected).error = "none"
  /\ stage' = [stage EXCEPT ![o] = "open"]
  /\ target' = [target EXCEPT ![o] =
                  DeriveCapabilityTarget(ParseServerIdentity(raw, expected))]
  /\ UNCHANGED <<pool, conn>>

(* The version query fails, or its answer is not acceptable (the caller's      *)
(* guard): the connection is given back, then the pool closed.                 *)
BugPoolLeftOpen(o) ==
  /\ stage[o] = "pinned"
  /\ stage' = [stage EXCEPT ![o] = "failed"]
  /\ conn' = [conn EXCEPT ![o] = "returned"]
  /\ UNCHANGED <<pool, target>>

IdentifyFails(o) ==
  /\ stage[o] = "pinned"
  /\ stage' = [stage EXCEPT ![o] = "failed"]
  /\ conn' = [conn EXCEPT ![o] = "returned"]
  /\ pool' = [pool EXCEPT ![o] = "closed"]
  /\ UNCHANGED target

----------------------------------------------------------------------------
(* Session.Close, by whoever set the flag: the connection, then the pool. *)

CloseConn(o) ==
  /\ stage[o] = "open"
  /\ stage' = [stage EXCEPT ![o] = "connClosed"]
  /\ conn' = [conn EXCEPT ![o] = "returned"]
  /\ UNCHANGED <<pool, target>>

CloseDB(o) ==
  /\ stage[o] = "connClosed"
  /\ stage' = [stage EXCEPT ![o] = "closed"]
  /\ pool' = [pool EXCEPT ![o] = "closed"]
  /\ UNCHANGED <<conn, target>>

Released(o) == pool[o] # "open" /\ conn[o] # "pinned"
=============================================================================
