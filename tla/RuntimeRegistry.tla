--------------------------- MODULE RuntimeRegistry ---------------------------
(***************************************************************************)
(* The runtime registry: named connections and API keys, validated when    *)
(* the server starts and never changed after.  Identifiers, hosts, users   *)
(* and passwords are model values or flags that they are given.            *)
(***************************************************************************)
EXTENDS Naturals, Sequences, FiniteSets

Purposes == {"audit", "query_access"}

(* An optional setting that may be given in one of two ways, or wrongly in  *)
(* both: a host or a socket, a secret in the environment or in a file.      *)
OneOf(setting) == setting \in {"first", "second"}

IsDistinct(seq) == \A i, j \in DOMAIN seq : seq[i] = seq[j] => i = j
Listed(seq, x) == \E i \in DOMAIN seq : seq[i] = x

ConnectionValid(c) ==
  /\ c.dialect \in {"mysql", "tidb", "postgresql"}
  /\ OneOf(c.endpoint)                                \* host, socket
  /\ c.portGiven = (c.endpoint = "first")
  /\ c.dialect = "postgresql" => c.database
  /\ OneOf(c.password)
  /\ c.tls => c.endpoint = "first"
  /\ c.caFile => c.tls
  /\ \A i \in DOMAIN c.purposes : c.purposes[i] \in Purposes
  /\ IsDistinct(c.purposes)

(* validateConnections *)
ConnectionsValid(cfg) ==
  /\ \A i, j \in DOMAIN cfg.connections :
       cfg.connections[i].id = cfg.connections[j].id => i = j
  /\ \A i \in DOMAIN cfg.connections : ConnectionValid(cfg.connections[i])

(* validateAPIKeys *)
KeysValid(cfg) ==
  /\ \A i, j \in DOMAIN cfg.keys : cfg.keys[i].id = cfg.keys[j].id => i = j
  /\ \A i \in DOMAIN cfg.keys : OneOf(cfg.keys[i].source)
  /\ cfg.auth => cfg.keys # << >>
  /\ cfg.auth => \A i \in DOMAIN cfg.connections :
                   \A n \in DOMAIN cfg.connections[i].allowed :
                     \E k \in DOMAIN cfg.keys : cfg.keys[k].id = cfg.connections[i].allowed[n]

(* resolveSecrets: every password, key and CA file must be readable. *)
SecretsResolve(cfg) ==
  /\ \A i \in DOMAIN cfg.connections : cfg.connections[i].readable
  /\ \A i \in DOMAIN cfg.keys : cfg.keys[i].readable

ValidConfig(cfg) == ConnectionsValid(cfg) /\ KeysValid(cfg) /\ SecretsResolve(cfg)

(* LookupConnection, Authorize and ResolveAPIKey of a registry built from cfg.   *)
HasConnection(cfg, id) == \E i \in DOMAIN cfg.connections : cfg.connections[i].id = id
Connection(cfg, id) ==
  cfg.connections[CHOOSE i \in DOMAIN cfg.connections : cfg.connections[i].id = id]

BugPurposeIgnored(cfg, principal, id, purpose) ==
  IF ~HasConnection(cfg, id) THEN "not_found"
  ELSE IF cfg.auth /\ ~Listed(Connection(cfg, id).allowed, principal)
       THEN "principal_not_allowed"
  ELSE "ok"

Authorize(cfg, principal, id, purpose) ==
  IF ~HasConnection(cfg, id) THEN "not_found"
  ELSE IF ~Listed(Connection(cfg, id).purposes, purpose) THEN "purpose_not_allowed"
  ELSE IF cfg.auth /\ ~Listed(Connection(cfg, id).allowed, principal)
       THEN "principal_not_allowed"
  ELSE "ok"

(* The keys whose secret is the one presented: ResolveAPIKey ranges over a Go  *)
(* map and returns the first it meets, so any of them.                         *)
ResolveAPIKey(cfg, secret) ==
  {cfg.keys[i].id : i \in {k \in DOMAIN cfg.keys : cfg.keys[k].secret = secret}}
=============================================================================
