-------------------------- MODULE HttpServer_proofs --------------------------
(***************************************************************************)
(* Proofs about HttpServer, for any requests, configurations and servers.  *)
(* IInv says what each owner has opened at every point of its handler and  *)
(* of its worker, and who it is by then known to be.                       *)
(***************************************************************************)
EXTENDS HttpServer, TLAPS

(* What exists of a session at each stage of it. *)
StageInv(o) ==
  /\ stage[o] = "none" => pool[o] = "none" /\ conn[o] = "none"
  /\ stage[o] \in {"pool", "pinged"} => pool[o] = "open" /\ conn[o] = "none"
  /\ stage[o] \in {"pinned", "open"} => pool[o] = "open" /\ conn[o] = "pinned"
  /\ stage[o] \in {"failed", "closed"} => pool[o] # "open" /\ conn[o] # "pinned"
  /\ stage[o] = "connClosed" => pool[o] = "open" /\ conn[o] = "returned"

(* How far the session is at each point of the handler. *)
HandlerInv(o) ==
  /\ pc[o] \in {"idle", "auth", "limit", "handler", "authorize", "select"} => stage[o] = "none"
  /\ pc[o] = "open" => stage[o] \in {"none", "pool", "pinged", "pinned"}
  /\ pc[o] = "attach" => stage[o] = "open"
  /\ pc[o] \in {"analyse", "analysing"} => stage[o] \in {"none", "open"}
  /\ pc[o] = "close" => stage[o] \in {"open", "connClosed"}
  /\ pc[o] = "returned" => stage[o] \in {"none", "failed", "closed"}
  /\ pc[o] \in {"close", "returned"} => answer[o] # 0

(* What the goroutine of an audit holds at each point of it. *)
WorkerInv(o) ==
  /\ pc[o] \in {"idle", "auth", "limit", "handler"} => worker[o] = "none"
  /\ worker[o] \in {"none", "authorize", "snapshot"} => client[o] = "none" /\ file[o] = "none"
  /\ worker[o] = "prepare" => client[o] = "none"
  /\ worker[o] \in {"close_ok", "close_failed"} => client[o] = "open"
  /\ worker[o] = "audit" => client[o] = "open" \/ file[o] # "present"
  /\ worker[o] \in {"cleanup_ok", "cleanup_failed"} => client[o] # "open"
  /\ client[o] = "leaked" =>
       \/ worker[o] \in {"cleanup_failed", "failed"}
       \/ worker[o] = "done" /\ result[o] = "failed"
  /\ worker[o] \in {"ok", "failed", "refused", "done"} =>
       client[o] # "open" /\ file[o] # "present"
  /\ worker[o] = "done" => result[o] # "none"

(* Past the authentication middleware, and in a worker, the principal is one   *)
(* whose secret was presented; past the authorization it is permitted.         *)
Identified(o) == config.auth => principal[o] \in ResolveAPIKey(config, request[o].secret)

PermissionInv(o) ==
  /\ pc[o] \in {"limit", "handler"} => Public(o) \/ Identified(o)
  /\ pc[o] = "authorize" => Identified(o)
  /\ worker[o] = "authorize" => Identified(o)
  /\ pc[o] = "open" \/ stage[o] # "none" => Permitted(o)
  /\ worker[o] \in {"snapshot", "prepare"} \/ client[o] # "none" \/ file[o] # "none"
       => Permitted(o)

(* A session that is open agrees with its server. *)
ServerInv(o) ==
  stage[o] = "open" =>
    /\ DialectOf(target[o]) = Expected(o)
    /\ \/ Raw(o).product = Expected(o) /\ Raw(o).version = target[o]
       \/ /\ Raw(o).product = "tidb" /\ Raw(o).version = "unreadable"
          /\ Expected(o) = "mysql"

OwnerInv(o) ==
  StageInv(o) /\ HandlerInv(o) /\ WorkerInv(o) /\ PermissionInv(o) /\ ServerInv(o)

(* Only a valid configuration is served, and a clean exit leaves no handler.    *)
ProcessInv ==
  /\ Up => ValidConfig(config)
  /\ server = "exit0" => \A o \in Owners : Returned(o)

IInv == TypeOK /\ ProcessInv /\ \A o \in Owners : OwnerInv(o)

----------------------------------------------------------------------------
LEMMA InitInv == Init => IInv
  BY DEF Init, SessionInit, IInv, TypeOK, ProcessInv, OwnerInv, StageInv, HandlerInv, WorkerInv,
         PermissionInv, ServerInv, Up, Returned, Stages, Labels, WorkerLabels, Statuses, KeyIds

(* A step of one owner leaves the others as they are. *)
Unmoved(p) ==
  /\ stage'[p] = stage[p] /\ pool'[p] = pool[p] /\ conn'[p] = conn[p]
  /\ target'[p] = target[p] /\ pc'[p] = pc[p] /\ principal'[p] = principal[p]
  /\ answer'[p] = answer[p] /\ worker'[p] = worker[p] /\ client'[p] = client[p]
  /\ file'[p] = file[p] /\ result'[p] = result[p]

LEMMA Frame ==
  ASSUME NEW p \in Owners, OwnerInv(p), Unmoved(p), config' = config, request' = request
  PROVE  OwnerInv(p)'
  <1>1. Permitted(p)' <=> Permitted(p)
    BY DEF Permitted, Listed
  <1>2. Identified(p)' <=> Identified(p)
    BY DEF Identified, ResolveAPIKey, Unmoved
  <1>3. Expected(p)' = Expected(p) /\ Raw(p)' = Raw(p) /\ (Public(p)' <=> Public(p))
    BY DEF Expected, Raw, Connection, Public
  <1>4. StageInv(p)' /\ HandlerInv(p)' /\ WorkerInv(p)'
    BY DEF OwnerInv, StageInv, HandlerInv, WorkerInv, Unmoved
  <1>5. PermissionInv(p)'
    BY <1>1, <1>2, <1>3 DEF OwnerInv, PermissionInv, Unmoved
  <1>6. ServerInv(p)'
    BY <1>3 DEF OwnerInv, ServerInv, Unmoved, DialectOf
  <1> QED BY <1>4, <1>5, <1>6 DEF OwnerInv

(* What a step may assume of its owner, and what it has to show of it. *)
LEMMA OneOwner ==
  ASSUME IInv, NEW o \in Owners, TypeOK', Up, server' \in {server, "crashed"},
         config' = config, request' = request, OwnerInv(o)',
         \A p \in Owners \ {o} : Unmoved(p)
  PROVE  IInv'
  <1>1. ProcessInv'
    BY DEF IInv, ProcessInv, Up, ValidConfig, Returned
  <1>2. \A p \in Owners \ {o} : OwnerInv(p)'
    BY Frame DEF IInv
  <1> QED BY <1>1, <1>2 DEF IInv

----------------------------------------------------------------------------
(* Steps of one owner. *)

LEMMA ArriveStep ==
  ASSUME IInv, NEW o \in Owners, Arrive(o)
  PROVE  IInv'
  <1> USE DEF Arrive, Goto, session, process, handling, working
  <1>1. TypeOK'
    BY DEF IInv, TypeOK, Labels, WorkerLabels, Statuses, ResolveAPIKey, KeyIds
  <1>2. \A p \in Owners \ {o} : Unmoved(p)
    BY DEF IInv, TypeOK, Unmoved
  <1>3. Permitted(o)' = Permitted(o) /\ Public(o)' = Public(o)
    BY DEF Permitted, Listed, Public
  <1>4. StageInv(o)' /\ HandlerInv(o)'
    BY DEF IInv, TypeOK, OwnerInv, StageInv, HandlerInv
  <1>5. WorkerInv(o)'
    BY DEF IInv, TypeOK, OwnerInv, WorkerInv
  <1>6. PermissionInv(o)'
    BY <1>3 DEF IInv, TypeOK, OwnerInv, PermissionInv, HandlerInv, WorkerInv, Identified, ResolveAPIKey, Public
  <1>7. ServerInv(o)'
    BY DEF IInv, OwnerInv, ServerInv, Expected, Raw, Connection
  <1> QED BY <1>1, <1>2, <1>4, <1>5, <1>6, <1>7, OneOwner DEF OwnerInv, Up

LEMMA AuthenticateStep ==
  ASSUME IInv, NEW o \in Owners, Authenticate(o)
  PROVE  IInv'
  <1> USE DEF Authenticate, Goto, Reply, AuthOpen, session, process, handling, working
  <1>1. TypeOK'
    BY DEF IInv, TypeOK, Labels, WorkerLabels, Statuses, ResolveAPIKey, KeyIds
  <1>2. \A p \in Owners \ {o} : Unmoved(p)
    BY DEF IInv, TypeOK, Unmoved
  <1>3. Permitted(o)' = Permitted(o) /\ Public(o)' = Public(o)
    BY DEF Permitted, Listed, Public
  <1>4. StageInv(o)' /\ HandlerInv(o)'
    BY DEF IInv, TypeOK, OwnerInv, StageInv, HandlerInv
  <1>5. WorkerInv(o)'
    BY DEF IInv, TypeOK, OwnerInv, WorkerInv
  <1>6. PermissionInv(o)'
    BY <1>3 DEF IInv, TypeOK, OwnerInv, PermissionInv, HandlerInv, WorkerInv, Identified, ResolveAPIKey, Public
  <1>7. ServerInv(o)'
    BY DEF IInv, OwnerInv, ServerInv, Expected, Raw, Connection
  <1> QED BY <1>1, <1>2, <1>4, <1>5, <1>6, <1>7, OneOwner DEF OwnerInv, Up

LEMMA LimitStep ==
  ASSUME IInv, NEW o \in Owners, Limit(o)
  PROVE  IInv'
  <1> USE DEF Limit, Goto, Reply, session, process, handling, working
  <1>1. TypeOK'
    BY DEF IInv, TypeOK, Labels, WorkerLabels, Statuses, ResolveAPIKey, KeyIds
  <1>2. \A p \in Owners \ {o} : Unmoved(p)
    BY DEF IInv, TypeOK, Unmoved
  <1>3. Permitted(o)' = Permitted(o) /\ Public(o)' = Public(o)
    BY DEF Permitted, Listed, Public
  <1>4. StageInv(o)' /\ HandlerInv(o)'
    BY DEF IInv, TypeOK, OwnerInv, StageInv, HandlerInv
  <1>5. WorkerInv(o)'
    BY DEF IInv, TypeOK, OwnerInv, WorkerInv
  <1>6. PermissionInv(o)'
    BY <1>3 DEF IInv, TypeOK, OwnerInv, PermissionInv, HandlerInv, WorkerInv, Identified, ResolveAPIKey, Public
  <1>7. ServerInv(o)'
    BY DEF IInv, OwnerInv, ServerInv, Expected, Raw, Connection
  <1> QED BY <1>1, <1>2, <1>4, <1>5, <1>6, <1>7, OneOwner DEF OwnerInv, Up

LEMMA HandleStep ==
  ASSUME IInv, NEW o \in Owners, Handle(o)
  PROVE  IInv'
  <1> USE DEF Handle, Goto, Reply, session, process, handling, working
  <1>1. TypeOK'
    BY DEF IInv, TypeOK, Labels, WorkerLabels, Statuses, ResolveAPIKey, KeyIds
  <1>2. \A p \in Owners \ {o} : Unmoved(p)
    BY DEF IInv, TypeOK, Unmoved
  <1>3. Permitted(o)' = Permitted(o) /\ Public(o)' = Public(o)
    BY DEF Permitted, Listed, Public
  <1>4. StageInv(o)' /\ HandlerInv(o)'
    BY DEF IInv, TypeOK, OwnerInv, StageInv, HandlerInv
  <1>5. WorkerInv(o)'
    BY DEF IInv, TypeOK, OwnerInv, WorkerInv
  <1>6. PermissionInv(o)'
    BY <1>3 DEF IInv, TypeOK, OwnerInv, PermissionInv, HandlerInv, WorkerInv, Identified, ResolveAPIKey, Public
  <1>7. ServerInv(o)'
    BY DEF IInv, OwnerInv, ServerInv, Expected, Raw, Connection
  <1> QED BY <1>1, <1>2, <1>4, <1>5, <1>6, <1>7, OneOwner DEF OwnerInv, Up

LEMMA AttachStep ==
  ASSUME IInv, NEW o \in Owners, Attach(o)
  PROVE  IInv'
  <1> USE DEF Attach, Goto, session, process, handling, working
  <1>1. TypeOK'
    BY DEF IInv, TypeOK, Labels, WorkerLabels, Statuses, ResolveAPIKey, KeyIds
  <1>2. \A p \in Owners \ {o} : Unmoved(p)
    BY DEF IInv, TypeOK, Unmoved
  <1>3. Permitted(o)' = Permitted(o) /\ Public(o)' = Public(o)
    BY DEF Permitted, Listed, Public
  <1>4. StageInv(o)' /\ HandlerInv(o)'
    BY DEF IInv, TypeOK, OwnerInv, StageInv, HandlerInv
  <1>5. WorkerInv(o)'
    BY DEF IInv, TypeOK, OwnerInv, WorkerInv
  <1>6. PermissionInv(o)'
    BY <1>3 DEF IInv, TypeOK, OwnerInv, PermissionInv, HandlerInv, WorkerInv, Identified, ResolveAPIKey, Public
  <1>7. ServerInv(o)'
    BY DEF IInv, OwnerInv, ServerInv, Expected, Raw, Connection
  <1> QED BY <1>1, <1>2, <1>4, <1>5, <1>6, <1>7, OneOwner DEF OwnerInv, Up

LEMMA BeginStep ==
  ASSUME IInv, NEW o \in Owners, Begin(o)
  PROVE  IInv'
  <1> USE DEF Begin, Goto, AfterAnalysis, session, process, handling, working
  <1>1. TypeOK'
    BY DEF IInv, TypeOK, Labels, WorkerLabels, Statuses, ResolveAPIKey, KeyIds
  <1>2. \A p \in Owners \ {o} : Unmoved(p)
    BY DEF IInv, TypeOK, Unmoved
  <1>3. Permitted(o)' = Permitted(o) /\ Public(o)' = Public(o)
    BY DEF Permitted, Listed, Public
  <1>4. StageInv(o)' /\ HandlerInv(o)'
    BY DEF IInv, TypeOK, OwnerInv, StageInv, HandlerInv
  <1>5. WorkerInv(o)'
    BY DEF IInv, TypeOK, OwnerInv, WorkerInv
  <1>6. PermissionInv(o)'
    BY <1>3 DEF IInv, TypeOK, OwnerInv, PermissionInv, HandlerInv, WorkerInv, Identified, ResolveAPIKey, Public
  <1>7. ServerInv(o)'
    BY DEF IInv, OwnerInv, ServerInv, Expected, Raw, Connection
  <1> QED BY <1>1, <1>2, <1>4, <1>5, <1>6, <1>7, OneOwner DEF OwnerInv, Up

LEMMA AnalyseStep ==
  ASSUME IInv, NEW o \in Owners, Analyse(o)
  PROVE  IInv'
  <1> USE DEF Analyse, Goto, AfterAnalysis, session, process, handling, working
  <1>1. TypeOK'
    BY DEF IInv, TypeOK, Labels, WorkerLabels, Statuses, ResolveAPIKey, KeyIds
  <1>2. \A p \in Owners \ {o} : Unmoved(p)
    BY DEF IInv, TypeOK, Unmoved
  <1>3. Permitted(o)' = Permitted(o) /\ Public(o)' = Public(o)
    BY DEF Permitted, Listed, Public
  <1>4. StageInv(o)' /\ HandlerInv(o)'
    BY DEF IInv, TypeOK, OwnerInv, StageInv, HandlerInv
  <1>5. WorkerInv(o)'
    BY DEF IInv, TypeOK, OwnerInv, WorkerInv
  <1>6. PermissionInv(o)'
    BY <1>3 DEF IInv, TypeOK, OwnerInv, PermissionInv, HandlerInv, WorkerInv, Identified, ResolveAPIKey, Public
  <1>7. ServerInv(o)'
    BY DEF IInv, OwnerInv, ServerInv, Expected, Raw, Connection
  <1> QED BY <1>1, <1>2, <1>4, <1>5, <1>6, <1>7, OneOwner DEF OwnerInv, Up

LEMMA HandlerPanicsStep ==
  ASSUME IInv, NEW o \in Owners, HandlerPanics(o)
  PROVE  IInv'
  <1> USE DEF HandlerPanics, Goto, AfterAnalysis, session, process, handling, working
  <1>1. TypeOK'
    BY DEF IInv, TypeOK, Labels, WorkerLabels, Statuses, ResolveAPIKey, KeyIds
  <1>2. \A p \in Owners \ {o} : Unmoved(p)
    BY DEF IInv, TypeOK, Unmoved
  <1>3. Permitted(o)' = Permitted(o) /\ Public(o)' = Public(o)
    BY DEF Permitted, Listed, Public
  <1>4. StageInv(o)' /\ HandlerInv(o)'
    BY DEF IInv, TypeOK, OwnerInv, StageInv, HandlerInv
  <1>5. WorkerInv(o)'
    BY DEF IInv, TypeOK, OwnerInv, WorkerInv
  <1>6. PermissionInv(o)'
    BY <1>3 DEF IInv, TypeOK, OwnerInv, PermissionInv, HandlerInv, WorkerInv, Identified, ResolveAPIKey, Public
  <1>7. ServerInv(o)'
    BY DEF IInv, OwnerInv, ServerInv, Expected, Raw, Connection
  <1> QED BY <1>1, <1>2, <1>4, <1>5, <1>6, <1>7, OneOwner DEF OwnerInv, Up

LEMMA SelectStep ==
  ASSUME IInv, NEW o \in Owners, Select(o)
  PROVE  IInv'
  <1>0. PICK status \in Statuses \ {0} : Reply(o, status)
    BY DEF Select, ResultStatuses, Statuses
  <1>8. Up /\ pc[o] = "select" /\ UNCHANGED <<session, process, request, principal, context, working>>
    BY DEF Select
  <1> USE <1>0, <1>8 DEF Goto, Reply, session, process, handling, working
  <1>1. TypeOK'
    BY DEF IInv, TypeOK, Labels, WorkerLabels, Statuses, ResolveAPIKey, KeyIds
  <1>2. \A p \in Owners \ {o} : Unmoved(p)
    BY DEF IInv, TypeOK, Unmoved
  <1>3. Permitted(o)' = Permitted(o) /\ Public(o)' = Public(o)
    BY DEF Permitted, Listed, Public
  <1>4. StageInv(o)' /\ HandlerInv(o)'
    BY DEF IInv, TypeOK, OwnerInv, StageInv, HandlerInv, Statuses
  <1>5. WorkerInv(o)'
    BY DEF IInv, TypeOK, OwnerInv, WorkerInv
  <1>6. PermissionInv(o)'
    BY <1>3 DEF IInv, TypeOK, OwnerInv, PermissionInv, HandlerInv, WorkerInv, Identified, ResolveAPIKey, Public
  <1>7. ServerInv(o)'
    BY DEF IInv, OwnerInv, ServerInv, Expected, Raw, Connection
  <1> QED BY <1>1, <1>2, <1>4, <1>5, <1>6, <1>7, OneOwner DEF OwnerInv, Up

LEMMA SnapshotPolicyStep ==
  ASSUME IInv, NEW o \in Owners, SnapshotPolicy(o)
  PROVE  IInv'
  <1> USE DEF SnapshotPolicy, WorkOn, session, process, handling, working
  <1>1. TypeOK'
    BY DEF IInv, TypeOK, Labels, WorkerLabels, Statuses, ResolveAPIKey, KeyIds
  <1>2. \A p \in Owners \ {o} : Unmoved(p)
    BY DEF IInv, TypeOK, Unmoved
  <1>3. Permitted(o)' = Permitted(o) /\ Public(o)' = Public(o)
    BY DEF Permitted, Listed, Public
  <1>4. StageInv(o)' /\ HandlerInv(o)'
    BY DEF IInv, TypeOK, OwnerInv, StageInv, HandlerInv
  <1>5. WorkerInv(o)'
    BY DEF IInv, TypeOK, OwnerInv, WorkerInv
  <1>6. PermissionInv(o)'
    BY <1>3 DEF IInv, TypeOK, OwnerInv, PermissionInv, HandlerInv, WorkerInv, Identified, ResolveAPIKey, Public
  <1>7. ServerInv(o)'
    BY DEF IInv, OwnerInv, ServerInv, Expected, Raw, Connection
  <1> QED BY <1>1, <1>2, <1>4, <1>5, <1>6, <1>7, OneOwner DEF OwnerInv, Up

LEMMA PrepareAuditStep ==
  ASSUME IInv, NEW o \in Owners, PrepareAudit(o)
  PROVE  IInv'
  <1> USE DEF PrepareAudit, WorkOn, session, process, handling, working
  <1>1. TypeOK'
    BY DEF IInv, TypeOK, Labels, WorkerLabels, Statuses, ResolveAPIKey, KeyIds
  <1>2. \A p \in Owners \ {o} : Unmoved(p)
    BY DEF IInv, TypeOK, Unmoved
  <1>3. Permitted(o)' = Permitted(o) /\ Public(o)' = Public(o)
    BY DEF Permitted, Listed, Public
  <1>4. StageInv(o)' /\ HandlerInv(o)'
    BY DEF IInv, TypeOK, OwnerInv, StageInv, HandlerInv
  <1>5. WorkerInv(o)'
    BY DEF IInv, TypeOK, OwnerInv, WorkerInv
  <1>6. PermissionInv(o)'
    BY <1>3 DEF IInv, TypeOK, OwnerInv, PermissionInv, HandlerInv, WorkerInv, Identified, ResolveAPIKey, Public
  <1>7. ServerInv(o)'
    BY DEF IInv, OwnerInv, ServerInv, Expected, Raw, Connection
  <1> QED BY <1>1, <1>2, <1>4, <1>5, <1>6, <1>7, OneOwner DEF OwnerInv, Up

LEMMA AuditStep ==
  ASSUME IInv, NEW o \in Owners, Audit(o)
  PROVE  IInv'
  <1> USE DEF Audit, WorkOn, Closing, CleaningUp, session, process, handling, working
  <1>1. TypeOK'
    BY DEF IInv, TypeOK, Labels, WorkerLabels, Statuses, ResolveAPIKey, KeyIds
  <1>2. \A p \in Owners \ {o} : Unmoved(p)
    BY DEF IInv, TypeOK, Unmoved
  <1>3. Permitted(o)' = Permitted(o) /\ Public(o)' = Public(o)
    BY DEF Permitted, Listed, Public
  <1>4. StageInv(o)' /\ HandlerInv(o)'
    BY DEF IInv, TypeOK, OwnerInv, StageInv, HandlerInv
  <1>5. WorkerInv(o)'
    BY DEF IInv, TypeOK, OwnerInv, WorkerInv
  <1>6. PermissionInv(o)'
    BY <1>3 DEF IInv, TypeOK, OwnerInv, PermissionInv, HandlerInv, WorkerInv, Identified, ResolveAPIKey, Public
  <1>7. ServerInv(o)'
    BY DEF IInv, OwnerInv, ServerInv, Expected, Raw, Connection
  <1> QED BY <1>1, <1>2, <1>4, <1>5, <1>6, <1>7, OneOwner DEF OwnerInv, Up

LEMMA CloseClientStep ==
  ASSUME IInv, NEW o \in Owners, CloseClient(o)
  PROVE  IInv'
  <1> USE DEF CloseClient, WorkOn, Closing, CleaningUp, session, process, handling, working
  <1>1. TypeOK'
    BY DEF IInv, TypeOK, Labels, WorkerLabels, Statuses, ResolveAPIKey, KeyIds
  <1>2. \A p \in Owners \ {o} : Unmoved(p)
    BY DEF IInv, TypeOK, Unmoved
  <1>3. Permitted(o)' = Permitted(o) /\ Public(o)' = Public(o)
    BY DEF Permitted, Listed, Public
  <1>4. StageInv(o)' /\ HandlerInv(o)'
    BY DEF IInv, TypeOK, OwnerInv, StageInv, HandlerInv
  <1>5. WorkerInv(o)'
    BY DEF IInv, TypeOK, OwnerInv, WorkerInv
  <1>6. PermissionInv(o)'
    BY <1>3 DEF IInv, TypeOK, OwnerInv, PermissionInv, HandlerInv, WorkerInv, Identified, ResolveAPIKey, Public
  <1>7. ServerInv(o)'
    BY DEF IInv, OwnerInv, ServerInv, Expected, Raw, Connection
  <1> QED BY <1>1, <1>2, <1>4, <1>5, <1>6, <1>7, OneOwner DEF OwnerInv, Up

LEMMA CleanupPolicyStep ==
  ASSUME IInv, NEW o \in Owners, CleanupPolicy(o)
  PROVE  IInv'
  <1> USE DEF CleanupPolicy, WorkOn, Closing, CleaningUp, session, process, handling, working
  <1>1. TypeOK'
    BY DEF IInv, TypeOK, Labels, WorkerLabels, Statuses, ResolveAPIKey, KeyIds
  <1>2. \A p \in Owners \ {o} : Unmoved(p)
    BY DEF IInv, TypeOK, Unmoved
  <1>3. Permitted(o)' = Permitted(o) /\ Public(o)' = Public(o)
    BY DEF Permitted, Listed, Public
  <1>4. StageInv(o)' /\ HandlerInv(o)'
    BY DEF IInv, TypeOK, OwnerInv, StageInv, HandlerInv
  <1>5. WorkerInv(o)'
    BY DEF IInv, TypeOK, OwnerInv, WorkerInv
  <1>6. PermissionInv(o)'
    <2>1. file'[o] # "none" => file[o] # "none"
      BY DEF IInv, TypeOK
    <2>2. worker'[o] \in {"ok", "failed"}
      BY DEF IInv, TypeOK
    <2> QED BY <1>3, <2>1, <2>2 DEF IInv, TypeOK, OwnerInv, PermissionInv, HandlerInv, WorkerInv, Identified, ResolveAPIKey, Public
  <1>7. ServerInv(o)'
    BY DEF IInv, OwnerInv, ServerInv, Expected, Raw, Connection
  <1> QED BY <1>1, <1>2, <1>4, <1>5, <1>6, <1>7, OneOwner DEF OwnerInv, Up

LEMMA SendStep ==
  ASSUME IInv, NEW o \in Owners, Send(o)
  PROVE  IInv'
  <1> USE DEF Send, WorkOn, Outcome, session, process, handling, working
  <1>1. TypeOK'
    BY DEF IInv, TypeOK, Labels, WorkerLabels, Statuses, ResolveAPIKey, KeyIds
  <1>2. \A p \in Owners \ {o} : Unmoved(p)
    BY DEF IInv, TypeOK, Unmoved
  <1>3. Permitted(o)' = Permitted(o) /\ Public(o)' = Public(o)
    BY DEF Permitted, Listed, Public
  <1>4. StageInv(o)' /\ HandlerInv(o)'
    BY DEF IInv, TypeOK, OwnerInv, StageInv, HandlerInv
  <1>5. WorkerInv(o)'
    BY DEF IInv, TypeOK, OwnerInv, WorkerInv
  <1>6. PermissionInv(o)'
    BY <1>3 DEF IInv, TypeOK, OwnerInv, PermissionInv, HandlerInv, WorkerInv, Identified, ResolveAPIKey, Public
  <1>7. ServerInv(o)'
    BY DEF IInv, OwnerInv, ServerInv, Expected, Raw, Connection
  <1> QED BY <1>1, <1>2, <1>4, <1>5, <1>6, <1>7, OneOwner DEF OwnerInv, Up

LEMMA WorkerPanicsStep ==
  ASSUME IInv, NEW o \in Owners, WorkerPanics(o)
  PROVE  IInv'
  <1> USE DEF WorkerPanics, session, process, handling, working
  <1>1. TypeOK'
    BY DEF IInv, TypeOK, Labels, WorkerLabels, Statuses, ResolveAPIKey, KeyIds
  <1>2. \A p \in Owners \ {o} : Unmoved(p)
    BY DEF IInv, TypeOK, Unmoved
  <1>3. Permitted(o)' = Permitted(o) /\ Public(o)' = Public(o)
    BY DEF Permitted, Listed, Public
  <1>4. StageInv(o)' /\ HandlerInv(o)'
    BY DEF IInv, TypeOK, OwnerInv, StageInv, HandlerInv
  <1>5. WorkerInv(o)'
    BY DEF IInv, TypeOK, OwnerInv, WorkerInv
  <1>6. PermissionInv(o)'
    BY <1>3 DEF IInv, TypeOK, OwnerInv, PermissionInv, HandlerInv, WorkerInv, Identified, ResolveAPIKey, Public
  <1>7. ServerInv(o)'
    BY DEF IInv, OwnerInv, ServerInv, Expected, Raw, Connection
  <1> QED BY <1>1, <1>2, <1>4, <1>5, <1>6, <1>7, OneOwner DEF OwnerInv, Up

(* What Authorize grants is a connection the registry has, for a purpose it    *)
(* lists, to a principal it allows.                                            *)
LEMMA GrantedIsPermitted ==
  ASSUME NEW o \in Owners, Permission(o) = "ok", Identified(o)
  PROVE  Permitted(o)
  <1> DEFINE i == CHOOSE n \in DOMAIN config.connections :
                    config.connections[n].id = request[o].connection
  <1>1. HasConnection(config, request[o].connection)
    BY DEF Permission, Authorize
  <1>2. i \in DOMAIN config.connections /\ config.connections[i].id = request[o].connection
    BY <1>1 DEF HasConnection
  <1>3. /\ Listed(config.connections[i].purposes, request[o].path)
        /\ config.auth => Listed(config.connections[i].allowed, principal[o])
    BY <1>1 DEF Permission, Authorize, Connection
  <1>4. config.auth => \E k \in DOMAIN config.keys :
                         config.keys[k].secret = request[o].secret /\ config.keys[k].id = principal[o]
    BY DEF Identified, ResolveAPIKey
  <1> HIDE DEF i
  <1> QED BY <1>2, <1>3, <1>4 DEF Permitted

LEMMA AuthorizeQueryStep ==
  ASSUME IInv, NEW o \in Owners, AuthorizeQuery(o)
  PROVE  IInv'
  <1> USE DEF AuthorizeQuery, Goto, Reply, session, process, handling, working
  <1>1. TypeOK'
    BY SMTT(30) DEF IInv, TypeOK, Labels, WorkerLabels, Statuses, ResolveAPIKey, KeyIds
  <1>2. \A p \in Owners \ {o} : Unmoved(p)
    BY DEF IInv, TypeOK, Unmoved
  <1>3. Permitted(o)' = Permitted(o) /\ Public(o)' = Public(o)
    BY DEF Permitted, Listed, Public
  <1>4. StageInv(o)' /\ HandlerInv(o)'
    BY DEF IInv, TypeOK, OwnerInv, StageInv, HandlerInv
  <1>5. WorkerInv(o)'
    BY DEF IInv, TypeOK, OwnerInv, WorkerInv
  <1>6. Permission(o) = "ok" => Permitted(o)
    BY GrantedIsPermitted DEF IInv, OwnerInv, PermissionInv
  <1>7. PermissionInv(o)'
    BY <1>3, <1>6 DEF IInv, TypeOK, OwnerInv, PermissionInv, HandlerInv, WorkerInv, Identified, ResolveAPIKey
  <1>8. ServerInv(o)'
    BY DEF IInv, OwnerInv, ServerInv, Expected, Raw, Connection
  <1> QED BY <1>1, <1>2, <1>4, <1>5, <1>7, <1>8, OneOwner DEF OwnerInv, Up

LEMMA AuthorizeAuditStep ==
  ASSUME IInv, NEW o \in Owners, AuthorizeAudit(o)
  PROVE  IInv'
  <1> USE DEF AuthorizeAudit, WorkOn, session, process, handling, working
  <1>1. TypeOK'
    BY SMTT(30) DEF IInv, TypeOK, Labels, WorkerLabels, Statuses, ResolveAPIKey, KeyIds
  <1>2. \A p \in Owners \ {o} : Unmoved(p)
    BY DEF IInv, TypeOK, Unmoved
  <1>3. Permitted(o)' = Permitted(o) /\ Public(o)' = Public(o)
    BY DEF Permitted, Listed, Public
  <1>4. StageInv(o)' /\ HandlerInv(o)'
    BY DEF IInv, TypeOK, OwnerInv, StageInv, HandlerInv
  <1>5. WorkerInv(o)'
    BY DEF IInv, TypeOK, OwnerInv, WorkerInv
  <1>6. Permission(o) = "ok" => Permitted(o)
    BY GrantedIsPermitted DEF IInv, OwnerInv, PermissionInv
  <1>7. PermissionInv(o)'
    BY <1>3, <1>6 DEF IInv, TypeOK, OwnerInv, PermissionInv, HandlerInv, WorkerInv, Identified, ResolveAPIKey
  <1>8. ServerInv(o)'
    BY DEF IInv, OwnerInv, ServerInv, Expected, Raw, Connection
  <1> QED BY <1>1, <1>2, <1>4, <1>5, <1>7, <1>8, OneOwner DEF OwnerInv, Up

(* The dialect of a connection that is permitted is one a connection can have. *)
LEMMA ExpectedDialect ==
  ASSUME NEW o \in Owners, ValidConfig(config), config \in Configs, Permitted(o)
  PROVE  /\ Expected(o) \in {"mysql", "tidb", "postgresql"}
         /\ Raw(o).product \in Products
         /\ Raw(o).version \in Series(Raw(o).product) \cup {"other", "unreadable"}
  <1> DEFINE i == CHOOSE n \in DOMAIN config.connections :
                    config.connections[n].id = request[o].connection
  <1>1. i \in DOMAIN config.connections /\ config.connections[i].id = request[o].connection
    BY DEF Permitted
  <1>2. ConnectionValid(config.connections[i])
    BY <1>1 DEF ValidConfig, ConnectionsValid
  <1>3. Expected(o) = config.connections[i].dialect
    BY DEF Expected, Connection
  <1>4. request[o].connection \in DOMAIN Servers
    BY <1>1, ServersAssumption
  <1> HIDE DEF i
  <1> QED BY <1>2, <1>3, <1>4, ServersAssumption DEF ConnectionValid, Raw

(* An identity that is accepted is the one the server's answer states, and of  *)
(* the dialect expected; only a TiDB that hides its version is taken for a     *)
(* MySQL.                                                                      *)
LEMMA IdentityAgrees ==
  ASSUME NEW raw, raw.product \in Products,
         raw.version \in Series(raw.product) \cup {"other", "unreadable"},
         NEW expected \in {"mysql", "tidb", "postgresql"},
         ParseServerIdentity(raw, expected).error = "none"
  PROVE  LET t == DeriveCapabilityTarget(ParseServerIdentity(raw, expected)) IN
         /\ t \in Versions
         /\ DialectOf(t) = expected
         /\ \/ raw.product = expected /\ raw.version = t
            \/ raw.product = "tidb" /\ raw.version = "unreadable" /\ expected = "mysql"
  <1> DEFINE Known(i) == ParseAs(ParseOrder[i], raw).error # "unknown"
             first == CHOOSE i \in 1..3 : Known(i) /\ \A j \in 1..(i - 1) : ~Known(j)
             p == ParseOrder[first]
  <1>1. \E i \in 1..3 : Known(i)
    BY DEF ParseServerIdentity, NoIdentity
  <1>2. \E i \in 1..3 : Known(i) /\ \A j \in 1..(i - 1) : ~Known(j)
    <2> HIDE DEF Known
    <2>1. CASE Known(1)
      <3>1. \A j \in 1..(1 - 1) : ~Known(j)
        OBVIOUS
      <3> QED BY <2>1, <3>1
    <2>2. CASE ~Known(1) /\ Known(2)
      <3>1. \A j \in 1..(2 - 1) : j = 1
        OBVIOUS
      <3> QED BY <2>2, <3>1
    <2>3. CASE ~Known(1) /\ ~Known(2) /\ Known(3)
      <3>1. \A j \in 1..(3 - 1) : j = 1 \/ j = 2
        OBVIOUS
      <3> QED BY <2>3, <3>1
    <2>4. \A i \in 1..3 : i = 1 \/ i = 2 \/ i = 3
      OBVIOUS
    <2> QED BY <1>1, <2>1, <2>2, <2>3, <2>4
  <1>3. first \in 1..3 /\ \A j \in 1..(first - 1) : ~Known(j)
    <2> HIDE DEF Known
    <2> QED BY <1>2
  <1>4. expected = p /\ ParseServerIdentity(raw, expected) = ParseAs(p, raw)
    BY <1>1 DEF ParseServerIdentity, NoIdentity
  <1> HIDE DEF first
  <1>5. ParseAs(p, raw).error = "none"
    BY <1>4
  <1>6. p \in {"postgresql", "tidb", "mysql"}
    BY <1>3 DEF ParseOrder
  <1>7. \/ /\ p = raw.product /\ raw.version \in Series(p)
           /\ ParseAs(p, raw) = Identity(p, raw.version)
        \/ p = "mysql" /\ raw.product = "tidb" /\ ParseAs(p, raw) = Identity("mysql", "mysql-8.0")
    BY <1>5, <1>6 DEF ParseAs, NoIdentity, Identity, Series, Products
  <1>8. CASE p = raw.product /\ raw.version \in Series(p)
               /\ ParseAs(p, raw) = Identity(p, raw.version)
    BY <1>4, <1>6, <1>8 DEF DeriveCapabilityTarget, DialectOf, Identity, Versions, Series
  <1>9. CASE p = "mysql" /\ raw.product = "tidb" /\ ParseAs(p, raw) = Identity("mysql", "mysql-8.0")
    <2>1. first = 3
      BY <1>3, <1>9 DEF ParseOrder
    <2>2. 2 \in 1..(first - 1) /\ ParseOrder[2] = "tidb"
      BY <2>1 DEF ParseOrder
    <2>3. ParseAs("tidb", raw).error = "unknown"
      BY <1>3, <2>2
    <2>4. raw.version = "unreadable"
      BY <1>9, <2>3 DEF ParseAs, NoIdentity, Identity, Series
    <2> QED BY <1>4, <1>9, <2>4 DEF DeriveCapabilityTarget, DialectOf, Identity, Versions
  <1> QED BY <1>7, <1>8, <1>9


LEMMA ContextEndsStep ==
  ASSUME IInv, NEW o \in Owners, NEW why \in {"expired", "cancelled"}, ContextEnds(o, why)
  PROVE  IInv'
  <1> USE DEF ContextEnds, session, process, handling, working
  <1>1. TypeOK'
    BY DEF IInv, TypeOK, Stages, Labels, Statuses
  <1>2. \A p \in Owners \ {o} : Unmoved(p)
    BY DEF IInv, TypeOK, Unmoved
  <1>3. Permitted(o)' = Permitted(o) /\ Public(o)' = Public(o)
    BY DEF Permitted, Listed, Public
  <1>4. StageInv(o)' /\ HandlerInv(o)'
    BY DEF IInv, TypeOK, OwnerInv, StageInv, HandlerInv, Labels
  <1>5. WorkerInv(o)'
    BY DEF IInv, TypeOK, OwnerInv, WorkerInv
  <1>6. PermissionInv(o)'
    BY <1>3 DEF IInv, TypeOK, OwnerInv, PermissionInv, HandlerInv, WorkerInv, Identified, ResolveAPIKey, Public
  <1>7. ServerInv(o)'
    BY DEF IInv, TypeOK, OwnerInv, ServerInv, Expected, Raw, Connection
  <1> QED BY <1>1, <1>2, <1>4, <1>5, <1>6, <1>7, OneOwner DEF OwnerInv, Up

LEMMA CloseStep ==
  ASSUME IInv, NEW o \in Owners, Close(o)
  PROVE  IInv'
  <1> USE DEF Close, CloseConn, CloseDB, Goto, session, process, handling, working
  <1>1. TypeOK'
    BY DEF IInv, TypeOK, Stages, Labels, Statuses
  <1>2. \A p \in Owners \ {o} : Unmoved(p)
    BY DEF IInv, TypeOK, Unmoved
  <1>3. Permitted(o)' = Permitted(o) /\ Public(o)' = Public(o)
    BY DEF Permitted, Listed, Public
  <1>4. StageInv(o)' /\ HandlerInv(o)'
    BY DEF IInv, TypeOK, OwnerInv, StageInv, HandlerInv, Labels
  <1>5. WorkerInv(o)'
    BY DEF IInv, TypeOK, OwnerInv, WorkerInv
  <1>6. PermissionInv(o)'
    BY <1>3 DEF IInv, TypeOK, OwnerInv, PermissionInv, HandlerInv, WorkerInv, Identified, ResolveAPIKey, Public
  <1>7. ServerInv(o)'
    BY DEF IInv, TypeOK, OwnerInv, ServerInv, Expected, Raw, Connection
  <1> QED BY <1>1, <1>2, <1>4, <1>5, <1>6, <1>7, OneOwner DEF OwnerInv, Up

LEMMA OpenDBStep ==
  ASSUME IInv, NEW o \in Owners, Up, pc[o] = "open", OpenDB(o), UNCHANGED <<pc, answer>>,
         UNCHANGED <<process, request, principal, context, working>>
  PROVE  IInv'
  <1> USE DEF OpenDB, session, process, handling, working
  <1>1. TypeOK'
    BY DEF IInv, TypeOK, Stages, Labels, Statuses
  <1>2. \A p \in Owners \ {o} : Unmoved(p)
    BY DEF IInv, TypeOK, Unmoved
  <1>3. Permitted(o)' = Permitted(o) /\ Public(o)' = Public(o)
    BY DEF Permitted, Listed, Public
  <1>4. StageInv(o)' /\ HandlerInv(o)'
    BY DEF IInv, TypeOK, OwnerInv, StageInv, HandlerInv, Labels
  <1>5. WorkerInv(o)'
    BY DEF IInv, TypeOK, OwnerInv, WorkerInv
  <1>6. PermissionInv(o)'
    BY <1>3 DEF IInv, TypeOK, OwnerInv, PermissionInv, HandlerInv, WorkerInv, Identified, ResolveAPIKey, Public
  <1>7. ServerInv(o)'
    BY DEF IInv, TypeOK, OwnerInv, ServerInv, Expected, Raw, Connection
  <1> QED BY <1>1, <1>2, <1>4, <1>5, <1>6, <1>7, OneOwner DEF OwnerInv, Up

LEMMA PingStep ==
  ASSUME IInv, NEW o \in Owners, Up, pc[o] = "open", Ping(o, Alive(o)), UNCHANGED <<pc, answer>>,
         UNCHANGED <<process, request, principal, context, working>>
  PROVE  IInv'
  <1> USE DEF Ping, session, process, handling, working
  <1>1. TypeOK'
    BY DEF IInv, TypeOK, Stages, Labels, Statuses
  <1>2. \A p \in Owners \ {o} : Unmoved(p)
    BY DEF IInv, TypeOK, Unmoved
  <1>3. Permitted(o)' = Permitted(o) /\ Public(o)' = Public(o)
    BY DEF Permitted, Listed, Public
  <1>4. StageInv(o)' /\ HandlerInv(o)'
    BY DEF IInv, TypeOK, OwnerInv, StageInv, HandlerInv, Labels
  <1>5. WorkerInv(o)'
    BY DEF IInv, TypeOK, OwnerInv, WorkerInv
  <1>6. PermissionInv(o)'
    BY <1>3 DEF IInv, TypeOK, OwnerInv, PermissionInv, HandlerInv, WorkerInv, Identified, ResolveAPIKey, Public
  <1>7. ServerInv(o)'
    BY DEF IInv, TypeOK, OwnerInv, ServerInv, Expected, Raw, Connection
  <1> QED BY <1>1, <1>2, <1>4, <1>5, <1>6, <1>7, OneOwner DEF OwnerInv, Up

LEMMA PinStep ==
  ASSUME IInv, NEW o \in Owners, Up, pc[o] = "open", Pin(o, Alive(o)), UNCHANGED <<pc, answer>>,
         UNCHANGED <<process, request, principal, context, working>>
  PROVE  IInv'
  <1> USE DEF Pin, session, process, handling, working
  <1>1. TypeOK'
    BY DEF IInv, TypeOK, Stages, Labels, Statuses
  <1>2. \A p \in Owners \ {o} : Unmoved(p)
    BY DEF IInv, TypeOK, Unmoved
  <1>3. Permitted(o)' = Permitted(o) /\ Public(o)' = Public(o)
    BY DEF Permitted, Listed, Public
  <1>4. StageInv(o)' /\ HandlerInv(o)'
    BY DEF IInv, TypeOK, OwnerInv, StageInv, HandlerInv, Labels
  <1>5. WorkerInv(o)'
    BY DEF IInv, TypeOK, OwnerInv, WorkerInv
  <1>6. PermissionInv(o)'
    BY <1>3 DEF IInv, TypeOK, OwnerInv, PermissionInv, HandlerInv, WorkerInv, Identified, ResolveAPIKey, Public
  <1>7. ServerInv(o)'
    BY DEF IInv, TypeOK, OwnerInv, ServerInv, Expected, Raw, Connection
  <1> QED BY <1>1, <1>2, <1>4, <1>5, <1>6, <1>7, OneOwner DEF OwnerInv, Up

LEMMA ConfigFailsStep ==
  ASSUME IInv, NEW o \in Owners, Up, pc[o] = "open", ConfigFails(o), Reply(o, 500),
         UNCHANGED <<process, request, principal, context, working>>
  PROVE  IInv'
  <1> USE DEF ConfigFails, Reply, Goto, session, process, handling, working
  <1>1. TypeOK'
    BY DEF IInv, TypeOK, Stages, Labels, Statuses
  <1>2. \A p \in Owners \ {o} : Unmoved(p)
    BY DEF IInv, TypeOK, Unmoved
  <1>3. Permitted(o)' = Permitted(o) /\ Public(o)' = Public(o)
    BY DEF Permitted, Listed, Public
  <1>4. StageInv(o)' /\ HandlerInv(o)'
    BY DEF IInv, TypeOK, OwnerInv, StageInv, HandlerInv, Labels
  <1>5. WorkerInv(o)'
    BY DEF IInv, TypeOK, OwnerInv, WorkerInv
  <1>6. PermissionInv(o)'
    BY <1>3 DEF IInv, TypeOK, OwnerInv, PermissionInv, HandlerInv, WorkerInv, Identified, ResolveAPIKey, Public
  <1>7. ServerInv(o)'
    BY DEF IInv, TypeOK, OwnerInv, ServerInv, Expected, Raw, Connection
  <1> QED BY <1>1, <1>2, <1>4, <1>5, <1>6, <1>7, OneOwner DEF OwnerInv, Up

LEMMA ConnectFailsStep ==
  ASSUME IInv, NEW o \in Owners, Up, pc[o] = "open", NEW status \in {499, 502, 504}, ConnectFails(o), Reply(o, status),
         UNCHANGED <<process, request, principal, context, working>>
  PROVE  IInv'
  <1> USE DEF ConnectFails, Reply, Goto, session, process, handling, working
  <1>1. TypeOK'
    BY DEF IInv, TypeOK, Stages, Labels, Statuses
  <1>2. \A p \in Owners \ {o} : Unmoved(p)
    BY DEF IInv, TypeOK, Unmoved
  <1>3. Permitted(o)' = Permitted(o) /\ Public(o)' = Public(o)
    BY DEF Permitted, Listed, Public
  <1>4. StageInv(o)' /\ HandlerInv(o)'
    BY DEF IInv, TypeOK, OwnerInv, StageInv, HandlerInv, Labels
  <1>5. WorkerInv(o)'
    BY DEF IInv, TypeOK, OwnerInv, WorkerInv
  <1>6. PermissionInv(o)'
    BY <1>3 DEF IInv, TypeOK, OwnerInv, PermissionInv, HandlerInv, WorkerInv, Identified, ResolveAPIKey, Public
  <1>7. ServerInv(o)'
    BY DEF IInv, TypeOK, OwnerInv, ServerInv, Expected, Raw, Connection
  <1> QED BY <1>1, <1>2, <1>4, <1>5, <1>6, <1>7, OneOwner DEF OwnerInv, Up

LEMMA IdentifyFailsStep ==
  ASSUME IInv, NEW o \in Owners, Up, pc[o] = "open", NEW status \in {400, 502}, IdentifyFails(o), Reply(o, status),
         UNCHANGED <<process, request, principal, context, working>>
  PROVE  IInv'
  <1> USE DEF IdentifyFails, Reply, Goto, session, process, handling, working
  <1>1. TypeOK'
    BY DEF IInv, TypeOK, Stages, Labels, Statuses
  <1>2. \A p \in Owners \ {o} : Unmoved(p)
    BY DEF IInv, TypeOK, Unmoved
  <1>3. Permitted(o)' = Permitted(o) /\ Public(o)' = Public(o)
    BY DEF Permitted, Listed, Public
  <1>4. StageInv(o)' /\ HandlerInv(o)'
    BY DEF IInv, TypeOK, OwnerInv, StageInv, HandlerInv, Labels
  <1>5. WorkerInv(o)'
    BY DEF IInv, TypeOK, OwnerInv, WorkerInv
  <1>6. PermissionInv(o)'
    BY <1>3 DEF IInv, TypeOK, OwnerInv, PermissionInv, HandlerInv, WorkerInv, Identified, ResolveAPIKey, Public
  <1>7. ServerInv(o)'
    BY DEF IInv, TypeOK, OwnerInv, ServerInv, Expected, Raw, Connection
  <1> QED BY <1>1, <1>2, <1>4, <1>5, <1>6, <1>7, OneOwner DEF OwnerInv, Up

LEMMA IdentifyStep ==
  ASSUME IInv, NEW o \in Owners, Up, pc[o] = "open", Identify(o, Alive(o), Raw(o), Expected(o)),
         Goto(o, "attach"), UNCHANGED <<process, request, principal, context, answer, working>>
  PROVE  IInv'
  <1> USE DEF Identify, Goto, session, process, handling, working
  <1> DEFINE t == DeriveCapabilityTarget(ParseServerIdentity(Raw(o), Expected(o)))
  <1>1. Permitted(o) /\ ValidConfig(config) /\ config \in Configs
    BY DEF IInv, OwnerInv, PermissionInv, ProcessInv, TypeOK
  <1>2. /\ Expected(o) \in {"mysql", "tidb", "postgresql"}
        /\ Raw(o).product \in Products
        /\ Raw(o).version \in Series(Raw(o).product) \cup {"other", "unreadable"}
    BY <1>1, ExpectedDialect
  <1>3. /\ t \in Versions
        /\ DialectOf(t) = Expected(o)
        /\ \/ Raw(o).product = Expected(o) /\ Raw(o).version = t
           \/ /\ Raw(o).product = "tidb" /\ Raw(o).version = "unreadable"
              /\ Expected(o) = "mysql"
    BY <1>2, IdentityAgrees
  <1> HIDE DEF t
  <1>4. target' = [target EXCEPT ![o] = t]
    BY DEF t
  <1>5. TypeOK'
    BY <1>3, <1>4 DEF IInv, TypeOK, Stages, Labels
  <1>6. \A p \in Owners \ {o} : Unmoved(p)
    BY <1>4 DEF IInv, TypeOK, Unmoved
  <1>7. Permitted(o)' = Permitted(o) /\ Public(o)' = Public(o)
    BY DEF Permitted, Listed, Public
  <1>8. StageInv(o)' /\ HandlerInv(o)'
    BY DEF IInv, TypeOK, OwnerInv, StageInv, HandlerInv
  <1>9. WorkerInv(o)'
    BY DEF IInv, TypeOK, OwnerInv, WorkerInv
  <1>10. PermissionInv(o)'
    BY <1>1, <1>7 DEF IInv, TypeOK, OwnerInv, PermissionInv, HandlerInv, WorkerInv, Identified, ResolveAPIKey
  <1>11. Expected(o)' = Expected(o) /\ Raw(o)' = Raw(o) /\ target'[o] = t
    BY <1>4 DEF Expected, Raw, Connection, IInv, TypeOK
  <1>12. ServerInv(o)'
    BY <1>3, <1>11 DEF ServerInv, DialectOf
  <1> QED BY <1>5, <1>6, <1>8, <1>9, <1>10, <1>12, OneOwner DEF OwnerInv, Up

LEMMA OpenStep ==
  ASSUME IInv, NEW o \in Owners, Open(o)
  PROVE  IInv'
  <1>1. Up /\ pc[o] = "open" /\ UNCHANGED <<process, request, principal, context, working>>
    BY DEF Open
  <1>2. CASE OpenDB(o) /\ UNCHANGED <<pc, answer>>
    BY <1>1, <1>2, OpenDBStep
  <1>3. CASE Ping(o, Alive(o)) /\ UNCHANGED <<pc, answer>>
    BY <1>1, <1>3, PingStep
  <1>4. CASE Pin(o, Alive(o)) /\ UNCHANGED <<pc, answer>>
    BY <1>1, <1>4, PinStep
  <1>5. CASE ConfigFails(o) /\ Reply(o, 500)
    BY <1>1, <1>5, ConfigFailsStep
  <1>6. CASE ConnectFails(o) /\ \E status \in ConnectionErrors(o) : Reply(o, status)
    <2>1. PICK status \in {499, 502, 504} : Reply(o, status)
      BY <1>6 DEF ConnectionErrors
    <2> QED BY <1>1, <1>6, <2>1, ConnectFailsStep
  <1>7. CASE Identify(o, Alive(o), Raw(o), Expected(o)) /\ Goto(o, "attach") /\ UNCHANGED answer
    BY <1>1, <1>7, IdentifyStep
  <1>8. CASE IdentifyFails(o) /\ \E status \in {400, 502} : Reply(o, status)
    <2>1. PICK status \in {400, 502} : Reply(o, status)
      BY <1>8
    <2> QED BY <1>1, <1>8, <2>1, IdentifyFailsStep
  <1> QED BY <1>2, <1>3, <1>4, <1>5, <1>6, <1>7, <1>8 DEF Open

(* Steps of the process. *)
LEMMA ProcessStep ==
  ASSUME IInv, Start \/ Signal \/ Drained \/ DrainTimeout \/ ListenFails
  PROVE  IInv'
  <1> USE DEF Start, Signal, Drained, DrainTimeout, ListenFails, session, handling, working
  <1>1. TypeOK'
    BY DEF IInv, TypeOK
  <1>2. ProcessInv'
    BY DEF IInv, ProcessInv, Up, ValidConfig, ConnectionsValid, KeysValid, SecretsResolve, Returned
  <1>3. \A o \in Owners : OwnerInv(o)'
    <2> TAKE o \in Owners
    <2> QED BY Frame DEF IInv, Unmoved
  <1> QED BY <1>1, <1>2, <1>3 DEF IInv

LEMMA StutterStep == IInv /\ UNCHANGED vars => IInv'
  <1> SUFFICES ASSUME IInv, UNCHANGED vars
               PROVE  IInv'
    OBVIOUS
  <1> USE DEF vars, session, process, handling, working
  <1>1. TypeOK'
    BY DEF IInv, TypeOK
  <1>2. ProcessInv'
    BY DEF IInv, ProcessInv, Up, ValidConfig, ConnectionsValid, KeysValid, SecretsResolve, Returned
  <1>3. \A o \in Owners : OwnerInv(o)'
    <2> TAKE o \in Owners
    <2> QED BY Frame DEF IInv, Unmoved
  <1> QED BY <1>1, <1>2, <1>3 DEF IInv

LEMMA NextInv == IInv /\ [Next]_vars => IInv'
  <1> SUFFICES ASSUME IInv, [Next]_vars
               PROVE  IInv'
    OBVIOUS
  <1>1. CASE UNCHANGED vars
    BY <1>1, StutterStep
  <1>2. CASE Start \/ Signal \/ Drained \/ DrainTimeout \/ ListenFails
    BY <1>2, ProcessStep
  <1>3. ASSUME NEW o \in Owners, Handler(o) PROVE IInv'
    BY <1>3, AuthenticateStep, LimitStep, HandleStep, AuthorizeQueryStep, OpenStep, AttachStep,
       BeginStep, AnalyseStep, CloseStep, SelectStep DEF Handler
  <1>4. ASSUME NEW o \in Owners, Worker(o) PROVE IInv'
    BY <1>4, AuthorizeAuditStep, SnapshotPolicyStep, PrepareAuditStep, AuditStep,
       CloseClientStep, CleanupPolicyStep, SendStep DEF Worker
  <1>5. ASSUME NEW o \in Owners, Environment(o) PROVE IInv'
    BY <1>5, ArriveStep, HandlerPanicsStep, WorkerPanicsStep, ContextEndsStep DEF Environment
  <1> QED BY <1>1, <1>2, <1>3, <1>4, <1>5 DEF Next

LEMMA Invariance == Spec => []IInv
  BY InitInv, NextInv, PTL DEF Spec

----------------------------------------------------------------------------
(* Every variable keeps its type. *)
THEOREM TypeCorrect == Spec => []TypeOK
  <1>1. IInv => TypeOK
    BY DEF IInv
  <1> QED BY <1>1, Invariance, PTL

(* No handler returns with a session's connection or pool in its hands,        *)
(* whatever failed, ended or panicked: StageInv says what each stage of        *)
(* OpenSession and Close holds, HandlerInv at which stages a handler returns.  *)
THEOREM HandlersRelease == Spec => []HandlerReleases
  <1>1. IInv => HandlerReleases
    BY DEF IInv, OwnerInv, StageInv, HandlerInv, HandlerReleases, Released
  <1> QED BY <1>1, Invariance, PTL

(* The goroutine of an audit ends with its result sent and without a policy     *)
(* copy; a client that Prepare handed over, or closed for a later error, is     *)
(* closed, and the one that a failed dialect query leaves open is behind a      *)
(* failure, whatever the timeouts, the panics and the other requests do.        *)
THEOREM WorkersCleanUp == Spec => []WorkerCleansUp
  <1>1. IInv => WorkerCleansUp
    BY DEF IInv, OwnerInv, WorkerInv, WorkerCleansUp
  <1> QED BY <1>1, Invariance, PTL

(* Nothing is opened for a request the registry does not permit. *)
THEOREM AccessIsPermitted == Spec => []AccessPermitted
  <1>1. IInv => AccessPermitted
    BY DEF IInv, OwnerInv, StageInv, PermissionInv, AccessPermitted
  <1> QED BY <1>1, Invariance, PTL

(* An open session is routed by the product that answered. *)
THEOREM SessionsMatch == Spec => []SessionOfItsServer
  <1>1. IInv => SessionOfItsServer
    BY DEF IInv, OwnerInv, ServerInv, SessionOfItsServer
  <1> QED BY <1>1, Invariance, PTL

(* A clean exit has drained every handler and its session. *)
THEOREM CleanExitIsDrained == Spec => []CleanExitDrained
  <1>1. IInv => CleanExitDrained
    BY DEF IInv, ProcessInv, OwnerInv, StageInv, HandlerInv, CleanExitDrained, Released, Returned
  <1> QED BY <1>1, Invariance, PTL

----------------------------------------------------------------------------
(* Refinement of RequestContract.                                             *)

(* A handler answers as its last act but closing; a request that is turned     *)
(* away has nothing and its goroutine, if it had one, is over.                 *)
AnswerInv(o) ==
  /\ answer[o] # 0 => pc[o] \in {"close", "returned"}
  /\ worker[o] # "none" => pc[o] \in {"select", "returned"} /\ stage[o] = "none"
  /\ worker[o] # "done" => result[o] = "none"
  /\ worker[o] = "refused" \/ result[o] = "refused" => client[o] = "none" /\ file[o] = "none"
  /\ answer[o] \in Contract!Refusals =>
       /\ pc[o] = "returned" /\ stage[o] = "none" /\ worker[o] \in {"none", "done"}
       /\ client[o] = "none" /\ file[o] = "none"

Answers == \A o \in Owners : AnswerInv(o)

LEMMA AnswersInit == Init => Answers
  <1> SUFFICES ASSUME Init, NEW o \in Owners
               PROVE  AnswerInv(o)
    BY DEF Answers
  <1>1. /\ answer[o] = 0 /\ worker[o] = "none" /\ result[o] = "none"
        /\ client[o] = "none" /\ file[o] = "none"
    BY DEF Init
  <1>2. answer[o] \notin Contract!Refusals
    BY <1>1 DEF Contract!Refusals
  <1> QED BY <1>1, <1>2 DEF AnswerInv

(* A step of one owner is of the process running and leaves the other owners   *)
(* and what everybody is permitted.                                            *)
Others(o) ==
  /\ Up /\ server' \in {server, "crashed"}
  /\ config' = config /\ request' = request
  /\ \A p \in Owners \ {o} : Unmoved(p)

LEMMA HandlerAlone ==
  ASSUME IInv, NEW o \in Owners, Handler(o)
  PROVE  Others(o)
  <1> USE DEF Others, Unmoved, IInv, TypeOK, Goto, Reply, session, process, handling, working
  <1>1. CASE Authenticate(o) BY <1>1 DEF Authenticate
  <1>2. CASE Limit(o) BY <1>2 DEF Limit
  <1>3. CASE Handle(o) BY <1>3 DEF Handle
  <1>4. CASE AuthorizeQuery(o) BY <1>4 DEF AuthorizeQuery
  <1>5. CASE Open(o)
    <2>1. Up /\ UNCHANGED <<process, request, principal, context, working>>
      BY <1>5 DEF Open
    <2>2. \A p \in Owners \ {o} : stage'[p] = stage[p] /\ pool'[p] = pool[p]
                                  /\ conn'[p] = conn[p] /\ target'[p] = target[p]
      BY <1>5 DEF Open, OpenDB, Ping, Pin, ConfigFails, ConnectFails, Identify, IdentifyFails
    <2>3. \A p \in Owners \ {o} : pc'[p] = pc[p] /\ answer'[p] = answer[p]
      BY <1>5 DEF Open
    <2> QED BY <2>1, <2>2, <2>3
  <1>6. CASE Attach(o) BY <1>6 DEF Attach
  <1>7. CASE Begin(o) BY <1>7 DEF Begin
  <1>8. CASE Analyse(o) BY <1>8 DEF Analyse
  <1>9. CASE Close(o) BY <1>9 DEF Close, CloseConn, CloseDB
  <1>10. CASE Select(o) BY <1>10 DEF Select
  <1> QED BY <1>1, <1>2, <1>3, <1>4, <1>5, <1>6, <1>7, <1>8, <1>9, <1>10 DEF Handler

LEMMA WorkerAlone ==
  ASSUME IInv, NEW o \in Owners, Worker(o)
  PROVE  Others(o)
  <1> USE DEF Others, Unmoved, IInv, TypeOK, WorkOn, Outcome, session, process, handling, working
  <1>1. CASE AuthorizeAudit(o) BY <1>1 DEF AuthorizeAudit
  <1>2. CASE SnapshotPolicy(o) BY <1>2 DEF SnapshotPolicy
  <1>3. CASE PrepareAudit(o) BY <1>3 DEF PrepareAudit
  <1>4. CASE Audit(o) BY <1>4 DEF Audit
  <1>5. CASE CloseClient(o) BY <1>5 DEF CloseClient
  <1>6. CASE CleanupPolicy(o) BY <1>6 DEF CleanupPolicy
  <1>7. CASE Send(o) BY <1>7 DEF Send
  <1> QED BY <1>1, <1>2, <1>3, <1>4, <1>5, <1>6, <1>7 DEF Worker

LEMMA EnvironmentAlone ==
  ASSUME IInv, NEW o \in Owners, Environment(o)
  PROVE  Others(o)
  <1> USE DEF Others, Unmoved, IInv, TypeOK, Goto, session, process, handling, working
  <1>1. CASE Arrive(o) BY <1>1 DEF Arrive, Up
  <1>2. CASE HandlerPanics(o) BY <1>2 DEF HandlerPanics
  <1>3. CASE WorkerPanics(o) BY <1>3 DEF WorkerPanics
  <1>4. ASSUME NEW why \in {"expired", "cancelled"}, ContextEnds(o, why) PROVE Others(o)
    BY <1>4 DEF ContextEnds
  <1> QED BY <1>1, <1>2, <1>3, <1>4 DEF Environment

LEMMA AnswerFrame ==
  ASSUME NEW p \in Owners, AnswerInv(p), Unmoved(p)
  PROVE  AnswerInv(p)'
  BY DEF AnswerInv, Unmoved, Contract!Refusals

LEMMA HandlerAnswers ==
  ASSUME IInv, NEW o \in Owners, AnswerInv(o), Handler(o)
  PROVE  AnswerInv(o)'
  <1> USE DEF AnswerInv, IInv, TypeOK, Goto, Reply, session, process, handling, working,
              Contract!Refusals
  <1>1. CASE Authenticate(o)
    BY <1>1 DEF Authenticate, OwnerInv, HandlerInv, WorkerInv
  <1>2. CASE Limit(o)
    BY <1>2 DEF Limit, OwnerInv, HandlerInv, WorkerInv
  <1>3. CASE Handle(o)
    BY <1>3 DEF Handle, OwnerInv, HandlerInv, WorkerInv
  <1>4. CASE AuthorizeQuery(o)
    BY <1>4 DEF AuthorizeQuery, OwnerInv, HandlerInv, WorkerInv
  <1>5. CASE Open(o)
    <2>1. /\ pc[o] = "open" /\ UNCHANGED working
          /\ worker[o] = "none" /\ result[o] = "none"
      BY <1>5 DEF Open
    <2>2. /\ pc'[o] # "returned" => answer'[o] = 0
          /\ pc'[o] = "returned" => answer'[o] \in {400, 499, 500, 502, 504}
      BY <1>5 DEF Open, ConnectionErrors
    <2>3. answer'[o] \notin Contract!Refusals
      BY <2>2 DEF Open
    <2> QED BY <2>1, <2>2, <2>3
  <1>6. CASE Attach(o)
    BY <1>6 DEF Attach
  <1>7. CASE Begin(o)
    BY <1>7 DEF Begin, AfterAnalysis
  <1>8. CASE Analyse(o)
    BY <1>8 DEF Analyse, AfterAnalysis
  <1>9. CASE Close(o)
    BY <1>9 DEF Close, CloseConn, CloseDB
  <1>10. CASE Select(o)
    <2>1. /\ pc[o] = "select" /\ pc'[o] = "returned" /\ UNCHANGED <<session, working>>
          /\ stage[o] = "none"
      BY <1>10 DEF Select, OwnerInv, HandlerInv
    <2>2. answer'[o] \in Contract!Refusals => result[o] = "refused"
      BY <1>10 DEF Select, ResultStatuses
    <2> QED BY <2>1, <2>2
  <1> QED BY <1>1, <1>2, <1>3, <1>4, <1>5, <1>6, <1>7, <1>8, <1>9, <1>10 DEF Handler

LEMMA WorkerAnswers ==
  ASSUME IInv, NEW o \in Owners, AnswerInv(o), Worker(o)
  PROVE  AnswerInv(o)'
  <1> USE DEF AnswerInv, IInv, TypeOK, WorkOn, Outcome, session, process, handling, working
  <1>1. CASE AuthorizeAudit(o) BY <1>1 DEF AuthorizeAudit, OwnerInv, WorkerInv
  <1>2. CASE SnapshotPolicy(o) BY <1>2 DEF SnapshotPolicy
  <1>3. CASE PrepareAudit(o) BY <1>3 DEF PrepareAudit
  <1>4. CASE Audit(o) BY <1>4 DEF Audit, Closing
  <1>5. CASE CloseClient(o) BY <1>5 DEF CloseClient, Closing, CleaningUp
  <1>6. CASE CleanupPolicy(o) BY <1>6 DEF CleanupPolicy, CleaningUp
  <1>7. CASE Send(o) BY <1>7 DEF Send
  <1> QED BY <1>1, <1>2, <1>3, <1>4, <1>5, <1>6, <1>7 DEF Worker

LEMMA EnvironmentAnswers ==
  ASSUME IInv, NEW o \in Owners, AnswerInv(o), Environment(o)
  PROVE  AnswerInv(o)'
  <1> USE DEF AnswerInv, IInv, TypeOK, Goto, session, process, handling, working
  <1>1. CASE Arrive(o) BY <1>1 DEF Arrive, OwnerInv, WorkerInv
  <1>2. CASE HandlerPanics(o) BY <1>2 DEF HandlerPanics, AfterAnalysis, Contract!Refusals
  <1>3. CASE WorkerPanics(o) BY <1>3 DEF WorkerPanics
  <1>4. ASSUME NEW why \in {"expired", "cancelled"}, ContextEnds(o, why) PROVE AnswerInv(o)'
    BY <1>4 DEF ContextEnds
  <1> QED BY <1>1, <1>2, <1>3, <1>4 DEF Environment

LEMMA AnswersStay == IInv /\ Answers /\ [Next]_vars => Answers'
  <1> SUFFICES ASSUME IInv, Answers, [Next]_vars, NEW p \in Owners
               PROVE  AnswerInv(p)'
    BY DEF Answers
  <1>1. AnswerInv(p)
    BY DEF Answers
  <1>2. ASSUME NEW o \in Owners, Handler(o) \/ Worker(o) \/ Environment(o)
        PROVE  AnswerInv(p)'
    <2>1. CASE o = p
      BY <1>1, <1>2, <2>1, HandlerAnswers, WorkerAnswers, EnvironmentAnswers
    <2>2. CASE o # p
      <3>1. Unmoved(p)
        BY <1>2, <2>2, HandlerAlone, WorkerAlone, EnvironmentAlone DEF Others
      <3> QED BY <1>1, <3>1, AnswerFrame
    <2> QED BY <2>1, <2>2
  <1>3. CASE Start \/ Signal \/ Drained \/ DrainTimeout \/ ListenFails \/ UNCHANGED vars
    <2>1. Unmoved(p)
      BY <1>3 DEF Start, Signal, Drained, DrainTimeout, ListenFails, vars, session, handling,
                  working, Unmoved
    <2> QED BY <1>1, <2>1, AnswerFrame
  <1> QED BY <1>2, <1>3 DEF Next

(* What the contract sees of one owner, in this state and the next. *)
Shown(o, t) == Thing(o, t)' = Thing(o, t)

Unseen(o) ==
  /\ RequestPhase(o)' = RequestPhase(o) /\ answer'[o] = answer[o]
  /\ \A t \in Contract!Things : Shown(o, t)

Accepted(o) ==
  /\ server = "serving" /\ RequestPhase(o) = "waiting" /\ RequestPhase(o)' = "handled"
  /\ answer'[o] = answer[o]
  /\ \A t \in Contract!Things : Shown(o, t)

Stays(o) ==
  \/ RequestPhase(o)' = RequestPhase(o)
  \/ RequestPhase(o)' = "returned" /\ answer'[o] # 0 /\ Thing(o, "session")' # "open"

Took(o, t) ==
  /\ Permitted(o) /\ RequestPhase(o) # "waiting" /\ answer[o] \notin Contract!Refusals
  /\ t = "session" => RequestPhase(o) = "handled" /\ answer[o] = 0
  /\ Thing(o, t) = "none" /\ Thing(o, t)' = "open"
  /\ RequestPhase(o)' = RequestPhase(o) /\ answer'[o] = answer[o]
  /\ \A u \in Contract!Things \ {t} : Shown(o, u)

Gave(o, t) ==
  /\ Thing(o, t) = "open" /\ Thing(o, t)' = "closed"
  /\ Stays(o) /\ answer'[o] = answer[o]
  /\ \A u \in Contract!Things \ {t} : Shown(o, u)

Answered(o) ==
  /\ RequestPhase(o) = "handled" /\ answer[o] = 0 /\ answer'[o] \in Statuses \ {0}
  /\ answer'[o] \in Contract!Refusals => \A t \in Contract!Things : Thing(o, t) = "none"
  /\ \/ Shown(o, "session")
     \/ Thing(o, "session") = "open" /\ Thing(o, "session")' = "closed"
  /\ Stays(o)
  /\ \A u \in {"client", "copy"} : Shown(o, u)

(* The contract's variables change as one owner does. *)
LEMMA Moves ==
  ASSUME IInv, IInv', NEW o \in Owners, Others(o)
  PROVE  /\ PermittedRequests' = PermittedRequests
         /\ Phases' = [Phases EXCEPT ![o] = RequestPhase(o)']
         /\ answer' = [answer EXCEPT ![o] = answer'[o]]
         /\ \A p \in Owners \ {o}, t \in Contract!Things : Shown(p, t)
  <1>1. \A p \in Owners : Permitted(p)' <=> Permitted(p)
    BY DEF Permitted, Listed, Others
  <1>2. PermittedRequests' = PermittedRequests
    BY <1>1 DEF PermittedRequests
  <1>3. \A p \in Owners \ {o} : RequestPhase(p)' = RequestPhase(p) /\ answer'[p] = answer[p]
    BY DEF Others, Unmoved, RequestPhase
  <1>4. Phases' = [Phases EXCEPT ![o] = RequestPhase(o)']
    BY <1>3 DEF Phases
  <1>5. answer' = [answer EXCEPT ![o] = answer'[o]]
    BY <1>3 DEF IInv, TypeOK
  <1>6. \A p \in Owners \ {o}, t \in Contract!Things : Shown(p, t)
    BY DEF Others, Unmoved, Shown, Thing
  <1> QED BY <1>2, <1>4, <1>5, <1>6

(* Nothing is opened or closed: the contract's things stay. *)
LEMMA ThingsStay ==
  ASSUME \A p \in Owners, t \in Contract!Things : Shown(p, t)
  PROVE  Opened' = Opened
  <1>1. \A x \in Owners \X {"session", "client", "copy"} :
          Thing(x[1], x[2])' = Thing(x[1], x[2])
    BY DEF Shown, Contract!Things
  <1> QED BY <1>1 DEF Opened

(* One thing is: the contract's things change there. *)
LEMMA ThingMoves ==
  ASSUME NEW o \in Owners, NEW t \in Contract!Things,
         \A p \in Owners \ {o}, u \in Contract!Things : Shown(p, u),
         \A u \in Contract!Things \ {t} : Shown(o, u)
  PROVE  Opened' = [Opened EXCEPT ![<<o, t>>] = Thing(o, t)']
  <1>1. \A x \in Owners \X {"session", "client", "copy"} :
          x # <<o, t>> => Thing(x[1], x[2])' = Thing(x[1], x[2])
    BY DEF Shown, Contract!Things
  <1>2. \A x \in Owners \X {"session", "client", "copy"} :
          x = <<o, t>> => Thing(x[1], x[2])' = Thing(o, t)'
    OBVIOUS
  <1> QED BY <1>1, <1>2 DEF Opened, Contract!Things

LEMMA OpenedAt ==
  \A o \in Owners, t \in Contract!Things :
    Opened[<<o, t>>] = Thing(o, t) /\ Opened'[<<o, t>>] = Thing(o, t)'
  BY DEF Opened, Contract!Things

LEMMA PhaseAt ==
  \A o \in Owners : Phases[o] = RequestPhase(o) /\ Phases'[o] = RequestPhase(o)'
  BY DEF Phases

LEMMA ProcessAt ==
  /\ server \in {"starting", "serving", "draining"} => ProcessPhase = server
  /\ server' \in {"starting", "serving", "draining"} => ProcessPhase' = server'
  /\ server' \in {"exit2", "exit3", "crashed"} => ProcessPhase' = "gone"
  /\ server' = "exit0" => ProcessPhase' = "clean"
  /\ server' = server => ProcessPhase' = ProcessPhase
  /\ Up => Contract!Running
  BY DEF ProcessPhase, Up, Contract!Running

(* Each of those changes is a step of the contract. *)
LEMMA UnseenStep ==
  ASSUME IInv, IInv', NEW o \in Owners, Others(o), server' = server, Unseen(o)
  PROVE  UNCHANGED Contract!contractVars
  <1>1. Opened' = Opened
    BY Moves, ThingsStay DEF Unseen
  <1>2. Phases' = Phases
    BY Moves DEF Unseen, Phases
  <1>3. answer' = answer
    BY Moves DEF Unseen, IInv, TypeOK
  <1> QED BY <1>1, <1>2, <1>3, Moves, ProcessAt DEF Contract!contractVars

LEMMA CrashStep ==
  ASSUME IInv, IInv', NEW o \in Owners, Others(o), server' = "crashed", Unseen(o)
  PROVE  Contract!Break
  <1>1. Opened' = Opened
    BY Moves, ThingsStay DEF Unseen
  <1>2. Phases' = Phases
    BY Moves DEF Unseen, Phases
  <1>3. answer' = answer
    BY Moves DEF Unseen, IInv, TypeOK
  <1> QED BY <1>1, <1>2, <1>3, Moves, ProcessAt DEF Contract!Break, Others, Up

LEMMA AcceptedStep ==
  ASSUME IInv, IInv', NEW o \in Owners, Others(o), server' = server, Accepted(o)
  PROVE  Contract!Accept(o)
  <1>1. Opened' = Opened
    BY Moves, ThingsStay DEF Accepted
  <1>2. answer' = answer
    BY Moves DEF Accepted, IInv, TypeOK
  <1>3. ProcessPhase = "serving" /\ ProcessPhase' = ProcessPhase
    BY ProcessAt DEF Accepted
  <1> QED BY <1>1, <1>2, <1>3, Moves, PhaseAt DEF Contract!Accept, Accepted

LEMMA TookStep ==
  ASSUME IInv, IInv', NEW o \in Owners, Others(o), server' = server,
         NEW t \in Contract!Things, Took(o, t)
  PROVE  Contract!Take(o, t)
  <1>1. Opened' = [Opened EXCEPT ![<<o, t>>] = "open"] /\ Opened[<<o, t>>] = "none"
    BY Moves, ThingMoves, OpenedAt DEF Took
  <1>2. Phases' = Phases
    BY Moves DEF Took, Phases
  <1>3. answer' = answer
    BY Moves DEF Took, IInv, TypeOK
  <1>4. Contract!Running /\ ProcessPhase' = ProcessPhase /\ o \in PermittedRequests
    BY ProcessAt DEF Others, Took, PermittedRequests
  <1> QED BY <1>1, <1>2, <1>3, <1>4, Moves, PhaseAt DEF Contract!Take, Took

LEMMA StaysStep ==
  ASSUME IInv, IInv', NEW o \in Owners, Others(o), Stays(o)
  PROVE  Contract!MayReturn(o)
  <1>1. CASE RequestPhase(o)' = RequestPhase(o)
    <2>1. Phases' = Phases
      BY <1>1, Moves DEF Phases
    <2> QED BY <2>1 DEF Contract!MayReturn
  <1>2. CASE RequestPhase(o)' = "returned" /\ answer'[o] # 0 /\ Thing(o, "session")' # "open"
    <2>1. Phases' = [Phases EXCEPT ![o] = "returned"]
      BY <1>2, Moves
    <2>2. Opened'[<<o, "session">>] # "open"
      BY <1>2, OpenedAt DEF Contract!Things
    <2> QED BY <1>2, <2>1, <2>2 DEF Contract!MayReturn
  <1> QED BY <1>1, <1>2 DEF Stays

LEMMA GaveStep ==
  ASSUME IInv, IInv', NEW o \in Owners, Others(o), server' = server,
         NEW t \in Contract!Things, Gave(o, t)
  PROVE  Contract!GiveBack(o, t)
  <1>1. Opened' = [Opened EXCEPT ![<<o, t>>] = "closed"] /\ Opened[<<o, t>>] = "open"
    BY Moves, ThingMoves, OpenedAt DEF Gave
  <1>2. answer' = answer
    BY Moves DEF Gave, IInv, TypeOK
  <1>3. Contract!Running /\ ProcessPhase' = ProcessPhase
    BY ProcessAt DEF Others
  <1>4. Contract!MayReturn(o)
    BY StaysStep DEF Gave
  <1> QED BY <1>1, <1>2, <1>3, <1>4, Moves DEF Contract!GiveBack

LEMMA AnsweredStep ==
  ASSUME IInv, IInv', NEW o \in Owners, Others(o), server' = server, Answered(o)
  PROVE  Contract!Answer(o, answer'[o])
  <1>1. \/ Opened' = Opened
        \/ /\ Opened[<<o, "session">>] = "open"
           /\ Opened' = [Opened EXCEPT ![<<o, "session">>] = "closed"]
    <2>1. CASE Shown(o, "session")
      <3>1. \A p \in Owners, t \in Contract!Things : Shown(p, t)
        BY <2>1, Moves DEF Answered, Contract!Things
      <3> QED BY <3>1, ThingsStay
    <2>2. CASE Thing(o, "session") = "open" /\ Thing(o, "session")' = "closed"
      <3>1. /\ \A u \in Contract!Things \ {"session"} : Shown(o, u)
            /\ "session" \in Contract!Things
        BY DEF Answered, Contract!Things
      <3> QED BY <2>2, <3>1, Moves, ThingMoves, OpenedAt
    <2> QED BY <2>1, <2>2 DEF Answered
  <1>2. answer'[o] \in Contract!Refusals => Contract!Untouched(o)
    BY OpenedAt DEF Answered, Contract!Untouched
  <1>3. Contract!Running /\ ProcessPhase' = ProcessPhase
    BY ProcessAt DEF Others
  <1>4. Contract!MayReturn(o)
    BY StaysStep DEF Answered
  <1>5. Phases[o] = "handled" /\ answer[o] = 0
    BY PhaseAt DEF Answered
  <1> QED BY <1>1, <1>2, <1>3, <1>4, <1>5, Moves DEF Contract!Answer

(* What each action of an owner changes of that. *)
HandlerChange(o) ==
  Unseen(o) \/ Took(o, "session") \/ Gave(o, "session") \/ Answered(o)

WorkerChange(o) ==
  Unseen(o) \/ \E t \in {"client", "copy"} : Took(o, t) \/ Gave(o, t)

(* Its handler is where it was, or between its first and its last step.        *)
Walks(o) ==
  pc'[o] = pc[o] \/ (pc[o] \notin {"idle", "returned"} /\ pc'[o] \notin {"idle", "returned"})

LEMMA WalksOn ==
  ASSUME IInv, NEW o \in Owners, UNCHANGED <<session, client, file, answer>>, Walks(o)
  PROVE  Unseen(o)
  <1>1. \A t \in Contract!Things : Shown(o, t)
    BY DEF Shown, Thing, session
  <1>2. RequestPhase(o)' = RequestPhase(o)
    BY DEF RequestPhase, Walks
  <1> QED BY <1>1, <1>2 DEF Unseen

(* It answers: it is within its steps, and returns without a session or stays.  *)
LEMMA Replies ==
  ASSUME IInv, NEW o \in Owners, AnswerInv(o), UNCHANGED <<session, client, file>>,
         pc[o] \notin {"idle", "close", "returned"}, pc'[o] \in {"close", "returned"},
         answer'[o] \in Statuses \ {0},
         pc'[o] = "returned" => Thing(o, "session") # "open",
         answer'[o] \in Contract!Refusals =>
           stage[o] = "none" /\ client[o] = "none" /\ file[o] = "none"
  PROVE  Answered(o)
  <1>1. \A t \in Contract!Things : Shown(o, t)
    BY DEF Shown, Thing, session
  <1>2. RequestPhase(o) = "handled" /\ answer[o] = 0
    BY DEF RequestPhase, AnswerInv
  <1>3. answer'[o] \in Contract!Refusals => \A t \in Contract!Things : Thing(o, t) = "none"
    BY DEF IInv, OwnerInv, StageInv, Thing
  <1>4. Stays(o)
    <2>1. Shown(o, "session")
      BY <1>1 DEF Contract!Things
    <2>2. CASE pc'[o] = "returned"
      BY <2>1, <2>2 DEF Stays, RequestPhase, Shown, Statuses
    <2>3. CASE pc'[o] = "close"
      BY <1>2, <2>3 DEF Stays, RequestPhase
    <2> QED BY <2>2, <2>3
  <1> QED BY <1>1, <1>2, <1>3, <1>4 DEF Answered, Contract!Things

(* Without a session nothing is open at the end of the handler.                 *)
LEMMA NoSession ==
  ASSUME IInv, NEW o \in Owners
  PROVE  stage[o] \notin {"pool", "pinged", "pinned", "open", "connClosed"}
           => Thing(o, "session") # "open"
  BY DEF IInv, TypeOK, OwnerInv, StageInv, Thing, Stages

LEMMA CloseChanges ==
  ASSUME IInv, NEW o \in Owners, AnswerInv(o), Close(o)
  PROVE  server' = server /\ HandlerChange(o)
  <1> USE DEF IInv, TypeOK, Goto, session, process
  <1>1. /\ pc[o] = "close" /\ answer[o] # 0
        /\ UNCHANGED <<process, request, principal, context, answer, working>>
    BY DEF Close, OwnerInv, HandlerInv
  <1>2. Shown(o, "client") /\ Shown(o, "copy") /\ Contract!Things = {"session", "client", "copy"}
    BY <1>1 DEF Shown, Thing, working, Contract!Things
  <1>3. CASE CloseConn(o) /\ UNCHANGED pc
    <2>1. Shown(o, "session")
      BY <1>3 DEF CloseConn, Shown, Thing, OwnerInv, StageInv
    <2> QED BY <1>1, <1>2, <1>3, <2>1 DEF HandlerChange, Unseen, RequestPhase
  <1>4. CASE CloseDB(o) /\ Goto(o, "returned")
    <2>1. Thing(o, "session") = "open" /\ Thing(o, "session")' = "closed"
      BY <1>4 DEF CloseDB, Thing, OwnerInv, StageInv
    <2>2. Stays(o)
      BY <1>1, <1>4, <2>1 DEF Stays, RequestPhase
    <2> QED BY <1>1, <1>2, <2>1, <2>2 DEF HandlerChange, Gave
  <1> QED BY <1>1, <1>3, <1>4 DEF Close

(* Opening a session: the pool is the thing that is opened, and whatever fails   *)
(* gives it back with the answer.                                              *)
LEMMA OpenChanges ==
  ASSUME IInv, NEW o \in Owners, AnswerInv(o), Open(o)
  PROVE  server' = server /\ HandlerChange(o)
  <1> USE DEF IInv, TypeOK, Goto, Reply, session, process
  <1>1. /\ pc[o] = "open" /\ answer[o] = 0 /\ RequestPhase(o) = "handled" /\ Permitted(o)
        /\ UNCHANGED <<process, request, principal, context, working>>
    BY DEF Open, AnswerInv, RequestPhase, OwnerInv, PermissionInv
  <1>2. Shown(o, "client") /\ Shown(o, "copy") /\ Contract!Things = {"session", "client", "copy"}
    BY <1>1 DEF Shown, Thing, working, Contract!Things
  <1>3. CASE UNCHANGED <<pc, answer>> /\ OpenDB(o)
    <2>1. Thing(o, "session") = "none" /\ Thing(o, "session")' = "open"
      BY <1>3 DEF OpenDB, Thing, OwnerInv, StageInv
    <2>2. Took(o, "session")
      BY <1>1, <1>2, <1>3, <2>1 DEF Took, RequestPhase, Contract!Refusals
    <2> QED BY <1>1, <2>2 DEF HandlerChange
  <1>4. CASE \/ UNCHANGED <<pc, answer>> /\ (Ping(o, Alive(o)) \/ Pin(o, Alive(o)))
             \/ /\ Identify(o, Alive(o), Raw(o), Expected(o))
                /\ Goto(o, "attach") /\ UNCHANGED answer
    <2>1. Shown(o, "session")
      BY <1>4 DEF Ping, Pin, Identify, Shown, Thing, OwnerInv, StageInv
    <2>2. RequestPhase(o)' = RequestPhase(o) /\ answer'[o] = answer[o]
      BY <1>1, <1>4 DEF RequestPhase
    <2> QED BY <1>1, <1>2, <2>1, <2>2 DEF HandlerChange, Unseen
  <1>5. (ConfigFails(o) \/ ConnectFails(o) \/ IdentifyFails(o)) =>
          \A status \in {400, 499, 500, 502, 504} : Reply(o, status) => HandlerChange(o)
    <2> SUFFICES ASSUME ConfigFails(o) \/ ConnectFails(o) \/ IdentifyFails(o),
                        NEW status \in {400, 499, 500, 502, 504}, Reply(o, status)
                 PROVE  HandlerChange(o)
      OBVIOUS
    <2>1. \/ Shown(o, "session") /\ Thing(o, "session")' = "none"
          \/ Thing(o, "session") = "open" /\ Thing(o, "session")' = "closed"
      BY DEF ConfigFails, ConnectFails, IdentifyFails, Shown, Thing, OwnerInv, StageInv
    <2>2. RequestPhase(o)' = "returned" /\ answer'[o] = status
      BY DEF RequestPhase
    <2>3. answer'[o] \in Statuses \ {0} /\ answer'[o] \notin Contract!Refusals
      BY <2>2 DEF Statuses, Contract!Refusals
    <2>4. Stays(o)
      BY <2>1, <2>2 DEF Stays
    <2> QED BY <1>1, <1>2, <2>1, <2>3, <2>4 DEF HandlerChange, Answered
  <1>6. \A status \in ConnectionErrors(o) : status \in {499, 502, 504}
    BY DEF ConnectionErrors
  <1> QED BY <1>1, <1>3, <1>4, <1>5, <1>6 DEF Open

LEMMA HandlerChanges ==
  ASSUME IInv, NEW o \in Owners, AnswerInv(o), Handler(o)
  PROVE  server' = server /\ HandlerChange(o)
  <1> USE DEF IInv, TypeOK, Goto, Reply, session, process, handling, working
  <1>a. StageInv(o) /\ HandlerInv(o) /\ WorkerInv(o) /\ PermissionInv(o)
    BY DEF OwnerInv
  <1>b. pc[o] \in {"auth", "limit", "handler", "authorize"} =>
          stage[o] = "none" /\ client[o] = "none" /\ file[o] = "none"
    BY <1>a DEF HandlerInv, WorkerInv, AnswerInv
  <1>1. CASE Authenticate(o)
    <2>1. pc[o] = "auth" /\ UNCHANGED <<session, process, working>>
      BY <1>1 DEF Authenticate
    <2>2. CASE pc'[o] = "limit" /\ answer' = answer
      BY <2>1, <2>2, WalksOn DEF HandlerChange, Walks
    <2>3. CASE Reply(o, 401) \/ Reply(o, 403)
      BY <1>b, <2>1, <2>3, Replies, NoSession DEF HandlerChange, Statuses
    <2> QED BY <1>1, <2>1, <2>2, <2>3 DEF Authenticate
  <1>2. CASE Limit(o)
    <2>1. pc[o] = "limit" /\ UNCHANGED <<session, process, working>>
      BY <1>2 DEF Limit
    <2>2. CASE pc'[o] = "handler" /\ answer' = answer
      BY <2>1, <2>2, WalksOn DEF HandlerChange, Walks
    <2>3. CASE Reply(o, 429)
      BY <1>b, <2>1, <2>3, Replies, NoSession DEF HandlerChange, Statuses
    <2> QED BY <1>2, <2>1, <2>2, <2>3 DEF Limit
  <1>3. CASE Handle(o)
    <2>1. pc[o] = "handler" /\ UNCHANGED <<session, process, client, file>>
      BY <1>3 DEF Handle
    <2>2. CASE pc'[o] \in {"select", "authorize", "analyse"} /\ answer' = answer
      BY <2>1, <2>2, WalksOn DEF HandlerChange, Walks
    <2>3. CASE Reply(o, 200) \/ Reply(o, 400)
      BY <1>b, <2>1, <2>3, Replies, NoSession DEF HandlerChange, Statuses
    <2> QED BY <1>3, <2>1, <2>2, <2>3 DEF Handle
  <1>4. CASE AuthorizeQuery(o)
    <2>1. pc[o] = "authorize" /\ UNCHANGED <<session, process, working>>
      BY <1>4 DEF AuthorizeQuery
    <2>2. CASE pc'[o] = "open" /\ answer' = answer
      BY <2>1, <2>2, WalksOn DEF HandlerChange, Walks
    <2>3. CASE Reply(o, 400) \/ Reply(o, 404) \/ Reply(o, 403)
      BY <1>b, <2>1, <2>3, Replies, NoSession DEF HandlerChange, Statuses
    <2> QED BY <1>4, <2>1, <2>2, <2>3 DEF AuthorizeQuery
  <1>6. CASE Attach(o)
    <2>1. pc[o] = "attach" /\ UNCHANGED <<session, process, working>>
      BY <1>6 DEF Attach
    <2>2. CASE pc'[o] = "analyse" /\ answer' = answer
      BY <2>1, <2>2, WalksOn DEF HandlerChange, Walks
    <2>3. CASE pc'[o] = "close" /\ answer'[o] = 502
      BY <2>1, <2>3, Replies DEF HandlerChange, Statuses, Contract!Refusals
    <2> QED BY <1>6, <2>1, <2>2, <2>3 DEF Attach
  <1>7. CASE Begin(o)
    <2>1. pc[o] = "analyse" /\ UNCHANGED <<session, process, working>>
      BY <1>7 DEF Begin
    <2>2. CASE pc'[o] = "analysing" /\ answer' = answer
      BY <2>1, <2>2, WalksOn DEF HandlerChange, Walks
    <2>3. CASE pc'[o] = AfterAnalysis(o) /\ answer'[o] \in {504, 408}
      BY <1>a, <2>1, <2>3, Replies, NoSession
         DEF HandlerChange, Statuses, Contract!Refusals, AfterAnalysis, HandlerInv
    <2> QED BY <1>7, <2>1, <2>2, <2>3 DEF Begin
  <1>8. CASE Analyse(o)
    <2>1. /\ pc[o] = "analysing" /\ UNCHANGED <<session, process, working>>
          /\ pc'[o] = AfterAnalysis(o) /\ answer'[o] \in {200, 400}
      BY <1>8 DEF Analyse
    <2> QED BY <1>a, <2>1, Replies, NoSession
            DEF HandlerChange, Statuses, Contract!Refusals, AfterAnalysis, HandlerInv
  <1>10. CASE Select(o)
    <2>1. /\ pc[o] = "select" /\ pc'[o] = "returned"
          /\ UNCHANGED <<session, process, working>> /\ stage[o] = "none"
      BY <1>a, <1>10 DEF Select, HandlerInv
    <2>2. answer'[o] \in Statuses \ {0}
      BY <1>10 DEF Select, ResultStatuses, Statuses
    <2>3. answer'[o] \in Contract!Refusals => result[o] = "refused"
      BY <1>10 DEF Select, ResultStatuses, Contract!Refusals
    <2> QED BY <2>1, <2>2, <2>3, Replies, NoSession DEF HandlerChange, AnswerInv
  <1> QED BY <1>1, <1>2, <1>3, <1>4, <1>6, <1>7, <1>8, <1>10, OpenChanges, CloseChanges DEF Handler

LEMMA WorkerChanges ==
  ASSUME IInv, NEW o \in Owners, AnswerInv(o), Worker(o)
  PROVE  server' = server /\ WorkerChange(o)
  <1> USE DEF IInv, TypeOK, WorkOn, session, process, handling
  <1>a. WorkerInv(o) /\ PermissionInv(o)
    BY DEF OwnerInv
  <1>1. ASSUME UNCHANGED <<session, process, handling, client, file>>
        PROVE  server' = server /\ WorkerChange(o)
    BY <1>1, WalksOn DEF WorkerChange, Walks
  <1>2. CASE AuthorizeAudit(o) BY <1>1, <1>2 DEF AuthorizeAudit
  <1>3. CASE SnapshotPolicy(o)
    <2>1. UNCHANGED <<session, process, handling, client>> /\ worker[o] = "snapshot"
      BY <1>3 DEF SnapshotPolicy
    <2>2. CASE file' = [file EXCEPT ![o] = "present"]
      <3>1. Thing(o, "copy") = "none" /\ Thing(o, "copy")' = "open"
        BY <1>a, <2>1, <2>2 DEF WorkerInv, Thing
      <3>2. \A u \in Contract!Things \ {"copy"} : Shown(o, u)
        BY <2>1 DEF Contract!Things, Shown, Thing
      <3>3. /\ Permitted(o) /\ RequestPhase(o) # "waiting" /\ answer[o] \notin Contract!Refusals
            /\ RequestPhase(o)' = RequestPhase(o) /\ answer'[o] = answer[o]
        BY <1>a, <2>1 DEF PermissionInv, AnswerInv, RequestPhase
      <3> QED BY <2>1, <3>1, <3>2, <3>3 DEF WorkerChange, Took
    <2> QED BY <1>1, <1>3, <2>1, <2>2 DEF SnapshotPolicy
  <1>4. CASE PrepareAudit(o)
    <2>1. UNCHANGED <<session, process, handling, file>> /\ worker[o] = "prepare"
      BY <1>4 DEF PrepareAudit
    <2>2. CASE \E c \in {"open", "leaked"} : client' = [client EXCEPT ![o] = c]
      <3>1. Thing(o, "client") = "none" /\ Thing(o, "client")' = "open"
        BY <1>a, <2>1, <2>2 DEF WorkerInv, Thing
      <3>2. \A u \in Contract!Things \ {"client"} : Shown(o, u)
        BY <2>1 DEF Contract!Things, Shown, Thing
      <3>3. /\ Permitted(o) /\ RequestPhase(o) # "waiting" /\ answer[o] \notin Contract!Refusals
            /\ RequestPhase(o)' = RequestPhase(o) /\ answer'[o] = answer[o]
        BY <1>a, <2>1 DEF PermissionInv, AnswerInv, RequestPhase
      <3> QED BY <2>1, <3>1, <3>2, <3>3 DEF WorkerChange, Took
    <2> QED BY <1>1, <1>4, <2>1, <2>2 DEF PrepareAudit
  <1>5. CASE Audit(o) BY <1>1, <1>5 DEF Audit
  <1>6. CASE CloseClient(o)
    <2>1. /\ UNCHANGED <<session, process, handling, file>>
          /\ client' = [client EXCEPT ![o] = "closed"] /\ client[o] = "open"
      BY <1>a, <1>6 DEF CloseClient, Closing, WorkerInv
    <2>2. Thing(o, "client") = "open" /\ Thing(o, "client")' = "closed"
      BY <2>1 DEF Thing
    <2>3. \A u \in Contract!Things \ {"client"} : Shown(o, u)
      BY <2>1 DEF Contract!Things, Shown, Thing
    <2>4. Stays(o)
      BY <2>1 DEF Stays, RequestPhase
    <2> QED BY <2>1, <2>2, <2>3, <2>4 DEF WorkerChange, Gave
  <1>7. CASE CleanupPolicy(o)
    <2>1. /\ UNCHANGED <<session, process, handling, client>>
          /\ file' = [file EXCEPT ![o] = IF @ = "present" THEN "removed" ELSE @]
      BY <1>7 DEF CleanupPolicy
    <2>2. CASE file[o] = "present"
      <3>1. Thing(o, "copy") = "open" /\ Thing(o, "copy")' = "closed"
        BY <2>1, <2>2 DEF Thing
      <3>2. \A u \in Contract!Things \ {"copy"} : Shown(o, u)
        BY <2>1 DEF Contract!Things, Shown, Thing
      <3>3. Stays(o)
        BY <2>1 DEF Stays, RequestPhase
      <3> QED BY <2>1, <3>1, <3>2, <3>3 DEF WorkerChange, Gave
    <2>3. CASE file[o] # "present"
      <3>1. file' = file
        BY <2>1, <2>3
      <3> QED BY <1>1, <2>1, <3>1
    <2> QED BY <2>2, <2>3
  <1>8. CASE Send(o) BY <1>1, <1>8 DEF Send
  <1> QED BY <1>2, <1>3, <1>4, <1>5, <1>6, <1>7, <1>8 DEF Worker

LEMMA EnvironmentChanges ==
  ASSUME IInv, NEW o \in Owners, AnswerInv(o), Environment(o)
  PROVE  \/ server' = server /\ (Unseen(o) \/ Accepted(o) \/ Answered(o))
         \/ server' = "crashed" /\ Unseen(o)
  <1> USE DEF IInv, TypeOK, Goto, session, process, handling, working
  <1>1. CASE Arrive(o)
    <2>1. \A t \in Contract!Things : Shown(o, t)
      BY <1>1 DEF Arrive, Shown, Thing
    <2> QED BY <1>1, <2>1 DEF Arrive, Accepted, RequestPhase
  <1>2. CASE HandlerPanics(o)
    <2>1. /\ pc[o] \in {"attach", "analyse", "analysing"} /\ UNCHANGED <<session, process, working>>
          /\ pc'[o] = AfterAnalysis(o) /\ answer'[o] = 500
      BY <1>2 DEF HandlerPanics
    <2>2. stage[o] \in {"none", "open"}
      BY <2>1 DEF OwnerInv, HandlerInv
    <2> QED BY <2>1, <2>2, Replies, NoSession DEF AfterAnalysis, Statuses, Contract!Refusals
  <1>3. CASE WorkerPanics(o)
    <2>1. server' = "crashed" /\ UNCHANGED <<session, client, file, answer, pc>>
      BY <1>3 DEF WorkerPanics
    <2> QED BY <2>1, WalksOn DEF Walks
  <1>4. ASSUME NEW why \in {"expired", "cancelled"}, ContextEnds(o, why)
        PROVE  server' = server /\ Unseen(o)
    BY <1>4, WalksOn DEF ContextEnds, Walks
  <1> QED BY <1>1, <1>2, <1>3, <1>4 DEF Environment

(* A step of the server is one of the contract or shows it nothing. *)
LEMMA ContractStep ==
  ASSUME IInv, IInv', Answers, [Next]_vars
  PROVE  [Contract!ContractNext]_(Contract!contractVars)
  <1>1. ASSUME NEW o \in Owners, Contract!Step(o)
        PROVE  Contract!ContractNext
    BY <1>1 DEF Contract!ContractNext
  <1>2. ASSUME NEW o \in Owners, Handler(o) \/ Worker(o) \/ Environment(o)
        PROVE  [Contract!ContractNext]_(Contract!contractVars)
    <2>1. Others(o) /\ AnswerInv(o)
      BY <1>2, HandlerAlone, WorkerAlone, EnvironmentAlone DEF Answers
    <2>2. CASE Unseen(o) /\ server' = server
      BY <2>1, <2>2, UnseenStep
    <2>3. CASE Unseen(o) /\ server' = "crashed"
      BY <2>1, <2>3, CrashStep DEF Contract!ContractNext
    <2>4. CASE Accepted(o) /\ server' = server
      BY <1>1, <2>1, <2>4, AcceptedStep DEF Contract!Step
    <2>5. CASE server' = server /\ \E t \in Contract!Things : Took(o, t) \/ Gave(o, t)
      BY <1>1, <2>1, <2>5, TookStep, GaveStep DEF Contract!Step
    <2>6. CASE Answered(o) /\ server' = server
      <3>1. Contract!Answer(o, answer'[o]) /\ answer'[o] \in Statuses \ {0}
        BY <2>1, <2>6, AnsweredStep DEF Answered
      <3> QED BY <1>1, <3>1 DEF Contract!Step
    <2>7. {"session", "client", "copy"} \subseteq Contract!Things
      BY DEF Contract!Things
    <2> QED BY <1>2, <2>1, <2>2, <2>3, <2>4, <2>5, <2>6, <2>7,
               HandlerChanges, WorkerChanges, EnvironmentChanges
            DEF HandlerChange, WorkerChange
  <1>3. ASSUME UNCHANGED <<session, config, handling, working>>
        PROVE  UNCHANGED <<PermittedRequests, Phases, answer, Opened>>
    <2>1. \A p \in Owners : (Permitted(p)' <=> Permitted(p)) /\ RequestPhase(p)' = RequestPhase(p)
      BY <1>3 DEF handling, Permitted, Listed, RequestPhase
    <2>2. \A p \in Owners, t \in Contract!Things : Shown(p, t)
      BY <1>3 DEF session, working, Shown, Thing
    <2> QED BY <1>3, <2>1, <2>2, ThingsStay DEF PermittedRequests, Phases, handling
  <1>4. CASE Start \/ Signal \/ DrainTimeout \/ ListenFails
    <2>1. UNCHANGED <<PermittedRequests, Phases, answer, Opened>>
      BY <1>3, <1>4 DEF Start, Signal, DrainTimeout, ListenFails
    <2> QED BY <1>4, <2>1, ProcessAt
            DEF Start, Signal, DrainTimeout, ListenFails, Contract!Serve, Contract!Stop,
                Contract!Break, Contract!ContractNext
  <1>5. CASE Drained
    <2>1. UNCHANGED <<PermittedRequests, Phases, answer, Opened>>
      BY <1>3, <1>5 DEF Drained
    <2>2. \A o \in Owners : Phases[o] # "handled"
      BY <1>5, PhaseAt DEF Drained, Returned, RequestPhase
    <2>3. Contract!Leave
      BY <1>5, <2>1, <2>2, ProcessAt DEF Drained, Contract!Leave
    <2> QED BY <2>3 DEF Contract!ContractNext
  <1>6. CASE UNCHANGED vars
    <2>1. UNCHANGED <<PermittedRequests, Phases, answer, Opened>>
      BY <1>3, <1>6 DEF vars, process
    <2> QED BY <1>6, <2>1, ProcessAt DEF vars, process, Contract!contractVars
  <1> QED BY <1>2, <1>4, <1>5, <1>6 DEF Next

LEMMA ContractStart == Init => Contract!ContractInit
  <1> SUFFICES ASSUME Init
               PROVE  Contract!ContractInit
    OBVIOUS
  <1>1. ProcessPhase = "starting" /\ PermittedRequests \in SUBSET Owners
    BY DEF Init, ProcessPhase, PermittedRequests
  <1>2. Phases = [o \in Owners |-> "waiting"] /\ answer = [o \in Owners |-> 0]
    BY DEF Init, Phases, RequestPhase
  <1>3. Opened = [p \in Owners \X Contract!Things |-> "none"]
    <2>1. \A p \in Owners \X Contract!Things : Thing(p[1], p[2]) = "none"
      BY DEF Init, SessionInit, Thing
    <2> QED BY <2>1 DEF Opened, Contract!Things
  <1> QED BY <1>1, <1>2, <1>3 DEF Contract!ContractInit

(* The server implements RequestContract, however many requests it handles at   *)
(* a time, whatever it is configured with and whatever fails, times out, panics  *)
(* or is stopped: AnswerInv says that nobody writes an answer but the handler,   *)
(* once, and that behind a refusal nothing runs on.                              *)
THEOREM Refinement == Spec => ImplementsRequestContract
  <1>1. Spec => []Answers
    BY AnswersInit, AnswersStay, Invariance, PTL DEF Spec
  <1>2. IInv /\ IInv' /\ Answers /\ [Next]_vars => [Contract!ContractNext]_(Contract!contractVars)
    BY ContractStep
  <1> QED BY <1>1, <1>2, ContractStart, Invariance, PTL
          DEF Spec, ImplementsRequestContract, Contract!ContractSpec

----------------------------------------------------------------------------
(* What follows from the contract alone.                                       *)

(* The kinds of the contract's variables, as the contract itself keeps them.    *)
ContractTypes ==
  /\ Phases \in [Owners -> {"waiting", "handled", "returned"}]
  /\ answer \in [Owners -> Statuses]
  /\ Opened \in [Owners \X Contract!Things -> {"none", "open", "closed"}]

Promises ==
  /\ ContractTypes
  /\ Contract!RefusedUntouched /\ Contract!OpenedPermitted /\ Contract!ReturnedAnswered

(* A step of the contract about one request, by what it changes.                *)
LEMMA RequestSteps ==
  ASSUME ContractTypes, NEW r \in Owners, Contract!Step(r)
  PROVE  /\ PermittedRequests' = PermittedRequests /\ ProcessPhase' = ProcessPhase
         /\ ProcessPhase \in {"serving", "draining"}
         /\ ContractTypes'
         /\ \A p \in Owners \ {r} :
              /\ Phases'[p] = Phases[p] /\ answer'[p] = answer[p]
              /\ \A t \in Contract!Things : Opened'[<<p, t>>] = Opened[<<p, t>>]
  <1> USE DEF ContractTypes
  <1>1. CASE Contract!Accept(r)
    BY <1>1 DEF Contract!Accept
  <1>2. ASSUME NEW t \in Contract!Things, Contract!Take(r, t)
        PROVE  /\ PermittedRequests' = PermittedRequests /\ ProcessPhase' = ProcessPhase
               /\ Contract!Running /\ Phases' = Phases /\ answer' = answer
               /\ Opened' = [Opened EXCEPT ![<<r, t>>] = "open"]
    BY <1>2 DEF Contract!Take
  <1>3. ASSUME NEW t \in Contract!Things, Contract!GiveBack(r, t)
        PROVE  /\ PermittedRequests' = PermittedRequests /\ ProcessPhase' = ProcessPhase
               /\ Contract!Running /\ answer' = answer
               /\ Phases' = Phases \/ Phases' = [Phases EXCEPT ![r] = "returned"]
               /\ Opened' = [Opened EXCEPT ![<<r, t>>] = "closed"]
    BY <1>3 DEF Contract!GiveBack, Contract!MayReturn
  <1>4. ASSUME NEW status \in Statuses \ {0}, Contract!Answer(r, status)
        PROVE  /\ PermittedRequests' = PermittedRequests /\ ProcessPhase' = ProcessPhase
               /\ Contract!Running /\ answer' = [answer EXCEPT ![r] = status]
               /\ Phases' = Phases \/ Phases' = [Phases EXCEPT ![r] = "returned"]
               /\ \/ Opened' = Opened
                  \/ Opened' = [Opened EXCEPT ![<<r, "session">>] = "closed"]
    BY <1>4 DEF Contract!Answer, Contract!MayReturn
  <1>5. "session" \in Contract!Things
    BY DEF Contract!Things
  <1> HIDE DEF Contract!Things
  <1> QED BY <1>1, <1>2, <1>3, <1>4, <1>5 DEF Contract!Step, Contract!Running

Kept(r) ==
  /\ answer[r] \in Contract!Refusals => Contract!Untouched(r)
  /\ \A t \in Contract!Things : Opened[<<r, t>>] # "none" => r \in PermittedRequests
  /\ \/ Phases[r] = "returned" /\ answer[r] # 0 /\ Opened[<<r, "session">>] # "open"
     \/ Phases[r] = "waiting" /\ answer[r] = 0 /\ Contract!Untouched(r)
     \/ Phases[r] = "handled" /\ ProcessPhase # "clean"

LEMMA KeptByAll ==
  /\ Promises <=> ContractTypes /\ \A r \in Owners : Kept(r)
  /\ Promises' <=> ContractTypes' /\ \A r \in Owners : Kept(r)'
  BY DEF Promises, Kept, Contract!RefusedUntouched, Contract!OpenedPermitted,
         Contract!ReturnedAnswered

LEMMA RequestKept ==
  ASSUME ContractTypes, NEW r \in Owners, Kept(r), Contract!Step(r)
  PROVE  Kept(r)'
  <1>0. /\ Phases \in [Owners -> {"waiting", "handled", "returned"}]
        /\ answer \in [Owners -> Statuses]
        /\ Opened \in [Owners \X Contract!Things -> {"none", "open", "closed"}]
        /\ "session" \in Contract!Things
    BY DEF ContractTypes, Contract!Things
  <1>1. PermittedRequests' = PermittedRequests /\ ProcessPhase' = ProcessPhase
        /\ ProcessPhase \in {"serving", "draining"} /\ ContractTypes'
    BY RequestSteps
  <1> HIDE DEF Contract!Things
  <1>2. CASE Contract!Accept(r)
    <2>1. answer' = answer /\ Opened' = Opened /\ Phases'[r] = "handled"
      BY <1>0, <1>2 DEF Contract!Accept
    <2> QED BY <1>1, <2>1 DEF Kept, Contract!Untouched
  <1>3. ASSUME NEW t \in Contract!Things, Contract!Take(r, t) PROVE Kept(r)'
    <2>1. /\ r \in PermittedRequests /\ Phases[r] # "waiting"
          /\ answer[r] \notin Contract!Refusals
          /\ t = "session" => Phases[r] = "handled"
          /\ Phases' = Phases /\ answer' = answer
          /\ Opened' = [Opened EXCEPT ![<<r, t>>] = "open"]
      BY <1>3 DEF Contract!Take
    <2>2. \A u \in Contract!Things : u # t => Opened'[<<r, u>>] = Opened[<<r, u>>]
      BY <1>0, <2>1
    <2> QED BY <1>0, <1>1, <2>1, <2>2 DEF Kept
  <1>4. ASSUME NEW t \in Contract!Things, Contract!GiveBack(r, t) PROVE Kept(r)'
    <2>1. /\ Opened[<<r, t>>] = "open" /\ answer' = answer
          /\ Opened' = [Opened EXCEPT ![<<r, t>>] = "closed"]
          /\ \/ Phases' = Phases
             \/ /\ Phases' = [Phases EXCEPT ![r] = "returned"]
                /\ answer'[r] # 0 /\ Opened'[<<r, "session">>] # "open"
      BY <1>4 DEF Contract!GiveBack, Contract!MayReturn
    <2>2. ~Contract!Untouched(r)
      BY <2>1 DEF Contract!Untouched
    <2>3. \A u \in Contract!Things : u # t => Opened'[<<r, u>>] = Opened[<<r, u>>]
      BY <1>0, <2>1
    <2>4. \A u \in Contract!Things :
            Opened'[<<r, u>>] # "none" => Opened[<<r, u>>] # "none"
      BY <2>1, <2>3
    <2>5. Opened'[<<r, "session">>] = "open" => Opened[<<r, "session">>] = "open"
      BY <1>0, <2>1, <2>3
    <2> QED BY <1>0, <1>1, <2>1, <2>2, <2>4, <2>5 DEF Kept
  <1>5. ASSUME NEW status \in Statuses \ {0}, Contract!Answer(r, status) PROVE Kept(r)'
    <2>1. /\ Phases[r] = "handled" /\ answer' = [answer EXCEPT ![r] = status]
          /\ status \in Contract!Refusals => Contract!Untouched(r)
          /\ \/ Opened' = Opened
             \/ /\ Opened[<<r, "session">>] = "open"
                /\ Opened' = [Opened EXCEPT ![<<r, "session">>] = "closed"]
          /\ \/ Phases' = Phases
             \/ /\ Phases' = [Phases EXCEPT ![r] = "returned"]
                /\ answer'[r] # 0 /\ Opened'[<<r, "session">>] # "open"
      BY <1>5 DEF Contract!Answer, Contract!MayReturn
    <2>2. answer'[r] = status
      BY <1>0, <2>1
    <2>3. \A u \in Contract!Things :
            Opened'[<<r, u>>] # "none" => Opened[<<r, u>>] # "none"
      BY <1>0, <2>1
    <2>4. status \in Contract!Refusals => Opened' = Opened
      BY <1>0, <2>1 DEF Contract!Untouched
    <2>5. status \in Contract!Refusals => Contract!Untouched(r)'
      BY <2>1, <2>4 DEF Contract!Untouched
    <2> QED BY <1>0, <1>1, <2>1, <2>2, <2>3, <2>5 DEF Kept
  <1> QED BY <1>2, <1>3, <1>4, <1>5 DEF Contract!Step

LEMMA PromisesStep ==
  ASSUME Promises, [Contract!ContractNext]_(Contract!contractVars)
  PROVE  Promises'
  <1>0. ContractTypes /\ \A r \in Owners : Kept(r)
    BY KeptByAll
  <1>1. ASSUME NEW r \in Owners, Contract!Step(r) PROVE Promises'
    <2>1. ContractTypes' /\ Kept(r)'
      BY <1>0, <1>1, RequestSteps, RequestKept
    <2>2. ASSUME NEW p \in Owners \ {r} PROVE Kept(p)'
      <3>1. /\ PermittedRequests' = PermittedRequests /\ ProcessPhase' = ProcessPhase
            /\ Phases'[p] = Phases[p] /\ answer'[p] = answer[p]
            /\ \A t \in Contract!Things : Opened'[<<p, t>>] = Opened[<<p, t>>]
        BY <1>0, <1>1, RequestSteps
      <3>2. "session" \in Contract!Things
        BY DEF Contract!Things
      <3> HIDE DEF Contract!Things
      <3> QED BY <1>0, <3>1, <3>2 DEF Kept, Contract!Untouched
    <2> QED BY <2>1, <2>2, KeptByAll
  <1>2. CASE \/ Contract!Serve \/ Contract!Stop \/ Contract!Leave \/ Contract!Break
             \/ UNCHANGED Contract!contractVars
    <2>1. UNCHANGED <<PermittedRequests, Phases, answer, Opened>>
      BY <1>2 DEF Contract!Serve, Contract!Stop, Contract!Leave, Contract!Break,
         Contract!contractVars
    <2>2. ProcessPhase' = "clean" =>
            ProcessPhase = "clean" \/ \A r \in Owners : Phases[r] # "handled"
      BY <1>2 DEF Contract!Serve, Contract!Stop, Contract!Leave, Contract!Break,
         Contract!contractVars
    <2>3. ContractTypes'
      BY <1>0, <2>1 DEF ContractTypes
    <2>4. \A r \in Owners : Kept(r)'
      BY <1>0, <2>1, <2>2 DEF Kept, Contract!Untouched
    <2> QED BY <2>3, <2>4, KeptByAll
  <1> QED BY <1>1, <1>2 DEF Contract!ContractNext

LEMMA PromisesStart == Contract!ContractInit => Promises
  <1> SUFFICES ASSUME Contract!ContractInit PROVE Promises
    OBVIOUS
  <1>1. /\ Phases = [r \in Owners |-> "waiting"] /\ answer = [r \in Owners |-> 0]
        /\ Opened = [p \in Owners \X Contract!Things |-> "none"]
    BY DEF Contract!ContractInit
  <1>2. ContractTypes
    BY <1>1 DEF ContractTypes, Statuses
  <1>3. \A r \in Owners : Kept(r)
    BY <1>1 DEF Kept, Contract!Untouched
  <1> QED BY <1>2, <1>3, KeptByAll

LEMMA OneWayStep ==
  ASSUME Promises, Contract!ContractNext
  PROVE  /\ \A r \in Owners :
              /\ answer[r] # 0 => answer'[r] = answer[r]
              /\ Phases[r] = "returned" => Phases'[r] = "returned"
              /\ Phases'[r] = "waiting" => Phases[r] = "waiting"
              /\ \A t \in Contract!Things :
                   /\ Opened[<<r, t>>] = "closed" => Opened'[<<r, t>>] = "closed"
                   /\ Opened'[<<r, t>>] = "none" => Opened[<<r, t>>] = "none"
         /\ ProcessPhase \notin {"clean", "gone"}
  <1> DEFINE Forward(r) ==
               /\ answer[r] # 0 => answer'[r] = answer[r]
               /\ Phases[r] = "returned" => Phases'[r] = "returned"
               /\ Phases'[r] = "waiting" => Phases[r] = "waiting"
               /\ \A t \in Contract!Things :
                    /\ Opened[<<r, t>>] = "closed" => Opened'[<<r, t>>] = "closed"
                    /\ Opened'[<<r, t>>] = "none" => Opened[<<r, t>>] = "none"
  <1>0. /\ Phases \in [Owners -> {"waiting", "handled", "returned"}]
        /\ answer \in [Owners -> Statuses]
        /\ Opened \in [Owners \X Contract!Things -> {"none", "open", "closed"}]
        /\ "session" \in Contract!Things
    BY DEF Promises, ContractTypes, Contract!Things
  <1>1. CASE Contract!Serve \/ Contract!Stop \/ Contract!Leave \/ Contract!Break
    BY <1>1 DEF Contract!Serve, Contract!Stop, Contract!Leave, Contract!Break
  <1>2. ASSUME NEW r \in Owners, Contract!Step(r)
        PROVE  (\A p \in Owners : Forward(p)) /\ ProcessPhase \notin {"clean", "gone"}
    <2>1. /\ ProcessPhase \in {"serving", "draining"}
          /\ \A p \in Owners \ {r} : Forward(p)
      BY <1>2, RequestSteps DEF Promises
    <2>2. Forward(r)
      <3> HIDE DEF Contract!Things
      <3>1. CASE Contract!Accept(r)
        BY <1>0, <3>1 DEF Contract!Accept
      <3>2. ASSUME NEW t \in Contract!Things, Contract!Take(r, t) PROVE Forward(r)
        BY <1>0, <3>2 DEF Contract!Take
      <3>3. ASSUME NEW t \in Contract!Things, Contract!GiveBack(r, t) PROVE Forward(r)
        BY <1>0, <3>3 DEF Contract!GiveBack, Contract!MayReturn
      <3>4. ASSUME NEW status \in Statuses \ {0}, Contract!Answer(r, status) PROVE Forward(r)
        BY <1>0, <3>4 DEF Contract!Answer, Contract!MayReturn
      <3> QED BY <1>2, <3>1, <3>2, <3>3, <3>4 DEF Contract!Step
    <2> QED BY <2>1, <2>2
  <1> QED BY <1>1, <1>2 DEF Contract!ContractNext

(* What a client or an operator may rely on, from the contract alone: behind a  *)
(* 401, 403, 404 or 429 nothing was opened and nothing will be; whatever was     *)
(* opened was permitted; each handler that returned has answered, and after a    *)
(* clean exit each one has; an answer is final, and nothing is opened twice.     *)
THEOREM PromisesKept ==
  Spec => /\ [](/\ Contract!RefusedUntouched /\ Contract!OpenedPermitted
                /\ Contract!ReturnedAnswered)
          /\ Contract!OneWay
  <1>1. ImplementsRequestContract => []Promises
    BY PromisesStart, PromisesStep, PTL
       DEF ImplementsRequestContract, Contract!ContractSpec
  <1>2. Promises => /\ Contract!RefusedUntouched /\ Contract!OpenedPermitted
                    /\ Contract!ReturnedAnswered
    BY DEF Promises
  <1>3. Promises /\ [Contract!ContractNext]_(Contract!contractVars) =>
          [/\ \A r \in Owners :
                /\ answer[r] # 0 => answer'[r] = answer[r]
                /\ Phases[r] = "returned" => Phases'[r] = "returned"
                /\ Phases'[r] = "waiting" => Phases[r] = "waiting"
                /\ \A t \in Contract!Things :
                     /\ Opened[<<r, t>>] = "closed" => Opened'[<<r, t>>] = "closed"
                     /\ Opened'[<<r, t>>] = "none" => Opened[<<r, t>>] = "none"
           /\ ProcessPhase \notin {"clean", "gone"}]_(Contract!contractVars)
    BY OneWayStep
  <1> QED BY <1>1, <1>2, <1>3, Refinement, PTL
          DEF ImplementsRequestContract, Contract!ContractSpec, Contract!OneWay

----------------------------------------------------------------------------
(* How long a request takes.                                                    *)

Counted(o) ==
  /\ pc[o] = "idle"      => HandlerLeft(o) = 14
  /\ pc[o] = "auth"      => HandlerLeft(o) = 13
  /\ pc[o] = "limit"     => HandlerLeft(o) = 12
  /\ pc[o] = "handler"   => HandlerLeft(o) = 11
  /\ pc[o] = "authorize" => HandlerLeft(o) = 10
  /\ pc[o] = "open"      => HandlerLeft(o) = 5 + OpenLeft(o)
  /\ pc[o] = "attach"    => HandlerLeft(o) = 5
  /\ pc[o] = "analyse"   => HandlerLeft(o) = 4
  /\ pc[o] = "analysing" => HandlerLeft(o) = 3
  /\ pc[o] = "close"     => HandlerLeft(o) = IF stage[o] = "open" THEN 2 ELSE 1
  /\ pc[o] = "select"    => HandlerLeft(o) = 1
  /\ pc[o] = "returned"  => HandlerLeft(o) = 0

CountedOpen(o) ==
  /\ stage[o] = "none"   => OpenLeft(o) = 4
  /\ stage[o] = "pool"   => OpenLeft(o) = 3
  /\ stage[o] = "pinged" => OpenLeft(o) = 2
  /\ OpenLeft(o) \in 1..4

CountedWorker(o) ==
  /\ worker[o] = "authorize" => WorkerLeft(o) = 7
  /\ worker[o] = "snapshot"  => WorkerLeft(o) = 6
  /\ worker[o] = "prepare"   => WorkerLeft(o) = 5
  /\ worker[o] = "audit"     => WorkerLeft(o) = 4
  /\ worker[o] \in {"close_ok", "close_failed"}     => WorkerLeft(o) = 3
  /\ worker[o] \in {"cleanup_ok", "cleanup_failed"} => WorkerLeft(o) = 2
  /\ worker[o] \in {"ok", "failed", "refused"}      => WorkerLeft(o) = 1
  /\ worker[o] \in {"none", "done"}                 => WorkerLeft(o) = 0
  /\ WorkerLeft(o) \in 0..7

LEMMA Counts ==
  ASSUME NEW o \in Owners
  PROVE  /\ Counted(o) /\ CountedOpen(o) /\ CountedWorker(o)
         /\ Counted(o)' /\ CountedOpen(o)' /\ CountedWorker(o)'
  <1>1. Counted(o) /\ Counted(o)'
    BY DEF Counted, HandlerLeft
  <1>2. CountedOpen(o) /\ CountedOpen(o)'
    BY DEF CountedOpen, OpenLeft
  <1>3. CountedWorker(o) /\ CountedWorker(o)'
    BY DEF CountedWorker, WorkerLeft
  <1> QED BY <1>1, <1>2, <1>3

LEMMA CountType ==
  ASSUME IInv, NEW o \in Owners
  PROVE  HandlerLeft(o) \in 0..14 /\ WorkerLeft(o) \in 0..7
  BY Counts DEF IInv, TypeOK, Labels, Counted, CountedOpen, CountedWorker

LEMMA HandlerAdvances ==
  ASSUME IInv, NEW o \in Owners, Handler(o)
  PROVE  StepsLeft(o)' < StepsLeft(o)
  <1> USE DEF Goto, Reply, process, handling, working, session
  <1>0. /\ stage \in [Owners -> Stages] /\ pc \in [Owners -> Labels]
        /\ worker \in [Owners -> WorkerLabels] /\ OwnerInv(o)
        /\ HandlerLeft(o) \in 0..14 /\ WorkerLeft(o) \in 0..7
    BY CountType DEF IInv, TypeOK
  <1>1. /\ Counted(o) /\ CountedOpen(o) /\ CountedWorker(o)
        /\ Counted(o)' /\ CountedOpen(o)' /\ CountedWorker(o)'
    BY Counts
  <1>2. ASSUME UNCHANGED worker, HandlerLeft(o)' < HandlerLeft(o), HandlerLeft(o)' \in Nat
        PROVE  StepsLeft(o)' < StepsLeft(o)
    <2>1. WorkerLeft(o)' = WorkerLeft(o)
      BY <1>2 DEF WorkerLeft
    <2> QED BY <1>0, <1>2, <2>1 DEF StepsLeft
  <1>3. CASE Authenticate(o)
    <2>1. pc[o] = "auth" /\ pc'[o] \in {"limit", "returned"} /\ UNCHANGED worker
      BY <1>0, <1>3 DEF Authenticate
    <2> QED BY <1>1, <1>2, <2>1 DEF Counted
  <1>4. CASE Limit(o)
    <2>1. pc[o] = "limit" /\ pc'[o] \in {"handler", "returned"} /\ UNCHANGED worker
      BY <1>0, <1>4 DEF Limit
    <2> QED BY <1>1, <1>2, <2>1 DEF Counted
  <1>5. CASE Handle(o)
    <2>1. pc[o] = "handler" /\ worker[o] = "none" /\ UNCHANGED stage
      BY <1>0, <1>5 DEF Handle, OwnerInv, WorkerInv
    <2>2. \/ pc'[o] = "returned" /\ worker'[o] = "none"
          \/ pc'[o] = "select" /\ worker'[o] \in {"authorize", "audit"}
          \/ pc'[o] \in {"authorize", "analyse"} /\ worker'[o] = "none"
      BY <1>0, <1>5, <2>1 DEF Handle
    <2> QED BY <1>1, <2>1, <2>2 DEF Counted, CountedWorker, StepsLeft
  <1>6. CASE AuthorizeQuery(o)
    <2>1. /\ pc[o] = "authorize" /\ pc'[o] \in {"open", "returned"} /\ UNCHANGED worker
      BY <1>0, <1>6 DEF AuthorizeQuery
    <2> QED BY <1>1, <1>2, <2>1 DEF Counted, CountedOpen
  <1>7. CASE Open(o)
    <2>1. pc[o] = "open" /\ UNCHANGED worker
      BY <1>7 DEF Open
    <2>2. \/ pc'[o] \in {"returned", "attach"}
          \/ pc'[o] = "open" /\ stage[o] = "none" /\ stage'[o] = "pool"
          \/ pc'[o] = "open" /\ stage[o] = "pool" /\ stage'[o] = "pinged"
          \/ pc'[o] = "open" /\ stage[o] = "pinged" /\ stage'[o] = "pinned"
      BY <1>0, <1>7 DEF Open, OpenDB, Ping, Pin
    <2>3. stage[o] = "pinged" /\ stage'[o] = "pinned" => OpenLeft(o)' = 1
      BY DEF OpenLeft
    <2> QED BY <1>1, <1>2, <2>1, <2>2, <2>3 DEF Counted, CountedOpen
  <1>8. CASE Attach(o)
    <2>1. pc[o] = "attach" /\ pc'[o] \in {"analyse", "close"} /\ UNCHANGED worker
      BY <1>0, <1>8 DEF Attach
    <2> QED BY <1>1, <1>2, <2>1 DEF Counted
  <1>9. CASE Begin(o)
    <2>1. pc[o] = "analyse" /\ pc'[o] \in {"analysing", "close", "returned"} /\ UNCHANGED worker
      BY <1>0, <1>9 DEF Begin, AfterAnalysis
    <2> QED BY <1>1, <1>2, <2>1 DEF Counted
  <1>10. CASE Analyse(o)
    <2>1. pc[o] = "analysing" /\ pc'[o] \in {"close", "returned"} /\ UNCHANGED worker
      BY <1>0, <1>10 DEF Analyse, AfterAnalysis
    <2> QED BY <1>1, <1>2, <2>1 DEF Counted
  <1>11. CASE Close(o)
    <2>1. /\ pc[o] = "close" /\ UNCHANGED worker
          /\ \/ pc'[o] = "close" /\ stage[o] = "open" /\ stage'[o] = "connClosed"
             \/ pc'[o] = "returned"
      BY <1>0, <1>11 DEF Close, CloseConn
    <2> QED BY <1>1, <1>2, <2>1 DEF Counted
  <1>12. CASE Select(o)
    <2>1. pc[o] = "select" /\ pc'[o] = "returned" /\ UNCHANGED worker
      BY <1>0, <1>12 DEF Select
    <2> QED BY <1>1, <1>2, <2>1 DEF Counted
  <1> QED
    BY <1>3, <1>4, <1>5, <1>6, <1>7, <1>8, <1>9, <1>10, <1>11, <1>12 DEF Handler

LEMMA WorkerAdvances ==
  ASSUME IInv, NEW o \in Owners, Worker(o)
  PROVE  StepsLeft(o)' < StepsLeft(o)
  <1> USE DEF WorkOn, process, handling, working, session, Closing, CleaningUp
  <1>0. /\ worker \in [Owners -> WorkerLabels]
        /\ HandlerLeft(o) \in 0..14 /\ WorkerLeft(o) \in 0..7
    BY CountType DEF IInv, TypeOK
  <1>1. CountedWorker(o) /\ CountedWorker(o)'
    BY Counts
  <1>2. UNCHANGED <<pc, stage>>
    BY DEF Worker, AuthorizeAudit, SnapshotPolicy, PrepareAudit, Audit, CloseClient,
       CleanupPolicy, Send
  <1>3. HandlerLeft(o)' = HandlerLeft(o)
    BY <1>2 DEF HandlerLeft, OpenLeft
  <1>4. \/ worker[o] = "authorize" /\ worker'[o] \in {"snapshot", "refused"}
        \/ worker[o] = "snapshot" /\ worker'[o] \in {"prepare", "failed"}
        \/ worker[o] = "prepare" /\ worker'[o] \in {"audit", "close_failed", "cleanup_failed"}
        \/ worker[o] = "audit" /\ worker'[o] \in {"close_ok", "close_failed", "ok", "failed"}
        \/ /\ worker[o] \in {"close_ok", "close_failed"}
           /\ worker'[o] \in {"cleanup_ok", "cleanup_failed"}
        \/ worker[o] \in {"cleanup_ok", "cleanup_failed"} /\ worker'[o] \in {"ok", "failed"}
        \/ worker[o] \in {"ok", "failed", "refused"} /\ worker'[o] = "done"
    BY <1>0 DEF Worker, AuthorizeAudit, SnapshotPolicy, PrepareAudit, Audit, CloseClient,
       CleanupPolicy, Send
  <1> QED BY <1>0, <1>1, <1>3, <1>4 DEF CountedWorker, StepsLeft

LEMMA EnvironmentNeverSetsBack ==
  ASSUME IInv, NEW o \in Owners, Environment(o)
  PROVE  StepsLeft(o)' <= StepsLeft(o)
  <1> USE DEF Goto, process, handling, working, session
  <1>0. /\ pc \in [Owners -> Labels] /\ HandlerLeft(o) \in 0..14 /\ WorkerLeft(o) \in 0..7
    BY CountType DEF IInv, TypeOK
  <1>1. Counted(o) /\ Counted(o)'
    BY Counts
  <1>2. UNCHANGED <<worker, stage>>
    BY DEF Environment, Arrive, HandlerPanics, WorkerPanics, ContextEnds
  <1>3. WorkerLeft(o)' = WorkerLeft(o)
    BY <1>2 DEF WorkerLeft
  <1>4. \/ pc'[o] = pc[o]
        \/ pc[o] = "idle" /\ pc'[o] = "auth"
        \/ pc[o] \in {"attach", "analyse", "analysing"} /\ pc'[o] \in {"close", "returned"}
    BY <1>0 DEF Environment, Arrive, HandlerPanics, WorkerPanics, ContextEnds, AfterAnalysis
  <1>5. pc'[o] = pc[o] => HandlerLeft(o)' = HandlerLeft(o)
    BY <1>2 DEF HandlerLeft, OpenLeft
  <1>6. HandlerLeft(o)' <= HandlerLeft(o) /\ HandlerLeft(o)' \in Nat
    BY <1>0, <1>1, <1>4, <1>5 DEF Counted
  <1> QED BY <1>0, <1>3, <1>6 DEF StepsLeft

\* A step of another request, or of the process, leaves what p has to do as it is.
LEMMA UnmovedCount ==
  ASSUME NEW p \in Owners, pc'[p] = pc[p], stage'[p] = stage[p], worker'[p] = worker[p]
  PROVE  StepsLeft(p)' = StepsLeft(p)
  BY DEF StepsLeft, HandlerLeft, OpenLeft, WorkerLeft

LEMMA EveryStepAdvances ==
  ASSUME IInv, [Next]_vars, NEW p \in Owners
  PROVE  /\ StepsLeft(p)' <= StepsLeft(p)
         /\ Handler(p) \/ Worker(p) => StepsLeft(p)' < StepsLeft(p)
  <1>0. StepsLeft(p) \in Nat
    BY CountType DEF StepsLeft
  <1>1. CASE Handler(p) \/ Worker(p)
    <2>1. StepsLeft(p)' < StepsLeft(p)
      BY <1>1, HandlerAdvances, WorkerAdvances
    <2>2. StepsLeft(p)' \in Nat
      <3>1. IInv'
        BY NextInv
      <3>2. HandlerLeft(p)' \in 0..14 /\ WorkerLeft(p)' \in 0..7
        BY <3>1, Counts DEF IInv, TypeOK, Labels, Counted, CountedOpen, CountedWorker
      <3> QED BY <3>2 DEF StepsLeft
    <2> QED BY <1>0, <2>1, <2>2
  <1>2. CASE ~(Handler(p) \/ Worker(p))
    <2>1. CASE Environment(p)
      BY <1>2, <2>1, EnvironmentNeverSetsBack
    <2>2. CASE \/ Start \/ Signal \/ Drained \/ DrainTimeout \/ ListenFails \/ UNCHANGED vars
      <3>1. UNCHANGED <<pc, stage, worker>>
        BY <2>2 DEF Start, Signal, Drained, DrainTimeout, ListenFails, vars, session, handling,
           working
      <3>2. StepsLeft(p)' = StepsLeft(p)
        BY <3>1, UnmovedCount
      <3> QED BY <1>0, <1>2, <3>2
    <2>3. ASSUME NEW o \in Owners, o # p, Handler(o) \/ Worker(o) \/ Environment(o)
          PROVE  StepsLeft(p)' <= StepsLeft(p)
      <3>1. pc'[p] = pc[p] /\ stage'[p] = stage[p] /\ worker'[p] = worker[p]
        BY <2>3, HandlerAlone, WorkerAlone, EnvironmentAlone DEF Others, Unmoved
      <3>2. StepsLeft(p)' = StepsLeft(p)
        BY <3>1, UnmovedCount
      <3> QED BY <1>0, <3>2
    <2> QED BY <1>2, <2>1, <2>2, <2>3 DEF Next
  <1> QED BY <1>1, <1>2

LEMMA CountStart == Init => \A o \in Owners : StepsLeft(o) \in 0..14
  <1> SUFFICES ASSUME Init, NEW o \in Owners PROVE StepsLeft(o) \in 0..14
    OBVIOUS
  <1>1. HandlerLeft(o) = 14 /\ WorkerLeft(o) = 0
    BY Counts DEF Init, Counted, CountedWorker
  <1> QED BY <1>1 DEF StepsLeft

(* A request takes at most 14 steps of its handler and of the goroutine of its  *)
(* audit together, however many others are handled, and whatever times out,      *)
(* panics or stops meanwhile: there is no retry and no loop in either, so what   *)
(* TLC adds in WorkersEnd and ShutdownEnds is that none of them waits for ever.  *)
THEOREM RequestsBounded ==
  Spec => [](\A o \in Owners : StepsLeft(o) \in 0..14) /\ RequestsAdvance
  <1>1. Init => \A o \in Owners : StepsLeft(o) \in 0..14
    BY CountStart
  <1>2. IInv /\ (\A o \in Owners : StepsLeft(o) \in 0..14) /\ [Next]_vars =>
          (\A o \in Owners : StepsLeft(o) \in 0..14)'
    <2> SUFFICES ASSUME IInv, \A o \in Owners : StepsLeft(o) \in 0..14, [Next]_vars,
                        NEW o \in Owners
                 PROVE  StepsLeft(o)' \in 0..14
      OBVIOUS
    <2>1. StepsLeft(o)' <= StepsLeft(o) /\ StepsLeft(o) \in 0..14
      BY EveryStepAdvances
    <2>2. HandlerLeft(o)' \in 0..14 /\ WorkerLeft(o)' \in 0..7
      <3>1. IInv'
        BY NextInv
      <3> QED BY <3>1, Counts DEF IInv, TypeOK, Labels, Counted, CountedOpen, CountedWorker
    <2> QED BY <2>1, <2>2 DEF StepsLeft
  <1>3. IInv /\ [Next]_vars =>
          [\A o \in Owners :
             /\ StepsLeft(o)' <= StepsLeft(o)
             /\ Handler(o) \/ Worker(o) => StepsLeft(o)' < StepsLeft(o)]_vars
    BY EveryStepAdvances
  <1> QED BY <1>1, <1>2, <1>3, Invariance, PTL DEF Spec, RequestsAdvance

=============================================================================
