----------------------------- MODULE HttpServer -----------------------------
(***************************************************************************)
(* The HTTP server around the two analyses, from the start of the process  *)
(* to its exit.  A query-access request opens its session, analyses and    *)
(* closes in the handler's own goroutine.  An audit runs in a goroutine of *)
(* its own that the handler waits for until its context is over.           *)
(*                                                                         *)
(* The environment: contexts end by the request's timeout or because the   *)
(* client leaves, either goroutine may panic in the analysis it runs, a    *)
(* signal asks the process to stop, the drain's own deadline passes,       *)
(* databases answer or fail.  What the analyses do between opening and     *)
(* closing is the subject of MetadataAudit, QueryAccess and EffectProof;   *)
(* here they end in a result, an error or a panic.                         *)
(***************************************************************************)
EXTENDS OnlineSession, RuntimeRegistry

CONSTANTS Configs,         \* runtime configurations the process is started with
          Workloads,       \* what the clients ask, one request each
          Servers,         \* what the server at each connection answers to VERSION()
          Linked,          \* targets this build can analyse
          NoConnection, NoSecret, NoPrincipal

ASSUME ServersAssumption ==
  /\ \A c \in Configs : \A i \in DOMAIN c.connections : c.connections[i].id \in DOMAIN Servers
  /\ \A id \in DOMAIN Servers :
       /\ Servers[id].product \in Products
       /\ Servers[id].version \in Series(Servers[id].product) \cup {"other", "unreadable"}

VARIABLES config, server,   \* the registry; the process
          request,          \* of each owner: what the client asked
          pc,               \* the handler
          principal,        \* set by the authentication middleware
          context,          \* r.Context()
          answer,           \* the status written, 0 before
          worker,           \* the goroutine of an audit
          client,           \* the metadata client it has opened; leaked: held by nobody
          file,             \* the copy of the policy it reads
          result            \* the channel of capacity 1 it answers in

process == <<config, server>>
handling == <<request, pc, principal, context, answer>>
working == <<worker, client, file, result>>
vars == <<session, process, handling, working>>

Up == server \in {"serving", "draining"}
Exited == server \in {"exit0", "exit2", "exit3", "crashed"}
Returned(o) == pc[o] \in {"idle", "returned"}
Alive(o) == context[o] = "live"

Init ==
  /\ SessionInit
  /\ config \in Configs /\ server = "starting"
  /\ request \in Workloads
  /\ pc = [o \in Owners |-> "idle"] /\ principal = [o \in Owners |-> NoPrincipal]
  /\ context = [o \in Owners |-> "live"] /\ answer = [o \in Owners |-> 0]
  /\ worker = [o \in Owners |-> "none"] /\ client = [o \in Owners |-> "none"]
  /\ file = [o \in Owners |-> "none"] /\ result = [o \in Owners |-> "none"]

----------------------------------------------------------------------------
(* The process: main of deltascope-server. *)

Start ==
  /\ server = "starting"
  /\ \/ server' = "exit2"               \* a flag, the logger or the policy is refused
     \/ ValidConfig(config) /\ server' = "serving"
  /\ UNCHANGED <<session, config, handling, working>>

Signal ==
  /\ server = "serving"
  /\ server' = "draining"
  /\ UNCHANGED <<session, config, handling, working>>

(* http.Server.Shutdown returns when no connection is in a handler, or with  *)
(* the error of its context.                                                 *)
BugExitsAtOnce ==
  /\ server = "draining"
  /\ server' = "exit0"
  /\ UNCHANGED <<session, config, handling, working>>

Drained ==
  /\ server = "draining"
  /\ \A o \in Owners : Returned(o)
  /\ server' = "exit0"
  /\ UNCHANGED <<session, config, handling, working>>

DrainTimeout ==
  /\ server = "draining"
  /\ \E o \in Owners : ~Returned(o)
  /\ server' = "exit3"
  /\ UNCHANGED <<session, config, handling, working>>

ListenFails ==
  /\ server = "serving"
  /\ server' = "exit3"
  /\ UNCHANGED <<session, config, handling, working>>

(* The request's timeout, or the client is gone. *)
ContextEnds(o, why) ==
  /\ Up /\ context[o] = "live" /\ ~Returned(o)
  /\ context' = [context EXCEPT ![o] = why]
  /\ UNCHANGED <<session, process, request, pc, principal, answer, working>>

----------------------------------------------------------------------------
(* The middlewares. *)

Goto(o, label) == pc' = [pc EXCEPT ![o] = label]

Reply(o, status) ==
  /\ answer' = [answer EXCEPT ![o] = status]
  /\ Goto(o, "returned")

Arrive(o) ==
  /\ server = "serving" /\ pc[o] = "idle"
  /\ Goto(o, "auth")
  /\ UNCHANGED <<session, process, request, principal, context, answer, working>>

Public(o) == request[o].path = "health"

AuthOpen(o) == Public(o) \/ ~config.auth

(* registryAuthMiddleware *)
Authenticate(o) ==
  /\ Up /\ pc[o] = "auth"
  /\ \/ /\ AuthOpen(o)
        /\ Goto(o, "limit")
        /\ UNCHANGED <<principal, answer>>
     \/ /\ ~AuthOpen(o)
        /\ \E k \in ResolveAPIKey(config, request[o].secret) :
             principal' = [principal EXCEPT ![o] = k]
        /\ request[o].secret # NoSecret
        /\ Goto(o, "limit")
        /\ UNCHANGED answer
     \/ /\ ~AuthOpen(o) /\ request[o].secret = NoSecret
        /\ Reply(o, 401)
        /\ UNCHANGED principal
     \/ /\ ~AuthOpen(o) /\ request[o].secret # NoSecret
        /\ ResolveAPIKey(config, request[o].secret) = {}
        /\ Reply(o, 403)
        /\ UNCHANGED principal
  /\ UNCHANGED <<session, process, request, context, working>>

(* rateLimitMiddleware: LimiterStore says when a token is granted. *)
Limit(o) ==
  /\ Up /\ pc[o] = "limit"
  /\ \/ Goto(o, "handler") /\ UNCHANGED answer
     \/ ~Public(o) /\ Reply(o, 429)
  /\ UNCHANGED <<session, process, request, principal, context, working>>

Online(o) == request[o].connection # NoConnection

(* The routes, up to the point where an analysis is needed. *)
Handle(o) ==
  /\ Up /\ pc[o] = "handler"
  /\ \/ /\ Public(o)
        /\ Reply(o, 200)
        /\ UNCHANGED working
     \/ /\ ~Public(o)                     \* a body that is refused
        /\ Reply(o, 400)
        /\ UNCHANGED working
     \/ /\ request[o].path = "audit"
        /\ Goto(o, "select")
        /\ worker' = [worker EXCEPT ![o] = IF Online(o) THEN "authorize" ELSE "audit"]
        /\ UNCHANGED <<answer, client, file, result>>
     \/ /\ request[o].path = "query_access"
        /\ Goto(o, IF Online(o) THEN "authorize" ELSE "analyse")
        /\ UNCHANGED <<answer, working>>
  /\ UNCHANGED <<session, process, request, principal, context>>

Permission(o) ==
  Authorize(config, principal[o], request[o].connection, request[o].path)

----------------------------------------------------------------------------
(* handleQueryAccess and handleQueryAccessOnline. *)

AuthorizeQuery(o) ==
  /\ Up /\ pc[o] = "authorize"
  /\ \/ Permission(o) = "ok" /\ Goto(o, "open") /\ UNCHANGED answer
     \/ Permission(o) = "ok" /\ Reply(o, 400)  \* its schema contradicts the connection's
     \/ Permission(o) = "not_found" /\ Reply(o, 404)
     \/ Permission(o) \notin {"ok", "not_found"} /\ Reply(o, 403)
  /\ UNCHANGED <<session, process, request, principal, context, working>>

Raw(o) == Servers[request[o].connection]
Expected(o) == Connection(config, request[o].connection).dialect

(* The driver reports its own connect timeout, or the end of the context.      *)
ConnectionErrors(o) == {502, 504} \cup (IF context[o] = "cancelled" THEN {499} ELSE {})

(* One step of OpenSession; an error of it is the answer. *)
Open(o) ==
  /\ Up /\ pc[o] = "open"
  /\ \/ OpenDB(o) /\ UNCHANGED <<pc, answer>>
     \/ Ping(o, Alive(o)) /\ UNCHANGED <<pc, answer>>
     \/ Pin(o, Alive(o)) /\ UNCHANGED <<pc, answer>>
     \/ ConfigFails(o) /\ Reply(o, 500)
     \/ ConnectFails(o) /\ \E status \in ConnectionErrors(o) : Reply(o, status)
     \/ Identify(o, Alive(o), Raw(o), Expected(o)) /\ Goto(o, "attach") /\ UNCHANGED answer
     \/ IdentifyFails(o)                               \* the query itself fails
        /\ Reply(o, 502)
     \/ /\ Alive(o)
        /\ ParseServerIdentity(Raw(o), Expected(o)).error = "mismatch"
        /\ IdentifyFails(o) /\ Reply(o, 400)
     \/ /\ Alive(o)
        /\ ParseServerIdentity(Raw(o), Expected(o)).error \notin {"none", "mismatch"}
        /\ IdentifyFails(o) /\ Reply(o, 502)
  /\ UNCHANGED <<process, request, principal, context, working>>

(* What the handler has deferred, if it has a session. *)
AfterAnalysis(o) == IF stage[o] = "open" THEN "close" ELSE "returned"

Attach(o) ==
  /\ Up /\ pc[o] = "attach"
  /\ \/ target[o] \in Linked /\ Goto(o, "analyse") /\ UNCHANGED answer
     \/ /\ target[o] \notin Linked
        /\ answer' = [answer EXCEPT ![o] = 502]
        /\ Goto(o, "close")
  /\ UNCHANGED <<session, process, request, principal, context, working>>

(* Service.Analyze looks at the context once, when it begins.  Later it does   *)
(* not fail for the end of it: what it could not look up is part of its        *)
(* result.                                                                     *)
Begin(o) ==
  /\ Up /\ pc[o] = "analyse"
  /\ \/ Alive(o) /\ Goto(o, "analysing") /\ UNCHANGED answer
     \/ /\ ~Alive(o)
        /\ answer' = [answer EXCEPT ![o] = IF context[o] = "expired" THEN 504 ELSE 408]
        /\ Goto(o, AfterAnalysis(o))
  /\ UNCHANGED <<session, process, request, principal, context, working>>

Analyse(o) ==
  /\ Up /\ pc[o] = "analysing"
  /\ \E status \in {200, 400} : answer' = [answer EXCEPT ![o] = status]
  /\ Goto(o, AfterAnalysis(o))
  /\ UNCHANGED <<session, process, request, principal, context, working>>

(* A panic unwinds the deferred Close, then the recovery middleware answers.   *)
BugCloseNotDeferred(o) ==
  /\ Up /\ pc[o] \in {"attach", "analyse", "analysing"}
  /\ answer' = [answer EXCEPT ![o] = 500]
  /\ Goto(o, "returned")
  /\ UNCHANGED <<session, process, request, principal, context, working>>

HandlerPanics(o) ==
  /\ Up /\ pc[o] \in {"attach", "analyse", "analysing"}
  /\ answer' = [answer EXCEPT ![o] = 500]
  /\ Goto(o, AfterAnalysis(o))
  /\ UNCHANGED <<session, process, request, principal, context, working>>

(* The deferred session.Close. *)
Close(o) ==
  /\ Up /\ pc[o] = "close"
  /\ \/ CloseConn(o) /\ UNCHANGED pc
     \/ CloseDB(o) /\ Goto(o, "returned")
  /\ UNCHANGED <<process, request, principal, context, answer, working>>

----------------------------------------------------------------------------
(* executeAuditRequest in its goroutine.  Its deferred calls run before the    *)
(* result is sent: the client is closed, then the policy copy removed.         *)

WorkOn(o, label) == worker' = [worker EXCEPT ![o] = label]

Closing == [ok |-> "close_ok", failed |-> "close_failed"]
CleaningUp == [ok |-> "cleanup_ok", failed |-> "cleanup_failed"]

Outcome(o, out) == result' = [result EXCEPT ![o] = out]

AuthorizeAudit(o) ==
  /\ Up /\ worker[o] = "authorize"
  /\ IF Permission(o) = "ok" THEN WorkOn(o, "snapshot") ELSE WorkOn(o, "refused")
  /\ UNCHANGED <<session, process, handling, client, file, result>>

(* snapshotHTTPPolicy; without a policy file there is nothing to copy, and a   *)
(* copy that cannot be written or read as a policy is removed.                 *)
SnapshotPolicy(o) ==
  /\ Up /\ worker[o] = "snapshot"
  /\ \/ WorkOn(o, "prepare") /\ file' = [file EXCEPT ![o] = "present"]
     \/ WorkOn(o, "prepare") /\ UNCHANGED file
     \/ WorkOn(o, "failed") /\ UNCHANGED file
  /\ UNCHANGED <<session, process, handling, client, result>>

(* auditmeta.Prepare, which MetadataAudit models: a client, or an error.  One   *)
(* that comes after the dialect is known closes the client it has opened; with  *)
(* the dialect given, as it is here, a dialect query that fails does not, and   *)
(* nobody is left who could.                                                    *)
BugFailureKeepsClient(o) ==
  /\ Up /\ worker[o] = "prepare"
  /\ \/ /\ Alive(o)
        /\ WorkOn(o, "audit") \/ WorkOn(o, "cleanup_failed")
        /\ client' = [client EXCEPT ![o] = "open"]
     \/ WorkOn(o, "cleanup_failed") /\ UNCHANGED client
  /\ UNCHANGED <<session, process, handling, file, result>>

PrepareAudit(o) ==
  /\ Up /\ worker[o] = "prepare"
  /\ \/ /\ Alive(o)
        /\ WorkOn(o, "audit") \/ WorkOn(o, "close_failed")
        /\ client' = [client EXCEPT ![o] = "open"]
     \/ /\ Alive(o)
        /\ WorkOn(o, "cleanup_failed")
        /\ client' = [client EXCEPT ![o] = "leaked"]
     \/ WorkOn(o, "cleanup_failed") /\ UNCHANGED client
  /\ UNCHANGED <<session, process, handling, file, result>>

Audit(o) ==
  /\ Up /\ worker[o] = "audit"
  /\ \E out \in {"ok", "failed"} :
       WorkOn(o, IF client[o] = "open" THEN Closing[out] ELSE out)
  /\ UNCHANGED <<session, process, handling, client, file, result>>

CloseClient(o) ==
  /\ Up
  /\ \E out \in {"ok", "failed"} :
       worker[o] = Closing[out] /\ WorkOn(o, CleaningUp[out])
  /\ client' = [client EXCEPT ![o] = "closed"]
  /\ UNCHANGED <<session, process, handling, file, result>>



CleanupPolicy(o) ==
  /\ Up
  /\ \E out \in {"ok", "failed"} :
       worker[o] = CleaningUp[out] /\ WorkOn(o, out)
  /\ file' = [file EXCEPT ![o] = IF @ = "present" THEN "removed" ELSE @]
  /\ UNCHANGED <<session, process, handling, client, result>>

(* resultChan <- ...: never blocks, whether or not the handler still waits. *)
BugUnbuffered(o) ==
  /\ Up /\ worker[o] \in {"ok", "failed", "refused"} /\ pc[o] = "select"
  /\ WorkOn(o, "done")
  /\ Outcome(o, worker[o])
  /\ UNCHANGED <<session, process, handling, client, file>>

Send(o) ==
  /\ Up /\ worker[o] \in {"ok", "failed", "refused"}
  /\ WorkOn(o, "done")
  /\ Outcome(o, worker[o])
  /\ UNCHANGED <<session, process, handling, client, file>>

(* Nothing recovers a panic of this goroutine: the process ends. *)
WorkerPanics(o) ==
  /\ Up /\ worker[o] \in {"prepare", "audit"}
  /\ server' = "crashed"
  /\ UNCHANGED <<session, config, handling, working>>

(* mapAuditError of what the goroutine has sent. *)
ResultStatuses(o) ==
  CASE result[o] = "ok" -> {200}
    [] result[o] = "failed" -> {400, 499, 500, 502, 504}
    [] result[o] = "refused" -> {IF Permission(o) = "not_found" THEN 404 ELSE 403}
    [] OTHER -> {}

(* The handler's select: either case, when both are ready. *)
BugWaitsForSuccess(o) ==
  /\ Up /\ pc[o] = "select"
  /\ \/ result[o] = "ok" /\ Reply(o, 200)
     \/ ~Alive(o) /\ Reply(o, IF context[o] = "expired" THEN 504 ELSE 499)
  /\ UNCHANGED <<session, process, request, principal, context, working>>

BugLateResultWritten(o) ==
  /\ Up /\ pc[o] \in {"select", "returned"}
  /\ \/ \E status \in ResultStatuses(o) : Reply(o, status)
     \/ pc[o] = "select" /\ ~Alive(o) /\ Reply(o, IF context[o] = "expired" THEN 504 ELSE 499)
  /\ UNCHANGED <<session, process, request, principal, context, working>>

Select(o) ==
  /\ Up /\ pc[o] = "select"
  /\ \/ \E status \in ResultStatuses(o) : Reply(o, status)
     \/ ~Alive(o) /\ Reply(o, IF context[o] = "expired" THEN 504 ELSE 499)
  /\ UNCHANGED <<session, process, request, principal, context, working>>

----------------------------------------------------------------------------
Handler(o) ==
  \/ Authenticate(o) \/ Limit(o) \/ Handle(o) \/ AuthorizeQuery(o) \/ Open(o)
  \/ Attach(o) \/ Begin(o) \/ Analyse(o) \/ Close(o) \/ Select(o)

Worker(o) ==
  \/ AuthorizeAudit(o) \/ SnapshotPolicy(o) \/ PrepareAudit(o) \/ Audit(o)
  \/ CloseClient(o) \/ CleanupPolicy(o) \/ Send(o)

Environment(o) ==
  \/ Arrive(o) \/ HandlerPanics(o) \/ WorkerPanics(o)
  \/ \E why \in {"expired", "cancelled"} : ContextEnds(o, why)

Next ==
  \/ Start \/ Signal \/ Drained \/ DrainTimeout \/ ListenFails
  \/ \E o \in Owners : Handler(o) \/ Worker(o) \/ Environment(o)

(* Every goroutine is scheduled, each query returns or fails, the process is   *)
(* started, and Shutdown looks again until its deadline.                       *)
Spec ==
  /\ Init /\ [][Next]_vars
  /\ WF_vars(Start) /\ WF_vars(Drained)
  /\ \A o \in Owners : WF_vars(Handler(o)) /\ WF_vars(Worker(o))

----------------------------------------------------------------------------
(* Properties. *)

Labels == {"idle", "auth", "limit", "handler", "authorize", "open", "attach", "analyse",
           "analysing", "close", "select", "returned"}
WorkerLabels == {"none", "authorize", "snapshot", "prepare", "audit", "close_ok",
                 "close_failed", "cleanup_ok", "cleanup_failed", "ok", "failed", "refused",
                 "done"}
Statuses == {0, 200, 400, 401, 403, 404, 408, 429, 499, 500, 502, 504}

KeyIds == UNION {{c.keys[i].id : i \in DOMAIN c.keys} : c \in Configs}

TypeOK ==
  /\ config \in Configs
  /\ server \in {"starting", "serving", "draining", "exit0", "exit2", "exit3", "crashed"}
  /\ request \in Workloads
  /\ stage \in [Owners -> Stages]
  /\ pool \in [Owners -> {"none", "open", "closed"}]
  /\ conn \in [Owners -> {"none", "pinned", "returned"}]
  /\ target \in [Owners -> Versions \cup {NoTarget}]
  /\ pc \in [Owners -> Labels] /\ context \in [Owners -> {"live", "expired", "cancelled"}]
  /\ principal \in [Owners -> KeyIds \cup {NoPrincipal}]
  /\ answer \in [Owners -> Statuses] /\ worker \in [Owners -> WorkerLabels]
  /\ client \in [Owners -> {"none", "open", "closed", "leaked"}]
  /\ file \in [Owners -> {"none", "present", "removed"}]
  /\ result \in [Owners -> {"none", "ok", "failed", "refused"}]

(* Whatever failed, timed out, was refused or panicked while a query-access    *)
(* request was handled, when its handler returns the session it opened has     *)
(* given back its connection and closed its pool.                              *)
HandlerReleases == \A o \in Owners : pc[o] = "returned" => Released(o)

(* An audit's goroutine, which outlives its handler when the request times out *)
(* or is abandoned, ends with its result sent, its copy of the policy removed  *)
(* and the client it was given closed.  The one client that stays open is that *)
(* of a dialect query that failed (prepare.go:293), and it is never behind a   *)
(* success or a refusal.                                                       *)
WorkerCleansUp ==
  \A o \in Owners : worker[o] = "done" =>
    /\ result[o] # "none" /\ file[o] # "present" /\ client[o] # "open"
    /\ client[o] = "leaked" => result[o] = "failed"

(* A database is contacted, and the policy copied, only for a connection the   *)
(* registry has, for a purpose it lists, and, where authentication is on, for  *)
(* a client that presented the secret of a key the connection allows.          *)
Permitted(o) ==
  \E i \in DOMAIN config.connections :
    LET c == config.connections[i] IN
    /\ c.id = request[o].connection
    /\ Listed(c.purposes, request[o].path)
    /\ config.auth =>
         \E k \in DOMAIN config.keys :
           config.keys[k].secret = request[o].secret /\ Listed(c.allowed, config.keys[k].id)

AccessPermitted ==
  \A o \in Owners :
    pool[o] # "none" \/ client[o] # "none" \/ file[o] # "none" => Permitted(o)

(* A session that is open is routed to the analysis of the dialect its         *)
(* connection is configured for, and of the product that answered; but a TiDB  *)
(* whose own version cannot be read passes for a MySQL.                        *)
SessionOfItsServer ==
  \A o \in Owners : stage[o] = "open" =>
    /\ DialectOf(target[o]) = Expected(o)
    /\ \/ Raw(o).product = Expected(o) /\ Raw(o).version = target[o]
       \/ /\ Raw(o).product = "tidb" /\ Raw(o).version = "unreadable"
          /\ Expected(o) = "mysql"

(* A process that reports a clean exit has let every request it accepted be    *)
(* answered and release its session.                                           *)
CleanExitDrained ==
  server = "exit0" => \A o \in Owners :
    Returned(o) /\ Released(o) /\ (pc[o] = "returned" => answer[o] # 0)

(* The goroutine of an audit ends, also when nobody waits for it any more. *)
WorkersEnd ==
  \A o \in Owners : (worker[o] # "none") ~> (worker[o] = "done" \/ Exited)

(* A process asked to stop stops, though no request need time out: every       *)
(* handler returns.                                                            *)
ShutdownEnds == (server = "draining") ~> Exited

(* What a request still has to do, in its handler and, for an audit, in the     *)
(* goroutine of it.                                                             *)
OpenLeft(o) ==
  CASE stage[o] = "none" -> 4 [] stage[o] = "pool" -> 3 [] stage[o] = "pinged" -> 2 [] OTHER -> 1

HandlerLeft(o) ==
  CASE pc[o] = "idle"      -> 14
    [] pc[o] = "auth"      -> 13
    [] pc[o] = "limit"     -> 12
    [] pc[o] = "handler"   -> 11
    [] pc[o] = "authorize" -> 10
    [] pc[o] = "open"      -> 5 + OpenLeft(o)
    [] pc[o] = "attach"    -> 5
    [] pc[o] = "analyse"   -> 4
    [] pc[o] = "analysing" -> 3
    [] pc[o] = "close"     -> IF stage[o] = "open" THEN 2 ELSE 1
    [] pc[o] = "select"    -> 1
    [] pc[o] = "returned"  -> 0

WorkerLeft(o) ==
  CASE worker[o] = "authorize"                          -> 7
    [] worker[o] = "snapshot"                           -> 6
    [] worker[o] = "prepare"                            -> 5
    [] worker[o] = "audit"                              -> 4
    [] worker[o] \in {"close_ok", "close_failed"}       -> 3
    [] worker[o] \in {"cleanup_ok", "cleanup_failed"}   -> 2
    [] worker[o] \in {"ok", "failed", "refused"}        -> 1
    [] OTHER                                            -> 0

StepsLeft(o) == HandlerLeft(o) + WorkerLeft(o)

(* Each step of a handler, or of the goroutine of an audit, leaves less to do;  *)
(* no timeout, panic, signal or other request sets it back, or gives it more.   *)
RequestsAdvance ==
  [][\A o \in Owners :
       /\ StepsLeft(o)' <= StepsLeft(o)
       /\ Handler(o) \/ Worker(o) => StepsLeft(o)' < StepsLeft(o)]_vars

----------------------------------------------------------------------------
(* What the server promises its clients. *)

ProcessPhase ==
  CASE server = "exit0" -> "clean"
    [] server \in {"exit2", "exit3", "crashed"} -> "gone"
    [] OTHER -> server

RequestPhase(o) ==
  CASE pc[o] = "idle" -> "waiting"
    [] pc[o] = "returned" -> "returned"
    [] OTHER -> "handled"

(* What is opened for a request; a session holds a pool and a connection of it. *)
Thing(o, t) ==
  CASE t = "session" -> IF conn[o] = "pinned" THEN "open" ELSE pool[o]
    [] t = "client" -> IF client[o] = "leaked" THEN "open" ELSE client[o]
    [] OTHER -> CASE file[o] = "present" -> "open"
                  [] file[o] = "removed" -> "closed"
                  [] OTHER -> "none"

PermittedRequests == {o \in Owners : Permitted(o)}
Phases == [o \in Owners |-> RequestPhase(o)]
Opened == [p \in Owners \X {"session", "client", "copy"} |-> Thing(p[1], p[2])]

Contract == INSTANCE RequestContract WITH
  Requests  <- Owners,
  Statuses  <- Statuses \ {0},
  process   <- ProcessPhase,
  permitted <- PermittedRequests,
  phase     <- Phases,
  answer    <- answer,
  things    <- Opened

(* However handlers, goroutines, timeouts, panics and a signal interleave: a    *)
(* request is answered once and by its own handler, what is opened for it is    *)
(* opened with permission and given back at most once, a session always before  *)
(* its handler returns, one that is turned away has opened nothing and its      *)
(* goroutine opens nothing later, and no handler is left by a clean exit        *)
(* (handler.go:605, query_access.go:178, main.go:142).                          *)
ImplementsRequestContract == Contract!ContractSpec
=============================================================================
