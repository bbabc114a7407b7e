------------------------------ MODULE EffectProof ------------------------------
(***************************************************************************)
(* The PostgreSQL effect proof of one query access session, statement      *)
(* after statement: resolveAndProveEffects (service.go) calling            *)
(* ResolveColumnTypesAndEffectIdentities (effect_identity_resolver.go) on  *)
(* a pinned connection, while other sessions run DDL, the session's own    *)
(* role and search_path drift, a pooler swaps the backend, and any catalog *)
(* query may fail.                                                         *)
(*                                                                         *)
(* The proof captures the session, opens a REPEATABLE READ transaction,    *)
(* captures the session again, reads the type of every operand column and  *)
(* the identity of every effect, captures the session a third time,        *)
(* commits, and lets the application validate the batch.                   *)
(***************************************************************************)
EXTENDS EffectIdentity, FiniteSets

CONSTANTS
  N,           \* number of effect candidates of a statement
  Shapes,      \* the candidates a statement may have
  Paths,       \* search paths a session may have
  Sessions0,   \* sessions it may start with
  Catalogs0,   \* catalogs the system may start with
  UserRoutines, \* the routines DDL may create, replace or drop
  UserBodies,  \* what it may put behind them
  LiteralType, \* the type of the literal 1 in COUNT(1)
  Coercible,   \* of each type, the others an implicit cast takes it to
  MaxDDL,      \* bound: catalog changes per behaviour
  MaxDrift,    \* bound: session changes per behaviour
  MaxRounds    \* bound: statements analysed on the session

Candidates == 1..N

\* A catalog: the type of each candidate's operand column (NoType when there is
\* no such column) and the object behind each symbol, schema and argument type.
Catalog == [column  : [Candidates -> Types \cup {NoType}],
            routine : [Symbols \X Namespaces \X ArgTypes -> Bodies \cup {NoBody}]]

ASSUME EffectProofAssumption ==
  /\ N \in Nat \ {0}
  /\ Shapes \subseteq Candidate
  /\ Paths \subseteq Seq(Namespaces)
  /\ Catalogs0 \subseteq Catalog
  /\ Sessions0 \subseteq [ident : Idents, path : Paths]
  /\ UserRoutines \subseteq Symbols \X Namespaces \X ArgTypes
  /\ UserBodies \subseteq Bodies
  /\ LiteralType \in Types
  /\ Coercible \in [Types -> SUBSET Types]
  /\ MaxDDL \in Nat /\ MaxDrift \in Nat /\ MaxRounds \in Nat

VARIABLES
  catalog,    \* the committed catalog
  ddl,        \* catalog changes so far
  session,    \* what the connection would report now: identity and search_path
  drift,      \* session changes so far
  inTx,       \* a transaction is open on the connection
  snapshot,   \* the catalog that transaction reads, NoSnapshot before its first query
  pc,         \* the proof's next step
  next,       \* the candidate the two lookup loops are at
  cands,      \* the statement's effect candidates
  initialCtx, \* captured before the transaction
  live1,      \* captured first in the transaction
  finalCtx,   \* captured last in the transaction, as returned to the application
  types,      \* operand types read in the transaction
  items,      \* the identity batch
  decision,   \* what the trust policy decides
  round,      \* statements analysed before this one
  versions,   \* history: the catalogs committed since this proof began
  sessions,   \* history: the states of the session since this proof began
  faulted     \* history: a query of this proof failed

dbVars   == <<catalog, ddl, versions>>
sessVars == <<session, drift, sessions>>
txVars   == <<inTx, snapshot>>
ctxVars  == <<initialCtx, live1, finalCtx>>
vars == <<dbVars, sessVars, txVars, ctxVars, pc, next, cands, types, items,
          decision, round, faulted>>

NoSnapshot == [column  |-> [c \in Candidates |-> NoType],
               routine |-> [k \in Symbols \X Namespaces \X ArgTypes |-> NoBody]]

Session == [ident : Idents, path : Paths]

Steps == {"begin", "beginTx", "live1", "types", "identities", "live2", "commit",
          "decide", "done"}

Decisions == {"none", "allProven", "hasUnproven", "hasUnknown"}

NoTypes    == [o \in Candidates |-> NoType]
AllUnavail == [o \in Candidates |-> Unavailable]

TypeOK ==
  /\ catalog \in Catalog /\ snapshot \in Catalog /\ versions \subseteq Catalog
  /\ session \in Session /\ sessions \subseteq Session
  /\ ddl \in 0..MaxDDL /\ drift \in 0..MaxDrift /\ round \in 0..MaxRounds
  /\ inTx \in BOOLEAN /\ faulted \in BOOLEAN
  /\ pc \in Steps /\ next \in 1..(N + 1)
  /\ cands \in [Candidates -> Shapes]
  /\ initialCtx \in Context /\ live1 \in Context /\ finalCtx \in Context
  /\ types \in [Candidates -> Types \cup {NoType}]
  /\ items \in [Candidates -> Item]
  /\ decision \in Decisions

Init ==
  /\ catalog \in Catalogs0 /\ versions = {catalog} /\ ddl = 0
  /\ session \in Sessions0 /\ sessions = {session} /\ drift = 0
  /\ inTx = FALSE /\ snapshot = NoSnapshot
  /\ initialCtx = NoContext /\ live1 = NoContext /\ finalCtx = NoContext
  /\ pc = "begin" /\ next = 1
  /\ cands \in [Candidates -> Shapes]
  /\ types = NoTypes /\ items = AllUnavail
  /\ decision = "none" /\ round = 0 /\ faulted = FALSE

-----------------------------------------------------------------------------
(* The environment.                                                        *)

\* History of one proof: what was before it began is forgotten.
SinceBegin(seen, current) == IF pc = "begin" THEN {current} ELSE seen \cup {current}

Commit(newCatalog) ==
  /\ ddl < MaxDDL
  /\ catalog' = newCatalog
  /\ ddl' = ddl + 1
  /\ versions' = SinceBegin(versions, newCatalog)
  /\ UNCHANGED <<sessVars, txVars, ctxVars, pc, next, cands, types, items,
                 decision, round, faulted>>

\* ALTER TABLE ... ALTER COLUMN TYPE / DROP COLUMN by another session.
AlterColumn(o, t) ==
  /\ catalog.column[o] # t
  /\ Commit([catalog EXCEPT !.column[o] = t])

\* CREATE OR REPLACE / DROP of a function or operator by another session.
ReplaceRoutine(r, body) ==
  /\ catalog.routine[r] # body
  /\ Commit([catalog EXCEPT !.routine[r] = body])

\* Outside a transaction a pooler may serve the connection from another backend,
\* or from one whose role and search_path another client has set. Inside one only
\* the effective path can move: current_schemas(true) leaves out schemas that do
\* not exist or may not be used, and other sessions create, drop and grant them.
SessionDrift(s) ==
  /\ drift < MaxDrift
  /\ s # session
  /\ inTx => s.ident = session.ident
  /\ session' = s
  /\ drift' = drift + 1
  /\ sessions' = SinceBegin(sessions, s)
  /\ UNCHANGED <<dbVars, txVars, ctxVars, pc, next, cands, types, items,
                 decision, round, faulted>>

-----------------------------------------------------------------------------
(* The proof.                                                              *)

Live == [bound |-> TRUE, ident |-> session.ident, path |-> session.path]

Finish(d) ==
  /\ pc' = "done"
  /\ decision' = d

\* The deferred Rollback is forgotten.
BugNoRollback ==
  /\ items' = AllUnavail /\ types' = NoTypes /\ finalCtx' = NoContext
  /\ UNCHANGED inTx
  /\ pc' = "decide"

\* The adapter gives up: every candidate unavailable, an empty final context,
\* and the deferred Rollback.
GiveUp ==
  /\ items' = AllUnavail /\ types' = NoTypes /\ finalCtx' = NoContext
  /\ inTx' = FALSE
  /\ pc' = "decide"

Begin ==
  /\ pc = "begin"
  /\ \/ /\ ~Phase1Eligible(cands)
        /\ Finish("hasUnproven")
        /\ UNCHANGED <<initialCtx, faulted>>
     \/ /\ Phase1Eligible(cands)
        /\ initialCtx' = Live
        /\ pc' = "beginTx"
        /\ UNCHANGED <<decision, faulted>>
     \/ /\ Phase1Eligible(cands)
        /\ faulted' = TRUE
        /\ Finish("hasUnknown")
        /\ UNCHANGED initialCtx
  /\ UNCHANGED <<dbVars, sessVars, txVars, live1, finalCtx, next, cands, types,
                 items, round>>

\* The snapshot is not taken by BEGIN but by the first query after it.
BeginTx ==
  /\ pc = "beginTx"
  /\ \/ /\ inTx' = TRUE
        /\ pc' = "live1"
        /\ UNCHANGED <<faulted, decision>>
     \/ /\ faulted' = TRUE
        /\ Finish("hasUnknown")
        /\ UNCHANGED inTx
  /\ UNCHANGED <<dbVars, sessVars, snapshot, ctxVars, next, cands, types, items, round>>

CaptureLive1 ==
  /\ pc = "live1"
  /\ snapshot' = catalog
  /\ \/ /\ live1' = Live
        /\ UNCHANGED faulted
        /\ IF ResolutionContextSessionCompatible(initialCtx, Live)
           THEN pc' = "types" /\ UNCHANGED <<items, types, finalCtx, inTx>>
           ELSE GiveUp
     \/ /\ faulted' = TRUE
        /\ GiveUp
        /\ UNCHANGED live1
  /\ next' = 1
  /\ UNCHANGED <<dbVars, sessVars, initialCtx, cands, decision, round>>

\* Lookups of a READ COMMITTED transaction.
BugReadsLatest == catalog

\* What a query of the transaction sees of the catalog.
Visible == snapshot

\* One column type query; an error or a missing column leaves no entry.
ResolveType ==
  /\ pc = "types" /\ next <= N
  /\ \/ /\ types' = [types EXCEPT ![next] =
              IF UsesColumnType(cands[next]) THEN Visible.column[next] ELSE NoType]
        /\ UNCHANGED faulted
     \/ /\ UsesColumnType(cands[next])
        /\ faulted' = TRUE
        /\ UNCHANGED types
  /\ next' = next + 1
  /\ UNCHANGED <<dbVars, sessVars, txVars, ctxVars, pc, cands, items, decision, round>>

\* The second loop goes on where the first one stopped.
BugLoopNotRestarted ==
  /\ pc = "types" /\ next > N
  /\ pc' = "identities"
  /\ UNCHANGED <<dbVars, sessVars, txVars, ctxVars, next, cands, types, items, decision,
                 round, faulted>>

TypesDone ==
  /\ pc = "types" /\ next > N
  /\ pc' = "identities" /\ next' = 1
  /\ UNCHANGED <<dbVars, sessVars, txVars, ctxVars, cands, types, items, decision,
                 round, faulted>>

PathSet(path) == {path[i] : i \in DOMAIN path}

NamespacesForCandidate(c, path) ==
  IF ExplicitlyQualified(c) THEN {c.schema} ELSE PathSet(path)

\* A schema offers what it no longer has.
BugDroppedStillOffered(cat, c, ns, t) == {t}

\* The overloads schema ns offers for argument type t: the exact one, or for a
\* function the polymorphic one when there is no exact one.
Offers(cat, c, ns, t) ==
  IF cat.routine[<<c.sym, ns, t>>] # NoBody THEN {t}
  ELSE IF c.kind = "function" /\ cat.routine[<<c.sym, ns, Poly>>] # NoBody THEN {Poly}
  ELSE {}

\* The first schema of the path wins; the others are not looked at.
BugFirstMatchWins(cat, c, path, t) ==
  IF ExplicitlyQualified(c) THEN {c.schema} \X Offers(cat, c, c.schema, t)
  ELSE UNION {{path[i]} \X Offers(cat, c, path[i], t) :
                i \in {k \in DOMAIN path :
                         \A j \in 1..(k - 1) : Offers(cat, c, path[j], t) = {}}}

Matches(cat, c, path, t) ==
  UNION {{ns} \X Offers(cat, c, ns, t) : ns \in NamespacesForCandidate(c, path)}

\* Schemas before pg_catalog are not asked for a count of one argument.
BugShadowIgnored(cat, c, path) ==
  /\ cat.routine[<<c.sym, PgCatalog, Poly>>] # NoBody
  /\ \E i \in DOMAIN path : path[i] = PgCatalog

\* COUNT(1): pg_catalog's own count, unless a schema earlier in the path has one.
\* The query reads the session's current search_path, not the captured one.
CountVisible(cat, c, path) ==
  /\ cat.routine[<<c.sym, PgCatalog, Poly>>] # NoBody
  /\ \E i \in DOMAIN path :
       /\ path[i] = PgCatalog
       /\ \A j \in 1..(i - 1), a \in ArgTypes \ {NoArgs} : cat.routine[<<c.sym, path[j], a>>] = NoBody

ResolvedItem(c, ns, arg, cat) ==
  [status |-> "resolved",
   fact   |-> [id  |-> [kind |-> c.kind, sym |-> c.sym, ns |-> ns, arg |-> arg,
                        body |-> cat.routine[<<c.sym, ns, arg>>]],
               pin |-> live1.ident.pin]]

ResolveByName(c, t) ==
  LET matches == Matches(Visible, c, live1.path, t)
  IN  IF UsesColumnType(c) /\ t = NoType THEN Failed("coercion_gap")
      ELSE IF ~ExplicitlyQualified(c) /\ live1.path = << >> THEN Unavailable
      ELSE IF matches = {} THEN Failed("unknown")
      ELSE IF \E m \in matches : matches = {m}
           THEN LET m == CHOOSE m \in matches : TRUE
                IN  ResolvedItem(c, m[1], m[2], Visible)
      ELSE Failed("ambiguous")

ResolveCount(c) ==
  IF CountVisible(Visible, c, session.path)
  THEN ResolvedItem(c, PgCatalog, Poly, Visible)
  ELSE Failed("unknown")

Resolve(c, t) ==
  IF c.kind = "count" THEN ResolveCount(c)
  ELSE ResolveByName(c, IF UsesColumnType(c) THEN t ELSE NoArgs)

\* A candidate whose operand type is missing is settled without a query; every
\* other lookup may fail.
ResolveIdentity ==
  /\ pc = "identities" /\ next <= N
  /\ \/ /\ items' = [items EXCEPT ![next] = Resolve(cands[next], types[next])]
        /\ UNCHANGED faulted
     \/ /\ UsesColumnType(cands[next]) => types[next] # NoType
        /\ items' = [items EXCEPT ![next] = Failed("lookup_failed")]
        /\ faulted' = TRUE
  /\ next' = next + 1
  /\ UNCHANGED <<dbVars, sessVars, txVars, ctxVars, pc, cands, types, decision, round>>

\* The loop waits for one candidate more than there are.
BugLoopTooLong ==
  /\ pc = "identities" /\ next > N + 1
  /\ pc' = "live2"
  /\ UNCHANGED <<dbVars, sessVars, txVars, ctxVars, next, cands, types, items,
                 decision, round, faulted>>

IdentitiesDone ==
  /\ pc = "identities" /\ next > N
  /\ pc' = "live2"
  /\ UNCHANGED <<dbVars, sessVars, txVars, ctxVars, next, cands, types, items,
                 decision, round, faulted>>

\* The third capture and the gate against it.
CaptureLive2 ==
  /\ pc = "live2"
  /\ \/ /\ finalCtx' = Live
        /\ items' = GateAgainstLiveContext(cands, items, live1, Live)
        /\ UNCHANGED faulted
     \/ /\ finalCtx' = NoContext
        /\ items' = AllUnavail
        /\ faulted' = TRUE
  /\ pc' = "commit"
  /\ UNCHANGED <<dbVars, sessVars, txVars, initialCtx, live1, next, cands, types,
                 decision, round>>

\* The error of Commit is ignored.
BugCommitIgnored ==
  /\ pc = "commit"
  /\ inTx' = FALSE
  /\ pc' = "decide"
  /\ faulted' \in {faulted, TRUE}
  /\ UNCHANGED <<dbVars, sessVars, snapshot, ctxVars, next, cands, types, items,
                 decision, round>>

CommitTx ==
  /\ pc = "commit"
  /\ \/ /\ inTx' = FALSE
        /\ pc' = "decide"
        /\ UNCHANGED <<items, types, finalCtx, faulted>>
     \/ /\ GiveUp
        /\ faulted' = TRUE
  /\ UNCHANGED <<dbVars, sessVars, snapshot, initialCtx, live1, next, cands, decision, round>>

Decide ==
  /\ pc = "decide"
  /\ Finish(ProofDecision(initialCtx, finalCtx, items, types, cands))
  /\ UNCHANGED <<dbVars, sessVars, txVars, ctxVars, next, cands, types, items, round, faulted>>

\* The session is kept and analyses another statement.
NextStatement ==
  /\ pc = "done"
  /\ round < MaxRounds
  /\ round' = round + 1
  /\ pc' = "begin" /\ next' = 1
  /\ cands' \in [Candidates -> Shapes]
  /\ initialCtx' = NoContext /\ live1' = NoContext /\ finalCtx' = NoContext
  /\ types' = NoTypes /\ items' = AllUnavail
  /\ decision' = "none" /\ faulted' = FALSE
  /\ versions' = {catalog} /\ sessions' = {session}
  /\ UNCHANGED <<catalog, ddl, session, drift, txVars>>

Proof ==
  \/ Begin \/ BeginTx \/ CaptureLive1 \/ ResolveType \/ TypesDone
  \/ ResolveIdentity \/ IdentitiesDone \/ CaptureLive2 \/ CommitTx \/ Decide

Environment ==
  \/ \E o \in Candidates, t \in Types \cup {NoType} : AlterColumn(o, t)
  \/ \E r \in UserRoutines, body \in UserBodies \cup {NoBody} : ReplaceRoutine(r, body)
  \/ \E s \in Session : SessionDrift(s)

Next == Proof \/ NextStatement \/ Environment

\* The proof runs in one goroutine, and every query of it returns or fails when
\* its context ends.
Fairness == WF_vars(Proof)

Spec == Init /\ [][Next]_vars /\ Fairness

-----------------------------------------------------------------------------
(* What promotion promises.                                                *)

\* PostgreSQL's own rule of overloads (external). A name reaches the schemas of the
\* path, a qualified one its own schema alone; of equal argument lists the one in the
\* earlier schema counts. A routine that takes type t itself wins, wherever its schema
\* stands. Without one, those that t can be coerced to and the polymorphic ones compete:
\* preferred types decide, or the call is ambiguous, so any of them may run. Variadic
\* routines, defaults and the differences between polymorphic types are left out.
Scope(c, path) == IF ExplicitlyQualified(c) THEN <<c.schema>> ELSE path

Reached(cat, c, path, arg) ==
  \E i \in DOMAIN Scope(c, path) : cat.routine[<<c.sym, Scope(c, path)[i], arg>>] # NoBody

CoercedFrom(t) == IF t \in Types THEN Coercible[t] ELSE {}

Inexact(c, t) ==
  CoercedFrom(t) \cup (IF c.kind \in {"function", "count"} THEN {Poly} ELSE {})

MayRun(cat, c, path, t, ns, arg) ==
  /\ cat.routine[<<c.sym, ns, arg>>] # NoBody
  /\ \E i \in DOMAIN Scope(c, path) :
       /\ Scope(c, path)[i] = ns
       /\ \A j \in 1..(i - 1) :
            Scope(c, path)[j] = ns \/ cat.routine[<<c.sym, Scope(c, path)[j], arg>>] = NoBody
  /\ arg = t \/ (arg \in Inexact(c, t) /\ ~Reached(cat, c, path, t))

\* Something runs, and whatever may run is in the manifest.
RunsAudited(cat, c, path, t) ==
  /\ \E ns \in Namespaces, arg \in ArgTypes : MayRun(cat, c, path, t, ns, arg)
  /\ \A ns \in Namespaces, arg \in ArgTypes :
       MayRun(cat, c, path, t, ns, arg) =>
         [kind |-> c.kind, sym |-> c.sym, ns |-> ns, arg |-> arg,
          body |-> cat.routine[<<c.sym, ns, arg>>]] \in Manifest

\* An overload may run that no lookup asks for: lookupFunctions looks for the exact type
\* and then for polymorphic ones (:582), lookupCountIntegerOneAggregate for count("any")
\* alone, and for others only ahead of pg_catalog (:697).
UnseenOverload(cat, c, path, t) ==
  IF c.kind = "count"
  THEN \E arg \in {t} \cup CoercedFrom(t) : Reached(cat, c, path, arg)
  ELSE ~Reached(cat, c, path, t) /\ \E arg \in CoercedFrom(t) : Reached(cat, c, path, arg)

\* The argument type candidate o is called with in cat.
CalledWith(cat, o) ==
  CASE cands[o].kind = "count" -> LiteralType
    [] UsesColumnType(cands[o]) -> cat.column[o]
    [] OTHER -> NoArgs

AuditedAlong(cat, o, path) ==
  \/ RunsAudited(cat, cands[o], path, CalledWith(cat, o))
  \/ UnseenOverload(cat, cands[o], path, CalledWith(cat, o))

Audited(cat, o) ==
  IF cands[o].kind = "count"
  THEN \E s \in sessions : AuditedAlong(cat, o, s.path)
  ELSE CalledWith(cat, o) # NoType /\ AuditedAlong(cat, o, finalCtx.path)

\* Everything statement cands runs along path is audited in cat.
AllAudited(cat, path) ==
  \A o \in Candidates : /\ CalledWith(cat, o) # NoType
                       /\ RunsAudited(cat, cands[o], path, CalledWith(cat, o))

\* A promoted statement was audited in one version of the catalog: there is one,
\* committed since its proof began, in which every effect PostgreSQL would run for
\* it is in the manifest, whatever DDL ran between the lookups
\* (effect_identity_resolver.go:803). Exempt is a count or another polymorphic function
\* where a schema offers an overload that no lookup asks for: CountRunsAudited below.
PromotionFromOneSnapshot ==
  decision = "allProven" =>
    \E v \in versions : \A o \in Candidates : Audited(v, o)

\* The resolved function of a promoted COUNT(1) is the audited aggregate
\* pg_catalog.count(any) (effect_identity_session.go:393).
CountRunsAudited ==
  decision = "allProven" =>
    \A o \in Candidates : cands[o].kind = "count" =>
      \E v \in versions, s \in sessions : RunsAudited(v, cands[o], s.path, LiteralType)

\* A promoted statement was proven under the backend, database, role and version
\* its proof began with, and, if it has an unqualified effect, under the same
\* search_path from the first capture to the last (service.go:299, INV-3, INV-7).
PromotedUnderOneSession ==
  decision = "allProven" =>
    /\ initialCtx.ident = finalCtx.ident
    /\ \E s \in sessions : s.ident = finalCtx.ident /\ s.path = finalCtx.path
    /\ finalCtx.ident.pin \in SupportedPins
    /\ (\E o \in Candidates : ~ExplicitlyQualified(cands[o]))
         => /\ initialCtx.path = live1.path
            /\ live1.path = finalCtx.path

\* No query, capture or transaction boundary may fail in a proof that promotes.
FaultsFailClosed == faulted => decision # "allProven"

\* Between statements, and whenever a proof has given up, the pinned connection
\* is out of its transaction: the next statement's proof reads a fresh snapshot.
NoOpenTransaction == pc \in {"begin", "beginTx", "decide", "done"} => ~inTx

\* The proof refuses for a reason: with no fault, no DDL and a steady session of
\* a supported version, a statement whose effects each have one candidate routine,
\* the audited one, called without a coercion, is promoted.
UndisturbedProofPromotes ==
  (/\ pc = "done"
   /\ ~faulted
   /\ versions = {catalog} /\ sessions = {session}
   /\ session.ident.pin \in SupportedPins
   /\ Phase1Eligible(cands)
   /\ \A o \in Candidates :
        LET c == cands[o]
        IN  /\ \A ns \in Namespaces \ {PgCatalog}, arg \in ArgTypes :
                 catalog.routine[<<c.sym, ns, arg>>] = NoBody
            /\ PgCatalog \in NamespacesForCandidate(c, session.path)
   /\ AllAudited(catalog, session.path)
   /\ \A o \in Candidates :
        ~UnseenOverload(catalog, cands[o], session.path, CalledWith(catalog, o)))
  => decision = "allProven"

\* Every proof that begins ends.
ProofEnds == pc = "begin" ~> pc = "done"

\* The steps of its own a proof has left at most: one for each boundary and capture,
\* and two passes over the candidates with one more step each.
StepsLeft ==
  CASE pc = "begin"      -> 2 * N + 8
    [] pc = "beginTx"    -> 2 * N + 7
    [] pc = "live1"      -> 2 * N + 6
    [] pc = "types"      -> 2 * N + 6 - next
    [] pc = "identities" -> N + 5 - next
    [] pc = "live2"      -> 3
    [] pc = "commit"     -> 2
    [] pc = "decide"     -> 1
    [] pc = "done"       -> 0

\* A proof never starts over and never waits for the database to settle: of at most
\* 2N + 8 steps each of its own brings it nearer to its decision, fault or no fault,
\* and no DDL and no drift sets it back (effect_identity_resolver.go:810). This is
\* what ProofEnds takes besides its fairness.
ProofAdvances ==
  [][/\ Proof => StepsLeft' < StepsLeft
     /\ Environment => StepsLeft' = StepsLeft]_vars

-----------------------------------------------------------------------------
(* The proof implements the contract of PromotionContract: the atomic look  *)
(* is the first query of the transaction, which takes the snapshot and      *)
(* captures the session. The lookup of COUNT(1) reads the search_path       *)
(* again, so such a statement refines it only where no schema but           *)
(* pg_catalog has a count for the literal; and a polymorphic function only  *)
(* where no schema has one its argument is coerced to.                      *)

ContractPhase ==
  CASE pc \in {"begin", "beginTx", "live1"}    -> "open"
    [] pc = "done"                             -> "decided"
    [] pc = "decide" /\ ~finalCtx.bound        -> "abandoned"
    [] OTHER                                   -> "looked"

ContractVerdict ==
  CASE decision = "none"      -> "none"
    [] decision = "allProven" -> "promoted"
    [] OTHER                  -> "refused"

Contract == INSTANCE PromotionContract WITH
  audited  <- AllAudited(catalog, session.path),
  evidence <- ContractPhase = "looked" /\ AllAudited(snapshot, live1.path),
  phase    <- ContractPhase,
  verdict  <- ContractVerdict

\* Every step of the proof, of DDL and of drift is a step of the contract: no
\* promotion rests on anything but what held at one moment of the proof.
ImplementsContract == Contract!Spec
=============================================================================
