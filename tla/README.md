# Verification of DeltaScope

DeltaScope audits SQL statements and analyses what access a query needs. This
directory holds TLA+ models of two kinds of parts: those whose correctness depends on
what happens *between* steps (catalog lookups of an analysis or an audit while other
sessions run DDL, pooled sessions that change underneath a proof, failures and deadlines
in the middle of a resolution, requests a server is stopped under), and those whose
correctness depends on large tables agreeing with each other (from syntax tree to
statement, from statement to rule, from rule to default policy). TLC checks them on small
instances; TLAPS proves the central results for every instance.

## The system

| part | source | state it keeps | operations |
|---|---|---|---|
| PostgreSQL effect proof | `infrastructure/metadata/postgresql/effect_identity_*.go` | a pinned `*sql.Conn`, a REPEATABLE READ transaction | capture context, resolve types and identities, gate, commit |
| effect identity validation, trust policy | `application/queryaccess/identity_resolver.go`, `trust_policy.go`, `phase1_effect_eligibility.go` | none (manifest is constant) | gates and validations of a batch, trust decision |
| query access service | `application/queryaccess/service.go`, `proof_orchestration.go`, `requirements.go` | per request: relations, columns, unresolved, reasons, classification, admission | `Analyze` |
| metadata resolution | `application/queryaccess/resolve.go`, `metadata/mysql/query_access_conn_resolver.go` | per request: schema cache | resolve relations, columns, outputs, wildcards |
| builtin semantic gateway | `application/queryaccess/builtin_semantic_*.go` | none | prove builtin calls of MySQL/TiDB |
| statement extraction | `infrastructure/parser/{tidb,postgresql}/query_access*.go` | scope stack per statement | relations, columns, outputs, effects |
| online session | `application/online/*.go`, `pkg/deltascope/query_access_online_session.go` | pool, pinned connection, identity, closed flag | open, ping, pin, identify, analyse, close |
| HTTP adapter, server | `interfaces/http/*.go`, `cmd/deltascope-server` | rate limiter entries, metrics; per request: principal, session, the goroutine of an audit, its client and its copy of the policy | middlewares, handlers, graceful shutdown |
| runtime configuration | `infrastructure/runtimeconfig` | immutable registry | authorize, look up, resolve key |
| audit metadata preparation | `application/auditmeta`, `application/connresolve/catalog.go` | per request: clients, dialect, schema and where it came from | open, detect, fall back, infer the schema, close |
| audit pipeline | `application/audit`, `domain/report` | per request: statements, snapshot cache, findings, verdict | parse, extract, enrich, evaluate, report |
| metadata providers of the audit | `infrastructure/metadata/{mysql,postgresql}/provider.go` | a `*sql.DB` each | detect, find schemas, instance facts, table snapshot, index owner |
| DDL parsing, extraction | `infrastructure/parser/{tidb,postgresql}/extractor*.go` | none | from a syntax tree to a `spec.Statement`, or a refusal |
| rules, policy | `domain/{rule,policy,spec}`, `infrastructure/config/viper` | the global rules: pending constraints, counts of ALTERs | findings of one statement, findings of a script, loading under a policy file |
| command line, MCP, library, outputs | `interfaces/{cli,mcp}`, `pkg/deltascope`, `infrastructure/output` | builder pool | conversions around the application |

How they interact. A surface (HTTP, CLI, MCP, the Go library) opens an online session,
which pins one connection of the user's database, and calls `Service.Analyze` with
resolvers bound to that connection. `Analyze` extracts facts from the statement,
resolves them by metadata queries one after the other, builds requirements, asks for
an effect proof (for PostgreSQL a transaction of its own, for MySQL and TiDB a look at
a builtin manifest) and only then classifies and admits. An audit with metadata first runs `auditmeta.Prepare`, which opens a client of its own,
learns the dialect and settles the schema, then `Service.Audit` with the client as
provider; over HTTP a goroutine runs both and the handler waits for it or for the
deadline. Everything in one analysis or audit is
one goroutine; the concurrency is in the database it reads, in the session a pooler
gives it, in the request's deadline, in the server's requests sharing a limiter, and in
the goroutine of an audit that outlives the handler that started it. The rules are pure
but for the global ones, which see the statements of a script in order.

What is hard, and which property is about it, is listed line by line under `hazards`
in `PROJECT.json`:

* DDL commits between two lookups; a relation's kind and columns are read by two queries;
* role, database, backend or `search_path` drift between captures;
* one of several lookups, a capture, or COMMIT fails;
* the deadline passes between two lookups;
* overloads and shadowing routines along the `search_path`;
* a fail-closed chain that could close always, or leave a transaction open;
* clients opened on one path and closed on another, two drivers tried in turn;
* a schema inferred from, and snapshots assembled of, lookups made at different times;
* a rate limiter's entry dropped while a request is about to use it, or before its bucket
  is full again;
* a failed lookup taken for an absent table, a verdict that forgets what was not audited;
* a failure, timeout or panic between opening and closing a session, a client or a file;
* a signal while requests run, a shutdown that hangs or cuts them off;
* authentication, key resolution and authorization as separate steps;
* three tables kept by hand, in which one name that differs silences a rule;
* rules that look at a whole script, and rules that step aside for others.

What makes each component correct:

* effect proof: what is promoted was audited in one version of the catalog, under one
  session, with no failure on the way, and its transaction is closed;
* query access: what is admitted reads tables only, every column it needs exists and is
  required, and a statement nothing speaks against is admitted;
* audit preparation: every client is given back (but for the one of `client_leak` below),
  an inferred schema is the only one;
* audit: a snapshot is of the statement's own table, a pass is earned by every statement,
  a fault fails the audit, the caller is answered and the goroutine ends;
* online session: every way out closes what was opened, and it is routed by what the
  server is;
* HTTP server: a database is contacted only for whom it is meant for, a clean exit has
  answered and released everything, and a shutdown ends;
* rules, policy, extraction: nothing that is accepted goes unnoticed, save what the
  coverage catalog says;
* rate limiter: forgetting a bucket changes no answer, and no key has two.

## Modules

`EffectIdentity` - the vocabulary (candidates, identity tuples, items of a batch,
contexts) and the pure checks of `identity_resolver.go` and `trust_policy.go` as
operators named after the functions. Abstractions: an OID with its implementation,
volatility and result type is one *body*; a name with its arity one *symbol*; database
OID and server version one *pin*; backend and database one *binding*. A batch is a
function of ordinals, so `validateBatchOrdinals` and `completeEffectIdentityBatch`,
which repair a list, have nothing to do.

`EffectProof` - `resolveAndProveEffects` and `ResolveColumnTypesAndEffectIdentities`
as a state machine, one action per interaction with the database:

| action | code |
|---|---|
| `Begin` | Phase-1 eligibility, `CaptureExecutionBoundContext` |
| `BeginTx` | `beginRepeatableReadTx` |
| `CaptureLive1` | first capture in the transaction (it takes the snapshot) and its comparison |
| `ResolveType`, `TypesDone` | the loop over operand columns |
| `ResolveIdentity`, `IdentitiesDone` | the loop of `resolveOneWithCatalog` |
| `CaptureLive2` | last capture and `GateIdentityBatchAgainstLiveContext` |
| `CommitTx` | `tx.Commit` |
| `Decide` | the validations and `IsTrusted` |
| `NextStatement` | the caller keeps the session and analyses again |

Each action that queries has a disjunct in which the query fails. The environment is
`AlterColumn`, `ReplaceRoutine` (DDL of other sessions) and `SessionDrift`. A drift
outside a transaction may change everything, inside one only the effective path,
because `current_schemas(true)` leaves out schemas that do not exist. `versions`,
`sessions` and `faulted` are history variables for the properties.

What PostgreSQL runs is an operator of its own, `MayRun`, which the resolver is held
against. A routine of the argument's own type wins in whatever schema of the path it is, of
equal ones the first. Without one, those the argument is coerced to (`Coercible`) and the
polymorphic ones compete; preferred types decide there, or the call is ambiguous, so the
model lets any of them run and asks that each be audited. Variadic routines, defaults and
the differences between polymorphic types are left out.

`PromotionContract` - what a proof promises without how: a statement is promoted only
on the evidence of one atomic look at the database. `EffectProof` implements it under
the mapping at its end: the look is the first query of the transaction.

`QuerySyntax` - syntax trees of queries: expressions, sources of a FROM clause, SELECT
with CTEs, UNION, EXPLAIN, and "anything that writes".

`QueryScopes` - what the extractor of MySQL and TiDB makes of such a tree, function by
function: scopes with their aliases, CTE names, tables and column lineage, the relations,
references, outputs and wildcards of a statement, its classification, and the calls the
effect collector finds. Abstractions: every table lies in the default schema, which the
extractor fills in; a call is *known* when the builtin manifest has an entry for it; the
text of an expression is nobody's name; casts, windows, LIMIT and JOIN USING are left out.

`QueryReads` - what the same tree reads by the meaning of SQL, written without looking at
the extractor: the definition the extractor is held against.

`QueryAccess` - `Service.Analyze` for MySQL and TiDB, on a statement the extractor reports.
`resolveMetadata` walks over its relations, column references, output sources and
wildcards, in this order, one lookup after the other:

| action | code |
|---|---|
| `Start` | the checks of the context, the extraction |
| `Skip` | an item that looks nothing up: a derived table or CTE, the end of a wildcard |
| `Answered` | `resolveSchema` out of the cache, or after the deadline |
| `ReadKind`, `ReadColumns` | the two queries of `ResolveRelation` |
| `EndList` | from one list to the next |
| `Finish` | view barrier, requirements, builtin proof, reclassification, admission |
| `Alter`, `Expire` | DDL of other sessions between any two queries; the deadline |

`Settle...` is what each list does with an answer. Aliases are resolved a second time here,
over all relations of the statement, as `resolveRelationRef` does. `ReportCovers` is what
the service relies on the extractor for: that a report names the tables, columns and
wildcards the statement reads, in names that the second resolution understands alike. The
service could not add what is missing there.

`AuditScript` - a script as a sequence of statements (kind of work, table, qualifier,
worst level of the rules' findings), the targets of schema inference, the schema each
statement's table is looked up in, and the verdict: `FindingVerdict` is what the findings
aggregate to, `FinalVerdict` raises a pass to review where a statement was not audited.

`MetadataAudit` - one audit with metadata, end to end:

| action | code |
|---|---|
| `Normalize` | `normalizeKnownDatabaseSchema` |
| `Open`, `OpenFails`, `OpenPostgreSQL`, `OpenPostgreSQLFails` | `openPreparedClient(Context)` |
| `Detect`, `DetectFails`, `Reopen`, `ReopenFails`, `RedetectFails` | `prepareClientAndDialect(Default)` |
| `CheckFails`, `TakeExplicitSchema` | the checks of `Prepare`, `normalizeDatabaseSchema` |
| `CollectTargets` | `collectTargetTables` |
| `SkipLookup`, `FindSchemas`, `FindSchemasFails`, `InferSchema` | `resolveSchema` |
| `BeginAudit`, `PolicyFails`, `Parse...`, `ExtractCancelled` | `Service.Audit` up to extraction |
| `LoadInstanceFacts`, `LoadInstanceFactsFails` | the first query of `enrichStatementsWithMetadata` |
| `SkipStatement`, `Enrich`, `FindOwner`, `Attach`, `Enriched` | its loop over the statements |
| `ReadSnapshot`, `ReadSnapshotFails` | one query of `LoadTableSnapshot` |
| `Evaluate` | `EvaluateStatements`, the notices and the rest of `Service.Audit` |
| `Deliver`, `Abandon` | the `select` of the HTTP handler; for other callers the return |
| `Alter`, `Expire` | DDL of other sessions; the deadline |

A table is its version: a change that a snapshot could show gives it a new one, 0 is
absence. A snapshot is the sequence of versions its queries read, which is what tells
a torn snapshot from one of a wrong table. Every query may fail in every state, and after
the deadline none succeeds. `history` (the catalogs so far) and `faulted` are for the
properties.

`RateLimit` - what rate limiting promises: a bucket per key that is never forgotten.

`LimiterStore` - `limiterStore`, the map of buckets all requests share. `Arrive` reads the
clock, `Lock` is the part of `Allow` under the mutex with the cleanup it may run, `Take`
is `entry.limiter.Allow()` after unlocking; `Tick` is time. A limiter is its place in a
sequence, as a pointer is, so a request can hold one the store has dropped. The bucket
itself (`golang.org/x/time/rate`) is external, and its look at the clock atomic with its
own step. `LimiterStore` implements `RateLimit`: the level of a key without an entry is a
full bucket. This needs `RefillAssumption`: a bucket fills within the ttl less twice the
time a request spends in `Allow` (a late request may set `lastSeen` back by one, and take
its token one later). For the default rate, burst and ttl that is 2 of 600 seconds; the
code accepts a burst of more than 600 seconds' worth of the rate, for which the promise
does not hold.

`LimiterBudget` - `LimiterStore` with an observer that starts a stopwatch at any moment and
adds up what one key is granted from then on: what the promise of a bucket per key comes
to over a stretch of time (`WithinBudget`, `DeniedWhenSpent`).

`OnlineSession` - `application/online`: `OpenDB`, `Ping`, `Pin`, `Identify` with a failure
at each, which close what the earlier ones opened, `CloseConn` and `CloseDB`;
`ParseServerIdentity` and `DeriveCapabilityTarget` as operators on what a server answers.
A version is a series (`mysql-8.0`, `tidb-8.5`) or `unreadable`.

`RuntimeRegistry` - what a configuration must satisfy for the process to start, and
`Authorize` and `ResolveAPIKey` on the registry it becomes.

`RequestContract` - what the server promises its clients, without how a request is handled:
one answer per request; what is opened for it (a session, an audit's client, its copy of
the policy) is opened with permission and given back at most once; a request that is turned away
(401, 403, 404, 429) has opened nothing and never will; no handler returns with a session in
its hands, and no clean exit leaves one.

`HttpServer` - the process and its requests, on top of `OnlineSession` and
`RuntimeRegistry`:

| action | code |
|---|---|
| `Start`, `Signal`, `Drained`, `DrainTimeout`, `ListenFails` | `main` of `deltascope-server` |
| `Arrive`, `Authenticate`, `Limit`, `Handle` | the middlewares and the routes |
| `AuthorizeQuery`, `Open`, `Attach`, `Begin`, `Analyse`, `Close` | the query-access handler, its session and its deferred `Close` |
| `AuthorizeAudit`, `SnapshotPolicy`, `PrepareAudit`, `Audit`, `CloseClient`, `CleanupPolicy`, `Send` | the goroutine of an audit |
| `Select` | the handler waiting for it or for the context |
| `HandlerPanics`, `WorkerPanics`, `ContextEnds` | the environment |

A panic in a handler runs its deferred calls and is answered with 500 by the recovery
middleware. A panic in the goroutine of an audit is outside any recovery and ends the
process (`crashed`). The status of an answer is one of those `MapOnlineError` and
`mapAuditError` give the error, wording aside. `PrepareAudit` has the error paths of
`auditmeta.Prepare` for a given dialect, which is how `audit_metadata.go:148` calls it:
nothing was opened; an error after the dialect is known, which closes the client; a dialect
query that fails, which does not (`prepare.go:293`). That last client is `leaked`: no
variable of the program refers to it, and nothing closes it.

`HttpServer` implements `RequestContract`: a session is open from `OpenDB` until both its
pool and its connection are closed, a leaked client stays open; an answer may be 404 or 403
after the audit it waits for is refused, which is a refusal too.

`DdlRules` - what a DDL statement is to the rules (operation, table, constraints, alter
actions, *facts*: the options whose value some rule looks at), what a rule is (a row: id,
level, dialects, operation or actions, facts required) and when it fires. `SharedRules`,
`PgRules` - the rows, named after the constructors of the code: a family of constructors
that differ only in the condition they accept is one operator.

`PgExtraction`, `PgAlterTable`, `TiDBExtraction` - from a parsed statement (node, object
type, flags, commands) to the statement of `DdlRules`, case by case as the extractors
have it, with what they refuse and what they drop.

`PolicyDefaults` - the default policy, what a file makes of it (an entry of the file
replaces the default entry of its rule as a whole; nothing it leaves out is taken over),
`ShouldLoad` and the suppression of foreign key naming. Which rules the tables enable, and
with which switch, is what `NothingUnnoticed`, `ForeignKeysReviewed` and `DisablingWarned`
look at; the levels are there for the verdict (`VerdictDue`).

`DdlAudit` - one audit of a script by those tables:

| action | code |
|---|---|
| `ExtractNext` | extraction of one statement; unsupported ones are set aside |
| `RegisterRules` | `RegisterDDLRules` under the policy |
| `EvaluateNext` | the statement rules on one statement |
| `StartGlobal`, `GlobalAction`, `GlobalNext`, `EndGlobal` | `EvaluateAll` of the global rules, action by action |
| `AggregateFindings`, `Fail`, `Cancel` | the verdict; a refused policy; the context |

`MC...` - the constants of the runs. `EffectProof_proofs`, `MetadataAudit_proofs`,
`LimiterStore_proofs`, `LimiterBudget_proofs`, `HttpServer_proofs`, `QueryAccess_proofs`,
`DdlAudit_proofs` - the theorems.

Definitions called `Bug...` are mutated forms of the definition that follows them, each
the shape of a plausible mistake in that code; no specification uses them. For every
property of a passing run one of them, put in place of the real definition, makes TLC
report a violation.

## Runs

| run | asks | bounds |
|---|---|---|
| `ddl` | `PromotionFromOneSnapshot`, `UndisturbedProofPromotes`, `ImplementsContract`, `TypeOK` | 2 effects (operators, functions, COUNT(*), a cast), 2 catalog changes, no drift |
| `sessions` | `PromotedUnderOneSession`, `FaultsFailClosed`, `NoOpenTransaction`, `ProofEnds`, `PromotionFromOneSnapshot` | 2 effects with COUNT(1) and a shadowing count, 2 statements, 1 change, 1 drift |
| `count_overload` | `CountRunsAudited` (violated) | 1 effect, nothing changes |
| `resolve` | `ReportCoversReads`, `AdmittedCoversReads`, `CompleteBeforeDeadline`, `AdmittedReadsTables`, `AdmittedColumnsExist`, `QuietAnalysisAdmits`, `AnalysisEnds`, `TypeOK` | 2 relations, 2 columns, 21 queries (26 with their modes), 4 catalogs, 2 changes |
| `deadline` | `PhysicalRequirementCompleteness` (violated) | SELECT * over 2 tables, nothing changes |
| `subqueries` | `TablesRequired` (violated) | a subquery of a SELECT list, a derived UNION; nothing changes |
| `audit` | `DetectedClientsReleased`, `InferredSchemaWitnessed`, `SnapshotOfNamedTable`, `PassIsEarned`, `FaultsFailAudit`, `AuditEnds`, `TypeOK` | 2 schemas, 1 table, 9 scripts of 1 or 2 statements, every shape of request, 2 changes |
| `client_leak` | `ClientsReleased` (violated) | the same, nothing changes |
| `limiter` | `HeldIsCurrent`, `ImplementsRateLimit`, `TypeOK` | 2 keys, 2 requests at a time, burst 2, ttl 3 ticks, pause 1, 6 ticks |
| `server` | `HandlerReleases`, `WorkerCleansUp`, `AccessPermitted`, `SessionOfItsServer`, `CleanExitDrained`, `ImplementsRequestContract`, `WorkersEnd`, `ShutdownEnds`, `TypeOK` | an audit beside a query analysis or a health check, 3 connections, 2 configurations that start and 6 that are refused |
| `rules` | `NothingUnnoticed`, `NotValidReported`, `ForeignKeysReviewed`, `TypeOK` | every form of statement alone, 3 dialects; scripts of up to 3 statements for NOT VALID, of 2 for merging; foreign keys under 12 policy files |
| `disable` | `DisablingWarned` (violated) | one statement |

Why the bounds are enough. A torn read needs two lookups and one change between them;
two changes also give change-and-undo. Two effects are the least for a batch that is
proven in part, and two schemas for a name that is shadowed. A second statement is the least for anything left by the first. Two relations are
the least for a wildcard that covers one and misses the other, and for an alias that is
the name of another table. Every shape of query the extractor treats as a case of its own
is among the statements once, and what it makes of one part (a source, a field, a nested
query) does not depend on how many others there are. In an audit, two schemas
are the least for a table that moves or is ambiguous, one table name suffices because
what goes wrong is a right name in a wrong schema, two statements are the least that
share a cache entry or must not, and the two changes let a table move between two lookups
and a snapshot be torn. The requests cover a dialect given or not, one server, two or
none, and every combination of schema and database hints. The limiter's
parameters meet `RefillAssumption` with equality, so every tick of the ttl is needed (one
unit more of capacity and TLC finds a key with more than its burst); two keys are the
least of which one's call drops the other's entry, two requests the least for one to set
`lastSeen` back. Keys and requests are symmetric. In the server an audit and a query
never touch each other's state, so one of each beside a signal is enough; the three
connections answer as what they are configured to be, as something else, and as a TiDB
that cannot be read. A rule looks at one statement, so the forms are taken one by one;
adding, validating and adding again a constraint takes three actions, which the scripts
spread over statements in every way. The theorems remove the bounds for every safety
property of a passing run but `ReportCoversReads`; `NothingUnnoticed` they reduce to one
statement alone, which is what `rules` looks at form by form.

`CHECK_DEADLOCK FALSE` everywhere: an analysis ends, and the models with it.

Fairness. `WF_vars(Proof)`, `WF_vars(Analysis)` and `WF_vars(Prepare \/ Audit)`: an
analysis or audit is one goroutine, every query of it returns or fails (when its context
ends, or by the drivers' dial and read errors), so a step that stays possible is taken.
`WF_vars(Deliver \/ Abandon)`: the handler's `select` proceeds once either channel is
ready; which of two ready ones it takes is not assumed. In `HttpServer` each handler and
each worker is a goroutine with weak fairness of its own, `Start` is taken, and `Drained`,
because `http.Server.Shutdown` polls; a signal, timeouts, panics and the end of the drain
are not assumed, so `ShutdownEnds` rests on every handler returning by itself. `DdlAudit`
needs none. Nothing is assumed of DDL, drift or the deadline. The loops are bounded by the
statement, not by the environment, so weak fairness of the whole is enough.

## Where the code and its documents part

`count_overload`. The COUNT(1) lookup looks for a shadowing `count` only in schemas
*before* `pg_catalog`. PostgreSQL prefers an exact `count(int4)` anywhere in the path to
the polymorphic `pg_catalog.count("any")`; with the default path, where `pg_catalog` is
first, a `public.count(int4)` is what runs, and the statement is promoted all the same. A
`public.count(float8)` goes unseen in the same way: the literal is coerced to it, and
`float8`, a preferred type, may win over "any". The instance has one catalog with each. The
design document requires that the *resolved* function be the `pg_catalog` aggregate.
`CountSound` proves where it is: `CountRunsAudited` holds where no schema has, or is given,
a one-argument `count` of a type the literal has or is coerced to.

Other polymorphic functions, such as COUNT of a column, are exposed to the second half:
`lookupFunctions` sees an exact overload of another schema (two matches, refused), but where
there is none it looks for polymorphic forms alone, not for overloads that a coercion leads
to. `UnseenOverload` names these calls, and `PromotionFromOneSnapshot` states what holds:
everything else that is promoted was audited in one version of the catalog.

`deadline`. `expandGlobalWildcard` passes over relations it cannot look up, and every
lookup fails after the deadline. `SELECT *` over two tables whose deadline passes between
the lookups is admitted with the columns of the first alone. `CompleteBeforeDeadline`
states what holds; `CompletenessSound` proves that `PhysicalRequirementCompleteness` holds,
expired deadline or not, where "*" stands over one table at most.

`client_leak`. When a dialect is given and `DetectDialect` fails, `prepareClientAndDialect`
and its default variant return the error without closing the client they opened, and
`Prepare` returns before its deferred `Close` exists. `DetectedClientsReleased` states
what holds: every other path closes. `AllClientsClosed` proves `ClientsReleased` for
callers that leave the dialect to be detected. The HTTP server always gives the dialect of
the registered connection, so an audit's goroutine there may end with such a client:
`WorkerCleansUp` states what holds, that it is the only thing ever left behind and that the
audit has then failed.

`subqueries`. `processResultSetNode` has no case for a UNION as derived table, though the
effect collector has one (`query_access_effect_collector.go:171`), and only the subqueries
of WHERE are visited for their relations. A table read by `FROM (SELECT ... UNION SELECT
...) AS d`, or by a subquery in the SELECT list, in ON, GROUP BY, HAVING or ORDER BY, is not
reported, and the statement is admitted without it. The design document wants the tables
of subqueries required in both modes. `AdmittedCoversReads` states what holds: the tables
of everything the extractor looks at (`covered`). `AllTablesSound` proves that nothing
else loses a table: where `covered` is all that is read, `TablesRequired` holds.

`disable`. `extractAlterSubscriptionStmt` looks for a blank followed by DISABLE in the text
of the statement, because the parser does not tell ENABLE from DISABLE; after a line break
or a tab it does not find it, and the warning that replication stops is not given.

More were met in the text alone and have no run. A parser that finds its context over
returns the context's error and no parse failure; `Service.Audit` takes that for a text it
cannot read (`service.go:90`), so if the handler sees that result before the deadline, a
script that parses is answered with `parser_error`. `docs/reference/cli.md` says an SQL
qualifier comes first in schema resolution; `metadataTargetSchema` follows it only for
MySQL and TiDB DML, which tests pin, and the owner of a standalone PostgreSQL index is
found in its own schema but its snapshot is loaded from the schema of the request.
`SnapshotOfNamedTable` exempts exactly these by `QualifierFollowed`. The same page says a
wholly unparsable input leaves the verdict empty; `Service.Audit` sets `review` when the
text looks like PostgreSQL, and `UnparsedVerdict` says so; when only chunks of a script
fail and nothing looks like PostgreSQL, the answer has no verdict at all.

Of queries: the WITH of a UNION is not looked at, nor a UNION within a UNION (which is
never admitted), nor a WHERE subquery that locks; the columns of a subquery are never
required; the outer name of a renamed column is looked for in the inner table, so
`SELECT d.c2 FROM (SELECT c1 AS c2 FROM r1) AS d` also asks for `r1.c2`; columns through
`d.*` are shown without being output sources, and an unqualified column over a derived
table has none, which `projection_only` forgets; a query over a CTE is not admitted,
because the CTE's name is looked up in the default schema; an EXPLAIN is read-only whatever
it explains, and names no relations; calls in the ORDER BY of a UNION are not a reason.
Since `resolveRelationRef` consults all aliases of the statement first,
`FROM r1 AS r2, r2 AS r1`, or an alias used again in a subquery, makes a wildcard or a column
require the columns of the wrong relation: `CompleteBeforeDeadline` and
`AdmittedCoversReads` speak of statements in which each name calls one relation (`clear`).

Of the server: `docs/reference/http-api.md` answers a panic with 500, which holds for a
handler and not for the goroutine of an audit (the MCP server recovers its own);
`--shutdown-timeout` of the release notes of 0.11.0 is not a flag of `main.go`; a clean exit
does not wait for an audit nobody waits for, whose copy of the policy then stays; two keys
may have one secret, and which of them a client is is then a matter of their order; a TiDB
whose own version cannot be read passes for a MySQL, against the comment at
`identity.go:122`. `SessionOfItsServer` and `CleanExitDrained` state what holds.

Of the rules: a foreign key added by `ADD COLUMN ... REFERENCES` or, in MySQL, by
`ALTER TABLE ... ADD FOREIGN KEY` is not blocked by `foreign_key.forbid`, nor does the
naming of foreign keys look at ALTER TABLE (`ForeignKeysReviewed` speaks of CREATE TABLE);
both notices about ALTER VIEW come with every ALTER VIEW; merging of ALTER TABLEs is
advised by unqualified name; of several actions of ALTER TYPE or ALTER INDEX the first is
extracted; a NOT VALID constraint that is dropped again is still reported, an unnamed one
never (`AddsNotValid`, `ConstraintKey`); ALTER FUNCTION, PROCEDURE or DOMAIN ... SET SCHEMA
is accepted without a finding; RENAME TABLE is a notice where ALTER TABLE ... RENAME is a
blocker; a standalone DROP INDEX of MySQL is not a matter for `drop_index.forbid`.
`SilentStatement` and `SilentCommand` list what `NothingUnnoticed` exempts.

## Proofs

`EffectProof_proofs` proves, for every number of effects, every catalog, path, manifest
and bound, from the assumptions `EffectIdentityAssumption` and `EffectProofAssumption`
(which TLC evaluates in every run):

* `TypeCorrect`: `Spec => []TypeOK`
* `PromotionSound`: `Spec => []PromotionFromOneSnapshot`
* `SessionSound`: `Spec => []PromotedUnderOneSession`
* `FaultsSound`: `Spec => []FaultsFailClosed`
* `TransactionsClosed`: `Spec => []NoOpenTransaction`
* `Refinement`: `Spec => ImplementsContract` under `NoRivals`: for statements with COUNT(1),
  no schema has or gets a count that fits the literal but pg_catalog's own, and every path
  has pg_catalog (as `current_schemas(true)` always does); a function that has a polymorphic
  form anywhere has none that a coercion leads to; operators, casts and COUNT(*) need nothing
* `UndisturbedSound`: `Spec => []UndisturbedProofPromotes`
* `CountSound`: where no schema has or gets a count of a type the literal has or is coerced
  to, `Spec => []CountRunsAudited`, whatever polymorphic counts there are
* `ProofBounded`: `Spec => [](StepsLeft \in 0..(2*N+8)) /\ ProofAdvances`

None of these is inductive alone. A decision to promote is made long after the lookups it
rests on, so `IInv` says at every program counter what is already known: which captures
are of states the session was in (`ContextInv`), what each phase has done (`PhaseInv`),
that the types read are those of the snapshot (`TypesInv`), that a resolved item is the
identity of a routine in the snapshot, with the pin of the capture (`ItemsInv`), what the
last gate leaves resolved (`GateInv`), that a fault leaves something unresolved
(`FaultInv`), and what a promotion has validated (`DecisionInv`). `InitInv` and one lemma
per action prove it inductive. Two lemmas about PostgreSQL's rule carry it to the
properties: a match that is alone along the path may run, and nothing else may unless an
overload goes unseen (`UniqueMatchRuns`); the same holds of the count the lookup accepts
(`VisibleCountRuns`). That none goes unseen is then read off what schemas may hold at all:
`Known` is what some initial catalog has or DDL may create, and no version has more
(`OnlyKnown`, `KnownNext`). `Refinement` maps each action to one of the contract's or a
stutter; its fairness-free target leaves liveness out. Its hypothesis about counts is
needed: the lookup of COUNT(1) reads the search_path again, so if the path moves before it
and back after it, it is answered for another path than the one captured, and with a user's
`count("any")` that is not what the look saw (TLC finds this on the instance of `sessions`
with `MaxDrift` 2). Where there is none the path does not matter (`BuiltinCountRuns`).

`UndisturbedSound` goes the other way: that a proof does not refuse without a reason. DDL
and drift leave a second entry in `versions` or `sessions`, so as long as there is one of
each the session is where it was (`Steady`), and `UndisturbedInv` says at every program
counter that nothing has been refused: each capture agrees with the one before, each type
and item looked up so far is that of the one candidate (`OneMatch`), and no gate or
validation takes it away (`Trusted`, `TrustedDecision`). A step that disturbs the proof
makes the property say nothing of it from then on (`Disturbed`). The proof showed what the manifest
must be like for it: the entry of an aggregate called as COUNT(1) is the one over "any"
(`trust_manifest_pg17.go:240`), which is now part of `EffectIdentityAssumption`.

`MetadataAudit_proofs` proves, for every set of schemas and tables, every set of requests
with scripts of any length, and any amount of DDL, from `NamesAssumption` and
`ConstantsAssumption`:

* `TypeCorrect`: `Spec => []TypeOK`
* `ClientsClosed`: `Spec => []DetectedClientsReleased`
* `InferenceSound`: `Spec => []InferredSchemaWitnessed`
* `SnapshotsSound`: `Spec => []SnapshotOfNamedTable`
* `PassSound`: `Spec => []PassIsEarned`
* `FaultsSound`: `Spec => []FaultsFailAudit`
* `AllClientsClosed`: where no job gives the dialect, `Spec => []ClientsReleased`
* `SnapshotsShared`: `Spec => []SnapshotShared`
* `AuditBounded`: `Spec => [](StepsLeft \in 0..(7*Length+13)) /\ AuditAdvances`

The many actions change few things in few ways, so the lemma `Steps` first sorts every step
by what it changes: the audit ends with an outcome, only walks on, finds a schema, reads
a part of a snapshot, attaches one, and so on. Each part of `IInv` then has one lemma with
a case per kind of step. The strengthening is again what is known before the property
speaks: each target already looked up has its witness in `history` and its schema in
`resolved` (`WitnessInv`), each entry of the cache and the parts being read are of the
table their key names (`CacheInv`), each statement passed by the loop has a whole snapshot
(`TargetInv`), and nothing is known or loaded before its phase (`PhaseInv`). A pass then
follows because an absent target would have blocked (`PassedExisted`). `SnapshotsShared` is
about statements on one table: what the audit has read once it attaches to all of them,
whatever DDL makes of the table in between, because a cache entry never changes and the
name a statement's table is looked up under is settled before the first (`CacheKept`,
`SettledStays`).

`LimiterStore_proofs` proves, for any keys, any number of requests at a time, any rate,
burst, ttl, interval and pause, from `StoreAssumption` and `RefillAssumption`:
`TypeCorrect` (`Spec => []TypeOK`), `HeldSound` (`Spec => []HeldIsCurrent`) and
`Refinement` (`Spec => ImplementsRateLimit`). The invariant bounds three distances in
time: a request entered at most one pause ago (`PauseInv`), its entry was seen at most one
pause before that (`SeenInv`), a bucket was drained at most two pauses after its entry was
seen (`DrainInv`). So an entry that expires is held by nobody and its bucket is full
(`ExpiredIsFull`), and dropping it is a stutter.

`LimiterBudget_proofs` proves, from the same assumptions, what this is worth to whoever set
the limit:

* `BudgetSound`: `BudgetSpec => []WithinBudget`, in any stretch of time a key is granted no
  more than its burst and what the rate gives in it
* `DenialSound`: `BudgetSpec => DeniedWhenSpent`, no request is denied before its key has
  spent what it had when the stretch began

Each step of `BudgetSpec` is, without the observer's variables, one of the store or a
stutter (`WatchSteps`), so the store's invariant holds, and the account balances: what was
there and what came in, less what was spent, is at least what is left (`Ledger`). With the
stopwatch the instance of `limiter` has more states than its run has time for, so these
two are not properties of a run; TLC finds no error for one request at a time up to 7
ticks, nor for one key and two requests up to 4.

`HttpServer_proofs` proves, for any number of requests, any configurations, servers and
linked targets, from `ServersAssumption`: `TypeCorrect`, `HandlersRelease`
(`Spec => []HandlerReleases`), `WorkersCleanUp` (`Spec => []WorkerCleansUp`: but for the
client of a failed dialect query everything is closed and removed), `AccessIsPermitted`,
`SessionsMatch` and `CleanExitIsDrained`. `IInv` is `TypeOK`, what the process has been through
(`ProcessInv`) and, of each owner alone, `OwnerInv`: what is open at each stage of opening
a session (`StageInv`), what is left to close at each step of the handler (`HandlerInv`)
and of the worker, and where a leaked client may be (`WorkerInv`), who has been authorized
by then (`PermissionInv`), and that an open session agrees with its server (`ServerInv`).
An action is one owner's, so the lemma `OneOwner` reduces a step to that owner's part, and
`Frame` keeps everybody else's; there is one lemma per action.

* `Refinement`: `Spec => ImplementsRequestContract`

It needs one thing more, `AnswerInv`: an answer is the handler's last act but closing, and
a request that was turned away has nothing open and no goroutine that could still open
something; only an audit that was answered otherwise, by a timeout, may run on. As in
`MetadataAudit_proofs` the steps are sorted by what the contract sees of them: nothing
(`Unseen`), a request is accepted, a thing is taken, one is given back, an answer is
written, or the process moves; one lemma per kind maps it to the contract's action.

* `PromisesKept`: `Spec => [](Contract!RefusedUntouched /\ Contract!OpenedPermitted /\
  Contract!ReturnedAnswered) /\ Contract!OneWay`
* `RequestsBounded`: `Spec => [](\A o \in Owners : StepsLeft(o) \in 0..14) /\ RequestsAdvance`

`PromisesKept` is what the contract is for, derived from the contract's steps alone and
carried to the server by `Refinement`: behind a refusal nothing was ever opened, whatever
was opened was permitted, a handler that returned has answered, and nothing given back is
taken again.

`QueryAccess_proofs` proves, for any relations and columns, statements of any length, any
catalogs and any amount of DDL, from `QueryAccessAssumption`:

* `TypeCorrect`: `Spec => []TypeOK`
* `TablesSound`: `Spec => []AdmittedReadsTables`
* `ColumnsSound`: `Spec => []AdmittedColumnsExist`
* `CoverSound`: if `ReportCovers(s)` for every statement, `Spec => []AdmittedCoversReads`
* `WildcardsSound`: under the same hypothesis, `Spec => []CompleteBeforeDeadline`
* `QuietSound`: `Spec => []QuietAnalysisAdmits`
* `CompletenessSound`: if moreover names are clear and no "*" stands over several tables,
  `Spec => []PhysicalRequirementCompleteness`
* `AllTablesSound`: if moreover the extractor looks at every table that is read,
  `Spec => []TablesRequired`
* `OneAnswerSound`: `Spec => OneAnswer`
* `AnalysisBounded`: `Spec => []WithinStatement /\ AnalysisAdvances`

The extractor is arbitrary here: the first three hold whatever it reports, `CoverSound` and
`WildcardsSound` split the promise in what the extractor owes, which `resolve` checks for its statements as
`ReportCoversReads`, and what the service makes of it, which is proved. An admission is
decided after the last lookup, so `IInv` says what is known of every item that has been
settled: a cached entry is of kinds and columns that were each committed (`CacheInv`); as
long as nothing is unresolved, each relation is cached and of the kind a version had
(`RelationsInv`) and each column was in a version and is kept (`ColumnsInv`); each output
has its source (`OutputsInv`); an expanded wildcard covers one of its relations
(`ExpandedInv`), and before the deadline "*" covers all it has come to (`GlobalInv`), for
then the cache answers (`OneAnswerSound`: what a lookup has found is never looked up
again). The ways a lookup ends differ only in what they answer, so one
lemma, `LookupInv`, stands for all of them; `EndingAdmitted` and `EndingCovers` gather what
an admission leaves.

`QuietSound` is the converse: an analysis that nothing disturbs (`Quiet`) admits a statement
nothing speaks against. `QuietInv` says that the cache holds the one catalog there is
(`QuietCurrent`), that every item passed was answered, and that nothing is unresolved; one
lemma per way a lookup ends and per list shows that it stays so, and `QuietAdmission` that
requirements, builtin proof and admission then find no reason to refuse. It rests on what a
report of the extractor is like (`WellReported`, a part of `QueryAccessAssumption` that TLC
checks for every statement of the runs): only a table has an alias, a statement that
writes has that as a reason, and calls as a reason come with the calls.

`DdlAudit_proofs` proves, for scripts of any length, of any statements the models of the
extractors take and under any policy file, from `RequestsAssumption`:

* `TypeCorrect`: `Spec => []TypeOK`
* `NoticedSound`: if `FormsNoticed`, `Spec => []NothingUnnoticed`
* `ForeignKeysSound`: `Spec => []ForeignKeysReviewed`
* `NotValidSound`: `Spec => []NotValidReported`
* `ReportSound`: `Spec => []ScriptReported`
* `VerdictSound`: `Spec => []VerdictDue`
* `ScriptBounded`: `Spec => []WithinScript /\ ScriptAdvances`
* `DisablingSound`: where DISABLE is written after a blank, `Spec => []DisablingWarned`

Findings are matched to statements by number, and an unsupported statement has none, so
`NumberInv` relates a place in the script to the number among the accepted ones: no result
is that of another statement. With it a property of a script comes down to one of a
statement: `FormsNoticed` says that each form alone is noticed, a constant formula over
the rows of the rules, which the provers do not enumerate and `rules` does.
`ForeignKeysSound` opens the default policy and the suppression of the naming rules.
`NotValidSound` opens the extraction of PostgreSQL's ALTER TABLE and the global rule, whose
set of waiting constraints `PendingInv` characterises at every action: those added and not
validated since (`Waiting`). `ReportSound` says that a completed audit is a function of the
script and the policy file: what is set aside are the refused statements, and the accepted
ones are all others, in order, each with the findings due on it. For that the numbers must
also leave none over (`CoveredInv`). `VerdictSound` reads the verdict off the script in the
same way. `DisablingSound` opens the default policy and the row of the rule. With it each of
the five properties the runs refute has a theorem that says where it does hold.

What the proofs say of termination. For each sequential part there is a measure of what it
has left to do, or a place in its statement or script, and a theorem that every step of its
own lowers the one or moves the other on, that no DDL, drift, deadline, timeout, panic,
signal or other request sets it back, and that it is bounded by the size of the input:
`ProofBounded` (2N + 8 steps for N effects), `AuditBounded` (7L + 13 for a script of L
statements), `RequestsBounded` (14 for a request, its audit's goroutine included),
`AnalysisBounded` and `ScriptBounded` (by the lists of the statement and of the script).
This is the part of `ProofEnds`, `AnalysisEnds`, `AuditEnds` and `WorkersEnd` that needs no
fairness: nothing is retried and no loop depends on the environment. That a step which is
possible is taken, and that there is one until the end, is what TLC adds.

Stated by theorems and by no run: `SnapshotShared`, `OneAnswer`, `ScriptReported`,
`VerdictDue`, `WithinBudget`, `DeniedWhenSpent`, the consequences of `RequestContract` and
the bounds. Each was checked with TLC before it was proved, on the constants of the run of
its module, but for the limiter's as said above.

Only model-checked: the liveness properties (`ProofEnds`, `AnalysisEnds`, `AuditEnds`,
`WorkersEnd`, `ShutdownEnds`), since the prover takes no fairness and no ENABLED;
`ReportCoversReads`, because the extraction of queries is recursive over syntax trees and
an induction over them is out of its reach; and `FormsNoticed`, a finite table.

## Not modelled

Of the rules: those about the inside of CREATE TABLE and about added indexes, the
compatibility and type-family rules, those that compare with metadata, the denylist, and
the DML rules; all are predicates on one statement. Messages and explanations of findings.
Of extraction: the split of a text into statements, the parsers, column definitions, DML.
Output formats, the command line and MCP: formatting and I/O around the same calls. How the
providers turn rows into columns, constraints and indexes is data behind a version.
Planner estimates and lookups of objects other than tables never fail an audit and are
part of the level a statement is given. A panic while a session is being opened.

Of queries in MySQL and TiDB: casts, window functions, LIMIT, JOIN USING and tables of other
schemas. PostgreSQL's relation metadata and extraction of query access, and the barrier for
unqualified relations: only what the service does with them up to the effect proof is
modelled. That metadata is read before the proof's transaction and outside it is a known
limitation of the design, and no property speaks of it.

## Plan

1. `EffectIdentity`, `EffectProof`, `PromotionContract` with proofs - done.
2. `AuditScript`, `MetadataAudit` with proofs - done.
3. `QueryAccess` for MySQL and TiDB with proofs - done; the extraction before it, `QuerySyntax`,
   `QueryScopes` and `QueryReads` - done.
4. `OnlineSession`, `RuntimeRegistry`, `HttpServer`, `RequestContract` with proofs;
   `LimiterStore`, `RateLimit`, `LimiterBudget` with proofs - done.
5. `DdlRules` and its tables, the extractions, `PolicyDefaults`, `DdlAudit` with proofs - done.
6. The PostgreSQL path of `resolve.go` (unqualified-relation barrier, unbound names,
   `expandGlobalStar`) composed with `EffectProof` - not begun. Extraction of PostgreSQL's
   queries over the trees of `QuerySyntax`, held against `QueryReads` - not begun.
