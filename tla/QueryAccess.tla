------------------------------ MODULE QueryAccess ------------------------------
(***************************************************************************)
(* The analysis of one MySQL or TiDB statement on an online session:       *)
(* Service.Analyze (service.go) with the metadata resolution of resolve.go *)
(* and the requirements of requirements.go, while other sessions run DDL,  *)
(* metadata queries fail, and the request's deadline passes.               *)
(*                                                                         *)
(* Resolution goes through the relations, the column references, the       *)
(* sources of the outputs and the wildcards of a statement, one lookup     *)
(* after the other.  Each is answered by the request's cache or by two     *)
(* queries: one for the relation's kind, one for its columns.  A failed    *)
(* lookup is not cached.                                                   *)
(***************************************************************************)
EXTENDS Integers, Sequences, FiniteSets

CONSTANTS
  Relations,    \* tables and views of the session's default schema
  Names,        \* what a statement may call a relation, an alias or a derived table
  Cols,
  Statements,   \* the statements analysed
  Catalogs0,    \* catalogs the system may start with
  AllRelations, \* the wildcard "*"
  NoName,       \* no relation, no alias
  NoEntry,      \* no metadata
  Replacements, \* what DDL may put in a relation's place
  MaxDDL        \* bound: catalog changes per behaviour

Kinds  == {"table", "view", "other", "absent"}
Entry  == {e \in [kind : Kinds, cols : SUBSET Cols] : e.kind = "absent" => e.cols = {}}
Catalog == [Relations -> Entry]

\* A reference to a column; "bare" when it is of a derived table or CTE and has no
\* schema.
Reference == [rel : Names, bare : BOOLEAN, col : Cols]

\* What the extractor reports of a statement: its relations, its column references,
\* the references its outputs are computed of, its wildcards and whether they are
\* outputs, its classification and the reasons for it, and of its calls whether the
\* builtin manifest proves them, and the columns they are applied to.  "reads" is
\* what the statement reads in truth, for the properties.
Statement ==
  [rels      : Seq([kind : {"table", "cte", "derived"}, name : Names, alias : Names \cup {NoName}]),
   refs      : Seq(Reference),
   outs      : Seq(Reference),
   stars     : Seq([ref : Names \cup {AllRelations}, out : BOOLEAN]),
   mode      : {"strict", "projection_only"},
   class     : {"read_only", "indeterminate", "not_read_only"},
   reasons   : SUBSET {"function_call", "write_operation", "unsupported_node"},
   ambiguous : BOOLEAN,
   effects   : {"none", "constant", "proven", "unproven"},
   operands  : SUBSET Reference,
   reads     : [tables : SUBSET Relations, covered : SUBSET Relations,
                columns : SUBSET (Relations \X Cols), shown : SUBSET (Relations \X Cols),
                wild : SUBSET Relations, shownWild : SUBSET Relations, clear : BOOLEAN]]

\* What the TiDB extractor's reports have in common (query_access.go): only a table
\* has an alias (:445), a statement that writes has its own reason (:141), and a
\* reason about a call comes with a candidate for its effect, as both walk the same
\* expressions (:210, query_access_effect_collector.go:229).
WellReported(s) ==
  /\ \A i \in DOMAIN s.rels : s.rels[i].alias # NoName => s.rels[i].kind = "table"
  /\ s.class = "not_read_only" => ~(s.reasons \subseteq {"function_call"})
  /\ s.effects = "none" => "function_call" \notin s.reasons

ASSUME QueryAccessAssumption ==
  /\ Relations \subseteq Names
  /\ Statements \subseteq Statement
  /\ \A s \in Statements : WellReported(s)
  /\ Catalogs0 \subseteq Catalog
  /\ AllRelations \notin Names /\ NoName \notin Names
  /\ NoEntry \notin Entry
  /\ Replacements \subseteq Entry
  /\ MaxDDL \in Nat

VARIABLES
  catalog,    \* the committed catalog
  ddl,        \* catalog changes so far
  expired,    \* the deadline of the request has passed
  pc,         \* start, the list resolution is at, done
  stmt,
  k,          \* the item of that list
  j,          \* the relation of a wildcard
  kindRead,   \* what the first query of a lookup answered, "none" before it
  cache,      \* schemaCache
  kinds,      \* the kind of each relation reference
  unresolved, \* unresolved references: [ref, reason]
  columns,    \* referenced columns, those of expanded wildcards included
  sources,    \* sources of the outputs
  expanded,   \* wildcards that expanded
  result,     \* what Analyze returns
  versions,   \* history: the catalogs committed since the analysis began
  missed,     \* history: relations whose own lookup failed
  faulted     \* history: a metadata query failed

dbVars   == <<catalog, ddl, versions>>
factVars == <<kinds, unresolved, columns, sources, expanded, missed>>
walkVars == <<pc, k, j>>
vars == <<dbVars, factVars, walkVars, expired, stmt, kindRead, cache, result, faulted>>

Lists == {"relations", "columns", "outputs", "wildcards"}

\* A reference that is unresolved: <<r, r>> for relation r, <<r, c>> for its column c,
\* <<star, star>> for a wildcard, <<NoName, NoName>> for an ambiguous column.
Unresolved == [ref : (Names \cup {AllRelations, NoName}) \X (Names \cup Cols \cup {AllRelations, NoName}),
               reason : {"missing_metadata", "relation_not_found", "column_not_found",
                         "unresolved_wildcard", "schema_unavailable", "ambiguous_reference"}]

NoResult == [class |-> "none", admission |-> "none", tables |-> {}, columns |-> {}]

Result == [class     : {"none", "error", "read_only", "indeterminate", "not_read_only"},
           admission : {"none", "admissible", "indeterminate", "rejected"},
           tables    : SUBSET Names,
           columns   : SUBSET (Names \X Cols)]

TypeOK ==
  /\ catalog \in Catalog /\ versions \subseteq Catalog /\ ddl \in 0..MaxDDL
  /\ expired \in BOOLEAN /\ faulted \in BOOLEAN
  /\ pc \in Lists \cup {"start", "done"} /\ stmt \in Statement
  /\ k \in Nat \ {0} /\ j \in Nat \ {0}
  /\ kindRead \in Kinds \cup {"none"}
  /\ cache \in [Relations -> Entry \cup {NoEntry}]
  /\ kinds \in [Relations -> {"table", "view"}]
  /\ unresolved \subseteq Unresolved
  /\ columns \subseteq Names \X Cols /\ sources \subseteq Names \X Cols
  /\ expanded \subseteq Nat
  /\ missed \subseteq Names /\ result \in Result

-----------------------------------------------------------------------------
(* Names.                                                                  *)

Items(s, list) ==
  CASE list = "relations" -> s.rels
    [] list = "columns"   -> s.refs
    [] list = "outputs"   -> s.outs
    [] list = "wildcards" -> s.stars

Tables(s) == {i \in DOMAIN s.rels : s.rels[i].kind = "table"}

\* resolveRelationRef: the last relation with this alias, or the table of this name;
\* a derived table or CTE is none.
ResolveRelationRef(s, n) ==
  LET aliased == {i \in DOMAIN s.rels : s.rels[i].alias = n}
  IN  IF aliased # {}
      THEN s.rels[CHOOSE i \in aliased : \A h \in aliased : h <= i].name
      ELSE IF \E i \in Tables(s) : s.rels[i].name = n THEN n ELSE NoName

\* Where no schema is required, one that is missing is the default one.
InDefaultSchema(s, n) ==
  IF ResolveRelationRef(s, n) = NoName THEN n ELSE ResolveRelationRef(s, n)

\* expandGlobalWildcard covers the tables of the whole statement, expandTableWildcard
\* the one it names.
StarRelations(s, star) ==
  IF star.ref = AllRelations
  THEN [i \in DOMAIN s.rels |-> IF i \in Tables(s) THEN s.rels[i].name ELSE NoName]
  ELSE <<InDefaultSchema(s, star.ref)>>

\* The relation the current item looks up, if it looks up one.
Current ==
  LET item == Items(stmt, pc)[k]
  IN  CASE pc = "relations" -> IF item.kind = "table" THEN item.name ELSE NoName
        [] pc = "columns"   -> ResolveRelationRef(stmt, item.rel)
        [] pc = "outputs"   -> InDefaultSchema(stmt, item.rel)
        [] pc = "wildcards" -> IF j <= Len(StarRelations(stmt, item))
                               THEN StarRelations(stmt, item)[j] ELSE NoName

EntryOf(cat, n) == IF n \in Relations THEN cat[n] ELSE [kind |-> "absent", cols |-> {}]

CacheOf(n) == IF n \in Relations THEN cache[n] ELSE NoEntry

Init ==
  /\ catalog \in Catalogs0 /\ versions = {catalog} /\ ddl = 0
  /\ expired \in BOOLEAN /\ faulted = FALSE /\ missed = {}
  /\ pc = "start" /\ stmt \in Statements /\ k = 1 /\ j = 1 /\ kindRead = "none"
  /\ cache = [r \in Relations |-> NoEntry]
  /\ kinds = [r \in Relations |-> "table"]
  /\ unresolved = {} /\ columns = {} /\ sources = {} /\ expanded = {}
  /\ result = NoResult

-----------------------------------------------------------------------------
(* The environment.                                                        *)

\* CREATE, DROP, ALTER or RENAME by another session.
Alter(r, e) ==
  /\ ddl < MaxDDL /\ e # catalog[r] /\ pc # "done"
  /\ catalog' = [catalog EXCEPT ![r] = e]
  /\ ddl' = ddl + 1
  /\ versions' = versions \cup {catalog'}
  /\ UNCHANGED <<factVars, walkVars, expired, stmt, kindRead, cache, result, faulted>>

\* The deadline timeoutMiddleware put on the request passes.
Expire ==
  /\ ~expired /\ pc # "done"
  /\ expired' = TRUE
  /\ UNCHANGED <<dbVars, factVars, walkVars, stmt, kindRead, cache, result, faulted>>

-----------------------------------------------------------------------------
(* Metadata resolution.                                                    *)

\* The checks of the context before and in the extraction.
Start ==
  /\ pc = "start"
  /\ IF expired
     THEN pc' = "done" /\ result' = [NoResult EXCEPT !.class = "error"]
     ELSE pc' = "relations" /\ UNCHANGED result
  /\ UNCHANGED <<dbVars, factVars, k, j, expired, stmt, kindRead, cache, faulted>>

\* Resolution of a relation reference.
SettleRelation(r, entry) ==
  /\ IF entry = NoEntry
     THEN /\ unresolved' = unresolved \cup
               {[ref |-> <<r, r>>, reason |-> IF expired /\ kindRead = "none"
                                       THEN "missing_metadata"
                                       ELSE "relation_not_found"]}
          /\ missed' = missed \cup {r}
          /\ UNCHANGED kinds
     ELSE /\ kinds' = [kinds EXCEPT ![r] = entry.kind]
          /\ UNCHANGED <<unresolved, missed>>
  /\ UNCHANGED <<columns, sources, expanded>>

\* What a reference that does not resolve stays; without a schema it names no object
\* that could be required.
Kept(ref) == IF ref.bare THEN {} ELSE {<<ref.rel, ref.col>>}

\* A column that is not there is dropped.
BugColumnDropped(r, ref, entry) ==
  /\ columns' = IF entry # NoEntry /\ ref.col \in entry.cols
                THEN columns \cup {<<r, ref.col>>} ELSE columns
  /\ UNCHANGED <<unresolved, kinds, sources, expanded, missed>>

\* resolveQualifiedColumn: the reference stays, resolved or not.
SettleColumn(r, ref, entry) ==
  /\ IF entry # NoEntry /\ ref.col \in entry.cols
     THEN columns' = columns \cup {<<r, ref.col>>} /\ UNCHANGED unresolved
     ELSE /\ columns' = columns \cup Kept(ref)
          /\ unresolved' = unresolved \cup
               {[ref |-> <<r, ref.col>>, reason |-> "column_not_found"]}
  /\ UNCHANGED <<kinds, sources, expanded, missed>>

\* resolveSourceKeys: whether there is such a column is not asked.
SettleOutput(r, ref, entry) ==
  /\ sources' = sources \cup {<<IF entry = NoEntry THEN ref.rel ELSE r, ref.col>>}
  /\ UNCHANGED <<unresolved, kinds, columns, expanded, missed>>

\* expandGlobalWildcard and expandTableWildcard: a relation that cannot be looked up
\* is passed over, and the wildcard has expanded when one of its relations has.  An
\* output of the wildcard's name takes the columns for its sources.
SettleStar(r, star, entry) ==
  /\ IF entry = NoEntry
     THEN UNCHANGED <<columns, sources, expanded>>
     ELSE /\ columns' = columns \cup ({r} \X entry.cols)
          /\ sources' = IF star.out THEN sources \cup ({r} \X entry.cols) ELSE sources
          /\ expanded' = expanded \cup {k}
  /\ UNCHANGED <<unresolved, kinds, missed>>

\* A failed lookup is tried again until it is answered.
BugRetryUntilAnswered(entry) ==
  LET item == Items(stmt, pc)[k]
  IN  /\ kindRead' = "none" /\ UNCHANGED pc
      /\ IF entry = NoEntry THEN UNCHANGED <<factVars, k, j>>
         ELSE /\ IF pc = "wildcards" THEN j' = j + 1 /\ UNCHANGED k ELSE k' = k + 1 /\ UNCHANGED j
              /\ \/ pc = "relations" /\ SettleRelation(Current, entry)
                 \/ pc = "columns"   /\ SettleColumn(Current, item, entry)
                 \/ pc = "outputs"   /\ SettleOutput(Current, item, entry)
                 \/ pc = "wildcards" /\ SettleStar(Current, item, entry)

\* A lookup has been answered, NoEntry standing for every failure.
Settle(entry) ==
  LET item == Items(stmt, pc)[k]
  IN  /\ kindRead' = "none" /\ UNCHANGED pc
      /\ IF pc = "wildcards" THEN j' = j + 1 /\ UNCHANGED k ELSE k' = k + 1 /\ UNCHANGED j
      /\ \/ pc = "relations" /\ SettleRelation(Current, entry)
         \/ pc = "columns"   /\ SettleColumn(Current, item, entry)
         \/ pc = "outputs"   /\ SettleOutput(Current, item, entry)
         \/ pc = "wildcards" /\ SettleStar(Current, item, entry)

Resolving == pc \in Lists /\ k <= Len(Items(stmt, pc))

LookingUp == Resolving /\ Current # NoName

\* An item without a lookup: a derived table or CTE, a reference to one, the end of a
\* wildcard.
Skip ==
  /\ Resolving /\ Current = NoName
  /\ IF pc = "wildcards" /\ j < Len(StarRelations(stmt, Items(stmt, pc)[k]))
     THEN j' = j + 1 /\ UNCHANGED k
     ELSE k' = k + 1 /\ j' = 1
  /\ columns' = IF pc = "columns" THEN columns \cup Kept(Items(stmt, pc)[k]) ELSE columns
  /\ UNCHANGED <<dbVars, pc, kinds, unresolved, sources, expanded, missed, expired, stmt,
                 kindRead, cache, result, faulted>>

NextList ==
  [relations |-> "columns", columns |-> "outputs", outputs |-> "wildcards"]

EndList ==
  /\ pc \in DOMAIN NextList /\ k > Len(Items(stmt, pc))
  /\ pc' = NextList[pc] /\ k' = 1 /\ j' = 1
  /\ UNCHANGED <<dbVars, factVars, expired, stmt, kindRead, cache, result, faulted>>

\* resolveSchema answers without a query: nothing once the context is over, even
\* if the cache has it.
Answered ==
  /\ LookingUp /\ kindRead = "none"
  /\ expired \/ CacheOf(Current) # NoEntry
  /\ Settle(IF expired THEN NoEntry ELSE CacheOf(Current))
  /\ UNCHANGED <<dbVars, expired, stmt, cache, result, faulted>>

\* ResolveRelation's first query.
ReadKind ==
  /\ LookingUp /\ kindRead = "none" /\ ~expired /\ CacheOf(Current) = NoEntry
  /\ \/ /\ EntryOf(catalog, Current).kind # "absent"
        /\ kindRead' = EntryOf(catalog, Current).kind
        /\ UNCHANGED <<factVars, walkVars, faulted>>
     \/ /\ EntryOf(catalog, Current).kind = "absent"
        /\ Settle(NoEntry)
        /\ UNCHANGED faulted
     \/ /\ Settle(NoEntry)
        /\ faulted' = TRUE
  /\ UNCHANGED <<dbVars, expired, stmt, cache, result>>

\* A relation that is neither table nor view passes.
BugOtherAccepted ==
  /\ LookingUp /\ kindRead # "none"
  /\ LET entry == [kind |-> kindRead, cols |-> EntryOf(catalog, Current).cols]
     IN  IF expired
         THEN Settle(NoEntry) /\ UNCHANGED <<cache, faulted>>
         ELSE /\ cache' = [cache EXCEPT ![Current] = entry]
              /\ Settle(entry)
              /\ UNCHANGED faulted
  /\ UNCHANGED <<dbVars, expired, stmt, result>>

\* Its second query, after which a relation that is no table or view is an error.
ReadColumns ==
  /\ LookingUp /\ kindRead # "none"
  /\ LET entry == [kind |-> kindRead, cols |-> EntryOf(catalog, Current).cols]
     IN  \/ /\ ~expired /\ kindRead # "other"
            /\ cache' = [cache EXCEPT ![Current] = entry]
            /\ Settle(entry)
            /\ UNCHANGED faulted
         \/ /\ expired \/ kindRead = "other"
            /\ Settle(NoEntry)
            /\ UNCHANGED <<cache, faulted>>
         \/ /\ ~expired
            /\ Settle(NoEntry)
            /\ faulted' = TRUE
            /\ UNCHANGED cache
  /\ UNCHANGED <<dbVars, expired, stmt, result>>

-----------------------------------------------------------------------------
(* The rest of Analyze.                                                    *)

Refs(items, indices) == {items[i].ref : i \in indices}

\* Unresolved references are forgotten with the wildcards that expanded.
BugFilterForgets ==
  {u \in unresolved : AllRelations \notin Refs(stmt.stars, expanded)}
    \cup {[ref |-> <<stmt.stars[i].ref, stmt.stars[i].ref>>, reason |-> "unresolved_wildcard"] :
            i \in DOMAIN stmt.stars \ expanded}

\* filterResolvedUnresolved: what the extractor left unresolved, its entries of
\* wildcards that expanded excepted; one entry more for each wildcard that did not;
\* and everything else unresolved.
FinalUnresolved ==
  unresolved
    \cup (IF stmt.ambiguous
          THEN {[ref |-> <<NoName, NoName>>, reason |-> "ambiguous_reference"]} ELSE {})
    \cup {[ref |-> <<star, star>>, reason |-> "schema_unavailable"] :
            star \in Refs(stmt.stars, DOMAIN stmt.stars) \ Refs(stmt.stars, expanded)}
    \cup {[ref |-> <<stmt.stars[i].ref, stmt.stars[i].ref>>, reason |-> "unresolved_wildcard"] :
            i \in DOMAIN stmt.stars \ expanded}

\* The view barrier looks at nothing.
BugViewIgnored == FALSE

HasView == \E i \in Tables(stmt) : stmt.rels[i].name \in Relations
                                  /\ kinds[stmt.rels[i].name] = "view"

\* The modes are confused.
BugModesConfused == IF stmt.mode = "strict" THEN sources ELSE columns

\* buildRequirements: strict mode requires the referenced columns, projection only
\* the sources of the outputs; both require every table.
RequiredColumns == IF stmt.mode = "strict" THEN columns ELSE sources

RequiredTables == {stmt.rels[i].name : i \in Tables(stmt)}

\* strictPhysicalRequirementsComplete: tables alone, every column of one, and the
\* columns calls are applied to among the required ones.
StrictPhysicalRequirementsComplete ==
  /\ stmt.mode = "strict" /\ FinalUnresolved = {}
  /\ stmt.rels # << >> /\ Tables(stmt) = DOMAIN stmt.rels /\ ~HasView
  /\ \A i \in DOMAIN stmt.refs : ~stmt.refs[i].bare
  /\ \A i \in DOMAIN stmt.stars : ~stmt.stars[i].out
  /\ \A ref \in stmt.operands : ~ref.bare /\ <<ref.rel, ref.col>> \in RequiredColumns

\* relationlessLiteralRequirementsComplete: calls on literals alone.
RelationlessLiteralRequirementsComplete ==
  /\ stmt.mode = "strict" /\ FinalUnresolved = {} /\ stmt.effects = "constant"
  /\ stmt.rels = << >> /\ stmt.refs = << >> /\ \A i \in DOMAIN stmt.stars : ~stmt.stars[i].out

\* Statements without effects need a proof too.
BugProofAlwaysRequired ==
  /\ stmt.effects # "unproven"
  /\ StrictPhysicalRequirementsComplete

\* orchestratePromotionProof.
AllowsPromotion ==
  /\ ~HasView
  /\ \/ stmt.effects = "none"
     \/ /\ stmt.effects \in {"proven", "constant"}
        /\ StrictPhysicalRequirementsComplete \/ RelationlessLiteralRequirementsComplete

\* The reasons left after the proof, which takes those of the calls away.
Reasons ==
  (IF HasView THEN {"view_expansion_required"} ELSE {})
    \cup (IF stmt.effects # "none" /\ AllowsPromotion
          THEN stmt.reasons \ {"function_call"} ELSE stmt.reasons)

\* The view barrier, then reclassifyAfterResolution.
FinalClass ==
  LET barred == IF HasView /\ stmt.class # "not_read_only" THEN "indeterminate" ELSE stmt.class
  IN  IF barred = "indeterminate" /\ AllowsPromotion /\ Reasons = {}
         /\ \A u \in FinalUnresolved : u.reason \notin {"schema_unavailable", "unresolved_wildcard"}
      THEN "read_only" ELSE barred

\* recomputeAdmission.
FinalAdmission ==
  IF FinalClass = "not_read_only" THEN "rejected"
  ELSE IF FinalUnresolved = {} /\ FinalClass = "read_only" THEN "admissible"
  ELSE "indeterminate"

Finish ==
  /\ pc = "wildcards" /\ k > Len(stmt.stars)
  /\ pc' = "done"
  /\ unresolved' = FinalUnresolved
  /\ result' = [class     |-> IF FinalAdmission = "indeterminate" THEN "indeterminate"
                              ELSE FinalClass,
                admission |-> FinalAdmission,
                tables    |-> RequiredTables,
                columns   |-> RequiredColumns]
  /\ UNCHANGED <<dbVars, kinds, columns, sources, expanded, missed, expired, stmt, k, j,
                 kindRead, cache, faulted>>

Analysis == Start \/ Skip \/ EndList \/ Answered \/ ReadKind \/ ReadColumns \/ Finish

Next == Analysis \/ Expire \/ \E r \in Relations, e \in Replacements : Alter(r, e)

\* One goroutine runs the analysis; every query of it returns or fails.
Spec == Init /\ [][Next]_vars /\ WF_vars(Analysis)

-----------------------------------------------------------------------------
(* What the extractor's report promises of a statement that may yet be     *)
(* admitted.                                                               *)

Promotable(s) ==
  /\ ~s.ambiguous
  /\ \/ s.class = "read_only"
     \/ s.class = "indeterminate" /\ s.reasons \subseteq {"function_call"}
  /\ \A i \in DOMAIN s.stars : \/ s.stars[i].ref = AllRelations
                              \/ InDefaultSchema(s, s.stars[i].ref) \in Relations

ReportsTables(s) == \A r \in s.reads.covered : \E i \in Tables(s) : s.rels[i].name = r

ReportsColumns(s) ==
  IF s.mode = "strict"
  THEN \A rc \in s.reads.columns : \E i \in DOMAIN s.refs :
         <<ResolveRelationRef(s, s.refs[i].rel), s.refs[i].col>> = rc
  ELSE \A rc \in s.reads.shown : \E i \in DOMAIN s.outs :
         /\ <<s.outs[i].rel, s.outs[i].col>> = rc
         /\ InDefaultSchema(s, s.outs[i].rel) = s.outs[i].rel

\* The relations whose columns all have to be required: those a wildcard reads, or
\* in projection_only shows.
WildOf(s) == IF s.mode = "strict" THEN s.reads.wild ELSE s.reads.shownWild

ReportsWildcards(s) ==
  \A r \in WildOf(s) : \E i \in DOMAIN s.stars :
    /\ \E m \in DOMAIN StarRelations(s, s.stars[i]) : StarRelations(s, s.stars[i])[m] = r
    /\ s.mode = "strict" \/ s.stars[i].out

ReportCovers(s) ==
  Promotable(s) => /\ ReportsTables(s)
                   /\ s.reads.clear => ReportsColumns(s) /\ ReportsWildcards(s)

\* What a statement reads is in the extractor's report of it: in both modes its tables,
\* and where each name calls one relation the columns and the wildcards.  Aliases,
\* lineage and scopes of the extractor (query_access.go:130) and the second resolution
\* of names (resolve.go:104) agree.  This is all that the theorems about complete
\* requirements take from the extractor.
ReportCoversReads == ReportCovers(stmt)

-----------------------------------------------------------------------------
(* What an admission promises.                                             *)

Admitted == result.admission = "admissible"

Strict == stmt.mode = "strict"

ColumnsOf(r) == {rc[2] : rc \in {rd \in result.columns : rd[1] = r}}

Wild == WildOf(stmt)

\* Every column of r is required, in one committed version.
AllRequired(r) == \E v \in versions : v[r].cols \subseteq ColumnsOf(r)

\* "Every permission-bearing physical source implied by the SQL is represented by
\* the result's requirements before admission can be promoted" (CONTEXT.md:97):
\* an admitted statement's wildcards are covered by its requirements.
PhysicalRequirementCompleteness == Admitted => \A r \in Wild : AllRequired(r)

\* What the code keeps of it: the wildcards of an admitted statement are covered,
\* except where "*" is over several tables and the deadline passed during the
\* analysis (resolve.go:566), and where one name calls two relations (resolve.go:104).
CompleteBeforeDeadline ==
  Admitted /\ stmt.reads.clear => \A r \in Wild :
    \/ AllRequired(r)
    \/ /\ expired /\ Cardinality(Tables(stmt)) > 1
       /\ AllRelations \in Refs(stmt.stars, DOMAIN stmt.stars)

\* No admitted statement reads a relation that was a view, or was no relation at
\* all, in every version of the catalog since its analysis began, nor one whose own
\* lookup failed, though a later lookup of the same analysis may have succeeded
\* (service.go:150, resolve.go:197).
AdmittedReadsTables ==
  Admitted => \A r \in RequiredTables :
    /\ r \notin missed /\ r \in result.tables
    /\ \E v \in versions : EntryOf(v, r).kind = "table"

\* Every column an admitted strict statement refers to, by the relation its name
\* resolves to, was there and is required.
AdmittedColumnsExist ==
  Admitted /\ Strict => \A i \in DOMAIN stmt.refs :
    LET r == ResolveRelationRef(stmt, stmt.refs[i].rel)
    IN  r # NoName => /\ <<r, stmt.refs[i].col>> \in result.columns
                      /\ \E v \in versions : stmt.refs[i].col \in EntryOf(v, r).cols

\* The requirements of an admitted statement cover what it reads, through aliases,
\* derived tables, CTEs and UNIONs: in both modes its tables, and where each name
\* calls one relation, in strict mode the columns it names outside subqueries of
\* expressions, in projection_only those it shows (query_access.go:542, :590).  The
\* tables of derived UNIONs, of a UNION's WITH, and of subqueries outside WHERE are
\* left out; see TablesRequired.
AdmittedCoversReads ==
  Admitted =>
    /\ stmt.reads.covered \subseteq result.tables
    /\ stmt.reads.clear =>
         (IF Strict THEN stmt.reads.columns ELSE stmt.reads.shown) \subseteq result.columns

\* "Table permission remains strict in both modes because a table used only in a
\* join, subquery, or predicate still contributes information to the result"
\* (docs/decisions/2026-07-11-query-access-analysis-foundation.md:318): an admitted
\* statement requires every table it reads.
TablesRequired == Admitted => stmt.reads.tables \subseteq result.tables

\* A statement is refused for a reason: in a quiet catalog, with no failure and in
\* time, one that reads tables and columns that exist and names none ambiguously,
\* whose wildcards are over tables, and whose calls, if any, are proven ones on
\* required columns in strict mode with nothing but tables, is admitted.
QuietAnalysisAdmits ==
  (/\ pc = "done" /\ ~faulted /\ ~expired /\ versions = {catalog}
   /\ stmt.reasons \subseteq {"function_call"} /\ ~stmt.ambiguous
   /\ \A i \in Tables(stmt) : EntryOf(catalog, stmt.rels[i].name).kind = "table"
   /\ \A i \in DOMAIN stmt.refs :
        LET r == ResolveRelationRef(stmt, stmt.refs[i].rel)
        IN  r # NoName => stmt.refs[i].col \in EntryOf(catalog, r).cols
   /\ \A i \in DOMAIN stmt.stars :
        IF stmt.stars[i].ref = AllRelations THEN Tables(stmt) # {}
        ELSE ResolveRelationRef(stmt, stmt.stars[i].ref) # NoName
   /\ \/ stmt.effects = "none"
      \/ /\ stmt.effects \in {"proven", "constant"} /\ Strict /\ stmt.stars = << >>
         /\ Tables(stmt) = DOMAIN stmt.rels
         /\ stmt.rels = << >> => stmt.effects = "constant" /\ stmt.refs = << >>
         /\ \A i \in DOMAIN stmt.refs : ~stmt.refs[i].bare
         /\ \A ref \in stmt.operands : ~ref.bare /\ <<ref.rel, ref.col>> \in columns)
  => Admitted

\* Every analysis ends, in an answer or an error.
AnalysisEnds == <>(pc = "done")

\* Where the analysis is: the list, the item, the wildcard's relation, the query.
Rank == [start |-> 0, relations |-> 1, columns |-> 2, outputs |-> 3, wildcards |-> 4,
         done |-> 5]

Onwards ==
  \/ Rank[pc] < Rank[pc']
  \/ pc = pc' /\ k < k'
  \/ pc = pc' /\ k = k' /\ j < j'
  \/ pc = pc' /\ k = k' /\ j = j' /\ kindRead = "none" /\ kindRead' # "none"

\* The places it can be at are those of the statement.
WithinStatement ==
  /\ pc \in Lists => k \in 1..(Len(Items(stmt, pc)) + 1)
  /\ pc = "wildcards" /\ k <= Len(stmt.stars)
       => j \in 1..(Len(StarRelations(stmt, stmt.stars[k])) + 1)

\* The analysis goes through the statement once: every step of it goes on to a later
\* item, or from the first query of a lookup to the second, and neither DDL nor the
\* deadline moves it.  A failed lookup is not tried again (resolve.go:197).
AnalysisAdvances ==
  [][IF Analysis THEN Onwards ELSE UNCHANGED <<walkVars, kindRead>>]_vars

\* All references to a relation are resolved against one answer: what a lookup has
\* found is not looked up again, whatever DDL has made of it since (resolve.go:88).
OneAnswer == [][\A r \in Relations : cache[r] # NoEntry => cache'[r] = cache[r]]_vars
=============================================================================
