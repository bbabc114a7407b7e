----------------------------- MODULE QueryScopes -----------------------------
(***************************************************************************)
(* What the extractor of MySQL and TiDB reports of a query                 *)
(* (infrastructure/parser/tidb/query_access.go) and the calls its effect   *)
(* collector finds (query_access_effect_collector.go).  A scope knows the  *)
(* aliases, CTE names and tables met so far in one SELECT, and the         *)
(* lineage: which references a column of a derived table or CTE stands     *)
(* for.                                                                    *)
(*                                                                         *)
(* Every table lies in the session's default schema, which the extractor   *)
(* fills in.  A reference is "bare" when it has no schema, because it      *)
(* names a derived table or a CTE.                                         *)
(***************************************************************************)
EXTENDS QuerySyntax, SequencesExt

Ref(rel, bare, col) == [rel |-> rel, bare |-> bare, col |-> col]

-----------------------------------------------------------------------------
(* Scopes.                                                                 *)

NewScope == [aliases |-> <<>>, ctes |-> {}, relations |-> <<>>, lineage |-> <<>>]

AddAlias(scope, alias, rel, bare) ==
    [scope EXCEPT !.aliases = (alias :> [rel |-> rel, bare |-> bare]) @@ @]

AddTable(scope, source) ==
    LET named == IF source.alias = "" THEN scope
                 ELSE AddAlias(scope, source.alias, source.name, FALSE)
    IN [named EXCEPT !.relations = Append(@, source.name)]

\* The columns of a derived table or CTE whose sources are known; of two outputs of
\* one name the later counts.
AddLineage(scope, name, outs) ==
    LET add(entry, out) == IF out.sources = <<>> THEN entry ELSE (out.name :> out.sources) @@ entry
    IN [scope EXCEPT !.lineage = (name :> FoldLeft(add, <<>>, outs)) @@ @]

LookupLineage(scope, rel, col) ==
    IF rel \in DOMAIN scope.lineage /\ col \in DOMAIN scope.lineage[rel]
    THEN scope.lineage[rel][col] ELSE <<>>

ResolveColumn(scope, table) ==
    IF table \in DOMAIN scope.aliases THEN scope.aliases[table]
    ELSE [rel |-> table, bare |-> table \in scope.ctes]

-----------------------------------------------------------------------------
(* Columns of an expression.                                               *)

RECURSIVE ColumnsIn(_), SubqueriesIn(_)

\* The columns the visitor meets; it does not enter subqueries.
ColumnsIn(e) ==
    IF e.e = "column" THEN <<e>>
    ELSE FlattenSeq([i \in DOMAIN Arguments(e) |-> ColumnsIn(Arguments(e)[i])])

SubqueriesIn(e) ==
    IF e.e = "subquery" THEN <<e.query>>
    ELSE FlattenSeq([i \in DOMAIN Arguments(e) |-> SubqueriesIn(Arguments(e)[i])])

\* Of a column of this table, and of a name it was written with.
SourcesAs(scope, table, name, col) ==
    IF LookupLineage(scope, name, col) # <<>> THEN LookupLineage(scope, name, col)
    ELSE <<Ref(table.rel, table.bare, col)>>

\* What a column stands for: the lineage of the name it is written with or, written
\* without one, of the only table; otherwise the column itself.
ColumnSources(scope, e) ==
    IF e.table # "" THEN SourcesAs(scope, ResolveColumn(scope, e.table), e.table, e.col)
    ELSE IF Len(scope.relations) = 1
    THEN SourcesAs(scope, [rel |-> scope.relations[1], bare |-> FALSE], scope.relations[1], e.col)
    ELSE <<>>

SourcesIn(scope, e) ==
    FlattenSeq([i \in DOMAIN ColumnsIn(e) |-> ColumnSources(scope, ColumnsIn(e)[i])])

\* The column referred to: the table of its first source, and its own name.
Renamed(sources, col) ==
    [i \in DOMAIN sources \cap {1} |-> Ref(sources[i].rel, sources[i].bare, col)]

ColumnFact(scope, e) == Renamed(ColumnSources(scope, e), e.col)

AmbiguousColumn(scope, e) == e.table = "" /\ Len(scope.relations) > 1

-----------------------------------------------------------------------------
(* Calls: the effect collector.  It enters everything, and a nested query  *)
(* keeps the scope around it.  A call on a column of a derived table or    *)
(* CTE is never proven, because these bar the proof; its operand is left   *)
(* as it is written.                                                       *)

RECURSIVE CollectExpression(_, _), CollectQuery(_, _), CollectResultSet(_, _)

ArgumentsThatAre(call, kind) == {i \in DOMAIN call.args : call.args[i].e = kind}

Operands(scope, call) ==
    UNION {Range(ColumnFact(scope, call.args[i])) : i \in ArgumentsThatAre(call, "column")}

\* appendFunctionCall, candidateColumnRef: an operand that is neither a literal nor a
\* column of a known table leaves the call unproven.
Candidate(scope, call) ==
    [c        |-> "call",
     provable |-> /\ call.known
                  /\ \A i \in DOMAIN call.args :
                       \/ call.args[i].e = "literal"
                       \/ call.args[i].e = "column" /\ ColumnSources(scope, call.args[i]) # <<>>,
     constant |-> call.args # <<>> /\ ArgumentsThatAre(call, "literal") = DOMAIN call.args,
     operands |-> Operands(scope, call)]

Unqualified == [c |-> "unqualified"]

Unsupported == [c |-> "unsupported", provable |-> FALSE, constant |-> FALSE, operands |-> {}]

CollectAll(exprs, scope) == UNION {CollectExpression(exprs[i], scope) : i \in DOMAIN exprs}

CollectExpression(e, scope) ==
    CASE e.e = "subquery" -> CollectQuery(e.query, scope)
      [] e.e = "call"     -> {Candidate(scope, e)} \cup CollectAll(e.args, scope)
      [] OTHER            -> CollectAll(Arguments(e), scope)

CollectWith(ctes) == UNION {CollectQuery(ctes[i].query, NewScope) : i \in DOMAIN ctes}

\* acc: the scope, and what has been found.
AddCollected(acc, exprs) == [acc EXCEPT !.found = @ \cup CollectAll(exprs, acc.scope)]

CollectResultSet(acc, source) ==
    CASE source.s = "table" ->
            [scope |-> AddTable(acc.scope, source),
             found |-> acc.found \cup IF source.qualified THEN {} ELSE {Unqualified}]
      [] source.s = "derived" ->
            LET scope == AddAlias(acc.scope, source.alias, source.alias, TRUE)
            IN [scope |-> scope, found |-> acc.found \cup CollectQuery(source.query, scope)]
      [] source.s = "join" ->
            AddCollected(FoldLeft(CollectResultSet, acc, <<source.left, source.right>>), source.on)

FieldExpressions(fields) ==
    LET exprs == [i \in DOMAIN fields |-> IF fields[i].f = "star" THEN <<>> ELSE <<fields[i].expr>>]
    IN FlattenSeq(exprs)

\* A UNION in a UNION is not known to the collector, and makes the calls unproven.
CollectQuery(query, scope) ==
    CASE query.q = "select" ->
            CollectWith(query.with)
               \cup AddCollected(FoldLeft(CollectResultSet, [scope |-> scope, found |-> {}], query.from),
                                 FieldExpressions(query.fields) \o query.where \o query.rest).found
      [] query.q = "union" ->
            CollectWith(query.with)
               \cup UNION {CollectQuery(query.selects[i], scope) : i \in DOMAIN query.selects}
               \cup IF \E i \in DOMAIN query.selects : query.selects[i].q = "union"
                    THEN {Unsupported} ELSE {}
      [] query.q = "explain" -> CollectQuery(query.query, scope)
      [] query.q = "write"   -> {}

\* nodeHasFunctionCall.
HasCall(e) == \E x \in CollectExpression(e, NewScope) : x.c = "call"

-----------------------------------------------------------------------------
(* What is reported of a query.                                            *)

NoFacts == [class |-> "read_only", rels |-> <<>>, refs |-> <<>>, outs |-> <<>>,
            stars |-> <<>>, ambiguous |-> FALSE, reasons |-> {}]

Written == [NoFacts EXCEPT !.class = "not_read_only", !.reasons = {"write_operation"}]

Relation(kind, name, alias) ==
    [NoFacts EXCEPT !.rels = <<[kind |-> kind, name |-> name, alias |-> alias]>>]

\* The facts of g added to those of f, except its outputs and its classification.
Plus(f, g) ==
    [f EXCEPT !.rels = @ \o g.rels, !.refs = @ \o g.refs, !.stars = @ \o g.stars,
              !.ambiguous = @ \/ g.ambiguous, !.reasons = @ \cup g.reasons]

\* The columns of an expression, and whether it calls anything.
Referred(scope, columns, calls) ==
    [NoFacts EXCEPT
       !.refs      = FlattenSeq([i \in DOMAIN columns |-> ColumnFact(scope, columns[i])]),
       !.ambiguous = \E i \in DOMAIN columns : AmbiguousColumn(scope, columns[i]),
       !.reasons   = IF calls THEN {"function_call"} ELSE {}]

ExpressionFacts(scope, e) == Referred(scope, ColumnsIn(e), HasCall(e))

\* exprDisplayName: the text of an expression is nobody's name.
OutputName(field) ==
    IF field.as # "" THEN field.as
    ELSE IF field.expr.e = "column" THEN field.expr.col ELSE "?"

FieldFacts(scope, field) ==
    IF field.f = "star" THEN [NoFacts EXCEPT !.stars = <<field.table>>]
    ELSE ExpressionFacts(scope, field.expr)

Output(scope, field) ==
    IF field.f = "star" THEN [name |-> field.table, star |-> TRUE, sources |-> <<>>]
    ELSE [name |-> OutputName(field), star |-> FALSE, sources |-> SourcesIn(scope, field.expr)]

RECURSIVE AnalyzeQueryNode(_, _), ProcessResultSetNode(_, _)

\* A mistake: the subqueries of WHERE are not looked at.
BugSubqueriesSkipped(scope, e) == NoFacts

\* Of the subqueries of WHERE, the relations and what is unresolved.
SubqueryFacts(scope, e) ==
    LET add(f, query) ==
            Plus(f, [AnalyzeQueryNode(query, NewScope) EXCEPT !.refs = <<>>, !.reasons = {}])
    IN FoldLeft(add, NoFacts, SubqueriesIn(e))

\* In what follows acc is the scope and the facts so far.

AddExpression(acc, e) == [acc EXCEPT !.facts = Plus(@, ExpressionFacts(acc.scope, e))]

AddWhere(acc, e) ==
    [AddExpression(acc, e) EXCEPT !.facts = Plus(@, SubqueryFacts(acc.scope, e))]

AddField(acc, field) ==
    [acc EXCEPT !.facts = [Plus(@, FieldFacts(acc.scope, field)) EXCEPT
                             !.outs = Append(@, Output(acc.scope, field))]]

\* A query under a name: its relation, its facts, and the lineage of its outputs.
AddQuery(acc, kind, name, body) ==
    [scope |-> AddLineage(acc.scope, name, body.outs),
     facts |-> Plus(Plus(acc.facts, Relation(kind, name, "")), body)]

\* The body of a CTE sees the lineage of the earlier ones and nothing else.
ProcessCTE(acc, cte) ==
    AddQuery([acc EXCEPT !.scope.ctes = @ \cup {cte.name}], "cte", cte.name,
             AnalyzeQueryNode(cte.query, [NewScope EXCEPT !.lineage = acc.scope.lineage]))

\* A derived UNION is no case of the code, and nothing of it is reported.
ProcessResultSetNode(acc, source) ==
    CASE source.s = "table" ->
            [scope |-> AddTable(acc.scope, source),
             facts |-> Plus(acc.facts, Relation("table", source.name, source.alias))]
      [] source.s = "derived" /\ source.query.q = "select" ->
            AddQuery([acc EXCEPT !.scope = AddAlias(@, source.alias, source.alias, TRUE)],
                     "derived", source.alias, AnalyzeQueryNode(source.query, NewScope))
      [] source.s = "derived" /\ source.query.q # "select" -> acc
      [] source.s = "join" ->
            FoldLeft(AddExpression,
                     FoldLeft(ProcessResultSetNode, acc, <<source.left, source.right>>), source.on)

Classified(f) ==
    [f EXCEPT !.class = IF f.reasons # {} \/ f.stars # <<>> \/ f.ambiguous
                        THEN "indeterminate" ELSE "read_only"]

AnalyzeSelect(sel, scope) ==
    LET with   == FoldLeft(ProcessCTE, [scope |-> scope, facts |-> NoFacts], sel.with)
        from   == FoldLeft(ProcessResultSetNode, with, sel.from)
        fields == FoldLeft(AddField, from, sel.fields)
        where  == FoldLeft(AddWhere, fields, sel.where)
    IN IF sel.lock THEN Written
       ELSE Classified(FoldLeft(AddExpression, where, sel.rest).facts)

FoldClassifications(classes) ==
    IF "not_read_only" \in classes THEN "not_read_only"
    ELSE IF "indeterminate" \in classes THEN "indeterminate" ELSE "read_only"

\* A UNION within a UNION is not analysed, and the WITH of a UNION is not looked at.
AnalyzeSetOperation(query) ==
    LET child(q) == IF q.q = "select" THEN AnalyzeQueryNode(q, NewScope)
                    ELSE [NoFacts EXCEPT !.class = "indeterminate",
                                         !.reasons = {"unsupported_node"}]
        add(f, g) == [Plus(f, g) EXCEPT !.outs = @ \o g.outs,
                                        !.class = FoldClassifications({@, g.class})]
    IN FoldLeft(LAMBDA f, q : add(f, child(q)), NoFacts, query.selects)

AnalyzeQueryNode(query, scope) ==
    IF query.q = "select" THEN AnalyzeSelect(query, scope) ELSE AnalyzeSetOperation(query)

\* An EXPLAIN is read-only, whatever it explains.
AnalyzeStatement(query) ==
    CASE query.q = "explain" -> NoFacts
      [] query.q = "write"   -> Written
      [] OTHER               -> AnalyzeQueryNode(query, NewScope)

-----------------------------------------------------------------------------
(* The statement the service resolves.                                     *)

\* deduplicateRelations: by schema and name, so that a second alias of a table is lost.
DeduplicateRelations(rels) ==
    LET same(r, t) == r.name = t.name /\ (r.kind = "table" <=> t.kind = "table")
        add(kept, r) == IF \E t \in Range(kept) : same(r, t) THEN kept ELSE Append(kept, r)
    IN FoldLeft(add, <<>>, rels)

MergeColumnFacts(refs) ==
    FoldLeft(LAMBDA kept, r : IF r \in Range(kept) THEN kept ELSE Append(kept, r), <<>>, refs)

Effects(found) ==
    LET candidates == found \ {Unqualified}
    IN IF candidates = {} THEN "none"
       ELSE IF Unqualified \in found \/ \E x \in candidates : ~x.provable THEN "unproven"
       ELSE IF \A x \in candidates : x.constant THEN "constant" ELSE "proven"

StatementOf(facts, found, mode) ==
    LET shown == {o.name : o \in {p \in Range(facts.outs) : p.star}}
    IN [rels      |-> DeduplicateRelations(facts.rels),
        refs      |-> MergeColumnFacts(facts.refs),
        outs      |-> FlattenSeq([i \in DOMAIN facts.outs |-> facts.outs[i].sources]),
        stars     |-> [i \in DOMAIN facts.stars |->
                         [ref |-> facts.stars[i], out |-> facts.stars[i] \in shown]],
        mode      |-> mode,
        class     |-> facts.class,
        reasons   |-> facts.reasons,
        ambiguous |-> facts.ambiguous,
        effects   |-> Effects(found),
        operands  |-> UNION {x.operands : x \in found \ {Unqualified}}]

ExtractQueryAccess(query, mode) ==
    StatementOf(AnalyzeStatement(query), CollectQuery(query, NewScope), mode)
=============================================================================
