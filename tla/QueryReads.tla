------------------------------ MODULE QueryReads ------------------------------
(***************************************************************************)
(* What a query reads, by the meaning of SQL and whatever the extractor    *)
(* makes of it: the definition QueryScopes is held against.  A column is   *)
(* <<table, column>>.                                                      *)
(*                                                                         *)
(* Of each query: the tables it reads; those of them the extractor looks   *)
(* at ("covered"); the columns it names and the tables it reads all        *)
(* columns of, outside subqueries of expressions; and what it shows.  An   *)
(* unqualified column over a derived table or CTE, and one that comes      *)
(* through a wildcard, count where they are written in the inner query     *)
(* only.                                                                   *)
(***************************************************************************)
EXTENDS QuerySyntax, SequencesExt

NoReads == [tables |-> {}, covered |-> {}, columns |-> {}, wild |-> {}, outs |-> <<>>]

\* What f and g read together; the outputs are those of f.
And(f, g) ==
    [f EXCEPT !.tables = @ \cup g.tables, !.covered = @ \cup g.covered,
              !.columns = @ \cup g.columns, !.wild = @ \cup g.wild]

\* Read, but not looked at.
Unseen(f) == [f EXCEPT !.covered = {}, !.columns = {}, !.wild = {}]

-----------------------------------------------------------------------------
(* A source of a FROM clause: a table, or the outputs of an inner query.   *)
(* An output has the columns it is computed of, and the table whose        *)
(* columns it all shows, if it is a wildcard.                              *)

TableSource(name, table)  == [name |-> name, table |-> table, outs |-> <<>>]
QuerySource(name, outs)   == [name |-> name, table |-> "", outs |-> outs]

OutputsNamed(source, col) == {i \in DOMAIN source.outs : source.outs[i].name = col}

ThroughSource(source, col) ==
    IF source.table # "" THEN {<<source.table, col>>}
    ELSE UNION {source.outs[i].columns : i \in OutputsNamed(source, col)}

ReadsOfColumn(sources, e) ==
    IF e.table # ""
    THEN UNION {ThroughSource(s, e.col) : s \in {x \in sources : x.name = e.table}}
    ELSE IF \E s \in sources : s.table = "" THEN {}
    ELSE UNION {ThroughSource(s, e.col) : s \in sources}

StarOf(sources, table) ==
    IF table = "*" THEN sources ELSE {s \in sources : s.name = table}

RECURSIVE ReadsOfExpression(_, _), NestedIn(_)

\* The columns of an expression outside its subqueries.
ReadsOfExpression(sources, e) ==
    IF e.e = "column" THEN ReadsOfColumn(sources, e)
    ELSE UNION {ReadsOfExpression(sources, a) : a \in Range(Arguments(e))}

\* Its subqueries.
NestedIn(e) ==
    IF e.e = "subquery" THEN {e.query}
    ELSE UNION {NestedIn(a) : a \in Range(Arguments(e))}

-----------------------------------------------------------------------------
(* Queries.                                                                *)

RECURSIVE ReadsOf(_, _), AddSource(_, _)

\* The tables of the subqueries of an expression; they are looked at in WHERE, unless
\* they are locked.
NestedReads(e, ctes, where) ==
    LET read(query) == ReadsOf(query, ctes)
        looked(query) == where /\ (query.q = "select" => ~query.lock)
    IN [NoReads EXCEPT
          !.tables  = UNION {read(query).tables : query \in NestedIn(e)},
          !.covered = UNION {read(query).covered : query \in {n \in NestedIn(e) : looked(n)}}]

ExpressionReads(sources, e, ctes, where) ==
    And([NoReads EXCEPT !.columns = ReadsOfExpression(sources, e)], NestedReads(e, ctes, where))

\* ctes: of each CTE in scope, its outputs.
AddSource(acc, item) ==
    CASE item.s = "table" ->
            LET name == IF item.alias = "" THEN item.name ELSE item.alias
            IN IF item.name \in DOMAIN acc.ctes /\ ~item.qualified
               THEN [acc EXCEPT !.sources = @ \cup {QuerySource(name, acc.ctes[item.name])}]
               ELSE [acc EXCEPT !.sources = @ \cup {TableSource(name, item.name)},
                                !.reads.tables = @ \cup {item.name},
                                !.reads.covered = @ \cup {item.name}]
      [] item.s = "derived" ->
            LET body == ReadsOf(item.query, acc.ctes)
                looked == item.query.q = "select"
            IN [acc EXCEPT !.sources = @ \cup {QuerySource(item.alias,
                                                            IF looked THEN body.outs ELSE <<>>)},
                           !.reads = And(@, IF looked THEN body ELSE Unseen(body))]
      [] item.s = "join" ->
            LET both == AddSource(AddSource(acc, item.left), item.right)
            IN [both EXCEPT !.reads =
                  FoldLeft(LAMBDA f, e : And(f, ExpressionReads(both.sources, e, both.ctes, FALSE)),
                           @, item.on)]

AddCte(acc, cte) ==
    LET body == ReadsOf(cte.query, acc.ctes)
    IN [acc EXCEPT !.ctes = (cte.name :> body.outs) @@ @, !.reads = And(@, body)]

FieldReads(sources, field, ctes) ==
    IF field.f = "expression" THEN ExpressionReads(sources, field.expr, ctes, FALSE)
    ELSE [NoReads EXCEPT !.wild = {s.table : s \in StarOf(sources, field.table)} \ {""}]

\* The outputs of one field: a wildcard over an inner query has that one's.
OutputsOf(sources, field) ==
    LET column == [name |-> IF field.as # "" THEN field.as
                            ELSE IF field.expr.e = "column" THEN field.expr.col ELSE "?",
                   columns |-> ReadsOfExpression(sources, field.expr), wild |-> {}]
        starred == StarOf(sources, field.table)
    IN IF field.f = "expression" THEN <<column>>
       ELSE <<[name |-> "*", columns |-> {}, wild |-> {s.table : s \in starred} \ {""}]>>
            \o FlattenSeq(SetToSeq({s.outs : s \in starred}))

ReadsOfSelect(sel, ctes) ==
    LET acc0 == [ctes |-> ctes, sources |-> {}, reads |-> NoReads]
        from == FoldLeft(AddSource, FoldLeft(AddCte, acc0, sel.with), sel.from)
        read(f, e) == And(f, ExpressionReads(from.sources, e, from.ctes, FALSE))
        fields == FoldLeft(LAMBDA f, x : And(f, FieldReads(from.sources, x, from.ctes)),
                           from.reads, sel.fields)
        where == FoldLeft(LAMBDA f, e : And(f, ExpressionReads(from.sources, e, from.ctes, TRUE)),
                          fields, sel.where)
    IN [FoldLeft(read, where, sel.rest) EXCEPT
          !.outs = FlattenSeq([i \in DOMAIN sel.fields |-> OutputsOf(from.sources, sel.fields[i])])]

\* The columns of a UNION are named by its first SELECT and computed of all.
ReadsOfUnion(query, ctes) ==
    LET with == FoldLeft(AddCte, [ctes |-> ctes, sources |-> {}, reads |-> NoReads], query.with)
        child(i) == ReadsOf(query.selects[i], with.ctes)
        outs == child(1).outs
        also(k) == {child(i).outs[k] : i \in {j \in DOMAIN query.selects : k \in DOMAIN child(j).outs}}
        all == FoldLeft(LAMBDA f, g : And(f, g), Unseen(with.reads),
                        [i \in DOMAIN query.selects |-> child(i)])
    IN [all EXCEPT !.outs = [k \in DOMAIN outs |->
          [outs[k] EXCEPT !.columns = UNION {o.columns : o \in also(k)},
                          !.wild = UNION {o.wild : o \in also(k)}]]]

\* EXPLAIN reads no data, and a statement that writes is not asked.
ReadsOf(query, ctes) ==
    CASE query.q = "select" -> ReadsOfSelect(query, ctes)
      [] query.q = "union"  -> ReadsOfUnion(query, ctes)
      [] OTHER              -> NoReads

-----------------------------------------------------------------------------
(* Names.                                                                  *)

RECURSIVE NamesOfItem(_), NamesOfQuery(_)

NamesOfExpressions(exprs) ==
    UNION {NamesOfQuery(query) : query \in UNION {NestedIn(exprs[i]) : i \in DOMAIN exprs}}

\* Every name a source is called by, and what it calls: <<alias, name>>, <<name, name>>.
NamesOfItem(item) ==
    CASE item.s = "table"   -> {<<item.name, item.name>>}
                               \cup IF item.alias = "" THEN {} ELSE {<<item.alias, item.name>>}
      [] item.s = "derived" -> {<<item.alias, item.alias>>} \cup NamesOfQuery(item.query)
      [] item.s = "join"    -> NamesOfItem(item.left) \cup NamesOfItem(item.right)
                               \cup NamesOfExpressions(item.on)

NamesOfQuery(query) ==
    CASE query.q = "select" ->
            LET fields == SelectSeq(query.fields, LAMBDA f : f.f = "expression")
            IN UNION {NamesOfItem(x) : x \in Range(query.from)}
               \cup UNION {NamesOfQuery(cte.query) : cte \in Range(query.with)}
               \cup NamesOfExpressions([i \in DOMAIN fields |-> fields[i].expr])
               \cup NamesOfExpressions(query.where \o query.rest)
      [] query.q = "union" ->
            UNION {NamesOfQuery(cte.query) : cte \in Range(query.with)}
               \cup UNION {NamesOfQuery(x) : x \in Range(query.selects)}
      [] OTHER -> {}

\* Each name calls one thing throughout the statement.
Clear(query) == \A m, n \in NamesOfQuery(query) : m[1] = n[1] => m[2] = n[2]

\* The reads of a statement, for the properties of QueryAccess.
Reads(query) ==
    LET all == ReadsOf(query, <<>>)
        show == Range(all.outs)
    IN [tables    |-> all.tables,
        covered   |-> all.covered,
        columns   |-> all.columns,
        wild      |-> all.wild,
        shown     |-> UNION {o.columns : o \in show},
        shownWild |-> UNION {o.wild : o \in show},
        clear     |-> Clear(query)]
=============================================================================
