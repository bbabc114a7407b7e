----------------------------- MODULE QuerySyntax -----------------------------
(***************************************************************************)
(* The syntax trees of SELECT statements, as far as the extraction of      *)
(* query access looks at them.  Names are strings; "" stands for a name    *)
(* that is not written.  An optional part is a sequence of at most one.    *)
(* Operators on values, predicates, IN and EXISTS are all "operator"; a    *)
(* call is "known" when the builtin manifest has an entry for it.          *)
(* Casts, windows, LIMIT and JOIN ... USING are left out.                  *)
(***************************************************************************)
EXTENDS Sequences

Literal           == [e |-> "literal"]
Column(t, c)      == [e |-> "column", table |-> t, col |-> c]
Operator(args)    == [e |-> "operator", args |-> args]
Call(known, args) == [e |-> "call", known |-> known, args |-> args]
Subquery(query)   == [e |-> "subquery", query |-> query]

Field(expr, as) == [f |-> "expression", expr |-> expr, as |-> as]
Star(t)         == [f |-> "star", table |-> t]            \* Star("*") is *

\* A table is "qualified" when its schema is written.
Source(name, alias, qualified) ==
    [s |-> "table", name |-> name, alias |-> alias, qualified |-> qualified]
Derived(query, alias)  == [s |-> "derived", query |-> query, alias |-> alias]
Joined(left, right, on) == [s |-> "join", left |-> left, right |-> right, on |-> on]

\* "rest" holds the expressions of GROUP BY, HAVING and ORDER BY.
Select(fields, from, where) ==
    [q |-> "select", with |-> <<>>, fields |-> fields, from |-> from, where |-> where,
     rest |-> <<>>, lock |-> FALSE]
Union(selects) == [q |-> "union", with |-> <<>>, selects |-> selects]
With(ctes, query) == [query EXCEPT !.with = ctes]
Cte(name, query)  == [name |-> name, query |-> query]
Explain(query) == [q |-> "explain", query |-> query]
Write          == [q |-> "write"]

Arguments(e) == IF e.e \in {"operator", "call"} THEN e.args ELSE <<>>
=============================================================================
