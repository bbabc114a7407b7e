----------------------------- MODULE MCQueryAccess -----------------------------
(***************************************************************************)
(* Small instances of QueryAccess: two relations with up to two columns,   *)
(* and queries of the shapes that extraction and resolution tell apart,    *)
(* taken through the extractor of QueryScopes.                             *)
(***************************************************************************)
EXTENDS QueryAccess, QueryScopes, QueryReads

MCNames == {"r1", "r2", "a", "b", "d", "x"}

-----------------------------------------------------------------------------
(* Queries.                                                                *)

One  == <<Source("r1", "", FALSE)>>
Two  == <<Source("r2", "", FALSE)>>
Both == <<Joined(Source("r1", "", FALSE), Source("r2", "", FALSE), <<>>)>>

Show(t, c)    == Field(Column(t, c), "")
All           == <<Star("*")>>
Equal(e, f)   == Operator(<<e, f>>)

Of(t, c, from) == Select(<<Show(t, c)>>, from, <<>>)

\* SELECT r1.c1 FROM r1 JOIN r2 ON r1.c2 = r2.c2 WHERE r2.c1 = '...'
Join ==
  Select(<<Show("r1", "c1")>>,
         <<Joined(Source("r1", "", FALSE), Source("r2", "", FALSE),
                  <<Equal(Column("r1", "c2"), Column("r2", "c2"))>>)>>,
         <<Equal(Column("r2", "c1"), Literal)>>)

\* SELECT c1, LOWER(c2) FROM db.r1
Lower == Select(<<Show("", "c1"), Field(Call(TRUE, <<Column("", "c2")>>), "")>>,
                <<Source("r1", "", TRUE)>>, <<>>)

\* SELECT r1.c1 FROM r1 AS r2, r2 AS r1
Swapped == Of("r1", "c1", <<Joined(Source("r1", "r2", FALSE), Source("r2", "r1", FALSE), <<>>)>>)

\* SELECT d.c2 FROM (SELECT c1 AS c2, a.* FROM r1 AS a) AS d
RenamedColumn ==
  Of("d", "c2", <<Derived(Select(<<Field(Column("", "c1"), "c2"), Star("a")>>,
                                 <<Source("r1", "a", FALSE)>>, <<>>), "d")>>)

\* SELECT d.* FROM (SELECT r1.c1 FROM r1) AS d
DerivedStar == Select(<<Star("d")>>, <<Derived(Of("r1", "c1", One), "d")>>, <<>>)

\* WITH x AS (SELECT r1.c1 FROM r1) SELECT x.c1 FROM x
CommonTable == With(<<Cte("x", Of("r1", "c1", One))>>,
                    Of("x", "c1", <<Source("x", "", FALSE)>>))

\* WITH r2 AS (SELECT r1.c2 FROM r1) SELECT r2.c2 FROM r2
Shadowing == With(<<Cte("r2", Of("r1", "c2", One))>>, Of("r2", "c2", Two))

\* SELECT r1.c1 FROM r1 WHERE r1.c2 IN (SELECT r2.c1 FROM r2)
InSubquery == [Of("r1", "c1", One) EXCEPT !.where =
                 <<Equal(Column("r1", "c2"), Subquery(Of("r2", "c1", Two)))>>]

\* SELECT r1.c1 FROM r1 WHERE EXISTS (SELECT * FROM r2)
Exists == [Of("r1", "c1", One) EXCEPT !.where =
             <<Operator(<<Subquery(Select(All, Two, <<>>))>>)>>]

\* SELECT a.* FROM r1 AS a JOIN r1 AS b
SelfJoin(t) == Select(<<Star(t)>>,
                      <<Joined(Source("r1", "a", FALSE), Source("r1", "b", FALSE), <<>>)>>, <<>>)

\* SELECT r1.c1 FROM r1 UNION SELECT c2 FROM r2
OfBoth == Union(<<Of("r1", "c1", One), Of("", "c2", Two)>>)

Locked == [Of("r1", "c1", One) EXCEPT !.lock = TRUE]

WithReads(query, mode) == ExtractQueryAccess(query, mode) @@ [reads |-> Reads(query)]

InBothModes(queries) ==
  {WithReads(query, mode) : query \in queries, mode \in {"strict", "projection_only"}}

InStrict(queries) == {WithReads(query, "strict") : query \in queries}

MCStatements ==
  InBothModes({Join, RenamedColumn, InSubquery, OfBoth})
    \cup InStrict({Select(All, Both, <<>>), Select(<<Star("r1"), Star("r2")>>, Both, <<>>),
                   Lower, Swapped, DerivedStar, CommonTable, Shadowing, Exists,
                   SelfJoin("b"), Locked, Explain(Join), Write,
                   Select(<<Field(Literal, "")>>, <<>>, <<>>),
                   Select(<<Field(Call(TRUE, <<Literal>>), "")>>, <<>>, <<>>),
                   Select(<<Field(Call(FALSE, <<Column("", "c1")>>), "")>>, One, <<>>),
                   Of("", "c1", Both), Union(<<OfBoth, Of("r1", "c2", One)>>)})
    \cup {WithReads(Select(All, Both, <<>>), "projection_only")}

\* SELECT * FROM r1, r2 and nothing else.
StarStatements == InStrict({Select(All, Both, <<>>)})

\* SELECT r1.c1, (SELECT r2.c1 FROM r2) FROM r1
\* SELECT d.c1 FROM (SELECT r1.c1 FROM r1 UNION SELECT c2 FROM r2) AS d
SubqueryStatements ==
  InBothModes({Select(<<Show("r1", "c1"), Field(Subquery(Of("r2", "c1", Two)), "")>>, One, <<>>),
               Of("d", "c1", <<Derived(OfBoth, "d")>>)})

-----------------------------------------------------------------------------
(* Catalogs.                                                               *)

Table(cs) == [kind |-> "table", cols |-> cs]
View(cs)  == [kind |-> "view", cols |-> cs]
Other     == [kind |-> "other", cols |-> {"c1"}]
Absent    == [kind |-> "absent", cols |-> {}]

MCCatalogs ==
  { [r \in Relations |-> Table({"c1", "c2"})],
    [r \in Relations |-> IF r = "r1" THEN Table({"c1"}) ELSE View({"c1", "c2"})],
    [r \in Relations |-> IF r = "r1" THEN Table({"c1", "c2"}) ELSE Absent],
    [r \in Relations |-> IF r = "r1" THEN Table({"c1", "c2"}) ELSE Other] }

\* A column dropped, a table replaced by a view, a relation dropped.
MCReplacements == { Table({"c1", "c2"}), Table({"c1"}), View({"c1", "c2"}), Absent }

TableCatalog == { [r \in Relations |-> Table({"c1", "c2"})] }
=============================================================================
