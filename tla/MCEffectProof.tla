----------------------------- MODULE MCEffectProof -----------------------------
(***************************************************************************)
(* Small instances of EffectProof: two schemas, two column types, one      *)
(* coerced to the other, and a catalog whose pg_catalog holds the audited  *)
(* routines. An operator is exact on both types; COUNT has a star form and *)
(* a polymorphic one, called with a column or with 1.                      *)
(***************************************************************************)
EXTENDS EffectProof

MCArgs == {"int4", "float8", "any", "none"}

MCCoercible == [t \in {"int4", "float8"} |-> IF t = "int4" THEN {"float8"} ELSE {}]

\* The audited routines: symbol, argument, kind of the effect that calls it.
AuditedRoutines ==
  { <<"eq", "int4", "operator">>, <<"count1", "any", "function">>,
    <<"count1", "any", "count">>, <<"count0", "none", "star">> }

MCManifest ==
  { [kind |-> r[3], sym |-> r[1], ns |-> "pg_catalog", arg |-> r[2], body |-> "builtin"] :
      r \in AuditedRoutines }

\* The other operator exists but is not audited here.
MCRoutine ==
  [k \in Symbols \X Namespaces \X MCArgs |->
     IF k[2] = "pg_catalog" /\ \E r \in AuditedRoutines : r[1] = k[1] /\ r[2] = k[3]
     THEN "builtin"
     ELSE IF k = <<"eq", "pg_catalog", "float8">> THEN "unaudited" ELSE "nobody"]

Catalog0(column) == [column |-> column, routine |-> MCRoutine]

Cand(kind, sym, schema) == [kind |-> kind, sym |-> sym, schema |-> schema]

Eq           == Cand("operator", "eq", "unqualified")
EqQualified  == Cand("operator", "eq", "pg_catalog")
CountColumn  == Cand("function", "count1", "unqualified")
CountStar    == Cand("star", "count0", "unqualified")
CountOne     == Cand("count", "count1", "unqualified")
Cast         == Cand("outside", "eq", "unqualified")

MCPaths == { <<"pg_catalog", "public">>, <<"public", "pg_catalog">>, <<"pg_catalog">> }

\* Columns: both typed so that the operator is audited, or only one of them.
ColumnCatalogs == { Catalog0([o \in Candidates |-> "int4"]),
                    Catalog0([o \in Candidates |-> IF o = 1 THEN "int4" ELSE "float8"]) }
OneCatalog     == { Catalog0([o \in Candidates |-> "int4"]) }

ColumnShapes == {Eq, EqQualified, CountColumn, CountStar, Cast}
CountShapes  == {CountStar, CountOne, Cast}

PublicEqCount == { <<"eq", "public", "int4">>, <<"count1", "public", "int4">> }

\* public already offers count(int4), or count(float8).
OverloadCatalog ==
  { [c EXCEPT !.routine[<<"count1", "public", t>>] = "user"] : c \in OneCatalog,
                                                               t \in {"int4", "float8"} }
NoRoutine == {}

Ident0 == [binding |-> "b1", role |-> "app", pin |-> "db16v17"]

\* One backend, under any of the search paths.
OneSession == [ident : {Ident0}, path : MCPaths]

\* The smallest interesting environments.
SessionShapes == {Eq, CountOne}
PublicCount == { <<"count1", "public", "any">>, <<"count1", "public", "float8">> }
=============================================================================
