------------------------- MODULE QueryAccess_proofs -------------------------
(***************************************************************************)
(* Proofs about QueryAccess, for any relations and columns, statements of  *)
(* any length, any catalogs and any amount of DDL.  What the extractor     *)
(* reports is arbitrary; where a theorem needs it to be complete, it says  *)
(* so.                                                                     *)
(***************************************************************************)
EXTENDS QueryAccess, TLAPS, WellFoundedInduction, FiniteSetTheorems

NameOf(i) == stmt.rels[i].name

\* What a lookup of r may answer: its kind and its columns were each true of a
\* committed version, though perhaps not of one and the same.
Available(r, entry) ==
  /\ r \in Relations /\ entry \in Entry /\ entry.kind \in {"table", "view"}
  /\ \E v \in versions : v[r].kind = entry.kind
  /\ \E v \in versions : v[r].cols = entry.cols

\* Items of a list that have been dealt with, before the analysis ends.
After == [relations |-> {"columns", "outputs", "wildcards"},
          columns   |-> {"outputs", "wildcards"},
          outputs   |-> {"wildcards"},
          wildcards |-> {}]

Settled(list, i) == pc \in After[list] \/ (pc = list /\ i < k)

\* All columns r has in one version are referenced and, for a wildcard that is an
\* output, are sources.
CoveredIn(cols, srcs, vers, r, out) ==
  /\ r \in Relations
  /\ \E v \in vers : /\ {r} \X v[r].cols \subseteq cols
                     /\ out => {r} \X v[r].cols \subseteq srcs

Covered(r, out) == CoveredIn(columns, sources, versions, r, out)

-----------------------------------------------------------------------------
(* The inductive invariant.                                                *)

\* Nothing is returned before the end.
ResultInv ==
  /\ pc # "done" => result = NoResult
  /\ pc = "start" => k = 1
  /\ catalog \in versions /\ stmt \in Statements

CacheInv == \A r \in Relations : cache[r] # NoEntry => Available(r, cache[r])

\* Between the two queries of a lookup.
KindReadInv ==
  kindRead # "none" =>
    /\ LookingUp /\ Current \in Relations /\ cache[Current] = NoEntry
    /\ kindRead # "absent"
    /\ \E v \in versions : v[Current].kind = kindRead

RelationsInv ==
  /\ missed # {} => unresolved # {}
  /\ unresolved = {} => \A i \in Tables(stmt) : Settled("relations", i) =>
       /\ NameOf(i) \in Relations /\ cache[NameOf(i)] # NoEntry
       /\ \E v \in versions : v[NameOf(i)].kind = kinds[NameOf(i)]

ColumnsInv ==
  unresolved = {} => \A i \in DOMAIN stmt.refs :
    LET r == ResolveRelationRef(stmt, stmt.refs[i].rel)
    IN  Settled("columns", i) /\ r # NoName =>
          /\ r \in Relations /\ <<r, stmt.refs[i].col>> \in columns
          /\ \E v \in versions : stmt.refs[i].col \in v[r].cols

OutputsInv ==
  \A i \in DOMAIN stmt.outs : Settled("outputs", i) =>
    \/ <<stmt.outs[i].rel, stmt.outs[i].col>> \in sources
    \/ <<InDefaultSchema(stmt, stmt.outs[i].rel), stmt.outs[i].col>> \in sources

\* A wildcard has expanded when one of its relations is covered.
ExpandedInv ==
  \A i \in expanded :
    /\ i \in DOMAIN stmt.stars
    /\ IF stmt.stars[i].ref = AllRelations
       THEN \E m \in Tables(stmt) : Covered(NameOf(m), stmt.stars[i].out)
       ELSE Covered(InDefaultSchema(stmt, stmt.stars[i].ref), stmt.stars[i].out)

\* Before the deadline "*" covers every table it has come to.
GlobalInv ==
  ~expired /\ unresolved = {} =>
    \A i \in DOMAIN stmt.stars, m \in Tables(stmt) :
      /\ stmt.stars[i].ref = AllRelations
      /\ Settled("wildcards", i) \/ (pc = "wildcards" /\ i = k /\ m < j)
      => Covered(NameOf(m), stmt.stars[i].out)

FactInv == RelationsInv /\ ColumnsInv /\ OutputsInv /\ ExpandedInv /\ GlobalInv

\* What Finish concludes, whatever the extractor reports.
DoneInv ==
  AdmittedReadsTables /\ AdmittedColumnsExist
    /\ (ReportCovers(stmt) => AdmittedCoversReads /\ CompleteBeforeDeadline)

IInv == TypeOK /\ ResultInv /\ CacheInv /\ KindReadInv /\ FactInv /\ DoneInv

-----------------------------------------------------------------------------
(* Statements and the names in them.                                       *)

\* A set of indices has a greatest one: the last relation with an alias exists.
LEMMA Greatest ==
  ASSUME NEW n \in Nat, NEW S \in SUBSET (1..n), S # {}
  PROVE  \E m \in S : \A h \in S : h <= m
<1> DEFINE T == {n - h : h \in S}
<1>0. \A h \in S : h \in Nat /\ h <= n
  OBVIOUS
<1>1. T \subseteq Nat /\ T # {}
  <2>1. \A h \in S : n - h \in Nat /\ n - h \in T
    BY <1>0
  <2>2. T # {}
    BY <2>1
  <2>3. ASSUME NEW x \in T PROVE x \in Nat
    BY <1>0, <2>1
  <2> QED BY <2>2, <2>3
<1>2. PICK x \in T : \A y \in T : <<y, x>> \notin OpToRel(<, Nat)
  <2> HIDE DEF T
  <2> QED BY <1>1, WFMin, NatLessThanWellFounded
<1>3. \A y \in T : ~(y < x)
  BY <1>1, <1>2 DEF OpToRel
<1>4. PICK m \in S : x = n - m
  BY <1>2
<1>5. ASSUME NEW h \in S PROVE h <= m
  <2>1. n - h \in T
    OBVIOUS
  <2>2. ~(n - h < n - m)
    BY <1>3, <1>4, <2>1
  <2>3. h \in Nat /\ m \in Nat
    BY <1>0
  <2> QED BY <2>2, <2>3
<1> QED BY <1>5

LEMMA Elements ==
  ASSUME NEW S, NEW q \in Seq(S)
  PROVE  Len(q) \in Nat /\ DOMAIN q = 1..Len(q) /\ \A i \in DOMAIN q : q[i] \in S
  OBVIOUS

LEMMA StatementParts ==
  ASSUME NEW s \in Statement
  PROVE  /\ Len(s.rels) \in Nat /\ DOMAIN s.rels = 1..Len(s.rels)
         /\ \A i \in DOMAIN s.rels : /\ s.rels[i].kind \in {"table", "cte", "derived"}
                                     /\ s.rels[i].name \in Names
         /\ Len(s.refs) \in Nat /\ DOMAIN s.refs = 1..Len(s.refs)
         /\ \A i \in DOMAIN s.refs : /\ s.refs[i].rel \in Names
                                     /\ s.refs[i].col \in Cols /\ s.refs[i].bare \in BOOLEAN
         /\ Len(s.outs) \in Nat /\ DOMAIN s.outs = 1..Len(s.outs)
         /\ \A i \in DOMAIN s.outs : s.outs[i].rel \in Names /\ s.outs[i].col \in Cols
         /\ Len(s.stars) \in Nat /\ DOMAIN s.stars = 1..Len(s.stars)
         /\ \A i \in DOMAIN s.stars : /\ s.stars[i].ref \in Names \cup {AllRelations}
                                      /\ s.stars[i].out \in BOOLEAN
         /\ s.mode \in {"strict", "projection_only"}
         /\ s.class \in {"read_only", "indeterminate", "not_read_only"}
         /\ s.ambiguous \in BOOLEAN
         /\ s.reads.wild \subseteq Relations /\ s.reads.shownWild \subseteq Relations
         /\ s.reads.clear \in BOOLEAN
<1>1. /\ s.rels \in Seq([kind : {"table", "cte", "derived"}, name : Names,
                         alias : Names \cup {NoName}])
      /\ s.refs \in Seq(Reference) /\ s.outs \in Seq(Reference)
      /\ s.stars \in Seq([ref : Names \cup {AllRelations}, out : BOOLEAN])
      /\ s.mode \in {"strict", "projection_only"}
      /\ s.class \in {"read_only", "indeterminate", "not_read_only"}
      /\ s.ambiguous \in BOOLEAN
      /\ s.reads.wild \subseteq Relations /\ s.reads.shownWild \subseteq Relations
      /\ s.reads.clear \in BOOLEAN
  BY DEF Statement
<1>2. \A i \in DOMAIN s.rels : s.rels[i] \in [kind : {"table", "cte", "derived"}, name : Names,
                                              alias : Names \cup {NoName}]
  BY <1>1, Elements
<1>3. \A i \in DOMAIN s.refs : s.refs[i] \in Reference
  BY <1>1
<1>4. \A i \in DOMAIN s.outs : s.outs[i] \in Reference
  BY <1>1
<1>5. \A i \in DOMAIN s.stars : s.stars[i] \in [ref : Names \cup {AllRelations}, out : BOOLEAN]
  BY <1>1, Elements
<1> QED BY <1>1, <1>2, <1>3, <1>4, <1>5 DEF Reference

LEMMA ResolvedName ==
  ASSUME NEW s \in Statement, NEW n \in Names
  PROVE  /\ ResolveRelationRef(s, n) \in Names \cup {NoName}
         /\ InDefaultSchema(s, n) \in Names
<1> DEFINE aliased == {i \in DOMAIN s.rels : s.rels[i].alias = n}
<1>1. aliased # {} => \E i \in aliased : \A h \in aliased : h <= i
  <2>1. aliased \in SUBSET (1..Len(s.rels)) /\ Len(s.rels) \in Nat
    BY StatementParts
  <2> HIDE DEF aliased
  <2> QED BY <2>1, Greatest
<1>2. ResolveRelationRef(s, n) \in Names \cup {NoName}
  BY <1>1, StatementParts DEF ResolveRelationRef
<1> QED BY <1>2 DEF InDefaultSchema

LEMMA StarNames ==
  ASSUME NEW s \in Statement, NEW i \in DOMAIN s.stars
  PROVE  LET seq == StarRelations(s, s.stars[i])
         IN  /\ Len(seq) \in Nat /\ DOMAIN seq = 1..Len(seq)
             /\ \A m \in DOMAIN seq : seq[m] \in Names \cup {NoName}
             /\ IF s.stars[i].ref = AllRelations
                THEN /\ Len(seq) = Len(s.rels)
                     /\ \A m \in DOMAIN seq :
                          seq[m] = IF m \in Tables(s) THEN s.rels[m].name ELSE NoName
                ELSE Len(seq) = 1 /\ seq[1] = InDefaultSchema(s, s.stars[i].ref)
<1>1. CASE s.stars[i].ref = AllRelations
  <2> DEFINE seq == [m \in DOMAIN s.rels |-> IF m \in Tables(s) THEN s.rels[m].name ELSE NoName]
  <2>1. seq \in Seq(Names \cup {NoName}) /\ Len(seq) = Len(s.rels)
    BY StatementParts DEF Tables
  <2>2. StarRelations(s, s.stars[i]) = seq
    BY <1>1 DEF StarRelations
  <2> QED BY <1>1, <2>1, <2>2
<1>2. CASE s.stars[i].ref # AllRelations
  <2>1. s.stars[i].ref \in Names
    BY <1>2, StatementParts
  <2>2. StarRelations(s, s.stars[i]) = <<InDefaultSchema(s, s.stars[i].ref)>>
    BY <1>2 DEF StarRelations
  <2> QED BY <1>2, <2>1, <2>2, ResolvedName
<1> QED BY <1>1, <1>2

LEMMA CurrentName ==
  ASSUME TypeOK, Resolving
  PROVE  /\ k \in DOMAIN Items(stmt, pc) /\ Current \in Names \cup {NoName}
         /\ pc = "relations" => Current = IF k \in Tables(stmt) THEN NameOf(k) ELSE NoName
         /\ pc = "columns" => Current = ResolveRelationRef(stmt, stmt.refs[k].rel)
         /\ pc = "outputs" => Current = InDefaultSchema(stmt, stmt.outs[k].rel)
         /\ pc = "wildcards" =>
              Current = IF j <= Len(StarRelations(stmt, stmt.stars[k]))
                        THEN StarRelations(stmt, stmt.stars[k])[j] ELSE NoName
<1> USE DEF Items, Current
<1>1. stmt \in Statement /\ k \in Nat \ {0} /\ j \in Nat \ {0} /\ pc \in Lists
  BY DEF TypeOK, Resolving
<1>2. CASE pc = "relations"
  BY <1>1, <1>2, StatementParts DEF Resolving, Tables, NameOf
<1>3. CASE pc = "columns"
  BY <1>1, <1>3, StatementParts, ResolvedName DEF Resolving
<1>4. CASE pc = "outputs"
  BY <1>1, <1>4, StatementParts, ResolvedName DEF Resolving
<1>5. CASE pc = "wildcards"
  <2>1. k \in DOMAIN stmt.stars
    BY <1>1, <1>5, StatementParts DEF Resolving
  <2> QED BY <1>1, <1>5, <2>1, StarNames
<1> QED BY <1>1, <1>2, <1>3, <1>4, <1>5 DEF Lists

-----------------------------------------------------------------------------
(* Lookups.  Every step that answers one is the same to the invariant:     *)
(* the current item is settled with no entry, or with one that was         *)
(* available and is now in the cache.                                      *)

\* Why a lookup may fail: the deadline, a query, or what the catalog held.
Failing ==
  \/ expired \/ faulted'
  \/ \E v \in versions : EntryOf(v, Current).kind \in {"absent", "other"}

Lookup(entry) ==
  /\ LookingUp /\ Settle(entry)
  /\ entry # NoEntry => Available(Current, entry) /\ cache'[Current] = entry
  /\ entry = NoEntry => expired \/ Current \notin Relations \/ cache[Current] = NoEntry
  /\ cache' \in [Relations -> Entry \cup {NoEntry}]
  /\ \A r \in Relations : cache'[r] = cache[r] \/ (r = Current /\ cache'[r] = entry)
  /\ \A r \in Relations : cache[r] # NoEntry => cache'[r] # NoEntry
  /\ UNCHANGED <<dbVars, expired, stmt, result>>
  /\ faulted' \in BOOLEAN /\ (faulted => faulted')
  /\ entry = NoEntry => Failing

LEMMA AnsweredIsLookup ==
  ASSUME IInv, Answered
  PROVE  \E entry : Lookup(entry)
<1> DEFINE entry == IF expired THEN NoEntry ELSE CacheOf(Current)
<1>1. LookingUp /\ Settle(entry) /\ UNCHANGED <<dbVars, expired, stmt, cache, result, faulted>>
  BY DEF Answered
<1>2. cache \in [Relations -> Entry \cup {NoEntry}] /\ faulted \in BOOLEAN
  BY DEF IInv, TypeOK
<1>3. entry # NoEntry => ~expired /\ Current \in Relations /\ entry = cache[Current]
  BY DEF CacheOf
<1>4. entry # NoEntry => Available(Current, entry)
  BY <1>3 DEF IInv, CacheInv
<1>5. Lookup(entry)
  BY <1>1, <1>2, <1>3, <1>4 DEF Lookup, Failing, Answered
<1> QED BY <1>5

\* The first query fails or finds nothing, or the lookup goes on.
LEMMA ReadKindSteps ==
  ASSUME IInv, ReadKind
  PROVE  \/ \E entry : Lookup(entry)
         \/ /\ LookingUp /\ CacheOf(Current) = NoEntry
            /\ EntryOf(catalog, Current).kind # "absent"
            /\ kindRead' = EntryOf(catalog, Current).kind
            /\ UNCHANGED <<dbVars, factVars, walkVars, expired, stmt, cache, result, faulted>>
<1>1. cache \in [Relations -> Entry \cup {NoEntry}] /\ faulted \in BOOLEAN
  BY DEF IInv, TypeOK
<1>2. CASE /\ Settle(NoEntry)
           /\ \/ EntryOf(catalog, Current).kind = "absent" /\ UNCHANGED faulted
              \/ faulted' = TRUE
  <2>1. Failing
    <3>1. CASE EntryOf(catalog, Current).kind = "absent"
      <4>1. EntryOf(catalog, Current).kind \in {"absent", "other"} /\ catalog \in versions
        BY <3>1 DEF IInv, ResultInv
      <4> QED BY <4>1, Zenon DEF Failing
    <3>2. CASE faulted' = TRUE
      BY <3>2 DEF Failing
    <3> QED BY <1>2, <3>1, <3>2
  <2>2. faulted' \in BOOLEAN /\ (faulted => faulted')
    <3>1. CASE UNCHANGED faulted
      BY <1>1, <3>1, Zenon
    <3>2. CASE faulted' = TRUE
      BY <3>2, Zenon
    <3> QED BY <1>2, <3>1, <3>2, Zenon
  <2>3. Lookup(NoEntry)
    BY <1>1, <1>2, <2>1, <2>2 DEF ReadKind, Lookup, CacheOf
  <2> QED BY <2>3
<1>3. CASE /\ EntryOf(catalog, Current).kind # "absent"
           /\ kindRead' = EntryOf(catalog, Current).kind
           /\ UNCHANGED <<factVars, walkVars, faulted>>
  BY <1>3 DEF ReadKind
<1> QED BY <1>1, <1>2, <1>3 DEF ReadKind

LEMMA ReadColumnsIsLookup ==
  ASSUME IInv, ReadColumns
  PROVE  \E entry : Lookup(entry)
<1> DEFINE entry == [kind |-> kindRead, cols |-> EntryOf(catalog, Current).cols]
<1>1. /\ cache \in [Relations -> Entry \cup {NoEntry}] /\ faulted \in BOOLEAN
      /\ LookingUp /\ kindRead # "none" /\ UNCHANGED <<dbVars, expired, stmt, result>>
  BY DEF IInv, TypeOK, ReadColumns
<1>2. /\ Current \in Relations /\ cache[Current] = NoEntry /\ kindRead # "absent"
      /\ \E v \in versions : v[Current].kind = kindRead
  BY <1>1 DEF IInv, KindReadInv
<1>3. CASE ~expired /\ kindRead # "other" /\ cache' = [cache EXCEPT ![Current] = entry]
           /\ Settle(entry) /\ UNCHANGED faulted
  <2>1. entry \in Entry /\ entry.kind \in {"table", "view"} /\ entry.kind = kindRead
    <3>1. catalog[Current].cols \subseteq Cols /\ kindRead \in Kinds
      BY <1>1, <1>2 DEF IInv, TypeOK, Catalog, Entry
    <3> QED BY <1>2, <1>3, <3>1 DEF Entry, Kinds, EntryOf
  <2>2. entry.cols = catalog[Current].cols /\ catalog \in versions
    BY <1>2 DEF EntryOf, IInv, ResultInv
  <2>3. Available(Current, entry)
    BY <1>2, <2>1, <2>2 DEF Available
  <2>4. entry # NoEntry
    BY <2>1, QueryAccessAssumption
  <2> HIDE DEF entry
  <2>5. /\ cache' \in [Relations -> Entry \cup {NoEntry}] /\ cache'[Current] = entry
        /\ \A r \in Relations : r # Current => cache'[r] = cache[r]
    BY <1>1, <1>2, <1>3, <2>1
  <2>6. Lookup(entry)
    BY <1>1, <1>2, <1>3, <2>3, <2>4, <2>5 DEF Lookup
  <2> QED BY <2>6
<1>4. CASE /\ Settle(NoEntry) /\ UNCHANGED cache
           /\ \/ (expired \/ kindRead = "other") /\ UNCHANGED faulted
              \/ faulted' = TRUE
  <2>1. Failing
    <3>1. CASE expired \/ faulted' = TRUE
      BY <3>1 DEF Failing
    <3>2. CASE kindRead = "other"
      <4>1. \E v \in versions : EntryOf(v, Current).kind \in {"absent", "other"}
        BY <1>2, <3>2 DEF EntryOf
      <4> QED BY <4>1, Zenon DEF Failing
    <3> QED BY <1>4, <3>1, <3>2
  <2>2. faulted' \in BOOLEAN /\ (faulted => faulted')
    <3>1. CASE UNCHANGED faulted
      BY <1>1, <3>1, Zenon
    <3>2. CASE faulted' = TRUE
      BY <3>2, Zenon
    <3> QED BY <1>4, <3>1, <3>2, Zenon
  <2>3. Lookup(NoEntry)
    BY <1>1, <1>2, <1>4, <2>1, <2>2 DEF Lookup
  <2> QED BY <2>3
<1> QED BY <1>1, <1>3, <1>4 DEF ReadColumns

LEMMA LookupFacts ==
  ASSUME IInv, NEW entry, Lookup(entry)
  PROVE  /\ stmt \in Statement /\ stmt' = stmt /\ versions' = versions /\ catalog' = catalog
         /\ expired' = expired /\ result' = result /\ pc' = pc /\ kindRead' = "none"
         /\ pc \in Lists /\ k \in Nat \ {0} /\ j \in Nat \ {0}
         /\ IF pc = "wildcards" THEN j' = j + 1 /\ k' = k ELSE k' = k + 1 /\ j' = j
         /\ k \in DOMAIN Items(stmt, pc) /\ Current \in Names
         /\ entry # NoEntry => /\ Available(Current, entry)
                               /\ entry.cols \subseteq Cols
         /\ \/ pc = "relations" /\ SettleRelation(Current, entry)
            \/ pc = "columns" /\ SettleColumn(Current, stmt.refs[k], entry)
            \/ pc = "outputs" /\ SettleOutput(Current, stmt.outs[k], entry)
            \/ pc = "wildcards" /\ SettleStar(Current, stmt.stars[k], entry)
<1>1. /\ stmt \in Statement /\ k \in Nat \ {0} /\ j \in Nat \ {0} /\ pc \in Lists
      /\ stmt' = stmt /\ versions' = versions /\ catalog' = catalog
      /\ expired' = expired /\ result' = result /\ pc' = pc /\ kindRead' = "none"
      /\ IF pc = "wildcards" THEN j' = j + 1 /\ k' = k ELSE k' = k + 1 /\ j' = j
  BY DEF IInv, TypeOK, Lookup, LookingUp, Resolving, Settle, dbVars
<1>2. k \in DOMAIN Items(stmt, pc) /\ Current \in Names
  BY CurrentName DEF IInv, Lookup, LookingUp
<1>3. entry # NoEntry => Available(Current, entry) /\ entry.cols \subseteq Cols
  BY DEF Lookup, Available, Entry
<1>4. \/ pc = "relations" /\ SettleRelation(Current, entry)
      \/ pc = "columns" /\ SettleColumn(Current, stmt.refs[k], entry)
      \/ pc = "outputs" /\ SettleOutput(Current, stmt.outs[k], entry)
      \/ pc = "wildcards" /\ SettleStar(Current, stmt.stars[k], entry)
  BY <1>1 DEF Lookup, Settle, Items
<1> QED BY <1>1, <1>2, <1>3, <1>4

LEMMA LookupType ==
  ASSUME IInv, NEW entry, Lookup(entry)
  PROVE  TypeOK'
<1>1. TypeOK
  BY DEF IInv
<1>2. /\ catalog' \in Catalog /\ versions' \subseteq Catalog /\ ddl' \in 0..MaxDDL
      /\ expired' \in BOOLEAN /\ faulted' \in BOOLEAN /\ stmt' \in Statement /\ result' \in Result
      /\ cache' \in [Relations -> Entry \cup {NoEntry}]
  BY <1>1 DEF Lookup, TypeOK, dbVars
<1>3. pc' \in Lists /\ k' \in Nat \ {0} /\ j' \in Nat \ {0} /\ kindRead' = "none"
  BY LookupFacts
<1>4. /\ kinds' \in [Relations -> {"table", "view"}] /\ unresolved' \subseteq Unresolved
      /\ columns' \subseteq Names \X Cols /\ sources' \subseteq Names \X Cols
      /\ expanded' \subseteq Nat /\ missed' \subseteq Names
  <2>1. /\ kinds \in [Relations -> {"table", "view"}] /\ unresolved \subseteq Unresolved
        /\ columns \subseteq Names \X Cols /\ sources \subseteq Names \X Cols
        /\ expanded \subseteq Nat /\ missed \subseteq Names
    BY <1>1 DEF TypeOK
  <2>2. CASE pc = "relations" /\ SettleRelation(Current, entry)
    BY <2>1, <2>2, LookupFacts DEF SettleRelation, Unresolved, Available
  <2>3. CASE pc = "columns" /\ SettleColumn(Current, stmt.refs[k], entry)
    <3>1. stmt.refs[k].rel \in Names /\ stmt.refs[k].col \in Cols
      BY <2>3, LookupFacts, StatementParts DEF Items
    <3> QED BY <2>1, <2>3, <3>1, LookupFacts DEF SettleColumn, Unresolved, Kept
  <2>4. CASE pc = "outputs" /\ SettleOutput(Current, stmt.outs[k], entry)
    <3>1. stmt.outs[k].rel \in Names /\ stmt.outs[k].col \in Cols
      BY <2>4, LookupFacts, StatementParts DEF Items
    <3> QED BY <2>1, <2>4, <3>1, LookupFacts DEF SettleOutput
  <2>5. CASE pc = "wildcards" /\ SettleStar(Current, stmt.stars[k], entry)
    <3>1. UNCHANGED <<kinds, unresolved, missed>>
      BY <2>5 DEF SettleStar
    <3>2. CASE entry = NoEntry
      BY <2>1, <2>5, <3>1, <3>2 DEF SettleStar
    <3>3. CASE entry # NoEntry
      <4>1. {Current} \X entry.cols \subseteq Names \X Cols /\ k \in Nat
        BY <3>3, LookupFacts
      <4>2. /\ columns' = columns \cup ({Current} \X entry.cols)
            /\ sources' \in {sources, sources \cup ({Current} \X entry.cols)}
            /\ expanded' = expanded \cup {k}
        BY <2>5, <3>3 DEF SettleStar
      <4> QED BY <2>1, <3>1, <4>1, <4>2
    <3> QED BY <3>2, <3>3
  <2> QED BY <2>2, <2>3, <2>4, <2>5, LookupFacts
<1> QED BY <1>2, <1>3, <1>4 DEF TypeOK

\* What has once been known stays known.
LEMMA LookupMonotone ==
  ASSUME IInv, NEW entry, Lookup(entry)
  PROVE  /\ unresolved \subseteq unresolved' /\ columns \subseteq columns'
         /\ sources \subseteq sources' /\ expanded \subseteq expanded'
         /\ \A r, out : Covered(r, out) => CoveredIn(columns', sources', versions', r, out)
<1>1. /\ unresolved \subseteq unresolved' /\ columns \subseteq columns'
      /\ sources \subseteq sources' /\ expanded \subseteq expanded'
  BY LookupFacts DEF SettleRelation, SettleColumn, SettleOutput, SettleStar
<1>2. versions' = versions
  BY LookupFacts
<1> QED BY <1>1, <1>2 DEF Covered, CoveredIn

\* The items settled after a lookup: those before, and the current one.
LEMMA LookupSettles ==
  ASSUME IInv, NEW entry, Lookup(entry)
  PROVE  /\ pc # "wildcards" => \A i \in Nat : Settled(pc, i)' => Settled(pc, i) \/ i = k
         /\ \A list \in Lists, i \in Nat : list # pc \/ pc = "wildcards" =>
              (Settled(list, i)' => Settled(list, i))
  BY LookupFacts DEF Settled, After, Lists

LEMMA LookupRelations ==
  ASSUME IInv, NEW entry, Lookup(entry)
  PROVE  RelationsInv'
<1>1. RelationsInv /\ stmt' = stmt /\ versions' = versions
  BY LookupFacts DEF IInv, FactInv
<1>2. (missed # {} => unresolved # {})'
  BY <1>1, LookupFacts DEF RelationsInv, SettleRelation, SettleColumn, SettleOutput, SettleStar
<1>3. ASSUME unresolved' = {}, NEW i \in Tables(stmt), Settled("relations", i)'
      PROVE  /\ NameOf(i) \in Relations /\ cache'[NameOf(i)] # NoEntry
             /\ \E v \in versions : v[NameOf(i)].kind = kinds'[NameOf(i)]
  <2>1. unresolved = {} /\ i \in Nat
    BY <1>3, LookupMonotone, LookupFacts, StatementParts DEF Tables
  <2>2. CASE pc = "relations" /\ i = k
    <3>1. Current = NameOf(i) /\ SettleRelation(Current, entry)
      BY <2>2, CurrentName, LookupFacts DEF Lookup, LookingUp, IInv
    <3>2. entry # NoEntry
      BY <1>3, <3>1 DEF SettleRelation
    <3>3. Available(Current, entry) /\ cache'[Current] = entry
      BY <3>2 DEF Lookup
    <3>4. kinds' = [kinds EXCEPT ![Current] = entry.kind] /\ kinds \in [Relations -> {"table", "view"}]
      BY <3>1, <3>2 DEF SettleRelation, IInv, TypeOK
    <3> QED BY <3>1, <3>2, <3>3, <3>4 DEF Available
  <2>3. CASE ~(pc = "relations" /\ i = k)
    <3>1. Settled("relations", i)
      BY <1>3, <2>1, <2>3, LookupSettles, LookupFacts DEF Lists
    <3>2. /\ NameOf(i) \in Relations /\ cache[NameOf(i)] # NoEntry
          /\ \E v \in versions : v[NameOf(i)].kind = kinds[NameOf(i)]
      BY <1>1, <2>1, <3>1 DEF RelationsInv
    <3>3. cache'[NameOf(i)] # NoEntry
      BY <3>2 DEF Lookup
    <3>4. \/ kinds' = kinds
          \/ /\ entry # NoEntry /\ Available(Current, entry)
             /\ kinds' = [kinds EXCEPT ![Current] = entry.kind]
      BY LookupFacts DEF SettleRelation, SettleColumn, SettleOutput, SettleStar
    <3>5. kinds \in [Relations -> {"table", "view"}]
      BY DEF IInv, TypeOK
    <3> QED BY <3>2, <3>3, <3>4, <3>5 DEF Available
  <2> QED BY <2>2, <2>3
<1> QED BY <1>1, <1>2, <1>3 DEF RelationsInv, NameOf

LEMMA LookupColumns ==
  ASSUME IInv, NEW entry, Lookup(entry)
  PROVE  ColumnsInv'
<1>1. ColumnsInv /\ stmt' = stmt /\ versions' = versions /\ columns \subseteq columns'
  BY LookupFacts, LookupMonotone DEF IInv, FactInv
<1>2. SUFFICES ASSUME unresolved' = {}, NEW i \in DOMAIN stmt.refs, Settled("columns", i)',
                      ResolveRelationRef(stmt, stmt.refs[i].rel) # NoName
               PROVE  LET r == ResolveRelationRef(stmt, stmt.refs[i].rel)
                      IN  /\ r \in Relations /\ <<r, stmt.refs[i].col>> \in columns'
                          /\ \E v \in versions : stmt.refs[i].col \in v[r].cols
  BY <1>1 DEF ColumnsInv
<1>3. unresolved = {} /\ i \in Nat
  BY <1>2, LookupMonotone, LookupFacts, StatementParts
<1>4. CASE pc = "columns" /\ i = k
  <2>1. /\ Current = ResolveRelationRef(stmt, stmt.refs[i].rel)
        /\ SettleColumn(Current, stmt.refs[i], entry)
    BY <1>4, CurrentName, LookupFacts DEF Lookup, LookingUp, IInv
  <2>2. entry # NoEntry /\ stmt.refs[i].col \in entry.cols
        /\ <<Current, stmt.refs[i].col>> \in columns'
    BY <1>2, <2>1 DEF SettleColumn
  <2>3. Available(Current, entry)
    BY <2>2 DEF Lookup
  <2> QED BY <2>1, <2>2, <2>3 DEF Available
<1>5. CASE ~(pc = "columns" /\ i = k)
  <2>1. Settled("columns", i)
    BY <1>2, <1>3, <1>5, LookupSettles, LookupFacts DEF Lists
  <2> QED BY <1>1, <1>2, <1>3, <2>1 DEF ColumnsInv
<1> QED BY <1>4, <1>5

LEMMA LookupOutputs ==
  ASSUME IInv, NEW entry, Lookup(entry)
  PROVE  OutputsInv'
<1>1. OutputsInv /\ stmt' = stmt /\ sources \subseteq sources'
  BY LookupFacts, LookupMonotone DEF IInv, FactInv
<1>2. SUFFICES ASSUME NEW i \in DOMAIN stmt.outs, Settled("outputs", i)'
               PROVE  \/ <<stmt.outs[i].rel, stmt.outs[i].col>> \in sources'
                      \/ <<InDefaultSchema(stmt, stmt.outs[i].rel), stmt.outs[i].col>> \in sources'
  BY <1>1 DEF OutputsInv
<1>3. i \in Nat
  BY LookupFacts, StatementParts
<1>4. CASE pc = "outputs" /\ i = k
  <2>1. /\ Current = InDefaultSchema(stmt, stmt.outs[i].rel)
        /\ SettleOutput(Current, stmt.outs[i], entry)
    BY <1>4, CurrentName, LookupFacts DEF Lookup, LookingUp, IInv
  <2> QED BY <2>1 DEF SettleOutput
<1>5. CASE ~(pc = "outputs" /\ i = k)
  <2>1. Settled("outputs", i)
    BY <1>2, <1>3, <1>5, LookupSettles, LookupFacts DEF Lists
  <2> QED BY <1>1, <2>1 DEF OutputsInv
<1> QED BY <1>4, <1>5

\* The relation a wildcard has come to: a table of "*", or the one that is named.
LEMMA StarCurrent ==
  ASSUME TypeOK, LookingUp, pc = "wildcards"
  PROVE  /\ k \in DOMAIN stmt.stars /\ j \in Nat \ {0}
         /\ IF stmt.stars[k].ref = AllRelations
            THEN j \in Tables(stmt) /\ Current = NameOf(j)
            ELSE Current = InDefaultSchema(stmt, stmt.stars[k].ref)
<1>1. stmt \in Statement /\ j \in Nat \ {0} /\ k \in DOMAIN stmt.stars
  BY CurrentName DEF TypeOK, LookingUp, Items
<1>2. Current = IF j <= Len(StarRelations(stmt, stmt.stars[k]))
                THEN StarRelations(stmt, stmt.stars[k])[j] ELSE NoName
  BY CurrentName DEF LookingUp
<1>3. j <= Len(StarRelations(stmt, stmt.stars[k])) /\ j \in DOMAIN StarRelations(stmt, stmt.stars[k])
  BY <1>1, <1>2, StarNames DEF LookingUp
<1>4. Current # NoName
  BY DEF LookingUp
<1> QED BY <1>1, <1>2, <1>3, <1>4, StarNames DEF NameOf

LEMMA LookupCovers ==
  ASSUME IInv, NEW entry, Lookup(entry), pc = "wildcards", entry # NoEntry
  PROVE  /\ expanded' = expanded \cup {k}
         /\ CoveredIn(columns', sources', versions', Current, stmt.stars[k].out)
<1>1. Available(Current, entry) /\ versions' = versions
  BY LookupFacts
<1>2. SettleStar(Current, stmt.stars[k], entry)
  BY LookupFacts
<1>3. PICK v \in versions : v[Current].cols = entry.cols
  BY <1>1 DEF Available
<1>4. /\ {Current} \X v[Current].cols \subseteq columns'
      /\ stmt.stars[k].out => {Current} \X v[Current].cols \subseteq sources'
      /\ expanded' = expanded \cup {k}
  BY <1>2, <1>3 DEF SettleStar
<1> QED BY <1>1, <1>3, <1>4 DEF Available, CoveredIn

LEMMA LookupExpanded ==
  ASSUME IInv, NEW entry, Lookup(entry)
  PROVE  ExpandedInv'
<1> DEFINE CoveredThen(r, out) == CoveredIn(columns', sources', versions', r, out)
<1>1. /\ ExpandedInv /\ stmt' = stmt /\ TypeOK /\ LookingUp
      /\ \A r, out : Covered(r, out) => CoveredThen(r, out)
  BY LookupFacts, LookupMonotone DEF IInv, FactInv, Lookup
<1>2. SUFFICES ASSUME NEW i \in expanded'
               PROVE  /\ i \in DOMAIN stmt.stars
                      /\ IF stmt.stars[i].ref = AllRelations
                         THEN \E m \in Tables(stmt) : CoveredThen(NameOf(m), stmt.stars[i].out)
                         ELSE CoveredThen(InDefaultSchema(stmt, stmt.stars[i].ref), stmt.stars[i].out)
  BY <1>1 DEF ExpandedInv, NameOf, Covered
<1>3. CASE i \in expanded
  <2> HIDE DEF CoveredThen
  <2> QED BY <1>1, <1>3 DEF ExpandedInv
<1>4. CASE i \notin expanded
  <2>1. pc = "wildcards" /\ entry # NoEntry /\ i = k
    BY <1>2, <1>4, LookupFacts DEF SettleRelation, SettleColumn, SettleOutput, SettleStar
  <2>2. CoveredThen(Current, stmt.stars[i].out)
    BY <2>1, LookupCovers
  <2> HIDE DEF CoveredThen
  <2> QED BY <1>1, <2>1, <2>2, StarCurrent
<1> QED BY <1>3, <1>4

\* In time, the lookups of "*" are answered from the cache, which has every table
\* once its relation was found.
LEMMA LookupGlobal ==
  ASSUME IInv, NEW entry, Lookup(entry)
  PROVE  GlobalInv'
<1> DEFINE CoveredThen(r, out) == CoveredIn(columns', sources', versions', r, out)
<1>1. /\ GlobalInv /\ RelationsInv /\ stmt' = stmt /\ expired' = expired /\ TypeOK /\ LookingUp
      /\ \A r, out : Covered(r, out) => CoveredThen(r, out)
  BY LookupFacts, LookupMonotone DEF IInv, FactInv, Lookup
<1>2. SUFFICES ASSUME ~expired, unresolved' = {}, NEW i \in DOMAIN stmt.stars,
                      NEW m \in Tables(stmt), stmt.stars[i].ref = AllRelations,
                      Settled("wildcards", i)' \/ (pc = "wildcards" /\ i = k' /\ m < j')
               PROVE  CoveredThen(NameOf(m), stmt.stars[i].out)
  BY <1>1, LookupFacts DEF GlobalInv, NameOf, Covered
<1>3. unresolved = {} /\ i \in Nat /\ m \in Nat
  BY <1>2, LookupMonotone, LookupFacts, StatementParts DEF Tables
<1>4. CASE Settled("wildcards", i) \/ (pc = "wildcards" /\ i = k /\ m < j)
  <2> HIDE DEF CoveredThen
  <2> QED BY <1>1, <1>2, <1>3, <1>4 DEF GlobalInv
<1>5. CASE ~(Settled("wildcards", i) \/ (pc = "wildcards" /\ i = k /\ m < j))
  <2>1. pc = "wildcards" /\ i = k /\ m = j
    BY <1>2, <1>3, <1>5, LookupFacts DEF Settled, After, Lists
  <2>2. Current = NameOf(m)
    BY <1>1, <1>2, <2>1, StarCurrent
  <2>3. Current \in Relations /\ cache[Current] # NoEntry
    BY <1>1, <1>3, <2>1, <2>2 DEF RelationsInv, Settled, After
  <2>4. entry # NoEntry
    BY <1>2, <2>3 DEF Lookup
  <2> QED BY <2>1, <2>2, <2>4, LookupCovers
<1> QED BY <1>4, <1>5

LEMMA NotAdmitted ==
  ASSUME result'.admission # "admissible"
  PROVE  DoneInv'
  BY DEF DoneInv, AdmittedReadsTables, AdmittedColumnsExist, AdmittedCoversReads,
         CompleteBeforeDeadline, Admitted

LEMMA EmptyResult ==
  ASSUME result' = NoResult
  PROVE  DoneInv'
  BY NotAdmitted DEF NoResult

LEMMA LookupInv ==
  ASSUME IInv, NEW entry, Lookup(entry)
  PROVE  IInv'
<1>1. TypeOK'
  BY LookupType
<1>2. ResultInv' /\ result' = NoResult
  BY LookupFacts DEF IInv, ResultInv, Lists
<1>3. CacheInv'
  <2>1. SUFFICES ASSUME NEW r \in Relations, cache'[r] # NoEntry PROVE Available(r, cache'[r])
    BY LookupFacts DEF CacheInv, Available
  <2>2. CASE cache'[r] = cache[r]
    BY <2>1, <2>2 DEF IInv, CacheInv
  <2>3. CASE cache'[r] # cache[r]
    BY <2>1, <2>3 DEF Lookup
  <2> QED BY <2>2, <2>3
<1>4. KindReadInv'
  BY LookupFacts DEF KindReadInv
<1>5. FactInv'
  BY LookupRelations, LookupColumns, LookupOutputs, LookupExpanded, LookupGlobal DEF FactInv
<1>6. DoneInv'
  BY <1>2, EmptyResult
<1> QED BY <1>1, <1>2, <1>3, <1>4, <1>5, <1>6 DEF IInv

-----------------------------------------------------------------------------
(* The other actions of the analysis.                                      *)

LEMMA InitInv ==
  ASSUME Init
  PROVE  IInv
<1>1. TypeOK
  <2>1. /\ catalog \in Catalog /\ versions \subseteq Catalog /\ ddl \in 0..MaxDDL
        /\ stmt \in Statement
    BY QueryAccessAssumption DEF Init
  <2>2. /\ expired \in BOOLEAN /\ faulted \in BOOLEAN /\ pc \in Lists \cup {"start", "done"}
        /\ k \in Nat \ {0} /\ j \in Nat \ {0} /\ kindRead \in Kinds \cup {"none"}
    <3>1. 1 \in Nat \ {0}
      OBVIOUS
    <3> QED BY <3>1, Zenon DEF Init
  <2>3. /\ cache \in [Relations -> Entry \cup {NoEntry}]
        /\ kinds \in [Relations -> {"table", "view"}]
    BY DEF Init
  <2>4. /\ unresolved \subseteq Unresolved /\ columns \subseteq Names \X Cols
        /\ sources \subseteq Names \X Cols /\ expanded \subseteq Nat /\ missed \subseteq Names
        /\ result \in Result
    BY DEF Init, Result, NoResult
  <2> QED BY <2>1, <2>2, <2>3, <2>4 DEF TypeOK
<1>2. ResultInv /\ CacheInv /\ KindReadInv
  BY DEF Init, ResultInv, CacheInv, KindReadInv
<1>3. RelationsInv /\ ColumnsInv /\ OutputsInv /\ ExpandedInv /\ GlobalInv
  <2>1. \A list \in Lists : \A i : ~Settled(list, i)
    BY DEF Init, Settled, After, Lists
  <2> QED BY <2>1 DEF Init, RelationsInv, ColumnsInv, OutputsInv, ExpandedInv, GlobalInv, Lists
<1>4. DoneInv
  BY DEF Init, DoneInv, AdmittedReadsTables, AdmittedColumnsExist, AdmittedCoversReads,
         CompleteBeforeDeadline, Admitted, NoResult
<1> QED BY <1>1, <1>2, <1>3, <1>4 DEF IInv, FactInv

\* Where no item is newly settled, the facts stay.
LEMMA FactsStay ==
  ASSUME IInv, UNCHANGED <<factVars, versions, stmt, cache>>, expired => expired',
         \A list \in Lists : \A i \in DOMAIN Items(stmt, list) :
           Settled(list, i)' => Settled(list, i),
         pc' = "wildcards" => (k' = k /\ j' = j /\ pc = "wildcards") \/ j' = 1
  PROVE  FactInv'
<1>1. /\ FactInv /\ stmt \in Statement
      /\ kinds' = kinds /\ unresolved' = unresolved /\ columns' = columns
      /\ sources' = sources /\ expanded' = expanded /\ missed' = missed
      /\ stmt' = stmt /\ versions' = versions /\ cache' = cache
  BY DEF IInv, TypeOK, factVars
<1>2. /\ \A i \in Tables(stmt) : i \in Nat /\ i >= 1
      /\ \A i \in Tables(stmt) : Settled("relations", i)' => Settled("relations", i)
      /\ \A i \in DOMAIN stmt.refs : Settled("columns", i)' => Settled("columns", i)
      /\ \A i \in DOMAIN stmt.outs : Settled("outputs", i)' => Settled("outputs", i)
      /\ \A i \in DOMAIN stmt.stars : Settled("wildcards", i)' => Settled("wildcards", i)
  BY <1>1, StatementParts DEF Tables, Items, Lists
<1>3. RelationsInv'
  BY <1>1, <1>2 DEF FactInv, RelationsInv, NameOf
<1>4. ColumnsInv'
  BY <1>1, <1>2 DEF FactInv, ColumnsInv
<1>5. OutputsInv'
  BY <1>1, <1>2 DEF FactInv, OutputsInv
<1>6. ExpandedInv'
  BY <1>1 DEF FactInv, ExpandedInv, NameOf, Covered
<1>7. GlobalInv'
  <2>1. ASSUME ~expired', unresolved = {}, NEW i \in DOMAIN stmt.stars, NEW m \in Tables(stmt),
               stmt.stars[i].ref = AllRelations,
               Settled("wildcards", i)' \/ (pc' = "wildcards" /\ i = k' /\ m < j')
        PROVE  Covered(NameOf(m), stmt.stars[i].out)
    <3>1. ~expired
      BY <2>1
    <3>2. Settled("wildcards", i) \/ (pc = "wildcards" /\ i = k /\ m < j)
      BY <1>2, <2>1
    <3> QED BY <1>1, <2>1, <3>1, <3>2 DEF FactInv, GlobalInv
  <2> QED BY <1>1, <2>1 DEF GlobalInv, NameOf, Covered
<1> QED BY <1>3, <1>4, <1>5, <1>6, <1>7 DEF FactInv

LEMMA StartInv ==
  ASSUME IInv, Start
  PROVE  IInv'
<1>1. TypeOK'
  BY DEF IInv, Start, TypeOK, Lists, Result, NoResult, dbVars, factVars
<1>2. ResultInv' /\ CacheInv' /\ KindReadInv'
  <2>1. ResultInv' /\ CacheInv'
    BY DEF IInv, Start, ResultInv, CacheInv, Available, dbVars
  <2>2. kindRead' = "none"
    BY DEF IInv, Start, KindReadInv, LookingUp, Resolving, Lists
  <2> QED BY <2>1, <2>2 DEF KindReadInv
<1>3. FactInv'
  <2>1. /\ UNCHANGED <<factVars, versions, stmt, cache>> /\ expired' = expired
        /\ pc' \in {"relations", "done"} /\ k' = 1
    BY DEF IInv, ResultInv, Start, dbVars
  <2>2. \A list \in Lists : \A i \in DOMAIN Items(stmt, list) : i \in Nat /\ i >= 1
    BY StatementParts DEF IInv, TypeOK, Items, Lists
  <2>3. \A list \in Lists : \A i \in DOMAIN Items(stmt, list) : ~Settled(list, i)'
    BY <2>1, <2>2 DEF Settled, After, Lists
  <2> QED BY <2>1, <2>3, FactsStay
<1>4. DoneInv'
  <2>1. result'.admission # "admissible"
    BY DEF Start, IInv, ResultInv, NoResult
  <2> QED BY <2>1, NotAdmitted
<1> QED BY <1>1, <1>2, <1>3, <1>4 DEF IInv

LEMMA EndListInv ==
  ASSUME IInv, EndList
  PROVE  IInv'
<1>1. /\ TypeOK /\ pc \in {"relations", "columns", "outputs"} /\ pc' = NextList[pc]
      /\ pc' \in Lists /\ k' = 1 /\ j' = 1 /\ k > Len(Items(stmt, pc))
      /\ UNCHANGED <<dbVars, factVars, expired, stmt, kindRead, cache, result, faulted>>
  BY DEF IInv, EndList, NextList, Lists
<1>2. TypeOK'
  BY <1>1 DEF TypeOK, dbVars, factVars
<1>3. ResultInv' /\ CacheInv'
  BY <1>1 DEF IInv, ResultInv, CacheInv, Available, dbVars, Lists
<1>4. kindRead = "none" /\ KindReadInv'
  <2>1. k \in Nat /\ Len(Items(stmt, pc)) \in Nat
    BY <1>1, StatementParts DEF TypeOK, Items
  <2>2. ~LookingUp
    BY <1>1, <2>1 DEF LookingUp, Resolving
  <2> QED BY <1>1, <2>2 DEF IInv, KindReadInv
<1>5. FactInv'
  <2>1. \A list \in Lists : \A i \in DOMAIN Items(stmt, list) :
          i \in Nat /\ i >= 1 /\ (list = pc => i < k)
    BY <1>1, StatementParts DEF TypeOK, Items, Lists
  <2>2. \A list \in Lists : \A i \in DOMAIN Items(stmt, list) :
          Settled(list, i)' => Settled(list, i)
    BY <1>1, <2>1 DEF Settled, After, Lists, NextList
  <2>3. UNCHANGED <<factVars, versions, stmt, cache>> /\ expired' = expired
    BY <1>1 DEF dbVars
  <2> QED BY <1>1, <2>2, <2>3, FactsStay
<1>6. DoneInv'
  BY <1>1, EmptyResult DEF IInv, ResultInv, Lists
<1> QED BY <1>2, <1>3, <1>4, <1>5, <1>6 DEF IInv

LEMMA AlterInv ==
  ASSUME IInv, NEW r \in Relations, NEW e \in Replacements, Alter(r, e)
  PROVE  IInv'
<1>1. /\ TypeOK /\ pc # "done" /\ catalog' = [catalog EXCEPT ![r] = e] /\ ddl < MaxDDL
      /\ ddl' = ddl + 1 /\ versions' = versions \cup {catalog'}
      /\ UNCHANGED <<factVars, pc, k, j, expired, stmt, kindRead, cache, result, faulted>>
  BY DEF IInv, Alter, walkVars
<1>2. catalog' \in Catalog
  BY <1>1, QueryAccessAssumption DEF TypeOK, Catalog
<1>3. TypeOK'
  <2>1. ddl' \in 0..MaxDDL /\ versions' \subseteq Catalog
    <3>1. ddl \in 0..MaxDDL /\ versions \subseteq Catalog /\ MaxDDL \in Nat
      BY <1>1, QueryAccessAssumption DEF TypeOK
    <3>2. ddl' \in 0..MaxDDL
      BY <1>1, <3>1
    <3> QED BY <1>1, <1>2, <3>1, <3>2
  <2> QED BY <1>1, <1>2, <2>1 DEF TypeOK, factVars
<1>4. ResultInv' /\ CacheInv'
  BY <1>1 DEF IInv, ResultInv, CacheInv, Available
<1>5. KindReadInv'
  <2>1. Current' = Current /\ (LookingUp' <=> LookingUp)
    BY <1>1 DEF Current, LookingUp, Resolving
  <2> QED BY <1>1, <2>1 DEF IInv, KindReadInv
<1>6. FactInv'
  <2>1. /\ FactInv /\ kinds' = kinds /\ unresolved' = unresolved /\ columns' = columns
        /\ sources' = sources /\ expanded' = expanded /\ missed' = missed /\ pc' = pc
        /\ k' = k /\ j' = j /\ expired' = expired /\ stmt' = stmt /\ cache' = cache
        /\ versions \subseteq versions'
    BY <1>1 DEF IInv, factVars
  <2>2. /\ \A list, i : Settled(list, i)' <=> Settled(list, i)
        /\ \A n, out : Covered(n, out) => CoveredIn(columns', sources', versions', n, out)
    BY <2>1 DEF Settled, Covered, CoveredIn
  <2>3. RelationsInv'
    BY <2>1, <2>2 DEF FactInv, RelationsInv, NameOf
  <2>4. ColumnsInv' /\ OutputsInv'
    BY <2>1, <2>2 DEF FactInv, ColumnsInv, OutputsInv
  <2>5. ExpandedInv' /\ GlobalInv'
    BY <2>1, <2>2 DEF FactInv, ExpandedInv, GlobalInv, NameOf, Covered
  <2> QED BY <2>3, <2>4, <2>5 DEF FactInv
<1>7. DoneInv'
  BY <1>1, EmptyResult DEF IInv, ResultInv
<1> QED BY <1>3, <1>4, <1>5, <1>6, <1>7 DEF IInv

LEMMA ExpireInv ==
  ASSUME IInv, Expire
  PROVE  IInv'
<1>1. /\ TypeOK /\ pc # "done" /\ expired' = TRUE
      /\ UNCHANGED <<dbVars, factVars, pc, k, j, stmt, kindRead, cache, result, faulted>>
  BY DEF IInv, Expire, walkVars
<1>2. TypeOK'
  BY <1>1 DEF TypeOK, dbVars, factVars
<1>3. ResultInv' /\ CacheInv'
  BY <1>1 DEF IInv, ResultInv, CacheInv, Available, dbVars
<1>4. KindReadInv'
  <2>1. Current' = Current /\ (LookingUp' <=> LookingUp)
    BY <1>1 DEF Current, LookingUp, Resolving
  <2> QED BY <1>1, <2>1 DEF IInv, KindReadInv, dbVars
<1>5. FactInv'
  <2>1. /\ \A list, i : Settled(list, i)' <=> Settled(list, i)
        /\ UNCHANGED <<factVars, versions, stmt, cache>>
    BY <1>1 DEF Settled, dbVars
  <2>2. pc' = "wildcards" => k' = k /\ j' = j /\ pc = "wildcards"
    BY <1>1
  <2> QED BY <1>1, <2>1, <2>2, FactsStay
<1>6. DoneInv'
  BY <1>1, EmptyResult DEF IInv, ResultInv
<1> QED BY <1>2, <1>3, <1>4, <1>5, <1>6 DEF IInv

\* The lookup goes on to its second query.
LEMMA ReadKindInv ==
  ASSUME IInv, ReadKind
  PROVE  IInv'
<1>1. CASE \E entry : Lookup(entry)
  BY <1>1, LookupInv
<1>2. CASE /\ LookingUp /\ CacheOf(Current) = NoEntry
           /\ EntryOf(catalog, Current).kind # "absent"
           /\ kindRead' = EntryOf(catalog, Current).kind
           /\ UNCHANGED <<dbVars, factVars, walkVars, expired, stmt, cache, result, faulted>>
  <2>1. /\ Current \in Relations /\ cache[Current] = NoEntry
        /\ kindRead' = catalog[Current].kind /\ kindRead' # "absent"
    BY <1>2 DEF EntryOf, CacheOf
  <2>2. /\ UNCHANGED <<dbVars, factVars, pc, k, j, expired, stmt, cache, result, faulted>>
        /\ TypeOK /\ pc \in Lists
    BY <1>2 DEF walkVars, IInv, LookingUp, Resolving
  <2>3. TypeOK'
    <3>1. kindRead' \in Kinds
      BY <2>1, <2>2 DEF TypeOK, Catalog, Entry
    <3> QED BY <2>2, <3>1 DEF TypeOK, dbVars, factVars
  <2>4. ResultInv' /\ CacheInv'
    BY <2>2 DEF IInv, ResultInv, CacheInv, Available, dbVars
  <2>5. KindReadInv'
    <3>1. Current' = Current /\ LookingUp'
      BY <1>2, <2>2 DEF Current, LookingUp, Resolving
    <3>2. versions' = versions /\ catalog \in versions /\ cache' = cache
      BY <2>2 DEF dbVars, IInv, ResultInv
    <3> QED BY <2>1, <3>1, <3>2 DEF KindReadInv
  <2>6. FactInv'
    <3>1. /\ \A list, i : Settled(list, i)' <=> Settled(list, i)
          /\ UNCHANGED <<factVars, versions, stmt, cache>>
      BY <2>2 DEF Settled, dbVars
    <3> QED BY <2>2, <3>1, FactsStay
  <2>7. DoneInv'
    BY <2>2, EmptyResult DEF IInv, ResultInv, Lists
  <2> QED BY <2>3, <2>4, <2>5, <2>6, <2>7 DEF IInv
<1> QED BY <1>1, <1>2, ReadKindSteps

LEMMA SkipInv ==
  ASSUME IInv, Skip
  PROVE  IInv'
<1>1. /\ TypeOK /\ stmt \in Statement /\ Resolving /\ Current = NoName /\ pc \in Lists
      /\ IF pc = "wildcards" /\ j < Len(StarRelations(stmt, Items(stmt, pc)[k]))
         THEN j' = j + 1 /\ k' = k ELSE k' = k + 1 /\ j' = 1
      /\ columns' = IF pc = "columns" THEN columns \cup Kept(Items(stmt, pc)[k]) ELSE columns
      /\ UNCHANGED <<dbVars, pc, kinds, unresolved, sources, expanded, missed, expired, stmt,
                     kindRead, cache, result, faulted>>
  BY DEF IInv, TypeOK, Skip, Resolving
<1>2. k \in Nat \ {0} /\ j \in Nat \ {0} /\ k \in DOMAIN Items(stmt, pc)
  BY <1>1, CurrentName DEF TypeOK
<1>3. TypeOK'
  <2>1. columns' \subseteq Names \X Cols
    <3>1. CASE pc = "columns"
      <4>1. stmt.refs[k].rel \in Names /\ stmt.refs[k].col \in Cols
        BY <1>1, <1>2, <3>1, StatementParts DEF Items
      <4> QED BY <1>1, <3>1, <4>1 DEF TypeOK, Kept, Items
    <3> QED BY <1>1, <3>1 DEF TypeOK
  <2>2. k' \in Nat \ {0} /\ j' \in Nat \ {0}
    BY <1>1, <1>2
  <2> QED BY <1>1, <2>1, <2>2 DEF TypeOK, dbVars
<1>4. ResultInv' /\ CacheInv'
  BY <1>1 DEF IInv, ResultInv, CacheInv, Available, dbVars, Lists
<1>5. KindReadInv'
  <2>1. Current \notin Relations
    BY <1>1, QueryAccessAssumption
  <2> QED BY <1>1, <2>1 DEF IInv, KindReadInv
<1>6. /\ FactInv /\ columns \subseteq columns'
      /\ \A n, out : Covered(n, out) => CoveredIn(columns', sources', versions', n, out)
  BY <1>1 DEF IInv, Covered, CoveredIn, dbVars
<1>7. \A list \in Lists, i \in Nat : Settled(list, i)' => Settled(list, i) \/ (list = pc /\ i = k)
  BY <1>1, <1>2 DEF Settled, After, Lists
<1>8. RelationsInv'
  <2>1. pc = "relations" => k \notin Tables(stmt)
    BY <1>1, StatementParts, QueryAccessAssumption, CurrentName DEF Tables, NameOf
  <2>2. \A i \in Tables(stmt) : i \in Nat
    BY <1>1, StatementParts DEF Tables
  <2>3. \A i \in Tables(stmt) : Settled("relations", i)' => Settled("relations", i)
    BY <1>7, <2>1, <2>2 DEF Lists
  <2> QED BY <1>1, <1>6, <2>3 DEF FactInv, RelationsInv, NameOf, dbVars
<1>9. ColumnsInv'
  <2>1. pc = "columns" => ResolveRelationRef(stmt, stmt.refs[k].rel) = NoName
    BY <1>1, CurrentName
  <2>2. \A i \in DOMAIN stmt.refs : Settled("columns", i)' =>
          Settled("columns", i) \/ ResolveRelationRef(stmt, stmt.refs[i].rel) = NoName
    BY <1>1, <1>7, <2>1, StatementParts DEF Lists
  <2> QED BY <1>1, <1>6, <2>2 DEF FactInv, ColumnsInv, dbVars
<1>10. OutputsInv'
  <2>1. pc # "outputs"
    <3>1. CASE pc = "outputs"
      <4>1. Current \in Names
        BY <1>1, <1>2, <3>1, CurrentName, StatementParts, ResolvedName DEF Items
      <4> QED BY <1>1, <4>1, QueryAccessAssumption
    <3> QED BY <3>1
  <2>2. \A i \in DOMAIN stmt.outs : Settled("outputs", i)' => Settled("outputs", i)
    BY <1>1, <1>7, <2>1, StatementParts DEF Lists
  <2> QED BY <1>1, <1>6, <2>2 DEF FactInv, OutputsInv
<1>11. ExpandedInv'
  <2>1. /\ stmt' = stmt /\ expanded' = expanded
        /\ \A n, out : Covered(n, out) => Covered(n, out)'
    BY <1>1, <1>6 DEF Covered
  <2> HIDE DEF Covered
  <2> QED BY <1>6, <2>1 DEF FactInv, ExpandedInv, NameOf
<1>12. GlobalInv'
  <2>1. SUFFICES ASSUME NEW i \in DOMAIN stmt.stars, NEW m \in Tables(stmt),
                        stmt.stars[i].ref = AllRelations,
                        Settled("wildcards", i)' \/ (pc = "wildcards" /\ i = k' /\ m < j')
                 PROVE  Settled("wildcards", i) \/ (pc = "wildcards" /\ i = k /\ m < j)
    <3>1. /\ stmt' = stmt /\ expired' = expired /\ unresolved' = unresolved /\ pc' = pc
          /\ \A n, out : Covered(n, out) => Covered(n, out)'
      BY <1>1, <1>6 DEF Covered
    <3> HIDE DEF Covered
    <3> QED BY <1>6, <2>1, <3>1 DEF FactInv, GlobalInv, NameOf
  <2>2. m \in Nat /\ m >= 1 /\ m \in DOMAIN stmt.rels /\ Len(stmt.rels) \in Nat
        /\ i \in Nat /\ DOMAIN stmt.rels = 1..Len(stmt.rels)
    BY <1>1, StatementParts DEF Tables
  <2>3. CASE pc = "wildcards" /\ i = k
    <3>1. /\ Len(StarRelations(stmt, stmt.stars[k])) = Len(stmt.rels)
          /\ m <= Len(stmt.rels)
          /\ StarRelations(stmt, stmt.stars[k])[m] = NameOf(m)
      BY <1>1, <2>1, <2>2, <2>3, StarNames DEF NameOf
    <3>2. NameOf(m) # NoName
      BY <1>1, <2>2, StatementParts, QueryAccessAssumption DEF NameOf
    <3>3. j # m
      BY <1>1, <2>2, <2>3, <3>1, <3>2, CurrentName
    <3>4. m <= j
      <4>1. CASE j < Len(StarRelations(stmt, stmt.stars[k]))
        <5>1. j' = j + 1 /\ k' = k /\ pc' = pc
          BY <1>1, <2>3, <4>1 DEF Items
        <5>2. ~Settled("wildcards", i)'
          BY <1>2, <2>3, <5>1 DEF Settled, After
        <5> QED BY <1>2, <2>1, <2>2, <5>1, <5>2
      <4> QED BY <1>2, <2>2, <3>1, <4>1
    <3> QED BY <1>2, <2>2, <2>3, <3>3, <3>4
  <2>4. CASE ~(pc = "wildcards" /\ i = k)
    BY <1>1, <1>2, <1>7, <2>1, <2>2, <2>4 DEF Lists
  <2> QED BY <2>3, <2>4
<1>13. FactInv'
  BY <1>8, <1>9, <1>10, <1>11, <1>12 DEF FactInv
<1>14. DoneInv'
  BY <1>1, EmptyResult DEF IInv, ResultInv, Lists
<1> QED BY <1>3, <1>4, <1>5, <1>13, <1>14 DEF IInv

-----------------------------------------------------------------------------
(* The end of the analysis: what is settled then, of a statement that is   *)
(* admitted.                                                               *)

Ending == pc = "wildcards" /\ k > Len(stmt.stars)

LEMMA OneTable ==
  ASSUME NEW s \in Statement, ~(Cardinality(Tables(s)) > 1),
         NEW m \in Tables(s), NEW n \in Tables(s)
  PROVE  m = n
<1>1. SUFFICES ASSUME m # n PROVE FALSE
  OBVIOUS
<1>2. IsFiniteSet(Tables(s))
  <2>1. Len(s.rels) \in Nat /\ Tables(s) \subseteq 1..Len(s.rels)
    BY StatementParts DEF Tables
  <2>2. IsFiniteSet(1..Len(s.rels))
    BY <2>1, FS_Interval
  <2> QED BY <2>1, <2>2, FS_Subset
<1>3. Cardinality({m}) = 1 /\ IsFiniteSet({m})
  BY FS_Singleton
<1>4. Cardinality({m, n}) = 2
  <2>1. {m} \cup {n} = {m, n} /\ n \notin {m}
    BY <1>1
  <2> QED BY <1>3, <2>1, FS_AddElement
<1>5. {m, n} \subseteq Tables(s)
  OBVIOUS
<1>6. Cardinality({m, n}) <= Cardinality(Tables(s)) /\ Cardinality(Tables(s)) \in Nat
  BY <1>2, <1>5, FS_Subset, FS_CardinalityType
<1> QED BY <1>4, <1>6

LEMMA EndingSettled ==
  ASSUME IInv, Ending
  PROVE  /\ \A i \in Tables(stmt) : Settled("relations", i)
         /\ \A i \in DOMAIN stmt.refs : Settled("columns", i)
         /\ \A i \in DOMAIN stmt.outs : Settled("outputs", i)
         /\ \A i \in DOMAIN stmt.stars : Settled("wildcards", i)
<1>1. stmt \in Statement /\ k \in Nat
  BY DEF IInv, TypeOK
<1>2. \A i \in DOMAIN stmt.stars : i < k
  BY <1>1, StatementParts DEF Ending
<1> QED BY <1>2 DEF Ending, Settled, After

\* An admitted statement has nothing unresolved, no view, and only tables.
LEMMA EndingAdmitted ==
  ASSUME IInv, Ending, FinalAdmission = "admissible"
  PROVE  /\ unresolved = {} /\ missed = {}
         /\ \A i \in DOMAIN stmt.stars : i \in expanded
         /\ \A i \in Tables(stmt) : /\ NameOf(i) \in Relations
                                    /\ \E v \in versions : v[NameOf(i)].kind = "table"
         /\ Promotable(stmt)
<1>1. TypeOK /\ FactInv /\ stmt \in Statement
  BY DEF IInv, TypeOK
<1>2. FinalUnresolved = {} /\ FinalClass = "read_only"
  BY DEF FinalAdmission
<1>3. /\ unresolved = {} /\ ~stmt.ambiguous
      /\ \A i \in DOMAIN stmt.stars : i \in expanded
  BY <1>2 DEF FinalUnresolved
<1>4. missed = {}
  BY <1>1, <1>3 DEF FactInv, RelationsInv
<1>5. /\ ~HasView
      /\ \/ stmt.class = "read_only"
         \/ stmt.class = "indeterminate" /\ stmt.reasons \subseteq {"function_call"}
  <2>1. stmt.class \in {"read_only", "indeterminate", "not_read_only"}
    BY <1>1, StatementParts
  <2>2. AllowsPromotion => ~HasView
    BY DEF AllowsPromotion
  <2>3. ~HasView /\ Reasons = {} => stmt.reasons \subseteq {"function_call"}
    BY DEF Reasons
  <2>4. \/ stmt.class = "read_only" /\ ~HasView
        \/ /\ AllowsPromotion /\ Reasons = {}
           /\ stmt.class = "indeterminate" \/ (HasView /\ stmt.class # "not_read_only")
    BY <1>2, <2>1 DEF FinalClass
  <2> QED BY <2>2, <2>3, <2>4
<1>6. ASSUME NEW i \in Tables(stmt)
      PROVE  NameOf(i) \in Relations /\ \E v \in versions : v[NameOf(i)].kind = "table"
  <2>1. NameOf(i) \in Relations /\ \E v \in versions : v[NameOf(i)].kind = kinds[NameOf(i)]
    BY <1>1, <1>3, EndingSettled DEF FactInv, RelationsInv
  <2>2. kinds[NameOf(i)] # "view"
    BY <1>5, <2>1 DEF HasView, NameOf
  <2>3. kinds[NameOf(i)] \in {"table", "view"}
    BY <1>1, <2>1 DEF TypeOK
  <2> QED BY <2>1, <2>2, <2>3
<1>7. \A i \in DOMAIN stmt.stars : \/ stmt.stars[i].ref = AllRelations
                                   \/ InDefaultSchema(stmt, stmt.stars[i].ref) \in Relations
  BY <1>1, <1>3 DEF FactInv, ExpandedInv, Covered, CoveredIn
<1> QED BY <1>3, <1>4, <1>5, <1>6, <1>7 DEF Promotable

\* What a wildcard was expanded to, by whether its columns have to be required.
LEMMA EndingCovers ==
  ASSUME IInv, Ending, FinalAdmission = "admissible",
         NEW i \in DOMAIN stmt.stars, NEW m \in DOMAIN StarRelations(stmt, stmt.stars[i]),
         StarRelations(stmt, stmt.stars[i])[m] \in Relations,
         ~(expired /\ Cardinality(Tables(stmt)) > 1 /\ stmt.stars[i].ref = AllRelations)
  PROVE  Covered(StarRelations(stmt, stmt.stars[i])[m], stmt.stars[i].out)
<1>1. stmt \in Statement /\ FactInv /\ i \in expanded /\ unresolved = {}
  BY EndingAdmitted DEF IInv, TypeOK
<1> DEFINE r == StarRelations(stmt, stmt.stars[i])[m]
<1>2. CASE stmt.stars[i].ref # AllRelations
  <2>1. r = InDefaultSchema(stmt, stmt.stars[i].ref)
    BY <1>1, <1>2, StarNames
  <2> QED BY <1>1, <1>2, <2>1 DEF FactInv, ExpandedInv
<1>3. CASE stmt.stars[i].ref = AllRelations
  <2>1. m \in Tables(stmt) /\ r = NameOf(m)
    BY <1>1, <1>3, StarNames, QueryAccessAssumption DEF NameOf
  <2>2. CASE ~expired
    BY <1>1, <1>3, <2>1, <2>2, EndingSettled DEF FactInv, GlobalInv
  <2>3. CASE expired
    <3>1. PICK n \in Tables(stmt) : Covered(NameOf(n), stmt.stars[i].out)
      BY <1>1, <1>3 DEF FactInv, ExpandedInv
    <3>2. n = m
      BY <1>1, <1>3, <2>1, <2>3, OneTable
    <3> QED BY <2>1, <3>1, <3>2
  <2> QED BY <2>2, <2>3
<1> QED BY <1>2, <1>3

LEMMA FinishType ==
  ASSUME IInv, Finish
  PROVE  TypeOK'
<1>1. /\ TypeOK /\ stmt \in Statement
      /\ UNCHANGED <<dbVars, kinds, columns, sources, expanded, missed, expired, stmt, k, j,
                     kindRead, cache, faulted>>
  BY DEF IInv, TypeOK, Finish
<1>2. unresolved' \subseteq Unresolved
  <2>1. unresolved \subseteq Unresolved
    BY <1>1 DEF TypeOK
  <2>2. \A i \in DOMAIN stmt.stars : stmt.stars[i].ref \in Names \cup {AllRelations}
    BY <1>1, StatementParts
  <2>3. {[ref |-> <<NoName, NoName>>, reason |-> "ambiguous_reference"]} \subseteq Unresolved
    BY DEF Unresolved
  <2>4. {[ref |-> <<star, star>>, reason |-> "schema_unavailable"] :
            star \in Refs(stmt.stars, DOMAIN stmt.stars) \ Refs(stmt.stars, expanded)}
          \subseteq Unresolved
    BY <2>2 DEF Unresolved, Refs
  <2>5. {[ref |-> <<stmt.stars[i].ref, stmt.stars[i].ref>>, reason |-> "unresolved_wildcard"] :
            i \in DOMAIN stmt.stars \ expanded} \subseteq Unresolved
    BY <2>2 DEF Unresolved
  <2>6. FinalUnresolved \subseteq Unresolved
    BY <2>1, <2>3, <2>4, <2>5 DEF FinalUnresolved
  <2> QED BY <2>6 DEF Finish
<1>3. result' \in Result
  <2>1. FinalClass \in {"read_only", "indeterminate", "not_read_only"}
    BY <1>1, StatementParts DEF FinalClass
  <2>2. FinalAdmission \in {"admissible", "indeterminate", "rejected"}
    BY DEF FinalAdmission
  <2>3. RequiredTables \subseteq Names /\ RequiredColumns \subseteq Names \X Cols
    BY <1>1, StatementParts DEF RequiredTables, RequiredColumns, Tables, TypeOK
  <2> QED BY <2>1, <2>2, <2>3 DEF Finish, Result
<1>4. pc' = "done"
  BY DEF Finish
<1> QED BY <1>1, <1>2, <1>3, <1>4 DEF TypeOK, dbVars

\* The columns a statement reads are required when its references, or its outputs, are
\* complete.
LEMMA EndingColumns ==
  ASSUME IInv, Ending, FinalAdmission = "admissible", ReportsColumns(stmt)
  PROVE  (IF stmt.mode = "strict" THEN stmt.reads.columns ELSE stmt.reads.shown)
           \subseteq RequiredColumns
<1>1. /\ stmt \in Statement /\ FactInv /\ unresolved = {}
      /\ stmt.reads.columns \subseteq Relations \X Cols
  BY EndingAdmitted DEF IInv, TypeOK, Statement
<1>2. CASE stmt.mode = "strict"
  <2>1. ASSUME NEW rc \in stmt.reads.columns PROVE rc \in columns
    <3>1. PICK i \in DOMAIN stmt.refs :
            <<ResolveRelationRef(stmt, stmt.refs[i].rel), stmt.refs[i].col>> = rc
      BY <1>2 DEF ReportsColumns
    <3>2. ResolveRelationRef(stmt, stmt.refs[i].rel) # NoName
      BY <1>1, <3>1, QueryAccessAssumption
    <3> QED BY <1>1, <3>1, <3>2, EndingSettled DEF FactInv, ColumnsInv
  <2> QED BY <1>2, <2>1 DEF RequiredColumns
<1>3. CASE stmt.mode # "strict"
  <2>1. ASSUME NEW rc \in stmt.reads.shown PROVE rc \in sources
    <3>1. PICK i \in DOMAIN stmt.outs :
            /\ <<stmt.outs[i].rel, stmt.outs[i].col>> = rc
            /\ InDefaultSchema(stmt, stmt.outs[i].rel) = stmt.outs[i].rel
      BY <1>3 DEF ReportsColumns
    <3> QED BY <1>1, <3>1, EndingSettled DEF FactInv, OutputsInv
  <2> QED BY <1>3, <2>1 DEF RequiredColumns
<1> QED BY <1>2, <1>3

\* The relations a statement shows or reads whole are required whole when its wildcards
\* are complete.
LEMMA EndingWild ==
  ASSUME IInv, Ending, FinalAdmission = "admissible", ReportsWildcards(stmt),
         NEW r \in WildOf(stmt)
  PROVE  \/ \E v \in versions : {r} \X v[r].cols \subseteq RequiredColumns
         \/ /\ expired /\ Cardinality(Tables(stmt)) > 1
            /\ AllRelations \in Refs(stmt.stars, DOMAIN stmt.stars)
<1>1. stmt \in Statement /\ r \in Relations
  BY StatementParts DEF IInv, TypeOK, WildOf
<1>2. PICK i \in DOMAIN stmt.stars :
        /\ \E m \in DOMAIN StarRelations(stmt, stmt.stars[i]) :
             StarRelations(stmt, stmt.stars[i])[m] = r
        /\ stmt.mode = "strict" \/ stmt.stars[i].out
  BY DEF ReportsWildcards
<1>3. CASE expired /\ Cardinality(Tables(stmt)) > 1 /\ stmt.stars[i].ref = AllRelations
  BY <1>3 DEF Refs
<1>4. CASE ~(expired /\ Cardinality(Tables(stmt)) > 1 /\ stmt.stars[i].ref = AllRelations)
  <2>1. Covered(r, stmt.stars[i].out)
    BY <1>1, <1>2, <1>4, EndingCovers
  <2> QED BY <1>2, <2>1 DEF Covered, CoveredIn, RequiredColumns
<1> QED BY <1>3, <1>4

LEMMA FinishDone ==
  ASSUME IInv, Finish
  PROVE  DoneInv'
<1>1. /\ Ending /\ stmt' = stmt /\ versions' = versions /\ missed' = missed
      /\ expired' = expired /\ stmt \in Statement
      /\ result'.admission = FinalAdmission /\ result'.tables = RequiredTables
      /\ result'.columns = RequiredColumns
  BY DEF IInv, TypeOK, Finish, Ending, dbVars
<1>2. SUFFICES ASSUME FinalAdmission = "admissible" PROVE DoneInv'
  BY <1>1, NotAdmitted
<1>3. /\ missed = {} /\ unresolved = {} /\ Promotable(stmt) /\ FactInv
      /\ \A i \in Tables(stmt) : NameOf(i) \in Relations
                                 /\ \E v \in versions : v[NameOf(i)].kind = "table"
  BY <1>1, <1>2, EndingAdmitted DEF IInv
<1>4. AdmittedReadsTables'
  <2>1. ASSUME NEW r \in RequiredTables PROVE \E v \in versions : EntryOf(v, r).kind = "table"
    BY <1>3 DEF RequiredTables, NameOf, EntryOf
  <2> QED BY <1>1, <1>3, <2>1 DEF AdmittedReadsTables, RequiredTables
<1>5. AdmittedColumnsExist'
  <2>1. ASSUME NEW i \in DOMAIN stmt.refs, stmt.mode = "strict",
               ResolveRelationRef(stmt, stmt.refs[i].rel) # NoName
        PROVE  LET r == ResolveRelationRef(stmt, stmt.refs[i].rel)
               IN  /\ <<r, stmt.refs[i].col>> \in RequiredColumns
                   /\ \E v \in versions : stmt.refs[i].col \in EntryOf(v, r).cols
    BY <1>1, <1>3, <2>1, EndingSettled DEF FactInv, ColumnsInv, RequiredColumns, EntryOf
  <2> QED BY <1>1, <2>1 DEF AdmittedColumnsExist, Strict
<1>6. ASSUME ReportCovers(stmt) PROVE AdmittedCoversReads'
  <2>1. stmt.reads.covered \subseteq RequiredTables
    BY <1>3, <1>6 DEF ReportCovers, ReportsTables, RequiredTables
  <2>2. stmt.reads.clear =>
          (IF stmt.mode = "strict" THEN stmt.reads.columns ELSE stmt.reads.shown)
            \subseteq RequiredColumns
    BY <1>1, <1>2, <1>3, <1>6, EndingColumns DEF ReportCovers
  <2> QED BY <1>1, <2>1, <2>2 DEF AdmittedCoversReads, Strict
<1>7. ASSUME ReportCovers(stmt) PROVE CompleteBeforeDeadline'
  <2>1. ASSUME stmt.reads.clear, NEW r \in WildOf(stmt)
        PROVE  \/ \E v \in versions : {r} \X v[r].cols \subseteq RequiredColumns
               \/ /\ expired /\ Cardinality(Tables(stmt)) > 1
                  /\ AllRelations \in Refs(stmt.stars, DOMAIN stmt.stars)
    BY <1>1, <1>2, <1>3, <1>7, <2>1, EndingWild DEF ReportCovers
  <2>2. ASSUME NEW r, NEW v \in versions, {r} \X v[r].cols \subseteq RequiredColumns
        PROVE  v[r].cols \subseteq ColumnsOf(r)'
    <3>1. ASSUME NEW c \in v[r].cols PROVE c \in ColumnsOf(r)'
      <4>1. <<r, c>> \in {rd \in RequiredColumns : rd[1] = r} /\ c = <<r, c>>[2]
        BY <2>2
      <4>2. ColumnsOf(r)' = {rc[2] : rc \in {rd \in RequiredColumns : rd[1] = r}}
        BY <1>1 DEF ColumnsOf
      <4> QED BY <4>1, <4>2
    <3> QED BY <3>1
  <2>3. Wild' = WildOf(stmt)
    BY <1>1 DEF Wild
  <2> QED BY <1>1, <2>1, <2>2, <2>3 DEF CompleteBeforeDeadline, AllRequired
<1> QED BY <1>1, <1>4, <1>5, <1>6, <1>7 DEF DoneInv

LEMMA FinishInv ==
  ASSUME IInv, Finish
  PROVE  IInv'
<1>1. /\ TypeOK /\ FactInv /\ Ending /\ pc' = "done" /\ unresolved' = FinalUnresolved
      /\ UNCHANGED <<dbVars, kinds, columns, sources, expanded, missed, expired, stmt, k, j,
                     kindRead, cache, faulted>>
  BY DEF IInv, Finish, Ending
<1>2. ResultInv' /\ CacheInv'
  BY <1>1 DEF IInv, ResultInv, CacheInv, Available, dbVars
<1>3. KindReadInv'
  <2>1. ~LookingUp
    <3>1. k \in Nat /\ Len(stmt.stars) \in Nat
      BY <1>1, StatementParts DEF TypeOK
    <3> QED BY <1>1, <3>1 DEF LookingUp, Resolving, Items, Ending
  <2> QED BY <1>1, <2>1 DEF IInv, KindReadInv
<1>4. FactInv'
  <2>1. \A list \in Lists : \A i : ~Settled(list, i)'
    BY <1>1 DEF Settled, After, Lists
  <2>2. RelationsInv' /\ ColumnsInv' /\ OutputsInv' /\ GlobalInv'
    BY <1>1, <2>1 DEF FactInv, RelationsInv, ColumnsInv, OutputsInv, GlobalInv, FinalUnresolved,
                      Lists
  <2>3. ExpandedInv'
    <3>1. \A r, out : Covered(r, out)' <=> Covered(r, out)
      BY <1>1 DEF Covered, dbVars
    <3> HIDE DEF Covered
    <3> QED BY <1>1, <3>1 DEF FactInv, ExpandedInv, NameOf
  <2> QED BY <2>2, <2>3 DEF FactInv
<1> QED BY <1>2, <1>3, <1>4, FinishType, FinishDone DEF IInv

-----------------------------------------------------------------------------
(* The theorems.                                                           *)

LEMMA NextInv ==
  ASSUME IInv, [Next]_vars
  PROVE  IInv'
<1>1. CASE Next
  <2>1. CASE Analysis
    BY <2>1, StartInv, SkipInv, EndListInv, ReadKindInv, FinishInv, AnsweredIsLookup,
       ReadColumnsIsLookup, LookupInv DEF Analysis
  <2>2. CASE Expire
    BY <2>2, ExpireInv
  <2>3. CASE \E r \in Relations, e \in Replacements : Alter(r, e)
    BY <2>3, AlterInv
  <2> QED BY <1>1, <2>1, <2>2, <2>3 DEF Next
<1>2. CASE UNCHANGED vars
  <2>1. Current' = Current /\ (LookingUp' <=> LookingUp)
    BY <1>2 DEF vars, dbVars, factVars, walkVars, Current, LookingUp, Resolving
  <2>2. TypeOK' /\ ResultInv' /\ CacheInv' /\ KindReadInv'
    BY <1>2, <2>1 DEF IInv, TypeOK, ResultInv, CacheInv, KindReadInv, Available,
                      vars, dbVars, factVars, walkVars
  <2>3. FactInv'
    <3>1. \A list, i : Settled(list, i)' <=> Settled(list, i)
      BY <1>2 DEF Settled, vars, walkVars
    <3> QED BY <1>2, <3>1, FactsStay DEF vars, dbVars, walkVars
  <2>4. DoneInv'
    BY <1>2 DEF IInv, DoneInv, AdmittedReadsTables, AdmittedColumnsExist, AdmittedCoversReads,
                CompleteBeforeDeadline, Admitted, Strict, AllRequired, ColumnsOf, Wild,
                RequiredTables, Tables, vars, dbVars, factVars
  <2> QED BY <2>2, <2>3, <2>4 DEF IInv
<1> QED BY <1>1, <1>2

LEMMA Invariant == Spec => []IInv
<1>1. Init => IInv
  BY InitInv
<1>2. IInv /\ [Next]_vars => IInv'
  BY NextInv
<1> QED BY <1>1, <1>2, PTL DEF Spec

\* Every variable stays within its type: the walk over the lists of the statement, the
\* facts resolution gathers (resolve.go:22) and the result (service.go:89).
THEOREM TypeCorrect == Spec => []TypeOK
<1>1. IInv => TypeOK
  BY DEF IInv
<1> QED BY <1>1, Invariant, PTL

\* Every table an admitted statement requires was a table in some version of the catalog
\* since the analysis began, and its own lookup did not fail (service.go:150,
\* resolve.go:197), whatever the extractor reports and however the DDL falls between
\* the queries.
THEOREM TablesSound == Spec => []AdmittedReadsTables
<1>1. IInv => AdmittedReadsTables
  BY DEF IInv, DoneInv
<1> QED BY <1>1, Invariant, PTL

\* Every column an admitted strict statement refers to was there in some version of the
\* catalog, and is required.
THEOREM ColumnsSound == Spec => []AdmittedColumnsExist
<1>1. IInv => AdmittedColumnsExist
  BY DEF IInv, DoneInv
<1> QED BY <1>1, Invariant, PTL

\* If the extractor reports what the statements read, the requirements of an admitted
\* one cover its tables and columns.
THEOREM CoverSound ==
  ASSUME \A s \in Statements : ReportCovers(s)
  PROVE  Spec => []AdmittedCoversReads
<1>1. IInv => AdmittedCoversReads
  BY DEF IInv, ResultInv, DoneInv
<1> QED BY <1>1, Invariant, PTL

\* If the extractor reports what the statements read, the requirements of an admitted
\* one cover its wildcards, but for "*" over several tables when the deadline passed
\* (resolve.go:566).
THEOREM WildcardsSound ==
  ASSUME \A s \in Statements : ReportCovers(s)
  PROVE  Spec => []CompleteBeforeDeadline
<1>1. IInv => CompleteBeforeDeadline
  BY DEF IInv, ResultInv, DoneInv
<1> QED BY <1>1, Invariant, PTL

-----------------------------------------------------------------------------
(* A quiet analysis.                                                       *)

\* No query failed, no DDL ran and the deadline has not passed.
Quiet == ~faulted /\ ~expired /\ versions = {catalog}

\* Everything the statement names is there.
Answerable ==
  /\ \A i \in Tables(stmt) : EntryOf(catalog, NameOf(i)).kind = "table"
  /\ \A i \in DOMAIN stmt.refs :
       LET r == ResolveRelationRef(stmt, stmt.refs[i].rel)
       IN  r # NoName => stmt.refs[i].col \in EntryOf(catalog, r).cols
  /\ \A i \in DOMAIN stmt.stars :
       IF stmt.stars[i].ref = AllRelations THEN Tables(stmt) # {}
       ELSE ResolveRelationRef(stmt, stmt.stars[i].ref) # NoName

\* A relation of wildcard i has been looked up.
Reached(i) ==
  /\ pc = "wildcards" /\ i = k
  /\ \E m \in DOMAIN StarRelations(stmt, stmt.stars[i]) :
       m < j /\ StarRelations(stmt, stmt.stars[i])[m] # NoName

\* Every lookup of a quiet analysis has been answered.
QuietInv ==
  Quiet /\ Answerable =>
    /\ pc # "done" => unresolved = {}
    /\ \A i \in Tables(stmt) : kinds[NameOf(i)] = "table"
    /\ \A i \in DOMAIN stmt.stars : Settled("wildcards", i) \/ Reached(i) => i \in expanded

\* A name that resolves names a table of the statement.
LEMMA ResolvedTable ==
  ASSUME NEW s \in Statement, WellReported(s), NEW n \in Names, ResolveRelationRef(s, n) # NoName
  PROVE  \E i \in Tables(s) : s.rels[i].name = ResolveRelationRef(s, n)
<1> DEFINE aliased == {i \in DOMAIN s.rels : s.rels[i].alias = n}
<1>1. n # NoName
  BY QueryAccessAssumption
<1>2. aliased \subseteq Tables(s)
  BY <1>1 DEF WellReported, Tables
<1>3. CASE aliased # {}
  <2>1. aliased \in SUBSET (1..Len(s.rels)) /\ Len(s.rels) \in Nat
    BY StatementParts
  <2>2. \E i \in aliased : \A h \in aliased : h <= i
    <3> HIDE DEF aliased
    <3> QED BY <1>3, <2>1, Greatest
  <2> DEFINE last == CHOOSE i \in aliased : \A h \in aliased : h <= i
  <2>3. last \in aliased
    BY <2>2
  <2>4. ResolveRelationRef(s, n) = s.rels[last].name
    BY <1>3 DEF ResolveRelationRef
  <2> QED BY <1>2, <2>3, <2>4
<1>4. CASE aliased = {}
  BY <1>4 DEF ResolveRelationRef
<1> QED BY <1>3, <1>4

\* What the statement names besides the sources of its outputs is a table, which the
\* lookup cannot miss.
LEMMA QuietCurrent ==
  ASSUME IInv, Answerable, LookingUp, pc # "outputs"
  PROVE  EntryOf(catalog, Current).kind = "table"
<1>1. /\ stmt \in Statement /\ WellReported(stmt) /\ Current # NoName /\ pc \in Lists
      /\ k \in DOMAIN Items(stmt, pc)
  BY CurrentName, QueryAccessAssumption DEF IInv, TypeOK, ResultInv, LookingUp, Resolving
<1>2. SUFFICES \E i \in Tables(stmt) : NameOf(i) = Current
  BY DEF Answerable
<1>3. CASE pc = "relations"
  BY <1>1, <1>3, CurrentName DEF IInv, LookingUp
<1>4. CASE pc = "columns"
  <2>1. Current = ResolveRelationRef(stmt, stmt.refs[k].rel) /\ stmt.refs[k].rel \in Names
    BY <1>1, <1>4, CurrentName, StatementParts DEF IInv, LookingUp, Items
  <2> QED BY <1>1, <2>1, ResolvedTable DEF NameOf
<1>5. CASE pc = "wildcards"
  <2>1. /\ k \in DOMAIN stmt.stars
        /\ IF stmt.stars[k].ref = AllRelations
           THEN j \in Tables(stmt) /\ Current = NameOf(j)
           ELSE Current = InDefaultSchema(stmt, stmt.stars[k].ref)
    BY <1>5, StarCurrent DEF IInv
  <2>2. CASE stmt.stars[k].ref = AllRelations
    BY <2>1, <2>2
  <2>3. CASE stmt.stars[k].ref # AllRelations
    <3>1. stmt.stars[k].ref \in Names /\ ResolveRelationRef(stmt, stmt.stars[k].ref) # NoName
      BY <1>1, <2>1, <2>3, StatementParts DEF Answerable
    <3>2. Current = ResolveRelationRef(stmt, stmt.stars[k].ref)
      BY <2>1, <2>3, <3>1 DEF InDefaultSchema
    <3> QED BY <1>1, <3>1, <3>2, ResolvedTable DEF NameOf
  <2> QED BY <2>2, <2>3
<1> QED BY <1>1, <1>3, <1>4, <1>5 DEF Lists

\* In a quiet analysis the lookup of a table is answered, with all of its columns.
LEMMA QuietAnswers ==
  ASSUME IInv, Quiet', NEW entry, Lookup(entry), EntryOf(catalog, Current).kind = "table"
  PROVE  /\ entry # NoEntry /\ entry.kind = "table"
         /\ entry.cols = EntryOf(catalog, Current).cols
<1>1. ~expired /\ ~faulted' /\ versions = {catalog}
  BY LookupFacts DEF Quiet
<1>2. ~Failing
  BY <1>1 DEF Failing
<1>3. entry # NoEntry
  BY <1>2 DEF Lookup
<1>4. Available(Current, entry)
  BY <1>3, LookupFacts
<1> QED BY <1>1, <1>3, <1>4 DEF Available, EntryOf

LEMMA QuietLookup ==
  ASSUME IInv, QuietInv, NEW entry, Lookup(entry)
  PROVE  QuietInv'
<1>1. SUFFICES ASSUME Quiet', Answerable'
               PROVE  /\ unresolved' = {}
                      /\ \A i \in Tables(stmt) : kinds'[NameOf(i)] = "table"
                      /\ \A i \in DOMAIN stmt.stars :
                           Settled("wildcards", i)' \/ Reached(i)' => i \in expanded'
  BY LookupFacts DEF QuietInv, NameOf
<1>2. Quiet /\ Answerable
  <2>1. ~faulted /\ stmt' = stmt /\ catalog' = catalog /\ versions' = versions /\ expired' = expired
    <3>1. ~faulted
      BY <1>1, Zenon DEF Lookup, Quiet
    <3> QED BY <3>1, LookupFacts
  <2> QED BY <1>1, <2>1 DEF Quiet, Answerable, NameOf
<1>3. /\ unresolved = {} /\ \A i \in Tables(stmt) : kinds[NameOf(i)] = "table"
      /\ \A i \in DOMAIN stmt.stars : Settled("wildcards", i) \/ Reached(i) => i \in expanded
  BY <1>2, LookupFacts DEF QuietInv, Lists
<1>4. pc # "outputs" => /\ entry # NoEntry /\ entry.kind = "table"
                        /\ entry.cols = EntryOf(catalog, Current).cols
  BY <1>1, <1>2, QuietCurrent, QuietAnswers DEF Lookup
<1>5. unresolved' = {}
  <2>1. CASE pc = "columns"
    <3>1. /\ Current = ResolveRelationRef(stmt, stmt.refs[k].rel) /\ Current # NoName
          /\ k \in DOMAIN stmt.refs /\ SettleColumn(Current, stmt.refs[k], entry)
      BY <2>1, CurrentName, LookupFacts DEF Lookup, LookingUp, IInv, Items
    <3>2. stmt.refs[k].col \in entry.cols
      BY <1>2, <1>4, <2>1, <3>1 DEF Answerable
    <3> QED BY <1>3, <1>4, <2>1, <3>1, <3>2 DEF SettleColumn
  <2>2. CASE pc # "columns"
    BY <1>3, <1>4, <2>2, LookupFacts DEF SettleRelation, SettleOutput, SettleStar
  <2> QED BY <2>1, <2>2
<1>6. ASSUME NEW i \in Tables(stmt)
      PROVE  kinds'[NameOf(i)] = "table"
  <2>1. \/ kinds' = kinds
        \/ entry.kind = "table" /\ kinds' = [kinds EXCEPT ![Current] = entry.kind]
    BY <1>4, LookupFacts DEF SettleRelation, SettleColumn, SettleOutput, SettleStar
  <2>2. NameOf(i) \in Relations
    BY <1>2 DEF Answerable, EntryOf
  <2>3. kinds \in [Relations -> {"table", "view"}]
    BY DEF IInv, TypeOK
  <2> QED BY <1>3, <2>1, <2>2, <2>3
<1>7. ASSUME NEW i \in DOMAIN stmt.stars, Settled("wildcards", i)' \/ Reached(i)'
      PROVE  i \in expanded'
  <2>1. pc = "wildcards" /\ pc' = pc /\ k' = k
    BY <1>7, LookupFacts DEF Settled, Reached, After
  <2>2. entry # NoEntry /\ expanded' = expanded \cup {k}
    BY <1>4, <2>1, LookupCovers
  <2>3. CASE i = k
    BY <2>2, <2>3
  <2>4. CASE i # k
    <3>1. Settled("wildcards", i)
      BY <1>7, <2>1, <2>4 DEF Settled, Reached, After
    <3> QED BY <1>3, <2>2, <3>1
  <2> QED BY <2>3, <2>4
<1> QED BY <1>5, <1>6, <1>7

\* The end of a wildcard comes after one of its relations.
LEMMA QuietStar ==
  ASSUME IInv, Answerable, Skip, pc = "wildcards", k' # k
  PROVE  Reached(k)
<1> DEFINE seq == StarRelations(stmt, stmt.stars[k])
<1>1. /\ stmt \in Statement /\ k \in DOMAIN stmt.stars /\ j \in Nat \ {0}
      /\ ~(j < Len(seq))
      /\ Current = IF j <= Len(seq) THEN seq[j] ELSE NoName
      /\ Current = NoName
  BY CurrentName DEF IInv, TypeOK, Skip, Items
<1>2. /\ Len(seq) \in Nat /\ DOMAIN seq = 1..Len(seq)
      /\ IF stmt.stars[k].ref = AllRelations
         THEN /\ Len(seq) = Len(stmt.rels)
              /\ \A m \in DOMAIN seq : seq[m] = IF m \in Tables(stmt) THEN NameOf(m) ELSE NoName
         ELSE Len(seq) = 1 /\ seq[1] = InDefaultSchema(stmt, stmt.stars[k].ref)
  BY <1>1, StarNames DEF NameOf
<1>3. \E m \in DOMAIN seq : seq[m] # NoName
  <2>1. CASE stmt.stars[k].ref = AllRelations
    <3>1. PICK m \in Tables(stmt) : TRUE
      BY <1>1, <2>1 DEF Answerable
    <3>2. m \in DOMAIN seq /\ NameOf(m) # NoName
      BY <1>1, <1>2, <2>1, StatementParts, QueryAccessAssumption DEF Tables, NameOf
    <3> QED BY <1>2, <2>1, <3>2
  <2>2. CASE stmt.stars[k].ref # AllRelations
    <3>1. InDefaultSchema(stmt, stmt.stars[k].ref) # NoName
      BY <1>1, <2>2, StatementParts, ResolvedName, QueryAccessAssumption
    <3> QED BY <1>2, <2>2, <3>1
  <2> QED BY <2>1, <2>2
<1>4. PICK m \in DOMAIN seq : seq[m] # NoName
  BY <1>3
<1>5. m < j
  <2> HIDE DEF seq
  <2>1. m # j
    BY <1>1, <1>2, <1>4
  <2> QED BY <1>1, <1>2, <2>1
<1> QED BY <1>4, <1>5 DEF Reached

LEMMA QuietSkip ==
  ASSUME IInv, QuietInv, Skip
  PROVE  QuietInv'
<1>1. /\ pc \in Lists /\ pc' = pc /\ kinds' = kinds /\ unresolved' = unresolved
      /\ expanded' = expanded /\ stmt' = stmt /\ catalog' = catalog /\ stmt \in Statement
      /\ (Quiet' <=> Quiet) /\ (Answerable' <=> Answerable)
  BY DEF Skip, Resolving, IInv, TypeOK, Quiet, Answerable, NameOf, dbVars
<1>2. SUFFICES ASSUME Quiet, Answerable, NEW i \in DOMAIN stmt.stars,
                      Settled("wildcards", i)' \/ Reached(i)'
               PROVE  Settled("wildcards", i) \/ Reached(i)
  BY <1>1 DEF QuietInv, NameOf, Lists
<1>3. pc = "wildcards"
  BY <1>1, <1>2 DEF Settled, Reached, After
<1>4. /\ k \in DOMAIN stmt.stars /\ k \in Nat /\ j \in Nat \ {0} /\ i \in Nat
      /\ Current = NoName
      /\ Current = IF j <= Len(StarRelations(stmt, stmt.stars[k]))
                   THEN StarRelations(stmt, stmt.stars[k])[j] ELSE NoName
  BY <1>1, <1>3, CurrentName, StatementParts DEF IInv, TypeOK, Skip, Items
<1>5. CASE j' = j + 1 /\ k' = k /\ j < Len(StarRelations(stmt, stmt.stars[k]))
  <2>1. CASE Settled("wildcards", i)'
    BY <1>1, <1>5, <2>1 DEF Settled, After
  <2>2. CASE Reached(i)'
    <3>1. /\ i = k
          /\ \E m \in DOMAIN StarRelations(stmt, stmt.stars[i]) :
               m < j + 1 /\ StarRelations(stmt, stmt.stars[i])[m] # NoName
      BY <1>1, <1>5, <2>2 DEF Reached
    <3>2. PICK m \in DOMAIN StarRelations(stmt, stmt.stars[k]) :
               m < j + 1 /\ StarRelations(stmt, stmt.stars[k])[m] # NoName
      BY <3>1
    <3>3. m # j /\ m \in Nat
      BY <1>1, <1>4, <1>5, <3>2, StarNames
    <3>4. m < j
      BY <1>4, <3>2, <3>3
    <3> QED BY <1>3, <3>1, <3>2, <3>4 DEF Reached
  <2> QED BY <1>2, <2>1, <2>2
<1>6. CASE k' = k + 1 /\ j' = 1
  <2>1. ~Reached(i)'
    <3>1. \A m \in DOMAIN StarRelations(stmt, stmt.stars[i]) : ~(m < 1)
      BY <1>1, StarNames
    <3> QED BY <1>1, <1>6, <3>1 DEF Reached
  <2>2. i < k + 1
    BY <1>1, <1>2, <1>3, <1>6, <2>1 DEF Settled, After
  <2>3. CASE i = k
    BY <1>2, <1>3, <1>4, <1>6, <2>3, QuietStar
  <2>4. CASE i # k
    BY <1>3, <1>4, <2>2, <2>4 DEF Settled
  <2> QED BY <2>3, <2>4
<1> QED BY <1>3, <1>5, <1>6 DEF Skip, Items

\* Nothing is reached before the walk comes to the first wildcard.
LEMMA NothingReached ==
  ASSUME NEW i \in DOMAIN stmt.stars, stmt \in Statement,
         pc # "wildcards" \/ (k = 1 /\ j = 1)
  PROVE  ~Settled("wildcards", i) /\ ~Reached(i)
<1>1. i \in Nat /\ i >= 1
  BY StatementParts
<1>2. ~Settled("wildcards", i)
  BY <1>1 DEF Settled, After
<1>3. \A m \in DOMAIN StarRelations(stmt, stmt.stars[i]) : ~(m < 1)
  BY StarNames
<1> QED BY <1>2, <1>3 DEF Reached

LEMMA QuietInit ==
  ASSUME Init
  PROVE  QuietInv
<1>1. \A i \in DOMAIN stmt.stars : ~Settled("wildcards", i) /\ ~Reached(i)
  BY NothingReached, QueryAccessAssumption DEF Init
<1>2. ASSUME Answerable, NEW i \in Tables(stmt)
      PROVE  kinds[NameOf(i)] = "table"
  <2>1. NameOf(i) \in Relations
    BY <1>2 DEF Answerable, EntryOf
  <2> QED BY <2>1 DEF Init
<1>3. unresolved = {}
  BY DEF Init
<1> QED BY <1>1, <1>2, <1>3 DEF QuietInv

\* Where no fact changes and no wildcard is come to, the invariant stays.
LEMMA QuietStays ==
  ASSUME IInv, QuietInv, stmt' = stmt, catalog' = catalog, UNCHANGED <<kinds, expanded>>,
         Quiet' => Quiet,
         pc' # "done" => pc # "done" /\ unresolved' = unresolved,
         \/ UNCHANGED walkVars
         \/ pc' # "wildcards"
         \/ k' = 1 /\ j' = 1
  PROVE  QuietInv'
<1>1. /\ Answerable' <=> Answerable
      /\ \A i : NameOf(i)' = NameOf(i)
  BY DEF Answerable, NameOf
<1>2. ASSUME NEW i \in DOMAIN stmt.stars
      PROVE  Settled("wildcards", i)' \/ Reached(i)' => Settled("wildcards", i) \/ Reached(i)
  <2>1. CASE UNCHANGED walkVars
    BY <2>1 DEF Settled, Reached, walkVars
  <2>2. CASE pc' # "wildcards" \/ (k' = 1 /\ j' = 1)
    <3>1. stmt \in Statement
      BY DEF IInv, TypeOK
    <3>2. i \in Nat /\ i >= 1
      BY <3>1, StatementParts
    <3>3. ~Settled("wildcards", i)'
      BY <2>2, <3>2 DEF Settled, After
    <3>4. \A m \in DOMAIN StarRelations(stmt, stmt.stars[i]) : ~(m < 1)
      BY <3>1, StarNames
    <3>5. ~Reached(i)'
      BY <2>2, <3>4 DEF Reached
    <3> QED BY <3>3, <3>5
  <2> QED BY <2>1, <2>2
<1> QED BY <1>1, <1>2 DEF QuietInv

\* What the property asks of the calls of a statement.
CallsProven ==
  \/ stmt.effects = "none"
  \/ /\ stmt.effects \in {"proven", "constant"} /\ Strict /\ stmt.stars = << >>
     /\ Tables(stmt) = DOMAIN stmt.rels
     /\ stmt.rels = << >> => stmt.effects = "constant" /\ stmt.refs = << >>
     /\ \A i \in DOMAIN stmt.refs : ~stmt.refs[i].bare
     /\ \A ref \in stmt.operands : ~ref.bare /\ <<ref.rel, ref.col>> \in columns

LEMMA QuietAdmission ==
  ASSUME IInv, QuietInv, Ending, Quiet, Answerable, ~stmt.ambiguous,
         stmt.reasons \subseteq {"function_call"}, CallsProven
  PROVE  FinalAdmission = "admissible"
<1>1. /\ stmt \in Statement /\ WellReported(stmt) /\ unresolved = {}
      /\ \A i \in Tables(stmt) : kinds[NameOf(i)] = "table"
      /\ \A i \in DOMAIN stmt.stars : i \in expanded
      /\ expanded \subseteq DOMAIN stmt.stars
  <2>1. stmt \in Statement /\ WellReported(stmt) /\ expanded \subseteq DOMAIN stmt.stars
    BY QueryAccessAssumption DEF IInv, TypeOK, ResultInv, FactInv, ExpandedInv
  <2> QED BY <2>1, EndingSettled DEF QuietInv, Ending
<1>2. FinalUnresolved = {}
  <2>1. expanded = DOMAIN stmt.stars
    BY <1>1
  <2> QED BY <1>1, <2>1 DEF FinalUnresolved
<1>3. ~HasView
  BY <1>1 DEF HasView, NameOf
<1>4. AllowsPromotion
  <2>1. CASE stmt.effects = "none"
    BY <1>3, <2>1 DEF AllowsPromotion
  <2>2. CASE stmt.effects # "none" /\ stmt.rels = << >>
    <3>1. RelationlessLiteralRequirementsComplete
      BY <1>2, <2>2 DEF CallsProven, Strict, RelationlessLiteralRequirementsComplete
    <3> QED BY <1>3, <2>2, <3>1 DEF CallsProven, AllowsPromotion
  <2>3. CASE stmt.effects # "none" /\ stmt.rels # << >>
    <3>1. StrictPhysicalRequirementsComplete
      BY <1>2, <1>3, <2>3 DEF CallsProven, Strict, StrictPhysicalRequirementsComplete,
                              RequiredColumns
    <3> QED BY <1>3, <2>3, <3>1 DEF CallsProven, AllowsPromotion
  <2> QED BY <2>1, <2>2, <2>3
<1>5. Reasons = {}
  <2>1. stmt.effects = "none" => stmt.reasons = {}
    BY <1>1 DEF WellReported
  <2>2. stmt.reasons \ {"function_call"} = {}
    OBVIOUS
  <2> QED BY <1>3, <1>4, <2>1, <2>2 DEF Reasons
<1>6. stmt.class \in {"read_only", "indeterminate"}
  BY <1>1, StatementParts DEF WellReported
<1>7. FinalClass = "read_only"
  BY <1>2, <1>3, <1>4, <1>5, <1>6 DEF FinalClass
<1> QED BY <1>2, <1>7 DEF FinalAdmission

LEMMA QuietFinish ==
  ASSUME IInv, QuietInv, Finish
  PROVE  QuietAnalysisAdmits'
<1>1. /\ Ending /\ stmt' = stmt /\ catalog' = catalog /\ versions' = versions
      /\ expired' = expired /\ faulted' = faulted /\ columns' = columns
      /\ result'.admission = FinalAdmission
  BY DEF Finish, Ending, dbVars
<1>2. /\ (Quiet' <=> Quiet) /\ (Answerable' <=> Answerable) /\ (CallsProven' <=> CallsProven)
  BY <1>1 DEF Quiet, Answerable, CallsProven, Strict, NameOf
<1>3. SUFFICES ASSUME Quiet', Answerable', CallsProven', ~stmt.ambiguous,
                      stmt.reasons \subseteq {"function_call"}
               PROVE  Admitted'
  BY <1>1 DEF QuietAnalysisAdmits, Quiet, Answerable, CallsProven, Strict, NameOf
<1>4. FinalAdmission = "admissible"
  BY <1>1, <1>2, <1>3, QuietAdmission
<1> QED BY <1>1, <1>4 DEF Admitted

LEMMA QuietNext ==
  ASSUME IInv, QuietInv, QuietAnalysisAdmits, [Next]_vars
  PROVE  QuietInv' /\ QuietAnalysisAdmits'
<1>1. ASSUME pc' # "done" PROVE QuietAnalysisAdmits'
  BY <1>1 DEF QuietAnalysisAdmits
<1>2. CASE Start
  <2>1. /\ QuietInv'
    <3>1. /\ stmt' = stmt /\ catalog' = catalog /\ UNCHANGED <<kinds, expanded>>
          /\ (Quiet' <=> Quiet) /\ unresolved' = unresolved
          /\ pc' # "wildcards" /\ pc # "done"
      BY <1>2 DEF Start, Quiet, dbVars, factVars
    <3> QED BY <3>1, QuietStays
  <2>2. pc' = "done" => expired'
    BY <1>2 DEF Start
  <2> QED BY <1>1, <2>1, <2>2 DEF QuietAnalysisAdmits
<1>3. CASE Skip
  BY <1>1, <1>3, QuietSkip DEF Skip, Resolving, Lists
<1>4. CASE EndList
  <2>1. /\ stmt' = stmt /\ catalog' = catalog /\ UNCHANGED <<kinds, expanded>>
        /\ (Quiet' <=> Quiet) /\ unresolved' = unresolved
        /\ k' = 1 /\ j' = 1 /\ pc # "done" /\ pc' # "done"
    BY <1>4 DEF EndList, NextList, Quiet, dbVars, factVars
  <2> QED BY <1>1, <2>1, QuietStays
<1>5. ASSUME NEW entry, Lookup(entry) PROVE QuietInv' /\ QuietAnalysisAdmits'
  BY <1>1, <1>5, QuietLookup, LookupFacts DEF Lists
<1>6. CASE ReadKind
  <2>1. CASE UNCHANGED <<dbVars, factVars, walkVars, expired, stmt, cache, result, faulted>>
    <3>1. /\ stmt' = stmt /\ catalog' = catalog /\ UNCHANGED <<kinds, expanded, walkVars>>
          /\ (Quiet' <=> Quiet) /\ unresolved' = unresolved /\ pc' = pc /\ pc # "done"
      BY <1>6, <2>1 DEF ReadKind, LookingUp, Resolving, Lists, Quiet, dbVars, factVars, walkVars
    <3> QED BY <1>1, <3>1, QuietStays
  <2> QED BY <1>5, <1>6, <2>1, ReadKindSteps
<1>7. CASE Answered \/ ReadColumns
  BY <1>5, <1>7, AnsweredIsLookup, ReadColumnsIsLookup
<1>8. CASE Finish
  <2>1. /\ stmt' = stmt /\ catalog' = catalog /\ UNCHANGED <<kinds, expanded>>
        /\ (Quiet' <=> Quiet) /\ pc' = "done"
    BY <1>8 DEF Finish, Quiet, dbVars
  <2> QED BY <1>8, <2>1, QuietStays, QuietFinish
<1>9. CASE Expire
  <2>1. expired' /\ pc' # "done"
    BY <1>9 DEF Expire, walkVars
  <2> QED BY <1>1, <2>1 DEF QuietInv, Quiet
<1>10. CASE \E r \in Relations, e \in Replacements : Alter(r, e)
  <2>1. PICK r \in Relations, e \in Replacements : Alter(r, e)
    BY <1>10
  <2>2. catalog \in versions' /\ catalog' # catalog /\ pc' # "done"
    <3>1. /\ catalog \in versions /\ catalog \in Catalog /\ e # catalog[r] /\ pc' # "done"
          /\ catalog' = [catalog EXCEPT ![r] = e] /\ versions' = versions \cup {catalog'}
      BY <2>1 DEF Alter, IInv, TypeOK, ResultInv, walkVars
    <3>2. catalog'[r] = e
      BY <3>1 DEF Catalog
    <3> QED BY <3>1, <3>2
  <2> QED BY <1>1, <2>2 DEF QuietInv, Quiet
<1>11. CASE UNCHANGED vars
  <2>1. /\ stmt' = stmt /\ catalog' = catalog /\ UNCHANGED <<kinds, expanded, walkVars>>
        /\ unresolved' = unresolved /\ pc' = pc /\ versions' = versions /\ expired' = expired
        /\ faulted' = faulted /\ columns' = columns /\ result' = result
    BY <1>11 DEF vars, dbVars, factVars, walkVars
  <2>2. QuietInv'
    <3>1. Quiet' <=> Quiet
      BY <2>1 DEF Quiet
    <3> QED BY <2>1, <3>1, QuietStays
  <2>3. QuietAnalysisAdmits'
    BY <2>1 DEF QuietAnalysisAdmits, Strict, Admitted
  <2> QED BY <2>2, <2>3
<1> QED BY <1>2, <1>3, <1>4, <1>6, <1>7, <1>8, <1>9, <1>10, <1>11 DEF Next, Analysis

\* A quiet analysis, without failures, DDL or an expired deadline, admits what it has no
\* reason to refuse (service.go:148, resolve.go:104): every lookup of it is answered and
\* every wildcard expands.
THEOREM QuietSound == Spec => []QuietAnalysisAdmits
<1>1. Init => QuietInv /\ QuietAnalysisAdmits
  BY QuietInit DEF Init, QuietAnalysisAdmits
<1>2. IInv /\ QuietInv /\ QuietAnalysisAdmits /\ [Next]_vars => QuietInv' /\ QuietAnalysisAdmits'
  BY QuietNext
<1> QED BY <1>1, <1>2, Invariant, PTL DEF Spec

-----------------------------------------------------------------------------
(* Where the claims hold that an admission does not keep in general.       *)

\* Where each name calls one relation and "*" stands over one table at most, the
\* wildcards of an admitted statement are covered (CONTEXT.md:97), even when the
\* deadline passes between two lookups: a wildcard over several tables is the only way
\* past the requirements.
THEOREM CompletenessSound ==
  ASSUME \A s \in Statements :
           /\ ReportCovers(s) /\ s.reads.clear
           /\ Cardinality(Tables(s)) > 1 => AllRelations \notin Refs(s.stars, DOMAIN s.stars)
  PROVE  Spec => []PhysicalRequirementCompleteness
<1>1. IInv /\ CompleteBeforeDeadline => PhysicalRequirementCompleteness
  BY DEF IInv, ResultInv, CompleteBeforeDeadline, PhysicalRequirementCompleteness
<1>2. Spec => []CompleteBeforeDeadline
  <2>1. \A s \in Statements : ReportCovers(s)
    OBVIOUS
  <2> QED BY <2>1, WildcardsSound
<1> QED BY <1>1, <1>2, Invariant, PTL

\* Where the extractor passes over no table that a statement reads, an admitted one
\* requires them all (query_access.go:438): resolution and requirements lose none.
THEOREM AllTablesSound ==
  ASSUME \A s \in Statements : ReportCovers(s) /\ s.reads.tables \subseteq s.reads.covered
  PROVE  Spec => []TablesRequired
<1>1. IInv /\ AdmittedCoversReads => TablesRequired
  BY DEF IInv, ResultInv, AdmittedCoversReads, TablesRequired
<1>2. Spec => []AdmittedCoversReads
  <2>1. \A s \in Statements : ReportCovers(s)
    OBVIOUS
  <2> QED BY <2>1, CoverSound
<1> QED BY <1>1, <1>2, Invariant, PTL

-----------------------------------------------------------------------------
(* The analysis goes through the statement once.                           *)

\* What the walk takes from each action of the analysis.
LEMMA AnalysisMoves ==
  ASSUME IInv, Analysis
  PROVE  \/ pc = "start" /\ pc' \in {"relations", "done"} /\ k' = k /\ j' = j
         \/ /\ pc \in DOMAIN NextList /\ pc' = NextList[pc] /\ k' = 1 /\ j' = 1
         \/ pc = "wildcards" /\ pc' = "done" /\ k' = k /\ j' = j
         \/ /\ Resolving /\ Current = NoName /\ pc' = pc
            /\ IF pc = "wildcards" /\ j < Len(StarRelations(stmt, Items(stmt, pc)[k]))
               THEN j' = j + 1 /\ k' = k ELSE k' = k + 1 /\ j' = 1
         \/ /\ Resolving /\ Current # NoName /\ pc' = pc
            /\ IF pc = "wildcards" THEN j' = j + 1 /\ k' = k ELSE k' = k + 1 /\ j' = j
         \/ /\ Resolving /\ pc' = pc /\ k' = k /\ j' = j
            /\ kindRead = "none" /\ kindRead' # "none"
<1>1. CASE Start
  BY <1>1 DEF Start
<1>2. CASE Skip
  BY <1>2 DEF Skip
<1>3. CASE EndList
  BY <1>3 DEF EndList
<1>4. CASE Finish
  BY <1>4 DEF Finish
<1>5. CASE \E entry : Lookup(entry)
  BY <1>5, LookupFacts DEF Lookup, LookingUp
<1>6. CASE ReadKind /\ ~\E entry : Lookup(entry)
  <2>1. /\ LookingUp /\ EntryOf(catalog, Current).kind # "absent"
        /\ kindRead' = EntryOf(catalog, Current).kind /\ UNCHANGED walkVars
    BY <1>6, ReadKindSteps
  <2>2. kindRead = "none"
    BY <1>6 DEF ReadKind
  <2>3. EntryOf(catalog, Current).kind \in Kinds
    BY <2>1 DEF IInv, TypeOK, Catalog, Entry, EntryOf, Kinds
  <2> QED BY <2>1, <2>2, <2>3 DEF LookingUp, walkVars, Kinds
<1> QED BY <1>1, <1>2, <1>3, <1>4, <1>5, <1>6, AnsweredIsLookup, ReadColumnsIsLookup DEF Analysis

LEMMA AnalysisOnwards ==
  ASSUME IInv, Analysis
  PROVE  Onwards
<1>1. k \in Nat /\ j \in Nat
  BY DEF IInv, TypeOK
<1>2. \/ Rank[pc] < Rank[pc'] \/ pc' = pc
  BY AnalysisMoves DEF Rank, NextList
<1>3. pc' = pc =>
        \/ k < k' \/ (k = k' /\ j < j')
        \/ k = k' /\ j = j' /\ kindRead = "none" /\ kindRead' # "none"
  BY <1>1, AnalysisMoves DEF NextList
<1> QED BY <1>2, <1>3 DEF Onwards

\* The environment leaves the walk alone.
LEMMA EnvironmentStays ==
  ASSUME \/ Expire \/ \E r \in Relations, e \in Replacements : Alter(r, e)
         \/ UNCHANGED vars
  PROVE  UNCHANGED <<walkVars, kindRead, stmt, cache>>
BY DEF Expire, Alter, vars, walkVars

LEMMA StmtStays == ASSUME [Next]_vars PROVE stmt' = stmt
BY EnvironmentStays
DEF Next, vars, Analysis, Start, Skip, EndList, Answered, ReadKind, ReadColumns, Finish

LEMMA WithinNext ==
  ASSUME IInv, WithinStatement, [Next]_vars
  PROVE  WithinStatement'
<1>1. /\ k \in Nat \ {0} /\ j \in Nat \ {0} /\ stmt' = stmt /\ stmt \in Statement
      /\ \A list \in Lists : Len(Items(stmt, list)) \in Nat
      /\ \A i \in DOMAIN stmt.stars : Len(StarRelations(stmt, stmt.stars[i])) \in Nat
      /\ DOMAIN stmt.stars = 1..Len(stmt.stars) /\ Len(stmt.stars) \in Nat
      /\ Items(stmt, "wildcards") = stmt.stars
  BY StmtStays, StatementParts, StarNames DEF IInv, TypeOK, Lists, Items
<1>2. CASE Analysis
  <2>1. ASSUME pc' \in Lists PROVE k' \in 1..(Len(Items(stmt, pc')) + 1)
    <3>1. CASE pc' = pc
      <4>1. k <= Len(Items(stmt, pc)) \/ k' = k
        BY <1>2, <3>1, AnalysisMoves DEF Resolving, NextList
      <4>2. k' = k \/ k' = k + 1
        BY <1>2, <3>1, AnalysisMoves DEF NextList
      <4>3. k \in 1..(Len(Items(stmt, pc)) + 1)
        BY <2>1, <3>1 DEF WithinStatement
      <4> QED BY <1>1, <2>1, <3>1, <4>1, <4>2, <4>3
    <3>2. CASE pc' # pc
      <4>1. k' = 1
        BY <1>2, <2>1, <3>2, AnalysisMoves DEF IInv, ResultInv, Lists
      <4> QED BY <1>1, <2>1, <4>1
    <3> QED BY <3>1, <3>2
  <2>2. ASSUME pc' = "wildcards", k' <= Len(stmt.stars)
        PROVE  j' \in 1..(Len(StarRelations(stmt, stmt.stars[k'])) + 1)
    <3>1. k' \in DOMAIN stmt.stars
      <4>1. k' \in 1..(Len(Items(stmt, pc')) + 1)
        BY <2>1, <2>2 DEF Lists
      <4> QED BY <1>1, <2>2, <4>1
    <3>2. CASE j' = 1
      BY <1>1, <3>1, <3>2
    <3>3. CASE j' # 1
      <4>1. pc = "wildcards" /\ k' = k
        BY <1>2, <2>2, <3>3, AnalysisMoves DEF NextList
      <4>2. j' = j \/ (j' = j + 1 /\ j <= Len(StarRelations(stmt, stmt.stars[k])))
        <5>1. CASE Resolving /\ Current # NoName
          BY <1>1, <1>2, <2>2, <4>1, <5>1, AnalysisMoves, CurrentName DEF IInv, NextList
        <5>2. CASE ~(Resolving /\ Current # NoName)
          BY <1>1, <1>2, <2>2, <3>3, <4>1, <5>2, AnalysisMoves DEF NextList
        <5> QED BY <5>1, <5>2
      <4>3. j \in 1..(Len(StarRelations(stmt, stmt.stars[k])) + 1)
        BY <2>2, <4>1 DEF WithinStatement
      <4> QED BY <1>1, <3>1, <4>1, <4>2, <4>3
    <3> QED BY <3>2, <3>3
  <2> QED BY <1>1, <2>1, <2>2 DEF WithinStatement
<1>3. CASE ~Analysis
  BY <1>1, <1>3, EnvironmentStays DEF Next, WithinStatement, walkVars
<1> QED BY <1>2, <1>3

\* An analysis goes through its statement once, in order: each of its steps goes on,
\* and the places it goes on to are the items of the statement, one lookup of at most
\* two queries for each relation, reference, output and relation of a wildcard.
\* Neither DDL, nor a failed query, nor the deadline sends it back (resolve.go:136,
\* :197).  So its length is bounded by the statement's, and with the fairness of the
\* goroutine, which TLC adds in AnalysisEnds, it ends.
THEOREM AnalysisBounded == Spec => []WithinStatement /\ AnalysisAdvances
<1>1. Init => WithinStatement
  BY DEF Init, WithinStatement, Lists
<1>2. IInv /\ WithinStatement /\ [Next]_vars => WithinStatement'
  BY WithinNext
<1>3. IInv /\ [Next]_vars =>
        [IF Analysis THEN Onwards ELSE UNCHANGED <<walkVars, kindRead>>]_vars
  BY AnalysisOnwards, EnvironmentStays DEF Next
<1> QED BY <1>1, <1>2, <1>3, Invariant, PTL DEF Spec, AnalysisAdvances

\* All references of a statement to a relation are resolved against one answer of the
\* catalog: once a lookup has found it, no later one asks again, though DDL may have
\* replaced it meanwhile (resolve.go:88).  A statement's requirements never mix two
\* versions of one relation's columns.
THEOREM OneAnswerSound == Spec => OneAnswer
<1>1. ASSUME IInv, [Next]_vars, NEW r \in Relations, cache[r] # NoEntry
      PROVE  cache'[r] = cache[r]
  <2>1. CASE ReadColumns
    <3>1. cache[Current] = NoEntry
      BY <1>1, <2>1 DEF ReadColumns, IInv, KindReadInv
    <3> QED BY <1>1, <2>1, <3>1 DEF ReadColumns, IInv, TypeOK
  <2>2. CASE Start \/ Skip \/ EndList \/ Answered \/ ReadKind \/ Finish
    BY <2>2 DEF Start, Skip, EndList, Answered, ReadKind, Finish
  <2>3. CASE ~Analysis
    BY <1>1, <2>3, EnvironmentStays DEF Next
  <2> QED BY <2>1, <2>2, <2>3 DEF Analysis
<1>2. IInv /\ [Next]_vars =>
        [\A r \in Relations : cache[r] # NoEntry => cache'[r] = cache[r]]_vars
  BY <1>1
<1> QED BY <1>2, Invariant, PTL DEF Spec, OneAnswer

=============================================================================
