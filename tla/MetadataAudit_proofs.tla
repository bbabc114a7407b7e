------------------------ MODULE MetadataAudit_proofs ------------------------
(***************************************************************************)
(* Proofs about MetadataAudit, for any scripts, schemas, tables and        *)
(* requests, and any amount of DDL.                                        *)
(***************************************************************************)
EXTENDS MetadataAudit, TLAPS, FiniteSetTheorems

Opening == {"normalize", "open", "open_postgresql", "detect", "reopen", "redetect"}
Preparing == Opening \cup {"check", "lookup"}
Unloaded == Preparing \cup {"audit", "parse", "facts"}

LoadedTypes ==
  /\ catalog \in history
  /\ parts \in Seq(Nat)
  /\ snapshots \in [DOMAIN snapshots -> Seq(Nat)]
  /\ target \in [DOMAIN Script -> Seq(Nat)]

TypeInv == TypeOK /\ LoadedTypes

\* Nothing is known, or loaded, before its step.
PhaseInv ==
  /\ pc \in Opening => dialect = "none"
  /\ pc \in Opening \cup {"check"} => next = 1 /\ resolved = {}
  /\ pc \in Preparing => source = "none"
  /\ pc \in Unloaded => /\ DOMAIN snapshots = {}
                        /\ \A i \in DOMAIN Script : target[i] = <<>>
  /\ pc \notin {"attach", "done"} => parts = <<>>
  /\ pc = "attach" => /\ next \in DOMAIN Script
                      /\ Key \in DOMAIN snapshots => parts = <<>>
  /\ faulted => pc = "done"

\* Each target before next has its place in resolved, or needed none.
Placed(i, places) ==
  TableBacked(Script[i]) /\ Script[i].schema = NoSchema =>
    \E c \in history :
      \/ \E s \in places : Where(c, Script[i].table) = {s}
      \/ Where(c, Script[i].table) = {} /\ ~RequiresExisting(Script, i)

WitnessInv ==
  /\ pc = "lookup" => \A i \in DOMAIN Script : i < next => Placed(i, resolved)
  /\ InferredSchemaWitnessed

\* Each query of a snapshot read a version the table had.
ReadOf(snapshot, s, table) ==
  \A q \in DOMAIN snapshot : \E c \in history : snapshot[q] = VersionIn(c, s, table)

\* A table without a row is read no further.
Whole(snapshot) == snapshot # <<>> /\ (snapshot[1] = 0 => snapshot = <<0>>)

LoadedFor(snapshot, statement) ==
  /\ Whole(snapshot)
  /\ ReadOf(snapshot, MetadataTargetSchema(dialect, schema, statement), statement.table)

CacheInv ==
  /\ \A s \in Schemas \cup {NoSchema}, t \in Tables : <<s, t>> \in DOMAIN snapshots =>
       Whole(snapshots[<<s, t>>]) /\ ReadOf(snapshots[<<s, t>>], s, t)
  /\ pc = "attach" => /\ ReadOf(parts, TargetSchema, Current.table)
                      /\ parts # <<>> => parts[1] # 0

TargetInv ==
  /\ \A i \in DOMAIN Script : target[i] # <<>> => LoadedFor(target[i], Script[i])
  /\ pc \in {"enrich", "attach"} =>
       \A i \in DOMAIN Script : TableBacked(Script[i]) /\ i < next => target[i] # <<>>
  /\ pc = "evaluate" =>
       \A i \in DOMAIN Script : TableBacked(Script[i]) => target[i] # <<>>

OutcomeInv == DetectedClientsReleased /\ FaultsFailAudit /\ PassIsEarned

IInv == TypeInv /\ PhaseInv /\ WitnessInv /\ CacheInv /\ TargetInv /\ OutcomeInv

----------------------------------------------------------------------------
(* The steps of the audit, by what they change.                            *)

\* The audit ends with outcome o; only a failed detection keeps a client open.
Ended(o) ==
  /\ pc # "done" /\ pc' = "done" /\ result' = o
  /\ o # NoOutcome /\ o.verdict \in Verdicts
  /\ open' = {} \/ (open' = open /\ Explicit /\ dialect = "none")
  /\ faulted' \in BOOLEAN
  /\ faulted' => o.error # "none" /\ o.verdict = "none"
  /\ o.verdict = "pass" => /\ pc = "evaluate"
                           /\ FinalVerdict(Script, dialect, Missing) = "pass"
  /\ UNCHANGED <<env, ctxDone, job, next, prepared, loaded, reply>>

\* The order in which the clients are tried.
Dials == {<<"normalize", "open">>, <<"open", "open_postgresql">>, <<"open", "detect">>,
          <<"open_postgresql", "detect">>, <<"detect", "reopen">>, <<"reopen", "redetect">>}

\* Only the program counter and the clients change.
Walked ==
  /\ \/ pc \in Opening /\ pc' \in Opening /\ <<pc, pc'>> \in Dials
     \/ pc = "check" /\ pc' = "lookup"
     \/ pc = "audit" /\ pc' = "parse"
     \/ pc = "parse" /\ pc' = "facts"
     \/ pc = "enrich" /\ pc' = "attach" /\ next \in DOMAIN Script
     \/ pc = "enrich" /\ pc' = "evaluate" /\ next \notin DOMAIN Script
  /\ open' \subseteq open \cup {"mysql", "postgresql"}
  /\ UNCHANGED <<env, ctxDone, faulted, job, next, prepared, loaded, result, reply>>

\* One schema, or none where none is needed, was found for the target at next.
Found ==
  /\ pc = "lookup" /\ next \in DOMAIN Script
  /\ LET found == Where(catalog, Current.table)
     IN  /\ ~HintRequired(found, RequiresExisting(Script, next))
         /\ resolved' = resolved
              \cup (IF found = {} THEN {} ELSE {CHOOSE s \in found : TRUE})
  /\ next' = next + 1
  /\ Goto("lookup") /\ UNCHANGED <<open, dialect, schema, source, loaded>>

\* All targets were found, in one schema or in none.
Inferred ==
  /\ pc = "lookup" /\ next \notin DOMAIN Script
  /\ Cardinality(resolved) <= 1
  /\ schema' = (IF resolved = {} THEN NoSchema ELSE CHOOSE s \in resolved : TRUE)
  /\ source' = (IF resolved = {} THEN "none" ELSE "inferred")
  /\ next' = 1
  /\ Goto("audit") /\ UNCHANGED <<open, dialect, resolved, loaded>>

Skipped ==
  /\ pc = "enrich" /\ next \in DOMAIN Script /\ ~TableBacked(Current)
  /\ NextStatement /\ UNCHANGED loaded

Outside == Alter \/ Expire \/ Deliver \/ Abandon

LEMMA VerdictTypes ==
  ASSUME NEW script, NEW d, NEW missing
  PROVE  /\ FinalVerdict(script, d, missing) \in Verdicts
         /\ UnparsedVerdict(script, d) \in {"none", "review"}
         /\ FinalError(script) \in {"parser", "unsupported", "none"}
  BY DEF FinalVerdict, UnparsedVerdict, FinalError, FindingVerdict, Aggregate, Verdicts

LEMMA CheckErrors ==
  CheckError \in {"dialect_mismatch", "database_required", "catalog_conflict", "none"}
  BY DEF CheckError

LEMMA FailEnds ==
  ASSUME PhaseInv, pc # "done", NEW e, e \notin {"none", "pending"}, Fail(e),
         faulted \in BOOLEAN
  PROVE  \E o : Ended(o)
  <1> DEFINE o == Outcome(e, "none", {})
  <1>1. ~faulted BY DEF PhaseInv
  <1>2. Ended(o)
    BY <1>1 DEF Ended, Fail, Finish, EndWith, Outcome, NoOutcome, Verdicts
  <1> QED BY <1>2

LEMMA LoadFailsEnds ==
  ASSUME pc # "done", NEW e, e \notin {"none", "pending"}, LoadFails(e)
  PROVE  \E o : Ended(o)
  <1> DEFINE o == Outcome(e, "none", {})
  <1>1. Ended(o)
    BY DEF Ended, LoadFails, EndWith, Outcome, NoOutcome, Verdicts
  <1> QED BY <1>1

LEMMA PrepareSteps ==
  ASSUME PhaseInv, faulted \in BOOLEAN, Prepare
  PROVE  \/ \E o : Ended(o)
         \/ Walked \/ Detect \/ TakeExplicitSchema \/ SkipLookup \/ Found \/ Inferred
  <1> USE DEF Opening, Dials
  <1>1. CASE Normalize
    <2>1. CASE Conflict(job.configured)
      BY <1>1, <2>1, FailEnds DEF Normalize
    <2>2. CASE ~Conflict(job.configured)
      BY <1>1, <2>2 DEF Normalize, Walked, Goto
    <2> QED BY <2>1, <2>2
  <1>2. CASE Open
    BY <1>2 DEF Open, Opens, FirstDriver, Walked, Goto
  <1>3. CASE OpenFails
    <2>1. CASE Explicit
      BY <1>3, <2>1, FailEnds DEF OpenFails
    <2>2. CASE ~Explicit
      BY <1>3, <2>2 DEF OpenFails, Walked, Goto
    <2> QED BY <2>1, <2>2
  <1>4. CASE OpenPostgreSQL
    BY <1>4 DEF OpenPostgreSQL, Opens, Walked, Goto
  <1>5. CASE OpenPostgreSQLFails
    BY <1>5, FailEnds DEF OpenPostgreSQLFails
  <1>6. CASE Detect
    BY <1>6
  <1>7. CASE DetectFails
    <2>1. CASE Explicit
      <3> DEFINE o == Outcome("dialect_detect", "none", {})
      <3>1. Ended(o)
        BY <1>7, <2>1 DEF DetectFails, PhaseInv, Ended, EndWith, Outcome, NoOutcome, Verdicts
      <3> QED BY <3>1
    <2>2. CASE ~Explicit
      BY <1>7, <2>2 DEF DetectFails, Walked, Goto
    <2> QED BY <2>1, <2>2
  <1>8. CASE Reopen
    BY <1>8 DEF Reopen, Opens, Walked, Goto
  <1>9. CASE ReopenFails
    BY <1>9, FailEnds DEF ReopenFails
  <1>10. CASE RedetectFails
    BY <1>10, FailEnds DEF RedetectFails
  <1>11. CASE CheckFails
    BY <1>11, FailEnds, CheckErrors DEF CheckFails
  <1>12. CASE TakeExplicitSchema
    BY <1>12
  <1>13. CASE CollectTargets
    <2>1. CASE ctxDone \/ Parsed(Script) = {}
      BY <1>13, <2>1, FailEnds DEF CollectTargets
    <2>2. CASE ~(ctxDone \/ Parsed(Script) = {})
      BY <1>13, <2>2 DEF CollectTargets, Walked, Goto
    <2> QED BY <2>1, <2>2
  <1>14. CASE SkipLookup
    BY <1>14
  <1>15. CASE FindSchemas
    <2>1. CASE HintRequired(Where(catalog, Current.table), RequiresExisting(Script, next))
      BY <1>15, <2>1, FailEnds DEF FindSchemas
    <2>2. CASE ~HintRequired(Where(catalog, Current.table), RequiresExisting(Script, next))
      BY <1>15, <2>2 DEF FindSchemas, Found
    <2> QED BY <2>1, <2>2
  <1>16. CASE FindSchemasFails
    BY <1>16, LoadFailsEnds DEF FindSchemasFails
  <1>17. CASE InferSchema
    <2>1. CASE Cardinality(resolved) > 1 /\ Fail("schema_hint_required")
      BY <1>17, <2>1, FailEnds DEF InferSchema
    <2>2. CASE ~(Cardinality(resolved) > 1 /\ Fail("schema_hint_required"))
      BY <1>17, <2>2 DEF InferSchema, Inferred
    <2> QED BY <2>1, <2>2
  <1> QED
    BY <1>1, <1>2, <1>3, <1>4, <1>5, <1>6, <1>7, <1>8, <1>9, <1>10, <1>11, <1>12,
       <1>13, <1>14, <1>15, <1>16, <1>17 DEF Prepare

LEMMA AuditSteps ==
  ASSUME PhaseInv, faulted \in BOOLEAN, Audit
  PROVE  \/ \E o : Ended(o)
         \/ Walked \/ LoadInstanceFacts \/ Skipped \/ Attach \/ ReadSnapshot
  <1>0. pc # "done" => ~faulted
    BY DEF PhaseInv
  <1>1. CASE BeginAudit
    <2>1. CASE ctxDone
      BY <1>1, <2>1, FailEnds DEF BeginAudit
    <2>2. CASE ~ctxDone
      BY <1>1, <2>2 DEF BeginAudit, Walked, Goto
    <2> QED BY <2>1, <2>2
  <1>2. CASE PolicyFails
    BY <1>2, FailEnds DEF PolicyFails
  <1>3. CASE ParseCancelled
    <2> DEFINE hinted == PossibleMismatch(Script, dialect)
               o == IF hinted THEN Outcome("cancelled", "review", {})
                              ELSE Outcome("parser", "none", {"parser_error"})
    <2>1. Finish(o) /\ pc = "parse"
      BY <1>3 DEF ParseCancelled
    <2> HIDE DEF hinted
    <2>2. Ended(o)
      BY <1>0, <2>1 DEF Finish, Ended, EndWith, Outcome, NoOutcome, Verdicts
    <2> QED BY <2>2
  <1>4. CASE ParseRejectsAll
    <2> DEFINE v == UnparsedVerdict(Script, dialect)
               o == Outcome("parser", v, {"parser_error"})
    <2>1. v \in {"none", "review"}
      BY VerdictTypes
    <2>2. Finish(o) /\ pc = "parse"
      BY <1>4 DEF ParseRejectsAll
    <2> HIDE DEF v
    <2>3. Ended(o)
      BY <1>0, <2>1, <2>2 DEF Finish, Ended, EndWith, Outcome, NoOutcome, Verdicts
    <2> QED BY <2>3
  <1>5. CASE Parse
    BY <1>5 DEF Parse, Walked, Goto
  <1>6. CASE ExtractCancelled
    BY <1>6, FailEnds DEF ExtractCancelled
  <1>7. CASE LoadInstanceFacts
    BY <1>7
  <1>8. CASE LoadInstanceFactsFails
    BY <1>8, LoadFailsEnds DEF LoadInstanceFactsFails
  <1>9. CASE SkipStatement
    BY <1>9 DEF SkipStatement, Skipped
  <1>10. CASE Enrich
    BY <1>10 DEF Enrich, Walked, Goto
  <1>11. CASE FindOwner
    <2>1. ~TableBacked(Current)
      BY <1>11 DEF FindOwner, OwnerSearched, TableBacked
    <2>2. CASE Version(IndexSchema(schema, Current), Current.table) # 0
      BY <1>11, <2>2 DEF FindOwner, Walked, Goto
    <2>3. CASE Version(IndexSchema(schema, Current), Current.table) = 0
      BY <1>11, <2>1, <2>3 DEF FindOwner, Skipped
    <2> QED BY <2>2, <2>3
  <1>12. CASE FindOwnerFails
    BY <1>12, LoadFailsEnds DEF FindOwnerFails
  <1>13. CASE Attach
    BY <1>13
  <1>14. CASE ReadSnapshot
    BY <1>14
  <1>15. CASE ReadSnapshotFails
    BY <1>15, LoadFailsEnds DEF ReadSnapshotFails
  <1>16. CASE Enriched
    BY <1>16 DEF Enriched, Walked, Goto
  <1>17. CASE Evaluate
    <2>1. CASE ctxDone
      BY <1>17, <2>1, FailEnds DEF Evaluate
    <2>2. CASE ~ctxDone
      <3> DEFINE e == FinalError(Script)
                 v == FinalVerdict(Script, dialect, Missing)
                 o == Outcome(e, v, FinalDiagnostics(Script))
      <3>1. v \in Verdicts /\ e \in {"parser", "unsupported", "none"}
        BY VerdictTypes
      <3>2. Finish(o) /\ pc = "evaluate"
        BY <1>17, <2>2 DEF Evaluate
      <3>3. v = "pass" => FinalVerdict(Script, dialect, Missing) = "pass"
        OBVIOUS
      <3> HIDE DEF v, e
      <3>4. Ended(o)
        BY <1>0, <3>1, <3>2, <3>3 DEF Finish, Ended, EndWith, Outcome, NoOutcome
      <3> QED BY <3>4
    <2> QED BY <2>1, <2>2
  <1> QED
    BY <1>1, <1>2, <1>3, <1>4, <1>5, <1>6, <1>7, <1>8, <1>9, <1>10, <1>11, <1>12,
       <1>13, <1>14, <1>15, <1>16, <1>17 DEF Audit

LEMMA Steps ==
  ASSUME IInv, [Next]_vars
  PROVE  \/ \E o : Ended(o)
         \/ Walked \/ Detect \/ TakeExplicitSchema \/ SkipLookup \/ Found \/ Inferred
         \/ LoadInstanceFacts \/ Skipped \/ Attach \/ ReadSnapshot
         \/ Outside \/ UNCHANGED vars
  BY PrepareSteps, AuditSteps DEF IInv, TypeInv, TypeOK, Next, Outside

----------------------------------------------------------------------------
(* Types. *)

LEMMA KeysCount == Cardinality(Keys) \in Nat
  BY NamesAssumption, FS_Product, FS_CardinalityType DEF Keys

LEMMA ScriptType ==
  ASSUME TypeInv
  PROVE  /\ job \in Job /\ Len(Script) \in Nat
         /\ DOMAIN Script = 1..Len(Script)
         /\ \A i \in DOMAIN Script : Script[i] \in Statement
  BY ConstantsAssumption DEF TypeInv, TypeOK, Job, Script

LEMMA VersionType ==
  ASSUME NEW c \in Catalog, NEW s \in Schemas \cup {NoSchema}, NEW t \in Tables
  PROVE  VersionIn(c, s, t) \in Nat
  <1>1. CASE s = NoSchema
    BY <1>1 DEF VersionIn
  <1>2. CASE s # NoSchema
    <2>1. c[<<s, t>>] \in 0..(Cardinality(Keys) + MaxDDL)
      BY <1>2 DEF Catalog, Keys
    <2> QED BY <1>2, <2>1, KeysCount, ConstantsAssumption DEF VersionIn
  <1> QED BY <1>1, <1>2

LEMMA TargetSchemaType ==
  ASSUME TypeInv, NEW i \in DOMAIN Script
  PROVE  MetadataTargetSchema(dialect, schema, Script[i]) \in Schemas \cup {NoSchema}
  BY ScriptType DEF TypeInv, TypeOK, MetadataTargetSchema, Statement

LEMMA InitType == Init => TypeInv
  <1> SUFFICES ASSUME Init PROVE TypeInv
    OBVIOUS
  <1>1. job \in Jobs /\ job \in Job
    BY ConstantsAssumption DEF Init
  <1>2. Len(Script) \in Nat
    BY <1>1 DEF Script, Job
  <1>3. catalog \in Catalog
    BY KeysCount, ConstantsAssumption DEF Init, Catalog
  <1>4. LoadedTypes
    <2>1. parts \in Seq(Nat) /\ catalog \in history
      BY DEF Init
    <2>2. snapshots \in [DOMAIN snapshots -> Seq(Nat)]
      BY DEF Init
    <2>3. target \in [DOMAIN Script -> Seq(Nat)]
      BY DEF Init, Script
    <2> QED BY <2>1, <2>2, <2>3 DEF LoadedTypes
  <1>5. TypeOK
    <2>1. Len(parts) < Queries
      BY DEF Init, Queries
    <2>2. DOMAIN snapshots \subseteq (Schemas \cup {NoSchema}) \X Tables
      BY DEF Init
    <2>3. DOMAIN target = DOMAIN Script /\ next \in 1..(Len(Script) + 1)
      BY <1>2 DEF Init, Script
    <2>4. result.verdict \in Verdicts
      BY DEF Init, NoOutcome, Outcome, Verdicts
    <2>5. pc \in Labels /\ history \subseteq Catalog /\ ddl \in 0..MaxDDL
      BY <1>3, ConstantsAssumption DEF Init, Labels
    <2>6. ctxDone \in BOOLEAN /\ faulted \in BOOLEAN
      BY DEF Init
    <2>7. (pc = "done" <=> result # NoOutcome) /\ reply \in {NoOutcome, Timeout, result}
      BY DEF Init
    <2>8. /\ open \subseteq {"mysql", "postgresql"} /\ resolved \subseteq Schemas
          /\ dialect \in Dialects \cup {"none"} /\ schema \in Schemas \cup {NoSchema}
          /\ source \in {"none", "request", "database", "inferred"}
      BY DEF Init
    <2> QED
      BY <1>1, <1>3, <2>1, <2>2, <2>3, <2>4, <2>5, <2>6, <2>7, <2>8 DEF TypeOK
  <1> QED BY <1>4, <1>5 DEF TypeInv

\* The snapshot with the answer of its next query.
Longer == Append(parts, Version(TargetSchema, Current.table))

LEMMA ReadSteps ==
  ASSUME ReadSnapshot
  PROVE  \/ /\ Longer[1] = 0 \/ Len(Longer) = Queries
            /\ parts' = <<>>
            /\ snapshots' = [k \in DOMAIN snapshots \cup {Key} |->
                               IF k = Key THEN Longer ELSE snapshots[k]]
         \/ /\ Longer[1] # 0 /\ Len(Longer) # Queries
            /\ parts' = Longer /\ snapshots' = snapshots
  <1>1. CASE Longer[1] = 0 \/ Len(Longer) = Queries
    <2>1. Remember(Longer)
      BY <1>1 DEF ReadSnapshot, Longer
    <2> QED BY <1>1, <2>1 DEF Remember
  <1>2. CASE ~(Longer[1] = 0 \/ Len(Longer) = Queries)
    <2>1. parts' = Longer /\ snapshots' = snapshots
      BY <1>2 DEF ReadSnapshot, Longer
    <2> QED BY <1>2, <2>1
  <1> QED BY <1>1, <1>2

LEMMA TypeStep ==
  ASSUME IInv, [Next]_vars
  PROVE  TypeInv'
  <1> USE DEF env, prepared, loaded, Script
  <1>0. TypeInv /\ TypeOK /\ LoadedTypes /\ PhaseInv
    BY DEF IInv, TypeInv
  <1>S. /\ job \in Job /\ Len(Script) \in Nat /\ DOMAIN Script = 1..Len(Script)
        /\ \A i \in DOMAIN Script : Script[i] \in Statement
    BY <1>0, ScriptType
  <1>1. ASSUME NEW o, Ended(o) PROVE TypeInv'
    BY <1>0, <1>1 DEF Ended, TypeInv, TypeOK, LoadedTypes, Labels, Queries
  <1>2. CASE Walked
    BY <1>0, <1>2 DEF Walked, TypeInv, TypeOK, LoadedTypes, Labels, Queries, Opening
  <1>3. CASE Detect
    <2>1. Answer \in Dialects \cup {"none"}
      BY <1>S DEF Answer, Job, Dialects
    <2>2. Len(parts) < Queries'
      BY <1>0, <1>3 DEF Detect, PhaseInv, Queries
    <2> QED
      BY <1>0, <1>3, <2>1, <2>2 DEF Detect, Goto, TypeInv, TypeOK, LoadedTypes, Labels
  <1>4. CASE TakeExplicitSchema
    BY <1>0, <1>4, <1>S DEF TakeExplicitSchema, ExplicitSchema, Goto, TypeInv, TypeOK,
       LoadedTypes, Labels, Queries, Job
  <1>5. CASE SkipLookup
    BY <1>0, <1>5, <1>S DEF SkipLookup, Goto, TypeInv, TypeOK, LoadedTypes, Labels, Queries,
       Statement, Current, NewTarget
  <1>6. CASE Found
    BY <1>0, <1>6, <1>S DEF Found, Where, Goto, TypeInv, TypeOK, LoadedTypes, Labels, Queries,
       Statement, Current
  <1>7. CASE Inferred
    BY <1>0, <1>7, <1>S DEF Inferred, Goto, TypeInv, TypeOK, LoadedTypes, Labels, Queries
  <1>8. CASE LoadInstanceFacts
    BY <1>0, <1>8, <1>S DEF LoadInstanceFacts, Goto, TypeInv, TypeOK, LoadedTypes, Labels, Queries
  <1>9. CASE Skipped
    BY <1>0, <1>9, <1>S DEF Skipped, NextStatement, Goto, TypeInv, TypeOK, LoadedTypes, Labels,
       Queries
  <1>10. CASE Attach
    BY <1>0, <1>10, <1>S DEF Attach, NextStatement, Goto, TypeInv, TypeOK, LoadedTypes, Labels,
       Queries, PhaseInv
  <1>11. CASE ReadSnapshot
    <2>1. next \in DOMAIN Script
      BY <1>0, <1>11 DEF ReadSnapshot, PhaseInv
    <2>2. TargetSchema \in Schemas \cup {NoSchema} /\ Current.table \in Tables
      BY <1>0, <1>S, <2>1, TargetSchemaType DEF TargetSchema, Current, Statement
    <2>3. Version(TargetSchema, Current.table) \in Nat
      BY <1>0, <2>2, VersionType DEF Version, TypeOK
    <2>4. Longer \in Seq(Nat) /\ Len(Longer) = Len(parts) + 1 /\ Len(parts) \in Nat
      BY <1>0, <2>3 DEF LoadedTypes, Longer
    <2>5. Key \in (Schemas \cup {NoSchema}) \X Tables
      BY <2>2 DEF Key, SnapshotKey
    <2>6. \/ parts' = <<>> /\ snapshots' = [k \in DOMAIN snapshots \cup {Key} |->
                                IF k = Key THEN Longer ELSE snapshots[k]]
          \/ parts' = Longer /\ snapshots' = snapshots /\ Len(Longer) # Queries
      BY <1>11, ReadSteps
    <2>7. Len(parts') < Queries /\ parts' \in Seq(Nat)
      <3>1. Queries \in {3, 4} /\ Len(parts) < Queries
        BY <1>0 DEF TypeOK, Queries
      <3>2. CASE parts' = <<>>
        BY <3>1, <3>2
      <3>3. CASE parts' = Longer /\ Len(Longer) # Queries
        BY <2>4, <3>1, <3>3
      <3> QED BY <2>6, <3>2, <3>3
    <2>8. /\ snapshots' \in [DOMAIN snapshots' -> Seq(Nat)]
          /\ DOMAIN snapshots' \subseteq (Schemas \cup {NoSchema}) \X Tables
      BY <1>0, <2>4, <2>5, <2>6 DEF TypeOK, LoadedTypes
    <2> QED
      BY <1>0, <1>11, <2>7, <2>8 DEF ReadSnapshot, Goto, TypeInv, TypeOK, LoadedTypes,
         Labels, Queries
  <1>12. CASE Alter
    <2>1. catalog' \in Catalog /\ ddl' \in 0..MaxDDL
      <3>1. PICK k \in Keys, v \in {0, Cardinality(Keys) + ddl + 1} :
                   catalog' = [catalog EXCEPT ![k] = v]
        BY <1>12 DEF Alter
      <3>2. ddl \in Nat /\ ddl + 1 <= MaxDDL /\ ddl' = ddl + 1
        BY <1>0, <1>12, ConstantsAssumption DEF Alter, TypeOK
      <3>3. v \in 0..(Cardinality(Keys) + MaxDDL)
        BY <3>2, KeysCount, ConstantsAssumption
      <3> QED
        BY <1>0, <3>1, <3>2, <3>3, ConstantsAssumption DEF TypeOK, Catalog
    <2> QED
      BY <1>0, <1>12, <2>1 DEF Alter, TypeInv, TypeOK, LoadedTypes, Queries
  <1>13. CASE Expire \/ Deliver \/ Abandon
    BY <1>0, <1>13 DEF Expire, Deliver, Abandon, TypeInv, TypeOK, LoadedTypes, Queries
  <1>14. CASE UNCHANGED vars
    BY <1>0, <1>14 DEF vars, TypeInv, TypeOK, LoadedTypes, Queries
  <1> QED
    BY <1>1, <1>2, <1>3, <1>4, <1>5, <1>6, <1>7, <1>8, <1>9, <1>10, <1>11, <1>12, <1>13,
       <1>14, Steps DEF Outside

----------------------------------------------------------------------------
(* Phases. *)

LEMMA PhaseStep ==
  ASSUME IInv, [Next]_vars
  PROVE  PhaseInv'
  <1> USE DEF env, prepared, loaded, Script, PhaseInv, Opening, Preparing, Unloaded
  <1>0. TypeOK /\ LoadedTypes /\ PhaseInv
    BY DEF IInv, TypeInv
  <1>1. ASSUME NEW o, Ended(o) PROVE PhaseInv'
    BY <1>0, <1>1 DEF Ended
  <1>2. CASE Walked
    BY <1>0, <1>2 DEF Walked
  <1>3. CASE Detect
    BY <1>0, <1>3 DEF Detect, Goto
  <1>4. CASE TakeExplicitSchema
    BY <1>0, <1>4 DEF TakeExplicitSchema, Goto
  <1>5. CASE SkipLookup
    BY <1>0, <1>5 DEF SkipLookup, Goto
  <1>6. CASE Found
    BY <1>0, <1>6 DEF Found, Goto
  <1>7. CASE Inferred
    BY <1>0, <1>7 DEF Inferred, Goto
  <1>8. CASE LoadInstanceFacts
    BY <1>0, <1>8 DEF LoadInstanceFacts, Goto
  <1>9. CASE Skipped
    BY <1>0, <1>9 DEF Skipped, NextStatement, Goto
  <1>10. CASE Attach
    BY <1>0, <1>10 DEF Attach, NextStatement, Goto
  <1>11. CASE ReadSnapshot
    <2>1. /\ pc = "attach" /\ pc' = "attach" /\ Key \notin DOMAIN snapshots
          /\ UNCHANGED <<job, next, dialect, schema, source, resolved, target, faulted>>
      BY <1>11 DEF ReadSnapshot, Goto
    <2>2. Key' = Key
      BY <2>1 DEF Key, TargetSchema, Current
    <2>3. Key \in DOMAIN snapshots' => parts' = <<>>
      BY <2>1, <1>11, ReadSteps
    <2> QED BY <1>0, <2>1, <2>2, <2>3
  <1>12. CASE Outside
    <2>1. UNCHANGED <<faulted, job, pc, next, prepared, loaded>>
      BY <1>12 DEF Outside, Alter, Expire, Deliver, Abandon
    <2>2. Key' = Key
      BY <2>1 DEF Key, TargetSchema, Current
    <2> QED BY <1>0, <2>1, <2>2
  <1>13. CASE UNCHANGED vars
    <2>1. Key' = Key
      BY <1>13 DEF vars, Key, TargetSchema, Current
    <2> QED BY <1>0, <1>13, <2>1 DEF vars
  <1> QED
    BY <1>1, <1>2, <1>3, <1>4, <1>5, <1>6, <1>7, <1>8, <1>9, <1>10, <1>11, <1>12, <1>13,
       Steps

----------------------------------------------------------------------------
(* Schema inference. *)

LEMMA Grows ==
  ASSUME IInv, [Next]_vars
  PROVE  history \subseteq history' /\ job' = job /\ Script' = Script
  <1> USE DEF env, Script
  <1>1. ASSUME NEW o, Ended(o) PROVE history' = history /\ job' = job
    BY <1>1 DEF Ended
  <1>2. CASE Outside \/ UNCHANGED vars
    BY <1>2 DEF Outside, Alter, Expire, Deliver, Abandon, vars
  <1>3. CASE \/ Walked \/ Detect \/ TakeExplicitSchema \/ SkipLookup \/ Found \/ Inferred
             \/ LoadInstanceFacts \/ Skipped \/ Attach \/ ReadSnapshot
    BY <1>3 DEF Walked, Detect, TakeExplicitSchema, SkipLookup, Found, Inferred,
       LoadInstanceFacts, Skipped, NextStatement, Attach, ReadSnapshot, Goto
  <1> QED BY <1>1, <1>2, <1>3, Steps

LEMMA PlacedStays ==
  ASSUME NEW i, Placed(i, resolved), resolved \subseteq resolved',
         history \subseteq history', Script' = Script
  PROVE  Placed(i, resolved)'
  BY DEF Placed

\* A target that is not new was placed with the first that names it.
LEMMA SameTargetPlaced ==
  ASSUME NEW i \in DOMAIN Script, NEW j \in DOMAIN Script,
         SameTarget(Script[i], Script[j]), Placed(j, resolved)
  PROVE  Placed(i, resolved)
  BY DEF Placed, SameTarget, RequiresExisting

\* At most one schema: none, or the one CHOOSE picks.
LEMMA AtMostOne ==
  ASSUME NEW S \in SUBSET Schemas, Cardinality(S) <= 1, S # {}
  PROVE  S = {CHOOSE s \in S : TRUE}
  <1>1. IsFiniteSet(S)
    BY NamesAssumption, FS_Subset
  <1>2. Cardinality(S) \in Nat /\ Cardinality(S) # 0
    BY <1>1, FS_CardinalityType, FS_EmptySet
  <1>3. Cardinality(S) = 1
    BY <1>2
  <1>4. PICK x : S = {x}
    BY <1>1, <1>3, FS_Singleton
  <1> QED BY <1>4

LEMMA FoundPlaces ==
  ASSUME IInv, Found, NEW i \in DOMAIN Script, i = next
  PROVE  Placed(i, resolved)'
  <1> DEFINE found == Where(catalog, Script[i].table)
  <1>1. Cardinality(found) <= 1 /\ (found = {} => ~RequiresExisting(Script, i))
    <2>1. ~HintRequired(found, RequiresExisting(Script, i))
      BY DEF Found, Current
    <2>2. found \in SUBSET Schemas
      BY DEF Where
    <2>3. Cardinality(found) \in Nat
      BY <2>2, NamesAssumption, FS_Subset, FS_CardinalityType
    <2> QED BY <2>1, <2>3 DEF HintRequired
  <1>2. catalog \in history' /\ Script' = Script
    BY DEF IInv, TypeInv, LoadedTypes, Found, Goto, env, Script
  <1>3. CASE found = {}
    BY <1>1, <1>2, <1>3 DEF Placed
  <1>4. CASE found # {}
    <2>1. found = {CHOOSE s \in found : TRUE}
      BY <1>1, <1>4, AtMostOne DEF Where
    <2>2. (CHOOSE s \in found : TRUE) \in resolved'
      BY <1>4 DEF Found, Current
    <2> QED BY <1>2, <2>1, <2>2 DEF Placed
  <1> QED BY <1>3, <1>4

LookupInv == pc = "lookup" => \A i \in DOMAIN Script : i < next => Placed(i, resolved)

LEMMA LookupStep ==
  ASSUME IInv, [Next]_vars
  PROVE  LookupInv'
  <1> USE DEF env, prepared, loaded
  <1>0. LookupInv /\ PhaseInv /\ TypeInv
    BY DEF IInv, WitnessInv, LookupInv
  <1>1. history \subseteq history' /\ Script' = Script
    BY Grows
  <1>2. next \in Nat /\ DOMAIN Script \subseteq Nat \ {0}
    BY <1>0, ScriptType DEF TypeInv, TypeOK
  <1>3. CASE pc' # "lookup"
    BY <1>3 DEF LookupInv
  <1>4. CASE UNCHANGED <<pc, next, resolved>>
    BY <1>0, <1>1, <1>4, PlacedStays DEF LookupInv
  <1>5. CASE Walked
    <2>1. CASE pc = "check" /\ pc' = "lookup"
      <3>1. next' = 1
        BY <1>0, <1>5, <2>1 DEF Walked, PhaseInv
      <3> QED BY <1>1, <1>2, <3>1 DEF LookupInv
    <2>2. CASE ~(pc = "check" /\ pc' = "lookup")
      BY <1>5, <2>2, <1>3 DEF Walked, Opening
    <2> QED BY <2>1, <2>2
  <1>6. CASE SkipLookup \/ Found
    <2>1. /\ pc = "lookup" /\ next \in DOMAIN Script /\ next' = next + 1
          /\ resolved \subseteq resolved'
      BY <1>6 DEF SkipLookup, Found
    <2>2. ASSUME NEW i \in DOMAIN Script, i < next PROVE Placed(i, resolved)'
      BY <1>0, <1>1, <2>1, <2>2, PlacedStays DEF LookupInv
    <2>3. ASSUME NEW i \in DOMAIN Script, i = next PROVE Placed(i, resolved)'
      <3>1. CASE Found
        BY <2>3, <3>1, FoundPlaces
      <3>2. CASE SkipLookup /\ TableBacked(Script[i]) /\ Script[i].schema = NoSchema
        <4>1. PICK j \in 1..(i - 1) : SameTarget(Script[i], Script[j])
          BY <2>3, <3>2 DEF SkipLookup, NewTarget, Current
        <4>2. j \in DOMAIN Script /\ j < next
          BY <1>0, <2>3, <4>1, ScriptType
        <4>3. Placed(j, resolved)
          BY <1>0, <2>1, <4>2 DEF LookupInv
        <4>4. Placed(i, resolved)
          BY <4>1, <4>2, <4>3, SameTargetPlaced
        <4> QED BY <1>1, <2>1, <4>4, PlacedStays
      <3>3. CASE ~(TableBacked(Script[i]) /\ Script[i].schema = NoSchema)
        BY <1>1, <3>3 DEF Placed
      <3> QED BY <1>6, <3>1, <3>2, <3>3
    <2>4. \A i \in DOMAIN Script : i < next' => i < next \/ i = next
      BY <1>2, <2>1
    <2> QED BY <1>1, <2>2, <2>3, <2>4 DEF LookupInv
  <1>7. CASE \/ Detect \/ TakeExplicitSchema \/ Inferred \/ LoadInstanceFacts \/ Skipped
             \/ Attach \/ ReadSnapshot \/ \E o : Ended(o)
    BY <1>3, <1>7 DEF Detect, TakeExplicitSchema, Inferred, LoadInstanceFacts, Skipped,
       NextStatement, Attach, ReadSnapshot, Ended, Goto
  <1>8. CASE Outside \/ UNCHANGED vars
    BY <1>4, <1>8 DEF Outside, Alter, Expire, Deliver, Abandon, vars
  <1> QED BY <1>5, <1>6, <1>7, <1>8, Steps

LEMMA WitnessStep ==
  ASSUME IInv, [Next]_vars
  PROVE  WitnessInv'
  <1> USE DEF env, prepared, loaded
  <1>0. WitnessInv /\ TypeInv /\ PhaseInv
    BY DEF IInv
  <1>1. history \subseteq history' /\ Script' = Script
    BY Grows
  <1>2. LookupInv'
    BY LookupStep
  <1>3. InferredSchemaWitnessed'
    <2>1. CASE UNCHANGED <<source, schema>>
      BY <1>0, <1>1, <2>1 DEF WitnessInv, InferredSchemaWitnessed
    <2>2. CASE TakeExplicitSchema
      BY <2>2 DEF TakeExplicitSchema, InferredSchemaWitnessed
    <2>3. CASE Inferred
      <3>1. CASE resolved = {}
        BY <2>3, <3>1 DEF Inferred, InferredSchemaWitnessed
      <3>2. CASE resolved # {}
        <4>1. resolved = {schema'}
          BY <1>0, <2>3, <3>2, AtMostOne DEF Inferred, TypeInv, TypeOK
        <4>2. \A i \in DOMAIN Script : i < next
          BY <1>0, <2>3, ScriptType DEF Inferred, TypeInv, TypeOK
        <4>3. \A i \in DOMAIN Script : Placed(i, {schema'})
          BY <1>0, <2>3, <4>1, <4>2 DEF Inferred, WitnessInv
        <4> QED
          BY <1>1, <4>3 DEF InferredSchemaWitnessed, Placed
      <3> QED BY <3>1, <3>2
    <2>4. CASE \/ Walked \/ Detect \/ SkipLookup \/ Found \/ LoadInstanceFacts \/ Skipped
               \/ Attach \/ ReadSnapshot \/ \E o : Ended(o)
      BY <2>1, <2>4 DEF Walked, Detect, SkipLookup, Found, LoadInstanceFacts, Skipped,
         NextStatement, Attach, ReadSnapshot, Ended, Goto
    <2>5. CASE Outside \/ UNCHANGED vars
      BY <2>1, <2>5 DEF Outside, Alter, Expire, Deliver, Abandon, vars
    <2> QED BY <2>2, <2>3, <2>4, <2>5, Steps
  <1> QED BY <1>2, <1>3 DEF WitnessInv, LookupInv

----------------------------------------------------------------------------
(* Snapshots. *)

LEMMA ReadOfStays ==
  ASSUME NEW snapshot, NEW s, NEW t, ReadOf(snapshot, s, t), history \subseteq history'
  PROVE  ReadOf(snapshot, s, t)'
  BY DEF ReadOf

LEMMA ReadOfNothing ==
  ASSUME NEW s, NEW t
  PROVE  ReadOf(<<>>, s, t)
  BY DEF ReadOf

\* A query more, and the snapshot is still of its table.
LEMMA LongerRead ==
  ASSUME IInv, ReadSnapshot
  PROVE  Whole(Longer) /\ ReadOf(Longer, TargetSchema, Current.table)
  <1> DEFINE v == Version(TargetSchema, Current.table)
  <1>1. /\ parts \in Seq(Nat) /\ catalog \in history
        /\ ReadOf(parts, TargetSchema, Current.table) /\ (parts # <<>> => parts[1] # 0)
    BY DEF ReadSnapshot, IInv, TypeInv, LoadedTypes, CacheInv
  <1>2. next \in DOMAIN Script
    BY DEF IInv, PhaseInv, ReadSnapshot
  <1>3. TargetSchema \in Schemas \cup {NoSchema} /\ Current.table \in Tables
    BY <1>2, ScriptType, TargetSchemaType DEF IInv, TargetSchema, Current, Statement
  <1>4. v \in Nat
    BY <1>3, VersionType DEF Version, IInv, TypeInv, TypeOK
  <1>5. /\ Longer \in Seq(Nat) /\ Len(parts) \in Nat /\ DOMAIN Longer = 1..(Len(parts) + 1)
        /\ DOMAIN parts = 1..Len(parts)
        /\ \A q \in 1..Len(parts) : Longer[q] = parts[q]
        /\ Longer[Len(parts) + 1] = v
    BY <1>1, <1>4 DEF Longer
  <1>6. Whole(Longer)
    <2>1. CASE parts = <<>>
      BY <1>4, <2>1 DEF Longer, Whole
    <2>2. CASE parts # <<>>
      <3>1. Longer[1] # 0 /\ Longer # <<>>
        BY <1>1, <1>5, <2>2
      <3> QED BY <3>1 DEF Whole
    <2> QED BY <2>1, <2>2
  <1>7. ReadOf(Longer, TargetSchema, Current.table)
    <2> SUFFICES ASSUME NEW q \in 1..(Len(parts) + 1)
                 PROVE  \E c \in history :
                          Longer[q] = VersionIn(c, TargetSchema, Current.table)
      BY <1>5 DEF ReadOf
    <2>1. CASE q = Len(parts) + 1
      BY <1>1, <1>5, <2>1 DEF Version
    <2>2. CASE q # Len(parts) + 1
      <3>1. q \in 1..Len(parts)
        BY <1>5, <2>2
      <3> QED BY <1>1, <1>5, <3>1 DEF ReadOf
    <2> QED BY <2>1, <2>2
  <1> QED BY <1>6, <1>7

LEMMA CacheStep ==
  ASSUME IInv, [Next]_vars
  PROVE  CacheInv'
  <1> USE DEF env, prepared, loaded
  <1> DEFINE Reading == pc = "attach" =>
                          /\ ReadOf(parts, TargetSchema, Current.table)
                          /\ parts # <<>> => parts[1] # 0
             Cached == \A s \in Schemas \cup {NoSchema}, t \in Tables :
                          <<s, t>> \in DOMAIN snapshots =>
                            Whole(snapshots[<<s, t>>]) /\ ReadOf(snapshots[<<s, t>>], s, t)
  <1>0. CacheInv /\ TypeInv /\ PhaseInv /\ Reading /\ Cached
    BY DEF IInv, CacheInv
  <1>1. history \subseteq history' /\ Script' = Script
    BY Grows
  <1>2. ASSUME UNCHANGED snapshots PROVE Cached'
    BY <1>0, <1>1, <1>2, ReadOfStays DEF Whole
  <1>3. ASSUME pc' # "attach" PROVE Reading'
    BY <1>3
  <1>4. ASSUME UNCHANGED <<pc, next, dialect, schema, parts>> PROVE Reading'
    <2>1. TargetSchema' = TargetSchema /\ Current' = Current
      BY <1>1, <1>4 DEF TargetSchema, Current
    <2> QED BY <1>0, <1>1, <1>4, <2>1, ReadOfStays
  <1>5. CASE Walked
    <2>1. UNCHANGED snapshots /\ pc # "attach" /\ pc # "done" /\ UNCHANGED parts
      BY <1>5 DEF Walked, Opening
    <2>2. parts' = <<>>
      BY <1>0, <2>1 DEF PhaseInv
    <2>3. Reading'
      BY <2>2, ReadOfNothing DEF ReadOf
    <2> QED BY <1>2, <2>1, <2>3 DEF CacheInv
  <1>6. CASE \/ Detect \/ TakeExplicitSchema \/ SkipLookup \/ Found \/ Inferred
             \/ LoadInstanceFacts \/ Skipped \/ Attach \/ \E o : Ended(o)
    <2>1. UNCHANGED snapshots /\ pc' # "attach"
      BY <1>6 DEF Detect, TakeExplicitSchema, SkipLookup, Found, Inferred,
         LoadInstanceFacts, Skipped, NextStatement, Attach, Ended, Goto
    <2> QED BY <1>2, <1>3, <2>1 DEF CacheInv
  <1>7. CASE ReadSnapshot
    <2>1. UNCHANGED <<pc, next, dialect, schema>> /\ pc = "attach"
      BY <1>7 DEF ReadSnapshot, Goto
    <2>2. TargetSchema' = TargetSchema /\ Current' = Current
      BY <1>1, <2>1 DEF TargetSchema, Current
    <2>3. Whole(Longer) /\ ReadOf(Longer, TargetSchema, Current.table)
      BY <1>7, LongerRead
    <2>4. CASE parts' = Longer /\ snapshots' = snapshots /\ Longer[1] # 0
      <3>1. ReadOf(parts, TargetSchema, Current.table)'
        BY <1>1, <2>2, <2>3, <2>4 DEF ReadOf
      <3> QED BY <1>2, <2>4, <3>1 DEF CacheInv
    <2>5. CASE /\ parts' = <<>>
               /\ snapshots' = [k \in DOMAIN snapshots \cup {Key} |->
                                  IF k = Key THEN Longer ELSE snapshots[k]]
      <3>1. Reading'
        BY <2>5, ReadOfNothing DEF ReadOf
      <3>2. ASSUME NEW s \in Schemas \cup {NoSchema}, NEW t \in Tables,
                   <<s, t>> \in DOMAIN snapshots'
            PROVE  (Whole(snapshots[<<s, t>>]) /\ ReadOf(snapshots[<<s, t>>], s, t))'
        <4>1. CASE <<s, t>> = Key
          <5>1. s = TargetSchema /\ t = Current.table /\ snapshots'[<<s, t>>] = Longer
            BY <2>5, <4>1 DEF Key, SnapshotKey
          <5> QED BY <1>1, <2>3, <5>1 DEF Whole, ReadOf
        <4>2. CASE <<s, t>> # Key
          <5>1. <<s, t>> \in DOMAIN snapshots /\ snapshots'[<<s, t>>] = snapshots[<<s, t>>]
            BY <2>5, <3>2, <4>2
          <5> QED BY <1>0, <1>1, <5>1 DEF Whole, ReadOf
        <4> QED BY <4>1, <4>2
      <3> QED BY <3>1, <3>2 DEF CacheInv
    <2> QED BY <1>7, <2>4, <2>5, ReadSteps
  <1>8. CASE Outside \/ UNCHANGED vars
    <2>1. UNCHANGED <<pc, next, dialect, schema, parts, snapshots>>
      BY <1>8 DEF Outside, Alter, Expire, Deliver, Abandon, vars
    <2> QED BY <1>2, <1>4, <2>1 DEF CacheInv
  <1> QED BY <1>5, <1>6, <1>7, <1>8, Steps

LEMMA LoadedForStays ==
  ASSUME NEW snapshot, NEW statement, LoadedFor(snapshot, statement),
         history \subseteq history', UNCHANGED <<dialect, schema>>
  PROVE  LoadedFor(snapshot, statement)'
  BY DEF LoadedFor, ReadOf, Whole

LEMMA TargetStep ==
  ASSUME IInv, [Next]_vars
  PROVE  TargetInv'
  <1> USE DEF env, prepared, loaded
  <1> DEFINE AllLoaded == \A i \in DOMAIN Script :
                            target[i] # <<>> => LoadedFor(target[i], Script[i])
             Done(n) == \A i \in DOMAIN Script :
                            TableBacked(Script[i]) /\ i < n => target[i] # <<>>
  <1>0. TargetInv /\ TypeInv /\ TypeOK /\ LoadedTypes /\ PhaseInv /\ AllLoaded
    BY DEF IInv, TargetInv, TypeInv
  <1>1. history \subseteq history' /\ Script' = Script
    BY Grows
  <1>2. next \in Nat /\ DOMAIN Script = 1..Len(Script) /\ Len(Script) \in Nat
        /\ 1 <= next /\ next <= Len(Script) + 1
    BY <1>0, ScriptType DEF TypeOK
  <1>3. ASSUME UNCHANGED <<dialect, schema, target>> PROVE AllLoaded'
    BY <1>0, <1>1, <1>3, LoadedForStays
  <1>4. CASE Detect \/ TakeExplicitSchema \/ Inferred
    <2>1. pc \in Unloaded /\ pc' \in {"check", "audit"} /\ UNCHANGED target
      BY <1>4 DEF Detect, TakeExplicitSchema, Inferred, Goto, Unloaded, Preparing, Opening
    <2>2. \A i \in DOMAIN Script : target'[i] = <<>>
      BY <1>0, <2>1 DEF PhaseInv
    <2> QED BY <1>1, <2>1, <2>2 DEF TargetInv
  <1>5. CASE Walked
    <2>1. UNCHANGED <<dialect, schema, target, next>>
      BY <1>5 DEF Walked
    <2>2. CASE pc' \notin {"attach", "evaluate"}
      BY <1>3, <1>5, <2>1, <2>2 DEF Walked, Opening, TargetInv
    <2>3. CASE pc' = "attach"
      <3>1. Done(next)
        BY <1>0, <1>5, <2>3 DEF Walked, Opening, TargetInv
      <3> QED BY <1>1, <1>3, <2>1, <2>3, <3>1 DEF TargetInv
    <2>4. CASE pc' = "evaluate"
      <3>1. Done(next) /\ next \notin DOMAIN Script
        BY <1>0, <1>5, <2>4 DEF Walked, Opening, TargetInv
      <3>2. \A i \in DOMAIN Script : i < next
        BY <1>2, <3>1
      <3>3. \A i \in DOMAIN Script : TableBacked(Script[i]) => target[i] # <<>>
        BY <3>1, <3>2
      <3> QED BY <1>1, <1>3, <2>1, <2>4, <3>3 DEF TargetInv
    <2> QED BY <2>2, <2>3, <2>4
  <1>6. CASE SkipLookup \/ Found \/ \E o : Ended(o)
    <2>1. UNCHANGED <<dialect, schema, target>> /\ pc' \in {"lookup", "done"}
      BY <1>6 DEF SkipLookup, Found, Ended, Goto
    <2> QED BY <1>3, <2>1 DEF TargetInv
  <1>7. CASE LoadInstanceFacts
    <2>1. UNCHANGED <<dialect, schema, target>> /\ pc' = "enrich" /\ next' = 1
      BY <1>7 DEF LoadInstanceFacts, Goto
    <2>2. \A i \in DOMAIN Script : ~(i < 1)
      BY <1>2
    <2> QED BY <1>1, <1>3, <2>1, <2>2 DEF TargetInv
  <1>8. CASE Skipped
    <2>1. /\ UNCHANGED <<dialect, schema, target>> /\ pc = "enrich" /\ pc' = "enrich"
          /\ next' = next + 1 /\ ~TableBacked(Script[next])
      BY <1>8 DEF Skipped, NextStatement, Goto, Current
    <2>2. \A i \in DOMAIN Script : i < next' => i < next \/ i = next
      BY <1>2, <2>1
    <2>3. Done(next)
      BY <1>0, <2>1 DEF TargetInv
    <2> QED BY <1>1, <1>3, <2>1, <2>2, <2>3 DEF TargetInv
  <1>9. CASE Attach
    <2>1. /\ UNCHANGED <<dialect, schema>> /\ pc = "attach" /\ pc' = "enrich"
          /\ next' = next + 1 /\ Key \in DOMAIN snapshots
          /\ target' = [target EXCEPT ![next] = snapshots[Key]]
      BY <1>9 DEF Attach, NextStatement, Goto
    <2>2. next \in DOMAIN Script
      BY <1>0, <2>1 DEF PhaseInv
    <2>3. Key = <<TargetSchema, Script[next].table>>
      BY DEF Key, SnapshotKey, Current
    <2>4. TargetSchema \in Schemas \cup {NoSchema} /\ Script[next].table \in Tables
      BY <1>0, <2>2, ScriptType, TargetSchemaType DEF TargetSchema, Current, Statement
    <2>5. Whole(snapshots[Key]) /\ ReadOf(snapshots[Key], TargetSchema, Script[next].table)
      BY <2>1, <2>3, <2>4 DEF IInv, CacheInv
    <2>6. LoadedFor(snapshots[Key], Script[next])
      BY <2>5 DEF LoadedFor, TargetSchema, Current
    <2>7. /\ target'[next] = snapshots[Key]
          /\ \A i \in DOMAIN Script : i # next => target'[i] = target[i]
      BY <1>0, <2>1, <2>2 DEF LoadedTypes
    <2>8. AllLoaded'
      <3> SUFFICES ASSUME NEW i \in DOMAIN Script, target'[i] # <<>>
                   PROVE  LoadedFor(target[i], Script[i])'
        BY <1>1
      <3>1. LoadedFor(target'[i], Script[i])
        BY <1>0, <2>6, <2>7
      <3>2. ASSUME NEW snapshot, LoadedFor(snapshot, Script[i]), snapshot = target'[i]
            PROVE  LoadedFor(target[i], Script[i])'
        BY <1>1, <2>1, <3>2 DEF LoadedFor, ReadOf, Whole
      <3> QED BY <3>1, <3>2
    <2>9. \A i \in DOMAIN Script : TableBacked(Script[i]) /\ i < next' => target'[i] # <<>>
      <3>1. \A i \in DOMAIN Script : i < next' => i < next \/ i = next
        BY <1>2, <2>1
      <3>2. Done(next) /\ snapshots[Key] # <<>>
        BY <1>0, <2>1, <2>5 DEF TargetInv, Whole
      <3> QED BY <2>7, <3>1, <3>2
    <2> QED BY <1>1, <2>1, <2>8, <2>9 DEF TargetInv
  <1>10. CASE ReadSnapshot \/ Outside \/ UNCHANGED vars
    <2>1. UNCHANGED <<dialect, schema, target, pc, next>>
      BY <1>10 DEF ReadSnapshot, Goto, Outside, Alter, Expire, Deliver, Abandon, vars
    <2> QED BY <1>0, <1>1, <1>3, <2>1 DEF TargetInv
  <1> QED BY <1>4, <1>5, <1>6, <1>7, <1>8, <1>9, <1>10, Steps

----------------------------------------------------------------------------
(* Outcomes. *)

\* No DML statement that passes was loaded as absent.
LEMMA PassedExisted ==
  ASSUME IInv, pc = "evaluate", FinalVerdict(Script, dialect, Missing) = "pass"
  PROVE  /\ Audited(Script) = DOMAIN Script
         /\ \A i \in DOMAIN Script : Script[i].level \in {"none", "notice"}
         /\ MySQLCompatible(dialect) =>
              \A i \in DOMAIN Script : Script[i].op = "dml" =>
                 \E c \in history : Named(c, Script[i]) # 0
  <1>1. /\ FindingVerdict(Script, dialect, Missing) = "pass"
        /\ Failures(Script) = {} /\ Unsupported(Script) = {}
    BY VerdictTypes DEF FinalVerdict
  <1>2. Audited(Script) = DOMAIN Script
    <2>1. Parsed(Script) \subseteq DOMAIN Script
      BY DEF Parsed
    <2> QED BY <1>1, <2>1 DEF Audited, Failures
  <1> DEFINE levels == {Script[i].level : i \in Audited(Script)}
                       \cup IF ExistenceBlocks(Script, dialect, Missing)
                            THEN {"blocker"} ELSE {}
  <1>3. "blocker" \notin levels /\ "warning" \notin levels
    <2>1. Aggregate(levels) = "pass"
      BY <1>1 DEF FindingVerdict
    <2> HIDE DEF levels
    <2> QED BY <2>1 DEF Aggregate
  <1>4. \A i \in DOMAIN Script : Script[i].level \in {"none", "notice"}
    <2>1. \A i \in DOMAIN Script : Script[i].level \in levels
      BY <1>2
    <2>2. \A i \in DOMAIN Script : Script[i].level \in Levels
      BY ScriptType DEF IInv, Statement
    <2> HIDE DEF levels
    <2> QED BY <1>3, <2>1, <2>2 DEF Levels
  <1>5. ASSUME MySQLCompatible(dialect), NEW i \in DOMAIN Script, Script[i].op = "dml"
        PROVE  \E c \in history : Named(c, Script[i]) # 0
    <2>1. ~ExistenceBlocks(Script, dialect, Missing)
      BY <1>3
    <2>2. target[i] # <<0>>
      BY <1>5, <2>1 DEF ExistenceBlocks, Missing
    <2>3. target[i] # <<>>
      BY <1>5 DEF IInv, TargetInv, TableBacked
    <2>4. LoadedFor(target[i], Script[i]) /\ target[i] \in Seq(Nat)
      BY <1>5, <2>3 DEF IInv, TargetInv, TypeInv, LoadedTypes
    <2>5. target[i][1] # 0 /\ 1 \in DOMAIN target[i]
      BY <2>2, <2>3, <2>4 DEF LoadedFor, Whole
    <2>6. MetadataTargetSchema(dialect, schema, Script[i]) = NamedSchema(Script[i])
      BY <1>5 DEF MetadataTargetSchema, NamedSchema
    <2> QED BY <2>4, <2>5, <2>6 DEF LoadedFor, ReadOf, Named
  <1> QED BY <1>2, <1>4, <1>5

LEMMA OutcomeStep ==
  ASSUME IInv, [Next]_vars
  PROVE  OutcomeInv'
  <1> USE DEF env, prepared, loaded, DetectedClientsReleased, FaultsFailAudit, PassIsEarned
  <1>0. OutcomeInv /\ PhaseInv /\ TypeOK
    BY DEF IInv, TypeInv
  <1>1. history \subseteq history' /\ Script' = Script /\ job' = job
    BY Grows
  <1>2. ASSUME NEW o, Ended(o) PROVE OutcomeInv'
    <2>1. DetectedClientsReleased'
      BY <1>1, <1>2 DEF Ended, Explicit
    <2>2. FaultsFailAudit'
      BY <1>2 DEF Ended
    <2>3. PassIsEarned'
      <3> SUFFICES ASSUME o.verdict = "pass" PROVE PassIsEarned'
        BY <1>2 DEF Ended
      <3>1. pc = "evaluate" /\ FinalVerdict(Script, dialect, Missing) = "pass"
        BY <1>2 DEF Ended
      <3>2. UNCHANGED <<dialect, schema, history>>
        BY <1>2 DEF Ended
      <3> QED
        BY <1>1, <3>1, <3>2, PassedExisted DEF Named, NamedSchema, VersionIn
    <2> QED BY <2>1, <2>2, <2>3 DEF OutcomeInv
  <1>3. CASE \/ Walked \/ Detect \/ TakeExplicitSchema \/ SkipLookup \/ Found \/ Inferred
             \/ LoadInstanceFacts \/ Skipped \/ Attach \/ ReadSnapshot
    <2>1. pc # "done" /\ pc' # "done" /\ result' = result
      BY <1>3 DEF Walked, Opening, Detect, TakeExplicitSchema, SkipLookup, Found, Inferred,
         LoadInstanceFacts, Skipped, NextStatement, Attach, ReadSnapshot, Goto
    <2>2. result'.verdict = "none"
      BY <1>0, <2>1 DEF TypeOK, NoOutcome, Outcome
    <2> QED BY <2>1, <2>2 DEF OutcomeInv
  <1>4. CASE Outside \/ UNCHANGED vars
    <2>1. UNCHANGED <<faulted, pc, open, dialect, schema, result>>
      BY <1>4 DEF Outside, Alter, Expire, Deliver, Abandon, vars
    <2>2. DetectedClientsReleased' /\ FaultsFailAudit'
      BY <1>0, <1>1, <2>1 DEF OutcomeInv, Explicit
    <2>3. PassIsEarned'
      BY <1>0, <1>1, <2>1 DEF OutcomeInv, Named, NamedSchema, VersionIn
    <2> QED BY <2>2, <2>3 DEF OutcomeInv
  <1> QED BY <1>2, <1>3, <1>4, Steps

----------------------------------------------------------------------------
(* The theorems. *)

LEMMA InitInv == Init => IInv
  <1> SUFFICES ASSUME Init PROVE IInv
    OBVIOUS
  <1>1. TypeInv
    BY InitType
  <1>2. PhaseInv
    BY DEF Init, PhaseInv, Opening, Preparing, Unloaded, Script
  <1>3. WitnessInv
    BY DEF Init, WitnessInv, InferredSchemaWitnessed
  <1>4. CacheInv
    BY DEF Init, CacheInv
  <1>5. TargetInv
    BY DEF Init, TargetInv, Script
  <1>6. OutcomeInv
    BY DEF Init, OutcomeInv, DetectedClientsReleased, FaultsFailAudit, PassIsEarned,
       NoOutcome, Outcome
  <1> QED BY <1>1, <1>2, <1>3, <1>4, <1>5, <1>6 DEF IInv

(* The inductive invariant holds in every reachable state: from it follow   *)
(* all the properties of the run on MetadataAudit but its termination.      *)
THEOREM Invariance == Spec => []IInv
  <1>1. Init => IInv
    BY InitInv
  <1>2. IInv /\ [Next]_vars => IInv'
    BY TypeStep, PhaseStep, WitnessStep, CacheStep, TargetStep, OutcomeStep DEF IInv
  <1> QED BY <1>1, <1>2, PTL DEF Spec

(* Every variable of an audit keeps its type, whatever the scripts and      *)
(* requests are: among others, a snapshot never outgrows its queries.       *)
THEOREM TypeCorrect == Spec => []TypeOK
  <1>1. IInv => TypeOK
    BY DEF IInv, TypeInv
  <1> QED BY <1>1, Invariance, PTL

(* For any number of retries, failures and error paths of Prepare and       *)
(* Audit: once the dialect is known, or was not given, every client opened  *)
(* is closed when the audit ends.                                           *)
THEOREM ClientsClosed == Spec => []DetectedClientsReleased
  <1>1. IInv => DetectedClientsReleased
    BY DEF IInv, OutcomeInv
  <1> QED BY <1>1, Invariance, PTL

(* For any number of targets and schemas and any DDL between the lookups:   *)
(* the schema inferred is the only one in which each unqualified target was *)
(* seen.                                                                    *)
THEOREM InferenceSound == Spec => []InferredSchemaWitnessed
  <1>1. IInv => InferredSchemaWitnessed
    BY DEF IInv, WitnessInv
  <1> QED BY <1>1, Invariance, PTL

(* For any script and any sharing of the cache among its statements: each   *)
(* part of a snapshot was read of the table its statement names.            *)
THEOREM SnapshotsSound == Spec => []SnapshotOfNamedTable
  <1>1. IInv => SnapshotOfNamedTable
    <2> SUFFICES ASSUME IInv, NEW i \in DOMAIN target, QualifierFollowed(Script[i]),
                        NEW q \in DOMAIN target[i]
                 PROVE  \E c \in history : target[i][q] = Named(c, Script[i])
      BY DEF SnapshotOfNamedTable
    <2>1. i \in DOMAIN Script
      BY DEF IInv, TypeInv, TypeOK
    <2>2. target[i] # <<>>
      OBVIOUS
    <2>3. ReadOf(target[i], MetadataTargetSchema(dialect, schema, Script[i]),
                 Script[i].table)
      BY <2>1, <2>2 DEF IInv, TargetInv, LoadedFor
    <2>4. MetadataTargetSchema(dialect, schema, Script[i]) = NamedSchema(Script[i])
      BY DEF MetadataTargetSchema, NamedSchema, QualifierFollowed
    <2> QED BY <2>3, <2>4 DEF ReadOf, Named
  <1> QED BY <1>1, Invariance, PTL

(* For any script: what passes was parsed and audited whole, without a      *)
(* warning, and its DML statements' tables were seen to exist.              *)
THEOREM PassSound == Spec => []PassIsEarned
  <1>1. IInv => PassIsEarned
    BY DEF IInv, OutcomeInv
  <1> QED BY <1>1, Invariance, PTL

(* For any query that fails, an audit that needed it ends in an error and   *)
(* without a verdict.                                                       *)
THEOREM FaultsSound == Spec => []FaultsFailAudit
  <1>1. IInv => FaultsFailAudit
    BY DEF IInv, OutcomeInv
  <1> QED BY <1>1, Invariance, PTL

(* Where no job gives the dialect, every audit closes what it opens: an      *)
(* explicit dialect whose version query fails is the only way to leak a      *)
(* client (prepare.go:293).                                                  *)
THEOREM AllClientsClosed ==
  ASSUME \A j \in Jobs : j.configured = "none"
  PROVE  Spec => []ClientsReleased
  <1>1. IInv /\ DetectedClientsReleased => ClientsReleased
    BY DEF IInv, TypeInv, TypeOK, DetectedClientsReleased, ClientsReleased, Explicit
  <1> QED BY <1>1, Invariance, ClientsClosed, PTL

----------------------------------------------------------------------------
(* The length of an audit. *)

\* What is left, by label.
Left ==
  /\ pc = "normalize"       => StepsLeft = 7 * Length + 13
  /\ pc = "open"            => StepsLeft = 7 * Length + 12
  /\ pc = "open_postgresql" => StepsLeft = 7 * Length + 11
  /\ pc = "detect"          => StepsLeft = 7 * Length + 10
  /\ pc = "reopen"          => StepsLeft = 7 * Length + 9
  /\ pc = "redetect"        => StepsLeft = 7 * Length + 8
  /\ pc = "check"           => StepsLeft = 7 * Length + 7
  /\ pc = "lookup"          => StepsLeft = 7 * Length + 7 - next
  /\ pc = "audit"           => StepsLeft = 6 * Length + 5
  /\ pc = "parse"           => StepsLeft = 6 * Length + 4
  /\ pc = "facts"           => StepsLeft = 6 * Length + 3
  /\ pc = "enrich"          => StepsLeft = Enrichment(next) + 2
  /\ pc = "attach"          => StepsLeft = Enrichment(next + 1) + 2 + ReadsLeft
  /\ pc = "evaluate"        => StepsLeft = 1
  /\ pc = "done"            => StepsLeft = 0

LEMMA Labelled == Left
  BY DEF Left, StepsLeft

LEMMA LabelledNext == Left'
  BY DEF Left, StepsLeft

LEMMA ReadsLeftType ==
  ASSUME TypeInv
  PROVE  ReadsLeft \in 1..5 /\ (Key \notin DOMAIN snapshots => ReadsLeft > 1)
  BY DEF TypeInv, TypeOK, LoadedTypes, ReadsLeft, Queries

LEMMA StepsLeftBound ==
  ASSUME IInv
  PROVE  StepsLeft \in 0..(7 * Length + 13) /\ (pc # "done" => StepsLeft > 0)
  <1>1. /\ Length \in Nat /\ next \in 1..(Length + 1) /\ pc \in Labels
        /\ pc = "attach" => next \in 1..Length
    BY ScriptType DEF IInv, TypeInv, TypeOK, PhaseInv, Length
  <1>2. ReadsLeft \in 1..5
    BY ReadsLeftType DEF IInv
  <1> QED BY <1>1, <1>2, Labelled DEF Left, Labels, Enrichment

LEMMA OwnStepsAdvance ==
  ASSUME IInv, Prepare \/ Audit
  PROVE  StepsLeft' < StepsLeft
  <1>1. /\ Length \in Nat /\ next \in 1..(Length + 1) /\ pc \in Labels
        /\ DOMAIN Script = 1..Length
    BY ScriptType DEF IInv, TypeInv, TypeOK, Length
  <1>2. Length' = Length /\ job' = job /\ TypeInv'
    BY Grows, TypeStep DEF Next, Length
  <1>3. /\ ReadsLeft \in 1..5 /\ ReadsLeft' \in 1..5
        /\ Key \notin DOMAIN snapshots => ReadsLeft > 1
    <2>1. ReadsLeft' \in 1..5
      BY <1>2 DEF TypeInv, TypeOK, LoadedTypes, ReadsLeft, Queries
    <2> QED BY <2>1, ReadsLeftType DEF IInv
  <1>4. StepsLeft \in Nat /\ (pc # "done" => StepsLeft > 0)
    BY <1>1, StepsLeftBound
  <1>5. Left /\ Left'
    BY Labelled, LabelledNext
  <1> HIDE DEF ReadsLeft, Length
  <1>6. ASSUME NEW o, Ended(o) PROVE StepsLeft' < StepsLeft
    BY <1>4, <1>5, <1>6 DEF Ended, Left
  <1>7. CASE Walked
    <2>1. CASE pc \in Opening
      <3>1. <<pc, pc'>> \in Dials
        BY <1>7, <2>1 DEF Walked, Opening
      <3> QED BY <1>1, <1>2, <1>5, <3>1 DEF Left, Dials
    <2>2. CASE pc \notin Opening
      <3>1. /\ next' = next
            /\ <<pc, pc'>> \in {<<"check", "lookup">>, <<"audit", "parse">>,
                                <<"parse", "facts">>, <<"enrich", "attach">>,
                                <<"enrich", "evaluate">>}
            /\ pc' = "attach" => next \in DOMAIN Script
        BY <1>7, <2>2 DEF Walked
      <3> QED BY <1>1, <1>2, <1>3, <1>5, <3>1 DEF Left, Enrichment
    <2> QED BY <2>1, <2>2
  <1>8. CASE Detect \/ TakeExplicitSchema
    <2>1. \/ pc \in {"detect", "redetect"} /\ pc' = "check"
          \/ pc = "check" /\ pc' = "audit"
      BY <1>8 DEF Detect, TakeExplicitSchema, Goto
    <2> QED BY <1>1, <1>2, <1>5, <2>1 DEF Left
  <1>9. CASE SkipLookup \/ Found
    <2>1. pc = "lookup" /\ pc' = "lookup" /\ next' = next + 1
      BY <1>9 DEF SkipLookup, Found, Goto
    <2> QED BY <1>1, <1>2, <1>5, <2>1 DEF Left
  <1>10. CASE Inferred
    <2>1. pc = "lookup" /\ pc' = "audit"
      BY <1>10 DEF Inferred, Goto
    <2> QED BY <1>1, <1>2, <1>5, <2>1 DEF Left
  <1>11. CASE LoadInstanceFacts
    <2>1. pc = "facts" /\ pc' = "enrich" /\ next' = 1
      BY <1>11 DEF LoadInstanceFacts, Goto
    <2> QED BY <1>1, <1>2, <1>5, <2>1 DEF Left, Enrichment
  <1>12. CASE Skipped \/ Attach
    <2>1. pc \in {"enrich", "attach"} /\ pc' = "enrich" /\ next' = next + 1
      BY <1>12 DEF Skipped, Attach, NextStatement, Goto
    <2> QED BY <1>1, <1>2, <1>3, <1>5, <2>1 DEF Left, Enrichment
  <1>13. CASE ReadSnapshot
    <2>1. pc = "attach" /\ pc' = "attach" /\ UNCHANGED <<next, dialect, schema>>
          /\ Key \notin DOMAIN snapshots
      BY <1>13 DEF ReadSnapshot, Goto, prepared
    <2>2. Key' = Key /\ Queries' = Queries
      BY <1>2, <2>1 DEF Key, SnapshotKey, TargetSchema, Current, Script, Queries
    <2>3. ReadsLeft' < ReadsLeft
      <3>1. CASE Key \in DOMAIN snapshots'
        <4>1. ReadsLeft' = 1
          BY <2>2, <3>1 DEF ReadsLeft
        <4> QED BY <1>3, <2>1, <4>1
      <3>2. CASE Key \notin DOMAIN snapshots'
        <4>1. parts' = Longer
          BY <1>13, <3>2, ReadSteps
        <4>2. next \in DOMAIN Script
          BY <2>1 DEF IInv, PhaseInv
        <4>3. Len(parts') = Len(parts) + 1 /\ Len(parts) \in Nat
          BY <4>1, <4>2 DEF IInv, TypeInv, LoadedTypes, Longer
        <4>4. /\ ReadsLeft = Queries - Len(parts) + 1
              /\ ReadsLeft' = Queries' - Len(parts') + 1
          BY <2>1, <3>2, <2>2 DEF ReadsLeft
        <4>5. Queries \in {3, 4}
          BY DEF Queries
        <4> QED BY <2>2, <4>3, <4>4, <4>5
      <3> QED BY <3>1, <3>2
    <2>4. /\ StepsLeft = Enrichment(next + 1) + 2 + ReadsLeft
          /\ StepsLeft' = Enrichment(next + 1)' + 2 + ReadsLeft'
      BY <1>5, <2>1 DEF Left
    <2>5. Enrichment(next + 1)' = Enrichment(next + 1) /\ Enrichment(next + 1) \in Int
      BY <1>1, <1>2, <2>1 DEF Enrichment
    <2> QED BY <1>3, <2>3, <2>4, <2>5
  <1> QED
    BY <1>6, <1>7, <1>8, <1>9, <1>10, <1>11, <1>12, <1>13, PrepareSteps, AuditSteps
       DEF IInv, TypeInv, TypeOK

LEMMA OthersKeepSteps ==
  ASSUME Outside \/ UNCHANGED vars
  PROVE  StepsLeft' = StepsLeft
  <1>1. UNCHANGED <<pc, next, job, dialect, schema, snapshots, parts>>
    BY DEF Outside, Alter, Expire, Deliver, Abandon, vars, prepared, loaded
  <1>2. Key' = Key /\ Queries' = Queries /\ Length' = Length
    BY <1>1 DEF Key, SnapshotKey, TargetSchema, Current, Script, Queries, Length
  <1>3. ReadsLeft' = ReadsLeft
    BY <1>1, <1>2 DEF ReadsLeft
  <1> QED BY <1>1, <1>2, <1>3 DEF StepsLeft, Enrichment

(* An audit takes at most 7 steps for each statement of its script and 13   *)
(* more, whatever other sessions, the deadline and the handler do between   *)
(* them: no error path of Prepare goes back further than the one retry of   *)
(* the detection, and a table changed while it is read is not read again.   *)
(* The fairness of the goroutine, which TLC adds in AuditEnds, is all that  *)
(* its termination needs besides.                                           *)
THEOREM AuditBounded == Spec => [](StepsLeft \in 0..(7 * Length + 13)) /\ AuditAdvances
  <1>1. IInv => StepsLeft \in 0..(7 * Length + 13)
    BY StepsLeftBound
  <1>2. IInv /\ [Next]_vars =>
          [IF Prepare \/ Audit THEN StepsLeft' < StepsLeft ELSE StepsLeft' = StepsLeft]_vars
    BY OwnStepsAdvance, OthersKeepSteps DEF Next, Outside
  <1> QED BY <1>1, <1>2, Invariance, PTL DEF Spec, AuditAdvances

----------------------------------------------------------------------------
(* The cache. *)

CacheKey(i) == <<MetadataTargetSchema(dialect, schema, Script[i]), Script[i].table>>

\* What a statement was given is what the cache holds for its table.
FromCache ==
  \A i \in DOMAIN Script :
    target[i] # <<>> =>
      CacheKey(i) \in DOMAIN snapshots /\ target[i] = snapshots[CacheKey(i)]

\* Nothing is dropped from the cache, or replaced in it.
LEMMA CacheKept ==
  ASSUME IInv, [Next]_vars, NEW k \in DOMAIN snapshots
  PROVE  pc \notin Unloaded /\ k \in DOMAIN snapshots' /\ snapshots'[k] = snapshots[k]
  <1> USE DEF loaded
  <1>0. pc \notin Unloaded
    BY DEF IInv, PhaseInv
  <1>1. CASE ReadSnapshot
    <2>1. Key # k
      BY <1>1 DEF ReadSnapshot
    <2> QED BY <1>0, <1>1, <2>1, ReadSteps
  <1>2. CASE ~ReadSnapshot
    <2>1. UNCHANGED snapshots
      <3>1. ASSUME NEW o, Ended(o) PROVE UNCHANGED snapshots
        BY <3>1 DEF Ended
      <3>2. CASE Outside \/ UNCHANGED vars
        BY <3>2 DEF Outside, Alter, Expire, Deliver, Abandon, vars
      <3>3. CASE \/ Walked \/ Detect \/ TakeExplicitSchema \/ SkipLookup \/ Found \/ Inferred
                 \/ LoadInstanceFacts \/ Skipped \/ Attach
        BY <3>3 DEF Walked, Detect, TakeExplicitSchema, SkipLookup, Found, Inferred,
           LoadInstanceFacts, Skipped, NextStatement, Attach, Goto
      <3> QED BY <1>2, <3>1, <3>2, <3>3, Steps
    <2> QED BY <1>0, <2>1
  <1> QED BY <1>1, <1>2

\* The schema and the dialect are settled before anything is loaded.
LEMMA SettledStays ==
  ASSUME IInv, [Next]_vars, pc \notin Unloaded
  PROVE  UNCHANGED <<job, dialect, schema>>
  <1> USE DEF prepared, env
  <1>1. ASSUME NEW o, Ended(o) PROVE UNCHANGED <<job, dialect, schema>>
    BY <1>1 DEF Ended
  <1>2. CASE Outside \/ UNCHANGED vars
    BY <1>2 DEF Outside, Alter, Expire, Deliver, Abandon, vars
  <1>3. CASE Walked \/ LoadInstanceFacts \/ Skipped \/ Attach \/ ReadSnapshot
    BY <1>3 DEF Walked, LoadInstanceFacts, Skipped, NextStatement, Attach, ReadSnapshot, Goto
  <1>4. ~(Detect \/ TakeExplicitSchema \/ SkipLookup \/ Found \/ Inferred)
    BY DEF Detect, TakeExplicitSchema, SkipLookup, Found, Inferred, Unloaded, Preparing,
       Opening
  <1> QED BY <1>1, <1>2, <1>3, <1>4, Steps

LEMMA FromCacheStep ==
  ASSUME IInv, FromCache, [Next]_vars
  PROVE  FromCache'
  <1> USE DEF loaded
  <1>1. Script' = Script /\ DOMAIN target = DOMAIN Script
    BY Grows DEF IInv, TypeInv, TypeOK
  <1> SUFFICES ASSUME NEW i \in DOMAIN Script, target'[i] # <<>>
               PROVE  CacheKey(i)' \in DOMAIN snapshots'
                      /\ target'[i] = snapshots'[CacheKey(i)']
    BY <1>1 DEF FromCache
  <1>2. CASE Attach /\ i = next
    <2>1. /\ Key \in DOMAIN snapshots /\ snapshots' = snapshots
          /\ target' = [target EXCEPT ![next] = snapshots[Key]]
          /\ UNCHANGED <<dialect, schema>>
      BY <1>2 DEF Attach, NextStatement, prepared
    <2>2. CacheKey(i)' = Key
      BY <1>1, <1>2, <2>1 DEF CacheKey, Key, SnapshotKey, TargetSchema, Current
    <2> QED BY <1>1, <1>2, <2>1, <2>2
  <1>3. CASE ~(Attach /\ i = next)
    <2>1. target'[i] = target[i]
      <3>1. ASSUME NEW o, Ended(o) PROVE UNCHANGED target
        BY <3>1 DEF Ended
      <3>2. CASE Outside \/ UNCHANGED vars
        BY <3>2 DEF Outside, Alter, Expire, Deliver, Abandon, vars
      <3>3. CASE \/ Walked \/ Detect \/ TakeExplicitSchema \/ SkipLookup \/ Found \/ Inferred
                 \/ LoadInstanceFacts \/ Skipped \/ ReadSnapshot
        BY <3>3 DEF Walked, Detect, TakeExplicitSchema, SkipLookup, Found, Inferred,
           LoadInstanceFacts, Skipped, NextStatement, ReadSnapshot, Goto
      <3>4. CASE Attach
        BY <1>1, <1>3, <3>4 DEF Attach
      <3> QED BY <3>1, <3>2, <3>3, <3>4, Steps
    <2>2. CacheKey(i) \in DOMAIN snapshots /\ target[i] = snapshots[CacheKey(i)]
      BY <2>1 DEF FromCache
    <2>3. /\ CacheKey(i) \in DOMAIN snapshots'
          /\ snapshots'[CacheKey(i)] = snapshots[CacheKey(i)] /\ pc \notin Unloaded
      BY <2>2, CacheKept
    <2>4. CacheKey(i)' = CacheKey(i)
      BY <1>1, <2>3, SettledStays DEF CacheKey
    <2> QED BY <2>1, <2>2, <2>3, <2>4
  <1> QED BY <1>2, <1>3

(* For any script, any sharing of its tables and any DDL between its        *)
(* statements: those on one table are audited against one snapshot of it,   *)
(* so that none sees a change of the table which another does not           *)
(* (metadata.go:85).                                                        *)
THEOREM SnapshotsShared == Spec => []SnapshotShared
  <1>1. Init => FromCache
    BY DEF Init, FromCache, Script
  <1>2. IInv /\ FromCache /\ [Next]_vars => FromCache'
    BY FromCacheStep
  <1>3. IInv /\ FromCache => SnapshotShared
    BY DEF FromCache, SnapshotShared, CacheKey, IInv, TypeInv, TypeOK
  <1> QED BY <1>1, <1>2, <1>3, Invariance, PTL DEF Spec

=============================================================================
