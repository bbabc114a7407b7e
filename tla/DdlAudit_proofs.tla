--------------------------- MODULE DdlAudit_proofs ---------------------------
(***************************************************************************)
(* Proofs about DdlAudit, for scripts of any length, any statements and    *)
(* any policy file.  The extraction and the rules are those of the modules *)
(* below; the proofs open them where a property depends on what they do.   *)
(***************************************************************************)
EXTENDS DdlAudit, TLAPS, FiniteSetTheorems

-----------------------------------------------------------------------------
(* The inductive invariant.                                                *)

\* What the script's statements are extracted as, and what the rules that are loaded
\* find in them.
Extracts == {Extracted(dialect, script[i]) : i \in DOMAIN script}

Judged(ddl) == FoundBy(Loaded(file), file, dialect, ddl)

Reports == {Judged(ddl) : ddl \in Extracts}

Asked == \E r \in Requests : dialect = r.dialect /\ script = r.nodes /\ file = r.file

Registered == {"evaluate", "global", "aggregate", "done"}

\* The script as far as it is extracted.
ExtractionInv ==
  /\ statements \in Seq(Extracts)
  /\ Len(statements) <= Len(script)
  /\ phase = "extract" => Len(statements) = at - 1
  /\ phase \in Registered => Len(statements) = Len(script) /\ loaded = Loaded(file)
  /\ \A i \in DOMAIN statements : statements[i] = Extracted(dialect, script[i])

\* Each accepted statement has its findings.
EvaluationInv ==
  /\ accepted \in Seq(Extracts)
  /\ results \in Seq(Reports)
  /\ Len(results) = Len(accepted)
  /\ \A i \in DOMAIN accepted : results[i] = Judged(accepted[i])
  /\ unsupported \subseteq DOMAIN script
  /\ phase = "extract" => accepted = <<>> /\ unsupported = {}

TInv ==
  /\ Asked
  /\ phase \in Phases
  /\ at \in Nat \ {0} /\ action \in Nat \ {0}
  /\ ExtractionInv
  /\ EvaluationInv
  /\ \A item \in pending : /\ item.statement \in DOMAIN accepted
                           /\ item.action \in DOMAIN accepted[item.statement].alters
  /\ phase \in {"extract", "evaluate"} => pending = {}
  /\ verdict \in {"none", "pass", "review", "reject"}
  /\ cancelled \in BOOLEAN

\* The statements evaluated so far, and their numbers among the accepted ones.
Evaluated == IF phase = "evaluate" THEN at - 1 ELSE Len(statements)

NumberInv ==
  phase \in Registered =>
    /\ Evaluated <= Len(statements)
    /\ unsupported = {i \in 1 .. Evaluated : statements[i] = Unsupported}
    /\ Len(accepted) = Number(Evaluated)
    /\ \A p \in (1 .. Evaluated) \ unsupported :
          Number(p) \in DOMAIN accepted /\ accepted[Number(p)] = statements[p]

\* The actions the rule about NOT VALID constraints has looked at.
Seen(p) == p[1] < at \/ (p[1] = at /\ p[2] < action)

Key(p) == ConstraintKey(accepted[p[1]], p[2])

Adding(p) == AddsNotValid(accepted[p[1]], p[2])

Validating(p) == Validates(accepted[p[1]], p[2])

\* The additions it has seen, and no validation of them since.
Waiting(p) ==
  /\ p \in Positions /\ Seen(p) /\ Adding(p)
  /\ \A q \in Positions : Seen(q) /\ Before(p, q) /\ Validating(q) => Key(q) # Key(p)

Item(p) == [statement |-> p[1], action |-> p[2], key |-> Key(p)]

\* Additions that no later action of the script validates.
Unvalidated(p) == p \in Positions /\ Adding(p) /\ ~ValidatedAfter(p)

PendingInv ==
  /\ phase = "global" =>
       /\ dialect = "postgresql"
       /\ at <= Len(accepted) + 1
       /\ at \in DOMAIN accepted => \A k \in 1 .. (action - 1) : k \in DOMAIN accepted[at].alters
       /\ \A item : item \in pending <=> \E p \in Positions : Waiting(p) /\ item = Item(p)
  /\ phase \in {"aggregate", "done"} /\ dialect = "postgresql" /\ Stands(NotValidRule) =>
       \A item : item \in pending <=> \E p \in Positions : Unvalidated(p) /\ item = Item(p)

-----------------------------------------------------------------------------
(* Types.                                                                  *)

\* What a request asks is of the types a request has.
LEMMA RequestTypes ==
  ASSUME Asked
  PROVE  /\ dialect \in Dialects /\ script \in Seq(Nodes) /\ file \subseteq Settings
         /\ Len(script) \in Nat /\ DOMAIN script = 1 .. Len(script)
         /\ \A i \in DOMAIN script : script[i] \in Nodes
BY RequestsAssumption DEF Asked

\* The initial states are well typed.
LEMMA InitTyped == Init => TInv
<1> SUFFICES ASSUME Init PROVE TInv OBVIOUS
<1>1. Asked BY DEF Init, Asked
<1>2. ExtractionInv
  <2>1. statements = <<>> /\ at = 1 /\ phase = "extract" BY DEF Init
  <2> QED BY <2>1, <1>1, RequestTypes DEF ExtractionInv, Registered
<1>3. EvaluationInv
  <2>1. accepted = <<>> /\ results = <<>> /\ unsupported = {} BY DEF Init
  <2> QED BY <2>1 DEF EvaluationInv
<1>4. at \in Nat \ {0} /\ action \in Nat \ {0}
  <2>1. 1 \in Nat \ {0} OBVIOUS
  <2> QED BY <2>1 DEF Init
<1> QED BY <1>1, <1>2, <1>3, <1>4 DEF Init, TInv, Phases

\* Nothing but the request says what the statements are and what is found in them.
LEMMA SameRequest ==
  ASSUME UNCHANGED request
  PROVE  Extracts' = Extracts /\ Reports' = Reports /\ (\A ddl : Judged(ddl)' = Judged(ddl))
         /\ (Asked => Asked')
BY DEF request, Extracts, Reports, Judged, Asked

LEMMA ExtractTyped == TInv /\ ExtractNext => TInv'
<1> SUFFICES ASSUME TInv, ExtractNext PROVE TInv' OBVIOUS
<1>0. UNCHANGED request BY DEF ExtractNext
<1>1. Asked' BY <1>0, SameRequest DEF TInv
<1>2. /\ script \in Seq(Nodes) /\ Len(script) \in Nat /\ DOMAIN script = 1 .. Len(script)
      /\ dialect' = dialect /\ script' = script /\ file' = file
  BY <1>0, RequestTypes DEF TInv, request
<1>3. ExtractionInv'
  <2> DEFINE new == Extracted(dialect, script[at])
  <2>1. new \in Extracts BY DEF ExtractNext, Extracts
  <2>2. statements \in Seq(Extracts) /\ Len(statements) = at - 1 /\ at \in Nat \ {0}
        /\ at \in 1 .. Len(script) /\ statements' = Append(statements, new)
        /\ phase' = "extract" /\ at' = at + 1
    BY <1>2 DEF TInv, ExtractionInv, ExtractNext
  <2> HIDE DEF new
  <2>3. /\ statements' \in Seq(Extracts) /\ Len(statements') = at
        /\ statements'[at] = new
        /\ \A i \in 1 .. (at - 1) : statements'[i] = statements[i]
        /\ DOMAIN statements' = 1 .. at /\ DOMAIN statements = 1 .. (at - 1)
    BY <2>1, <2>2
  <2>4. \A i \in DOMAIN statements' : statements'[i] = Extracted(dialect', script'[i])
    <3> TAKE i \in DOMAIN statements'
    <3>1. CASE i = at BY <3>1, <2>3, <1>2 DEF new
    <3>2. CASE i # at
      <4>1. i \in DOMAIN statements BY <3>2, <2>2, <2>3
      <4> QED BY <4>1, <2>3, <1>2 DEF TInv, ExtractionInv
    <3> QED BY <3>1, <3>2
  <2> QED BY <1>0, <1>2, <2>2, <2>3, <2>4, SameRequest DEF ExtractionInv, Registered
<1>4. EvaluationInv'
  BY <1>0, <1>2, SameRequest DEF TInv, EvaluationInv, ExtractNext
<1> QED BY <1>1, <1>3, <1>4 DEF TInv, ExtractNext, Phases

LEMMA RegisterTyped == TInv /\ RegisterRules => TInv'
<1> SUFFICES ASSUME TInv, RegisterRules PROVE TInv' OBVIOUS
<1>0. UNCHANGED request BY DEF RegisterRules
<1>1. Asked' BY <1>0, SameRequest DEF TInv
<1>2. /\ Len(script) \in Nat /\ DOMAIN script = 1 .. Len(script)
      /\ dialect' = dialect /\ script' = script /\ file' = file
  BY <1>0, RequestTypes DEF TInv, request
<1>3. ExtractionInv'
  <2>1. at \in Nat \ {0} /\ at \notin 1 .. Len(script) /\ Len(statements) <= Len(script)
        /\ Len(statements) = at - 1 /\ statements' = statements
    BY <1>2 DEF TInv, ExtractionInv, RegisterRules
  <2>2. Len(statements) = Len(script) BY <2>1, <1>2
  <2>3. loaded' = Loaded(file)' BY <1>2 DEF RegisterRules
  <2> QED BY <1>0, <1>2, <2>1, <2>2, <2>3, SameRequest DEF TInv, ExtractionInv, RegisterRules
<1>4. EvaluationInv'
  BY <1>0, <1>2, SameRequest DEF TInv, EvaluationInv, RegisterRules
<1>5. at' \in Nat \ {0}
  <2>1. 1 \in Nat \ {0} OBVIOUS
  <2> QED BY <2>1 DEF RegisterRules
<1> QED BY <1>1, <1>3, <1>4, <1>5 DEF TInv, RegisterRules, Phases

LEMMA EvaluateTyped == TInv /\ EvaluateNext => TInv'
<1> SUFFICES ASSUME TInv, EvaluateNext PROVE TInv' OBVIOUS
<1>0. UNCHANGED request BY DEF EvaluateNext
<1>1. Asked' BY <1>0, SameRequest DEF TInv
<1>2. /\ Len(script) \in Nat /\ DOMAIN script = 1 .. Len(script)
      /\ dialect' = dialect /\ script' = script /\ file' = file
  BY <1>0, RequestTypes DEF TInv, request
<1>3. ExtractionInv'
  <2>1. phase = "evaluate" /\ phase' = "evaluate" /\ statements' = statements /\ loaded' = loaded
    BY DEF EvaluateNext
  <2> QED BY <1>0, <1>2, <2>1, SameRequest DEF TInv, ExtractionInv, Registered
<1>4. /\ at \in 1 .. Len(statements) /\ at \in DOMAIN script
      /\ statements[at] \in Extracts
  BY <1>2 DEF TInv, ExtractionInv, EvaluateNext
<1>5. EvaluationInv'
  <2>1. CASE statements[at] = Unsupported
    BY <2>1, <1>0, <1>2, <1>4, SameRequest DEF TInv, EvaluationInv, EvaluateNext
  <2>2. CASE statements[at] # Unsupported
    <3> DEFINE ddl == statements[at]
    <3>1. Findings(ddl) = Judged(ddl) BY DEF TInv, ExtractionInv, EvaluateNext, Registered, Findings, Judged
    <3>2. Judged(ddl) \in Reports BY <1>4 DEF Reports
    <3>3. accepted' = Append(accepted, ddl) /\ results' = Append(results, Judged(ddl))
          /\ unsupported' = unsupported /\ phase' = "evaluate"
      BY <2>2, <3>1 DEF EvaluateNext
    <3> DEFINE n == Len(accepted)
    <3>4. /\ accepted \in Seq(Extracts) /\ results \in Seq(Reports) /\ n \in Nat
          /\ Len(results) = n /\ DOMAIN accepted = 1 .. n
      BY DEF TInv, EvaluationInv
    <3> HIDE DEF ddl
    <3>5. /\ accepted' \in Seq(Extracts) /\ results' \in Seq(Reports)
          /\ Len(accepted') = n + 1 /\ Len(results') = n + 1
          /\ DOMAIN accepted' = 1 .. (n + 1)
          /\ \A i \in 1 .. n : accepted'[i] = accepted[i] /\ results'[i] = results[i]
          /\ accepted'[n + 1] = ddl /\ results'[n + 1] = Judged(ddl)
      <4>1. ddl \in Extracts BY <1>4 DEF ddl
      <4> HIDE DEF n
      <4>2. accepted' \in Seq(Extracts) /\ Len(accepted') = n + 1
            /\ accepted'[n + 1] = ddl /\ \A i \in 1 .. n : accepted'[i] = accepted[i]
        BY <3>3, <3>4, <4>1 DEF n
      <4>3. results' \in Seq(Reports) /\ Len(results') = n + 1
            /\ results'[n + 1] = Judged(ddl) /\ \A i \in 1 .. n : results'[i] = results[i]
        BY <3>3, <3>4, <3>2
      <4> QED BY <4>2, <4>3, <3>4
    <3>6. \A i \in DOMAIN accepted' : results'[i] = Judged(accepted'[i])
      <4> TAKE i \in DOMAIN accepted'
      <4>1. CASE i = n + 1 BY <4>1, <3>5
      <4>2. CASE i # n + 1
        <5>1. i \in 1 .. n BY <4>2, <3>4, <3>5
        <5>2. results[i] = Judged(accepted[i]) BY <5>1, <3>4 DEF TInv, EvaluationInv
        <5> QED BY <5>1, <5>2, <3>5
      <4> QED BY <4>1, <4>2
    <3> HIDE DEF n
    <3> QED BY <1>0, <1>2, <3>3, <3>5, <3>6, SameRequest DEF TInv, EvaluationInv
  <2> QED BY <2>1, <2>2
<1>6. pending' = {} /\ at' \in Nat \ {0} /\ phase' = phase /\ cancelled' = cancelled
      /\ verdict' = verdict /\ action' = action
  BY DEF TInv, EvaluateNext
<1> QED BY <1>1, <1>3, <1>5, <1>6 DEF TInv, EvaluateNext, Phases

\* The steps after the evaluation leave the statements and what was found in them.
Kept == /\ UNCHANGED <<request, statements, loaded, accepted, unsupported, results>>
        /\ phase' \in {phase, "global", "aggregate", "done", "failed"}
        /\ phase \in {"extract", "evaluate"} /\ phase' # phase =>
              phase' = "failed" \/ (phase = "evaluate" /\ phase' \in Registered)
        /\ phase = "failed" => phase' = "failed"
        /\ phase' = "extract" => at' = at

LEMMA KeptTyped == TInv /\ Kept => Asked' /\ ExtractionInv' /\ EvaluationInv'
<1> SUFFICES ASSUME TInv, Kept PROVE Asked' /\ ExtractionInv' /\ EvaluationInv' OBVIOUS
<1>0. UNCHANGED request BY DEF Kept
<1>1. Asked' BY <1>0, SameRequest DEF TInv
<1>2. dialect' = dialect /\ script' = script /\ file' = file BY <1>0 DEF request
<1>3. ExtractionInv'
  BY <1>0, <1>2, SameRequest DEF TInv, ExtractionInv, Kept, Registered, Phases
<1>4. EvaluationInv' BY <1>0, <1>2, SameRequest DEF TInv, EvaluationInv, Kept
<1> QED BY <1>1, <1>3, <1>4

LEMMA GlobalTyped == TInv /\ (StartGlobal \/ GlobalNext \/ EndGlobal) => TInv'
<1> SUFFICES ASSUME TInv, StartGlobal \/ GlobalNext \/ EndGlobal PROVE TInv' OBVIOUS
<1>1. Kept BY DEF TInv, Phases, Kept, Registered, StartGlobal, GlobalNext, EndGlobal
<1>2. Asked' /\ ExtractionInv' /\ EvaluationInv' BY <1>1, KeptTyped
<1>3. at' \in Nat \ {0} /\ action' \in Nat \ {0}
  <2>1. 1 \in Nat \ {0} OBVIOUS
  <2>2. CASE StartGlobal BY <2>1, <2>2 DEF StartGlobal
  <2>3. CASE GlobalNext BY <2>1, <2>3 DEF TInv, GlobalNext
  <2>4. CASE EndGlobal BY <2>4 DEF TInv, EndGlobal
  <2> QED BY <2>2, <2>3, <2>4
<1>4. pending' = pending /\ accepted' = accepted /\ verdict' = verdict /\ cancelled' = cancelled
      /\ phase' \in {"global", "aggregate"}
  BY DEF StartGlobal, GlobalNext, EndGlobal
<1> QED BY <1>2, <1>3, <1>4 DEF TInv, Phases

LEMMA ActionTyped == TInv /\ GlobalAction => TInv'
<1> SUFFICES ASSUME TInv, GlobalAction PROVE TInv' OBVIOUS
<1>1. Kept BY DEF TInv, Phases, Kept, GlobalAction
<1>2. Asked' /\ ExtractionInv' /\ EvaluationInv' BY <1>1, KeptTyped
<1>3. \A item \in pending' : /\ item.statement \in DOMAIN accepted
                             /\ item.action \in DOMAIN accepted[item.statement].alters
  <2> DEFINE new == [statement |-> at, action |-> action, key |-> ConstraintKey(accepted[at], action)]
  <2>1. pending' \subseteq pending \cup {new} BY DEF GlobalAction, AfterAction
  <2>2. new.statement = at /\ new.action = action OBVIOUS
  <2> HIDE DEF new
  <2> QED BY <2>1, <2>2 DEF TInv, GlobalAction
<1> QED BY <1>2, <1>3 DEF TInv, GlobalAction, Phases

LEMMA EndTyped == TInv /\ (AggregateFindings \/ Fail \/ Cancel \/ UNCHANGED vars) => TInv'
<1> SUFFICES ASSUME TInv, AggregateFindings \/ Fail \/ Cancel \/ UNCHANGED vars PROVE TInv' OBVIOUS
<1>1. Kept
  <2>1. CASE AggregateFindings BY <2>1 DEF Kept, AggregateFindings
  <2>2. CASE Fail BY <2>2 DEF Kept, Fail
  <2>3. CASE Cancel BY <2>3 DEF Kept, Cancel
  <2>4. CASE UNCHANGED vars BY <2>4 DEF Kept, vars, request
  <2> QED BY <2>1, <2>2, <2>3, <2>4
<1>2. Asked' /\ ExtractionInv' /\ EvaluationInv' BY <1>1, KeptTyped
<1>3. Verdict \in {"pass", "review", "reject"} BY DEF Verdict
<1>4. /\ at' = at /\ action' = action /\ pending' = pending /\ accepted' = accepted
      /\ phase' \in {phase, "done", "failed"} /\ verdict' \in {verdict, Verdict}
      /\ cancelled' \in {cancelled, TRUE}
  BY DEF AggregateFindings, Fail, Cancel, vars
<1> HIDE DEF Verdict
<1> QED BY <1>2, <1>3, <1>4 DEF TInv, Phases

LEMMA NextTyped == TInv /\ [Next]_vars => TInv'
BY ExtractTyped, RegisterTyped, EvaluateTyped, GlobalTyped, ActionTyped, EndTyped DEF Next

\* Every reachable state of an audit is well typed: no more is extracted than the script
\* holds, what is set aside is a place of it, each accepted statement has a result and
\* each constraint waited for is an action of an accepted statement.
THEOREM TypeCorrect == Spec => []TypeOK
<1>1. TInv => TypeOK
  <2> SUFFICES ASSUME TInv PROVE TypeOK OBVIOUS
  <2>1. dialect \in Dialects BY RequestTypes DEF TInv
  <2>2. DOMAIN results = DOMAIN accepted BY DEF TInv, EvaluationInv
  <2> QED BY <2>1, <2>2 DEF TInv, TypeOK, ExtractionInv, EvaluationInv
<1> QED BY <1>1, InitTyped, NextTyped, PTL DEF Spec

-----------------------------------------------------------------------------
(* Numbers: what was set aside leaves no gap among the accepted ones.      *)

\* How many of the first p are outside u.
Rest(p, u) == Cardinality((1 .. p) \ u)

LEMMA RestFinite == ASSUME NEW p \in Nat, NEW u PROVE IsFiniteSet((1 .. p) \ u)
<1>1. IsFiniteSet(1 .. p) BY FS_Interval
<1>2. (1 .. p) \ u \in SUBSET (1 .. p) OBVIOUS
<1> QED BY <1>1, <1>2, FS_Subset

LEMMA RestNat == ASSUME NEW p \in Nat, NEW u PROVE Rest(p, u) \in Nat
BY RestFinite, FS_CardinalityType DEF Rest

\* One place further counts one more, unless it is in u.
LEMMA RestNext ==
  ASSUME NEW p \in Nat, NEW u
  PROVE  Rest(p + 1, u) = IF p + 1 \in u THEN Rest(p, u) ELSE Rest(p, u) + 1
<1>1. IsFiniteSet((1 .. p) \ u) BY RestFinite
<1>2. CASE p + 1 \in u
  <2>1. (1 .. (p + 1)) \ u = (1 .. p) \ u BY <1>2
  <2> QED BY <2>1, <1>2 DEF Rest
<1>3. CASE p + 1 \notin u
  <2>1. (1 .. (p + 1)) \ u = ((1 .. p) \ u) \cup {p + 1} BY <1>3
  <2>2. p + 1 \notin (1 .. p) \ u OBVIOUS
  <2>3. Cardinality(((1 .. p) \ u) \cup {p + 1}) = Cardinality((1 .. p) \ u) + 1
    BY <1>1, <2>2, FS_AddElement
  <2> QED BY <2>1, <2>3, <1>3 DEF Rest
<1> QED BY <1>2, <1>3

\* A place outside u has a number of its own, within the count.
LEMMA RestBelow ==
  ASSUME NEW n \in Nat, NEW p \in 1 .. n, NEW u, p \notin u
  PROVE  Rest(p, u) \in 1 .. Rest(n, u)
<1>1. IsFiniteSet((1 .. n) \ u) BY RestFinite
<1>2. (1 .. p) \ u \subseteq (1 .. n) \ u OBVIOUS
<1>3. Rest(p, u) <= Rest(n, u) BY <1>1, <1>2, FS_Subset DEF Rest
<1>4. Rest(p - 1, u) \in Nat /\ Rest(p, u) \in Nat /\ Rest(n, u) \in Nat BY RestNat
<1>5. Rest((p - 1) + 1, u) = Rest(p - 1, u) + 1 /\ (p - 1) + 1 = p BY RestNext
<1> QED BY <1>3, <1>4, <1>5

\* What is set aside further on does not change a number.
LEMMA RestAside ==
  ASSUME NEW p \in Nat, NEW u, NEW i \in Nat, i > p
  PROVE  Rest(p, u \cup {i}) = Rest(p, u)
<1>1. (1 .. p) \ (u \cup {i}) = (1 .. p) \ u OBVIOUS
<1> QED BY <1>1 DEF Rest

LEMMA NumberRest == \A p : Number(p) = Rest(p, unsupported)
BY DEF Number, Rest

LEMMA InitNumbered == Init => NumberInv
BY DEF Init, NumberInv, Registered

LEMMA RegisterNumbered == TInv /\ RegisterRules => NumberInv'
<1> SUFFICES ASSUME TInv, RegisterRules PROVE NumberInv' OBVIOUS
<1>1. /\ phase' = "evaluate" /\ at' = 1 /\ statements' = statements
      /\ accepted' = <<>> /\ unsupported' = {}
  BY DEF TInv, EvaluationInv, RegisterRules
<1>2. Len(statements) \in Nat BY DEF TInv, ExtractionInv
<1>3. Evaluated' = 0 BY <1>1 DEF Evaluated
<1>4. Number(0)' = 0
  <2>1. (1 .. 0) \ {} = {} OBVIOUS
  <2> QED BY <2>1, <1>1, FS_EmptySet DEF Number
<1>5. Number(Evaluated)' = 0 BY <1>3, <1>4 DEF Number
<1> QED BY <1>1, <1>2, <1>3, <1>5 DEF NumberInv

LEMMA EvaluateNumbered == TInv /\ NumberInv /\ EvaluateNext => NumberInv'
<1> SUFFICES ASSUME TInv, NumberInv, EvaluateNext PROVE NumberInv' OBVIOUS
<1> DEFINE n == at - 1  u == unsupported
<1>1. /\ n \in Nat /\ at = n + 1 /\ Evaluated = n /\ Evaluated' = n + 1
      /\ n + 1 \in DOMAIN statements /\ DOMAIN statements = 1 .. Len(statements)
      /\ Len(statements) \in Nat /\ statements' = statements
  BY DEF TInv, ExtractionInv, EvaluateNext, Evaluated
<1>2. /\ u = {i \in 1 .. n : statements[i] = Unsupported}
      /\ Len(accepted) = Rest(n, u)
      /\ \A p \in (1 .. n) \ u : accepted[Rest(p, u)] = statements[p]
  BY <1>1, NumberRest DEF NumberInv, EvaluateNext, Registered
<1>3. /\ accepted \in Seq(Extracts) /\ Len(accepted) \in Nat
      /\ DOMAIN accepted = 1 .. Len(accepted)
  BY DEF TInv, EvaluationInv
<1>4. n + 1 \notin u BY <1>1, <1>2
<1>5. \A p \in (1 .. n) \ u : Rest(p, u) \in 1 .. Len(accepted) BY <1>1, <1>2, RestBelow
<1>6. \A p : Number(p)' = Rest(p, u') BY NumberRest DEF Number, Rest
<1> HIDE DEF n, u
<1>7. CASE statements[n + 1] = Unsupported
  <2>1. u' = u \cup {n + 1} /\ accepted' = accepted BY <1>7, <1>1 DEF EvaluateNext, u
  <2>2. u' = {i \in 1 .. (n + 1) : statements'[i] = Unsupported}
    BY <2>1, <1>1, <1>2, <1>7
  <2>3. \A p \in 1 .. n : Rest(p, u') = Rest(p, u) BY <2>1, <1>1, RestAside
  <2>4. Rest(n + 1, u') = Rest(n, u)
    <3>1. Rest(n + 1, u') = Rest(n, u') BY <2>1, <1>1, RestNext
    <3>2. Rest(n, u') = Rest(n, u) BY <2>1, <1>1, RestAside
    <3> QED BY <3>1, <3>2
  <2>5. \A p \in (1 .. (n + 1)) \ u' : p \in (1 .. n) \ u BY <2>1, <1>1
  <2>6. \A p \in (1 .. (n + 1)) \ u' :
           Number(p)' \in DOMAIN accepted' /\ accepted'[Number(p)'] = statements'[p]
    BY <2>1, <2>3, <2>5, <1>1, <1>2, <1>3, <1>5, <1>6
  <2>7. Len(accepted') = Number(Evaluated)' BY <2>1, <2>4, <1>1, <1>2, <1>6 DEF Number
  <2> QED BY <1>1, <2>2, <2>6, <2>7 DEF NumberInv, u
<1>8. CASE statements[n + 1] # Unsupported
  <2> DEFINE m == Len(accepted)
  <2>1. u' = u /\ accepted' = Append(accepted, statements[n + 1]) /\ statements[n + 1] \in Extracts
    BY <1>8, <1>1 DEF EvaluateNext, u, TInv, ExtractionInv
  <2>2. /\ Len(accepted') = m + 1 /\ DOMAIN accepted' = 1 .. (m + 1) /\ m \in Nat
        /\ accepted'[m + 1] = statements[n + 1]
        /\ \A i \in 1 .. m : accepted'[i] = accepted[i]
    BY <2>1, <1>3
  <2>3. u' = {i \in 1 .. (n + 1) : statements'[i] = Unsupported} BY <2>1, <1>1, <1>2, <1>8
  <2>4. Rest(n + 1, u') = m + 1 BY <2>1, <1>1, <1>2, <1>4, RestNext
  <2>5. Len(accepted') = Number(Evaluated)' BY <2>2, <2>4, <1>1, <1>6 DEF Number
  <2>6. ASSUME NEW p \in (1 .. (n + 1)) \ u'
        PROVE  Number(p)' \in DOMAIN accepted' /\ accepted'[Number(p)'] = statements'[p]
    <3>1. CASE p = n + 1 BY <3>1, <2>2, <2>4, <1>1, <1>6
    <3>2. CASE p # n + 1
      <4>1. p \in (1 .. n) \ u BY <3>2, <2>1, <1>1
      <4>2. Rest(p, u) \in 1 .. m BY <4>1, <1>5
      <4> HIDE DEF m
      <4> QED BY <4>1, <4>2, <2>1, <2>2, <1>1, <1>2, <1>6
    <3> QED BY <3>1, <3>2
  <2> QED BY <1>1, <2>3, <2>5, <2>6 DEF NumberInv, u
<1> QED BY <1>1, <1>7, <1>8

\* The end of the evaluation has looked at every statement.
LEMMA AllEvaluated ==
  ASSUME TInv, NumberInv, phase = "evaluate", at \notin DOMAIN statements
  PROVE  Evaluated = Len(statements)
BY DEF TInv, ExtractionInv, NumberInv, Evaluated, Registered

LEMMA NextNumbered == TInv /\ NumberInv /\ [Next]_vars => NumberInv'
<1> SUFFICES ASSUME TInv, NumberInv, [Next]_vars PROVE NumberInv' OBVIOUS
<1>1. CASE ExtractNext BY <1>1 DEF ExtractNext, NumberInv, Registered
<1>2. CASE RegisterRules BY <1>2, RegisterNumbered
<1>3. CASE EvaluateNext BY <1>3, EvaluateNumbered
<1>4. CASE StartGlobal
  <2>1. /\ Evaluated' = Len(statements) /\ statements' = statements /\ accepted' = accepted
        /\ unsupported' = unsupported
    BY <1>4 DEF StartGlobal, Evaluated
  <2>2. Evaluated' = Evaluated BY <1>4, <2>1, AllEvaluated DEF StartGlobal
  <2> QED BY <1>4, <2>1, <2>2 DEF StartGlobal, NumberInv, Number, Registered
<1>5. CASE GlobalAction \/ GlobalNext \/ EndGlobal \/ AggregateFindings \/ Fail \/ Cancel
           \/ UNCHANGED vars
  <2>1. UNCHANGED <<statements, accepted, unsupported>>
        /\ (phase' \in Registered => Evaluated' = Evaluated /\ phase \in Registered)
    BY <1>5 DEF GlobalAction, GlobalNext, EndGlobal, AggregateFindings, Fail, Cancel, vars,
                Evaluated, Registered
  <2> QED BY <2>1 DEF NumberInv, Number
<1> QED BY <1>1, <1>2, <1>3, <1>4, <1>5 DEF Next

\* TInv and NumberInv hold in every reachable state.
LEMMA Numbered == Spec => [](TInv /\ NumberInv)
<1>1. Init => TInv /\ NumberInv BY InitTyped, InitNumbered
<1>2. TInv /\ NumberInv /\ [Next]_vars => (TInv /\ NumberInv)' BY NextTyped, NextNumbered
<1> QED BY <1>1, <1>2, PTL DEF Spec

\* A statement that was not set aside is where its number says, and its findings are
\* those of the default policy on it.
LEMMA NumberedResult ==
  ASSUME TInv, NumberInv, phase = "done", NEW p \in DOMAIN script \ unsupported
  PROVE  /\ Extracted(dialect, script[p]) # Unsupported
         /\ accepted[Number(p)] = Extracted(dialect, script[p])
         /\ results[Number(p)] = Judged(Extracted(dialect, script[p]))
<1>1. /\ DOMAIN script = 1 .. Len(script) /\ Len(script) \in Nat
      /\ Len(statements) = Len(script) /\ DOMAIN statements = 1 .. Len(statements)
      /\ \A i \in DOMAIN statements : statements[i] = Extracted(dialect, script[i])
  BY RequestTypes DEF TInv, ExtractionInv, Registered
<1>2. Evaluated = Len(statements) BY DEF Evaluated
<1>3. p \in (1 .. Evaluated) \ unsupported BY <1>1, <1>2
<1>4. Number(p) \in DOMAIN accepted /\ accepted[Number(p)] = statements[p]
      /\ statements[p] # Unsupported
  BY <1>3 DEF NumberInv, Registered
<1>5. results[Number(p)] = Judged(accepted[Number(p)]) BY <1>4 DEF TInv, EvaluationInv
<1> QED BY <1>1, <1>3, <1>4, <1>5

\* If each statement is noticed by itself, an audit of any script of them leaves none
\* unnoticed: what is refused in between shifts no finding to another statement, and
\* none is lost, whatever the script's length (evaluate.go:27-84).
THEOREM NoticedSound ==
  ASSUME FormsNoticed
  PROVE  Spec => []NothingUnnoticed
<1>1. TInv /\ NumberInv => NothingUnnoticed
  <2> SUFFICES ASSUME TInv, NumberInv, phase = "done", file = {},
                      NEW p \in DOMAIN script \ unsupported
               PROVE  Noticed(dialect, script[p], accepted[Number(p)], results[Number(p)])
    BY DEF NothingUnnoticed
  <2> DEFINE ddl == Extracted(dialect, script[p])
  <2>1. ddl # Unsupported /\ accepted[Number(p)] = ddl /\ results[Number(p)] = Judged(ddl)
    BY NumberedResult
  <2>2. Judged(ddl) = FoundBy(DefaultRules, {}, dialect, ddl) BY DEF Judged, DefaultRules
  <2>3. Noticed(dialect, script[p], ddl, FoundBy(DefaultRules, {}, dialect, ddl))
    <3>1. PICK r \in Requests : dialect = r.dialect /\ script = r.nodes /\ file = r.file
      BY DEF TInv, Asked
    <3> QED BY <2>1, <3>1 DEF FormsNoticed
  <2> HIDE DEF ddl
  <2> QED BY <2>1, <2>2, <2>3
<1> QED BY <1>1, Numbered, PTL

-----------------------------------------------------------------------------
(* The policy, and foreign keys.                                           *)

\* The switches of some settings are among those there are.
Switched(settings) == \A s \in settings : s.switch \in {"on", "off", "absent"}

LEMMA SwitchedSets ==
  /\ \A level, ids : Switched(Default(level, ids)) /\ Switched(SwitchedOff(level, ids))
  /\ \A a, b : Switched(a) /\ Switched(b) => Switched(a \cup b)
<1>1. \A level, ids : Switched(Default(level, ids)) BY DEF Switched, Default, SettingOf
<1>2. \A level, ids : Switched(SwitchedOff(level, ids)) BY DEF Switched, SwitchedOff, SettingOf
<1>3. \A a, b : Switched(a) /\ Switched(b) => Switched(a \cup b) BY DEF Switched
<1> QED BY <1>1, <1>2, <1>3

\* The default policy has no switch a policy file could not write.
LEMMA DefaultsSwitched == Switched(DefaultSettings)
<1>1. Switched(ForeignKeyNamingDefaults) BY SwitchedSets DEF ForeignKeyNamingDefaults
<1>2. Switched(TableDefaults) BY SwitchedSets DEF TableDefaults
<1>3. Switched(LifecycleDefaults) BY SwitchedSets DEF LifecycleDefaults
<1>4. Switched(AlterDefaults) BY SwitchedSets DEF AlterDefaults
<1>5. Switched(ColumnActionDefaults) BY SwitchedSets DEF ColumnActionDefaults
<1>6. Switched(ExplicitChangeDefaults) BY SwitchedSets DEF ExplicitChangeDefaults
<1>7. Switched(PgMigrationDefaults) BY SwitchedSets DEF PgMigrationDefaults
<1>8. Switched(PgTableDefaults) BY SwitchedSets DEF PgTableDefaults
<1>9. Switched(PgObjectDefaults) BY SwitchedSets DEF PgObjectDefaults
<1>10. Switched(PgTypeDefaults) BY SwitchedSets DEF PgTypeDefaults
<1>11. Switched(PgExtensionDefaults) BY SwitchedSets DEF PgExtensionDefaults
<1>12. Switched(PgViewDefaults) BY SwitchedSets DEF PgViewDefaults
<1>13. Switched(PgForeignDefaults) BY SwitchedSets DEF PgForeignDefaults
<1>14. Switched(PgSemanticDefaults) BY SwitchedSets DEF PgSemanticDefaults
<1>15. Switched(PgRelationshipDefaults) BY SwitchedSets DEF PgRelationshipDefaults
<1> QED
  BY <1>1, <1>2, <1>3, <1>4, <1>5, <1>6, <1>7, <1>8,
     <1>9, <1>10, <1>11, <1>12, <1>13, <1>14, <1>15 DEF DefaultSettings, Switched

\* What holds of a rule is a setting of that rule, with a switch.
LEMMA SettingTyped ==
  ASSUME NEW f \in SUBSET Settings, NEW id
  PROVE  Setting(f, id).switch \in {"on", "off", "absent"} /\ Setting(f, id).id = id
<1>1. CASE \E s \in f : s.id = id
  <2>1. Setting(f, id) = CHOOSE s \in f : s.id = id BY <1>1 DEF Setting
  <2> QED BY <1>1, <2>1 DEF Settings
<1>2. CASE ~(\E s \in f : s.id = id) /\ id \in DOMAIN DefaultPolicy
  <2>1. \E s \in DefaultSettings : s.id = id BY <1>2 DEF DefaultPolicy
  <2>2. DefaultPolicy[id] = CHOOSE s \in DefaultSettings : s.id = id BY <1>2 DEF DefaultPolicy
  <2>3. DefaultPolicy[id] \in DefaultSettings /\ DefaultPolicy[id].id = id BY <2>1, <2>2
  <2>4. Setting(f, id) = DefaultPolicy[id] BY <1>2 DEF Setting
  <2> QED BY <2>3, <2>4, DefaultsSwitched DEF Switched
<1>3. CASE ~(\E s \in f : s.id = id) /\ id \notin DOMAIN DefaultPolicy
  <2>1. Setting(f, id) = SettingOf(id, FALSE, "", "absent") BY <1>3 DEF Setting
  <2>2. /\ SettingOf(id, FALSE, "", "absent").switch = "absent"
        /\ SettingOf(id, FALSE, "", "absent").id = id
    BY DEF SettingOf
  <2> QED BY <2>1, <2>2
<1> QED BY <1>1, <1>2, <1>3

ForbidRule == ForeignKeyRule(ForeignKeyForbid, "blocker", Dialects, "foreign keys")

\* The rules about foreign keys, and that the one that forbids them is no naming rule.
LEMMA ForeignKeyRows ==
  /\ ForbidRule \in StatementRules
  /\ ForbidRule.id = ForeignKeyForbid /\ ForbidRule.scope = "foreign keys"
  /\ ForbidRule.dialects = Dialects
  /\ ~IsNamingRule(ForeignKeyForbid)
  /\ \A r \in ForeignKeyNamingRules :
        /\ r \in StatementRules /\ IsNamingRule(r.id)
        /\ r.scope = "foreign key names" /\ r.dialects = Dialects
<1>1. ForbidRule \in ForeignKeyRules BY DEF ForbidRule, ForeignKeyRules
<1>2. ForbidRule \in StatementRules BY <1>1 DEF StatementRules, SharedStatementRules
<1>3. /\ ForbidRule.id = ForeignKeyForbid /\ ForbidRule.scope = "foreign keys"
      /\ ForbidRule.dialects = Dialects
  BY DEF ForbidRule, ForeignKeyRule, AlterRule
<1>4. ASSUME NEW r \in ForeignKeyNamingRules
      PROVE  /\ r \in StatementRules /\ IsNamingRule(r.id)
             /\ r.scope = "foreign key names" /\ r.dialects = Dialects
             /\ r.id # ForeignKeyForbid
  <2>1. r \in StatementRules BY <1>4 DEF StatementRules, SharedStatementRules
  <2>2. IsNamingRule(r.id) BY <1>4 DEF IsNamingRule
  <2>3. PICK id \in {"ddl.constraint.foreign_key.name.prefix.require",
                     "ddl.constraint.foreign_key.name.suffix.require",
                     "ddl.constraint.foreign_key.name.contains.require"} :
             r = ForeignKeyRule(id, "warning", Dialects, "foreign key names")
    BY <1>4 DEF ForeignKeyNamingRules
  <2>4. r.id = id /\ r.scope = "foreign key names" /\ r.dialects = Dialects
    BY <2>3 DEF ForeignKeyRule, AlterRule
  <2>5. r.id # ForeignKeyForbid BY <2>4 DEF ForeignKeyForbid
  <2> QED BY <2>1, <2>2, <2>4, <2>5
<1>5. ~IsNamingRule(ForeignKeyForbid) BY <1>4 DEF IsNamingRule
<1> QED BY <1>2, <1>3, <1>4, <1>5

\* What a rule that is loaded fires at is among the findings.
LEMMA FiringFound ==
  ASSUME NEW r \in StatementRules, NEW ddl, NEW k \in Fires(r, dialect, ddl),
         Registers(file, r.id), SwitchedOn(Setting(file, r.id))
  PROVE  \E f \in Judged(ddl) : f.at = k /\ f.id = r.id
<1>1. r \in Loaded(file) BY DEF Loaded
<1>2. Finding(file, r, k) \in Judged(ddl) BY <1>1 DEF Judged, FoundBy
<1>3. Finding(file, r, k).at = k /\ Finding(file, r, k).id = r.id BY DEF Finding
<1> QED BY <1>2, <1>3

\* Whatever the policy file and the script: when a naming rule for foreign keys stands,
\* a badly named foreign key of a CREATE TABLE is reported by a naming rule or by the
\* rule that forbids foreign keys (suppression.go:27-46, register.go:654-661).
THEOREM ForeignKeysSound == Spec => []ForeignKeysReviewed
<1>1. TInv => ForeignKeysReviewed
  <2> SUFFICES ASSUME TInv, phase = "done",
                      NEW r \in ForeignKeyNamingRules, Stands(r.id),
                      NEW i \in DOMAIN accepted, NEW k \in ForeignKeys(accepted[i]),
                      AppliesToCreateTable(accepted[i]),
                      accepted[i].constraints[k].name \notin Conforming \cup {""}
               PROVE  ForeignKeyReported(results[i], k)
    BY DEF ForeignKeysReviewed
  <2> DEFINE ddl == accepted[i]  forbid == Setting(file, ForeignKeyForbid)
  <2>1. results[i] = Judged(ddl) /\ dialect \in Dialects /\ file \in SUBSET Settings
    BY RequestTypes DEF TInv, EvaluationInv
  <2>2. forbid.switch \in {"on", "off", "absent"} /\ forbid.id = ForeignKeyForbid
    BY <2>1, SettingTyped
  <2> HIDE DEF ddl, forbid
  <2>3. CASE forbid.enabled /\ forbid.switch # "off"
    <3>1. SwitchedOn(forbid) BY <2>2, <2>3, ForeignKeyRows DEF SwitchedOn
    <3>2. Registers(file, ForeignKeyForbid)
      BY <2>3, ForeignKeyRows DEF Registers, SuppressesForeignKeyNaming, forbid
    <3>3. Fires(ForbidRule, dialect, ddl) = ForeignKeys(ddl)
      BY <2>1, ForeignKeyRows DEF Fires, MatchingForeignKeys
    <3>4. \E f \in Judged(ddl) : f.at = k /\ f.id = ForeignKeyForbid
      <4>1. k \in Fires(ForbidRule, dialect, ddl) BY <3>3 DEF ddl
      <4>2. ForbidRule \in StatementRules /\ ForbidRule.id = ForeignKeyForbid BY ForeignKeyRows
      <4>3. Registers(file, ForbidRule.id) /\ SwitchedOn(Setting(file, ForbidRule.id))
        BY <3>1, <3>2, <4>2 DEF forbid
      <4>4. \E f \in Judged(ddl) : f.at = k /\ f.id = ForbidRule.id
        BY <4>1, <4>2, <4>3, FiringFound
      <4> QED BY <4>2, <4>4
    <3> QED BY <2>1, <3>4 DEF ForeignKeyReported
  <2>4. CASE ~(forbid.enabled /\ forbid.switch # "off")
    <3>1. Registers(file, r.id) /\ SwitchedOn(Setting(file, r.id))
      BY <2>4 DEF Registers, SuppressesForeignKeyNaming, forbid, Stands
    <3>2. k \in Fires(r, dialect, ddl)
      <4>1. k \in MatchingForeignKeys(r, ddl)
        BY ForeignKeyRows DEF MatchingForeignKeys, ddl
      <4> QED BY <4>1, <2>1, ForeignKeyRows DEF Fires
    <3>3. \E f \in Judged(ddl) : f.at = k /\ f.id = r.id
      BY <3>1, <3>2, FiringFound, ForeignKeyRows
    <3> QED BY <2>1, <3>3, ForeignKeyRows DEF ForeignKeyReported
  <2> QED BY <2>3, <2>4
<1>2. Spec => []TInv BY InitTyped, NextTyped, PTL DEF Spec
<1> QED BY <1>1, <1>2, PTL

-----------------------------------------------------------------------------
(* The actions of a PostgreSQL statement.                                  *)

\* The actions of a statement are a list.
Listed(ddl) == \E n \in Nat : DOMAIN ddl.alters = 1 .. n

\* A statement without actions, or with one; the constraints do not matter.
LEMMA ListedForms ==
  /\ Listed(Unsupported)
  /\ \A op, type, facts : Listed(Object(op, type, facts))
  /\ \A verb, node, facts : Listed(About(verb, node, facts))
  /\ \A op, type, facts, table : Listed(Ddl(op, type, facts, table, <<>>))
  /\ \A op, type, facts, table, alter : Listed(Ddl(op, type, facts, table, <<alter>>))
<1>1. \A op, type, facts, table : Ddl(op, type, facts, table, <<>>).alters = <<>> BY DEF Ddl
<1>2. \A op, type, facts, table, alter :
         Ddl(op, type, facts, table, <<alter>>).alters = <<alter>>
  BY DEF Ddl
<1>3. DOMAIN <<>> = 1 .. 0 /\ \A alter : DOMAIN <<alter>> = 1 .. 1 OBVIOUS
<1>4. 0 \in Nat /\ 1 \in Nat OBVIOUS
<1>5. \A op, type, facts, table : Listed(Ddl(op, type, facts, table, <<>>))
  BY <1>1, <1>3, <1>4 DEF Listed
<1>6. \A op, type, facts, table, alter : Listed(Ddl(op, type, facts, table, <<alter>>))
  BY <1>2, <1>3, <1>4 DEF Listed
<1>7. \A op, type, facts : Listed(Object(op, type, facts)) BY <1>5 DEF Object
<1> QED BY <1>5, <1>6, <1>7 DEF Unsupported, About

\* ALTER TABLE has an action for each of its commands.
LEMMA AlterTableListed == ASSUME NEW node \in Nodes PROVE Listed(AlterTableStmt(node))
<1> DEFINE alters == [k \in DOMAIN node.cmds |-> AlterFromCmd(node.cmds[k])]
           ddl == [Ddl("alter_table", "", {}, node.table, alters)
                      EXCEPT !.constraints = ProjectedConstraints(node.cmds)]
<1>1. Listed(ddl)
  <2>1. DOMAIN node.cmds = 1 .. Len(node.cmds) /\ Len(node.cmds) \in Nat BY DEF Nodes
  <2>2. DOMAIN alters = DOMAIN node.cmds OBVIOUS
  <2> HIDE DEF alters
  <2>3. ddl.alters = alters BY DEF Ddl
  <2> QED BY <2>1, <2>2, <2>3 DEF Listed
<1>2. AlterTableStmt(node) \in
        {AlterCompositeType(node), AlterIndexStmt(node), AlterForeignTableStmt(node),
         Unsupported, ddl}
  BY Zenon DEF AlterTableStmt
<1>3. Listed(AlterCompositeType(node)) BY ListedForms DEF AlterCompositeType
<1>4. Listed(AlterIndexStmt(node)) BY ListedForms DEF AlterIndexStmt
<1>5. Listed(AlterForeignTableStmt(node)) BY ListedForms DEF AlterForeignTableStmt
<1> HIDE DEF ddl
<1> QED BY <1>1, <1>2, <1>3, <1>4, <1>5, ListedForms

\* The handlers, in the order of the code's files: none leaves anything but a list.
LEMMA HandlersListed ==
  ASSUME NEW node \in Nodes
  PROVE
    /\ Listed(CreateStmt(node))
    /\ Listed(RenameStmt(node))
    /\ Listed(DropStmt(node))
    /\ Listed(ViewStmt(node))
    /\ Listed(AlterTableMoveAllStmt(node))
    /\ Listed(AlterObjectSchemaStmt(node))
    /\ Listed(IndexStmt(node))
    /\ Listed(TruncateStmt(node))
    /\ Listed(CreateSchemaStmt(node))
    /\ Listed(CreateSeqStmt(node))
    /\ Listed(AlterSeqStmt(node))
    /\ Listed(CreateTableAsStmt(node))
    /\ Listed(RefreshMatViewStmt(node))
    /\ Listed(CreateEnumStmt(node))
    /\ Listed(AlterEnumStmt(node))
    /\ Listed(CompositeTypeStmt(node))
    /\ Listed(CreateDomainStmt(node))
    /\ Listed(AlterDomainStmt(node))
    /\ Listed(CreateExtensionStmt(node))
    /\ Listed(AlterExtensionStmt(node))
    /\ Listed(AlterExtensionContentsStmt(node))
    /\ Listed(GrantStmt(node))
    /\ Listed(CreatePolicyStmt(node))
    /\ Listed(AlterPolicyStmt(node))
    /\ Listed(CreateTrigStmt(node))
    /\ Listed(CreateFunctionStmt(node))
    /\ Listed(CreatePublicationStmt(node))
    /\ Listed(AlterPublicationStmt(node))
    /\ Listed(CreateSubscriptionStmt(node))
    /\ Listed(AlterSubscriptionStmt(node))
    /\ Listed(DropSubscriptionStmt(node))
    /\ Listed(CreateForeignTableStmt(node))
    /\ Listed(CommentStmt(node))
    /\ Listed(SecLabelStmt(node))
    /\ Listed(CreateEventTrigStmt(node))
    /\ Listed(AlterEventTrigStmt(node))
    /\ Listed(RuleStmt(node))
    /\ Listed(DefineStmt(node))
    /\ Listed(CreateSemanticObjectStmt(node))
    /\ Listed(CreateStatsStmt(node))
    /\ Listed(AlterStatsStmt(node))
    /\ Listed(AlterOwnerStmt(node))
    /\ \A verb : /\ Listed(ForeignServerStmt(node, verb)) /\ Listed(UserMappingStmt(node, verb))
                /\ Listed(FdwStmt(node, verb))
<1>1. Listed(CreateStmt(node))
  <2> DEFINE ddl == [Ddl("create_table", "", {}, node.table, <<>>)
                        EXCEPT !.constraints = ElementConstraints(node.cmds)]
  <2>1. ddl.alters = Ddl("create_table", "", {}, node.table, <<>>).alters BY DEF Ddl
  <2>2. Listed(ddl) BY <2>1, ListedForms DEF Listed
  <2>3. CreateStmt(node) \in {Unsupported, ddl} BY DEF CreateStmt
  <2> HIDE DEF ddl
  <2> QED BY <2>2, <2>3, ListedForms
<1>2. Listed(RenameStmt(node))
  <2>1. Listed(RenamedRelation(node)) BY ListedForms DEF RenamedRelation
  <2> QED BY <2>1, ListedForms DEF RenameStmt
<1>3. Listed(DropStmt(node))
  <2>1. Listed(DroppedRelation(node)) BY ListedForms DEF DroppedRelation
  <2> QED BY <2>1, ListedForms DEF DropStmt
<1>4. Listed(ViewStmt(node)) BY ListedForms DEF ViewStmt
<1>5. Listed(AlterTableMoveAllStmt(node)) BY ListedForms DEF AlterTableMoveAllStmt
<1>6. Listed(AlterObjectSchemaStmt(node)) BY ListedForms DEF AlterObjectSchemaStmt
<1>7. Listed(IndexStmt(node)) BY ListedForms DEF IndexStmt
<1>8. Listed(TruncateStmt(node)) BY ListedForms DEF TruncateStmt
<1>9. Listed(CreateSchemaStmt(node)) BY ListedForms DEF CreateSchemaStmt
<1>10. Listed(CreateSeqStmt(node)) BY ListedForms DEF CreateSeqStmt
<1>11. Listed(AlterSeqStmt(node)) BY ListedForms DEF AlterSeqStmt
<1>12. Listed(CreateTableAsStmt(node)) BY ListedForms DEF CreateTableAsStmt
<1>13. Listed(RefreshMatViewStmt(node)) BY ListedForms DEF RefreshMatViewStmt
<1>14. Listed(CreateEnumStmt(node)) BY ListedForms DEF CreateEnumStmt
<1>15. Listed(AlterEnumStmt(node)) BY ListedForms DEF AlterEnumStmt
<1>16. Listed(CompositeTypeStmt(node)) BY ListedForms DEF CompositeTypeStmt
<1>17. Listed(CreateDomainStmt(node)) BY ListedForms DEF CreateDomainStmt
<1>18. Listed(AlterDomainStmt(node)) BY ListedForms DEF AlterDomainStmt
<1>19. Listed(CreateExtensionStmt(node)) BY ListedForms DEF CreateExtensionStmt
<1>20. Listed(AlterExtensionStmt(node)) BY ListedForms DEF AlterExtensionStmt
<1>21. Listed(AlterExtensionContentsStmt(node)) BY ListedForms DEF AlterExtensionContentsStmt
<1>22. Listed(GrantStmt(node)) BY ListedForms DEF GrantStmt
<1>23. Listed(CreatePolicyStmt(node)) BY ListedForms DEF CreatePolicyStmt
<1>24. Listed(AlterPolicyStmt(node)) BY ListedForms DEF AlterPolicyStmt
<1>25. Listed(CreateTrigStmt(node)) BY ListedForms DEF CreateTrigStmt
<1>26. Listed(CreateFunctionStmt(node)) BY ListedForms DEF CreateFunctionStmt
<1>27. Listed(CreatePublicationStmt(node)) BY ListedForms DEF CreatePublicationStmt
<1>28. Listed(AlterPublicationStmt(node)) BY ListedForms DEF AlterPublicationStmt
<1>29. Listed(CreateSubscriptionStmt(node)) BY ListedForms DEF CreateSubscriptionStmt
<1>30. Listed(AlterSubscriptionStmt(node)) BY ListedForms DEF AlterSubscriptionStmt
<1>31. Listed(DropSubscriptionStmt(node)) BY ListedForms DEF DropSubscriptionStmt
<1>32. Listed(CreateForeignTableStmt(node)) BY ListedForms DEF CreateForeignTableStmt
<1>33. Listed(CommentStmt(node)) BY ListedForms DEF CommentStmt
<1>34. Listed(SecLabelStmt(node)) BY ListedForms DEF SecLabelStmt
<1>35. Listed(CreateEventTrigStmt(node)) BY ListedForms DEF CreateEventTrigStmt
<1>36. Listed(AlterEventTrigStmt(node)) BY ListedForms DEF AlterEventTrigStmt
<1>37. Listed(RuleStmt(node)) BY ListedForms DEF RuleStmt
<1>38. Listed(DefineStmt(node)) BY ListedForms DEF DefineStmt
<1>39. Listed(CreateSemanticObjectStmt(node)) BY ListedForms DEF CreateSemanticObjectStmt
<1>40. Listed(CreateStatsStmt(node)) BY ListedForms DEF CreateStatsStmt
<1>41. Listed(AlterStatsStmt(node)) BY ListedForms DEF AlterStatsStmt
<1>42. Listed(AlterOwnerStmt(node)) BY ListedForms DEF AlterOwnerStmt
<1>43. \A verb : /\ Listed(ForeignServerStmt(node, verb)) /\ Listed(UserMappingStmt(node, verb))
             /\ Listed(FdwStmt(node, verb))
  BY ListedForms DEF ForeignServerStmt, UserMappingStmt, FdwStmt
<1> QED
  BY <1>1, <1>2, <1>3, <1>4, <1>5, <1>6, <1>7, <1>8, <1>9, <1>10, <1>11, <1>12,
     <1>13, <1>14, <1>15, <1>16, <1>17, <1>18, <1>19, <1>20, <1>21, <1>22, <1>23, <1>24,
     <1>25, <1>26, <1>27, <1>28, <1>29, <1>30, <1>31, <1>32, <1>33, <1>34, <1>35, <1>36,
     <1>37, <1>38, <1>39, <1>40, <1>41, <1>42, <1>43

\* Whatever a PostgreSQL statement is, its actions are a list.
LEMMA ExtractListed == ASSUME NEW node \in Nodes PROVE Listed(Extract(node))
BY HandlersListed, AlterTableListed, ListedForms DEF Extract

\* The actions of each accepted PostgreSQL statement are numbered from 1 without a gap.
LEMMA AcceptedListed ==
  ASSUME TInv, dialect = "postgresql", NEW i \in DOMAIN accepted
  PROVE  \E n \in Nat : DOMAIN accepted[i].alters = 1 .. n
<1>1. accepted[i] \in Extracts BY DEF TInv, EvaluationInv
<1>2. PICK j \in DOMAIN script : accepted[i] = Extracted(dialect, script[j])
  BY <1>1 DEF Extracts
<1>3. script[j] \in Nodes BY RequestTypes DEF TInv
<1>4. accepted[i] = Extract(script[j]) BY <1>2 DEF Extracted
<1> QED BY <1>3, <1>4, ExtractListed DEF Listed

-----------------------------------------------------------------------------
(* The rule about NOT VALID constraints.                                   *)

\* What a position is; accepting nothing more, the positions stay.
LEMMA PositionParts ==
  /\ \A p \in Positions : /\ p = <<p[1], p[2]>> /\ p[1] \in DOMAIN accepted
                          /\ p[2] \in DOMAIN accepted[p[1]].alters
  /\ \A i \in DOMAIN accepted : \A k \in DOMAIN accepted[i].alters : <<i, k>> \in Positions
BY DEF Positions

LEMMA PositionNumbers ==
  ASSUME TInv, dialect = "postgresql", NEW p \in Positions
  PROVE  p[1] \in Nat \ {0} /\ p[2] \in Nat \ {0}
<1>1. p[1] \in DOMAIN accepted /\ p[2] \in DOMAIN accepted[p[1]].alters BY PositionParts
<1>2. p[1] \in Nat \ {0} BY <1>1 DEF TInv, EvaluationInv
<1>3. p[2] \in Nat \ {0} BY <1>1, AcceptedListed
<1> QED BY <1>2, <1>3

\* No action both adds a constraint and validates one.
LEMMA AddOrValidate == \A ddl, k : ~(AddsNotValid(ddl, k) /\ Validates(ddl, k))
BY DEF AddsNotValid, Validates

LEMMA SamePositions ==
  ASSUME UNCHANGED accepted
  PROVE  /\ Positions' = Positions
         /\ \A p : Key(p)' = Key(p) /\ Adding(p)' = Adding(p) /\ Validating(p)' = Validating(p)
                   /\ Item(p)' = Item(p)
         /\ \A p : Unvalidated(p)' = Unvalidated(p)
BY DEF Positions, Key, Adding, Validating, Item, Unvalidated, ValidatedAfter

LEMMA InitPending == Init => PendingInv
BY DEF Init, PendingInv

\* Before its first action the rule waits for nothing.
LEMMA StartPending == TInv /\ StartGlobal => PendingInv'
<1> SUFFICES ASSUME TInv, StartGlobal PROVE PendingInv' OBVIOUS
<1>1. /\ UNCHANGED <<dialect, file, accepted, pending>> /\ pending = {}
      /\ at' = 1 /\ action' = 1
      /\ phase' = IF dialect = "postgresql" /\ Stands(NotValidRule) THEN "global" ELSE "aggregate"
  BY DEF StartGlobal, TInv, request
<1>2. Stands(NotValidRule)' = Stands(NotValidRule) BY <1>1 DEF Stands
<1>3. CASE phase' = "global"
  <2>1. dialect' = "postgresql" BY <1>1, <1>3
  <2>2. Len(accepted) \in Nat BY DEF TInv, EvaluationInv
  <2>3. \A p \in Positions' : ~Waiting(p)'
    <3> SUFFICES ASSUME NEW p \in Positions PROVE ~Seen(p)'
      BY <1>1, SamePositions DEF Waiting
    <3>1. p[1] \in Nat \ {0} /\ p[2] \in Nat \ {0} BY <1>1, <2>1, PositionNumbers
    <3> QED BY <1>1, <3>1 DEF Seen
  <2> QED BY <1>1, <1>3, <2>1, <2>2, <2>3 DEF PendingInv
<1>4. CASE phase' # "global" BY <1>1, <1>2, <1>4 DEF PendingInv
<1> QED BY <1>3, <1>4

\* What one action changes: it is seen, and nothing else is.
LEMMA SeenNext ==
  ASSUME TInv, dialect = "postgresql", at \in DOMAIN accepted,
         action \in DOMAIN accepted[at].alters,
         UNCHANGED accepted, at' = at, action' = action + 1
  PROVE  /\ <<at, action>> \in Positions
         /\ \A p \in Positions : Seen(p)' <=> Seen(p) \/ p = <<at, action>>
         /\ \A p \in Positions : Seen(p) => Before(p, <<at, action>>)
         /\ \A p \in Positions : Before(<<at, action>>, p) => ~Seen(p) /\ p # <<at, action>>
<1>1. <<at, action>> \in Positions BY PositionParts
<1>2. at \in Nat /\ action \in Nat BY DEF TInv
<1>3. ASSUME NEW p \in Positions
      PROVE  /\ Seen(p)' <=> Seen(p) \/ p = <<at, action>>
             /\ Seen(p) => Before(p, <<at, action>>)
             /\ Before(<<at, action>>, p) => ~Seen(p) /\ p # <<at, action>>
  <2>1. p = <<p[1], p[2]>> /\ p[1] \in Nat /\ p[2] \in Nat
    BY <1>3, PositionParts, PositionNumbers
  <2>2. p = <<at, action>> <=> p[1] = at /\ p[2] = action BY <2>1
  <2>3. Seen(p)' <=> p[1] < at \/ (p[1] = at /\ p[2] < action + 1) BY DEF Seen
  <2> QED BY <1>2, <2>1, <2>2, <2>3 DEF Seen, Before
<1> QED BY <1>1, <1>3

\* Looking at an action keeps the list of what is waited for.
LEMMA ActionPending == TInv /\ PendingInv /\ GlobalAction => PendingInv'
<1> SUFFICES ASSUME TInv, PendingInv, GlobalAction PROVE PendingInv' OBVIOUS
<1> DEFINE here == <<at, action>>
<1>1. /\ phase = "global" /\ dialect = "postgresql" /\ phase' = "global" /\ dialect' = dialect
      /\ at \in DOMAIN accepted /\ action \in DOMAIN accepted[at].alters
      /\ UNCHANGED accepted /\ at' = at /\ action' = action + 1
      /\ pending' = AfterAction(pending, accepted[at], at, action)
      /\ at <= Len(accepted) + 1
  BY DEF GlobalAction, PendingInv, request
<1>2. /\ here \in Positions
      /\ \A p \in Positions : Seen(p)' <=> Seen(p) \/ p = here
      /\ \A p \in Positions : Seen(p) => Before(p, here)
      /\ \A p \in Positions : Before(here, p) => ~Seen(p) /\ p # here
  BY <1>1, SeenNext
<1>3. /\ Adding(here) <=> AddsNotValid(accepted[at], action)
      /\ Validating(here) <=> Validates(accepted[at], action)
      /\ Key(here) = ConstraintKey(accepted[at], action)
      /\ Item(here) = [statement |-> at, action |-> action, key |-> Key(here)]
  BY DEF Adding, Validating, Key, Item
<1>4. ~(Adding(here) /\ Validating(here)) BY <1>3, AddOrValidate
<1>5. \A item : item \in pending <=> \E p \in Positions : Waiting(p) /\ item = Item(p)
  BY <1>1 DEF PendingInv
<1>6. \A p \in Positions : Item(p).key = Key(p) BY DEF Item
<1>7. /\ Positions' = Positions
      /\ \A p : Key(p)' = Key(p) /\ Adding(p)' = Adding(p) /\ Validating(p)' = Validating(p)
                /\ Item(p)' = Item(p)
  BY <1>1, SamePositions
<1> HIDE DEF here
<1>8. \A p \in Positions :
         Waiting(p)' <=> /\ Seen(p)' /\ Adding(p)
                         /\ \A q \in Positions :
                               Seen(q)' /\ Before(p, q) /\ Validating(q) => Key(q) # Key(p)
  <2>1. \A p, q : Before(p, q)' = Before(p, q) BY DEF Before
  <2> QED BY <1>7, <2>1 DEF Waiting
<1>9. \A p \in Positions :
         Waiting(p)' <=> \/ Waiting(p) /\ ~(Validating(here) /\ Key(here) = Key(p))
                         \/ p = here /\ Adding(here)
  <2> TAKE p \in Positions
  <2>1. CASE p = here
    <3>1. ~Seen(here)
      <4>1. ~Before(here, here)
        <5>1. at \in Nat /\ action \in Nat BY DEF TInv
        <5> QED BY <5>1 DEF Before, here
      <4> QED BY <4>1, <1>2
    <3>2. ~Waiting(p) BY <2>1, <3>1 DEF Waiting
    <3>3. \A q \in Positions : Before(p, q) => ~Seen(q)' BY <2>1, <1>2
    <3> QED BY <2>1, <3>2, <3>3, <1>2, <1>8
  <2>2. CASE p # here
    <3>1. Seen(p)' <=> Seen(p) BY <2>2, <1>2
    <3>2. Seen(p) =>
             ((\A q \in Positions : Seen(q)' /\ Before(p, q) /\ Validating(q) => Key(q) # Key(p))
              <=> /\ \A q \in Positions : Seen(q) /\ Before(p, q) /\ Validating(q) => Key(q) # Key(p)
                  /\ Validating(here) => Key(here) # Key(p))
      BY <1>2
    <3> QED BY <2>2, <3>1, <3>2, <1>8 DEF Waiting
  <2> QED BY <2>1, <2>2
<1>10. \A item : item \in pending' <=> \E p \in Positions : Waiting(p)' /\ item = Item(p)
  <2>1. CASE Adding(here)
    <3>1. pending' = pending \cup {Item(here)}
      <4> DEFINE new == [statement |-> at, action |-> action,
                         key |-> ConstraintKey(accepted[at], action)]
      <4>1. AfterAction(pending, accepted[at], at, action) = pending \cup {new}
        <5>1. AddsNotValid(accepted[at], action) /\ ~Validates(accepted[at], action)
          BY <2>1, <1>3, AddOrValidate
        <5> QED BY <5>1, Zenon DEF AfterAction
      <4>2. Item(here) = new BY <1>3
      <4> HIDE DEF new
      <4> QED BY <4>1, <4>2, <1>1
    <3>2. \A p \in Positions : Waiting(p)' <=> Waiting(p) \/ p = here BY <2>1, <1>4, <1>9
    <3> QED BY <3>1, <3>2, <1>2, <1>5
  <2>2. CASE Validating(here)
    <3>1. pending' = {item \in pending : item.key # Key(here)}
      BY <2>2, <1>1, <1>3, <1>4 DEF AfterAction
    <3>2. \A p \in Positions : Waiting(p)' <=> Waiting(p) /\ Key(here) # Key(p)
      BY <2>2, <1>4, <1>9
    <3> QED BY <3>1, <3>2, <1>5, <1>6
  <2>3. CASE ~Adding(here) /\ ~Validating(here)
    <3>1. pending' = pending BY <2>3, <1>1, <1>3 DEF AfterAction
    <3>2. \A p \in Positions : Waiting(p)' <=> Waiting(p) BY <2>3, <1>9
    <3> QED BY <3>1, <3>2, <1>5
  <2> QED BY <2>1, <2>2, <2>3
<1>11. \A k \in 1 .. (action' - 1) : k \in DOMAIN accepted[at].alters
  <2>1. action \in Nat \ {0} BY DEF TInv
  <2>2. \A k \in 1 .. (action - 1) : k \in DOMAIN accepted[at].alters BY <1>1 DEF PendingInv
  <2>3. \A k \in 1 .. (action' - 1) : k = action \/ k \in 1 .. (action - 1) BY <1>1, <2>1
  <2> QED BY <1>1, <2>2, <2>3
<1> QED BY <1>1, <1>7, <1>10, <1>11 DEF PendingInv

\* Leaving a statement, every action of it has been looked at.
LEMMA LeavePending == TInv /\ PendingInv /\ GlobalNext => PendingInv'
<1> SUFFICES ASSUME TInv, PendingInv, GlobalNext PROVE PendingInv' OBVIOUS
<1>1. /\ phase = "global" /\ dialect = "postgresql" /\ phase' = "global" /\ dialect' = dialect
      /\ at \in DOMAIN accepted /\ action \notin DOMAIN accepted[at].alters
      /\ UNCHANGED <<accepted, pending>> /\ at' = at + 1 /\ action' = 1
      /\ \A k \in 1 .. (action - 1) : k \in DOMAIN accepted[at].alters
  BY DEF GlobalNext, PendingInv, request
<1>2. at \in Nat \ {0} /\ action \in Nat \ {0} /\ at \in 1 .. Len(accepted)
      /\ Len(accepted) \in Nat
  BY <1>1 DEF TInv, EvaluationInv
<1>3. \A k \in DOMAIN accepted[at].alters : k \in Nat /\ k < action
  <2>1. PICK n \in Nat : DOMAIN accepted[at].alters = 1 .. n BY <1>1, AcceptedListed
  <2> QED BY <1>1, <1>2, <2>1
<1>4. \A p \in Positions : Seen(p)' <=> Seen(p)
  <2> TAKE p \in Positions
  <2>1. /\ p[1] \in Nat /\ p[2] \in Nat \ {0} /\ p[2] \in DOMAIN accepted[p[1]].alters
    BY <1>1, PositionParts, PositionNumbers
  <2>2. Seen(p)' <=> p[1] < at + 1 \/ (p[1] = at + 1 /\ p[2] < 1) BY <1>1 DEF Seen
  <2>3. p[1] = at => p[2] < action BY <1>3, <2>1
  <2> QED BY <1>2, <2>1, <2>2, <2>3 DEF Seen
<1>5. /\ Positions' = Positions
      /\ \A p : Key(p)' = Key(p) /\ Adding(p)' = Adding(p) /\ Validating(p)' = Validating(p)
                /\ Item(p)' = Item(p)
  BY <1>1, SamePositions
<1>6. \A p \in Positions : Waiting(p)' <=> Waiting(p)
  <2>1. \A p, q : Before(p, q)' = Before(p, q) BY DEF Before
  <2> QED BY <1>4, <1>5, <2>1 DEF Waiting
<1>7. \A k \in 1 .. (action' - 1) : k \in DOMAIN accepted'[at'].alters BY <1>1
<1>8. at' <= Len(accepted') + 1 BY <1>1, <1>2
<1>9. \A item : item \in pending' <=> \E p \in Positions' : Waiting(p)' /\ item = Item(p)'
  BY <1>1, <1>5, <1>6 DEF PendingInv
<1> QED BY <1>1, <1>7, <1>8, <1>9 DEF PendingInv

\* At the end of the script every position has been seen.
LEMMA FinishPending == TInv /\ PendingInv /\ EndGlobal => PendingInv'
<1> SUFFICES ASSUME TInv, PendingInv, EndGlobal PROVE PendingInv' OBVIOUS
<1>1. /\ phase = "global" /\ dialect = "postgresql" /\ phase' = "aggregate" /\ dialect' = dialect
      /\ at \notin DOMAIN accepted /\ UNCHANGED <<accepted, pending>>
  BY DEF EndGlobal, PendingInv, request
<1>2. at \in Nat \ {0} /\ Len(accepted) \in Nat /\ DOMAIN accepted = 1 .. Len(accepted)
  BY DEF TInv, EvaluationInv
<1>3. \A p \in Positions : Seen(p)
  <2> TAKE p \in Positions
  <2>1. p[1] \in 1 .. Len(accepted) BY <1>2, PositionParts
  <2>2. at > Len(accepted) BY <1>1, <1>2
  <2> QED BY <1>2, <2>1, <2>2 DEF Seen
<1>4. \A p \in Positions : Waiting(p) <=> Unvalidated(p)
  BY <1>3 DEF Waiting, Unvalidated, ValidatedAfter, Adding, Validating, Key
<1>5. /\ Positions' = Positions /\ \A p : Item(p)' = Item(p)
      /\ \A p : Unvalidated(p)' = Unvalidated(p)
  BY <1>1, SamePositions
<1>6. \A item : item \in pending' <=> \E p \in Positions' : Unvalidated(p)' /\ item = Item(p)'
  BY <1>1, <1>4, <1>5 DEF PendingInv
<1> QED BY <1>1, <1>6 DEF PendingInv

LEMMA NextPending == TInv /\ PendingInv /\ [Next]_vars => PendingInv'
<1> SUFFICES ASSUME TInv, PendingInv, [Next]_vars PROVE PendingInv' OBVIOUS
<1>1. CASE ExtractNext \/ RegisterRules \/ EvaluateNext
  <2>1. phase' \in {"extract", "evaluate"} /\ phase \in {"extract", "evaluate"}
    BY <1>1 DEF ExtractNext, RegisterRules, EvaluateNext
  <2> QED BY <2>1 DEF PendingInv
<1>2. CASE StartGlobal BY <1>2, StartPending
<1>3. CASE GlobalAction BY <1>3, ActionPending
<1>4. CASE GlobalNext BY <1>4, LeavePending
<1>5. CASE EndGlobal BY <1>5, FinishPending
<1>6. CASE AggregateFindings \/ Fail \/ Cancel \/ UNCHANGED vars
  <2>1. /\ UNCHANGED <<dialect, file, accepted, pending, at, action>>
        /\ phase' = "global" => phase = "global"
        /\ phase' \in {"aggregate", "done"} => phase \in {"aggregate", "done"}
    BY <1>6 DEF AggregateFindings, Fail, Cancel, vars, request
  <2>2. Stands(NotValidRule)' = Stands(NotValidRule) BY <2>1 DEF Stands
  <2>3. /\ Positions' = Positions /\ \A p : Item(p)' = Item(p)
        /\ \A p : Unvalidated(p)' = Unvalidated(p)
    BY <2>1, SamePositions
  <2>4. \A p : Waiting(p)' = Waiting(p)
    BY <2>1 DEF Waiting, Seen, Before, Positions, Key, Adding, Validating
  <2> QED BY <2>1, <2>2, <2>3, <2>4 DEF PendingInv
<1> QED BY <1>1, <1>2, <1>3, <1>4, <1>5, <1>6 DEF Next

\* For a script of any length: the rule reports exactly the NOT VALID additions that no
\* later action of the script validates, across statements, within one, and whatever is
\* refused in between (postgresql_not_valid_constraint_rules.go:50-139).
THEOREM NotValidSound == Spec => []NotValidReported
<1>1. PendingInv => NotValidReported
  <2> SUFFICES ASSUME PendingInv, phase \in {"aggregate", "done"}, dialect = "postgresql",
                      Stands(NotValidRule)
               PROVE  {<<item.statement, item.action>> : item \in pending} =
                        {p \in Positions : AddsNotValid(accepted[p[1]], p[2]) /\ ~ValidatedAfter(p)}
    BY DEF NotValidReported
  <2>1. \A item : item \in pending <=> \E p \in Positions : Unvalidated(p) /\ item = Item(p)
    BY DEF PendingInv
  <2>2. \A p \in Positions : <<Item(p).statement, Item(p).action>> = p
    BY PositionParts DEF Item
  <2>3. \A p \in Positions :
           Unvalidated(p) <=> AddsNotValid(accepted[p[1]], p[2]) /\ ~ValidatedAfter(p)
    BY DEF Unvalidated, Adding
  <2> QED BY <2>1, <2>2, <2>3
<1>2. Init => TInv /\ PendingInv BY InitTyped, InitPending
<1>3. TInv /\ PendingInv /\ [Next]_vars => (TInv /\ PendingInv)' BY NextTyped, NextPending
<1> QED BY <1>1, <1>2, <1>3, PTL DEF Spec

-----------------------------------------------------------------------------
(* The report of a completed audit.                                        *)

\* Each accepted statement is one of the script's.
CoveredInv ==
  phase \in Registered =>
    \A i \in DOMAIN accepted : \E p \in (1 .. Evaluated) \ unsupported : Number(p) = i

LEMMA EvaluateCovered == TInv /\ NumberInv /\ CoveredInv /\ EvaluateNext => CoveredInv'
<1> SUFFICES ASSUME TInv, NumberInv, CoveredInv, EvaluateNext,
                    NEW i \in DOMAIN accepted'
             PROVE  \E p \in (1 .. Evaluated') \ unsupported' : Number(p)' = i
  BY DEF CoveredInv
<1> DEFINE n == at - 1  u == unsupported  m == Len(accepted)
<1>1. /\ n \in Nat /\ Evaluated = n /\ Evaluated' = n + 1 /\ n + 1 = at
      /\ phase \in Registered
  BY DEF TInv, ExtractionInv, EvaluateNext, Evaluated, Registered
<1>2. /\ m = Rest(n, u) /\ n + 1 \notin u
      /\ \A a \in 1 .. m : \E p \in (1 .. n) \ u : Rest(p, u) = a
      /\ DOMAIN accepted = 1 .. m /\ m \in Nat /\ accepted \in Seq(Extracts)
  <2>1. DOMAIN accepted = 1 .. m /\ m \in Nat /\ accepted \in Seq(Extracts)
    BY DEF TInv, EvaluationInv
  <2>2. m = Rest(n, u) /\ n + 1 \notin u
    BY <1>1, NumberRest DEF NumberInv
  <2>3. \A a \in 1 .. m : \E p \in (1 .. n) \ u : Rest(p, u) = a
    BY <1>1, <2>1, NumberRest DEF CoveredInv
  <2> QED BY <2>1, <2>2, <2>3
<1>3. \A p : Number(p)' = Rest(p, u') BY NumberRest DEF Number, Rest
<1>4. CASE statements[at] = Unsupported
  <2>1. u' = u \cup {n + 1} /\ accepted' = accepted BY <1>1, <1>4 DEF EvaluateNext
  <2>2. PICK p \in (1 .. n) \ u : Rest(p, u) = i BY <1>2, <2>1
  <2> HIDE DEF n, u, m
  <2>3. Rest(p, u') = Rest(p, u) BY <1>1, <2>1, <2>2, RestAside
  <2>4. p \in (1 .. (n + 1)) \ u' BY <1>1, <2>1, <2>2
  <2> QED BY <1>1, <1>3, <2>2, <2>3, <2>4 DEF u
<1>5. CASE statements[at] # Unsupported
  <2>1. u' = u /\ accepted' = Append(accepted, statements[at]) /\ statements[at] \in Extracts
    BY <1>5 DEF EvaluateNext, TInv, ExtractionInv
  <2> HIDE DEF n, u
  <2>2. DOMAIN accepted' = 1 .. (m + 1) BY <1>2, <2>1
  <2> HIDE DEF m
  <2>3. CASE i \in 1 .. m
    <3>1. PICK p \in (1 .. n) \ u : Rest(p, u) = i BY <1>2, <2>3
    <3>2. p \in (1 .. (n + 1)) \ u' BY <1>1, <2>1, <3>1
    <3> QED BY <1>1, <1>3, <2>1, <3>1, <3>2 DEF u
  <2>4. CASE i = m + 1
    <3>1. Rest(n + 1, u) = m + 1 BY <1>1, <1>2, RestNext
    <3>2. n + 1 \in (1 .. (n + 1)) \ u' BY <1>1, <1>2, <2>1
    <3> QED BY <1>1, <1>3, <2>1, <2>4, <3>1, <3>2 DEF u
  <2>5. i \in 1 .. m \/ i = m + 1 BY <1>2, <2>2
  <2> QED BY <2>3, <2>4, <2>5
<1> QED BY <1>4, <1>5

LEMMA NextCovered == TInv /\ NumberInv /\ CoveredInv /\ [Next]_vars => CoveredInv'
<1> SUFFICES ASSUME TInv, NumberInv, CoveredInv, [Next]_vars PROVE CoveredInv' OBVIOUS
<1>1. CASE ExtractNext BY <1>1 DEF ExtractNext, CoveredInv, Registered
<1>2. CASE RegisterRules
  BY <1>2 DEF RegisterRules, TInv, EvaluationInv, CoveredInv
<1>3. CASE EvaluateNext BY <1>3, EvaluateCovered
<1>4. CASE StartGlobal
  <2>1. Evaluated' = Len(statements) /\ UNCHANGED <<accepted, unsupported>>
    BY <1>4 DEF StartGlobal, Evaluated
  <2>2. Evaluated' = Evaluated BY <1>4, <2>1, AllEvaluated DEF StartGlobal
  <2> QED BY <1>4, <2>1, <2>2 DEF StartGlobal, CoveredInv, Number, Registered
<1>5. CASE GlobalAction \/ GlobalNext \/ EndGlobal \/ AggregateFindings \/ Fail \/ Cancel
           \/ UNCHANGED vars
  <2>1. UNCHANGED <<statements, accepted, unsupported>>
        /\ (phase' \in Registered => Evaluated' = Evaluated /\ phase \in Registered)
    BY <1>5 DEF GlobalAction, GlobalNext, EndGlobal, AggregateFindings, Fail, Cancel, vars,
                Evaluated, Registered
  <2> QED BY <2>1 DEF CoveredInv, Number
<1> QED BY <1>1, <1>2, <1>3, <1>4, <1>5 DEF Next

LEMMA Covered == Spec => [](TInv /\ NumberInv /\ CoveredInv)
<1>1. Init => CoveredInv BY DEF Init, CoveredInv, Registered
<1>2. TInv /\ NumberInv /\ CoveredInv /\ [Next]_vars => CoveredInv' BY NextCovered
<1> QED BY <1>1, <1>2, Numbered, PTL DEF Spec

\* The report, from the numbers.
LEMMA ReportOfScript == TInv /\ NumberInv /\ CoveredInv => ScriptReported
<1> SUFFICES ASSUME TInv, NumberInv, CoveredInv, phase = "done"
             PROVE  /\ unsupported = Refused
                    /\ DOMAIN accepted = {Number(p) : p \in DOMAIN script \ Refused}
                    /\ \A p \in DOMAIN script \ Refused :
                          /\ accepted[Number(p)] = Extracted(dialect, script[p])
                          /\ results[Number(p)] = Due(p)
  BY DEF ScriptReported
<1>1. /\ DOMAIN script = 1 .. Len(script) /\ Len(script) \in Nat
      /\ Len(statements) = Len(script) /\ DOMAIN statements = 1 .. Len(statements)
      /\ \A i \in DOMAIN statements : statements[i] = Extracted(dialect, script[i])
  BY RequestTypes DEF TInv, ExtractionInv, Registered
<1>2. Evaluated = Len(statements) /\ 1 .. Evaluated = DOMAIN script BY <1>1 DEF Evaluated
<1>3. unsupported = Refused
  BY <1>1, <1>2 DEF NumberInv, Registered, Refused
<1>4. DOMAIN accepted = {Number(p) : p \in DOMAIN script \ Refused}
  <2>1. \A p \in DOMAIN script \ Refused : Number(p) \in DOMAIN accepted
    BY <1>2, <1>3 DEF NumberInv, Registered
  <2>2. \A i \in DOMAIN accepted : \E p \in DOMAIN script \ Refused : Number(p) = i
    BY <1>2, <1>3 DEF CoveredInv, Registered
  <2> QED BY <2>1, <2>2
<1>5. ASSUME NEW p \in DOMAIN script \ Refused
      PROVE  accepted[Number(p)] = Extracted(dialect, script[p]) /\ results[Number(p)] = Due(p)
  BY <1>3, NumberedResult DEF Judged, Due
<1> QED BY <1>3, <1>4, <1>5

\* A completed audit is a function of the script and the policy, whatever its length:
\* what is set aside are exactly the statements the extractor refuses, the accepted ones
\* are the others in their order, and each has the findings due on it, none of another
\* statement's and none lost (evaluate.go:27-84).
THEOREM ReportSound == Spec => []ScriptReported
BY Covered, ReportOfScript, PTL

-----------------------------------------------------------------------------
(* The verdict, and the way to it.                                         *)

\* Nothing changes what the verdict was computed from.
VerdictInv == phase = "done" => verdict = Verdict

LEMMA NextVerdict == VerdictInv /\ [Next]_vars => VerdictInv'
<1> SUFFICES ASSUME VerdictInv, [Next]_vars, phase' = "done" PROVE verdict' = Verdict'
  BY DEF VerdictInv
<1>1. AggregateFindings \/ UNCHANGED vars
  BY DEF Next, ExtractNext, RegisterRules, EvaluateNext, StartGlobal, GlobalAction, GlobalNext,
         EndGlobal, Fail, Cancel
<1>2. UNCHANGED <<dialect, file, accepted, unsupported, results, pending>> /\ verdict' = Verdict
  BY <1>1 DEF AggregateFindings, request, vars, VerdictInv
<1>3. FoundLevels' = FoundLevels
  BY <1>2 DEF FoundLevels, StatementFindings, GlobalLevel, MergeFindings, RepeatedAlters, Stands
<1> QED BY <1>2, <1>3 DEF Verdict

\* The findings there are, are the findings due.
LEMMA LevelsDue ==
  ASSUME TInv, ScriptReported, phase = "done"
  PROVE  FoundLevels = DueLevels
<1> DEFINE kept == DOMAIN script \ Refused
<1>1. DOMAIN accepted = {Number(p) : p \in kept} /\ \A p \in kept : results[Number(p)] = Due(p)
  BY DEF ScriptReported
<1>2. DOMAIN results = DOMAIN accepted BY DEF TInv, EvaluationInv
<1>3. {results[i] : i \in DOMAIN results} = {Due(p) : p \in kept}
  <2> HIDE DEF kept
  <2> QED BY <1>1, <1>2
<1>4. StatementFindings = UNION {Due(p) : p \in kept} BY <1>3 DEF StatementFindings
<1> QED BY <1>4 DEF FoundLevels, DueLevels

\* The verdict of a completed audit is due to the script and the policy: a blocker on
\* any statement rejects it, and it passes only when no statement was refused and
\* nothing due on any of them, or on all of them together, is a blocker or a warning
\* (report/result.go:134-141, service.go:166-171).
THEOREM VerdictSound == Spec => []VerdictDue
<1>1. TInv /\ ScriptReported /\ VerdictInv => VerdictDue
  <2> SUFFICES ASSUME TInv, ScriptReported, VerdictInv, phase = "done"
               PROVE  /\ verdict = "reject" <=> "blocker" \in DueLevels
                      /\ verdict = "pass" <=> Refused = {} /\ {"blocker", "warning"} \cap DueLevels = {}
                      /\ verdict # "none"
    BY DEF VerdictDue
  <2>1. FoundLevels = DueLevels BY LevelsDue
  <2>2. unsupported = Refused BY DEF ScriptReported
  <2>3. verdict = IF "blocker" \in DueLevels THEN "reject"
                  ELSE IF "warning" \in DueLevels \/ Refused # {} THEN "review"
                  ELSE "pass"
    BY <2>1, <2>2 DEF VerdictInv, Verdict
  <2>4. {"blocker", "warning"} \cap DueLevels = {}
           <=> "blocker" \notin DueLevels /\ "warning" \notin DueLevels
    OBVIOUS
  <2> QED BY <2>3, <2>4
<1>2. Init => VerdictInv BY DEF Init, VerdictInv
<1> QED BY <1>1, <1>2, NextVerdict, ReportSound, Numbered, PTL DEF Spec

LEMMA StepsOnward ==
  TInv /\ [Next]_vars =>
    [Onwards \/ (~cancelled /\ cancelled' /\ UNCHANGED <<phase, at, action>>)]_vars
<1> SUFFICES ASSUME TInv, Next
             PROVE  Onwards \/ (~cancelled /\ cancelled' /\ UNCHANGED <<phase, at, action>>)
  OBVIOUS
<1>1. at \in Nat /\ action \in Nat BY DEF TInv
<1>2. CASE ExtractNext \/ EvaluateNext \/ GlobalNext
  <2>1. phase' = phase /\ at' = at + 1 BY <1>2 DEF ExtractNext, EvaluateNext, GlobalNext
  <2> QED BY <1>1, <2>1 DEF Onwards
<1>3. CASE GlobalAction BY <1>1, <1>3 DEF GlobalAction, Onwards
<1>4. CASE RegisterRules \/ StartGlobal \/ EndGlobal \/ AggregateFindings \/ Fail
  <2>1. \/ phase = "extract" /\ phase' = "evaluate"
        \/ phase = "evaluate" /\ phase' \in {"global", "aggregate"}
        \/ phase = "global" /\ phase' = "aggregate"
        \/ phase = "aggregate" /\ phase' = "done"
        \/ phase \in {"extract", "evaluate", "global"} /\ phase' = "failed"
    BY <1>4 DEF RegisterRules, StartGlobal, EndGlobal, AggregateFindings, Fail
  <2>2. /\ Stage["extract"] = 0 /\ Stage["evaluate"] = 1 /\ Stage["global"] = 2
        /\ Stage["aggregate"] = 3 /\ Stage["done"] = 4 /\ Stage["failed"] = 4
    BY DEF Stage
  <2> HIDE DEF Stage
  <2>3. Stage[phase] < Stage[phase'] BY <2>1, <2>2
  <2> QED BY <2>3 DEF Onwards
<1>5. CASE Cancel BY <1>5 DEF Cancel
<1> QED BY <1>2, <1>3, <1>4, <1>5 DEF Next

\* No more is accepted than the script holds.
LEMMA AcceptedWithin ==
  TInv /\ NumberInv /\ Len(accepted) <= Len(script) /\ [Next]_vars
    => Len(accepted') <= Len(script')
<1> SUFFICES ASSUME TInv, NumberInv, Len(accepted) <= Len(script), [Next]_vars
             PROVE  Len(accepted') <= Len(script')
  OBVIOUS
<1>1. CASE EvaluateNext
  <2>1. TInv' /\ NumberInv' BY <1>1, NextTyped, NextNumbered
  <2>2. /\ phase' \in Registered /\ Evaluated' \in Nat /\ Evaluated' <= Len(script')
        /\ Len(accepted') = Rest(Evaluated', unsupported')
    <3>1. phase' = "evaluate" BY <1>1 DEF EvaluateNext
    <3>2. Len(statements') = Len(script') /\ at' \in Nat \ {0}
      BY <2>1, <3>1 DEF TInv, ExtractionInv, Registered
    <3>3. Evaluated' <= Len(statements') /\ Len(accepted') = Number(Evaluated)'
      BY <2>1, <3>1 DEF NumberInv, Registered
    <3>4. Evaluated' = at' - 1 BY <3>1 DEF Evaluated
    <3>5. Len(accepted') = Rest(Evaluated', unsupported') BY <3>3 DEF Number, Rest
    <3>6. at' - 1 \in Nat
      <4>1. at' = at + 1 /\ at \in Nat BY <1>1 DEF EvaluateNext, TInv
      <4> QED BY <4>1
    <3>7. Evaluated' \in Nat BY <3>4, <3>6, Zenon
    <3>8. Evaluated' <= Len(script') BY <3>2, <3>3, Zenon
    <3>9. phase' \in Registered BY <3>1 DEF Registered
    <3> QED BY <3>5, <3>7, <3>8, <3>9, Zenon
  <2>3. Rest(Evaluated', unsupported') <= Evaluated'
    <3> DEFINE e == Evaluated'
    <3>1. IsFiniteSet(1 .. e) /\ Cardinality(1 .. e) = e BY <2>2, FS_Interval
    <3>2. (1 .. e) \ unsupported' \subseteq 1 .. e OBVIOUS
    <3> QED BY <3>1, <3>2, FS_Subset DEF Rest
  <2>4. Len(script') \in Nat /\ Rest(Evaluated', unsupported') \in Nat
    <3>1. script' = script BY <1>1 DEF EvaluateNext, request
    <3>2. Len(script') \in Nat BY <3>1, RequestTypes DEF TInv
    <3> QED BY <2>2, <3>2, RestNat
  <2> QED BY <2>2, <2>3, <2>4
<1>2. CASE ~EvaluateNext
  <2>1. UNCHANGED <<accepted, script>>
    BY <1>2 DEF Next, ExtractNext, RegisterRules, StartGlobal, GlobalAction, GlobalNext,
                EndGlobal, AggregateFindings, Fail, Cancel, request, vars
  <2> QED BY <2>1
<1> QED BY <1>1, <1>2

\* The places the audit is at, from what is known of each stage.
LEMMA PlacesWithin ==
  TInv /\ NumberInv /\ PendingInv /\ Len(accepted) <= Len(script) => WithinScript
<1> SUFFICES ASSUME TInv, NumberInv, PendingInv, Len(accepted) <= Len(script)
             PROVE  WithinScript
  OBVIOUS
<1>1. /\ at \in Nat \ {0} /\ Len(statements) <= Len(script) /\ Len(statements) \in Nat
      /\ Len(script) \in Nat /\ Len(accepted) \in Nat
  BY RequestTypes DEF TInv, ExtractionInv, EvaluationInv
<1>2. phase = "extract" => at \in 1 .. (Len(script) + 1)
  BY <1>1 DEF TInv, ExtractionInv
<1>3. phase = "evaluate" => at \in 1 .. (Len(statements) + 1)
  BY <1>1 DEF NumberInv, Evaluated, Registered
<1>4. phase = "global" =>
        /\ at \in 1 .. (Len(accepted) + 1)
        /\ at \in DOMAIN accepted => \A k \in 1 .. (action - 1) : k \in DOMAIN accepted[at].alters
  BY <1>1 DEF PendingInv
<1> QED BY <1>1, <1>2, <1>3, <1>4 DEF WithinScript

\* An audit goes through its script once: every step but the caller's goes on, to the
\* next statement, action or stage, and the places it goes on to are those of the
\* script.  The caller can only cut it short, once.  So an audit without metadata takes
\* a number of steps the script bounds, whatever the statements are.
THEOREM ScriptBounded == Spec => []WithinScript /\ ScriptAdvances
<1> DEFINE Small == Len(accepted) <= Len(script)
<1>1. Init => TInv /\ NumberInv /\ PendingInv /\ Small
  <2>1. Init => Small
    <3> SUFFICES ASSUME Init PROVE Small OBVIOUS
    <3>1. accepted = <<>> /\ TInv BY InitTyped DEF Init
    <3>2. Len(script) \in Nat BY <3>1, RequestTypes DEF TInv
    <3> QED BY <3>1, <3>2
  <2> QED BY <2>1, InitTyped, InitNumbered, InitPending
<1>2. TInv /\ NumberInv /\ PendingInv /\ Small /\ [Next]_vars
        => (TInv /\ NumberInv /\ PendingInv /\ Small)'
  BY NextTyped, NextNumbered, NextPending, AcceptedWithin
<1>3. TInv /\ NumberInv /\ PendingInv /\ Small => WithinScript BY PlacesWithin
<1> HIDE DEF Small
<1> QED BY <1>1, <1>2, <1>3, StepsOnward, PTL DEF Spec, ScriptAdvances

-----------------------------------------------------------------------------
(* Subscriptions that are disabled.                                        *)

\* The settings the default policy has with their parameter off.
OffByDefault ==
  {"ddl.constraint.foreign_key.name.prefix.require",
   "ddl.constraint.foreign_key.name.suffix.require",
   "ddl.constraint.foreign_key.name.contains.require",
   "ddl.alter.drop_column.forbid", "ddl.alter.drop_index.forbid",
   "ddl.alter.modify_column.forbid", "ddl.alter.merge.tidb.require"}

\* Settings that are enabled, and on unless they are among those.
Standing(settings) ==
  \A s \in settings : s.enabled /\ (s.switch = "on" \/ s.id \in OffByDefault)

LEMMA StandingSets ==
  /\ \A level, ids : Standing(Default(level, ids))
  /\ \A level : \A ids \in SUBSET OffByDefault : Standing(SwitchedOff(level, ids))
  /\ \A a, b : Standing(a) /\ Standing(b) => Standing(a \cup b)
<1>1. \A level, ids : Standing(Default(level, ids)) BY DEF Standing, Default, SettingOf
<1>2. \A level : \A ids \in SUBSET OffByDefault : Standing(SwitchedOff(level, ids))
  <2> HIDE DEF OffByDefault
  <2> QED BY DEF Standing, SwitchedOff, SettingOf
<1>3. \A a, b : Standing(a) /\ Standing(b) => Standing(a \cup b) BY DEF Standing
<1> QED BY <1>1, <1>2, <1>3

\* The sets of settings the default policy switches off are among them.
LEMMA OffSets ==
  /\ {"ddl.constraint.foreign_key.name.prefix.require",
      "ddl.constraint.foreign_key.name.suffix.require",
      "ddl.constraint.foreign_key.name.contains.require"} \in SUBSET OffByDefault
  /\ {"ddl.alter.drop_column.forbid", "ddl.alter.drop_index.forbid"} \in SUBSET OffByDefault
  /\ {"ddl.alter.modify_column.forbid"} \in SUBSET OffByDefault
  /\ {"ddl.alter.merge.tidb.require"} \in SUBSET OffByDefault
BY DEF OffByDefault

\* The default policy enables all it has settings for.
LEMMA DefaultsStand == Standing(DefaultSettings)
<1>1. Standing(ForeignKeyNamingDefaults) BY StandingSets, OffSets DEF ForeignKeyNamingDefaults
<1>2. Standing(TableDefaults) BY StandingSets, OffSets DEF TableDefaults
<1>3. Standing(LifecycleDefaults) BY StandingSets, OffSets DEF LifecycleDefaults
<1>4. Standing(AlterDefaults) BY StandingSets, OffSets DEF AlterDefaults
<1>5. Standing(ColumnActionDefaults) BY StandingSets, OffSets DEF ColumnActionDefaults
<1>6. Standing(ExplicitChangeDefaults) BY StandingSets, OffSets DEF ExplicitChangeDefaults
<1>7. Standing(PgMigrationDefaults) BY StandingSets, OffSets DEF PgMigrationDefaults
<1>8. Standing(PgTableDefaults) BY StandingSets, OffSets DEF PgTableDefaults
<1>9. Standing(PgObjectDefaults) BY StandingSets, OffSets DEF PgObjectDefaults
<1>10. Standing(PgTypeDefaults) BY StandingSets, OffSets DEF PgTypeDefaults
<1>11. Standing(PgExtensionDefaults) BY StandingSets, OffSets DEF PgExtensionDefaults
<1>12. Standing(PgViewDefaults) BY StandingSets, OffSets DEF PgViewDefaults
<1>13. Standing(PgForeignDefaults) BY StandingSets, OffSets DEF PgForeignDefaults
<1>14. Standing(PgSemanticDefaults) BY StandingSets, OffSets DEF PgSemanticDefaults
<1>15. Standing(PgRelationshipDefaults) BY StandingSets, OffSets DEF PgRelationshipDefaults
<1> QED
  BY <1>1, <1>2, <1>3, <1>4, <1>5, <1>6, <1>7, <1>8,
     <1>9, <1>10, <1>11, <1>12, <1>13, <1>14, <1>15 DEF DefaultSettings, Standing

DisableWarning ==
  On("ddl.pg.alter_subscription.disable.warn", "warning", "alter_subscription",
     {"action=disable"})

LEMMA DisableWarningRow ==
  /\ DisableWarning \in StatementRules
  /\ DisableWarning.id = "ddl.pg.alter_subscription.disable.warn"
  /\ DisableWarning.dialects = {"postgresql"} /\ DisableWarning.scope = "statement"
  /\ DisableWarning.ops = {"alter_subscription"} /\ DisableWarning.type = ""
  /\ DisableWarning.all = {"action=disable"}
  /\ DisableWarning.some = {} /\ DisableWarning.none = {}
<1>1. DisableWarning \in ReplicationRules BY DEF DisableWarning, ReplicationRules
<1>2. DisableWarning \in StatementRules BY <1>1 DEF StatementRules, PgStatementRules
<1> QED BY <1>2 DEF DisableWarning, On, StatementRule

\* The default policy loads the warning.
LEMMA DisableWarningLoaded == DisableWarning \in Loaded({})
<1> DEFINE id == "ddl.pg.alter_subscription.disable.warn"
<1>1. \E s \in DefaultSettings : s.id = id
  <2>1. SettingOf(id, TRUE, "warning", "on") \in PgViewDefaults BY DEF PgViewDefaults, Default
  <2>2. SettingOf(id, TRUE, "warning", "on") \in DefaultSettings BY <2>1 DEF DefaultSettings
  <2>3. SettingOf(id, TRUE, "warning", "on").id = id BY DEF SettingOf
  <2> QED BY <2>2, <2>3
<1>2. id \notin OffByDefault BY DEF OffByDefault
<1>3. ~IsNamingRule(id)
  <2>1. ASSUME NEW r \in ForeignKeyNamingRules PROVE r.id \in OffByDefault
    <3>1. PICK n \in {"ddl.constraint.foreign_key.name.prefix.require",
                      "ddl.constraint.foreign_key.name.suffix.require",
                      "ddl.constraint.foreign_key.name.contains.require"} :
               r = ForeignKeyRule(n, "warning", Dialects, "foreign key names")
      BY <2>1 DEF ForeignKeyNamingRules
    <3>2. r.id = n BY <3>1 DEF ForeignKeyRule, AlterRule
    <3> QED BY <3>1, <3>2 DEF OffByDefault
  <2> QED BY <1>2, <2>1 DEF IsNamingRule
<1> HIDE DEF id
<1>4. Setting({}, id) \in DefaultSettings /\ Setting({}, id).id = id
  <2>1. id \in DOMAIN DefaultPolicy BY <1>1 DEF DefaultPolicy
  <2>2. Setting({}, id) = DefaultPolicy[id] BY <2>1 DEF Setting
  <2>3. DefaultPolicy[id] = CHOOSE s \in DefaultSettings : s.id = id BY <2>1 DEF DefaultPolicy
  <2> QED BY <1>1, <2>2, <2>3
<1>5. Setting({}, id).enabled /\ Setting({}, id).switch = "on"
  BY <1>2, <1>4, DefaultsStand DEF Standing
<1>6. Registers({}, id) BY <1>3, <1>5 DEF Registers, SuppressesForeignKeyNaming
<1>7. SwitchedOn(Setting({}, id)) BY <1>5 DEF SwitchedOn
<1>8. DisableWarning.id = id BY DisableWarningRow DEF id
<1> QED BY <1>6, <1>7, <1>8, DisableWarningRow DEF Loaded

\* What the extractor makes of it, when the word stands after a blank.
LEMMA DisableExtracted ==
  ASSUME NEW node, node.node = "AlterSubscriptionStmt",
         {"disable", "after_blank"} \subseteq node.flags
  PROVE  Extract(node) = Object("alter_subscription", "subscription", {"action=disable"})
<1>1. Extract(node) = AlterSubscriptionStmt(node) BY DEF Extract
<1> QED BY <1>1 DEF AlterSubscriptionStmt, When

\* DisablingWarned, which a run refutes, holds of scripts in which DISABLE stands after a
\* blank: another space before it is the only way past the warning
\* (docs/reference/rules.md:877; extractor_ddl_replication.go:83).
THEOREM DisablingSound ==
  ASSUME \A r \in Requests : \A i \in DOMAIN r.nodes :
            r.nodes[i].node = "AlterSubscriptionStmt" =>
              /\ r.dialect = "postgresql"
              /\ "disable" \in r.nodes[i].flags => "after_blank" \in r.nodes[i].flags
  PROVE  Spec => []DisablingWarned
<1>1. TInv /\ ScriptReported => DisablingWarned
  <2> SUFFICES ASSUME TInv, ScriptReported, phase = "done", file = {},
                      NEW p \in DOMAIN script \ unsupported,
                      script[p].node = "AlterSubscriptionStmt", "disable" \in script[p].flags
               PROVE  \E f \in results[Number(p)] : f.id = "ddl.pg.alter_subscription.disable.warn"
    BY DEF DisablingWarned
  <2> DEFINE ddl == Object("alter_subscription", "subscription", {"action=disable"})
  <2>1. dialect = "postgresql" /\ "after_blank" \in script[p].flags
    <3>1. PICK r \in Requests : dialect = r.dialect /\ script = r.nodes BY DEF TInv, Asked
    <3> QED BY <3>1
  <2>2. Extracted(dialect, script[p]) = ddl BY <2>1, DisableExtracted DEF Extracted
  <2>3. results[Number(p)] = FoundBy(Loaded({}), {}, dialect, ddl)
    BY <2>2 DEF ScriptReported, Due
  <2>4. ddl.op = "alter_subscription" /\ ddl.facts = {"action=disable"} BY DEF Object, Ddl
  <2> HIDE DEF ddl
  <2>5. MatchingStatement(DisableWarning, ddl)
    <3>1. Satisfies(ddl.facts, DisableWarning) BY <2>4, DisableWarningRow DEF Satisfies
    <3> QED BY <2>4, <3>1, DisableWarningRow DEF MatchingStatement
  <2>6. Fires(DisableWarning, dialect, ddl) = {0}
    BY <2>1, <2>5, DisableWarningRow DEF Fires
  <2>7. Finding({}, DisableWarning, 0) \in results[Number(p)]
    BY <2>3, <2>6, DisableWarningLoaded DEF FoundBy
  <2>8. Finding({}, DisableWarning, 0).id = "ddl.pg.alter_subscription.disable.warn"
    BY DisableWarningRow DEF Finding
  <2> QED BY <2>7, <2>8
<1> QED BY <1>1, ReportSound, Numbered, PTL

=============================================================================
