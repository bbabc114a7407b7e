--------------------------- MODULE EffectProof_proofs ---------------------------
(***************************************************************************)
(* Proofs about EffectProof, for any number of candidates, any catalogs,   *)
(* search paths and manifest, and any amount of DDL and drift.             *)
(***************************************************************************)
EXTENDS EffectProof, TLAPS, WellFoundedInduction

Looking == pc \in {"types", "identities", "live2", "commit"}

\* A captured context is a state the session was in while this proof ran.
Witnessed(ctx) ==
  ctx.bound => /\ ctx.ident \in Idents
               /\ \E s \in sessions : s.ident = ctx.ident /\ s.path = ctx.path

ContextInv ==
  /\ session \in sessions /\ catalog \in versions
  /\ Witnessed(initialCtx) /\ Witnessed(live1) /\ Witnessed(finalCtx)
  /\ (Looking \/ (pc = "decide" /\ finalCtx.bound)) =>
       /\ ResolutionContextSessionCompatible(initialCtx, live1)
       /\ snapshot \in versions

\* Nothing is read, and nothing returned, before its step.
PhaseInv ==
  /\ pc = "begin" => ~initialCtx.bound /\ ~live1.bound
  /\ pc \in {"begin", "beginTx", "live1"} => types = NoTypes
  /\ pc = "types" => \A o \in Candidates : o >= next => types[o] = NoType
  /\ pc \in {"begin", "beginTx", "live1", "types"} => items = AllUnavail
  /\ pc \in {"begin", "beginTx", "live1", "types", "identities", "live2"} => ~finalCtx.bound
  /\ inTx <=> (Looking \/ pc = "live1")
  /\ decision # "none" <=> pc = "done"

TypesInv ==
  \A o \in Candidates :
    types[o] # NoType => UsesColumnType(cands[o]) /\ types[o] = snapshot.column[o]

\* The argument type candidate o was looked up with.
LookedUp(o) == IF UsesColumnType(cands[o]) THEN types[o] ELSE NoArgs

\* A resolved item is what its lookup found in the snapshot.
Grounded(o) ==
  LET c == cands[o]
      f == items[o].fact
  IN  /\ f.pin = live1.ident.pin
      /\ f.id.kind = c.kind /\ f.id.sym = c.sym
      /\ f.id.ns \in Namespaces /\ f.id.arg \in ArgTypes
      /\ f.id = [kind |-> c.kind, sym |-> c.sym, ns |-> f.id.ns, arg |-> f.id.arg,
                 body |-> snapshot.routine[<<c.sym, f.id.ns, f.id.arg>>]]
      /\ IF c.kind = "count"
         THEN /\ f.id.ns = PgCatalog /\ f.id.arg = Poly
              /\ \E s \in sessions : CountVisible(snapshot, c, s.path)
         ELSE /\ LookedUp(o) # NoType
              /\ Matches(snapshot, c, live1.path, LookedUp(o)) = {<<f.id.ns, f.id.arg>>}

ItemsInv == \A o \in Candidates : IsResolved(items[o]) => Grounded(o)

\* What the third capture leaves is under the session of the first.
GateInv ==
  (pc \in {"commit", "decide"}) =>
    \A o \in Candidates : IsResolved(items[o]) =>
      /\ ResolutionContextSessionCompatible(live1, finalCtx)
      /\ ExplicitlyQualified(cands[o]) \/ finalCtx.path = live1.path

FaultInv ==
  faulted =>
    \/ pc = "done" /\ decision # "allProven"
    \/ pc \in {"commit", "decide"} /\ ~finalCtx.bound
    \/ /\ pc \in {"types", "identities"}
       /\ \E o \in Candidates : /\ UsesColumnType(cands[o]) /\ types[o] = NoType
                                /\ o < next \/ pc = "identities"
    \/ /\ pc = "identities"
       /\ \E o \in Candidates : o < next /\ ~IsResolved(items[o])
    \/ /\ pc \in {"live2", "commit", "decide"}
       /\ \E o \in Candidates : ~IsResolved(items[o])

DecisionInv ==
  decision = "allProven" =>
    /\ ~faulted
    /\ snapshot \in versions
    /\ ResolutionContextSessionCompatible(initialCtx, finalCtx)
    /\ finalCtx.ident.pin \in SupportedPins
    /\ \A o \in Candidates : /\ IsResolved(items[o]) /\ items[o].fact.id \in Manifest
                             /\ ~ExplicitlyQualified(cands[o])
                                  => /\ initialCtx.path = live1.path
                                     /\ live1.path = finalCtx.path

IInv ==
  /\ TypeOK /\ ContextInv /\ PhaseInv /\ TypesInv /\ ItemsInv /\ GateInv
  /\ FaultInv /\ DecisionInv

-----------------------------------------------------------------------------
(* Typing.                                                                 *)

\* A failed item carries no fact.
LEMMA FailedTyping ==
  \A status \in Statuses : Failed(status) \in Item
BY DEF Failed, Item

\* An unavailable item is an item, and not a resolved one.
LEMMA UnavailableTyping ==
  /\ Unavailable \in Item /\ ~IsResolved(Unavailable)
  /\ AllUnavail \in [Candidates -> Item]
  /\ \A o \in Candidates : ~IsResolved(AllUnavail[o])
BY FailedTyping DEF Unavailable, Failed, Item, Statuses, IsResolved, AllUnavail

\* What giving up leaves behind is well typed.
LEMMA ResetTyping ==
  /\ NoTypes \in [Candidates -> Types \cup {NoType}]
  /\ NoContext \in Context /\ ~NoContext.bound
BY DEF NoTypes, NoContext, Context

\* A gate keeps an item as it is or makes it unavailable.
LEMMA GateTyping ==
  ASSUME NEW cs \in [Candidates -> Shapes], NEW its \in [Candidates -> Item],
         NEW rc, NEW live
  PROVE  /\ GateAgainstLiveContext(cs, its, rc, live) \in [Candidates -> Item]
         /\ \A o \in Candidates :
              LET it == GateAgainstLiveContext(cs, its, rc, live)[o]
              IN  IsResolved(it) =>
                    /\ it = its[o]
                    /\ it.fact.pin = rc.ident.pin
                    /\ ResolutionContextSessionCompatible(rc, live)
                    /\ ExplicitlyQualified(cs[o]) \/ rc.path = live.path
<1>1. DOMAIN cs = Candidates
  OBVIOUS
<1>2. QED
  BY <1>1, UnavailableTyping
  DEF GateAgainstLiveContext, GateByResolutionContext, PinnedTo, SearchPathCompatible

\* What the live session reports is a context the session is in.
LEMMA LiveTyping ==
  ASSUME session \in Session
  PROVE  Live \in Context /\ Live.bound /\ Live.ident \in Idents
BY EffectProofAssumption DEF Live, Context, Session

\* A match names a routine that exists.
LEMMA MatchTyping ==
  ASSUME NEW cat \in Catalog, NEW c \in Candidate, NEW path \in Seq(Namespaces),
         NEW t \in ArgTypes, NEW m \in Matches(cat, c, path, t)
  PROVE  /\ m = <<m[1], m[2]>>
         /\ m[1] \in Namespaces /\ m[2] \in ArgTypes
         /\ cat.routine[<<c.sym, m[1], m[2]>>] \in Bodies
<1>1. PICK ns \in NamespacesForCandidate(c, path) : m \in {ns} \X Offers(cat, c, ns, t)
  BY DEF Matches
<1>2. ns \in Namespaces
  BY <1>1 DEF NamespacesForCandidate, ExplicitlyQualified, Candidate, PathSet
<1>3. c.sym \in Symbols
  BY DEF Candidate
<1>4. PICK a \in Offers(cat, c, ns, t) : m = <<ns, a>>
  BY <1>1
<1>5. a \in ArgTypes /\ cat.routine[<<c.sym, ns, a>>] # NoBody
  BY <1>4 DEF Offers, ArgTypes
<1>6. cat.routine[<<c.sym, ns, a>>] \in Bodies \cup {NoBody}
  BY <1>2, <1>3, <1>5 DEF Catalog
<1>7. QED
  BY <1>2, <1>4, <1>5, <1>6

\* A lookup returns an item, and a resolved one is grounded in the snapshot.
LEMMA ResolveGrounded ==
  ASSUME IInv, Looking, NEW o \in Candidates, NEW t \in Types \cup {NoType}
  PROVE  LET c  == cands[o]
             it == Resolve(c, t)
             f  == it.fact
             a  == IF UsesColumnType(c) THEN t ELSE NoArgs
         IN  /\ it \in Item
             /\ IsResolved(it) =>
                  /\ f.pin = live1.ident.pin
                  /\ f.id.kind = c.kind /\ f.id.sym = c.sym
                  /\ f.id.ns \in Namespaces /\ f.id.arg \in ArgTypes
                  /\ f.id = [kind |-> c.kind, sym |-> c.sym, ns |-> f.id.ns,
                             arg |-> f.id.arg,
                             body |-> snapshot.routine[<<c.sym, f.id.ns, f.id.arg>>]]
                  /\ IF c.kind = "count"
                     THEN /\ f.id.ns = PgCatalog /\ f.id.arg = Poly
                          /\ CountVisible(snapshot, c, session.path)
                     ELSE /\ a # NoType
                          /\ Matches(snapshot, c, live1.path, a) = {<<f.id.ns, f.id.arg>>}
<1> DEFINE c == cands[o]
<1> DEFINE a == IF UsesColumnType(c) THEN t ELSE NoArgs
<1>1. c \in Candidate /\ snapshot \in Catalog /\ live1 \in Context
  BY EffectProofAssumption DEF IInv, TypeOK
<1>2. live1.path \in Seq(Namespaces) /\ live1.ident \in Idents /\ live1.ident.pin \in Pins
  BY <1>1 DEF IInv, ContextInv, Witnessed, ResolutionContextSessionCompatible,
              ResolutionContextSessionComplete, Context, Idents
<1>3. ASSUME NEW ns \in Namespaces, NEW arg \in ArgTypes,
             snapshot.routine[<<c.sym, ns, arg>>] \in Bodies
      PROVE  LET it == ResolvedItem(c, ns, arg, snapshot)
             IN  /\ it \in Item
                 /\ it.fact.pin = live1.ident.pin
                 /\ it.fact.id = [kind |-> c.kind, sym |-> c.sym, ns |-> ns, arg |-> arg,
                                  body |-> snapshot.routine[<<c.sym, ns, arg>>]]
  BY <1>1, <1>2, <1>3 DEF ResolvedItem, Item, Fact, IdentityTuple, Candidate, Statuses
<1>4. CASE c.kind = "count"
  <2>1. CASE CountVisible(snapshot, c, session.path)
    <3>1. PgCatalog \in Namespaces /\ Poly \in ArgTypes /\ c.sym \in Symbols
      BY <1>1, EffectIdentityAssumption DEF ArgTypes, Candidate
    <3>2. snapshot.routine[<<c.sym, PgCatalog, Poly>>] \in Bodies
      BY <1>1, <2>1, <3>1 DEF CountVisible, Catalog
    <3>3. Resolve(c, t) = ResolvedItem(c, PgCatalog, Poly, snapshot)
      BY <1>4, <2>1 DEF Resolve, ResolveCount, Visible
    <3> DEFINE it == ResolvedItem(c, PgCatalog, Poly, snapshot)
    <3>4. /\ it \in Item
          /\ it.fact.pin = live1.ident.pin
          /\ it.fact.id = [kind |-> c.kind, sym |-> c.sym, ns |-> PgCatalog, arg |-> Poly,
                           body |-> snapshot.routine[<<c.sym, PgCatalog, Poly>>]]
      BY <1>3, <3>1, <3>2
    <3>5. Resolve(c, t) = it
      BY <3>3
    <3> HIDE DEF it
    <3>6. QED
      BY <1>4, <2>1, <3>1, <3>4, <3>5
  <2>2. CASE ~CountVisible(snapshot, c, session.path)
    <3>1. Resolve(c, t) = Failed("unknown")
      BY <1>4, <2>2 DEF Resolve, ResolveCount, Visible
    <3>2. "unknown" \in Statuses
      BY DEF Statuses
    <3>3. QED
      BY <3>1, <3>2, FailedTyping DEF Failed, IsResolved
  <2>3. QED
    BY <2>1, <2>2
<1>5. CASE c.kind # "count"
  <2> DEFINE matches == Matches(snapshot, c, live1.path, a)
  <2>1. Resolve(c, t) = ResolveByName(c, a)
    BY <1>5 DEF Resolve
  <2>2. CASE \/ UsesColumnType(c) /\ a = NoType
             \/ ~ExplicitlyQualified(c) /\ live1.path = << >>
             \/ ~\E m \in matches : matches = {m}
    <3>1. \E status \in Statuses : ResolveByName(c, a) = Failed(status)
      BY <2>2 DEF ResolveByName, Visible, Unavailable, Statuses
    <3>2. QED
      BY <2>1, <3>1, FailedTyping DEF Failed, IsResolved
  <2>3. CASE /\ ~(UsesColumnType(c) /\ a = NoType)
             /\ ~(~ExplicitlyQualified(c) /\ live1.path = << >>)
             /\ \E m \in matches : matches = {m}
    <3>1. PICK m \in matches : matches = {m}
      BY <2>3
    <3>2. a \in ArgTypes /\ a # NoType
      BY <2>3, EffectIdentityAssumption DEF ArgTypes
    <3>3. /\ m = <<m[1], m[2]>> /\ m[1] \in Namespaces /\ m[2] \in ArgTypes
          /\ snapshot.routine[<<c.sym, m[1], m[2]>>] \in Bodies
      BY <1>1, <1>2, <3>2, MatchTyping
    <3>4. ResolveByName(c, a) = ResolvedItem(c, m[1], m[2], snapshot)
      BY <2>3, <3>1 DEF ResolveByName, Visible
    <3> DEFINE it == ResolvedItem(c, m[1], m[2], snapshot)
    <3>5. /\ it \in Item
          /\ it.fact.pin = live1.ident.pin
          /\ it.fact.id = [kind |-> c.kind, sym |-> c.sym, ns |-> m[1], arg |-> m[2],
                           body |-> snapshot.routine[<<c.sym, m[1], m[2]>>]]
      BY <1>3, <3>3
    <3>6. Resolve(c, t) = it /\ matches = {<<it.fact.id.ns, it.fact.id.arg>>}
      BY <2>1, <3>1, <3>3, <3>4, <3>5
    <3> HIDE DEF it, matches
    <3>7. QED
      BY <1>5, <3>2, <3>3, <3>5, <3>6 DEF matches
  <2>4. QED
    BY <2>2, <2>3
<1>6. QED
  BY <1>4, <1>5

-----------------------------------------------------------------------------
(* Every step preserves the invariant.                                     *)

USE DEF IInv, dbVars, sessVars, txVars, ctxVars

\* The application's validations only take facts away.
LEMMA ValidatedKeeps ==
  ASSUME NEW its \in [Candidates -> Item], NEW tps, NEW cs \in [Candidates -> Shapes],
         NEW final
  PROVE  /\ DOMAIN Validated(its, tps, cs, final) = Candidates
         /\ \A o \in Candidates :
              LET it == Validated(its, tps, cs, final)[o]
              IN  IsResolved(it) => it = its[o] /\ it.fact.pin = final.ident.pin
<1> DEFINE pinned == ValidateFactPinning(its, final)
<1> DEFINE bound  == ValidateCandidateFactBinding(pinned, cs)
<1> DEFINE last   == ValidateFactOperandTypeBinding(bound, tps, cs)
<1>1. \A status \in Statuses : ~IsResolved(Failed(status))
  BY DEF IsResolved, Failed
<1>2. /\ DOMAIN pinned = Candidates
      /\ \A o \in Candidates : IsResolved(pinned[o]) =>
           pinned[o] = its[o] /\ its[o].fact.pin = final.ident.pin
  BY UnavailableTyping DEF ValidateFactPinning, PinnedTo
<1>3. /\ DOMAIN bound = Candidates
      /\ \A o \in Candidates : IsResolved(bound[o]) => bound[o] = pinned[o]
  BY <1>1, <1>2 DEF ValidateCandidateFactBinding, Statuses
<1>4. /\ DOMAIN last = Candidates
      /\ \A o \in Candidates : IsResolved(last[o]) => last[o] = bound[o]
  BY <1>1, <1>3 DEF ValidateFactOperandTypeBinding, Statuses
<1>5. Validated(its, tps, cs, final) = last
  BY DEF Validated
<1> HIDE DEF pinned, bound, last
<1>6. QED
  BY <1>2, <1>3, <1>4, <1>5

\* What the trust policy asks of every item, of the items before validation.
LEMMA ProvenDecision ==
  ASSUME NEW its \in [Candidates -> Item], NEW tps, NEW cs \in [Candidates -> Shapes],
         NEW initial, NEW final
  PROVE  /\ ProofDecision(initial, final, its, tps, cs)
              \in {"allProven", "hasUnproven", "hasUnknown"}
         /\ ProofDecision(initial, final, its, tps, cs) = "allProven" =>
              /\ ContextsValidForPromotion(initial, final, cs)
              /\ final.ident.pin \in SupportedPins
              /\ \A o \in Candidates :
                   IsResolved(its[o]) /\ its[o].fact.id \in Manifest
<1> DEFINE last == Validated(its, tps, cs, final)
<1>1. /\ DOMAIN last = Candidates
      /\ \A o \in Candidates : IsResolved(last[o]) =>
           last[o] = its[o] /\ its[o].fact.pin = final.ident.pin
  BY ValidatedKeeps
<1> HIDE DEF last
<1>2. IsTrusted(last) \in {"allProven", "hasUnproven", "hasUnknown"}
  BY DEF IsTrusted
<1>3. IsTrusted(last) = "allProven" =>
        /\ FirstResolvedPin(last) \in SupportedPins
        /\ \A o \in Candidates : /\ IsResolved(last[o])
                                /\ last[o].fact.pin = FirstResolvedPin(last)
                                /\ last[o].fact.id \in Manifest
  BY <1>1 DEF IsTrusted
<1>4. 1 \in Candidates
  BY EffectProofAssumption DEF Candidates
<1>5. QED
  BY <1>1, <1>2, <1>3, <1>4 DEF ProofDecision, last

\* Giving up leaves nothing resolved and no final context.
LEMMA GiveUpEffect ==
  ASSUME GiveUp
  PROVE  /\ items' \in [Candidates -> Item] /\ \A o \in Candidates : ~IsResolved(items'[o])
         /\ types' \in [Candidates -> Types \cup {NoType}]
         /\ \A o \in Candidates : types'[o] = NoType
         /\ finalCtx' \in Context /\ ~finalCtx'.bound
         /\ inTx' = FALSE /\ pc' = "decide"
BY UnavailableTyping, ResetTyping DEF GiveUp, NoTypes

\* The loops stay within the candidates.
LEMMA LoopTyping ==
  ASSUME TypeOK, next <= N
  PROVE  /\ next \in Candidates /\ next + 1 \in 1..(N + 1) /\ next \in Nat
         /\ \A o \in Candidates : o \in Nat
BY EffectProofAssumption DEF TypeOK, Candidates

\* The loops begin at a candidate.
LEMMA LoopStart == 1 \in 1..(N + 1)
BY EffectProofAssumption

\* DDL changes only the catalog and what depends on it.
LEMMA CommitTyping ==
  ASSUME TypeOK, NEW newCatalog \in Catalog, Commit(newCatalog)
  PROVE  TypeOK'
BY EffectProofAssumption DEF TypeOK, Commit, Session, SinceBegin

\* DDL on a column keeps the invariant: the snapshot does not move.
LEMMA AlterColumnStep ==
  ASSUME IInv, NEW o \in Candidates, NEW t \in Types \cup {NoType}, AlterColumn(o, t)
  PROVE  IInv'
<1>1. TypeOK'
  <2>1. [catalog EXCEPT !.column[o] = t] \in Catalog
    BY DEF TypeOK, Catalog
  <2>2. QED
    BY <2>1, CommitTyping DEF AlterColumn
<1>2. ContextInv'
  BY DEF TypeOK, ContextInv, Witnessed, Looking, NoContext,
      ResolutionContextSessionCompatible, ResolutionContextSessionComplete,
      PhaseInv, AlterColumn, Commit, SinceBegin
<1>3. PhaseInv'
  BY UnavailableTyping
  DEF TypeOK, PhaseInv, Looking, NoContext, Steps, AlterColumn, Commit, SinceBegin
<1>4. TypesInv'
  BY DEF TypeOK, TypesInv, PhaseInv, NoTypes, AlterColumn, Commit, SinceBegin
<1>5. ItemsInv'
  BY UnavailableTyping
  DEF TypeOK, ItemsInv, PhaseInv, Grounded, LookedUp, Visible,
      AlterColumn, Commit, SinceBegin
<1>6. GateInv'
  BY DEF TypeOK, GateInv, PhaseInv, Steps, AlterColumn, Commit, SinceBegin
<1>7. FaultInv'
  BY UnavailableTyping
  DEF TypeOK, FaultInv, PhaseInv, Steps, AlterColumn, Commit, SinceBegin
<1>8. DecisionInv'
  BY DEF TypeOK, DecisionInv, PhaseInv, FaultInv, AlterColumn, Commit, SinceBegin
<1>9. QED
  BY <1>1, <1>2, <1>3, <1>4, <1>5, <1>6, <1>7, <1>8

\* DDL on a routine keeps the invariant: the snapshot does not move.
LEMMA ReplaceRoutineStep ==
  ASSUME IInv, NEW r \in UserRoutines, NEW body \in UserBodies \cup {NoBody}, ReplaceRoutine(r, body)
  PROVE  IInv'
<1>1. TypeOK'
  <2>1. body \in Bodies \cup {NoBody}
    BY EffectProofAssumption
  <2>2. [catalog EXCEPT !.routine[r] = body] \in Catalog
    BY <2>1 DEF TypeOK, Catalog
  <2>3. QED
    BY <2>2, CommitTyping DEF ReplaceRoutine
<1>2. ContextInv'
  BY DEF TypeOK, ContextInv, Witnessed, Looking, NoContext,
      ResolutionContextSessionCompatible, ResolutionContextSessionComplete,
      PhaseInv, ReplaceRoutine, Commit, SinceBegin
<1>3. PhaseInv'
  BY UnavailableTyping
  DEF TypeOK, PhaseInv, Looking, NoContext, Steps, ReplaceRoutine, Commit, SinceBegin
<1>4. TypesInv'
  BY DEF TypeOK, TypesInv, PhaseInv, NoTypes, ReplaceRoutine, Commit, SinceBegin
<1>5. ItemsInv'
  BY UnavailableTyping
  DEF TypeOK, ItemsInv, PhaseInv, Grounded, LookedUp, Visible,
      ReplaceRoutine, Commit, SinceBegin
<1>6. GateInv'
  BY DEF TypeOK, GateInv, PhaseInv, Steps, ReplaceRoutine, Commit, SinceBegin
<1>7. FaultInv'
  BY UnavailableTyping
  DEF TypeOK, FaultInv, PhaseInv, Steps, ReplaceRoutine, Commit, SinceBegin
<1>8. DecisionInv'
  BY DEF TypeOK, DecisionInv, PhaseInv, FaultInv, ReplaceRoutine, Commit, SinceBegin
<1>9. QED
  BY <1>1, <1>2, <1>3, <1>4, <1>5, <1>6, <1>7, <1>8

\* Drift keeps the invariant: within a transaction only the path moves.
LEMMA SessionDriftStep ==
  ASSUME IInv, NEW s \in Session, SessionDrift(s)
  PROVE  IInv'
<1>1. TypeOK'
  BY EffectIdentityAssumption, EffectProofAssumption
  DEF TypeOK, Steps, Decisions, SessionDrift, SinceBegin
<1>2. ContextInv'
  BY DEF TypeOK, ContextInv, Witnessed, Looking, NoContext,
      ResolutionContextSessionCompatible, ResolutionContextSessionComplete,
      PhaseInv, SessionDrift, SinceBegin
<1>3. PhaseInv'
  BY UnavailableTyping
  DEF TypeOK, PhaseInv, Looking, NoContext, Steps, SessionDrift, SinceBegin
<1>4. TypesInv'
  BY DEF TypeOK, TypesInv, PhaseInv, NoTypes, SessionDrift, SinceBegin
<1>5. ItemsInv'
  BY UnavailableTyping
  DEF TypeOK, ItemsInv, PhaseInv, Grounded, LookedUp, Visible,
      SessionDrift, SinceBegin
<1>6. GateInv'
  BY DEF TypeOK, GateInv, PhaseInv, Steps, SessionDrift, SinceBegin
<1>7. FaultInv'
  BY UnavailableTyping
  DEF TypeOK, FaultInv, PhaseInv, Steps, SessionDrift, SinceBegin
<1>8. DecisionInv'
  BY DEF TypeOK, DecisionInv, PhaseInv, FaultInv, SessionDrift, SinceBegin
<1>9. QED
  BY <1>1, <1>2, <1>3, <1>4, <1>5, <1>6, <1>7, <1>8

\* The first capture keeps the invariant, or ends the proof.
LEMMA BeginStep ==
  ASSUME IInv, Begin
  PROVE  IInv'
<1>1. TypeOK'
  BY LiveTyping DEF TypeOK, Begin, Finish, Steps, Decisions
<1>2. ContextInv'
  <2>1. Live.bound /\ Live.ident = session.ident /\ Live.path = session.path
    BY DEF Live
  <2>2. QED
    BY <2>1, LiveTyping
    DEF TypeOK, ContextInv, Witnessed, Looking, Begin, Finish
<1>3. PhaseInv'
  BY UnavailableTyping
  DEF TypeOK, PhaseInv, Looking, NoContext, Steps, Begin, Finish
<1>4. TypesInv'
  BY DEF TypeOK, TypesInv, PhaseInv, NoTypes, Begin, Finish
<1>5. ItemsInv'
  BY UnavailableTyping
  DEF TypeOK, ItemsInv, PhaseInv, Grounded, LookedUp, Visible, Begin,
      Finish
<1>6. GateInv'
  BY DEF TypeOK, GateInv, PhaseInv, Steps, Begin, Finish
<1>7. FaultInv'
  BY UnavailableTyping
  DEF TypeOK, FaultInv, PhaseInv, Steps, Begin, Finish
<1>8. DecisionInv'
  BY DEF TypeOK, DecisionInv, PhaseInv, FaultInv, Begin, Finish
<1>9. QED
  BY <1>1, <1>2, <1>3, <1>4, <1>5, <1>6, <1>7, <1>8

\* Opening the transaction keeps the invariant, or ends the proof.
LEMMA BeginTxStep ==
  ASSUME IInv, BeginTx
  PROVE  IInv'
<1>1. TypeOK'
  BY EffectIdentityAssumption, EffectProofAssumption
  DEF TypeOK, Steps, Decisions, BeginTx, Finish
<1>2. ContextInv'
  BY DEF TypeOK, ContextInv, Witnessed, Looking, NoContext,
      ResolutionContextSessionCompatible, ResolutionContextSessionComplete,
      PhaseInv, BeginTx, Finish
<1>3. PhaseInv'
  BY UnavailableTyping
  DEF TypeOK, PhaseInv, Looking, NoContext, Steps, BeginTx, Finish
<1>4. TypesInv'
  BY DEF TypeOK, TypesInv, PhaseInv, NoTypes, BeginTx, Finish
<1>5. ItemsInv'
  BY UnavailableTyping
  DEF TypeOK, ItemsInv, PhaseInv, Grounded, LookedUp, Visible, BeginTx,
      Finish
<1>6. GateInv'
  BY DEF TypeOK, GateInv, PhaseInv, Steps, BeginTx, Finish
<1>7. FaultInv'
  BY UnavailableTyping
  DEF TypeOK, FaultInv, PhaseInv, Steps, BeginTx, Finish
<1>8. DecisionInv'
  BY DEF TypeOK, DecisionInv, PhaseInv, FaultInv, BeginTx, Finish
<1>9. QED
  BY <1>1, <1>2, <1>3, <1>4, <1>5, <1>6, <1>7, <1>8

\* The second capture takes the snapshot the invariant speaks of.
LEMMA CaptureLive1Step ==
  ASSUME IInv, CaptureLive1
  PROVE  IInv'
<1>1. TypeOK'
  BY LiveTyping, GiveUpEffect, LoopStart
  DEF TypeOK, CaptureLive1, Steps
<1>2. ContextInv'
  <2>1. Live.bound /\ Live.ident = session.ident /\ Live.path = session.path
    BY DEF Live
  <2>2. QED
    BY <2>1, LiveTyping, ResetTyping
    DEF TypeOK, ContextInv, Witnessed, Looking, CaptureLive1, GiveUp
<1>3. PhaseInv'
  <2>1. CASE GiveUp
    BY <2>1, GiveUpEffect DEF TypeOK, PhaseInv, Looking, CaptureLive1
  <2>2. CASE pc' = "types" /\ UNCHANGED <<items, types, finalCtx, inTx>>
    BY <2>2 DEF TypeOK, PhaseInv, Looking, CaptureLive1, NoTypes
  <2>3. QED
    BY <2>1, <2>2 DEF CaptureLive1
<1>4. TypesInv'
  BY DEF TypeOK, TypesInv, PhaseInv, NoTypes, CaptureLive1, GiveUp
<1>5. ItemsInv'
  BY UnavailableTyping, ResetTyping
  DEF TypeOK, PhaseInv, ItemsInv, CaptureLive1, GiveUp
<1>6. GateInv'
  BY UnavailableTyping, ResetTyping
  DEF TypeOK, PhaseInv, GateInv, CaptureLive1, GiveUp
<1>7. FaultInv'
  BY UnavailableTyping, ResetTyping
  DEF TypeOK, PhaseInv, FaultInv, CaptureLive1, GiveUp
<1>8. DecisionInv'
  BY DEF TypeOK, DecisionInv, PhaseInv, FaultInv, CaptureLive1, GiveUp
<1>9. QED
  BY <1>1, <1>2, <1>3, <1>4, <1>5, <1>6, <1>7, <1>8

\* A type lookup records the type the snapshot has, or a fault.
LEMMA ResolveTypeStep ==
  ASSUME IInv, ResolveType
  PROVE  IInv'
<1>1. TypeOK'
  <2>1. next \in Candidates /\ next + 1 \in 1..(N + 1)
    BY LoopTyping DEF ResolveType
  <2>2. types' \in [Candidates -> Types \cup {NoType}]
    BY <2>1 DEF TypeOK, Catalog, ResolveType, Visible
  <2>3. QED
    BY <2>1, <2>2 DEF TypeOK, ResolveType
<1>2. ContextInv'
  BY DEF TypeOK, ContextInv, Witnessed, Looking, NoContext,
      ResolutionContextSessionCompatible, ResolutionContextSessionComplete,
      PhaseInv, ResolveType, Visible
<1>3. PhaseInv'
  <2>1. /\ next \in Candidates /\ next \in Nat /\ \A o \in Candidates : o \in Nat
        /\ pc = "types" /\ next' = next + 1
    BY LoopTyping DEF ResolveType
  <2>2. \A o \in Candidates : o >= next' => types'[o] = NoType
    <3>1. \A o \in Candidates : o >= next' => o >= next /\ o # next
      BY <2>1
    <3>2. \A o \in Candidates : o # next => types'[o] = types[o]
      BY <2>1 DEF TypeOK, ResolveType
    <3>3. QED
      BY <2>1, <3>1, <3>2 DEF PhaseInv
  <2>3. QED
    BY <2>1, <2>2 DEF TypeOK, PhaseInv, Looking, ResolveType
<1>4. TypesInv'
  BY DEF TypeOK, TypesInv, PhaseInv, NoTypes, ResolveType, Visible
<1>5. ItemsInv'
  BY UnavailableTyping
  DEF TypeOK, ItemsInv, PhaseInv, Grounded, LookedUp, Visible,
      ResolveType, Visible
<1>6. GateInv'
  BY DEF TypeOK, GateInv, PhaseInv, Steps, ResolveType, Visible
<1>7. FaultInv'
  <2>1. /\ next \in Candidates /\ next \in Nat /\ \A o \in Candidates : o \in Nat
        /\ pc = "types" /\ next' = next + 1
    BY LoopTyping DEF ResolveType
  <2>2. CASE faulted
    <3>1. PICK o \in Candidates : UsesColumnType(cands[o]) /\ types[o] = NoType /\ o < next
      BY <2>1, <2>2 DEF FaultInv
    <3>2. o < next' /\ o # next
      BY <2>1, <3>1
    <3>3. types'[o] = NoType
      BY <3>1, <3>2 DEF TypeOK, ResolveType
    <3>4. QED
      BY <2>1, <3>1, <3>2, <3>3 DEF FaultInv, ResolveType
  <2>3. CASE ~faulted /\ faulted'
    <3>1. UsesColumnType(cands[next]) /\ types' = types
      BY <2>3 DEF ResolveType
    <3>2. next < next' /\ types[next] = NoType
      BY <2>1 DEF PhaseInv
    <3>3. QED
      BY <2>1, <3>1, <3>2 DEF FaultInv, ResolveType
  <2>4. QED
    BY <2>2, <2>3 DEF FaultInv
<1>8. DecisionInv'
  BY DEF TypeOK, DecisionInv, PhaseInv, FaultInv, ResolveType, Visible
<1>9. QED
  BY <1>1, <1>2, <1>3, <1>4, <1>5, <1>6, <1>7, <1>8

\* Every operand type has been looked up when the loop ends.
LEMMA TypesDoneStep ==
  ASSUME IInv, TypesDone
  PROVE  IInv'
<1>1. TypeOK'
  BY EffectIdentityAssumption, EffectProofAssumption
  DEF TypeOK, Steps, Decisions, TypesDone
<1>2. ContextInv'
  BY DEF TypeOK, ContextInv, Witnessed, Looking, NoContext,
      ResolutionContextSessionCompatible, ResolutionContextSessionComplete,
      PhaseInv, TypesDone
<1>3. PhaseInv'
  BY UnavailableTyping
  DEF TypeOK, PhaseInv, Looking, NoContext, Steps, TypesDone
<1>4. TypesInv'
  BY DEF TypeOK, TypesInv, PhaseInv, NoTypes, TypesDone
<1>5. ItemsInv'
  BY UnavailableTyping
  DEF TypeOK, ItemsInv, PhaseInv, Grounded, LookedUp, Visible, TypesDone
<1>6. GateInv'
  BY DEF TypeOK, GateInv, PhaseInv, Steps, TypesDone
<1>7. FaultInv'
  BY UnavailableTyping
  DEF TypeOK, FaultInv, PhaseInv, Steps, TypesDone
<1>8. DecisionInv'
  BY DEF TypeOK, DecisionInv, PhaseInv, FaultInv, TypesDone
<1>9. QED
  BY <1>1, <1>2, <1>3, <1>4, <1>5, <1>6, <1>7, <1>8

\* An identity lookup leaves an item grounded in the snapshot, or a fault.
LEMMA ResolveIdentityStep ==
  ASSUME IInv, ResolveIdentity
  PROVE  IInv'
<1>1. TypeOK'
  <2>1. /\ next \in Candidates /\ next + 1 \in 1..(N + 1)
        /\ types[next] \in Types \cup {NoType}
    BY LoopTyping DEF TypeOK, ResolveIdentity
  <2>2. Failed("lookup_failed") \in Item
    BY FailedTyping DEF Statuses
  <2>3. Resolve(cands[next], types[next]) \in Item
    BY <2>1, ResolveGrounded DEF Looking, ResolveIdentity
  <2>4. items' \in [Candidates -> Item]
    BY <2>1, <2>2, <2>3 DEF TypeOK, ResolveIdentity
  <2>5. QED
    BY <2>1, <2>4 DEF TypeOK, ResolveIdentity
<1>2. ContextInv'
  BY DEF TypeOK, ContextInv, Witnessed, Looking, NoContext,
      ResolutionContextSessionCompatible, ResolutionContextSessionComplete,
      PhaseInv, ResolveIdentity
<1>3. PhaseInv'
  BY UnavailableTyping
  DEF TypeOK, PhaseInv, Looking, NoContext, Steps, ResolveIdentity
<1>4. TypesInv'
  BY DEF TypeOK, TypesInv, PhaseInv, NoTypes, ResolveIdentity
<1>5. ItemsInv'
  <2>1. /\ next \in Candidates /\ types[next] \in Types \cup {NoType}
        /\ session \in sessions /\ Looking
    BY LoopTyping DEF TypeOK, ContextInv, Looking, ResolveIdentity
  <2>2. ASSUME NEW o \in Candidates, o # next, IsResolved(items[o])'
        PROVE  Grounded(o)'
    <3>1. items'[o] = items[o] /\ Grounded(o)
      BY <2>1, <2>2 DEF TypeOK, ItemsInv, ResolveIdentity
    <3>2. QED
      BY <3>1 DEF Grounded, LookedUp, ResolveIdentity
  <2>3. ASSUME IsResolved(items'[next])
        PROVE  \A o \in Candidates : o = next => Grounded(o)'
    <3> DEFINE it == Resolve(cands[next], types[next])
    <3>0. ~IsResolved(Failed("lookup_failed"))
      BY DEF Failed, IsResolved
    <3>1. items'[next] = it /\ IsResolved(it)
      BY <2>1, <2>3, <3>0 DEF TypeOK, ResolveIdentity
    <3>2. QED
      BY <2>1, <3>1, ResolveGrounded DEF Grounded, LookedUp, ResolveIdentity
  <2>4. QED
    BY <2>2, <2>3 DEF ItemsInv, IsResolved
<1>6. GateInv'
  BY DEF TypeOK, GateInv, PhaseInv, Steps, ResolveIdentity
<1>7. FaultInv'
  <2>1. /\ next \in Candidates /\ next \in Nat /\ \A o \in Candidates : o \in Nat
        /\ pc = "identities" /\ next' = next + 1
    BY LoopTyping DEF ResolveIdentity
  <2>2. CASE faulted
    <3>1. CASE \E o \in Candidates : UsesColumnType(cands[o]) /\ types[o] = NoType
      BY <2>1, <3>1 DEF FaultInv, ResolveIdentity
    <3>2. CASE \E o \in Candidates : o < next /\ ~IsResolved(items[o])
      <4>1. PICK o \in Candidates : o < next /\ ~IsResolved(items[o])
        BY <3>2
      <4>2. o < next' /\ o # next
        BY <2>1, <4>1
      <4>3. items'[o] = items[o]
        BY <4>1, <4>2 DEF TypeOK, ResolveIdentity
      <4>4. QED
        BY <2>1, <4>1, <4>2, <4>3 DEF FaultInv, IsResolved, ResolveIdentity
    <3>3. QED
      BY <2>1, <2>2, <3>1, <3>2 DEF FaultInv
  <2>3. CASE ~faulted /\ faulted'
    <3>0. items' = [items EXCEPT ![next] = Failed("lookup_failed")]
      BY <2>3 DEF ResolveIdentity
    <3>1. items'[next] = Failed("lookup_failed") /\ next < next'
      BY <2>1, <3>0 DEF TypeOK
    <3>2. ~IsResolved(items'[next])
      BY <3>1 DEF Failed, IsResolved
    <3>3. QED
      BY <2>1, <3>1, <3>2 DEF FaultInv, IsResolved, ResolveIdentity
  <2>4. QED
    BY <2>2, <2>3 DEF FaultInv
<1>8. DecisionInv'
  BY DEF TypeOK, DecisionInv, PhaseInv, FaultInv, ResolveIdentity
<1>9. QED
  BY <1>1, <1>2, <1>3, <1>4, <1>5, <1>6, <1>7, <1>8

\* Every candidate has been looked up when the loop ends.
LEMMA IdentitiesDoneStep ==
  ASSUME IInv, IdentitiesDone
  PROVE  IInv'
<1>1. TypeOK'
  BY EffectIdentityAssumption, EffectProofAssumption
  DEF TypeOK, Steps, Decisions, IdentitiesDone
<1>2. ContextInv'
  BY DEF TypeOK, ContextInv, Witnessed, Looking, NoContext,
      ResolutionContextSessionCompatible, ResolutionContextSessionComplete,
      PhaseInv, IdentitiesDone
<1>3. PhaseInv'
  BY UnavailableTyping
  DEF TypeOK, PhaseInv, Looking, NoContext, Steps, IdentitiesDone
<1>4. TypesInv'
  BY DEF TypeOK, TypesInv, PhaseInv, NoTypes, IdentitiesDone
<1>5. ItemsInv'
  BY UnavailableTyping
  DEF TypeOK, ItemsInv, PhaseInv, Grounded, LookedUp, Visible,
      IdentitiesDone
<1>6. GateInv'
  BY DEF TypeOK, GateInv, PhaseInv, Steps, IdentitiesDone
<1>7. FaultInv'
  <2>1. ASSUME NEW o \in Candidates, UsesColumnType(cands[o]), types[o] = NoType
        PROVE  ~IsResolved(items[o])
    BY <2>1 DEF ItemsInv, Grounded, LookedUp, UsesColumnType
  <2>2. faulted => \E o \in Candidates : ~IsResolved(items[o])
    BY <2>1 DEF FaultInv, IdentitiesDone
  <2>3. QED
    BY <2>2 DEF FaultInv, IdentitiesDone, IsResolved
<1>8. DecisionInv'
  BY DEF TypeOK, DecisionInv, PhaseInv, FaultInv, IdentitiesDone
<1>9. QED
  BY <1>1, <1>2, <1>3, <1>4, <1>5, <1>6, <1>7, <1>8

\* The gate leaves resolved only what one session, from capture to capture, allows.
LEMMA CaptureLive2Step ==
  ASSUME IInv, CaptureLive2
  PROVE  IInv'
<1>1. TypeOK'
  <2>1. GateAgainstLiveContext(cands, items, live1, Live) \in [Candidates -> Item]
    BY GateTyping DEF TypeOK
  <2>2. QED
    BY <2>1, LiveTyping, UnavailableTyping, ResetTyping DEF TypeOK, CaptureLive2, Steps
<1>2. ContextInv'
  <2>1. Live.bound /\ Live.ident = session.ident /\ Live.path = session.path
    BY DEF Live
  <2>2. QED
    BY <2>1, LiveTyping, ResetTyping
    DEF TypeOK, ContextInv, Witnessed, Looking, CaptureLive2
<1>3. PhaseInv'
  BY UnavailableTyping
  DEF TypeOK, PhaseInv, Looking, NoContext, Steps, CaptureLive2
<1>4. TypesInv'
  BY DEF TypeOK, TypesInv, PhaseInv, NoTypes, CaptureLive2
<1>5. ItemsInv'
  <2>1. ASSUME NEW o \in Candidates, IsResolved(items'[o])
        PROVE  items'[o] = items[o]
    BY <2>1, GateTyping, UnavailableTyping DEF TypeOK, CaptureLive2
  <2>2. QED
    BY <2>1 DEF ItemsInv, Grounded, LookedUp, CaptureLive2, IsResolved
<1>6. GateInv'
  <2>1. ASSUME NEW o \in Candidates, IsResolved(items'[o])
        PROVE  /\ ResolutionContextSessionCompatible(live1, finalCtx')
               /\ ExplicitlyQualified(cands[o]) \/ live1.path = finalCtx'.path
    BY <2>1, GateTyping, UnavailableTyping DEF TypeOK, CaptureLive2
  <2>2. QED
    BY <2>1 DEF GateInv, CaptureLive2, IsResolved, ResolutionContextSessionCompatible,
                ResolutionContextSessionComplete
<1>7. FaultInv'
  <2>1. ASSUME NEW o \in Candidates, ~IsResolved(items[o])
        PROVE  ~IsResolved(items'[o])
    BY <2>1, GateTyping, UnavailableTyping DEF TypeOK, CaptureLive2
  <2>2. CASE faulted
    BY <2>1, <2>2 DEF FaultInv, CaptureLive2, IsResolved
  <2>3. CASE ~faulted
    BY <2>3, ResetTyping DEF FaultInv, CaptureLive2
  <2>4. QED
    BY <2>2, <2>3
<1>8. DecisionInv'
  BY DEF TypeOK, DecisionInv, PhaseInv, FaultInv, CaptureLive2
<1>9. QED
  BY <1>1, <1>2, <1>3, <1>4, <1>5, <1>6, <1>7, <1>8

\* Committing closes the transaction; a failed commit leaves nothing resolved.
LEMMA CommitTxStep ==
  ASSUME IInv, CommitTx
  PROVE  IInv'
<1>1. TypeOK'
  BY GiveUpEffect DEF TypeOK, CommitTx, Steps
<1>2. ContextInv'
  BY DEF TypeOK, ContextInv, Witnessed, Looking, NoContext,
      ResolutionContextSessionCompatible, ResolutionContextSessionComplete,
      PhaseInv, CommitTx, GiveUp
<1>3. PhaseInv'
  BY UnavailableTyping
  DEF TypeOK, PhaseInv, Looking, NoContext, Steps, CommitTx, GiveUp
<1>4. TypesInv'
  BY DEF TypeOK, TypesInv, PhaseInv, NoTypes, CommitTx, GiveUp
<1>5. ItemsInv'
  BY UnavailableTyping
  DEF TypeOK, ItemsInv, PhaseInv, Grounded, LookedUp, Visible, CommitTx,
      GiveUp
<1>6. GateInv'
  BY GiveUpEffect DEF GateInv, CommitTx, IsResolved
<1>7. FaultInv'
  BY GiveUpEffect DEF FaultInv, CommitTx, IsResolved
<1>8. DecisionInv'
  BY DEF TypeOK, DecisionInv, PhaseInv, FaultInv, CommitTx, GiveUp
<1>9. QED
  BY <1>1, <1>2, <1>3, <1>4, <1>5, <1>6, <1>7, <1>8

\* A decision to promote rests on a batch of grounded, trusted facts.
LEMMA DecideStep ==
  ASSUME IInv, Decide
  PROVE  IInv'
<1>1. TypeOK'
  BY ProvenDecision DEF TypeOK, Decide, Finish, Steps, Decisions
<1>2. ContextInv'
  BY DEF TypeOK, ContextInv, Witnessed, Looking, NoContext,
      ResolutionContextSessionCompatible, ResolutionContextSessionComplete,
      PhaseInv, Decide, Finish
<1>3. PhaseInv'
  <2>1. decision' # "none"
    BY ProvenDecision DEF TypeOK, Decide, Finish
  <2>2. QED
    BY <2>1 DEF TypeOK, PhaseInv, Looking, Decide, Finish
<1>4. TypesInv'
  BY DEF TypeOK, TypesInv, PhaseInv, NoTypes, Decide, Finish
<1>5. ItemsInv'
  BY UnavailableTyping
  DEF TypeOK, ItemsInv, PhaseInv, Grounded, LookedUp, Visible, Decide,
      Finish
<1>6. GateInv'
  BY DEF TypeOK, GateInv, PhaseInv, Steps, Decide, Finish
<1>7. FaultInv'
  <2>1. decision' = "allProven" => /\ finalCtx.bound
                                   /\ \A o \in Candidates : IsResolved(items[o])
    BY ProvenDecision
    DEF TypeOK, Decide, Finish, ContextsValidForPromotion,
        ResolutionContextSessionCompatible, ResolutionContextSessionComplete
  <2>2. QED
    BY <2>1 DEF FaultInv, Decide, Finish
<1>8. DecisionInv'
  <2> SUFFICES ASSUME decision' = "allProven" PROVE DecisionInv'
    BY DEF DecisionInv
  <2>1. /\ ContextsValidForPromotion(initialCtx, finalCtx, cands)
        /\ finalCtx.ident.pin \in SupportedPins
        /\ \A o \in Candidates : IsResolved(items[o]) /\ items[o].fact.id \in Manifest
    BY ProvenDecision DEF TypeOK, Decide, Finish
  <2>2. DOMAIN cands = Candidates
    BY DEF TypeOK
  <2>3. ~faulted'
    BY <1>7 DEF FaultInv, Decide, Finish
  <2>4. \A o \in Candidates : ~ExplicitlyQualified(cands[o])
          => initialCtx.path = live1.path /\ live1.path = finalCtx.path
    BY <2>1, <2>2 DEF ContextsValidForPromotion, SearchPathCompatible, GateInv, Decide
  <2>5. ResolutionContextSessionCompatible(initialCtx, finalCtx) /\ finalCtx.bound
    BY <2>1 DEF ContextsValidForPromotion, ResolutionContextSessionCompatible,
                ResolutionContextSessionComplete
  <2>6. QED
    BY <2>1, <2>3, <2>4, <2>5
    DEF DecisionInv, ContextInv, Decide, Finish, IsResolved,
        ResolutionContextSessionCompatible, ResolutionContextSessionComplete
<1>9. QED
  BY <1>1, <1>2, <1>3, <1>4, <1>5, <1>6, <1>7, <1>8

\* The next statement starts with nothing of the last one.
LEMMA NextStatementStep ==
  ASSUME IInv, NextStatement
  PROVE  IInv'
<1>1. TypeOK'
  <2>1. round' \in 0..MaxRounds /\ next' \in 1..(N + 1)
    BY LoopStart, EffectProofAssumption DEF TypeOK, NextStatement
  <2>2. QED
    BY <2>1, UnavailableTyping, ResetTyping
    DEF TypeOK, NextStatement, Steps, Decisions
<1>2. ContextInv'
  BY DEF TypeOK, ContextInv, Witnessed, Looking, NoContext,
      ResolutionContextSessionCompatible, ResolutionContextSessionComplete,
      PhaseInv, NextStatement
<1>3. PhaseInv'
  BY UnavailableTyping
  DEF TypeOK, PhaseInv, Looking, NoContext, Steps, NextStatement
<1>4. TypesInv'
  BY DEF TypeOK, TypesInv, PhaseInv, NoTypes, NextStatement
<1>5. ItemsInv'
  BY UnavailableTyping
  DEF TypeOK, ItemsInv, PhaseInv, Grounded, LookedUp, Visible,
      NextStatement
<1>6. GateInv'
  BY DEF TypeOK, GateInv, PhaseInv, Steps, NextStatement
<1>7. FaultInv'
  BY UnavailableTyping
  DEF TypeOK, FaultInv, PhaseInv, Steps, NextStatement
<1>8. DecisionInv'
  BY DEF TypeOK, DecisionInv, PhaseInv, FaultInv, NextStatement
<1>9. QED
  BY <1>1, <1>2, <1>3, <1>4, <1>5, <1>6, <1>7, <1>8

\* The invariant holds initially.
LEMMA InitInv == Init => IInv
<1> SUFFICES ASSUME Init PROVE IInv
  OBVIOUS
<1>1. TypeOK
  <2>1. NoSnapshot \in Catalog
    BY DEF NoSnapshot, Catalog
  <2>2. Catalogs0 \subseteq Catalog /\ Sessions0 \subseteq Session
    BY EffectProofAssumption DEF Session
  <2>3. ddl \in 0..MaxDDL /\ drift \in 0..MaxDrift /\ round \in 0..MaxRounds
    BY EffectProofAssumption DEF Init
  <2>4. QED
    BY <2>1, <2>2, <2>3, UnavailableTyping, ResetTyping, LoopStart
    DEF TypeOK, Init, Steps, Decisions
<1>2. ContextInv /\ PhaseInv /\ TypesInv
  BY ResetTyping DEF ContextInv, PhaseInv, TypesInv, Init, Witnessed, Looking, NoTypes
<1>3. ItemsInv /\ GateInv /\ FaultInv /\ DecisionInv
  BY UnavailableTyping DEF ItemsInv, GateInv, FaultInv, DecisionInv, Init
<1>4. QED
  BY <1>1, <1>2, <1>3

\* Every step keeps the invariant.
LEMMA NextInv == IInv /\ [Next]_vars => IInv'
<1> SUFFICES ASSUME IInv, [Next]_vars PROVE IInv'
  OBVIOUS
<1>1. CASE Proof
  BY <1>1, BeginStep, BeginTxStep, CaptureLive1Step, ResolveTypeStep, TypesDoneStep,
     ResolveIdentityStep, IdentitiesDoneStep, CaptureLive2Step, CommitTxStep, DecideStep
  DEF Proof
<1>2. CASE Environment
  BY <1>2, AlterColumnStep, ReplaceRoutineStep, SessionDriftStep DEF Environment
<1>3. CASE NextStatement
  BY <1>3, NextStatementStep
<1>4. CASE UNCHANGED vars
  BY <1>4
  DEF vars, TypeOK, ContextInv, Witnessed, Looking, PhaseInv, TypesInv, ItemsInv,
      Grounded, LookedUp, Visible, GateInv, FaultInv, DecisionInv, IsResolved
<1>5. QED
  BY <1>1, <1>2, <1>3, <1>4 DEF Next

\* The inductive invariant holds of every reachable state, for every statement,
\* catalog, session and every bound on what the environment does to them.
THEOREM Invariance == Spec => []IInv
BY InitInv, NextInv, PTL DEF Spec

\* Every reachable state of the proof is well typed: in particular a resolved item
\* carries a whole identity tuple, and what the session reports is a context.
THEOREM TypeCorrect == Spec => []TypeOK
<1>1. IInv => TypeOK
  OBVIOUS
<1>2. QED
  BY <1>1, Invariance, PTL

-----------------------------------------------------------------------------
(* What the invariant says of a promoted statement.                        *)

\* A match found alone may run, and nothing else may but what it is coerced to; of that
\* there is none beside an exact match, and one beside a polymorphic match is unseen.
LEMMA UniqueMatchRuns ==
  ASSUME NEW cat \in Catalog, NEW c \in Candidate, c.kind # "count",
         NEW path \in Seq(Namespaces), NEW t \in ArgTypes,
         NEW ns \in Namespaces, NEW arg \in ArgTypes,
         Matches(cat, c, path, t) = {<<ns, arg>>}
  PROVE  /\ MayRun(cat, c, path, t, ns, arg)
         /\ UnseenOverload(cat, c, path, t) =>
              c.kind = "function" /\ cat.routine[<<c.sym, ns, Poly>>] # NoBody
         /\ ~UnseenOverload(cat, c, path, t) =>
              \A n \in Namespaces, a \in ArgTypes :
                MayRun(cat, c, path, t, n, a) => n = ns /\ a = arg
<1> DEFINE scope == Scope(c, path)
<1> DEFINE R(n, a) == cat.routine[<<c.sym, n, a>>]
<1>1. /\ ExplicitlyQualified(c) => scope = <<c.schema>> /\ DOMAIN scope = 1..1
      /\ ~ExplicitlyQualified(c) => scope = path
      /\ \A i \in DOMAIN scope : i \in Nat /\ i >= 1
  BY DEF Scope
<1>2. NamespacesForCandidate(c, path) = {scope[i] : i \in DOMAIN scope}
  BY DEF NamespacesForCandidate, PathSet, Scope
<1>3. \A n, a : <<n, a>> \in Matches(cat, c, path, t)
                  <=> n \in NamespacesForCandidate(c, path) /\ a \in Offers(cat, c, n, t)
  BY DEF Matches
<1>4. \A i \in DOMAIN scope : \A a \in Offers(cat, c, scope[i], t) : scope[i] = ns /\ a = arg
  BY <1>2, <1>3
<1>5. arg \in Offers(cat, c, ns, t)
  BY <1>3
<1>6. PICK i \in DOMAIN scope : scope[i] = ns
  BY <1>2, <1>3
<1>7. R(ns, arg) # NoBody /\ (arg = t \/ (arg = Poly /\ c.kind = "function" /\ R(ns, t) = NoBody))
  BY <1>5 DEF Offers
<1>8. \A j \in DOMAIN scope : scope[j] # ns => R(scope[j], t) = NoBody /\
                              (c.kind = "function" => R(scope[j], Poly) = NoBody)
  BY <1>4 DEF Offers
<1>9. \A j \in 1..(i - 1) : j \in DOMAIN scope
  BY <1>1, <1>6
<1> HIDE DEF scope, R
<1>10. \A j \in 1..(i - 1) : scope[j] = ns \/ R(scope[j], arg) = NoBody
  BY <1>7, <1>8, <1>9
<1>11. arg # t => c.kind = "function" /\ arg = Poly /\ R(ns, Poly) # NoBody
                  /\ \A j \in DOMAIN scope : R(scope[j], t) = NoBody
  BY <1>7, <1>8
<1>12. \A a : Reached(cat, c, path, a) <=> \E j \in DOMAIN scope : R(scope[j], a) # NoBody
  BY DEF Reached, R, scope
<1>13. arg = t => Reached(cat, c, path, t)
  BY <1>6, <1>7, <1>12
<1>14. arg # t => ~Reached(cat, c, path, t) /\ arg \in Inexact(c, t)
  BY <1>11, <1>12 DEF Inexact
<1>15. MayRun(cat, c, path, t, ns, arg)
  BY <1>6, <1>7, <1>10, <1>14 DEF MayRun, R, scope
<1>16. UnseenOverload(cat, c, path, t) => c.kind = "function" /\ R(ns, Poly) # NoBody
  BY <1>11, <1>13 DEF UnseenOverload
<1>17. ASSUME ~UnseenOverload(cat, c, path, t), NEW n \in Namespaces, NEW a \in ArgTypes,
              MayRun(cat, c, path, t, n, a)
       PROVE  n = ns /\ a = arg
  <2>1. PICK k \in DOMAIN scope : scope[k] = n
    BY <1>17 DEF MayRun, scope
  <2>2. R(n, a) # NoBody /\ Reached(cat, c, path, a)
    BY <1>12, <1>17, <2>1 DEF MayRun, R
  <2>3. CASE a = t
    <3>1. arg = t
      BY <1>11, <2>1, <2>2, <2>3
    <3>2. QED
      BY <1>4, <2>1, <2>2, <2>3, <3>1 DEF Offers, R
  <2>4. CASE a # t
    <3>1. a \in Inexact(c, t) /\ ~Reached(cat, c, path, t)
      BY <1>17, <2>4 DEF MayRun
    <3>2. a \notin CoercedFrom(t)
      BY <1>17, <2>2, <3>1 DEF UnseenOverload
    <3>3. a = Poly /\ c.kind = "function"
      BY <3>1, <3>2 DEF Inexact
    <3>4. arg # t
      BY <1>13, <3>1
    <3>5. QED
      BY <1>8, <1>11, <2>1, <2>2, <3>3, <3>4
  <2>5. QED
    BY <2>3, <2>4
<1>18. QED
  BY <1>15, <1>16, <1>17 DEF R

\* The count the lookup accepts runs and no other, unless the literal fits one of a
\* concrete type that stands elsewhere.
LEMMA VisibleCountRuns ==
  ASSUME NEW cat \in Catalog, NEW c \in Candidate, c.kind = "count",
         NEW path \in Seq(Namespaces),
         CountVisible(cat, c, path), ~UnseenOverload(cat, c, path, LiteralType)
  PROVE  /\ MayRun(cat, c, path, LiteralType, PgCatalog, Poly)
         /\ \A n \in Namespaces, a \in ArgTypes :
              MayRun(cat, c, path, LiteralType, n, a) => n = PgCatalog /\ a = Poly
<1>1. PICK i \in DOMAIN path :
        /\ path[i] = PgCatalog
        /\ \A j \in 1..(i - 1), a \in ArgTypes \ {NoArgs} :
             cat.routine[<<c.sym, path[j], a>>] = NoBody
  BY DEF CountVisible
<1>2. Poly \in ArgTypes \ {NoArgs}
  BY EffectIdentityAssumption DEF ArgTypes
<1>3. Scope(c, path) = path
  BY DEF Scope, Candidate, ExplicitlyQualified
<1>4. \A a \in {LiteralType} \cup CoercedFrom(LiteralType) : ~Reached(cat, c, path, a)
  BY DEF UnseenOverload
<1>5. MayRun(cat, c, path, LiteralType, PgCatalog, Poly)
  BY <1>1, <1>2, <1>3, <1>4 DEF MayRun, CountVisible, Inexact
<1>6. ASSUME NEW n \in Namespaces, NEW a \in ArgTypes,
             MayRun(cat, c, path, LiteralType, n, a)
      PROVE  n = PgCatalog /\ a = Poly
  <2>1. PICK k \in DOMAIN path :
          /\ path[k] = n
          /\ \A j \in 1..(k - 1) : path[j] = n \/ cat.routine[<<c.sym, path[j], a>>] = NoBody
    BY <1>3, <1>6 DEF MayRun
  <2>2. cat.routine[<<c.sym, n, a>>] # NoBody
    BY <1>6 DEF MayRun
  <2>3. Reached(cat, c, path, a)
    BY <1>3, <2>1, <2>2 DEF Reached
  <2>4. a = Poly
    BY <1>4, <1>6, <2>3 DEF MayRun, Inexact
  <2>5. cat.routine[<<c.sym, PgCatalog, Poly>>] # NoBody
    BY DEF CountVisible
  <2>6. k \in Nat /\ i \in Nat /\ k >= 1 /\ i >= 1
    OBVIOUS
  <2>7. CASE k < i
    BY <1>1, <1>2, <2>1, <2>2, <2>4, <2>6, <2>7
  <2>8. CASE i < k
    BY <1>1, <2>1, <2>4, <2>5, <2>6, <2>8
  <2>9. QED
    BY <1>1, <2>1, <2>4, <2>6, <2>7, <2>8
<1>7. QED
  BY <1>5, <1>6

\* A promoted effect other than COUNT(1) is audited in the transaction's snapshot,
\* along the path captured with it, but for a polymorphic function with an overload that
\* was not seen.
LEMMA PromotedInSnapshot ==
  ASSUME IInv, decision = "allProven", NEW o \in Candidates, cands[o].kind # "count"
  PROVE  /\ CalledWith(snapshot, o) # NoType
         /\ AuditedAlong(snapshot, o, live1.path)
         /\ UnseenOverload(snapshot, cands[o], live1.path, CalledWith(snapshot, o)) =>
              /\ cands[o].kind = "function"
              /\ \E ns \in Namespaces : snapshot.routine[<<cands[o].sym, ns, Poly>>] # NoBody
<1> DEFINE c  == cands[o]
<1> DEFINE id == items[o].fact.id
<1> DEFINE t  == CalledWith(snapshot, o)
<1>1. /\ c \in Candidate /\ snapshot \in Catalog /\ live1.path \in Seq(Namespaces)
      /\ types[o] \in Types \cup {NoType}
  BY EffectProofAssumption DEF TypeOK, Context
<1>2. Grounded(o) /\ id \in Manifest
  BY DEF DecisionInv, ItemsInv
<1>3. t = LookedUp(o) /\ t # NoType
  BY <1>2 DEF CalledWith, LookedUp, Grounded, TypesInv
<1>4. t \in ArgTypes
  BY <1>1, <1>3 DEF LookedUp, ArgTypes
<1>5. Matches(snapshot, c, live1.path, t) = {<<id.ns, id.arg>>}
  BY <1>2, <1>3 DEF Grounded
<1>6. id.ns \in Namespaces /\ id.arg \in ArgTypes
  BY <1>2 DEF Grounded
<1> HIDE DEF t
<1>7. /\ MayRun(snapshot, c, live1.path, t, id.ns, id.arg)
      /\ UnseenOverload(snapshot, c, live1.path, t) =>
           c.kind = "function" /\ snapshot.routine[<<c.sym, id.ns, Poly>>] # NoBody
      /\ ~UnseenOverload(snapshot, c, live1.path, t) =>
           \A n \in Namespaces, a \in ArgTypes :
             MayRun(snapshot, c, live1.path, t, n, a) => n = id.ns /\ a = id.arg
  BY <1>1, <1>4, <1>5, <1>6, UniqueMatchRuns
<1>8. ~UnseenOverload(snapshot, c, live1.path, t) => RunsAudited(snapshot, c, live1.path, t)
  BY <1>2, <1>6, <1>7 DEF Grounded, RunsAudited
<1>9. QED
  BY <1>3, <1>6, <1>7, <1>8 DEF t, AuditedAlong

\* A promoted statement is audited in its transaction's snapshot.
LEMMA PromotedAudited ==
  ASSUME IInv, decision = "allProven", NEW o \in Candidates
  PROVE  Audited(snapshot, o)
<1> DEFINE c  == cands[o]
<1> DEFINE id == items[o].fact.id
<1>1. /\ c \in Candidate /\ snapshot \in Catalog /\ sessions \subseteq Session
      /\ \A s \in Session : s.path \in Seq(Namespaces)
      /\ live1.path \in Seq(Namespaces) /\ types[o] \in Types \cup {NoType}
  BY EffectProofAssumption DEF TypeOK, Session, Context
<1>2. /\ Grounded(o) /\ id \in Manifest
      /\ ~ExplicitlyQualified(c) => live1.path = finalCtx.path
  BY DEF DecisionInv, ItemsInv
<1>3. CASE c.kind = "count"
  <2>1. PICK s \in sessions : CountVisible(snapshot, c, s.path)
    BY <1>2, <1>3 DEF Grounded
  <2>2. CalledWith(snapshot, o) = LiteralType
    BY <1>3 DEF CalledWith, UsesColumnType
  <2>3. CASE ~UnseenOverload(snapshot, c, s.path, LiteralType)
    <3>1. /\ MayRun(snapshot, c, s.path, LiteralType, PgCatalog, Poly)
          /\ \A n \in Namespaces, a \in ArgTypes :
               MayRun(snapshot, c, s.path, LiteralType, n, a) => n = PgCatalog /\ a = Poly
      BY <1>1, <1>3, <2>1, <2>3, VisibleCountRuns
    <3>2. id.ns = PgCatalog /\ id.arg = Poly
      BY <1>2, <1>3 DEF Grounded
    <3>3. RunsAudited(snapshot, c, s.path, LiteralType)
      BY <1>2, <3>1, <3>2 DEF Grounded, RunsAudited
    <3>4. QED
      BY <1>3, <2>2, <3>3 DEF Audited, AuditedAlong
  <2>4. QED
    BY <1>3, <2>2, <2>3 DEF Audited, AuditedAlong
<1>4. CASE c.kind # "count"
  <2>1. CalledWith(snapshot, o) # NoType /\ AuditedAlong(snapshot, o, live1.path)
    BY <1>4, PromotedInSnapshot
  <2>2. Scope(c, live1.path) = Scope(c, finalCtx.path)
    BY <1>2 DEF Scope
  <2> DEFINE t == CalledWith(snapshot, o)
  <2>3. \A a : Reached(snapshot, c, live1.path, a) = Reached(snapshot, c, finalCtx.path, a)
    BY <2>2 DEF Reached
  <2>4. \A n, a : MayRun(snapshot, c, live1.path, t, n, a) <=> MayRun(snapshot, c, finalCtx.path, t, n, a)
    BY <2>2, <2>3 DEF MayRun
  <2> HIDE DEF t
  <2>5. RunsAudited(snapshot, c, live1.path, t) => RunsAudited(snapshot, c, finalCtx.path, t)
    BY <2>4 DEF RunsAudited
  <2>6. UnseenOverload(snapshot, c, live1.path, t) => UnseenOverload(snapshot, c, finalCtx.path, t)
    BY <2>3 DEF UnseenOverload
  <2>7. AuditedAlong(snapshot, o, finalCtx.path)
    BY <2>1, <2>5, <2>6 DEF AuditedAlong, t
  <2>8. QED
    BY <1>4, <2>1, <2>7 DEF Audited
<1>5. QED
  BY <1>3, <1>4

\* However DDL, drift and faults interleave with its lookups, a statement is promoted
\* only if PostgreSQL would run nothing but audited routines for it in one version of
\* the catalog committed since its proof began.
THEOREM PromotionSound == Spec => []PromotionFromOneSnapshot
<1>1. IInv => PromotionFromOneSnapshot
  BY PromotedAudited DEF PromotionFromOneSnapshot, DecisionInv
<1>2. QED
  BY <1>1, Invariance, PTL

\* A promoted statement was proven under one backend, database, role and version,
\* and under one search_path if it has an unqualified effect.
THEOREM SessionSound == Spec => []PromotedUnderOneSession
<1>1. ASSUME IInv, decision = "allProven"
      PROVE  PromotedUnderOneSession
  <2>1. /\ initialCtx.bound /\ finalCtx.bound /\ initialCtx.ident \in Idents
        /\ finalCtx.ident \in Idents /\ initialCtx.ident.binding = finalCtx.ident.binding
        /\ initialCtx.ident.role = finalCtx.ident.role
        /\ initialCtx.ident.pin = finalCtx.ident.pin
    BY <1>1 DEF DecisionInv, ContextInv, Witnessed, ResolutionContextSessionCompatible,
                ResolutionContextSessionComplete
  <2>2. initialCtx.ident = finalCtx.ident
    BY <2>1 DEF Idents
  <2>3. QED
    BY <1>1, <2>1, <2>2 DEF PromotedUnderOneSession, DecisionInv, ContextInv, Witnessed
<1>2. IInv => PromotedUnderOneSession
  BY <1>1 DEF PromotedUnderOneSession
<1>3. QED
  BY <1>2, Invariance, PTL

\* A proof in which anything failed never promotes.
THEOREM FaultsSound == Spec => []FaultsFailClosed
<1>1. IInv => FaultsFailClosed
  BY DEF FaultsFailClosed, DecisionInv
<1>2. QED
  BY <1>1, Invariance, PTL

\* No way out of a proof leaves its transaction open.
THEOREM TransactionsClosed == Spec => []NoOpenTransaction
<1>1. IInv => NoOpenTransaction
  BY DEF NoOpenTransaction, PhaseInv, Looking
<1>2. QED
  BY <1>1, Invariance, PTL

-----------------------------------------------------------------------------
(* Refinement of PromotionContract.                                        *)

\* The routines a catalog has, to begin with or after any DDL.
Routines == Symbols \X Namespaces \X ArgTypes
Known    == UserRoutines \cup
            {k \in Routines : \E cat \in Catalogs0 : cat.routine[k] # NoBody}

OnlyKnown ==
  \A v \in versions \cup {catalog}, k \in Routines : v.routine[k] # NoBody => k \in Known

\* Counts of a type that the literal has or is coerced to, and any that fits it but
\* pg_catalog's own.
FittingCounts ==
  {k \in Routines : /\ k[3] \in {LiteralType} \cup CoercedFrom(LiteralType)
                    /\ \E c \in Shapes : c.kind = "count" /\ c.sym = k[1]}
OtherCounts ==
  FittingCounts \cup
  {k \in Routines : /\ k[3] = Poly /\ k[2] # PgCatalog
                    /\ \E c \in Shapes : c.kind = "count" /\ c.sym = k[1]}

\* The polymorphic routines of a symbol, and those a coercion of some type leads to.
Polymorphic(sym) == {k \in Routines : k[1] = sym /\ k[3] = Poly}
Coerced(sym)     == {k \in Routines : k[1] = sym /\ \E t \in Types : k[3] \in Coercible[t]}

\* Nothing is or gets into a schema that could run in place of what the lookups find.
NoRivals ==
  /\ OtherCounts \cap Known = {}
  /\ (\E c \in Shapes : c.kind = "count") => \A path \in Paths : PgCatalog \in PathSet(path)
  /\ \A c \in Shapes : c.kind = "function" =>
       Polymorphic(c.sym) \cap Known = {} \/ Coerced(c.sym) \cap Known = {}

\* What a proof step leaves alone.
LEMMA ProofFrame ==
  ASSUME Proof
  PROVE  UNCHANGED <<catalog, session, versions, sessions, cands>>
BY DEF Proof, Begin, BeginTx, CaptureLive1, ResolveType, TypesDone, ResolveIdentity,
       IdentitiesDone, CaptureLive2, CommitTx, Decide

\* DDL brings no routine but what it may.
LEMMA KnownNext ==
  IInv /\ OnlyKnown /\ [Next]_vars => OnlyKnown'
<1> SUFFICES ASSUME IInv, OnlyKnown, [Next]_vars
             PROVE  OnlyKnown'
  OBVIOUS
<1>1. ASSUME NEW new, Commit(new), \A k \in Routines : new.routine[k] # NoBody => k \in Known
      PROVE  OnlyKnown'
  BY <1>1 DEF OnlyKnown, Commit, SinceBegin
<1>2. CASE Environment
  <2>1. ASSUME NEW o \in Candidates, NEW t \in Types \cup {NoType}, AlterColumn(o, t)
        PROVE  OnlyKnown'
    <3>1. [catalog EXCEPT !.column[o] = t].routine = catalog.routine
      BY DEF IInv, TypeOK, Catalog
    <3>2. QED
      BY <1>1, <2>1, <3>1 DEF AlterColumn, OnlyKnown
  <2>2. ASSUME NEW r \in UserRoutines, NEW body \in UserBodies \cup {NoBody},
               ReplaceRoutine(r, body)
        PROVE  OnlyKnown'
    <3> DEFINE new == [catalog EXCEPT !.routine[r] = body]
    <3>1. \A k \in Routines : k # r => new.routine[k] = catalog.routine[k]
      BY DEF IInv, TypeOK, Catalog, Routines
    <3>2. r \in Known
      BY DEF Known
    <3>3. \A k \in Routines : new.routine[k] # NoBody => k \in Known
      BY <3>1, <3>2 DEF OnlyKnown
    <3>4. Commit(new)
      BY <2>2 DEF ReplaceRoutine
    <3> HIDE DEF new
    <3>5. QED
      BY <1>1, <3>3, <3>4
  <2>3. ASSUME NEW s \in Session, SessionDrift(s)
        PROVE  OnlyKnown'
    BY <2>3 DEF SessionDrift, dbVars, OnlyKnown
  <2>4. QED
    BY <1>2, <2>1, <2>2, <2>3 DEF Environment
<1>3. CASE Proof
  BY <1>3, ProofFrame DEF OnlyKnown
<1>4. CASE NextStatement
  BY <1>4 DEF NextStatement, OnlyKnown
<1>5. CASE UNCHANGED vars
  BY <1>5 DEF vars, dbVars, OnlyKnown
<1>6. QED
  BY <1>2, <1>3, <1>4, <1>5 DEF Next

\* Every behaviour has known routines only.
LEMMA KnownOnly == Spec => []OnlyKnown
<1>1. Init => OnlyKnown
  BY DEF Init, OnlyKnown, Known
<1>2. QED
  BY <1>1, KnownNext, Invariance, PTL DEF Spec

\* The path of a promoted statement with an unqualified effect is a session's.
LEMMA PromotedPath ==
  ASSUME IInv, decision = "allProven", NEW o \in Candidates, ~ExplicitlyQualified(cands[o])
  PROVE  live1.path \in Paths
<1>1. initialCtx.bound /\ live1.path = initialCtx.path
  BY DEF IInv, DecisionInv, ResolutionContextSessionCompatible, ResolutionContextSessionComplete
<1>2. QED
  BY <1>1, EffectProofAssumption DEF IInv, TypeOK, ContextInv, Witnessed, Session

\* A COUNT(1) whose lookup found pg_catalog's runs it along every path, if there is no other.
LEMMA BuiltinCountRuns ==
  ASSUME IInv, NoRivals, OnlyKnown, decision = "allProven",
         NEW o \in Candidates, cands[o].kind = "count"
  PROVE  RunsAudited(snapshot, cands[o], live1.path, LiteralType)
<1> DEFINE c == cands[o]
<1> DEFINE path == live1.path
<1>1. /\ c \in Shapes /\ c \in Candidate /\ c.sym \in Symbols /\ ~ExplicitlyQualified(c)
      /\ snapshot \in Catalog
  BY EffectProofAssumption DEF IInv, TypeOK, Candidate, ExplicitlyQualified
<1>2. Grounded(o) /\ IsResolved(items[o]) /\ items[o].fact.id \in Manifest /\ snapshot \in versions
  BY DEF IInv, DecisionInv, ItemsInv
<1>3. /\ [kind |-> c.kind, sym |-> c.sym, ns |-> PgCatalog, arg |-> Poly,
          body |-> snapshot.routine[<<c.sym, PgCatalog, Poly>>]] \in Manifest
      /\ snapshot.routine[<<c.sym, PgCatalog, Poly>>] # NoBody
  BY <1>2 DEF Grounded, CountVisible
<1>4. path \in Paths /\ path \in Seq(Namespaces) /\ Scope(c, path) = path
  BY <1>1, PromotedPath, EffectProofAssumption DEF Scope
<1>5. PICK i \in DOMAIN path : path[i] = PgCatalog
  BY <1>1, <1>4 DEF NoRivals, PathSet
<1>6. /\ LiteralType \in ArgTypes /\ Poly \in ArgTypes /\ PgCatalog \in Namespaces
      /\ CoercedFrom(LiteralType) \subseteq ArgTypes
      /\ \A j \in DOMAIN path : path[j] \in Namespaces
  BY <1>4, EffectProofAssumption, EffectIdentityAssumption DEF ArgTypes, CoercedFrom
<1>7. /\ \A ns \in Namespaces, a \in {LiteralType} \cup CoercedFrom(LiteralType) :
           snapshot.routine[<<c.sym, ns, a>>] = NoBody
      /\ \A ns \in Namespaces : ns # PgCatalog => snapshot.routine[<<c.sym, ns, Poly>>] = NoBody
  BY <1>1, <1>2, <1>6 DEF NoRivals, OnlyKnown, OtherCounts, FittingCounts, Routines
<1> HIDE DEF path, c
<1>8. \A j \in 1..(i - 1) : j \in DOMAIN path
  BY <1>4, <1>5
<1>9. ~Reached(snapshot, c, path, LiteralType)
  BY <1>4, <1>6, <1>7 DEF Reached
<1>10. c.kind = "count"
  BY DEF c
<1>11. MayRun(snapshot, c, path, LiteralType, PgCatalog, Poly)
  BY <1>3, <1>4, <1>5, <1>6, <1>7, <1>8, <1>9, <1>10 DEF MayRun, Inexact
<1>12. ASSUME NEW n \in Namespaces, NEW a \in ArgTypes,
              MayRun(snapshot, c, path, LiteralType, n, a)
       PROVE  n = PgCatalog /\ a = Poly
  <2>1. snapshot.routine[<<c.sym, n, a>>] # NoBody /\ a \in {LiteralType} \cup Inexact(c, LiteralType)
    BY <1>12 DEF MayRun
  <2>2. a = Poly
    BY <1>7, <2>1 DEF Inexact
  <2>3. QED
    BY <1>7, <2>1, <2>2
<1>13. RunsAudited(snapshot, c, path, LiteralType)
  BY <1>3, <1>6, <1>11, <1>12 DEF RunsAudited
<1>14. QED
  BY <1>13 DEF c, path

\* A promoted effect of another kind has no overload that was not seen.
LEMMA NoneUnseen ==
  ASSUME IInv, NoRivals, OnlyKnown, decision = "allProven",
         NEW o \in Candidates, cands[o].kind # "count"
  PROVE  ~UnseenOverload(snapshot, cands[o], live1.path, CalledWith(snapshot, o))
<1> DEFINE c == cands[o]
<1> DEFINE t == CalledWith(snapshot, o)
<1> SUFFICES ASSUME UnseenOverload(snapshot, c, live1.path, t)
             PROVE  FALSE
  OBVIOUS
<1>1. /\ c \in Shapes /\ c \in Candidate /\ c.sym \in Symbols /\ snapshot \in versions
      /\ live1.path \in Seq(Namespaces)
  BY EffectProofAssumption DEF IInv, TypeOK, Context, Candidate, DecisionInv
<1>2. /\ c.kind = "function"
      /\ \E ns \in Namespaces : snapshot.routine[<<c.sym, ns, Poly>>] # NoBody
  BY PromotedInSnapshot
<1>3. Polymorphic(c.sym) \cap Known # {}
  BY <1>1, <1>2 DEF OnlyKnown, Polymorphic, Routines, ArgTypes
<1>4. Coerced(c.sym) \cap Known = {}
  BY <1>1, <1>2, <1>3 DEF NoRivals
<1> HIDE DEF t
<1>5. PICK arg \in CoercedFrom(t) : Reached(snapshot, c, live1.path, arg)
  BY <1>2 DEF UnseenOverload
<1>6. t \in Types /\ arg \in Coercible[t] /\ arg \in Types
  BY <1>5, EffectProofAssumption DEF CoercedFrom
<1>7. PICK i \in DOMAIN Scope(c, live1.path) :
        snapshot.routine[<<c.sym, Scope(c, live1.path)[i], arg>>] # NoBody
  BY <1>5 DEF Reached
<1>8. Scope(c, live1.path)[i] \in Namespaces
  BY <1>1, <1>7 DEF Scope, Candidate, ExplicitlyQualified
<1>9. <<c.sym, Scope(c, live1.path)[i], arg>> \in Coerced(c.sym)
  BY <1>1, <1>6, <1>8 DEF Coerced, Routines, ArgTypes
<1>10. QED
  BY <1>1, <1>4, <1>7, <1>9 DEF OnlyKnown, Coerced

\* The contract's two Boolean variables.
Now  == AllAudited(catalog, session.path)
Seen == ContractPhase = "looked" /\ AllAudited(snapshot, live1.path)

\* A promotion finds evidence, in the words of the contract.
LEMMA EvidenceAtPromotion ==
  NoRivals /\ OnlyKnown /\ IInv /\ decision = "allProven" => AllAudited(snapshot, live1.path)
<1> SUFFICES ASSUME NoRivals, OnlyKnown, IInv, decision = "allProven", NEW o \in Candidates
             PROVE  /\ CalledWith(snapshot, o) # NoType
                    /\ RunsAudited(snapshot, cands[o], live1.path, CalledWith(snapshot, o))
  BY DEF AllAudited
<1>1. CASE cands[o].kind # "count"
  BY <1>1, PromotedInSnapshot, NoneUnseen DEF AuditedAlong
<1>2. CASE cands[o].kind = "count"
  <2>1. CalledWith(snapshot, o) = LiteralType /\ LiteralType # NoType
    BY <1>2, EffectProofAssumption, EffectIdentityAssumption DEF CalledWith, UsesColumnType, ArgTypes
  <2>2. QED
    BY <1>2, <2>1, BuiltinCountRuns
<1>3. QED
  BY <1>1, <1>2

\* The same of the next state.
LEMMA EvidenceAtNextPromotion ==
  (NoRivals /\ OnlyKnown /\ IInv /\ decision = "allProven")' => AllAudited(snapshot, live1.path)'
BY EvidenceAtPromotion, PTL

\* Both are truth values, in every state and the next.
LEMMA Truth ==
  /\ Now \in BOOLEAN /\ Now' \in BOOLEAN
  /\ Seen \in BOOLEAN /\ Seen' \in BOOLEAN
BY Zenon DEF Now, Seen, AllAudited

\* What is audited depends on the statement, the catalog and the path.
LEMMA NowStable ==
  ASSUME UNCHANGED <<cands, catalog, session>>
  PROVE  Now' = Now
BY DEF Now, AllAudited, RunsAudited, MayRun, Reached, CalledWith

\* The same of what the proof has seen.
LEMMA SeenStable ==
  ASSUME UNCHANGED <<cands, snapshot, live1, ContractPhase>>
  PROVE  Seen' = Seen
BY DEF Seen, AllAudited, RunsAudited, MayRun, Reached, CalledWith

\* The look of the proof: the snapshot is the catalog, the capture the session.
LEMMA LookStable ==
  ASSUME cands' = cands, snapshot' = catalog, live1'.path = session.path
  PROVE  AllAudited(snapshot, live1.path)' <=> AllAudited(catalog, session.path)
BY DEF AllAudited, RunsAudited, MayRun, Reached, CalledWith

\* The evidence stays while snapshot, capture and statement do.
LEMMA SnapshotStable ==
  ASSUME UNCHANGED <<cands, snapshot, live1>>
  PROVE  AllAudited(snapshot, live1.path)' <=> AllAudited(snapshot, live1.path)
BY DEF AllAudited, RunsAudited, MayRun, Reached, CalledWith

\* Nothing is seen outside the looked phase.
LEMMA Unseen ==
  /\ ContractPhase # "looked" => Seen = FALSE
  /\ ContractPhase' # "looked" => Seen' = FALSE
BY Truth DEF Seen

\* The contract's actions, in those words.
LEMMA ContractActions ==
  /\ Seen' = Seen /\ UNCHANGED <<ContractPhase, ContractVerdict>>
       => Contract!Change
  /\ ContractPhase = "open" /\ ContractPhase' = "looked" /\ Seen' = Now
     /\ Now' = Now /\ UNCHANGED ContractVerdict
       => Contract!Look
  /\ ContractPhase \in {"open", "looked"} /\ ContractPhase' = "abandoned"
     /\ Now' = Now /\ UNCHANGED ContractVerdict
       => Contract!Abandon
  /\ ContractPhase = "looked" /\ Seen /\ ContractPhase' = "decided"
     /\ ContractVerdict' = "promoted" /\ Now' = Now
       => Contract!Promote
  /\ ContractPhase # "decided" /\ ContractPhase' = "decided"
     /\ ContractVerdict' = "refused" /\ Now' = Now
       => Contract!Refuse
  /\ ContractPhase = "decided" /\ ContractPhase' = "open" /\ ContractVerdict' = "none"
       => Contract!Reopen
<1>1. Seen' = Seen /\ UNCHANGED <<ContractPhase, ContractVerdict>> => Contract!Change
  BY Truth DEF Now, Seen, Contract!Change
<1>2. ASSUME ContractPhase = "open", ContractPhase' = "looked", Seen' = Now,
             Now' = Now, UNCHANGED ContractVerdict
      PROVE  Contract!Look
  BY Zenon, <1>2 DEF Now, Seen, Contract!Look
<1>3. ASSUME ContractPhase \in {"open", "looked"}, ContractPhase' = "abandoned",
             Now' = Now, UNCHANGED ContractVerdict
      PROVE  Contract!Abandon
  <2>1. Seen' = FALSE
    BY <1>3, Unseen
  <2>2. QED
    BY Zenon, <1>3, <2>1 DEF Now, Seen, Contract!Abandon
<1>4. ASSUME ContractPhase = "looked", Seen, ContractPhase' = "decided",
             ContractVerdict' = "promoted", Now' = Now
      PROVE  Contract!Promote
  <2>1. Seen' = FALSE
    BY <1>4, Unseen
  <2>2. QED
    BY Zenon, <1>4, <2>1 DEF Now, Seen, Contract!Promote
<1>5. ASSUME ContractPhase # "decided", ContractPhase' = "decided",
             ContractVerdict' = "refused", Now' = Now
      PROVE  Contract!Refuse
  <2>1. Seen' = FALSE
    BY <1>5, Unseen
  <2>2. QED
    BY Zenon, <1>5, <2>1 DEF Now, Seen, Contract!Refuse
<1>6. /\ ContractPhase = "decided" /\ ContractPhase' = "open" /\ ContractVerdict' = "none"
        => Contract!Reopen
  <2>1. ContractPhase' = "open" => Seen' = FALSE
    BY Unseen
  <2>2. Now' \in BOOLEAN
    BY Truth
  <2>3. QED
    BY <2>1, <2>2 DEF Now, Seen, Contract!Reopen
<1>7. QED
  BY <1>1, <1>2, <1>3, <1>4, <1>5, <1>6

\* What a step of the proof shows the contract.
LEMMA ContractStep ==
  ASSUME NoRivals, OnlyKnown', IInv, IInv', [Next]_vars
  PROVE  [Contract!Next]_(Contract!vars)
<1>1. decision # "none" <=> pc = "done"
  BY DEF IInv, PhaseInv
<1>2. Contract!Change \/ Contract!Look \/ Contract!Abandon \/ Contract!Promote
        \/ Contract!Refuse \/ Contract!Reopen => [Contract!Next]_(Contract!vars)
  BY DEF Contract!Next
<1>3. ASSUME Environment
      PROVE  Contract!Change
  <2>1. UNCHANGED <<ctxVars, pc, cands, decision, snapshot>>
    BY <1>3 DEF Environment, AlterColumn, ReplaceRoutine, Commit, SessionDrift
  <2>2. UNCHANGED <<cands, snapshot, live1, ContractPhase, ContractVerdict>>
    BY <2>1 DEF ctxVars, ContractPhase, ContractVerdict
  <2>3. QED
    BY <2>2, SeenStable, ContractActions
<1>4. ASSUME Begin \/ BeginTx
      PROVE  Contract!Change \/ Contract!Refuse
  <2>1. /\ UNCHANGED <<cands, snapshot, live1, catalog, session, finalCtx>>
        /\ pc \in {"begin", "beginTx"} /\ decision = "none"
    BY <1>1, <1>4 DEF Begin, BeginTx, dbVars, sessVars, txVars, ctxVars
  <2>2. CASE pc' = "done"
    <3>1. decision' \in {"hasUnproven", "hasUnknown"}
      BY <1>4, <2>1, <2>2 DEF Begin, BeginTx, Finish
    <3>2. ContractPhase = "open" /\ ContractPhase' = "decided" /\ ContractVerdict' = "refused"
      BY <2>1, <2>2, <3>1 DEF ContractPhase, ContractVerdict
    <3>3. QED
      BY <2>1, <3>2, NowStable, ContractActions
  <2>3. CASE pc' # "done"
    <3>1. decision' = decision /\ pc' \in {"beginTx", "live1"}
      BY <1>4, <2>3 DEF Begin, BeginTx, Finish
    <3>2. ContractPhase' = ContractPhase /\ ContractVerdict' = ContractVerdict
      BY <2>1, <3>1 DEF ContractPhase, ContractVerdict
    <3>3. QED
      BY <2>1, <3>2, SeenStable, ContractActions
  <2>4. QED
    BY <2>2, <2>3
<1>5. ASSUME CaptureLive1
      PROVE  Contract!Look \/ Contract!Abandon
  <2>1. /\ UNCHANGED <<cands, session, catalog, decision>>
        /\ pc = "live1" /\ snapshot' = catalog
    BY <1>5 DEF CaptureLive1, dbVars, sessVars
  <2>2. ContractPhase = "open" /\ ContractVerdict' = ContractVerdict
    BY <2>1 DEF ContractPhase, ContractVerdict
  <2>3. CASE GiveUp
    <3>1. pc' = "decide" /\ ~finalCtx'.bound
      BY <2>3, GiveUpEffect
    <3>2. ContractPhase' = "abandoned"
      BY <3>1 DEF ContractPhase
    <3>3. QED
      BY <2>1, <2>2, <3>2, NowStable, ContractActions
  <2>4. CASE pc' = "types" /\ live1' = Live
    <3>1. ContractPhase' = "looked"
      BY <2>4 DEF ContractPhase
    <3>2. Seen' = Now
      <4>1. live1'.path = session.path
        BY <2>4 DEF Live
      <4>2. QED
        BY <2>1, <3>1, <4>1, LookStable, Truth DEF Seen, Now
    <3>3. QED
      BY <2>1, <2>2, <3>1, <3>2, NowStable, ContractActions
  <2>5. QED
    BY <1>5, <2>3, <2>4 DEF CaptureLive1
<1>6. ASSUME ResolveType \/ TypesDone \/ ResolveIdentity \/ IdentitiesDone \/ CaptureLive2
      PROVE  Contract!Change
  <2>1. /\ UNCHANGED <<cands, snapshot, live1, decision>>
        /\ pc \in {"types", "identities", "live2"}
        /\ pc' \in {"types", "identities", "live2", "commit"}
    BY <1>6 DEF ResolveType, TypesDone, ResolveIdentity, IdentitiesDone, CaptureLive2,
                txVars, ctxVars
  <2>2. ContractPhase' = ContractPhase /\ ContractVerdict' = ContractVerdict
    BY <2>1 DEF ContractPhase, ContractVerdict
  <2>3. QED
    BY <2>1, <2>2, SeenStable, ContractActions
<1>7. ASSUME CommitTx
      PROVE  Contract!Change \/ Contract!Abandon
  <2>1. /\ UNCHANGED <<cands, snapshot, live1, decision, catalog, session>>
        /\ pc = "commit" /\ pc' = "decide"
    BY <1>7, GiveUpEffect DEF CommitTx, dbVars, sessVars, ctxVars
  <2>2. ContractPhase = "looked" /\ ContractVerdict' = ContractVerdict
    BY <2>1 DEF ContractPhase, ContractVerdict
  <2>3. ContractPhase' = IF finalCtx'.bound THEN "looked" ELSE "abandoned"
    BY <2>1 DEF ContractPhase
  <2>4. QED
    BY <2>1, <2>2, <2>3, SeenStable, NowStable, ContractActions
<1>8. ASSUME Decide
      PROVE  Contract!Promote \/ Contract!Refuse
  <2>1. /\ UNCHANGED <<cands, snapshot, live1, finalCtx, catalog, session>>
        /\ pc = "decide" /\ pc' = "done"
    BY <1>8 DEF Decide, Finish, dbVars, sessVars, txVars, ctxVars
  <2>2. decision' # "none"
    BY <2>1 DEF IInv, PhaseInv
  <2>3. ContractPhase \in {"looked", "abandoned"} /\ ContractPhase' = "decided"
    BY <2>1 DEF ContractPhase
  <2>4. CASE decision' = "allProven"
    <3>1. AllAudited(snapshot, live1.path)'
      BY <2>4, EvidenceAtNextPromotion
    <3>2. AllAudited(snapshot, live1.path)
      BY <2>1, <3>1, SnapshotStable
    <3>3. finalCtx.bound
      BY <2>1, <2>4 DEF IInv, DecisionInv, ResolutionContextSessionCompatible,
                        ResolutionContextSessionComplete
    <3>4. ContractPhase = "looked" /\ ContractVerdict' = "promoted"
      BY <2>1, <2>4, <3>3 DEF ContractPhase, ContractVerdict
    <3>5. Seen
      BY <3>2, <3>4 DEF Seen
    <3>6. QED
      BY <2>1, <2>3, <3>4, <3>5, NowStable, ContractActions
  <2>5. CASE decision' # "allProven"
    <3>1. ContractVerdict' = "refused"
      BY <2>2, <2>5 DEF ContractVerdict
    <3>2. QED
      BY <2>1, <2>3, <3>1, NowStable, ContractActions
  <2>6. QED
    BY <2>4, <2>5
<1>9. ASSUME NextStatement
      PROVE  Contract!Reopen
  <2>1. pc = "done" /\ pc' = "begin" /\ decision' = "none"
    BY <1>9 DEF NextStatement
  <2>2. ContractPhase = "decided" /\ ContractPhase' = "open" /\ ContractVerdict' = "none"
    BY <2>1 DEF ContractPhase, ContractVerdict
  <2>3. QED
    BY <2>2, ContractActions
<1>10. ASSUME UNCHANGED vars
       PROVE  Contract!Change
  <2>1. UNCHANGED <<cands, snapshot, live1, ContractPhase, ContractVerdict>>
    BY <1>10 DEF vars, txVars, ctxVars, ContractPhase, ContractVerdict
  <2>2. QED
    BY <2>1, SeenStable, ContractActions
<1>11. QED
  BY <1>2, <1>3, <1>4, <1>5, <1>6, <1>7, <1>8, <1>9, <1>10 DEF Next, Proof

\* The proof is an implementation of the contract: a promotion rests on one atomic look
\* at the database. COUNT(1), whose lookup reads the search_path again, needs that no
\* schema has a count which the literal fits but pg_catalog's, and that every path has
\* pg_catalog, as current_schemas(true) has it; a function called through a polymorphic
\* form, that no schema has one its argument is coerced to; others need nothing.
THEOREM Refinement ==
  ASSUME NoRivals
  PROVE  Spec => ImplementsContract
<1>1. Init => Contract!Init
  <2>1. Init => ContractPhase = "open" /\ ContractVerdict = "none"
    BY DEF Init, ContractPhase, ContractVerdict
  <2>2. QED
    BY <2>1, Truth DEF Contract!Init, Now
<1>2. IInv /\ IInv' /\ OnlyKnown' /\ [Next]_vars => [Contract!Next]_(Contract!vars)
  BY ContractStep
<1>3. QED
  BY <1>1, <1>2, KnownOnly, Invariance, PTL DEF Spec, ImplementsContract, Contract!Spec

-----------------------------------------------------------------------------
(* An undisturbed proof promotes.                                          *)

\* Nothing failed and nothing moved since the proof began.
Steady == ~faulted /\ versions = {catalog} /\ sessions = {session}

\* What has to hold of the catalog, the session and the statement.
Promotable ==
  /\ session.ident.pin \in SupportedPins
  /\ Phase1Eligible(cands)
  /\ \A o \in Candidates :
       LET c == cands[o]
       IN  /\ \A ns \in Namespaces \ {PgCatalog}, arg \in ArgTypes :
                catalog.routine[<<c.sym, ns, arg>>] = NoBody
           /\ PgCatalog \in NamespacesForCandidate(c, session.path)
  /\ AllAudited(catalog, session.path)
  /\ \A o \in Candidates :
       ~UnseenOverload(catalog, cands[o], session.path, CalledWith(catalog, o))

\* An item no validation and no trust check objects to.
Trusted(it, o) ==
  /\ IsResolved(it)
  /\ it.fact.pin = session.ident.pin
  /\ it.fact.id \in Manifest
  /\ FactMatchesCandidate(it.fact, cands[o])
  /\ OperandTypeBound(it, cands[o], types[o])

\* Every operand type below k has been read, every item below k is trusted.
TypesRead(k)    == \A o \in Candidates :
                     o < k /\ UsesColumnType(cands[o]) => types[o] = catalog.column[o]
ItemsTrusted(k) == \A o \in Candidates : o < k => Trusted(items[o], o)

\* How far an undisturbed proof has come: it has refused nothing.
UndisturbedInv ==
  Steady /\ Promotable =>
    /\ pc \notin {"begin", "done"} => initialCtx.bound
    /\ pc = "types" => TypesRead(next)
    /\ pc \in {"identities", "live2", "commit", "decide"} => TypesRead(N + 1)
    /\ pc = "identities" => ItemsTrusted(next)
    /\ pc \in {"live2", "commit", "decide"} => ItemsTrusted(N + 1)
    /\ pc \in {"commit", "decide"} => finalCtx.bound
    /\ pc = "done" => decision = "allProven"

\* A path that names a schema has a first place where it does.
LEMMA FirstPlace ==
  ASSUME NEW path \in Seq(Namespaces), NEW i \in DOMAIN path
  PROVE  \E k \in DOMAIN path :
           path[k] = path[i] /\ \A j \in 1..(k - 1) : path[j] # path[i]
<1> DEFINE T == {k \in DOMAIN path : path[k] = path[i]}
<1>1. T \subseteq Nat /\ T # {}
  OBVIOUS
<1>2. PICK k \in T : \A j \in T : <<j, k>> \notin OpToRel(<, Nat)
  <2> HIDE DEF T
  <2>1. QED
    BY <1>1, WFMin, NatLessThanWellFounded
<1>3. \A j \in T : ~(j < k)
  BY <1>1, <1>2 DEF OpToRel
<1>4. \A j \in 1..(k - 1) : j \in DOMAIN path /\ j < k
  BY <1>1
<1>5. QED
  BY <1>3, <1>4

\* A context captured in a steady session is that session.
LEMMA SteadyContext ==
  ASSUME IInv, Steady
  PROVE  /\ initialCtx.bound =>
              initialCtx.ident = session.ident /\ initialCtx.path = session.path
         /\ live1.bound =>
              live1.ident = session.ident /\ live1.path = session.path
         /\ finalCtx.bound =>
              finalCtx.ident = session.ident /\ finalCtx.path = session.path
         /\ Looking => live1.bound /\ snapshot = catalog
BY DEF ContextInv, Witnessed, Steady, ResolutionContextSessionCompatible,
       ResolutionContextSessionComplete

\* In a catalog with no routine of c's symbol outside pg_catalog, whatever
\* PostgreSQL may run for c without a coercion is in pg_catalog.
LEMMA RunsInPgCatalog ==
  ASSUME NEW c \in Candidate, NEW path \in Seq(Namespaces), NEW t, NEW ns, NEW arg,
         NEW cat \in Catalog,
         \A n \in Namespaces \ {PgCatalog}, a \in ArgTypes : cat.routine[<<c.sym, n, a>>] = NoBody,
         ns \in Namespaces, arg \in ArgTypes,
         MayRun(cat, c, path, t, ns, arg), ~UnseenOverload(cat, c, path, t)
  PROVE  /\ ns = PgCatalog
         /\ cat.routine[<<c.sym, PgCatalog, arg>>] # NoBody
         /\ \/ arg = t
            \/ /\ arg = Poly /\ c.kind \in {"function", "count"}
               /\ cat.routine[<<c.sym, PgCatalog, t>>] = NoBody
         /\ ExplicitlyQualified(c) \/ path # << >>
<1>1. cat.routine[<<c.sym, ns, arg>>] # NoBody
  BY DEF MayRun
<1>2. ns = PgCatalog
  BY <1>1
<1> DEFINE scope == Scope(c, path)
<1>3. PICK i \in DOMAIN scope : scope[i] = ns
  BY DEF MayRun
<1>4. /\ Reached(cat, c, path, arg)
      /\ cat.routine[<<c.sym, PgCatalog, t>>] # NoBody => Reached(cat, c, path, t)
  BY <1>1, <1>2, <1>3 DEF Reached
<1>5. arg = t \/ (arg \in Inexact(c, t) /\ ~Reached(cat, c, path, t))
  BY DEF MayRun
<1>6. arg = t \/ arg \notin CoercedFrom(t)
  BY <1>4, <1>5 DEF UnseenOverload
<1>7. ExplicitlyQualified(c) \/ path # << >>
  <2>1. ~ExplicitlyQualified(c) => i \in 1..Len(path)
    BY <1>3 DEF Scope
  <2>2. QED
    BY <2>1
<1> HIDE DEF scope
<1>8. QED
  BY <1>1, <1>2, <1>4, <1>5, <1>6, <1>7 DEF Inexact

\* Such a candidate has one match, the routine PostgreSQL runs.
LEMMA OneMatch ==
  ASSUME NEW c \in Candidate, NEW path \in Seq(Namespaces), NEW t \in ArgTypes,
         NEW arg \in ArgTypes, NEW cat \in Catalog,
         \A n \in Namespaces \ {PgCatalog}, a \in ArgTypes : cat.routine[<<c.sym, n, a>>] = NoBody,
         PgCatalog \in NamespacesForCandidate(c, path),
         c.kind # "count",
         cat.routine[<<c.sym, PgCatalog, arg>>] # NoBody,
         \/ arg = t
         \/ /\ arg = Poly /\ c.kind \in {"function", "count"}
            /\ cat.routine[<<c.sym, PgCatalog, t>>] = NoBody
  PROVE  Matches(cat, c, path, t) = {<<PgCatalog, arg>>}
<1>1. Offers(cat, c, PgCatalog, t) = {arg}
  BY DEF Offers
<1>2. Poly \in ArgTypes
  BY DEF ArgTypes
<1>3. ASSUME NEW ns \in NamespacesForCandidate(c, path), ns # PgCatalog
      PROVE  Offers(cat, c, ns, t) = {}
  <2>1. ns \in Namespaces
    BY <1>3 DEF NamespacesForCandidate, ExplicitlyQualified, Candidate, PathSet
  <2>2. QED
    BY <1>2, <1>3, <2>1 DEF Offers
<1>4. \A m \in Matches(cat, c, path, t) : m = <<PgCatalog, arg>>
  <2> TAKE m \in Matches(cat, c, path, t)
  <2>1. PICK ns \in NamespacesForCandidate(c, path) : m \in {ns} \X Offers(cat, c, ns, t)
    BY DEF Matches
  <2>2. ns = PgCatalog
    BY <1>3, <2>1
  <2>3. QED
    BY <1>1, <2>1, <2>2
<1>5. <<PgCatalog, arg>> \in {PgCatalog} \X Offers(cat, c, PgCatalog, t)
  BY <1>1
<1>6. <<PgCatalog, arg>> \in Matches(cat, c, path, t)
  BY <1>5 DEF Matches
<1>7. QED
  BY <1>4, <1>6

\* An undisturbed lookup of a promotable candidate returns a trusted item.
LEMMA LookupTrusted ==
  ASSUME IInv, Steady, Promotable, Looking, NEW o \in Candidates,
         UsesColumnType(cands[o]) => types[o] = catalog.column[o]
  PROVE  Trusted(Resolve(cands[o], types[o]), o)
<1> DEFINE c == cands[o]
<1> DEFINE t == CalledWith(catalog, o)
<1>1. /\ c \in Candidate /\ catalog \in Catalog /\ session.path \in Seq(Namespaces)
      /\ session.ident \in Idents /\ types[o] \in Types \cup {NoType}
      /\ PgCatalog \in Namespaces
  BY EffectProofAssumption, EffectIdentityAssumption DEF TypeOK, Session
<1>2. /\ live1.ident = session.ident /\ live1.path = session.path /\ snapshot = catalog
  BY SteadyContext
<1>3. /\ \A ns \in Namespaces \ {PgCatalog}, a \in ArgTypes : catalog.routine[<<c.sym, ns, a>>] = NoBody
      /\ PgCatalog \in NamespacesForCandidate(c, session.path)
      /\ t # NoType /\ RunsAudited(catalog, c, session.path, t)
      /\ ~UnseenOverload(catalog, c, session.path, t)
  BY DEF Promotable, AllAudited
<1>4. PICK ns \in Namespaces, arg \in ArgTypes :
        /\ MayRun(catalog, c, session.path, t, ns, arg)
        /\ [kind |-> c.kind, sym |-> c.sym, ns |-> ns, arg |-> arg,
            body |-> catalog.routine[<<c.sym, ns, arg>>]] \in Manifest
  BY <1>3 DEF RunsAudited
<1>5. /\ ns = PgCatalog
      /\ catalog.routine[<<c.sym, PgCatalog, arg>>] # NoBody
      /\ \/ arg = t
         \/ /\ arg = Poly /\ c.kind \in {"function", "count"}
            /\ catalog.routine[<<c.sym, PgCatalog, t>>] = NoBody
      /\ ExplicitlyQualified(c) \/ session.path # << >>
  BY <1>1, <1>3, <1>4, RunsInPgCatalog
<1>6. t \in ArgTypes
  BY <1>1, <1>3, EffectProofAssumption DEF CalledWith, Catalog, ArgTypes
<1> DEFINE id == [kind |-> c.kind, sym |-> c.sym, ns |-> PgCatalog, arg |-> arg,
                  body |-> catalog.routine[<<c.sym, PgCatalog, arg>>]]
<1>7. id \in Manifest
  BY <1>4, <1>5
<1>8. Resolve(c, types[o]) = ResolvedItem(c, PgCatalog, arg, catalog)
  <2>1. CASE c.kind = "count"
    <3>1. arg = Poly
      <4>1. id.kind = "count" /\ id.arg = arg
        BY <2>1
      <4> HIDE DEF id
      <4>2. QED
        BY <4>1, <1>7, EffectIdentityAssumption
    <3>2. c.schema = Unqualified
      BY <1>1, <2>1 DEF Candidate
    <3>3. PICK i \in DOMAIN session.path : session.path[i] = PgCatalog
      BY <1>3, <3>2 DEF NamespacesForCandidate, ExplicitlyQualified, PathSet
    <3>4. CountVisible(catalog, c, session.path)
      <4>1. DOMAIN session.path = 1..Len(session.path) /\ Len(session.path) \in Nat
        BY <1>1
      <4>2. PICK k \in DOMAIN session.path :
              /\ session.path[k] = PgCatalog
              /\ \A j \in 1..(k - 1) : session.path[j] # PgCatalog
        <5> DEFINE path == session.path
        <5>1. path \in Seq(Namespaces) /\ i \in DOMAIN path /\ path[i] = PgCatalog
          BY <1>1, <3>3
        <5> HIDE DEF path
        <5>2. \E k \in DOMAIN path :
                path[k] = path[i] /\ \A j \in 1..(k - 1) : path[j] # path[i]
          BY <5>1, FirstPlace
        <5>3. QED
          BY <5>1, <5>2 DEF path
      <4>3. \A j \in 1..(k - 1) : j \in DOMAIN session.path
        BY <4>1, <4>2
      <4>4. \A j \in 1..(k - 1) : session.path[j] \in Namespaces \ {PgCatalog}
        BY <1>1, <4>2, <4>3
      <4>5. QED
        BY <1>3, <1>5, <3>1, <4>2, <4>4 DEF CountVisible
    <3>5. QED
      BY <1>2, <2>1, <3>1, <3>4 DEF Resolve, ResolveCount, Visible
  <2>2. CASE c.kind # "count"
    <3>1. t = IF UsesColumnType(c) THEN types[o] ELSE NoArgs
      BY <2>2 DEF CalledWith
    <3>2. Matches(catalog, c, session.path, t) = {<<PgCatalog, arg>>}
      BY <1>1, <1>3, <1>5, <1>6, <2>2, OneMatch
    <3>3. Resolve(c, types[o]) = ResolveByName(c, t)
      BY <2>2, <3>1 DEF Resolve
    <3>4. t # NoType /\ (ExplicitlyQualified(c) \/ session.path # << >>)
      BY <1>3, <1>5
    <3> DEFINE match == <<PgCatalog, arg>>
    <3>5. match[1] = PgCatalog /\ match[2] = arg
      OBVIOUS
    <3> HIDE DEF t, match
    <3>6. Matches(Visible, c, live1.path, t) = {match}
      BY <1>2, <3>2 DEF Visible, match
    <3>7. (CHOOSE m \in {match} : TRUE) = match
      OBVIOUS
    <3>8. ResolveByName(c, t) = ResolvedItem(c, PgCatalog, arg, Visible)
      BY <1>2, <3>4, <3>5, <3>6, <3>7 DEF ResolveByName
    <3>9. QED
      BY <1>2, <3>3, <3>8 DEF Visible
  <2>3. QED
    BY <2>1, <2>2
<1> DEFINE it == Resolve(c, types[o])
<1>9. /\ it.status = "resolved"
      /\ it.fact.id = id
      /\ it.fact.pin = session.ident.pin
  BY <1>2, <1>8 DEF ResolvedItem
<1>10. it.fact # NoFact
  <2>1. it \in Item
    BY <1>1, ResolveGrounded
  <2>2. id \in IdentityTuple
    BY <1>7, EffectIdentityAssumption
  <2>3. it.fact = [id |-> id, pin |-> session.ident.pin]
    BY <1>2, <1>8 DEF ResolvedItem
  <2>4. session.ident.pin \in Pins
    BY <1>1 DEF Idents
  <2>5. it.fact \in Fact
    BY <2>2, <2>3, <2>4 DEF Fact
  <2>6. QED
    BY <2>5, EffectIdentityAssumption
<1>11. FactMatchesCandidate(it.fact, c)
  <2>1. ExplicitlyQualified(c) => PgCatalog = c.schema
    BY <1>3 DEF NamespacesForCandidate
  <2>2. QED
    BY <1>9, <2>1 DEF FactMatchesCandidate
<1>12. OperandTypeBound(it, c, types[o])
  <2>1. UsesColumnType(c) => t = types[o] /\ types[o] # NoType /\ c.kind # "count"
    BY <1>3 DEF CalledWith, UsesColumnType
  <2>2. it.fact.id.arg = arg
    BY <1>9
  <2> HIDE DEF it, id, t
  <2>3. QED
    BY <1>5, <2>1, <2>2 DEF OperandTypeBound, UsesColumnType
<1>13. QED
  BY <1>7, <1>9, <1>10, <1>11, <1>12 DEF Trusted, IsResolved

\* A trusted batch under one session is promoted.
LEMMA TrustedDecision ==
  ASSUME IInv, Steady, Promotable, initialCtx.bound, finalCtx.bound, ItemsTrusted(N + 1)
  PROVE  ProofDecision(initialCtx, finalCtx, items, types, cands) = "allProven"
<1> DEFINE pinned == ValidateFactPinning(items, finalCtx)
<1> DEFINE bound  == ValidateCandidateFactBinding(pinned, cands)
<1> DEFINE last   == ValidateFactOperandTypeBinding(bound, types, cands)
<1>1. /\ initialCtx.ident = session.ident /\ initialCtx.path = session.path
      /\ finalCtx.ident = session.ident /\ finalCtx.path = session.path
  BY SteadyContext
<1>2. ContextsValidForPromotion(initialCtx, finalCtx, cands)
  BY <1>1 DEF ContextsValidForPromotion, ResolutionContextSessionCompatible,
              ResolutionContextSessionComplete, SearchPathCompatible
<1>3. DOMAIN items = Candidates /\ DOMAIN cands = Candidates
  BY DEF TypeOK
<1>4. \A o \in Candidates : Trusted(items[o], o)
  BY EffectProofAssumption DEF ItemsTrusted, Candidates
<1>5. DOMAIN pinned = Candidates /\ \A o \in Candidates : pinned[o] = items[o]
  BY <1>1, <1>3, <1>4 DEF ValidateFactPinning, PinnedTo, Trusted
<1> HIDE DEF pinned
<1>6. DOMAIN bound = Candidates /\ \A o \in Candidates : bound[o] = items[o]
  BY <1>4, <1>5 DEF ValidateCandidateFactBinding, Trusted
<1> HIDE DEF bound
<1>7. \A o \in Candidates : types[o] # NoType => UsesColumnType(cands[o])
  BY DEF TypesInv
<1>8. DOMAIN last = Candidates /\ \A o \in Candidates : last[o] = items[o]
  BY <1>3, <1>4, <1>6, <1>7 DEF ValidateFactOperandTypeBinding, Trusted
<1> HIDE DEF last
<1>9. \A o \in Candidates : /\ IsResolved(last[o])
                            /\ last[o].fact.pin = session.ident.pin
                            /\ last[o].fact.id \in Manifest
  BY <1>4, <1>8 DEF Trusted
<1>10. 1 \in Candidates /\ \A p \in Candidates : 1 <= p
  BY EffectProofAssumption DEF Candidates
<1>11. FirstResolvedPin(last) = session.ident.pin
  <2> DEFINE resolved == {o \in DOMAIN last : IsResolved(last[o])}
  <2>1. resolved = Candidates
    BY <1>8, <1>9
  <2>2. (CHOOSE o \in resolved : \A p \in resolved : o <= p) \in Candidates
    BY <1>10, <2>1
  <2>3. QED
    BY <1>9, <2>2 DEF FirstResolvedPin
<1>12. IsTrusted(last) = "allProven"
  BY <1>8, <1>9, <1>10, <1>11 DEF IsTrusted, Promotable
<1>13. Validated(items, types, cands, finalCtx) = last
  BY DEF Validated, last, bound, pinned
<1>14. QED
  BY <1>2, <1>12, <1>13 DEF ProofDecision

\* DDL during a proof leaves a second version, drift a second session.
LEMMA Disturbed ==
  ASSUME IInv, pc # "begin",
         \/ \E new : Commit(new) /\ new # catalog
         \/ \E s \in Session : SessionDrift(s)
  PROVE  ~Steady'
<1>1. catalog \in versions /\ session \in sessions
  BY DEF ContextInv
<1>2. CASE \E new : Commit(new) /\ new # catalog
  <2>1. catalog \in versions' /\ catalog' # catalog
    BY <1>1, <1>2 DEF Commit, SinceBegin
  <2>2. QED
    BY <2>1 DEF Steady
<1>3. CASE \E s \in Session : SessionDrift(s)
  <2>1. session \in sessions' /\ session' # session
    BY <1>1, <1>3 DEF SessionDrift, SinceBegin
  <2>2. QED
    BY <2>1 DEF Steady
<1>4. QED
  BY <1>2, <1>3

\* What the environment does either disturbs the proof or comes before it.
LEMMA EnvironmentUndisturbed ==
  ASSUME IInv, UndisturbedInv, Environment
  PROVE  UndisturbedInv'
<1>1. \/ \E new : Commit(new) /\ new # catalog
      \/ \E s \in Session : SessionDrift(s)
  <2>1. ASSUME NEW o \in Candidates, NEW t \in Types \cup {NoType}, AlterColumn(o, t)
        PROVE  \E new : Commit(new) /\ new # catalog
    <3>1. [catalog EXCEPT !.column[o] = t].column[o] = t /\ catalog.column[o] # t
      BY <2>1 DEF AlterColumn, TypeOK, Catalog
    <3>2. QED
      BY <2>1, <3>1 DEF AlterColumn
  <2>2. ASSUME NEW r \in UserRoutines, NEW body \in UserBodies \cup {NoBody},
               ReplaceRoutine(r, body)
        PROVE  \E new : Commit(new) /\ new # catalog
    <3>1. r \in Symbols \X Namespaces \X ArgTypes
      BY EffectProofAssumption
    <3>2. [catalog EXCEPT !.routine[r] = body].routine[r] = body /\ catalog.routine[r] # body
      BY <2>2, <3>1 DEF ReplaceRoutine, TypeOK, Catalog
    <3>3. QED
      BY <2>2, <3>2 DEF ReplaceRoutine
  <2>3. QED
    BY <2>1, <2>2 DEF Environment
<1>2. pc' = pc
  BY DEF Environment, AlterColumn, ReplaceRoutine, Commit, SessionDrift
<1>3. CASE pc = "begin"
  BY <1>2, <1>3 DEF UndisturbedInv
<1>4. CASE pc # "begin"
  BY <1>1, <1>4, Disturbed DEF UndisturbedInv
<1>5. QED
  BY <1>3, <1>4

\* A proof step forgets no fault, and what makes a statement promotable stays.
LEMMA UndisturbedBefore ==
  ASSUME IInv, Proof, Steady', Promotable'
  PROVE  Steady /\ Promotable /\ ~faulted'
<1>1. UNCHANGED <<catalog, session, versions, sessions, cands>>
  BY ProofFrame
<1>2. faulted => faulted'
  BY DEF TypeOK, Proof, Begin, BeginTx, CaptureLive1, ResolveType, TypesDone, ResolveIdentity,
         IdentitiesDone, CaptureLive2, CommitTx, Decide
<1>3. Promotable
  BY <1>1 DEF Promotable, AllAudited, CalledWith
<1>4. QED
  BY <1>1, <1>2, <1>3 DEF Steady

\* A proof step of an undisturbed proof succeeds.
LEMMA ProofUndisturbed ==
  ASSUME IInv, UndisturbedInv, Proof
  PROVE  UndisturbedInv'
<1> SUFFICES ASSUME Steady', Promotable'
             PROVE  UndisturbedInv'
  BY DEF UndisturbedInv
<1>0. /\ Steady /\ Promotable /\ ~faulted'
      /\ UNCHANGED <<catalog, session, versions, sessions, cands>>
  BY ProofFrame, UndisturbedBefore
<1>1. Phase1Eligible(cands)
  BY <1>0 DEF Promotable
<1>2. Live.bound /\ Live.ident = session.ident
  BY DEF Live
<1>3. CASE Begin
  BY <1>0, <1>1, <1>2, <1>3 DEF UndisturbedInv, Begin
<1>4. CASE BeginTx
  BY <1>0, <1>4 DEF UndisturbedInv, BeginTx
<1>5. CASE CaptureLive1
  <2>1. initialCtx.bound
    BY <1>0, <1>5 DEF UndisturbedInv, CaptureLive1
  <2>2. ResolutionContextSessionCompatible(initialCtx, Live)
    BY <1>0, <1>2, <2>1, SteadyContext
    DEF ResolutionContextSessionCompatible, ResolutionContextSessionComplete
  <2>3. pc' = "types" /\ next' = 1 /\ initialCtx' = initialCtx
    BY <1>0, <1>5, <2>2 DEF CaptureLive1, Steady
  <2>4. \A o \in Candidates : ~(o < 1)
    BY DEF Candidates
  <2>5. QED
    BY <2>1, <2>3, <2>4 DEF UndisturbedInv, TypesRead
<1>6. CASE ResolveType
  <2>1. /\ next \in Candidates /\ next \in Nat /\ \A o \in Candidates : o \in Nat
        /\ pc = "types" /\ next' = next + 1
    BY <1>6, LoopTyping DEF ResolveType
  <2>2. snapshot = catalog /\ TypesRead(next) /\ initialCtx.bound
    BY <1>0, <2>1, SteadyContext DEF UndisturbedInv, Looking
  <2>3. types' = [types EXCEPT ![next] =
            IF UsesColumnType(cands[next]) THEN catalog.column[next] ELSE NoType]
    BY <1>0, <1>6, <2>2 DEF ResolveType, Visible, Steady
  <2>4. TypesRead(next)'
    <3> SUFFICES ASSUME NEW o \in Candidates, o < next', UsesColumnType(cands[o])
                 PROVE  types'[o] = catalog.column[o]
      BY <1>0, <2>1 DEF TypesRead
    <3>1. CASE o = next
      BY <2>1, <2>3, <3>1 DEF TypeOK
    <3>2. CASE o # next
      <4>1. o < next
        BY <2>1, <3>2
      <4>2. QED
        BY <2>1, <2>2, <2>3, <3>2, <4>1 DEF TypeOK, TypesRead
    <3>3. QED
      BY <3>1, <3>2
  <2>5. QED
    BY <1>6, <2>1, <2>2, <2>4 DEF UndisturbedInv, ResolveType
<1>7. CASE TypesDone
  <2>1. \A o \in Candidates : ~(o < 1) /\ (o < N + 1 => o < next)
    BY <1>7, EffectProofAssumption DEF TypesDone, TypeOK, Candidates
  <2>2. QED
    BY <1>0, <1>7, <2>1 DEF UndisturbedInv, TypesDone, TypesRead, ItemsTrusted
<1>8. CASE ResolveIdentity
  <2>1. /\ next \in Candidates /\ next \in Nat /\ \A o \in Candidates : o \in Nat
        /\ pc = "identities" /\ next' = next + 1
    BY <1>8, LoopTyping DEF ResolveIdentity
  <2>2. TypesRead(N + 1) /\ ItemsTrusted(next) /\ initialCtx.bound /\ Looking
    BY <1>0, <2>1 DEF UndisturbedInv, Looking
  <2>3. items' = [items EXCEPT ![next] = Resolve(cands[next], types[next])]
    BY <1>0, <1>8 DEF ResolveIdentity, Steady
  <2>4. next < N + 1
    BY <2>1, EffectProofAssumption DEF Candidates
  <2>5. Trusted(Resolve(cands[next], types[next]), next)
    BY <1>0, <2>1, <2>2, <2>4, LookupTrusted DEF TypesRead
  <2>6. \A o \in Candidates : o < next + 1 => Trusted(items'[o], o)
    <3> TAKE o \in Candidates
    <3>1. CASE o = next
      BY <2>1, <2>3, <2>5, <3>1 DEF TypeOK
    <3>2. CASE o # next
      <4>1. o < next + 1 => o < next
        BY <2>1, <3>2
      <4>2. items'[o] = items[o]
        BY <2>1, <2>3, <3>2 DEF TypeOK
      <4>3. QED
        BY <2>2, <4>1, <4>2 DEF ItemsTrusted
    <3>3. QED
      BY <3>1, <3>2
  <2>7. UNCHANGED <<types, pc, initialCtx>>
    BY <1>8 DEF ResolveIdentity
  <2>8. ItemsTrusted(next)'
    BY <1>0, <2>1, <2>6, <2>7 DEF ItemsTrusted, Trusted
  <2>9. TypesRead(N + 1)'
    BY <1>0, <2>2, <2>7 DEF TypesRead
  <2>10. QED
    BY <2>1, <2>2, <2>7, <2>8, <2>9 DEF UndisturbedInv
<1>9. CASE IdentitiesDone
  <2>1. \A o \in Candidates : o < N + 1 => o < next
    BY <1>9, EffectProofAssumption DEF IdentitiesDone, TypeOK, Candidates
  <2>2. QED
    BY <1>0, <1>9, <2>1 DEF UndisturbedInv, IdentitiesDone, TypesRead, ItemsTrusted, Trusted
<1>10. CASE CaptureLive2
  <2>1. pc = "live2" /\ pc' = "commit" /\ UNCHANGED <<types, initialCtx>>
    BY <1>10 DEF CaptureLive2
  <2>2. TypesRead(N + 1) /\ ItemsTrusted(N + 1) /\ initialCtx.bound /\ Looking
    BY <1>0, <2>1 DEF UndisturbedInv, Looking
  <2>3. /\ finalCtx' = Live
        /\ items' = GateAgainstLiveContext(cands, items, live1, Live)
    BY <1>0, <1>10 DEF CaptureLive2, Steady
  <2>4. live1.bound /\ live1.ident = session.ident /\ live1.path = session.path
    BY <1>0, <2>2, SteadyContext
  <2>5. ASSUME NEW o \in Candidates
        PROVE  items'[o] = items[o]
    <3>1. Trusted(items[o], o)
      BY <2>2, EffectProofAssumption DEF ItemsTrusted, Candidates
    <3>2. ExplicitlyQualified(cands[o]) \/ live1.path # << >>
      BY <1>0, <2>4 DEF Promotable, NamespacesForCandidate, PathSet
    <3>3. DOMAIN cands = Candidates
      BY DEF TypeOK
    <3>4. Live.path = live1.path
      BY <2>4 DEF Live
    <3>5. QED
      BY <1>2, <2>3, <2>4, <3>1, <3>2, <3>3, <3>4
      DEF GateAgainstLiveContext, GateByResolutionContext, PinnedTo, Trusted,
          ResolutionContextSessionCompatible, ResolutionContextSessionComplete,
          ResolutionContextUsableForUnqualified, SearchPathCompatible
  <2>6. ItemsTrusted(N + 1)'
    BY <1>0, <2>1, <2>2, <2>5 DEF ItemsTrusted, Trusted
  <2>7. TypesRead(N + 1)'
    BY <1>0, <2>1, <2>2 DEF TypesRead
  <2>8. QED
    BY <1>2, <2>1, <2>2, <2>3, <2>6, <2>7 DEF UndisturbedInv
<1>11. CASE CommitTx
  <2>1. pc' = "decide" /\ UNCHANGED <<items, types, finalCtx, initialCtx>>
    BY <1>0, <1>11 DEF CommitTx, Steady
  <2>2. QED
    BY <1>0, <1>11, <2>1 DEF UndisturbedInv, CommitTx, TypesRead, ItemsTrusted, Trusted
<1>12. CASE Decide
  <2>1. pc' = "done" /\ decision' = "allProven"
    BY <1>0, <1>12, TrustedDecision DEF UndisturbedInv, Decide, Finish
  <2>2. QED
    BY <2>1 DEF UndisturbedInv
<1>13. QED
  BY <1>3, <1>4, <1>5, <1>6, <1>7, <1>8, <1>9, <1>10, <1>11, <1>12 DEF Proof

\* Every step keeps an undisturbed proof on its way.
LEMMA UndisturbedNext ==
  IInv /\ UndisturbedInv /\ [Next]_vars => UndisturbedInv'
<1> SUFFICES ASSUME IInv, UndisturbedInv, [Next]_vars
             PROVE  UndisturbedInv'
  OBVIOUS
<1>1. CASE Proof
  BY <1>1, ProofUndisturbed
<1>2. CASE NextStatement
  BY <1>2 DEF UndisturbedInv, NextStatement
<1>3. CASE Environment
  BY <1>3, EnvironmentUndisturbed
<1>4. CASE UNCHANGED vars
  BY <1>4 DEF UndisturbedInv, Steady, Promotable, AllAudited, CalledWith, TypesRead,
              ItemsTrusted, Trusted, vars
<1>5. QED
  BY <1>1, <1>2, <1>3, <1>4 DEF Next

\* The proof refuses for a reason: with no fault, no DDL and no drift, a statement
\* whose effects each have one candidate routine, the audited one, is promoted,
\* whatever the catalog, the search path and the manifest (trust_policy.go).
THEOREM UndisturbedSound == Spec => []UndisturbedProofPromotes
<1>1. Init => UndisturbedInv
  BY DEF Init, UndisturbedInv
<1>2. IInv /\ UndisturbedInv => UndisturbedProofPromotes
  BY DEF UndisturbedInv, UndisturbedProofPromotes, Steady, Promotable
<1>3. QED
  BY <1>1, <1>2, Invariance, UndisturbedNext, PTL DEF Spec

-----------------------------------------------------------------------------
(* Where the lookup of COUNT(1) is right.                                  *)

\* Where no schema has or gets a count of a type that the literal has or is coerced to, a
\* promoted COUNT(1) runs the audited aggregate (effect_identity_session.go:393), however
\* its lookup and the path move and whatever polymorphic counts other schemas have.
THEOREM CountSound ==
  ASSUME FittingCounts \cap Known = {}
  PROVE  Spec => []CountRunsAudited
<1>1. ASSUME IInv, OnlyKnown, PromotionFromOneSnapshot, decision = "allProven",
             NEW o \in Candidates, cands[o].kind = "count"
      PROVE  \E v \in versions, s \in sessions : RunsAudited(v, cands[o], s.path, LiteralType)
  <2>1. PICK v \in versions : Audited(v, o)
    BY <1>1 DEF PromotionFromOneSnapshot
  <2>2. PICK s \in sessions : \/ RunsAudited(v, cands[o], s.path, LiteralType)
                              \/ UnseenOverload(v, cands[o], s.path, LiteralType)
    <3>1. CalledWith(v, o) = LiteralType
      BY <1>1 DEF CalledWith, UsesColumnType
    <3>2. QED
      BY <1>1, <2>1, <3>1 DEF Audited, AuditedAlong
  <2>3. s.path \in Seq(Namespaces) /\ cands[o] \in Shapes /\ cands[o] \in Candidate
    BY EffectProofAssumption, <1>1 DEF IInv, TypeOK, Session
  <2>4. /\ Scope(cands[o], s.path) = s.path
        /\ \A i \in DOMAIN s.path : s.path[i] \in Namespaces
    BY <1>1, <2>3 DEF Scope, Candidate, ExplicitlyQualified
  <2>5. \A ns \in Namespaces, a \in {LiteralType} \cup CoercedFrom(LiteralType) :
          <<cands[o].sym, ns, a>> \in FittingCounts
    BY <1>1, <2>3, EffectProofAssumption
       DEF FittingCounts, Routines, Candidate, ArgTypes, CoercedFrom
  <2>6. \A a \in {LiteralType} \cup CoercedFrom(LiteralType) : ~Reached(v, cands[o], s.path, a)
    BY <1>1, <2>4, <2>5 DEF Reached, OnlyKnown, FittingCounts
  <2>7. QED
    BY <1>1, <2>2, <2>6 DEF UnseenOverload
<1>2. IInv /\ OnlyKnown /\ PromotionFromOneSnapshot => CountRunsAudited
  BY <1>1 DEF CountRunsAudited
<1>3. QED
  BY <1>2, KnownOnly, Invariance, PromotionSound, PTL

-----------------------------------------------------------------------------
(* The steps of a proof are bounded.                                       *)

\* Every step has a number of its own, and only a proof that is done has none left.
LEMMA StepsLeftBound ==
  ASSUME TypeOK
  PROVE  /\ StepsLeft \in 0..(2 * N + 8)
         /\ pc # "done" => StepsLeft >= 1
         /\ pc \notin {"decide", "done"} => StepsLeft >= 2
<1>1. N \in Nat /\ next \in 1..(N + 1) /\ pc \in Steps
  BY EffectProofAssumption DEF TypeOK
<1>2. /\ pc = "begin" => StepsLeft = 2 * N + 8
      /\ pc = "beginTx" => StepsLeft = 2 * N + 7
      /\ pc = "live1" => StepsLeft = 2 * N + 6
      /\ pc = "types" => StepsLeft = 2 * N + 6 - next
      /\ pc = "identities" => StepsLeft = N + 5 - next
      /\ pc = "live2" => StepsLeft = 3
      /\ pc = "commit" => StepsLeft = 2
      /\ pc = "decide" => StepsLeft = 1
      /\ pc = "done" => StepsLeft = 0
  BY DEF StepsLeft
<1>3. QED
  BY <1>1, <1>2 DEF Steps

\* Ends of a proof: every step that decides is taken before it is done.
LEMMA FinishAdvances ==
  ASSUME TypeOK, pc # "done", pc' = "done"
  PROVE  StepsLeft' < StepsLeft
<1>1. StepsLeft' = 0
  BY DEF StepsLeft
<1>2. QED
  BY <1>1, StepsLeftBound

\* So does every step that gives up.
LEMMA GiveUpAdvances ==
  ASSUME TypeOK, pc \notin {"decide", "done"}, pc' = "decide"
  PROVE  StepsLeft' < StepsLeft
<1>1. StepsLeft' = 1
  BY DEF StepsLeft
<1>2. QED
  BY <1>1, StepsLeftBound

LEMMA ProofStepAdvances ==
  ASSUME TypeOK, Proof
  PROVE  StepsLeft' < StepsLeft
<1> USE EffectProofAssumption
<1>1. CASE Begin
  BY <1>1, FinishAdvances DEF Begin, Finish, StepsLeft
<1>2. CASE BeginTx
  BY <1>2, FinishAdvances DEF BeginTx, Finish, StepsLeft
<1>3. CASE CaptureLive1
  <2>1. pc = "live1" /\ next' = 1 /\ (pc' = "types" \/ pc' = "decide")
    BY <1>3 DEF CaptureLive1, GiveUp
  <2>2. QED
    BY <2>1, GiveUpAdvances DEF StepsLeft
<1>4. CASE ResolveType
  <2>1. pc = "types" /\ pc' = "types" /\ next' = next + 1 /\ next \in Int
    BY <1>4 DEF ResolveType, TypeOK
  <2>2. QED
    BY <2>1 DEF StepsLeft
<1>5. CASE TypesDone
  <2>1. pc = "types" /\ next \in 1..(N + 1) /\ pc' = "identities" /\ next' = 1
    BY <1>5 DEF TypesDone, TypeOK
  <2>2. QED
    BY <2>1 DEF StepsLeft
<1>6. CASE ResolveIdentity
  <2>1. pc = "identities" /\ pc' = "identities" /\ next' = next + 1 /\ next \in Int
    BY <1>6 DEF ResolveIdentity, TypeOK
  <2>2. QED
    BY <2>1 DEF StepsLeft
<1>7. CASE IdentitiesDone
  <2>1. pc = "identities" /\ next \in 1..(N + 1) /\ pc' = "live2"
    BY <1>7 DEF IdentitiesDone, TypeOK
  <2>2. QED
    BY <2>1 DEF StepsLeft
<1>8. CASE CaptureLive2
  BY <1>8 DEF CaptureLive2, StepsLeft
<1>9. CASE CommitTx
  BY <1>9, GiveUpAdvances DEF CommitTx, GiveUp, StepsLeft
<1>10. CASE Decide
  BY <1>10, FinishAdvances DEF Decide, Finish
<1>11. QED
  BY <1>1, <1>2, <1>3, <1>4, <1>5, <1>6, <1>7, <1>8, <1>9, <1>10 DEF Proof

\* Neither DDL nor drift touches where the proof is.
LEMMA EnvironmentKeepsSteps ==
  ASSUME Environment
  PROVE  StepsLeft' = StepsLeft
<1>1. pc' = pc /\ next' = next
  BY DEF Environment, AlterColumn, ReplaceRoutine, Commit, SessionDrift
<1>2. QED
  BY <1>1 DEF StepsLeft

\* A proof of N candidates is over after 2N + 8 steps of its own, whatever fails, and
\* whatever other sessions, poolers and roles do meanwhile: no retry, no waiting for
\* the catalog to stand still. Only the next statement starts over. With the fairness
\* of the goroutine, which TLC adds in ProofEnds, every proof ends.
THEOREM ProofBounded == Spec => [](StepsLeft \in 0..(2 * N + 8)) /\ ProofAdvances
<1>1. IInv => TypeOK
  BY DEF IInv
<1>2. IInv => StepsLeft \in 0..(2 * N + 8)
  BY <1>1, StepsLeftBound
<1>3. IInv /\ [Next]_vars =>
        [/\ Proof => StepsLeft' < StepsLeft
         /\ Environment => StepsLeft' = StepsLeft]_vars
  BY <1>1, ProofStepAdvances, EnvironmentKeepsSteps
<1>4. QED
  BY <1>2, <1>3, Invariance, PTL DEF Spec, ProofAdvances

=============================================================================
