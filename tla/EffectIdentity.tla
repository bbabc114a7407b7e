---------------------------- MODULE EffectIdentity ----------------------------
(***************************************************************************)
(* The vocabulary of the PostgreSQL effect proof and the pure checks the   *)
(* application makes on it: execution-bound contexts, the gates that strip *)
(* identity facts, the validations of a returned batch and the decision of *)
(* the trust policy (internal/application/queryaccess/identity_resolver.go *)
(* and trust_policy.go).                                                   *)
(*                                                                         *)
(* An OID, with the implementation, volatility and result type the catalog *)
(* gives it, is one abstract "body"; a symbol stands for an object's name  *)
(* and arity; the database OID and server version that stamp a fact are    *)
(* one "pin".                                                              *)
(***************************************************************************)
EXTENDS Integers, Sequences

CONSTANTS
  Symbols,       \* operator and function names, with their arity
  Namespaces,    \* schemas
  PgCatalog,     \* the builtin schema
  Types,         \* concrete column types
  Poly,          \* the polymorphic argument type (any, anyelement, ...)
  NoArgs,        \* the argument list of COUNT(*) and of ranking functions
  NoType,        \* a column whose type could not be read
  Bodies,        \* what an object OID identifies
  NoBody,        \* no such object
  Bindings,      \* backend and database a session is bound to
  Roles,
  Pins,          \* database and server version that stamp a fact
  SupportedPins, \* those whose major version the manifest covers
  Unqualified,   \* the schema of a candidate that names none
  NoIdent, NoFact,
  Manifest       \* the audited identity tuples

Kinds    == {"operator", "function", "star", "count", "outside"}
ArgTypes == Types \cup {Poly, NoArgs}
Idents   == [binding : Bindings, role : Roles, pin : Pins]

\* One effect of the statement, as the parser collected it. "count" is exactly an
\* unqualified COUNT(1).
Candidate ==
  {c \in [kind : Kinds, sym : Symbols, schema : Namespaces \cup {Unqualified}] :
     c.kind = "count" => c.schema = Unqualified}

IdentityTuple == [kind : Kinds, sym : Symbols, ns : Namespaces,
                  arg : ArgTypes, body : Bodies]

\* A resolved fact: the identity tuple and the pin stamped on it.
Fact == [id : IdentityTuple, pin : Pins]

Statuses == {"resolved", "unknown", "ambiguous", "unavailable",
             "lookup_failed", "coercion_gap"}

Item == [status : Statuses, fact : Fact \cup {NoFact}]

Failed(status) == [status |-> status, fact |-> NoFact]
Unavailable    == Failed("unavailable")
IsResolved(it) == it.status = "resolved" /\ it.fact # NoFact

Context   == [bound : BOOLEAN, ident : Idents \cup {NoIdent}, path : Seq(Namespaces)]
NoContext == [bound |-> FALSE, ident |-> NoIdent, path |-> << >>]

ASSUME EffectIdentityAssumption ==
  /\ PgCatalog \in Namespaces
  /\ Unqualified \notin Namespaces
  /\ NoType \notin ArgTypes
  /\ Poly \notin Types /\ NoArgs \notin Types /\ Poly # NoArgs
  /\ NoBody \notin Bodies
  /\ NoFact \notin Fact
  /\ SupportedPins \subseteq Pins
  /\ Manifest \subseteq IdentityTuple
  \* the count of an argument the manifest audits is count("any")
  \* (trust_manifest_pg17.go:240)
  /\ \A m \in Manifest : m.kind = "count" => m.arg = Poly

-----------------------------------------------------------------------------
(* Contexts.                                                               *)

ExplicitlyQualified(c) == c.schema # Unqualified

\* Operand types come from columns: binary operators and direct-column functions.
UsesColumnType(c) == c.kind \in {"operator", "function"}

ResolutionContextSessionComplete(rc) == rc.bound

ResolutionContextUsableForUnqualified(rc) ==
  ResolutionContextSessionComplete(rc) /\ rc.path # << >>

\* Two captures of a session whose role has changed pass as one session.
BugRoleNotCompared(a, b) ==
  /\ ResolutionContextSessionComplete(a)
  /\ ResolutionContextSessionComplete(b)
  /\ a.ident.binding = b.ident.binding
  /\ a.ident.pin = b.ident.pin

ResolutionContextSessionCompatible(a, b) ==
  /\ ResolutionContextSessionComplete(a)
  /\ ResolutionContextSessionComplete(b)
  /\ a.ident.binding = b.ident.binding
  /\ a.ident.role = b.ident.role
  /\ a.ident.pin = b.ident.pin

SearchPathCompatible(a, b) == a.path = b.path

\* INV-7 is forgotten: unqualified names survive a change of search_path.
BugPathNotValidated(initial, final, cands) ==
  ResolutionContextSessionCompatible(initial, final)

\* INV-3 and INV-7.
ContextsValidForPromotion(initial, final, cands) ==
  /\ ResolutionContextSessionCompatible(initial, final)
  /\ (\E o \in DOMAIN cands : ~ExplicitlyQualified(cands[o]))
       => SearchPathCompatible(initial, final)

-----------------------------------------------------------------------------
(* Gates: what a context does to the items of a batch.                     *)

PinnedTo(it, rc) == IsResolved(it) => it.fact.pin = rc.ident.pin

GateByResolutionContext(cands, items, rc) ==
  [o \in DOMAIN cands |->
     IF /\ ResolutionContextSessionComplete(rc)
        /\ ExplicitlyQualified(cands[o]) \/ ResolutionContextUsableForUnqualified(rc)
        /\ PinnedTo(items[o], rc)
     THEN items[o] ELSE Unavailable]

GateAgainstLiveContext(cands, items, rc, live) ==
  LET gated == GateByResolutionContext(cands, items, rc)
  IN  [o \in DOMAIN cands |->
         IF /\ ResolutionContextSessionCompatible(rc, live)
            /\ ExplicitlyQualified(cands[o]) \/ SearchPathCompatible(rc, live)
         THEN gated[o] ELSE Unavailable]

-----------------------------------------------------------------------------
(* Validation of the batch by the application.                             *)

\* INV-4 and INV-5: a fact stamped elsewhere than the final context is dropped.
ValidateFactPinning(items, final) ==
  [o \in DOMAIN items |-> IF PinnedTo(items[o], final) THEN items[o] ELSE Unavailable]

FactMatchesCandidate(f, c) ==
  /\ f.id.kind = c.kind
  /\ f.id.sym = c.sym
  /\ ExplicitlyQualified(c) => f.id.ns = c.schema

ValidateCandidateFactBinding(items, cands) ==
  [o \in DOMAIN items |->
     IF IsResolved(items[o]) /\ ~FactMatchesCandidate(items[o].fact, cands[o])
     THEN Failed("lookup_failed") ELSE items[o]]

\* types[o] is the operand type the resolver reports for o, NoType for none.
OperandTypeBound(it, c, type) ==
  (IsResolved(it) /\ UsesColumnType(c))
    => /\ type # NoType
       /\ \/ it.fact.id.arg = type
          \/ c.kind = "function" /\ it.fact.id.arg = Poly

ValidateFactOperandTypeBinding(items, types, cands) ==
  LET extraEntry == \E o \in DOMAIN cands : types[o] # NoType /\ ~UsesColumnType(cands[o])
  IN  [o \in DOMAIN items |->
         IF \/ ~OperandTypeBound(items[o], cands[o], types[o])
            \/ extraEntry /\ IsResolved(items[o])
         THEN Failed("lookup_failed") ELSE items[o]]

-----------------------------------------------------------------------------
(* The trust policy.                                                       *)

\* The pin that stands for the batch: that of its first resolved item.
FirstResolvedPin(items) ==
  LET resolved == {o \in DOMAIN items : IsResolved(items[o])}
      first    == CHOOSE o \in resolved : \A p \in resolved : o <= p
  IN  items[first].fact.pin

\* A proven effect outweighs an unknown one.
BugOneProvenIsEnough(items) ==
  IF \A o \in DOMAIN items : ~IsResolved(items[o])
    THEN "hasUnproven"
  ELSE IF FirstResolvedPin(items) \notin SupportedPins
    THEN "hasUnproven"
  ELSE IF \E o \in DOMAIN items :
            IsResolved(items[o]) /\ items[o].fact.id \notin Manifest
    THEN "hasUnproven"
  ELSE "allProven"

IsTrusted(items) ==
  IF \A o \in DOMAIN items : ~IsResolved(items[o])
    THEN "hasUnproven"
  ELSE IF FirstResolvedPin(items) \notin SupportedPins
    THEN "hasUnproven"
  ELSE IF \E o \in DOMAIN items : ~IsResolved(items[o])
    THEN "hasUnknown"
  ELSE IF \E o \in DOMAIN items :
            \/ items[o].fact.pin # FirstResolvedPin(items)
            \/ items[o].fact.id \notin Manifest
    THEN "hasUnproven"
  ELSE "allProven"

\* Everything between the resolver's answer and the trust policy's decision.
Validated(items, types, cands, final) ==
  ValidateFactOperandTypeBinding(
    ValidateCandidateFactBinding(
      ValidateFactPinning(items, final), cands), types, cands)

\* The role of the session the proof began in is not looked at again.
BugContextsNotValidated(initial, final, items, types, cands) ==
  IsTrusted(Validated(items, types, cands, final))

ProofDecision(initial, final, items, types, cands) ==
  IF ContextsValidForPromotion(initial, final, cands)
  THEN IsTrusted(Validated(items, types, cands, final))
  ELSE "hasUnknown"

\* Phase-1 eligibility. "outside" stands for casts, unknown kinds and the function
\* shapes (windows, filters, DISTINCT, literals) the proof boundary leaves out.
Phase1Eligible(cands) == \A o \in DOMAIN cands : cands[o].kind # "outside"
=============================================================================
