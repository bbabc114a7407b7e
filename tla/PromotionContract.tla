--------------------------- MODULE PromotionContract ---------------------------
(***************************************************************************)
(* What an effect proof promises, without how it is done: a statement is   *)
(* promoted only on the evidence of one atomic look at the database, taken *)
(* while its proof was running, in which everything it would execute was   *)
(* audited. The contract of AtomicProofResolver and of the promotion that  *)
(* rests on it (internal/application/queryaccess/identity_resolver.go,     *)
(* service.go:244).                                                        *)
(***************************************************************************)

VARIABLES
  audited,  \* every effect of the statement is audited in the database as it is now
  evidence, \* what the look of this proof saw
  phase,    \* open, looked, abandoned, decided
  verdict   \* none, promoted, refused

vars == <<audited, evidence, phase, verdict>>

TypeOK ==
  /\ audited \in BOOLEAN /\ evidence \in BOOLEAN
  /\ phase \in {"open", "looked", "abandoned", "decided"}
  /\ verdict \in {"none", "promoted", "refused"}

Init ==
  /\ audited \in BOOLEAN /\ evidence = FALSE
  /\ phase = "open" /\ verdict = "none"

\* The database changes under the proof.
Change ==
  /\ audited' \in BOOLEAN
  /\ evidence' = evidence /\ phase' = phase /\ verdict' = verdict

Look ==
  /\ phase = "open"
  /\ phase' = "looked" /\ evidence' = audited
  /\ audited' = audited /\ verdict' = verdict

Abandon ==
  /\ phase \in {"open", "looked"}
  /\ phase' = "abandoned" /\ evidence' = FALSE
  /\ audited' = audited /\ verdict' = verdict

Promote ==
  /\ phase = "looked" /\ evidence
  /\ phase' = "decided" /\ verdict' = "promoted" /\ evidence' = FALSE
  /\ audited' = audited

Refuse ==
  /\ phase # "decided"
  /\ phase' = "decided" /\ verdict' = "refused" /\ evidence' = FALSE
  /\ audited' = audited

\* Another statement.
Reopen ==
  /\ phase = "decided"
  /\ phase' = "open" /\ verdict' = "none" /\ evidence' = FALSE
  /\ audited' \in BOOLEAN

Next == Change \/ Look \/ Abandon \/ Promote \/ Refuse \/ Reopen

Spec == Init /\ [][Next]_vars
=============================================================================
