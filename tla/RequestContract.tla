--------------------------- MODULE RequestContract ---------------------------
(***************************************************************************)
(* What the HTTP server promises its clients, without how a request is     *)
(* handled: a request is answered once; what is opened for it is opened    *)
(* with permission and given back at most once; one that is turned away    *)
(* has opened nothing and never will, though the goroutine of an audit may *)
(* go on after any other answer; a session is given back before the        *)
(* handler returns; a process that leaves cleanly leaves nobody waiting.   *)
(* (internal/interfaces/http/handler.go, query_access.go,                  *)
(* cmd/deltascope-server/main.go)                                          *)
(***************************************************************************)
EXTENDS Naturals

CONSTANTS Requests, Statuses

VARIABLES
  process,    \* starting, serving, draining; clean or gone when it has ended
  permitted,  \* the requests the registry permits what they ask for
  phase,      \* of each request: waiting, handled, returned
  answer,     \* the status written, 0 before
  things      \* what is opened for it: none, open, closed

contractVars == <<process, permitted, phase, answer, things>>

\* A session of a query analysis; the client and the copy of the policy of an audit.
Things == {"session", "client", "copy"}

\* Unauthenticated, not permitted, unknown connection, over the limit.
Refusals == {401, 403, 404, 429}

Running == process \in {"serving", "draining"}
Untouched(r) == \A t \in Things : things[<<r, t>>] = "none"

ContractInit ==
  /\ process = "starting"
  /\ permitted \in SUBSET Requests
  /\ phase = [r \in Requests |-> "waiting"] /\ answer = [r \in Requests |-> 0]
  /\ things = [p \in Requests \X Things |-> "none"]

----------------------------------------------------------------------------
(* The process. *)

Serve ==
  /\ process = "starting" /\ process' = "serving"
  /\ UNCHANGED <<permitted, phase, answer, things>>

Stop ==
  /\ process = "serving" /\ process' = "draining"
  /\ UNCHANGED <<permitted, phase, answer, things>>

Leave ==
  /\ process = "draining" /\ process' = "clean"
  /\ \A r \in Requests : phase[r] # "handled"
  /\ UNCHANGED <<permitted, phase, answer, things>>

Break ==
  /\ process \in {"starting", "serving", "draining"} /\ process' = "gone"
  /\ UNCHANGED <<permitted, phase, answer, things>>

----------------------------------------------------------------------------
(* One request. *)

Accept(r) ==
  /\ process = "serving" /\ phase[r] = "waiting"
  /\ phase' = [phase EXCEPT ![r] = "handled"]
  /\ UNCHANGED <<process, permitted, answer, things>>

\* The handler returns now or later, but not with a session in its hands.
MayReturn(r) ==
  \/ phase' = phase
  \/ /\ phase' = [phase EXCEPT ![r] = "returned"]
     /\ answer'[r] # 0 /\ things'[<<r, "session">>] # "open"

Take(r, t) ==
  /\ Running /\ r \in permitted /\ phase[r] # "waiting" /\ answer[r] \notin Refusals
  /\ t = "session" => phase[r] = "handled" /\ answer[r] = 0
  /\ things[<<r, t>>] = "none"
  /\ things' = [things EXCEPT ![<<r, t>>] = "open"]
  /\ UNCHANGED <<process, permitted, phase, answer>>

GiveBack(r, t) ==
  /\ Running /\ things[<<r, t>>] = "open"
  /\ things' = [things EXCEPT ![<<r, t>>] = "closed"]
  /\ MayReturn(r)
  /\ UNCHANGED <<process, permitted, answer>>

\* What could not be opened in full is closed with the answer.
Answer(r, status) ==
  /\ Running /\ phase[r] = "handled" /\ answer[r] = 0
  /\ answer' = [answer EXCEPT ![r] = status]
  /\ status \in Refusals => Untouched(r)
  /\ \/ things' = things
     \/ things[<<r, "session">>] = "open" /\ things' = [things EXCEPT ![<<r, "session">>] = "closed"]
  /\ MayReturn(r)
  /\ UNCHANGED <<process, permitted>>

Step(r) ==
  \/ Accept(r)
  \/ \E t \in Things : Take(r, t) \/ GiveBack(r, t)
  \/ \E status \in Statuses : Answer(r, status)

ContractNext == Serve \/ Stop \/ Leave \/ Break \/ \E r \in Requests : Step(r)

ContractSpec == ContractInit /\ [][ContractNext]_contractVars

----------------------------------------------------------------------------
(* What a client, or an operator, may conclude from the contract.           *)

\* Nothing was opened for a request that is turned away, nor is anything later.
RefusedUntouched == \A r \in Requests : answer[r] \in Refusals => Untouched(r)

\* What was opened, in whatever state it is by now, was permitted.
OpenedPermitted ==
  \A r \in Requests, t \in Things : things[<<r, t>>] # "none" => r \in permitted

\* A handler returns with an answer written and its session given back, and after a
\* clean exit each has.
ReturnedAnswered ==
  \A r \in Requests :
    \/ phase[r] = "returned" /\ answer[r] # 0 /\ things[<<r, "session">>] # "open"
    \/ phase[r] = "waiting" /\ answer[r] = 0 /\ Untouched(r)
    \/ phase[r] = "handled" /\ process # "clean"

\* An answer is written once, nothing is opened twice or after it was given back, no
\* handler starts again, and nothing happens once the process has ended.
OneWay ==
  [][/\ \A r \in Requests :
          /\ answer[r] # 0 => answer'[r] = answer[r]
          /\ phase[r] = "returned" => phase'[r] = "returned"
          /\ phase'[r] = "waiting" => phase[r] = "waiting"
          /\ \A t \in Things :
               /\ things[<<r, t>>] = "closed" => things'[<<r, t>>] = "closed"
               /\ things'[<<r, t>>] = "none" => things[<<r, t>>] = "none"
     /\ process \notin {"clean", "gone"}]_contractVars
=============================================================================
