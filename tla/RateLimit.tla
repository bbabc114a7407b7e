----------------------------- MODULE RateLimit -----------------------------
(***************************************************************************)
(* What the rate limiter of the HTTP adapter promises: every key has a     *)
(* bucket of its own that is never forgotten.  It starts full, fills by    *)
(* Rate units a tick up to its capacity, and a request is granted exactly  *)
(* when the Cost of one can be taken from it.                              *)
(***************************************************************************)
EXTENDS Integers

CONSTANTS Keys,      \* API keys, or addresses of clients
          Callers,   \* requests in the middleware at the same time
          Rate,      \* units a bucket gains in a tick
          Cost,      \* units a request takes
          Capacity   \* units in a full bucket

VARIABLES level,     \* units in each bucket
          status,    \* where each caller is
          key        \* and the key it asks for

limitVars == <<level, status, key>>

Capped(units) == IF units > Capacity THEN Capacity ELSE units

Statuses == {"idle", "asking", "granted", "denied"}

LimitInit ==
  /\ level = [k \in Keys |-> Capacity]
  /\ status = [c \in Callers |-> "idle"]
  /\ key \in [Callers -> Keys]

Fill ==
  /\ level' = [k \in Keys |-> Capped(level[k] + Rate)]
  /\ UNCHANGED <<status, key>>

Ask(c, k) ==
  /\ status[c] # "asking"
  /\ status' = [status EXCEPT ![c] = "asking"]
  /\ key' = [key EXCEPT ![c] = k]
  /\ UNCHANGED level

Grant(c) ==
  /\ status[c] = "asking" /\ level[key[c]] >= Cost
  /\ level' = [level EXCEPT ![key[c]] = @ - Cost]
  /\ status' = [status EXCEPT ![c] = "granted"]
  /\ UNCHANGED key

Deny(c) ==
  /\ status[c] = "asking" /\ level[key[c]] < Cost
  /\ status' = [status EXCEPT ![c] = "denied"]
  /\ UNCHANGED <<level, key>>

LimitNext == Fill \/ \E c \in Callers : (\E k \in Keys : Ask(c, k)) \/ Grant(c) \/ Deny(c)

LimitSpec == LimitInit /\ [][LimitNext]_limitVars
=============================================================================
