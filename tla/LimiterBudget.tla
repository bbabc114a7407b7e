--------------------------- MODULE LimiterBudget ---------------------------
(***************************************************************************)
(* What the rate limiter is for: how much a key may spend in any stretch   *)
(* of time.  An observer of LimiterStore watches one key.  It starts its   *)
(* stopwatch, at any moment and as often as it likes, and adds up what the *)
(* key is granted from there on.  It changes nothing: without its own      *)
(* variables its steps are those of the store, or stutter.                 *)
(***************************************************************************)
EXTENDS LimiterStore

VARIABLES watched,   \* the key
          elapsed,   \* ticks since the stopwatch was started
          opening,   \* units the key had then
          spent      \* units granted to it since

watch == <<watched, elapsed, opening, spent>>
budgetVars == <<vars, watch>>

BudgetInit ==
  /\ Init
  /\ watched \in Keys /\ elapsed = 0 /\ opening = levelOf[watched] /\ spent = 0

WatchTick == Tick /\ elapsed' = elapsed + 1 /\ UNCHANGED <<watched, opening, spent>>

WatchRequest(c) ==
  /\ (\E k \in Keys : Arrive(c, k)) \/ Lock(c)
  /\ UNCHANGED watch

WatchTake(c) ==
  /\ Take(c)
  /\ spent' = IF key[c] = watched /\ pc'[c] = "granted" THEN spent + Cost ELSE spent
  /\ UNCHANGED <<watched, elapsed, opening>>

StartWatch ==
  /\ elapsed' = 0 /\ opening' = levelOf[watched] /\ spent' = 0
  /\ UNCHANGED <<vars, watched>>

BudgetNext ==
  \/ WatchTick \/ StartWatch
  \/ \E c \in Callers : WatchRequest(c) \/ WatchTake(c)

BudgetSpec == BudgetInit /\ [][BudgetNext]_budgetVars

(* In any stretch of time a key is granted at most what it had at the start *)
(* of it, its burst at the most, and what the rate gives meanwhile: however *)
(* many requests ask at once, whatever the store drops and makes anew       *)
(* (handler.go:547), and however long each waits between reading the clock, *)
(* holding the mutex and taking its token.                                  *)
WithinBudget == opening <= Capacity /\ spent <= opening + Rate * elapsed

(* A request is denied only when what its key had at the start of the       *)
(* stretch is spent, but for less than a token: neither what other keys     *)
(* take nor what the store drops costs it anything.                         *)
DeniedWhenSpent ==
  [][\A c \in Callers :
       pc[c] = "take" /\ key[c] = watched /\ pc'[c] = "denied" =>
         spent + Cost > opening]_budgetVars
=============================================================================
