------------------------ MODULE LimiterBudget_proofs ------------------------
(***************************************************************************)
(* Proofs about LimiterBudget: what follows for a key from the buckets     *)
(* that LimiterStore_proofs shows the store to keep.                       *)
(***************************************************************************)
EXTENDS LimiterBudget, LimiterStore_proofs

WatchTypes ==
  watched \in Keys /\ elapsed \in Nat /\ opening \in 0..Capacity /\ spent \in Nat

\* What is spent was there at the start or came with the rate; what was there at
\* the start is spent or still there.
Ledger ==
  /\ spent + levelOf[watched] <= opening + Rate * elapsed
  /\ opening <= spent + levelOf[watched]

BudgetInv == IInv /\ WatchTypes /\ Ledger

\* A bucket holds between nothing and its burst.
LEMMA LevelOfType ==
  ASSUME IInv, NEW k \in Keys
  PROVE  levelOf[k] \in 0..Capacity
  <1>1. CASE k \in DOMAIN entries
    <2>1. now \in Nat /\ limiters[entries[k].limiter] \in Limiter
      BY <1>1, Types DEF IInv
    <2> QED BY <1>1, <2>1, LevelType DEF levelOf
  <1>2. CASE k \notin DOMAIN entries
    BY <1>2, StoreAssumption DEF levelOf
  <1> QED BY <1>1, <1>2

\* The observer's steps are the store's, or stutter.
LEMMA WatchSteps ==
  ASSUME [BudgetNext]_budgetVars
  PROVE  [Next]_vars
  BY DEF BudgetNext, budgetVars, WatchTick, WatchRequest, WatchTake, StartWatch, Next

\* A request that only arrives, or only finds its bucket, spends nothing.
LEMMA RequestLevels ==
  ASSUME IInv, NEW c \in Callers, WatchRequest(c)
  PROVE  levelOf' = levelOf /\ UNCHANGED watch
  <1>1. CASE Lock(c)
    BY <1>1, LockLevels DEF WatchRequest
  <1>2. ASSUME NEW k \in Keys, Arrive(c, k) PROVE levelOf' = levelOf
    BY <1>2 DEF Arrive, store, levelOf, Level
  <1> QED BY <1>1, <1>2 DEF WatchRequest

\* What a granted request takes from the bucket of its key, it adds to the spending.
LEMMA TakeSpends ==
  ASSUME BudgetInv, NEW c \in Callers, WatchTake(c)
  PROVE  \/ /\ key[c] = watched /\ pc'[c] = "granted" /\ levelOf[watched] >= Cost
            /\ spent' = spent + Cost /\ levelOf'[watched] = levelOf[watched] - Cost
         \/ /\ key[c] = watched /\ pc'[c] = "denied" /\ levelOf[watched] < Cost
            /\ spent' = spent /\ levelOf'[watched] = levelOf[watched]
         \/ /\ key[c] # watched
            /\ spent' = spent /\ levelOf'[watched] = levelOf[watched]
  <1>1. Take(c) /\ watched \in Keys /\ pc \in [Callers -> Labels]
    BY DEF WatchTake, BudgetInv, WatchTypes, IInv, TypeOK
  <1>2. \/ /\ levelOf[key[c]] >= Cost /\ pc'[c] = "granted"
           /\ levelOf' = [levelOf EXCEPT ![key[c]] = @ - Cost]
        \/ /\ levelOf[key[c]] < Cost /\ pc'[c] = "denied"
           /\ levelOf' = levelOf
    BY <1>1, TakeLevels DEF BudgetInv
  <1>3. DOMAIN levelOf = Keys
    BY DEF levelOf
  <1> HIDE DEF levelOf
  <1> QED BY <1>1, <1>2, <1>3 DEF WatchTake

LEMMA LedgerStep ==
  ASSUME BudgetInv, [BudgetNext]_budgetVars
  PROVE  WatchTypes' /\ Ledger'
  <1> USE StoreAssumption
  <1>0. /\ watched \in Keys /\ elapsed \in Nat /\ opening \in 0..Capacity /\ spent \in Nat
        /\ levelOf[watched] \in 0..Capacity /\ Rate * elapsed \in Nat
        /\ spent + levelOf[watched] <= opening + Rate * elapsed
        /\ opening <= spent + levelOf[watched]
    BY LevelOfType DEF BudgetInv, WatchTypes, Ledger
  <1>1. CASE WatchTick
    <2>1. levelOf'[watched] = Capped(levelOf[watched] + Rate)
      BY <1>0, <1>1, TickLevels DEF WatchTick, BudgetInv
    <2>2. /\ levelOf[watched] <= levelOf'[watched]
          /\ levelOf'[watched] <= levelOf[watched] + Rate /\ levelOf'[watched] \in Nat
      <3> HIDE DEF levelOf
      <3> QED BY <1>0, <2>1 DEF Capped
    <2>3. Rate * (elapsed + 1) = Rate * elapsed + Rate
      BY <1>0
    <2>4. elapsed' = elapsed + 1 /\ UNCHANGED <<watched, opening, spent>>
      BY <1>1 DEF WatchTick
    <2> HIDE DEF levelOf
    <2> QED BY <1>0, <2>2, <2>3, <2>4 DEF WatchTypes, Ledger
  <1>2. CASE StartWatch
    <2>1. elapsed' = 0 /\ spent' = 0 /\ opening' = levelOf[watched] /\ watched' = watched
      BY <1>2 DEF StartWatch
    <2>2. levelOf' = levelOf
      BY <1>2 DEF StartWatch, vars, store, levelOf, Level
    <2> HIDE DEF levelOf
    <2> QED BY <1>0, <2>1, <2>2 DEF WatchTypes, Ledger
  <1>3. ASSUME NEW c \in Callers, WatchRequest(c)
        PROVE  WatchTypes' /\ Ledger'
    <2>1. levelOf' = levelOf /\ UNCHANGED watch
      BY <1>3, RequestLevels DEF BudgetInv
    <2> HIDE DEF levelOf
    <2> QED BY <1>0, <2>1 DEF watch, WatchTypes, Ledger
  <1>4. ASSUME NEW c \in Callers, WatchTake(c)
        PROVE  WatchTypes' /\ Ledger'
    <2>1. \/ /\ levelOf[watched] >= Cost
             /\ spent' = spent + Cost /\ levelOf'[watched] = levelOf[watched] - Cost
          \/ spent' = spent /\ levelOf'[watched] = levelOf[watched]
      BY <1>4, TakeSpends
    <2>2. UNCHANGED <<watched, elapsed, opening>>
      BY <1>4 DEF WatchTake
    <2> HIDE DEF levelOf
    <2> QED BY <1>0, <2>1, <2>2 DEF WatchTypes, Ledger
  <1>5. CASE UNCHANGED budgetVars
    <2>1. levelOf' = levelOf /\ UNCHANGED watch
      BY <1>5 DEF budgetVars, vars, store, levelOf, Level
    <2> HIDE DEF levelOf
    <2> QED BY <1>0, <2>1 DEF watch, WatchTypes, Ledger
  <1> QED BY <1>1, <1>2, <1>3, <1>4, <1>5 DEF BudgetNext

LEMMA BudgetInitInv == BudgetInit => BudgetInv
  <1> SUFFICES ASSUME BudgetInit PROVE BudgetInv
    OBVIOUS
  <1>1. IInv
    BY InitInv DEF BudgetInit
  <1>2. /\ watched \in Keys /\ elapsed = 0 /\ opening = levelOf[watched] /\ spent = 0
        /\ levelOf[watched] \in 0..Capacity
    BY <1>1, LevelOfType DEF BudgetInit
  <1> HIDE DEF levelOf
  <1> QED BY <1>1, <1>2, StoreAssumption DEF BudgetInv, WatchTypes, Ledger

(***************************************************************************)
(* The account of the watched key balances in every reachable state.       *)
(***************************************************************************)
THEOREM BudgetInvariance == BudgetSpec => []BudgetInv
  <1>1. BudgetInit => BudgetInv
    BY BudgetInitInv
  <1>2. BudgetInv /\ [BudgetNext]_budgetVars => BudgetInv'
    <2> SUFFICES ASSUME BudgetInv, [BudgetNext]_budgetVars PROVE BudgetInv'
      OBVIOUS
    <2>1. [Next]_vars
      BY WatchSteps
    <2>2. IInv'
      BY <2>1, TypeStep, PauseStep, HeldStep, OwnStep, DrainStep DEF BudgetInv, IInv
    <2> QED BY <2>2, LedgerStep DEF BudgetInv
  <1> QED BY <1>1, <1>2, PTL DEF BudgetSpec

(***************************************************************************)
(* In any stretch of time, no key is granted more than its burst and what  *)
(* the rate gives in it, though the store forgets buckets, and requests    *)
(* use theirs after unlocking the store (handler.go:523).                  *)
(***************************************************************************)
THEOREM BudgetSound == BudgetSpec => []WithinBudget
  <1>1. BudgetInv => WithinBudget
    <2> SUFFICES ASSUME BudgetInv PROVE WithinBudget
      OBVIOUS
    <2>1. levelOf[watched] \in 0..Capacity
      BY LevelOfType DEF BudgetInv, WatchTypes
    <2>2. Rate * elapsed \in Nat
      BY StoreAssumption DEF BudgetInv, WatchTypes
    <2> HIDE DEF levelOf
    <2> QED BY <2>1, <2>2, StoreAssumption DEF BudgetInv, WatchTypes, Ledger, WithinBudget
  <1> QED BY <1>1, BudgetInvariance, PTL

(***************************************************************************)
(* No request is denied before its key has spent what it had: keys do not  *)
(* share buckets, and a bucket dropped and made anew loses nothing.        *)
(***************************************************************************)
THEOREM DenialSound == BudgetSpec => DeniedWhenSpent
  <1>1. BudgetInv /\ [BudgetNext]_budgetVars =>
          [\A c \in Callers :
             pc[c] = "take" /\ key[c] = watched /\ pc'[c] = "denied" =>
               spent + Cost > opening]_budgetVars
    <2> SUFFICES ASSUME BudgetInv, BudgetNext, NEW c \in Callers,
                        pc[c] = "take", key[c] = watched, pc'[c] = "denied"
                 PROVE  spent + Cost > opening
      OBVIOUS
    <2>1. pc \in [Callers -> Labels]
      BY DEF BudgetInv, IInv, TypeOK
    <2>2. WatchTake(c)
      <3>1. ~WatchTick /\ ~StartWatch
        BY DEF WatchTick, Tick, StartWatch, vars
      <3>2. ASSUME NEW d \in Callers, WatchRequest(d) PROVE FALSE
        BY <2>1, <3>2 DEF WatchRequest, Arrive, Lock, Inside
      <3>3. ASSUME NEW d \in Callers, WatchTake(d), d # c PROVE FALSE
        BY <2>1, <3>3 DEF WatchTake, Take
      <3> QED BY <3>1, <3>2, <3>3 DEF BudgetNext
    <2>3. levelOf[watched] < Cost
      BY <2>2, TakeSpends
    <2>4. levelOf[watched] \in 0..Capacity
      BY LevelOfType DEF BudgetInv, WatchTypes
    <2> HIDE DEF levelOf
    <2> QED BY <2>3, <2>4, StoreAssumption DEF BudgetInv, WatchTypes, Ledger
  <1> QED BY <1>1, BudgetInvariance, PTL DEF BudgetSpec, DeniedWhenSpent
=============================================================================
