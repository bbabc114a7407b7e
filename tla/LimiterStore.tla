---------------------------- MODULE LimiterStore ----------------------------
(***************************************************************************)
(* limiterStore of the HTTP adapter: a map from keys to token buckets,     *)
(* shared by all requests.  Allow reads the clock, finds or makes the      *)
(* bucket of the key and drops the entries not seen for ttl, all under the *)
(* store's mutex, and takes a token from the bucket after unlocking it.    *)
(* Between the three, other requests do the same and time passes.          *)
(*                                                                         *)
(* A limiter is identified by its place in limiters, as a pointer is: a    *)
(* request may hold one the store has dropped.  Tokens are counted in      *)
(* units, Cost to a token and Rate to a tick, so any rate is an integer.   *)
(***************************************************************************)
EXTENDS Integers, Sequences

CONSTANTS Keys, Callers,
          Rate, Cost, Capacity,
          TTL,               \* ttl, in ticks
          CleanupInterval,   \* cleanupInterval, in ticks
          CleanupCalls,      \* every how many calls entries are dropped
          MaxPause,          \* ticks a request spends in Allow
          MaxTime            \* end of the clock

VARIABLES now, entries, limiters, nextCleanup, callCount,
          pc, key, at, held  \* of each caller: its step, its key, the time it
                             \* read and the limiter it found

store == <<entries, limiters, nextCleanup, callCount>>
vars == <<now, store, pc, key, at, held>>

Labels == {"idle", "lock", "take", "granted", "denied"}
Inside(c) == pc[c] \in {"lock", "take"}

ASSUME StoreAssumption ==
  /\ Rate \in Nat \ {0} /\ Cost \in Nat \ {0} /\ Capacity \in Nat
  /\ TTL \in Nat /\ CleanupInterval \in Nat /\ CleanupCalls \in Nat \ {0}
  /\ MaxPause \in Nat /\ MaxTime \in Nat

(* A bucket drained as late as the store can let it be before it is dropped *)
(* is full again by then.  With ten minutes of ttl this is a burst of less  *)
(* than about 600 seconds' worth of the rate.                               *)
ASSUME RefillAssumption == /\ 2 * MaxPause <= TTL
                           /\ Capacity <= Rate * (TTL - 2 * MaxPause + 1)

Capped(units) == IF units > Capacity THEN Capacity ELSE units

(* rate.Limiter: tokens as of last, filled up when it is looked at. *)
BugOneTokenMore(time) == [tokens |-> Capacity + Cost, last |-> time]
NewLimiter(time) == [tokens |-> Capacity, last |-> time]
Level(limiter) == Capped(limiter.tokens + Rate * (now - limiter.last))

Init ==
  /\ now = 0 /\ entries = <<>> /\ limiters = <<>>
  /\ nextCleanup = CleanupInterval /\ callCount = 0
  /\ pc = [c \in Callers |-> "idle"] /\ key \in [Callers -> Keys]
  /\ at = [c \in Callers |-> 0] /\ held = [c \in Callers |-> 0]

(* Time passes, but no request stays in Allow for more than MaxPause. *)
Tick ==
  /\ now < MaxTime
  /\ \A c \in Callers : Inside(c) => now < at[c] + MaxPause
  /\ now' = now + 1
  /\ UNCHANGED <<store, pc, key, at, held>>

Arrive(c, k) ==
  /\ ~Inside(c)
  /\ pc' = [pc EXCEPT ![c] = "lock"]
  /\ key' = [key EXCEPT ![c] = k]
  /\ at' = [at EXCEPT ![c] = now]
  /\ UNCHANGED <<now, store, held>>

----------------------------------------------------------------------------
(* The part of Allow under the mutex. *)

Known(c) == key[c] \in DOMAIN entries

BugKeepsLastSeen(c) ==
  [k \in DOMAIN entries \cup {key[c]} |->
     IF k = key[c] /\ ~Known(c)
     THEN [limiter |-> Len(limiters) + 1, lastSeen |-> at[c]]
     ELSE entries[k]]

Touched(c) ==
  [k \in DOMAIN entries \cup {key[c]} |->
     IF k = key[c]
     THEN [limiter |-> IF Known(c) THEN entries[k].limiter ELSE Len(limiters) + 1,
           lastSeen |-> at[c]]
     ELSE entries[k]]

CleanupDue(c) == at[c] > nextCleanup \/ (callCount + 1) % CleanupCalls = 0

BugIntervalForTTL(c, found) ==
  [k \in {k \in DOMAIN found : found[k].lastSeen >= at[c] - CleanupInterval} |-> found[k]]

Unexpired(c, found) ==
  [k \in {k \in DOMAIN found : found[k].lastSeen >= at[c] - TTL} |-> found[k]]

Lock(c) ==
  /\ pc[c] = "lock"
  /\ held' = [held EXCEPT ![c] = Touched(c)[key[c]].limiter]
  /\ limiters' = IF Known(c) THEN limiters ELSE Append(limiters, NewLimiter(now))
  /\ callCount' = (callCount + 1) % CleanupCalls
  /\ IF CleanupDue(c)
     THEN /\ entries' = Unexpired(c, Touched(c))
          /\ nextCleanup' = at[c] + CleanupInterval
     ELSE entries' = Touched(c) /\ UNCHANGED nextCleanup
  /\ pc' = [pc EXCEPT ![c] = "take"]
  /\ UNCHANGED <<now, key, at>>

(* entry.limiter.Allow(), after the mutex is released; Allow returns.       *)
Take(c) ==
  /\ pc[c] = "take"
  /\ \/ /\ Level(limiters[held[c]]) >= Cost
        /\ limiters' = [limiters EXCEPT ![held[c]] =
                          [tokens |-> Level(@) - Cost, last |-> now]]
        /\ pc' = [pc EXCEPT ![c] = "granted"]
     \/ /\ Level(limiters[held[c]]) < Cost
        /\ pc' = [pc EXCEPT ![c] = "denied"]
        /\ UNCHANGED limiters
  /\ at' = [at EXCEPT ![c] = 0] /\ held' = [held EXCEPT ![c] = 0]
  /\ UNCHANGED <<now, entries, nextCleanup, callCount, key>>

Next == Tick \/ \E c \in Callers : (\E k \in Keys : Arrive(c, k)) \/ Lock(c) \/ Take(c)

Spec == Init /\ [][Next]_vars

----------------------------------------------------------------------------
(* Properties. *)

TypeOK ==
  /\ now \in 0..MaxTime /\ nextCleanup \in Nat /\ callCount \in 0..(CleanupCalls - 1)
  /\ limiters \in Seq([tokens : 0..Capacity, last : 0..now])
  /\ DOMAIN entries \subseteq Keys
  /\ entries \in [DOMAIN entries -> [limiter : 1..Len(limiters), lastSeen : 0..now]]
  /\ pc \in [Callers -> Labels] /\ key \in [Callers -> Keys]
  /\ at \in [Callers -> 0..now] /\ held \in [Callers -> 0..Len(limiters)]

(* A request takes its token from the bucket the store has for its key,     *)
(* though another may have dropped entries since it unlocked the store: no  *)
(* key is ever served from two buckets.                                     *)
HeldIsCurrent ==
  \A c \in Callers : pc[c] = "take" =>
    /\ key[c] \in DOMAIN entries
    /\ held[c] = entries[key[c]].limiter

(* The store implements RateLimit: although it forgets buckets, it grants   *)
(* and denies what buckets never forgotten would.                           *)
levelOf == [k \in Keys |-> IF k \in DOMAIN entries
                           THEN Level(limiters[entries[k].limiter])
                           ELSE Capacity]
statusOf == [c \in Callers |-> IF Inside(c) THEN "asking" ELSE pc[c]]

Limit == INSTANCE RateLimit WITH level <- levelOf, status <- statusOf

ImplementsRateLimit == Limit!LimitSpec
=============================================================================
