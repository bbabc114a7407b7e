------------------------ MODULE LimiterStore_proofs ------------------------
(***************************************************************************)
(* Proofs about LimiterStore, for any keys, any number of requests at the  *)
(* same time, and any rate, burst, ttl and cleanup.                        *)
(***************************************************************************)
EXTENDS LimiterStore, TLAPS, SequenceTheorems

Limiter == [tokens : 0..Capacity, last : 0..now]

\* Nobody stays in Allow for more than MaxPause.
PauseInv == \A c \in Callers : Inside(c) => now <= at[c] + MaxPause

\* An entry was seen at most one pause before any request about to use it:
\* requests that read the clock earlier may have overwritten its lastSeen.
SeenInv == \A c \in Callers : pc[c] = "take" => at[c] <= entries[key[c]].lastSeen + MaxPause

\* No limiter belongs to two keys.
OwnInv == \A k, l \in DOMAIN entries : entries[k].limiter = entries[l].limiter => k = l

\* A token was taken at most two pauses after its entry was seen.
DrainInv ==
  \A k \in DOMAIN entries :
    limiters[entries[k].limiter].last <= entries[k].lastSeen + 2 * MaxPause

IInv == TypeOK /\ PauseInv /\ HeldIsCurrent /\ SeenInv /\ OwnInv /\ DrainInv

----------------------------------------------------------------------------
(* The type invariant, element by element.                                 *)

LEMMA Types ==
  ASSUME TypeOK
  PROVE  /\ now \in Nat
         /\ limiters \in Seq(Limiter) /\ Len(limiters) \in Nat
         /\ \A i \in 1..Len(limiters) : /\ limiters[i] \in Limiter
                                        /\ limiters[i].last \in 0..now
         /\ DOMAIN entries \subseteq Keys
         /\ \A k \in DOMAIN entries : /\ entries[k].limiter \in 1..Len(limiters)
                                      /\ entries[k].lastSeen \in 0..now
         /\ \A c \in Callers : at[c] \in 0..now /\ key[c] \in Keys
  <1>1. now \in Nat
    BY DEF TypeOK
  <1>2. limiters \in Seq(Limiter)
    BY DEF TypeOK, Limiter
  <1>3. Len(limiters) \in Nat /\ \A i \in 1..Len(limiters) : limiters[i] \in Limiter
    BY <1>2
  <1>4. \A i \in 1..Len(limiters) : limiters[i].last \in 0..now
    BY <1>3 DEF Limiter
  <1>5. entries \in [DOMAIN entries -> [limiter : 1..Len(limiters), lastSeen : 0..now]]
    BY DEF TypeOK
  <1>6. \A k \in DOMAIN entries : entries[k] \in [limiter : 1..Len(limiters), lastSeen : 0..now]
    BY <1>5
  <1>7. \A c \in Callers : at[c] \in 0..now /\ key[c] \in Keys
    BY DEF TypeOK
  <1> QED BY <1>1, <1>2, <1>3, <1>4, <1>6, <1>7 DEF TypeOK

----------------------------------------------------------------------------
(* Limiters fill up with time, and an expired one is full.                 *)

LEMMA LevelType ==
  ASSUME now \in Nat, NEW limiter \in Limiter
  PROVE  Level(limiter) \in 0..Capacity
  <1>1. limiter.tokens \in 0..Capacity /\ now - limiter.last \in Nat
    BY DEF Limiter
  <1>2. Rate * (now - limiter.last) \in Nat
    BY <1>1, StoreAssumption
  <1> QED BY <1>1, <1>2, StoreAssumption DEF Level, Capped

\* A limiter last used more than ttl less two pauses ago is full.
LEMMA ExpiredIsFull ==
  ASSUME now \in Nat, NEW limiter \in Limiter,
         now - limiter.last >= TTL - 2 * MaxPause + 1
  PROVE  Level(limiter) = Capacity
  <1> DEFINE idle == now - limiter.last
             least == TTL - 2 * MaxPause + 1
  <1>1. idle \in Nat /\ least \in Nat /\ idle >= least
    BY StoreAssumption, RefillAssumption DEF Limiter
  <1> HIDE DEF idle, least
  <1>2. Rate * idle = Rate * least + Rate * (idle - least)
    BY <1>1, StoreAssumption
  <1>3. Rate * (idle - least) \in Nat /\ Rate * least \in Nat
    BY <1>1, StoreAssumption
  <1>4. Capacity <= Rate * idle /\ Rate * idle \in Nat
    BY <1>2, <1>3, RefillAssumption, StoreAssumption DEF least
  <1> QED BY <1>4, StoreAssumption DEF Level, Capped, Limiter, idle

\* In a tick a limiter gains the rate.
LEMMA LevelTicks ==
  ASSUME now \in Nat, NEW limiter \in Limiter, now' = now + 1
  PROVE  Capped(limiter.tokens + Rate * (now' - limiter.last)) = Capped(Level(limiter) + Rate)
  <1> DEFINE idle == now - limiter.last
  <1>1. idle \in Nat /\ now' - limiter.last = idle + 1
    BY DEF Limiter
  <1> HIDE DEF idle
  <1>2. Rate * (idle + 1) = Rate * idle + Rate /\ Rate * idle \in Nat
    BY <1>1, StoreAssumption
  <1> QED BY <1>1, <1>2, StoreAssumption DEF Level, Capped, Limiter, idle

----------------------------------------------------------------------------
(* What Lock does to the entries.                                          *)

\* Lock removes only entries not seen for ttl, none of them its own.
LEMMA LockEntries ==
  ASSUME IInv, NEW c \in Callers, Lock(c)
  PROVE  /\ key[c] \in DOMAIN entries'
         /\ DOMAIN entries' \subseteq DOMAIN entries \cup {key[c]}
         /\ \A k \in DOMAIN entries' : entries'[k] = Touched(c)[k]
         /\ \A k \in DOMAIN entries \ DOMAIN entries' :
              k # key[c] /\ entries[k].lastSeen < at[c] - TTL
  <1>1. at[c] \in Nat /\ TTL \in Nat
    BY StoreAssumption DEF IInv, TypeOK
  <1>2. Touched(c)[key[c]].lastSeen = at[c]
    BY DEF Touched
  <1>3. \A k \in DOMAIN entries : k # key[c] => Touched(c)[k] = entries[k]
    BY DEF Touched
  <1>4. DOMAIN Touched(c) = DOMAIN entries \cup {key[c]}
    BY DEF Touched
  <1>5. \A k \in DOMAIN entries : entries[k].lastSeen \in Nat
    BY DEF IInv, TypeOK
  <1>6. CASE CleanupDue(c)
    <2>1. entries' = Unexpired(c, Touched(c))
      BY <1>6 DEF Lock
    <2> HIDE DEF IInv
    <2> QED BY <1>1, <1>2, <1>3, <1>4, <1>5, <2>1 DEF Unexpired
  <1>7. CASE ~CleanupDue(c)
    <2>1. entries' = Touched(c)
      BY <1>7 DEF Lock
    <2> QED BY <1>4, <2>1
  <1> QED BY <1>6, <1>7

\* The limiter a request goes on with is the one of its key.
LEMMA LockHeld ==
  ASSUME IInv, NEW c \in Callers, Lock(c)
  PROVE  /\ held'[c] = entries'[key[c]].limiter
         /\ entries'[key[c]].lastSeen = at[c]
         /\ held'[c] \in 1..Len(limiters')
  <1>1. held'[c] = Touched(c)[key[c]].limiter
    BY DEF Lock, IInv, TypeOK
  <1>2. entries'[key[c]] = Touched(c)[key[c]]
    BY LockEntries
  <1>3. Touched(c)[key[c]].lastSeen = at[c]
    BY DEF Touched
  <1>4. CASE Known(c)
    <2>1. limiters' = limiters /\ entries[key[c]].limiter \in 1..Len(limiters)
      BY <1>4 DEF Lock, IInv, TypeOK, Known
    <2>2. Touched(c)[key[c]].limiter = entries[key[c]].limiter
      BY <1>4 DEF Touched, Known
    <2> QED BY <1>1, <1>2, <1>3, <2>1, <2>2
  <1>5. CASE ~Known(c)
    <2>1. Len(limiters') = Len(limiters) + 1 /\ Len(limiters) \in Nat
      BY <1>5 DEF Lock, IInv, TypeOK
    <2>2. Touched(c)[key[c]].limiter = Len(limiters) + 1
      BY <1>5 DEF Touched
    <2> QED BY <1>1, <1>2, <1>3, <2>1, <2>2
  <1> QED BY <1>4, <1>5

\* Lock leaves every limiter as it was, and at most adds a full one.
LEMMA LockLimiters ==
  ASSUME IInv, NEW c \in Callers, Lock(c)
  PROVE  /\ limiters' \in Seq(Limiter)
         /\ Len(limiters) \in Nat /\ Len(limiters') \in Nat
         /\ Len(limiters) <= Len(limiters')
         /\ \A i \in 1..Len(limiters) : limiters'[i] = limiters[i]
         /\ ~Known(c) => /\ Len(limiters') = Len(limiters) + 1
                         /\ limiters'[Len(limiters) + 1] = NewLimiter(now)
         /\ Known(c) => limiters' = limiters
  <1>1. limiters \in Seq(Limiter) /\ Len(limiters) \in Nat
    BY DEF IInv, TypeOK, Limiter
  <1>2. NewLimiter(now) \in Limiter
    BY StoreAssumption DEF IInv, TypeOK, NewLimiter, Limiter
  <1> QED BY <1>1, <1>2 DEF Lock

----------------------------------------------------------------------------
(* Each part of the invariant is preserved.                                *)

LEMMA TypeStep ==
  ASSUME IInv, [Next]_vars
  PROVE  TypeOK'
  <1> USE StoreAssumption
  <1>1. CASE Tick
    <2>1. now' = now + 1 /\ now' \in 0..MaxTime
      BY <1>1 DEF Tick, IInv, TypeOK
    <2>2. limiters' = limiters /\ entries' = entries /\ at' = at
      BY <1>1 DEF Tick, store
    <2>3. limiters' \in Seq([tokens : 0..Capacity, last : 0..now'])
      <3>1. limiters \in Seq(Limiter) /\ now \in Nat
        BY Types DEF IInv
      <3>2. Limiter \subseteq [tokens : 0..Capacity, last : 0..now']
        BY <2>1, <3>1 DEF Limiter
      <3>3. limiters \in Seq([tokens : 0..Capacity, last : 0..now'])
        BY <3>1, <3>2, SeqMonotonic
      <3> QED BY <2>2, <3>3
    <2>4. entries' \in [DOMAIN entries' -> [limiter : 1..Len(limiters'), lastSeen : 0..now']]
      <3>1. entries \in [DOMAIN entries -> [limiter : 1..Len(limiters), lastSeen : 0..now]]
        BY DEF IInv, TypeOK
      <3>2. [limiter : 1..Len(limiters), lastSeen : 0..now]
              \subseteq [limiter : 1..Len(limiters), lastSeen : 0..now']
        BY <2>1, Types DEF IInv
      <3>3. entries \in [DOMAIN entries -> [limiter : 1..Len(limiters), lastSeen : 0..now']]
        BY <3>1, <3>2
      <3> QED BY <2>2, <3>3
    <2>5. at' \in [Callers -> 0..now']
      BY <2>1, <2>2 DEF IInv, TypeOK
    <2>6. UNCHANGED <<nextCleanup, callCount, pc, key, held>>
      BY <1>1 DEF Tick, store
    <2> QED BY <2>1, <2>2, <2>3, <2>4, <2>5, <2>6 DEF IInv, TypeOK
  <1>2. ASSUME NEW c \in Callers, NEW k \in Keys, Arrive(c, k)
        PROVE  TypeOK'
    <2>1. UNCHANGED <<now, entries, limiters, nextCleanup, callCount, held>>
      BY <1>2 DEF Arrive, store
    <2>2. /\ pc' \in [Callers -> Labels] /\ key' \in [Callers -> Keys]
          /\ at' \in [Callers -> 0..now]
      BY <1>2 DEF Arrive, IInv, TypeOK, Labels
    <2> QED BY <2>1, <2>2 DEF IInv, TypeOK
  <1>3. ASSUME NEW c \in Callers, Lock(c)
        PROVE  TypeOK'
    <2>1. limiters' \in Seq(Limiter) /\ now' = now
      BY <1>3, LockLimiters DEF Lock
    <2>2. \A k \in DOMAIN entries' :
             entries'[k] \in [limiter : 1..Len(limiters'), lastSeen : 0..now]
      <3> SUFFICES ASSUME NEW k \in DOMAIN entries'
                   PROVE  Touched(c)[k] \in [limiter : 1..Len(limiters'), lastSeen : 0..now]
        BY <1>3, LockEntries
      <3>1. k \in DOMAIN entries \cup {key[c]} /\ at[c] \in 0..now
        BY <1>3, LockEntries, Types DEF IInv
      <3>2. \A l \in DOMAIN entries :
               entries[l] \in [limiter : 1..Len(limiters), lastSeen : 0..now]
        BY DEF IInv, TypeOK
      <3>3. now \in Nat
        BY Types DEF IInv
      <3> HIDE DEF IInv
      <3> QED BY <1>3, <3>1, <3>2, <3>3, LockLimiters DEF Touched, Known
    <2>3. DOMAIN entries' \subseteq Keys /\ entries' = [k \in DOMAIN entries' |-> entries'[k]]
      <3>1. DOMAIN entries' \subseteq Keys
        BY <1>3, LockEntries, Types DEF IInv
      <3>2. entries' = [k \in DOMAIN entries' |-> entries'[k]]
        BY <1>3 DEF Lock, Unexpired, Touched
      <3> QED BY <3>1, <3>2
    <2>4. entries' \in [DOMAIN entries' -> [limiter : 1..Len(limiters'), lastSeen : 0..now']]
      BY <2>1, <2>2, <2>3
    <2>5. held' \in [Callers -> 0..Len(limiters')]
      <3>1. held' = [held EXCEPT ![c] = held'[c]] /\ held'[c] \in 0..Len(limiters')
        <4>1. held' = [held EXCEPT ![c] = Touched(c)[key[c]].limiter]
          BY <1>3 DEF Lock
        <4>2. held \in [Callers -> 0..Len(limiters)]
          BY DEF IInv, TypeOK
        <4> QED BY <1>3, <4>1, <4>2, LockHeld, LockLimiters
      <3>2. held \in [Callers -> 0..Len(limiters)]
        BY DEF IInv, TypeOK
      <3>3. Len(limiters) \in Nat /\ Len(limiters') \in Nat /\ Len(limiters) <= Len(limiters')
        BY <1>3, LockLimiters
      <3> HIDE DEF IInv
      <3> QED BY <3>1, <3>2, <3>3
    <2>6. nextCleanup' \in Nat /\ callCount' \in 0..(CleanupCalls - 1)
      <3>1. nextCleanup \in Nat /\ at[c] \in Nat /\ callCount \in Nat
        BY DEF IInv, TypeOK
      <3>2. nextCleanup' \in {nextCleanup, at[c] + CleanupInterval}
        BY <1>3 DEF Lock
      <3>3. callCount' = (callCount + 1) % CleanupCalls
        BY <1>3 DEF Lock
      <3> HIDE DEF IInv
      <3> QED BY <3>1, <3>2, <3>3
    <2>7. pc' \in [Callers -> Labels] /\ UNCHANGED <<now, key, at>>
      BY <1>3 DEF Lock, IInv, TypeOK, Labels
    <2> QED BY <2>1, <2>3, <2>4, <2>5, <2>6, <2>7 DEF IInv, TypeOK, Limiter
  <1>4. ASSUME NEW c \in Callers, Take(c)
        PROVE  TypeOK'
    <2>1. limiters \in Seq(Limiter) /\ held[c] \in 1..Len(limiters)
      BY <1>4 DEF Take, IInv, TypeOK, HeldIsCurrent, Limiter
    <2>2. Level(limiters[held[c]]) \in 0..Capacity
      <3>1. now \in Nat /\ limiters[held[c]] \in Limiter
        BY <2>1, Types DEF IInv
      <3> QED BY <3>1, LevelType
    <2>3. limiters' \in Seq(Limiter) /\ Len(limiters') = Len(limiters)
      <3>1. CASE limiters' = limiters
        BY <2>1, <3>1
      <3>2. CASE limiters' # limiters
        <4> DEFINE taken == [tokens |-> Level(limiters[held[c]]) - Cost, last |-> now]
        <4>1. limiters' = [limiters EXCEPT ![held[c]] = taken]
              /\ Level(limiters[held[c]]) >= Cost
          BY <1>4, <3>2, <2>1 DEF Take
        <4>2. taken \in Limiter
          BY <2>2, <4>1 DEF Limiter, IInv, TypeOK
        <4> HIDE DEF taken
        <4> QED BY <2>1, <4>1, <4>2
      <3> QED BY <3>1, <3>2
    <2>4. /\ UNCHANGED <<now, entries, nextCleanup, callCount, key>>
          /\ at' = [at EXCEPT ![c] = 0] /\ held' = [held EXCEPT ![c] = 0]
          /\ pc' \in [Callers -> Labels]
      BY <1>4 DEF Take, IInv, TypeOK, Labels
    <2>5. at' \in [Callers -> 0..now] /\ held' \in [Callers -> 0..Len(limiters)]
      <3>1. now \in Nat /\ Len(limiters) \in Nat
        BY Types DEF IInv
      <3>2. at \in [Callers -> 0..now] /\ held \in [Callers -> 0..Len(limiters)]
        BY DEF IInv, TypeOK
      <3> QED BY <2>4, <3>1, <3>2
    <2>6. limiters' \in Seq([tokens : 0..Capacity, last : 0..now'])
      BY <2>3, <2>4 DEF Limiter
    <2> QED BY <2>3, <2>4, <2>5, <2>6 DEF IInv, TypeOK
  <1>5. CASE UNCHANGED vars
    BY <1>5 DEF vars, store, IInv, TypeOK
  <1> QED BY <1>1, <1>2, <1>3, <1>4, <1>5 DEF Next

LEMMA PauseStep ==
  ASSUME IInv, [Next]_vars
  PROVE  PauseInv'
  <1> USE StoreAssumption DEF Inside
  <1>1. CASE Tick
    BY <1>1 DEF Tick, IInv, TypeOK, PauseInv
  <1>2. ASSUME NEW c \in Callers, NEW k \in Keys, Arrive(c, k)
        PROVE  PauseInv'
    BY <1>2 DEF Arrive, IInv, TypeOK, PauseInv
  <1>3. ASSUME NEW c \in Callers, Lock(c)
        PROVE  PauseInv'
    BY <1>3 DEF Lock, IInv, TypeOK, PauseInv
  <1>4. ASSUME NEW c \in Callers, Take(c)
        PROVE  PauseInv'
    BY <1>4 DEF Take, IInv, TypeOK, PauseInv
  <1>5. CASE UNCHANGED vars
    BY <1>5 DEF vars, IInv, PauseInv
  <1> QED BY <1>1, <1>2, <1>3, <1>4, <1>5 DEF Next

\* A request that holds a limiter keeps its entry from expiring.
LEMMA HeldStep ==
  ASSUME IInv, [Next]_vars
  PROVE  HeldIsCurrent' /\ SeenInv'
  <1> USE StoreAssumption, RefillAssumption
  <1>1. CASE Tick
    BY <1>1 DEF Tick, store, IInv, HeldIsCurrent, SeenInv
  <1>2. ASSUME NEW c \in Callers, NEW k \in Keys, Arrive(c, k)
        PROVE  HeldIsCurrent' /\ SeenInv'
    BY <1>2 DEF Arrive, store, IInv, TypeOK, HeldIsCurrent, SeenInv
  <1>3. ASSUME NEW c \in Callers, Lock(c)
        PROVE  HeldIsCurrent' /\ SeenInv'
    <2> SUFFICES ASSUME NEW d \in Callers, pc'[d] = "take"
                 PROVE  /\ key'[d] \in DOMAIN entries'
                        /\ held'[d] = entries'[key'[d]].limiter
                        /\ at'[d] <= entries'[key'[d]].lastSeen + MaxPause
      BY DEF HeldIsCurrent, SeenInv
    <2>0. key' = key /\ at' = at /\ at[c] \in 0..now /\ at[d] \in 0..now /\ now \in Nat
      BY <1>3 DEF Lock, IInv, TypeOK
    <2>1. CASE d = c
      BY <1>3, <2>0, <2>1, LockEntries, LockHeld
    <2>2. CASE d # c
      <3>1. /\ pc[d] = "take" /\ key[d] \in DOMAIN entries
            /\ held'[d] = held[d] /\ held[d] = entries[key[d]].limiter
        BY <1>3, <2>2 DEF Lock, IInv, TypeOK, HeldIsCurrent
      <3>2. /\ at[d] <= entries[key[d]].lastSeen + MaxPause
            /\ now <= at[d] + MaxPause /\ now <= at[c] + MaxPause
            /\ entries[key[d]].lastSeen \in Nat
        BY <1>3, <3>1 DEF Lock, IInv, TypeOK, SeenInv, PauseInv, Inside
      <3>3. key[d] \in DOMAIN entries'
        BY <1>3, <2>0, <3>1, <3>2, LockEntries
      <3>4. entries'[key[d]] = Touched(c)[key[d]]
        BY <1>3, <3>3, LockEntries
      <3>5. CASE key[d] = key[c]
        <4>1. Touched(c)[key[d]] = [limiter |-> entries[key[d]].limiter, lastSeen |-> at[c]]
          BY <3>1, <3>5 DEF Touched, Known
        <4> QED BY <2>0, <3>1, <3>2, <3>3, <3>4, <4>1
      <3>6. CASE key[d] # key[c]
        <4>1. Touched(c)[key[d]] = entries[key[d]]
          BY <3>1, <3>6 DEF Touched
        <4> QED BY <2>0, <3>1, <3>2, <3>3, <3>4, <4>1
      <3> QED BY <3>5, <3>6
    <2> QED BY <2>1, <2>2
  <1>4. ASSUME NEW c \in Callers, Take(c)
        PROVE  HeldIsCurrent' /\ SeenInv'
    BY <1>4 DEF Take, IInv, TypeOK, HeldIsCurrent, SeenInv
  <1>5. CASE UNCHANGED vars
    BY <1>5 DEF vars, store, IInv, HeldIsCurrent, SeenInv
  <1> QED BY <1>1, <1>2, <1>3, <1>4, <1>5 DEF Next

LEMMA OwnStep ==
  ASSUME IInv, [Next]_vars
  PROVE  OwnInv'
  <1>1. ASSUME NEW c \in Callers, Lock(c)
        PROVE  OwnInv'
    <2>1. \A k \in DOMAIN entries : entries[k].limiter \in 1..Len(limiters)
      BY DEF IInv, TypeOK
    <2>2. Len(limiters) \in Nat
      BY <1>1, LockLimiters
    <2>3. \A k, l \in DOMAIN Touched(c) :
             Touched(c)[k].limiter = Touched(c)[l].limiter => k = l
      BY <2>1, <2>2 DEF Touched, Known, IInv, OwnInv
    <2>4. DOMAIN entries' \subseteq DOMAIN Touched(c)
      BY <1>1, LockEntries DEF Touched
    <2> QED BY <1>1, <2>3, <2>4, LockEntries DEF OwnInv
  <1>2. CASE UNCHANGED entries
    BY <1>2 DEF IInv, OwnInv
  <1> QED BY <1>1, <1>2 DEF Next, Tick, Arrive, Take, store, vars

\* A token is taken soon after its entry was seen.
LEMMA DrainStep ==
  ASSUME IInv, [Next]_vars
  PROVE  DrainInv'
  <1> USE StoreAssumption
  <1>1. ASSUME NEW c \in Callers, Lock(c)
        PROVE  DrainInv'
    <2> SUFFICES ASSUME NEW k \in DOMAIN entries'
                 PROVE  limiters'[entries'[k].limiter].last <= entries'[k].lastSeen + 2 * MaxPause
      BY DEF DrainInv
    <2>0. now \in Nat /\ at[c] \in Nat /\ now <= at[c] + MaxPause
      BY <1>1 DEF Lock, IInv, TypeOK, PauseInv, Inside
    <2>1. k \in DOMAIN entries \cup {key[c]} /\ entries'[k] = Touched(c)[k]
      BY <1>1, LockEntries
    <2>2. \A i \in 1..Len(limiters) : limiters[i].last \in 0..now
      BY Types DEF IInv
    <2>3. \A l \in DOMAIN entries : /\ entries[l].limiter \in 1..Len(limiters)
                                    /\ entries[l].lastSeen \in Nat
      BY Types DEF IInv
    <2>4. CASE k = key[c] /\ Known(c)
      <3>1. Touched(c)[k] = [limiter |-> entries[k].limiter, lastSeen |-> at[c]]
        BY <2>4 DEF Touched, Known
      <3>2. limiters'[entries[k].limiter].last \in 0..now
        BY <1>1, <2>2, <2>3, <2>4, LockLimiters DEF Known
      <3> QED BY <2>0, <2>1, <3>1, <3>2
    <2>5. CASE k = key[c] /\ ~Known(c)
      <3>1. Touched(c)[k] = [limiter |-> Len(limiters) + 1, lastSeen |-> at[c]]
        BY <2>5 DEF Touched
      <3>2. limiters'[Len(limiters) + 1].last = now
        BY <1>1, <2>5, LockLimiters DEF NewLimiter
      <3> QED BY <2>0, <2>1, <3>1, <3>2
    <2>6. CASE k # key[c]
      <3>1. Touched(c)[k] = entries[k] /\ k \in DOMAIN entries
        BY <2>1, <2>6 DEF Touched
      <3>2. limiters'[entries[k].limiter] = limiters[entries[k].limiter]
        BY <1>1, <2>3, <3>1, LockLimiters
      <3> QED BY <2>1, <3>1, <3>2 DEF IInv, DrainInv
    <2> QED BY <2>4, <2>5, <2>6
  <1>2. ASSUME NEW c \in Callers, Take(c)
        PROVE  DrainInv'
    <2> SUFFICES ASSUME NEW k \in DOMAIN entries
                 PROVE  limiters'[entries[k].limiter].last <= entries[k].lastSeen + 2 * MaxPause
      BY <1>2 DEF DrainInv, Take
    <2>1. /\ key[c] \in DOMAIN entries /\ held[c] = entries[key[c]].limiter
          /\ held[c] \in 1..Len(limiters) /\ entries[k].limiter \in 1..Len(limiters)
      BY <1>2 DEF Take, IInv, TypeOK, HeldIsCurrent
    <2>2. CASE entries[k].limiter = held[c] /\ limiters' # limiters
      <3>1. k = key[c]
        BY <2>1, <2>2 DEF IInv, OwnInv
      <3>2. limiters'[held[c]].last = now
        BY <1>2, <2>1, <2>2 DEF Take, IInv, TypeOK
      <3>3. /\ now <= at[c] + MaxPause /\ at[c] <= entries[k].lastSeen + MaxPause
            /\ now \in Nat /\ at[c] \in Nat /\ entries[k].lastSeen \in Nat
        BY <1>2, <3>1 DEF Take, Inside, IInv, TypeOK, PauseInv, SeenInv
      <3> QED BY <2>2, <3>2, <3>3
    <2>3. CASE entries[k].limiter # held[c] \/ limiters' = limiters
      <3>1. limiters'[entries[k].limiter] = limiters[entries[k].limiter]
        <4>1. limiters \in Seq(Limiter)
          BY Types DEF IInv
        <4>2. CASE limiters' # limiters
          <5>1. limiters' = [limiters EXCEPT ![held[c]] =
                               [tokens |-> Level(limiters[held[c]]) - Cost, last |-> now]]
            BY <1>2, <2>1, <4>1, <4>2 DEF Take
          <5> QED BY <2>1, <2>3, <4>1, <4>2, <5>1
        <4> QED BY <4>2
      <3> QED BY <3>1 DEF IInv, DrainInv
    <2> QED BY <2>2, <2>3
  <1>3. CASE UNCHANGED <<entries, limiters>>
    BY <1>3 DEF IInv, DrainInv
  <1> QED BY <1>1, <1>2, <1>3 DEF Next, Tick, Arrive, store, vars

LEMMA InitInv == Init => IInv
  <1> SUFFICES ASSUME Init PROVE IInv
    OBVIOUS
  <1>1. TypeOK
    <2>1. entries = <<>> /\ limiters = <<>> /\ Len(limiters) = 0 /\ DOMAIN entries = {}
      BY DEF Init
    <2>2. /\ now \in 0..MaxTime /\ nextCleanup \in Nat /\ callCount \in 0..(CleanupCalls - 1)
          /\ pc \in [Callers -> Labels] /\ key \in [Callers -> Keys]
          /\ at \in [Callers -> 0..now] /\ held \in [Callers -> 0..0]
      BY StoreAssumption DEF Init, Labels
    <2> QED BY <2>1, <2>2 DEF TypeOK
  <1>2. PauseInv /\ HeldIsCurrent /\ SeenInv
    BY DEF Init, PauseInv, HeldIsCurrent, SeenInv, Inside
  <1>3. OwnInv /\ DrainInv
    BY DEF Init, OwnInv, DrainInv
  <1> QED BY <1>1, <1>2, <1>3 DEF IInv

(***************************************************************************)
(* The inductive invariant on which the theorems below rest.               *)
(***************************************************************************)
THEOREM Invariance == Spec => []IInv
  <1>1. Init => IInv
    BY InitInv
  <1>2. IInv /\ [Next]_vars => IInv'
    BY TypeStep, PauseStep, HeldStep, OwnStep, DrainStep DEF IInv
  <1> QED BY <1>1, <1>2, PTL DEF Spec

(***************************************************************************)
(* Every reachable state of the store is well typed: in particular no      *)
(* bucket holds more than its burst or less than nothing.                  *)
(***************************************************************************)
THEOREM TypeCorrect == Spec => []TypeOK
  <1>1. IInv => TypeOK
    BY DEF IInv
  <1> QED BY <1>1, Invariance, PTL

(***************************************************************************)
(* No request takes a token from a bucket the store has dropped, although  *)
(* it takes it after unlocking the store.                                  *)
(***************************************************************************)
THEOREM HeldSound == Spec => []HeldIsCurrent
  <1>1. IInv => HeldIsCurrent
    BY DEF IInv
  <1> QED BY <1>1, Invariance, PTL

----------------------------------------------------------------------------
(* The store implements RateLimit.                                         *)

\* No entry that is made, kept or dropped changes the level of a bucket.
LEMMA LockLevels ==
  ASSUME IInv, NEW c \in Callers, Lock(c)
  PROVE  levelOf' = levelOf
  <1> SUFFICES ASSUME NEW k \in Keys PROVE levelOf'[k] = levelOf[k]
    BY DEF levelOf
  <1>0. now' = now /\ now \in Nat /\ at[c] \in 0..now /\ key[c] \in Keys
    BY Types DEF Lock, IInv
  <1>1. CASE k \in DOMAIN entries /\ k \in DOMAIN entries'
    <2>1. entries'[k].limiter = entries[k].limiter
      <3>1. entries'[k] = Touched(c)[k]
        BY <1>1, LockEntries
      <3>2. Touched(c)[k].limiter = entries[k].limiter
        BY <1>1 DEF Touched, Known
      <3> QED BY <3>1, <3>2
    <2>2. limiters'[entries[k].limiter] = limiters[entries[k].limiter]
      BY <1>1, LockLimiters, Types DEF IInv
    <2> QED BY <1>0, <1>1, <2>1, <2>2 DEF levelOf, Level
  <1>2. CASE k \in DOMAIN entries /\ k \notin DOMAIN entries'
    <2> DEFINE limiter == limiters[entries[k].limiter]
    <2>1. /\ limiter \in Limiter /\ limiter.last \in 0..now
          /\ entries[k].lastSeen \in Nat
      BY <1>2, Types DEF IInv
    <2>2. /\ entries[k].lastSeen < at[c] - TTL
          /\ limiter.last <= entries[k].lastSeen + 2 * MaxPause
      BY <1>2, LockEntries DEF IInv, DrainInv
    <2>3. now - limiter.last >= TTL - 2 * MaxPause + 1
      <3> HIDE DEF limiter, IInv
      <3> QED BY <1>0, <2>1, <2>2, StoreAssumption
    <2>4. Level(limiter) = Capacity
      BY <1>0, <2>1, <2>3, ExpiredIsFull
    <2> QED BY <1>2, <2>4 DEF levelOf
  <1>3. CASE k \notin DOMAIN entries /\ k \in DOMAIN entries'
    <2>1. k = key[c] /\ ~Known(c)
      BY <1>3, LockEntries DEF Known
    <2>2. entries'[k].limiter = Len(limiters) + 1
      <3>1. entries'[k] = Touched(c)[k]
        BY <1>3, LockEntries
      <3>2. Touched(c)[k].limiter = Len(limiters) + 1
        BY <2>1 DEF Touched
      <3> QED BY <3>1, <3>2
    <2>3. limiters'[entries'[k].limiter] = NewLimiter(now)
      BY <2>1, <2>2, LockLimiters
    <2>4. Capped(Capacity + Rate * (now - now)) = Capacity
      BY <1>0, StoreAssumption DEF Capped
    <2> QED BY <1>0, <1>3, <2>3, <2>4 DEF levelOf, Level, NewLimiter
  <1>4. CASE k \notin DOMAIN entries /\ k \notin DOMAIN entries'
    BY <1>4 DEF levelOf
  <1> QED BY <1>1, <1>2, <1>3, <1>4

\* Every bucket gains the rate in a tick.
LEMMA TickLevels ==
  ASSUME IInv, Tick
  PROVE  levelOf' = [k \in Keys |-> Capped(levelOf[k] + Rate)]
  <1> SUFFICES ASSUME NEW k \in Keys PROVE levelOf'[k] = Capped(levelOf[k] + Rate)
    BY DEF levelOf
  <1>0. now' = now + 1 /\ now \in Nat /\ UNCHANGED <<entries, limiters>>
    BY Types DEF Tick, store, IInv
  <1>1. CASE k \in DOMAIN entries
    <2>1. limiters[entries[k].limiter] \in Limiter
      BY <1>1, Types DEF IInv
    <2> QED BY <1>0, <1>1, <2>1, LevelTicks DEF levelOf, Level
  <1>2. CASE k \notin DOMAIN entries
    BY <1>0, <1>2, StoreAssumption DEF levelOf, Capped
  <1> QED BY <1>1, <1>2

\* Taking a token changes the level of one bucket, that of the key.
LEMMA TakeLevels ==
  ASSUME IInv, NEW c \in Callers, Take(c)
  PROVE  /\ levelOf[key[c]] = Level(limiters[held[c]])
         /\ key[c] \in Keys
         /\ \/ /\ levelOf[key[c]] >= Cost /\ pc' = [pc EXCEPT ![c] = "granted"]
               /\ levelOf' = [levelOf EXCEPT ![key[c]] = @ - Cost]
            \/ /\ levelOf[key[c]] < Cost /\ pc' = [pc EXCEPT ![c] = "denied"]
               /\ levelOf' = levelOf
  <1>1. /\ key[c] \in DOMAIN entries /\ held[c] = entries[key[c]].limiter
        /\ held[c] \in 1..Len(limiters) /\ key[c] \in Keys
        /\ limiters \in Seq(Limiter) /\ limiters[held[c]] \in Limiter /\ now \in Nat
    BY Types DEF Take, IInv, HeldIsCurrent
  <1>2. levelOf[key[c]] = Level(limiters[held[c]])
    BY <1>1 DEF levelOf
  <1>3. now' = now /\ entries' = entries
    BY DEF Take
  <1>4. CASE /\ Level(limiters[held[c]]) >= Cost /\ pc' = [pc EXCEPT ![c] = "granted"]
             /\ limiters' = [limiters EXCEPT ![held[c]] =
                               [tokens |-> Level(limiters[held[c]]) - Cost, last |-> now]]
    <2> DEFINE taken == Level(limiters[held[c]]) - Cost
    <2>1. Capped(taken + Rate * (now - now)) = taken
      BY <1>1, <1>4, LevelType, StoreAssumption DEF Capped
    <2>2. limiters'[held[c]] = [tokens |-> taken, last |-> now]
      BY <1>1, <1>4
    <2>3. levelOf'[key[c]] = taken
      BY <1>1, <1>3, <2>1, <2>2 DEF levelOf, Level
    <2>4. ASSUME NEW k \in Keys, k # key[c]
          PROVE  levelOf'[k] = levelOf[k]
      <3>1. CASE k \in DOMAIN entries
        <4>1. entries[k].limiter # held[c] /\ entries[k].limiter \in 1..Len(limiters)
          BY <1>1, <2>4, <3>1, Types DEF IInv, OwnInv
        <4>2. limiters'[entries[k].limiter] = limiters[entries[k].limiter]
          BY <1>1, <1>4, <4>1
        <4> QED BY <1>3, <3>1, <4>2 DEF levelOf, Level
      <3>2. CASE k \notin DOMAIN entries
        BY <1>3, <3>2 DEF levelOf
      <3> QED BY <3>1, <3>2
    <2>5. levelOf' = [levelOf EXCEPT ![key[c]] = taken]
      BY <1>1, <2>3, <2>4 DEF levelOf
    <2> QED BY <1>1, <1>2, <1>4, <2>5
  <1>5. CASE /\ Level(limiters[held[c]]) < Cost /\ pc' = [pc EXCEPT ![c] = "denied"]
             /\ limiters' = limiters
    <2>1. levelOf' = levelOf
      BY <1>3, <1>5 DEF levelOf, Level
    <2> QED BY <1>1, <1>2, <1>5, <2>1
  <1> QED BY <1>4, <1>5 DEF Take

\* A step of the store is a step of RateLimit or a stutter.
LEMMA StepRefines ==
  ASSUME IInv, [Next]_vars
  PROVE  [Limit!LimitNext]_(Limit!limitVars)
  <1> USE DEF Limit!limitVars
  <1>0. pc \in [Callers -> Labels]
    BY DEF IInv, TypeOK
  <1>1. CASE Tick
    <2>1. levelOf' = [k \in Keys |-> Limit!Capped(levelOf[k] + Rate)]
      BY <1>1, TickLevels DEF Limit!Capped, Capped
    <2>2. statusOf' = statusOf /\ key' = key
      BY <1>1 DEF Tick, statusOf, Inside
    <2> QED BY <2>1, <2>2 DEF Limit!LimitNext, Limit!Fill
  <1>2. ASSUME NEW c \in Callers, NEW k \in Keys, Arrive(c, k)
        PROVE  Limit!Ask(c, k)
    <2>1. levelOf' = levelOf
      BY <1>2 DEF Arrive, store, levelOf, Level
    <2>2. statusOf[c] # "asking" /\ statusOf' = [statusOf EXCEPT ![c] = "asking"]
      BY <1>0, <1>2 DEF Arrive, statusOf, Inside, Labels
    <2> QED BY <1>2, <2>1, <2>2 DEF Arrive, Limit!Ask
  <1>3. ASSUME NEW c \in Callers, Lock(c)
        PROVE  UNCHANGED Limit!limitVars
    <2>1. statusOf' = statusOf /\ key' = key
      BY <1>0, <1>3 DEF Lock, statusOf, Inside
    <2> QED BY <1>3, <2>1, LockLevels
  <1>4. ASSUME NEW c \in Callers, Take(c)
        PROVE  Limit!Grant(c) \/ Limit!Deny(c)
    <2>1. statusOf[c] = "asking" /\ key' = key
      BY <1>4 DEF Take, statusOf, Inside
    <2>2. ASSUME NEW answer \in {"granted", "denied"}, pc' = [pc EXCEPT ![c] = answer]
          PROVE  statusOf' = [statusOf EXCEPT ![c] = answer]
      BY <1>0, <2>2 DEF statusOf, Inside
    <2> QED BY <1>4, <2>1, <2>2, TakeLevels DEF Limit!Grant, Limit!Deny
  <1>5. CASE UNCHANGED vars
    <2>1. levelOf' = levelOf /\ statusOf' = statusOf /\ key' = key
      BY <1>5 DEF vars, store, levelOf, statusOf, Level, Inside
    <2> QED BY <2>1
  <1> QED BY <1>1, <1>2, <1>3, <1>4, <1>5 DEF Next, Limit!LimitNext

(***************************************************************************)
(* The store implements RateLimit: whatever it forgets and however its     *)
(* requests interleave, it grants and denies as buckets never forgotten    *)
(* would, if a bucket fills within the ttl less two pauses.                *)
(***************************************************************************)
THEOREM Refinement == Spec => ImplementsRateLimit
  <1>1. Init => Limit!LimitInit
    BY DEF Init, Limit!LimitInit, levelOf, statusOf, Inside
  <1>2. IInv /\ [Next]_vars => [Limit!LimitNext]_(Limit!limitVars)
    BY StepRefines
  <1> QED BY <1>1, <1>2, Invariance, PTL DEF Spec, ImplementsRateLimit, Limit!LimitSpec
=============================================================================
