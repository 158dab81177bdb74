-------------------------- MODULE EventCacheProofs --------------------------
(***************************************************************************)
(* For any number of readers and any times to live: IInv, and from it that *)
(* requests under the lock took it LOCK_TTL apart, that a cached absence    *)
(* is forgotten in time, and, when no request holds the lock as long as     *)
(* LOCK_TTL, that loads exclude each other and store one value.            *)
(***************************************************************************)
EXTENDS EventCache, TLAPS

\* What is written to Redis lives between its base time and a fifth more.
LEMMA Jitter ==
    ASSUME NEW base \in Nat \ {0}
    PROVE  /\ Longest(base) \in Nat
           /\ TtlWithJitter(base) \subseteq Nat \ {0}
           /\ \A ttl \in TtlWithJitter(base) : ttl <= Longest(base)
BY DEF Longest, TtlWithJitter

\* The bounds of ages are numbers.
LEMMA AgeBound == MaxAge \in Nat /\ Longest(NOT_FOUND_TTL) \in Nat
BY Jitter, EventCacheAssumption DEF MaxAge

\* What _set leaves in the cache.
LEMMA StoredValue ==
    ASSUME NEW r \in Readers, result[r] \in {"event", "not_found"}, StoreValue(r)
    PROVE  /\ cached' \in [value : {"event", "not_found", "corrupt"}, ttl : Nat \ {0}]
           /\ cached'.value = result[r]
           /\ result[r] = "not_found" => cached'.ttl <= Longest(NOT_FOUND_TTL)
<1>1. PICK ttl \in StoredTtl(result[r]) : cached' = Key(result[r], ttl)
  BY DEF StoreValue
<1>2. ttl \in Nat \ {0}
  BY Jitter, EventCacheAssumption DEF StoredTtl
<1>3. result[r] = "not_found" => ttl <= Longest(NOT_FOUND_TTL)
  BY Jitter, EventCacheAssumption DEF StoredTtl
<1> QED
  BY <1>1, <1>2, <1>3 DEF Key

-----------------------------------------------------------------------------
\* Nothing is cached or locked at first.
LEMMA InitInvariant == Init => IInv
BY EventCacheAssumption, NullAssumption
   DEF Init, IInv, TypeOK, Key, PCs, Critical, Results, HoldIsBounded, LockIsOwned, Holders,
       LoadersAreApart, LoadedValueIsRecent, CachedAbsenceIsRecent, CachedEventExists, At

\* Everything a request does leaves the other requests alone.
OnlyMoves(r) ==
    /\ \A s \in Readers : s # r => /\ pc'[s] = pc[s] /\ held'[s] = held[s]
                                   /\ result'[s] = result[s] /\ wait'[s] = wait[s]
    /\ UNCHANGED row

ReaderStep(r) == Read(r) \/ get_or_load(r) \/ Failure(r)

\* A step of a request leaves the others where they are.
LEMMA StepMovesOne ==
    ASSUME TypeOK, NEW r \in Readers, ReaderStep(r)
    PROVE  OnlyMoves(r)
BY DEF TypeOK, ReaderStep, get_or_load, Failure, OnlyMoves, Read, Acquire, GiveUp, Recheck, Load,
       Store, Release, Return, ReadFails, AcquireFails, RecheckOrLoadFails, StoreFails,
       ReleaseFails, Crash, Answer, Leave, Goto, At, keys

\* Steps of requests keep the types.
LEMMA ReaderTypes ==
    ASSUME TypeOK, LoadedValueIsRecent, NEW r \in Readers, ReaderStep(r)
    PROVE  TypeOK'
<1> USE DEF TypeOK, PCs, Critical, Results, At, Goto, Answer, Leave, row, keys
<1>1. CASE Read(r)
  BY <1>1, EventCacheAssumption DEF Read, Found
<1>2. CASE Acquire(r)
  BY <1>2, EventCacheAssumption DEF Acquire, Lock
<1>3. CASE GiveUp(r)
  BY <1>3 DEF GiveUp
<1>4. CASE Recheck(r)
  BY <1>4 DEF Recheck, Found
<1>5. CASE Load(r)
  BY <1>5 DEF Load
<1>6. CASE Store(r)
  <2>1. cached' \in [value : {"event", "not_found", "corrupt"}, ttl : Nat \ {0}]
    BY <1>6, StoredValue DEF Store, LoadedValueIsRecent
  <2> QED
    BY <1>6, <2>1 DEF Store
<1>7. CASE Release(r)
  BY <1>7 DEF Release, DeleteLock
<1>8. CASE Return(r)
  BY <1>8 DEF Return
<1>9. CASE ReadFails(r)
  BY <1>9 DEF ReadFails
<1>10. CASE AcquireFails(r)
  BY <1>10, EventCacheAssumption DEF AcquireFails, Lock
<1>11. CASE RecheckOrLoadFails(r)
  BY <1>11 DEF RecheckOrLoadFails
<1>12. CASE StoreFails(r)
  <2>1. cached' = cached \/ cached' \in [value : {"event", "not_found", "corrupt"}, ttl : Nat \ {0}]
    BY <1>12, StoredValue DEF StoreFails, LoadedValueIsRecent
  <2> QED
    BY <1>12, <2>1 DEF StoreFails
<1>13. CASE ReleaseFails(r)
  BY <1>13 DEF ReleaseFails, DeleteLock
<1>14. CASE Crash(r)
  BY <1>14 DEF Crash
<1> QED
  BY <1>1, <1>2, <1>3, <1>4, <1>5, <1>6, <1>7, <1>8, <1>9, <1>10, <1>11, <1>12, <1>13, <1>14
     DEF ReaderStep, get_or_load, Failure

\* So does the clock.
LEMMA TickTypes ==
    ASSUME TypeOK, Tick
    PROVE  TypeOK'
<1>1. age' \in Nat /\ wait' \in [Readers -> Nat] /\ held' \in [Readers -> Nat]
  BY AgeBound DEF TypeOK, Tick
<1>2. cached' = NULL \/ cached' \in [value : {"event", "not_found", "corrupt"}, ttl : Nat \ {0}]
  BY DEF TypeOK, Tick, OneTickLess
<1>3. lock' = NULL \/ lock' \in [owner : Readers, ttl : Nat \ {0}]
  BY DEF TypeOK, Tick, OneTickLess
<1> QED
  BY <1>1, <1>2, <1>3 DEF TypeOK, Tick

-----------------------------------------------------------------------------
\* What a request does to the lock: it takes it, or it stays or leaves with
\* the lock as it was, or as good as its own, or free.
Enters(r) ==
    /\ lock = NULL
    /\ lock' = Lock(r, LOCK_TTL)
    /\ held'[r] = 0

StaysOrLeaves(r) ==
    /\ pc'[r] \in Critical => pc[r] \in Critical /\ held'[r] = held[r]
    /\ \/ lock' = lock
       \/ lock = NULL
       \/ lock # NULL /\ lock.owner = r /\ pc'[r] \notin Critical

\* Only Acquire brings a request under the lock, and it takes it.
LEMMA LockMoves ==
    ASSUME TypeOK, NEW r \in Readers, ReaderStep(r)
    PROVE  Enters(r) \/ StaysOrLeaves(r)
<1> USE DEF TypeOK, Critical, At, Goto, Answer, Leave, keys
<1>1. CASE Acquire(r)
  BY <1>1 DEF Acquire, Enters
<1>2. CASE Read(r) \/ GiveUp(r) \/ Recheck(r) \/ Load(r) \/ Return(r) \/ Crash(r)
  BY <1>2 DEF Read, GiveUp, Recheck, Load, Return, Crash, StaysOrLeaves
<1>3. CASE Store(r) \/ StoreFails(r) \/ RecheckOrLoadFails(r) \/ ReadFails(r)
  BY <1>3 DEF Store, StoreFails, RecheckOrLoadFails, ReadFails, StaysOrLeaves
<1>4. CASE Release(r)
  BY <1>4 DEF Release, DeleteLock, StaysOrLeaves
<1>5. CASE ReleaseFails(r)
  BY <1>5 DEF ReleaseFails, DeleteLock, StaysOrLeaves
<1>6. CASE AcquireFails(r)
  BY <1>6 DEF AcquireFails, StaysOrLeaves
<1> QED
  BY <1>1, <1>2, <1>3, <1>4, <1>5, <1>6 DEF ReaderStep, get_or_load, Failure

\* Steps of requests keep the holders of the lock apart.
LEMMA ReaderKeepsLocks ==
    ASSUME IInv, NEW r \in Readers, ReaderStep(r)
    PROVE  HoldIsBounded' /\ LockIsOwned' /\ LoadersAreApart'
<1>1. OnlyMoves(r)
  BY StepMovesOne DEF IInv
<1>2. pc \in [Readers -> PCs] /\ held \in [Readers -> Nat] /\ held' \in [Readers -> Nat]
  BY ReaderTypes DEF IInv, TypeOK
<1>3. \A s \in Readers : pc[s] \in Critical /\ held[s] < LOCK_TTL =>
        lock # NULL /\ lock.owner = s
  <2> SUFFICES ASSUME NEW s \in Readers, pc[s] \in Critical, held[s] < LOCK_TTL
               PROVE  lock # NULL /\ lock.owner = s
    OBVIOUS
  <2>1. lock = Lock(s, LOCK_TTL - held[s])
    BY DEF IInv, LockIsOwned, Holders
  <2>2. Lock(s, LOCK_TTL - held[s]) \in [owner : Readers, ttl : Nat]
    BY <1>2, EventCacheAssumption DEF Lock
  <2> QED
    BY <2>1, <2>2, NullAssumption DEF Lock
<1>4. CASE Enters(r)
  <2>1. \A s \in Holders : held[s] >= LOCK_TTL
    BY <1>2, <1>3, <1>4, EventCacheAssumption DEF Enters, Holders
  <2>2. HoldIsBounded'
    BY <1>1, <1>2, <1>4, EventCacheAssumption DEF IInv, HoldIsBounded, Holders, Enters, OnlyMoves
  <2>3. LockIsOwned'
    <3> SUFFICES ASSUME NEW s \in Readers, pc'[s] \in Critical, held'[s] < LOCK_TTL
                 PROVE  lock' = Lock(s, LOCK_TTL - held'[s])
      BY DEF LockIsOwned, Holders
    <3>1. s = r
      BY <1>1, <1>2, <2>1, EventCacheAssumption DEF OnlyMoves, Holders
    <3> QED
      BY <1>4, <3>1, EventCacheAssumption DEF Enters
  <2>4. LoadersAreApart'
    <3> SUFFICES ASSUME NEW s \in Readers, NEW t \in Readers, s # t,
                        pc'[s] \in Critical, pc'[t] \in Critical
                 PROVE  held'[s] >= held'[t] + LOCK_TTL \/ held'[t] >= held'[s] + LOCK_TTL
      BY DEF LoadersAreApart, Holders
    <3>1. CASE s # r /\ t # r
      BY <1>1, <3>1 DEF OnlyMoves, IInv, LoadersAreApart, Holders
    <3>2. CASE s = r
      BY <1>1, <1>2, <1>4, <2>1, <3>2, EventCacheAssumption DEF OnlyMoves, Holders, Enters
    <3>3. CASE t = r
      BY <1>1, <1>2, <1>4, <2>1, <3>3, EventCacheAssumption DEF OnlyMoves, Holders, Enters
    <3> QED
      BY <3>1, <3>2, <3>3
  <2> QED
    BY <2>2, <2>3, <2>4
<1>5. CASE StaysOrLeaves(r)
  <2>1. \A s \in Readers : pc'[s] \in Critical => pc[s] \in Critical /\ held'[s] = held[s]
    BY <1>1, <1>5 DEF OnlyMoves, StaysOrLeaves
  <2>2. HoldIsBounded' /\ LoadersAreApart'
    BY <2>1 DEF IInv, HoldIsBounded, LoadersAreApart, Holders
  <2>3. LockIsOwned'
    <3> SUFFICES ASSUME NEW s \in Readers, pc'[s] \in Critical, held'[s] < LOCK_TTL
                 PROVE  lock' = Lock(s, LOCK_TTL - held'[s])
      BY DEF LockIsOwned, Holders
    <3>1. lock # NULL /\ lock.owner = s
      BY <1>3, <2>1
    <3>2. lock' = lock
      BY <1>5, <3>1 DEF StaysOrLeaves
    <3> QED
      BY <2>1, <3>2 DEF IInv, LockIsOwned, Holders
  <2> QED
    BY <2>2, <2>3
<1> QED
  BY <1>4, <1>5, LockMoves DEF IInv

\* The clock ages the holders and the lock alike.
LEMMA TickKeepsLocks ==
    ASSUME IInv, Tick
    PROVE  HoldIsBounded' /\ LockIsOwned' /\ LoadersAreApart'
<1>1. pc' = pc /\ held \in [Readers -> Nat]
  BY DEF IInv, TypeOK, Tick
<1>2. \A s \in Readers : pc[s] \in Critical => held'[s] = held[s] + 1 /\ held[s] < MaxHold
  BY DEF IInv, TypeOK, Tick
<1>3. HoldIsBounded'
  BY <1>1, <1>2, EventCacheAssumption DEF HoldIsBounded, Holders
<1>4. LoadersAreApart'
  BY <1>1, <1>2, EventCacheAssumption DEF IInv, LoadersAreApart, Holders
<1>5. LockIsOwned'
  <2> SUFFICES ASSUME NEW s \in Readers, pc[s] \in Critical, held[s] + 1 < LOCK_TTL
               PROVE  lock' = Lock(s, LOCK_TTL - (held[s] + 1))
    BY <1>1, <1>2 DEF LockIsOwned, Holders
  <2>1. lock = Lock(s, LOCK_TTL - held[s])
    BY <1>1, EventCacheAssumption DEF IInv, LockIsOwned, Holders
  <2>2. lock # NULL
    BY <1>1, <2>1, EventCacheAssumption, NullAssumption DEF Lock
  <2> QED
    BY <1>1, <2>1, <2>2, EventCacheAssumption DEF Tick, OneTickLess, Lock
<1> QED
  BY <1>3, <1>4, <1>5

-----------------------------------------------------------------------------
\* A request stores what it has loaded, no older than its hold.
LEMMA ReaderKeepsValues ==
    ASSUME IInv, NEW r \in Readers, ReaderStep(r)
    PROVE  LoadedValueIsRecent' /\ CachedAbsenceIsRecent'
<1>1. OnlyMoves(r)
  BY StepMovesOne DEF IInv
<1>2. age' = age /\ in_db' = in_db /\ age \in Nat
  BY <1>1 DEF OnlyMoves, row, IInv, TypeOK
<1>3. \/ Load(r)
      \/ At(r, "storing") /\ pc'[r] # "storing" /\ StoreValue(r)
      \/ pc'[r] # "storing" /\ cached' = cached
  BY DEF IInv, TypeOK, ReaderStep, get_or_load, Failure, Read, Acquire, GiveUp, Recheck, Load,
         Store, Release, Return, ReadFails, AcquireFails, RecheckOrLoadFails, StoreFails,
         ReleaseFails, Crash, Answer, Leave, Goto, At, keys
<1>4. \A s \in Readers : s # r /\ pc'[s] = "storing" =>
        pc[s] = "storing" /\ result'[s] = result[s] /\ held'[s] = held[s]
  BY <1>1 DEF OnlyMoves
<1>5. CASE Load(r)
  <2>1. result'[r] \in {"event", "not_found"} /\ (result'[r] = "not_found" => age = 0)
    BY <1>5 DEF IInv, TypeOK, Load, CachedAbsenceIsRecent
  <2>2. held'[r] \in Nat /\ cached' = cached
    BY <1>5 DEF IInv, TypeOK, Load, keys
  <2>3. LoadedValueIsRecent'
    BY <1>2, <1>4, <2>1, <2>2 DEF IInv, LoadedValueIsRecent, At
  <2> QED
    BY <1>2, <2>2, <2>3 DEF IInv, CachedAbsenceIsRecent, MaxAge, Longest
<1>6. CASE At(r, "storing") /\ pc'[r] # "storing" /\ StoreValue(r)
  <2>1. LoadedValueIsRecent'
    BY <1>2, <1>4, <1>6 DEF IInv, LoadedValueIsRecent, At
  <2>2. result[r] \in {"event", "not_found"} /\ (result[r] = "not_found" => age <= MaxHold)
    <3>1. held[r] <= MaxHold /\ held[r] \in Nat
      BY <1>6 DEF IInv, TypeOK, HoldIsBounded, Holders, Critical, At
    <3> QED
      BY <1>2, <1>6, <3>1, EventCacheAssumption DEF IInv, LoadedValueIsRecent
  <2>3. CachedAbsenceIsRecent'
    BY <1>2, <1>6, <2>2, StoredValue, AgeBound, EventCacheAssumption
       DEF IInv, CachedAbsenceIsRecent, MaxAge
  <2> QED
    BY <2>1, <2>3
<1>7. CASE pc'[r] # "storing" /\ cached' = cached
  <2>1. LoadedValueIsRecent'
    BY <1>2, <1>4, <1>7 DEF IInv, LoadedValueIsRecent, At
  <2> QED
    BY <1>2, <1>7, <2>1 DEF IInv, CachedAbsenceIsRecent, MaxAge, Longest
<1> QED
  BY <1>3, <1>5, <1>6, <1>7

\* What is cached and what is loaded ages with the event.
LEMMA TickKeepsValues ==
    ASSUME IInv, Tick
    PROVE  LoadedValueIsRecent' /\ CachedAbsenceIsRecent'
<1>1. /\ age \in Nat /\ age' \in Nat /\ age' <= age + 1 /\ (~in_db => age' = age)
      /\ in_db' = in_db
  BY AgeBound DEF IInv, TypeOK, Tick
<1>2. LoadedValueIsRecent'
  <2> SUFFICES ASSUME NEW s \in Readers, pc'[s] = "storing"
               PROVE  /\ result'[s] \in {"event", "not_found"}
                      /\ result'[s] = "not_found" => age' <= held'[s]
    BY DEF LoadedValueIsRecent, At
  <2>1. pc[s] = "storing" /\ result'[s] = result[s] /\ held'[s] = held[s] + 1 /\ held[s] \in Nat
    BY DEF IInv, TypeOK, Tick, Critical
  <2> QED
    BY <1>1, <2>1 DEF IInv, LoadedValueIsRecent, At
<1>3. CachedAbsenceIsRecent'
  <2> SUFFICES ASSUME cached' # NULL, cached'.value = "not_found"
               PROVE  age' + cached'.ttl <= MaxAge
    BY <1>1 DEF IInv, CachedAbsenceIsRecent
  <2>1. /\ cached # NULL /\ cached.value = "not_found"
        /\ cached'.ttl = cached.ttl - 1 /\ cached.ttl \in Nat
    BY DEF IInv, TypeOK, Tick, OneTickLess
  <2> QED
    BY <1>1, <2>1, AgeBound DEF IInv, CachedAbsenceIsRecent
<1> QED
  BY <1>2, <1>3

\* A request gets an event from the table or from the cache, and the cache from
\* such a request.
LEMMA ReaderKeepsEvents ==
    ASSUME IInv, NEW r \in Readers, ReaderStep(r)
    PROVE  CachedEventExists'
<1>1. OnlyMoves(r) /\ in_db' = in_db
  BY StepMovesOne DEF IInv, OnlyMoves, row
<1>2. result'[r] = "event" => in_db
  BY DEF IInv, TypeOK, CachedEventExists, ReaderStep, get_or_load, Failure, Read, Acquire, GiveUp,
         Recheck, Load, Store, Release, Return, ReadFails, AcquireFails, RecheckOrLoadFails,
         StoreFails, ReleaseFails, Crash, Answer, Leave, Goto, At, Found
<1>3. cached' = cached \/ (At(r, "storing") /\ StoreValue(r))
  BY DEF ReaderStep, get_or_load, Failure, Read, Acquire, GiveUp, Recheck, Load, Store, Release,
         Return, ReadFails, AcquireFails, RecheckOrLoadFails, StoreFails, ReleaseFails, Crash,
         keys
<1>4. cached' # NULL /\ cached'.value = "event" => in_db
  <2>1. CASE cached' = cached
    BY <2>1 DEF IInv, CachedEventExists
  <2>2. CASE At(r, "storing") /\ StoreValue(r)
    <3>1. cached'.value = result[r]
      BY <2>2, StoredValue DEF IInv, LoadedValueIsRecent
    <3> QED
      BY <3>1 DEF IInv, CachedEventExists
  <2> QED
    BY <1>3, <2>1, <2>2
<1> QED
  BY <1>1, <1>2, <1>4 DEF IInv, CachedEventExists, OnlyMoves

\* Rows stay while keys expire.
LEMMA TickKeepsEvents ==
    ASSUME IInv, Tick
    PROVE  CachedEventExists'
BY DEF IInv, TypeOK, CachedEventExists, Tick, OneTickLess

\* Every step keeps the invariant.
LEMMA InductiveStep == IInv /\ [Next]_vars => IInv'
<1> SUFFICES ASSUME IInv, [Next]_vars PROVE IInv'
  OBVIOUS
<1>1. ASSUME NEW r \in Readers, ReaderStep(r) PROVE IInv'
  BY <1>1, ReaderTypes, ReaderKeepsLocks, ReaderKeepsValues, ReaderKeepsEvents DEF IInv
<1>2. CASE Tick
  BY <1>2, TickTypes, TickKeepsLocks, TickKeepsValues, TickKeepsEvents DEF IInv
<1>3. CASE EventCreated
  BY <1>3 DEF EventCreated, keys, IInv, TypeOK, HoldIsBounded, LockIsOwned, LoadersAreApart,
              Holders, LoadedValueIsRecent, CachedAbsenceIsRecent, CachedEventExists, At, MaxAge,
              Longest
<1>4. CASE UNCHANGED vars
  BY <1>4 DEF vars, row, keys, IInv, TypeOK, HoldIsBounded, LockIsOwned, LoadersAreApart,
              Holders, LoadedValueIsRecent, CachedAbsenceIsRecent, CachedEventExists, At, MaxAge,
              Longest
<1> QED
  BY <1>1, <1>2, <1>3, <1>4 DEF Next, ReaderStep

\* The invariant that ties every lock and every value to the time it was taken.
THEOREM EventCacheInvariant == Spec => []IInv
<1> QED
  BY InitInvariant, InductiveStep, PTL DEF Spec

\* Every variable keeps its type.
THEOREM EventCacheTypeCorrect == Spec => []TypeOK
<1>1. IInv => TypeOK
  BY DEF IInv
<1> QED
  BY <1>1, EventCacheInvariant, PTL

\* Two requests inside the lock took it at least LOCK_TTL apart.
THEOREM HoldersTookTheLockApart == Spec => []LoadersAreApart
<1>1. IInv => LoadersAreApart
  BY DEF IInv
<1> QED
  BY <1>1, EventCacheInvariant, PTL

\* A created event is hidden no longer than NOT_FOUND_TTL, its jitter and one load.
THEOREM CreatedEventAppears == Spec => []AbsenceIsForgotten
<1>1. IInv => AbsenceIsForgotten
  BY DEF IInv, CachedAbsenceIsRecent, AbsenceIsForgotten
<1> QED
  BY <1>1, EventCacheInvariant, PTL

-----------------------------------------------------------------------------
\* When nobody holds the lock as long as it lives, it has one holder.
LEMMA OneHolder ==
    ASSUME IInv, MaxHold < LOCK_TTL, NEW r \in Holders, NEW s \in Holders
    PROVE  r = s
<1>1. held[r] <= MaxHold /\ held[s] <= MaxHold /\ held[r] \in Nat /\ held[s] \in Nat
  BY DEF IInv, TypeOK, HoldIsBounded, Holders
<1> QED
  BY <1>1, EventCacheAssumption DEF IInv, LoadersAreApart

\* One load at a time, as long as no request stays LOCK_TTL under the lock.
THEOREM LoadsExcludeEachOther ==
    ASSUME MaxHold < LOCK_TTL
    PROVE  Spec => []LoadsAreExclusive
<1>1. IInv => LoadsAreExclusive
  BY OneHolder DEF LoadsAreExclusive, Holders, Critical
<1> QED
  BY <1>1, EventCacheInvariant, PTL

\* Between the second look at the cache and the write, the cache stays empty.
LoadsOnMiss == \A r \in Readers : pc[r] \in {"loading", "storing"} => ~Found

\* While loads are exclusive, nothing is cached behind the back of a load.
LEMMA LoadsOnMissStep ==
    ASSUME MaxHold < LOCK_TTL, IInv, IInv', LoadsOnMiss, [Next]_vars
    PROVE  LoadsOnMiss'
<1> SUFFICES ASSUME NEW s \in Readers, pc'[s] \in {"loading", "storing"}
             PROVE  ~Found'
  BY DEF LoadsOnMiss
<1>1. ASSUME NEW r \in Readers, ReaderStep(r) PROVE ~Found'
  <2>1. OnlyMoves(r)
    BY <1>1, StepMovesOne DEF IInv
  <2>2. CASE cached' = cached
    <3>1. CASE pc[s] \in {"loading", "storing"}
      BY <2>2, <3>1 DEF LoadsOnMiss, Found
    <3>2. CASE pc[s] \notin {"loading", "storing"}
      <4>1. s = r
        BY <2>1, <3>2 DEF OnlyMoves
      <4>2. Recheck(r) /\ ~Found
        BY <1>1, <3>2, <4>1
           DEF IInv, TypeOK, ReaderStep, get_or_load, Failure, Read, Acquire, GiveUp, Recheck,
               Load, Store, Release, Return, ReadFails, AcquireFails, RecheckOrLoadFails,
               StoreFails, ReleaseFails, Crash, Answer, Leave, Goto, At
      <4> QED
        BY <2>2, <4>2 DEF Found
    <3> QED
      BY <3>1, <3>2
  <2>3. CASE cached' # cached
    <3>1. At(r, "storing") /\ pc'[r] \notin {"loading", "storing"}
      BY <1>1, <2>3
         DEF IInv, TypeOK, ReaderStep, get_or_load, Failure, Read, Acquire, GiveUp, Recheck,
             Load, Store, Release, Return, ReadFails, AcquireFails, RecheckOrLoadFails,
             StoreFails, ReleaseFails, Crash, Answer, Leave, Goto, At, keys
    <3>2. s # r /\ pc[s] \in {"loading", "storing"}
      BY <2>1, <3>1 DEF OnlyMoves
    <3> QED
      BY <3>1, <3>2, OneHolder DEF Holders, Critical, At
  <2> QED
    BY <2>2, <2>3
<1>2. CASE Tick
  BY <1>2 DEF IInv, TypeOK, Tick, OneTickLess, LoadsOnMiss, Found
<1>3. CASE EventCreated
  BY <1>3 DEF EventCreated, LoadsOnMiss, Found, keys
<1>4. CASE UNCHANGED vars
  BY <1>4 DEF vars, keys, LoadsOnMiss, Found
<1> QED
  BY <1>1, <1>2, <1>3, <1>4 DEF Next, ReaderStep

\* And so no step replaces a value that is cached.
LEMMA ValueKeptStep ==
    ASSUME IInv, LoadsOnMiss, [Next]_vars
    PROVE  ValueKept
<1> SUFFICES ASSUME Found
             PROVE  cached' = NULL \/ (cached'.value = cached.value /\ cached'.ttl <= cached.ttl)
  BY DEF ValueKept
<1>1. cached.ttl \in Nat
  BY DEF IInv, TypeOK, Found
<1>2. ASSUME NEW r \in Readers, ReaderStep(r) PROVE cached' = cached
  <2>1. ~At(r, "storing")
    BY DEF LoadsOnMiss, At
  <2> QED
    BY <1>2, <2>1
       DEF ReaderStep, get_or_load, Failure, Read, Acquire, GiveUp, Recheck, Load, Store, Release,
           Return, ReadFails, AcquireFails, RecheckOrLoadFails, StoreFails, ReleaseFails, Crash,
           keys
<1>3. CASE Tick
  BY <1>1, <1>3 DEF Tick, OneTickLess, IInv, TypeOK
<1>4. CASE EventCreated \/ UNCHANGED vars
  BY <1>1, <1>4 DEF EventCreated, vars, keys
<1> QED
  BY <1>1, <1>2, <1>3, <1>4 DEF Next, ReaderStep

\* A value in the cache is replaced by nothing before it expires, as long as no
\* request stays LOCK_TTL under the lock.
THEOREM ValueLoadedOnce ==
    ASSUME MaxHold < LOCK_TTL
    PROVE  Spec => CachedValueIsKept
<1>1. Init => LoadsOnMiss
  BY DEF Init, LoadsOnMiss
<1>2. IInv /\ IInv' /\ LoadsOnMiss /\ [Next]_vars => LoadsOnMiss'
  BY LoadsOnMissStep
<1>3. IInv /\ LoadsOnMiss /\ [Next]_vars => [ValueKept]_vars
  BY ValueKeptStep
<1> QED
  BY <1>1, <1>2, <1>3, EventCacheInvariant, PTL DEF Spec, CachedValueIsKept

-----------------------------------------------------------------------------
\* What is cached, or answered by get_event, has a row: the premise on which the
\* route counts a view (Fetch of ViewPath).
THEOREM CachedEventsExist == Spec => []CachedEventExists
<1>1. IInv => CachedEventExists
  BY DEF IInv
<1> QED
  BY <1>1, EventCacheInvariant, PTL

\* No request learns "not found" more than MaxAge after the row was inserted.
ToldInTime ==
    \A r \in Readers :
        result[r] # "not_found" /\ result'[r] = "not_found" => ~in_db \/ age < MaxAge

\* What AbsenceIsForgotten means to a client: from MaxAge after the insertion on,
\* get_event never raises EventNotFoundError for want of looking again.
THEOREM NotFoundIsToldInTime == Spec => [][ToldInTime]_vars
<1>1. ASSUME IInv, [Next]_vars PROVE ToldInTime \/ UNCHANGED vars
  <2> SUFFICES ASSUME NEW r \in Readers, result[r] # "not_found", result'[r] = "not_found", in_db
               PROVE  age < MaxAge
    BY DEF ToldInTime
  <2>1. TypeOK /\ age \in Nat
    BY <1>1 DEF IInv, TypeOK
  <2>2. PICK s \in Readers : ReaderStep(s)
    BY <1>1, <2>1 DEF Next, EventCreated, Tick, ReaderStep, vars
  <2>3. r = s
    BY <2>1, <2>2, StepMovesOne DEF OnlyMoves
  <2>4. cached # NULL /\ cached.value = "not_found"
    BY <2>1, <2>2, <2>3
       DEF TypeOK, ReaderStep, get_or_load, Failure, Read, Acquire, GiveUp, Recheck, Load, Store,
           Release, Return, ReadFails, AcquireFails, RecheckOrLoadFails, StoreFails, ReleaseFails,
           Crash, Answer, Leave, Found
  <2>5. cached.ttl \in Nat \ {0} /\ age + cached.ttl <= MaxAge
    BY <1>1, <2>1, <2>4 DEF IInv, TypeOK, CachedAbsenceIsRecent
  <2> QED
    BY <2>1, <2>5, AgeBound
<1>2. IInv /\ [Next]_vars => [ToldInTime]_vars
  BY <1>1
<1> QED
  BY <1>2, EventCacheInvariant, PTL DEF Spec
=============================================================================
