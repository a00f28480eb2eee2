---------------------- MODULE InterceptorCounterProofs ----------------------
(***************************************************************************)
(* Proofs about the pipeline's counters: the hit_count of an entry and the *)
(* fleet counters in Redis, against what the requests were counted as.     *)
(***************************************************************************)
EXTENDS InterceptorProofs, FiniteSetTheorems

USE DEF At, Goto, FirstLookup, LockFree, LockTaken, LockDeleted, SetNxAccepts,
        Count, handlerVars, redisVars, vars

----------------------------------------------------------------------------
(* When a request is counted.                                              *)

\* Nobody is counted before the lookup or the SET NX has decided, and who is
\* about to do INCR has not waited.
CountPhases ==
  \A r \in Request :
    /\ pc[r] \in Seeking => counted[r] = "no"
    /\ pc[r] \in {"idle", "acquire", "incr"} => attempt[r] = 0

LEMMA CountPhasesHandler ==
  ASSUME Base, CountPhases, NEW r \in Request, HandlerStep(r)
  PROVE  CountPhases'
<1> USE DEF Base, TypeInv, TypeOK, CountPhases, Seeking
<1>1. CASE RejectBody(r) \/ ProxyRaw(r) \/ StartLookup(r) \/ GetHit(r) \/ GetMiss(r)
           \/ LookupFails(r)
  BY <1>1 DEF RejectBody, ProxyRaw, StartLookup, GetHit, GetMiss, LookupFails
<1>2. CASE Touch(r)
  BY <1>2 DEF Touch, AfterHit
<1>3. CASE AcquireLock(r) \/ LockContended(r) \/ AcquireFails(r)
  BY <1>3 DEF AcquireLock, LockContended, AcquireFails
<1>4. CASE Backoff(r) \/ GiveUp(r) \/ CheckLocked(r) \/ CheckReleased(r) \/ CheckFails(r)
  BY <1>4 DEF Backoff, GiveUp, CheckLocked, CheckReleased, CheckFails
<1>5. CASE Incr(r) \/ RouteCold(r) \/ FirstByte(r) \/ ForwardFails(r) \/ Relay(r)
  BY <1>5 DEF Incr, RouteCold, FirstByte, ForwardFails, Relay
<1> QED BY <1>1, <1>2, <1>3, <1>4, <1>5 DEF HandlerStep

LEMMA CountPhasesStep == Base /\ CountPhases /\ [Next]_vars => CountPhases'
<1> SUFFICES ASSUME Base, CountPhases, [Next]_vars PROVE CountPhases'
  OBVIOUS
<1> USE DEF Base, TypeInv, TypeOK, CountPhases, Seeking
<1>1. ASSUME NEW r \in Request, TaskStep(r) \/ Cancel(r) PROVE CountPhases'
  BY <1>1 DEF TaskStep, TaskWrite, TaskRelease, TaskReleaseFails, Cancel
<1>2. ASSUME NEW s \in Sidecar, Crash(s) PROVE CountPhases'
  BY <1>2 DEF Crash
<1>3. ASSUME NEW p \in Prefix, LockExpire(p) \/ EntryExpire(p) PROVE CountPhases'
  BY <1>3 DEF LockExpire, EntryExpire
<1>4. CASE UNCHANGED vars
  BY <1>4
<1> QED BY <1>1, <1>2, <1>3, <1>4, CountPhasesHandler DEF Next

\* Of the requests at work only the one that steps changes its place or its count.
LEMMA OneCounts ==
  ASSUME Base, "redis" \notin Env, NEW r \in Request,
         HandlerStep(r) \/ TaskStep(r) \/ Cancel(r),
         NEW t \in Request, t # r
  PROVE  pc'[t] = pc[t] /\ counted'[t] = counted[t] /\ attempt'[t] = attempt[t]
<1> USE DEF Base, TypeInv, TypeOK
<1>1. CASE RejectBody(r) \/ ProxyRaw(r) \/ StartLookup(r) \/ GetHit(r) \/ GetMiss(r)
           \/ Touch(r) \/ AcquireLock(r) \/ LockContended(r) \/ Backoff(r) \/ GiveUp(r)
  BY <1>1 DEF RejectBody, ProxyRaw, StartLookup, GetHit, GetMiss, Touch, AcquireLock,
              LockContended, Backoff, GiveUp
<1>2. CASE CheckLocked(r) \/ CheckReleased(r) \/ Incr(r) \/ RouteCold(r) \/ FirstByte(r)
           \/ ForwardFails(r) \/ Relay(r) \/ TaskWrite(r) \/ TaskRelease(r) \/ Cancel(r)
  BY <1>2 DEF CheckLocked, CheckReleased, Incr, RouteCold, FirstByte, ForwardFails, Relay,
              TaskWrite, TaskRelease, Cancel
<1> QED BY <1>1, <1>2, OwnSteps

----------------------------------------------------------------------------
(* Sets that grow.                                                         *)

LEMMA SubsetCounts ==
  ASSUME NEW S \in SUBSET Request, NEW T \in SUBSET Request, S \subseteq T
  PROVE  Cardinality(S) \in Nat /\ Cardinality(T) \in Nat /\ Cardinality(S) <= Cardinality(T)
<1>1. IsFiniteSet(S) /\ IsFiniteSet(T)
  BY RequestAssumption, FS_Subset
<1> QED BY <1>1, FS_Subset, FS_CardinalityType

LEMMA OneMore ==
  ASSUME NEW S \in SUBSET Request, NEW T \in SUBSET Request, NEW r \in Request
  PROVE  /\ (S \subseteq T /\ r \in T \ S) => Cardinality(S) + 1 <= Cardinality(T)
         /\ T \subseteq S \cup {r} => Cardinality(T) <= Cardinality(S) + 1
<1>1. IsFiniteSet(S) BY RequestAssumption, FS_Subset
<1>2. Cardinality(S) \in Nat BY <1>1, FS_CardinalityType
<1>3. Cardinality(S \cup {r}) = IF r \in S THEN Cardinality(S) ELSE Cardinality(S) + 1
  BY <1>1, FS_AddElement
<1>4. ASSUME S \subseteq T, r \in T \ S PROVE Cardinality(S) + 1 <= Cardinality(T)
  <2>1. Cardinality(S \cup {r}) <= Cardinality(T) BY <1>4, SubsetCounts
  <2> QED BY <1>3, <1>4, <2>1
<1>5. ASSUME T \subseteq S \cup {r} PROVE Cardinality(T) <= Cardinality(S) + 1
  <2>1. Cardinality(T) \in Nat /\ Cardinality(T) <= Cardinality(S \cup {r})
    BY <1>5, SubsetCounts
  <2> QED BY <1>2, <1>3, <2>1
<1> QED BY <1>4, <1>5

----------------------------------------------------------------------------
(* hit_count.                                                              *)

\* Who may have added to the hit_count of a prefix.
Hitters(p) == {r \in Request : PrefixOf[r] = p /\ (counted[r] = "hit" \/ pc[r] = "gone")}

HitInv ==
  "redis" \notin Env =>
    /\ \A p \in Prefix :
         cacheMap[p] # NoEntry => cacheMap[p].hits <= Cardinality(Hitters(p))
    /\ \A r \in Request :
         pc[r] = "touch" => found[r].hits <= Cardinality(Hitters(PrefixOf[r]))

LEMMA HitInit == Init => HitInv
BY DEF Init, HitInv

\* A request counted as a hit stays so, and a dropped one stays dropped.
LEMMA HittersGrow ==
  ASSUME Base, CountPhases, "redis" \notin Env, [Next]_vars, NEW p \in Prefix
  PROVE  Hitters(p) \subseteq Hitters(p)'
<1> USE DEF Base, TypeInv, TypeOK, Hitters
<1>1. ASSUME NEW r \in Request, HandlerStep(r) \/ TaskStep(r) \/ Cancel(r)
      PROVE  Hitters(p) \subseteq Hitters(p)'
  <2>1. r \in Hitters(p) => r \in Hitters(p)'
    <3>1. CASE RejectBody(r) \/ ProxyRaw(r) \/ StartLookup(r) \/ GetHit(r) \/ GetMiss(r)
               \/ Touch(r) \/ AcquireLock(r) \/ LockContended(r) \/ Backoff(r) \/ GiveUp(r)
      BY <3>1 DEF CountPhases, Seeking, RejectBody, ProxyRaw, StartLookup, GetHit, GetMiss,
                  Touch, AcquireLock, LockContended, Backoff, GiveUp
    <3>2. CASE CheckLocked(r) \/ CheckReleased(r) \/ Incr(r) \/ RouteCold(r) \/ FirstByte(r)
               \/ ForwardFails(r) \/ Relay(r) \/ TaskWrite(r) \/ TaskRelease(r) \/ Cancel(r)
      BY <3>2 DEF CheckLocked, CheckReleased, Incr, RouteCold, FirstByte, ForwardFails,
                  Relay, TaskWrite, TaskRelease, Cancel
    <3> QED BY <1>1, <3>1, <3>2, OwnSteps
  <2>2. \A t \in Request : t # r => (t \in Hitters(p) => t \in Hitters(p)')
    BY <1>1, OneCounts
  <2> QED BY <2>1, <2>2
<1>2. ASSUME NEW s \in Sidecar, Crash(s) PROVE Hitters(p) \subseteq Hitters(p)'
  BY <1>2 DEF Crash
<1>3. ASSUME NEW q \in Prefix, LockExpire(q) \/ EntryExpire(q)
      PROVE  Hitters(p) \subseteq Hitters(p)'
  BY <1>3 DEF LockExpire, EntryExpire
<1>4. CASE UNCHANGED vars
  BY <1>4
<1> QED BY <1>1, <1>2, <1>3, <1>4 DEF Next

\* A write-back adds one to what was read, and its request to those who hit.
LEMMA WriteBackHits ==
  ASSUME Base, CountPhases, HitInv, "redis" \notin Env, [Next]_vars,
         NEW r \in Request, At(r, "touch"), WriteBack(r), Touch(r) \/ Cancel(r)
  PROVE  /\ cacheMap'[PrefixOf[r]].hits <= Cardinality(Hitters(PrefixOf[r])')
         /\ \A q \in Prefix \ {PrefixOf[r]} : cacheMap'[q] = cacheMap[q]
<1> DEFINE p == PrefixOf[r]
<1>1. p \in Prefix BY PrefixAssumption
<1>2. found[r] \in Entry /\ found[r].hits \in Nat
  BY DEF Base, TypeInv, HoldsEntry, Entry
<1>3. /\ cacheMap'[p].hits = found[r].hits + 1
      /\ \A q \in Prefix \ {p} : cacheMap'[q] = cacheMap[q]
  BY <1>1, <1>2 DEF WriteBack, StoreEntry, Touched, Base, TypeInv, TypeOK, Entry
<1>4. found[r].hits <= Cardinality(Hitters(p)) BY DEF HitInv
<1>5. Hitters(p) \subseteq Hitters(p)' BY <1>1, HittersGrow
<1>6. r \notin Hitters(p)
  BY DEF Hitters, CountPhases, Seeking
<1>7. r \in Hitters(p)'
  BY DEF Hitters, Touch, Cancel, Base, TypeInv, TypeOK
<1>8. Hitters(p) \in SUBSET Request /\ Hitters(p)' \in SUBSET Request
  BY DEF Hitters
<1>9. Cardinality(Hitters(p)) + 1 <= Cardinality(Hitters(p)')
  BY <1>5, <1>6, <1>7, <1>8, OneMore
<1>10. Cardinality(Hitters(p)) \in Nat /\ Cardinality(Hitters(p)') \in Nat
  BY <1>8, SubsetCounts
<1> QED BY <1>2, <1>3, <1>4, <1>9, <1>10

\* How an entry may change while Redis does not fail.
LEMMA EntryChange ==
  ASSUME Base, "redis" \notin Env, [Next]_vars, NEW p \in Prefix
  PROVE  \/ cacheMap'[p] = cacheMap[p]
         \/ cacheMap'[p] = NoEntry
         \/ cacheMap'[p].hits = 0
         \/ \E r \in Request : /\ PrefixOf[r] = p /\ At(r, "touch") /\ WriteBack(r)
                               /\ Touch(r) \/ Cancel(r)
<1> USE DEF Base, TypeInv, TypeOK
<1>1. ASSUME NEW r \in Request, Touch(r) \/ Cancel(r)
      PROVE  \/ cacheMap'[p] = cacheMap[p]
             \/ PrefixOf[r] = p /\ At(r, "touch") /\ WriteBack(r)
  <2>1. (At(r, "touch") /\ WriteBack(r)) \/ cacheMap' = cacheMap
    BY <1>1 DEF Touch, Cancel, CommandLands
  <2> QED BY <2>1, PrefixAssumption DEF WriteBack, StoreEntry
<1>2. ASSUME NEW r \in Request, TaskWrite(r)
      PROVE  cacheMap'[p] = cacheMap[p] \/ cacheMap'[p].hits = 0
  BY <1>2, PrefixAssumption DEF TaskWrite, WriteEntry, StoreEntry, WarmEntry
<1>3. ASSUME NEW r \in Request, HandlerStep(r) \/ TaskStep(r) \/ Cancel(r),
             ~Touch(r), ~Cancel(r), ~TaskWrite(r)
      PROVE  cacheMap' = cacheMap
  <2>1. CASE RejectBody(r) \/ ProxyRaw(r) \/ StartLookup(r) \/ GetHit(r) \/ GetMiss(r)
             \/ AcquireLock(r) \/ LockContended(r) \/ Backoff(r) \/ GiveUp(r)
    BY <2>1 DEF RejectBody, ProxyRaw, StartLookup, GetHit, GetMiss, AcquireLock,
                LockContended, Backoff, GiveUp
  <2>2. CASE CheckLocked(r) \/ CheckReleased(r) \/ Incr(r) \/ RouteCold(r) \/ FirstByte(r)
             \/ ForwardFails(r) \/ Relay(r) \/ TaskRelease(r)
    BY <2>2 DEF CheckLocked, CheckReleased, Incr, CommandLands, RouteCold, FirstByte,
                ForwardFails, Relay, TaskRelease
  <2> QED BY <1>3, <2>1, <2>2, OwnSteps
<1>4. ASSUME NEW q \in Prefix, LockExpire(q) \/ EntryExpire(q)
      PROVE  cacheMap'[p] = cacheMap[p] \/ cacheMap'[p] = NoEntry
  BY <1>4 DEF LockExpire, EntryExpire, StoreEntry
<1>5. ASSUME NEW s \in Sidecar, Crash(s) PROVE cacheMap' = cacheMap
  BY <1>5 DEF Crash
<1>6. CASE UNCHANGED vars
  BY <1>6
<1> QED BY <1>1, <1>2, <1>3, <1>4, <1>5, <1>6 DEF Next

\* A handler about to write back still holds what it read, or just read it.
LEMMA FoundChange ==
  ASSUME Base, "redis" \notin Env, [Next]_vars, NEW r \in Request, pc'[r] = "touch"
  PROVE  \/ pc[r] = "touch" /\ found'[r] = found[r]
         \/ cacheMap[PrefixOf[r]] # NoEntry /\ found'[r] = cacheMap[PrefixOf[r]]
<1> USE DEF Base, TypeInv, TypeOK
<1>1. ASSUME HandlerStep(r) \/ TaskStep(r) \/ Cancel(r)
      PROVE  \/ pc[r] = "touch" /\ found'[r] = found[r]
             \/ cacheMap[PrefixOf[r]] # NoEntry /\ found'[r] = cacheMap[PrefixOf[r]]
  <2>1. CASE RejectBody(r) \/ ProxyRaw(r) \/ StartLookup(r) \/ GetHit(r) \/ GetMiss(r)
             \/ Touch(r) \/ AcquireLock(r) \/ LockContended(r) \/ Backoff(r) \/ GiveUp(r)
    BY <2>1 DEF RejectBody, ProxyRaw, StartLookup, GetHit, GetMiss, Touch, AfterHit,
                AcquireLock, LockContended, Backoff, GiveUp
  <2>2. CASE CheckLocked(r) \/ CheckReleased(r) \/ Incr(r) \/ RouteCold(r) \/ FirstByte(r)
             \/ ForwardFails(r) \/ Relay(r) \/ TaskWrite(r) \/ TaskRelease(r) \/ Cancel(r)
    BY <2>2 DEF CheckLocked, CheckReleased, Incr, RouteCold, FirstByte, ForwardFails,
                Relay, TaskWrite, TaskRelease, Cancel
  <2> QED BY <1>1, <2>1, <2>2, OwnSteps
<1>2. ASSUME NEW t \in Request, t # r, HandlerStep(t) \/ TaskStep(t) \/ Cancel(t)
      PROVE  pc[r] = "touch" /\ found'[r] = found[r]
  <2>1. found'[r] = found[r]
    <3>1. CASE RejectBody(t) \/ ProxyRaw(t) \/ StartLookup(t) \/ GetHit(t) \/ GetMiss(t)
               \/ Touch(t) \/ AcquireLock(t) \/ LockContended(t) \/ Backoff(t) \/ GiveUp(t)
      BY <1>2, <3>1 DEF RejectBody, ProxyRaw, StartLookup, GetHit, GetMiss, Touch,
                  AcquireLock, LockContended, Backoff, GiveUp
    <3>2. CASE CheckLocked(t) \/ CheckReleased(t) \/ Incr(t) \/ RouteCold(t) \/ FirstByte(t)
               \/ ForwardFails(t) \/ Relay(t) \/ TaskWrite(t) \/ TaskRelease(t) \/ Cancel(t)
      BY <1>2, <3>2 DEF CheckLocked, CheckReleased, Incr, RouteCold, FirstByte,
                  ForwardFails, Relay, TaskWrite, TaskRelease, Cancel
    <3> QED BY <1>2, <3>1, <3>2, OwnSteps
  <2> QED BY <1>2, <2>1, OneCounts
<1>3. ASSUME NEW s \in Sidecar, Crash(s) PROVE pc[r] = "touch" /\ found'[r] = found[r]
  BY <1>3 DEF Crash, Running
<1>4. ASSUME NEW q \in Prefix, LockExpire(q) \/ EntryExpire(q)
      PROVE  pc[r] = "touch" /\ found'[r] = found[r]
  BY <1>4 DEF LockExpire, EntryExpire
<1>5. CASE UNCHANGED vars
  BY <1>5
<1> QED BY <1>1, <1>2, <1>3, <1>4, <1>5 DEF Next

LEMMA HitStep == Base /\ CountPhases /\ HitInv /\ [Next]_vars => HitInv'
<1> SUFFICES ASSUME Base, CountPhases, HitInv, [Next]_vars, "redis" \notin Env
             PROVE  /\ \A p \in Prefix :
                         cacheMap'[p] # NoEntry
                           => cacheMap'[p].hits <= Cardinality(Hitters(p)')
                    /\ \A r \in Request :
                         pc'[r] = "touch"
                           => found'[r].hits <= Cardinality(Hitters(PrefixOf[r])')
  BY DEF HitInv
<1>1. ASSUME NEW p \in Prefix
      PROVE  /\ Cardinality(Hitters(p)) \in Nat /\ Cardinality(Hitters(p)') \in Nat
             /\ Cardinality(Hitters(p)) <= Cardinality(Hitters(p)')
  <2>1. Hitters(p) \in SUBSET Request /\ Hitters(p)' \in SUBSET Request
    BY DEF Hitters
  <2> QED BY <2>1, HittersGrow, SubsetCounts
<1>2. \A p \in Prefix : cacheMap[p] # NoEntry => cacheMap[p].hits \in Nat
  BY DEF Base, TypeInv, TypeOK, Entry
<1>3. ASSUME NEW p \in Prefix, cacheMap'[p] # NoEntry
      PROVE  cacheMap'[p].hits <= Cardinality(Hitters(p)')
  <2>1. CASE cacheMap'[p] = cacheMap[p]
    <3>1. cacheMap[p].hits <= Cardinality(Hitters(p))
      BY <1>3, <2>1 DEF HitInv
    <3> QED BY <1>1, <1>2, <1>3, <2>1, <3>1
  <2>2. CASE cacheMap'[p].hits = 0
    BY <1>1, <2>2
  <2>3. CASE \E r \in Request : /\ PrefixOf[r] = p /\ At(r, "touch") /\ WriteBack(r)
                                /\ Touch(r) \/ Cancel(r)
    BY <2>3, WriteBackHits
  <2> QED BY <1>3, <2>1, <2>2, <2>3, EntryChange
<1>4. ASSUME NEW r \in Request, pc'[r] = "touch"
      PROVE  found'[r].hits <= Cardinality(Hitters(PrefixOf[r])')
  <2>1. PrefixOf[r] \in Prefix BY PrefixAssumption
  <2>2. found'[r].hits \in Nat /\ found'[r].hits <= Cardinality(Hitters(PrefixOf[r]))
    <3>1. CASE pc[r] = "touch" /\ found'[r] = found[r]
      BY <3>1 DEF HitInv, Base, TypeInv, HoldsEntry, Entry
    <3>2. CASE cacheMap[PrefixOf[r]] # NoEntry /\ found'[r] = cacheMap[PrefixOf[r]]
      BY <1>2, <2>1, <3>2 DEF HitInv
    <3> QED BY <1>4, <3>1, <3>2, FoundChange
  <2> QED BY <1>1, <2>1, <2>2
<1> QED BY <1>3, <1>4

\* HitCountBounded: an entry's hit_count never exceeds the hits of its prefix.
THEOREM HitCountIsBounded == Spec => []HitCountBounded
<1>1. Init => CountPhases BY DEF Init, CountPhases
<1>2. Spec => [](Base /\ CountPhases /\ HitInv)
  BY <1>1, BaseInit, BaseStep, CountPhasesStep, HitInit, HitStep, PTL DEF Spec
<1>3. HitInv => HitCountBounded
  BY DEF HitInv, Hitters, HitCountBounded
<1> QED BY <1>2, <1>3, PTL

----------------------------------------------------------------------------
(* The fleet counters.                                                     *)

Fleet == {"hits", "misses"}

\* The first lookups whose INCR is due or done, and those whose INCR is done.
Firsts(k) == {r \in Request : /\ counted[r] # "no" /\ MetricOf(r) = k
                              /\ FirstLookup(r) /\ pc[r] # "incr"}
Served(k) == {r \in Firsts(k) : pc[r] # "gone"}

FleetInv ==
  "redis" \notin Env =>
    \A k \in Fleet : /\ gcMetric[k] <= Cardinality(Firsts(k))
                     /\ gcMetric[k] >= Cardinality(Served(k))

LEMMA FleetInit == Init => FleetInv
<1> SUFFICES ASSUME Init, NEW k \in Fleet
             PROVE  gcMetric[k] = 0 /\ Firsts(k) = {} /\ Served(k) = {}
  BY FS_EmptySet DEF FleetInv
<1> QED BY DEF Init, Firsts, Served, Fleet

\* A step that does no INCR only adds to the first lookups, and takes from the served.
Quiet ==
  /\ gcMetric' = gcMetric
  /\ \A k \in Fleet : Firsts(k) \subseteq Firsts(k)' /\ Served(k)' \subseteq Served(k)

Lands(r) ==
  /\ pc[r] = "incr" /\ pc'[r] # "incr"
  /\ gcMetric' = Bumped(MetricOf(r))
  /\ counted'[r] = counted[r] /\ attempt'[r] = attempt[r]

LEMMA OwnFleet ==
  ASSUME Base, CountPhases, "redis" \notin Env, NEW r \in Request,
         HandlerStep(r) \/ TaskStep(r) \/ Cancel(r), NEW k \in Fleet
  PROVE  \/ Lands(r)
         \/ /\ gcMetric' = gcMetric
            /\ r \in Firsts(k) => r \in Firsts(k)'
            /\ r \in Served(k)' => r \in Served(k)
<1> USE DEF Base, TypeInv, TypeOK, CountPhases, Seeking, Firsts, Served, MetricOf
<1>1. CASE RejectBody(r) \/ ProxyRaw(r) \/ StartLookup(r) \/ GetHit(r) \/ GetMiss(r)
           \/ LockContended(r) \/ Backoff(r) \/ GiveUp(r)
  BY <1>1 DEF RejectBody, ProxyRaw, StartLookup, GetHit, GetMiss, LockContended, Backoff,
              GiveUp
<1>2. CASE Touch(r)
  BY <1>2 DEF Touch, AfterHit
<1>3. CASE AcquireLock(r)
  BY <1>3 DEF AcquireLock
<1>4. CASE CheckLocked(r) \/ CheckReleased(r) \/ RouteCold(r) \/ FirstByte(r)
           \/ ForwardFails(r) \/ Relay(r)
  BY <1>4 DEF CheckLocked, CheckReleased, RouteCold, FirstByte, ForwardFails, Relay
<1>5. CASE TaskWrite(r) \/ TaskRelease(r)
  BY <1>5 DEF TaskWrite, TaskRelease
<1>6. CASE Incr(r)
  BY <1>6 DEF Incr, CommandLands, Lands
<1>7. CASE Cancel(r)
  <2>1. gcMetric' = gcMetric \/ Lands(r)
    BY <1>7 DEF Cancel, CommandLands, Lands
  <2>2. /\ pc'[r] = "gone" /\ counted' = counted /\ attempt' = attempt
    BY <1>7 DEF Cancel
  <2> QED BY <2>1, <2>2
<1> QED BY <1>1, <1>2, <1>3, <1>4, <1>5, <1>6, <1>7, OwnSteps

LEMMA FleetMoves ==
  ASSUME Base, CountPhases, "redis" \notin Env, [Next]_vars
  PROVE  \/ Quiet
         \/ \E r \in Request :
              Lands(r) /\ \A t \in Request \ {r} : /\ pc'[t] = pc[t]
                                                   /\ counted'[t] = counted[t]
                                                   /\ attempt'[t] = attempt[t]
<1>1. ASSUME NEW r \in Request, HandlerStep(r) \/ TaskStep(r) \/ Cancel(r), ~Lands(r)
      PROVE  Quiet
  <2>1. ASSUME NEW t \in Request, t # r, NEW k \in Fleet
        PROVE  (t \in Firsts(k) <=> t \in Firsts(k)') /\ (t \in Served(k) <=> t \in Served(k)')
    BY <1>1, <2>1, OneCounts DEF Firsts, Served, MetricOf
  <2>2. \A k \in Fleet : Firsts(k) \subseteq Request /\ Served(k)' \subseteq Request
    BY DEF Firsts, Served
  <2>3. ASSUME NEW k \in Fleet
        PROVE  /\ gcMetric' = gcMetric
               /\ r \in Firsts(k) => r \in Firsts(k)'
               /\ r \in Served(k)' => r \in Served(k)
    BY <1>1, OwnFleet
  <2>4. gcMetric' = gcMetric
    BY <2>3 DEF Fleet
  <2> QED BY <2>1, <2>2, <2>3, <2>4 DEF Quiet
<1>2. ASSUME NEW s \in Sidecar, Crash(s) PROVE Quiet
  <2>1. /\ UNCHANGED <<attempt, counted, gcMetric>>
        /\ \A r \in Request : pc'[r] = pc[r] \/ pc'[r] = "gone"
    BY <1>2 DEF Crash
  <2> QED BY <2>1 DEF Quiet, Firsts, Served, MetricOf
<1>3. CASE UNCHANGED <<pc, attempt, counted, gcMetric>>
  BY <1>3 DEF Quiet, Firsts, Served, MetricOf
<1> QED
  BY <1>1, <1>2, <1>3, OneCounts DEF Next, LockExpire, EntryExpire

LEMMA FleetStep == Base /\ CountPhases /\ FleetInv /\ [Next]_vars => FleetInv'
<1> SUFFICES ASSUME Base, CountPhases, FleetInv, [Next]_vars, "redis" \notin Env,
                    NEW k \in Fleet
             PROVE  /\ gcMetric'[k] <= Cardinality(Firsts(k)')
                    /\ gcMetric'[k] >= Cardinality(Served(k)')
  BY DEF FleetInv
<1>1. /\ Firsts(k) \in SUBSET Request /\ Firsts(k)' \in SUBSET Request
      /\ Served(k) \in SUBSET Request /\ Served(k)' \in SUBSET Request
  BY DEF Firsts, Served
<1>2. /\ Cardinality(Firsts(k)) \in Nat /\ Cardinality(Firsts(k)') \in Nat
      /\ Cardinality(Served(k)) \in Nat /\ Cardinality(Served(k)') \in Nat
  BY <1>1, SubsetCounts
<1>3. gcMetric[k] \in Nat
  BY DEF Base, TypeInv, TypeOK, Fleet
<1>4. gcMetric[k] <= Cardinality(Firsts(k)) /\ gcMetric[k] >= Cardinality(Served(k))
  BY DEF FleetInv
<1>5. CASE Quiet
  <2>1. /\ Cardinality(Firsts(k)) <= Cardinality(Firsts(k)')
        /\ Cardinality(Served(k)') <= Cardinality(Served(k))
    BY <1>1, <1>5, SubsetCounts DEF Quiet
  <2> QED BY <1>2, <1>3, <1>4, <1>5, <2>1 DEF Quiet
<1>6. ASSUME NEW r \in Request, Lands(r),
             \A t \in Request \ {r} : /\ pc'[t] = pc[t]
                                      /\ counted'[t] = counted[t]
                                      /\ attempt'[t] = attempt[t]
      PROVE  /\ gcMetric'[k] <= Cardinality(Firsts(k)')
             /\ gcMetric'[k] >= Cardinality(Served(k)')
  <2>1. \A t \in Request \ {r} : (t \in Firsts(k) <=> t \in Firsts(k)')
                                 /\ (t \in Served(k) <=> t \in Served(k)')
    BY <1>6 DEF Firsts, Served, MetricOf
  <2>2. r \notin Firsts(k) /\ r \notin Served(k)
    BY <1>6 DEF Lands, Firsts, Served
  <2>3. CASE MetricOf(r) = k
    <3>1. gcMetric'[k] = gcMetric[k] + 1
      BY <1>6, <2>3 DEF Lands, Bumped, Base, TypeInv, TypeOK, Fleet
    <3>2. counted[r] # "no" /\ attempt[r] = 0
      BY <1>6 DEF Lands, CountPhases, Base, Phases, HitCounted, MissCounted
    <3>3. r \in Firsts(k)'
      BY <1>6, <2>3, <3>2 DEF Lands, Firsts, MetricOf
    <3>4. Firsts(k) \subseteq Firsts(k)' /\ r \in Firsts(k)' \ Firsts(k)
      BY <1>1, <2>1, <2>2, <3>3
    <3>5. Served(k)' \subseteq Served(k) \cup {r}
      BY <1>1, <2>1
    <3>6. /\ Cardinality(Firsts(k)) + 1 <= Cardinality(Firsts(k)')
          /\ Cardinality(Served(k)') <= Cardinality(Served(k)) + 1
      BY <1>1, <3>4, <3>5, OneMore
    <3> QED BY <1>2, <1>3, <1>4, <3>1, <3>6
  <2>4. CASE MetricOf(r) # k
    <3>1. gcMetric'[k] = gcMetric[k]
      BY <1>6, <2>4 DEF Lands, Bumped, Base, TypeInv, TypeOK, Fleet
    <3>2. r \notin Firsts(k)' /\ r \notin Served(k)'
      BY <1>6, <2>4 DEF Lands, Firsts, Served, MetricOf
    <3>3. Firsts(k)' = Firsts(k) /\ Served(k)' = Served(k)
      BY <1>1, <2>1, <2>2, <3>2
    <3> QED BY <1>4, <3>1, <3>3
  <2> QED BY <2>3, <2>4
<1> QED BY <1>5, <1>6, FleetMoves

\* FleetCountersAgree: gc_metric:hits and gc_metric:misses count the first lookups,
\* up to the INCRs of dropped handlers.
THEOREM FleetCountersCount == Spec => []FleetCountersAgree
<1>1. Init => CountPhases BY DEF Init, CountPhases
<1>2. Spec => [](Base /\ CountPhases /\ FleetInv)
  BY <1>1, BaseInit, BaseStep, CountPhasesStep, FleetInit, FleetStep, PTL DEF Spec
<1>3. FleetInv => FleetCountersAgree
  BY DEF FleetInv, Fleet, Firsts, Served, FleetCountersAgree
<1> QED BY <1>2, <1>3, PTL
============================================================================
