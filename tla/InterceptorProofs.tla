------------------------ MODULE InterceptorProofs ------------------------
(***************************************************************************)
(* Proofs about the pipeline, for any number of requests, sidecars and     *)
(* prefixes, any retry limit and any set of faults.                        *)
(***************************************************************************)
EXTENDS Interceptor, TLAPS

USE DEF At, Goto, FirstLookup, LockFree, LockTaken, LockDeleted, SetNxAccepts,
        Count, handlerVars, redisVars, vars

----------------------------------------------------------------------------
(* Type correctness.                                                       *)

LEMMA InitType == Init => TypeOK
BY RetryAssumption DEF Init, TypeOK, Lookup, NoLookup, Running, Answered, Waiting

\* The command whose reply is lost leaves well-typed keys.
LEMMA LandsType ==
  ASSUME TypeOK, NEW r \in Request, pc[r] = "touch" => found[r] \in Entry,
         CommandLands(r) \/ UNCHANGED redisVars
  PROVE  /\ cacheMap' \in [Prefix -> Entry \cup {NoEntry}]
         /\ ttlArmed' \in [Prefix -> BOOLEAN]
         /\ ghostLock' \in [Prefix -> Request \cup {NoRequest}]
         /\ gcMetric' \in [{"hits", "misses"} -> Nat]
<1>1. PrefixOf[r] \in Prefix BY PrefixAssumption
<1>2. CASE pc[r] = "touch"
  <2>1. Touched(found[r]) \in Entry BY <1>2 DEF Touched, Entry
  <2> QED BY <1>1, <1>2, <2>1 DEF CommandLands, WriteBack, StoreEntry, ArmedAfterTouch, TypeOK
<1>3. CASE pc[r] = "acquire"
  BY <1>1, <1>3 DEF CommandLands, TypeOK
<1>4. CASE pc[r] \notin {"touch", "acquire"}
  BY <1>4 DEF CommandLands, Bumped, MetricOf, TypeOK
<1> QED BY <1>2, <1>3, <1>4

\* A handler about to write back holds the entry it read.
HoldsEntry == \A r \in Request : pc[r] = "touch" => found[r] \in Entry

TypeInv == TypeOK /\ HoldsEntry

LEMMA TypeHandler ==
  ASSUME TypeInv, NEW r \in Request, HandlerStep(r)
  PROVE  TypeInv'
<1> USE DEF TypeInv, HoldsEntry
<1>p. PrefixOf[r] \in Prefix /\ ColdIp(r) \in Ip
  BY PrefixAssumption, SidecarAssumption, IpAssumption DEF ColdIp
<1>1. CASE RejectBody(r) \/ ProxyRaw(r) \/ StartLookup(r)
  <2>1. ProxyRaw(r) => lookup' \in [Request -> Lookup]
    BY DEF ProxyRaw, TypeOK, Lookup, RawLookup
  <2> QED BY <1>1, <2>1 DEF RejectBody, ProxyRaw, StartLookup, TypeOK, Running, Answered
<1>2. CASE GetHit(r) \/ GetMiss(r)
  <2>1. GetHit(r) => found' \in [Request -> Entry \cup {NoEntry}] /\ HoldsEntry'
    BY <1>p DEF GetHit, TypeOK
  <2> QED BY <1>2, <2>1 DEF GetHit, GetMiss, TypeOK, Running
<1>3. CASE Touch(r)
  <2>1. found[r] \in Entry /\ Touched(found[r]) \in Entry
    BY <1>3 DEF Touch, Touched, Entry
  <2>2. [kind |-> "hit", ip |-> found[r].ip, pod |-> found[r].pod] \in Lookup
    BY <2>1 DEF Entry, Lookup
  <2>3. lookup' \in [Request -> Lookup]
    BY <1>3, <2>2 DEF Touch, TypeOK
  <2> QED BY <1>3, <1>p, <2>1, <2>3 DEF Touch, AfterHit, WriteBack, StoreEntry,
          ArmedAfterTouch, TypeOK, Running
<1>4. CASE LookupFails(r)
  <2>1. /\ cacheMap' \in [Prefix -> Entry \cup {NoEntry}]
        /\ ttlArmed' \in [Prefix -> BOOLEAN]
        /\ ghostLock' \in [Prefix -> Request \cup {NoRequest}]
        /\ gcMetric' \in [{"hits", "misses"} -> Nat]
    BY <1>4, LandsType DEF LookupFails
  <2> QED BY <1>4, <2>1 DEF LookupFails, TypeOK, Running
<1>5. CASE AcquireLock(r) \/ LockContended(r)
  <2>1. AcquireLock(r) => lockAcquired' \in [Request -> BOOLEAN]
    BY DEF AcquireLock, TypeOK
  <2>2. AcquireLock(r) => ghostLock' \in [Prefix -> Request \cup {NoRequest}]
    BY <1>p DEF AcquireLock, TypeOK
  <2>3. AcquireLock(r) => counted' \in [Request -> {"no", "hit", "miss"}]
    BY DEF AcquireLock, TypeOK
  <2> QED BY <1>5, <2>1, <2>2, <2>3 DEF AcquireLock, LockContended, TypeOK, Running, Waiting
<1>6. CASE AcquireFails(r)
  <2>1. /\ cacheMap' \in [Prefix -> Entry \cup {NoEntry}]
        /\ ttlArmed' \in [Prefix -> BOOLEAN]
        /\ ghostLock' \in [Prefix -> Request \cup {NoRequest}]
        /\ gcMetric' \in [{"hits", "misses"} -> Nat]
    BY <1>6, LandsType DEF AcquireFails
  <2> QED BY <1>6, <2>1 DEF AcquireFails, TypeOK, Running, Waiting
<1>7. CASE Backoff(r)
  <2>1. NextAttempt(attempt[r]) \in 0 .. RetryMax
    BY <1>7, RetryAssumption DEF Backoff, RetriesExhausted, NextAttempt, TypeOK
  <2> QED BY <1>7, <2>1 DEF Backoff, TypeOK, Running, Waiting
<1>8. CASE GiveUp(r) \/ CheckLocked(r) \/ CheckReleased(r) \/ CheckFails(r)
  BY <1>8 DEF GiveUp, CheckLocked, CheckReleased, CheckFails, TypeOK, Running, Waiting
<1>9. CASE Incr(r)
  <2>1. /\ cacheMap' \in [Prefix -> Entry \cup {NoEntry}]
        /\ ttlArmed' \in [Prefix -> BOOLEAN]
        /\ ghostLock' \in [Prefix -> Request \cup {NoRequest}]
        /\ gcMetric' \in [{"hits", "misses"} -> Nat]
    BY <1>9, LandsType DEF Incr
  <2> QED BY <1>9, <2>1 DEF Incr, TypeOK, Running
<1>10. CASE RouteCold(r)
  <2>1. lookup' \in [Request -> Lookup]
    BY <1>10, <1>p DEF RouteCold, TypeOK, Lookup
  <2> QED BY <1>10, <2>1 DEF RouteCold, TypeOK, Running
<1>11. CASE FirstByte(r) \/ ForwardFails(r) \/ Relay(r)
  BY <1>11 DEF FirstByte, ForwardFails, Relay, TypeOK, Running, Answered
<1> QED BY <1>1, <1>2, <1>3, <1>4, <1>5, <1>6, <1>7, <1>8, <1>9, <1>10, <1>11 DEF HandlerStep

LEMMA TypeTask ==
  ASSUME TypeInv, \A t \in Request : task[t] = "write" => lookup[t].ip \in Ip,
         NEW r \in Request, TaskStep(r)
  PROVE  TypeInv'
<1> USE DEF TypeInv, HoldsEntry
<1>p. PrefixOf[r] \in Prefix BY PrefixAssumption
<1>1. CASE TaskWrite(r)
  <2>1. WarmEntry(r) \in Entry
    BY <1>1 DEF TaskWrite, WarmEntry, Entry, Lookup, TypeOK
  <2>2. /\ cacheMap' \in [Prefix -> Entry \cup {NoEntry}]
        /\ ttlArmed' \in [Prefix -> BOOLEAN]
    <3>1. ArmedAfterWrite(PrefixOf[r]) \in BOOLEAN BY DEF ArmedAfterWrite
    <3> QED BY <1>1, <1>p, <2>1, <3>1 DEF TaskWrite, WriteEntry, StoreEntry, TypeOK
  <2> QED BY <1>1, <2>2 DEF TaskWrite, AfterWrite, TypeOK
<1>2. CASE TaskRelease(r) \/ TaskReleaseFails(r)
  BY <1>2, <1>p DEF TaskRelease, TaskReleaseFails, TypeOK
<1> QED BY <1>1, <1>2 DEF TaskStep

LEMMA TypeAround ==
  ASSUME TypeInv,
         \/ \E r \in Request : Cancel(r)
         \/ \E s \in Sidecar : Crash(s)
         \/ \E p \in Prefix : LockExpire(p) \/ EntryExpire(p)
  PROVE  TypeInv'
<1> USE DEF TypeInv, HoldsEntry
<1>1. ASSUME NEW r \in Request, Cancel(r) PROVE TypeInv'
  <2>1. /\ cacheMap' \in [Prefix -> Entry \cup {NoEntry}]
        /\ ttlArmed' \in [Prefix -> BOOLEAN]
        /\ ghostLock' \in [Prefix -> Request \cup {NoRequest}]
        /\ gcMetric' \in [{"hits", "misses"} -> Nat]
    BY <1>1, LandsType DEF Cancel
  <2> QED BY <1>1, <2>1 DEF Cancel, TypeOK
<1>2. ASSUME NEW s \in Sidecar, Crash(s) PROVE TypeInv'
  <2>1. /\ pc' \in [Request -> Running \cup Answered \cup {"idle", "gone"}]
        /\ \A r \in Request : pc'[r] = pc[r] \/ pc'[r] = "gone"
    BY <1>2 DEF Crash, TypeOK
  <2>2. \A r \in Request : pc'[r] = "touch" => found'[r] = found[r]
    BY <1>2 DEF Crash, TypeOK, Running
  <2>3. found' \in [Request -> Entry \cup {NoEntry}]
    BY <1>2 DEF Crash, TypeOK
  <2>4. task' \in [Request -> {"none", "write", "release", "done", "failed", "lost"}]
    BY <1>2 DEF Crash, TypeOK
  <2>5. HoldsEntry' BY <2>1, <2>2
  <2> QED BY <1>2, <2>1, <2>3, <2>4, <2>5 DEF Crash, TypeOK
<1>3. ASSUME NEW p \in Prefix, LockExpire(p) \/ EntryExpire(p) PROVE TypeInv'
  BY <1>3 DEF LockExpire, EntryExpire, StoreEntry, TypeOK
<1> QED BY <1>1, <1>2, <1>3

----------------------------------------------------------------------------
(* Where a handler is tells what it knows.                                 *)

\* Before its lookup ends a request is not routed, before its SET NX it does
\* not own the lock, and its warm-up task exists exactly when it is routed cold.
Seeking  == {"idle", "get", "touch", "acquire", "backoff", "check"}
Unrouted == Seeking \cup {"cold", "bad_request"}

HitCounted(r)  == counted[r] = "hit" /\ lookup[r].kind = "hit" /\ ~lockAcquired[r]
MissCounted(r) == counted[r] = "miss" /\ lookup[r] = NoLookup /\ lockAcquired[r]

Phases ==
  \A r \in Request :
    /\ lookup[r].kind = "miss" <=> task[r] # "none"
    /\ pc[r] \in Unrouted => lookup[r] = NoLookup
    /\ pc[r] \in Seeking => ~lockAcquired[r]
    /\ pc[r] = "incr" => HitCounted(r) \/ MissCounted(r)
    /\ lookup[r].kind = "miss" => lookup[r].ip \in Ip

LEMMA PhasesInit == Init => Phases
BY DEF Init, Phases, Unrouted, Seeking, NoLookup

LEMMA PhasesHandler ==
  ASSUME TypeInv, Phases, NEW r \in Request, HandlerStep(r)
  PROVE  Phases'
<1> USE DEF TypeInv, TypeOK, Phases, Unrouted, Seeking, HitCounted, MissCounted
<1>1. CASE RejectBody(r) \/ StartLookup(r) \/ GetHit(r) \/ GetMiss(r) \/ LookupFails(r)
  BY <1>1 DEF RejectBody, StartLookup, GetHit, GetMiss, LookupFails
<1>2. CASE ProxyRaw(r)
  BY <1>2 DEF ProxyRaw, RawLookup, NoLookup
<1>3. CASE Touch(r)
  BY <1>3 DEF Touch, AfterHit, NoLookup
<1>4. CASE AcquireLock(r)
  BY <1>4 DEF AcquireLock
<1>5. CASE LockContended(r) \/ AcquireFails(r) \/ Backoff(r) \/ GiveUp(r)
           \/ CheckLocked(r) \/ CheckReleased(r) \/ CheckFails(r)
  BY <1>5 DEF LockContended, AcquireFails, Backoff, GiveUp, CheckLocked, CheckReleased, CheckFails
<1>6. CASE Incr(r)
  BY <1>6 DEF Incr
<1>7. CASE RouteCold(r)
  <2>1. ColdIp(r) \in Ip BY SidecarAssumption, IpAssumption DEF ColdIp
  <2> QED BY <1>7, <2>1 DEF RouteCold
<1>8. CASE FirstByte(r) \/ ForwardFails(r) \/ Relay(r)
  BY <1>8 DEF FirstByte, ForwardFails, Relay
<1> QED BY <1>1, <1>2, <1>3, <1>4, <1>5, <1>6, <1>7, <1>8 DEF HandlerStep

LEMMA PhasesOther ==
  ASSUME TypeInv, Phases,
         \/ \E r \in Request : TaskStep(r) \/ Cancel(r)
         \/ \E s \in Sidecar : Crash(s)
         \/ \E p \in Prefix : LockExpire(p) \/ EntryExpire(p)
         \/ UNCHANGED vars
  PROVE  Phases'
<1> USE DEF TypeInv, TypeOK, Phases, Unrouted, Seeking, HitCounted, MissCounted
<1>1. ASSUME NEW r \in Request, TaskStep(r) PROVE Phases'
  BY <1>1 DEF TaskStep, TaskWrite, TaskRelease, TaskReleaseFails, ReadyToRelease, AfterWrite
<1>2. ASSUME NEW r \in Request, Cancel(r) PROVE Phases'
  BY <1>2 DEF Cancel
<1>3. ASSUME NEW s \in Sidecar, Crash(s) PROVE Phases'
  <2>1. \A r \in Request : /\ pc'[r] = pc[r] \/ pc'[r] = "gone"
                           /\ task'[r] = "none" <=> task[r] = "none"
    BY <1>3 DEF Crash
  <2>2. UNCHANGED <<lookup, lockAcquired, counted>> BY <1>3 DEF Crash
  <2> QED BY <2>1, <2>2
<1>4. ASSUME NEW p \in Prefix, LockExpire(p) \/ EntryExpire(p) PROVE Phases'
  BY <1>4 DEF LockExpire, EntryExpire
<1>5. ASSUME UNCHANGED vars PROVE Phases'
  BY <1>5
<1> QED BY <1>1, <1>2, <1>3, <1>4, <1>5

----------------------------------------------------------------------------
(* The two facts above are an invariant.                                   *)

Base == TypeInv /\ Phases

LEMMA BaseInit == Init => Base
<1>1. Init => HoldsEntry BY DEF Init, HoldsEntry
<1> QED BY <1>1, InitType, PhasesInit DEF Base, TypeInv

LEMMA BaseStep == Base /\ [Next]_vars => Base'
<1> SUFFICES ASSUME Base, [Next]_vars PROVE Base'
  OBVIOUS
<1>w. \A t \in Request : task[t] = "write" => lookup[t].ip \in Ip
  BY DEF Base, Phases
<1>1. ASSUME NEW r \in Request, HandlerStep(r) PROVE Base'
  BY <1>1, TypeHandler, PhasesHandler DEF Base
<1>2. ASSUME NEW r \in Request, TaskStep(r) PROVE Base'
  <2>1. Phases' BY <1>2, PhasesOther DEF Base
  <2> QED BY <1>2, <1>w, <2>1, TypeTask DEF Base
<1>3. ASSUME \/ \E r \in Request : Cancel(r)
             \/ \E s \in Sidecar : Crash(s)
             \/ \E p \in Prefix : LockExpire(p) \/ EntryExpire(p)
      PROVE Base'
  <2>1. Phases' BY <1>3, PhasesOther DEF Base
  <2> QED BY <1>3, <2>1, TypeAround DEF Base
<1>4. ASSUME UNCHANGED vars PROVE Base'
  <2>1. Phases' BY <1>4, PhasesOther DEF Base
  <2> QED BY <1>4, <2>1 DEF Base, TypeInv, TypeOK, HoldsEntry
<1> QED BY <1>1, <1>2, <1>3, <1>4 DEF Next

\* What others do to a request is at most to stop it with its sidecar.
Stopped(r) ==
  /\ pc'[r] \in {pc[r], "gone"}
  /\ task'[r] \in {task[r], "lost"}
  /\ attempt'[r] = attempt[r]
  /\ lockAcquired'[r] = lockAcquired[r]
  /\ lookup'[r] = lookup[r]

LEMMA Elsewhere ==
  ASSUME Base, [Next]_vars, NEW r \in Request,
         ~HandlerStep(r), ~TaskStep(r), ~Cancel(r)
  PROVE  Stopped(r)
<1> USE DEF Base, TypeInv, TypeOK, Stopped
<1>1. ASSUME NEW t \in Request, t # r, HandlerStep(t) PROVE Stopped(r)
  <2>1. CASE RejectBody(t) \/ ProxyRaw(t) \/ StartLookup(t) \/ GetHit(t) \/ GetMiss(t)
             \/ Touch(t) \/ LookupFails(t)
    BY <1>1, <2>1 DEF RejectBody, ProxyRaw, StartLookup, GetHit, GetMiss, Touch, LookupFails
  <2>2. CASE AcquireLock(t) \/ LockContended(t) \/ AcquireFails(t) \/ Backoff(t) \/ GiveUp(t)
             \/ CheckLocked(t) \/ CheckReleased(t) \/ CheckFails(t)
    BY <1>1, <2>2 DEF AcquireLock, LockContended, AcquireFails, Backoff, GiveUp, CheckLocked,
                CheckReleased, CheckFails
  <2>3. CASE Incr(t) \/ RouteCold(t) \/ FirstByte(t) \/ ForwardFails(t) \/ Relay(t)
    BY <1>1, <2>3 DEF Incr, RouteCold, FirstByte, ForwardFails, Relay
  <2> QED BY <1>1, <2>1, <2>2, <2>3 DEF HandlerStep
<1>2. ASSUME NEW t \in Request, t # r, TaskStep(t) \/ Cancel(t) PROVE Stopped(r)
  BY <1>2 DEF TaskStep, TaskWrite, TaskRelease, TaskReleaseFails, Cancel
<1>3. ASSUME NEW s \in Sidecar, Crash(s) PROVE Stopped(r)
  BY <1>3 DEF Crash
<1>4. ASSUME NEW p \in Prefix, LockExpire(p) \/ EntryExpire(p) PROVE Stopped(r)
  BY <1>4 DEF LockExpire, EntryExpire
<1>5. ASSUME UNCHANGED vars PROVE Stopped(r)
  BY <1>5
<1> QED BY <1>1, <1>2, <1>3, <1>4, <1>5 DEF Next

\* Without Redis failures a step of a request is one of these.
LEMMA OwnSteps ==
  ASSUME "redis" \notin Env, NEW r \in Request, HandlerStep(r) \/ TaskStep(r) \/ Cancel(r)
  PROVE  \/ RejectBody(r) \/ ProxyRaw(r) \/ StartLookup(r) \/ GetHit(r) \/ GetMiss(r)
         \/ Touch(r) \/ AcquireLock(r) \/ LockContended(r) \/ Backoff(r) \/ GiveUp(r)
         \/ CheckLocked(r) \/ CheckReleased(r) \/ Incr(r) \/ RouteCold(r) \/ FirstByte(r)
         \/ ForwardFails(r) \/ Relay(r) \/ TaskWrite(r) \/ TaskRelease(r) \/ Cancel(r)
BY DEF HandlerStep, TaskStep, LookupFails, AcquireFails, CheckFails, TaskReleaseFails

\* Every variable keeps its type on every run of the pipeline.
THEOREM TypeCorrect == Spec => []TypeOK
<1>1. Spec => []Base
  BY BaseInit, BaseStep, PTL DEF Spec
<1>2. Base => TypeOK
  BY DEF Base, TypeInv
<1> QED BY <1>1, <1>2, PTL

----------------------------------------------------------------------------
(* The Ghost-Lock admits one warm-up.                                      *)

\* A warm-up owns the key, or someone without it has deleted it.
OwnerInv ==
  LockLasts =>
    \A r \in Request :
      Warming(r) => ghostLock[PrefixOf[r]] = r \/ UnownedRelease(PrefixOf[r])

\* A task that ended stays ended, and its request never acquires the lock.
LEMMA EndedStays ==
  ASSUME Base, [Next]_vars, NEW r \in Request, task[r] \in {"done", "failed", "lost"}
  PROVE  task'[r] = task[r] /\ lockAcquired'[r] = lockAcquired[r]
<1> USE DEF Base, TypeInv, TypeOK, Phases, Unrouted, Seeking
<1>1. ASSUME NEW t \in Request, HandlerStep(t)
      PROVE  task'[r] = task[r] /\ lockAcquired'[r] = lockAcquired[r]
  <2>1. CASE AcquireLock(t) \/ RouteCold(t)
    <3>1. t # r BY <2>1 DEF AcquireLock, RouteCold, NoLookup
    <3> QED BY <2>1, <3>1 DEF AcquireLock, RouteCold
  <2>2. CASE UNCHANGED <<task, lockAcquired>>
    BY <2>2
  <2> QED BY <1>1, <2>1, <2>2 DEF HandlerStep, RejectBody, ProxyRaw, StartLookup,
        GetHit, GetMiss, Touch, LookupFails, LockContended, AcquireFails, Backoff, GiveUp,
        CheckLocked, CheckReleased, CheckFails, Incr, FirstByte, ForwardFails, Relay
<1>2. ASSUME NEW t \in Request, TaskStep(t) \/ Cancel(t)
      PROVE  task'[r] = task[r] /\ lockAcquired'[r] = lockAcquired[r]
  BY <1>2 DEF TaskStep, TaskWrite, TaskRelease, TaskReleaseFails, ReadyToRelease, Cancel
<1>3. ASSUME NEW s \in Sidecar, Crash(s)
      PROVE  task'[r] = task[r] /\ lockAcquired'[r] = lockAcquired[r]
  BY <1>3 DEF Crash
<1>4. ASSUME NEW p \in Prefix, LockExpire(p) \/ EntryExpire(p)
      PROVE  task'[r] = task[r] /\ lockAcquired'[r] = lockAcquired[r]
  BY <1>4 DEF LockExpire, EntryExpire
<1> QED BY <1>1, <1>2, <1>3, <1>4 DEF Next

LEMMA UnownedStays ==
  ASSUME Base, [Next]_vars, NEW p \in Prefix, UnownedRelease(p)
  PROVE  UnownedRelease(p)'
BY EndedStays DEF UnownedRelease

\* Apart from the winner's own SET NX, no step makes a request a warm-up.
LEMMA WarmingBack ==
  ASSUME Base, [Next]_vars, NEW r \in Request, Warming(r)', ~AcquireLock(r)
  PROVE  Warming(r)
<1> USE DEF Base, TypeInv, TypeOK, Phases, Unrouted, Seeking, HitCounted, MissCounted, Warming
<1>1. ASSUME NEW t \in Request, HandlerStep(t) PROVE Warming(r)
  <2>1. CASE AcquireLock(t)
    BY <2>1 DEF AcquireLock
  <2>2. CASE RouteCold(t)
    BY <2>2 DEF RouteCold
  <2>3. CASE RejectBody(t) \/ ProxyRaw(t) \/ StartLookup(t) \/ GetHit(t) \/ GetMiss(t)
             \/ LookupFails(t)
    BY <2>3 DEF RejectBody, ProxyRaw, StartLookup, GetHit, GetMiss, LookupFails
  <2>4. CASE Touch(t)
    BY <2>4 DEF Touch
  <2>5. CASE LockContended(t) \/ AcquireFails(t) \/ Backoff(t) \/ GiveUp(t)
             \/ CheckLocked(t) \/ CheckReleased(t) \/ CheckFails(t)
    BY <2>5 DEF LockContended, AcquireFails, Backoff, GiveUp, CheckLocked,
                CheckReleased, CheckFails
  <2>6. CASE Incr(t) \/ FirstByte(t) \/ ForwardFails(t) \/ Relay(t)
    BY <2>6 DEF Incr, FirstByte, ForwardFails, Relay
  <2> QED BY <1>1, <2>1, <2>2, <2>3, <2>4, <2>5, <2>6 DEF HandlerStep
<1>2. ASSUME NEW t \in Request, TaskStep(t) \/ Cancel(t) PROVE Warming(r)
  BY <1>2 DEF TaskStep, TaskWrite, TaskRelease, TaskReleaseFails, ReadyToRelease,
              AfterWrite, Cancel
<1>3. ASSUME NEW s \in Sidecar, Crash(s) PROVE Warming(r)
  BY <1>3 DEF Crash
<1>4. ASSUME NEW p \in Prefix, LockExpire(p) \/ EntryExpire(p) PROVE Warming(r)
  BY <1>4 DEF LockExpire, EntryExpire
<1> QED BY <1>1, <1>2, <1>3, <1>4 DEF Next

\* A key appears by the SET NX of a request at "acquire", won or lost on the
\* way, and goes by a task's DEL or, if keys may lapse, by itself.
SetBy(t, p) ==
  /\ PrefixOf[t] = p
  /\ LockFree(p)
  /\ ghostLock'[p] = t
  /\ ~lockAcquired[t]
  /\ \/ AcquireLock(t)
     \/ ~lockAcquired'[t] /\ "redis" \in Env
     \/ pc'[t] = "gone" /\ task'[t] = "none"

DeletedBy(t, p) ==
  /\ PrefixOf[t] = p
  /\ LockFree(p)'
  /\ task[t] = "release"
  /\ task'[t] \in {"done", "failed"}
  /\ task'[t] = "failed" => "redis" \in Env
  /\ lockAcquired'[t] = lockAcquired[t]

LEMMA LockChange ==
  ASSUME Base, [Next]_vars, NEW p \in Prefix, ghostLock'[p] # ghostLock[p]
  PROVE  \/ \E t \in Request : SetBy(t, p) \/ DeletedBy(t, p)
         \/ LockFree(p)' /\ ~LockLasts
<1> USE DEF Base, TypeInv, TypeOK, Phases, Unrouted, Seeking
<1>1. ASSUME NEW t \in Request, HandlerStep(t)
      PROVE  \E u \in Request : SetBy(u, p)
  <2>1. CASE AcquireLock(t)
    BY <2>1 DEF AcquireLock, SetBy
  <2>2. CASE AcquireFails(t)
    BY <2>2 DEF AcquireFails, CommandLands, SetBy
  <2>3. CASE LookupFails(t) \/ Incr(t)
    BY <2>3 DEF LookupFails, Incr, CommandLands
  <2>4. CASE UNCHANGED ghostLock
    BY <2>4
  <2> QED BY <1>1, <2>1, <2>2, <2>3, <2>4 DEF HandlerStep, RejectBody, ProxyRaw, StartLookup,
        GetHit, GetMiss, Touch, LockContended, Backoff, GiveUp, CheckLocked,
        CheckReleased, CheckFails, RouteCold, FirstByte, ForwardFails, Relay
<1>2. ASSUME NEW t \in Request, TaskStep(t)
      PROVE  \E u \in Request : DeletedBy(u, p)
  BY <1>2, PrefixAssumption DEF TaskStep, TaskWrite, TaskRelease, TaskReleaseFails,
     ReadyToRelease, DeletedBy
<1>3. ASSUME NEW t \in Request, Cancel(t)
      PROVE  \E u \in Request : SetBy(u, p)
  <2>1. CommandLands(t) /\ pc[t] = "acquire" BY <1>3 DEF Cancel, CommandLands
  <2> QED BY <1>3, <2>1, PrefixAssumption DEF Cancel, CommandLands, SetBy, NoLookup
<1>4. ASSUME NEW s \in Sidecar, Crash(s) PROVE FALSE
  BY <1>4 DEF Crash
<1>5. ASSUME NEW q \in Prefix, LockExpire(q) \/ EntryExpire(q)
      PROVE  LockFree(p)' /\ ~LockLasts
  BY <1>5 DEF LockExpire, EntryExpire, LockLasts
<1> QED BY <1>1, <1>2, <1>3, <1>4, <1>5 DEF Next

LEMMA OwnerInit == Init => OwnerInv
BY DEF Init, OwnerInv, Warming

LEMMA OwnerStep == Base /\ OwnerInv /\ [Next]_vars => OwnerInv'
<1> SUFFICES ASSUME Base, OwnerInv, [Next]_vars, LockLasts, NEW r \in Request, Warming(r)'
             PROVE  ghostLock'[PrefixOf[r]] = r \/ UnownedRelease(PrefixOf[r])'
  BY DEF OwnerInv, LockLasts
<1> DEFINE p == PrefixOf[r]
<1>p. p \in Prefix BY PrefixAssumption
<1>1. CASE AcquireLock(r)
  BY <1>1, <1>p DEF AcquireLock, Base, TypeInv, TypeOK
<1>2. CASE UnownedRelease(p)
  BY <1>2, <1>p, UnownedStays
<1>3. CASE ~AcquireLock(r) /\ ~UnownedRelease(p) /\ ghostLock'[p] # ghostLock[p]
  <2>1. ghostLock[p] = r
    BY <1>3, WarmingBack DEF OwnerInv
  <2>2. PICK t \in Request : SetBy(t, p) \/ DeletedBy(t, p)
    BY <1>3, <1>p, LockChange
  <2>3. ~SetBy(t, p)
    BY <2>1, NoRequestAssumption DEF SetBy
  <2>4. DeletedBy(t, p)
    BY <2>2, <2>3
  <2>5. CASE lockAcquired[t]
    <3>1. Warming(t) BY <2>4, <2>5 DEF DeletedBy, Warming
    <3>2. ghostLock[p] = t BY <1>3, <2>4, <3>1 DEF OwnerInv, DeletedBy
    <3>3. ~Warming(r)'
      BY <2>1, <2>4, <3>2, BaseStep DEF DeletedBy, Warming, Base, Phases, Unrouted,
         HitCounted, MissCounted, NoLookup
    <3> QED BY <3>3
  <2>6. CASE ~lockAcquired[t]
    BY <2>4, <2>6 DEF DeletedBy, UnownedRelease
  <2> QED BY <2>5, <2>6
<1>4. CASE ~AcquireLock(r) /\ ~UnownedRelease(p) /\ ghostLock'[p] = ghostLock[p]
  BY <1>4, WarmingBack DEF OwnerInv
<1> QED BY <1>1, <1>2, <1>3, <1>4

\* Two warm-ups of one prefix never overlap while the key lives, unless a task
\* that does not own the key has deleted it.
THEOREM Exclusion == Spec => []WarmExclusion
<1>1. Spec => [](Base /\ OwnerInv)
  BY BaseInit, BaseStep, OwnerInit, OwnerStep, PTL DEF Spec
<1>2. OwnerInv => WarmExclusion
  BY DEF OwnerInv, WarmExclusion
<1> QED BY <1>1, <1>2, PTL

----------------------------------------------------------------------------
(* What a lock key that exists stands for.                                 *)

\* A key is of the prefix of the request that set it.
KeyOfOwner == \A p \in Prefix : ~LockFree(p) => PrefixOf[ghostLock[p]] = p

LeakInv == KeyOfOwner /\ LockLeakCauses

LEMMA LeakInit == Init => LeakInv
BY DEF Init, LeakInv, KeyOfOwner, LockLeakCauses

\* A warm-up goes on, or its DEL ran, or it failed, or it was cut short.
LEMMA WarmingOn ==
  ASSUME Base, [Next]_vars, NEW r \in Request, Warming(r)
  PROVE  \/ Warming(r)'
         \/ ghostLock'[PrefixOf[r]] = NoRequest
         \/ "redis" \in Env /\ task'[r] = "failed"
         \/ task'[r] = "lost"
         \/ pc'[r] = "gone" /\ task'[r] = "none"
<1> USE DEF Base, TypeInv, TypeOK, Phases, Unrouted, Seeking, HitCounted, MissCounted,
            Warming, NoLookup
<1>1. ASSUME NEW t \in Request, HandlerStep(t) PROVE Warming(r)'
  <2>1. CASE AcquireLock(t)
    BY <2>1 DEF AcquireLock
  <2>2. CASE RouteCold(t)
    BY <2>2 DEF RouteCold
  <2>3. CASE RejectBody(t) \/ ProxyRaw(t) \/ StartLookup(t) \/ GetHit(t) \/ GetMiss(t)
             \/ LookupFails(t)
    BY <2>3 DEF RejectBody, ProxyRaw, StartLookup, GetHit, GetMiss, LookupFails
  <2>4. CASE Touch(t)
    BY <2>4 DEF Touch
  <2>5. CASE LockContended(t) \/ AcquireFails(t) \/ Backoff(t) \/ GiveUp(t)
             \/ CheckLocked(t) \/ CheckReleased(t) \/ CheckFails(t)
    BY <2>5 DEF LockContended, AcquireFails, Backoff, GiveUp, CheckLocked,
                CheckReleased, CheckFails
  <2>6. CASE Incr(t) \/ FirstByte(t) \/ ForwardFails(t) \/ Relay(t)
    BY <2>6 DEF Incr, FirstByte, ForwardFails, Relay
  <2> QED BY <1>1, <2>1, <2>2, <2>3, <2>4, <2>5, <2>6 DEF HandlerStep
<1>2. ASSUME NEW t \in Request, TaskStep(t)
      PROVE  \/ Warming(r)'
             \/ ghostLock'[PrefixOf[r]] = NoRequest
             \/ "redis" \in Env /\ task'[r] = "failed"
  BY <1>2, PrefixAssumption DEF TaskStep, TaskWrite, TaskRelease, TaskReleaseFails,
     ReadyToRelease, AfterWrite
<1>3. ASSUME NEW t \in Request, Cancel(t)
      PROVE  Warming(r)' \/ (pc'[r] = "gone" /\ task'[r] = "none")
  BY <1>3 DEF Cancel
<1>4. ASSUME NEW s \in Sidecar, Crash(s)
      PROVE  \/ Warming(r)'
             \/ task'[r] = "lost"
             \/ pc'[r] = "gone" /\ task'[r] = "none"
  BY <1>4 DEF Crash, Running
<1>5. ASSUME NEW p \in Prefix, LockExpire(p) \/ EntryExpire(p) PROVE Warming(r)'
  BY <1>5 DEF LockExpire, EntryExpire
<1> QED BY <1>1, <1>2, <1>3, <1>4, <1>5 DEF Next

\* A dropped handler does nothing more.
LEMMA GoneStays ==
  ASSUME Base, [Next]_vars, NEW r \in Request, pc[r] = "gone", task[r] = "none"
  PROVE  pc'[r] = "gone" /\ task'[r] = "none"
<1> USE DEF Base, TypeInv, TypeOK
<1>1. ASSUME NEW t \in Request, HandlerStep(t)
      PROVE  pc'[r] = "gone" /\ task'[r] = "none"
  BY <1>1 DEF HandlerStep, RejectBody, ProxyRaw, StartLookup, GetHit, GetMiss, Touch,
     LookupFails, AcquireLock, LockContended, AcquireFails, Backoff, GiveUp, CheckLocked,
     CheckReleased, CheckFails, Incr, RouteCold, FirstByte, ForwardFails, Relay
<1>2. ASSUME NEW t \in Request, TaskStep(t) \/ Cancel(t)
      PROVE  pc'[r] = "gone" /\ task'[r] = "none"
  BY <1>2 DEF TaskStep, TaskWrite, TaskRelease, TaskReleaseFails, ReadyToRelease, Cancel, Running
<1>3. ASSUME NEW s \in Sidecar, Crash(s)
      PROVE  pc'[r] = "gone" /\ task'[r] = "none"
  BY <1>3 DEF Crash
<1>4. ASSUME NEW p \in Prefix, LockExpire(p) \/ EntryExpire(p)
      PROVE  pc'[r] = "gone" /\ task'[r] = "none"
  BY <1>4 DEF LockExpire, EntryExpire
<1> QED BY <1>1, <1>2, <1>3, <1>4 DEF Next

LEMMA AcquiredOnce ==
  ASSUME Base, [Next]_vars, NEW r \in Request, ~lockAcquired[r], ~AcquireLock(r)
  PROVE  ~lockAcquired'[r]
<1> USE DEF Base, TypeInv, TypeOK
<1>1. ASSUME NEW t \in Request, HandlerStep(t) PROVE ~lockAcquired'[r]
  <2>1. CASE AcquireLock(t)
    BY <2>1 DEF AcquireLock
  <2>2. CASE UNCHANGED lockAcquired
    BY <2>2
  <2> QED BY <1>1, <2>1, <2>2 DEF HandlerStep, RejectBody, ProxyRaw, StartLookup,
        GetHit, GetMiss, Touch, LookupFails, LockContended, AcquireFails, Backoff, GiveUp,
        CheckLocked, CheckReleased, CheckFails, Incr, RouteCold, FirstByte, ForwardFails, Relay
<1>2. ASSUME NEW t \in Request, TaskStep(t) \/ Cancel(t) PROVE ~lockAcquired'[r]
  BY <1>2 DEF TaskStep, TaskWrite, TaskRelease, TaskReleaseFails, Cancel
<1>3. ASSUME NEW s \in Sidecar, Crash(s) PROVE ~lockAcquired'[r]
  BY <1>3 DEF Crash
<1>4. ASSUME NEW p \in Prefix, LockExpire(p) \/ EntryExpire(p) PROVE ~lockAcquired'[r]
  BY <1>4 DEF LockExpire, EntryExpire
<1> QED BY <1>1, <1>2, <1>3, <1>4 DEF Next

LEMMA LeakStep == Base /\ LeakInv /\ [Next]_vars => LeakInv'
<1> SUFFICES ASSUME Base, LeakInv, [Next]_vars, NEW p \in Prefix, NEW o \in Request,
                    ghostLock'[p] = o
             PROVE  /\ PrefixOf[o] = p
                    /\ \/ Warming(o)'
                       \/ "redis" \in Env /\ (~lockAcquired'[o] \/ task'[o] = "failed")
                       \/ task'[o] = "lost"
                       \/ pc'[o] = "gone" /\ task'[o] = "none"
  BY BaseStep DEF LeakInv, KeyOfOwner, LockLeakCauses, Warming, Base, TypeInv, TypeOK
<1>1. CASE ghostLock'[p] # ghostLock[p]
  <2>1. PICK t \in Request : SetBy(t, p)
    BY <1>1, LockChange, NoRequestAssumption DEF DeletedBy
  <2>2. o = t /\ PrefixOf[t] = p BY <2>1 DEF SetBy
  <2>3. AcquireLock(t) => Warming(t)'
    BY DEF AcquireLock, Warming, Base, TypeInv, TypeOK
  <2> QED BY <2>1, <2>2, <2>3 DEF SetBy
<1>2. CASE ghostLock'[p] = ghostLock[p]
  <2>1. /\ o = ghostLock[p]
        /\ ~LockFree(p)
        /\ PrefixOf[o] = p
    BY <1>2, NoRequestAssumption DEF LeakInv, KeyOfOwner
  <2>2. CASE Warming(o)
    BY <1>2, <2>1, <2>2, WarmingOn
  <2>3. CASE "redis" \in Env /\ ~lockAcquired[o]
    <3>1. ~AcquireLock(o) BY <1>2, <2>1 DEF AcquireLock
    <3> QED BY <2>1, <2>3, <3>1, AcquiredOnce
  <2>4. CASE ("redis" \in Env /\ task[o] = "failed") \/ task[o] = "lost"
    BY <2>1, <2>4, EndedStays
  <2>5. CASE pc[o] = "gone" /\ task[o] = "none"
    BY <2>1, <2>5, GoneStays
  <2> QED BY <2>1, <2>2, <2>3, <2>4, <2>5, <1>2 DEF LeakInv, LockLeakCauses
<1> QED BY <1>1, <1>2

\* A lock key that exists is its owner's, still warming, or has one of the four
\* named causes, whatever fails, crashes, is dropped or expires.
THEOREM LeaksExplained == Spec => []LockLeakCauses
<1>1. Spec => [](Base /\ LeakInv)
  BY BaseInit, BaseStep, LeakInit, LeakStep, PTL DEF Spec
<1>2. LeakInv => LockLeakCauses
  BY DEF LeakInv
<1> QED BY <1>1, <1>2, PTL

----------------------------------------------------------------------------
(* Entries.                                                                *)

\* Only Redis itself removes an entry: memory pressure, or an EX that is armed.
LEMMA EntryStays ==
  ASSUME Base, [Next]_vars, NEW p \in Prefix, cacheMap[p] # NoEntry,
         "lru" \notin Env, ~("entry_ttl" \in Env /\ ttlArmed[p])
  PROVE  cacheMap'[p] # NoEntry
<1> USE DEF Base, TypeInv, TypeOK, HoldsEntry, Phases
<1>1. \A r \in Request : pc[r] = "touch" => Touched(found[r]) # NoEntry
  <2> SUFFICES ASSUME NEW r \in Request, pc[r] = "touch" PROVE Touched(found[r]) \in Entry
    BY NoEntryAssumption
  <2> QED BY DEF Touched, Entry
<1>2. ASSUME NEW r \in Request, HandlerStep(r) PROVE cacheMap'[p] # NoEntry
  <2>1. CASE Touch(r) \/ LookupFails(r) \/ AcquireFails(r) \/ Incr(r)
    BY <1>1, <2>1 DEF Touch, LookupFails, AcquireFails, Incr, CommandLands, WriteBack, StoreEntry
  <2>2. CASE UNCHANGED cacheMap
    BY <2>2
  <2> QED BY <1>2, <2>1, <2>2 DEF HandlerStep, RejectBody, ProxyRaw, StartLookup,
        GetHit, GetMiss, AcquireLock, LockContended, Backoff, GiveUp,
        CheckLocked, CheckReleased, CheckFails, RouteCold, FirstByte, ForwardFails, Relay
<1>3. ASSUME NEW r \in Request, TaskStep(r) PROVE cacheMap'[p] # NoEntry
  <2>1. task[r] = "write" => WarmEntry(r) \in Entry
    BY DEF WarmEntry, Entry, Lookup
  <2> QED BY <1>3, <2>1, NoEntryAssumption DEF TaskStep, TaskWrite, TaskRelease,
          TaskReleaseFails, WriteEntry, StoreEntry
<1>4. ASSUME NEW r \in Request, Cancel(r) PROVE cacheMap'[p] # NoEntry
  BY <1>1, <1>4 DEF Cancel, CommandLands, WriteBack, StoreEntry
<1>5. ASSUME NEW s \in Sidecar, Crash(s) PROVE cacheMap'[p] # NoEntry
  BY <1>5 DEF Crash
<1>6. ASSUME NEW q \in Prefix, LockExpire(q) \/ EntryExpire(q) PROVE cacheMap'[p] # NoEntry
  BY <1>6 DEF LockExpire, EntryExpire, StoreEntry
<1> QED BY <1>2, <1>3, <1>4, <1>5, <1>6 DEF Next

\* Only fixed prefixes ever carry an EX.
ArmedInv == \A p \in Prefix : ttlArmed[p] => PolicyOf[p] = "fixed"

LEMMA ArmedStep == Base /\ ArmedInv /\ [Next]_vars => ArmedInv'
<1> SUFFICES ASSUME Base, ArmedInv, [Next]_vars PROVE ArmedInv'
  OBVIOUS
<1> USE DEF ArmedInv, Base, TypeInv, TypeOK
<1>1. ASSUME NEW r \in Request, HandlerStep(r) PROVE ArmedInv'
  <2>1. CASE Touch(r) \/ LookupFails(r) \/ AcquireFails(r) \/ Incr(r)
    BY <2>1 DEF Touch, LookupFails, AcquireFails, Incr, CommandLands, WriteBack, StoreEntry,
       ArmedAfterTouch
  <2>2. CASE UNCHANGED ttlArmed
    BY <2>2
  <2> QED BY <1>1, <2>1, <2>2 DEF HandlerStep, RejectBody, ProxyRaw, StartLookup,
        GetHit, GetMiss, AcquireLock, LockContended, Backoff, GiveUp,
        CheckLocked, CheckReleased, CheckFails, RouteCold, FirstByte, ForwardFails, Relay
<1>2. ASSUME NEW r \in Request, TaskStep(r) PROVE ArmedInv'
  BY <1>2 DEF TaskStep, TaskWrite, TaskRelease, TaskReleaseFails, WriteEntry, StoreEntry,
     ArmedAfterWrite
<1>3. ASSUME NEW r \in Request, Cancel(r) PROVE ArmedInv'
  BY <1>3 DEF Cancel, CommandLands, WriteBack, StoreEntry, ArmedAfterTouch
<1>4. ASSUME NEW s \in Sidecar, Crash(s) PROVE ArmedInv'
  BY <1>4 DEF Crash
<1>5. ASSUME NEW q \in Prefix, LockExpire(q) \/ EntryExpire(q) PROVE ArmedInv'
  BY <1>5 DEF LockExpire, EntryExpire, StoreEntry
<1>6. ASSUME UNCHANGED vars PROVE ArmedInv'
  BY <1>6
<1> QED BY <1>1, <1>2, <1>3, <1>4, <1>5, <1>6 DEF Next

\* An infinite prefix, once published, stays published for as long as Redis has
\* memory, whatever else fails or expires.
THEOREM InfiniteStay == Spec => InfiniteEntriesStay
<1>1. Init => ArmedInv BY DEF Init, ArmedInv
<1>2. Spec => [](Base /\ ArmedInv)
  BY <1>1, BaseInit, BaseStep, ArmedStep, PTL DEF Spec
<1>3. Base /\ ArmedInv /\ [Next]_vars =>
        [\A p \in Prefix :
           (PolicyOf[p] = "infinite" /\ "lru" \notin Env /\ cacheMap[p] # NoEntry)
             => cacheMap'[p] # NoEntry]_vars
  BY EntryStays DEF ArmedInv
<1> QED BY <1>2, <1>3, PTL DEF Spec, InfiniteEntriesStay

----------------------------------------------------------------------------
(* A sound Redis: waiters hit, and herds need exhaustion.                  *)

Published(r) == cacheMap[PrefixOf[r]] # NoEntry

WrittenFirst == \A r \in Request : task[r] \in {"release", "done", "failed"} => Published(r)
WaitsForOne  == \A r \in Request : pc[r] \in Waiting => ~LockFree(PrefixOf[r]) \/ Published(r)
RetryHits    == \A r \in Request : (pc[r] = "get" /\ ~FirstLookup(r)) => Published(r)
StartsFresh  == \A r \in Request : pc[r] = "idle" => FirstLookup(r)
ColdIsSpent  ==
  \A r \in Request :
    (~lockAcquired[r] /\ (pc[r] = "cold" \/ task[r] \in {"write", "release", "done", "failed"}))
      => attempt[r] = RetryMax
NoFailed     == \A r \in Request : task[r] # "failed"

SoundInv ==
  RedisSound => WrittenFirst /\ WaitsForOne /\ RetryHits /\ StartsFresh /\ ColdIsSpent /\ NoFailed

LEMMA SoundInit == Init => SoundInv
BY DEF Init, SoundInv, WrittenFirst, WaitsForOne, RetryHits, StartsFresh, ColdIsSpent, NoFailed, Waiting

LEMMA SpentIsMax ==
  ASSUME NEW n \in 0 .. RetryMax, RetriesExhausted(n)
  PROVE  n = RetryMax
BY RetryAssumption DEF RetriesExhausted

LEMMA SoundStep == Base /\ SoundInv /\ [Next]_vars => SoundInv'
<1> SUFFICES ASSUME Base, SoundInv, [Next]_vars, RedisSound
             PROVE  /\ WrittenFirst' /\ WaitsForOne' /\ RetryHits'
                    /\ StartsFresh' /\ ColdIsSpent' /\ NoFailed'
  BY DEF SoundInv, RedisSound
<1> USE DEF Base, TypeInv, TypeOK, Phases, Unrouted, Seeking, NoLookup
<1>a. WrittenFirst /\ WaitsForOne /\ RetryHits /\ StartsFresh /\ ColdIsSpent /\ NoFailed
  BY DEF SoundInv
<1>e. /\ "redis" \notin Env /\ "lru" \notin Env /\ "entry_ttl" \notin Env
      /\ LockLasts
  BY DEF RedisSound, LockLasts
<1>b. \A r \in Request : Published(r) => Published(r)'
  BY <1>e, EntryStays, PrefixAssumption DEF Published
<1> DEFINE Own(r) == HandlerStep(r) \/ TaskStep(r) \/ Cancel(r)
<1>1. WrittenFirst'
  <2> SUFFICES ASSUME NEW r \in Request, task'[r] \in {"release", "done", "failed"}
               PROVE  Published(r)'
    BY DEF WrittenFirst
  <2>1. CASE task[r] \in {"release", "done", "failed"}
    BY <1>a, <1>b, <2>1 DEF WrittenFirst
  <2>2. CASE task[r] \notin {"release", "done", "failed"}
    <3>1. Own(r) BY <2>2, Elsewhere DEF Stopped
    <3>2. TaskWrite(r)
      BY <1>e, <2>2, <3>1, OwnSteps DEF RejectBody, ProxyRaw, StartLookup, GetHit, GetMiss, Touch, AcquireLock,
         LockContended, Backoff, GiveUp, CheckLocked, CheckReleased, Incr, RouteCold, FirstByte,
         ForwardFails, Relay, TaskWrite, TaskRelease, ReadyToRelease, AfterWrite, AfterHit, Cancel
    <3>3. WarmEntry(r) \in Entry
      BY <3>2 DEF TaskWrite, WarmEntry, Entry, Lookup
    <3> QED BY <1>e, <3>2, <3>3, NoEntryAssumption, PrefixAssumption
            DEF TaskWrite, WriteEntry, StoreEntry, Published
  <2> QED BY <2>1, <2>2
<1>2. WaitsForOne'
  <2> SUFFICES ASSUME NEW r \in Request, pc'[r] \in Waiting, ~Published(r)',
                      LockFree(PrefixOf[r])'
               PROVE  FALSE
    BY DEF WaitsForOne
  <2>1. ~Published(r) BY <1>b
  <2>2. ~LockFree(PrefixOf[r])
    <3>1. CASE pc[r] \in Waiting BY <1>a, <2>1, <3>1 DEF WaitsForOne
    <3>2. CASE pc[r] \notin Waiting
      <4>1. Own(r) BY <3>2, Elsewhere DEF Stopped, Waiting
      <4>2. LockContended(r)
        BY <1>e, <3>2, <4>1, OwnSteps DEF RejectBody, ProxyRaw, StartLookup, GetHit, GetMiss, Touch, AcquireLock,
         LockContended, Backoff, GiveUp, CheckLocked, CheckReleased, Incr, RouteCold, FirstByte,
         ForwardFails, Relay, TaskWrite, TaskRelease, ReadyToRelease, AfterWrite, AfterHit, Cancel, Waiting
      <4> QED BY <4>2 DEF LockContended
    <3> QED BY <3>1, <3>2
  <2>3. PICK t \in Request : DeletedBy(t, PrefixOf[r])
    BY <1>e, <2>2, LockChange, PrefixAssumption DEF SetBy
  <2>4. Published(t) /\ PrefixOf[t] = PrefixOf[r]
    BY <1>a, <2>3 DEF DeletedBy, WrittenFirst
  <2> QED BY <2>1, <2>4 DEF Published
<1>3. RetryHits'
  <2> SUFFICES ASSUME NEW r \in Request, pc'[r] = "get", attempt'[r] # 0
               PROVE  Published(r)'
    BY DEF RetryHits
  <2>1. CASE pc[r] = "get" /\ attempt[r] # 0
    BY <1>a, <1>b, <2>1 DEF RetryHits
  <2>2. CASE ~(pc[r] = "get" /\ attempt[r] # 0)
    <3>1. Own(r) BY <2>2, Elsewhere DEF Stopped
    <3>2. CheckReleased(r) \/ StartLookup(r)
      BY <1>e, <2>2, <3>1, OwnSteps DEF RejectBody, ProxyRaw, StartLookup, GetHit, GetMiss, Touch, AcquireLock,
         LockContended, Backoff, GiveUp, CheckLocked, CheckReleased, Incr, RouteCold, FirstByte,
         ForwardFails, Relay, TaskWrite, TaskRelease, ReadyToRelease, AfterWrite, AfterHit, Cancel
    <3>3. CheckReleased(r) => Published(r)
      BY <1>a DEF CheckReleased, WaitsForOne, Waiting
    <3>4. ~StartLookup(r)
      BY <1>a DEF StartLookup, StartsFresh
    <3> QED BY <1>b, <3>2, <3>3, <3>4
  <2> QED BY <2>1, <2>2
<1>4. StartsFresh'
  <2> SUFFICES ASSUME NEW r \in Request, pc'[r] = "idle" PROVE attempt'[r] = 0
    BY DEF StartsFresh
  <2>1. ~Own(r)
    BY <1>e, OwnSteps DEF RejectBody, ProxyRaw, StartLookup, GetHit, GetMiss, Touch, AcquireLock,
         LockContended, Backoff, GiveUp, CheckLocked, CheckReleased, Incr, RouteCold, FirstByte,
         ForwardFails, Relay, TaskWrite, TaskRelease, ReadyToRelease, AfterWrite, AfterHit, Cancel
  <2> QED BY <1>a, <2>1, Elsewhere DEF Stopped, StartsFresh
<1>5. ColdIsSpent'
  <2> SUFFICES ASSUME NEW r \in Request, ~lockAcquired'[r],
                      pc'[r] = "cold" \/ task'[r] \in {"write", "release", "done", "failed"}
               PROVE  attempt'[r] = RetryMax
    BY DEF ColdIsSpent
  <2> DEFINE Spending == pc[r] = "cold" \/ task[r] \in {"write", "release", "done", "failed"}
  <2>1. CASE ~Own(r)
    <3>1. ~lockAcquired[r] /\ Spending BY <2>1, Elsewhere DEF Stopped
    <3> QED BY <1>a, <2>1, <3>1, Elsewhere DEF Stopped, ColdIsSpent
  <2>2. CASE Own(r)
    <3>1. \/ ~lockAcquired[r] /\ Spending /\ attempt'[r] = attempt[r]
          \/ GiveUp(r)
          \/ GetMiss(r) /\ attempt[r] # 0
      <4>1. CASE RejectBody(r) \/ ProxyRaw(r) \/ StartLookup(r) \/ GetHit(r) \/ GetMiss(r)
                 \/ Touch(r) \/ AcquireLock(r) \/ LockContended(r) \/ Backoff(r) \/ GiveUp(r)
        BY <4>1 DEF RejectBody, ProxyRaw, StartLookup, GetHit, GetMiss, Touch, AcquireLock,
           LockContended, Backoff, GiveUp, AfterHit
      <4>2. CASE CheckLocked(r) \/ CheckReleased(r) \/ FirstByte(r) \/ ForwardFails(r) \/ Relay(r)
        BY <4>2 DEF CheckLocked, CheckReleased, FirstByte, ForwardFails, Relay
      <4>3. CASE Incr(r)
        <5>1. pc'[r] = "cold" => lockAcquired[r]
          BY <4>3 DEF Incr, HitCounted, MissCounted
        <5> QED BY <4>3, <5>1 DEF Incr
      <4>4. CASE RouteCold(r) \/ TaskWrite(r) \/ TaskRelease(r) \/ Cancel(r)
        BY <4>4 DEF RouteCold, TaskWrite, TaskRelease, ReadyToRelease, AfterWrite, Cancel
      <4> QED BY <1>e, <2>2, <4>1, <4>2, <4>3, <4>4, OwnSteps
    <3>2. ~(GetMiss(r) /\ attempt[r] # 0)
      BY <1>a DEF GetMiss, RetryHits, Published
    <3>3. GiveUp(r) => attempt'[r] = RetryMax
      <4>1. attempt[r] \in 0 .. RetryMax
        OBVIOUS
      <4>2. GiveUp(r) => attempt'[r] = attempt[r] /\ RetriesExhausted(attempt[r])
        BY DEF GiveUp
      <4> QED BY <4>1, <4>2, SpentIsMax
    <3> QED BY <1>a, <3>1, <3>2, <3>3 DEF ColdIsSpent
  <2> QED BY <2>1, <2>2
<1>6. NoFailed'
  <2> SUFFICES ASSUME NEW r \in Request, task'[r] = "failed" PROVE FALSE
    BY DEF NoFailed
  <2>1. Own(r) BY <1>a, Elsewhere DEF Stopped, NoFailed
  <2> QED BY <1>a, <1>e, <2>1, OwnSteps DEF NoFailed, RejectBody, ProxyRaw, StartLookup, GetHit,
         GetMiss, Touch, AcquireLock,
         LockContended, Backoff, GiveUp, CheckLocked, CheckReleased, Incr, RouteCold, FirstByte,
         ForwardFails, Relay, TaskWrite, TaskRelease, ReadyToRelease, AfterWrite, Cancel
<1> QED BY <1>1, <1>2, <1>3, <1>4, <1>5, <1>6

\* A waiter that saw the lock gone finds the entry, as the comment expects,
\* through cancellations and crashes, when Redis neither fails nor forgets.
THEOREM RetryHit == Spec => []ShouldHitNow
<1>1. Spec => [](Base /\ SoundInv)
  BY BaseInit, BaseStep, SoundInit, SoundStep, PTL DEF Spec
<1>2. SoundInv => ShouldHitNow
  BY DEF SoundInv, RetryHits, Published, ShouldHitNow
<1> QED BY <1>1, <1>2, PTL

\* With a sound Redis, a second warm-up of a prefix means that a waiter spent
\* all its back-offs and deleted the lock of the first.
THEOREM NoHerd == Spec => []HerdOnlyAfterExhaustion
<1>1. Spec => [](Base /\ OwnerInv /\ SoundInv)
  BY BaseInit, BaseStep, OwnerInit, OwnerStep, SoundInit, SoundStep, PTL DEF Spec
<1>2. Base /\ OwnerInv /\ SoundInv => HerdOnlyAfterExhaustion
  <2> SUFFICES ASSUME Base, OwnerInv, SoundInv, RedisSound, NEW r \in Request, NEW t \in Request,
                      r # t, PrefixOf[r] = PrefixOf[t], Warming(r), Warming(t)
               PROVE  \E w \in Request : /\ PrefixOf[w] = PrefixOf[r]
                                         /\ Exhausted(w)
                                         /\ task[w] = "done"
    BY DEF HerdOnlyAfterExhaustion
  <2>1. LockLasts BY DEF RedisSound, LockLasts
  <2>2. UnownedRelease(PrefixOf[r])
    BY <2>1 DEF OwnerInv
  <2>3. PICK w \in Request : /\ PrefixOf[w] = PrefixOf[r]
                             /\ ~lockAcquired[w]
                             /\ task[w] \in {"done", "failed"}
    BY <2>2 DEF UnownedRelease
  <2>4. attempt[w] = RetryMax
    BY <2>3 DEF SoundInv, ColdIsSpent
  <2>5. task[w] # "failed"
    BY DEF SoundInv, NoFailed
  <2> QED BY <2>3, <2>4, <2>5 DEF Exhausted
<1> QED BY <1>1, <1>2, PTL
=============================================================================
