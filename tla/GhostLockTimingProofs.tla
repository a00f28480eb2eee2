----------------------- MODULE GhostLockTimingProofs -----------------------
(***************************************************************************)
(* The sleeps only restrict the pipeline: every timed behaviour is one of  *)
(* module Interceptor, so what is proved there holds here.  And the        *)
(* back-offs are long enough: an inductive invariant weighs the sleep each *)
(* waiter has left against the warm-ups it may still have to outlast.      *)
(***************************************************************************)
EXTENDS GhostLockTiming, InterceptorProofs

USE DEF At, Goto, FirstLookup, LockFree, LockTaken, LockDeleted, SetNxAccepts,
        Count, handlerVars, redisVars, vars

\* A tick, or a pipeline step with its timers, is a pipeline step or a stutter.
LEMMA TimedStep == [TimedNext]_timedVars => [Next]_vars
BY DEF TimedNext, PipelineStep, Elapse, timedVars, timers

\* So what is proved of the pipeline holds with the sleeps counted.
LEMMA TimedImplementsPipeline == TimedSpec => Spec
<1>1. TimedInit => Init BY DEF TimedInit
<1> QED BY <1>1, TimedStep, PTL DEF TimedSpec, Spec

\* HerdOnlyAfterExhaustion with the sleeps counted.
THEOREM TimedNoHerd == TimedSpec => []HerdOnlyAfterExhaustion
BY TimedImplementsPipeline, NoHerd, PTL

----------------------------------------------------------------------------
(* The back-offs outlast the warm-ups.                                     *)

\* The ticks a waiter sleeps in its first n back-offs.
Patience(n) ==
  IF n <= 6 THEN <<0, 1, 3, 7, 15, 31, 63>>[n + 1] ELSE 63 + 64 * (n - 6)

LEMMA PatienceGrows ==
  ASSUME NEW n \in Nat
  PROVE  /\ Patience(n) \in Nat
         /\ BackoffTicks(n) \in Nat
         /\ Patience(n + 1) = Patience(n) + BackoffTicks(n)
<1>1. CASE n > 6
  BY <1>1 DEF Patience, BackoffTicks
<1>2. CASE n = 0 \/ n = 1 \/ n = 2
  BY <1>2 DEF Patience, BackoffTicks
<1>3. CASE n = 3 \/ n = 4 \/ n = 5 \/ n = 6
  BY <1>3 DEF Patience, BackoffTicks
<1> QED BY <1>1, <1>2, <1>3

\* All back-offs together are longer than two warm-up delays: the first winner's,
\* and that of a second whose GET missed just before the first one's write.
PatienceAssumption == WarmTicks > 0 /\ Patience(RetryMax) > 2 * WarmTicks

\* GHOST_LOCK_RETRY_MAX is 8, and the delay of 200 ms four ticks of 50 ms.
LEMMA CodeIsPatient == RetryMax = 8 /\ WarmTicks = 4 => PatienceAssumption
BY DEF PatienceAssumption, Patience

TimersOK ==
  /\ prompt \in BOOLEAN
  /\ backoff \in [Request -> Nat]
  /\ warmup \in [Request -> 0 .. WarmTicks]
  /\ \A r \in Request : pc[r] # "backoff" => backoff[r] = 0

LEMMA TimersInit == TimedInit => TimersOK
BY WarmTicksAssumption DEF TimedInit, Init, TimersOK

LEMMA TimersStep == Base /\ TimersOK /\ [TimedNext]_timedVars => TimersOK'
<1> SUFFICES ASSUME Base, TimersOK, [TimedNext]_timedVars PROVE TimersOK'
  OBVIOUS
<1> USE DEF TimersOK, timers, timedVars
<1>1. CASE PipelineStep
  <2>1. Base' BY TimedStep, BaseStep
  <2>2. \A r \in Request : Sleep(attempt'[r]) \in Nat
    BY <2>1, PatienceGrows, RetryAssumption DEF Sleep, Base, TypeInv, TypeOK
  <2>3. WarmDelay \in 0 .. WarmTicks BY WarmTicksAssumption DEF WarmDelay
  <2>4. backoff' \in [Request -> Nat] BY <1>1, <2>2 DEF PipelineStep, TimersSet
  <2>5. warmup' \in [Request -> 0 .. WarmTicks]
    BY <1>1, <2>3, WarmTicksAssumption DEF PipelineStep, TimersSet
  <2> QED BY <1>1, <2>4, <2>5 DEF PipelineStep, TimersSet
<1>2. CASE Elapse
  <2>1. \A n \in Nat : OneLess(n) \in Nat /\ OneLess(n) <= n BY DEF OneLess
  <2>2. backoff' \in [Request -> Nat] BY <1>2, <2>1 DEF Elapse
  <2>3. warmup' \in [Request -> 0 .. WarmTicks]
    <3>1. \A n \in 0 .. WarmTicks : OneLess(n) \in 0 .. WarmTicks
      BY WarmTicksAssumption DEF OneLess
    <3> QED BY <1>2, <3>1 DEF Elapse
  <2>4. \A r \in Request : pc'[r] # "backoff" => backoff'[r] = 0
    <3>1. OneLess(0) = 0 BY DEF OneLess
    <3> QED BY <1>2, <3>1 DEF Elapse
  <2> QED BY <1>2, <2>2, <2>3, <2>4 DEF Elapse
<1>3. CASE UNCHANGED timedVars
  BY <1>3
<1> QED BY <1>1, <1>2, <1>3 DEF TimedNext

\* A handler asks for the lock on its first lookup, and writes back an entry of a
\* prefix that, Redis being sound, stays published.
AsksFirst    == \A r \in Request : pc[r] = "acquire" => attempt[r] = 0
TouchesOld   == \A r \in Request : pc[r] = "touch" => Published(r)
BeforeLock   == AsksFirst /\ (RedisSound => TouchesOld)

LEMMA BeforeLockStep == Base /\ BeforeLock /\ [Next]_vars => BeforeLock'
<1> SUFFICES ASSUME Base, BeforeLock, [Next]_vars, NEW r \in Request
             PROVE  /\ pc'[r] = "acquire" => attempt'[r] = 0
                    /\ (RedisSound /\ pc'[r] = "touch") => Published(r)'
  BY DEF BeforeLock, AsksFirst, TouchesOld, RedisSound
<1> USE DEF Base, TypeInv, TypeOK
<1>1. RedisSound /\ Published(r) => Published(r)'
  BY EntryStays, PrefixAssumption DEF RedisSound, Published
<1>2. CASE HandlerStep(r)
  <2>1. CASE GetHit(r) \/ GetMiss(r)
    <3>1. /\ pc'[r] = "acquire" => attempt'[r] = 0
          /\ pc'[r] = "touch" => cacheMap'[PrefixOf[r]] # NoEntry
      BY <2>1 DEF GetHit, GetMiss
    <3> QED BY <3>1 DEF Published
  <2>2. CASE ~GetHit(r) /\ ~GetMiss(r)
    <3>1. CASE RejectBody(r) \/ ProxyRaw(r) \/ StartLookup(r) \/ LookupFails(r) \/ AcquireLock(r)
      BY <3>1 DEF RejectBody, ProxyRaw, StartLookup, LookupFails, AcquireLock
    <3>2. CASE Touch(r) \/ LockContended(r) \/ AcquireFails(r) \/ Backoff(r) \/ GiveUp(r)
      BY <3>2 DEF Touch, AfterHit, LockContended, AcquireFails, Backoff, GiveUp
    <3>3. CASE CheckLocked(r) \/ CheckReleased(r) \/ CheckFails(r) \/ Incr(r) \/ RouteCold(r)
               \/ FirstByte(r) \/ ForwardFails(r) \/ Relay(r)
      BY <3>3 DEF CheckLocked, CheckReleased, CheckFails, Incr, RouteCold, FirstByte,
         ForwardFails, Relay
    <3> QED BY <1>2, <2>2, <3>1, <3>2, <3>3 DEF HandlerStep
  <2> QED BY <2>1, <2>2
<1>3. ASSUME pc'[r] \in {pc[r], "gone"}, attempt'[r] = attempt[r]
      PROVE  /\ pc'[r] = "acquire" => attempt'[r] = 0
             /\ (RedisSound /\ pc'[r] = "touch") => Published(r)'
  <2>1. pc'[r] = "acquire" => attempt'[r] = 0 BY <1>3 DEF BeforeLock, AsksFirst
  <2>2. (RedisSound /\ pc'[r] = "touch") => Published(r) BY <1>3 DEF BeforeLock, TouchesOld
  <2> QED BY <1>1, <2>1, <2>2
<1>4. CASE TaskStep(r) \/ Cancel(r)
  <2>1. pc'[r] \in {pc[r], "gone"} /\ attempt'[r] = attempt[r]
    BY <1>4 DEF TaskStep, TaskWrite, TaskRelease, TaskReleaseFails, Cancel
  <2> QED BY <1>3, <2>1
<1>5. CASE ~HandlerStep(r) /\ ~TaskStep(r) /\ ~Cancel(r)
  BY <1>3, <1>5, Elsewhere DEF Stopped
<1> QED BY <1>2, <1>4, <1>5

----------------------------------------------------------------------------
(* While nobody has given up on a prefix.                                  *)

\* No waiter of the prefix is past its last EXISTS.
Fresh(p) ==
  \A t \in Request : PrefixOf[t] = p => ~(Exhausted(t) /\ pc[t] # "check")

\* Who has given up never waits, nor asks for the lock, again.
LEMMA FreshBack ==
  ASSUME Base, BeforeLock, [Next]_vars, NEW p \in Prefix, Fresh(p)'
  PROVE  Fresh(p)
<1> SUFFICES ASSUME NEW t \in Request, PrefixOf[t] = p,
                    ~lockAcquired[t], attempt[t] = RetryMax, pc[t] # "check"
             PROVE  ~lockAcquired'[t] /\ attempt'[t] = RetryMax /\ pc'[t] # "check"
  BY DEF Fresh, Exhausted
<1> USE DEF Base, TypeInv, TypeOK
<1>1. ~AcquireLock(t)
  BY RetryAssumption DEF AcquireLock, BeforeLock, AsksFirst
<1>2. ~lockAcquired'[t]
  BY <1>1, AcquiredOnce
<1>3. CASE HandlerStep(t)
  <2>1. CASE RejectBody(t) \/ ProxyRaw(t) \/ StartLookup(t) \/ GetHit(t) \/ GetMiss(t)
             \/ LookupFails(t)
    BY <2>1 DEF RejectBody, ProxyRaw, StartLookup, GetHit, GetMiss, LookupFails
  <2>2. CASE Touch(t) \/ LockContended(t) \/ AcquireFails(t) \/ GiveUp(t)
    BY <2>2 DEF Touch, AfterHit, LockContended, AcquireFails, GiveUp
  <2>3. CASE CheckLocked(t) \/ CheckReleased(t) \/ CheckFails(t) \/ Incr(t) \/ RouteCold(t)
             \/ FirstByte(t) \/ ForwardFails(t) \/ Relay(t)
    BY <2>3 DEF CheckLocked, CheckReleased, CheckFails, Incr, RouteCold, FirstByte,
       ForwardFails, Relay
  <2>4. ~Backoff(t)
    BY RetryAssumption DEF Backoff, RetriesExhausted
  <2> QED BY <1>1, <1>2, <1>3, <2>1, <2>2, <2>3, <2>4 DEF HandlerStep
<1>4. CASE TaskStep(t) \/ Cancel(t)
  BY <1>2, <1>4 DEF TaskStep, TaskWrite, TaskRelease, TaskReleaseFails, Cancel
<1>5. CASE ~HandlerStep(t) /\ ~TaskStep(t) /\ ~Cancel(t)
  BY <1>2, <1>5, Elsewhere DEF Stopped
<1> QED BY <1>3, <1>4, <1>5

\* What the untimed proofs know of the pipeline.
Known == Base /\ OwnerInv /\ LeakInv /\ SoundInv /\ BeforeLock

\* Until somebody gives up, the only warm-up task of a prefix is the lock owner's.
LEMMA TaskOfOwner ==
  ASSUME Known, RedisSound, NEW p \in Prefix, Fresh(p), NEW t \in Request,
         PrefixOf[t] = p, task[t] \in {"write", "release"}
  PROVE  ghostLock[p] = t
<1> USE DEF Known
<1>1. \A u \in Request :
        (PrefixOf[u] = p /\ task[u] \in {"write", "release", "done", "failed"}) => lockAcquired[u]
  <2> SUFFICES ASSUME NEW u \in Request, PrefixOf[u] = p, ~lockAcquired[u],
                      task[u] \in {"write", "release", "done", "failed"}
               PROVE  FALSE
    OBVIOUS
  <2>1. attempt[u] = RetryMax BY DEF SoundInv, ColdIsSpent
  <2>2. pc[u] # "check" BY DEF Base, Phases, Unrouted, Seeking, NoLookup
  <2> QED BY <2>1, <2>2 DEF Fresh, Exhausted
<1>2. ~UnownedRelease(p) BY <1>1 DEF UnownedRelease
<1>3. Warming(t) BY <1>1 DEF Warming
<1> QED BY <1>2, <1>3 DEF OwnerInv, RedisSound, LockLasts

\* A lock nobody abandoned is held by a warm-up on its way.
LEMMA OwnerOnItsWay ==
  ASSUME Known, RedisSound, NEW p \in Prefix, ~LockFree(p), ~Abandoned(ghostLock[p])
  PROVE  /\ ghostLock[p] \in Request
         /\ PrefixOf[ghostLock[p]] = p
         /\ \/ task[ghostLock[p]] = "none" /\ pc[ghostLock[p]] \in {"incr", "cold"}
            \/ task[ghostLock[p]] \in {"write", "release"}
<1> USE DEF Known
<1> DEFINE o == ghostLock[p]
<1>1. o \in Request /\ PrefixOf[o] = p
  BY DEF Base, TypeInv, TypeOK, LeakInv, KeyOfOwner
<1>2. Warming(o)
  BY DEF LeakInv, LockLeakCauses, Abandoned, RedisSound
<1>3. (pc[o] \in {"incr", "cold"} /\ task[o] # "none") => pc[o] = "incr"
  BY <1>1 DEF Base, Phases, Unrouted, Seeking, NoLookup
<1>4. pc[o] = "incr" => task[o] = "none"
  BY <1>1, <1>2 DEF Base, Phases, HitCounted, MissCounted, Warming, NoLookup
<1> QED BY <1>1, <1>2, <1>3, <1>4 DEF Warming

\* Only a warm-up task publishes a prefix that has no entry.
LEMMA PublishedBy ==
  ASSUME Known, RedisSound, [Next]_vars, NEW p \in Prefix,
         cacheMap[p] = NoEntry, cacheMap'[p] # NoEntry
  PROVE  \E t \in Request : PrefixOf[t] = p /\ task[t] = "write" /\ task'[t] = "release"
<1> USE DEF Known, Base, TypeInv, TypeOK
<1>0. \A t \in Request : pc[t] = "touch" => PrefixOf[t] # p
  BY DEF BeforeLock, TouchesOld, Published
<1>1. ASSUME NEW t \in Request, HandlerStep(t) PROVE FALSE
  <2>1. CASE Touch(t) \/ LookupFails(t) \/ AcquireFails(t) \/ Incr(t)
    BY <1>0, <2>1, PrefixAssumption DEF Touch, LookupFails, AcquireFails, Incr, CommandLands,
       WriteBack, StoreEntry
  <2>2. CASE UNCHANGED cacheMap
    BY <2>2
  <2> QED BY <1>1, <2>1, <2>2 DEF HandlerStep, RejectBody, ProxyRaw, StartLookup,
        GetHit, GetMiss, AcquireLock, LockContended, Backoff, GiveUp,
        CheckLocked, CheckReleased, CheckFails, RouteCold, FirstByte, ForwardFails, Relay
<1>2. ASSUME NEW t \in Request, TaskStep(t)
      PROVE  PrefixOf[t] = p /\ task[t] = "write" /\ task'[t] = "release"
  BY <1>2, PrefixAssumption DEF TaskStep, TaskWrite, TaskRelease, TaskReleaseFails, WriteEntry,
     StoreEntry, AfterWrite
<1>3. ASSUME NEW t \in Request, Cancel(t) PROVE FALSE
  BY <1>0, <1>3, PrefixAssumption DEF Cancel, CommandLands, WriteBack, StoreEntry
<1>4. ASSUME NEW s \in Sidecar, Crash(s) PROVE FALSE
  BY <1>4 DEF Crash
<1>5. ASSUME NEW q \in Prefix, LockExpire(q) \/ EntryExpire(q) PROVE FALSE
  BY <1>5 DEF LockExpire, EntryExpire, StoreEntry
<1> QED BY <1>1, <1>2, <1>3, <1>4, <1>5 DEF Next

----------------------------------------------------------------------------
(* The time a prefix still needs, and the time its waiters have left.      *)

\* Somebody of the prefix is about to ask for the lock.
Incoming(p) == \E t \in Request : PrefixOf[t] = p /\ pc[t] = "acquire"

\* The ticks until the lock owner's write.
Needs(p) ==
  IF LockFree(p) THEN 0
  ELSE IF task[ghostLock[p]] = "none" THEN WarmTicks
  ELSE IF task[ghostLock[p]] = "write" THEN warmup[ghostLock[p]] ELSE 0

\* Another winner may yet follow the present one.
Second(p) ==
  \/ cacheMap[p] = NoEntry
  \/ Incoming(p) /\ (LockFree(p) \/ task[ghostLock[p]] = "release")

Debt(p) == Needs(p) + (IF Second(p) THEN WarmTicks ELSE 0)

\* There is a warm-up, or one to come, that a waiter has to outlast.
Owed(p) == IF LockFree(p) THEN Incoming(p) ELSE ~Abandoned(ghostLock[p])

\* The ticks of sleep a waiter has behind it when its present sleep ends.
Slept(w) == Patience(IF pc[w] = "backoff" THEN attempt[w] + 1 ELSE attempt[w])

Outlasts(w) == Patience(RetryMax) + backoff[w] > Slept(w) + Debt(PrefixOf[w])

\* A warm-up due to write a prefix that is already published is its last one.
LastWinner(p) ==
  (/\ ~LockFree(p) /\ cacheMap[p] # NoEntry
   /\ task[ghostLock[p]] = "write" /\ warmup[ghostLock[p]] = 0) => ~Incoming(p)

PatientPrefix(p) ==
  Fresh(p) =>
    /\ LastWinner(p)
    /\ Owed(p) => \A w \in Request : (PrefixOf[w] = p /\ pc[w] \in Waiting) => Outlasts(w)

PatienceInv == (prompt /\ RedisSound) => \A p \in Prefix : PatientPrefix(p)

DebtBounded == \A p \in Prefix : Debt(p) \in 0 .. 2 * WarmTicks

LEMMA DebtBound == Base /\ TimersOK => DebtBounded
<1> SUFFICES ASSUME Base, TimersOK, NEW p \in Prefix PROVE Debt(p) \in 0 .. 2 * WarmTicks
  BY DEF DebtBounded
<1>1. Needs(p) \in 0 .. WarmTicks
  <2>1. ~LockFree(p) => warmup[ghostLock[p]] \in 0 .. WarmTicks
    BY DEF Base, TypeInv, TypeOK, TimersOK
  <2> QED BY <2>1, WarmTicksAssumption DEF Needs
<1> QED BY <1>1, WarmTicksAssumption DEF Debt

\* Nobody sets out for the lock of a published prefix.
LEMMA IncomingBack ==
  ASSUME Base, [Next]_vars, NEW p \in Prefix, cacheMap[p] # NoEntry, Incoming(p)'
  PROVE  Incoming(p)
<1> USE DEF Base, TypeInv, TypeOK
<1>1. PICK t \in Request : PrefixOf[t] = p /\ pc'[t] = "acquire"
  BY DEF Incoming
<1>2. ~HandlerStep(t)
  <2>1. ~GetMiss(t) BY <1>1 DEF GetMiss
  <2>2. ~(RejectBody(t) \/ ProxyRaw(t) \/ StartLookup(t) \/ GetHit(t) \/ LookupFails(t)
          \/ AcquireLock(t) \/ Touch(t))
    BY <1>1 DEF RejectBody, ProxyRaw, StartLookup, GetHit, LookupFails, AcquireLock, Touch, AfterHit
  <2>3. ~(LockContended(t) \/ AcquireFails(t) \/ Backoff(t) \/ GiveUp(t) \/ CheckLocked(t)
          \/ CheckReleased(t) \/ CheckFails(t))
    BY <1>1 DEF LockContended, AcquireFails, Backoff, GiveUp, CheckLocked, CheckReleased, CheckFails
  <2>4. ~(Incr(t) \/ RouteCold(t) \/ FirstByte(t) \/ ForwardFails(t) \/ Relay(t))
    BY <1>1 DEF Incr, RouteCold, FirstByte, ForwardFails, Relay
  <2> QED BY <2>1, <2>2, <2>3, <2>4 DEF HandlerStep
<1>3. pc[t] = "acquire"
  <2>1. CASE TaskStep(t) \/ Cancel(t)
    BY <1>1, <2>1 DEF TaskStep, TaskWrite, TaskRelease, TaskReleaseFails, Cancel
  <2>2. CASE ~TaskStep(t) /\ ~Cancel(t)
    BY <1>1, <1>2, <2>2, Elsewhere DEF Stopped
  <2> QED BY <2>1, <2>2
<1> QED BY <1>1, <1>3 DEF Incoming

LEMMA AbandonedStays ==
  ASSUME Base, [Next]_vars, NEW o \in Request, Abandoned(o)
  PROVE  Abandoned(o)'
BY GoneStays, EndedStays DEF Abandoned

\* The course of a warm-up task when Redis does not fail.
LEMMA TaskMoves ==
  ASSUME Base, [Next]_vars, "redis" \notin Env, NEW r \in Request
  PROVE  /\ task[r] = "none" => task'[r] \in {"none", "write"}
         /\ task[r] = "write" => task'[r] \in {"write", "release", "lost"}
         /\ task[r] = "release" => \/ task'[r] \in {"release", "lost"}
                                  \/ ghostLock'[PrefixOf[r]] = NoRequest
<1> USE DEF Base, TypeInv, TypeOK
<1>p. PrefixOf[r] \in Prefix BY PrefixAssumption
<1>1. CASE HandlerStep(r)
  <2>1. CASE RouteCold(r)
    BY <2>1 DEF RouteCold, Phases, Unrouted, NoLookup
  <2>2. CASE UNCHANGED task
    BY <2>2
  <2> QED BY <1>1, <2>1, <2>2 DEF HandlerStep, RejectBody, ProxyRaw, StartLookup,
        GetHit, GetMiss, Touch, LookupFails, AcquireLock, LockContended, AcquireFails, Backoff,
        GiveUp, CheckLocked, CheckReleased, CheckFails, Incr, FirstByte, ForwardFails, Relay
<1>2. CASE TaskStep(r) \/ Cancel(r)
  BY <1>p, <1>2 DEF TaskStep, TaskWrite, AfterWrite, TaskRelease, TaskReleaseFails,
     ReadyToRelease, Cancel
<1>3. CASE ~HandlerStep(r) /\ ~TaskStep(r) /\ ~Cancel(r)
  <2>1. CASE \E s \in Sidecar : Crash(s)
    BY <2>1 DEF Crash
  <2>2. CASE \E t \in Request \ {r} : HandlerStep(t) \/ TaskStep(t) \/ Cancel(t)
    <3>1. PICK t \in Request \ {r} : HandlerStep(t) \/ TaskStep(t) \/ Cancel(t) BY <2>2
    <3>2. task'[r] = task[r]
      <4>1. CASE RouteCold(t) BY <3>1, <4>1 DEF RouteCold
      <4>2. CASE TaskStep(t) \/ Cancel(t)
        BY <3>1, <4>2 DEF TaskStep, TaskWrite, TaskRelease, TaskReleaseFails, Cancel
      <4>3. CASE UNCHANGED task BY <4>3
      <4> QED BY <3>1, <4>1, <4>2, <4>3 DEF HandlerStep, RejectBody, ProxyRaw, StartLookup,
        GetHit, GetMiss, Touch, LookupFails, AcquireLock, LockContended, AcquireFails, Backoff,
        GiveUp, CheckLocked, CheckReleased, CheckFails, Incr, FirstByte, ForwardFails, Relay
    <3> QED BY <3>2
  <2>3. CASE \E q \in Prefix : LockExpire(q) \/ EntryExpire(q)
    BY <2>3 DEF LockExpire, EntryExpire
  <2>4. CASE UNCHANGED vars
    BY <2>4
  <2> QED BY <1>3, <2>1, <2>2, <2>3, <2>4 DEF Next
<1> QED BY <1>1, <1>2, <1>3

LEMMA KnownStep == Known /\ [Next]_vars => Known'
BY BaseStep, OwnerStep, LeakStep, SoundStep, BeforeLockStep DEF Known

\* A pipeline step never adds to what the waiters of a prefix have to outlast.
LEMMA DebtStep ==
  ASSUME Known, TimersOK, prompt, RedisSound, PipelineStep, NEW p \in Prefix,
         Fresh(p), LastWinner(p), Owed(p)', LockFree(p) => cacheMap[p] # NoEntry
  PROVE  Owed(p) /\ Debt(p)' <= Debt(p)
<1>n. [Next]_vars BY DEF PipelineStep
<1>k. Known' BY <1>n, KnownStep
<1> USE DEF Base, TypeInv, TypeOK
<1>b. Base BY DEF Known
<1>w. WarmTicks \in Nat /\ WarmDelay = WarmTicks BY WarmTicksAssumption DEF WarmDelay
<1>e. LockLasts /\ "redis" \notin Env BY DEF RedisSound, LockLasts
<1>c. cacheMap[p] # NoEntry => cacheMap'[p] # NoEntry
  BY <1>b, <1>n, EntryStays DEF RedisSound
<1>i. cacheMap[p] # NoEntry /\ Incoming(p)' => Incoming(p)
  BY <1>b, <1>n, IncomingBack
<1>1. CASE LockFree(p) /\ LockFree(p)'
  BY <1>1, <1>c, <1>i, <1>w DEF Owed, Debt, Needs, Second
<1>2. CASE LockFree(p) /\ ~LockFree(p)'
  <2>1. PICK t \in Request : SetBy(t, p)
    BY <1>2, <1>b, <1>n, <1>e, LockChange DEF DeletedBy
  <2>2. ghostLock'[p] = t /\ PrefixOf[t] = p BY <2>1 DEF SetBy
  <2>3. AcquireLock(t)
    BY <1>2, <1>e, <2>1, <2>2 DEF SetBy, Owed, Abandoned
  <2>4. Incoming(p) BY <2>2, <2>3 DEF AcquireLock, Incoming
  <2>5. task'[t] = "none"
    BY <1>b, <2>3 DEF AcquireLock, Phases, Unrouted, Seeking, NoLookup
  <2>6. Debt(p) = WarmTicks BY <1>2, <1>w, <2>4 DEF Debt, Needs, Second
  <2>7. Debt(p)' = WarmTicks
    BY <1>2, <1>c, <1>w, <2>2, <2>5 DEF Debt, Needs, Second
  <2> QED BY <1>2, <1>w, <2>4, <2>6, <2>7 DEF Owed
<1>3. CASE ~LockFree(p) /\ ghostLock'[p] # ghostLock[p]
  <2>1. PICK t \in Request : DeletedBy(t, p)
    BY <1>3, <1>b, <1>n, <1>e, LockChange DEF SetBy, RedisSound
  <2>2. PrefixOf[t] = p /\ LockFree(p)' /\ task[t] = "release" BY <2>1 DEF DeletedBy
  <2>3. ghostLock[p] = t BY <2>2, TaskOfOwner
  <2>4. ~Abandoned(t) BY <2>2 DEF Abandoned
  <2>5. cacheMap[p] # NoEntry
    BY <2>2 DEF Known, SoundInv, WrittenFirst, Published
  <2>6. Needs(p) = 0 /\ Needs(p)' = 0 BY <1>3, <2>2, <2>3 DEF Needs
  <2>7. Second(p)' => Second(p) BY <1>c, <1>i, <2>2, <2>3, <2>5 DEF Second
  <2> QED BY <1>3, <1>w, <2>3, <2>4, <2>6, <2>7 DEF Owed, Debt
<1>4. CASE ~LockFree(p) /\ ghostLock'[p] = ghostLock[p]
  <2> DEFINE o == ghostLock[p]
  <2>1. ~Abandoned(o)' BY <1>4 DEF Owed
  <2>2. ~Abandoned(o) BY <1>4, <1>b, <1>n, <2>1, AbandonedStays
  <2>3. /\ o \in Request /\ PrefixOf[o] = p
        /\ task[o] \in {"none", "write", "release"}
    BY <1>4, <2>2, OwnerOnItsWay
  <2>4. task'[o] # "lost" BY <1>4, <2>1 DEF Abandoned
  <2>5. Second(p)' => Second(p) \/ (task'[o] = "release" /\ task[o] # "release")
    <3>1. CASE cacheMap[p] = NoEntry BY <3>1 DEF Second
    <3>2. CASE cacheMap[p] # NoEntry
      BY <1>4, <1>c, <1>i, <3>2 DEF Second
    <3> QED BY <3>1, <3>2
  <2>6. CASE task[o] = "none"
    <3>1. task'[o] \in {"none", "write"} BY <1>b, <1>e, <1>n, <2>3, <2>6, TaskMoves
    <3>2. task'[o] = "write" => warmup'[o] = WarmTicks
      BY <1>w, <2>3, <2>6 DEF PipelineStep, TimersSet
    <3>3. Needs(p) = WarmTicks /\ Needs(p)' = WarmTicks
      BY <1>4, <2>6, <3>1, <3>2 DEF Needs
    <3> QED BY <1>4, <1>w, <2>2, <2>5, <3>1, <3>3 DEF Owed, Debt
  <2>7. CASE task[o] = "write" /\ task'[o] = "write"
    <3>1. warmup'[o] = warmup[o] BY <2>3, <2>7 DEF PipelineStep, TimersSet
    <3>2. Needs(p) = warmup[o] /\ Needs(p)' = warmup[o] /\ warmup[o] \in Nat
      BY <1>4, <1>w, <2>3, <2>7, <3>1 DEF Needs, TimersOK
    <3> QED BY <1>4, <1>w, <2>2, <2>5, <2>7, <3>2 DEF Owed, Debt
  <2>8. CASE task[o] = "write" /\ task'[o] = "release"
    <3>1. warmup[o] = 0 BY <2>3, <2>8 DEF PipelineStep, SleepsKept
    <3>2. Needs(p) = 0 /\ Needs(p)' = 0 BY <1>4, <2>8, <3>1 DEF Needs
    <3>3. cacheMap'[p] # NoEntry
      BY <1>k, <2>3, <2>8 DEF Known, SoundInv, WrittenFirst, Published, RedisSound
    <3>4. Second(p)' => Second(p)
      BY <1>4, <1>i, <2>8, <3>1, <3>3 DEF Second, LastWinner
    <3> QED BY <1>4, <1>w, <2>2, <3>2, <3>4 DEF Owed, Debt
  <2>9. CASE task[o] = "release" /\ task'[o] = "release"
    BY <1>4, <1>w, <2>2, <2>5, <2>9 DEF Owed, Debt, Needs
  <2> QED BY <1>4, <1>b, <1>e, <1>n, <2>3, <2>4, <2>6, <2>7, <2>8, <2>9, TaskMoves
<1> QED BY <1>1, <1>2, <1>3, <1>4

\* A waiter goes on waiting with the time it had left, or begins with all of it.
LEMMA WaiterStep ==
  ASSUME Known, TimersOK, prompt, RedisSound, PipelineStep, NEW w \in Request,
         pc'[w] \in Waiting, Fresh(PrefixOf[w])'
  PROVE  \/ pc[w] \in Waiting /\ backoff'[w] + Slept(w) = backoff[w] + Slept(w)'
         \/ pc[w] = "acquire" /\ ~LockFree(PrefixOf[w]) /\ backoff'[w] = Slept(w)'
<1>n. [Next]_vars BY DEF PipelineStep
<1>b. Base BY DEF Known
<1>k. Base' BY <1>b, <1>n, BaseStep
<1> USE DEF Base, TypeInv, TypeOK
<1>t. /\ attempt[w] \in Nat /\ attempt'[w] \in Nat /\ RetryMax \in Nat
      /\ attempt'[w] <= RetryMax
  BY <1>b, <1>k, RetryAssumption
<1>l. ~lockAcquired'[w] BY <1>k DEF Phases, Seeking, Waiting
<1>m. /\ pc'[w] = "backoff" /\ pc[w] # "backoff" => backoff'[w] = Sleep(attempt'[w])
      /\ pc'[w] = "backoff" /\ pc[w] = "backoff" => backoff'[w] = backoff[w]
      /\ pc'[w] # "backoff" => backoff'[w] = 0
      /\ pc[w] # "backoff" => backoff[w] = 0
      /\ pc[w] = "backoff" /\ pc'[w] = "check" => backoff[w] = 0
  BY DEF PipelineStep, TimersSet, SleepsKept, TimersOK
<1>s. pc'[w] = "backoff" =>
        Sleep(attempt'[w]) + Patience(attempt'[w]) = Patience(attempt'[w] + 1)
  <2> SUFFICES ASSUME pc'[w] = "backoff"
               PROVE  Sleep(attempt'[w]) + Patience(attempt'[w]) = Patience(attempt'[w] + 1)
    OBVIOUS
  <2>1. attempt'[w] # RetryMax BY <1>l DEF Fresh, Exhausted
  <2>2. ~RetriesExhausted(attempt'[w]) BY <1>t, <2>1 DEF RetriesExhausted
  <2>3. Sleep(attempt'[w]) = BackoffTicks(attempt'[w]) BY <2>2 DEF Sleep
  <2> QED BY <1>t, <2>3, PatienceGrows
<1>1. CASE LockContended(w)
  <2>1. attempt'[w] = 0 BY <1>1 DEF LockContended, Known, BeforeLock, AsksFirst
  <2>2. Patience(0) = 0 BY DEF Patience
  <2>3. Slept(w)' = Patience(1) /\ Patience(1) = 1 BY <1>1, <1>b, <2>1 DEF LockContended, Slept, Patience
  <2>4. Sleep(0) = 1
    BY RetryAssumption DEF Sleep, RetriesExhausted, BackoffTicks
  <2> QED BY <1>1, <1>b, <1>m, <2>1, <2>3, <2>4 DEF LockContended
<1>2. CASE Backoff(w)
  <2>1. pc[w] = "backoff" /\ pc'[w] = "check" /\ attempt'[w] = attempt[w] + 1
    BY <1>2, <1>b DEF Backoff, NextAttempt
  <2> QED BY <1>m, <2>1 DEF Slept, Waiting
<1>3. CASE CheckLocked(w)
  <2>1. pc[w] = "check" /\ pc'[w] = "backoff" /\ attempt'[w] = attempt[w]
    BY <1>3, <1>b DEF CheckLocked
  <2>2. Slept(w) = Patience(attempt'[w]) /\ Slept(w)' = Patience(attempt'[w] + 1)
    BY <2>1 DEF Slept
  <2>3. backoff'[w] = Sleep(attempt'[w]) /\ backoff[w] = 0 BY <1>m, <2>1
  <2>4. Patience(attempt'[w] + 1) \in Nat
    BY <1>t, PatienceGrows
  <2> QED BY <1>s, <2>1, <2>2, <2>3, <2>4 DEF Waiting
<1>4. CASE pc'[w] = pc[w] /\ attempt'[w] = attempt[w]
  <2>1. Slept(w)' = Slept(w) BY <1>4 DEF Slept
  <2>2. backoff'[w] = backoff[w] BY <1>4, <1>m DEF Waiting
  <2> QED BY <1>4, <2>1, <2>2
<1>5. CASE HandlerStep(w)
  <2>1. ~(RejectBody(w) \/ ProxyRaw(w) \/ StartLookup(w) \/ GetHit(w) \/ GetMiss(w)
          \/ Touch(w) \/ AcquireLock(w))
    BY <1>b DEF RejectBody, ProxyRaw, StartLookup, GetHit, GetMiss, Touch, AfterHit, AcquireLock, Waiting
  <2>2. ~(GiveUp(w) \/ CheckReleased(w) \/ Incr(w) \/ RouteCold(w) \/ FirstByte(w)
          \/ ForwardFails(w) \/ Relay(w))
    BY <1>b DEF GiveUp, CheckReleased, Incr, RouteCold, FirstByte, ForwardFails, Relay, Waiting
  <2>3. ~(LookupFails(w) \/ AcquireFails(w) \/ CheckFails(w))
    BY DEF RedisSound, LookupFails, AcquireFails, CheckFails
  <2> QED BY <1>1, <1>2, <1>3, <1>5, <2>1, <2>2, <2>3 DEF HandlerStep
<1>6. CASE TaskStep(w) \/ Cancel(w)
  <2>1. pc'[w] = pc[w] /\ attempt'[w] = attempt[w]
    BY <1>6, <1>b DEF TaskStep, TaskWrite, TaskRelease, TaskReleaseFails, Cancel, Waiting
  <2> QED BY <1>4, <2>1
<1>7. CASE ~HandlerStep(w) /\ ~TaskStep(w) /\ ~Cancel(w)
  <2>1. pc'[w] = pc[w] /\ attempt'[w] = attempt[w]
    BY <1>7, <1>b, <1>n, Elsewhere DEF Stopped, Waiting
  <2> QED BY <1>4, <2>1
<1> QED BY <1>5, <1>6, <1>7

LEMMA LastWinnerStep ==
  ASSUME Known, TimersOK, prompt, RedisSound, PipelineStep, WarmTicks > 0, NEW p \in Prefix,
         Fresh(p), LastWinner(p)
  PROVE  LastWinner(p)'
<1>n. [Next]_vars BY DEF PipelineStep
<1> USE DEF Base, TypeInv, TypeOK
<1>b. Base /\ Base' BY <1>n, KnownStep DEF Known
<1>e. LockLasts /\ "redis" \notin Env BY DEF RedisSound, LockLasts
<1> SUFFICES ASSUME ~LockFree(p)', cacheMap'[p] # NoEntry, NEW o \in Request,
                    o = ghostLock'[p], task'[o] = "write", warmup'[o] = 0
             PROVE  ~Incoming(p)'
  BY <1>b DEF LastWinner
<1>1. task[o] = "write"
  <2>1. task[o] # "write" => warmup'[o] = WarmDelay BY DEF PipelineStep, TimersSet
  <2> QED BY <2>1, WarmTicksAssumption DEF WarmDelay
<1>2. warmup[o] = 0 BY <1>1 DEF PipelineStep, TimersSet
<1>3. ghostLock[p] = o
  <2> SUFFICES ASSUME ghostLock[p] # o PROVE FALSE
    OBVIOUS
  <2>1. PICK t \in Request : SetBy(t, p)
    BY <1>b, <1>e, <1>n, LockChange DEF DeletedBy
  <2>2. t = o BY <2>1 DEF SetBy
  <2>3. AcquireLock(o) \/ task'[o] = "none" BY <1>e, <2>1, <2>2 DEF SetBy
  <2> QED BY <1>b, <1>1, <2>3 DEF AcquireLock, Phases, Unrouted, Seeking, NoLookup
<1>4. cacheMap[p] # NoEntry
  <2> SUFFICES ASSUME cacheMap[p] = NoEntry PROVE FALSE
    OBVIOUS
  <2>1. PICK t \in Request : PrefixOf[t] = p /\ task[t] = "write" /\ task'[t] = "release"
    BY <1>n, PublishedBy
  <2> QED BY <1>3, <2>1, TaskOfOwner
<1>5. ~Incoming(p) BY <1>1, <1>2, <1>3, <1>4, NoRequestAssumption DEF LastWinner
<1> QED BY <1>b, <1>n, <1>4, <1>5, IncomingBack

\* The pipeline: nobody's remaining time falls below what is still owed.
LEMMA PatiencePipeline ==
  ASSUME PatienceAssumption, Known, TimersOK, prompt, RedisSound, PipelineStep,
         NEW p \in Prefix, PatientPrefix(p)
  PROVE  PatientPrefix(p)'
<1>n. [Next]_vars BY DEF PipelineStep
<1>k. Known' /\ TimersOK'
  <2>1. [TimedNext]_timedVars BY DEF TimedNext
  <2> QED BY <1>n, <2>1, KnownStep, TimersStep DEF Known
<1> USE DEF Base, TypeInv, TypeOK
<1>b. Base /\ Base' BY <1>k DEF Known
<1>d. Debt(p)' \in 0 .. 2 * WarmTicks
  <2>1. Base' /\ TimersOK' => DebtBounded' BY DebtBound, PTL
  <2> QED BY <1>b, <1>k, <2>1 DEF DebtBounded
<1> SUFFICES ASSUME Fresh(p)' PROVE PatientPrefix(p)'
  BY DEF PatientPrefix
<1>1. Fresh(p) BY <1>b, <1>n, FreshBack DEF Known
<1>2. LastWinner(p) BY <1>1 DEF PatientPrefix
<1>3. LastWinner(p)' BY <1>1, <1>2, LastWinnerStep DEF PatienceAssumption
<1>4. ASSUME Owed(p)', NEW w \in Request, PrefixOf[w] = p, pc'[w] \in Waiting
      PROVE  Outlasts(w)'
  <2>1. CASE pc[w] \in Waiting /\ backoff'[w] + Slept(w) = backoff[w] + Slept(w)'
    <3>1. LockFree(p) => cacheMap[p] # NoEntry
      BY <1>4, <2>1 DEF Known, SoundInv, WaitsForOne, Published
    <3>2. Owed(p) /\ Debt(p)' <= Debt(p) BY <1>1, <1>2, <1>4, <3>1, DebtStep
    <3>3. Patience(RetryMax) + backoff[w] > Slept(w) + Debt(p)
      BY <1>1, <1>4, <2>1, <3>2 DEF PatientPrefix, Outlasts
    <3>4. /\ Slept(w) \in Nat /\ Slept(w)' \in Nat /\ Patience(RetryMax) \in Nat
          /\ backoff[w] \in Nat /\ backoff'[w] \in Nat
          /\ Debt(p) \in Nat /\ Debt(p)' \in Nat
      <4>1. Debt(p) \in Nat BY <1>b, DebtBound, WarmTicksAssumption DEF DebtBounded
      <4>2. Debt(p)' \in 0 .. 2 * WarmTicks BY <1>d
      <4>3. attempt[w] \in Nat /\ attempt'[w] \in Nat /\ RetryMax \in Nat
        BY <1>b, RetryAssumption
      <4>4. Slept(w) \in Nat /\ Slept(w)' \in Nat BY <4>3, PatienceGrows DEF Slept
      <4> QED BY <1>k, <4>1, <4>2, <4>3, <4>4, PatienceGrows, WarmTicksAssumption DEF TimersOK
    <3> QED BY <1>4, <2>1, <3>2, <3>3, <3>4 DEF Outlasts
  <2>2. CASE backoff'[w] = Slept(w)'
    <3>1. Debt(p)' \in 0 .. 2 * WarmTicks BY <1>d
    <3>2. backoff'[w] \in Nat /\ Patience(RetryMax) \in Nat
      BY <1>k, RetryAssumption, PatienceGrows DEF TimersOK
    <3> QED BY <1>4, <2>2, <3>1, <3>2, WarmTicksAssumption DEF Outlasts, PatienceAssumption
  <2> QED BY <1>4, <2>1, <2>2, WaiterStep
<1> QED BY <1>3, <1>4 DEF PatientPrefix

\* A tick takes one from every waiter's sleep and one from the warm-up's.
LEMMA PatienceTick ==
  ASSUME PatienceAssumption, Known, TimersOK, RedisSound, Elapse,
         NEW p \in Prefix, PatientPrefix(p)
  PROVE  PatientPrefix(p)'
<1> USE DEF Base, TypeInv, TypeOK
<1>u. UNCHANGED vars BY DEF Elapse
<1>b. Base BY DEF Known
<1>i. ~Incoming(p) /\ ~Incoming(p)'
  <2>1. \A t \in Request : pc[t] # "acquire" BY DEF Elapse, Due
  <2> QED BY <1>u, <2>1 DEF Incoming
<1> SUFFICES ASSUME Fresh(p)', Owed(p)', NEW w \in Request, PrefixOf[w] = p, pc'[w] \in Waiting
             PROVE  Outlasts(w)'
  BY <1>i DEF PatientPrefix, LastWinner
<1>1. Fresh(p) BY <1>u DEF Fresh, Exhausted
<1> DEFINE o == ghostLock[p]
<1>2. ~LockFree(p) /\ ~Abandoned(o)
  BY <1>i, <1>u DEF Owed, Abandoned
<1>3. o \in Request /\ task[o] = "write" /\ warmup[o] # 0
  <2>1. pc[o] \notin {"incr", "cold"} /\ task[o] # "release" /\ ~(task[o] = "write" /\ warmup[o] = 0)
    BY <1>2, OwnerOnItsWay DEF Elapse, Due
  <2> QED BY <1>2, <2>1, OwnerOnItsWay
<1>4. warmup[o] \in Nat /\ warmup'[o] = warmup[o] - 1
  <2>1. warmup[o] \in 0 .. WarmTicks BY <1>3 DEF TimersOK
  <2> QED BY <1>3, <2>1, WarmTicksAssumption DEF Elapse, OneLess
<1>5. pc[w] = "backoff" /\ backoff[w] \in Nat /\ backoff[w] # 0 /\ backoff'[w] = backoff[w] - 1
  <2>1. pc[w] = "backoff" /\ backoff[w] # 0
    BY <1>u DEF Elapse, Due, Waiting
  <2>2. backoff[w] \in Nat BY DEF TimersOK
  <2> QED BY <2>1, <2>2 DEF Elapse, OneLess
<1>6. Slept(w)' = Slept(w) BY <1>u DEF Slept
<1>7. Debt(p) \in Nat /\ Debt(p)' = Debt(p) - 1
  <2>1. Needs(p) = warmup[o] /\ Needs(p)' = warmup'[o]
    BY <1>2, <1>3, <1>u DEF Needs
  <2>2. Second(p)' <=> Second(p) BY <1>i, <1>u DEF Second
  <2> QED BY <1>4, <2>1, <2>2, WarmTicksAssumption DEF Debt
<1>8. Patience(RetryMax) + backoff[w] > Slept(w) + Debt(p)
  BY <1>1, <1>2, <1>u DEF PatientPrefix, Owed, Outlasts
<1>9. Slept(w) \in Nat /\ Patience(RetryMax) \in Nat
  <2>1. attempt[w] \in Nat /\ RetryMax \in Nat BY <1>b, RetryAssumption
  <2> QED BY <2>1, PatienceGrows DEF Slept
<1> QED BY <1>5, <1>6, <1>7, <1>8, <1>9 DEF Outlasts

LEMMA PatienceInit == TimedInit => PatienceInv
<1> SUFFICES ASSUME TimedInit, NEW p \in Prefix PROVE PatientPrefix(p)
  BY DEF PatienceInv
<1>1. \A r \in Request : pc[r] = "idle" BY DEF TimedInit, Init
<1> QED BY <1>1 DEF PatientPrefix, LastWinner, Incoming, Waiting

LEMMA PatienceStep ==
  PatienceAssumption /\ Known /\ TimersOK /\ PatienceInv /\ [TimedNext]_timedVars => PatienceInv'
<1> SUFFICES ASSUME PatienceAssumption, Known, TimersOK, PatienceInv, [TimedNext]_timedVars,
                    prompt', RedisSound, NEW p \in Prefix
             PROVE  PatientPrefix(p)'
  BY DEF PatienceInv, RedisSound
<1>1. prompt
  <2>1. UNCHANGED prompt
    BY DEF TimedNext, PipelineStep, TimersSet, Elapse, timedVars, timers
  <2> QED BY <2>1
<1>2. PatientPrefix(p) BY <1>1 DEF PatienceInv
<1>3. CASE PipelineStep BY <1>1, <1>2, <1>3, PatiencePipeline
<1>4. CASE Elapse BY <1>2, <1>4, PatienceTick
<1>5. CASE UNCHANGED timedVars
  BY <1>2, <1>5 DEF timedVars, timers, PatientPrefix, Fresh, Exhausted, LastWinner, Incoming, Owed,
     Abandoned, Outlasts, Slept, Debt, Needs, Second
<1> QED BY <1>3, <1>4, <1>5 DEF TimedNext

\* The first waiter of a prefix to run out of retries has waited on a lock nobody
\* is going to delete: any GHOST_LOCK_RETRY_MAX whose back-offs add up to more
\* than two warm-up delays will do (the code's 8 back-offs are 191 ticks, its
\* delay 4), for any number of requests and sidecars, dropped or crashed at will.
THEOREM PatienceHolds == PatienceAssumption /\ TimedSpec => PatienceSuffices
<1> SUFFICES ASSUME PatienceAssumption PROVE TimedSpec => PatienceSuffices
  OBVIOUS
<1> DEFINE Inv == Known /\ TimersOK /\ PatienceInv
<1>1. TimedInit => Inv
  <2>1. Init => Known
    <3>1. Init => BeforeLock
      BY DEF Init, BeforeLock, AsksFirst, TouchesOld
    <3> QED BY <3>1, BaseInit, OwnerInit, LeakInit, SoundInit DEF Known
  <2> QED BY <2>1, TimersInit, PatienceInit DEF TimedInit
<1>2. Inv /\ [TimedNext]_timedVars => Inv'
  BY TimedStep, KnownStep, TimersStep, PatienceStep DEF Known
<1>3. Inv /\ [TimedNext]_timedVars =>
        [(prompt /\ RedisSound) =>
           \A w \in Request :
             (RunsOut(w) /\ \A t \in OthersOf(w) : ~Exhausted(t))
               => Abandoned(ghostLock[PrefixOf[w]])]_timedVars
  <2> SUFFICES ASSUME Inv, [TimedNext]_timedVars, prompt, RedisSound, NEW w \in Request,
                      RunsOut(w), \A t \in OthersOf(w) : ~Exhausted(t),
                      ~Abandoned(ghostLock[PrefixOf[w]])
               PROVE  FALSE
    OBVIOUS
  <2> DEFINE p == PrefixOf[w]
  <2>p. p \in Prefix BY PrefixAssumption
  <2>b. Base BY DEF Known
  <2>n. [Next]_vars BY TimedStep
  <2>1. pc[w] = "check" /\ pc'[w] = "backoff" BY DEF RunsOut
  <2>2. attempt[w] = RetryMax
    BY <2>b, SpentIsMax DEF RunsOut, Base, TypeInv, TypeOK
  <2>3. Fresh(p) BY <2>1 DEF Fresh, OthersOf
  <2>4. ~LockFree(p)
    <3>1. HandlerStep(w) \/ TaskStep(w) \/ Cancel(w)
      BY <2>1, <2>b, <2>n, Elsewhere DEF Stopped
    <3>2. CheckLocked(w)
      BY <2>1, <2>b, <3>1, OwnSteps DEF RedisSound, RejectBody, ProxyRaw, StartLookup, GetHit, GetMiss,
         Touch, AcquireLock, LockContended, Backoff, GiveUp, CheckReleased, Incr, RouteCold, FirstByte,
         ForwardFails, Relay, TaskWrite, TaskRelease, Cancel, Base, TypeInv, TypeOK
    <3> QED BY <3>2 DEF CheckLocked
  <2>5. Patience(RetryMax) + backoff[w] > Slept(w) + Debt(p)
    BY <2>1, <2>3, <2>4, <2>p DEF PatienceInv, PatientPrefix, Owed, Outlasts, Waiting
  <2>6. backoff[w] = 0 /\ Slept(w) = Patience(RetryMax)
    BY <2>1, <2>2 DEF TimersOK, Slept
  <2>7. Debt(p) \in Nat BY <2>b, <2>p, DebtBound, WarmTicksAssumption DEF DebtBounded
  <2>8. Patience(RetryMax) \in Nat BY RetryAssumption, PatienceGrows
  <2> QED BY <2>5, <2>6, <2>7, <2>8
<1> QED BY <1>1, <1>2, <1>3, PTL DEF TimedSpec, PatienceSuffices

=============================================================================
