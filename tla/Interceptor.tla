---------------------------- MODULE Interceptor ----------------------------
(***************************************************************************)
(* The sidecar's request pipeline (sidecar/src/interceptor.rs) over the    *)
(* shared Redis keys it reads and writes (sidecar/src/redis_client.rs).    *)
(*                                                                         *)
(* Every request runs `intercept_handler` as its own tokio task, on one of *)
(* several sidecars; all of them share Redis.  One action is the code      *)
(* between two `.await`s with the Redis or upstream call that ends it, so  *)
(* that any interleaving of handlers, of the detached warm-up tasks they   *)
(* spawn, of failures and of key expiry is a behaviour of the model.       *)
(*                                                                         *)
(* `Env` names what may go wrong around the handlers:                      *)
(*   "redis"     a Redis call fails, with or without its effect applied    *)
(*   "cancel"    a handler future is dropped (TimeoutLayer, client gone)   *)
(*   "crash"     a sidecar process stops                                   *)
(*   "lock_ttl"  the 30 s EX of a ghost_lock key elapses                   *)
(*   "entry_ttl" the EX of a cache_map key elapses                         *)
(*   "lru"       Redis drops any key (maxmemory-policy allkeys-lru)        *)
(***************************************************************************)
EXTENDS Naturals, FiniteSets

CONSTANTS
  Request,     \* the requests of the run, each handled once
  Sidecar,     \* the sidecar processes
  Prefix,      \* the prefix hashes (H_prefix)
  Ip,          \* the addresses default_pod_ip may hold
  Pod,         \* the pods that may have a pod_load key
  DefaultPod,  \* the "default" of cold_miss_target
  PrefixOf,    \* the prefix hash of each request's blocks
  SidecarOf,   \* the sidecar each request arrives at
  DefaultIp,   \* cfg.default_pod_ip of each sidecar
  PolicyOf,    \* what infer_ttl_policy answers for the blocks of a prefix
  RetryMax,    \* GHOST_LOCK_RETRY_MAX
  Env,         \* the faults of this run
  NoRequest, NoEntry, NoIp

ASSUME RequestAssumption == IsFiniteSet(Request)
ASSUME PrefixAssumption  == PrefixOf \in [Request -> Prefix]
ASSUME SidecarAssumption == SidecarOf \in [Request -> Sidecar]
ASSUME IpAssumption      == DefaultIp \in [Sidecar -> Ip]
ASSUME RetryAssumption   == RetryMax \in Nat \ {0}
\* A crash with commands in flight is their loss (Cancel) and then the crash.
ASSUME EnvAssumption     ==
  /\ Env \subseteq {"redis", "cancel", "crash", "lock_ttl", "entry_ttl", "lru"}
  /\ "crash" \in Env => "cancel" \in Env
ASSUME NoRequestAssumption == NoRequest \notin Request

\* infer_ttl_policy never answers Sliding: a block list that is not all
\* System/Tools/User holds a Document (module PromptPrefix).
ASSUME PolicyAssumption  == PolicyOf \in [Prefix -> {"infinite", "fixed"}]

Entry == [ip : Ip, pod : Pod \cup {DefaultPod}, hits : Nat]

\* No key holds it: NoEntry is the nil reply of GET.
ASSUME NoEntryAssumption == NoEntry \notin Entry
ASSUME NoIpAssumption    == NoIp \notin Ip

VARIABLES
  pc,            \* where each handler is
  lookup,        \* its CacheLookupResult, or that it proxies raw
  found,         \* the entry its GET returned, until it is written back
  attempt,       \* the back-off counter of await_ghost_lock_release
  lockAcquired,  \* its local lock_acquired
  counted,       \* what its sidecar's MetricsRegistry recorded for it
  task,          \* the warm-up task it spawned
  cacheMap,      \* cache_map:{prefix}
  ttlArmed,      \* whether that key carries an EX
  ghostLock,     \* ghost_lock:{prefix}: the request whose SET NX created it;
                 \* the code stores "1" and only ever tests existence
  gcMetric       \* gc_metric:hits and gc_metric:misses

handlerVars == <<pc, lookup, found, attempt, lockAcquired, counted>>
redisVars   == <<cacheMap, ttlArmed, ghostLock, gcMetric>>
vars == <<handlerVars, task, redisVars>>

Waiting  == {"backoff", "check"}
Running  == {"get", "touch", "incr", "acquire", "cold", "forward", "stream"}
              \cup Waiting
Answered == {"relayed", "bad_gateway", "bad_request"}

Lookup == [kind : {"none", "raw", "hit", "miss"}, ip : Ip \cup {NoIp},
           pod : Pod \cup {DefaultPod}]
NoLookup  == [kind |-> "none", ip |-> NoIp, pod |-> DefaultPod]
RawLookup == [kind |-> "raw", ip |-> NoIp, pod |-> DefaultPod]

Init ==
  /\ pc = [r \in Request |-> "idle"]
  /\ lookup = [r \in Request |-> NoLookup]
  /\ found = [r \in Request |-> NoEntry]
  /\ attempt = [r \in Request |-> 0]
  /\ lockAcquired = [r \in Request |-> FALSE]
  /\ counted = [r \in Request |-> "no"]
  /\ task = [r \in Request |-> "none"]
  /\ cacheMap = [p \in Prefix |-> NoEntry]
  /\ ttlArmed = [p \in Prefix |-> FALSE]
  /\ ghostLock = [p \in Prefix |-> NoRequest]
  /\ gcMetric = [k \in {"hits", "misses"} |-> 0]

----------------------------------------------------------------------------
(* Helpers: the decisions and values of the handlers.                      *)

At(r, label) == pc[r] = label
Goto(r, label) == pc' = [pc EXCEPT ![r] = label]

\* A request that waited out a lock looks up again; the first lookup did not.
FirstLookup(r) == attempt[r] = 0

\* (Operators named Slip... are mutated forms of the definition that follows:
\* the mistakes the properties below are meant to exclude.)
SlipOffByOne(n) == n > RetryMax
RetriesExhausted(n) == n >= RetryMax

SlipNotCounted(n) == n
NextAttempt(n) == n + 1

LockFree(p) == ghostLock[p] = NoRequest

SlipWithoutNx(p) == TRUE
SetNxAccepts(p) == LockFree(p)

LockTaken(r) == ghostLock' = [ghostLock EXCEPT ![PrefixOf[r]] = r]
LockDeleted(p) == ghostLock' = [ghostLock EXCEPT ![p] = NoRequest]

\* The SET of `lookup` carries no EX: the key's TTL is gone afterwards.
ArmedAfterTouch(p) == FALSE
SlipAlwaysArmed(p) == TRUE
ArmedAfterWrite(p) == PolicyOf[p] = "fixed"

Touched(e) == [e EXCEPT !.hits = @ + 1]

\* The pod_ip is the sidecar's own default, whichever pod was picked.
ColdIp(r) == DefaultIp[SidecarOf[r]]

SlipKeyWithoutPrefix(p, e, armed) ==
  /\ cacheMap' = [q \in Prefix |-> e]
  /\ ttlArmed' = [ttlArmed EXCEPT ![p] = armed]
StoreEntry(p, e, armed) ==
  /\ cacheMap' = [cacheMap EXCEPT ![p] = e]
  /\ ttlArmed' = [ttlArmed EXCEPT ![p] = armed]

Count(r, what) == counted' = [counted EXCEPT ![r] = what]
Bumped(k) == [gcMetric EXCEPT ![k] = @ + 1]

\* What a counted request adds to in Redis.
MetricOf(r) == IF counted[r] = "hit" THEN "hits" ELSE "misses"

\* Only a first lookup that hits is also counted in Redis.
SlipCountsRetries(r) == "incr"
AfterHit(r) == IF FirstLookup(r) THEN "incr" ELSE "forward"

----------------------------------------------------------------------------
(* The handler.                                                            *)

\* to_bytes failed: 400 before anything is looked up.
RejectBody(r) ==
  /\ At(r, "idle")
  /\ Goto(r, "bad_request")
  /\ UNCHANGED <<lookup, found, attempt, lockAcquired, counted, task, redisVars>>

\* extract_prompt_blocks failed: proxied to cfg.upstream_url, no caching.
ProxyRaw(r) ==
  /\ At(r, "idle")
  /\ Goto(r, "forward")
  /\ lookup' = [lookup EXCEPT ![r] = RawLookup]
  /\ UNCHANGED <<found, attempt, lockAcquired, counted, task, redisVars>>

StartLookup(r) ==
  /\ At(r, "idle")
  /\ Goto(r, "get")
  /\ UNCHANGED <<lookup, found, attempt, lockAcquired, counted, task, redisVars>>

\* `lookup`: GET, and on a value a SET of that value with one more hit.
GetHit(r) ==
  /\ At(r, "get")
  /\ cacheMap[PrefixOf[r]] # NoEntry
  /\ found' = [found EXCEPT ![r] = cacheMap[PrefixOf[r]]]
  /\ Goto(r, "touch")
  /\ UNCHANGED <<lookup, attempt, lockAcquired, counted, task, redisVars>>

GetMiss(r) ==
  /\ At(r, "get")
  /\ cacheMap[PrefixOf[r]] = NoEntry
  /\ Goto(r, IF FirstLookup(r) THEN "acquire" ELSE "cold")
  /\ UNCHANGED <<lookup, found, attempt, lockAcquired, counted, task, redisVars>>

WriteBack(r) ==
  StoreEntry(PrefixOf[r], Touched(found[r]), ArmedAfterTouch(PrefixOf[r]))

\* A write whose reply the handler never sees, because the connection failed
\* or the future was dropped, may have reached Redis all the same.
CommandLands(r) ==
  \/ /\ At(r, "touch")
     /\ WriteBack(r)
     /\ UNCHANGED <<ghostLock, gcMetric>>
  \/ /\ At(r, "acquire")
     /\ SetNxAccepts(PrefixOf[r])
     /\ LockTaken(r)
     /\ UNCHANGED <<cacheMap, ttlArmed, gcMetric>>
  \/ /\ At(r, "incr")
     /\ gcMetric' = Bumped(MetricOf(r))
     /\ UNCHANGED <<cacheMap, ttlArmed, ghostLock>>

\* Ok(Some(entry)): record_hit at once; only a first lookup also does INCR.
Touch(r) ==
  /\ At(r, "touch")
  /\ WriteBack(r)
  /\ lookup' = [lookup EXCEPT ![r] =
                  [kind |-> "hit", ip |-> found[r].ip, pod |-> found[r].pod]]
  /\ found' = [found EXCEPT ![r] = NoEntry]
  /\ Count(r, "hit")
  /\ Goto(r, AfterHit(r))
  /\ UNCHANGED <<attempt, lockAcquired, task, ghostLock, gcMetric>>

\* Err from either call: "proxying without cache", uncounted, without a lock.
LookupFails(r) ==
  /\ "redis" \in Env
  /\ pc[r] \in {"get", "touch"}
  /\ CommandLands(r) \/ UNCHANGED redisVars
  /\ found' = [found EXCEPT ![r] = NoEntry]
  /\ Goto(r, "cold")
  /\ UNCHANGED <<lookup, attempt, lockAcquired, counted, task>>

\* SET NX EX replied OK: this sidecar warms the prefix.
AcquireLock(r) ==
  /\ At(r, "acquire")
  /\ SetNxAccepts(PrefixOf[r])
  /\ LockTaken(r)
  /\ lockAcquired' = [lockAcquired EXCEPT ![r] = TRUE]
  /\ Count(r, "miss")
  /\ Goto(r, "incr")
  /\ UNCHANGED <<lookup, found, attempt, task, cacheMap, ttlArmed, gcMetric>>

SlipNoWait(r) ==
  /\ At(r, "acquire")
  /\ ~SetNxAccepts(PrefixOf[r])
  /\ Goto(r, "cold")
  /\ UNCHANGED <<lookup, found, attempt, lockAcquired, counted, task, redisVars>>
LockContended(r) ==
  /\ At(r, "acquire")
  /\ ~SetNxAccepts(PrefixOf[r])
  /\ Goto(r, "backoff")
  /\ UNCHANGED <<lookup, found, attempt, lockAcquired, counted, task, redisVars>>

\* `.unwrap_or(false)`: an error, even one after the SET, reads as contended.
AcquireFails(r) ==
  /\ "redis" \in Env
  /\ At(r, "acquire")
  /\ CommandLands(r) \/ UNCHANGED redisVars
  /\ Goto(r, "backoff")
  /\ UNCHANGED <<lookup, found, attempt, lockAcquired, counted, task>>

\* await_ghost_lock_release: sleep, then EXISTS, at most RetryMax times.
Backoff(r) ==
  /\ At(r, "backoff")
  /\ ~RetriesExhausted(attempt[r])
  /\ attempt' = [attempt EXCEPT ![r] = NextAttempt(@)]
  /\ Goto(r, "check")
  /\ UNCHANGED <<lookup, found, lockAcquired, counted, task, redisVars>>

GiveUp(r) ==
  /\ At(r, "backoff")
  /\ RetriesExhausted(attempt[r])
  /\ Goto(r, "cold")
  /\ UNCHANGED <<lookup, found, attempt, lockAcquired, counted, task, redisVars>>

CheckLocked(r) ==
  /\ At(r, "check")
  /\ ~LockFree(PrefixOf[r])
  /\ Goto(r, "backoff")
  /\ UNCHANGED <<lookup, found, attempt, lockAcquired, counted, task, redisVars>>

CheckReleased(r) ==
  /\ At(r, "check")
  /\ LockFree(PrefixOf[r])
  /\ Goto(r, "get")
  /\ UNCHANGED <<lookup, found, attempt, lockAcquired, counted, task, redisVars>>

CheckFails(r) ==
  /\ "redis" \in Env
  /\ At(r, "check")
  /\ Goto(r, "cold")
  /\ UNCHANGED <<lookup, found, attempt, lockAcquired, counted, task, redisVars>>

\* incr_metric, its error ignored.
Incr(r) ==
  /\ At(r, "incr")
  /\ CommandLands(r) \/ ("redis" \in Env /\ UNCHANGED redisVars)
  /\ Goto(r, IF counted[r] = "hit" THEN "forward" ELSE "cold")
  /\ UNCHANGED <<lookup, found, attempt, lockAcquired, counted, task>>

\* cold_miss_target: the pod of the lowest load key, or "default" when there is
\* none or Redis fails; then, with no await in between, the spawn of the warm-up.
RouteCold(r) ==
  /\ At(r, "cold")
  /\ \E pod \in Pod \cup {DefaultPod} :
       lookup' = [lookup EXCEPT ![r] = [kind |-> "miss", ip |-> ColdIp(r), pod |-> pod]]
  /\ task' = [task EXCEPT ![r] = "write"]
  /\ Goto(r, "forward")
  /\ UNCHANGED <<found, attempt, lockAcquired, counted, redisVars>>

\* forward_raw: `send` resolves with the response head ...
FirstByte(r) ==
  /\ At(r, "forward")
  /\ Goto(r, "stream")
  /\ UNCHANGED <<lookup, found, attempt, lockAcquired, counted, task, redisVars>>

SlipRetryElsewhere(r) ==
  /\ At(r, "forward")
  /\ Goto(r, "cold")
  /\ UNCHANGED <<lookup, found, attempt, lockAcquired, counted, task, redisVars>>
ForwardFails(r) ==
  /\ At(r, "forward")
  /\ Goto(r, "bad_gateway")
  /\ UNCHANGED <<lookup, found, attempt, lockAcquired, counted, task, redisVars>>

\* ... and `bytes().await.unwrap_or_default()` with the body or nothing.
Relay(r) ==
  /\ At(r, "stream")
  /\ Goto(r, "relayed")
  /\ UNCHANGED <<lookup, found, attempt, lockAcquired, counted, task, redisVars>>

----------------------------------------------------------------------------
(* The detached warm-up task: sleep 200 ms, write, release.                *)

\* Whatever became of the write, the release follows.
SlipEarlyReturn == "done"
AfterWrite == "release"

SlipReleaseFirst(r) == task[r] \in {"write", "release"}
ReadyToRelease(r) == task[r] = "release"

SlipWarmupIsHit(r) == [ip |-> lookup[r].ip, pod |-> lookup[r].pod, hits |-> 1]
WarmEntry(r) == [ip |-> lookup[r].ip, pod |-> lookup[r].pod, hits |-> 0]

SlipNotWritten(r) == UNCHANGED <<cacheMap, ttlArmed>>
WriteEntry(r) ==
  StoreEntry(PrefixOf[r], WarmEntry(r), ArmedAfterWrite(PrefixOf[r]))

TaskWrite(r) ==
  /\ task[r] = "write"
  /\ \/ WriteEntry(r)
     \/ "redis" \in Env /\ UNCHANGED <<cacheMap, ttlArmed>>
  /\ task' = [task EXCEPT ![r] = AfterWrite]
  /\ UNCHANGED <<handlerVars, ghostLock, gcMetric>>

\* release_ghost_lock: a DEL that does not ask who set the key.
TaskRelease(r) ==
  /\ ReadyToRelease(r)
  /\ LockDeleted(PrefixOf[r])
  /\ task' = [task EXCEPT ![r] = "done"]
  /\ UNCHANGED <<handlerVars, cacheMap, ttlArmed, gcMetric>>

TaskReleaseFails(r) ==
  /\ "redis" \in Env
  /\ ReadyToRelease(r)
  /\ LockDeleted(PrefixOf[r]) \/ UNCHANGED ghostLock
  /\ task' = [task EXCEPT ![r] = "failed"]
  /\ UNCHANGED <<handlerVars, cacheMap, ttlArmed, gcMetric>>

----------------------------------------------------------------------------
(* What happens around the handlers.                                       *)

\* The handler future is dropped at an await; a spawned task runs on.
Cancel(r) ==
  /\ "cancel" \in Env
  /\ pc[r] \in Running
  /\ CommandLands(r) \/ UNCHANGED redisVars
  /\ Goto(r, "gone")
  /\ found' = [found EXCEPT ![r] = NoEntry]
  /\ UNCHANGED <<lookup, attempt, lockAcquired, counted, task>>

\* A sidecar stops: its handlers and its tasks are lost, Redis keeps its keys.
Crash(s) ==
  /\ "crash" \in Env
  /\ \E r \in Request : SidecarOf[r] = s
                        /\ (pc[r] \in Running \/ task[r] \in {"write", "release"})
  /\ pc' = [r \in Request |->
              IF SidecarOf[r] = s /\ pc[r] \in Running THEN "gone" ELSE pc[r]]
  /\ found' = [r \in Request |-> IF SidecarOf[r] = s THEN NoEntry ELSE found[r]]
  /\ task' = [r \in Request |->
                IF SidecarOf[r] = s /\ task[r] \in {"write", "release"}
                THEN "lost" ELSE task[r]]
  /\ UNCHANGED <<lookup, attempt, lockAcquired, counted, redisVars>>

LockExpire(p) ==
  /\ Env \cap {"lock_ttl", "lru"} # {}
  /\ ~LockFree(p)
  /\ LockDeleted(p)
  /\ UNCHANGED <<handlerVars, task, cacheMap, ttlArmed, gcMetric>>

EntryExpire(p) ==
  /\ \/ "entry_ttl" \in Env /\ ttlArmed[p]
     \/ "lru" \in Env
  /\ cacheMap[p] # NoEntry
  /\ StoreEntry(p, NoEntry, FALSE)
  /\ UNCHANGED <<handlerVars, task, ghostLock, gcMetric>>

HandlerStep(r) ==
  \/ RejectBody(r) \/ ProxyRaw(r) \/ StartLookup(r)
  \/ GetHit(r) \/ GetMiss(r) \/ Touch(r) \/ LookupFails(r)
  \/ AcquireLock(r) \/ LockContended(r) \/ AcquireFails(r)
  \/ Backoff(r) \/ GiveUp(r) \/ CheckLocked(r) \/ CheckReleased(r) \/ CheckFails(r)
  \/ Incr(r) \/ RouteCold(r) \/ FirstByte(r) \/ ForwardFails(r) \/ Relay(r)

TaskStep(r) == TaskWrite(r) \/ TaskRelease(r) \/ TaskReleaseFails(r)

Next ==
  \/ \E r \in Request : HandlerStep(r) \/ TaskStep(r) \/ Cancel(r)
  \/ \E s \in Sidecar : Crash(s)
  \/ \E p \in Prefix : LockExpire(p) \/ EntryExpire(p)

Spec == Init /\ [][Next]_vars

\* tokio polls every ready task and each await ends (Redis answers or fails, the
\* upstream call has a timeout).  A request that never arrives is owed nothing,
\* and that Redis expires a key is not assumed here.
Fairness ==
  /\ \A r \in Request : WF_vars(pc[r] # "idle" /\ HandlerStep(r))
  /\ \A r \in Request : WF_vars(TaskStep(r))

FairSpec == Spec /\ Fairness
----------------------------------------------------------------------------
(* Properties.                                                             *)

\* Every variable keeps its type; in particular no back-off counter passes
\* GHOST_LOCK_RETRY_MAX and every found or stored entry is a CacheEntry.
TypeOK ==
  /\ pc \in [Request -> Running \cup Answered \cup {"idle", "gone"}]
  /\ lookup \in [Request -> Lookup]
  /\ found \in [Request -> Entry \cup {NoEntry}]
  /\ attempt \in [Request -> 0 .. RetryMax]
  /\ lockAcquired \in [Request -> BOOLEAN]
  /\ counted \in [Request -> {"no", "hit", "miss"}]
  /\ task \in [Request -> {"none", "write", "release", "done", "failed", "lost"}]
  /\ cacheMap \in [Prefix -> Entry \cup {NoEntry}]
  /\ ttlArmed \in [Prefix -> BOOLEAN]
  /\ ghostLock \in [Prefix -> Request \cup {NoRequest}]
  /\ gcMetric \in [{"hits", "misses"} -> Nat]

\* From the SET NX that won to the DEL of its task, a request warms its prefix.
Warming(r) ==
  /\ lockAcquired[r]
  /\ pc[r] \in {"incr", "cold"} \/ task[r] \in {"write", "release"}

\* A request that lost the lock, or never asked for it, has run its DEL.
UnownedRelease(p) ==
  \E r \in Request : /\ PrefixOf[r] = p
                     /\ ~lockAcquired[r]
                     /\ task[r] \in {"done", "failed"}

LockLasts == Env \cap {"lock_ttl", "lru"} = {}

\* The Ghost-Lock admits one warm-up per prefix ("only one pod across the
\* cluster wins"), across sidecars, cancellations, crashes and Redis failures.
\* The one way around it, while the key lives, is the DEL at the end of a
\* warm-up task that does not own the lock.
WarmExclusion ==
  LockLasts =>
    \A r, t \in Request :
      (r # t /\ PrefixOf[r] = PrefixOf[t] /\ Warming(r) /\ Warming(t))
        => UnownedRelease(PrefixOf[r])

\* Neither Redis nor a key's lifetime interferes.
RedisSound == Env \cap {"redis", "lock_ttl", "entry_ttl", "lru"} = {}

Exhausted(r) == ~lockAcquired[r] /\ attempt[r] = RetryMax

\* With a sound Redis, two warm-ups of one prefix overlap only after some
\* waiter ran out of its RetryMax back-offs, went cold and deleted the lock.
HerdOnlyAfterExhaustion ==
  RedisSound =>
    \A r, t \in Request :
      (r # t /\ PrefixOf[r] = PrefixOf[t] /\ Warming(r) /\ Warming(t))
        => \E w \in Request : /\ PrefixOf[w] = PrefixOf[r]
                              /\ Exhausted(w)
                              /\ task[w] = "done"

\* "Lock released - re-attempt lookup (should hit now)": with a sound Redis a
\* waiter that saw the lock gone always finds the entry, whatever was
\* cancelled or crashed meanwhile, because the lock only goes after a write.
ShouldHitNow ==
  RedisSound =>
    \A r \in Request :
      (pc[r] = "get" /\ ~FirstLookup(r)) => cacheMap[PrefixOf[r]] # NoEntry

\* A lock key that exists has a request that will delete it, unless its release
\* failed, its SET was reported as failed, its sidecar crashed, or its handler
\* was dropped before it could spawn the task.
LockLeakCauses ==
  \A p \in Prefix :
    LET o == ghostLock[p] IN
    ~LockFree(p) =>
      \/ Warming(o)
      \/ "redis" \in Env /\ (~lockAcquired[o] \/ task[o] = "failed")
      \/ task[o] = "lost"
      \/ pc[o] = "gone" /\ task[o] = "none"

\* A hit is answered from an address a cold request of the same prefix was
\* routed to, never from another prefix's pod nor out of nowhere, though entries
\* are read, held over an await, expired, and written back late.
HitFollowsWarmup ==
  \A r \in Request :
    lookup[r].kind = "hit" =>
      \E w \in Request : /\ PrefixOf[w] = PrefixOf[r]
                         /\ lookup[w].kind = "miss"
                         /\ lookup[w].ip = lookup[r].ip

\* "System prompts / tool schemas - never expire automatically": without memory
\* pressure an entry of an infinite prefix, once written, stays.
InfiniteEntriesStay ==
  [][\A p \in Prefix :
       (PolicyOf[p] = "infinite" /\ "lru" \notin Env /\ cacheMap[p] # NoEntry)
         => cacheMap'[p] # NoEntry]_vars

\* The fleet counters gc_metric:hits and gc_metric:misses are the outcomes of the
\* first lookups: each adds one INCR, none is lost or doubled, requests that waited
\* out a lock never show up.  Only of a dropped handler's INCR is the fate unknown.
FleetCountersAgree ==
  "redis" \notin Env =>
    \A k \in {"hits", "misses"} :
      LET first == {r \in Request : counted[r] # "no" /\ MetricOf(r) = k
                                    /\ FirstLookup(r) /\ pc[r] # "incr"} IN
      /\ gcMetric[k] <= Cardinality(first)
      /\ gcMetric[k] >= Cardinality({r \in first : pc[r] # "gone"})

\* hit_count never exceeds the hits of its prefix: concurrent hits may lose
\* increments (GET then SET), they never invent one.  A dropped handler may have
\* written its increment without having been counted.
HitCountBounded ==
  "redis" \notin Env =>
    \A p \in Prefix :
      cacheMap[p] # NoEntry =>
        cacheMap[p].hits <= Cardinality({r \in Request :
          PrefixOf[r] = p /\ (counted[r] = "hit" \/ pc[r] = "gone")})

\* Every request that arrives is answered, or its handler is dropped or its
\* sidecar dies: no one waits for ever on a leaked lock, even if it never expires.
EveryRequestAnswered ==
  \A r \in Request : pc[r] \in Running ~> pc[r] \in Answered \cup {"gone"}

\* No one is left to delete the lock: its owner's handler was dropped before the
\* spawn, its task's DEL failed, or its sidecar crashed.
Deserted(p) ==
  \E r \in Request : /\ ghostLock[p] = r
                     /\ \/ pc[r] = "gone" /\ task[r] = "none"
                        \/ task[r] \in {"failed", "lost"}

\* A Ghost-Lock comes off by the steps of handlers and tasks alone, whether or not
\* Redis ever expires it, unless it was deserted: also when the cache write failed,
\* and when a SET NX took effect and its reply was lost (the waiter that owns the
\* key without knowing goes cold in the end, and its task deletes it).
LockFreed ==
  \A p \in Prefix : ~LockFree(p) ~> (LockFree(p) \/ Deserted(p))

\* The pipeline implements the affinity routing it exists for: module
\* AffinityRouting, with the addresses of past cold routes as the warmed ones.
Status(r) == IF pc[r] \in Answered THEN "answered"
             ELSE IF pc[r] = "gone" THEN "dropped" ELSE "open"

Affinity == INSTANCE AffinityRouting WITH
  route  <- [r \in Request |-> [kind |-> lookup[r].kind, ip |-> lookup[r].ip]],
  status <- [r \in Request |-> Status(r)],
  warmed <- [p \in Prefix |->
               {lookup[r].ip : r \in {t \in Request : PrefixOf[t] = p
                                                      /\ lookup[t].kind = "miss"}}]

ImplementsAffinity == Affinity!Spec

\* Whoever wins the lock publishes the prefix, unless its handler is dropped before
\* the spawn or its sidecar stops: a client that leaves later changes nothing.
\* (Stated from the moment of winning: a published entry may expire again.)
WarmupPublishes ==
  \A r \in Request :
    (lockAcquired[r] /\ At(r, "incr")) ~>
      (\/ cacheMap[PrefixOf[r]] # NoEntry
       \/ pc[r] = "gone" /\ task[r] = "none"
       \/ task[r] = "lost")
============================================================================
