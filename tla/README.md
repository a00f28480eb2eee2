# GhostCacher in TLA+

GhostCacher routes LLM requests so that those with the same prompt prefix reach
the pod that has already computed it. A *sidecar* proxy next to each application
hashes the stable part of a prompt, looks the hash up in Redis, and sends the
request to the recorded address (hit) or to its default pod (miss); a *control
plane* keeps the registry of pods. This directory holds TLA+ models of the parts
of the system that have state or non-trivial logic, the TLC runs that check
them, and TLAPS proofs. Paths below are relative to the repository (`src/`).

## 1. Inventory

| component | code | state | operations | hard behaviour |
|---|---|---|---|---|
| request pipeline | `sidecar/src/interceptor.rs` | one handler future per request; one detached warm-up task per cold request | `intercept_handler`, `forward_raw`, `cold_miss_target`, `extract_*`, `infer_ttl_policy` | a handler awaits up to a dozen Redis calls; it may be dropped at any of them while its task runs on |
| Redis client | `sidecar/src/redis_client.rs` | `cache_map:{h}`, `ghost_lock:{h}`, `gc_metric:*` | `lookup`, `write`, `try_acquire/release/await_ghost_lock*`, `list_pod_loads`, `incr_metric` | GET-then-SET, SET NX with EX, DEL without owner check, an error that may have taken effect |
| prompt hashing | `sidecar/src/hasher.rs`, `extract_*` in `interceptor.rs` | none | `canonicalize`, `hash_block`, `hash_prompt_blocks` | what is sorted, skipped, tagged |
| provider adapter | `sidecar/src/provider.rs` | none | `inject_*` | positions of cache points |
| sidecar metrics | `sidecar/src/metrics.rs` | atomic counters, totals and gauges | `record_hit`, `record_miss` | counters that belong together moved one by one; a ratio set from two atomics read at different moments, by several threads |
| router, config, start-up | `sidecar/src/router.rs`, `config.rs`, `main.rs` | none | routes, probes, `TimeoutLayer` | the timeout drops handlers |
| pod registry | `control-plane/src/pod_registry.rs`, `admin.rs` (heartbeat) | `HSET pod_registry`, `pod_load:{id}`, `pod_heartbeat:{id}` | `upsert_pod`, `remove_pod`, `evict_dead_pods`, `health_check_loop` | three commands per update, several replicas, decisions from one old HGETALL, expiry |
| eviction engine | `control-plane/src/eviction.rs` | none (skeleton) | `run_loop`, `flush` | none: the candidate list is always empty |
| admin API | `control-plane/src/admin.rs` | none of its own | listings, `flush_handler` | reads |
| kv-relay | `kv-relay/src/*.rs` | none (stub) | `pull_kv_blocks`, `push_kv_blocks` | none: answers are constants |
| SDKs, scripts, deployment | `dashboard/`, `scripts/`, `k8s/`, `redis/`, `monitoring/` | none | HTTP clients, configuration | `allkeys-lru` in `redis.conf` may drop any key |

**Interaction.** Sidecars share nothing but Redis. A handler does `GET
cache_map`; on a value it writes the entry back with one more hit and forwards;
on nil it tries `SET ghost_lock NX EX 30`. The winner goes cold: it picks a pod
from the `pod_load:*` keys, spawns a task that sleeps 200 ms, writes the entry
and deletes the lock, and forwards meanwhile. A loser backs off and tests the
lock, and looks up once more when it is gone, or goes cold when its retries are
spent. Pods write the `pod_load:*` keys through the control plane's heartbeat
handler, whose health-check loops remove the pods that fell silent.

**Correctness of each part.** Pipeline: each request is routed once and answered
once; one prefill per cold prefix; a hit goes where the prefix was sent; nobody
waits for ever; locks nobody deserted are freed; counters mean what they say. Registry: silent
pods leave routing and the registry; beating pods stay. Hashing: equal prefix
exactly when the stable prompt is the same, whatever the order of RAG sources
and the user's question; one policy per prefix. Cache points: the same ones for
one prefix, none on what is asked last.

## 2. Modules

| module | models | lines it follows |
|---|---|---|
| `Interceptor` | handlers, tasks and the Redis keys they use | `interceptor.rs` 60-248, 377-396; `redis_client.rs` 48-175, 209-213 |
| `AffinityRouting` | what the pipeline promises, without locks, keys or retries | abstract |
| `GhostLockTiming` | `Interceptor` with its two sleeps counted | `redis_client.rs` 154-169, `interceptor.rs` 179-181 |
| `InterceptorProofs`, `InterceptorAffinityProofs`, `InterceptorCounterProofs`, `GhostLockTimingProofs` | their theorems | |
| `MCInterceptor`, `MCGhostLockTiming`, `InterceptorDocs` | constants for TLC; statements of the documents the code does not keep | |
| `PodRegistry` | heartbeats, health checks, expiry | `pod_registry.rs` 66-147, `admin.rs` 23-35 |
| `PodLoads` | what the registry promises the sidecars of the load keys | abstract; `pod_registry.rs` 73-78, 112-115 |
| `LeastLoaded` | the choice of a pod, over `PodLoads` | `redis_client.rs` 189-206, `interceptor.rs` 377-392 |
| `Metrics` | hit and miss records into shared atomics, access by access | `metrics.rs` 37-122, 136-141 |
| `HandlerRoute` | the handlers of one sidecar: `Metrics` and `LeastLoaded` together (`SidecarRequests` holds the constant they share) | `interceptor.rs` 99-154 |
| `PodRegistryProofs`, `HandlerRouteProofs` | theorems of `PodRegistry`, and of `HandlerRoute` | |
| `MCPodRegistry`, `MCHandlerRoute` | constants for TLC | |
| `PromptPrefix` | bodies to blocks to prefix and policy | `hasher.rs` 39-162, `interceptor.rs` 251-375 |
| `ProviderAdapter` | where cache points go, for a `PromptPrefix` body | `provider.rs` 19-158 |
| `PromptPrefixProofs`, `ProviderAdapterProofs` | their theorems | |
| `MCPromptPrefix`, `PromptPrefixDocs` | constants for TLC; statements of the documents the code does not keep | |

### Interceptor

One action is the code from one `.await` to the end of the next Redis or
upstream call, so every interleaving that tokio and several processes allow is a
behaviour. `pc[r]` names the await at which request `r`'s handler stands:

| `pc` | next action | code |
|---|---|---|
| `idle` | `RejectBody`, `ProxyRaw`, `StartLookup` | body read, blocks extracted, hashed (69-100) |
| `get` | `GetHit`, `GetMiss`, `LookupFails` | `GET` in `lookup` |
| `touch` | `Touch`, `LookupFails` | `SET` of the entry with `hit_count + 1` |
| `acquire` | `AcquireLock`, `LockContended`, `AcquireFails` | `SET NX EX` |
| `backoff` | `Backoff`, `GiveUp` | sleep in `await_ghost_lock_release` |
| `check` | `CheckLocked`, `CheckReleased`, `CheckFails` | `EXISTS` |
| `incr` | `Incr` | `incr_metric` |
| `cold` | `RouteCold` | `cold_miss_target` and the spawn, no await between them |
| `forward`, `stream` | `FirstByte`, `ForwardFails`, `Relay` | `forward_raw` |

`task[r]` is the detached warm-up: `write`, `release`, then `done` or `failed`
(or `lost` with its process). `lookup`, `found`, `attempt`, `lockAcquired` are the handler's locals;
`counted` is what its `MetricsRegistry` recorded. `cacheMap`, `ttlArmed`,
`ghostLock` and `gcMetric` are the Redis keys. `ghostLock` holds the request that
set it although the code stores `"1"`: no guard looks at the owner.

The constant `Env` names the faults of a run: `redis` (a call fails, with or
without effect), `cancel` (a handler is dropped), `crash`, `lock_ttl`,
`entry_ttl`, `lru`. A call dropped or failed may have taken effect:
`CommandLands`. The pod picked by `list_pod_loads` is any pod with a load key or
`"default"`; how it is picked is `LeastLoaded`. No guard of the pipeline reads it.

### GhostLockTiming

Conjoins timers to the actions of `Interceptor`: `backoff[r]` counts a waiter's
sleep, `warmup[r]` the warm-up task's, in ticks of
`GHOST_LOCK_BACKOFF_BASE_MS` (50 ms). A behaviour chooses once whether calls are
`prompt`. If they are, everything that is not asleep is done before the clock
moves (`Due`, `Elapse`); only the upstream server may take its time. If not, the
timers are zero and any interleaving of `Interceptor` is allowed. So the timed
module contains the untimed one, and adds the one case in which the lengths of
the sleeps matter.

### PodRegistry

One action is one Redis command. `upsert[h]` is a heartbeat request (the
command it is at and its body), `cycle[c]` replica `c`'s health check with the
pods its HGETALL listed as dead, `registry`, `loadKey` and `beatTtl` the three
keys. Time passes by `Tick`; ages stop at `Ttl + 1`, which the comparison with
the TTL cannot tell from more. `LagOf[p]` is how old `last_heartbeat` may be when a
body of pod `p` arrives, by a late delivery or a slow clock; it is negative when the
pod's clock is ahead, which nothing checks (`admin.rs` 28-31). A pod that stops with its clock
ahead stays registered that much longer. `quiet` is a history variable: ticks since a heartbeat
of the pod last wrote any key. `Unreliable` replicas abandon an upsert or a cycle at any command,
with or without its effect. `Punctual` pods are those for which the tests of
`PunctualPodsStay` are owed: their heartbeats go through one at a time and, once registered, come at least every `Period`
ticks; `PunctualAssumption` says how `LagOf`, `Period` and the TTL must fit. The
deployed values are 45 s for the TTL and 15 s for loop and heartbeat.

`PodLoads` is the registry as the sidecars see it: one key per pod that shows a
reported value for one TTL, and may vanish sooner. `PodRegistry` is shown to
implement it, and `LeastLoaded` runs over it: the two components meet in the load
keys and nowhere else.

### LeastLoaded, Metrics, HandlerRoute

`LeastLoaded`: `call[r]` is where a request's `list_pod_loads` stands, `unread` the
listed keys still to be asked for, `seen` the loads collected. Between any two commands the
load keys may move (`LoadsMove`). A GET that finds no key, or fails, is
`unwrap_or(0.5)`. KEYS gives the keys in any order, so GETs come in any
order and ties of the stable sort go either way. Two history variables: `steady`, the pods whose
key kept its value since the KEYS, and `blind`, those whose GET brought nothing.

`Metrics`: every counter, total and gauge is an atomic of its own. `record[r].left` lists the
accesses a record has still to make: the `inc` of each counter (three for a hit, one for a miss), the
increment of one total, the load of the other and the `set` of the gauge. All are
`Relaxed` and of different variables, so they may come in any order; only the
`set` needs both totals. A scrape reads whatever stands between two accesses, so
an invariant of this module is what a scrape may rely on. The gauge is kept as the two totals it is a ratio of. `since`
is a history variable: the totals when the record that last set the gauge began.

`HandlerRoute` orders them as `intercept_handler` does: a hit is recorded and
nothing picked, a miss that owns the lock picks after its record has returned, any
other cold request picks unrecorded. Both modules are used whole.

### PromptPrefix

Pure operators with a small state machine around them: two bodies grow item by
item, so a run compares all pairs. A text is a sequence of *pieces*; a piece
starts where `canonicalize` can split or where texts may differ. `pad` is white space that
normalization removes: a further space where the piece begins, and in a marked piece the
place between `[SOURCE:` and the id. SHA-256 is
taken as injective. Sorting compares raw text, as the code does (`tagged.sort()`
runs before white space is collapsed): the first thing compared after the marker is
that white space, then the id, then the text. `serde_json` writes keys in order, so in
a serialized message the role follows the content; a source marker in a chat
message therefore also moves the JSON between messages, which `Json` keeps. A message's
content is a string or something else (`isString`); the two are serialized differently. A
native body has its blocks (`items`) and, as the SDKs send it, `system` and `messages` of
its own, which are forwarded but not hashed.

### ProviderAdapter

Operators over the same bodies: the set of positions each `inject_*` function
gives a cache point, 0 for the `system` field and i for the i-th message. Injection
runs for every format (`interceptor.rs` 157), so native bodies are included, for any
upstream. An Anthropic cache point is put on a string only (`provider.rs` 60, 84).
Bedrock's position is found by counting *blocks* and used to index *messages*
(`provider.rs` 135-140). `CachePointsStable` says when that point is on the very message
asked last; where it is not, it is "at the stable prefix boundary" only if the history is
a single message.

### The operators named `Slip...`

They are mutated forms of the definition that follows them: plausible mistakes
(a guard off by one, a missing reset, a wrong order). `PROJECT.json` pairs each property
with the slip that breaks it. No specification uses them.

## 3. Runs

All bounds are in the `.cfg` files; every run explores its state space
completely.

| run | instance | what it shows |
|---|---|---|
| `herd` | 3 requests, 1 prefix, 2 sidecars, retry bound 4, warm-up 4 ticks, `cancel`, `crash` | `HerdOnlyAfterExhaustion`, `ShouldHitNow`, `FleetCountersAgree`, `HitCountBounded`, `PatienceSuffices`, `TypeOK` |
| `exclusion` | 3 requests at 1 sidecar, retry bound 1, `redis`, `cancel` | `WarmExclusion`, `LockLeakCauses` |
| `entries` | 3 requests, 2 prefixes (fixed, infinite), 2 sidecars, fairness, `cancel`, `crash`, `entry_ttl` | `HitFollowsWarmup`, `InfiniteEntriesStay`, `ImplementsAffinity`, `WarmupPublishes` |
| `progress` | 2 requests, 2 sidecars, retry bound 2, fairness, `redis`, `cancel`, `crash`, `lock_ttl` | `EveryRequestAnswered`, `LockFreed` |
| `registry` | 2 pods (one punctual and a tick late, one arbitrary with its clock a tick ahead), 2 heartbeats in flight, 2 replicas (1 unreliable), TTL 2, period 1, fairness | `SilentPodsUnroutable`, `PunctualPodsStay`, `DeadPodsForgotten`, `ImplementsPodLoads`, `TypeOK` |
| `routing` | 2 requests, 2 pods, TTL 2, loads 0 and 2, 0.5 being 1 | `GaugeFresh`, `SavingsRounded`, `LeastOfSteady`, `BlindOnlyOverBusy` |
| `prompt` | all pairs of bodies of up to 2 native blocks or 3 messages | `PrefixSeparates`, `SourceOrderIgnored`, `VolatileIgnored`, `PolicyFollowsPrefix`, `CachePointsStable`, `SamePrefixSameCachePoints` |

The longest take two to three minutes on two workers; the five runs of section
"Disagreements" stop at their counterexample at once.

*Why these bounds.* The lock needs three requests: one that owns it, one whose
release takes it away, one that then wins. `GHOST_LOCK_RETRY_MAX` is 8 in the code; the
model without timers distinguishes no retries left, one left and more, and 2 shows all
three; the other pipeline runs are content with 1 or 2. In `herd` the 4 ticks of the
warm-up are the code's 200 ms, and 4 retries (1 + 2 + 4 + 8 ticks) the fewest for
which `PatienceSuffices` holds: with 3, a waiter that loses the lock to a second winner
too runs out of retries while that one is warming. The code's 8 retries
make 191 ticks, 9.55 s, so the bound checked is the harder one. The 600 ticks of the lock's EX are
longer than all of that, and do not elapse in this run.
Two sidecars are needed where a default address or a crash matters; in
`exclusion` nothing depends on the sidecar and one lets requests be exchanged (`SYMMETRY`; the safety
runs only). `Pod = {}` in the pipeline runs: the pod id of an entry is read by
no guard, and one value (`"default"`) keeps the space small. In the registry, two
heartbeats and two replicas are the least at which upserts overlap removals and
two removals overlap; TTL 2 with period 1 separates "in time", "at the bound" and
"late". The punctual pod's lag of 1 is the largest `PunctualAssumption` allows; the other pod's
clock, one tick ahead, makes its records outlive its load key. In `routing`, two
records are the least that overlap, and two pods with loads on both sides of 0.5 the least among which a
choice can be wrong; prompts of 10 and 13 tokens round down and up.
In `prompt`, two blocks show order and kind; three messages show a history,
its last turn and a further turn. A native body is sent without messages or with a string
`system` and two messages; documents have white space at one marker or at none; one Anthropic message
has a content that is no string.

*Fairness.* A tokio task that is ready is polled, and each await ends: Redis
answers or the connection fails, the upstream client has a timeout. Hence weak
fairness of each handler that has arrived and of each task. Arrival, drops,
crashes and expiry are not assumed: neither `LockFreed` nor `EveryRequestAnswered` may wait for Redis to
expire a lock. For the registry: weak fairness of
each upsert and each replica's loop; strong fairness of time and of a punctual pod's next heartbeat. These two
wait for one another (a tick for the heartbeat to be through, the heartbeat for a free slot of the
two in flight, which other pods' heartbeats may take for a while), so weak fairness would let
them starve; neither clocks nor servers do. Weak fairness of an
unreliable replica may always be spent on abandoning; `DeadPodsForgotten` rests
on the other one.

*Deadlock* is checked in `registry`. The pipeline, `routing` and `prompt` runs say
`CHECK_DEADLOCK FALSE`: requests end, and bodies are full.

### What the properties say

- `WarmExclusion`: the Ghost-Lock's promise as the code keeps it. Two requests
  that both won the lock warm one prefix at once only if a request that did not
  own the lock has deleted it.
- `HerdOnlyAfterExhaustion`: with a sound Redis such a request is always a waiter
  that spent all its retries.
- `ShouldHitNow`: the comment "should hit now" (`redis_client.rs` 172): a waiter that saw
  the lock go finds the entry, whatever was dropped or crashed.
- `LockLeakCauses`: a lock nobody is going to delete has one of four causes.
- `LockFreed`: the other side of it. A lock is taken off by the steps of handlers and tasks, without
  Redis expiring it, unless it was deserted: its owner dropped before the spawn, its DEL failed, its process
  gone. It covers the failed cache write (`interceptor.rs` 196) and the SET NX whose reply
  was lost: the request then waits on its own lock, goes cold, and deletes it.
- `WarmupPublishes`: a winner's entry appears, unless its handler is dropped before the spawn or its process
  stops.
- `EveryRequestAnswered`: whoever arrives is answered or dropped, though locks may leak and never expire.
- `HitFollowsWarmup`, `ImplementsAffinity`: a hit is sent only to an address that
  a cold request of its prefix was sent to; one route and one end per request.
- `PatienceSuffices`: with prompt calls and a sound Redis, the first waiter to run out
  of retries has waited on a lock nobody will delete, never on a warm-up under way.
  It is about the numbers 50 ms, 8, 6 and 200 ms together.
- `InfiniteEntriesStay`: nothing but memory pressure removes an infinite entry.
- `FleetCountersAgree`, `HitCountBounded`: `gc_metric:*` are the outcomes of first
  lookups; `hit_count` may lose increments, never invent one.
- `SilentPodsUnroutable`: without any help from a health check, a pod silent for a
  TTL has no load key.
- `PunctualPodsStay`: no scan, however old, removes a pod that keeps its period.
- `DeadPodsForgotten`: a stopped pod is gone for good in the end, although late heartbeats may register it
  again for a while, and although its load key goes before its record counts as old.
- `ImplementsPodLoads`: six commands of several replicas on three keys amount, for the load
  key, to "written whole, ages, goes".
- `LeastOfSteady`: among the pods whose load stood still from the KEYS to the choice and was
  read, the chosen pod has the least. No more can be said: what moved meanwhile
  was compared by an older value.
- `BlindOnlyOverBusy`: a pod that was listed and then could not be read (it may be dead)
  is never preferred to a live one below 0.5. It is preferred to
  one above, which is what `unwrap_or(0.5)` costs.
- `GaugeFresh`: the hit-ratio gauge was set from totals between those at the start
  of the record that set it and the current ones, that record included.
- `SavingsRounded`: whenever no hit is between its three counters, the saved milliseconds are within half
  a millisecond per hit of 0.04 per token. Between them a scrape may see the tokens and not yet the
  milliseconds.
- `PrefixSeparates`, `VolatileIgnored`, `SourceOrderIgnored`: what the
  prefix keeps apart and what it ignores. The last one is about order: white space may differ elsewhere, but
  between a marker and its id it moves the section, so it must be the same there.
- `CachePointsStable`: Anthropic's cache points are never on what is asked last. Bedrock's is
  in two cases: a system or tool message stands after it, or the body is a native one.
- `SamePrefixSameCachePoints`: API requests of one prefix get the same cache points. It holds although Bedrock's
  is often on the wrong message: then on the same wrong one. The points of a native body are in messages
  that are no part of its prefix, so nothing is said of them.
- `PolicyFollowsPrefix`: the TTL policy does not depend on which of the prefix's requests
  was cold, and is never Sliding; `PolicyAssumption` of `Interceptor` rests on it.

### Disagreements the runs show

| run | the code | the text |
|---|---|---|
| `doc_fixed_expire` | `lookup`'s write-back is a plain `SET`, which removes the EX (`redis_client.rs` 82) | "expires N seconds after creation" (`types.rs` 112) |
| `doc_one_warmup` | every cold request ends with a DEL of the lock, whoever holds it (`redis_client.rs` 147) | "Only one pod across the cluster wins" (`redis_client.rs` 114) |
| `doc_warmed_host` | entries store the writer's own `default_pod_ip` (`interceptor.rs` 383) | "HIT → route to warmed pod" (`README.md` 166) |
| `doc_source_order` | splits at `[SOURCE:` only (`hasher.rs` 46) | "RAG document ordering should be stable" of `[ SOURCE:001 ]` (`hasher.rs` 193) |
| `doc_same_system` | all messages but the last are hashed with the system prompt (`interceptor.rs` 292-304), so a chat never hits its own earlier turn | "All subsequent requests with the same system prompt skip the prefill phase" (`QUICKSTART.md` 109); "same system prompt + tool schemas on every agent step" (`README.md` 106) |

### Disagreements read, without a run

- A pod whose heartbeat arrives between the scan and its removal is deregistered with a
  fresh record (`pod_registry.rs` 134, 142), against "remove pods whose heartbeat has
  expired" (`pod_registry.rs` 121); `PunctualPodsStay` says who is safe from it.
- A chat sent through the Python SDK and the same chat sent directly have different prefixes:
  the SDK serializes messages with spaces after commas and colons (`client.py` 124),
  the sidecar without (`interceptor.rs` 297), and white space inside a text is not removed but
  collapsed (`hasher.rs` 63). Each is consistent with itself.
- When two records overlap, the one that read first may set the gauge last: the
  ratio then stays 0 or 1 where it is 1/2, until the next request
  (`metrics.rs` 112-121). `monitoring/prometheus.yaml` 72 alerts on this gauge.
- `readyz` answers 200 with `"not_ready"` when Redis is away, and a probe looks at the
  status code (`router.rs` 35-44).
- The entry is published 200 ms after the spawn, not "after first token received"
  (`interceptor.rs` 57, 181).
- Spent retries end in a cold route, not in "a fresh lookup" (`redis_client.rs` 153, 159).
- "route to least-loaded pod" (`README.md` 168): only the pod's id is kept, the
  address is the default one (`interceptor.rs` 383). A load key that expires between
  KEYS and GET reads as 0.5 (`redis_client.rs` 199).
- Waiters that go cold and requests whose lookup failed are counted neither as
  hits nor as misses (`interceptor.rs` 140, `metrics.rs` 47).
- White space decides the order of sections: `[SOURCE:  2]` sorts before `[SOURCE: 1]`, because raw text
  is compared (`hasher.rs` 54), against "no whitespace drift" and "alphabetical by source ID"
  (`hasher.rs` 5-6). No source id is put in lower case (`hasher.rs` 37).
- A `system` array, OpenAI `tools` and messages of other roles are not hashed
  (`interceptor.rs` 278, 327-340).
- No request is ever given the Sliding policy: chat history is a Document block and so Fixed
  (`interceptor.rs` 364-375), against "Sliding 1h" for chat history (`README.md` 478), "Has session → Sliding"
  (`interceptor.rs` 365) and `types.rs` 114. `PolicyFollowsPrefix` states it.
- `k8s/03-control-plane.yaml` 14 speaks of leader election; every replica runs its loops.
- The path's pod id is not compared with the body's (`admin.rs` 23-35).
- Eviction and both flush endpoints change nothing (`eviction.rs`, `admin.rs` 47-59,
  `router.rs` 59-69); `ghost_lock_timeout_secs` is not read.
- The Bedrock cache point is not "at the stable prefix boundary" of a longer history
  (`provider.rs` 122, 135-140), and may be on the volatile message: in an OpenAI body [user, system]
  both the message asked and the point have index 0; so it is when an SDK sends one system block
  with the question as the only message.

## 4. Proofs

The theorems hold for all sets of requests, sidecars, prefixes, pods, replicas
and for all bounds that meet the `ASSUME`s of the modules.

**InterceptorProofs.** `TypeCorrect`: `Spec => []TypeOK`. `Base` collects what
each `pc` says of the handler's locals (`TypeInv`, which locals are set in which
phase). On top of it stand one invariant per theorem:

- `OwnerInv`: while lock keys last, a warming request owns the key of its prefix
  or an unowned release has happened. `WarmExclusion` alone is not inductive:
  that a second SET NX cannot succeed is seen from the first owner's key only.
  → `Exclusion` (`WarmExclusion`).
- `LeakInv`: a key is of the prefix of the request that set it, and has a deleter
  or a cause. → `LeaksExplained` (`LockLeakCauses`).
- `ArmedInv`: only fixed entries carry an EX. → `InfiniteStay`.
- `SoundInv`, for a sound Redis: a task past its write has published its prefix
  (which stays published), what a waiter waits for is warming or published, and
  who goes cold without the lock has spent its retries. → `RetryHit`
  (`ShouldHitNow`) and, with `OwnerInv`, `NoHerd` (`HerdOnlyAfterExhaustion`).

**InterceptorAffinityProofs.** `WarmthInv`: every address in `cacheMap`, in an
entry `found` but not yet written back, and in a hit's route was the cold route
of a request of the same prefix. From it `HitsAreWarm` (`HitFollowsWarmup`) and
`PipelineImplementsAffinity`: the refinement of `AffinityRouting`, each step
mapped to a step or a stutter.

**InterceptorCounterProofs.** `FleetCountersCount` (`FleetCountersAgree`) and
`HitCountIsBounded` (`HitCountBounded`), for a finite set of requests
(`RequestAssumption`). A counter is compared with the cardinality of a set of requests;
each action adds one request to the set, or none, and the lemmas say what
that does to the cardinality. For the hit count the invariant also covers the entry a handler has
read and not yet written back: its increment belongs to a request not yet counted.

**GhostLockTimingProofs.** A timed step is a step of
the pipeline or leaves its variables alone, so every invariant proved of `Interceptor` holds with the
sleeps counted; `TimedNoHerd` is the one the timers could be thought to change.
`PatienceHolds` (`PatienceSuffices`) needs `PatienceAssumption`: all back-offs of a waiter together
are longer than two warm-up delays. The code's are 191 ticks against 8
(`CodeIsPatient`). Two delays, because a second winner may follow the first: its GET
missed before the first one's write, its SET NX came after the DEL. `PatienceInv`
weighs, for each prefix nobody has given up on, what its waiters have left
(`Outlasts`: the back-offs not yet slept) against what they may still have to wait for (`Debt`: the
owner's remaining delay, and a whole one more if a second winner is possible).
A pipeline step never adds to the debt of a prefix somebody waits for, a tick takes one from
both sides, and a waiter begins with everything. It rests on `OwnerInv`,
`LeakInv` and `SoundInv` of the untimed proofs.

**PodRegistryProofs.** `TypeCorrect`; `SilentUnroutable`, from the invariant
`ttl + quiet <= Ttl` of each load key (a command that sets one resets the other,
a tick moves both); `PunctualStay`, from an invariant of a punctual pod: its
record is at most `Ttl - Period` older than its last write, its load key lives
as long as its silence allows or is due to be written, and neither scan nor
removal has it on its list. The property itself is not inductive: a cycle with
the pod already on its list would remove it. `RegistryImplementsPodLoads`: an upsert
in flight carries a reported load, so its second command is `Report`; a removal's
second is `Vanish`; a tick ages all keys; the other commands stutter.

**HandlerRouteProofs.** `GaugeIsFresh`, from an invariant that gives every record
in flight the interval its two reads lie in, and says that once its increment
is done one of them is beyond its start. `SavingsAreRounded`: an invariant of the counters at
every moment, not only when no hit is between them. With `T` the hits whose tokens are counted and `M` those
whose milliseconds are, the totals less what only one of the two sets holds are within the rounding
of the hits in both (`Balanced`); at rest `T`, `M` and the counted hits are one set. A sum over a set of
requests is the cardinality of a set of pairs, as a recursive sum is out of reach. `LeastLoadedChosen` and
`UnknownOnlyOverBusy`, from an invariant that ties `seen` to the load keys: a
steady pod that was read shows its key's value, a blind one 0.5, and every steady pod is
collected once nothing is left unread. The load keys move as in `PodLoads`, which is what
`RegistryImplementsPodLoads` shows of the control plane.

**PromptPrefixProofs**, **ProviderAdapterProofs.** Here the steps matter little (`Typing`:
the bodies keep their types) and the data everything: the theorems hold for bodies, documents and
conversations of any length, from `StartAssumption` and `ItemsAssumption`, the types of what clients send.
Induction is over numbers, in the form that a set of numbers has a least
element (`Least`, `NatSets`); it gives what the sequence operators do.

- `Ordered` and `Chosen`: a strict total order of a finite set ranks its elements, each rank
  taken once (`OrderedIs`, `ChosenIs`). `FlattenSeq`: where each part of a concatenation stands (`FlattenIs`).
- What is extracted is kept blocks, then at most one User block (`Extracted`, `KeptIs`). With it:
  `PolicyIsOfThePrefix` (a Document block is kept, and its hash tells its kind) and
  `VolatileIsIgnored` (the choice of positions does not depend on the volatile message).
- `Arranged`: the document in canonical order. That comparing sections is a strict
  total order is `LexTotal`, `LexAsymmetric`, `LexTransitive`; `SectionStays` says
  that every section survives whole, so `SourcesStay`. `PrefixesSeparate` reads the sources back from
  equal canonical forms, whose words show where sections begin.
- `SourceOrderIsIgnored`: with distinct source ids the arranged sections ascend by white space
  and id (`ArrangedAscends`), the same white space belongs to the same section in both documents (`SpacingIs`),
  and two ascending documents of the same sources agree word by word
  (`AscendingSame`, by induction on the position).
- `TailIsSpared`: the number of kept blocks, which is Bedrock's breakpoint, against the position of the
  message asked last. If no system or tool message follows it, it counts the ones before it and the
  history makes one block at most, so the point falls short of it.
- `PointsAreOfThePrefix`: equal prefixes have as many kept blocks, of the same kinds, and histories
  of one length. The length is seen by counting: a serialized history has one role piece per message
  and one at its end (`RolesOfJson`), no content reads like one (quotes are escaped), and sorting
  loses none (`RolesStay`). Whether the last of the history is a string, which Anthropic's point depends on,
  is seen from how its last message closes (`ClosingTells`).

That sections are compared by rank in a total order, and not by a recursive sort, is how the model
states `tagged.sort()`; the stable sort of a total preorder has no other result.

**Only model-checked.** The liveness properties (`EveryRequestAnswered`, `LockFreed`, `WarmupPublishes`,
`DeadPodsForgotten`): fairness and `ENABLED` are out of the prover's reach. Every other property of a
passing run is a theorem. The five disagreements are counterexamples found by TLC.

## 5. Not modelled

- *Eviction engine and flush endpoints*: the candidate list is always empty and `flush`
  returns 0; no state changes.
- *kv-relay*: a stub that answers constants; nothing calls it.
- *SDKs and scripts*: HTTP clients. The SDKs compute a prefix hash of their own and send it in
  the request's metadata; the sidecar never reads it, so nothing in the
  system depends on its agreeing with the sidecar's.
- *Router, configuration, start-up*: no state beyond `readyz`'s INCR of a counter nobody
  reads. The timeout layer and the end of the process are `Cancel` and `Crash`.
- *Rest of the metrics*: `record_rdma_transfer`, `record_latency` and `set_active_entries` have no
  caller; `render` reads. A restart, which sets all of them to 0, is left out: no property
  here relates counts of different processes.
- *Deployment*: what it fixes is the fault `lru` (`allkeys-lru`) and the number of replicas.
- *Durations of calls*: `GhostLockTiming` has calls that take no time and calls that take any; nothing between.
  The 30 s of the lock may elapse at any moment in the runs with `lock_ttl`.

## 6. Plan

Done: pipeline, its abstract specification, its sleeps, and proofs; registry, its abstract
specification, and proofs; choice of a pod and metrics, and proofs; prompt
prefixes and cache points, and proofs.

Left, in this order:
1. The safety part of the liveness arguments: that a waiter's attempts only grow, and that no
   state but the final ones leaves a handler without a next action.
2. A process restart in `HandlerRoute`, with what a scraper computes from counters that go back to 0.
3. The eviction engine and kv-relay, when they do something.
