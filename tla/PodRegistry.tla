---------------------------- MODULE PodRegistry ----------------------------
(***************************************************************************)
(* The control plane's pod registry (control-plane/src/pod_registry.rs):   *)
(* heartbeat requests and one health-check loop per replica, all writing   *)
(* the same three Redis keys of a pod, one command at a time.              *)
(*                                                                         *)
(* Time passes in ticks.  An age is what `now - last_heartbeat` would be,  *)
(* negative where the pod's clock is ahead of the server's; the code only  *)
(* compares it with HEARTBEAT_TTL_SECS, so it stops at one more.  A time   *)
(* to live is the ticks a key written with EX has left.                    *)
(***************************************************************************)
EXTENDS Integers, FiniteSets

CONSTANTS
  Pod,         \* the inference pods, each with one pod_id
  Replica,     \* the control-plane processes
  Beat,        \* the heartbeat requests that may be in flight at once
  ReplicaOf,   \* the replica each of them is handled by
  Unreliable,  \* replicas that stop, or whose Redis commands fail, at any time
  Load,        \* the hbm_util values pods report
  LagOf,       \* how old last_heartbeat may be when a body of the pod arrives:
               \* delay and clock; negative when the pod's clock is ahead
  Ttl,         \* HEARTBEAT_TTL_SECS, in ticks
  Punctual,    \* pods whose heartbeats, once registered, succeed every Period
  Period,
  Absent, NoPod

ASSUME TtlAssumption     == Ttl \in Nat \ {0}
ASSUME LagAssumption     == LagOf \in [Pod -> SUBSET Int]
ASSUME ReplicaAssumption == ReplicaOf \in [Beat -> Replica]
\* A punctual pod's clock and period fit the TTL the control plane allows.
ASSUME PunctualAssumption ==
  /\ Punctual \subseteq Pod
  /\ Period \in Nat
  /\ Period < Ttl
  /\ \A p \in Punctual : \A lag \in LagOf[p] : lag + Period <= Ttl
ASSUME AbsentAssumption  == Absent \notin Int
ASSUME NoPodAssumption   == NoPod \notin Pod

VARIABLES
  running,   \* whether the pod still sends heartbeats
  upsert,    \* each heartbeat request: the command it is at, and its body
  cycle,     \* each replica's health check: the command, the pod, those to come
  registry,  \* HSET pod_registry: the age of the pod's stored last_heartbeat
  loadKey,   \* pod_load:{id}: its value and time to live; gone when that is 0
  beatTtl,   \* pod_heartbeat:{id}: its time to live
  quiet      \* history: ticks since a heartbeat of the pod last wrote a key

keyVars == <<registry, loadKey, beatTtl, quiet>>
vars == <<running, upsert, cycle, keyVars>>

Stale  == Ttl + 1
Age    == {age \in Int : age <= Stale}
Older(age) == IF age < Stale THEN age + 1 ELSE Stale
Aged(lag)  == IF lag < Stale THEN lag ELSE Stale

NoBeat  == [step |-> "none", pod |-> NoPod, age |-> 0, load |-> 0]
Asleep  == [step |-> "sleep", pod |-> NoPod, todo |-> {}]
Missing == [load |-> 0, ttl |-> 0]

Init ==
  /\ running = [p \in Pod |-> TRUE]
  /\ upsert = [h \in Beat |-> NoBeat]
  /\ cycle = [c \in Replica |-> Asleep]
  /\ registry = [p \in Pod |-> Absent]
  /\ loadKey = [p \in Pod |-> Missing]
  /\ beatTtl = [p \in Pod |-> 0]
  /\ quiet = [p \in Pod |-> Stale]

----------------------------------------------------------------------------
(* The commands on a pod's keys.                                           *)

Registered(p) == registry[p] # Absent
Routable(p)   == loadKey[p].ttl > 0

HSet(p, age) ==
  /\ registry' = [registry EXCEPT ![p] = age]
  /\ quiet' = [quiet EXCEPT ![p] = 0]
  /\ UNCHANGED <<loadKey, beatTtl>>

SlipTwiceTtl == 2 * Ttl
LoadTtl == Ttl

SetExLoad(p, load) ==
  /\ loadKey' = [loadKey EXCEPT ![p] = [load |-> load, ttl |-> LoadTtl]]
  /\ quiet' = [quiet EXCEPT ![p] = 0]
  /\ UNCHANGED <<registry, beatTtl>>

SetExBeat(p) ==
  /\ beatTtl' = [beatTtl EXCEPT ![p] = Ttl]
  /\ quiet' = [quiet EXCEPT ![p] = 0]
  /\ UNCHANGED <<registry, loadKey>>

HDel(p) ==
  /\ registry' = [registry EXCEPT ![p] = Absent]
  /\ UNCHANGED <<loadKey, beatTtl, quiet>>

SlipZeroed(p) ==
  /\ loadKey' = [loadKey EXCEPT ![p].load = 0]
  /\ UNCHANGED <<registry, beatTtl, quiet>>
DelLoad(p) ==
  /\ loadKey' = [loadKey EXCEPT ![p] = Missing]
  /\ UNCHANGED <<registry, beatTtl, quiet>>

DelBeat(p) ==
  /\ beatTtl' = [beatTtl EXCEPT ![p] = 0]
  /\ UNCHANGED <<registry, loadKey, quiet>>

----------------------------------------------------------------------------
(* upsert_pod: HSET, SET EX, SET EX.                                       *)

At(h, step) == upsert[h].step = step
ThenBeat(h, step) == upsert' = [upsert EXCEPT ![h].step = step]

Beating(p) == \E h \in Beat : upsert[h].pod = p

\* pod_heartbeat_handler: the pod is the body's pod_id, not the path's, and its
\* last_heartbeat is stored unchecked.  A punctual pod sends one at a time.
Arrive(h, p) ==
  /\ At(h, "none")
  /\ running[p]
  /\ p \in Punctual => ~Beating(p)
  /\ \E lag \in LagOf[p], load \in Load :
       upsert' = [upsert EXCEPT ![h] =
                    [step |-> "hset", pod |-> p, age |-> Aged(lag), load |-> load]]
  /\ UNCHANGED <<running, cycle, keyVars>>

WriteRecord(h) ==
  /\ At(h, "hset")
  /\ HSet(upsert[h].pod, upsert[h].age)
  /\ ThenBeat(h, "load")
  /\ UNCHANGED <<running, cycle>>

WriteLoad(h) ==
  /\ At(h, "load")
  /\ SetExLoad(upsert[h].pod, upsert[h].load)
  /\ ThenBeat(h, "beat")
  /\ UNCHANGED <<running, cycle>>

WriteBeat(h) ==
  /\ At(h, "beat")
  /\ SetExBeat(upsert[h].pod)
  /\ upsert' = [upsert EXCEPT ![h] = NoBeat]
  /\ UNCHANGED <<running, cycle>>

\* The command errs (500), the client leaves or the replica stops: the command
\* may have been applied, the following ones are not sent.
AbandonUpsert(h) ==
  /\ ReplicaOf[h] \in Unreliable
  /\ ~At(h, "none") /\ upsert[h].pod \notin Punctual
  /\ \/ At(h, "hset") /\ HSet(upsert[h].pod, upsert[h].age)
     \/ At(h, "load") /\ SetExLoad(upsert[h].pod, upsert[h].load)
     \/ At(h, "beat") /\ SetExBeat(upsert[h].pod)
     \/ UNCHANGED keyVars
  /\ upsert' = [upsert EXCEPT ![h] = NoBeat]
  /\ UNCHANGED <<running, cycle>>

----------------------------------------------------------------------------
(* health_check_loop: evict_dead_pods, and remove_pod for each dead one.   *)

SlipAtTtl(p) == Registered(p) /\ registry[p] >= Ttl
SlipOnlyRoutable(p) == Registered(p) /\ Routable(p) /\ registry[p] > Ttl
Dead(p) == Registered(p) /\ registry[p] > Ttl

Doing(c, step) == cycle[c].step = step
Rest(todo) == IF todo = {} THEN Asleep
              ELSE [step |-> "hdel", pod |-> NoPod, todo |-> todo]

\* HGETALL: every later decision of the cycle is made from this answer.
Scan(c) ==
  /\ Doing(c, "sleep")
  /\ cycle' = [cycle EXCEPT ![c] = Rest({p \in Pod : Dead(p)})]
  /\ UNCHANGED <<running, upsert, keyVars>>

RemoveRecord(c, p) ==
  /\ Doing(c, "hdel")
  /\ p \in cycle[c].todo
  /\ HDel(p)
  /\ cycle' = [cycle EXCEPT ![c] =
                 [step |-> "load", pod |-> p, todo |-> cycle[c].todo \ {p}]]
  /\ UNCHANGED <<running, upsert>>

RemoveLoad(c) ==
  /\ Doing(c, "load")
  /\ DelLoad(cycle[c].pod)
  /\ cycle' = [cycle EXCEPT ![c].step = "beat"]
  /\ UNCHANGED <<running, upsert>>

RemoveBeat(c) ==
  /\ Doing(c, "beat")
  /\ DelBeat(cycle[c].pod)
  /\ cycle' = [cycle EXCEPT ![c] = Rest(cycle[c].todo)]
  /\ UNCHANGED <<running, upsert>>

\* `?` ends the cycle at the first error; a replica that stops starts anew.
AbandonCycle(c) ==
  /\ c \in Unreliable
  /\ ~Doing(c, "sleep")
  /\ \/ Doing(c, "hdel") /\ \E p \in cycle[c].todo : HDel(p)
     \/ Doing(c, "load") /\ DelLoad(cycle[c].pod)
     \/ Doing(c, "beat") /\ DelBeat(cycle[c].pod)
     \/ UNCHANGED keyVars
  /\ cycle' = [cycle EXCEPT ![c] = Asleep]
  /\ UNCHANGED <<running, upsert>>

----------------------------------------------------------------------------
(* Pods and time.                                                          *)

Stop(p) ==
  /\ p \notin Punctual
  /\ running[p]
  /\ running' = [running EXCEPT ![p] = FALSE]
  /\ UNCHANGED <<upsert, cycle, keyVars>>

\* A punctual pod's heartbeat is through before the next tick, and comes before
\* a tick would make it late.
OnTime(p) == ~Beating(p) /\ (Registered(p) => quiet[p] < Period)

Less(n) == IF n > 0 THEN n - 1 ELSE 0

Tick ==
  /\ \A p \in Punctual : OnTime(p)
  /\ registry' = [p \in Pod |-> IF Registered(p) THEN Older(registry[p]) ELSE Absent]
  /\ loadKey' = [p \in Pod |-> IF loadKey[p].ttl > 1
                               THEN [loadKey[p] EXCEPT !.ttl = Less(@)] ELSE Missing]
  /\ beatTtl' = [p \in Pod |-> Less(beatTtl[p])]
  /\ quiet' = [p \in Pod |-> Older(quiet[p])]
  /\ UNCHANGED <<running, upsert, cycle>>

UpsertStep(h) == WriteRecord(h) \/ WriteLoad(h) \/ WriteBeat(h) \/ AbandonUpsert(h)

CycleStep(c) ==
  \/ Scan(c) \/ RemoveLoad(c) \/ RemoveBeat(c) \/ AbandonCycle(c)
  \/ \E p \in Pod : RemoveRecord(c, p)

Next ==
  \/ \E h \in Beat : UpsertStep(h) \/ \E p \in Pod : Arrive(h, p)
  \/ \E c \in Replica : CycleStep(c)
  \/ \E p \in Pod : Stop(p)
  \/ Tick

Spec == Init /\ [][Next]_vars

\* Started handlers and the loops run on, and time passes; a punctual pod goes on
\* sending, though requests of other pods are also handled.
FairSpec ==
  /\ Spec
  /\ \A h \in Beat : WF_vars(UpsertStep(h))
  /\ \A c \in Replica : WF_vars(CycleStep(c))
  /\ SF_vars(Tick)
  /\ \A p \in Punctual : SF_vars(\E h \in Beat : Arrive(h, p))
----------------------------------------------------------------------------
(* Properties.                                                             *)

\* Every variable keeps its type; stored ages and times to live stay in bounds.
TypeOK ==
  /\ running \in [Pod -> BOOLEAN]
  /\ upsert \in [Beat -> [step : {"none", "hset", "load", "beat"},
                          pod : Pod \cup {NoPod}, age : Age, load : Load \cup {0}]]
  /\ cycle \in [Replica -> [step : {"sleep", "hdel", "load", "beat"},
                            pod : Pod \cup {NoPod}, todo : SUBSET Pod]]
  /\ registry \in [Pod -> Age \cup {Absent}]
  /\ loadKey \in [Pod -> [load : Load \cup {0}, ttl : 0 .. Ttl]]
  /\ beatTtl \in [Pod -> 0 .. Ttl]
  /\ quiet \in [Pod -> 0 .. Stale]

\* "Expires if pod stops sending heartbeats": a pod none of whose heartbeats
\* wrote a key for Ttl ticks is out of routing, whether or not a health check
\* ever ran and in whatever order upserts and removals were cut short.
SilentPodsUnroutable ==
  \A p \in Pod : quiet[p] >= Ttl => ~Routable(p)

\* No health check, of any replica and from however old a scan, deregisters a
\* pod that keeps its period or takes its load key away.
PunctualPodsStay ==
  [][\A p \in Punctual : /\ Registered(p) => registry'[p] # Absent
                         /\ Routable(p) => loadKey'[p].ttl > 0]_vars

\* A pod that stopped is for ever out of the registry and of routing at last,
\* though its clock ran ahead of the server's and its last heartbeats are written,
\* or cut short, late, as long as one replica's health checks go through.
DeadPodsForgotten ==
  \A p \in Pod : ~running[p] ~> [](~Registered(p) /\ ~Routable(p))

\* To the sidecars, the heartbeats, health checks and clocks of all replicas amount
\* to PodLoads: a load key shows one reported value for one TTL from its writing
\* at most, whatever the other keys of the pod say.
Loads == INSTANCE PodLoads

ImplementsPodLoads == Loads!Spec
============================================================================
