---------------------------- MODULE LeastLoaded ----------------------------
(***************************************************************************)
(* The choice of a pod for a cold request: list_pod_loads of               *)
(* sidecar/src/redis_client.rs, sorted for cold_miss_target.  One KEYS,    *)
(* then one GET per key it listed, while the keys are rewritten, expire    *)
(* and are deleted; what the control plane does to them is PodLoads.       *)
(***************************************************************************)
EXTENDS Integers, SidecarRequests

CONSTANTS
  Pod,
  Util,        \* the hbm_util values pods report
  Half,        \* 0.5, in their unit
  Ttl,
  DefaultPod,  \* "default"
  Unread, NoTarget

ASSUME UtilAssumption == Util \subseteq Nat /\ Half \in Nat
ASSUME TtlAssumption == Ttl \in Nat \ {0}
ASSUME UnreadAssumption == Unread \notin Nat
ASSUME TargetAssumption == DefaultPod \notin Pod /\ NoTarget \notin Pod

VARIABLES
  loadKey,  \* as in PodLoads
  call,     \* each request's list_pod_loads: "no", "keys", "get" or "done"
  unread,   \* the listed keys it has not asked for yet
  seen,     \* the loads it has collected
  target,   \* the pod_id of its Miss
  steady,   \* history: the pods whose key has kept its value since the KEYS
  blind     \* history: the pods whose GET brought no value

pickVars == <<call, unread, seen, target, steady, blind>>

Loads == INSTANCE PodLoads WITH Load <- Util

Nothing == [p \in Pod |-> Unread]
Alive(p) == loadKey[p].ttl > 0

PickInit ==
  /\ Loads!Init
  /\ call = [r \in Request |-> "no"]
  /\ unread = [r \in Request |-> {}]
  /\ seen = [r \in Request |-> Nothing]
  /\ target = [r \in Request |-> NoTarget]
  /\ steady = [r \in Request |-> {}]
  /\ blind = [r \in Request |-> {}]

StartPick(r) ==
  /\ call[r] = "no"
  /\ call' = [call EXCEPT ![r] = "keys"]
  /\ UNCHANGED <<loadKey, unread, seen, target, steady, blind>>

\* KEYS pod_load:*
ListKeys(r) ==
  /\ call[r] = "keys"
  /\ LET listed == {p \in Pod : Alive(p)} IN
     /\ unread' = [unread EXCEPT ![r] = listed]
     /\ steady' = [steady EXCEPT ![r] = listed]
  /\ call' = [call EXCEPT ![r] = "get"]
  /\ UNCHANGED <<loadKey, seen, target, blind>>

Done(r, pod) ==
  /\ target' = [target EXCEPT ![r] = pod]
  /\ call' = [call EXCEPT ![r] = "done"]
  /\ unread' = [unread EXCEPT ![r] = {}]
  /\ seen' = [seen EXCEPT ![r] = Nothing]
  /\ steady' = [steady EXCEPT ![r] = {}]
  /\ blind' = [blind EXCEPT ![r] = {}]
  /\ UNCHANGED loadKey

\* No connection, or the KEYS fails: cold_miss_target takes "default".
ListFails(r) == call[r] = "keys" /\ Done(r, DefaultPod)

SeesLoad(r, p, load) ==
  /\ call[r] = "get" /\ p \in unread[r]
  /\ seen' = [seen EXCEPT ![r][p] = load]
  /\ unread' = [unread EXCEPT ![r] = @ \ {p}]
  /\ UNCHANGED <<loadKey, call, target, steady>>

GetLoad(r, p) ==
  /\ Alive(p)
  /\ SeesLoad(r, p, loadKey[p].load)
  /\ UNCHANGED blind

\* `.unwrap_or(0.5)`: a key that is gone by now, or a GET that fails.
SlipUnwrapOrZero == 0
UnwrapOr == Half

GetNothing(r, p) ==
  /\ SeesLoad(r, p, UnwrapOr)
  /\ blind' = [blind EXCEPT ![r] = @ \cup {p}]

Collected(r) == {p \in Pod : seen[r][p] # Unread}

\* The stable sort by load leaves equals in the order of KEYS, which is any.
SlipDescending(r, p) == \A q \in Collected(r) : seen[r][q] <= seen[r][p]
SortsFirst(r, p) == \A q \in Collected(r) : seen[r][p] <= seen[r][q]

Choose(r, p) ==
  /\ call[r] = "get" /\ unread[r] = {}
  /\ p \in Collected(r) /\ SortsFirst(r, p)
  /\ Done(r, p)

ChooseDefault(r) ==
  /\ call[r] = "get" /\ unread[r] = {} /\ Collected(r) = {}
  /\ Done(r, DefaultPod)

PickStep(r) ==
  \/ ListKeys(r) \/ ListFails(r) \/ ChooseDefault(r)
  \/ \E p \in Pod : GetLoad(r, p) \/ GetNothing(r, p) \/ Choose(r, p)

\* Heartbeats, health checks and expiry, as PodLoads allows them.
LoadsMove ==
  /\ Loads!Next
  /\ steady' = [r \in Request |->
       {p \in steady[r] : loadKey'[p].ttl > 0 /\ loadKey'[p].load = loadKey[p].load}]
  /\ UNCHANGED <<call, unread, seen, target, blind>>

PickNext == LoadsMove \/ \E r \in Request : StartPick(r) \/ PickStep(r)

PickSpec == PickInit /\ [][PickNext]_<<loadKey, pickVars>>
----------------------------------------------------------------------------
(* Properties.                                                             *)

Chooses(r) == call[r] = "get" /\ call'[r] = "done"

\* Pods whose reported load the request has really compared.
Compared(r) == steady[r] \ blind[r]

\* "Least loaded pod": among the pods whose load stood still over the KEYS and the
\* GETs, however others come, go and change, the chosen one has the least.
LeastOfSteady ==
  [][\A r \in Request :
       Chooses(r) =>
         \A p, q \in Compared(r) :
           target'[r] = p => loadKey[p].load <= loadKey[q].load]_<<loadKey, pickVars>>

\* A pod whose load is unknown, its key gone since the KEYS or its GET failed, is
\* preferred to busy pods only: never to a live one below half load.
BlindOnlyOverBusy ==
  [][\A r \in Request :
       (Chooses(r) /\ target'[r] \in blind[r])
         => \A q \in Compared(r) : loadKey[q].load >= Half]_<<loadKey, pickVars>>
============================================================================
