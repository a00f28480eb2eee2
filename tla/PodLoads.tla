------------------------------ MODULE PodLoads ------------------------------
(***************************************************************************)
(* What the control plane promises the sidecars of the pod_load keys: a    *)
(* reported value stands as reported for one TTL, then goes; it may go     *)
(* earlier; nothing else ever shows.                                       *)
(***************************************************************************)
EXTENDS Integers

CONSTANTS Pod, Load, Ttl

VARIABLE loadKey  \* pod_load:{id}: its value and the ticks it has left

Missing == [load |-> 0, ttl |-> 0]

Init == loadKey = [p \in Pod |-> Missing]

Report(p, load) == loadKey' = [loadKey EXCEPT ![p] = [load |-> load, ttl |-> Ttl]]

Vanish(p) == loadKey' = [loadKey EXCEPT ![p] = Missing]

Aged(key) == IF key.ttl > 1 THEN [key EXCEPT !.ttl = @ - 1] ELSE Missing

Tick == loadKey' = [p \in Pod |-> Aged(loadKey[p])]

Next ==
  \/ \E p \in Pod, load \in Load : Report(p, load)
  \/ \E p \in Pod : Vanish(p)
  \/ Tick

Spec == Init /\ [][Next]_loadKey
============================================================================
