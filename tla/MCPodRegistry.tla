--------------------------- MODULE MCPodRegistry ---------------------------
(* Values for the constants of PodRegistry in its TLC runs. *)
EXTENDS PodRegistry, TLC

CONSTANTS p1, p2, c1, c2, h1, h2

\* h1 is handled by the first replica, h2 by the second.
OwnReplica == [h \in Beat |-> IF h = h1 THEN c1 ELSE c2]

\* p1's heartbeats arrive one tick old, p2's clock is one tick ahead.
Clocks == [p \in Pod |-> IF p = p1 THEN {1} ELSE {-1}]
============================================================================
