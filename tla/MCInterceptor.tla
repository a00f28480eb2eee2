--------------------------- MODULE MCInterceptor ---------------------------
(* Values for the constants of Interceptor in its TLC runs. *)
EXTENDS Interceptor, TLC

CONSTANTS r1, r2, r3, s1, s2, p1, p2, ip1, ip2, pod1

Two   == {r1, r2}
Three == {r1, r2, r3}

\* All requests carry one prefix; r1 arrives at s1, the others at s2.
OnePrefix  == [r \in Request |-> p1]
TwoSidecar == [r \in Request |-> IF r = r1 THEN s1 ELSE s2]
OneSidecar == [r \in Request |-> s1]

\* r3 carries another prefix.
TwoPrefix == [r \in Request |-> IF r = r3 THEN p2 ELSE p1]

OwnIp == [s \in Sidecar |-> IF s = s1 THEN ip1 ELSE ip2]

AllFixed    == [p \in Prefix |-> "fixed"]
AllInfinite == [p \in Prefix |-> "infinite"]
Mixed       == [p \in Prefix |-> IF p = p1 THEN "fixed" ELSE "infinite"]

\* Requests at one sidecar with one prefix may be exchanged in safety runs.
AllAlike  == Permutations(Request)
R2R3Alike == Permutations({r2, r3})

NoFault == {}
Drops   == {"cancel", "crash"}
Errors  == {"redis"}
Losses  == {"redis", "cancel"}
Forgets == {"cancel", "crash", "entry_ttl"}
Leaks   == {"redis", "cancel", "crash", "lock_ttl"}
============================================================================
