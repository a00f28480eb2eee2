-------------------------- MODULE InterceptorDocs --------------------------
(***************************************************************************)
(* Statements of the repository's documents and comments about the         *)
(* pipeline that its code does not keep.  Each is checked alone, and TLC   *)
(* shows a behaviour that breaks it.                                       *)
(***************************************************************************)
EXTENDS MCInterceptor

CONSTANTS
  Host,    \* machines
  HostAt   \* the machine an address reaches, seen from a sidecar

\* Every sidecar container reaches itself at the default address 127.0.0.1.
LoopbackIp == [s \in Sidecar |-> ip1]
OwnHost    == [s \in Sidecar |-> [ip \in Ip |-> IF s = s1 THEN "host1" ELSE "host2"]]

\* types.rs: "RAG documents - expires N seconds after creation".  The SET with
\* which `lookup` writes hit_count back drops the key's EX: after one hit the
\* entry of a fixed prefix stays for ever.
FixedEntriesExpire ==
  \A p \in Prefix :
    (PolicyOf[p] = "fixed" /\ cacheMap[p] # NoEntry) => ttlArmed[p]

\* redis_client.rs: "Only one pod across the cluster wins - all others retry".
\* A request that went cold without the lock deletes the winner's key at the
\* end of its warm-up task, and a third request wins beside the first.
OneWarmupPerPrefix ==
  \A r, t \in Request :
    (r # t /\ PrefixOf[r] = PrefixOf[t] /\ Warming(r)) => ~Warming(t)

\* README.md: "HIT -> route to warmed pod (skip prefill)".  The entry holds the
\* writer's own default_pod_ip; with the default 127.0.0.1 a hit at another
\* sidecar reaches that sidecar's host, which never saw the prefix.
HitReachesWarmedHost ==
  \A r \in Request :
    lookup[r].kind = "hit" =>
      \E w \in Request : /\ PrefixOf[w] = PrefixOf[r]
                         /\ lookup[w].kind = "miss"
                         /\ HostAt[SidecarOf[w]][lookup[w].ip]
                              = HostAt[SidecarOf[r]][lookup[r].ip]
============================================================================
