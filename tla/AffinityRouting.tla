-------------------------- MODULE AffinityRouting --------------------------
(***************************************************************************)
(* What the sidecars promise together, without locks, keys or retries: a   *)
(* request is routed at most once; raw to the configured upstream, cold to *)
(* an address that thereby holds its prefix, or warm to an address that    *)
(* already does; and it ends, answered or dropped, at most once.           *)
(***************************************************************************)
CONSTANTS Request, Prefix, Ip, PrefixOf, NoIp

VARIABLES
  route,    \* where each request was sent, and on what ground
  status,   \* "open", "answered" (relayed or an error) or "dropped"
  warmed    \* the addresses that were sent each prefix to prefill

vars == <<route, status, warmed>>

Unrouted == [kind |-> "none", ip |-> NoIp]

Init ==
  /\ route = [r \in Request |-> Unrouted]
  /\ status = [r \in Request |-> "open"]
  /\ warmed = [p \in Prefix |-> {}]

Routable(r) == route[r] = Unrouted /\ status[r] = "open"

Raw(r) ==
  /\ Routable(r)
  /\ route' = [route EXCEPT ![r].kind = "raw"]
  /\ UNCHANGED <<status, warmed>>

Cold(r, ip) ==
  /\ Routable(r)
  /\ route' = [route EXCEPT ![r] = [kind |-> "miss", ip |-> ip]]
  /\ warmed' = [warmed EXCEPT ![PrefixOf[r]] = @ \cup {ip}]
  /\ UNCHANGED status

Warm(r, ip) ==
  /\ Routable(r)
  /\ ip \in warmed[PrefixOf[r]]
  /\ route' = [route EXCEPT ![r] = [kind |-> "hit", ip |-> ip]]
  /\ UNCHANGED <<status, warmed>>

Answer(r) ==
  /\ status[r] = "open"
  /\ status' = [status EXCEPT ![r] = "answered"]
  /\ UNCHANGED <<route, warmed>>

\* Requests are dropped one by one or, with their sidecar, together.
Drop(S) ==
  /\ \A r \in S : status[r] = "open"
  /\ status' = [r \in Request |-> IF r \in S THEN "dropped" ELSE status[r]]
  /\ UNCHANGED <<route, warmed>>

Next ==
  \/ \E r \in Request : Raw(r) \/ Answer(r)
  \/ \E r \in Request, ip \in Ip : Cold(r, ip) \/ Warm(r, ip)
  \/ \E S \in SUBSET Request : Drop(S)

Spec == Init /\ [][Next]_vars
============================================================================
