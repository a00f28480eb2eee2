---------------------------- MODULE HandlerRoute ----------------------------
(***************************************************************************)
(* What the handlers of one sidecar do once a lookup is decided            *)
(* (interceptor.rs): a hit is recorded; a miss whose request owns the      *)
(* Ghost-Lock is recorded and then picks a pod; a request that waited in   *)
(* vain, or whose lookup failed, picks a pod unrecorded.                   *)
(***************************************************************************)
EXTENDS Metrics, LeastLoaded

routeVars == <<metricVars, loadKey, pickVars>>

RouteInit == MetricsInit /\ PickInit

Undecided(r) == record[r].kind = "none" /\ call[r] = "no"

RouteHit(r) == Undecided(r) /\ BeginHit(r) /\ UNCHANGED <<loadKey, pickVars>>

RouteMiss(r) == Undecided(r) /\ BeginMiss(r) /\ UNCHANGED <<loadKey, pickVars>>

Recording(r) == RecordStep(r) /\ UNCHANGED <<loadKey, pickVars>>

\* cold_miss_target, after record_miss has returned or without any record.
ColdMissTarget(r) ==
  /\ Undecided(r) \/ (record[r].kind = "miss" /\ Recorded(r))
  /\ StartPick(r)
  /\ UNCHANGED metricVars

Picking(r) == PickStep(r) /\ UNCHANGED metricVars

LoadsChange == LoadsMove /\ UNCHANGED metricVars

RouteNext ==
  \/ \E r \in Request :
       \/ RouteHit(r) \/ RouteMiss(r) \/ Recording(r)
       \/ ColdMissTarget(r) \/ Picking(r)
  \/ LoadsChange

RouteSpec == RouteInit /\ [][RouteNext]_routeVars
============================================================================
