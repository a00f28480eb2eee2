--------------------- MODULE InterceptorAffinityProofs ---------------------
(***************************************************************************)
(* The pipeline routes as AffinityRouting says: the entries in Redis, and  *)
(* the copies handlers hold across awaits, only ever name an address that  *)
(* a cold request of the same prefix was sent to.                          *)
(***************************************************************************)
EXTENDS InterceptorProofs

USE DEF At, Goto, FirstLookup, LockFree, LockTaken, LockDeleted, SetNxAccepts,
        Count, handlerVars, redisVars, vars

\* Some request of prefix p was routed cold to ip.
ColdAt(p, ip) ==
  \E w \in Request : /\ PrefixOf[w] = p
                     /\ lookup[w].kind = "miss"
                     /\ lookup[w].ip = ip

WarmthInv ==
  /\ \A p \in Prefix : cacheMap[p] # NoEntry => ColdAt(p, cacheMap[p].ip)
  /\ \A r \in Request : found[r] # NoEntry => ColdAt(PrefixOf[r], found[r].ip)
  /\ \A r \in Request : lookup[r].kind = "hit" => ColdAt(PrefixOf[r], lookup[r].ip)

\* A routed request is not routed again.
LEMMA RoutedStays ==
  ASSUME Base, [Next]_vars, NEW r \in Request, lookup[r].kind # "none"
  PROVE  lookup'[r] = lookup[r]
<1> USE DEF Base, TypeInv, TypeOK, Phases, Unrouted, Seeking, NoLookup
<1>1. CASE HandlerStep(r)
  <2>1. CASE ProxyRaw(r) \/ Touch(r) \/ RouteCold(r)
    BY <2>1 DEF ProxyRaw, Touch, RouteCold
  <2>2. CASE UNCHANGED lookup
    BY <2>2
  <2> QED BY <1>1, <2>1, <2>2 DEF HandlerStep, RejectBody, StartLookup, GetHit, GetMiss,
        LookupFails, AcquireLock, LockContended, AcquireFails, Backoff, GiveUp, CheckLocked,
        CheckReleased, CheckFails, Incr, FirstByte, ForwardFails, Relay
<1>2. CASE TaskStep(r) \/ Cancel(r)
  BY <1>2 DEF TaskStep, TaskWrite, TaskRelease, TaskReleaseFails, Cancel
<1>3. CASE ~HandlerStep(r) /\ ~TaskStep(r) /\ ~Cancel(r)
  BY <1>3, Elsewhere DEF Stopped
<1> QED BY <1>1, <1>2, <1>3

LEMMA ColdStays ==
  ASSUME Base, [Next]_vars, NEW p \in Prefix, NEW ip, ColdAt(p, ip)
  PROVE  ColdAt(p, ip)'
<1>1. PICK w \in Request : PrefixOf[w] = p /\ lookup[w].kind = "miss" /\ lookup[w].ip = ip
  BY DEF ColdAt
<1>2. lookup'[w] = lookup[w]
  BY <1>1, RoutedStays
<1> QED BY <1>1, <1>2 DEF ColdAt

\* An entry that is new was written back by a hit or published by a warm-up.
LEMMA EntryChange ==
  ASSUME Base, [Next]_vars, NEW p \in Prefix,
         cacheMap'[p] # cacheMap[p], cacheMap'[p] # NoEntry
  PROVE  \E r \in Request :
           /\ PrefixOf[r] = p
           /\ \/ pc[r] = "touch" /\ cacheMap'[p] = Touched(found[r])
              \/ task[r] = "write" /\ cacheMap'[p] = WarmEntry(r)
<1> USE DEF Base, TypeInv, TypeOK
<1> DEFINE Written(r) ==
      /\ PrefixOf[r] = p
      /\ \/ pc[r] = "touch" /\ cacheMap'[p] = Touched(found[r])
         \/ task[r] = "write" /\ cacheMap'[p] = WarmEntry(r)
<1>1. ASSUME NEW r \in Request, HandlerStep(r) PROVE Written(r)
  <2>1. CASE Touch(r) \/ LookupFails(r) \/ AcquireFails(r) \/ Incr(r)
    BY <2>1 DEF Touch, LookupFails, AcquireFails, Incr, CommandLands, WriteBack, StoreEntry
  <2>2. CASE UNCHANGED cacheMap
    BY <2>2
  <2> QED BY <1>1, <2>1, <2>2 DEF HandlerStep, RejectBody, ProxyRaw, StartLookup,
        GetHit, GetMiss, AcquireLock, LockContended, Backoff, GiveUp,
        CheckLocked, CheckReleased, CheckFails, RouteCold, FirstByte, ForwardFails, Relay
<1>2. ASSUME NEW r \in Request, TaskStep(r) PROVE Written(r)
  BY <1>2 DEF TaskStep, TaskWrite, TaskRelease, TaskReleaseFails, WriteEntry, StoreEntry
<1>3. ASSUME NEW r \in Request, Cancel(r) PROVE Written(r)
  BY <1>3 DEF Cancel, CommandLands, WriteBack, StoreEntry
<1>4. ASSUME NEW s \in Sidecar, Crash(s) PROVE FALSE
  BY <1>4 DEF Crash
<1>5. ASSUME NEW q \in Prefix, LockExpire(q) \/ EntryExpire(q) PROVE FALSE
  BY <1>5 DEF LockExpire, EntryExpire, StoreEntry
<1> QED BY <1>1, <1>2, <1>3, <1>4, <1>5 DEF Next

LEMMA WarmthInit == Init => WarmthInv
BY DEF Init, WarmthInv, NoLookup

LEMMA WarmthStep == Base /\ WarmthInv /\ [Next]_vars => WarmthInv'
<1> SUFFICES ASSUME Base, WarmthInv, [Next]_vars PROVE WarmthInv'
  OBVIOUS
<1> USE DEF Base, TypeInv, TypeOK
<1>h. \A r \in Request : pc[r] = "touch" => found[r] # NoEntry
  BY NoEntryAssumption DEF HoldsEntry
<1>1. ASSUME NEW p \in Prefix, NEW e, e = cacheMap'[p], e # NoEntry
      PROVE  ColdAt(p, e.ip)'
  <2>1. CASE e = cacheMap[p]
    BY <1>1, <2>1, ColdStays DEF WarmthInv
  <2>2. CASE e # cacheMap[p]
    <3>1. PICK r \in Request : /\ PrefixOf[r] = p
                               /\ \/ pc[r] = "touch" /\ e = Touched(found[r])
                                  \/ task[r] = "write" /\ e = WarmEntry(r)
      BY <1>1, <2>2, EntryChange
    <3>2. CASE pc[r] = "touch" /\ e = Touched(found[r])
      <4>1. e.ip = found[r].ip BY <3>2 DEF HoldsEntry, Touched, Entry
      <4> QED BY <1>h, <3>1, <3>2, <4>1, ColdStays DEF WarmthInv
    <3>3. CASE task[r] = "write" /\ e = WarmEntry(r)
      <4>1. e.ip = lookup[r].ip BY <3>3 DEF WarmEntry
      <4>2. lookup[r].kind = "miss" BY <3>3 DEF Phases
      <4>3. ColdAt(p, e.ip) BY <3>1, <4>1, <4>2 DEF ColdAt
      <4> QED BY <4>3, ColdStays
    <3> QED BY <3>1, <3>2, <3>3
  <2> QED BY <2>1, <2>2
<1>2. ASSUME NEW r \in Request, NEW e, e = found'[r], e # NoEntry
      PROVE  ColdAt(PrefixOf[r], e.ip)'
  <2>1. e = found[r] \/ e = cacheMap[PrefixOf[r]]
    <3>1. ASSUME NEW t \in Request, HandlerStep(t)
          PROVE  e = found[r] \/ e = cacheMap[PrefixOf[r]]
      <4>1. CASE GetHit(t) \/ Touch(t) \/ LookupFails(t)
        BY <1>2, <4>1 DEF GetHit, Touch, LookupFails
      <4>2. CASE UNCHANGED found
        BY <1>2, <4>2
      <4> QED BY <3>1, <4>1, <4>2 DEF HandlerStep, RejectBody, ProxyRaw, StartLookup,
            GetMiss, AcquireLock, LockContended, AcquireFails, Backoff, GiveUp, CheckLocked,
            CheckReleased, CheckFails, Incr, RouteCold, FirstByte, ForwardFails, Relay
    <3>2. ASSUME NEW t \in Request, TaskStep(t) \/ Cancel(t) PROVE e = found[r]
      BY <1>2, <3>2 DEF TaskStep, TaskWrite, TaskRelease, TaskReleaseFails, Cancel
    <3>3. ASSUME NEW s \in Sidecar, Crash(s) PROVE e = found[r]
      BY <1>2, <3>3 DEF Crash
    <3>4. ASSUME NEW q \in Prefix, LockExpire(q) \/ EntryExpire(q) PROVE e = found[r]
      BY <1>2, <3>4 DEF LockExpire, EntryExpire
    <3>5. ASSUME UNCHANGED vars PROVE e = found[r]
      BY <1>2, <3>5
    <3> QED BY <3>1, <3>2, <3>3, <3>4, <3>5 DEF Next
  <2>2. ColdAt(PrefixOf[r], e.ip)
    BY <1>2, <2>1, PrefixAssumption DEF WarmthInv
  <2> QED BY <2>2, ColdStays, PrefixAssumption
<1>3. ASSUME NEW r \in Request, NEW l, l = lookup'[r], l.kind = "hit"
      PROVE  ColdAt(PrefixOf[r], l.ip)'
  <2>1. CASE l = lookup[r]
    BY <1>3, <2>1, ColdStays, PrefixAssumption DEF WarmthInv
  <2>2. CASE l # lookup[r]
    <3>1. Touch(r)
      <4>1. CASE HandlerStep(r)
        <5>1. CASE ProxyRaw(r) \/ RouteCold(r)
          BY <1>3, <5>1 DEF ProxyRaw, RouteCold, RawLookup
        <5>2. CASE UNCHANGED lookup
          BY <1>3, <2>2, <5>2
        <5> QED BY <4>1, <5>1, <5>2 DEF HandlerStep, RejectBody, StartLookup, GetHit, GetMiss,
              LookupFails, AcquireLock, LockContended, AcquireFails, Backoff, GiveUp,
              CheckLocked, CheckReleased, CheckFails, Incr, FirstByte, ForwardFails, Relay
      <4>2. CASE TaskStep(r) \/ Cancel(r)
        BY <1>3, <2>2, <4>2 DEF TaskStep, TaskWrite, TaskRelease, TaskReleaseFails, Cancel
      <4>3. CASE ~HandlerStep(r) /\ ~TaskStep(r) /\ ~Cancel(r)
        BY <1>3, <2>2, <4>3, Elsewhere DEF Stopped
      <4> QED BY <4>1, <4>2, <4>3
    <3>2. found[r] # NoEntry /\ l.ip = found[r].ip
      BY <1>3, <1>h, <3>1 DEF Touch
    <3> QED BY <3>2, ColdStays, PrefixAssumption DEF WarmthInv
  <2> QED BY <2>1, <2>2
<1> QED BY <1>1, <1>2, <1>3 DEF WarmthInv

\* A hit goes where a cold request of its prefix went, though the entry was
\* read before an await, may have expired, or was written back over a newer one.
THEOREM HitsAreWarm == Spec => []HitFollowsWarmup
<1>1. Spec => [](Base /\ WarmthInv)
  BY BaseInit, BaseStep, WarmthInit, WarmthStep, PTL DEF Spec
<1>2. WarmthInv => HitFollowsWarmup
  BY DEF WarmthInv, ColdAt, HitFollowsWarmup
<1> QED BY <1>1, <1>2, PTL

----------------------------------------------------------------------------
(* The refinement.                                                         *)

RouteBar  == [r \in Request |-> [kind |-> lookup[r].kind, ip |-> lookup[r].ip]]
StatusBar == [r \in Request |-> Status(r)]
WarmedBar == [p \in Prefix |->
                {lookup[r].ip : r \in {t \in Request : PrefixOf[t] = p
                                                       /\ lookup[t].kind = "miss"}}]

LEMMA AffinityInit == Init => Affinity!Init
<1> SUFFICES ASSUME Init PROVE Affinity!Init
  OBVIOUS
<1>1. RouteBar = [r \in Request |-> Affinity!Unrouted]
  BY DEF Init, RouteBar, NoLookup, Affinity!Unrouted
<1>2. StatusBar = [r \in Request |-> "open"]
  BY DEF Init, StatusBar, Status, Answered
<1>3. WarmedBar = [p \in Prefix |-> {}]
  BY DEF Init, WarmedBar, NoLookup
<1> QED BY <1>1, <1>2, <1>3 DEF Affinity!Init, RouteBar, StatusBar, WarmedBar

LEMMA Stutters ==
  ASSUME UNCHANGED lookup, \A r \in Request : Status(r)' = Status(r)
  PROVE  UNCHANGED Affinity!vars
<1>1. UNCHANGED <<RouteBar, WarmedBar>> BY DEF RouteBar, WarmedBar
<1>2. UNCHANGED StatusBar BY DEF StatusBar
<1> QED BY <1>1, <1>2 DEF Affinity!vars, RouteBar, StatusBar, WarmedBar

\* Steps that leave the routes alone and answer at most one request.
LEMMA Answers ==
  ASSUME Base, UNCHANGED lookup, NEW r \in Request, Status(r) = "open",
         Status(r)' = "answered", \A t \in Request \ {r} : Status(t)' = Status(t)
  PROVE  Affinity!Next
<1>1. UNCHANGED <<RouteBar, WarmedBar>> BY DEF RouteBar, WarmedBar
<1>2. StatusBar' = [StatusBar EXCEPT ![r] = "answered"]
  BY DEF StatusBar
<1>3. StatusBar[r] = "open" BY DEF StatusBar
<1>4. Affinity!Answer(r)
  BY <1>1, <1>2, <1>3 DEF Affinity!Answer, RouteBar, StatusBar, WarmedBar
<1> QED BY <1>4 DEF Affinity!Next

LEMMA Drops ==
  ASSUME Base, UNCHANGED lookup, NEW S \in SUBSET Request,
         \A r \in S : Status(r) = "open" /\ Status(r)' = "dropped",
         \A r \in Request \ S : Status(r)' = Status(r)
  PROVE  Affinity!Next
<1>1. UNCHANGED <<RouteBar, WarmedBar>> BY DEF RouteBar, WarmedBar
<1>2. StatusBar' = [r \in Request |-> IF r \in S THEN "dropped" ELSE StatusBar[r]]
  BY DEF StatusBar
<1>3. \A r \in S : StatusBar[r] = "open" BY DEF StatusBar
<1>4. Affinity!Drop(S)
  BY <1>1, <1>2, <1>3 DEF Affinity!Drop, RouteBar, StatusBar, WarmedBar
<1> QED BY <1>4 DEF Affinity!Next

\* A routed request is routed for the first time, with its status as it was.
LEMMA Routes ==
  ASSUME Base, NEW r \in Request, lookup[r] = NoLookup, Status(r) = "open",
         \A t \in Request : Status(t)' = Status(t),
         NEW l, lookup' = [lookup EXCEPT ![r] = l],
         \/ l = RawLookup
         \/ l.kind = "hit" /\ l.ip \in Ip /\ ColdAt(PrefixOf[r], l.ip)
         \/ l.kind = "miss" /\ l.ip \in Ip
  PROVE  Affinity!Next
<1> USE DEF Base, TypeInv, TypeOK
<1>1. UNCHANGED StatusBar BY DEF StatusBar
<1>2. RouteBar[r] = Affinity!Unrouted /\ StatusBar[r] = "open"
  BY DEF RouteBar, StatusBar, NoLookup, Affinity!Unrouted
<1>3. RouteBar' = [RouteBar EXCEPT ![r] = [kind |-> l.kind, ip |-> l.ip]]
  BY DEF RouteBar
<1>4. CASE l = RawLookup
  <2>1. RouteBar' = [RouteBar EXCEPT ![r].kind = "raw"]
    <3>1. RouteBar[r].ip = NoIp BY <1>2 DEF Affinity!Unrouted
    <3> QED BY <1>2, <1>3, <1>4, <3>1 DEF RouteBar, RawLookup, Affinity!Unrouted
  <2>2. UNCHANGED WarmedBar
    <3>1. \A t \in Request : lookup'[t].kind = "miss" <=> lookup[t].kind = "miss"
      BY <1>4 DEF RawLookup, NoLookup
    <3>2. \A t \in Request : lookup[t].kind = "miss" => lookup'[t] = lookup[t]
      BY DEF NoLookup
    <3> QED BY <3>1, <3>2 DEF WarmedBar
  <2>3. Affinity!Raw(r)
    BY <1>1, <1>2, <2>1, <2>2 DEF Affinity!Raw, Affinity!Routable, Affinity!Unrouted,
       RouteBar, StatusBar, WarmedBar
  <2> QED BY <2>3 DEF Affinity!Next
<1>5. CASE l.kind = "hit" /\ l.ip \in Ip /\ ColdAt(PrefixOf[r], l.ip)
  <2>1. UNCHANGED WarmedBar
    <3>1. \A t \in Request : lookup'[t].kind = "miss" <=> lookup[t].kind = "miss"
      BY <1>5 DEF NoLookup
    <3>2. \A t \in Request : lookup[t].kind = "miss" => lookup'[t] = lookup[t]
      BY DEF NoLookup
    <3> QED BY <3>1, <3>2 DEF WarmedBar
  <2>2. l.ip \in WarmedBar[PrefixOf[r]]
    BY <1>5, PrefixAssumption DEF ColdAt, WarmedBar
  <2>3. Affinity!Warm(r, l.ip)
    BY <1>1, <1>2, <1>3, <1>5, <2>1, <2>2 DEF Affinity!Warm, Affinity!Routable,
       Affinity!Unrouted, RouteBar, StatusBar, WarmedBar
  <2> QED BY <1>5, <2>3 DEF Affinity!Next
<1>6. CASE l.kind = "miss" /\ l.ip \in Ip
  <2>1. \A t \in Request : lookup'[t].kind = "miss" <=> (lookup[t].kind = "miss" \/ t = r)
    BY <1>6
  <2>2. \A t \in Request : lookup[t].kind = "miss" => lookup'[t] = lookup[t]
    BY DEF NoLookup
  <2>3. WarmedBar' = [WarmedBar EXCEPT ![PrefixOf[r]] = @ \cup {l.ip}]
    <3> SUFFICES ASSUME NEW p \in Prefix
                 PROVE  WarmedBar'[p] = IF p = PrefixOf[r] THEN WarmedBar[p] \cup {l.ip}
                                        ELSE WarmedBar[p]
      BY PrefixAssumption DEF WarmedBar
    <3>1. WarmedBar[p] = {lookup[t].ip : t \in {u \in Request : PrefixOf[u] = p
                                                  /\ lookup[u].kind = "miss"}}
      BY DEF WarmedBar
    <3>2. WarmedBar'[p] = {lookup'[t].ip : t \in {u \in Request : PrefixOf[u] = p
                                                  /\ lookup'[u].kind = "miss"}}
      BY DEF WarmedBar
    <3>3. lookup'[r].ip = l.ip /\ lookup'[r].kind = "miss" BY <1>6
    <3>4. \A t \in Request : (PrefixOf[t] = p /\ lookup'[t].kind = "miss")
             => lookup'[t].ip \in (IF p = PrefixOf[r] THEN WarmedBar[p] \cup {l.ip}
                                   ELSE WarmedBar[p])
      BY <2>1, <2>2, <3>1, <3>3
    <3>5. \A t \in Request : (PrefixOf[t] = p /\ lookup[t].kind = "miss")
             => lookup[t].ip \in WarmedBar'[p]
      BY <2>1, <2>2, <3>2
    <3>6. p = PrefixOf[r] => l.ip \in WarmedBar'[p]
      BY <3>2, <3>3
    <3> QED BY <3>1, <3>2, <3>4, <3>5, <3>6
  <2>4. Affinity!Cold(r, l.ip)
    BY <1>1, <1>2, <1>3, <1>6, <2>3 DEF Affinity!Cold, Affinity!Routable,
       Affinity!Unrouted, RouteBar, StatusBar, WarmedBar
  <2> QED BY <1>6, <2>4 DEF Affinity!Next
<1> QED BY <1>4, <1>5, <1>6

\* A step that moves one handler between labels of the same status stutters.
LEMMA HandlerMaps ==
  ASSUME Base, WarmthInv, NEW r \in Request, HandlerStep(r)
  PROVE  Affinity!Next \/ UNCHANGED Affinity!vars
<1> USE DEF Base, TypeInv, TypeOK, Status, Answered
<1>1. CASE ProxyRaw(r)
  <2>1. lookup[r] = NoLookup /\ lookup' = [lookup EXCEPT ![r] = RawLookup]
    BY <1>1 DEF ProxyRaw, Phases, Unrouted, Seeking
  <2>2. Status(r) = "open" /\ \A t \in Request : Status(t)' = Status(t)
    BY <1>1 DEF ProxyRaw
  <2> QED BY <2>1, <2>2, Routes
<1>2. CASE Touch(r)
  <2> DEFINE l == [kind |-> "hit", ip |-> found[r].ip, pod |-> found[r].pod]
  <2>1. lookup[r] = NoLookup /\ lookup' = [lookup EXCEPT ![r] = l]
    BY <1>2 DEF Touch, Phases, Unrouted, Seeking
  <2>2. Status(r) = "open" /\ \A t \in Request : Status(t)' = Status(t)
    <3>1. AfterHit(r) \in {"incr", "forward"} BY DEF AfterHit
    <3> QED BY <1>2, <3>1 DEF Touch
  <2>3. found[r] \in Entry /\ found[r] # NoEntry
    BY <1>2, NoEntryAssumption DEF Touch, HoldsEntry
  <2>4. l.kind = "hit" /\ l.ip \in Ip /\ ColdAt(PrefixOf[r], l.ip)
    BY <2>3 DEF WarmthInv, Entry
  <2> HIDE DEF l
  <2> QED BY <2>1, <2>2, <2>4, Routes
<1>3. CASE RouteCold(r)
  <2>1. PICK pod \in Pod \cup {DefaultPod} :
          lookup' = [lookup EXCEPT ![r] = [kind |-> "miss", ip |-> ColdIp(r), pod |-> pod]]
    BY <1>3 DEF RouteCold
  <2> DEFINE l == [kind |-> "miss", ip |-> ColdIp(r), pod |-> pod]
  <2>2. lookup[r] = NoLookup BY <1>3 DEF RouteCold, Phases, Unrouted
  <2>3. Status(r) = "open" /\ \A t \in Request : Status(t)' = Status(t)
    BY <1>3 DEF RouteCold
  <2>4. lookup' = [lookup EXCEPT ![r] = l] BY <2>1
  <2>5. l.kind = "miss" /\ l.ip \in Ip BY SidecarAssumption, IpAssumption DEF ColdIp
  <2> HIDE DEF l
  <2> QED BY <2>2, <2>3, <2>4, <2>5, Routes
<1>4. CASE RejectBody(r) \/ ForwardFails(r) \/ Relay(r)
  <2>1. /\ UNCHANGED lookup
        /\ Status(r) = "open" /\ Status(r)' = "answered"
        /\ \A t \in Request \ {r} : Status(t)' = Status(t)
    BY <1>4 DEF RejectBody, ForwardFails, Relay
  <2> QED BY <2>1, Answers
<1>5. CASE StartLookup(r) \/ GetHit(r) \/ GetMiss(r) \/ LookupFails(r) \/ AcquireLock(r)
           \/ LockContended(r) \/ AcquireFails(r) \/ Backoff(r) \/ GiveUp(r)
  <2>1. UNCHANGED lookup /\ \A t \in Request : Status(t)' = Status(t)
    BY <1>5 DEF StartLookup, GetHit, GetMiss, LookupFails, AcquireLock, LockContended,
       AcquireFails, Backoff, GiveUp
  <2> QED BY <2>1, Stutters
<1>6. CASE CheckLocked(r) \/ CheckReleased(r) \/ CheckFails(r) \/ Incr(r) \/ FirstByte(r)
  <2>1. UNCHANGED lookup /\ \A t \in Request : Status(t)' = Status(t)
    BY <1>6 DEF CheckLocked, CheckReleased, CheckFails, Incr, FirstByte
  <2> QED BY <2>1, Stutters
<1> QED BY <1>1, <1>2, <1>3, <1>4, <1>5, <1>6 DEF HandlerStep

LEMMA AffinityStep ==
  Base /\ WarmthInv /\ [Next]_vars => [Affinity!Next]_(Affinity!vars)
<1> SUFFICES ASSUME Base, WarmthInv, [Next]_vars
             PROVE  Affinity!Next \/ UNCHANGED Affinity!vars
  OBVIOUS
<1> USE DEF Base, TypeInv, TypeOK
<1>1. ASSUME NEW r \in Request, HandlerStep(r)
      PROVE  Affinity!Next \/ UNCHANGED Affinity!vars
  BY <1>1, HandlerMaps
<1>2. ASSUME NEW r \in Request, TaskStep(r) PROVE UNCHANGED Affinity!vars
  <2>1. UNCHANGED lookup /\ \A t \in Request : Status(t)' = Status(t)
    BY <1>2 DEF TaskStep, TaskWrite, TaskRelease, TaskReleaseFails, Status
  <2> QED BY <2>1, Stutters
<1>3. ASSUME NEW r \in Request, Cancel(r) PROVE Affinity!Next
  <2> DEFINE S == {t \in Request : t = r}
  <2>1. UNCHANGED lookup BY <1>3 DEF Cancel
  <2>2. \A t \in S : Status(t) = "open" /\ Status(t)' = "dropped"
    BY <1>3 DEF Cancel, Status, Running, Waiting, Answered
  <2>3. \A t \in Request \ S : Status(t)' = Status(t)
    BY <1>3 DEF Cancel, Status
  <2> QED BY <2>1, <2>2, <2>3, Drops
<1>4. ASSUME NEW s \in Sidecar, Crash(s) PROVE Affinity!Next
  <2> DEFINE S == {r \in Request : SidecarOf[r] = s /\ pc[r] \in Running}
  <2>1. UNCHANGED lookup BY <1>4 DEF Crash
  <2>2. \A t \in S : Status(t) = "open" /\ Status(t)' = "dropped"
    BY <1>4 DEF Crash, Status, Running, Waiting, Answered
  <2>3. \A t \in Request \ S : Status(t)' = Status(t)
    BY <1>4 DEF Crash, Status
  <2> QED BY <2>1, <2>2, <2>3, Drops
<1>5. ASSUME NEW p \in Prefix, LockExpire(p) \/ EntryExpire(p) PROVE UNCHANGED Affinity!vars
  <2>1. UNCHANGED lookup /\ \A t \in Request : Status(t)' = Status(t)
    BY <1>5 DEF LockExpire, EntryExpire, Status
  <2> QED BY <2>1, Stutters
<1>6. ASSUME UNCHANGED vars PROVE UNCHANGED Affinity!vars
  <2>1. UNCHANGED lookup /\ \A t \in Request : Status(t)' = Status(t)
    BY <1>6 DEF Status
  <2> QED BY <2>1, Stutters
<1> QED BY <1>1, <1>2, <1>3, <1>4, <1>5, <1>6 DEF Next

\* The pipeline, with all its retries, leaks and failures, implements affinity
\* routing: at most one route per request, and warm routes to warmed addresses.
THEOREM PipelineImplementsAffinity == Spec => ImplementsAffinity
<1>1. Spec => [](Base /\ WarmthInv)
  BY BaseInit, BaseStep, WarmthInit, WarmthStep, PTL DEF Spec
<1> QED BY <1>1, AffinityInit, AffinityStep, PTL DEF Spec, ImplementsAffinity, Affinity!Spec
=============================================================================
