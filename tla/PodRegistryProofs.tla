------------------------- MODULE PodRegistryProofs -------------------------
(***************************************************************************)
(* Theorems of PodRegistry, for any pods, replicas, requests, lags and     *)
(* times that meet its assumptions.  Inductive invariants:                 *)
(*   TypeInv   types, and a pod wherever a step needs one;                 *)
(*   QuietInv  a load key has at most the ticks left that its pod has not  *)
(*             been quiet;                                                 *)
(*   OnTimeInv what holds of a punctual pod: its record and its load key   *)
(*             are as young as its last heartbeat, and no scan listed it.  *)
(***************************************************************************)
EXTENDS PodRegistry, TLAPS

TypeInv ==
  /\ TypeOK
  /\ \A h \in Beat : At(h, "none") <=> upsert[h].pod = NoPod
  /\ \A c \in Replica : cycle[c].step \in {"load", "beat"} => cycle[c].pod \in Pod

QuietInv == \A p \in Pod : Routable(p) => loadKey[p].ttl + quiet[p] <= Ttl

\* The first write of a heartbeat is through, its load key is not yet written.
LoadDue(p) == \E h \in Beat : upsert[h].pod = p /\ At(h, "load")

OnTime1(p) ==
  Registered(p) => registry[p] + Period <= Ttl + quiet[p] /\ quiet[p] <= Period
OnTime2(p) ==
  \A h \in Beat : (upsert[h].pod = p /\ upsert[h].step \in {"load", "beat"})
                    => Registered(p) /\ quiet[p] = 0
OnTime3(p) ==
  Routable(p) => /\ Registered(p)
                 /\ loadKey[p].ttl + quiet[p] >= Ttl \/ LoadDue(p)
Unlisted(p) ==
  \A c \in Replica : /\ p \notin cycle[c].todo
                     /\ cycle[c].step \in {"load", "beat"} => cycle[c].pod # p
Young(p) ==
  \A h \in Beat : upsert[h].pod = p => upsert[h].age + Period <= Ttl

OnTimeOf(p) == OnTime1(p) /\ OnTime2(p) /\ OnTime3(p) /\ Unlisted(p) /\ Young(p)

OnTimeInv == \A p \in Punctual : OnTimeOf(p)

USE DEF At, ThenBeat, Doing, Registered, Routable, keyVars, vars
----------------------------------------------------------------------------
(* Type correctness.                                                       *)

\* Ages and times to live stay in their bounds as ticks pass.
LEMMA Bounds ==
  /\ Stale \in Nat /\ Age \subseteq Int /\ Ttl \in Age /\ 0 \in Age
  /\ \A age \in Age : Older(age) \in Age
  /\ \A n \in 0 .. Stale : Older(n) \in 0 .. Stale
  /\ 0 \in 0 .. Stale /\ Stale \in 0 .. Stale
  /\ \A p \in Pod : \A lag \in LagOf[p] : Aged(lag) \in Age
  /\ \A n \in 0 .. Ttl : Less(n) \in 0 .. Ttl
  /\ 0 \in 0 .. Ttl /\ Ttl \in 0 .. Ttl /\ Period \in Nat
  BY TtlAssumption, LagAssumption, PunctualAssumption
     DEF Stale, Age, Older, Aged, Less

LEMMA InitType == Init => TypeInv
  BY Bounds, NoPodAssumption
     DEF Init, TypeInv, TypeOK, NoBeat, Asleep, Missing, Stale, Age

BeatType == [step : {"none", "hset", "load", "beat"}, pod : Pod \cup {NoPod},
             age : Age, load : Load \cup {0}]
CycleType == [step : {"sleep", "hdel", "load", "beat"}, pod : Pod \cup {NoPod},
              todo : SUBSET Pod]
KeysType ==
  /\ registry \in [Pod -> Age \cup {Absent}]
  /\ loadKey \in [Pod -> [load : Load \cup {0}, ttl : 0 .. Ttl]]
  /\ beatTtl \in [Pod -> 0 .. Ttl]
  /\ quiet \in [Pod -> 0 .. Stale]

\* One of the commands the registry sends.
Command(p, age, load) ==
  \/ HSet(p, age) \/ SetExLoad(p, load) \/ SetExBeat(p)
  \/ HDel(p) \/ DelLoad(p) \/ DelBeat(p)

\* Every command on the keys keeps their types.
LEMMA CommandType ==
  ASSUME KeysType, NEW p \in Pod, NEW age \in Age, NEW load \in Load \cup {0},
         Command(p, age, load)
  PROVE  KeysType'
<1>1. CASE HSet(p, age)
  BY <1>1, Bounds DEF KeysType, HSet
<1>2. CASE SetExLoad(p, load)
  BY <1>2, Bounds DEF KeysType, SetExLoad, LoadTtl
<1>3. CASE SetExBeat(p)
  BY <1>3, Bounds DEF KeysType, SetExBeat
<1>4. CASE HDel(p)
  BY <1>4, Bounds DEF KeysType, HDel
<1>5. CASE DelLoad(p)
  BY <1>5, Bounds DEF KeysType, DelLoad, Missing
<1>6. CASE DelBeat(p)
  BY <1>6, Bounds DEF KeysType, DelBeat
<1> QED
  BY <1>1, <1>2, <1>3, <1>4, <1>5, <1>6 DEF Command

\* A request past its arrival, and a removal under way, have a pod.
LEMMA Bodies ==
  ASSUME TypeInv
  PROVE  /\ KeysType
         /\ \A h \in Beat : upsert[h].age \in Age /\ upsert[h].load \in Load \cup {0}
         /\ \A h \in Beat : ~At(h, "none") => upsert[h].pod \in Pod
         /\ \A c \in Replica : cycle[c].todo \subseteq Pod
         /\ \A c \in Replica : cycle[c].step \in {"load", "beat"} => cycle[c].pod \in Pod
  BY DEF TypeInv, TypeOK, KeysType

\* A step of a request, or of a cycle, sends one command or none.
LEMMA UpsertCommand ==
  ASSUME TypeInv, NEW h \in Beat, UpsertStep(h)
  PROVE  /\ UNCHANGED <<running, cycle>>
         /\ \/ UNCHANGED keyVars
            \/ \E p \in Pod, age \in Age, load \in Load \cup {0} : Command(p, age, load)
<1>1. ~At(h, "none")
  BY DEF UpsertStep, WriteRecord, WriteLoad, WriteBeat, AbandonUpsert
<1>2. /\ upsert[h].pod \in Pod /\ upsert[h].age \in Age
      /\ upsert[h].load \in Load \cup {0}
  BY <1>1, Bodies
<1>3. \/ UNCHANGED keyVars
      \/ Command(upsert[h].pod, upsert[h].age, upsert[h].load)
  BY DEF UpsertStep, WriteRecord, WriteLoad, WriteBeat, AbandonUpsert, Command
<1>4. UNCHANGED <<running, cycle>>
  BY DEF UpsertStep, WriteRecord, WriteLoad, WriteBeat, AbandonUpsert
<1> QED
  BY <1>2, <1>3, <1>4

LEMMA CycleCommand ==
  ASSUME TypeInv, NEW c \in Replica, CycleStep(c)
  PROVE  /\ UNCHANGED <<running, upsert>>
         /\ \/ UNCHANGED keyVars
            \/ \E p \in Pod, age \in Age, load \in Load \cup {0} : Command(p, age, load)
<1>1. UNCHANGED keyVars \/ \E p \in Pod : HDel(p) \/ DelLoad(p) \/ DelBeat(p)
  BY Bodies DEF CycleStep, Scan, RemoveRecord, RemoveLoad, RemoveBeat, AbandonCycle
<1>2. 0 \in Age /\ 0 \in Load \cup {0}
  BY Bounds
<1>3. UNCHANGED <<running, upsert>>
  BY DEF CycleStep, Scan, RemoveRecord, RemoveLoad, RemoveBeat, AbandonCycle
<1> QED
  BY <1>1, <1>2, <1>3 DEF Command

LEMMA TypeStep ==
  ASSUME TypeInv, [Next]_vars
  PROVE  TypeInv'
<1> USE NoPodAssumption
<1>1. ASSUME NEW h \in Beat, NEW p \in Pod, Arrive(h, p)
      PROVE  TypeInv'
  BY <1>1, Bounds DEF Arrive, TypeInv, TypeOK
<1>2. ASSUME NEW h \in Beat, UpsertStep(h)
      PROVE  TypeInv'
  <2>1. ~At(h, "none") /\ UNCHANGED <<running, cycle>>
    BY <1>2, UpsertCommand DEF UpsertStep, WriteRecord, WriteLoad, WriteBeat, AbandonUpsert
  <2>3. KeysType'
    <3>1. CASE UNCHANGED keyVars
      BY <3>1, Bodies DEF KeysType
    <3> QED
      BY <1>2, <3>1, UpsertCommand, Bodies, CommandType
  <2>4. \/ \E step \in {"load", "beat"} : upsert' = [upsert EXCEPT ![h].step = step]
        \/ upsert' = [upsert EXCEPT ![h] = NoBeat]
    BY <1>2 DEF UpsertStep, WriteRecord, WriteLoad, WriteBeat, AbandonUpsert
  <2>5. /\ upsert' \in [Beat -> BeatType]
        /\ \A g \in Beat : (upsert'[g].step = "none") <=> (upsert'[g].pod = NoPod)
    <3>1. /\ upsert \in [Beat -> BeatType]
          /\ \A g \in Beat : (upsert[g].step = "none") <=> (upsert[g].pod = NoPod)
      BY DEF TypeInv, TypeOK, BeatType
    <3>2. ASSUME NEW step \in {"load", "beat"},
                 upsert' = [upsert EXCEPT ![h].step = step]
          PROVE  <2>5!1 /\ <2>5!2
      BY <2>1, <3>1, <3>2 DEF BeatType
    <3>3. CASE upsert' = [upsert EXCEPT ![h] = NoBeat]
      <4>1. NoBeat \in BeatType
        BY Bounds DEF NoBeat, BeatType
      <4> QED
        BY <3>1, <3>3, <4>1 DEF NoBeat
    <3> QED
      BY <2>4, <3>2, <3>3
  <2> QED
    BY <2>1, <2>3, <2>5 DEF KeysType, BeatType, TypeInv, TypeOK
<1>3. ASSUME NEW c \in Replica, CycleStep(c)
      PROVE  TypeInv'
  <2>2. KeysType'
    <3>1. CASE UNCHANGED keyVars
      BY <3>1, Bodies DEF KeysType
    <3> QED
      BY <1>3, <3>1, CycleCommand, Bodies, CommandType
  <2>3. /\ cycle' \in [Replica -> CycleType]
        /\ \A d \in Replica : cycle'[d].step \in {"load", "beat"} => cycle'[d].pod \in Pod
    <3>1. /\ cycle \in [Replica -> CycleType]
          /\ \A d \in Replica : cycle[d].step \in {"load", "beat"} => cycle[d].pod \in Pod
      BY DEF TypeInv, TypeOK, CycleType
    <3>2. \A todo \in SUBSET Pod :
            Rest(todo) \in CycleType /\ Rest(todo).step \notin {"load", "beat"}
      BY DEF Rest, Asleep, CycleType
    <3>3. Asleep \in CycleType /\ Asleep.step \notin {"load", "beat"}
      BY DEF Asleep, CycleType
    <3>4. CASE Scan(c)
      <4>1. {p \in Pod : Dead(p)} \in SUBSET Pod
        OBVIOUS
      <4> QED
        BY <3>1, <3>2, <3>4, <4>1 DEF Scan
    <3>5. ASSUME NEW p \in Pod, RemoveRecord(c, p)
          PROVE  <2>3!1 /\ <2>3!2
      <4>1. [step |-> "load", pod |-> p, todo |-> cycle[c].todo \ {p}] \in CycleType
        BY <3>1 DEF CycleType
      <4> QED
        BY <3>1, <3>5, <4>1 DEF RemoveRecord
    <3>6. CASE RemoveLoad(c)
      BY <3>1, <3>6 DEF RemoveLoad, CycleType
    <3>7. CASE RemoveBeat(c)
      BY <3>1, <3>2, <3>7, Bodies DEF RemoveBeat
    <3>8. CASE AbandonCycle(c)
      BY <3>1, <3>3, <3>8 DEF AbandonCycle
    <3> QED
      BY <1>3, <3>4, <3>5, <3>6, <3>7, <3>8 DEF CycleStep
  <2> QED
    BY <1>3, <2>2, <2>3, CycleCommand DEF KeysType, CycleType, TypeInv, TypeOK
<1>4. ASSUME NEW p \in Pod, Stop(p)
       PROVE  TypeInv'
  BY <1>4 DEF Stop, TypeInv, TypeOK
<1>5. ASSUME Tick
       PROVE  TypeInv'
  BY <1>5, Bounds DEF Tick, Missing, TypeInv, TypeOK
<1>6. CASE UNCHANGED vars
  BY <1>6 DEF TypeInv, TypeOK
<1> QED
  BY <1>1, <1>2, <1>3, <1>4, <1>5, <1>6 DEF Next

----------------------------------------------------------------------------
(* Load keys run out with the silence of their pods.                       *)

\* What a pod's load key and silence are: numbers the arithmetic below needs.
LEMMA KeyNumbers ==
  ASSUME TypeInv, NEW p \in Pod
  PROVE  /\ loadKey[p] \in [load : Load \cup {0}, ttl : 0 .. Ttl]
         /\ loadKey[p].ttl \in Nat
         /\ quiet[p] \in Nat /\ quiet[p] <= Stale
         /\ Ttl \in Nat
<1>1. /\ loadKey \in [Pod -> [load : Load \cup {0}, ttl : 0 .. Ttl]]
      /\ quiet \in [Pod -> 0 .. Stale] /\ Ttl \in Nat
  BY TtlAssumption DEF TypeInv, TypeOK, Age
<1>2. loadKey[p] \in [load : Load \cup {0}, ttl : 0 .. Ttl] /\ quiet[p] \in 0 .. Stale
  BY <1>1
<1>3. loadKey[p].ttl \in 0 .. Ttl
  BY <1>2
<1> QED
  BY <1>1, <1>2, <1>3, Bounds

LEMMA InitQuiet == Init => QuietInv
  BY DEF Init, QuietInv, Missing

\* A command leaves a load key no longer to live than its pod's silence allows.
LEMMA QuietCommand ==
  ASSUME TypeInv, QuietInv,
         NEW p \in Pod, NEW age \in Age, NEW load \in Load \cup {0},
         Command(p, age, load)
  PROVE  QuietInv'
<1>1. /\ loadKey \in [Pod -> [load : Load \cup {0}, ttl : 0 .. Ttl]]
      /\ quiet \in [Pod -> 0 .. Stale] /\ Ttl \in Nat
      /\ \A q \in Pod : loadKey[q].ttl \in Nat /\ quiet[q] \in Nat
  BY KeyNumbers, TtlAssumption DEF TypeInv, TypeOK
<1>2. \A q \in Pod : loadKey[q].ttl > 0 => loadKey[q].ttl + quiet[q] <= Ttl
  BY DEF QuietInv
<1>3. ASSUME NEW q \in Pod
      PROVE  \/ quiet'[q] = 0 /\ loadKey'[q].ttl \in {Ttl, loadKey[q].ttl}
             \/ quiet'[q] = quiet[q] /\ loadKey'[q].ttl \in {0, loadKey[q].ttl}
  <2>1. CASE HSet(p, age)
    BY <2>1, <1>1 DEF HSet
  <2>2. CASE SetExLoad(p, load)
    BY <2>2, <1>1 DEF SetExLoad, LoadTtl
  <2>3. CASE SetExBeat(p)
    BY <2>3, <1>1 DEF SetExBeat
  <2>4. CASE HDel(p)
    BY <2>4, <1>1 DEF HDel
  <2>5. CASE DelLoad(p)
    BY <2>5, <1>1 DEF DelLoad, Missing
  <2>6. CASE DelBeat(p)
    BY <2>6, <1>1 DEF DelBeat
  <2> QED
    BY <2>1, <2>2, <2>3, <2>4, <2>5, <2>6 DEF Command
<1>4. ASSUME NEW q \in Pod, loadKey'[q].ttl > 0
      PROVE  loadKey'[q].ttl + quiet'[q] <= Ttl
  BY <1>1, <1>2, <1>3, <1>4
<1> QED
  BY <1>4 DEF QuietInv

\* Without a command time alone can pass.
LEMMA StepShape ==
  ASSUME TypeInv, [Next]_vars
  PROVE  \/ UNCHANGED keyVars
         \/ Tick
         \/ \E p \in Pod, age \in Age, load \in Load \cup {0} : Command(p, age, load)
<1>1. ASSUME NEW h \in Beat, NEW p \in Pod, Arrive(h, p)
      PROVE  UNCHANGED keyVars
  BY <1>1 DEF Arrive
<1>2. ASSUME NEW p \in Pod, Stop(p)
      PROVE  UNCHANGED keyVars
  BY <1>2 DEF Stop
<1> QED
  BY <1>1, <1>2, UpsertCommand, CycleCommand DEF Next

LEMMA QuietStep ==
  ASSUME TypeInv, QuietInv, [Next]_vars
  PROVE  QuietInv'
<1>1. CASE UNCHANGED keyVars
  BY <1>1 DEF QuietInv
<1>2. CASE Tick
  <2>1. ASSUME NEW p \in Pod
        PROVE  /\ loadKey[p].ttl \in Nat /\ quiet[p] \in Nat /\ Ttl \in Nat
               /\ loadKey[p].ttl > 0 => loadKey[p].ttl + quiet[p] <= Ttl
    BY KeyNumbers DEF QuietInv
  <2>2. ASSUME NEW p \in Pod, loadKey'[p].ttl > 0
        PROVE  loadKey'[p].ttl + quiet'[p] <= Ttl
    <3>1. /\ loadKey'[p] = IF loadKey[p].ttl > 1
                           THEN [loadKey[p] EXCEPT !.ttl = Less(@)] ELSE Missing
          /\ quiet'[p] = Older(quiet[p])
      BY <1>2 DEF Tick
    <3>2. loadKey[p].ttl > 1
      BY <2>2, <3>1 DEF Missing
    <3>3. loadKey[p] \in [load : Load \cup {0}, ttl : 0 .. Ttl]
      BY KeyNumbers
    <3>4. loadKey'[p].ttl = Less(loadKey[p].ttl)
      BY <3>1, <3>2, <3>3
    <3> QED
      BY <2>1, <3>1, <3>2, <3>4 DEF Less, Older, Stale
  <2> QED
    BY <2>2 DEF QuietInv
<1> QED
  BY <1>1, <1>2, StepShape, QuietCommand

\* TypeOK of PodRegistry, for every value of the constants.
THEOREM TypeCorrect == Spec => []TypeOK
<1>1. TypeInv /\ [Next]_vars => TypeInv'
  BY TypeStep
<1>2. TypeInv => TypeOK
  BY DEF TypeInv
<1> QED
  BY InitType, <1>1, <1>2, PTL DEF Spec

\* SilentPodsUnroutable: a pod that wrote nothing for a whole TTL is out of
\* routing, with any number of pods, requests, replicas and failures.
THEOREM SilentUnroutable == Spec => []SilentPodsUnroutable
<1>1. Init => TypeInv /\ QuietInv
  BY InitType, InitQuiet
<1>2. TypeInv /\ QuietInv /\ [Next]_vars => (TypeInv /\ QuietInv)'
  BY TypeStep, QuietStep
<1>3. TypeInv /\ QuietInv => SilentPodsUnroutable
  <2> SUFFICES ASSUME TypeInv, QuietInv, NEW p \in Pod,
                      quiet[p] >= Ttl, loadKey[p].ttl > 0
               PROVE  FALSE
    BY DEF SilentPodsUnroutable
  <2>1. quiet[p] \in Nat /\ loadKey[p].ttl \in Nat /\ Ttl \in Nat
    BY KeyNumbers
  <2>2. loadKey[p].ttl + quiet[p] <= Ttl
    BY DEF QuietInv
  <2> QED
    BY <2>1, <2>2
<1> QED
  BY <1>1, <1>2, <1>3, PTL DEF Spec
----------------------------------------------------------------------------
(* Punctual pods.                                                          *)

\* The keys of p are as they were.
Untouched(p) ==
  registry'[p] = registry[p] /\ loadKey'[p] = loadKey[p] /\ quiet'[p] = quiet[p]

LEMMA InitOnTime == Init => OnTimeInv
  BY NoPodAssumption, PunctualAssumption
     DEF Init, OnTimeInv, OnTimeOf, OnTime1, OnTime2, OnTime3, Unlisted, Young,
         NoBeat, Asleep, Missing

\* The commands of another pod leave this one's keys alone.
LEMMA OtherPod ==
  ASSUME TypeInv, NEW p \in Pod, NEW q \in Pod, q # p,
         NEW age \in Age, NEW load \in Load \cup {0}, Command(q, age, load)
  PROVE  Untouched(p)
  BY DEF TypeInv, TypeOK, Command, HSet, SetExLoad, SetExBeat, HDel, DelLoad, DelBeat,
         Untouched

\* A cycle that listed no punctual pod takes nothing from one.
LEMMA CycleSpares ==
  ASSUME TypeInv, NEW p \in Pod, Unlisted(p), NEW c \in Replica, CycleStep(c)
  PROVE  Untouched(p)
<1>1. \/ UNCHANGED keyVars
      \/ \E q \in Pod : q # p /\ (HDel(q) \/ DelLoad(q) \/ DelBeat(q))
  BY Bodies
     DEF CycleStep, Scan, RemoveRecord, RemoveLoad, RemoveBeat, AbandonCycle, Unlisted
<1>2. 0 \in Age /\ 0 \in Load \cup {0}
  BY Bounds
<1>3. CASE UNCHANGED keyVars
  BY <1>3 DEF Untouched
<1> QED
  BY <1>1, <1>2, <1>3, OtherPod DEF Command

\* The scan of a health check lists no punctual pod: its record is too young.
LEMMA NotDead ==
  ASSUME TypeInv, NEW p \in Pod, OnTime1(p)
  PROVE  ~Dead(p)
<1>1. /\ quiet[p] \in Nat /\ Ttl \in Nat /\ Period \in Nat
      /\ Registered(p) => registry[p] \in Int
  BY KeyNumbers, Bounds DEF TypeInv, TypeOK
<1> QED
  BY <1>1 DEF Dead, OnTime1

\* Cycles, arrivals and the pods' own stopping.
LEMMA CycleOnTime ==
  ASSUME TypeInv, NEW p \in Pod, OnTimeOf(p), NEW c \in Replica, CycleStep(c)
  PROVE  OnTimeOf(p)'
<1>1. Untouched(p) /\ upsert' = upsert
  BY CycleSpares, CycleCommand DEF OnTimeOf
<1>2. OnTime1(p)' /\ OnTime2(p)' /\ OnTime3(p)' /\ Young(p)'
  BY <1>1 DEF OnTimeOf, OnTime1, OnTime2, OnTime3, Young, LoadDue, Untouched
<1>3. Unlisted(p)'
  <2>1. cycle \in [Replica -> CycleType] /\ Unlisted(p)
    BY DEF TypeInv, TypeOK, CycleType, OnTimeOf
  <2>2. \A todo \in SUBSET Pod :
          p \notin todo => /\ p \notin Rest(todo).todo
                           /\ Rest(todo).step \notin {"load", "beat"}
    BY DEF Rest, Asleep
  <2>3. p \notin Asleep.todo /\ Asleep.step \notin {"load", "beat"}
    BY DEF Asleep
  <2>4. CASE Scan(c)
    <3>1. p \notin {q \in Pod : Dead(q)}
      BY NotDead DEF OnTimeOf
    <3> QED
      BY <2>1, <2>2, <2>4, <3>1 DEF Scan, Unlisted
  <2>5. ASSUME NEW q \in Pod, RemoveRecord(c, q)
        PROVE  Unlisted(p)'
    BY <2>1, <2>5 DEF RemoveRecord, Unlisted
  <2>6. CASE RemoveLoad(c)
    BY <2>1, <2>6 DEF RemoveLoad, Unlisted, CycleType
  <2>7. CASE RemoveBeat(c)
    BY <2>1, <2>2, <2>7, Bodies DEF RemoveBeat, Unlisted
  <2>8. CASE AbandonCycle(c)
    BY <2>1, <2>3, <2>8 DEF AbandonCycle, Unlisted
  <2> QED
    BY <2>4, <2>5, <2>6, <2>7, <2>8 DEF CycleStep
<1> QED
  BY <1>2, <1>3 DEF OnTimeOf

LEMMA ArriveOnTime ==
  ASSUME TypeInv, NEW p \in Pod, p \in Punctual, OnTimeOf(p),
         NEW h \in Beat, NEW q \in Pod, Arrive(h, q)
  PROVE  OnTimeOf(p)'
<1>1. PICK lag \in LagOf[q], load \in Load :
        upsert' = [upsert EXCEPT ![h] =
                     [step |-> "hset", pod |-> q, age |-> Aged(lag), load |-> load]]
  BY DEF Arrive
<1>2. /\ upsert \in [Beat -> BeatType] /\ upsert[h].step = "none"
      /\ UNCHANGED <<running, cycle, keyVars>>
  BY DEF Arrive, TypeInv, TypeOK, BeatType
<1>3. q = p => Aged(lag) + Period <= Ttl
  BY PunctualAssumption, LagAssumption, TtlAssumption DEF Aged, Stale
<1>4. OnTime1(p)' /\ Unlisted(p)'
  BY <1>2 DEF OnTimeOf, OnTime1, Unlisted
<1>5. OnTime2(p)' /\ Young(p)'
  BY <1>1, <1>2, <1>3 DEF OnTimeOf, OnTime2, Young
<1>6. LoadDue(p) => LoadDue(p)'
  BY <1>1, <1>2 DEF LoadDue
<1> QED
  BY <1>2, <1>4, <1>5, <1>6 DEF OnTimeOf, OnTime3

\* What PunctualPodsStay asks of one step for one pod.
Stays(p) == /\ Registered(p) => registry'[p] # Absent
            /\ Routable(p) => loadKey'[p].ttl > 0

\* A step of another pod's request.
LEMMA OtherUpsert ==
  ASSUME TypeInv, NEW p \in Pod, OnTimeOf(p),
         NEW h \in Beat, UpsertStep(h), upsert[h].pod # p
  PROVE  OnTimeOf(p)' /\ Stays(p)
<1>1. ~At(h, "none") /\ UNCHANGED <<running, cycle>>
  BY UpsertCommand DEF UpsertStep, WriteRecord, WriteLoad, WriteBeat, AbandonUpsert
<1>2. /\ upsert[h].pod \in Pod /\ upsert[h].age \in Age
      /\ upsert[h].load \in Load \cup {0}
  BY <1>1, Bodies
<1>3. \/ UNCHANGED keyVars
      \/ Command(upsert[h].pod, upsert[h].age, upsert[h].load)
  BY DEF UpsertStep, WriteRecord, WriteLoad, WriteBeat, AbandonUpsert, Command
<1>4. Untouched(p)
  BY <1>2, <1>3, OtherPod DEF Untouched
<1>5. /\ upsert'[h].pod # p
      /\ \A g \in Beat : g # h => upsert'[g] = upsert[g]
  <2>1. upsert \in [Beat -> BeatType] /\ NoBeat.pod # p
    BY NoPodAssumption DEF TypeInv, TypeOK, BeatType, NoBeat
  <2>2. \/ \E step \in {"load", "beat"} : upsert' = [upsert EXCEPT ![h].step = step]
        \/ upsert' = [upsert EXCEPT ![h] = NoBeat]
    BY DEF UpsertStep, WriteRecord, WriteLoad, WriteBeat, AbandonUpsert
  <2> QED
    BY <2>1, <2>2 DEF BeatType
<1>6. OnTime1(p)' /\ Unlisted(p)'
  BY <1>1, <1>4 DEF OnTimeOf, OnTime1, Unlisted, Untouched
<1>7. OnTime2(p)' /\ Young(p)'
  BY <1>4, <1>5 DEF OnTimeOf, OnTime2, Young, Untouched
<1>8. OnTime3(p)' /\ Stays(p)
  BY <1>4, <1>5 DEF OnTimeOf, OnTime3, LoadDue, Stays, Untouched
<1> QED
  BY <1>6, <1>7, <1>8 DEF OnTimeOf

\* A step of the pod's own request: HSET makes the record as young as the body,
\* the first SET EX makes the load key due.
LEMMA OwnUpsert ==
  ASSUME TypeInv, NEW p \in Pod, p \in Punctual, OnTimeOf(p),
         NEW h \in Beat, UpsertStep(h), upsert[h].pod = p
  PROVE  OnTimeOf(p)' /\ Stays(p)
<1>1. /\ upsert \in [Beat -> BeatType] /\ UNCHANGED <<running, cycle>>
      /\ registry \in [Pod -> Age \cup {Absent}] /\ quiet \in [Pod -> 0 .. Stale]
      /\ loadKey \in [Pod -> [load : Load \cup {0}, ttl : 0 .. Ttl]]
  BY UpsertCommand DEF TypeInv, TypeOK, BeatType
<1>2. /\ upsert[h].age \in Age /\ Age \subseteq Int /\ Absent \notin Int
      /\ Ttl \in Nat /\ Ttl > 0 /\ Period \in Nat /\ NoPod # p
  BY Bodies, Bounds, TtlAssumption, AbsentAssumption, NoPodAssumption
<1>3. Unlisted(p)'
  BY <1>1 DEF OnTimeOf, Unlisted
<1>4. CASE WriteRecord(h)
  <2>1. /\ registry'[p] = upsert[h].age /\ quiet'[p] = 0 /\ loadKey' = loadKey
        /\ registry'[p] # Absent
        /\ upsert' = [upsert EXCEPT ![h].step = "load"]
    BY <1>1, <1>2, <1>4 DEF WriteRecord, HSet
  <2>2. upsert[h].age + Period <= Ttl
    BY DEF OnTimeOf, Young
  <2>3. OnTime1(p)'
    BY <1>2, <2>1, <2>2 DEF OnTime1
  <2>4. OnTime2(p)' /\ Young(p)'
    BY <1>1, <2>1 DEF OnTimeOf, OnTime2, Young, BeatType
  <2>5. LoadDue(p)'
    BY <1>1, <2>1 DEF LoadDue, BeatType
  <2> QED
    BY <1>3, <2>1, <2>3, <2>4, <2>5 DEF OnTimeOf, OnTime3, Stays
<1>5. CASE WriteLoad(h)
  <2>1. /\ registry' = registry /\ quiet'[p] = 0 /\ loadKey'[p].ttl = Ttl
        /\ upsert' = [upsert EXCEPT ![h].step = "beat"]
    BY <1>1, <1>5 DEF WriteLoad, SetExLoad, LoadTtl
  <2>2. Registered(p) /\ quiet[p] = 0
    BY <1>5 DEF WriteLoad, OnTimeOf, OnTime2
  <2>3. OnTime1(p)'
    BY <2>1, <2>2 DEF OnTimeOf, OnTime1
  <2>4. OnTime2(p)' /\ Young(p)'
    BY <1>1, <2>1, <2>2 DEF OnTimeOf, OnTime2, Young, BeatType
  <2>5. OnTime3(p)' /\ Stays(p)
    BY <1>2, <2>1, <2>2 DEF OnTime3, Stays
  <2> QED
    BY <1>3, <2>3, <2>4, <2>5 DEF OnTimeOf
<1>6. CASE WriteBeat(h)
  <2>1. /\ registry' = registry /\ quiet'[p] = 0 /\ loadKey' = loadKey
        /\ upsert' = [upsert EXCEPT ![h] = NoBeat] /\ upsert[h].step = "beat"
    BY <1>1, <1>6 DEF WriteBeat, SetExBeat
  <2>2. Registered(p) /\ quiet[p] = 0
    BY <1>6 DEF WriteBeat, OnTimeOf, OnTime2
  <2>3. OnTime1(p)'
    BY <2>1, <2>2 DEF OnTimeOf, OnTime1
  <2>4. OnTime2(p)' /\ Young(p)'
    BY <1>1, <1>2, <2>1, <2>2 DEF OnTimeOf, OnTime2, Young, BeatType, NoBeat
  <2>5. LoadDue(p) => LoadDue(p)'
    BY <1>1, <2>1 DEF LoadDue, BeatType
  <2>6. OnTime3(p)' /\ Stays(p)
    BY <2>1, <2>2, <2>5 DEF OnTimeOf, OnTime3, Stays
  <2> QED
    BY <1>3, <2>3, <2>4, <2>6 DEF OnTimeOf
<1> QED
  BY <1>4, <1>5, <1>6 DEF UpsertStep, AbandonUpsert

\* A tick finds every punctual pod's heartbeat through and its period not over.
LEMMA TickOnTime ==
  ASSUME TypeInv, NEW p \in Pod, p \in Punctual, OnTimeOf(p), Tick
  PROVE  OnTimeOf(p)' /\ Stays(p)
<1>1. /\ \A h \in Beat : upsert[h].pod # p
      /\ Registered(p) => quiet[p] < Period
      /\ UNCHANGED <<running, upsert, cycle>>
  BY DEF Tick, OnTime, Beating
<1>2. /\ loadKey[p] \in [load : Load \cup {0}, ttl : 0 .. Ttl]
      /\ loadKey[p].ttl \in Nat /\ quiet[p] \in Nat
      /\ Ttl \in Nat /\ Period \in Nat /\ Period < Ttl
      /\ Registered(p) => registry[p] \in Int
  BY KeyNumbers, Bounds, PunctualAssumption DEF TypeInv, TypeOK
<1>3. /\ registry'[p] = IF Registered(p) THEN Older(registry[p]) ELSE Absent
      /\ quiet'[p] = Older(quiet[p])
      /\ loadKey'[p] = IF loadKey[p].ttl > 1
                       THEN [loadKey[p] EXCEPT !.ttl = Less(@)] ELSE Missing
  BY DEF Tick
<1>4. loadKey'[p].ttl = Less(loadKey[p].ttl)
  <2>1. CASE loadKey[p].ttl > 1
    BY <1>2, <1>3, <2>1
  <2>2. CASE loadKey[p].ttl \in {0, 1}
    BY <1>3, <2>2 DEF Missing, Less
  <2> QED
    BY <1>2, <2>1, <2>2
<1>5. ASSUME Registered(p)
      PROVE  /\ registry'[p] = registry[p] + 1 /\ quiet'[p] = quiet[p] + 1
             /\ registry'[p] # Absent
             /\ registry'[p] + Period <= Ttl + quiet'[p] /\ quiet'[p] <= Period
  BY <1>1, <1>2, <1>3, <1>5, AbsentAssumption DEF OnTimeOf, OnTime1, Older, Stale
<1>6. ASSUME Routable(p)
      PROVE  /\ Registered(p) /\ loadKey'[p].ttl > 0
             /\ loadKey'[p].ttl + quiet'[p] >= Ttl
  <2>1. Registered(p) /\ loadKey[p].ttl + quiet[p] >= Ttl
    BY <1>1, <1>6 DEF OnTimeOf, OnTime3, LoadDue
  <2> QED
    BY <1>1, <1>2, <1>4, <1>5, <2>1 DEF Less
<1>7. loadKey'[p].ttl > 0 => Routable(p)
  BY <1>2, <1>4 DEF Less
<1>8. OnTime1(p)' /\ OnTime3(p)'
  BY <1>3, <1>5, <1>6, <1>7 DEF OnTime1, OnTime3
<1>9. OnTime2(p)' /\ Young(p)' /\ Unlisted(p)'
  BY <1>1 DEF OnTimeOf, OnTime2, Young, Unlisted
<1> QED
  BY <1>5, <1>6, <1>8, <1>9 DEF OnTimeOf, Stays

\* One step, whoever takes it.
LEMMA OnTimeStep ==
  ASSUME TypeInv, OnTimeInv, [Next]_vars, NEW p \in Punctual
  PROVE  OnTimeOf(p)' /\ Stays(p)
<1>1. p \in Pod /\ OnTimeOf(p)
  BY PunctualAssumption DEF OnTimeInv
<1>2. ASSUME NEW h \in Beat, NEW q \in Pod, Arrive(h, q)
      PROVE  OnTimeOf(p)' /\ Stays(p)
  BY <1>1, <1>2, ArriveOnTime DEF Arrive, Stays
<1>3. ASSUME NEW h \in Beat, UpsertStep(h)
      PROVE  OnTimeOf(p)' /\ Stays(p)
  BY <1>1, <1>3, OtherUpsert, OwnUpsert
<1>4. ASSUME NEW c \in Replica, CycleStep(c)
      PROVE  OnTimeOf(p)' /\ Stays(p)
  BY <1>1, <1>4, CycleOnTime, CycleSpares DEF OnTimeOf, Stays, Untouched
<1>5. CASE Tick
  BY <1>1, <1>5, TickOnTime
<1>6. CASE UNCHANGED <<upsert, cycle, keyVars>>
  <2>1. OnTime1(p)' /\ OnTime2(p)' /\ OnTime3(p)' /\ Unlisted(p)' /\ Young(p)'
    BY <1>1, <1>6
       DEF OnTimeOf, OnTime1, OnTime2, OnTime3, LoadDue, Unlisted, Young
  <2> QED
    BY <1>6, <2>1 DEF OnTimeOf, Stays
<1> QED
  BY <1>2, <1>3, <1>4, <1>5, <1>6 DEF Next, Stop

\* PunctualPodsStay: no health check, of any number of replicas and from however
\* old a scan, takes a pod away that keeps its period.
THEOREM PunctualStay == Spec => PunctualPodsStay
<1>1. Init => TypeInv /\ OnTimeInv
  BY InitType, InitOnTime
<1>2. TypeInv /\ OnTimeInv /\ [Next]_vars => (TypeInv /\ OnTimeInv)'
  <2> SUFFICES ASSUME TypeInv, OnTimeInv, [Next]_vars
               PROVE  TypeInv' /\ OnTimeInv'
    OBVIOUS
  <2>1. \A p \in Punctual : OnTimeOf(p)'
    BY OnTimeStep
  <2> QED
    BY <2>1, TypeStep DEF OnTimeInv
<1>3. TypeInv /\ OnTimeInv /\ [Next]_vars
        => [\A p \in Punctual : /\ Registered(p) => registry'[p] # Absent
                                /\ Routable(p) => loadKey'[p].ttl > 0]_vars
  BY OnTimeStep DEF Stays
<1> QED
  BY <1>1, <1>2, <1>3, PTL DEF Spec, PunctualPodsStay

----------------------------------------------------------------------------
(* The load keys as the sidecars see them.                                 *)

\* A heartbeat under way carries a load that pods report.
BodyInv == \A h \in Beat : ~At(h, "none") => upsert[h].load \in Load

LEMMA BodyStep == TypeInv /\ BodyInv /\ [Next]_vars => BodyInv'
<1> SUFFICES ASSUME TypeInv, BodyInv, [Next]_vars PROVE BodyInv'
  OBVIOUS
<1>1. ASSUME NEW h \in Beat, NEW p \in Pod, Arrive(h, p) PROVE BodyInv'
  BY <1>1 DEF Arrive, BodyInv, TypeInv, TypeOK, At
<1>2. ASSUME NEW h \in Beat, UpsertStep(h) PROVE BodyInv'
  <2>1. CASE \E step \in {"load", "beat"} : ThenBeat(h, step) /\ ~At(h, "none")
    <3>1. \A g \in Beat : upsert'[g].load = upsert[g].load
                          /\ (g # h => upsert'[g].step = upsert[g].step)
      BY <2>1 DEF ThenBeat, TypeInv, TypeOK
    <3> QED BY <2>1, <3>1 DEF BodyInv, At
  <2>2. CASE upsert' = [upsert EXCEPT ![h] = NoBeat]
    <3>1. upsert'[h].step = "none" /\ \A g \in Beat \ {h} : upsert'[g] = upsert[g]
      BY <2>2 DEF NoBeat, TypeInv, TypeOK
    <3> QED BY <3>1 DEF BodyInv, At
  <2> QED
    BY <1>2, <2>1, <2>2
       DEF UpsertStep, WriteRecord, WriteLoad, WriteBeat, AbandonUpsert, At
<1>3. CASE UNCHANGED upsert
  BY <1>3 DEF BodyInv, At
<1> QED
  BY <1>1, <1>2, <1>3
     DEF Next, CycleStep, Scan, RemoveRecord, RemoveLoad, RemoveBeat, AbandonCycle, Stop,
         Tick, vars

\* A heartbeat's load is one that pods report, and its pod is one.
LEMMA UpsertLoads ==
  ASSUME TypeInv, BodyInv, NEW h \in Beat, UpsertStep(h)
  PROVE  [Loads!Next]_loadKey
<1>1. CASE At(h, "load") /\ SetExLoad(upsert[h].pod, upsert[h].load)
  <2>1. upsert[h].pod \in Pod /\ upsert[h].load \in Load
    BY <1>1, NoPodAssumption DEF TypeInv, TypeOK, BodyInv, At
  <2> QED BY <1>1, <2>1 DEF SetExLoad, LoadTtl, Loads!Next, Loads!Report
<1>2. CASE UNCHANGED loadKey
  BY <1>2
<1> QED
  BY <1>1, <1>2
     DEF UpsertStep, WriteRecord, WriteLoad, WriteBeat, AbandonUpsert, HSet, SetExBeat,
         keyVars

LEMMA CycleLoads ==
  ASSUME TypeInv, NEW c \in Replica, CycleStep(c)
  PROVE  [Loads!Next]_loadKey
<1>1. CASE Doing(c, "load") /\ DelLoad(cycle[c].pod)
  <2>1. cycle[c].pod \in Pod
    BY <1>1 DEF TypeInv
  <2> QED
    BY <1>1, <2>1 DEF DelLoad, Missing, Loads!Next, Loads!Vanish, Loads!Missing
<1>2. CASE UNCHANGED loadKey
  BY <1>2
<1> QED
  BY <1>1, <1>2
     DEF CycleStep, Scan, RemoveRecord, RemoveLoad, RemoveBeat, AbandonCycle, HDel,
         DelBeat, keyVars

LEMMA TickLoads ==
  ASSUME TypeInv, Tick
  PROVE  Loads!Tick
<1>1. \A p \in Pod : loadKey[p] \in [load : Load \cup {0}, ttl : 0 .. Ttl]
  BY DEF TypeInv, TypeOK
<1> QED
  BY <1>1 DEF Tick, Loads!Tick, Loads!Aged, Loads!Missing, Missing, Less

\* ImplementsPodLoads: what module LeastLoaded assumes of the load keys is what the
\* control plane does, for any number of pods, replicas and heartbeats.
THEOREM RegistryImplementsPodLoads == Spec => ImplementsPodLoads
<1>1. Init => Loads!Init
  BY DEF Init, Loads!Init, Missing, Loads!Missing
<1>2. TypeInv /\ BodyInv /\ [Next]_vars => [Loads!Next]_loadKey
  <2> SUFFICES ASSUME TypeInv, BodyInv, [Next]_vars
               PROVE  [Loads!Next]_loadKey
    OBVIOUS
  <2>1. CASE Tick BY <2>1, TickLoads DEF Loads!Next
  <2>2. CASE UNCHANGED loadKey BY <2>2
  <2> QED
    BY <2>1, <2>2, UpsertLoads, CycleLoads
       DEF Next, Arrive, Stop, vars, keyVars
<1>3. Init => BodyInv
  BY DEF Init, BodyInv, NoBeat, At
<1> QED
  BY <1>1, <1>2, <1>3, InitType, TypeStep, BodyStep, PTL
     DEF Spec, ImplementsPodLoads, Loads!Spec
============================================================================
