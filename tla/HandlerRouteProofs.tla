------------------------- MODULE HandlerRouteProofs -------------------------
(***************************************************************************)
(* Proofs about the handlers of one sidecar after the lookup: what the     *)
(* metrics show and which pod a cold request gets, for any number of       *)
(* requests and pods.                                                      *)
(***************************************************************************)
EXTENDS HandlerRoute, FiniteSetTheorems, TLAPS

----------------------------------------------------------------------------
(* The gauge.                                                              *)

Pair == [h : Nat, m : Nat]

RecordType == [kind : {"none", "hit", "miss"}, left : SUBSET (Savings \cup {"misses"} \cup Ratio),
               h : Nat, m : Nat, base : Pair]

\* Until it sets the gauge, what a record has collected lies between the totals at
\* its start and the totals now, and counts itself once its fetch_add is done.
Between(r) ==
  LET c == record[r] IN
  Left(r, "set") =>
    /\ c.base.h <= totalHits /\ c.base.m <= totalMisses
    /\ (c.kind = "hit" /\ ~Left(r, "add")) => (c.base.h < c.h /\ c.h <= totalHits)
    /\ (c.kind = "hit" /\ ~Left(r, "load")) => (c.base.m <= c.m /\ c.m <= totalMisses)
    /\ (c.kind = "miss" /\ ~Left(r, "add")) => (c.base.m < c.m /\ c.m <= totalMisses)
    /\ (c.kind = "miss" /\ ~Left(r, "load")) => (c.base.h <= c.h /\ c.h <= totalHits)

\* Which accesses a record of each kind has.
KindFits(r) ==
  LET c == record[r] IN
  /\ c.left # {} => c.kind # "none"
  /\ c.left \cap Savings # {} => c.kind = "hit"

GaugeInv ==
  /\ totalHits \in Nat /\ totalMisses \in Nat
  /\ hitRatio \in Pair /\ since \in Pair
  /\ record \in [Request -> RecordType]
  /\ \A r \in Request : KindFits(r) /\ Between(r)
  /\ GaugeFresh

USE DEF Pair, RecordType, Left, Savings, Ratio

LEMMA GaugeInit == MetricsInit => GaugeInv
BY DEF MetricsInit, GaugeInv, Zero, NoRecord, KindFits, Between, GaugeFresh

LEMMA BeginGauge ==
  ASSUME GaugeInv, NEW r \in Request, NEW kind \in {"hit", "miss"},
         NEW left \in SUBSET (Savings \cup {"misses"} \cup Ratio),
         Ratio \subseteq left, left \cap Savings # {} => kind = "hit",
         Begin(r, kind, left)
  PROVE  GaugeInv'
<1>1. /\ UNCHANGED <<totalHits, totalMisses, hitRatio, since>>
      /\ record' = [record EXCEPT ![r] =
           [kind |-> kind, left |-> left, h |-> 0, m |-> 0,
            base |-> [h |-> totalHits, m |-> totalMisses]]]
  BY DEF Begin, totals
<1>2. record' \in [Request -> RecordType]
  BY <1>1 DEF GaugeInv
<1>3. ASSUME NEW t \in Request
      PROVE  KindFits(t)' /\ Between(t)'
  <2>1. CASE t = r BY <1>1, <2>1 DEF GaugeInv, KindFits, Between
  <2>2. CASE t # r BY <1>1, <2>2 DEF GaugeInv, KindFits, Between
  <2> QED BY <2>1, <2>2
<1> QED BY <1>1, <1>2, <1>3 DEF GaugeInv, GaugeFresh, Zero

LEMMA AddGauge ==
  ASSUME GaugeInv, NEW r \in Request, Add(r)
  PROVE  GaugeInv'
<1>1. /\ totalHits' \in Nat /\ totalHits <= totalHits'
      /\ totalMisses' \in Nat /\ totalMisses <= totalMisses'
      /\ UNCHANGED <<hitRatio, since>>
  BY DEF Add, Collects, GaugeInv, AfterAdd
<1>2. record' \in [Request -> RecordType] /\ \A t \in Request \ {r} : record'[t] = record[t]
  BY DEF Add, Collects, GaugeInv, AfterAdd
<1>3. ASSUME NEW t \in Request
      PROVE  KindFits(t)' /\ Between(t)'
  <2>1. CASE t # r BY <1>1, <1>2, <2>1 DEF GaugeInv, KindFits, Between
  <2>2. CASE t = r /\ record[r].kind = "hit"
    BY <1>1, <1>2, <2>2 DEF GaugeInv, KindFits, Between, Add, Collects, AfterAdd
  <2>3. CASE t = r /\ record[r].kind = "miss"
    BY <1>1, <1>2, <2>3 DEF GaugeInv, KindFits, Between, Add, Collects, AfterAdd
  <2> QED BY <2>1, <2>2, <2>3 DEF Add
<1>4. GaugeFresh'
  BY <1>1 DEF GaugeInv, GaugeFresh, Zero
<1> QED BY <1>1, <1>2, <1>3, <1>4 DEF GaugeInv

LEMMA LoadGauge ==
  ASSUME GaugeInv, NEW r \in Request, Load(r)
  PROVE  GaugeInv'
<1>1. UNCHANGED <<totalHits, totalMisses, hitRatio, since>>
  BY DEF Load, totals
<1>2. record' \in [Request -> RecordType] /\ \A t \in Request \ {r} : record'[t] = record[t]
  BY DEF Load, Collects, GaugeInv
<1>3. ASSUME NEW t \in Request
      PROVE  KindFits(t)' /\ Between(t)'
  <2>1. CASE t # r BY <1>1, <1>2, <2>1 DEF GaugeInv, KindFits, Between
  <2>2. CASE t = r BY <1>1, <1>2, <2>2 DEF GaugeInv, KindFits, Between, Load, Collects
  <2> QED BY <2>1, <2>2
<1> QED BY <1>1, <1>2, <1>3 DEF GaugeInv, GaugeFresh, Zero

LEMMA CountGauge ==
  ASSUME GaugeInv, NEW r \in Request, NEW access, Count(r, access), access \notin Ratio
  PROVE  GaugeInv'
<1>1. UNCHANGED <<totalHits, totalMisses, hitRatio, since>>
  BY DEF Count, totals
<1>2. /\ record' \in [Request -> RecordType]
      /\ \A t \in Request \ {r} : record'[t] = record[t]
  BY DEF Count, Collects, GaugeInv
<1>3. ASSUME NEW t \in Request
      PROVE  KindFits(t)' /\ Between(t)'
  <2>1. CASE t # r BY <1>1, <1>2, <2>1 DEF GaugeInv, KindFits, Between
  <2>2. CASE t = r BY <1>1, <1>2, <2>2 DEF GaugeInv, KindFits, Between, Count, Collects
  <2> QED BY <2>1, <2>2
<1> QED BY <1>1, <1>2, <1>3 DEF GaugeInv, GaugeFresh, Zero

LEMMA SetGauge ==
  ASSUME GaugeInv, NEW r \in Request, SetRatio(r)
  PROVE  GaugeInv'
<1>1. UNCHANGED <<totalHits, totalMisses>>
  BY DEF SetRatio, totals
<1>2. /\ record' \in [Request -> RecordType]
      /\ \A t \in Request \ {r} : record'[t] = record[t]
      /\ record'[r].left = record[r].left \ {"set"} /\ record'[r].kind = record[r].kind
  BY DEF SetRatio, Collects, GaugeInv
<1>3. ASSUME NEW t \in Request
      PROVE  KindFits(t)' /\ Between(t)'
  <2>1. CASE t # r BY <1>1, <1>2, <2>1 DEF GaugeInv, KindFits, Between
  <2>2. CASE t = r BY <1>2, <2>2 DEF GaugeInv, KindFits, Between
  <2> QED BY <2>1, <2>2
<1>4. GaugeFresh' /\ hitRatio' \in Pair /\ since' \in Pair
  <2>1. /\ hitRatio' = [h |-> record[r].h, m |-> record[r].m]
        /\ since' = record[r].base
        /\ record[r] \in RecordType /\ Between(r)
        /\ record[r].kind \in {"hit", "miss"}
        /\ ~Left(r, "add") /\ ~Left(r, "load") /\ Left(r, "set")
    BY DEF SetRatio, GaugeInv, KindFits
  <2> QED BY <1>1, <2>1 DEF Between, GaugeFresh, Zero, GaugeInv
<1> QED BY <1>1, <1>2, <1>3, <1>4 DEF GaugeInv

LEMMA GaugeStep == GaugeInv /\ [RouteNext]_routeVars => GaugeInv'
<1> SUFFICES ASSUME GaugeInv, [RouteNext]_routeVars PROVE GaugeInv'
  OBVIOUS
<1>1. ASSUME NEW r \in Request, RouteHit(r) PROVE GaugeInv'
  BY <1>1, BeginGauge DEF RouteHit, BeginHit
<1>2. ASSUME NEW r \in Request, RouteMiss(r) PROVE GaugeInv'
  BY <1>2, BeginGauge DEF RouteMiss, BeginMiss
<1>3. ASSUME NEW r \in Request, Recording(r) PROVE GaugeInv'
  BY <1>3, AddGauge, LoadGauge, SetGauge, CountGauge
     DEF Recording, RecordStep, CountHit, CountMiss, CountTokens, CountSaved
<1>4. CASE UNCHANGED metricVars
  BY <1>4 DEF metricVars, totals, GaugeInv, KindFits, Between, GaugeFresh
<1> QED
  BY <1>1, <1>2, <1>3, <1>4
     DEF RouteNext, ColdMissTarget, Picking, LoadsChange, routeVars

\* GaugeFresh: however many records overlap, the hit-ratio gauge is no older than
\* the start of the record that set it last.
THEOREM GaugeIsFresh == RouteSpec => []GaugeFresh
<1>1. RouteInit => GaugeInv BY GaugeInit DEF RouteInit
<1>2. GaugeInv => GaugeFresh BY DEF GaugeInv
<1> QED BY <1>1, <1>2, GaugeStep, PTL DEF RouteSpec
----------------------------------------------------------------------------
(* The savings estimate.                                                   *)

\* A number per request, summed over a set of them by counting pairs.
Units(amount, S) == {u \in S \X Nat : u[2] \in 1 .. amount[u[1]]}
Sum(amount, S) == Cardinality(Units(amount, S))

MsOf == [r \in Request |-> TtftMs(TokensOf[r])]

LEMMA SumEmpty ==
  ASSUME NEW amount PROVE IsFiniteSet(Units(amount, {})) /\ Sum(amount, {}) = 0
<1>1. Units(amount, {}) = {} BY DEF Units
<1> QED BY <1>1, FS_EmptySet DEF Sum

\* One request more in the set adds its number.
LEMMA SumAdd ==
  ASSUME NEW amount, NEW S, NEW r, r \notin S, amount[r] \in Nat,
         IsFiniteSet(Units(amount, S))
  PROVE  /\ IsFiniteSet(Units(amount, S \cup {r}))
         /\ Sum(amount, S) \in Nat
         /\ Sum(amount, S \cup {r}) = Sum(amount, S) + amount[r]
<1> DEFINE U == Units(amount, S)
           V == {r} \X (1 .. amount[r])
<1>1. IsFiniteSet(V) /\ Cardinality(V) = amount[r]
  <2>1. IsFiniteSet(1 .. amount[r]) /\ Cardinality(1 .. amount[r]) = amount[r]
    BY FS_Interval
  <2>2. IsFiniteSet({r}) /\ Cardinality({r}) = 1 BY FS_Singleton, Zenon
  <2>3. /\ IsFiniteSet(V)
        /\ Cardinality(V) = Cardinality({r}) * Cardinality(1 .. amount[r])
    BY <2>1, <2>2, FS_Product
  <2>4. 1 * amount[r] = amount[r] OBVIOUS
  <2> QED BY <2>1, <2>2, <2>3, <2>4
<1>2. Units(amount, S \cup {r}) = U \cup V
  BY DEF Units
<1>3. U \cap V = {}
  BY DEF Units
<1>4. Cardinality(U \cap V) = 0 BY <1>3, FS_EmptySet
<1>5. Cardinality(U) \in Nat BY FS_CardinalityType
<1> HIDE DEF U, V
<1>6. IsFiniteSet(U) BY DEF U
<1>7. IsFiniteSet(U \cup V) /\ Cardinality(U \cup V) = Cardinality(U) + amount[r]
  <2>1. /\ IsFiniteSet(U \cup V)
        /\ Cardinality(U \cup V) = Cardinality(U) + Cardinality(V) - Cardinality(U \cap V)
    BY <1>1, <1>6, FS_Union
  <2> QED BY <1>1, <1>4, <1>5, <2>1
<1> QED BY <1>2, <1>5, <1>7 DEF Sum, U

LEMMA SumRemove ==
  ASSUME NEW amount, NEW S, NEW r, r \in S, amount[r] \in Nat,
         IsFiniteSet(Units(amount, S))
  PROVE  /\ IsFiniteSet(Units(amount, S \ {r}))
         /\ Sum(amount, S) \in Nat /\ Sum(amount, S \ {r}) \in Nat
         /\ Sum(amount, S \ {r}) = Sum(amount, S) - amount[r]
<1> DEFINE T == S \ {r}
<1>1. Units(amount, T) \in SUBSET Units(amount, S) BY DEF Units
<1>2. IsFiniteSet(Units(amount, T)) BY <1>1, FS_Subset
<1>3. T \cup {r} = S /\ r \notin T OBVIOUS
<1>4. Sum(amount, T) \in Nat BY <1>2, FS_CardinalityType DEF Sum
<1>5. Sum(amount, S) = Sum(amount, T) + amount[r]
  <2> HIDE DEF T
  <2> QED BY <1>2, <1>3, SumAdd
<1> QED BY <1>2, <1>4, <1>5

\* Rounding to the next millisecond is off by at most half of one.
LEMMA RoundingError ==
  ASSUME NEW r \in Request
  PROVE  /\ TokensOf[r] \in Nat /\ MsOf[r] \in Nat
         /\ 100 * MsOf[r] - 4 * TokensOf[r] \in -50 .. 50
BY TokensAssumption DEF MsOf, TtftMs

Within(tokens, ms, n) ==
  -50 * n <= 100 * ms - 4 * tokens /\ 100 * ms - 4 * tokens <= 50 * n

LEMMA WithinOneMore ==
  ASSUME NEW tokens \in Int, NEW ms \in Int, NEW n \in Nat, Within(tokens, ms, n),
         NEW r \in Request
  PROVE  Within(tokens + TokensOf[r], ms + MsOf[r], n + 1)
BY RoundingError DEF Within

\* Of the hits, those in C have both their tokens and their milliseconds counted,
\* those in A only their tokens and those in B only their milliseconds.
Settled(tokens, ms, C, A, B) ==
  /\ tokens \in Nat /\ ms \in Nat
  /\ IsFiniteSet(C) /\ IsFiniteSet(Units(TokensOf, A)) /\ IsFiniteSet(Units(MsOf, B))
  /\ Within(tokens - Sum(TokensOf, A), ms - Sum(MsOf, B), Cardinality(C))

\* With T the hits whose tokens are counted and M those whose milliseconds are:
\* what only one of the two holds set aside, the totals agree up to the rounding.
Balanced(tokens, ms, T, M) == Settled(tokens, ms, T \cap M, T \ M, M \ T)

LEMMA SettledNumbers ==
  ASSUME NEW tokens, NEW ms, NEW C, NEW A, NEW B, Settled(tokens, ms, C, A, B)
  PROVE  /\ tokens \in Nat /\ ms \in Nat /\ Cardinality(C) \in Nat
         /\ Sum(TokensOf, A) \in Nat /\ Sum(MsOf, B) \in Nat
BY FS_CardinalityType DEF Settled, Sum

\* A hit's second counter moves, the milliseconds or the tokens; or its first one.
LEMMA SettledByTokens ==
  ASSUME NEW tokens, NEW ms, NEW C, NEW A, NEW B, Settled(tokens, ms, C, A, B),
         NEW r \in Request, r \notin C, r \in B
  PROVE  Settled(tokens + TokensOf[r], ms, C \cup {r}, A, B \ {r})
<1>1. TokensOf[r] \in Nat /\ MsOf[r] \in Nat BY RoundingError
<1>2. /\ IsFiniteSet(Units(MsOf, B \ {r})) /\ Sum(MsOf, B \ {r}) = Sum(MsOf, B) - MsOf[r]
  BY <1>1, SumRemove DEF Settled
<1>3. IsFiniteSet(C \cup {r}) /\ Cardinality(C \cup {r}) = Cardinality(C) + 1
  BY FS_AddElement DEF Settled
<1>4. Within((tokens - Sum(TokensOf, A)) + TokensOf[r], (ms - Sum(MsOf, B)) + MsOf[r],
             Cardinality(C) + 1)
  BY SettledNumbers, WithinOneMore DEF Settled
<1>5. /\ (tokens - Sum(TokensOf, A)) + TokensOf[r] = (tokens + TokensOf[r]) - Sum(TokensOf, A)
      /\ (ms - Sum(MsOf, B)) + MsOf[r] = ms - (Sum(MsOf, B) - MsOf[r])
  BY <1>1, SettledNumbers
<1>6. Within((tokens + TokensOf[r]) - Sum(TokensOf, A), ms - Sum(MsOf, B \ {r}),
             Cardinality(C \cup {r}))
  BY <1>2, <1>3, <1>4, <1>5
<1> QED BY <1>1, <1>2, <1>3, <1>6, SettledNumbers DEF Settled

LEMMA SettledBySaved ==
  ASSUME NEW tokens, NEW ms, NEW C, NEW A, NEW B, Settled(tokens, ms, C, A, B),
         NEW r \in Request, r \notin C, r \in A
  PROVE  Settled(tokens, ms + MsOf[r], C \cup {r}, A \ {r}, B)
<1>1. TokensOf[r] \in Nat /\ MsOf[r] \in Nat BY RoundingError
<1>2. /\ IsFiniteSet(Units(TokensOf, A \ {r}))
      /\ Sum(TokensOf, A \ {r}) = Sum(TokensOf, A) - TokensOf[r]
  BY <1>1, SumRemove DEF Settled
<1>3. IsFiniteSet(C \cup {r}) /\ Cardinality(C \cup {r}) = Cardinality(C) + 1
  BY FS_AddElement DEF Settled
<1>4. Within((tokens - Sum(TokensOf, A)) + TokensOf[r], (ms - Sum(MsOf, B)) + MsOf[r],
             Cardinality(C) + 1)
  BY SettledNumbers, WithinOneMore DEF Settled
<1>5. /\ (tokens - Sum(TokensOf, A)) + TokensOf[r] = tokens - (Sum(TokensOf, A) - TokensOf[r])
      /\ (ms - Sum(MsOf, B)) + MsOf[r] = (ms + MsOf[r]) - Sum(MsOf, B)
  BY <1>1, SettledNumbers
<1>6. Within(tokens - Sum(TokensOf, A \ {r}), (ms + MsOf[r]) - Sum(MsOf, B),
             Cardinality(C \cup {r}))
  BY <1>2, <1>3, <1>4, <1>5
<1> QED BY <1>1, <1>2, <1>3, <1>6, SettledNumbers DEF Settled

LEMMA OpenedByTokens ==
  ASSUME NEW tokens, NEW ms, NEW C, NEW A, NEW B, Settled(tokens, ms, C, A, B),
         NEW r \in Request, r \notin A
  PROVE  Settled(tokens + TokensOf[r], ms, C, A \cup {r}, B)
<1>1. TokensOf[r] \in Nat BY RoundingError
<1>2. /\ IsFiniteSet(Units(TokensOf, A \cup {r}))
      /\ Sum(TokensOf, A \cup {r}) = Sum(TokensOf, A) + TokensOf[r]
  BY <1>1, SumAdd DEF Settled
<1>3. (tokens + TokensOf[r]) - (Sum(TokensOf, A) + TokensOf[r]) = tokens - Sum(TokensOf, A)
  BY <1>1, SettledNumbers
<1>4. Within((tokens + TokensOf[r]) - Sum(TokensOf, A \cup {r}), ms - Sum(MsOf, B),
             Cardinality(C))
  BY <1>2, <1>3 DEF Settled
<1> QED BY <1>1, <1>2, <1>4, SettledNumbers DEF Settled

LEMMA OpenedBySaved ==
  ASSUME NEW tokens, NEW ms, NEW C, NEW A, NEW B, Settled(tokens, ms, C, A, B),
         NEW r \in Request, r \notin B
  PROVE  Settled(tokens, ms + MsOf[r], C, A, B \cup {r})
<1>1. MsOf[r] \in Nat BY RoundingError
<1>2. /\ IsFiniteSet(Units(MsOf, B \cup {r}))
      /\ Sum(MsOf, B \cup {r}) = Sum(MsOf, B) + MsOf[r]
  BY <1>1, SumAdd DEF Settled
<1>3. (ms + MsOf[r]) - (Sum(MsOf, B) + MsOf[r]) = ms - Sum(MsOf, B)
  BY <1>1, SettledNumbers
<1>4. Within(tokens - Sum(TokensOf, A), (ms + MsOf[r]) - Sum(MsOf, B \cup {r}),
             Cardinality(C))
  BY <1>2, <1>3 DEF Settled
<1> QED BY <1>1, <1>2, <1>4, SettledNumbers DEF Settled

LEMMA TokensBalanced ==
  ASSUME NEW tokens, NEW ms, NEW T \in SUBSET Request, NEW M \in SUBSET Request,
         Balanced(tokens, ms, T, M), NEW r \in Request \ T
  PROVE  Balanced(tokens + TokensOf[r], ms, T \cup {r}, M)
<1>1. CASE r \in M
  <2>1. /\ (T \cup {r}) \cap M = (T \cap M) \cup {r}
        /\ (T \cup {r}) \ M = T \ M /\ M \ (T \cup {r}) = (M \ T) \ {r}
    BY <1>1
  <2>2. Settled(tokens + TokensOf[r], ms, (T \cap M) \cup {r}, T \ M, (M \ T) \ {r})
    BY <1>1, SettledByTokens DEF Balanced
  <2> QED BY <2>1, <2>2, Zenon DEF Balanced
<1>2. CASE r \notin M
  <2>1. /\ (T \cup {r}) \cap M = T \cap M /\ M \ (T \cup {r}) = M \ T
        /\ (T \cup {r}) \ M = (T \ M) \cup {r}
    BY <1>2
  <2>2. Settled(tokens + TokensOf[r], ms, T \cap M, (T \ M) \cup {r}, M \ T)
    BY OpenedByTokens DEF Balanced
  <2> QED BY <2>1, <2>2, Zenon DEF Balanced
<1> QED BY <1>1, <1>2

LEMMA SavedBalanced ==
  ASSUME NEW tokens, NEW ms, NEW T \in SUBSET Request, NEW M \in SUBSET Request,
         Balanced(tokens, ms, T, M), NEW r \in Request \ M
  PROVE  Balanced(tokens, ms + MsOf[r], T, M \cup {r})
<1>1. CASE r \in T
  <2>1. /\ T \cap (M \cup {r}) = (T \cap M) \cup {r}
        /\ (M \cup {r}) \ T = M \ T /\ T \ (M \cup {r}) = (T \ M) \ {r}
    BY <1>1
  <2>2. Settled(tokens, ms + MsOf[r], (T \cap M) \cup {r}, (T \ M) \ {r}, M \ T)
    BY <1>1, SettledBySaved DEF Balanced
  <2> QED BY <2>1, <2>2, Zenon DEF Balanced
<1>2. CASE r \notin T
  <2>1. /\ T \cap (M \cup {r}) = T \cap M /\ T \ (M \cup {r}) = T \ M
        /\ (M \cup {r}) \ T = (M \ T) \cup {r}
    BY <1>2
  <2>2. Settled(tokens, ms + MsOf[r], T \cap M, T \ M, (M \ T) \cup {r})
    BY OpenedBySaved DEF Balanced
  <2> QED BY <2>1, <2>2, Zenon DEF Balanced
<1> QED BY <1>1, <1>2

\* The hits that have moved a counter.
Moved(access) == {r \in Request : record[r].kind = "hit" /\ ~Left(r, access)}

SavingsInv ==
  /\ IsFiniteSet(Moved("hits")) /\ hits = Cardinality(Moved("hits"))
  /\ Balanced(tokensCached, ttftSaved, Moved("tokens"), Moved("saved"))

LEMMA SavingsStart == MetricsInit => SavingsInv
<1> SUFFICES ASSUME MetricsInit PROVE SavingsInv
  OBVIOUS
<1>1. \A access : Moved(access) = {} BY DEF MetricsInit, NoRecord, Moved
<1>2. {} \cap {} = {} /\ {} \ {} = {} OBVIOUS
<1> QED BY <1>1, <1>2, FS_EmptySet, SumEmpty DEF MetricsInit, SavingsInv, Balanced, Settled, Within

\* An access moves its own counter only.
LEMMA MovedBy ==
  ASSUME GaugeInv, NEW r \in Request, NEW access, NEW h, NEW m,
         Left(r, access), Collects(r, access, h, m), NEW other
  PROVE  Moved(other)' = IF other = access /\ record[r].kind = "hit"
                         THEN Moved(other) \cup {r} ELSE Moved(other)
<1>1. /\ record'[r].kind = record[r].kind /\ record'[r].left = record[r].left \ {access}
      /\ \A t \in Request \ {r} : record'[t] = record[t]
  BY DEF Collects, GaugeInv
<1> QED BY <1>1 DEF Moved

LEMMA SavingsStep == GaugeInv /\ SavingsInv /\ [RouteNext]_routeVars => SavingsInv'
<1> SUFFICES ASSUME GaugeInv, SavingsInv, [RouteNext]_routeVars PROVE SavingsInv'
  OBVIOUS
<1>1. ASSUME NEW r \in Request, BeginHit(r) \/ BeginMiss(r) PROVE SavingsInv'
  <2>1. /\ record[r].kind = "none"
        /\ \A t \in Request \ {r} : record'[t] = record[t]
        /\ record'[r].kind = "hit" => record'[r].left = Savings \cup Ratio
    BY <1>1 DEF BeginHit, BeginMiss, Begin, GaugeInv
  <2>2. \A access \in Savings : Moved(access)' = Moved(access)
    BY <2>1 DEF Moved
  <2>3. UNCHANGED <<hits, tokensCached, ttftSaved>>
    BY <1>1 DEF BeginHit, BeginMiss, Begin, counters
  <2> QED BY <2>2, <2>3 DEF SavingsInv
<1>2. ASSUME NEW r \in Request, CountHit(r) PROVE SavingsInv'
  <2>1. record[r].kind = "hit" /\ r \notin Moved("hits")
    BY <1>2 DEF CountHit, Count, Moved, GaugeInv, KindFits
  <2>2. /\ Moved("hits")' = Moved("hits") \cup {r}
        /\ Moved("tokens")' = Moved("tokens") /\ Moved("saved")' = Moved("saved")
    BY <1>2, <2>1, MovedBy DEF CountHit, Count
  <2>3. /\ IsFiniteSet(Moved("hits")')
        /\ Cardinality(Moved("hits")') = Cardinality(Moved("hits")) + 1
    BY <2>1, <2>2, FS_AddElement DEF SavingsInv
  <2> QED BY <1>2, <2>2, <2>3 DEF CountHit, SavingsInv
<1>3. ASSUME NEW r \in Request, CountTokens(r) PROVE SavingsInv'
  <2>1. record[r].kind = "hit" /\ r \notin Moved("tokens")
    BY <1>3 DEF CountTokens, Count, Moved, GaugeInv, KindFits
  <2>2. /\ Moved("tokens")' = Moved("tokens") \cup {r}
        /\ Moved("hits")' = Moved("hits") /\ Moved("saved")' = Moved("saved")
    BY <1>3, <2>1, MovedBy DEF CountTokens, Count
  <2>3. Balanced(tokensCached + TokensOf[r], ttftSaved, Moved("tokens") \cup {r},
                 Moved("saved"))
    BY <2>1, TokensBalanced DEF SavingsInv, Moved
  <2> QED BY <1>3, <2>2, <2>3 DEF CountTokens, SavingsInv
<1>4. ASSUME NEW r \in Request, CountSaved(r) PROVE SavingsInv'
  <2>1. record[r].kind = "hit" /\ r \notin Moved("saved")
    BY <1>4 DEF CountSaved, Count, Moved, GaugeInv, KindFits
  <2>2. /\ Moved("saved")' = Moved("saved") \cup {r}
        /\ Moved("hits")' = Moved("hits") /\ Moved("tokens")' = Moved("tokens")
    BY <1>4, <2>1, MovedBy DEF CountSaved, Count
  <2>3. Balanced(tokensCached, ttftSaved + MsOf[r], Moved("tokens"),
                 Moved("saved") \cup {r})
    BY <2>1, SavedBalanced DEF SavingsInv, Moved
  <2>4. ttftSaved' = ttftSaved + MsOf[r] BY <1>4 DEF CountSaved, MsOf
  <2> QED BY <1>4, <2>2, <2>3, <2>4 DEF CountSaved, SavingsInv
<1>5. ASSUME NEW r \in Request,
             CountMiss(r) \/ Add(r) \/ Load(r) \/ SetRatio(r)
      PROVE  SavingsInv'
  <2>1. UNCHANGED <<hits, tokensCached, ttftSaved>>
    BY <1>5 DEF CountMiss, Add, Load, SetRatio, counters
  <2>2. PICK access \in {"misses"} \cup Ratio :
          \E h, m : Left(r, access) /\ Collects(r, access, h, m)
    BY <1>5 DEF CountMiss, Count, Add, Load, SetRatio
  <2>3. \A other \in Savings : Moved(other)' = Moved(other)
    BY <2>2, MovedBy
  <2> QED BY <2>1, <2>3 DEF SavingsInv
<1>6. CASE UNCHANGED metricVars
  BY <1>6 DEF metricVars, counters, SavingsInv, Moved
<1> QED
  BY <1>1, <1>2, <1>3, <1>4, <1>5, <1>6
     DEF RouteNext, RouteHit, RouteMiss, Recording, RecordStep, ColdMissTarget, Picking,
         LoadsChange, routeVars

LEMMA SavingsAtRest == GaugeInv /\ SavingsInv => SavingsRounded
<1> SUFFICES ASSUME GaugeInv, SavingsInv, \A r \in Request : ~Settling(r)
             PROVE  /\ -50 * hits <= 100 * ttftSaved - 4 * tokensCached
                    /\ 100 * ttftSaved - 4 * tokensCached <= 50 * hits
  BY DEF SavingsRounded
<1> DEFINE H == Moved("hits")
<1>1. Moved("tokens") = H /\ Moved("saved") = H
  BY DEF Moved, Settling
<1>2. Settled(tokensCached, ttftSaved, H, {}, {})
  <2>1. H \cap H = H /\ H \ H = {} OBVIOUS
  <2>2. Balanced(tokensCached, ttftSaved, H, H) BY <1>1 DEF SavingsInv
  <2> HIDE DEF H
  <2> QED BY <2>1, <2>2, Zenon DEF Balanced
<1>3. Sum(MsOf, {}) = 0 /\ Sum(TokensOf, {}) = 0 BY SumEmpty
<1>4. hits = Cardinality(H)
  BY DEF SavingsInv
<1>5. Cardinality(H) \in Nat BY FS_CardinalityType DEF SavingsInv
<1> HIDE DEF H
<1> QED BY <1>2, <1>3, <1>4, <1>5 DEF Settled, Within

\* SavingsRounded, for any number of hits of any size in any overlap.
THEOREM SavingsAreRounded == RouteSpec => []SavingsRounded
<1>1. RouteInit => GaugeInv /\ SavingsInv
  BY GaugeInit, SavingsStart DEF RouteInit
<1> QED BY <1>1, GaugeStep, SavingsStep, SavingsAtRest, PTL DEF RouteSpec

----------------------------------------------------------------------------
(* The choice of a pod.                                                    *)

KeyType == [load : Nat, ttl : Nat]

\* A listed pod is either still to be asked or has been; what a GET brought is
\* the pod's load for as long as that stands, and Half where it brought nothing.
ListInv(r) ==
  /\ steady[r] \subseteq unread[r] \cup Collected(r)
  /\ unread[r] \cap Collected(r) = {}
  /\ \A p \in Collected(r) : seen[r][p] \in Nat
  /\ blind[r] \subseteq Collected(r)
  /\ \A p \in blind[r] : seen[r][p] = Half
  /\ \A p \in Collected(r) \cap Compared(r) : seen[r][p] = loadKey[p].load

PickInv ==
  /\ loadKey \in [Pod -> KeyType]
  /\ call \in [Request -> {"no", "keys", "get", "done"}]
  /\ unread \in [Request -> SUBSET Pod]
  /\ seen \in [Request -> [Pod -> Nat \cup {Unread}]]
  /\ target \in [Request -> Pod \cup {DefaultPod, NoTarget}]
  /\ steady \in [Request -> SUBSET Pod]
  /\ blind \in [Request -> SUBSET Pod]
  /\ \A r \in Request : ListInv(r)
  /\ \A r \in Request :
       call[r] # "get" => unread[r] = {} /\ steady[r] = {} /\ Collected(r) = {}

LEMMA PickStart == PickInit => PickInv
BY UnreadAssumption
   DEF PickInit, PickInv, ListInv, Loads!Init, Loads!Missing, KeyType, Nothing,
       Collected, Compared

\* What other requests have listed and seen is not touched.
LEMMA OthersKept ==
  ASSUME PickInv, NEW r \in Request, NEW t \in Request, t # r,
         UNCHANGED loadKey, unread'[t] = unread[t], seen'[t] = seen[t],
         steady'[t] = steady[t], blind'[t] = blind[t]
  PROVE  ListInv(t)' /\ Collected(t)' = Collected(t)
BY DEF PickInv, ListInv, Collected, Compared

LEMMA ListKeysPick ==
  ASSUME PickInv, NEW r \in Request, ListKeys(r)
  PROVE  PickInv'
<1>1. ASSUME NEW t \in Request, t # r
      PROVE  ListInv(t)' /\ Collected(t)' = Collected(t)
  BY <1>1, OthersKept DEF ListKeys, PickInv
<1>2. Collected(r) = {} /\ unread[r] = {} /\ steady[r] = {}
  BY DEF PickInv, ListKeys
<1>3. Collected(r)' = {}
  BY <1>2 DEF ListKeys, Collected
<1>4. unread'[r] = steady'[r] /\ blind'[r] = {}
  BY <1>2 DEF ListKeys, PickInv, ListInv
<1>5. ListInv(r)'
  BY <1>3, <1>4 DEF ListInv
<1>6. \A t \in Request : ListInv(t)'
  BY <1>1, <1>5
<1>7. \A t \in Request :
        call'[t] # "get" => unread'[t] = {} /\ steady'[t] = {} /\ Collected(t)' = {}
  BY <1>1 DEF ListKeys, PickInv
<1> QED BY <1>6, <1>7 DEF ListKeys, PickInv

LEMMA DonePick ==
  ASSUME PickInv, NEW r \in Request, NEW pod \in Pod \cup {DefaultPod}, Done(r, pod)
  PROVE  PickInv'
<1>1. ASSUME NEW t \in Request, t # r
      PROVE  ListInv(t)' /\ Collected(t)' = Collected(t)
  BY <1>1, OthersKept DEF Done, PickInv
<1>2. /\ seen'[r] = Nothing /\ unread'[r] = {} /\ steady'[r] = {} /\ blind'[r] = {}
  BY DEF Done, PickInv
<1>3. Collected(r)' = {}
  BY <1>2 DEF Collected, Nothing
<1>4. ListInv(r)'
  BY <1>2, <1>3 DEF ListInv, Compared
<1>5. \A t \in Request : ListInv(t)'
  BY <1>1, <1>4
<1>6. \A t \in Request :
        call'[t] # "get" => unread'[t] = {} /\ steady'[t] = {} /\ Collected(t)' = {}
  BY <1>1, <1>2, <1>3 DEF Done, PickInv
<1>7. seen' \in [Request -> [Pod -> Nat \cup {Unread}]]
  BY DEF Done, PickInv, Nothing
<1> QED BY <1>5, <1>6, <1>7 DEF Done, PickInv

\* One GET answered, with the load or with Half.
LEMMA GetPick ==
  ASSUME PickInv, NEW r \in Request, NEW p \in Pod, GetLoad(r, p) \/ GetNothing(r, p)
  PROVE  PickInv'
<1>1. /\ call[r] = "get" /\ p \in unread[r]
      /\ UNCHANGED <<loadKey, call, target, steady>>
      /\ unread' = [unread EXCEPT ![r] = @ \ {p}]
  BY DEF GetLoad, GetNothing, SeesLoad
<1>2. ASSUME NEW t \in Request, t # r
      PROVE  ListInv(t)' /\ Collected(t)' = Collected(t)
  BY <1>1, <1>2, OthersKept DEF GetLoad, GetNothing, SeesLoad, PickInv
<1>3. PICK load \in Nat : seen' = [seen EXCEPT ![r][p] = load]
                          /\ \/ load = loadKey[p].load /\ blind' = blind
                             \/ load = Half /\ blind' = [blind EXCEPT ![r] = @ \cup {p}]
  <2>1. loadKey[p].load \in Nat BY DEF PickInv, KeyType
  <2>2. Half \in Nat BY UtilAssumption
  <2> QED BY <2>1, <2>2 DEF GetLoad, GetNothing, SeesLoad, UnwrapOr
<1>4. seen' \in [Request -> [Pod -> Nat \cup {Unread}]]
  BY <1>3 DEF PickInv
<1>5. /\ seen'[r][p] = load
      /\ \A q \in Pod \ {p} : seen'[r][q] = seen[r][q]
  BY <1>3 DEF PickInv
<1>6. Collected(r)' = Collected(r) \cup {p}
  BY <1>5, UnreadAssumption DEF Collected
<1>7. ListInv(r)'
  <2>1. ListInv(r) /\ steady'[r] = steady[r] /\ unread'[r] = unread[r] \ {p}
    BY <1>1 DEF PickInv
  <2>2. p \notin Collected(r)
    BY <1>1, <2>1 DEF ListInv
  <2>3. CASE load = loadKey[p].load /\ blind' = blind
    BY <1>1, <1>5, <1>6, <2>1, <2>2, <2>3 DEF ListInv, Compared, Collected
  <2>4. CASE load = Half /\ blind' = [blind EXCEPT ![r] = @ \cup {p}]
    <3>1. blind'[r] = blind[r] \cup {p}
      BY <2>4 DEF PickInv
    <3> QED
      BY <1>1, <1>5, <1>6, <2>1, <2>2, <2>4, <3>1 DEF ListInv, Compared, Collected
  <2> QED BY <1>3, <2>3, <2>4
<1>8. \A t \in Request : ListInv(t)'
  BY <1>2, <1>7
<1>9. blind' \in [Request -> SUBSET Pod]
  BY <1>3 DEF PickInv
<1>10. \A t \in Request :
        call'[t] # "get" => unread'[t] = {} /\ steady'[t] = {} /\ Collected(t)' = {}
  BY <1>1, <1>2 DEF PickInv
<1>11. unread' \in [Request -> SUBSET Pod]
  BY <1>1 DEF PickInv
<1> QED BY <1>1, <1>4, <1>8, <1>9, <1>10, <1>11 DEF PickInv

LEMMA LoadsType ==
  ASSUME PickInv, Loads!Next
  PROVE  loadKey' \in [Pod -> KeyType]
<1>1. CASE \E p \in Pod, load \in Util : Loads!Report(p, load)
  BY <1>1, UtilAssumption, TtlAssumption DEF Loads!Report, PickInv, KeyType
<1>2. CASE \E p \in Pod : Loads!Vanish(p)
  BY <1>2 DEF Loads!Vanish, Loads!Missing, PickInv, KeyType
<1>3. CASE Loads!Tick
  <2>1. ASSUME NEW p \in Pod PROVE Loads!Aged(loadKey[p]) \in KeyType
    BY DEF PickInv, KeyType, Loads!Aged, Loads!Missing
  <2> QED BY <1>3, <2>1 DEF Loads!Tick
<1> QED BY <1>1, <1>2, <1>3 DEF Loads!Next

LEMMA LoadsPick == PickInv /\ LoadsMove => PickInv'
<1> SUFFICES ASSUME PickInv, LoadsMove PROVE PickInv'
  OBVIOUS
<1>1. UNCHANGED <<call, unread, seen, target, blind>> BY DEF LoadsMove
<1>2. \A r \in Request :
        /\ steady'[r] \subseteq steady[r]
        /\ \A p \in steady'[r] : loadKey'[p].load = loadKey[p].load
  BY DEF LoadsMove
<1>3. steady' \in [Request -> SUBSET Pod]
  BY DEF LoadsMove, PickInv
<1>4. ASSUME NEW r \in Request PROVE ListInv(r)' /\ Collected(r)' = Collected(r)
  BY <1>1, <1>2 DEF PickInv, ListInv, Collected, Compared
<1>5. loadKey' \in [Pod -> KeyType]
  BY LoadsType DEF LoadsMove
<1> QED BY <1>1, <1>2, <1>3, <1>4, <1>5 DEF PickInv

LEMMA PickStepInv == PickInv /\ [RouteNext]_routeVars => PickInv'
<1> SUFFICES ASSUME PickInv, [RouteNext]_routeVars PROVE PickInv'
  OBVIOUS
<1>1. ASSUME NEW r \in Request, StartPick(r) PROVE PickInv'
  <2>1. ASSUME NEW t \in Request PROVE ListInv(t)' /\ Collected(t)' = Collected(t)
    BY <1>1 DEF StartPick, PickInv, ListInv, Collected, Compared
  <2> QED BY <1>1, <2>1 DEF StartPick, PickInv
<1>2. ASSUME NEW r \in Request, PickStep(r) PROVE PickInv'
  BY <1>2, ListKeysPick, DonePick, GetPick
     DEF PickStep, ListFails, Choose, ChooseDefault
<1>3. CASE UNCHANGED <<loadKey, pickVars>>
  BY <1>3 DEF pickVars, PickInv, ListInv, Collected, Compared
<1> QED
  BY <1>1, <1>2, <1>3, LoadsPick
     DEF RouteNext, RouteHit, RouteMiss, Recording, ColdMissTarget, Picking,
         LoadsChange, routeVars

\* The choice is the least of what was collected, and for the pods compared that
\* is their load; for the blind it is Half.
LEMMA ChosenLeast ==
  ASSUME PickInv, [RouteNext]_routeVars, NEW r \in Request, Chooses(r)
  PROVE  /\ \A p, q \in Compared(r) : target'[r] = p => loadKey[p].load <= loadKey[q].load
         /\ target'[r] \in blind[r] => \A q \in Compared(r) : loadKey[q].load >= Half
<1>1. \/ \E p \in Pod : Choose(r, p)
      \/ ChooseDefault(r)
  BY DEF Chooses, RouteNext, RouteHit, RouteMiss, Recording, ColdMissTarget, StartPick,
         Picking, PickStep, ListKeys, ListFails, GetLoad, GetNothing, SeesLoad, Choose,
         ChooseDefault, Done, LoadsChange, LoadsMove, routeVars, pickVars, PickInv
<1>2. CASE ChooseDefault(r)
  <2>1. target'[r] = DefaultPod BY <1>2 DEF ChooseDefault, Done, PickInv
  <2>2. blind[r] \subseteq Pod /\ Compared(r) \subseteq Pod BY DEF PickInv, Compared
  <2> QED BY <2>1, <2>2, TargetAssumption
<1>3. ASSUME NEW p \in Pod, Choose(r, p)
      PROVE  /\ \A s, q \in Compared(r) :
                  target'[r] = s => loadKey[s].load <= loadKey[q].load
             /\ target'[r] \in blind[r] => \A q \in Compared(r) : loadKey[q].load >= Half
  <2>1. target'[r] = p /\ unread[r] = {} /\ SortsFirst(r, p)
    BY <1>3 DEF Choose, Done, PickInv
  <2>2. ListInv(r) BY DEF PickInv
  <2>3. Compared(r) \subseteq Collected(r)
    BY <2>1, <2>2 DEF ListInv, Compared
  <2>4. \A q \in Compared(r) : seen[r][q] = loadKey[q].load /\ seen[r][p] <= seen[r][q]
    BY <2>1, <2>2, <2>3 DEF ListInv, SortsFirst
  <2> QED BY <2>1, <2>2, <2>4 DEF ListInv
<1> QED BY <1>1, <1>2, <1>3

\* LeastOfSteady, for any number of pods and requests.
THEOREM LeastLoadedChosen == RouteSpec => LeastOfSteady
<1>1. RouteInit => PickInv BY PickStart DEF RouteInit
<1>2. PickInv /\ [RouteNext]_routeVars =>
        [\A r \in Request :
           Chooses(r) =>
             \A p, q \in Compared(r) :
               target'[r] = p => loadKey[p].load <= loadKey[q].load]_<<loadKey, pickVars>>
  BY ChosenLeast
<1> QED BY <1>1, <1>2, PickStepInv, PTL DEF RouteSpec, LeastOfSteady

\* BlindOnlyOverBusy: a pod below half load never loses to one whose load is unknown.
THEOREM UnknownOnlyOverBusy == RouteSpec => BlindOnlyOverBusy
<1>1. RouteInit => PickInv BY PickStart DEF RouteInit
<1>2. PickInv /\ [RouteNext]_routeVars =>
        [\A r \in Request :
           (Chooses(r) /\ target'[r] \in blind[r])
             => \A q \in Compared(r) : loadKey[q].load >= Half]_<<loadKey, pickVars>>
  BY ChosenLeast
<1> QED BY <1>1, <1>2, PickStepInv, PTL DEF RouteSpec, BlindOnlyOverBusy
============================================================================
