------------------------- MODULE PromptPrefixProofs -------------------------
(***************************************************************************)
(* Theorems of PromptPrefix, for any bodies of the types it assumes and of *)
(* any length.  The only fact about steps is TypeInv; each property then   *)
(* follows from the types of the two bodies.                               *)
(*                                                                         *)
(* Induction is on positions and lengths: every non-empty set of numbers   *)
(* has a least element (Least, NatSets).  On it rest the three ways the    *)
(* model builds sequences: by rank in a total order (Ordered, Chosen), by  *)
(* concatenation of parts (FlattenSeq), and by sections (SubSeq).          *)
(***************************************************************************)
EXTENDS PromptPrefix, FiniteSetTheorems, SequenceTheorems, WellFoundedInduction, TLAPS

----------------------------------------------------------------------------
(* Sets of numbers.                                                        *)

LEMMA Least ==
  ASSUME NEW T \in SUBSET Nat, T # {}
  PROVE  \E x \in T : \A y \in T : x <= y
<1> DEFINE R == {ss \in Nat \X Nat : ss[1] < ss[2]}
<1>1. IsWellFoundedOn(R, Nat) BY NatLessThanWellFounded DEF OpToRel
<1>2. \E x \in T : \A y \in T : ~(<<y, x>> \in R)
  <2> HIDE DEF R
  <2> QED BY <1>1, WFMin
<1>3. \A x, y \in T : ~(<<y, x>> \in R) => x <= y OBVIOUS
<1> HIDE DEF R
<1> QED BY <1>2, <1>3

\* Induction on numbers, of a set in place of a predicate.
LEMMA NatSets ==
  ASSUME NEW S, 0 \in S, \A n \in Nat : n \in S => n + 1 \in S
  PROVE  Nat \subseteq S
<1>1. SUFFICES ASSUME Nat \ S # {} PROVE FALSE OBVIOUS
<1>2. PICK x \in Nat \ S : \A y \in Nat \ S : x <= y
  <2> DEFINE T == Nat \ S
  <2>1. T \in SUBSET Nat /\ T # {} BY <1>1
  <2> HIDE DEF T
  <2>2. \E x \in T : \A y \in T : x <= y BY <2>1, Least
  <2> QED BY <2>2 DEF T
<1>3. x # 0 /\ x - 1 \in Nat BY <1>2
<1>4. x - 1 \in S BY <1>2, <1>3
<1> QED BY <1>2, <1>3, <1>4

LEMMA MinIs ==
  ASSUME NEW T \in SUBSET Nat, T # {}
  PROVE  Min(T) \in T /\ \A y \in T : Min(T) <= y
BY Least DEF Min

LEMMA MaxIs ==
  ASSUME NEW T \in SUBSET Nat, T # {}, NEW m \in Nat, \A y \in T : y <= m
  PROVE  Max(T) \in T /\ \A y \in T : y <= Max(T)
<1> DEFINE U == {m - y : y \in T}
<1>1. U \in SUBSET Nat /\ U # {}
  <2>1. \A y \in T : m - y \in Nat OBVIOUS
  <2> QED BY <2>1
<1>2. PICK u \in U : \A y \in U : u <= y BY <1>1, Least
<1>3. PICK x \in T : u = m - x BY <1>2
<1>4. \A y \in T : x >= y
  <2> TAKE y \in T
  <2>1. m - y \in U OBVIOUS
  <2> QED BY <2>1, <1>2, <1>3
<1>5. \E z \in T : \A y \in T : z >= y BY <1>4
<1> HIDE DEF U
<1> QED BY <1>5 DEF Max

----------------------------------------------------------------------------
(* Ordered: a strict total order ranks the elements of a finite set.       *)

TotalOrder(S, R) ==
  /\ \A x \in S : <<x, x>> \notin R
  /\ \A x, y \in S : x # y => <<x, y>> \in R \/ <<y, x>> \in R
  /\ \A x, y, z \in S : <<x, y>> \in R /\ <<y, z>> \in R => <<x, z>> \in R

Before(S, R, x) == {y \in S : <<y, x>> \in R}
Rank(S, R, x) == Cardinality(Before(S, R, x))

LEMMA RankBounds ==
  ASSUME NEW S, IsFiniteSet(S), NEW R, TotalOrder(S, R), NEW x \in S
  PROVE  Rank(S, R, x) \in 0 .. Cardinality(S) - 1
<1>1. Before(S, R, x) \in SUBSET S /\ x \notin Before(S, R, x) BY DEF Before, TotalOrder
<1>2. IsFiniteSet(Before(S, R, x)) /\ Cardinality(Before(S, R, x)) <= Cardinality(S)
      /\ Cardinality(Before(S, R, x)) # Cardinality(S)
  BY <1>1, FS_Subset
<1>3. Cardinality(Before(S, R, x)) \in Nat /\ Cardinality(S) \in Nat
  BY <1>2, FS_CardinalityType
<1> QED BY <1>2, <1>3 DEF Rank

LEMMA RankMonotonic ==
  ASSUME NEW S, IsFiniteSet(S), NEW R, TotalOrder(S, R), NEW x \in S, NEW y \in S,
         <<x, y>> \in R
  PROVE  Rank(S, R, x) < Rank(S, R, y)
<1>1. Before(S, R, x) \in SUBSET Before(S, R, y) BY DEF Before, TotalOrder
<1>2. x \in Before(S, R, y) /\ x \notin Before(S, R, x) BY DEF Before, TotalOrder
<1>3. Before(S, R, y) \in SUBSET S BY DEF Before
<1>4. IsFiniteSet(Before(S, R, y)) BY <1>3, FS_Subset
<1>5. Cardinality(Before(S, R, x)) <= Cardinality(Before(S, R, y))
      /\ Cardinality(Before(S, R, x)) # Cardinality(Before(S, R, y))
  BY <1>1, <1>2, <1>4, FS_Subset
<1>6. Rank(S, R, x) \in Int /\ Rank(S, R, y) \in Int BY RankBounds
<1> QED BY <1>5, <1>6 DEF Rank

\* The elements stand at their ranks.
LEMMA OrderedIs ==
  ASSUME NEW S, IsFiniteSet(S), NEW R, TotalOrder(S, R)
  PROVE  /\ Cardinality(S) \in Nat
         /\ Ordered(S, R) \in [1 .. Cardinality(S) -> S]
         /\ \A n \in 1 .. Cardinality(S) : Rank(S, R, Ordered(S, R)[n]) = n - 1
         /\ \A x \in S : /\ Rank(S, R, x) + 1 \in 1 .. Cardinality(S)
                         /\ Ordered(S, R)[Rank(S, R, x) + 1] = x
<1> DEFINE N == Cardinality(S)
           f == [x \in S |-> Rank(S, R, x)]
<1>1. N \in Nat BY FS_CardinalityType
<1>2. f \in [S -> 0 .. N - 1] BY RankBounds
<1>3. \A x, y \in S : Rank(S, R, x) = Rank(S, R, y) => x = y
  <2> TAKE x, y \in S
  <2>1. Rank(S, R, x) \in Int /\ Rank(S, R, y) \in Int BY RankBounds
  <2>2. CASE <<x, y>> \in R BY <2>1, <2>2, RankMonotonic
  <2>3. CASE <<y, x>> \in R BY <2>1, <2>3, RankMonotonic
  <2> QED BY <2>2, <2>3 DEF TotalOrder
<1>4. f \in Injection(S, 0 .. N - 1) BY <1>2, <1>3 DEF Injection, IsInjective
<1>5. IsFiniteSet(0 .. N - 1) /\ Cardinality(0 .. N - 1) = N BY <1>1, FS_Interval
<1>6. f \in Surjection(S, 0 .. N - 1) BY <1>4, <1>5, FS_Injection
<1>7. \A n \in 1 .. N : \E x \in S : Rank(S, R, x) = n - 1
  <2> TAKE n \in 1 .. N
  <2>1. n - 1 \in 0 .. N - 1 BY <1>1
  <2>2. PICK x \in S : f[x] = n - 1 BY <1>6, <2>1 DEF Surjection
  <2> QED BY <2>2
<1>8. \A n \in 1 .. N : Ordered(S, R)[n] \in S /\ Rank(S, R, Ordered(S, R)[n]) = n - 1
  BY <1>7 DEF Ordered, Rank, Before
<1>9. \A x \in S : Rank(S, R, x) + 1 \in 1 .. N
  BY <1>1, RankBounds
<1>10. \A x \in S : Ordered(S, R)[Rank(S, R, x) + 1] = x
  <2> TAKE x \in S
  <2>1. Rank(S, R, Ordered(S, R)[Rank(S, R, x) + 1]) = Rank(S, R, x)
    BY <1>8, <1>9, RankBounds
  <2> QED BY <2>1, <1>3, <1>8, <1>9
<1>11. Ordered(S, R) \in [1 .. N -> S] BY <1>8 DEF Ordered
<1> QED BY <1>1, <1>8, <1>9, <1>10, <1>11

----------------------------------------------------------------------------
(* Chosen: the part of a sequence at some of its positions.                *)

Less(I) == {e \in I \X I : e[1] < e[2]}

LEMMA LessIs ==
  ASSUME NEW I, NEW x \in I, NEW y \in I
  PROVE  <<x, y>> \in Less(I) <=> x < y
BY DEF Less

LEMMA LessIsTotal ==
  ASSUME NEW I \in SUBSET Int
  PROVE  TotalOrder(I, Less(I))
BY DEF TotalOrder, Less

LEMMA PositionsAreFinite ==
  ASSUME NEW V, NEW s \in Seq(V), NEW I \in SUBSET DOMAIN s
  PROVE  IsFiniteSet(I) /\ I \in SUBSET Nat /\ Cardinality(I) \in Nat
<1>1. Len(s) \in Nat /\ DOMAIN s = 1 .. Len(s) BY LenProperties
<1>2. IsFiniteSet(1 .. Len(s)) BY <1>1, FS_Interval
<1>3. IsFiniteSet(I) BY <1>1, <1>2, FS_Subset
<1> QED BY <1>1, <1>3, FS_CardinalityType

\* The chosen positions, in increasing order.
LEMMA IndexIs ==
  ASSUME NEW I \in SUBSET Nat, IsFiniteSet(I)
  PROVE  LET at == Ordered(I, Less(I))
         IN  /\ Cardinality(I) \in Nat
             /\ at \in [1 .. Cardinality(I) -> I]
             /\ \A x \in I : \E n \in 1 .. Cardinality(I) : at[n] = x
             /\ \A m, n \in 1 .. Cardinality(I) : m < n => at[m] < at[n]
<1> DEFINE R  == Less(I)
           at == Ordered(I, R)
           N  == Cardinality(I)
<1>1. TotalOrder(I, R) BY LessIsTotal
<1>2. /\ N \in Nat
      /\ at \in [1 .. N -> I]
      /\ \A n \in 1 .. N : Rank(I, R, at[n]) = n - 1
      /\ \A x \in I : /\ Rank(I, R, x) + 1 \in 1 .. N
                      /\ at[Rank(I, R, x) + 1] = x
  BY <1>1, OrderedIs
<1>3. \A m, n \in 1 .. N : m < n => at[m] < at[n]
  <2> SUFFICES ASSUME NEW m \in 1 .. N, NEW n \in 1 .. N, m < n PROVE at[m] < at[n]
    OBVIOUS
  <2>1. at[m] \in I /\ at[n] \in I BY <1>2
  <2>2. Rank(I, R, at[m]) < Rank(I, R, at[n]) BY <1>2
  <2>3. at[m] # at[n] BY <2>2, <1>2
  <2>4. <<at[n], at[m]>> \notin R
    <3>1. SUFFICES ASSUME <<at[n], at[m]>> \in R PROVE FALSE OBVIOUS
    <3>2. Rank(I, R, at[n]) < Rank(I, R, at[m]) BY <1>1, <2>1, <3>1, RankMonotonic
    <3> QED BY <3>2, <1>2
  <2>5. ~(at[n] < at[m]) BY <2>1, <2>4, LessIs
  <2>6. at[m] \in Int /\ at[n] \in Int
    <3>1. \A x \in I : x \in Int OBVIOUS
    <3> QED BY <2>1, <3>1
  <2> HIDE DEF at, N
  <2> QED BY <2>3, <2>5, <2>6
<1>4. \A x \in I : \E n \in 1 .. N : at[n] = x BY <1>2
<1> QED BY <1>2, <1>3, <1>4

LEMMA ChosenIs ==
  ASSUME NEW V, NEW s \in Seq(V), NEW I \in SUBSET DOMAIN s
  PROVE  LET at == Ordered(I, Less(I))
         IN  /\ Cardinality(I) \in Nat
             /\ at \in [1 .. Cardinality(I) -> I]
             /\ \A x \in I : \E n \in 1 .. Cardinality(I) : at[n] = x
             /\ \A m, n \in 1 .. Cardinality(I) : m < n => at[m] < at[n]
             /\ Chosen(s, I) = [n \in 1 .. Cardinality(I) |-> s[at[n]]]
             /\ Chosen(s, I) \in Seq(V)
             /\ Len(Chosen(s, I)) = Cardinality(I)
<1> DEFINE at == Ordered(I, Less(I))
           N  == Cardinality(I)
<1>1. I \in SUBSET Nat /\ IsFiniteSet(I) BY PositionsAreFinite
<1>2. /\ N \in Nat
      /\ at \in [1 .. N -> I]
      /\ \A x \in I : \E n \in 1 .. N : at[n] = x
      /\ \A m, n \in 1 .. N : m < n => at[m] < at[n]
  BY <1>1, IndexIs
<1>3. Chosen(s, I) = [n \in 1 .. N |-> s[at[n]]] BY <1>2 DEF Chosen, Less
<1>4. \A n \in 1 .. N : s[at[n]] \in V
  <2> TAKE n \in 1 .. N
  <2>1. at[n] \in 1 .. Len(s) BY <1>2, LenProperties
  <2> QED BY <2>1, ElementOfSeq
<1>5. Chosen(s, I) \in [1 .. N -> V] BY <1>3, <1>4
<1>6. Chosen(s, I) \in Seq(V) BY <1>2, <1>5, SeqDef
<1>7. Len(Chosen(s, I)) = N BY <1>2, <1>5, <1>6, LenProperties
<1> QED BY <1>2, <1>3, <1>6, <1>7

\* To choose every position is to choose the sequence.
LEMMA ChosenAll ==
  ASSUME NEW V, NEW s \in Seq(V)
  PROVE  Chosen(s, DOMAIN s) = s
<1> DEFINE I  == DOMAIN s
           R  == Less(I)
           at == Ordered(I, R)
<1>1. Len(s) \in Nat /\ I = 1 .. Len(s) /\ s \in [1 .. Len(s) -> V] BY LenProperties
<1>2. IsFiniteSet(I) /\ Cardinality(I) = Len(s) BY <1>1, FS_Interval
<1>3. TotalOrder(I, R) BY <1>1, LessIsTotal
<1>4. \A x \in I : Rank(I, R, x) = x - 1
  <2> TAKE x \in I
  <2>1. Before(I, R, x) = 1 .. x - 1 BY <1>1 DEF Before, Less
  <2>2. x \in Int /\ x >= 1 BY <1>1
  <2>3. Cardinality(1 .. x - 1) = x - 1 BY <2>2, FS_Interval
  <2> QED BY <2>1, <2>3 DEF Rank
<1>5. \A x \in I : at[x] = x
  <2> TAKE x \in I
  <2>1. at[Rank(I, R, x) + 1] = x BY <1>2, <1>3, OrderedIs
  <2>2. Rank(I, R, x) + 1 = x
    <3>1. x \in Nat BY <1>1
    <3>2. Rank(I, R, x) = x - 1 BY <1>4
    <3> QED BY <3>1, <3>2
  <2> HIDE DEF at
  <2> QED BY <2>1, <2>2
<1>6. Chosen(s, I) = [n \in 1 .. Cardinality(I) |-> s[at[n]]]
  <2>1. I \in SUBSET DOMAIN s OBVIOUS
  <2> HIDE DEF I
  <2> QED BY <2>1, ChosenIs
<1> HIDE DEF at
<1> QED BY <1>1, <1>2, <1>5, <1>6

----------------------------------------------------------------------------
(* FlattenSeq: where the parts of a concatenation stand.                   *)

\* Step by step; what two functions or sequences have to do with one another gets
\* a name, by which a lemma about it can be applied.
Steps(f, v0, step, n) == f[0] = v0 /\ \A i \in 1 .. n : f[i] = step[i][f[i - 1]]
Joins(f, ss, n) == \A i \in 1 .. n : f[i] = f[i - 1] \o ss[i]
Lengths(e, f, n) == \A i \in 0 .. n : e[i] = Len(f[i])
Ends(e, ss, n) == \A i \in 1 .. n : e[i] = e[i - 1] + Len(ss[i])
Agree(s, t, h) == \A k \in 1 .. h : s[k] = t[k]
HoldsAt(s, d, t, h) == \A k \in 1 .. h : s[d + k] = t[k]
Holds(s, e, ss, n) == \A i \in 1 .. n : HoldsAt(s, e[i - 1], ss[i], Len(ss[i]))

LEMMA Recursion ==
  ASSUME NEW V, NEW n \in Nat, NEW v0 \in V, NEW step \in [1 .. n -> [V -> V]]
  PROVE  \E f \in [0 .. n -> V] : Steps(f, v0, step, n)
<1> DEFINE Ok(m) == \E f \in [0 .. m -> V] :
                      f[0] = v0 /\ \A i \in 1 .. m : f[i] = step[i][f[i - 1]]
           S == {m \in Nat : m <= n => Ok(m)}
<1>1. 0 \in S
  <2> DEFINE g == [i \in 0 .. 0 |-> v0]
  <2>1. g \in [0 .. 0 -> V] /\ g[0] = v0 OBVIOUS
  <2>2. \A i \in 1 .. 0 : FALSE OBVIOUS
  <2> HIDE DEF g
  <2>3. Ok(0) BY <2>1, <2>2
  <2> HIDE DEF Ok
  <2> QED BY <2>3
<1>2. ASSUME NEW m \in Nat, m \in S PROVE m + 1 \in S
  <2>1. SUFFICES ASSUME m + 1 <= n PROVE Ok(m + 1) OBVIOUS
  <2>2. PICK f \in [0 .. m -> V] : f[0] = v0 /\ \A i \in 1 .. m : f[i] = step[i][f[i - 1]]
    BY <1>2, <2>1
  <2> DEFINE g == [i \in 0 .. m + 1 |-> IF i <= m THEN f[i] ELSE step[i][f[m]]]
  <2>3. f[m] \in V BY <2>2
  <2>4. step[m + 1][f[m]] \in V BY <2>3, <2>1
  <2>5. g \in [0 .. m + 1 -> V] BY <2>4, <2>2
  <2>6. \A i \in 1 .. m + 1 : g[i] = step[i][g[i - 1]] BY <2>2
  <2>7. g[0] = v0 BY <2>2
  <2> HIDE DEF g
  <2> QED BY <2>5, <2>6, <2>7
<1>3. Nat \subseteq S
  <2> HIDE DEF S
  <2> QED BY <1>1, <1>2, NatSets
<1>4. Ok(n)
  <2> HIDE DEF Ok
  <2> QED BY <1>3
<1> QED BY <1>4 DEF Steps

LEMMA ConcatIs ==
  ASSUME NEW V, NEW a \in Seq(V), NEW b \in Seq(V)
  PROVE  /\ a \o b \in Seq(V)
         /\ Len(a) \in Nat /\ Len(b) \in Nat
         /\ Len(a \o b) = Len(a) + Len(b)
         /\ Agree(a \o b, a, Len(a))
         /\ HoldsAt(a \o b, Len(a), b, Len(b))
<1>1. Len(a) \in Nat /\ Len(b) \in Nat BY LenProperties
<1>2. /\ a \o b \in Seq(V)
      /\ Len(a \o b) = Len(a) + Len(b)
      /\ \A k \in 1 .. Len(a) + Len(b) :
           (a \o b)[k] = IF k <= Len(a) THEN a[k] ELSE b[k - Len(a)]
  BY ConcatProperties
<1>3. Agree(a \o b, a, Len(a)) BY <1>1, <1>2 DEF Agree
<1>4. HoldsAt(a \o b, Len(a), b, Len(b)) BY <1>1, <1>2 DEF HoldsAt
<1> QED BY <1>1, <1>2, <1>3, <1>4

LEMMA FlattenByParts ==
  ASSUME NEW V, NEW ss \in Seq(Seq(V)), NEW n \in Nat, n = Len(ss), n > 0
  PROVE  \E f \in [0 .. n -> Seq(V)] :
           /\ f[0] = <<>>
           /\ Joins(f, ss, n)
           /\ FlattenSeq(ss) = f[n]
<1> DEFINE step == [i \in 1 .. n |-> [v \in Seq(V) |-> v \o ss[i]]]
           Eq(h) == h = [i \in 1 .. n |-> IF i = 1 THEN ss[i] ELSE h[i - 1] \o ss[i]]
<1>1. \A i \in 1 .. n : ss[i] \in Seq(V) BY ElementOfSeq
<1>2. \A i \in 1 .. n : \A v \in Seq(V) : v \o ss[i] \in Seq(V) BY <1>1, ConcatProperties
<1>3. step \in [1 .. n -> [Seq(V) -> Seq(V)]] BY <1>2
<1>4. PICK f \in [0 .. n -> Seq(V)] :
        f[0] = <<>> /\ \A i \in 1 .. n : f[i] = step[i][f[i - 1]]
  <2> HIDE DEF step, Eq
  <2> DEFINE W == Seq(V)
  <2>1. <<>> \in W OBVIOUS
  <2>2. step \in [1 .. n -> [W -> W]] BY <1>3
  <2> HIDE DEF W
  <2>3. \E f \in [0 .. n -> W] : Steps(f, <<>>, step, n) BY <2>1, <2>2, Recursion
  <2> QED BY <2>3 DEF W, Steps
<1>5. \A i \in 1 .. n : f[i - 1] \in Seq(V) /\ f[i] = f[i - 1] \o ss[i]
  <2> TAKE i \in 1 .. n
  <2>1. i - 1 \in 0 .. n OBVIOUS
  <2>2. f[i - 1] \in Seq(V) BY <2>1
  <2>3. step[i][f[i - 1]] = f[i - 1] \o ss[i] BY <2>2
  <2>4. f[i] = step[i][f[i - 1]] BY <1>4
  <2> HIDE DEF step
  <2> QED BY <2>2, <2>3, <2>4
<1> HIDE DEF step
<1>6. f[1] = ss[1]
  <2>1. 1 \in 1 .. n /\ 1 - 1 = 0 OBVIOUS
  <2>2. ss[1] \in Seq(V) /\ f[1] = <<>> \o ss[1] BY <1>1, <1>4, <1>5, <2>1
  <2> QED BY <2>2, ConcatEmptySeq
<1>7. \A i \in 1 .. n : f[i] = IF i = 1 THEN ss[i] ELSE f[i - 1] \o ss[i]
  BY <1>5, <1>6
<1> DEFINE h0 == [i \in 1 .. n |-> f[i]]
<1>8. Eq(h0)
  <2>1. \A i \in 1 .. n : i # 1 => h0[i - 1] = f[i - 1] OBVIOUS
  <2>2. \A i \in 1 .. n : h0[i] = IF i = 1 THEN ss[i] ELSE h0[i - 1] \o ss[i]
    BY <1>7, <2>1
  <2> QED BY <2>2
<1>9. ASSUME NEW h, Eq(h) PROVE h[n] = f[n]
  <2> DEFINE S == {m \in Nat : m \in 1 .. n => h[m] = f[m]}
  <2>1. \A i \in 1 .. n : h[i] = IF i = 1 THEN ss[i] ELSE h[i - 1] \o ss[i] BY <1>9
  <2>2. 0 \in S OBVIOUS
  <2>3. \A m \in Nat : m \in S => m + 1 \in S
    <3> SUFFICES ASSUME NEW m \in Nat, m \in S, m + 1 \in 1 .. n
                 PROVE  h[m + 1] = f[m + 1]
      OBVIOUS
    <3>1. CASE m = 0 BY <2>1, <1>6, <3>1
    <3>2. CASE m # 0
      <4>1. m \in 1 .. n /\ (m + 1) - 1 = m /\ m + 1 # 1 BY <3>2
      <4>2. h[m] = f[m] BY <4>1
      <4>3. h[m + 1] = h[m] \o ss[m + 1] BY <2>1, <4>1
      <4>4. f[m + 1] = f[m] \o ss[m + 1] BY <1>5, <4>1
      <4> QED BY <4>2, <4>3, <4>4
    <3> QED BY <3>1, <3>2
  <2>4. Nat \subseteq S
    <3> HIDE DEF S
    <3> QED BY <2>2, <2>3, NatSets
  <2> QED BY <2>4
<1>10. (CHOOSE h : Eq(h))[n] = f[n]
  <2>1. \E h : Eq(h) BY <1>8
  <2>2. Eq(CHOOSE h : Eq(h))
    <3> HIDE DEF Eq
    <3> QED BY <2>1
  <2> QED BY <2>2, <1>9
<1>11. FlattenSeq(ss) = (CHOOSE h : Eq(h))[n] BY DEF FlattenSeq
<1>12. Joins(f, ss, n) BY <1>5 DEF Joins
<1> QED BY <1>4, <1>10, <1>11, <1>12

LEMMA Carried ==
  ASSUME NEW s, NEW t, NEW u, NEW d \in Nat, NEW l \in Nat, NEW h \in Nat, d + l <= h,
         Agree(t, s, h), HoldsAt(s, d, u, l)
  PROVE  HoldsAt(t, d, u, l)
BY DEF Agree, HoldsAt

LEMMA PartsStay ==
  ASSUME NEW V, NEW n \in Nat, NEW ss \in [1 .. n -> Seq(V)], NEW f \in [0 .. n -> Seq(V)],
         Joins(f, ss, n), NEW e \in [0 .. n -> Nat], Lengths(e, f, n)
  PROVE  Ends(e, ss, n) /\ Holds(f[n], e, ss, n)
<1>1. \A i \in 1 .. n : /\ e[i] \in Nat /\ e[i - 1] \in Nat /\ Len(ss[i]) \in Nat
                        /\ e[i] = e[i - 1] + Len(ss[i])
                        /\ Agree(f[i], f[i - 1], e[i - 1])
                        /\ HoldsAt(f[i], e[i - 1], ss[i], Len(ss[i]))
  <2> TAKE i \in 1 .. n
  <2>1. i - 1 \in 0 .. n /\ i \in 0 .. n OBVIOUS
  <2>2. f[i - 1] \in Seq(V) /\ ss[i] \in Seq(V) /\ f[i] = f[i - 1] \o ss[i]
        /\ e[i] = Len(f[i]) /\ e[i - 1] = Len(f[i - 1])
    BY <2>1 DEF Joins, Lengths
  <2>3. /\ Len(f[i - 1]) \in Nat /\ Len(ss[i]) \in Nat
        /\ Len(f[i - 1] \o ss[i]) = Len(f[i - 1]) + Len(ss[i])
        /\ Agree(f[i - 1] \o ss[i], f[i - 1], Len(f[i - 1]))
        /\ HoldsAt(f[i - 1] \o ss[i], Len(f[i - 1]), ss[i], Len(ss[i]))
    BY <2>2, ConcatIs
  <2>4. e[i] \in Nat /\ e[i - 1] \in Nat BY <2>1
  <2> QED BY <2>2, <2>3, <2>4
<1> DEFINE Good(m) == \A i \in 1 .. m : /\ e[i] <= e[m]
                                        /\ HoldsAt(f[m], e[i - 1], ss[i], Len(ss[i]))
           S == {m \in Nat : m <= n => Good(m)}
<1>2. 0 \in S OBVIOUS
<1>3. \A m \in Nat : m \in S => m + 1 \in S
  <2> SUFFICES ASSUME NEW m \in Nat, m <= n => Good(m), m + 1 <= n
               PROVE  Good(m + 1)
    <3> HIDE DEF Good
    <3> QED OBVIOUS
  <2>1. Good(m)
    <3> HIDE DEF Good
    <3> QED OBVIOUS
  <2> SUFFICES ASSUME NEW i \in 1 .. m + 1
               PROVE  e[i] <= e[m + 1] /\ HoldsAt(f[m + 1], e[i - 1], ss[i], Len(ss[i]))
    OBVIOUS
  <2>2. m + 1 \in 1 .. n /\ (m + 1) - 1 = m /\ i \in 1 .. n /\ m \in 0 .. n
        /\ i \in 0 .. n /\ i - 1 \in 0 .. n /\ m + 1 \in 0 .. n
    OBVIOUS
  <2>3. /\ e[m + 1] \in Nat /\ e[m] \in Nat /\ Len(ss[m + 1]) \in Nat
        /\ e[m + 1] = e[m] + Len(ss[m + 1])
        /\ Agree(f[m + 1], f[m], e[m])
        /\ HoldsAt(f[m + 1], e[m], ss[m + 1], Len(ss[m + 1]))
    BY <1>1, <2>2
  <2>4. /\ e[i] \in Nat /\ e[i - 1] \in Nat /\ Len(ss[i]) \in Nat
        /\ e[i] = e[i - 1] + Len(ss[i])
    BY <1>1, <2>2
  <2>5. CASE i = m + 1
    <3>1. e[i] = e[m + 1] /\ e[i - 1] = e[m] /\ ss[i] = ss[m + 1] BY <2>2, <2>5
    <3> HIDE DEF Good, S
    <3> QED BY <2>3, <3>1
  <2>6. CASE i # m + 1
    <3>1. i \in 1 .. m BY <2>6
    <3>2. e[i] <= e[m] /\ HoldsAt(f[m], e[i - 1], ss[i], Len(ss[i])) BY <2>1, <3>1
    <3> HIDE DEF Good, S
    <3>3. e[i] <= e[m + 1]
      <4>1. e[m + 1] >= e[m] BY <2>3
      <4> QED BY <2>3, <2>4, <3>2, <4>1
    <3>4. e[i - 1] + Len(ss[i]) <= e[m] BY <2>4, <3>2
    <3>5. HoldsAt(f[m + 1], e[i - 1], ss[i], Len(ss[i]))
      BY <2>3, <2>4, <3>2, <3>4, Carried
    <3> QED BY <3>3, <3>5
  <2> QED BY <2>5, <2>6
<1>4. Nat \subseteq S
  <2> HIDE DEF S
  <2> QED BY <1>2, <1>3, NatSets
<1>5. Good(n)
  <2> HIDE DEF Good
  <2> QED BY <1>4
<1> QED BY <1>1, <1>5 DEF Ends, Holds

\* e[i] is where the i-th part ends.
LEMMA FlattenIs ==
  ASSUME NEW V, NEW ss \in Seq(Seq(V)), NEW n \in Nat, n = Len(ss)
  PROVE  /\ FlattenSeq(ss) \in Seq(V)
         /\ \A i \in 1 .. n : ss[i] \in Seq(V)
         /\ \E e \in [0 .. n -> Nat] :
              /\ e[0] = 0 /\ e[n] = Len(FlattenSeq(ss))
              /\ Ends(e, ss, n) /\ Holds(FlattenSeq(ss), e, ss, n)
<1>1. ss \in [1 .. n -> Seq(V)] BY LenProperties
<1>2. CASE n = 0
  <2>1. ss = <<>> BY <1>2, EmptySeq
  <2>2. FlattenSeq(ss) = <<>> BY <1>2, <2>1 DEF FlattenSeq
  <2>3. <<>> \in Seq(V) /\ Len(<<>>) = 0 BY EmptySeq
  <2> DEFINE e == [i \in 0 .. 0 |-> 0]
  <2>4. e \in [0 .. 0 -> Nat] /\ e[0] = 0 OBVIOUS
  <2>5. \A i \in 1 .. 0 : FALSE OBVIOUS
  <2> HIDE DEF e
  <2>6. Ends(e, ss, 0) /\ Holds(<<>>, e, ss, 0) BY <2>5 DEF Ends, Holds
  <2> QED BY <1>1, <1>2, <2>2, <2>3, <2>4, <2>6
<1>3. CASE n > 0
  <2>1. PICK f \in [0 .. n -> Seq(V)] :
          /\ f[0] = <<>>
          /\ Joins(f, ss, n)
          /\ FlattenSeq(ss) = f[n]
    BY <1>3, FlattenByParts
  <2> DEFINE e == [i \in 0 .. n |-> Len(f[i])]
  <2>2. \A i \in 0 .. n : f[i] \in Seq(V) /\ Len(f[i]) \in Nat BY LenProperties
  <2>3. e \in [0 .. n -> Nat] BY <2>2
  <2>4. Lengths(e, f, n) BY DEF Lengths
  <2>5. e[0] = 0 /\ e[n] = Len(f[n]) /\ f[n] \in Seq(V) BY <2>1, <2>2
  <2> HIDE DEF e
  <2>6. Ends(e, ss, n) /\ Holds(f[n], e, ss, n) BY <1>1, <2>1, <2>3, <2>4, PartsStay
  <2> QED BY <1>1, <2>1, <2>3, <2>5, <2>6
<1> QED BY <1>2, <1>3

----------------------------------------------------------------------------
(* Types of what is extracted.                                             *)

Message == [role : Roles, content : Seq(Pieces), isString : BOOLEAN]
AnyBlock == [kind : Kinds, content : Seq(Pieces)]

TypeInv ==
  /\ left.format \in Formats /\ right.format = left.format
  /\ left \in Bodies(left.format) /\ right \in Bodies(left.format)

LEMMA ItemsTyped ==
  ASSUME NEW format \in Formats, NEW body \in Bodies(format)
  PROVE  /\ body.format = format
         /\ format = "native" => body.items \in Seq(AnyBlock)
         /\ format # "native" => body.items \in Seq(Message)
<1>1. body.format = format /\ body.items \in Seq(ItemTypes(format)) BY DEF Bodies
<1>2. CASE format = "native"
  <2>1. ItemTypes(format) = AnyBlock BY <1>2 DEF ItemTypes, AnyBlock
  <2> QED BY <1>1, <1>2, <2>1
<1>3. CASE format # "native"
  <2>1. PiecesOf(Nat \ RoleTexts) \subseteq Pieces BY DEF PiecesOf, Pieces
  <2>2. Seq(PiecesOf(Nat \ RoleTexts)) \subseteq Seq(Pieces) BY <2>1, SeqMonotonic
  <2>3. ItemTypes(format) \subseteq Message
    <3>1. ItemTypes(format) =
            [role : Roles, content : Seq(PiecesOf(Nat \ RoleTexts)), isString : BOOLEAN]
      BY <1>3 DEF ItemTypes, Messages
    <3> DEFINE A == Seq(PiecesOf(Nat \ RoleTexts))
               B == Seq(Pieces)
    <3>2. A \subseteq B BY <2>2
    <3> HIDE DEF A, B
    <3>3. [role : Roles, content : A, isString : BOOLEAN]
            \subseteq [role : Roles, content : B, isString : BOOLEAN]
      BY <3>2
    <3> QED BY <3>1, <3>3 DEF Message, A, B
  <2>4. body.items \in Seq(Message) BY <1>1, <2>3, SeqMonotonic
  <2> QED BY <1>1, <1>3, <2>4
<1> QED BY <1>2, <1>3

\* What a message contributes to its conversation.
Part(message) == Append(message.content, Piece("none", 0, Closing(message), 0))
Parts(messages) == [i \in DOMAIN messages |-> Part(messages[i])]
Bracket == <<Piece("none", 0, RoleText["end"], 0)>>

LEMMA RolePieces ==
  /\ \A message \in Message : /\ Closing(message) \in 1 .. 10
                              /\ Piece("none", 0, Closing(message), 0) \in Pieces
  /\ Bracket \in Seq(Pieces) /\ Len(Bracket) = 1
<1>1. \A role \in Roles : RoleText[role] \in 1 .. 5 BY DEF Roles, RoleText
<1>2. \A message \in Message : Closing(message) \in 1 .. 10
  <2> TAKE message \in Message
  <2>1. message.role \in Roles BY DEF Message
  <2>2. RoleText[message.role] \in 1 .. 5 BY <1>1, <2>1
  <2> QED BY <2>2 DEF Closing
<1>3. RoleText["end"] = 0 BY DEF RoleText
<1>4. \A text \in Nat : Piece("none", 0, text, 0) \in Pieces BY DEF Piece, Pieces, PiecesOf
<1>5. \A message \in Message : Closing(message) \in Nat BY <1>2
<1>6. Bracket \in Seq(Pieces) BY <1>3, <1>4 DEF Bracket
<1>7. Len(Bracket) = 1 BY DEF Bracket
<1> QED BY <1>2, <1>4, <1>5, <1>6, <1>7

LEMMA PartIs ==
  ASSUME NEW message \in Message
  PROVE  /\ Part(message) \in Seq(Pieces)
         /\ Len(message.content) \in Nat
         /\ Len(Part(message)) = Len(message.content) + 1
<1>1. message.content \in Seq(Pieces) BY DEF Message
<1>2. Piece("none", 0, Closing(message), 0) \in Pieces BY RolePieces
<1> QED BY <1>1, <1>2, AppendProperties, LenProperties DEF Part

LEMMA PartsTyped ==
  ASSUME NEW messages \in Seq(Message)
  PROVE  /\ Len(messages) \in Nat
         /\ DOMAIN messages = 1 .. Len(messages)
         /\ Parts(messages) \in Seq(Seq(Pieces))
         /\ Len(Parts(messages)) = Len(messages)
         /\ \A i \in 1 .. Len(messages) : messages[i] \in Message
<1>1. /\ Len(messages) \in Nat
      /\ DOMAIN messages = 1 .. Len(messages)
      /\ \A i \in 1 .. Len(messages) : messages[i] \in Message
  BY LenProperties, ElementOfSeq
<1>2. Parts(messages) \in [1 .. Len(messages) -> Seq(Pieces)] BY <1>1, PartIs DEF Parts
<1>3. Parts(messages) \in Seq(Seq(Pieces)) BY <1>1, <1>2, SeqDef
<1>4. Len(Parts(messages)) = Len(messages) BY <1>1, <1>2, <1>3, LenProperties
<1> QED BY <1>1, <1>3, <1>4

LEMMA JsonTyped ==
  ASSUME NEW messages \in Seq(Message)
  PROVE  /\ FlattenSeq(Parts(messages)) \in Seq(Pieces)
         /\ Json(messages) = FlattenSeq(Parts(messages)) \o Bracket
         /\ Json(messages) \in Seq(Pieces)
         /\ Len(Json(messages)) = Len(FlattenSeq(Parts(messages))) + 1
<1>1. FlattenSeq(Parts(messages)) \in Seq(Pieces) BY PartsTyped, FlattenIs
<1>2. Json(messages) = FlattenSeq(Parts(messages)) \o Bracket
  BY DEF Json, Parts, Part, Bracket
<1> QED BY <1>1, <1>2, RolePieces, ConcatIs

----------------------------------------------------------------------------
(* What is extracted: blocks that are kept, then at most one User block.   *)

History(messages) ==
  IF Len(messages) > 1 THEN <<Block("document", Json(Prior(messages)))>> ELSE <<>>
Asked(messages) ==
  IF Len(messages) > 0 THEN <<Block("user", Json(<<Last(messages)>>))>> ELSE <<>>

NamedAt(body) == {i \in DOMAIN body.items : Named(body.items[i])}
SpokenAt(body) == {i \in DOMAIN body.items : Spoken(body.items[i])}

\* The messages of the conversation, and the blocks before it.
Talk(body) == IF body.format = "anthropic" THEN body.items ELSE Chosen(body.items, SpokenAt(body))
NamedBlocks(messages) ==
  [i \in DOMAIN messages |-> Block(KindOf[messages[i].role], Json(<<messages[i]>>))]
Leading(body) ==
  IF body.format = "anthropic"
  THEN (IF body.systemIsString THEN <<Block("system", body.system)>> ELSE <<>>)
         \o (IF body.tools # <<>> THEN <<Block("tools", body.tools)>> ELSE <<>>)
  ELSE NamedBlocks(Chosen(body.items, NamedAt(body)))

Kept(body) == Leading(body) \o History(Talk(body))

StableBlock == {b \in AnyBlock : IsCacheable(b)}

LEMMA BlockIs ==
  ASSUME NEW kind \in Kinds, NEW content \in Seq(Pieces)
  PROVE  /\ Block(kind, content) \in AnyBlock
         /\ Block(kind, content).kind = kind /\ Block(kind, content).content = content
BY DEF Block, AnyBlock

LEMMA Singleton ==
  ASSUME NEW V, NEW v \in V
  PROVE  <<v>> \in Seq(V) /\ Len(<<v>>) = 1 /\ <<v>>[1] = v
OBVIOUS

LEMMA TalkIs ==
  ASSUME NEW format \in Formats, NEW body \in Bodies(format), format # "native"
  PROVE  /\ Talk(body) \in Seq(Message)
         /\ SpokenAt(body) \in SUBSET DOMAIN body.items
         /\ NamedAt(body) \in SUBSET DOMAIN body.items
         /\ Chosen(body.items, NamedAt(body)) \in Seq(Message)
         /\ \A i \in DOMAIN Chosen(body.items, NamedAt(body)) :
              Named(Chosen(body.items, NamedAt(body))[i])
<1>1. body.items \in Seq(Message) /\ body.format = format BY ItemsTyped
<1>2. SpokenAt(body) \in SUBSET DOMAIN body.items /\ NamedAt(body) \in SUBSET DOMAIN body.items
  BY DEF SpokenAt, NamedAt
<1>3. Talk(body) \in Seq(Message) BY <1>1, <1>2, ChosenIs DEF Talk
<1> DEFINE I  == NamedAt(body)
           at == Ordered(I, Less(I))
<1>4. /\ at \in [1 .. Cardinality(I) -> I]
      /\ Chosen(body.items, I) = [n \in 1 .. Cardinality(I) |-> body.items[at[n]]]
      /\ Chosen(body.items, I) \in Seq(Message)
  BY <1>1, <1>2, ChosenIs
<1>5. \A i \in 1 .. Cardinality(I) : Named(body.items[at[i]])
  <2> TAKE i \in 1 .. Cardinality(I)
  <2>1. at[i] \in I BY <1>4
  <2> HIDE DEF at
  <2> QED BY <2>1 DEF NamedAt
<1>6. \A i \in DOMAIN Chosen(body.items, I) : Named(Chosen(body.items, I)[i])
  BY <1>4, <1>5
<1> QED BY <1>2, <1>3, <1>4, <1>6

LEMMA HistoryIs ==
  ASSUME NEW messages \in Seq(Message)
  PROVE  /\ History(messages) \in Seq(StableBlock)
         /\ Len(messages) > 1 => /\ Prior(messages) \in Seq(Message)
                                 /\ Json(Prior(messages)) \in Seq(Pieces)
                                 /\ Len(History(messages)) = 1
                                 /\ History(messages)[1] = Block("document", Json(Prior(messages)))
         /\ ~(Len(messages) > 1) => History(messages) = <<>>
<1>1. Len(messages) \in Nat /\ \A i \in 1 .. Len(messages) : messages[i] \in Message
  BY LenProperties, ElementOfSeq
<1>2. Prior(messages) \in Seq(Message)
  <2>1. \A i \in 1 .. Len(messages) - 1 : messages[i] \in Message BY <1>1
  <2> QED BY <1>1, <2>1, SubSeqProperties DEF Prior, Front
<1>3. Json(Prior(messages)) \in Seq(Pieces) BY <1>2, JsonTyped
<1>4. Block("document", Json(Prior(messages))) \in StableBlock
  BY <1>3, BlockIs DEF StableBlock, IsCacheable, Kinds
<1> QED BY <1>2, <1>3, <1>4, Singleton DEF History

LEMMA AskedIs ==
  ASSUME NEW messages \in Seq(Message)
  PROVE  /\ Asked(messages) \in Seq(AnyBlock)
         /\ \A i \in 1 .. Len(Asked(messages)) : Asked(messages)[i].kind = "user"
<1>1. CASE Len(messages) > 0
  <2>1. messages[Len(messages)] \in Message BY <1>1, LenProperties, ElementOfSeq
  <2>2. <<Last(messages)>> \in Seq(Message) BY <2>1, Singleton DEF Last
  <2>3. Json(<<Last(messages)>>) \in Seq(Pieces) BY <2>2, JsonTyped
  <2>4. /\ Block("user", Json(<<Last(messages)>>)) \in AnyBlock
        /\ Block("user", Json(<<Last(messages)>>)).kind = "user"
    BY <2>3, BlockIs DEF Kinds
  <2>5. Asked(messages) = <<Block("user", Json(<<Last(messages)>>))>> BY <1>1 DEF Asked
  <2>6. Asked(messages) \in Seq(AnyBlock) /\ Len(Asked(messages)) = 1
        /\ Asked(messages)[1].kind = "user"
    BY <2>4, <2>5, Singleton
  <2> QED BY <2>6
<1>2. CASE ~(Len(messages) > 0)
  <2>1. Asked(messages) = <<>> BY <1>2 DEF Asked
  <2> QED BY <2>1, EmptySeq
<1> QED BY <1>1, <1>2

LEMMA LeadingIs ==
  ASSUME NEW format \in Formats, NEW body \in Bodies(format), format # "native"
  PROVE  Leading(body) \in Seq(StableBlock)
<1>1. body.format = format BY ItemsTyped
<1>2. CASE format = "anthropic"
  <2>1. body.system \in Seq(Pieces) /\ body.tools \in Seq(Pieces) BY DEF Bodies
  <2>2. Block("system", body.system) \in StableBlock /\ Block("tools", body.tools) \in StableBlock
    BY <2>1, BlockIs DEF StableBlock, IsCacheable, Kinds
  <2> DEFINE s == IF body.systemIsString THEN <<Block("system", body.system)>> ELSE <<>>
             t == IF body.tools # <<>> THEN <<Block("tools", body.tools)>> ELSE <<>>
  <2>3. s \in Seq(StableBlock) /\ t \in Seq(StableBlock) BY <2>2, Singleton, EmptySeq
  <2>4. Leading(body) = s \o t BY <1>1, <1>2 DEF Leading
  <2> HIDE DEF s, t
  <2> QED BY <2>3, <2>4, ConcatProperties
<1>3. CASE format # "anthropic"
  <2> DEFINE named == Chosen(body.items, NamedAt(body))
  <2>1. named \in Seq(Message) /\ \A i \in DOMAIN named : Named(named[i]) BY TalkIs
  <2> HIDE DEF named
  <2>2. Len(named) \in Nat /\ DOMAIN named = 1 .. Len(named)
        /\ \A i \in 1 .. Len(named) : named[i] \in Message
    BY <2>1, LenProperties, ElementOfSeq
  <2>3. \A i \in 1 .. Len(named) : Block(KindOf[named[i].role], Json(<<named[i]>>)) \in StableBlock
    <3> TAKE i \in 1 .. Len(named)
    <3>1. <<named[i]>> \in Seq(Message) BY <2>2, Singleton
    <3>2. Json(<<named[i]>>) \in Seq(Pieces) BY <3>1, JsonTyped
    <3>3. KindOf[named[i].role] \in {"system", "tools"} BY <2>1, <2>2 DEF Named, KindOf
    <3> QED BY <3>2, <3>3, BlockIs DEF StableBlock, IsCacheable, Kinds
  <2>4. NamedBlocks(named) \in [1 .. Len(named) -> StableBlock] BY <2>2, <2>3 DEF NamedBlocks
  <2>5. NamedBlocks(named) \in Seq(StableBlock) BY <2>2, <2>4, SeqDef
  <2> QED BY <1>1, <1>3, <2>5 DEF Leading, named
<1> QED BY <1>2, <1>3

LEMMA Extracted ==
  ASSUME NEW format \in Formats, NEW body \in Bodies(format), format # "native"
  PROVE  /\ Kept(body) \in Seq(StableBlock)
         /\ Asked(Talk(body)) \in Seq(AnyBlock)
         /\ ExtractPromptBlocks(body) = Kept(body) \o Asked(Talk(body))
<1>1. StableBlock \subseteq AnyBlock BY DEF StableBlock
<1>2. Talk(body) \in Seq(Message) BY TalkIs
<1>3. Leading(body) \in Seq(StableBlock) /\ History(Talk(body)) \in Seq(StableBlock)
  BY <1>2, LeadingIs, HistoryIs
<1>4. Kept(body) \in Seq(StableBlock) BY <1>3, ConcatProperties DEF Kept
<1>5. Asked(Talk(body)) \in Seq(AnyBlock) BY <1>2, AskedIs
<1>6. ExtractPromptBlocks(body) = Leading(body) \o (History(Talk(body)) \o Asked(Talk(body)))
  <2>1. body.format = format /\ format \in {"anthropic", "openai"} BY ItemsTyped DEF Formats
  <2>2. CASE format = "anthropic"
    BY <2>1, <2>2 DEF ExtractPromptBlocks, ExtractAnthropicBlocks, Leading, Talk, Conversation,
                      History, Asked
  <2>3. CASE format = "openai"
    BY <2>1, <2>3 DEF ExtractPromptBlocks, ExtractOpenaiBlocks, Leading, Talk, Conversation,
                      History, Asked, NamedBlocks, NamedAt, SpokenAt
  <2> QED BY <2>1, <2>2, <2>3
<1>7. Leading(body) \in Seq(AnyBlock) /\ History(Talk(body)) \in Seq(AnyBlock)
  BY <1>1, <1>3, SeqMonotonic
<1>8. ExtractPromptBlocks(body) = (Leading(body) \o History(Talk(body))) \o Asked(Talk(body))
  BY <1>5, <1>6, <1>7, ConcatAssociative
<1> QED BY <1>4, <1>5, <1>8 DEF Kept

----------------------------------------------------------------------------
(* The kept blocks of a request.                                           *)

StableAt(blocks) == {i \in DOMAIN blocks : IsCacheable(blocks[i])}

LEMMA StableIs ==
  ASSUME NEW blocks \in Seq(AnyBlock)
  PROVE  LET at == Ordered(StableAt(blocks), Less(StableAt(blocks)))
             N  == Cardinality(StableAt(blocks))
         IN  /\ N \in Nat
             /\ at \in [1 .. N -> StableAt(blocks)]
             /\ \A x \in StableAt(blocks) : \E n \in 1 .. N : at[n] = x
             /\ Stable(blocks) = [n \in 1 .. N |-> blocks[at[n]]]
             /\ Stable(blocks) \in Seq(StableBlock)
             /\ Len(Stable(blocks)) = N
<1> DEFINE I  == StableAt(blocks)
           at == Ordered(I, Less(I))
           N  == Cardinality(I)
<1>1. I \in SUBSET DOMAIN blocks BY DEF StableAt
<1>2. /\ N \in Nat
      /\ at \in [1 .. N -> I]
      /\ \A x \in I : \E n \in 1 .. N : at[n] = x
      /\ Chosen(blocks, I) = [n \in 1 .. N |-> blocks[at[n]]]
      /\ Len(Chosen(blocks, I)) = N
  BY <1>1, ChosenIs
<1>3. Stable(blocks) = Chosen(blocks, I) BY DEF Stable, StableAt
<1>4. \A n \in 1 .. N : blocks[at[n]] \in StableBlock
  <2> TAKE n \in 1 .. N
  <2>1. at[n] \in I BY <1>2
  <2>2. \A i \in I : blocks[i] \in StableBlock
    <3> TAKE i \in I
    <3>1. i \in 1 .. Len(blocks) /\ IsCacheable(blocks[i]) BY LenProperties DEF StableAt
    <3>2. blocks[i] \in AnyBlock BY <3>1, ElementOfSeq
    <3> QED BY <3>1, <3>2 DEF StableBlock
  <2> HIDE DEF at, I
  <2> QED BY <2>1, <2>2
<1>5. Stable(blocks) \in [1 .. N -> StableBlock] BY <1>2, <1>3, <1>4
<1>6. Stable(blocks) \in Seq(StableBlock) BY <1>2, <1>5, SeqDef
<1> QED BY <1>2, <1>3, <1>6

\* Blocks that are kept, followed by others: the former.
LEMMA StableOfConcat ==
  ASSUME NEW a \in Seq(StableBlock), NEW b \in Seq(AnyBlock),
         \A i \in 1 .. Len(b) : b[i].kind = "user"
  PROVE  Stable(a \o b) = a /\ StableAt(a \o b) = 1 .. Len(a)
<1>1. StableBlock \subseteq AnyBlock BY DEF StableBlock
<1>2. a \in Seq(AnyBlock) BY <1>1, SeqMonotonic
<1> DEFINE c == a \o b
<1>3. /\ c \in Seq(AnyBlock)
      /\ Len(a) \in Nat /\ Len(b) \in Nat
      /\ Len(c) = Len(a) + Len(b)
      /\ \A i \in 1 .. Len(a) + Len(b) : c[i] = IF i <= Len(a) THEN a[i] ELSE b[i - Len(a)]
  BY <1>2, ConcatProperties, LenProperties
<1>4. DOMAIN c = 1 .. Len(c) /\ DOMAIN a = 1 .. Len(a) BY <1>3, LenProperties
<1>5. \A i \in 1 .. Len(a) : c[i] = a[i] /\ a[i] \in StableBlock
  BY <1>3, ElementOfSeq
<1>6. \A i \in 1 .. Len(c) : i > Len(a) => c[i].kind = "user"
  <2> TAKE i \in 1 .. Len(c)
  <2> HAVE i > Len(a)
  <2>1. i - Len(a) \in 1 .. Len(b) /\ c[i] = b[i - Len(a)] BY <1>3
  <2> QED BY <2>1
<1> HIDE DEF c
<1>7. \A i \in 1 .. Len(c) : IsCacheable(c[i]) <=> i <= Len(a)
  <2> TAKE i \in 1 .. Len(c)
  <2>1. CASE i <= Len(a)
    <3>1. i \in 1 .. Len(a) BY <1>3, <2>1
    <3>2. c[i] \in StableBlock BY <1>5, <3>1
    <3> QED BY <2>1, <3>2 DEF StableBlock
  <2>2. CASE i > Len(a) BY <1>3, <1>6, <2>2 DEF IsCacheable
  <2> QED BY <1>3, <2>1, <2>2
<1>8. StableAt(c) = 1 .. Len(a)
  <2>1. StableAt(c) = {i \in 1 .. Len(c) : i <= Len(a)} BY <1>4, <1>7 DEF StableAt
  <2> QED BY <1>3, <2>1
<1> DEFINE I  == 1 .. Len(a)
           at == Ordered(I, Less(I))
<1>9. /\ at \in [1 .. Cardinality(I) -> I]
      /\ Stable(c) = [n \in 1 .. Cardinality(I) |-> c[at[n]]]
  BY <1>3, <1>8, StableIs
<1>10. a = [n \in 1 .. Cardinality(I) |-> a[at[n]]] BY <1>4, ChosenIs, ChosenAll
<1>11. \A n \in 1 .. Cardinality(I) : c[at[n]] = a[at[n]]
  <2> TAKE n \in 1 .. Cardinality(I)
  <2>1. at[n] \in 1 .. Len(a) BY <1>9
  <2> QED BY <1>5, <2>1
<1>12. Stable(c) = [n \in 1 .. Cardinality(I) |-> a[at[n]]] BY <1>9, <1>11
<1> QED BY <1>8, <1>10, <1>12 DEF c

LEMMA ExtractedTyped ==
  ASSUME NEW format \in Formats, NEW body \in Bodies(format)
  PROVE  ExtractPromptBlocks(body) \in Seq(AnyBlock)
<1>1. CASE format = "native" BY <1>1, ItemsTyped DEF ExtractPromptBlocks
<1>2. CASE format # "native"
  <2>1. StableBlock \subseteq AnyBlock BY DEF StableBlock
  <2>2. Kept(body) \in Seq(AnyBlock) BY <1>2, <2>1, Extracted, SeqMonotonic
  <2> QED BY <1>2, <2>2, Extracted, ConcatProperties
<1> QED BY <1>1, <1>2

LEMMA KeptIs ==
  ASSUME NEW format \in Formats, NEW body \in Bodies(format), format # "native"
  PROVE  /\ Stable(ExtractPromptBlocks(body)) = Kept(body)
         /\ StableAt(ExtractPromptBlocks(body)) = 1 .. Len(Kept(body))
         /\ Kept(body) \in Seq(StableBlock)
<1>1. Talk(body) \in Seq(Message) BY TalkIs
<1>2. /\ Kept(body) \in Seq(StableBlock)
      /\ Asked(Talk(body)) \in Seq(AnyBlock)
      /\ ExtractPromptBlocks(body) = Kept(body) \o Asked(Talk(body))
  BY Extracted
<1>3. \A i \in 1 .. Len(Asked(Talk(body))) : Asked(Talk(body))[i].kind = "user"
  BY <1>1, AskedIs
<1> QED BY <1>2, <1>3, StableOfConcat

----------------------------------------------------------------------------
(* Types hold.                                                             *)

LEMMA AddTyped ==
  ASSUME NEW format \in Formats, NEW body \in Bodies(format), NEW item \in ItemsOf[format]
  PROVE  Add(body, item) \in Bodies(format) /\ Add(body, item).format = format
<1>1. item \in ItemTypes(format) BY ItemsAssumption
<1>2. body.items \in Seq(ItemTypes(format)) BY DEF Bodies
<1>3. Append(body.items, item) \in Seq(ItemTypes(format)) BY <1>1, <1>2, AppendProperties
<1>4. \A items \in Seq(ItemTypes(format)) :
        [body EXCEPT !.items = items] \in Bodies(format)
        /\ [body EXCEPT !.items = items].format = format
  BY DEF Bodies
<1> QED BY <1>3, <1>4 DEF Add

LEMMA Typing == Spec => []TypeInv
<1>1. Init => TypeInv BY StartAssumption DEF Init, TypeInv
<1>2. TypeInv /\ [Next]_vars => TypeInv'
  <2> SUFFICES ASSUME TypeInv, [Next]_vars PROVE TypeInv' OBVIOUS
  <2>1. CASE ComposeLeft BY <2>1, AddTyped DEF TypeInv, ComposeLeft
  <2>2. CASE ComposeRight BY <2>2, AddTyped DEF TypeInv, ComposeRight
  <2>3. CASE UNCHANGED vars BY <2>3 DEF TypeInv, vars
  <2> QED BY <2>1, <2>2, <2>3 DEF Next
<1> QED BY <1>1, <1>2, PTL DEF Spec

----------------------------------------------------------------------------
(* One prefix, one TTL policy.                                             *)

HasDocument(blocks) == \E i \in DOMAIN blocks : blocks[i].kind = "document"

LEMMA PolicyIs ==
  ASSUME NEW blocks \in Seq(AnyBlock)
  PROVE  InferTtlPolicy(blocks) = IF HasDocument(blocks) THEN "fixed" ELSE "infinite"
<1>1. \A i \in DOMAIN blocks : blocks[i].kind \in Kinds
  <2>1. DOMAIN blocks = 1 .. Len(blocks) BY LenProperties
  <2>2. \A i \in 1 .. Len(blocks) : blocks[i] \in AnyBlock BY ElementOfSeq
  <2>3. \A b \in AnyBlock : b.kind \in Kinds BY DEF AnyBlock
  <2> QED BY <2>1, <2>2, <2>3
<1> QED BY <1>1 DEF InferTtlPolicy, HasDocument, Kinds

LEMMA PrefixIs ==
  ASSUME NEW blocks \in Seq(AnyBlock)
  PROVE  /\ Stable(blocks) \in Seq(StableBlock)
         /\ DOMAIN Prefix(blocks) = 1 .. Len(Stable(blocks))
         /\ Len(Prefix(blocks)) = Len(Stable(blocks))
         /\ \A i \in 1 .. Len(Stable(blocks)) :
              Prefix(blocks)[i] = HashBlock(Stable(blocks)[i])
<1>1. Stable(blocks) \in Seq(StableBlock) BY StableIs
<1>2. DOMAIN Stable(blocks) = 1 .. Len(Stable(blocks)) /\ Len(Stable(blocks)) \in Nat
  BY <1>1, LenProperties
<1> QED BY <1>1, <1>2 DEF Prefix

\* A document is kept, and its hash tells that it is one.
LEMMA DocumentInPrefix ==
  ASSUME NEW blocks \in Seq(AnyBlock)
  PROVE  HasDocument(blocks) <=> \E n \in DOMAIN Prefix(blocks) : Prefix(blocks)[n][1] = "document"
<1> DEFINE I  == StableAt(blocks)
           at == Ordered(I, Less(I))
           N  == Cardinality(I)
<1>1. /\ N \in Nat
      /\ at \in [1 .. N -> I]
      /\ \A x \in I : \E n \in 1 .. N : at[n] = x
      /\ Stable(blocks) = [n \in 1 .. N |-> blocks[at[n]]]
      /\ Len(Stable(blocks)) = N
  BY StableIs
<1>2. /\ DOMAIN Prefix(blocks) = 1 .. N
      /\ \A n \in 1 .. N : Prefix(blocks)[n] = HashBlock(blocks[at[n]])
  BY <1>1, PrefixIs
<1>3. \A n \in 1 .. N : Prefix(blocks)[n][1] = blocks[at[n]].kind
  BY <1>2 DEF HashBlock
<1>4. ASSUME NEW i \in DOMAIN blocks, blocks[i].kind = "document"
      PROVE  \E n \in 1 .. N : Prefix(blocks)[n][1] = "document"
  <2>1. i \in I BY <1>4 DEF StableAt, IsCacheable
  <2>2. PICK n \in 1 .. N : at[n] = i BY <1>1, <2>1
  <2> HIDE DEF at, N
  <2> QED BY <1>3, <1>4, <2>2
<1>5. ASSUME NEW n \in 1 .. N, Prefix(blocks)[n][1] = "document"
      PROVE  \E i \in DOMAIN blocks : blocks[i].kind = "document"
  <2>1. at[n] \in I BY <1>1
  <2>2. at[n] \in DOMAIN blocks
    <3> HIDE DEF at
    <3> QED BY <2>1 DEF StableAt
  <2> HIDE DEF at, N
  <2> QED BY <1>3, <1>5, <2>2
<1> HIDE DEF I, at, N
<1> QED BY <1>2, <1>4, <1>5 DEF HasDocument

\* Requests of one prefix have one TTL policy, and none is Sliding.
THEOREM PolicyIsOfThePrefix == Spec => []PolicyFollowsPrefix
<1>1. TypeInv => PolicyFollowsPrefix
  <2> SUFFICES ASSUME TypeInv PROVE PolicyFollowsPrefix OBVIOUS
  <2> DEFINE l == ExtractPromptBlocks(left)
             r == ExtractPromptBlocks(right)
  <2>1. l \in Seq(AnyBlock) /\ r \in Seq(AnyBlock) BY ExtractedTyped DEF TypeInv
  <2>2. InferTtlPolicy(l) # "sliding" BY <2>1, PolicyIs
  <2>3. Prefix(l) = Prefix(r) => InferTtlPolicy(l) = InferTtlPolicy(r)
    <3> HIDE DEF l, r
    <3> HAVE Prefix(l) = Prefix(r)
    <3>1. HasDocument(l) <=> HasDocument(r) BY <2>1, DocumentInPrefix
    <3> QED BY <2>1, <3>1, PolicyIs
  <2> QED BY <2>2, <2>3 DEF PolicyFollowsPrefix
<1> QED BY <1>1, Typing, PTL

----------------------------------------------------------------------------
(* What is asked last is no part of the prefix.                            *)

\* Bodies of one frame and length that differ at one position at most.
OnlyAt(v, b, c) ==
  /\ [b EXCEPT !.items = <<>>] = [c EXCEPT !.items = <<>>]
  /\ Len(b.items) = Len(c.items)
  /\ \A i \in DOMAIN b.items \ {v} : b.items[i] = c.items[i]

LEMMA SameFrame ==
  ASSUME NEW format \in Formats, NEW b \in Bodies(format), NEW c \in Bodies(format),
         [b EXCEPT !.items = <<>>] = [c EXCEPT !.items = <<>>]
  PROVE  b.system = c.system /\ b.systemIsString = c.systemIsString /\ b.tools = c.tools
<1> DEFINE x == [b EXCEPT !.items = <<>>]
           y == [c EXCEPT !.items = <<>>]
<1>1. x.system = b.system /\ x.systemIsString = b.systemIsString /\ x.tools = b.tools
  BY DEF Bodies
<1>2. y.system = c.system /\ y.systemIsString = c.systemIsString /\ y.tools = c.tools
  BY DEF Bodies
<1>3. x = y OBVIOUS
<1> HIDE DEF x, y
<1> QED BY <1>1, <1>2, <1>3

\* To choose at the same positions of sequences that agree there.
LEMMA ChosenAgree ==
  ASSUME NEW V, NEW s \in Seq(V), NEW t \in Seq(V),
         NEW I \in SUBSET DOMAIN s, I \in SUBSET DOMAIN t, \A i \in I : s[i] = t[i]
  PROVE  Chosen(s, I) = Chosen(t, I)
<1> DEFINE at == Ordered(I, Less(I))
           N  == Cardinality(I)
<1>1. /\ at \in [1 .. N -> I]
      /\ Chosen(s, I) = [n \in 1 .. N |-> s[at[n]]]
      /\ Chosen(t, I) = [n \in 1 .. N |-> t[at[n]]]
  BY ChosenIs
<1>2. \A n \in 1 .. N : s[at[n]] = t[at[n]]
  <2> TAKE n \in 1 .. N
  <2>1. at[n] \in I BY <1>1
  <2> HIDE DEF at
  <2> QED BY <2>1
<1> HIDE DEF at, N
<1> QED BY <1>1, <1>2

\* All but the last of the chosen, when the sequences agree below the last position.
LEMMA ChosenAgreeBelow ==
  ASSUME NEW V, NEW s \in Seq(V), NEW t \in Seq(V),
         NEW I \in SUBSET DOMAIN s, I \in SUBSET DOMAIN t, NEW v \in I,
         \A i \in I : i <= v, \A i \in I \ {v} : s[i] = t[i]
  PROVE  /\ Len(Chosen(s, I)) = Len(Chosen(t, I))
         /\ Len(Chosen(s, I)) > 0
         /\ Front(Chosen(s, I)) = Front(Chosen(t, I))
<1> DEFINE at == Ordered(I, Less(I))
           N  == Cardinality(I)
<1>1. /\ N \in Nat
      /\ at \in [1 .. N -> I]
      /\ \A x \in I : \E n \in 1 .. N : at[n] = x
      /\ \A m, n \in 1 .. N : m < n => at[m] < at[n]
      /\ Chosen(s, I) = [n \in 1 .. N |-> s[at[n]]]
      /\ Chosen(s, I) \in Seq(V) /\ Len(Chosen(s, I)) = N
  BY ChosenIs
<1>2. /\ Chosen(t, I) = [n \in 1 .. N |-> t[at[n]]]
      /\ Chosen(t, I) \in Seq(V) /\ Len(Chosen(t, I)) = N
  BY ChosenIs
<1>3. I \in SUBSET Nat BY PositionsAreFinite
<1>4. PICK w \in 1 .. N : at[w] = v BY <1>1
<1> HIDE DEF at, N
<1>5. \A n \in 1 .. N - 1 : at[n] \in I \ {v}
  <2> TAKE n \in 1 .. N - 1
  <2>1. n \in 1 .. N /\ N \in 1 .. N /\ n < N BY <1>1
  <2>2. at[n] \in I /\ at[N] \in I BY <1>1, <2>1
  <2>3. at[n] < at[N] BY <1>1, <2>1
  <2>4. \A x, y \in I : x < y => x # v BY <1>3
  <2> QED BY <2>2, <2>3, <2>4
<1>6. \A n \in 1 .. N - 1 : Chosen(s, I)[n] = Chosen(t, I)[n]
  <2> TAKE n \in 1 .. N - 1
  <2>1. at[n] \in I \ {v} BY <1>5
  <2>2. s[at[n]] = t[at[n]] BY <2>1
  <2>3. n \in 1 .. N BY <1>1
  <2> QED BY <1>1, <1>2, <2>2, <2>3
<1>7. N > 0 /\ N - 1 \in Nat BY <1>1, <1>4
<1> DEFINE a == Chosen(s, I)
           b == Chosen(t, I)
<1>8. \A n \in 1 .. N - 1 : a[n] \in V /\ b[n] \in V
  <2> TAKE n \in 1 .. N - 1
  <2>1. n \in 1 .. Len(a) /\ n \in 1 .. Len(b) BY <1>1, <1>2
  <2> QED BY <2>1, <1>1, <1>2, ElementOfSeq
<1>9. a = Chosen(s, I) /\ b = Chosen(t, I) OBVIOUS
<1> HIDE DEF a, b
<1>10. /\ SubSeq(a, 1, N - 1) \in Seq(V) /\ SubSeq(b, 1, N - 1) \in Seq(V)
       /\ Len(SubSeq(a, 1, N - 1)) = N - 1 /\ Len(SubSeq(b, 1, N - 1)) = N - 1
       /\ \A n \in 1 .. N - 1 : SubSeq(a, 1, N - 1)[n] = a[n]
       /\ \A n \in 1 .. N - 1 : SubSeq(b, 1, N - 1)[n] = b[n]
  BY <1>7, <1>8, SubSeqProperties
<1>11. SubSeq(a, 1, N - 1) = SubSeq(b, 1, N - 1)
  BY <1>6, <1>9, <1>10, SeqEqual
<1> QED BY <1>1, <1>2, <1>7, <1>9, <1>11 DEF Front

LEMMA VolatileIs ==
  ASSUME NEW format \in Formats, NEW body \in Bodies(format), format # "native"
  PROVE  /\ Volatile(body) \in Nat
         /\ format = "anthropic" => Volatile(body) = Len(body.items)
         /\ format = "openai" =>
              /\ \A i \in SpokenAt(body) : i <= Volatile(body)
              /\ Volatile(body) # 0 => Volatile(body) \in SpokenAt(body)
              /\ Volatile(body) = 0 => SpokenAt(body) = {}
<1>1. body.format = format /\ body.items \in Seq(Message) BY ItemsTyped
<1>2. Len(body.items) \in Nat /\ DOMAIN body.items = 1 .. Len(body.items)
  BY <1>1, LenProperties
<1>3. CASE format = "anthropic" BY <1>1, <1>2, <1>3 DEF Volatile
<1>4. CASE format = "openai"
  <2> DEFINE T == SpokenAt(body) \cup {0}
  <2>1. T \in SUBSET Nat /\ T # {} /\ \A y \in T : y <= Len(body.items)
    BY <1>2 DEF SpokenAt
  <2>2. Volatile(body) = Max(T) BY <1>1, <1>4 DEF Volatile, SpokenAt
  <2>3. Max(T) \in T /\ \A y \in T : y <= Max(T)
    <3> HIDE DEF T
    <3> QED BY <1>2, <2>1, MaxIs
  <2>4. \A i \in SpokenAt(body) : i \in Nat /\ i > 0 BY <1>2 DEF SpokenAt
  <2> DEFINE m == Max(T)
             Q == SpokenAt(body)
  <2>5. m \in Q \cup {0} /\ \A y \in Q : y <= m BY <2>3
  <2>6. m \in Nat BY <2>1, <2>3
  <2> HIDE DEF m, Q, T
  <2>7. (m # 0 => m \in Q) /\ (m = 0 => Q = {})
    <3>1. \A i \in Q : i \in Nat /\ i > 0 BY <2>4 DEF Q
    <3> QED BY <2>5, <3>1
  <2> QED BY <1>4, <2>2, <2>5, <2>6, <2>7 DEF m, Q
<1> QED BY <1>3, <1>4 DEF Formats

LEMMA FrontTogether ==
  ASSUME NEW s \in Seq(Message), NEW t \in Seq(Message), Len(s) = Len(t), Front(s) = Front(t)
  PROVE  History(s) = History(t)
BY DEF History, Prior

\* The kept blocks are those of all messages but the volatile one.
LEMMA KeptBut ==
  ASSUME NEW format \in Formats, format # "native",
         NEW b \in Bodies(format), NEW c \in Bodies(format),
         Volatile(b) = Volatile(c), OnlyAt(Volatile(b), b, c)
  PROVE  Kept(b) = Kept(c)
<1> DEFINE v == Volatile(b)
<1>1. /\ b.format = format /\ c.format = format
      /\ b.items \in Seq(Message) /\ c.items \in Seq(Message)
  BY ItemsTyped
<1>2. /\ b.system = c.system /\ b.systemIsString = c.systemIsString /\ b.tools = c.tools
      /\ Len(b.items) = Len(c.items)
      /\ \A i \in DOMAIN b.items \ {v} : b.items[i] = c.items[i]
  BY SameFrame DEF OnlyAt
<1>3. /\ Len(b.items) \in Nat /\ DOMAIN b.items = 1 .. Len(b.items)
      /\ DOMAIN c.items = 1 .. Len(b.items)
      /\ \A i \in 1 .. Len(b.items) : b.items[i] \in Message /\ c.items[i] \in Message
  BY <1>1, <1>2, LenProperties, ElementOfSeq
<1>4. CASE format = "anthropic"
  <2>1. Leading(b) = Leading(c) BY <1>1, <1>2, <1>4 DEF Leading
  <2>2. v = Len(b.items) BY <1>4, VolatileIs
  <2>3. Front(b.items) = Front(c.items)
    <3> DEFINE N == Len(b.items)
               x == b.items
               y == c.items
    <3>1. \A n \in 1 .. N - 1 : x[n] = y[n] /\ x[n] \in Message /\ y[n] \in Message
      BY <1>2, <1>3, <2>2
    <3>2. N \in Nat /\ Len(x) = N /\ Len(y) = N BY <1>2, <1>3
    <3> HIDE DEF N, x, y
    <3>3. /\ SubSeq(x, 1, N - 1) \in Seq(Message) /\ SubSeq(y, 1, N - 1) \in Seq(Message)
          /\ Len(SubSeq(x, 1, N - 1)) = Len(SubSeq(y, 1, N - 1))
          /\ Len(SubSeq(x, 1, N - 1)) = IF 1 <= N - 1 THEN N - 1 ELSE 0
          /\ \A n \in 1 .. N - 1 : SubSeq(x, 1, N - 1)[n] = x[n]
          /\ \A n \in 1 .. N - 1 : SubSeq(y, 1, N - 1)[n] = y[n]
      BY <3>1, <3>2, SubSeqProperties
    <3>4. \A n \in 1 .. Len(SubSeq(x, 1, N - 1)) : n \in 1 .. N - 1 BY <3>2, <3>3
    <3>5. SubSeq(x, 1, N - 1) = SubSeq(y, 1, N - 1)
      BY <3>1, <3>3, <3>4, SeqEqual
    <3> QED BY <3>2, <3>5 DEF Front, x, y
  <2>4. History(b.items) = History(c.items) BY <1>1, <1>2, <2>3, FrontTogether
  <2> QED BY <1>1, <1>4, <2>1, <2>4 DEF Kept, Talk
<1>5. CASE format = "openai"
  <2>1. \A i \in 1 .. Len(b.items) : i = v => Spoken(b.items[i]) /\ Spoken(c.items[i])
    <3> TAKE i \in 1 .. Len(b.items)
    <3> HAVE i = v
    <3>1. v # 0 OBVIOUS
    <3>2. v \in SpokenAt(b) /\ v \in SpokenAt(c) BY <1>5, <3>1, VolatileIs
    <3> QED BY <3>2 DEF SpokenAt
  <2>2. \A message \in Message : ~(Named(message) /\ Spoken(message)) BY DEF Named, Spoken
  <2>3. SpokenAt(b) = SpokenAt(c) BY <1>2, <1>3, <2>1 DEF SpokenAt
  <2>4. NamedAt(b) = NamedAt(c) BY <1>2, <1>3, <2>1, <2>2 DEF NamedAt
  <2>5. \A i \in NamedAt(b) : b.items[i] = c.items[i]
    BY <1>2, <1>3, <2>1, <2>2 DEF NamedAt
  <2>6. NamedAt(b) \in SUBSET DOMAIN b.items /\ NamedAt(b) \in SUBSET DOMAIN c.items
    BY <1>3 DEF NamedAt
  <2>7. Chosen(b.items, NamedAt(b)) = Chosen(c.items, NamedAt(b))
    BY <1>1, <2>5, <2>6, ChosenAgree
  <2>8. Leading(b) = Leading(c) BY <1>1, <1>5, <2>4, <2>7 DEF Leading
  <2>9. SpokenAt(b) \in SUBSET DOMAIN b.items /\ SpokenAt(b) \in SUBSET DOMAIN c.items
    BY <1>3 DEF SpokenAt
  <2>10. \A i \in SpokenAt(b) \ {v} : b.items[i] = c.items[i] BY <1>2, <2>9
  <2>11. Chosen(b.items, SpokenAt(b)) \in Seq(Message)
         /\ Chosen(c.items, SpokenAt(b)) \in Seq(Message)
    BY <1>1, <2>9, ChosenIs
  <2>12. History(Chosen(b.items, SpokenAt(b))) = History(Chosen(c.items, SpokenAt(b)))
    <3>1. CASE v = 0
      <4>1. SpokenAt(b) = {} BY <1>5, <3>1, VolatileIs
      <4>2. Chosen(b.items, SpokenAt(b)) = Chosen(c.items, SpokenAt(b))
        BY <1>1, <2>9, <4>1, ChosenAgree
      <4> QED BY <4>2
    <3>2. CASE v # 0
      <4>1. v \in SpokenAt(b) /\ \A i \in SpokenAt(b) : i <= v BY <1>5, <3>2, VolatileIs
      <4> HIDE DEF v
      <4>2. /\ Len(Chosen(b.items, SpokenAt(b))) = Len(Chosen(c.items, SpokenAt(b)))
            /\ Front(Chosen(b.items, SpokenAt(b))) = Front(Chosen(c.items, SpokenAt(b)))
        BY <1>1, <2>9, <2>10, <4>1, ChosenAgreeBelow
      <4> QED BY <2>11, <4>2, FrontTogether
    <3> QED BY <3>1, <3>2
  <2> QED BY <1>1, <1>5, <2>3, <2>8, <2>12 DEF Kept, Talk
<1> QED BY <1>4, <1>5 DEF Formats

\* The last message, and native User blocks, are no part of the prefix.
THEOREM VolatileIsIgnored == Spec => []VolatileIgnored
<1>1. TypeInv => VolatileIgnored
  <2> SUFFICES ASSUME TypeInv PROVE VolatileIgnored OBVIOUS
  <2>1. /\ left.format \in Formats /\ right.format = left.format
        /\ left \in Bodies(left.format) /\ right \in Bodies(left.format)
    BY DEF TypeInv
  <2>2. CASE left.format = "native"
    <3> DEFINE asked(body) == {i \in DOMAIN body.items : body.items[i].kind = "user"}
               rest(body)  == Chosen(body.items, DOMAIN body.items \ asked(body))
    <3>1. \A body \in Bodies("native") : rest(body) = Stable(ExtractPromptBlocks(body))
      <4> TAKE body \in Bodies("native")
      <4>1. body.format = "native" BY DEF Bodies
      <4>2. DOMAIN body.items \ asked(body) = {i \in DOMAIN body.items : IsCacheable(body.items[i])}
        BY DEF IsCacheable
      <4>3. rest(body) = Stable(body.items) BY <4>2 DEF Stable
      <4> QED BY <4>1, <4>3 DEF ExtractPromptBlocks
    <3>2. rest(left) = rest(right) => PrefixOfBody(left) = PrefixOfBody(right)
      <4> HIDE DEF rest
      <4> QED BY <2>1, <2>2, <3>1 DEF PrefixOfBody, Prefix
    <3> QED BY <2>2, <3>2 DEF VolatileIgnored
  <2>3. CASE left.format # "native"
    <3>1. SUFFICES ASSUME Volatile(left) = Volatile(right), OnlyAt(Volatile(left), left, right)
                   PROVE  PrefixOfBody(left) = PrefixOfBody(right)
      BY <2>3 DEF VolatileIgnored, OnlyAt
    <3>2. Kept(left) = Kept(right) BY <2>1, <2>3, <3>1, KeptBut
    <3>3. Stable(ExtractPromptBlocks(left)) = Stable(ExtractPromptBlocks(right))
      BY <2>1, <2>3, <3>2, KeptIs
    <3> QED BY <3>3 DEF PrefixOfBody, Prefix
  <2> QED BY <2>2, <2>3
<1> QED BY <1>1, Typing, PTL

----------------------------------------------------------------------------
(* The parts of a conversation and its last kept block.                    *)

LEMMA EndsGrow ==
  ASSUME NEW n \in Nat, NEW e \in [0 .. n -> Nat], NEW ss, Ends(e, ss, n),
         \A i \in 1 .. n : Len(ss[i]) \in Nat /\ Len(ss[i]) > 0
  PROVE  \A i, j \in 0 .. n : i < j => e[i] < e[j]
<1> DEFINE Good(m) == \A i \in 0 .. m : i < m => e[i] < e[m]
           S == {m \in Nat : m <= n => Good(m)}
<1>1. 0 \in S OBVIOUS
<1>2. \A m \in Nat : m \in S => m + 1 \in S
  <2> SUFFICES ASSUME NEW m \in Nat, m <= n => Good(m), m + 1 <= n PROVE Good(m + 1)
    <3> HIDE DEF Good
    <3> QED OBVIOUS
  <2> SUFFICES ASSUME NEW i \in 0 .. m + 1, i < m + 1 PROVE e[i] < e[m + 1] OBVIOUS
  <2>1. m + 1 \in 1 .. n /\ (m + 1) - 1 = m /\ i \in 0 .. n /\ m \in 0 .. n
        /\ m + 1 \in 0 .. n /\ m <= n
    OBVIOUS
  <2>2. e[m + 1] = e[m] + Len(ss[m + 1]) BY <2>1 DEF Ends
  <2>3. e[m] \in Nat /\ e[m + 1] \in Nat /\ e[i] \in Nat BY <2>1
  <2>4. e[m] < e[m + 1] BY <2>1, <2>2, <2>3
  <2>5. i # m => e[i] < e[m] BY <2>1
  <2> HIDE DEF S, Good
  <2> QED BY <2>3, <2>4, <2>5
<1>3. Nat \subseteq S
  <2> HIDE DEF S
  <2> QED BY <1>1, <1>2, NatSets
<1>4. \A m \in 0 .. n : Good(m)
  <2> HIDE DEF Good
  <2> QED BY <1>3
<1> QED BY <1>4

LEMMA PartsLengths ==
  ASSUME NEW messages \in Seq(Message), NEW n \in Nat, n = Len(messages)
  PROVE  \A i \in 1 .. n : /\ Parts(messages)[i] = Part(messages[i])
                           /\ Len(Parts(messages)[i]) \in Nat
                           /\ Len(Parts(messages)[i]) > 0
<1> TAKE i \in 1 .. n
<1>1. messages[i] \in Message /\ Parts(messages)[i] = Part(messages[i])
  BY PartsTyped DEF Parts
<1>2. /\ Len(messages[i].content) \in Nat
      /\ Len(Part(messages[i])) = Len(messages[i].content) + 1
  BY <1>1, PartIs
<1>3. Len(Part(messages[i])) \in Nat /\ Len(Part(messages[i])) > 0 BY <1>2
<1> QED BY <1>1, <1>3

LEMMA LastKept ==
  ASSUME NEW format \in Formats, format # "native", NEW body \in Bodies(format)
  PROVE  /\ Len(Leading(body)) \in Nat /\ Len(Talk(body)) \in Nat
         /\ Len(Kept(body)) = Len(Leading(body)) + (IF Len(Talk(body)) > 1 THEN 1 ELSE 0)
         /\ Len(Talk(body)) > 1 =>
              Kept(body)[Len(Leading(body)) + 1] = Block("document", Json(Prior(Talk(body))))
<1>1. Talk(body) \in Seq(Message) BY TalkIs
<1>2. Leading(body) \in Seq(StableBlock) /\ History(Talk(body)) \in Seq(StableBlock)
  BY <1>1, LeadingIs, HistoryIs
<1>3. /\ Len(Leading(body)) \in Nat
      /\ Len(Kept(body)) = Len(Leading(body)) + Len(History(Talk(body)))
      /\ HoldsAt(Kept(body), Len(Leading(body)), History(Talk(body)), Len(History(Talk(body))))
  BY <1>2, ConcatIs DEF Kept
<1>4. Len(Talk(body)) \in Nat BY <1>1, LenProperties
<1>5. CASE Len(Talk(body)) > 1
  <2>1. /\ Len(History(Talk(body))) = 1
        /\ History(Talk(body))[1] = Block("document", Json(Prior(Talk(body))))
    BY <1>1, <1>5, HistoryIs
  <2> QED BY <1>3, <1>4, <1>5, <2>1 DEF HoldsAt
<1>6. CASE ~(Len(Talk(body)) > 1)
  <2>1. History(Talk(body)) = <<>> BY <1>1, <1>6, HistoryIs
  <2> QED BY <1>3, <1>4, <1>6, <2>1
<1> QED BY <1>5, <1>6

----------------------------------------------------------------------------
(* How raw texts compare: a strict weak order, equal when the texts are.   *)

LEMMA RawOrder ==
  /\ \A p, q \in Pieces : RawLess(p, q) \/ RawLess(q, p) \/ Raw(p) = Raw(q)
  /\ \A p, q \in Pieces : RawLess(p, q) => ~ RawLess(q, p) /\ Raw(p) # Raw(q)
  /\ \A p, q, r \in Pieces : RawLess(p, q) /\ RawLess(q, r) => RawLess(p, r)
  /\ \A p, q, r \in Pieces : Raw(p) = Raw(q) /\ RawLess(q, r) => RawLess(p, r)
  /\ \A p, q, r \in Pieces : RawLess(p, q) /\ Raw(q) = Raw(r) => RawLess(p, r)
<1>1. \A p \in Pieces : p.id \in Int /\ p.pad \in Int /\ p.text \in Int
  BY DEF Pieces, PiecesOf
<1>2. \A p, q : Raw(p) = Raw(q) <=> p.id = q.id /\ p.pad = q.pad /\ p.text = q.text
  BY DEF Raw
<1> QED BY <1>1, <1>2 DEF RawLess

\* Where two texts part, the first ahead of the second.
PartsAt(a, b, n) ==
  /\ n \in 1 .. Len(b) /\ n <= Len(a) + 1
  /\ \A i \in 1 .. n - 1 : Raw(a[i]) = Raw(b[i])
  /\ n = Len(a) + 1 \/ RawLess(a[n], b[n])

SameRaw(a, b) == Len(a) = Len(b) /\ \A i \in 1 .. Len(a) : Raw(a[i]) = Raw(b[i])

LEMMA LexicographicIs ==
  ASSUME NEW a, NEW b
  PROVE  Lexicographic(a, b) <=> \E n : PartsAt(a, b, n)
BY DEF Lexicographic, PartsAt

LEMMA PiecesOfSeq ==
  ASSUME NEW a \in Seq(Pieces)
  PROVE  Len(a) \in Nat /\ \A i \in 1 .. Len(a) : a[i] \in Pieces
BY LenProperties, ElementOfSeq

LEMMA LexTotal ==
  ASSUME NEW a \in Seq(Pieces), NEW b \in Seq(Pieces)
  PROVE  Lexicographic(a, b) \/ Lexicographic(b, a) \/ SameRaw(a, b)
<1>1. /\ Len(a) \in Nat /\ \A i \in 1 .. Len(a) : a[i] \in Pieces
      /\ Len(b) \in Nat /\ \A i \in 1 .. Len(b) : b[i] \in Pieces
  BY PiecesOfSeq
<1> DEFINE D == {n \in Nat : n > 0 /\ (n <= Len(a) \/ n <= Len(b))
                                   /\ (n <= Len(a) /\ n <= Len(b) => Raw(a[n]) # Raw(b[n]))}
<1>2. CASE D = {}
  <2>1. \A n \in Nat : n > 0 /\ (n <= Len(a) \/ n <= Len(b)) =>
                         n <= Len(a) /\ n <= Len(b) /\ Raw(a[n]) = Raw(b[n])
    BY <1>2
  <2>2. Len(a) = Len(b)
    <3>1. ~(Len(a) < Len(b)) BY <1>1, <2>1
    <3>2. ~(Len(b) < Len(a)) BY <1>1, <2>1
    <3> QED BY <1>1, <3>1, <3>2
  <2> HIDE DEF D
  <2> QED BY <1>1, <2>1, <2>2 DEF SameRaw
<1>3. CASE D # {}
  <2>1. PICK d \in D : \A n \in D : d <= n
    <3>1. D \in SUBSET Nat OBVIOUS
    <3> HIDE DEF D
    <3> QED BY <1>3, <3>1, Least
  <2>2. d \in Nat /\ d > 0 /\ (d <= Len(a) \/ d <= Len(b))
        /\ (d <= Len(a) /\ d <= Len(b) => Raw(a[d]) # Raw(b[d]))
    OBVIOUS
  <2>3. \A i \in 1 .. d - 1 : i <= Len(a) /\ i <= Len(b) /\ Raw(a[i]) = Raw(b[i])
    <3> TAKE i \in 1 .. d - 1
    <3>1. i \notin D
      <4> HIDE DEF D
      <4> QED BY <2>1, <2>2
    <3>2. i <= Len(a) \/ i <= Len(b) BY <1>1, <2>2
    <3> QED BY <1>1, <2>2, <3>1, <3>2
  <2> HIDE DEF D
  <2>4. d <= Len(a) + 1 /\ d <= Len(b) + 1
    <3>1. d = 1 \/ d - 1 \in 1 .. d - 1 BY <2>2
    <3>2. d - 1 <= Len(a) /\ d - 1 <= Len(b) BY <1>1, <2>3, <3>1
    <3> QED BY <1>1, <2>2, <3>2
  <2>5. CASE d > Len(a)
    <3>1. PartsAt(a, b, d) BY <1>1, <2>2, <2>3, <2>4, <2>5 DEF PartsAt
    <3> QED BY <3>1, LexicographicIs
  <2>6. CASE d > Len(b)
    <3>1. PartsAt(b, a, d) BY <1>1, <2>2, <2>3, <2>4, <2>6 DEF PartsAt
    <3> QED BY <3>1, LexicographicIs
  <2>7. CASE d <= Len(a) /\ d <= Len(b)
    <3>1. a[d] \in Pieces /\ b[d] \in Pieces BY <1>1, <2>2, <2>7
    <3>2. RawLess(a[d], b[d]) \/ RawLess(b[d], a[d]) BY <2>2, <2>7, <3>1, RawOrder
    <3>3. PartsAt(a, b, d) \/ PartsAt(b, a, d)
      BY <1>1, <2>2, <2>3, <2>4, <2>7, <3>2 DEF PartsAt
    <3> QED BY <3>3, LexicographicIs
  <2> QED BY <1>1, <2>2, <2>5, <2>6, <2>7
<1> QED BY <1>2, <1>3

LEMMA LexAsymmetric ==
  ASSUME NEW a \in Seq(Pieces), NEW b \in Seq(Pieces), Lexicographic(a, b)
  PROVE  ~ Lexicographic(b, a) /\ ~ SameRaw(a, b)
<1>1. /\ Len(a) \in Nat /\ \A i \in 1 .. Len(a) : a[i] \in Pieces
      /\ Len(b) \in Nat /\ \A i \in 1 .. Len(b) : b[i] \in Pieces
  BY PiecesOfSeq
<1>2. PICK n : PartsAt(a, b, n) BY LexicographicIs
<1>3. /\ n \in 1 .. Len(b) /\ n <= Len(a) + 1
      /\ \A i \in 1 .. n - 1 : Raw(a[i]) = Raw(b[i])
      /\ n = Len(a) + 1 \/ RawLess(a[n], b[n])
  BY <1>2 DEF PartsAt
<1>4. \A p, q \in Pieces : RawLess(p, q) => ~ RawLess(q, p) /\ Raw(p) # Raw(q) BY RawOrder
<1>5. ASSUME Lexicographic(b, a) PROVE FALSE
  <2>1. PICK m : PartsAt(b, a, m) BY <1>5, LexicographicIs
  <2>2. /\ m \in 1 .. Len(a) /\ m <= Len(b) + 1
        /\ \A i \in 1 .. m - 1 : Raw(b[i]) = Raw(a[i])
        /\ m = Len(b) + 1 \/ RawLess(b[m], a[m])
    BY <2>1 DEF PartsAt
  <2>3. CASE n < m
    <3>1. n \in 1 .. m - 1 /\ n \in 1 .. Len(a) /\ n # Len(a) + 1 BY <1>1, <1>3, <2>2, <2>3
    <3>2. Raw(a[n]) = Raw(b[n]) BY <2>2, <3>1
    <3> QED BY <1>1, <1>3, <1>4, <3>1, <3>2
  <2>4. CASE m < n
    <3>1. m \in 1 .. n - 1 /\ m \in 1 .. Len(b) /\ m # Len(b) + 1 BY <1>1, <1>3, <2>2, <2>4
    <3>2. Raw(a[m]) = Raw(b[m]) BY <1>3, <3>1
    <3> QED BY <1>1, <1>4, <2>2, <3>1, <3>2
  <2>5. CASE m = n
    <3>1. n # Len(a) + 1 /\ m # Len(b) + 1 BY <1>1, <1>3, <2>2, <2>5
    <3> QED BY <1>1, <1>3, <1>4, <2>2, <2>5, <3>1
  <2> QED BY <1>3, <2>2, <2>3, <2>4, <2>5
<1>6. ASSUME SameRaw(a, b) PROVE FALSE
  <2>1. n \in 1 .. Len(a) /\ n # Len(a) + 1 BY <1>1, <1>3, <1>6 DEF SameRaw
  <2>2. Raw(a[n]) = Raw(b[n]) BY <1>6, <2>1 DEF SameRaw
  <2> QED BY <1>1, <1>3, <1>4, <2>1, <2>2
<1> QED BY <1>5, <1>6

LEMMA LexTransitive ==
  ASSUME NEW a \in Seq(Pieces), NEW b \in Seq(Pieces), NEW c \in Seq(Pieces)
  PROVE  /\ Lexicographic(a, b) /\ Lexicographic(b, c) => Lexicographic(a, c)
         /\ Lexicographic(a, b) /\ SameRaw(b, c) => Lexicographic(a, c)
         /\ SameRaw(a, b) /\ Lexicographic(b, c) => Lexicographic(a, c)
         /\ SameRaw(a, b) /\ SameRaw(b, c) => SameRaw(a, c)
<1>1. /\ Len(a) \in Nat /\ \A i \in 1 .. Len(a) : a[i] \in Pieces
      /\ Len(b) \in Nat /\ \A i \in 1 .. Len(b) : b[i] \in Pieces
      /\ Len(c) \in Nat /\ \A i \in 1 .. Len(c) : c[i] \in Pieces
  BY PiecesOfSeq
<1>2. ASSUME Lexicographic(a, b), Lexicographic(b, c) PROVE Lexicographic(a, c)
  <2>1. PICK n : PartsAt(a, b, n) BY <1>2, LexicographicIs
  <2>2. PICK m : PartsAt(b, c, m) BY <1>2, LexicographicIs
  <2>3. /\ n \in 1 .. Len(b) /\ n <= Len(a) + 1
        /\ \A i \in 1 .. n - 1 : Raw(a[i]) = Raw(b[i])
        /\ n = Len(a) + 1 \/ RawLess(a[n], b[n])
    BY <2>1 DEF PartsAt
  <2>4. /\ m \in 1 .. Len(c) /\ m <= Len(b) + 1
        /\ \A i \in 1 .. m - 1 : Raw(b[i]) = Raw(c[i])
        /\ m = Len(b) + 1 \/ RawLess(b[m], c[m])
    BY <2>2 DEF PartsAt
  <2>5. CASE n < m
    <3>1. n \in 1 .. m - 1 /\ n \in 1 .. Len(c) BY <1>1, <2>3, <2>4, <2>5
    <3>2. \A i \in 1 .. n - 1 : Raw(a[i]) = Raw(c[i])
      <4>1. \A i \in 1 .. n - 1 : i \in 1 .. m - 1 BY <2>3, <2>4, <2>5
      <4> QED BY <2>3, <2>4, <4>1
    <3>3. n = Len(a) + 1 \/ RawLess(a[n], c[n])
      <4>1. n = Len(a) + 1 \/ n \in 1 .. Len(a) BY <1>1, <2>3
      <4>2. Raw(b[n]) = Raw(c[n]) BY <2>4, <3>1
      <4> QED BY <1>1, <2>3, <3>1, <4>1, <4>2, RawOrder
    <3>4. PartsAt(a, c, n) BY <2>3, <3>1, <3>2, <3>3 DEF PartsAt
    <3> QED BY <3>4, LexicographicIs
  <2>6. CASE n = m
    <3>1. n \in 1 .. Len(c) /\ m # Len(b) + 1 BY <1>1, <2>3, <2>4, <2>6
    <3>2. \A i \in 1 .. n - 1 : Raw(a[i]) = Raw(c[i]) BY <2>3, <2>4, <2>6
    <3>3. n = Len(a) + 1 \/ RawLess(a[n], c[n])
      <4>1. n = Len(a) + 1 \/ n \in 1 .. Len(a) BY <1>1, <2>3
      <4> QED BY <1>1, <2>3, <2>4, <2>6, <3>1, <4>1, RawOrder
    <3>4. PartsAt(a, c, n) BY <2>3, <3>1, <3>2, <3>3 DEF PartsAt
    <3> QED BY <3>4, LexicographicIs
  <2>7. CASE m < n
    <3>1. m \in 1 .. n - 1 /\ m \in 1 .. Len(a) /\ m \in 1 .. Len(b) /\ m # Len(b) + 1
      BY <1>1, <2>3, <2>4, <2>7
    <3>2. \A i \in 1 .. m - 1 : Raw(a[i]) = Raw(c[i])
      <4>1. \A i \in 1 .. m - 1 : i \in 1 .. n - 1 BY <2>3, <2>4, <2>7
      <4> QED BY <2>3, <2>4, <4>1
    <3>3. RawLess(a[m], c[m])
      <4>1. Raw(a[m]) = Raw(b[m]) BY <2>3, <3>1
      <4> QED BY <1>1, <2>4, <3>1, <4>1, RawOrder
    <3>4. PartsAt(a, c, m) BY <1>1, <2>4, <3>1, <3>2, <3>3 DEF PartsAt
    <3> QED BY <3>4, LexicographicIs
  <2> QED BY <2>3, <2>4, <2>5, <2>6, <2>7
<1>3. ASSUME Lexicographic(a, b), SameRaw(b, c) PROVE Lexicographic(a, c)
  <2>1. PICK n : PartsAt(a, b, n) BY <1>3, LexicographicIs
  <2>2. /\ n \in 1 .. Len(b) /\ n <= Len(a) + 1
        /\ \A i \in 1 .. n - 1 : Raw(a[i]) = Raw(b[i])
        /\ n = Len(a) + 1 \/ RawLess(a[n], b[n])
    BY <2>1 DEF PartsAt
  <2>3. n \in 1 .. Len(c) /\ \A i \in 1 .. Len(b) : Raw(b[i]) = Raw(c[i])
    BY <1>3, <2>2 DEF SameRaw
  <2>4. \A i \in 1 .. n - 1 : Raw(a[i]) = Raw(c[i])
    <3>1. \A i \in 1 .. n - 1 : i \in 1 .. Len(b) BY <1>1, <2>2
    <3> QED BY <2>2, <2>3, <3>1
  <2>5. n = Len(a) + 1 \/ RawLess(a[n], c[n])
    <3>1. n = Len(a) + 1 \/ n \in 1 .. Len(a) BY <1>1, <2>2
    <3>2. Raw(b[n]) = Raw(c[n]) BY <2>2, <2>3
    <3> QED BY <1>1, <2>2, <2>3, <3>1, <3>2, RawOrder
  <2>6. PartsAt(a, c, n) BY <2>2, <2>3, <2>4, <2>5 DEF PartsAt
  <2> QED BY <2>6, LexicographicIs
<1>4. ASSUME SameRaw(a, b), Lexicographic(b, c) PROVE Lexicographic(a, c)
  <2>1. PICK m : PartsAt(b, c, m) BY <1>4, LexicographicIs
  <2>2. /\ m \in 1 .. Len(c) /\ m <= Len(b) + 1
        /\ \A i \in 1 .. m - 1 : Raw(b[i]) = Raw(c[i])
        /\ m = Len(b) + 1 \/ RawLess(b[m], c[m])
    BY <2>1 DEF PartsAt
  <2>3. Len(a) = Len(b) /\ \A i \in 1 .. Len(a) : Raw(a[i]) = Raw(b[i])
    BY <1>4 DEF SameRaw
  <2>4. \A i \in 1 .. m - 1 : Raw(a[i]) = Raw(c[i])
    <3>1. \A i \in 1 .. m - 1 : i \in 1 .. Len(a) BY <1>1, <2>2, <2>3
    <3> QED BY <2>2, <2>3, <3>1
  <2>5. m = Len(a) + 1 \/ RawLess(a[m], c[m])
    <3>1. m = Len(a) + 1 \/ m \in 1 .. Len(a) BY <1>1, <2>2, <2>3
    <3> QED BY <1>1, <2>2, <2>3, <3>1, RawOrder
  <2>6. PartsAt(a, c, m) BY <2>2, <2>3, <2>4, <2>5 DEF PartsAt
  <2> QED BY <2>6, LexicographicIs
<1>5. SameRaw(a, b) /\ SameRaw(b, c) => SameRaw(a, c) BY DEF SameRaw
<1> QED BY <1>2, <1>3, <1>4, <1>5

----------------------------------------------------------------------------
(* The sections of a document: every piece is in the span of one head.     *)

HeadOf(content, i) == Max({s \in Heads(content) : s <= i})

\* Where a section that begins at s ends.
EndsAt(content, s, e) ==
  /\ e \in Nat /\ s <= e /\ e <= Len(content)
  /\ \A t \in Starts(content) : t > s => t > e
  /\ e = Len(content) \/ e + 1 \in Starts(content)

LEMMA HeadsAre ==
  ASSUME NEW c \in Seq(Pieces)
  PROVE  /\ Len(c) \in Nat /\ DOMAIN c = 1 .. Len(c)
         /\ Starts(c) \in SUBSET (1 .. Len(c))
         /\ Heads(c) \in SUBSET (0 .. Len(c))
         /\ \A i \in 1 .. Len(c) : c[i] \in Pieces
<1>1. Len(c) \in Nat /\ DOMAIN c = 1 .. Len(c) BY LenProperties
<1>2. Starts(c) \in SUBSET (1 .. Len(c)) BY <1>1 DEF Starts
<1>3. Heads(c) \in SUBSET (0 .. Len(c)) BY <1>1, <1>2 DEF Heads
<1> QED BY <1>1, <1>2, <1>3, ElementOfSeq

LEMMA EndIs ==
  ASSUME NEW c \in Seq(Pieces), NEW s \in Heads(c)
  PROVE  EndsAt(c, s, EndOf(c, s))
<1> DEFINE n == Len(c)
           T == {t \in Starts(c) : t > s} \cup {n + 1}
           m == Min(T)
<1>1. n \in Nat /\ Starts(c) \in SUBSET (1 .. n) /\ s \in 0 .. n BY HeadsAre
<1>2. T \in SUBSET Nat /\ n + 1 \in T BY <1>1
<1>3. m \in T /\ \A y \in T : m <= y
  <2>1. T # {} BY <1>2
  <2> HIDE DEF T
  <2> QED BY <1>2, <2>1, MinIs
<1>4. EndOf(c, s) = m - 1 BY DEF EndOf
<1> HIDE DEF m
<1>6. m \in Nat /\ m <= n + 1 /\ m > s /\ (m = n + 1 \/ m \in Starts(c))
  BY <1>1, <1>2, <1>3
<1>7. \A t \in Starts(c) : t > s => t >= m BY <1>1, <1>3
<1> HIDE DEF T, n
<1>8. \A t \in Starts(c) : t \in Nat BY <1>1
<1>9. /\ m - 1 \in Nat /\ s <= m - 1 /\ m - 1 <= n
      /\ m - 1 = n \/ (m - 1) + 1 \in Starts(c)
      /\ \A t \in Starts(c) : t > s => t > m - 1
  BY <1>1, <1>6, <1>7, <1>8
<1> QED BY <1>4, <1>9 DEF EndsAt, n

LEMMA EndIsUnique ==
  ASSUME NEW c \in Seq(Pieces), NEW s \in Heads(c), NEW e, EndsAt(c, s, e)
  PROVE  EndOf(c, s) = e
<1> DEFINE d == EndOf(c, s)
<1>1. EndsAt(c, s, d) BY EndIs
<1> HIDE DEF d
<1>2. Len(c) \in Nat /\ s \in 0 .. Len(c) /\ \A t \in Starts(c) : t \in 1 .. Len(c)
  BY HeadsAre
<1>4. /\ d \in Nat /\ s <= d /\ d <= Len(c)
      /\ \A t \in Starts(c) : t > s => t > d
      /\ d = Len(c) \/ d + 1 \in Starts(c)
      /\ e \in Nat /\ s <= e /\ e <= Len(c)
      /\ \A t \in Starts(c) : t > s => t > e
      /\ e = Len(c) \/ e + 1 \in Starts(c)
  BY <1>1 DEF EndsAt
<1>5. d + 1 > s /\ e + 1 > s BY <1>2, <1>4
<1>6. ~(d < e) BY <1>2, <1>4, <1>5
<1>7. ~(e < d) BY <1>2, <1>4, <1>5
<1> QED BY <1>4, <1>6, <1>7 DEF d

LEMMA HeadIs ==
  ASSUME NEW c \in Seq(Pieces), NEW i \in 1 .. Len(c)
  PROVE  /\ HeadOf(c, i) \in Heads(c) /\ HeadOf(c, i) <= i
         /\ \A s \in Heads(c) : s <= i => s <= HeadOf(c, i)
<1> DEFINE T == {s \in Heads(c) : s <= i}
<1>1. Len(c) \in Nat /\ Heads(c) \in SUBSET (0 .. Len(c)) BY HeadsAre
<1>2. 0 \in T BY <1>1 DEF Heads
<1>3. T \in SUBSET Nat /\ T # {} /\ i \in Nat /\ \A y \in T : y <= i BY <1>1, <1>2
<1>4. Max(T) \in T /\ \A y \in T : y <= Max(T)
  <2> HIDE DEF T
  <2> QED BY <1>3, MaxIs
<1> QED BY <1>4 DEF HeadOf

\* A piece is in the span of its head and of no other.
LEMMA InSpan ==
  ASSUME NEW c \in Seq(Pieces), NEW s \in Heads(c), NEW i
  PROVE  i \in Span(c, s) <=> i \in 1 .. Len(c) /\ HeadOf(c, i) = s
<1> DEFINE e == EndOf(c, s)
<1>1. Len(c) \in Nat /\ s \in 0 .. Len(c) /\ \A t \in Starts(c) : t \in 1 .. Len(c)
  BY HeadsAre
<1>2. StartOf(s) \in Nat /\ StartOf(s) >= s /\ StartOf(s) >= 1
  BY <1>1 DEF StartOf
<1>3. /\ e \in Nat /\ s <= e /\ e <= Len(c)
      /\ \A t \in Starts(c) : t > s => t > e
      /\ e = Len(c) \/ e + 1 \in Starts(c)
  BY EndIs DEF EndsAt
<1>4. Span(c, s) = StartOf(s) .. e BY DEF Span
<1> HIDE DEF e
<1>5. ASSUME i \in Span(c, s) PROVE i \in 1 .. Len(c) /\ HeadOf(c, i) = s
  <2>1. i \in 1 .. Len(c) /\ s <= i /\ i <= e BY <1>1, <1>2, <1>3, <1>4, <1>5
  <2> DEFINE h == HeadOf(c, i)
  <2>2. h \in Heads(c) /\ h <= i /\ s <= h BY <2>1, HeadIs
  <2> HIDE DEF h
  <2>3. h \in 0 .. Len(c) BY <2>2, HeadsAre
  <2>4. h > s => h \in Starts(c) BY <1>1, <2>2, <2>3 DEF Heads
  <2>5. ~(h > s) BY <1>3, <2>1, <2>2, <2>3, <2>4
  <2> QED BY <1>1, <2>1, <2>2, <2>3, <2>5 DEF h
<1>6. ASSUME i \in 1 .. Len(c), HeadOf(c, i) = s PROVE i \in Span(c, s)
  <2>1. s <= i /\ \A t \in Heads(c) : t <= i => t <= s BY <1>6, HeadIs
  <2>2. i >= StartOf(s) BY <1>1, <1>6, <2>1 DEF StartOf
  <2>3. i <= e
    <3>1. SUFFICES ASSUME i > e PROVE FALSE BY <1>3, <1>6
    <3>2. e + 1 \in Starts(c) /\ e + 1 <= i BY <1>1, <1>3, <1>6, <3>1
    <3>3. e + 1 <= s BY <2>1, <3>2 DEF Heads
    <3> QED BY <1>1, <1>3, <3>3
  <2> QED BY <1>2, <1>3, <1>4, <1>6, <2>2, <2>3
<1> QED BY <1>5, <1>6

LEMMA SectionIs ==
  ASSUME NEW c \in Seq(Pieces), NEW s \in Heads(c)
  PROVE  /\ StartOf(s) \in Nat /\ StartOf(s) >= 1 /\ StartOf(s) >= s
         /\ EndOf(c, s) \in Nat /\ s <= EndOf(c, s) /\ EndOf(c, s) <= Len(c)
         /\ Section(c, s) \in Seq(Pieces)
         /\ Len(Section(c, s)) = EndOf(c, s) - StartOf(s) + 1
         /\ \A k \in 1 .. Len(Section(c, s)) : Section(c, s)[k] = c[StartOf(s) + k - 1]
         /\ s # 0 => StartOf(s) = s /\ Len(Section(c, s)) >= 1 /\ Section(c, s)[1] = c[s]
<1> DEFINE e == EndOf(c, s)
           b == StartOf(s)
<1>1. /\ Len(c) \in Nat /\ s \in 0 .. Len(c) /\ \A i \in 1 .. Len(c) : c[i] \in Pieces
  BY HeadsAre
<1>2. b \in Nat /\ b >= 1 /\ b >= s /\ (s = 0 => b = 1) /\ (s # 0 => b = s)
  BY <1>1 DEF StartOf
<1>3. e \in Nat /\ s <= e /\ e <= Len(c) BY EndIs DEF EndsAt
<1>4. Section(c, s) = SubSeq(c, b, e) BY DEF Section
<1> HIDE DEF b, e
<1>5. \A i \in b .. e : c[i] \in Pieces BY <1>1, <1>2, <1>3
<1>6. /\ SubSeq(c, b, e) \in Seq(Pieces)
      /\ Len(SubSeq(c, b, e)) = IF b <= e THEN e - b + 1 ELSE 0
      /\ \A k \in 1 .. e - b + 1 : SubSeq(c, b, e)[k] = c[b + k - 1]
  BY <1>2, <1>3, <1>5, SubSeqProperties
<1>7. Len(SubSeq(c, b, e)) = e - b + 1 BY <1>1, <1>2, <1>3, <1>6
<1>8. s # 0 => 1 \in 1 .. e - b + 1 /\ b + 1 - 1 = s BY <1>1, <1>2, <1>3
<1>9. s # 0 => e - b + 1 >= 1 /\ SubSeq(c, b, e)[1] = c[s] BY <1>2, <1>3, <1>6, <1>8
<1>10. b \in Nat /\ b >= 1 /\ b >= s /\ (s # 0 => b = s) BY <1>2
<1>11. \A k \in 1 .. Len(SubSeq(c, b, e)) : SubSeq(c, b, e)[k] = c[b + k - 1] BY <1>6, <1>7
<1> QED BY <1>3, <1>4, <1>6, <1>7, <1>9, <1>10, <1>11 DEF b, e

LEMMA SortsFirstIs ==
  ASSUME NEW c \in Seq(Pieces), NEW s \in Heads(c), NEW t \in Heads(c)
  PROVE  SortsFirst(c, s, t) <=>
           \/ Lexicographic(Section(c, s), Section(c, t))
           \/ SameRaw(Section(c, s), Section(c, t)) /\ s < t
<1> DEFINE a == Section(c, s)
           b == Section(c, t)
<1>1. a \in Seq(Pieces) /\ b \in Seq(Pieces) BY SectionIs
<1>2. SortsFirst(c, s, t) <=> Lexicographic(a, b) \/ (~ Lexicographic(b, a) /\ s < t)
  BY DEF SortsFirst
<1> HIDE DEF a, b
<1>3. Lexicographic(a, b) \/ Lexicographic(b, a) \/ SameRaw(a, b) BY <1>1, LexTotal
<1>4. SameRaw(a, b) => SameRaw(b, a) BY DEF SameRaw
<1>5. Lexicographic(b, a) => ~ SameRaw(b, a) BY <1>1, LexAsymmetric
<1> QED BY <1>2, <1>3, <1>4, <1>5 DEF a, b

LEMMA SectionPairsAre ==
  ASSUME NEW c \in Seq(Pieces), NEW s \in Heads(c), NEW t \in Heads(c)
  PROVE  <<s, t>> \in SectionPairs(c) <=> t # 0 /\ s # t /\ (s = 0 \/ SortsFirst(c, s, t))
<1>1. 0 \notin Starts(c) BY HeadsAre
<1>2. t \in Starts(c) <=> t # 0 BY <1>1 DEF Heads
<1> QED BY <1>2 DEF SectionPairs

LEMMA SectionsAreOrdered ==
  ASSUME NEW c \in Seq(Pieces)
  PROVE  TotalOrder(Heads(c), SectionPairs(c))
<1> DEFINE R == SectionPairs(c)
           H == Heads(c)
           Lex(s, t) == Lexicographic(Section(c, s), Section(c, t))
           Same(s, t) == SameRaw(Section(c, s), Section(c, t))
<1>1. \A s \in H : s \in Nat BY HeadsAre
<1>2. \A s, t \in H : <<s, t>> \in R <=>
                        t # 0 /\ s # t /\ (s = 0 \/ Lex(s, t) \/ (Same(s, t) /\ s < t))
  BY SectionPairsAre, SortsFirstIs
<1>3. \A s, t \in H : Lex(s, t) \/ Lex(t, s) \/ (Same(s, t) /\ Same(t, s))
  <2> TAKE s, t \in H
  <2>1. Section(c, s) \in Seq(Pieces) /\ Section(c, t) \in Seq(Pieces) BY SectionIs
  <2>2. Lex(s, t) \/ Lex(t, s) \/ Same(s, t) BY <2>1, LexTotal
  <2>3. Same(s, t) => Same(t, s) BY DEF SameRaw
  <2> QED BY <2>2, <2>3
<1>4. \A s, t \in H : Lex(s, t) => ~ Lex(t, s) /\ ~ Same(s, t) /\ ~ Same(t, s)
  <2> TAKE s, t \in H
  <2>1. Section(c, s) \in Seq(Pieces) /\ Section(c, t) \in Seq(Pieces) BY SectionIs
  <2>2. Lex(s, t) => ~ Lex(t, s) /\ ~ Same(s, t) BY <2>1, LexAsymmetric
  <2>3. Same(t, s) => Same(s, t) BY DEF SameRaw
  <2> QED BY <2>2, <2>3
<1>5. \A s, t, u \in H : /\ Lex(s, t) /\ Lex(t, u) => Lex(s, u)
                         /\ Lex(s, t) /\ Same(t, u) => Lex(s, u)
                         /\ Same(s, t) /\ Lex(t, u) => Lex(s, u)
                         /\ Same(s, t) /\ Same(t, u) => Same(s, u)
  <2> TAKE s, t, u \in H
  <2>1. /\ Section(c, s) \in Seq(Pieces) /\ Section(c, t) \in Seq(Pieces)
        /\ Section(c, u) \in Seq(Pieces)
    BY SectionIs
  <2> QED BY <2>1, LexTransitive
<1> HIDE DEF R, H, Lex, Same
<1>6. \A s \in H : <<s, s>> \notin R BY <1>2
<1>7. \A s, t \in H : s # t => <<s, t>> \in R \/ <<t, s>> \in R
  BY <1>1, <1>2, <1>3
<1>8. \A s, t, u \in H : <<s, t>> \in R /\ <<t, u>> \in R => <<s, u>> \in R
  <2> SUFFICES ASSUME NEW s \in H, NEW t \in H, NEW u \in H, <<s, t>> \in R, <<t, u>> \in R
               PROVE  <<s, u>> \in R
    OBVIOUS
  <2>1. t # 0 /\ u # 0 /\ s \in Nat /\ t \in Nat /\ u \in Nat BY <1>1, <1>2
  <2>2. CASE s = 0 BY <1>2, <2>1, <2>2
  <2>3. CASE s # 0
    <3>1. Lex(s, t) \/ (Same(s, t) /\ s < t) BY <1>2, <2>3
    <3>2. Lex(t, u) \/ (Same(t, u) /\ t < u) BY <1>2, <2>1
    <3>3. Lex(s, u) \/ (Same(s, u) /\ s < u) BY <1>5, <2>1, <3>1, <3>2
    <3>4. s # u BY <1>4, <2>1, <3>3
    <3> QED BY <1>2, <2>1, <3>3, <3>4
  <2> QED BY <2>2, <2>3
<1> QED BY <1>6, <1>7, <1>8 DEF TotalOrder, R, H

----------------------------------------------------------------------------
(* The pieces of a document in canonical order.                            *)

LEMMA PiecePairsAre ==
  ASSUME NEW c \in Seq(Pieces), NEW i \in 1 .. Len(c), NEW j \in 1 .. Len(c)
  PROVE  <<i, j>> \in PiecePairs(c) <=>
           \/ HeadOf(c, i) = HeadOf(c, j) /\ i < j
           \/ <<HeadOf(c, i), HeadOf(c, j)>> \in SectionPairs(c)
<1>1. HeadOf(c, i) \in Heads(c) /\ HeadOf(c, j) \in Heads(c) BY HeadIs
<1>2. i \in Span(c, HeadOf(c, i)) /\ j \in Span(c, HeadOf(c, j)) BY <1>1, InSpan
<1>3. \A s \in Heads(c) : i \in Span(c, s) => s = HeadOf(c, i) BY InSpan
<1>4. \A s \in Heads(c) : j \in Span(c, s) => s = HeadOf(c, j) BY InSpan
<1>5. \A e \in SectionPairs(c) :
        e[1] \in Heads(c) /\ e[2] \in Heads(c) /\ e = <<e[1], e[2]>>
  BY DEF SectionPairs, Heads
<1> DEFINE A == UNION {Span(c, e[1]) \X Span(c, e[2]) : e \in SectionPairs(c)}
           B == UNION {{e \in Span(c, s) \X Span(c, s) : e[1] < e[2]} : s \in Heads(c)}
<1>6. <<i, j>> \in A <=> <<HeadOf(c, i), HeadOf(c, j)>> \in SectionPairs(c)
  <2>1. ASSUME <<i, j>> \in A PROVE <<HeadOf(c, i), HeadOf(c, j)>> \in SectionPairs(c)
    <3>1. PICK e \in SectionPairs(c) : i \in Span(c, e[1]) /\ j \in Span(c, e[2]) BY <2>1
    <3>2. e[1] = HeadOf(c, i) /\ e[2] = HeadOf(c, j) /\ e = <<e[1], e[2]>>
      BY <1>3, <1>4, <1>5, <3>1
    <3> QED BY <3>2
  <2>2. ASSUME <<HeadOf(c, i), HeadOf(c, j)>> \in SectionPairs(c) PROVE <<i, j>> \in A
    <3> DEFINE e == <<HeadOf(c, i), HeadOf(c, j)>>
    <3>1. <<i, j>> \in Span(c, e[1]) \X Span(c, e[2]) BY <1>2
    <3>2. e \in SectionPairs(c) BY <2>2
    <3> HIDE DEF e
    <3> QED BY <3>1, <3>2
  <2> QED BY <2>1, <2>2
<1>7. <<i, j>> \in B <=> HeadOf(c, i) = HeadOf(c, j) /\ i < j
  BY <1>1, <1>2, <1>3, <1>4
<1>8. PiecePairs(c) = A \cup B BY DEF PiecePairs
<1> HIDE DEF A, B
<1> QED BY <1>6, <1>7, <1>8

LEMMA PiecesAreOrdered ==
  ASSUME NEW c \in Seq(Pieces)
  PROVE  TotalOrder(1 .. Len(c), PiecePairs(c))
<1> DEFINE I == 1 .. Len(c)
           R == SectionPairs(c)
           H == Heads(c)
           P == PiecePairs(c)
           h == [i \in I |-> HeadOf(c, i)]
<1>1. \A i \in I : h[i] \in H BY HeadIs
<1>2. /\ \A s \in H : <<s, s>> \notin R
      /\ \A s, t \in H : s # t => <<s, t>> \in R \/ <<t, s>> \in R
      /\ \A s, t, u \in H : <<s, t>> \in R /\ <<t, u>> \in R => <<s, u>> \in R
  BY SectionsAreOrdered DEF TotalOrder
<1>3. \A i, j \in I : <<i, j>> \in P <=> (h[i] = h[j] /\ i < j) \/ <<h[i], h[j]>> \in R
  BY PiecePairsAre
<1>4. \A i \in I : i \in Int OBVIOUS
<1> HIDE DEF I, R, h, H, P
<1>5. \A i \in I : <<i, i>> \notin P
  <2> TAKE i \in I
  <2>1. h[i] \in H /\ i \in Int BY <1>1, <1>4
  <2>2. <<h[i], h[i]>> \notin R BY <1>2, <2>1
  <2> QED BY <1>3, <2>1, <2>2
<1>6. \A i, j \in I : i # j => <<i, j>> \in P \/ <<j, i>> \in P
  <2> SUFFICES ASSUME NEW i \in I, NEW j \in I, i # j PROVE <<i, j>> \in P \/ <<j, i>> \in P
    OBVIOUS
  <2>1. h[i] \in H /\ i \in Int /\ h[j] \in H /\ j \in Int BY <1>1, <1>4
  <2>2. h[i] # h[j] => <<h[i], h[j]>> \in R \/ <<h[j], h[i]>> \in R BY <1>2, <2>1
  <2>3. i < j \/ j < i BY <2>1
  <2> QED BY <1>3, <2>2, <2>3
<1>7. \A i, j, k \in I : <<i, j>> \in P /\ <<j, k>> \in P => <<i, k>> \in P
  <2> SUFFICES ASSUME NEW i \in I, NEW j \in I, NEW k \in I, <<i, j>> \in P, <<j, k>> \in P
               PROVE  <<i, k>> \in P
    OBVIOUS
  <2>1. h[i] \in H /\ i \in Int /\ h[j] \in H /\ j \in Int /\ h[k] \in H /\ k \in Int
    BY <1>1, <1>4
  <2>2. (h[i] = h[j] /\ i < j) \/ <<h[i], h[j]>> \in R BY <1>3
  <2>3. (h[j] = h[k] /\ j < k) \/ <<h[j], h[k]>> \in R BY <1>3
  <2>4. <<h[i], h[j]>> \in R /\ <<h[j], h[k]>> \in R => <<h[i], h[k]>> \in R BY <1>2, <2>1
  <2>5. i < j /\ j < k => i < k BY <2>1
  <2>6. (h[i] = h[k] /\ i < k) \/ <<h[i], h[k]>> \in R BY <2>2, <2>3, <2>4, <2>5
  <2> QED BY <1>3, <2>6
<1> QED BY <1>5, <1>6, <1>7 DEF TotalOrder, I, P

At(content) == Ordered(DOMAIN content, PiecePairs(content))
Place(content, i) == Rank(DOMAIN content, PiecePairs(content), i) + 1
Arranged(content) == [n \in DOMAIN content |-> content[At(content)[n]]]

LEMMA PlacesAre ==
  ASSUME NEW c \in Seq(Pieces)
  PROVE  /\ At(c) \in [1 .. Len(c) -> 1 .. Len(c)]
         /\ \A n \in 1 .. Len(c) : At(c)[n] \in 1 .. Len(c) /\ Place(c, At(c)[n]) = n
         /\ \A i \in 1 .. Len(c) : Place(c, i) \in 1 .. Len(c) /\ At(c)[Place(c, i)] = i
<1> DEFINE I == 1 .. Len(c)
           R == PiecePairs(c)
<1>1. Len(c) \in Nat /\ DOMAIN c = I BY HeadsAre
<1>2. IsFiniteSet(I) /\ Cardinality(I) = Len(c) BY <1>1, FS_Interval
<1>3. TotalOrder(I, R) BY PiecesAreOrdered
<1>4. At(c) = Ordered(I, R) /\ \A i \in I : Place(c, i) = Rank(I, R, i) + 1
  BY <1>1 DEF At, Place
<1> HIDE DEF R
<1>5. /\ Ordered(I, R) \in [1 .. Cardinality(I) -> I]
      /\ \A n \in 1 .. Cardinality(I) : Rank(I, R, Ordered(I, R)[n]) = n - 1
      /\ \A x \in I : /\ Rank(I, R, x) + 1 \in 1 .. Cardinality(I)
                      /\ Ordered(I, R)[Rank(I, R, x) + 1] = x
  <2> HIDE DEF I
  <2> QED BY <1>2, <1>3, OrderedIs
<1>6. At(c) \in [I -> I] BY <1>2, <1>4, <1>5
<1>7. \A n \in I : At(c)[n] \in I /\ Place(c, At(c)[n]) = n
  <2> TAKE n \in I
  <2>1. At(c)[n] \in I BY <1>6
  <2>2. Place(c, At(c)[n]) = Rank(I, R, At(c)[n]) + 1 BY <1>4, <2>1
  <2>3. Rank(I, R, At(c)[n]) = n - 1 BY <1>2, <1>4, <1>5
  <2> QED BY <2>1, <2>2, <2>3
<1>8. \A i \in I : Place(c, i) \in I /\ At(c)[Place(c, i)] = i BY <1>2, <1>4, <1>5
<1> QED BY <1>6, <1>7, <1>8

LEMMA HeadOfStart ==
  ASSUME NEW c \in Seq(Pieces), NEW s \in Starts(c)
  PROVE  HeadOf(c, s) = s
<1>1. s \in 1 .. Len(c) /\ s \in Heads(c) BY HeadsAre DEF Heads
<1>2. HeadOf(c, s) \in 0 .. Len(c) /\ HeadOf(c, s) <= s /\ s <= HeadOf(c, s)
  BY <1>1, HeadIs, HeadsAre
<1> QED BY <1>1, <1>2

LEMMA HeadOfNext ==
  ASSUME NEW c \in Seq(Pieces), NEW i \in 1 .. Len(c), i + 1 \in 1 .. Len(c),
         i + 1 \notin Starts(c)
  PROVE  HeadOf(c, i + 1) = HeadOf(c, i)
<1> DEFINE j == i + 1
<1>1. HeadOf(c, i) \in Heads(c) /\ HeadOf(c, i) <= i
      /\ \A s \in Heads(c) : s <= i => s <= HeadOf(c, i)
  BY HeadIs
<1>2. HeadOf(c, j) \in Heads(c) /\ HeadOf(c, j) <= j
      /\ \A s \in Heads(c) : s <= j => s <= HeadOf(c, j)
  BY HeadIs
<1>3. \A s \in Heads(c) : s \in Nat BY HeadsAre
<1>4. HeadOf(c, j) # j BY <1>2 DEF Heads
<1> QED BY <1>1, <1>2, <1>3, <1>4

\* The preamble stays in front, and what stands together in a section stays together.
LEMMA FirstPlace ==
  ASSUME NEW c \in Seq(Pieces), 1 \in 1 .. Len(c), 1 \notin Starts(c)
  PROVE  Place(c, 1) = 1
<1> DEFINE I == 1 .. Len(c)
           R == PiecePairs(c)
<1>1. DOMAIN c = I BY HeadsAre
<1>2. HeadOf(c, 1) = 0
  <2>1. HeadOf(c, 1) \in Heads(c) /\ HeadOf(c, 1) <= 1 BY HeadIs
  <2>2. HeadOf(c, 1) \in Nat BY <2>1, HeadsAre
  <2> QED BY <2>1, <2>2 DEF Heads
<1>3. \A y \in I : <<y, 1>> \notin R
  <2> TAKE y \in I
  <2>1. HeadOf(c, y) \in Heads(c) /\ HeadOf(c, 1) \in Heads(c) BY HeadIs
  <2>2. <<HeadOf(c, y), HeadOf(c, 1)>> \notin SectionPairs(c) BY <1>2, <2>1, SectionPairsAre
  <2>3. ~(y < 1) OBVIOUS
  <2> QED BY <2>2, <2>3, PiecePairsAre
<1>4. Before(I, R, 1) = {} BY <1>3 DEF Before
<1>5. Rank(I, R, 1) = 0 BY <1>4, FS_EmptySet DEF Rank
<1> QED BY <1>1, <1>5 DEF Place

LEMMA NextPlace ==
  ASSUME NEW c \in Seq(Pieces), NEW i \in 1 .. Len(c), i + 1 \in 1 .. Len(c),
         i + 1 \notin Starts(c)
  PROVE  Place(c, i + 1) = Place(c, i) + 1
<1> DEFINE I == 1 .. Len(c)
           R == PiecePairs(c)
           j == i + 1
<1>1. Len(c) \in Nat /\ DOMAIN c = I BY HeadsAre
<1>2. HeadOf(c, j) = HeadOf(c, i) BY HeadOfNext
<1>3. \A y \in I : <<y, j>> \in R <=> <<y, i>> \in R \/ y = i
  <2> TAKE y \in I
  <2>1. <<y, j>> \in R <=> \/ HeadOf(c, y) = HeadOf(c, j) /\ y < j
                           \/ <<HeadOf(c, y), HeadOf(c, j)>> \in SectionPairs(c)
    BY PiecePairsAre
  <2>2. <<y, i>> \in R <=> \/ HeadOf(c, y) = HeadOf(c, i) /\ y < i
                           \/ <<HeadOf(c, y), HeadOf(c, i)>> \in SectionPairs(c)
    BY PiecePairsAre
  <2>3. y < j <=> y < i \/ y = i OBVIOUS
  <2> QED BY <1>2, <2>1, <2>2, <2>3
<1>4. Before(I, R, j) = Before(I, R, i) \cup {i} BY <1>3 DEF Before
<1>5. <<i, i>> \notin R BY PiecesAreOrdered DEF TotalOrder
<1>6. IsFiniteSet(Before(I, R, i)) /\ i \notin Before(I, R, i)
  <2>1. Before(I, R, i) \in SUBSET I /\ IsFiniteSet(I) BY <1>1, FS_Interval DEF Before
  <2> QED BY <1>5, <2>1, FS_Subset DEF Before
<1>7. Cardinality(Before(I, R, j)) = Cardinality(Before(I, R, i)) + 1
  BY <1>4, <1>6, FS_AddElement
<1> QED BY <1>1, <1>7 DEF Place, Rank

LEMMA RunStays ==
  ASSUME NEW c \in Seq(Pieces), NEW i \in 1 .. Len(c), NEW e \in i .. Len(c),
         \A t \in Starts(c) : t > i => t > e
  PROVE  \A m \in 0 .. e - i : Place(c, i + m) = Place(c, i) + m
<1> DEFINE S == {m \in Nat : i + m <= e => Place(c, i + m) = Place(c, i) + m}
<1>1. Len(c) \in Nat /\ Starts(c) \in SUBSET (1 .. Len(c)) BY HeadsAre
<1>2. Place(c, i) \in Nat BY PlacesAre
<1>3. 0 \in S
  <2>1. i + 0 = i /\ Place(c, i) + 0 = Place(c, i) BY <1>2
  <2>2. Place(c, i + 0) = Place(c, i) BY <2>1
  <2> QED BY <2>1, <2>2
<1>4. \A m \in Nat : m \in S => m + 1 \in S
  <2> SUFFICES ASSUME NEW m \in Nat, m \in S, i + (m + 1) <= e
               PROVE  Place(c, i + (m + 1)) = Place(c, i) + (m + 1)
    OBVIOUS
  <2> DEFINE k == i + m
  <2>1. k \in 1 .. Len(c) /\ k + 1 \in 1 .. Len(c) /\ k + 1 = i + (m + 1) /\ k <= e
        /\ k + 1 > i /\ ~(k + 1 > e)
    BY <1>1
  <2>2. k + 1 \notin Starts(c) BY <2>1
  <2>3. Place(c, k) = Place(c, i) + m BY <2>1
  <2> HIDE DEF k, S
  <2>4. Place(c, k + 1) = Place(c, k) + 1 BY <2>1, <2>2, NextPlace
  <2> QED BY <1>2, <2>1, <2>3, <2>4
<1>5. Nat \subseteq S
  <2> HIDE DEF S
  <2> QED BY <1>3, <1>4, NatSets
<1> QED BY <1>1, <1>5

LEMMA ArrangedIs ==
  ASSUME NEW c \in Seq(Pieces)
  PROVE  /\ Arranged(c) \in Seq(Pieces)
         /\ Len(Arranged(c)) = Len(c)
         /\ \A n \in 1 .. Len(c) : Arranged(c)[n] = c[At(c)[n]]
         /\ \A n \in 1 .. Len(c) : n \in Starts(Arranged(c)) <=> At(c)[n] \in Starts(c)
         /\ Canonicalize("document", c) = Words(Arranged(c))
<1> DEFINE a == Arranged(c)
<1>1. /\ Len(c) \in Nat /\ DOMAIN c = 1 .. Len(c)
      /\ \A n \in 1 .. Len(c) : At(c)[n] \in 1 .. Len(c) /\ c[At(c)[n]] \in Pieces
  BY HeadsAre, PlacesAre
<1>2. a = [n \in 1 .. Len(c) |-> c[At(c)[n]]] BY <1>1 DEF Arranged
<1>3. a \in [1 .. Len(c) -> Pieces] BY <1>1, <1>2
<1>4. a \in Seq(Pieces) BY <1>1, <1>3, SeqDef
<1>5. Len(a) = Len(c) /\ DOMAIN a = 1 .. Len(c) BY <1>1, <1>3, <1>4, LenProperties
<1>6. \A n \in 1 .. Len(c) : a[n] = c[At(c)[n]] BY <1>2
<1> HIDE DEF a
<1>7. \A n \in 1 .. Len(c) : n \in Starts(a) <=> At(c)[n] \in Starts(c)
  BY <1>1, <1>5, <1>6 DEF Starts
<1>8. Canonicalize("document", c) = Words(a)
  <2>1. Canonicalize("document", c) = [n \in 1 .. Len(c) |-> Words(c)[At(c)[n]]]
    BY <1>1 DEF Canonicalize, At
  <2>2. \A n \in 1 .. Len(c) :
          Words(c)[At(c)[n]] = <<c[At(c)[n]].mark, c[At(c)[n]].id, c[At(c)[n]].text>>
    BY <1>1 DEF Words
  <2>3. Words(a) = [n \in 1 .. Len(c) |-> <<a[n].mark, a[n].id, a[n].text>>]
    BY <1>5 DEF Words
  <2>4. \A n \in 1 .. Len(c) : Words(c)[At(c)[n]] = <<a[n].mark, a[n].id, a[n].text>>
    BY <1>6, <2>2
  <2>5. [n \in 1 .. Len(c) |-> Words(c)[At(c)[n]]]
          = [n \in 1 .. Len(c) |-> <<a[n].mark, a[n].id, a[n].text>>]
    BY <2>4
  <2> QED BY <2>1, <2>3, <2>5
<1> QED BY <1>4, <1>5, <1>6, <1>7, <1>8 DEF a

\* A section of the document is a section of what it is arranged to.
LEMMA SectionStays ==
  ASSUME NEW c \in Seq(Pieces), NEW s \in Heads(c), NEW p \in Heads(Arranged(c)),
         s = 0 <=> p = 0, s # 0 => p = Place(c, s)
  PROVE  Section(Arranged(c), p) = Section(c, s)
<1> DEFINE a == Arranged(c)
           n == Len(c)
           b == StartOf(s)
           q == StartOf(p)
           e == EndOf(c, s)
           l == e - b + 1
           f == q + l - 1
<1>1. /\ a \in Seq(Pieces) /\ Len(a) = n
      /\ \A k \in 1 .. n : a[k] = c[At(c)[k]]
      /\ \A k \in 1 .. n : k \in Starts(a) <=> At(c)[k] \in Starts(c)
  BY ArrangedIs
<1>2. /\ n \in Nat
      /\ \A i \in 1 .. n : Place(c, i) \in 1 .. n /\ At(c)[Place(c, i)] = i
      /\ \A i \in 1 .. n : At(c)[i] \in 1 .. n /\ Place(c, At(c)[i]) = i
      /\ \A t \in Starts(c) : t \in 1 .. n
      /\ \A t \in Starts(a) : t \in 1 .. n
      /\ s \in 0 .. n /\ p \in 0 .. n
  BY <1>1, HeadsAre, PlacesAre
<1>3. /\ e \in Nat /\ s <= e /\ e <= n
      /\ \A t \in Starts(c) : t > s => t > e
      /\ e = n \/ e + 1 \in Starts(c)
  BY EndIs DEF EndsAt
<1>4. /\ (s = 0 => b = 1 /\ p = 0 /\ q = 1) /\ (s # 0 => b = s /\ q = p /\ p = Place(c, s))
      /\ b \in Nat /\ b >= 1 /\ q \in Nat /\ q >= 1
  BY <1>2 DEF StartOf
<1>5. /\ Section(c, s) \in Seq(Pieces) /\ Len(Section(c, s)) = l
      /\ \A k \in 1 .. l : Section(c, s)[k] = c[b + k - 1]
  BY SectionIs
<1>6. l \in Nat /\ (s # 0 => l >= 1) /\ (s = 0 => l = e) BY <1>2, <1>3, <1>4
<1> HIDE DEF a, n, b, q, e
<1>7. \A m \in 0 .. l - 1 : Place(c, b + m) = q + m
  <2>1. SUFFICES ASSUME l >= 1 PROVE \A m \in 0 .. l - 1 : Place(c, b + m) = q + m
    BY <1>6
  <2>2. b \in 1 .. n /\ e \in b .. n /\ e - b = l - 1 BY <1>2, <1>3, <1>4, <2>1
  <2>3. \A t \in Starts(c) : t > b => t > e BY <1>2, <1>3, <1>4
  <2>4. \A m \in 0 .. e - b : Place(c, b + m) = Place(c, b) + m
    BY <2>2, <2>3, RunStays DEF n
  <2>5. Place(c, b) = q
    <3>1. CASE s # 0 BY <1>4, <3>1
    <3>2. CASE s = 0
      <4>1. b = 1 /\ q = 1 /\ 1 \notin Starts(c)
        BY <1>3, <1>4, <1>6, <2>1, <3>2
      <4> QED BY <2>2, <4>1, FirstPlace DEF n
    <3> QED BY <3>1, <3>2
  <2> HIDE DEF l
  <2> QED BY <2>2, <2>4, <2>5
<1>8. \A m \in 0 .. l - 1 : b + m \in 1 .. n /\ q + m \in 1 .. n /\ At(c)[q + m] = b + m
  <2> TAKE m \in 0 .. l - 1
  <2>1. b + m \in 1 .. n BY <1>2, <1>3, <1>4
  <2>2. Place(c, b + m) = q + m BY <1>7
  <2> HIDE DEF l
  <2> QED BY <1>2, <2>1, <2>2
<1>9. EndsAt(a, p, f)
  <2>1. f \in Nat /\ p <= f /\ f = q + l - 1 /\ l \in Nat /\ q \in Nat /\ n \in Nat
        /\ p \in Nat /\ (p = 0 => q = 1) /\ (p # 0 => q = p)
    <3>1. l \in Nat /\ q \in Nat /\ q >= 1 /\ p \in Nat BY <1>2, <1>4, <1>6
    <3>2. (p = 0 => q = 1) /\ (p # 0 => q = p /\ l >= 1) BY <1>4, <1>6
    <3> HIDE DEF l
    <3> QED BY <1>2, <3>1, <3>2
  <2>2. f <= n
    <3>1. CASE l = 0 BY <1>2, <1>4, <1>6, <3>1
    <3>2. CASE l # 0
      <4>1. l - 1 \in 0 .. l - 1 BY <1>6, <3>2
      <4>2. q + (l - 1) \in 1 .. n
        <5> HIDE DEF l
        <5> QED BY <1>8, <4>1
      <4> QED BY <1>2, <1>4, <1>6, <4>2
    <3> QED BY <3>1, <3>2
  <2>3. \A t \in Starts(a) : t > p => t > f
    <3> SUFFICES ASSUME NEW t \in Starts(a), t > p, t <= f PROVE FALSE BY <1>2, <2>1
    <3>1. t \in 1 .. n /\ t - q \in 0 .. l - 1
      <4>1. t \in 1 .. n BY <1>2
      <4> HIDE DEF l
      <4> QED BY <2>1, <4>1
    <3> DEFINE m == t - q
    <3>2. q + m = t /\ m \in 0 .. l - 1 BY <1>4, <3>1
    <3>3. At(c)[t] = b + m
      <4> HIDE DEF m, l
      <4> QED BY <1>8, <3>2
    <3>4. b + m \in Starts(c) BY <1>1, <3>1, <3>3
    <3>5. b + m > s /\ b + m <= e BY <1>2, <1>3, <1>4, <1>6, <3>1
    <3>6. b + m > e
      <4> HIDE DEF m
      <4> QED BY <1>3, <3>4, <3>5
    <3> QED BY <1>3, <1>4, <3>1, <3>5, <3>6
  <2>4. f = n \/ f + 1 \in Starts(a)
    <3> DEFINE g == f + 1
               j == At(c)[g]
    <3> SUFFICES ASSUME f # n, g \notin Starts(a) PROVE FALSE OBVIOUS
    <3>1. g \in 1 .. n /\ g = q + l
      <4> HIDE DEF l
      <4> QED BY <2>1, <2>2
    <3> HIDE DEF g
    <3>2. j \in 1 .. n /\ Place(c, j) = g /\ j \notin Starts(c) BY <1>1, <1>2, <3>1
    <3> HIDE DEF j
    <3>3. CASE j = 1
      <4>1. g = 1
        <5>1. 1 \in 1 .. Len(c) /\ 1 \notin Starts(c) BY <3>2, <3>3 DEF n
        <5>2. Place(c, 1) = 1 BY <5>1, FirstPlace
        <5> QED BY <3>2, <3>3, <5>2
      <4>2. s = 0 /\ e = 0
        <5> HIDE DEF l
        <5>1. l \in Nat /\ q \in Nat /\ q >= 1 BY <1>4, <1>6
        <5>2. l = 0 BY <3>1, <4>1, <5>1
        <5> QED BY <1>6, <5>2
      <4> QED BY <1>2, <1>3, <3>1, <3>2, <3>3, <4>2
    <3>4. CASE j # 1
      <4> DEFINE i == j - 1
      <4>1. i \in 1 .. n /\ i + 1 = j BY <1>2, <3>2, <3>4
      <4> HIDE DEF i
      <4>2. Place(c, j) = Place(c, i) + 1 BY <3>2, <4>1, NextPlace DEF n
      <4>3. Place(c, i) \in 1 .. n BY <1>2, <4>1
      <4>4. Place(c, i) = q + l - 1
        <5> HIDE DEF l
        <5>1. l \in Nat /\ q \in Nat BY <1>4, <1>6
        <5>2. Place(c, i) \in Nat BY <4>3
        <5>3. Place(c, i) + 1 = q + l BY <3>1, <3>2, <4>2
        <5> QED BY <5>1, <5>2, <5>3
      <4>5. CASE l = 0
        <5>1. q = 1 BY <1>4, <1>6, <4>5
        <5> HIDE DEF l
        <5>2. Place(c, i) = 0 BY <4>4, <4>5, <5>1
        <5> QED BY <4>3, <5>2
      <4>6. CASE l # 0
        <5>1. l - 1 \in 0 .. l - 1 /\ q + (l - 1) = q + l - 1 /\ b + (l - 1) = e
          BY <1>3, <1>4, <1>6, <4>6
        <5>2. At(c)[q + l - 1] = e
          <6> HIDE DEF l
          <6> QED BY <1>8, <5>1
        <5>3. i = e BY <1>2, <4>1, <4>4, <5>2
        <5> QED BY <1>2, <1>3, <3>2, <4>1, <5>3
      <4> QED BY <4>5, <4>6
    <3> QED BY <3>3, <3>4
  <2> QED BY <1>1, <2>1, <2>2, <2>3, <2>4 DEF EndsAt
<1>10. p \in Heads(a) BY DEF a
<1>11. EndOf(a, p) = f
  <2> HIDE DEF f
  <2> QED BY <1>1, <1>9, <1>10, EndIsUnique
<1>12. /\ Section(a, p) \in Seq(Pieces) /\ Len(Section(a, p)) = EndOf(a, p) - q + 1
       /\ \A k \in 1 .. Len(Section(a, p)) : Section(a, p)[k] = a[q + k - 1]
  <2> HIDE DEF f
  <2> QED BY <1>1, <1>10, SectionIs DEF q
<1>13. Len(Section(a, p)) = l BY <1>4, <1>6, <1>11, <1>12
<1>14. \A k \in 1 .. l : Section(a, p)[k] = Section(c, s)[k]
  <2> TAKE k \in 1 .. l
  <2> DEFINE m == k - 1
  <2>1. m \in 0 .. l - 1 /\ q + m = q + k - 1 /\ b + m = b + k - 1 BY <1>4, <1>6
  <2> HIDE DEF m, l
  <2>2. q + m \in 1 .. n /\ At(c)[q + m] = b + m BY <1>8, <2>1
  <2>3. a[q + m] = c[b + m] BY <1>1, <2>2
  <2> QED BY <1>5, <1>12, <1>13, <2>1, <2>3
<1> HIDE DEF l, f
<1>15. Section(a, p) = Section(c, s) BY <1>5, <1>12, <1>13, <1>14, SeqEqual
<1> QED BY <1>15 DEF a

LEMMA SameSourcesTransitive ==
  ASSUME NEW c, NEW d, NEW e, SameSources(c, d), SameSources(d, e)
  PROVE  SameSources(c, e)
BY DEF SameSources

LEMMA SameSourcesSymmetric ==
  ASSUME NEW c, NEW d, SameSources(c, d)
  PROVE  SameSources(d, c)
BY DEF SameSources

LEMMA SourcesStay ==
  ASSUME NEW c \in Seq(Pieces)
  PROVE  SameSources(c, Arranged(c))
<1> DEFINE a == Arranged(c)
           n == Len(c)
<1>1. /\ a \in Seq(Pieces) /\ Len(a) = n
      /\ \A k \in 1 .. n : k \in Starts(a) <=> At(c)[k] \in Starts(c)
  BY ArrangedIs
<1>2. /\ n \in Nat
      /\ Starts(c) \in SUBSET (1 .. n) /\ Starts(a) \in SUBSET (1 .. n)
      /\ 0 \in Heads(c) /\ 0 \in Heads(a)
  BY <1>1, HeadsAre DEF Heads
<1>3. /\ \A i \in 1 .. n : Place(c, i) \in 1 .. n /\ At(c)[Place(c, i)] = i
      /\ \A i \in 1 .. n : At(c)[i] \in 1 .. n /\ Place(c, At(c)[i]) = i
  BY PlacesAre
<1>4. Section(a, 0) = Section(c, 0) BY <1>2, SectionStays
<1>5. \A s \in Starts(c) : Place(c, s) \in Starts(a) /\ Section(a, Place(c, s)) = Section(c, s)
  <2> TAKE s \in Starts(c)
  <2>1. s \in 1 .. n /\ s # 0 /\ s \in Heads(c) BY <1>2 DEF Heads
  <2>2. Place(c, s) \in 1 .. n /\ Place(c, s) # 0 /\ Place(c, s) \in Starts(a)
    BY <1>1, <1>3, <2>1
  <2>3. Place(c, s) \in Heads(a) BY <2>2 DEF Heads
  <2> QED BY <2>1, <2>2, <2>3, SectionStays
<1>6. \A t \in Starts(a) : At(c)[t] \in Starts(c) /\ Place(c, At(c)[t]) = t
  BY <1>1, <1>2, <1>3
<1> HIDE DEF a, n
<1>7. SectionWords(c) = SectionWords(a)
  <2>1. \A s \in Starts(c) : \E t \in Starts(a) : Words(Section(c, s)) = Words(Section(a, t))
    BY <1>5
  <2>2. \A t \in Starts(a) : \E s \in Starts(c) : Words(Section(a, t)) = Words(Section(c, s))
    BY <1>5, <1>6
  <2> QED BY <2>1, <2>2 DEF SectionWords
<1>8. Cardinality(Starts(c)) = Cardinality(Starts(a))
  <2> DEFINE f == [t \in Starts(a) |-> At(c)[t]]
  <2>1. f \in [Starts(a) -> Starts(c)] BY <1>6
  <2>2. \A t, u \in Starts(a) : f[t] = f[u] => t = u BY <1>6
  <2>3. \A s \in Starts(c) : \E t \in Starts(a) : f[t] = s
    <3> TAKE s \in Starts(c)
    <3>1. Place(c, s) \in Starts(a) /\ f[Place(c, s)] = s BY <1>2, <1>3, <1>5
    <3> QED BY <3>1
  <2> HIDE DEF f
  <2>4. f \in Bijection(Starts(a), Starts(c))
    BY <2>1, <2>2, <2>3 DEF Bijection, Injection, Surjection, IsInjective
  <2>5. ExistsBijection(Starts(a), Starts(c)) BY <2>4 DEF ExistsBijection
  <2>6. IsFiniteSet(Starts(a))
    <3>1. IsFiniteSet(1 .. n) BY <1>2, FS_Interval
    <3> QED BY <1>2, <3>1, FS_Subset
  <2> QED BY <2>5, <2>6, FS_Bijection
<1> QED BY <1>4, <1>7, <1>8 DEF SameSources, a

LEMMA WordsAre ==
  ASSUME NEW c \in Seq(Pieces)
  PROVE  /\ DOMAIN Words(c) = 1 .. Len(c)
         /\ \A i \in 1 .. Len(c) : Words(c)[i] = <<c[i].mark, c[i].id, c[i].text>>
BY HeadsAre DEF Words

LEMMA WordsAgree ==
  ASSUME NEW a \in Seq(Pieces), NEW b \in Seq(Pieces)
  PROVE  /\ Words(a) = Words(b) => Len(a) = Len(b)
         /\ Words(a) = Words(b) <=>
              Len(a) = Len(b) /\ \A i \in 1 .. Len(a) : Words(a)[i] = Words(b)[i]
<1>1. /\ Len(a) \in Nat /\ Len(b) \in Nat
      /\ DOMAIN Words(a) = 1 .. Len(a) /\ DOMAIN Words(b) = 1 .. Len(b)
  BY HeadsAre, WordsAre
<1>2. Words(a) = Words(b) => Len(a) = Len(b) BY <1>1
<1>3. /\ Words(a) = [i \in 1 .. Len(a) |-> Words(a)[i]]
      /\ Words(b) = [i \in 1 .. Len(b) |-> Words(b)[i]]
  BY <1>1 DEF Words
<1>4. ASSUME Len(a) = Len(b), \A i \in 1 .. Len(a) : Words(a)[i] = Words(b)[i]
      PROVE  Words(a) = Words(b)
  <2>1. [i \in 1 .. Len(a) |-> Words(a)[i]] = [i \in 1 .. Len(b) |-> Words(b)[i]] BY <1>4
  <2> QED BY <1>3, <2>1
<1> QED BY <1>2, <1>4

\* Marks are words, so the words of a text tell its sections.
LEMMA SameWords ==
  ASSUME NEW a \in Seq(Pieces), NEW b \in Seq(Pieces), Words(a) = Words(b)
  PROVE  SameSources(a, b)
<1> DEFINE n == Len(a)
<1>1. Len(b) = n /\ \A i \in 1 .. n : Words(a)[i] = Words(b)[i] BY WordsAgree
<1>2. /\ n \in Nat /\ DOMAIN a = 1 .. n /\ DOMAIN b = 1 .. n
  BY <1>1, HeadsAre
<1>3. \A i \in 1 .. n : <<a[i].mark, a[i].id, a[i].text>> = <<b[i].mark, b[i].id, b[i].text>>
  BY <1>1, WordsAre
<1>4. Starts(a) = Starts(b) BY <1>2, <1>3 DEF Starts
<1>5. \A s \in Heads(a) : Words(Section(a, s)) = Words(Section(b, s))
  <2> TAKE s \in Heads(a)
  <2>1. s \in Heads(b) BY <1>4 DEF Heads
  <2>2. EndsAt(a, s, EndOf(a, s)) BY EndIs
  <2>3. EndsAt(b, s, EndOf(a, s)) BY <1>1, <1>4, <2>2 DEF EndsAt
  <2>4. EndOf(b, s) = EndOf(a, s) BY <2>1, <2>3, EndIsUnique
  <2> DEFINE x == Section(a, s)
             y == Section(b, s)
             e == EndOf(a, s)
             p == StartOf(s)
  <2>5. /\ x \in Seq(Pieces) /\ Len(x) = e - p + 1 /\ \A k \in 1 .. Len(x) : x[k] = a[p + k - 1]
        /\ p \in Nat /\ p >= 1 /\ e \in Nat /\ e <= n
    BY SectionIs
  <2>6. y \in Seq(Pieces) /\ Len(y) = e - p + 1 /\ \A k \in 1 .. Len(y) : y[k] = b[p + k - 1]
    BY <2>1, <2>4, SectionIs
  <2> HIDE DEF x, y, e, p
  <2>7. \A k \in 1 .. Len(x) : Words(x)[k] = Words(y)[k]
    <3> TAKE k \in 1 .. Len(x)
    <3>1. p + k - 1 \in 1 .. n /\ k \in 1 .. Len(y) BY <1>2, <2>5, <2>6
    <3>2. x[k] = a[p + k - 1] /\ y[k] = b[p + k - 1] BY <2>5, <2>6, <3>1
    <3>3. Words(x)[k] = <<x[k].mark, x[k].id, x[k].text>>
          /\ Words(y)[k] = <<y[k].mark, y[k].id, y[k].text>>
      BY <2>5, <2>6, <3>1, WordsAre
    <3> QED BY <1>3, <3>1, <3>2, <3>3
  <2>8. Words(x) = Words(y)
    <3>1. Len(x) = Len(y) BY <2>5, <2>6
    <3> QED BY <2>5, <2>6, <2>7, <3>1, WordsAgree
  <2> QED BY <2>8 DEF x, y
<1>6. SectionWords(a) = SectionWords(b) BY <1>4, <1>5 DEF SectionWords, Heads
<1>7. Words(Section(a, 0)) = Words(Section(b, 0)) BY <1>5 DEF Heads
<1> QED BY <1>4, <1>6, <1>7 DEF SameSources

LEMMA SameCanonical ==
  ASSUME NEW c \in Seq(Pieces), NEW d \in Seq(Pieces),
         Canonicalize("document", c) = Canonicalize("document", d)
  PROVE  SameSources(c, d)
<1>1. /\ Arranged(c) \in Seq(Pieces) /\ Canonicalize("document", c) = Words(Arranged(c))
      /\ Arranged(d) \in Seq(Pieces) /\ Canonicalize("document", d) = Words(Arranged(d))
  BY ArrangedIs
<1>2. SameSources(Arranged(c), Arranged(d)) BY <1>1, SameWords
<1>3. SameSources(c, Arranged(c)) /\ SameSources(d, Arranged(d)) BY SourcesStay
<1>4. SameSources(Arranged(d), d) BY <1>3, SameSourcesSymmetric
<1>5. SameSources(c, Arranged(d)) BY <1>2, <1>3, SameSourcesTransitive
<1> QED BY <1>4, <1>5, SameSourcesTransitive

\* One prefix, one stable prompt, up to the order of a document's sources.
THEOREM PrefixesSeparate == Spec => []PrefixSeparates
<1>1. TypeInv => PrefixSeparates
  <2> SUFFICES ASSUME TypeInv, PrefixOfBody(left) = PrefixOfBody(right)
               PROVE  LET l == Stable(ExtractPromptBlocks(left))
                          r == Stable(ExtractPromptBlocks(right))
                      IN  /\ Len(l) = Len(r)
                          /\ \A i \in DOMAIN l :
                               /\ l[i].kind = r[i].kind
                               /\ IF l[i].kind = "document"
                                  THEN SameSources(l[i].content, r[i].content)
                                  ELSE Words(l[i].content) = Words(r[i].content)
    BY DEF PrefixSeparates
  <2> DEFINE x == ExtractPromptBlocks(left)
             y == ExtractPromptBlocks(right)
             l == Stable(x)
             r == Stable(y)
  <2>1. x \in Seq(AnyBlock) /\ y \in Seq(AnyBlock) BY ExtractedTyped DEF TypeInv
  <2>2. Prefix(x) = Prefix(y) BY DEF PrefixOfBody
  <2> HIDE DEF x, y
  <2>3. /\ l \in Seq(StableBlock) /\ r \in Seq(StableBlock) /\ Len(l) = Len(r)
        /\ \A i \in 1 .. Len(l) : HashBlock(l[i]) = HashBlock(r[i])
    BY <2>1, <2>2, PrefixIs
  <2> HIDE DEF l, r
  <2>4. /\ DOMAIN l = 1 .. Len(l)
        /\ \A i \in 1 .. Len(l) : l[i] \in StableBlock /\ r[i] \in StableBlock
    BY <2>3, LenProperties, ElementOfSeq
  <2>5. \A i \in DOMAIN l :
          /\ l[i].kind = r[i].kind
          /\ IF l[i].kind = "document" THEN SameSources(l[i].content, r[i].content)
             ELSE Words(l[i].content) = Words(r[i].content)
    <3> TAKE i \in DOMAIN l
    <3>1. l[i].content \in Seq(Pieces) /\ r[i].content \in Seq(Pieces)
      BY <2>4 DEF StableBlock, AnyBlock
    <3>2. /\ l[i].kind = r[i].kind
          /\ Canonicalize(l[i].kind, l[i].content) = Canonicalize(l[i].kind, r[i].content)
      BY <2>3, <2>4 DEF HashBlock
    <3>3. CASE l[i].kind = "document" BY <3>1, <3>2, <3>3, SameCanonical
    <3>4. CASE l[i].kind # "document"
      <4>1. Words(l[i].content) = Words(r[i].content) BY <3>2, <3>4 DEF Canonicalize
      <4> QED BY <3>2, <3>4, <4>1
    <3> QED BY <3>2, <3>3, <3>4
  <2> QED BY <2>3, <2>5 DEF l, r, x, y
<1> QED BY <1>1, Typing, PTL

----------------------------------------------------------------------------
(* The order of sources: arranged, a document has its ids ascending, those *)
(* with a further space ahead of all, and then its words are those of any  *)
(* document of the same sources.  W gives the space that stands at an id.  *)

Spacing == [Nat -> {0, 1}]
KeyLess(W, i, j) == W[i] > W[j] \/ (W[i] = W[j] /\ i < j)

SpacedBy(content, W) == \A s \in Starts(content) : content[s].pad = W[content[s].id]
Ascending(content, W) ==
  \A s, t \in Starts(content) : s < t => KeyLess(W, content[s].id, content[t].id)

LEMMA KeyOrder ==
  ASSUME NEW W \in Spacing, NEW i \in Nat, NEW j \in Nat, KeyLess(W, i, j)
  PROVE  i # j /\ ~ KeyLess(W, j, i)
<1>1. W[i] \in Int /\ W[j] \in Int BY DEF Spacing
<1> QED BY <1>1 DEF KeyLess

LEMMA PieceIs ==
  ASSUME NEW c \in Seq(Pieces), NEW s \in 1 .. Len(c)
  PROVE  c[s].id \in Nat /\ c[s].pad \in {0, 1}
<1>1. c[s] \in Pieces BY HeadsAre
<1> QED BY <1>1 DEF Pieces, PiecesOf

LEMMA PairsPlace ==
  ASSUME NEW c \in Seq(Pieces), NEW i \in 1 .. Len(c), NEW j \in 1 .. Len(c),
         Place(c, i) < Place(c, j)
  PROVE  <<i, j>> \in PiecePairs(c)
<1> DEFINE I == 1 .. Len(c)
           R == PiecePairs(c)
<1>1. Len(c) \in Nat /\ DOMAIN c = I BY HeadsAre
<1>2. IsFiniteSet(I) /\ TotalOrder(I, R) BY <1>1, FS_Interval, PiecesAreOrdered
<1>3. Place(c, i) \in Nat /\ Place(c, j) \in Nat BY PlacesAre
<1>4. i # j BY <1>3
<1>5. <<i, j>> \in R \/ <<j, i>> \in R
  <2> HIDE DEF I, R
  <2>1. i \in I /\ j \in I BY DEF I
  <2> QED BY <1>2, <1>4, <2>1 DEF TotalOrder
<1>6. ASSUME <<j, i>> \in R PROVE FALSE
  <2>1. Rank(I, R, j) < Rank(I, R, i) BY <1>2, <1>6, RankMonotonic
  <2>2. Place(c, i) = Rank(I, R, i) + 1 /\ Place(c, j) = Rank(I, R, j) + 1 BY <1>1 DEF Place
  <2>3. Rank(I, R, i) \in Int /\ Rank(I, R, j) \in Int BY <1>2, RankBounds
  <2> HIDE DEF R, I
  <2> QED BY <2>1, <2>2, <2>3
<1> QED BY <1>5, <1>6

LEMMA DistinctSortByKey ==
  ASSUME NEW c \in Seq(Pieces), NEW W \in Spacing, SpacedBy(c, W),
         NEW s \in Starts(c), NEW t \in Starts(c),
         c[s].id # c[t].id, SortsFirst(c, s, t)
  PROVE  KeyLess(W, c[s].id, c[t].id)
<1> DEFINE a == Section(c, s)
           b == Section(c, t)
<1>1. s \in 1 .. Len(c) /\ t \in 1 .. Len(c) /\ s \in Heads(c) /\ t \in Heads(c)
  BY HeadsAre DEF Heads
<1>2. s # 0 /\ t # 0 BY <1>1
<1>3. /\ Len(a) \in Nat /\ Len(a) >= 1 /\ a[1] = c[s]
      /\ Len(b) \in Nat /\ Len(b) >= 1 /\ b[1] = c[t]
  BY <1>1, <1>2, SectionIs, LenProperties
<1>4. Lexicographic(a, b) \/ SameRaw(a, b) BY <1>1, SortsFirstIs
<1> HIDE DEF a, b
<1>5. Raw(a[1]) # Raw(b[1]) BY <1>3 DEF Raw
<1>6. ~ SameRaw(a, b) BY <1>3, <1>5 DEF SameRaw
<1>7. PICK n : PartsAt(a, b, n) BY <1>4, <1>6, LexicographicIs
<1>8. /\ n \in 1 .. Len(b) /\ n <= Len(a) + 1
      /\ \A i \in 1 .. n - 1 : Raw(a[i]) = Raw(b[i])
      /\ n = Len(a) + 1 \/ RawLess(a[n], b[n])
  BY <1>7 DEF PartsAt
<1>9. n = 1
  <2>1. 1 \notin 1 .. n - 1 BY <1>5, <1>8
  <2> QED BY <1>3, <1>8, <2>1
<1>10. RawLess(a[1], b[1]) BY <1>3, <1>8, <1>9
<1>11. c[s].pad > c[t].pad \/ (c[s].pad = c[t].pad /\ c[s].id < c[t].id)
  BY <1>3, <1>10 DEF RawLess
<1>12. c[s].pad = W[c[s].id] /\ c[t].pad = W[c[t].id] BY DEF SpacedBy
<1> QED BY <1>11, <1>12 DEF KeyLess

LEMMA ArrangedAscends ==
  ASSUME NEW c \in Seq(Pieces), DistinctIds(c), NEW W \in Spacing, SpacedBy(c, W)
  PROVE  Ascending(Arranged(c), W)
<1> DEFINE a == Arranged(c)
<1>1. /\ a \in Seq(Pieces) /\ Len(a) = Len(c)
      /\ \A n \in 1 .. Len(c) : a[n] = c[At(c)[n]]
      /\ \A n \in 1 .. Len(c) : n \in Starts(a) <=> At(c)[n] \in Starts(c)
  BY ArrangedIs
<1>2. Starts(a) \in SUBSET (1 .. Len(c)) BY <1>1, HeadsAre
<1> HIDE DEF a
<1>3. SUFFICES ASSUME NEW m \in Starts(a), NEW n \in Starts(a), m < n
               PROVE  KeyLess(W, a[m].id, a[n].id)
  BY DEF Ascending, a
<1> DEFINE s == At(c)[m]
           t == At(c)[n]
<1>4. /\ m \in 1 .. Len(c) /\ n \in 1 .. Len(c)
      /\ s \in Starts(c) /\ t \in Starts(c)
      /\ a[m] = c[s] /\ a[n] = c[t]
  BY <1>1, <1>2
<1>5. Place(c, s) = m /\ Place(c, t) = n BY <1>4, PlacesAre
<1> HIDE DEF s, t
<1>6. s \in 1 .. Len(c) /\ t \in 1 .. Len(c) /\ s # 0 /\ s \in Heads(c) /\ t \in Heads(c)
  BY <1>4, HeadsAre DEF Heads
<1>7. s # t BY <1>3, <1>4, <1>5
<1>8. <<s, t>> \in PiecePairs(c) BY <1>3, <1>5, <1>6, PairsPlace
<1>9. HeadOf(c, s) = s /\ HeadOf(c, t) = t BY <1>4, HeadOfStart
<1>10. <<s, t>> \in SectionPairs(c) BY <1>6, <1>7, <1>8, <1>9, PiecePairsAre
<1>11. SortsFirst(c, s, t) BY <1>6, <1>10, SectionPairsAre
<1>12. c[s].id # c[t].id
  <2>1. \A i \in Starts(c) : i \in DOMAIN c /\ c[i].mark = "exact" BY DEF Starts
  <2> QED BY <1>4, <1>7, <2>1 DEF DistinctIds
<1> QED BY <1>4, <1>11, <1>12, DistinctSortByKey

\* The same words at the first n places.
Upto(a, b, n) == n <= Len(a) /\ n <= Len(b) /\ \A k \in 1 .. n : Words(a)[k] = Words(b)[k]

LEMMA UptoIs ==
  ASSUME NEW a \in Seq(Pieces), NEW b \in Seq(Pieces), NEW n \in Nat, Upto(a, b, n)
  PROVE  /\ Upto(b, a, n)
         /\ \A k \in 1 .. n : /\ k \in 1 .. Len(a) /\ k \in 1 .. Len(b)
                              /\ a[k].mark = b[k].mark /\ a[k].id = b[k].id
                              /\ k \in Starts(a) <=> k \in Starts(b)
<1>1. /\ Len(a) \in Nat /\ DOMAIN a = 1 .. Len(a)
      /\ Len(b) \in Nat /\ DOMAIN b = 1 .. Len(b)
  BY HeadsAre
<1>2. Upto(b, a, n) BY DEF Upto
<1>3. \A k \in 1 .. n : /\ k \in 1 .. Len(a) /\ k \in 1 .. Len(b)
                        /\ a[k].mark = b[k].mark /\ a[k].id = b[k].id
  <2> TAKE k \in 1 .. n
  <2>1. k \in 1 .. Len(a) /\ k \in 1 .. Len(b) BY <1>1 DEF Upto
  <2>2. Words(a)[k] = <<a[k].mark, a[k].id, a[k].text>>
        /\ Words(b)[k] = <<b[k].mark, b[k].id, b[k].text>>
    BY <2>1, WordsAre
  <2>3. Words(a)[k] = Words(b)[k] BY DEF Upto
  <2> QED BY <2>1, <2>2, <2>3
<1>4. \A k \in 1 .. n : k \in Starts(a) <=> k \in Starts(b) BY <1>1, <1>3 DEF Starts
<1> QED BY <1>2, <1>3, <1>4

\* Sections of the same words begin with one id.
LEMMA SameFirst ==
  ASSUME NEW a \in Seq(Pieces), NEW b \in Seq(Pieces), NEW s \in Starts(a), NEW t \in Starts(b),
         Words(Section(a, s)) = Words(Section(b, t))
  PROVE  a[s].id = b[t].id /\ Words(a)[s] = Words(b)[t]
<1>1. s \in 1 .. Len(a) /\ s \in Heads(a) /\ t \in 1 .. Len(b) /\ t \in Heads(b)
  BY HeadsAre DEF Heads
<1> DEFINE x == Section(a, s)
           y == Section(b, t)
<1>2. /\ x \in Seq(Pieces) /\ Len(x) \in Nat /\ Len(x) >= 1 /\ x[1] = a[s]
      /\ y \in Seq(Pieces) /\ Len(y) \in Nat /\ Len(y) >= 1 /\ y[1] = b[t]
  <2>1. s # 0 /\ t # 0 BY <1>1
  <2> QED BY <1>1, <2>1, SectionIs, LenProperties
<1>3. Words(x) = Words(y) OBVIOUS
<1> HIDE DEF x, y
<1>4. /\ Words(x)[1] = <<x[1].mark, x[1].id, x[1].text>>
      /\ Words(y)[1] = <<y[1].mark, y[1].id, y[1].text>>
  <2>1. 1 \in 1 .. Len(x) /\ 1 \in 1 .. Len(y) BY <1>2
  <2> QED BY <1>2, <2>1, WordsAre
<1>5. a[s].mark = b[t].mark /\ a[s].id = b[t].id /\ a[s].text = b[t].text
  BY <1>2, <1>3, <1>4
<1>6. Words(a)[s] = Words(b)[t] BY <1>1, <1>5, WordsAre
<1> QED BY <1>5, <1>6

\* The section of another document with the same words, for each one of this.
LEMMA Counterpart ==
  ASSUME NEW a \in Seq(Pieces), NEW b \in Seq(Pieces), SameSources(a, b), NEW s \in Starts(a)
  PROVE  \E t \in Starts(b) : /\ Words(Section(a, s)) = Words(Section(b, t))
                              /\ a[s].id = b[t].id
                              /\ Words(a)[s] = Words(b)[t]
<1>1. Words(Section(a, s)) \in SectionWords(b) BY DEF SameSources, SectionWords
<1>2. PICK t \in Starts(b) : Words(Section(a, s)) = Words(Section(b, t))
  BY <1>1 DEF SectionWords
<1> QED BY <1>2, SameFirst

\* Two sections with the same words that begin at one place.
LEMMA Inside ==
  ASSUME NEW a \in Seq(Pieces), NEW b \in Seq(Pieces),
         NEW h \in Heads(a), h \in Heads(b), Words(Section(a, h)) = Words(Section(b, h)),
         NEW i \in 1 .. Len(a), HeadOf(a, i) = h
  PROVE  i \in 1 .. Len(b) /\ Words(a)[i] = Words(b)[i] /\ HeadOf(b, i) = h
<1> DEFINE x == Section(a, h)
           y == Section(b, h)
           p == StartOf(h)
           k == i - p + 1
<1>1. i \in Span(a, h) BY InSpan
<1>2. i \in p .. EndOf(a, h) BY <1>1 DEF Span
<1>3. /\ x \in Seq(Pieces) /\ Len(x) = EndOf(a, h) - p + 1
      /\ \A j \in 1 .. Len(x) : x[j] = a[p + j - 1]
      /\ p \in Nat /\ p >= 1 /\ EndOf(a, h) \in Nat
  BY SectionIs
<1>4. /\ y \in Seq(Pieces) /\ Len(y) = EndOf(b, h) - p + 1
      /\ \A j \in 1 .. Len(y) : y[j] = b[p + j - 1]
      /\ EndOf(b, h) \in Nat
  BY SectionIs
<1>5. Words(x) = Words(y) OBVIOUS
<1> HIDE DEF x, y, p
<1>6. Len(x) = Len(y) BY <1>3, <1>4, <1>5, WordsAgree
<1>7. i \in p .. EndOf(b, h) BY <1>2, <1>3, <1>4, <1>6
<1>8. i \in Span(b, h) BY <1>7 DEF Span, p
<1>9. i \in 1 .. Len(b) /\ HeadOf(b, i) = h BY <1>8, InSpan
<1>10. k \in 1 .. Len(x) /\ k \in 1 .. Len(y) /\ p + k - 1 = i BY <1>2, <1>3, <1>6
<1> HIDE DEF k
<1>11. x[k] = a[i] /\ y[k] = b[i] BY <1>3, <1>4, <1>10
<1>12. /\ Words(x)[k] = <<x[k].mark, x[k].id, x[k].text>>
       /\ Words(y)[k] = <<y[k].mark, y[k].id, y[k].text>>
  BY <1>3, <1>4, <1>10, WordsAre
<1>13. a[i].mark = b[i].mark /\ a[i].id = b[i].id /\ a[i].text = b[i].text
  BY <1>5, <1>11, <1>12
<1>14. Words(a)[i] = Words(b)[i] BY <1>9, <1>13, WordsAre
<1> QED BY <1>9, <1>14

LEMMA NextInside ==
  ASSUME NEW a \in Seq(Pieces), NEW b \in Seq(Pieces), SameSources(a, b),
         NEW W \in Spacing, Ascending(b, W), NEW n \in Nat, Upto(a, b, n), n + 1 \in 1 .. Len(a), n + 1 \notin Starts(a)
  PROVE  n + 1 \in 1 .. Len(b) /\ Words(a)[n + 1] = Words(b)[n + 1]
<1> DEFINE i == n + 1
           h == HeadOf(a, i)
<1>1. h \in Heads(a) /\ h <= i /\ h # i /\ h \in Nat
  <2>1. h \in Heads(a) /\ h <= i BY HeadIs
  <2>2. h \in Nat BY <2>1, HeadsAre
  <2>3. h # i BY <2>1 DEF Heads
  <2> QED BY <2>1, <2>2, <2>3
<1> HIDE DEF h
<1>2. h \in Heads(b) /\ Words(Section(a, h)) = Words(Section(b, h))
  <2>1. CASE h = 0 BY <2>1 DEF SameSources, Heads
  <2>2. CASE h # 0
    <3>1. h \in Starts(a) /\ h \in 1 .. n BY <1>1, <2>2 DEF Heads
    <3>2. h \in Starts(b) /\ a[h].id = b[h].id BY <3>1, UptoIs
    <3>3. PICK t \in Starts(b) : Words(Section(a, h)) = Words(Section(b, t)) /\ a[h].id = b[t].id
      BY <3>1, Counterpart
    <3>4. b[h].id \in Nat /\ b[t].id \in Nat /\ h \in Nat /\ t \in Nat
      <4>1. h \in 1 .. Len(b) /\ t \in 1 .. Len(b) BY <3>2, HeadsAre
      <4>2. b[h] \in Pieces /\ b[t] \in Pieces BY <4>1, HeadsAre
      <4>3. \A piece \in Pieces : piece.id \in Nat BY DEF Pieces, PiecesOf
      <4>4. h \in Nat /\ t \in Nat BY <4>1
      <4> QED BY <4>2, <4>3, <4>4
    <3>5. t < h => KeyLess(W, b[t].id, b[h].id) BY <3>2 DEF Ascending
    <3>6. h < t => KeyLess(W, b[h].id, b[t].id) BY <3>2 DEF Ascending
    <3>7. b[t].id = b[h].id BY <3>2, <3>3
    <3>8. ~(t < h) /\ ~(h < t) BY <3>4, <3>5, <3>6, <3>7, KeyOrder
    <3>9. t = h BY <3>4, <3>8
    <3> QED BY <3>2, <3>3, <3>9 DEF Heads
  <2> QED BY <2>1, <2>2
<1>3. i \in 1 .. Len(a) OBVIOUS
<1> HIDE DEF i
<1>4. i \in 1 .. Len(b) /\ Words(a)[i] = Words(b)[i]
  BY <1>1, <1>2, <1>3, Inside DEF h
<1> QED BY <1>4 DEF i

LEMMA NextStart ==
  ASSUME NEW a \in Seq(Pieces), NEW b \in Seq(Pieces), SameSources(a, b),
         NEW W \in Spacing, Ascending(a, W), NEW n \in Nat, Upto(a, b, n), n + 1 \in Starts(a)
  PROVE  \E t \in Starts(b) : /\ t >= n + 1 /\ t \in 1 .. Len(b)
                              /\ a[n + 1].id = b[t].id
                              /\ Words(a)[n + 1] = Words(b)[t]
<1>1. PICK t \in Starts(b) : a[n + 1].id = b[t].id /\ Words(a)[n + 1] = Words(b)[t]
  BY Counterpart
<1>2. t \in 1 .. Len(b) /\ t \in Nat BY HeadsAre
<1>3. ASSUME ~(t >= n + 1) PROVE FALSE
  <2>1. t \in 1 .. n /\ t < n + 1 BY <1>2, <1>3
  <2>2. t \in Starts(a) /\ a[t].id = b[t].id BY <2>1, UptoIs
  <2>3. KeyLess(W, a[t].id, a[n + 1].id) BY <2>1, <2>2 DEF Ascending
  <2>4. a[t].id \in Nat /\ a[n + 1].id \in Nat
    <3>1. t \in 1 .. Len(a) /\ n + 1 \in 1 .. Len(a) BY <2>2, HeadsAre
    <3> QED BY <3>1, PieceIs
  <2>5. a[t].id # a[n + 1].id BY <2>3, <2>4, KeyOrder
  <2> QED BY <1>1, <2>2, <2>5
<1> QED BY <1>1, <1>2, <1>3

LEMMA NextWord ==
  ASSUME NEW a \in Seq(Pieces), NEW b \in Seq(Pieces), SameSources(a, b),
         NEW W \in Spacing, Ascending(a, W), Ascending(b, W), NEW n \in Nat, Upto(a, b, n), n + 1 \in 1 .. Len(a)
  PROVE  n + 1 \in 1 .. Len(b) /\ Words(a)[n + 1] = Words(b)[n + 1]
<1> DEFINE i == n + 1
<1>1. SameSources(b, a) /\ Upto(b, a, n) BY SameSourcesSymmetric, UptoIs
<1>2. CASE i \notin Starts(a) BY <1>2, NextInside
<1>3. CASE i \in Starts(a)
  <2>1. PICK t \in Starts(b) : /\ t >= i /\ t \in 1 .. Len(b)
                               /\ a[i].id = b[t].id /\ Words(a)[i] = Words(b)[t]
    BY <1>3, NextStart
  <2>2. Len(b) \in Nat BY HeadsAre
  <2>3. i \in 1 .. Len(b) BY <2>1, <2>2
  <2>4. CASE i \notin Starts(b) BY <1>1, <2>3, <2>4, NextInside
  <2>5. CASE i \in Starts(b)
    <3>1. PICK u \in Starts(a) : u >= i /\ u \in 1 .. Len(a) /\ b[i].id = a[u].id
      BY <1>1, <2>5, NextStart
    <3>2. a[i].id \in Nat /\ a[u].id \in Nat /\ b[i].id \in Nat /\ b[t].id \in Nat
      <4>1. a[i] \in Pieces /\ a[u] \in Pieces /\ b[i] \in Pieces /\ b[t] \in Pieces
        BY <2>1, <2>3, <3>1, HeadsAre
      <4> QED BY <4>1 DEF Pieces, PiecesOf
    <3>3. u > i => KeyLess(W, a[i].id, a[u].id) BY <1>3, <3>1 DEF Ascending
    <3>4. t > i => KeyLess(W, b[i].id, b[t].id) BY <2>1, <2>5 DEF Ascending
    <3>5. u > i /\ t > i => FALSE
      <4> SUFFICES ASSUME u > i, t > i PROVE FALSE OBVIOUS
      <4>1. KeyLess(W, b[t].id, b[i].id) BY <2>1, <3>1, <3>3
      <4>2. ~ KeyLess(W, b[i].id, b[t].id) BY <3>2, <4>1, KeyOrder
      <4> QED BY <3>4, <4>2
    <3>6. u = i => b[i].id = b[t].id BY <2>1, <3>1
    <3>7. t > i => b[i].id # b[t].id BY <3>2, <3>4, KeyOrder
    <3>8. t \in Nat /\ u \in Nat /\ i \in Nat BY <2>1, <3>1
    <3>9. t = i BY <2>1, <3>1, <3>5, <3>6, <3>7, <3>8
    <3> QED BY <2>1, <2>3, <3>9
  <2> QED BY <2>4, <2>5
<1> QED BY <1>2, <1>3

LEMMA AscendingSame ==
  ASSUME NEW a \in Seq(Pieces), NEW b \in Seq(Pieces), SameSources(a, b),
         NEW W \in Spacing, Ascending(a, W), Ascending(b, W)
  PROVE  Words(a) = Words(b)
<1> DEFINE S == {n \in Nat : n <= Len(a) \/ n <= Len(b) => Upto(a, b, n)}
<1>1. Len(a) \in Nat /\ Len(b) \in Nat BY HeadsAre
<1>2. 0 \in S
  <2>1. \A k \in 1 .. 0 : FALSE OBVIOUS
  <2>2. Upto(a, b, 0) BY <1>1, <2>1 DEF Upto
  <2> QED BY <2>2
<1>3. \A n \in Nat : n \in S => n + 1 \in S
  <2> SUFFICES ASSUME NEW n \in Nat, n \in S, n + 1 <= Len(a) \/ n + 1 <= Len(b)
               PROVE  Upto(a, b, n + 1)
    OBVIOUS
  <2>1. Upto(a, b, n) BY <1>1
  <2> HIDE DEF S
  <2>2. SameSources(b, a) /\ Upto(b, a, n) BY <2>1, SameSourcesSymmetric, UptoIs
  <2>3. /\ n + 1 \in 1 .. Len(a) /\ n + 1 \in 1 .. Len(b)
        /\ Words(a)[n + 1] = Words(b)[n + 1]
    <3>1. CASE n + 1 <= Len(a)
      <4>1. n + 1 \in 1 .. Len(a) BY <1>1, <3>1
      <4> QED BY <2>1, <4>1, NextWord
    <3>2. CASE n + 1 <= Len(b)
      <4>1. n + 1 \in 1 .. Len(b) BY <1>1, <3>2
      <4> QED BY <2>2, <4>1, NextWord
    <3> QED BY <3>1, <3>2
  <2>4. \A k \in 1 .. n + 1 : k \in 1 .. n \/ k = n + 1 OBVIOUS
  <2>5. n + 1 <= Len(a) /\ n + 1 <= Len(b) BY <2>3
  <2> QED BY <2>1, <2>3, <2>4, <2>5 DEF Upto
<1>4. Nat \subseteq S
  <2> HIDE DEF S
  <2> QED BY <1>2, <1>3, NatSets
<1>5. Upto(a, b, Len(a)) /\ Upto(a, b, Len(b)) BY <1>1, <1>4
<1> HIDE DEF S
<1>6. Len(a) = Len(b) /\ \A k \in 1 .. Len(a) : Words(a)[k] = Words(b)[k]
  BY <1>1, <1>5 DEF Upto
<1> QED BY <1>6, WordsAgree

\* Of distinct ids and the same spaced sections, one spacing is that of both.
LEMMA SpacingIs ==
  ASSUME NEW c \in Seq(Pieces), NEW d \in Seq(Pieces), DistinctIds(c),
         SpacedSections(c) = SpacedSections(d)
  PROVE  \E W \in Spacing : SpacedBy(c, W) /\ SpacedBy(d, W)
<1> DEFINE Wide(i) == \E s \in Starts(c) : c[s].id = i /\ c[s].pad = 1
           W == [i \in Nat |-> IF Wide(i) THEN 1 ELSE 0]
<1>1. W \in Spacing BY DEF Spacing
<1>2. \A s \in Starts(c) : /\ s \in 1 .. Len(c) /\ s \in DOMAIN c /\ c[s].mark = "exact"
                            /\ c[s].id \in Nat /\ c[s].pad \in {0, 1}
  <2> TAKE s \in Starts(c)
  <2>1. s \in DOMAIN c /\ c[s].mark = "exact" BY DEF Starts
  <2>2. s \in 1 .. Len(c) BY HeadsAre
  <2> QED BY <2>1, <2>2, PieceIs
<1>3. \A s \in Starts(c) : c[s].pad = W[c[s].id]
  <2> TAKE s \in Starts(c)
  <2>1. CASE c[s].pad = 1 BY <1>2, <2>1
  <2>2. CASE c[s].pad = 0
    <3>1. \A t \in Starts(c) : c[t].id = c[s].id => t = s BY <1>2 DEF DistinctIds
    <3>2. ~ Wide(c[s].id) BY <2>2, <3>1
    <3> HIDE DEF Wide
    <3> QED BY <1>2, <2>2, <3>2
  <2> QED BY <1>2, <2>1, <2>2
<1>4. \A t \in Starts(d) : d[t].pad = W[d[t].id]
  <2> TAKE t \in Starts(d)
  <2>1. <<d[t].pad, Words(Section(d, t))>> \in SpacedSections(c) BY DEF SpacedSections
  <2>2. PICK s \in Starts(c) : <<c[s].pad, Words(Section(c, s))>> = <<d[t].pad, Words(Section(d, t))>>
    BY <2>1 DEF SpacedSections
  <2>3. c[s].pad = d[t].pad /\ Words(Section(c, s)) = Words(Section(d, t)) BY <2>2
  <2>4. c[s].id = d[t].id BY <2>3, SameFirst
  <2> HIDE DEF W
  <2> QED BY <1>3, <2>3, <2>4
<1> HIDE DEF W
<1> QED BY <1>1, <1>3, <1>4 DEF SpacedBy

LEMMA SourcesInAnyOrder ==
  ASSUME NEW c \in Seq(Pieces), NEW d \in Seq(Pieces), DistinctIds(c), DistinctIds(d),
         SameSources(c, d), SpacedSections(c) = SpacedSections(d)
  PROVE  Canonicalize("document", c) = Canonicalize("document", d)
<1>1. /\ Arranged(c) \in Seq(Pieces) /\ Canonicalize("document", c) = Words(Arranged(c))
      /\ Arranged(d) \in Seq(Pieces) /\ Canonicalize("document", d) = Words(Arranged(d))
  BY ArrangedIs
<1>2. SameSources(c, Arranged(c)) /\ SameSources(d, Arranged(d)) BY SourcesStay
<1>3. SameSources(Arranged(c), c) BY <1>2, SameSourcesSymmetric
<1>4. SameSources(Arranged(c), d) BY <1>3, SameSourcesTransitive
<1>5. SameSources(Arranged(c), Arranged(d)) BY <1>2, <1>4, SameSourcesTransitive
<1>6. PICK W \in Spacing : SpacedBy(c, W) /\ SpacedBy(d, W) BY SpacingIs
<1>7. Ascending(Arranged(c), W) /\ Ascending(Arranged(d), W) BY <1>6, ArrangedAscends
<1> QED BY <1>1, <1>5, <1>7, AscendingSame

LEMMA OneStableBlock ==
  ASSUME NEW blocks \in Seq(AnyBlock), Len(blocks) = 1, blocks[1].kind = "document"
  PROVE  Prefix(blocks) = [i \in 1 .. 1 |-> HashBlock(blocks[1])]
<1>1. blocks[1] \in StableBlock
  <2>1. 1 \in 1 .. Len(blocks) OBVIOUS
  <2>2. blocks[1] \in AnyBlock BY <2>1, ElementOfSeq
  <2> QED BY <2>2 DEF StableBlock, IsCacheable
<1>2. blocks \in Seq(StableBlock) /\ DOMAIN blocks = 1 .. 1
  <2>1. DOMAIN blocks = 1 .. 1 /\ blocks \in [1 .. 1 -> AnyBlock] BY LenProperties
  <2>2. \A i \in 1 .. 1 : blocks[i] \in StableBlock BY <1>1
  <2>3. blocks = [i \in 1 .. 1 |-> blocks[i]] BY <2>1
  <2>4. [i \in 1 .. 1 |-> blocks[i]] \in Seq(StableBlock) BY <2>2, IsASeq
  <2> QED BY <2>1, <2>3, <2>4
<1>3. StableAt(blocks) = DOMAIN blocks BY <1>1, <1>2 DEF StableAt, StableBlock
<1>4. Stable(blocks) = blocks
  <2>1. Chosen(blocks, DOMAIN blocks) = blocks BY ChosenAll
  <2> QED BY <1>3, <2>1 DEF Stable, StableAt
<1> QED BY <1>2, <1>4 DEF Prefix

\* Documents of the same sources, in any order, have one prefix.
THEOREM SourceOrderIsIgnored == Spec => []SourceOrderIgnored
<1>1. TypeInv => SourceOrderIgnored
  <2> SUFFICES ASSUME TypeInv, left.format = "native", Len(left.items) = 1,
                      Len(right.items) = 1,
                      left.items[1].kind = "document", right.items[1].kind = "document",
                      DistinctIds(left.items[1].content), DistinctIds(right.items[1].content),
                      SameSources(left.items[1].content, right.items[1].content),
                      SpacedSections(left.items[1].content)
                        = SpacedSections(right.items[1].content)
               PROVE  PrefixOfBody(left) = PrefixOfBody(right)
    BY DEF SourceOrderIgnored
  <2>1. /\ left.items \in Seq(AnyBlock) /\ right.items \in Seq(AnyBlock)
        /\ right.format = "native"
    BY ItemsTyped DEF TypeInv
  <2>2. left.items[1] \in AnyBlock /\ right.items[1] \in AnyBlock BY <2>1, ElementOfSeq
  <2>3. left.items[1].content \in Seq(Pieces) /\ right.items[1].content \in Seq(Pieces)
    BY <2>2 DEF AnyBlock
  <2>4. Canonicalize("document", left.items[1].content)
          = Canonicalize("document", right.items[1].content)
    BY <2>3, SourcesInAnyOrder
  <2>5. HashBlock(left.items[1]) = HashBlock(right.items[1]) BY <2>4 DEF HashBlock
  <2>6. Prefix(left.items) = Prefix(right.items) BY <2>1, <2>5, OneStableBlock
  <2> QED BY <2>1, <2>6 DEF PrefixOfBody, ExtractPromptBlocks
<1> QED BY <1>1, Typing, PTL
=============================================================================
