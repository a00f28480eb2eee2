----------------------- MODULE ProviderAdapterProofs -----------------------
(***************************************************************************)
(* Theorems of ProviderAdapter, for any bodies of the types PromptPrefix   *)
(* assumes, however long: where cache points go, by what PromptPrefixProofs *)
(* knows of the kept blocks.                                               *)
(***************************************************************************)
EXTENDS ProviderAdapter, PromptPrefixProofs

LEMMA BreakpointIs ==
  ASSUME NEW format \in Formats, format # "native", NEW body \in Bodies(format)
  PROVE  /\ Len(Kept(body)) \in Nat
         /\ Breakpoint(ExtractPromptBlocks(body)) = Len(Kept(body))
<1> DEFINE n == Len(Kept(body))
           T == 1 .. n \cup {0}
<1>1. n \in Nat BY KeptIs, LenProperties
<1>2. Breakpoint(ExtractPromptBlocks(body)) = Max(T) BY KeptIs DEF Breakpoint, StableAt
<1> HIDE DEF n
<1>3. T \in SUBSET Nat /\ T # {} /\ \A y \in T : y <= n BY <1>1
<1>4. Max(T) \in T /\ \A y \in T : y <= Max(T)
  <2> HIDE DEF T
  <2> QED BY <1>1, <1>3, MaxIs
<1>5. n \in T BY <1>1
<1>6. Max(T) = n BY <1>1, <1>3, <1>4, <1>5
<1> QED BY <1>1, <1>2, <1>6 DEF n

\* Of an OpenAI body, what is kept is the named messages and one block at most.
LEMMA KeptCount ==
  ASSUME NEW body \in Bodies("openai")
  PROVE  /\ Cardinality(NamedAt(body)) \in Nat /\ Cardinality(SpokenAt(body)) \in Nat
         /\ Len(Kept(body)) =
              Cardinality(NamedAt(body)) + (IF Cardinality(SpokenAt(body)) > 1 THEN 1 ELSE 0)
<1>1. "openai" \in Formats /\ body.format = "openai" /\ body.items \in Seq(Message)
  BY ItemsTyped DEF Formats
<1>2. NamedAt(body) \in SUBSET DOMAIN body.items /\ SpokenAt(body) \in SUBSET DOMAIN body.items
  BY DEF NamedAt, SpokenAt
<1>3. /\ Cardinality(NamedAt(body)) \in Nat
      /\ Chosen(body.items, NamedAt(body)) \in Seq(Message)
      /\ Len(Chosen(body.items, NamedAt(body))) = Cardinality(NamedAt(body))
  BY <1>1, <1>2, ChosenIs
<1>4. /\ Cardinality(SpokenAt(body)) \in Nat
      /\ Len(Chosen(body.items, SpokenAt(body))) = Cardinality(SpokenAt(body))
  BY <1>1, <1>2, ChosenIs
<1>5. DOMAIN Leading(body) = 1 .. Cardinality(NamedAt(body))
  <2>1. DOMAIN Chosen(body.items, NamedAt(body)) = 1 .. Cardinality(NamedAt(body))
    BY <1>3, LenProperties
  <2> QED BY <1>1, <2>1 DEF Leading, NamedBlocks
<1>6. Leading(body) \in Seq(StableBlock) BY <1>1, LeadingIs
<1>7. Len(Leading(body)) = Cardinality(NamedAt(body))
  <2>1. Len(Leading(body)) \in Nat /\ DOMAIN Leading(body) = 1 .. Len(Leading(body))
    BY <1>6, LenProperties
  <2> QED BY <1>3, <1>5, <2>1
<1>8. Len(Talk(body)) = Cardinality(SpokenAt(body)) BY <1>1, <1>4 DEF Talk
<1> QED BY <1>1, <1>3, <1>4, <1>7, <1>8, LastKept

\* Named and spoken messages are different ones: there are not more of both than
\* the positions they are among.
LEMMA BothCount ==
  ASSUME NEW body \in Bodies("openai"), NEW v \in Nat,
         NamedAt(body) \cup SpokenAt(body) \subseteq 1 .. v
  PROVE  /\ Cardinality(NamedAt(body)) \in Nat /\ Cardinality(SpokenAt(body)) \in Nat
         /\ Cardinality(NamedAt(body)) + Cardinality(SpokenAt(body)) <= v
         /\ SpokenAt(body) # {} => Cardinality(SpokenAt(body)) > 0
<1> DEFINE N == NamedAt(body)
           S == SpokenAt(body)
<1>1. N \cap S = {} BY DEF NamedAt, SpokenAt, Named, Spoken
<1>2. N \cup S \subseteq 1 .. v OBVIOUS
<1> HIDE DEF N, S
<1>3. IsFiniteSet(1 .. v) /\ Cardinality(1 .. v) = v BY FS_Interval
<1>4. /\ IsFiniteSet(N \cup S) /\ Cardinality(N \cup S) <= v
      /\ IsFiniteSet(N) /\ IsFiniteSet(S)
  <2>1. N \subseteq 1 .. v /\ S \subseteq 1 .. v BY <1>2
  <2> QED BY <1>2, <1>3, <2>1, FS_Subset
<1>5. Cardinality(N) \in Nat /\ Cardinality(S) \in Nat BY <1>4, FS_CardinalityType
<1>6. Cardinality(N \cup S) = Cardinality(N) + Cardinality(S) - Cardinality(N \cap S)
  BY <1>4, FS_Union
<1>7. Cardinality(N \cap S) = 0 BY <1>1, FS_EmptySet
<1>8. S # {} => Cardinality(S) # 0 BY <1>4, FS_EmptySet
<1>9. Cardinality(N) + Cardinality(S) <= v BY <1>4, <1>5, <1>6, <1>7
<1> QED BY <1>5, <1>8, <1>9 DEF N, S

----------------------------------------------------------------------------
(* Role pieces: a serialized conversation has one for each of its messages *)
(* and one that ends it, and its canonical form has as many.               *)

RoleAt(content) == {k \in DOMAIN content : content[k].text \in RoleTexts}

LEMMA SameCount ==
  ASSUME NEW S, NEW T, NEW f \in [S -> T], IsFiniteSet(S),
         \A x, y \in S : f[x] = f[y] => x = y,
         \A t \in T : \E x \in S : f[x] = t
  PROVE  Cardinality(S) = Cardinality(T)
<1>1. f \in Bijection(S, T) BY DEF Bijection, Injection, Surjection, IsInjective
<1>2. ExistsBijection(S, T) BY <1>1 DEF ExistsBijection
<1> QED BY <1>2, FS_Bijection

LEMMA QuotedIs ==
  /\ Messages \subseteq Message
  /\ \A message \in Messages :
       /\ message.content \in Seq(Pieces)
       /\ \A k \in 1 .. Len(message.content) : message.content[k].text \notin RoleTexts
<1> DEFINE A == PiecesOf(Nat \ RoleTexts)
<1>1. A \subseteq Pieces /\ \A piece \in A : piece.text \notin RoleTexts
  BY DEF PiecesOf, Pieces
<1>2. Messages = [role : Roles, content : Seq(A), isString : BOOLEAN] BY DEF Messages
<1> HIDE DEF A
<1>3. Seq(A) \subseteq Seq(Pieces) BY <1>1, SeqMonotonic
<1>4. \A content \in Seq(A) : \A k \in 1 .. Len(content) : content[k].text \notin RoleTexts
  <2> TAKE content \in Seq(A)
  <2> TAKE k \in 1 .. Len(content)
  <2>1. content[k] \in A BY ElementOfSeq
  <2> QED BY <1>1, <2>1
<1> DEFINE B == Seq(A)
           C == Seq(Pieces)
<1>5. B \subseteq C BY <1>3
<1>6. \A content \in B : \A k \in 1 .. Len(content) : content[k].text \notin RoleTexts BY <1>4
<1>7. /\ Messages = [role : Roles, content : B, isString : BOOLEAN]
      /\ Message = [role : Roles, content : C, isString : BOOLEAN]
  BY <1>2 DEF Message
<1> HIDE DEF B
<1>8. \A message \in Messages : message.content \in B BY <1>7
<1>9. \A message \in Messages : message.content \in C BY <1>5, <1>8
<1>10. Messages \subseteq Message
  <2> HIDE DEF C
  <2> QED BY <1>5, <1>7
<1> QED BY <1>6, <1>8, <1>9, <1>10

\* The piece that closes a message.
Close(message) == Piece("none", 0, Closing(message), 0)

LEMMA CloseIs ==
  ASSUME NEW message \in Message
  PROVE  /\ Close(message) \in Pieces
         /\ Close(message).text = Closing(message) /\ Closing(message) \in Nat
         /\ Close(message).text \in RoleTexts /\ Close(message).text # 0
<1>1. Closing(message) \in 1 .. 10 /\ Close(message) \in Pieces BY RolePieces DEF Close
<1>2. Close(message).text = Closing(message) BY DEF Close, Piece
<1> QED BY <1>1, <1>2 DEF RoleTexts

\* The last piece of a message's part closes it, and no other is like that.
LEMMA RoleOfPart ==
  ASSUME NEW message \in Messages
  PROVE  /\ Part(message) \in Seq(Pieces)
         /\ Len(Part(message)) \in Nat /\ Len(Part(message)) > 0
         /\ Part(message)[Len(Part(message))] = Close(message)
         /\ \A k \in 1 .. Len(Part(message)) :
              Part(message)[k].text \in RoleTexts <=> k = Len(Part(message))
<1> DEFINE c == message.content
           p == Close(message)
<1>1. /\ c \in Seq(Pieces) /\ message \in Message
      /\ \A k \in 1 .. Len(c) : c[k].text \notin RoleTexts
  BY QuotedIs
<1>2. p \in Pieces /\ p.text \in RoleTexts BY <1>1, CloseIs
<1>4. Part(message) = Append(c, p) BY DEF Part, Close
<1> HIDE DEF c
<1>5. /\ Append(c, p) \in Seq(Pieces) /\ Len(c) \in Nat /\ Len(Append(c, p)) = Len(c) + 1
      /\ \A k \in 1 .. Len(c) : Append(c, p)[k] = c[k]
      /\ Append(c, p)[Len(c) + 1] = p
  BY <1>1, <1>2, AppendProperties, LenProperties
<1>6. ASSUME NEW k \in 1 .. Len(c) + 1
      PROVE  Append(c, p)[k].text \in RoleTexts <=> k = Len(c) + 1
  <2>1. CASE k = Len(c) + 1 BY <1>2, <1>5, <2>1
  <2>2. CASE k # Len(c) + 1
    <3>1. k \in 1 .. Len(c) BY <1>5, <2>2
    <3> QED BY <1>1, <1>5, <2>2, <3>1
  <2> QED BY <2>1, <2>2
<1> QED BY <1>4, <1>5, <1>6

\* Ends of parts are where role pieces stand.
RoleEnds(s, e, messages, n) ==
  /\ \A i \in 1 .. n : e[i] \in DOMAIN s /\ s[e[i]] = Close(messages[i])
  /\ \A k \in DOMAIN s : s[k].text \in RoleTexts => \E i \in 1 .. n : e[i] = k

LEMMA PartsOfQuoted ==
  ASSUME NEW messages \in Seq(Messages), NEW n \in Nat, n = Len(messages)
  PROVE  /\ messages \in Seq(Message)
         /\ Parts(messages) \in Seq(Seq(Pieces)) /\ Len(Parts(messages)) = n
         /\ \A i \in 1 .. n :
              /\ messages[i] \in Message
              /\ Len(Parts(messages)[i]) \in Nat /\ Len(Parts(messages)[i]) > 0
              /\ Parts(messages)[i][Len(Parts(messages)[i])] = Close(messages[i])
              /\ \A k \in 1 .. Len(Parts(messages)[i]) :
                   Parts(messages)[i][k].text \in RoleTexts <=> k = Len(Parts(messages)[i])
<1>1. messages \in Seq(Message) BY QuotedIs, SeqMonotonic
<1>2. Parts(messages) \in Seq(Seq(Pieces)) /\ Len(Parts(messages)) = n BY <1>1, PartsTyped
<1>3. ASSUME NEW i \in 1 .. n
      PROVE  /\ messages[i] \in Message
             /\ Len(Parts(messages)[i]) \in Nat /\ Len(Parts(messages)[i]) > 0
             /\ Parts(messages)[i][Len(Parts(messages)[i])] = Close(messages[i])
             /\ \A k \in 1 .. Len(Parts(messages)[i]) :
                  Parts(messages)[i][k].text \in RoleTexts <=> k = Len(Parts(messages)[i])
  <2>1. messages[i] \in Messages BY ElementOfSeq
  <2>2. Parts(messages)[i] = Part(messages[i]) BY <1>1, PartsLengths
  <2>3. messages[i] \in Message BY <2>1, QuotedIs
  <2> QED BY <2>1, <2>2, <2>3, RoleOfPart
<1> QED BY <1>1, <1>2, <1>3

LEMMA RolesOfParts ==
  ASSUME NEW messages \in Seq(Messages), NEW n \in Nat, n = Len(messages)
  PROVE  \E e \in [0 .. n -> Nat] :
           /\ e[n] = Len(FlattenSeq(Parts(messages)))
           /\ \A i, j \in 0 .. n : i < j => e[i] < e[j]
           /\ RoleEnds(FlattenSeq(Parts(messages)), e, messages, n)
<1> DEFINE P == Parts(messages)
           F == FlattenSeq(P)
<1>1. P \in Seq(Seq(Pieces)) /\ Len(P) = n BY PartsOfQuoted
<1>2. \A i \in 1 .. n : Len(P[i]) \in Nat /\ Len(P[i]) > 0 BY PartsOfQuoted
<1>3. \A i \in 1 .. n : \A k \in 1 .. Len(P[i]) : P[i][k].text \in RoleTexts <=> k = Len(P[i])
  BY PartsOfQuoted
<1>14. \A i \in 1 .. n : P[i][Len(P[i])] = Close(messages[i]) BY PartsOfQuoted
<1> HIDE DEF P
<1>4. F \in Seq(Pieces) BY <1>1, FlattenIs
<1>5. PICK e \in [0 .. n -> Nat] :
        e[0] = 0 /\ e[n] = Len(F) /\ Ends(e, P, n) /\ Holds(F, e, P, n)
  BY <1>1, FlattenIs
<1>6. \A i, j \in 0 .. n : i < j => e[i] < e[j] BY <1>2, <1>5, EndsGrow
<1>7. Len(F) \in Nat /\ DOMAIN F = 1 .. Len(F) BY <1>4, LenProperties
<1> HIDE DEF F
<1>8. \A i \in 1 .. n : /\ e[i - 1] \in Nat /\ e[i] \in Nat
                        /\ e[i] = e[i - 1] + Len(P[i])
                        /\ HoldsAt(F, e[i - 1], P[i], Len(P[i]))
  <2> TAKE i \in 1 .. n
  <2>1. i - 1 \in 0 .. n /\ i \in 0 .. n OBVIOUS
  <2> QED BY <1>5, <2>1 DEF Ends, Holds
<1>9. \A i \in 1 .. n : e[i] >= 1 /\ e[i] <= e[n]
  <2> TAKE i \in 1 .. n
  <2>1. i \in 0 .. n /\ n \in 0 .. n /\ (i < n \/ i = n) OBVIOUS
  <2>2. i < n => e[i] < e[n] BY <1>6, <2>1
  <2>3. e[n] \in Nat /\ Len(P[i]) \in Nat /\ Len(P[i]) > 0 BY <1>2, <2>1
  <2> QED BY <1>8, <2>1, <2>2, <2>3
<1>10. \A i \in 1 .. n : e[i] \in DOMAIN F /\ F[e[i]] = Close(messages[i])
  <2> TAKE i \in 1 .. n
  <2> DEFINE l == Len(P[i])
  <2>1. l \in Nat /\ l > 0 /\ e[i] = e[i - 1] + l BY <1>2, <1>8
  <2>2. l \in 1 .. l BY <2>1
  <2>3. F[e[i - 1] + l] = P[i][l] BY <1>8, <2>2 DEF HoldsAt
  <2>4. P[i][l] = Close(messages[i]) BY <1>14
  <2>5. e[i] \in 1 .. Len(F) BY <1>5, <1>7, <1>8, <1>9
  <2> HIDE DEF l
  <2> QED BY <1>7, <2>1, <2>3, <2>4, <2>5
<1>11. ASSUME NEW k \in DOMAIN F, F[k].text \in RoleTexts
       PROVE  \E i \in 1 .. n : e[i] = k
  <2> DEFINE T == {i \in 1 .. n : k <= e[i]}
  <2>1. k \in Nat /\ k >= 1 /\ k <= e[n] BY <1>5, <1>7
  <2>2. n # 0 BY <1>5, <2>1
  <2>3. n \in T BY <2>1, <2>2
  <2>4. T \in SUBSET Nat /\ T # {} BY <2>3
  <2> HIDE DEF T
  <2>5. PICK i \in T : \A j \in T : i <= j BY <2>4, Least
  <2>6. i \in 1 .. n /\ k <= e[i] BY <2>5 DEF T
  <2>7. e[i - 1] < k
    <3>1. CASE i = 1 BY <1>5, <2>1, <3>1
    <3>2. CASE i # 1
      <4>1. i - 1 \in 1 .. n /\ ~(i <= i - 1) BY <2>6, <3>2
      <4>2. i - 1 \notin T BY <2>5, <4>1
      <4>3. ~(k <= e[i - 1]) BY <4>1, <4>2 DEF T
      <4> QED BY <1>8, <2>1, <2>6, <4>3
    <3> QED BY <3>1, <3>2
  <2> DEFINE m == k - e[i - 1]
  <2>8. m \in 1 .. Len(P[i]) /\ e[i - 1] + m = k
    BY <1>2, <1>8, <2>1, <2>6, <2>7
  <2> HIDE DEF m
  <2>9. F[k] = P[i][m] BY <1>8, <2>6, <2>8 DEF HoldsAt
  <2>10. m = Len(P[i]) BY <1>3, <1>11, <2>6, <2>8, <2>9
  <2>11. e[i] = k BY <1>8, <2>6, <2>8, <2>10
  <2> QED BY <2>6, <2>11
<1>12. RoleEnds(F, e, messages, n) BY <1>10, <1>11 DEF RoleEnds
<1>13. e \in [0 .. n -> Nat] /\ e[n] = Len(F) BY <1>5
<1> QED BY <1>6, <1>12, <1>13 DEF F, P

\* A conversation that ends with this message: 0 stands at its end alone.
ClosedBy(json, message) ==
  LET n == Len(json)
  IN  /\ n > 1 /\ json[n].mark = "none" /\ json[n].text = 0
      /\ json[n - 1] = Close(message)
      /\ \A k \in 1 .. n : json[k].text = 0 => k = n

\* A conversation of n messages has n + 1 role pieces.
LEMMA RolesOfJson ==
  ASSUME NEW messages \in Seq(Messages)
  PROVE  /\ Len(messages) \in Nat /\ Json(messages) \in Seq(Pieces)
         /\ Cardinality(RoleAt(Json(messages))) = Len(messages) + 1
         /\ Len(messages) > 0 => ClosedBy(Json(messages), messages[Len(messages)])
<1> DEFINE n == Len(messages)
           F == FlattenSeq(Parts(messages))
           J == Json(messages)
<1>1. n \in Nat BY LenProperties
<1>2. messages \in Seq(Message) /\ \A i \in 1 .. n : messages[i] \in Message
  BY <1>1, PartsOfQuoted
<1>3. F \in Seq(Pieces) /\ J = F \o Bracket /\ J \in Seq(Pieces) /\ Len(J) = Len(F) + 1
  BY <1>2, JsonTyped
<1>4. PICK e \in [0 .. n -> Nat] :
        e[n] = Len(F) /\ (\A i, j \in 0 .. n : i < j => e[i] < e[j]) /\ RoleEnds(F, e, messages, n)
  BY <1>1, RolesOfParts
<1> HIDE DEF n, F, J
<1>5. /\ Len(F) \in Nat /\ DOMAIN F = 1 .. Len(F) /\ DOMAIN J = 1 .. Len(F) + 1
      /\ \A k \in 1 .. Len(F) : J[k] = F[k]
      /\ J[Len(F) + 1] = Bracket[1]
  <2>1. Bracket \in Seq(Pieces) /\ Len(Bracket) = 1 BY RolePieces
  <2>2. /\ Len(F) \in Nat
        /\ Agree(J, F, Len(F)) /\ HoldsAt(J, Len(F), Bracket, Len(Bracket))
    BY <1>3, <2>1, ConcatIs
  <2>3. 1 \in 1 .. Len(Bracket) BY <2>1
  <2>4. DOMAIN F = 1 .. Len(F) /\ DOMAIN J = 1 .. Len(J) BY <1>3, LenProperties
  <2> QED BY <1>3, <2>2, <2>3, <2>4 DEF Agree, HoldsAt
<1>6. Bracket[1].text \in RoleTexts
  BY DEF Bracket, Piece, RoleText, RoleTexts
<1> DEFINE g == [i \in 1 .. n + 1 |-> IF i = n + 1 THEN Len(F) + 1 ELSE e[i]]
<1>7. \A i \in 1 .. n + 1 : i # n + 1 => i \in 1 .. n /\ i \in 0 .. n BY <1>1
<1>14. \A i \in 1 .. n : e[i] \in 1 .. Len(F) /\ F[e[i]] = Close(messages[i])
  BY <1>4, <1>5 DEF RoleEnds
<1>15. \A i \in 1 .. n : F[e[i]].text \in RoleTexts /\ F[e[i]].text # 0
  BY <1>2, <1>14, CloseIs
<1>8. \A i \in 1 .. n : e[i] \in 1 .. Len(F) /\ F[e[i]].text \in RoleTexts
  BY <1>14, <1>15
<1>9. g \in [1 .. n + 1 -> RoleAt(J)]
  <2>1. Len(F) + 1 \in RoleAt(J) BY <1>5, <1>6 DEF RoleAt
  <2>2. \A i \in 1 .. n : e[i] \in RoleAt(J)
    <3> TAKE i \in 1 .. n
    <3>1. e[i] \in 1 .. Len(F) /\ F[e[i]].text \in RoleTexts BY <1>8
    <3>2. e[i] \in DOMAIN J /\ J[e[i]] = F[e[i]] BY <1>5, <3>1
    <3> QED BY <3>1, <3>2 DEF RoleAt
  <2> QED BY <1>7, <2>1, <2>2
<1>10. \A i, j \in 1 .. n + 1 : g[i] = g[j] => i = j
  <2> SUFFICES ASSUME NEW i \in 1 .. n + 1, NEW j \in 1 .. n + 1, g[i] = g[j] PROVE i = j
    OBVIOUS
  <2>1. i # n + 1 => i \in 0 .. n /\ g[i] = e[i] /\ e[i] \in 1 .. Len(F) BY <1>7, <1>8
  <2>2. j # n + 1 => j \in 0 .. n /\ g[j] = e[j] /\ e[j] \in 1 .. Len(F) BY <1>7, <1>8
  <2>3. (i = n + 1 => g[i] = Len(F) + 1) /\ (j = n + 1 => g[j] = Len(F) + 1) OBVIOUS
  <2> HIDE DEF g
  <2>4. i = n + 1 <=> j = n + 1 BY <1>5, <2>1, <2>2, <2>3
  <2>5. CASE i # n + 1
    <3>1. i \in 0 .. n /\ j \in 0 .. n /\ e[i] = e[j] BY <2>1, <2>2, <2>4, <2>5
    <3>2. i < j => e[i] < e[j] BY <1>4, <3>1
    <3>3. j < i => e[j] < e[i] BY <1>4, <3>1
    <3>4. e[i] \in Nat /\ e[j] \in Nat BY <3>1
    <3> QED BY <1>1, <3>1, <3>2, <3>3, <3>4
  <2> QED BY <2>4, <2>5
<1>11. \A k \in RoleAt(J) : \E i \in 1 .. n + 1 : g[i] = k
  <2> TAKE k \in RoleAt(J)
  <2>1. k \in 1 .. Len(F) + 1 /\ J[k].text \in RoleTexts BY <1>5 DEF RoleAt
  <2>2. CASE k = Len(F) + 1
    <3>1. n + 1 \in 1 .. n + 1 /\ g[n + 1] = k BY <1>1, <2>2
    <3> QED BY <3>1
  <2>3. CASE k # Len(F) + 1
    <3>1. k \in 1 .. Len(F) BY <1>5, <2>1, <2>3
    <3>2. k \in DOMAIN F /\ F[k].text \in RoleTexts BY <1>5, <2>1, <3>1
    <3>3. PICK i \in 1 .. n : e[i] = k BY <1>4, <3>2 DEF RoleEnds
    <3>4. i \in 1 .. n + 1 /\ i # n + 1 BY <1>1
    <3>5. g[i] = k BY <3>3, <3>4
    <3> HIDE DEF g
    <3> QED BY <3>4, <3>5
  <2> QED BY <2>2, <2>3
<1>12. IsFiniteSet(1 .. n + 1) /\ Cardinality(1 .. n + 1) = n + 1
  <2>1. 1 \in Int /\ n + 1 \in Int BY <1>1
  <2> QED BY <1>1, <2>1, FS_Interval
<1> HIDE DEF g
<1>13. Cardinality(1 .. n + 1) = Cardinality(RoleAt(J))
  <2> DEFINE S == 1 .. n + 1
             R == RoleAt(J)
  <2>1. g \in [S -> R] /\ IsFiniteSet(S) BY <1>9, <1>12
  <2>2. (\A i, j \in S : g[i] = g[j] => i = j) /\ (\A k \in R : \E i \in S : g[i] = k)
    BY <1>10, <1>11
  <2> HIDE DEF S, R
  <2>3. Cardinality(S) = Cardinality(R) BY <2>1, <2>2, SameCount
  <2> QED BY <2>3 DEF S, R
<1>16. ASSUME n > 0 PROVE ClosedBy(J, messages[n])
  <2>1. Bracket[1].mark = "none" /\ Bracket[1].text = 0 BY DEF Bracket, Piece, RoleText
  <2>2. n \in 1 .. n /\ e[n] = Len(F) BY <1>1, <1>4, <1>16
  <2>3. Len(F) \in 1 .. Len(F) /\ F[Len(F)] = Close(messages[n]) BY <1>14, <2>2
  <2>4. /\ Len(J) > 1 /\ Len(J) - 1 = Len(F)
        /\ J[Len(J)].mark = "none" /\ J[Len(J)].text = 0
        /\ J[Len(J) - 1] = Close(messages[n])
    BY <1>3, <1>5, <2>1, <2>3
  <2>5. ASSUME NEW k \in 1 .. Len(J), J[k].text = 0, k # Len(J) PROVE FALSE
    <3>1. k \in 1 .. Len(F) BY <1>3, <1>5, <2>5
    <3>2. k \in DOMAIN F /\ F[k].text = 0 BY <1>5, <2>5, <3>1
    <3>3. PICK i \in 1 .. n : e[i] = k BY <1>4, <3>2 DEF RoleEnds, RoleTexts
    <3> QED BY <1>15, <3>2, <3>3
  <2> QED BY <2>4, <2>5 DEF ClosedBy
<1> QED BY <1>1, <1>3, <1>12, <1>13, <1>16 DEF n, J

\* A document and its canonical form have as many role pieces.
LEMMA RolesStay ==
  ASSUME NEW c \in Seq(Pieces)
  PROVE  Cardinality(RoleAt(Arranged(c))) = Cardinality(RoleAt(c))
<1> DEFINE a == Arranged(c)
           n == Len(c)
           f == [k \in RoleAt(a) |-> At(c)[k]]
<1>1. /\ a \in Seq(Pieces) /\ Len(a) = n
      /\ \A k \in 1 .. n : a[k] = c[At(c)[k]]
  BY ArrangedIs
<1>2. n \in Nat /\ DOMAIN c = 1 .. n /\ DOMAIN a = 1 .. n BY <1>1, LenProperties
<1>3. /\ \A i \in 1 .. n : Place(c, i) \in 1 .. n /\ At(c)[Place(c, i)] = i
      /\ \A i \in 1 .. n : At(c)[i] \in 1 .. n /\ Place(c, At(c)[i]) = i
  BY PlacesAre
<1> HIDE DEF a, n
<1>4. \A k \in 1 .. n : k \in RoleAt(a) <=> At(c)[k] \in RoleAt(c)
  BY <1>1, <1>2, <1>3 DEF RoleAt
<1>5. RoleAt(a) \in SUBSET (1 .. n) /\ RoleAt(c) \in SUBSET (1 .. n) BY <1>2 DEF RoleAt
<1>6. f \in [RoleAt(a) -> RoleAt(c)] BY <1>4, <1>5
<1>7. \A j, k \in RoleAt(a) : f[j] = f[k] => j = k BY <1>3, <1>5
<1>8. \A i \in RoleAt(c) : \E k \in RoleAt(a) : f[k] = i
  <2> TAKE i \in RoleAt(c)
  <2>1. Place(c, i) \in RoleAt(a) BY <1>3, <1>4, <1>5
  <2>2. f[Place(c, i)] = i BY <1>3, <1>5, <2>1
  <2> QED BY <2>1, <2>2
<1>9. IsFiniteSet(RoleAt(a))
  <2>1. IsFiniteSet(1 .. n) BY <1>2, FS_Interval
  <2> QED BY <1>5, <2>1, FS_Subset
<1> HIDE DEF f
<1>10. Cardinality(RoleAt(a)) = Cardinality(RoleAt(c))
  BY <1>6, <1>7, <1>8, <1>9, SameCount
<1> QED BY <1>10 DEF a

LEMMA SameRoles ==
  ASSUME NEW c \in Seq(Pieces), NEW d \in Seq(Pieces),
         Canonicalize("document", c) = Canonicalize("document", d)
  PROVE  Cardinality(RoleAt(c)) = Cardinality(RoleAt(d))
<1> DEFINE a == Arranged(c)
           b == Arranged(d)
<1>1. a \in Seq(Pieces) /\ b \in Seq(Pieces) /\ Words(a) = Words(b) BY ArrangedIs
<1>2. /\ Cardinality(RoleAt(a)) = Cardinality(RoleAt(c))
      /\ Cardinality(RoleAt(b)) = Cardinality(RoleAt(d))
  BY RolesStay
<1> HIDE DEF a, b
<1>3. Len(a) = Len(b) /\ \A k \in 1 .. Len(a) : Words(a)[k] = Words(b)[k]
  BY <1>1, WordsAgree
<1>4. DOMAIN a = 1 .. Len(a) /\ DOMAIN b = 1 .. Len(a) BY <1>1, <1>3, LenProperties
<1>5. \A k \in 1 .. Len(a) : <<a[k].mark, a[k].id, a[k].text>> = <<b[k].mark, b[k].id, b[k].text>>
  BY <1>1, <1>3, WordsAre
<1>6. RoleAt(a) = RoleAt(b) BY <1>4, <1>5 DEF RoleAt
<1> QED BY <1>2, <1>6

\* Conversations of one canonical form end with messages that close alike.
LEMMA SameClose ==
  ASSUME NEW c \in Seq(Pieces), NEW d \in Seq(Pieces),
         Canonicalize("document", c) = Canonicalize("document", d),
         NEW x \in Message, NEW y \in Message, ClosedBy(c, x), ClosedBy(d, y)
  PROVE  Closing(x) = Closing(y)
<1>1. ASSUME NEW u \in Seq(Pieces), NEW z \in Message, ClosedBy(u, z)
      PROVE  \E p \in 1 .. Len(u) :
               /\ p - 1 \in 1 .. Len(u)
               /\ \A k \in 1 .. Len(u) : Arranged(u)[k].text = 0 <=> k = p
               /\ Arranged(u)[p - 1].text = Closing(z)
  <2> DEFINE n == Len(u)
             p == Place(u, n)
  <2>1. /\ n \in Nat /\ n > 1 /\ u[n].mark = "none" /\ u[n].text = 0
        /\ u[n - 1] = Close(z)
        /\ \A k \in 1 .. n : u[k].text = 0 => k = n
    BY <1>1, LenProperties DEF ClosedBy
  <2>2. /\ \A k \in 1 .. n : Arranged(u)[k] = u[At(u)[k]]
        /\ \A k \in 1 .. n : At(u)[k] \in 1 .. n /\ Place(u, At(u)[k]) = k
        /\ \A i \in 1 .. n : Place(u, i) \in 1 .. n /\ At(u)[Place(u, i)] = i
    BY ArrangedIs, PlacesAre
  <2>3. n \notin Starts(u) BY <2>1 DEF Starts
  <2>4. n - 1 \in 1 .. n /\ n \in 1 .. n /\ (n - 1) + 1 = n BY <2>1
  <2>5. Place(u, n) = Place(u, n - 1) + 1
    <3> HIDE DEF n
    <3>1. n - 1 \in 1 .. Len(u) /\ (n - 1) + 1 \in 1 .. Len(u) /\ (n - 1) + 1 \notin Starts(u)
      BY <2>3, <2>4 DEF n
    <3>2. Place(u, (n - 1) + 1) = Place(u, n - 1) + 1 BY <3>1, NextPlace
    <3> QED BY <2>4, <3>2
  <2>6. p \in 1 .. n /\ p - 1 = Place(u, n - 1) /\ p - 1 \in 1 .. n
    <3>1. Place(u, n - 1) \in 1 .. n /\ Place(u, n) \in 1 .. n BY <2>2, <2>4
    <3> QED BY <2>1, <2>5, <3>1
  <2>7. \A k \in 1 .. n : Arranged(u)[k].text = 0 <=> k = p
    <3> TAKE k \in 1 .. n
    <3>1. Arranged(u)[k] = u[At(u)[k]] /\ At(u)[k] \in 1 .. n /\ Place(u, At(u)[k]) = k BY <2>2
    <3>2. At(u)[k] = n => k = p BY <3>1
    <3>3. k = p => At(u)[k] = n BY <2>2, <2>4
    <3> HIDE DEF n, p
    <3> QED BY <2>1, <3>1, <3>2, <3>3
  <2>8. Arranged(u)[p - 1].text = Closing(z)
    <3>1. At(u)[p - 1] = n - 1 BY <2>2, <2>4, <2>6
    <3>2. Arranged(u)[p - 1] = Close(z) BY <2>1, <2>2, <2>6, <3>1
    <3> QED BY <3>2, CloseIs
  <2> HIDE DEF p
  <2> QED BY <2>6, <2>7, <2>8
<1> DEFINE a == Arranged(c)
           b == Arranged(d)
<1>2. /\ a \in Seq(Pieces) /\ b \in Seq(Pieces) /\ Words(a) = Words(b)
      /\ Len(a) = Len(c) /\ Len(b) = Len(d)
  BY ArrangedIs
<1>3. PICK p \in 1 .. Len(c) :
        /\ p - 1 \in 1 .. Len(c)
        /\ \A k \in 1 .. Len(c) : a[k].text = 0 <=> k = p
        /\ a[p - 1].text = Closing(x)
  BY <1>1
<1>4. PICK q \in 1 .. Len(d) :
        /\ q - 1 \in 1 .. Len(d)
        /\ \A k \in 1 .. Len(d) : b[k].text = 0 <=> k = q
        /\ b[q - 1].text = Closing(y)
  BY <1>1
<1> HIDE DEF a, b
<1>5. Len(c) = Len(d) /\ \A k \in 1 .. Len(c) : a[k].text = b[k].text
  <2>1. Len(a) = Len(b) /\ \A k \in 1 .. Len(a) : Words(a)[k] = Words(b)[k]
    BY <1>2, WordsAgree
  <2>2. \A k \in 1 .. Len(a) : <<a[k].mark, a[k].id, a[k].text>> = <<b[k].mark, b[k].id, b[k].text>>
    BY <1>2, <2>1, WordsAre
  <2> QED BY <1>2, <2>1, <2>2
<1>6. p = q BY <1>3, <1>4, <1>5
<1> QED BY <1>3, <1>4, <1>5, <1>6

LEMMA ClosingTells ==
  ASSUME NEW x \in Message, NEW y \in Message, Closing(x) = Closing(y)
  PROVE  x.isString <=> y.isString
<1>1. x.role \in Roles /\ y.role \in Roles /\ x.isString \in BOOLEAN /\ y.isString \in BOOLEAN
  BY DEF Message
<1>2. \A role \in Roles : RoleText[role] \in 1 .. 5 BY DEF Roles, RoleText
<1>3. RoleText[x.role] \in 1 .. 5 /\ RoleText[y.role] \in 1 .. 5 BY <1>1, <1>2
<1>4. CASE x.isString /\ ~ y.isString BY <1>3, <1>4 DEF Closing
<1>5. CASE ~ x.isString /\ y.isString BY <1>3, <1>5 DEF Closing
<1> QED BY <1>4, <1>5

----------------------------------------------------------------------------
(* What is asked last is marked in one case only.                          *)

\* Bedrock's point is on what is asked last only where a system or tool message
\* follows it, or in a native body; Anthropic's never is.
THEOREM TailIsSpared == Spec => []CachePointsStable
<1>1. TypeInv => CachePointsStable
  <2> SUFFICES ASSUME TypeInv, NEW provider \in ProvidersOf(left),
                      Volatile(left) > 0, Volatile(left) \in InjectCacheHeaders(provider, left)
               PROVE  /\ provider = "bedrock"
                      /\ \/ left.format = "native"
                         \/ \E i \in DOMAIN left.items : i > Volatile(left) /\ Named(left.items[i])
    BY DEF CachePointsStable
  <2>1. left.format \in Formats /\ left \in Bodies(left.format) BY DEF TypeInv
  <2>2. provider = "bedrock" \/ provider = "anthropic"
    BY DEF InjectCacheHeaders
  <2>3. ASSUME provider = "anthropic" PROVE FALSE
    <3>1. Volatile(left) = Len(MessagesOf(left)) /\ Len(MessagesOf(left)) \in Nat
      <4>1. CASE left.format = "native"
        <5>1. left.messages \in Seq(Messages) BY <2>1, <4>1 DEF Bodies
        <5> QED BY <4>1, <5>1, LenProperties DEF Volatile, MessagesOf
      <4>2. CASE left.format = "anthropic"
        <5>1. left.items \in Seq(Message) BY <2>1, <4>2, ItemsTyped
        <5> QED BY <4>2, <5>1, LenProperties DEF Volatile, MessagesOf
      <4>3. CASE left.format = "openai" BY <2>3, <4>3 DEF ProvidersOf, Others
      <4> QED BY <2>1, <4>1, <4>2, <4>3 DEF Formats
    <3>2. InjectCacheHeaders(provider, left) \subseteq {0, Len(MessagesOf(left)) - 1}
      BY <2>3 DEF InjectCacheHeaders, InjectAnthropic, HistoryEnd
    <3> QED BY <3>1, <3>2
  <2>4. ASSUME provider = "bedrock", left.format # "native"
        PROVE  \E i \in DOMAIN left.items : i > Volatile(left) /\ Named(left.items[i])
    <3>1. left.format = "openai" BY <2>1, <2>4 DEF ProvidersOf, Formats
    <3>2. left \in Bodies("openai") /\ "openai" \in Formats BY <2>1, <3>1 DEF Formats
    <3> DEFINE v == Volatile(left)
               k == Cardinality(NamedAt(left))
               m == Cardinality(SpokenAt(left))
    <3>3. v \in Nat /\ v > 0 /\ SpokenAt(left) # {} /\ \A i \in SpokenAt(left) : i <= v
      BY <3>2, VolatileIs
    <3>4. v = Len(Kept(left))
      <4>1. Breakpoint(ExtractPromptBlocks(left)) = Len(Kept(left)) BY <2>1, <3>1, BreakpointIs
      <4> QED BY <2>4, <4>1 DEF InjectCacheHeaders, InjectBedrock
    <3>5. k \in Nat /\ m \in Nat /\ Len(Kept(left)) = k + (IF m > 1 THEN 1 ELSE 0)
      BY <3>2, KeptCount
    <3>6. SUFFICES ASSUME ~ \E i \in DOMAIN left.items : i > v /\ Named(left.items[i])
                   PROVE  FALSE
      OBVIOUS
    <3>7. DOMAIN left.items = 1 .. Len(left.items) /\ Len(left.items) \in Nat
      BY <3>1, <3>2, ItemsTyped, LenProperties
    <3>8. NamedAt(left) \cup SpokenAt(left) \subseteq 1 .. v
      <4>1. \A i \in NamedAt(left) : i \in DOMAIN left.items /\ ~(i > v)
        BY <3>6 DEF NamedAt
      <4>2. \A i \in SpokenAt(left) : i \in DOMAIN left.items /\ i <= v
        BY <3>3 DEF SpokenAt
      <4> HIDE DEF v
      <4> QED BY <3>3, <3>7, <4>1, <4>2
    <3>9. k + m <= v /\ m > 0 BY <3>2, <3>3, <3>8, BothCount
    <3> HIDE DEF v, k, m
    <3> QED BY <3>3, <3>4, <3>5, <3>9
  <2> QED BY <2>2, <2>3, <2>4
<1> QED BY <1>1, Typing, PTL

----------------------------------------------------------------------------
(* One prefix, the same cache points.                                      *)

LEMMA AnthropicTalk ==
  ASSUME NEW body \in Bodies("anthropic")
  PROVE  /\ "anthropic" \in Formats /\ body.format = "anthropic"
         /\ Talk(body) = body.items /\ Len(body.items) \in Nat
         /\ Talk(body) \in Seq(Messages) /\ Talk(body) \in Seq(Message)
<1>1. "anthropic" \in Formats /\ "anthropic" # "native" BY DEF Formats
<1>2. body.format = "anthropic" /\ body.items \in Seq(Message) BY <1>1, ItemsTyped
<1>3. body.items \in Seq(ItemTypes("anthropic")) BY DEF Bodies
<1>4. ItemTypes("anthropic") = Messages BY DEF ItemTypes, Messages
<1>5. Talk(body) = body.items BY <1>2 DEF Talk
<1>6. body.items \in Seq(Messages) BY <1>3, <1>4
<1>7. Len(body.items) \in Nat BY <1>2, LenProperties
<1> QED BY <1>1, <1>2, <1>5, <1>6, <1>7

\* What is kept of an Anthropic body: `system`, if it is a string, then `tools`,
\* then the conversation but for its last message.
LEMMA AnthropicKept ==
  ASSUME NEW body \in Bodies("anthropic")
  PROVE  LET n == Len(Kept(body))
         IN  /\ n \in Nat
             /\ n > 0 => (Kept(body)[1].kind = "system" <=> body.systemIsString)
             /\ Len(body.items) >= 2 =>
                  n > 0 /\ Kept(body)[n] = Block("document", Json(Prior(body.items)))
             /\ ~(Len(body.items) >= 2) => \A i \in 1 .. n : Kept(body)[i].kind # "document"
<1> DEFINE n == Len(Kept(body))
           S == IF body.systemIsString THEN <<Block("system", body.system)>> ELSE <<>>
           T == IF body.tools # <<>> THEN <<Block("tools", body.tools)>> ELSE <<>>
           H == History(body.items)
<1>1. /\ "anthropic" \in Formats /\ body.format = "anthropic"
      /\ Talk(body) = body.items /\ Len(body.items) \in Nat /\ body.items \in Seq(Message)
  BY AnthropicTalk
<1>2. body.system \in Seq(Pieces) /\ body.tools \in Seq(Pieces) BY DEF Bodies
<1>3. /\ Block("system", body.system) \in AnyBlock /\ Block("system", body.system).kind = "system"
      /\ Block("tools", body.tools) \in AnyBlock /\ Block("tools", body.tools).kind = "tools"
  BY <1>2, BlockIs DEF Kinds
<1>4. /\ S \in Seq(AnyBlock) /\ Len(S) = IF body.systemIsString THEN 1 ELSE 0
      /\ \A i \in 1 .. Len(S) : S[i].kind = "system"
  <2>1. CASE body.systemIsString
    <3>1. S = <<Block("system", body.system)>> BY <2>1
    <3> QED BY <1>3, <2>1, <3>1, Singleton
  <2>2. CASE ~body.systemIsString
    <3>1. S = <<>> BY <2>2
    <3>2. \A i \in 1 .. 0 : FALSE OBVIOUS
    <3> QED BY <2>2, <3>1, <3>2, EmptySeq
  <2> QED BY <2>1, <2>2
<1>5. /\ T \in Seq(AnyBlock) /\ Len(T) \in {0, 1}
      /\ \A i \in 1 .. Len(T) : T[i].kind = "tools"
  <2>1. CASE body.tools # <<>>
    <3>1. T = <<Block("tools", body.tools)>> BY <2>1
    <3> QED BY <1>3, <2>1, <3>1, Singleton
  <2>2. CASE body.tools = <<>>
    <3>1. T = <<>> BY <2>2
    <3>2. \A i \in 1 .. 0 : FALSE OBVIOUS
    <3> QED BY <3>1, <3>2, EmptySeq
  <2> QED BY <2>1, <2>2
<1>6. /\ H \in Seq(AnyBlock)
      /\ Len(body.items) >= 2 =>
           Len(H) = 1 /\ H[1] = Block("document", Json(Prior(body.items)))
             /\ H[1].kind = "document"
      /\ ~(Len(body.items) >= 2) => Len(H) = 0
  <2>1. StableBlock \subseteq AnyBlock BY DEF StableBlock
  <2>2. H \in Seq(StableBlock) BY <1>1, HistoryIs
  <2>3. H \in Seq(AnyBlock) BY <2>1, <2>2, SeqMonotonic
  <2>4. CASE Len(body.items) >= 2
    <3>1. Len(body.items) > 1 BY <1>1, <2>4
    <3>2. Len(H) = 1 /\ H[1] = Block("document", Json(Prior(body.items)))
      BY <1>1, <3>1, HistoryIs
    <3>3. H[1].kind = "document" BY <3>2 DEF Block
    <3> QED BY <2>3, <2>4, <3>2, <3>3
  <2>5. CASE ~(Len(body.items) >= 2)
    <3>1. ~(Len(body.items) > 1) BY <1>1, <2>5
    <3>2. H = <<>> BY <1>1, <3>1, HistoryIs
    <3> QED BY <2>3, <2>5, <3>2, EmptySeq
  <2> QED BY <2>4, <2>5
<1>7. Kept(body) = (S \o T) \o H BY <1>1 DEF Kept, Leading
<1> HIDE DEF S, T, H
<1> DEFINE L == S \o T
<1>8. /\ L \in Seq(AnyBlock) /\ Len(S) \in Nat /\ Len(T) \in Nat /\ Len(L) = Len(S) + Len(T)
      /\ \A i \in 1 .. Len(S) : L[i] = S[i]
      /\ \A i \in 1 .. Len(T) : L[Len(S) + i] = T[i]
  <2>1. /\ L \in Seq(AnyBlock) /\ Len(S) \in Nat /\ Len(T) \in Nat
        /\ Len(L) = Len(S) + Len(T)
        /\ Agree(L, S, Len(S)) /\ HoldsAt(L, Len(S), T, Len(T))
    BY <1>4, <1>5, ConcatIs
  <2> HIDE DEF L
  <2> QED BY <2>1 DEF Agree, HoldsAt
<1> HIDE DEF L
<1>9. /\ Len(L) \in Nat /\ Len(H) \in Nat /\ n = Len(L) + Len(H)
      /\ \A i \in 1 .. Len(L) : Kept(body)[i] = L[i]
      /\ \A i \in 1 .. Len(H) : Kept(body)[Len(L) + i] = H[i]
  <2>1. Kept(body) = L \o H BY <1>7 DEF L
  <2>2. /\ Len(L) \in Nat /\ Len(H) \in Nat /\ Len(L \o H) = Len(L) + Len(H)
        /\ Agree(L \o H, L, Len(L)) /\ HoldsAt(L \o H, Len(L), H, Len(H))
    BY <1>6, <1>8, ConcatIs
  <2> QED BY <2>1, <2>2 DEF Agree, HoldsAt
<1>10. \A i \in 1 .. Len(L) : /\ i \in 1 .. Len(S) => L[i].kind = "system"
                              /\ i \notin 1 .. Len(S) => L[i].kind = "tools"
  <2> TAKE i \in 1 .. Len(L)
  <2>1. CASE i \in 1 .. Len(S) BY <1>4, <1>8, <2>1
  <2>2. CASE i \notin 1 .. Len(S)
    <3> DEFINE j == i - Len(S)
    <3>1. j \in 1 .. Len(T) /\ Len(S) + j = i BY <1>8, <2>2
    <3> HIDE DEF j
    <3>2. L[i] = T[j] BY <1>8, <3>1
    <3> QED BY <1>5, <2>2, <3>1, <3>2
  <2> QED BY <2>1, <2>2
<1>11. ASSUME n > 0 PROVE Kept(body)[1].kind = "system" <=> body.systemIsString
  <2>1. CASE Len(L) > 0
    <3>1. 1 \in 1 .. Len(L) BY <1>9, <2>1
    <3>2. Kept(body)[1] = L[1] BY <1>9, <3>1
    <3>3. 1 \in 1 .. Len(S) <=> body.systemIsString BY <1>4
    <3> QED BY <1>10, <3>1, <3>2, <3>3
  <2>2. CASE Len(L) = 0
    <3>1. Len(H) # 0 BY <1>9, <1>11, <2>2
    <3>2. Len(H) = 1 /\ H[1].kind = "document" BY <1>6, <3>1
    <3>3. 1 \in 1 .. Len(H) /\ Len(L) + 1 = 1 BY <2>2, <3>2
    <3>4. Kept(body)[1] = H[1] BY <1>9, <3>3
    <3>5. Len(S) = 0
      <4> HIDE DEF n
      <4> QED BY <1>5, <1>8, <2>2
    <3>6. body.systemIsString => Len(S) = 1 BY <1>4
    <3>7. ~body.systemIsString BY <3>5, <3>6
    <3> QED BY <3>2, <3>4, <3>7
  <2> QED BY <1>9, <2>1, <2>2
<1>12. ASSUME Len(body.items) >= 2
       PROVE  n > 0 /\ Kept(body)[n] = Block("document", Json(Prior(body.items)))
  <2>1. Len(H) = 1 /\ H[1] = Block("document", Json(Prior(body.items))) BY <1>6, <1>12
  <2>2. 1 \in 1 .. Len(H) /\ n = Len(L) + 1 BY <1>9, <2>1
  <2>3. Kept(body)[Len(L) + 1] = H[1] BY <1>9, <2>2
  <2> QED BY <1>9, <2>1, <2>2, <2>3
<1>13. ASSUME ~(Len(body.items) >= 2)
       PROVE  \A i \in 1 .. n : Kept(body)[i].kind # "document"
  <2> TAKE i \in 1 .. n
  <2>1. i \in 1 .. Len(L) BY <1>6, <1>9, <1>13
  <2>2. Kept(body)[i] = L[i] BY <1>9, <2>1
  <2> QED BY <1>10, <2>1, <2>2
<1>14. n \in Nat BY <1>9
<1> HIDE DEF n
<1>15. /\ n > 0 => (Kept(body)[1].kind = "system" <=> body.systemIsString)
       /\ Len(body.items) >= 2 =>
            n > 0 /\ Kept(body)[n] = Block("document", Json(Prior(body.items)))
       /\ ~(Len(body.items) >= 2) => \A i \in 1 .. n : Kept(body)[i].kind # "document"
  BY <1>11, <1>12, <1>13
<1> QED BY <1>14, <1>15 DEF n

\* The hash of a kept block is of its kind, and of a document's words.
LEMMA SameKept ==
  ASSUME NEW format \in Formats, format # "native",
         NEW b \in Bodies(format), NEW c \in Bodies(format),
         PrefixOfBody(b) = PrefixOfBody(c)
  PROVE  /\ Len(Kept(b)) = Len(Kept(c))
         /\ \A i \in 1 .. Len(Kept(b)) : HashBlock(Kept(b)[i]) = HashBlock(Kept(c)[i])
<1> DEFINE x == ExtractPromptBlocks(b)
           y == ExtractPromptBlocks(c)
<1>1. x \in Seq(AnyBlock) /\ y \in Seq(AnyBlock) BY ExtractedTyped
<1>2. Stable(x) = Kept(b) /\ Stable(y) = Kept(c) BY KeptIs
<1>3. Prefix(x) = Prefix(y) BY DEF PrefixOfBody
<1> HIDE DEF x, y
<1>4. /\ Len(Prefix(x)) = Len(Stable(x)) /\ Len(Prefix(y)) = Len(Stable(y))
      /\ \A i \in 1 .. Len(Stable(x)) : Prefix(x)[i] = HashBlock(Stable(x)[i])
      /\ \A i \in 1 .. Len(Stable(y)) : Prefix(y)[i] = HashBlock(Stable(y)[i])
  BY <1>1, PrefixIs
<1>5. Len(Kept(b)) = Len(Kept(c)) BY <1>2, <1>3, <1>4
<1>6. \A i \in 1 .. Len(Kept(b)) : HashBlock(Kept(b)[i]) = HashBlock(Kept(c)[i])
  <2> TAKE i \in 1 .. Len(Kept(b))
  <2>1. Prefix(x)[i] = HashBlock(Kept(b)[i]) BY <1>2, <1>4
  <2>2. i \in 1 .. Len(Kept(c)) BY <1>5
  <2>3. Prefix(y)[i] = HashBlock(Kept(c)[i]) BY <1>2, <1>4, <2>2
  <2> QED BY <1>3, <2>1, <2>3
<1> QED BY <1>5, <1>6

\* Conversations with one canonical form are of one length.
LEMMA SameHistory ==
  ASSUME NEW s \in Seq(Messages), NEW t \in Seq(Messages),
         Len(s) > 1, Len(t) > 1,
         HashBlock(Block("document", Json(Prior(s)))) = HashBlock(Block("document", Json(Prior(t))))
  PROVE  Len(s) = Len(t) /\ (s[Len(s) - 1].isString <=> t[Len(t) - 1].isString)
<1>1. ASSUME NEW u \in Seq(Messages), Len(u) > 1
      PROVE  /\ Prior(u) \in Seq(Messages) /\ Len(u) \in Nat /\ Len(Prior(u)) = Len(u) - 1
             /\ Json(Prior(u)) \in Seq(Pieces)
             /\ Cardinality(RoleAt(Json(Prior(u)))) = Len(u)
             /\ u[Len(u) - 1] \in Message
             /\ ClosedBy(Json(Prior(u)), u[Len(u) - 1])
  <2>1. Len(u) \in Nat /\ \A i \in 1 .. Len(u) : u[i] \in Messages
    BY LenProperties, ElementOfSeq
  <2>2. \A i \in 1 .. Len(u) - 1 : u[i] \in Messages BY <2>1
  <2>3. /\ Prior(u) \in Seq(Messages) /\ Len(Prior(u)) = Len(u) - 1
        /\ \A i \in 1 .. Len(u) - 1 : Prior(u)[i] = u[i]
    BY <1>1, <2>1, <2>2, SubSeqProperties DEF Prior, Front
  <2>4. /\ Json(Prior(u)) \in Seq(Pieces)
        /\ Cardinality(RoleAt(Json(Prior(u)))) = Len(Prior(u)) + 1
        /\ Len(Prior(u)) > 0 => ClosedBy(Json(Prior(u)), Prior(u)[Len(Prior(u))])
    BY <2>3, RolesOfJson
  <2>5. Len(Prior(u)) + 1 = Len(u) /\ Len(Prior(u)) > 0 BY <1>1, <2>1, <2>3
  <2>6. Len(u) - 1 \in 1 .. Len(u) - 1 BY <1>1, <2>1
  <2>7. Prior(u)[Len(Prior(u))] = u[Len(u) - 1] BY <2>3, <2>6
  <2>8. u[Len(u) - 1] \in Message BY <2>2, <2>6, QuotedIs
  <2> QED BY <2>1, <2>3, <2>4, <2>5, <2>7, <2>8
<1>2. Canonicalize("document", Json(Prior(s))) = Canonicalize("document", Json(Prior(t)))
  BY DEF HashBlock, Block
<1>3. Json(Prior(s)) \in Seq(Pieces) /\ Json(Prior(t)) \in Seq(Pieces) BY <1>1
<1>4. Cardinality(RoleAt(Json(Prior(s)))) = Cardinality(RoleAt(Json(Prior(t))))
  BY <1>2, <1>3, SameRoles
<1>5. Len(s) = Len(t) BY <1>1, <1>4
<1> DEFINE x == s[Len(s) - 1]
           y == t[Len(t) - 1]
<1>6. /\ x \in Message /\ ClosedBy(Json(Prior(s)), x)
      /\ y \in Message /\ ClosedBy(Json(Prior(t)), y)
  BY <1>1
<1> HIDE DEF x, y
<1>7. Closing(x) = Closing(y) BY <1>2, <1>3, <1>6, SameClose
<1>8. x.isString <=> y.isString BY <1>6, <1>7, ClosingTells
<1> QED BY <1>5, <1>8 DEF x, y

\* An Anthropic prefix tells where its cache points are.
LEMMA AnthropicPoints ==
  ASSUME NEW b \in Bodies("anthropic"), NEW c \in Bodies("anthropic"),
         PrefixOfBody(b) = PrefixOfBody(c)
  PROVE  InjectCacheHeaders("anthropic", b) = InjectCacheHeaders("anthropic", c)
<1> DEFINE n == Len(Kept(b))
<1>1. "anthropic" \in Formats /\ "anthropic" # "native" BY DEF Formats
<1>2. /\ Len(Kept(c)) = n
      /\ \A i \in 1 .. n : HashBlock(Kept(b)[i]) = HashBlock(Kept(c)[i])
  BY <1>1, SameKept
<1>3. \A i \in 1 .. n : Kept(b)[i].kind = Kept(c)[i].kind BY <1>2 DEF HashBlock
<1>4. /\ n \in Nat
      /\ n > 0 => (Kept(b)[1].kind = "system" <=> b.systemIsString)
      /\ Len(b.items) >= 2 =>
           n > 0 /\ Kept(b)[n] = Block("document", Json(Prior(b.items)))
      /\ ~(Len(b.items) >= 2) => \A i \in 1 .. n : Kept(b)[i].kind # "document"
  BY AnthropicKept
<1>5. /\ n > 0 => (Kept(c)[1].kind = "system" <=> c.systemIsString)
      /\ Len(c.items) >= 2 =>
           n > 0 /\ Kept(c)[n] = Block("document", Json(Prior(c.items)))
      /\ ~(Len(c.items) >= 2) => \A i \in 1 .. n : Kept(c)[i].kind # "document"
  BY <1>2, AnthropicKept
<1>6. /\ Breakpoint(ExtractPromptBlocks(b)) = n
      /\ Breakpoint(ExtractPromptBlocks(c)) = n
  BY <1>1, <1>2, BreakpointIs
<1> HIDE DEF n
<1>7. n > 0 => (b.systemIsString <=> c.systemIsString)
  <2> HAVE n > 0
  <2>1. 1 \in 1 .. n BY <1>4
  <2> QED BY <1>3, <1>4, <1>5, <2>1
<1>8. Len(b.items) >= 2 <=> Len(c.items) >= 2
  <2>1. n > 0 => n \in 1 .. n BY <1>4
  <2>2. /\ Len(b.items) >= 2 => n > 0 /\ Kept(b)[n].kind = "document"
        /\ Len(c.items) >= 2 => n > 0 /\ Kept(c)[n].kind = "document"
    BY <1>4, <1>5 DEF Block
  <2> QED BY <1>3, <1>4, <1>5, <2>1, <2>2
<1>9. Len(b.items) >= 2 =>
        /\ Len(b.items) = Len(c.items)
        /\ b.items[Len(b.items) - 1].isString <=> c.items[Len(c.items) - 1].isString
  <2> HAVE Len(b.items) >= 2
  <2>1. /\ b.items \in Seq(Messages) /\ c.items \in Seq(Messages)
        /\ Len(b.items) \in Nat /\ Len(c.items) \in Nat
    BY AnthropicTalk
  <2>2. Len(b.items) > 1 /\ Len(c.items) > 1 BY <1>8, <2>1
  <2>3. n \in 1 .. n /\ Kept(b)[n] = Block("document", Json(Prior(b.items)))
        /\ Kept(c)[n] = Block("document", Json(Prior(c.items)))
    BY <1>4, <1>5, <1>8
  <2>4. HashBlock(Kept(b)[n]) = HashBlock(Kept(c)[n]) BY <1>2, <2>3
  <2> QED BY <2>1, <2>2, <2>3, <2>4, SameHistory
<1>10. InjectAnthropic(b, ExtractPromptBlocks(b)) = InjectAnthropic(c, ExtractPromptBlocks(c))
  <2>1. CASE n = 0 BY <1>6, <2>1 DEF InjectAnthropic
  <2>2. CASE n # 0
    <3>1. {i \in {0} : b.systemIsString} = {i \in {0} : c.systemIsString}
      BY <1>4, <1>7, <2>2
    <3>2. {i \in {HistoryEnd(b.items)} :
             Len(b.items) >= 2 /\ b.items[HistoryEnd(b.items)].isString}
            = {i \in {HistoryEnd(c.items)} :
                 Len(c.items) >= 2 /\ c.items[HistoryEnd(c.items)].isString}
      BY <1>8, <1>9 DEF HistoryEnd
    <3>3. MessagesOf(b) = b.items /\ MessagesOf(c) = c.items
      BY <1>1, AnthropicTalk DEF MessagesOf
    <3> QED BY <1>6, <2>2, <3>1, <3>2, <3>3 DEF InjectAnthropic
  <2> QED BY <2>1, <2>2
<1> QED BY <1>10 DEF InjectCacheHeaders

\* A Bedrock cache point is the last kept block, if there is any.
LEMMA BedrockPoints ==
  ASSUME NEW body \in Bodies("openai")
  PROVE  /\ Len(Kept(body)) \in Nat
         /\ InjectCacheHeaders("bedrock", body) = {Len(Kept(body))} \ {0}
<1> DEFINE n == Len(Kept(body))
           k == Cardinality(NamedAt(body))
           m == Cardinality(SpokenAt(body))
           N == Len(body.items)
<1>1. "openai" \in Formats /\ "openai" # "native" BY DEF Formats
<1>2. n \in Nat /\ Breakpoint(ExtractPromptBlocks(body)) = n BY <1>1, BreakpointIs
<1>3. k \in Nat /\ m \in Nat /\ n = k + (IF m > 1 THEN 1 ELSE 0) BY KeptCount
<1>5. /\ N \in Nat /\ DOMAIN body.items = 1 .. N /\ body.format = "openai"
      /\ MessagesOf(body) = body.items
  <2>1. body.items \in Seq(Message) /\ body.format = "openai" BY <1>1, ItemsTyped
  <2> QED BY <1>1, <2>1, LenProperties DEF MessagesOf
<1>4. k + m <= N
  <2>1. NamedAt(body) \cup SpokenAt(body) \subseteq 1 .. N BY <1>5 DEF NamedAt, SpokenAt
  <2> HIDE DEF N
  <2> QED BY <1>5, <2>1, BothCount
<1>6. InjectCacheHeaders("bedrock", body) = {n} \cap (1 .. N)
  BY <1>2, <1>5 DEF InjectCacheHeaders, InjectBedrock
<1> HIDE DEF n, k, m, N
<1>7. n <= N BY <1>3, <1>4, <1>5
<1>8. {n} \cap (1 .. N) = {n} \ {0} BY <1>2, <1>5, <1>7
<1> QED BY <1>2, <1>6, <1>8 DEF n

\* Requests of one prefix have the same cache points.
THEOREM PointsAreOfThePrefix == Spec => []SamePrefixSameCachePoints
<1>1. TypeInv => SamePrefixSameCachePoints
  <2> SUFFICES ASSUME TypeInv, PrefixOfBody(left) = PrefixOfBody(right),
                      left.format # "native", NEW provider \in ProvidersOf(left)
               PROVE  InjectCacheHeaders(provider, left) = InjectCacheHeaders(provider, right)
    BY DEF SamePrefixSameCachePoints
  <2>1. /\ left.format \in Formats
        /\ left \in Bodies(left.format) /\ right \in Bodies(left.format)
    BY DEF TypeInv
  <2>3. CASE left.format = "anthropic"
    <3>1. provider = "anthropic" BY <2>3 DEF ProvidersOf
    <3>2. left \in Bodies("anthropic") /\ right \in Bodies("anthropic") BY <2>1, <2>3
    <3> QED BY <3>1, <3>2, AnthropicPoints
  <2>4. CASE left.format = "openai"
    <3>1. left \in Bodies("openai") /\ right \in Bodies("openai") BY <2>1, <2>4
    <3>2. CASE provider = "bedrock"
      <4>2. "openai" \in Formats /\ "openai" # "native" BY DEF Formats
      <4>3. Len(Kept(left)) = Len(Kept(right)) BY <3>1, <4>2, SameKept
      <4>4. /\ InjectCacheHeaders("bedrock", left) = {Len(Kept(left))} \ {0}
            /\ InjectCacheHeaders("bedrock", right) = {Len(Kept(right))} \ {0}
        BY <3>1, BedrockPoints
      <4> QED BY <3>2, <4>3, <4>4
    <3>3. CASE provider # "bedrock"
      BY <2>4, <3>3 DEF ProvidersOf, Others, InjectCacheHeaders
    <3> QED BY <3>2, <3>3
  <2> QED BY <2>1, <2>3, <2>4 DEF Formats
<1> QED BY <1>1, Typing, PTL
=============================================================================
