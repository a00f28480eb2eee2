---------------------------- MODULE PromptPrefix ----------------------------
(***************************************************************************)
(* From a request body to its prefix hash and TTL policy: the extraction   *)
(* of prompt blocks (sidecar/src/interceptor.rs), their canonical form and *)
(* the composite hash (sidecar/src/hasher.rs).                             *)
(*                                                                         *)
(* SHA-256 is taken to be free of collisions: a hash is the value hashed.  *)
(* A text is a sequence of pieces; a new piece starts at every source      *)
(* marker, at every role and at the end of a serialized conversation, and  *)
(* wherever else two texts may differ.  `pad` is white space that          *)
(* normalization removes: a further space where the piece begins, which in *)
(* a marked piece is the place between "[SOURCE:" and the id.              *)
(***************************************************************************)
EXTENDS Integers, Sequences, FiniteSets, SequencesExt

CONSTANTS
  Start,     \* the bodies clients start from
  ItemsOf,   \* what may be added to a body, by format
  MaxItems   \* how much is added at most

Formats == {"native", "anthropic", "openai"}
Kinds   == {"system", "tools", "document", "user"}
Roles   == {"system", "tool", "user", "assistant", "other"}

\* How a serialized message closes: what follows its content (a quote if that is
\* a string, something else if not), and its role.  0 ends the conversation.
RoleText == [end |-> 0, system |-> 1, tool |-> 2, user |-> 3, assistant |-> 4, other |-> 5]
RoleTexts == 0 .. 10
Closing(message) == RoleText[message.role] + (IF message.isString THEN 0 ELSE 5)

PiecesOf(Text) == [mark : {"exact", "spaced", "none"}, id : Nat, text : Text, pad : {0, 1}]
Pieces == PiecesOf(Nat)

\* A quote inside a JSON string is escaped: no content reads like a role.
Messages ==
  [role : Roles, content : Seq(PiecesOf(Nat \ RoleTexts)), isString : BOOLEAN]

\* items: the messages; of a native body its gc_blocks, and the messages it is
\* sent upstream with are a field of their own.
ItemTypes(format) ==
  IF format = "native" THEN [kind : Kinds, content : Seq(Pieces)] ELSE Messages

Bodies(format) ==
  [format : {format}, system : Seq(Pieces), systemIsString : BOOLEAN, tools : Seq(Pieces),
   items : Seq(ItemTypes(format)),
   messages : IF format = "native" THEN Seq(Messages) ELSE {<<>>}]

ASSUME StartAssumption == \A b \in Start : b.format \in Formats /\ b \in Bodies(b.format)
ASSUME ItemsAssumption ==
  \A format \in Formats : \A item \in ItemsOf[format] : item \in ItemTypes(format)

VARIABLES left, right   \* the bodies of two requests, as clients compose them

vars == <<left, right>>

\* mark: "exact" for a piece that begins with "[SOURCE:", "spaced" for a source
\* tag written "[ SOURCE:", "none" for any other text.
Piece(mark, id, text, pad) == [mark |-> mark, id |-> id, text |-> text, pad |-> pad]

Block(kind, content) == [kind |-> kind, content |-> content]

----------------------------------------------------------------------------
(* Sequences by position.  (SelectSeq and SortSeq take operators, which    *)
(* the provers cannot reason about.)                                       *)

\* The elements of S in the order R, a set of pairs.
Ordered(S, R) ==
  [n \in 1 .. Cardinality(S) |->
     CHOOSE x \in S : Cardinality({y \in S : <<y, x>> \in R}) = n - 1]

\* The part of s at the positions I.
Chosen(s, I) ==
  LET at == Ordered(I, {e \in I \X I : e[1] < e[2]})
  IN  [n \in DOMAIN at |-> s[at[n]]]

----------------------------------------------------------------------------
(* Canonical form and hash.                                                *)

\* split_whitespace and join: the pieces without what separates them.
Words(content) == [i \in DOMAIN content |->
                     <<content[i].mark, content[i].id, content[i].text>>]

\* split("[SOURCE:"): what precedes the first marker, and the tagged sections,
\* each called by the position of its marker; the preamble is section 0.
Starts(content) == {i \in DOMAIN content : content[i].mark = "exact"}
Heads(content) == {0} \cup Starts(content)
StartOf(s) == IF s = 0 THEN 1 ELSE s
EndOf(content, s) == Min({t \in Starts(content) : t > s} \cup {Len(content) + 1}) - 1
Span(content, s) == StartOf(s) .. EndOf(content, s)
Section(content, s) == SubSeq(content, StartOf(s), EndOf(content, s))

\* Sections are compared as raw text, from the marker on: white space first (a
\* further space sorts before any letter or digit), then source id, then text,
\* then what follows.
Raw(piece) == <<piece.pad, piece.id, piece.text>>
RawLess(p, q) ==
  \/ p.pad > q.pad
  \/ p.pad = q.pad /\ p.id < q.id
  \/ p.pad = q.pad /\ p.id = q.id /\ p.text < q.text

Lexicographic(a, b) ==
  \E n \in 1 .. Len(b) :
    /\ n <= Len(a) + 1
    /\ \A i \in 1 .. n - 1 : Raw(a[i]) = Raw(b[i])
    /\ n = Len(a) + 1 \/ RawLess(a[n], b[n])

\* tagged.sort(), which is stable; the preamble stays in front.
SlipUnsorted(content, s, t) == s < t
SortsFirst(content, s, t) ==
  LET a == Section(content, s)
      b == Section(content, t)
  IN  Lexicographic(a, b) \/ (~ Lexicographic(b, a) /\ s < t)

SectionPairs(content) ==
  {e \in Heads(content) \X Starts(content) :
     e[1] # e[2] /\ (e[1] = 0 \/ SortsFirst(content, e[1], e[2]))}

\* Which piece comes before which: those of one section stay as they are.
PiecePairs(content) ==
  (UNION {Span(content, e[1]) \X Span(content, e[2]) : e \in SectionPairs(content)})
    \cup (UNION {{e \in Span(content, s) \X Span(content, s) : e[1] < e[2]} :
                   s \in Heads(content)})

Canonicalize(kind, content) ==
  IF kind = "document"
  THEN LET at == Ordered(DOMAIN content, PiecePairs(content))
       IN  [n \in DOMAIN content |-> Words(content)[at[n]]]
  ELSE Words(content)

SlipUntagged(b) == <<Canonicalize(b.kind, b.content)>>
HashBlock(b) == <<b.kind, Canonicalize(b.kind, b.content)>>

SlipAll(b) == TRUE
IsCacheable(b) == b.kind # "user"

Stable(blocks) == Chosen(blocks, {i \in DOMAIN blocks : IsCacheable(blocks[i])})

\* hash_prompt_blocks: the block hashes are of one length and a separator stands
\* between them, so the hash of their concatenation is that of their sequence.
Prefix(blocks) ==
  LET kept == Stable(blocks)
  IN  [i \in DOMAIN kept |-> HashBlock(kept[i])]

SlipUserIsSession(blocks) ==
  IF \A i \in DOMAIN blocks : blocks[i].kind \in {"system", "tools"} THEN "infinite"
  ELSE IF \E i \in DOMAIN blocks : blocks[i].kind = "document" THEN "fixed"
  ELSE "sliding"
InferTtlPolicy(blocks) ==
  IF \A i \in DOMAIN blocks : blocks[i].kind \in {"system", "tools", "user"}
  THEN "infinite"
  ELSE IF \E i \in DOMAIN blocks : blocks[i].kind = "document" THEN "fixed"
  ELSE "sliding"

----------------------------------------------------------------------------
(* Extraction.                                                             *)

\* serde_json::to_string of messages: keys in order, so "role" comes after the
\* content, and a bracket after all.  A source marker in a content splits this text too.
Json(messages) ==
  FlattenSeq([i \in DOMAIN messages |->
    Append(messages[i].content, Piece("none", 0, Closing(messages[i]), 0))])
    \o <<Piece("none", 0, RoleText["end"], 0)>>

Prior(messages) == Front(messages)

\* All messages but the last are one Document block, the last is the User block.
Conversation(messages) ==
  (IF Len(messages) > 1 THEN <<Block("document", Json(Prior(messages)))>> ELSE <<>>)
    \o (IF Len(messages) > 0 THEN <<Block("user", Json(<<Last(messages)>>))>> ELSE <<>>)

\* `system` counts when it is a string, if an empty one; `tools` is serialized whole.
ExtractAnthropicBlocks(body) ==
  (IF body.systemIsString THEN <<Block("system", body.system)>> ELSE <<>>)
    \o (IF body.tools # <<>> THEN <<Block("tools", body.tools)>> ELSE <<>>)
    \o Conversation(body.items)

KindOf == [system |-> "system", tool |-> "tools"]
Named(message) == message.role \in {"system", "tool"}
Spoken(message) == message.role \in {"user", "assistant"}

\* System and tool messages come first, wherever they stood; `system`, `tools`
\* and messages of any other role are not looked at.
ExtractOpenaiBlocks(body) ==
  LET named  == Chosen(body.items, {i \in DOMAIN body.items : Named(body.items[i])})
      spoken == Chosen(body.items, {i \in DOMAIN body.items : Spoken(body.items[i])})
  IN  [i \in DOMAIN named |-> Block(KindOf[named[i].role], Json(<<named[i]>>))]
        \o Conversation(spoken)

\* Native bodies carry their blocks in gc_blocks.
ExtractPromptBlocks(body) ==
  CASE body.format = "native"    -> body.items
    [] body.format = "anthropic" -> ExtractAnthropicBlocks(body)
    [] body.format = "openai"    -> ExtractOpenaiBlocks(body)

PrefixOfBody(body) == Prefix(ExtractPromptBlocks(body))

----------------------------------------------------------------------------
(* Two requests, composed item by item.                                    *)

Add(body, item) == [body EXCEPT !.items = Append(@, item)]

Init == left \in Start /\ right \in {b \in Start : b.format = left.format}

ComposeLeft ==
  /\ Len(left.items) < MaxItems[left.format]
  /\ \E item \in ItemsOf[left.format] : left' = Add(left, item)
  /\ UNCHANGED right

ComposeRight ==
  /\ Len(right.items) < MaxItems[right.format]
  /\ \E item \in ItemsOf[right.format] : right' = Add(right, item)
  /\ UNCHANGED left

Next == ComposeLeft \/ ComposeRight

Spec == Init /\ [][Next]_vars
----------------------------------------------------------------------------
(* Properties.                                                             *)

\* Two documents with one preamble and the same source sections, in any order.
SectionWords(content) == {Words(Section(content, s)) : s \in Starts(content)}
SameSources(c, d) == /\ Words(Section(c, 0)) = Words(Section(d, 0))
                     /\ Cardinality(Starts(c)) = Cardinality(Starts(d))
                     /\ SectionWords(c) = SectionWords(d)

\* Two requests of one prefix agree on every stable block: kind, place and words,
\* up to the order of a document's source sections.
PrefixSeparates ==
  PrefixOfBody(left) = PrefixOfBody(right) =>
    LET l == Stable(ExtractPromptBlocks(left))
        r == Stable(ExtractPromptBlocks(right))
    IN  /\ Len(l) = Len(r)
        /\ \A i \in DOMAIN l :
             /\ l[i].kind = r[i].kind
             /\ IF l[i].kind = "document" THEN SameSources(l[i].content, r[i].content)
                ELSE Words(l[i].content) = Words(r[i].content)

DistinctIds(content) ==
  \A i, j \in DOMAIN content :
    (i # j /\ content[i].mark = "exact" /\ content[j].mark = "exact")
      => content[i].id # content[j].id

\* The sections of a document, and the white space between marker and id.
SpacedSections(content) ==
  {<<content[s].pad, Words(Section(content, s))>> : s \in Starts(content)}

\* "RAG result ordering never causes a cache miss": two documents of the same
\* preamble and the same sections, of distinct source ids, hash alike in whatever
\* order.  White space may differ too, except between a marker and its id, where
\* it moves the section.
SourceOrderIgnored ==
  (left.format = "native" /\ Len(left.items) = 1 /\ Len(right.items) = 1) =>
    LET l == left.items[1]
        r == right.items[1]
    IN  (/\ l.kind = "document" /\ r.kind = "document"
         /\ DistinctIds(l.content) /\ DistinctIds(r.content)
         /\ SameSources(l.content, r.content)
         /\ SpacedSections(l.content) = SpacedSections(r.content))
           => PrefixOfBody(left) = PrefixOfBody(right)

\* The message that is asked last: of an API request, its User block.
Volatile(body) ==
  CASE body.format = "native"    -> Len(body.messages)
    [] body.format = "anthropic" -> Len(body.items)
    [] body.format = "openai"    ->
         Max({i \in DOMAIN body.items : Spoken(body.items[i])} \cup {0})

\* What the user asks last, in whatever words and however long, is no part of
\* the prefix: native User blocks may differ, come and go, and so may the
\* content of the last message.
VolatileIgnored ==
  IF left.format = "native"
  THEN LET asked(body) == {i \in DOMAIN body.items : body.items[i].kind = "user"}
           rest(body)  == Chosen(body.items, DOMAIN body.items \ asked(body))
       IN  rest(left) = rest(right) => PrefixOfBody(left) = PrefixOfBody(right)
  ELSE (/\ [left EXCEPT !.items = <<>>] = [right EXCEPT !.items = <<>>]
        /\ Len(left.items) = Len(right.items)
        /\ Volatile(left) = Volatile(right)
        /\ \A i \in DOMAIN left.items \ {Volatile(left)} : left.items[i] = right.items[i])
         => PrefixOfBody(left) = PrefixOfBody(right)

\* Requests of one prefix have one TTL policy, and it is never Sliding: what a
\* cold request writes does not depend on which of them it was.
PolicyFollowsPrefix ==
  LET l == ExtractPromptBlocks(left)
      r == ExtractPromptBlocks(right)
  IN  /\ InferTtlPolicy(l) # "sliding"
      /\ Prefix(l) = Prefix(r) => InferTtlPolicy(l) = InferTtlPolicy(r)
=============================================================================
