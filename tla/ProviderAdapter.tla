-------------------------- MODULE ProviderAdapter --------------------------
(***************************************************************************)
(* Where the sidecar puts cache points into the body it forwards           *)
(* (sidecar/src/provider.rs), against the prefix it routes by.             *)
(*                                                                         *)
(* A cache point is the position that gets one: 0 for the `system` field,  *)
(* i for the i-th message.  Fields that carry no position (`store`,        *)
(* `performanceConfig`) are left out.                                      *)
(***************************************************************************)
EXTENDS PromptPrefix

\* from_upstream_url.  An Anthropic upstream is what has Anthropic bodies; native
\* bodies go to any.
Others == {"openai", "bedrock", "vertex", "self_hosted"}
ProvidersOf(body) ==
  CASE body.format = "anthropic" -> {"anthropic"}
    [] body.format = "openai"    -> Others
    [] body.format = "native"    -> Others \cup {"anthropic"}

MessagesOf(body) == IF body.format = "native" THEN body.messages ELSE body.items

\* rposition of a cacheable block; 0 when there is none.
SlipLastBlock(blocks) == Len(blocks)
Breakpoint(blocks) == Max({i \in DOMAIN blocks : IsCacheable(blocks[i])} \cup {0})

SlipVolatileTail(messages) == Len(messages)
HistoryEnd(messages) == Len(messages) - 1

\* `system` and the message before the last, each if it is a string.
InjectAnthropic(body, blocks) ==
  LET messages == MessagesOf(body)
      end      == HistoryEnd(messages)
  IN  IF Breakpoint(blocks) = 0 THEN {}
      ELSE {i \in {0} : body.systemIsString}
             \cup {i \in {end} : Len(messages) >= 2 /\ messages[end].isString}

\* The index of a block is taken for the index of a message.
InjectBedrock(body, blocks) == {Breakpoint(blocks)} \cap DOMAIN MessagesOf(body)

InjectCacheHeaders(provider, body) ==
  LET blocks == ExtractPromptBlocks(body)
  IN  CASE provider = "anthropic" -> InjectAnthropic(body, blocks)
        [] provider = "bedrock"   -> InjectBedrock(body, blocks)
        [] OTHER                  -> {}

----------------------------------------------------------------------------
(* Properties.                                                             *)

\* What is asked last is never marked on behalf of Anthropic.  Bedrock's point,
\* found by counting blocks, falls on it only if a system or tool message comes
\* after it, or if the blocks are not made of the messages (a native body).
CachePointsStable ==
  \A provider \in ProvidersOf(left) :
    (Volatile(left) > 0 /\ Volatile(left) \in InjectCacheHeaders(provider, left))
      => /\ provider = "bedrock"
         /\ \/ left.format = "native"
            \/ \E i \in DOMAIN left.items : i > Volatile(left) /\ Named(left.items[i])

\* API requests that are routed as equals are marked as equals: one prefix, the
\* same cache points, whatever tail follows.  (The points of a native body are in
\* its messages, which are no part of its prefix.)
SamePrefixSameCachePoints ==
  (left.format # "native" /\ PrefixOfBody(left) = PrefixOfBody(right)) =>
    \A provider \in ProvidersOf(left) :
      InjectCacheHeaders(provider, left) = InjectCacheHeaders(provider, right)
============================================================================
