-------------------------- MODULE PromptPrefixDocs --------------------------
(* What a test of hasher.rs asserts and canonicalization does not do, and what *)
(* QUICKSTART.md promises and the extraction of blocks does not keep.          *)
EXTENDS MCPromptPrefix


\* QUICKSTART.md: "All subsequent requests with the same system prompt skip the
\* prefill phase."  They do if they have one prefix; but every message except the
\* last is hashed with the system prompt.
SameSystemPromptSkipsPrefill ==
  (/\ left.format = "anthropic" /\ left.systemIsString /\ right.systemIsString
   /\ left.system # <<>> /\ left.system = right.system /\ left.tools = right.tools
   /\ left.items # <<>> /\ right.items # <<>>)
     => PrefixOfBody(left) = PrefixOfBody(right)
=============================================================================
