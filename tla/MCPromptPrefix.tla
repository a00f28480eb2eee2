--------------------------- MODULE MCPromptPrefix ---------------------------
(* Small bodies for the TLC runs of PromptPrefix and ProviderAdapter. *)
EXTENDS ProviderAdapter

Plain(text, pad)      == Piece("none", 0, text, pad)
Source(id, text, pad) == Piece("exact", id, text, pad)
Spaced(id, text)      == Piece("spaced", id, text, 0)

\* Documents: with and without preamble, in both orders, padded at one or both
\* markers, untagged text inside a section, one source twice, tags with a space.
Documents ==
  { <<Source(1, 7, 0), Source(2, 8, 0)>>,
    <<Source(2, 8, 0), Source(1, 7, 0)>>,
    <<Source(2, 8, 1), Source(1, 7, 0)>>,
    <<Source(1, 7, 0), Source(2, 8, 1)>>,
    <<Plain(9, 0), Source(2, 8, 0), Source(1, 7, 0)>>,
    <<Plain(9, 1), Source(1, 7, 0), Source(2, 8, 0)>>,
    <<Source(2, 8, 0), Plain(9, 0), Source(1, 7, 0)>>,
    <<Source(1, 7, 0), Source(2, 8, 0), Plain(9, 0)>>,
    <<Source(1, 8, 0), Source(1, 7, 0)>>,
    <<Source(1, 8, 1), Source(1, 7, 0)>>,
    <<Spaced(2, 8), Spaced(1, 7)>>,
    <<Spaced(1, 7), Spaced(2, 8)>>,
    <<Plain(7, 0)>> }

Blocks ==
  {Block("document", d) : d \in Documents}
    \cup {Block(k, <<Plain(7, pad)>>) : k \in {"system", "tools"}, pad \in {0, 1}}
    \cup {Block("user", <<Plain(t, 0)>>) : t \in {7, 8}}

Message(role, content, isString) ==
  [role |-> role, content |-> content, isString |-> isString]

Contents == {<<Plain(17, 0)>>, <<Source(1, 18, 0)>>}

AnthropicMessages ==
  {Message("user", c, TRUE) : c \in Contents}
    \cup {Message("assistant", <<Plain(17, 0)>>, TRUE), Message("user", <<Plain(17, 0)>>, FALSE)}

OpenaiMessages ==
  {Message(role, c, TRUE) : role \in {"user", "assistant"}, c \in Contents}
    \cup {Message(role, <<Plain(17, 0)>>, TRUE) : role \in {"system", "tool", "other"}}

Items == [native |-> Blocks, anthropic |-> AnthropicMessages, openai |-> OpenaiMessages]

Limits == [native |-> 2, anthropic |-> 3, openai |-> 3]

Body(format, system, isString, tools, messages) ==
  [format |-> format, system |-> system, systemIsString |-> isString,
   tools |-> tools, items |-> <<>>, messages |-> messages]

Asked == Message("user", <<Plain(17, 0)>>, TRUE)

\* A native body with no messages, and one as an SDK sends it: `system`, a past
\* message and a question.
Starts0 ==
  { Body("openai", <<>>, FALSE, <<>>, <<>>),
    Body("native", <<>>, FALSE, <<>>, <<>>),
    Body("native", <<Plain(7, 0)>>, TRUE, <<>>, <<Asked, Asked>>) }
    \cup {Body("anthropic", s, s # <<>>, t, <<>>) :
            s \in {<<>>, <<Plain(7, 0)>>}, t \in {<<>>, <<Plain(8, 0)>>}}
    \cup {Body("anthropic", <<>>, TRUE, <<>>, <<>>)}
=============================================================================
