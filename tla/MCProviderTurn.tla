--------------------------- MODULE MCProviderTurn ---------------------------
(* An instance of ProviderTurn. *)
EXTENDS ProviderTurn

CONSTANTS c1, c2, c3, c4, c5

\* One header of each kind: in the past, zero, in range, beyond the cap.
SomeHeaders == {-2, 0, 1, 5, Infinity, NaN, Garbage, Missing}

Chunk(org, visibility, scope, chars) ==
  [organization |-> org, visibility |-> visibility, scope |-> scope, chars |-> chars]

\* Four chunks of the tenant, one of them private and one blank, and one of another
\* organization.
SomeCorpus ==
  [c \in {c1, c2, c3, c4, c5} |->
     CASE c = c1 -> Chunk("tenant", "null", "null", 1)
       [] c = c2 -> Chunk("tenant", "public", "kb", 1)
       [] c = c3 -> Chunk("tenant", "private", "kb", 2)
       [] c = c4 -> Chunk("tenant", "public", "null", 0)
       [] OTHER -> Chunk("other", "public", "kb", 1)]

SomeScopes == {"none", "organization", "public", "private", "kb"}

Labels == [r \in {"user", "assistant"} |-> IF r = "user" THEN 1 ELSE 2]

Row(role, chars, status, own) == [role |-> role, chars |-> chars, status |-> status, own |-> own]

Rows ==
  {Row("user", 2, "completed", FALSE), Row("user", 5, "completed", FALSE),
   Row("assistant", 2, "completed", FALSE), Row("assistant", 5, "completed", FALSE),
   Row("assistant", 0, "completed", FALSE), Row("assistant", 2, "failed", FALSE),
   Row("user", 2, "completed", TRUE)}

SomeHistories == UNION {[1..n -> Rows] : n \in 0..4}

Line(shape, parts, input, output, total) ==
  [shape |-> shape, error |-> FALSE, parts |-> parts, type |-> "chunk",
   input |-> input, output |-> output, total |-> total]

Plain(shape, parts) == Line(shape, parts, NoValue, NoValue, NoValue)

Event(type, parts, input, output) ==
  [Line("json", parts, input, output, NoValue) EXCEPT !.type = type]

Common == {Plain("json", 0), Plain("corrupt", 0), Plain("done", 0), Plain("array", 0)}

Chunked == {Plain("json", 1), [Plain("json", 1) EXCEPT !.error = TRUE]}

SomeWire ==
  [a \in {"openai", "anthropic", "gemini"} |->
     Common \cup
     CASE a = "openai" -> Chunked \cup
            {Line("json", 0, 2, 1, 3), Line("json", 1, 2, 2, 4),
             Line("json", 0, 2, 1, 4), Line("json", 0, -1, 1, 0)}
       [] a = "anthropic" ->
            {Event("message_start", 0, 2, NoValue), Event("message_start", 0, -1, NoValue),
             Event("content_block_delta", 1, NoValue, NoValue),
             Event("error", 0, NoValue, NoValue),
             Event("message_delta", 0, NoValue, 1), Event("message_delta", 0, NoValue, 2),
             Event("message_delta", 0, NoValue, NoValue)}
       [] OTHER -> Chunked \cup
            {Plain("json", 2), Line("json", 1, 2, NoValue, 3),
             Line("json", 0, 2, NoValue, 4), Line("json", 0, 2, NoValue, 1),
             Line("json", 0, -1, NoValue, 1)}]
=============================================================================
