-------------------------- MODULE ProviderAdapters --------------------------
(***************************************************************************)
(* The streaming methods of the OpenAI, Anthropic and Gemini adapters      *)
(* (application/providers/*_adapter.py) behind GovernedAIProvider, read by *)
(* provider_text_stream (api/v1/chat.py) inside                            *)
(* ProviderFailureIsolation.stream.  Also what the adapters' complete      *)
(* methods make of a response (decode_completion, _unpack_..., _usage).    *)
(*                                                                         *)
(* A server-sent line is a record of what the parsers look at:             *)
(*   shape   "json", "corrupt" (not JSON), "done" ("[DONE]") or "array"    *)
(*           (JSON, but no object: .get raises AttributeError)             *)
(*   error   an error chunk of OpenAI or Gemini                            *)
(*   parts   how many pieces of text it carries                            *)
(*   type    the event type of an Anthropic line, "error" among them       *)
(*   input, output, total   token counts, or NoValue                       *)
(* A piece of text is <<line, part>>.                                      *)
(***************************************************************************)
EXTENDS Integers, Sequences, SequencesExt, FiniteSetsExt

CONSTANTS
  Wire,         \* Wire[a]: the lines the provider of adapter a may send
  MaxLines,     \* bound: lines of one stream
  NoValue

\* A count is any integer JSON may hold, or not there.
Counts == Int \cup {NoValue}

WireLines ==
  [shape: {"json", "corrupt", "done", "array"}, error: BOOLEAN, parts: Nat, type: STRING,
   input: Counts, output: Counts, total: Counts]

ASSUME WireAssumption ==
  /\ DOMAIN Wire = {"openai", "anthropic", "gemini"}
  /\ \A a \in DOMAIN Wire : Wire[a] \subseteq WireLines
  /\ NoValue \notin Int
  /\ MaxLines \in Nat

VARIABLES
  adapter,      \* the adapter behind the governed provider
  method,       \* "stream" or "stream_with_usage"
  lines,        \* the lines read so far
  pieces,       \* the pieces of text the handler was given
  meter,        \* the adapter's own token counts, before it reports them
  usage,        \* stream_usage: the usage the handler was given
  outcome       \* "idle", "reading", "complete", or a ProviderFailureKind

adapterVars == <<adapter, method, lines, pieces, meter, usage, outcome>>

-----------------------------------------------------------------------------
Unmetered == [input |-> NoValue, output |-> NoValue]

Valid(v) == v # NoValue /\ v >= 0

Counted(v) == IF Valid(v) THEN v ELSE NoValue

\* _usage with the total_key of OpenAI.
OpenAIUsage(l) ==
  IF Valid(l.input) /\ Valid(l.output) /\ l.total = l.input + l.output
    THEN [input |-> l.input, output |-> l.output]
    ELSE Unmetered

\* _gemini_usage: the output is what the total leaves.
GeminiUsage(l) ==
  IF l.input # NoValue /\ l.total # NoValue /\ l.total >= l.input
    THEN [input |-> l.input, output |-> l.total - l.input]
    ELSE Unmetered

\* ProviderUsage refuses a negative count by an exception.
Refused(u) == u.input # NoValue /\ u.input < 0

\* The texts of line n, one per part; Anthropic's are in events of one type.
PiecesOf(l, n) ==
  IF adapter = "anthropic" /\ l.type # "content_block_delta" THEN <<>>
    ELSE [p \in 1..l.parts |-> <<n, p>>]

\* How the adapter's exceptions are classified by ProviderFailureIsolation: only
\* the stream method turns them into a sanitized upstream failure.
Failed(m) == IF m = "stream" THEN "upstream" ELSE "internal"

-----------------------------------------------------------------------------
(* Opening the stream                                                      *)

\* GovernedAIProvider authorizes the model, then the adapter opens the response.
OpenStream(a, m) ==
  /\ outcome = "idle"
  /\ adapter' = a
  /\ method' = m
  /\ outcome' = "reading"
  /\ UNCHANGED <<lines, pieces, meter, usage>>

\* The connection fails, raise_for_status raises, or the connection breaks later.
TransportFails ==
  /\ outcome = "reading"
  /\ outcome' = Failed(method)
  /\ UNCHANGED <<adapter, method, lines, pieces, meter, usage>>

-----------------------------------------------------------------------------
(* One line                                                                *)

Reads(l) ==
  /\ outcome = "reading"
  /\ Len(lines) < MaxLines
  /\ l \in Wire[adapter]
  /\ lines' = Append(lines, l)
  /\ UNCHANGED <<adapter, method>>

\* A line that is not JSON is skipped, and so is "[DONE]" unless stream ends there.
SkipLine(l) ==
  /\ Reads(l)
  /\ l.shape = "corrupt" \/ (l.shape = "done" /\ (adapter # "openai" \/ method # "stream"))
  /\ UNCHANGED <<pieces, meter, usage, outcome>>

\* OpenAI's stream method stops reading.
Done(l) ==
  /\ Reads(l)
  /\ l.shape = "done" /\ adapter = "openai" /\ method = "stream"
  /\ outcome' = "complete"
  /\ UNCHANGED <<pieces, meter, usage>>

\* AttributeError, which no adapter catches.
NoObject(l) ==
  /\ Reads(l)
  /\ l.shape = "array"
  /\ outcome' = "internal"
  /\ UNCHANGED <<pieces, meter, usage>>

\* stream: an error chunk ends the stream, text is passed on.
StreamLine(l, error) ==
  /\ Reads(l)
  /\ l.shape = "json" /\ method = "stream"
  /\ IF error
       THEN outcome' = "upstream" /\ UNCHANGED pieces
       ELSE pieces' = pieces \o PiecesOf(l, Len(lines')) /\ UNCHANGED outcome
  /\ UNCHANGED <<meter, usage>>

OpenAIStream(l) == adapter = "openai" /\ StreamLine(l, l.error)

AnthropicStream(l) == adapter = "anthropic" /\ StreamLine(l, l.type = "error")

GeminiStream(l) == adapter = "gemini" /\ StreamLine(l, l.error)

MeteredLine_OpenAIElse(l) ==
  LET u == OpenAIUsage(l) IN
  /\ Reads(l)
  /\ l.shape = "json" /\ method = "stream_with_usage" /\ adapter = "openai"
  /\ IF u # Unmetered /\ usage # Unmetered
       THEN outcome' = "internal" /\ UNCHANGED <<pieces, usage>>
       ELSE /\ usage' = IF u # Unmetered THEN u ELSE usage
            /\ pieces' = IF u # Unmetered THEN pieces ELSE pieces \o PiecesOf(l, Len(lines'))
            /\ UNCHANGED outcome
  /\ UNCHANGED meter

\* OpenAI reports every valid usage at once, before the text of its line; the
\* handler refuses a second one.  Error chunks are not looked at.
MeteredLine(l) ==
  LET u == OpenAIUsage(l) IN
  /\ Reads(l)
  /\ l.shape = "json" /\ method = "stream_with_usage" /\ adapter = "openai"
  /\ IF u # Unmetered /\ usage # Unmetered
       THEN outcome' = "internal" /\ UNCHANGED <<pieces, usage>>
       ELSE /\ usage' = IF u # Unmetered THEN u ELSE usage
            /\ pieces' = pieces \o PiecesOf(l, Len(lines'))
            /\ UNCHANGED outcome
  /\ UNCHANGED meter

Metered_LastValid(l) ==
  IF l.type = "message_start" THEN [meter EXCEPT !.input = IF Valid(l.input) THEN l.input ELSE @]
    ELSE IF l.type = "message_delta"
      THEN [meter EXCEPT !.output = IF Valid(l.output) THEN l.output ELSE @]
      ELSE meter

\* Anthropic counts the input in message_start and the output in message_delta.
Metered(l) ==
  CASE l.type = "message_start" -> [meter EXCEPT !.input = Counted(l.input)]
    [] l.type = "message_delta" -> [meter EXCEPT !.output = Counted(l.output)]
    [] OTHER -> meter

AnthropicLine(l) ==
  /\ Reads(l)
  /\ l.shape = "json" /\ method = "stream_with_usage" /\ adapter = "anthropic"
  /\ meter' = Metered(l)
  /\ pieces' = pieces \o PiecesOf(l, Len(lines'))
  /\ UNCHANGED <<usage, outcome>>

\* Gemini keeps the last usage it could read; a negative count raises.
GeminiLine(l) ==
  LET u == GeminiUsage(l) IN
  /\ Reads(l)
  /\ l.shape = "json" /\ method = "stream_with_usage" /\ adapter = "gemini"
  /\ IF Refused(u)
       THEN outcome' = "internal" /\ UNCHANGED <<pieces, meter>>
       ELSE /\ meter' = IF u # Unmetered THEN u ELSE meter
            /\ pieces' = pieces \o PiecesOf(l, Len(lines'))
            /\ UNCHANGED outcome
  /\ UNCHANGED usage

\* The response ends; Anthropic and Gemini report what they counted.
EndOfStream ==
  /\ outcome = "reading"
  /\ outcome' = "complete"
  /\ usage' = IF Valid(meter.input) /\ Valid(meter.output) THEN meter ELSE usage
  /\ UNCHANGED <<adapter, method, lines, pieces, meter>>

-----------------------------------------------------------------------------
(* complete and complete_with_usage, given the response post_with_retry    *)
(* returned.  A body that is JSON is told by how many levels of the path   *)
(* to its text are as they should be.                                      *)

\* data, choices, choices[0], message, content
UnpackMessage(levels) ==
  CASE levels < 4 -> "upstream" [] levels = 4 -> "empty" [] OTHER -> "text"

\* data, content, content[0], text
UnpackAnthropicMessage(levels) ==
  CASE levels < 3 -> "upstream" [] levels = 3 -> "empty" [] OTHER -> "text"

\* data, candidates, candidates[0], parts, parts[0], text
UnpackGeminiText(levels) ==
  CASE levels < 4 -> "upstream" [] levels \in 4..5 -> "empty" [] OTHER -> "text"

Unpacked(a, levels) ==
  CASE a = "openai" -> UnpackMessage(levels)
    [] a = "anthropic" -> UnpackAnthropicMessage(levels)
    [] OTHER -> UnpackGeminiText(levels)

Bodies == {NoValue} \cup 0..6   \* NoValue: not JSON

\* decode_completion: an error status is a failure whatever its body.
Decoded(a, status, body) ==
  IF status # "ok" \/ body = NoValue THEN "upstream" ELSE Unpacked(a, body)

\* complete_with_usage does not look at the status, and a body that is not JSON
\* raises a ValueError of its own.  require_text then refuses an empty answer.
DecodedWithUsage(a, body) ==
  IF body = NoValue THEN "internal"
    ELSE IF Unpacked(a, body) = "empty" THEN "invalid_response"
    ELSE Unpacked(a, body)

-----------------------------------------------------------------------------
AdapterInit ==
  /\ adapter = "openai"
  /\ method = "stream"
  /\ lines = <<>>
  /\ pieces = <<>>
  /\ meter = Unmetered
  /\ usage = Unmetered
  /\ outcome = "idle"

ReadLine ==
  \E l \in Wire[adapter] :
    \/ SkipLine(l) \/ Done(l) \/ NoObject(l)
    \/ OpenAIStream(l) \/ AnthropicStream(l) \/ GeminiStream(l)
    \/ MeteredLine(l) \/ AnthropicLine(l) \/ GeminiLine(l)

StreamStep == ReadLine \/ TransportFails \/ EndOfStream

-----------------------------------------------------------------------------
(* Properties                                                              *)

\* The lines that carry text: Anthropic's is in events of one type.
Carriers ==
  {n \in DOMAIN lines : /\ lines[n].shape = "json"
                        /\ adapter = "anthropic" => lines[n].type = "content_block_delta"}

Before(x, y) == x[1] < y[1] \/ (x[1] = y[1] /\ x[2] < y[2])

\* The answer is the provider's text: every piece of every well-formed line, no
\* other, once and in order, with corrupt lines in between, until the stream ends.
TextIsWire ==
  outcome \in {"reading", "complete"} =>
    /\ \A n \in Carriers : \A p \in 1..lines[n].parts :
         \E i \in DOMAIN pieces : pieces[i] = <<n, p>>
    /\ \A i \in DOMAIN pieces :
         pieces[i][1] \in Carriers /\ pieces[i][2] \in 1..lines[pieces[i][1]].parts
    /\ \A i, j \in DOMAIN pieces : i < j => Before(pieces[i], pieces[j])

\* The lines that carry a report of OpenAI, Anthropic's events, a total of Gemini.
Reports == {n \in DOMAIN lines : lines[n].shape = "json" /\ OpenAIUsage(lines[n]) # Unmetered}
Starts == {n \in DOMAIN lines : lines[n].shape = "json" /\ lines[n].type = "message_start"}
Deltas == {n \in DOMAIN lines : lines[n].shape = "json" /\ lines[n].type = "message_delta"}
Totals == {n \in DOMAIN lines : lines[n].shape = "json" /\ GeminiUsage(lines[n]) # Unmetered}

\* The last line of a kind, or a line without counts.
LastOf(S) == IF S = {} THEN [input |-> NoValue, output |-> NoValue, total |-> NoValue]
             ELSE lines[Max(S)]

\* The usage a completed stream is settled with is the provider's final report:
\* the only one of OpenAI, the counts of Anthropic's last start and delta events
\* when both are numbers, the last complete one of Gemini.
UsageIsFinalReport ==
  LET pair == [input |-> LastOf(Starts).input, output |-> LastOf(Deltas).output] IN
  outcome = "complete" /\ method = "stream_with_usage" =>
    CASE adapter = "openai" ->
           /\ \A m, n \in Reports : m = n
           /\ usage = OpenAIUsage(LastOf(Reports))
      [] adapter = "anthropic" ->
           usage = IF Valid(pair.input) /\ Valid(pair.output) THEN pair ELSE Unmetered
      [] OTHER -> usage = GeminiUsage(LastOf(Totals))

=============================================================================
