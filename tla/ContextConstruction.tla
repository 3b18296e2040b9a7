------------------------ MODULE ContextConstruction ------------------------
(***************************************************************************)
(* What of a conversation is sent to the provider: the history query of    *)
(* prepare_provider (api/v1/chat.py) and ConversationContextBuilder with   *)
(* its compactor (application/context_construction.py).                    *)
(*                                                                         *)
(* A history is the sequence of the conversation's message rows, newest    *)
(* first; a message is named by its place in it.  Of a content only its    *)
(* length matters, in characters after strip().                            *)
(***************************************************************************)
EXTENDS Integers, Sequences, FiniteSets, SequencesExt, FiniteSetsExt, Functions

CONSTANTS
  ContextWindow,       \* context_window_tokens of the model
  ReservedOutput,      \* reserved_output_tokens
  MaxHistoryTokens, MaxHistoryMessages, MaxSourceMessages, MaxCompactionTokens,
  CharsPerToken,
  QueryLimit,          \* LIMIT of the history query
  Label,               \* Label[role]: length of "[role] "
  EnvelopeChars,       \* header and suffix of a compaction artifact
  MarkerChars          \* "\n[older context truncated]"

\* ContextPolicy.__post_init__
ASSUME PolicyAssumption ==
  /\ ContextWindow \in Nat \ {0} /\ CharsPerToken \in Nat \ {0}
  /\ ReservedOutput \in Nat /\ ReservedOutput < ContextWindow
  /\ MaxHistoryTokens \in Nat /\ MaxCompactionTokens \in Nat
  /\ MaxHistoryMessages \in Nat /\ MaxSourceMessages \in Nat \ {0}
  /\ MaxHistoryMessages <= MaxSourceMessages
  /\ QueryLimit \in Nat /\ EnvelopeChars \in Nat /\ MarkerChars \in Nat
  /\ Label \in [{"user", "assistant"} -> Nat]

-----------------------------------------------------------------------------
Tokens(chars) == (chars + CharsPerToken - 1) \div CharsPerToken

InputBudget == ContextWindow - ReservedOutput

First(n, s) == SubSeq(s, 1, Min({n, Len(s)}))

\* The places in K, one after the other.
InOrder(K) ==
  [i \in 1..Cardinality(K) |-> CHOOSE k \in K : Cardinality({j \in K : j < k}) = i - 1]

\* The rows the query returns.  The prompt of the running execution has been
\* stored by now and is left out (own).
Queried(history) ==
  First(QueryLimit,
        InOrder({k \in DOMAIN history : /\ history[k].status = "completed"
                                        /\ history[k].role \in {"user", "assistant"}
                                        /\ ~history[k].own}))

\* The messages that may be sent, newest first.
Eligible(history) ==
  InOrder({k \in ToSet(First(MaxSourceMessages, Queried(history))) : history[k].chars > 0})

Size(history, ids) ==
  SumFunctionOnSet([k \in DOMAIN history |-> Tokens(history[k].chars)], ToSet(ids))

\* _select: how many messages are taken, and their tokens.  Nothing is taken after
\* the first message that would not fit.
Took(acc, size, budget) ==
  IF acc.full \/ acc.used + size > budget
    THEN [taken |-> acc.taken, used |-> acc.used, full |-> TRUE]
    ELSE [taken |-> acc.taken + 1, used |-> acc.used + size, full |-> FALSE]

Select(history, eligible, budget) ==
  LET n == Min({MaxHistoryMessages, Len(eligible)})
      acc[j \in 0..n] ==
        IF j = 0 THEN [taken |-> 0, used |-> 0, full |-> FALSE]
                 ELSE Took(acc[j - 1], Tokens(history[eligible[j]].chars), budget)
  IN  acc[n]

\* compact: the length of the artifact made of ids, 0 when there is none.  The
\* payload is cut to its capacity and loses its last blanks (blanks of them).
Artifact(history, ids, budget, blanks) ==
  LET payload == SumFunctionOnSet([k \in ToSet(ids) |->
                                     Label[history[k].role] + history[k].chars],
                                  ToSet(ids)) + Len(ids) - 1
      capacity == budget * CharsPerToken - EnvelopeChars
  IN IF ids = <<>> \/ budget <= 0 \/ capacity <= 0 THEN 0
     ELSE IF payload <= capacity THEN EnvelopeChars + payload
     ELSE IF capacity <= MarkerChars THEN 0
     ELSE EnvelopeChars + Max({capacity - blanks, MarkerChars})

\* A provider is never sent a history that begins with an answer.
WithoutLeadingAnswers_FirstOnly(history, ids) ==
  IF ids = <<>> \/ history[ids[1]].role = "user" THEN ids ELSE Tail(ids)

WithoutLeadingAnswers(history, ids) ==
  LET asked == {j \in DOMAIN ids : history[ids[j]].role = "user"} IN
  IF asked = {} THEN <<>> ELSE SubSeq(ids, Min(asked), Len(ids))

Mandatory(prompt, system) == Tokens(prompt) + Tokens(system)

\* ContextBudgetExceeded
Rejects(prompt, system) == prompt = 0 \/ Mandatory(prompt, system) > InputBudget

HistoryBudget(prompt, system) ==
  Min({MaxHistoryTokens, InputBudget - Mandatory(prompt, system)})

BuildContext_CompactionUnbudgeted(history, prompt, system, blanks) ==
  LET eligible == Eligible(history)
      fallback == Select(history, eligible, HistoryBudget(prompt, system))
      omitted == SubSeq(eligible, fallback.taken + 1, Len(eligible))
      artifact == Artifact(history, Reverse(omitted), MaxCompactionTokens, blanks)
      suffix == Reverse(First(fallback.taken, eligible))
      raw == WithoutLeadingAnswers(history, suffix)
  IN [raw |-> raw, artifact |-> artifact,
      sources |-> IF artifact > 0 THEN ToSet(omitted) ELSE {},
      estimate |-> Mandatory(prompt, system) + fallback.used + Tokens(artifact)
                   - Size(history, SubSeq(suffix, 1, Len(suffix) - Len(raw))),
      truncated |-> Len(eligible) - Len(raw)]

\* build.  When not everything fits and compaction is on, room is kept for an
\* artifact of what is omitted; without one the first selection stands.
BuildContext(history, prompt, system, blanks) ==
  LET eligible == Eligible(history)
      budget == HistoryBudget(prompt, system)
      fallback == Select(history, eligible, budget)
      reduced == Select(history, eligible, Max({0, budget - MaxCompactionTokens}))
      omitted == SubSeq(eligible, reduced.taken + 1, Len(eligible))
      artifact ==
        IF fallback.taken < Len(eligible) /\ MaxCompactionTokens > 0
          THEN Artifact(history, Reverse(omitted),
                        Min({MaxCompactionTokens, budget - reduced.used}), blanks)
          ELSE 0
      chosen == IF artifact > 0 THEN reduced ELSE fallback
      suffix == Reverse(First(chosen.taken, eligible))
      raw == WithoutLeadingAnswers(history, suffix)
      dropped == SubSeq(suffix, 1, Len(suffix) - Len(raw))
  IN [raw |-> raw,
      artifact |-> artifact,
      sources |-> IF artifact > 0 THEN ToSet(omitted) ELSE {},
      estimate |-> Mandatory(prompt, system) + chosen.used - Size(history, dropped)
                   + Tokens(artifact),
      truncated |-> Len(eligible) - Len(raw)]

-----------------------------------------------------------------------------
(* What a context should be, independently of how it is built.             *)

\* The estimate is what the messages that are sent come to, and leaves the
\* reserved room for the answer.
FitsWindow(history, prompt, system, context) ==
  /\ context.estimate = Mandatory(prompt, system) + Size(history, context.raw)
                          + Tokens(context.artifact)
  /\ context.estimate <= InputBudget
  /\ context.estimate - Mandatory(prompt, system) <= MaxHistoryTokens

\* The longest run of the newest eligible messages that costs at most budget.
Newest(history, eligible, budget) ==
  Max({n \in 0..Min({MaxHistoryMessages, Len(eligible)}) :
         Size(history, First(n, eligible)) <= budget})

\* raw is the largest newest part of the history that its budget allows, in
\* order, apart from leading answers, whose question was cut off: they are dropped and
\* in no artifact.  The artifact stands for what lies before that part, and there is
\* none when nothing does.
IsNewestPart(history, prompt, system, context) ==
  LET eligible == Eligible(history)
      budget == HistoryBudget(prompt, system)
      all == Newest(history, eligible, budget)
      n == IF context.artifact = 0 THEN all
             ELSE Newest(history, eligible, Max({0, budget - MaxCompactionTokens}))
      cut == ToSet(First(n, eligible)) \ ToSet(context.raw)
  IN /\ ToSet(context.raw) \subseteq ToSet(First(n, eligible))
     /\ \A i, j \in DOMAIN context.raw : i < j => context.raw[i] > context.raw[j]
     /\ \A k \in cut : history[k].role = "assistant"
                       /\ \A m \in ToSet(context.raw) : m < k
     /\ context.raw # <<>> => history[Head(context.raw)].role = "user"
     /\ context.artifact > 0 =>
          /\ all < Len(eligible)
          /\ context.sources = ToSet(SubSeq(eligible, n + 1, Len(eligible)))
     /\ context.truncated = Len(eligible) - Len(context.raw)

=============================================================================
