---------------------------- MODULE ProviderTurn ----------------------------
(***************************************************************************)
(* One turn with a provider, as the chat handler takes it after its        *)
(* exchange was persisted: prepare_provider searches the knowledge base,   *)
(* reads the history and builds the context (modules Retrieval and         *)
(* ContextConstruction); then the provider is called, by a stream          *)
(* (ProviderAdapters) or by a retried request (ProviderRetry).  The call   *)
(* of a verifier has a fixed prompt and begins with the request.           *)
(*                                                                         *)
(* What a later step does not read is forgotten, so that the cases of the  *)
(* steps add up instead of multiplying.                                    *)
(***************************************************************************)
EXTENDS Retrieval, ContextConstruction, ProviderAdapters, ProviderRetry

CONSTANTS
  Tenant,        \* the organization of the request
  Scopes,        \* the knowledge scopes a request may name, "none" when it names none
  BotPrompts, Prompts,   \* lengths of system prompts and of user prompts
  Histories,     \* the histories of a conversation
  BlankRuns      \* how many blanks may end a truncated payload

ASSUME TurnAssumption ==
  /\ BotPrompts \subseteq Nat /\ Prompts \subseteq Nat /\ BlankRuns \subseteq Nat
  /\ Histories \subseteq Seq([role: STRING, chars: Nat, status: STRING, own: BOOLEAN])

VARIABLES
  turn,          \* "prepare", "found", "history", "built", "post", "stream", "over"
  found,         \* the rows of the two queries and their fusion
  aborted,       \* the database transaction was aborted by a failed statement
  system,        \* length of the effective system prompt
  built,         \* history, prompt, system prompt and the context built of them
  call,          \* "primary" or "verifier"
  result         \* how the turn ended

prepareVars == <<found, aborted, system, built>>
turnVars == <<turn, prepareVars, call, result, adapterVars, retryVars>>

-----------------------------------------------------------------------------
Nothing == [vector |-> <<>>, fts |-> <<>>, ranked |-> <<>>]

NotBuilt == [history |-> <<>>, prompt |-> 0, system |-> 0, context |-> NoValue]

Found(vector, fts) == [vector |-> vector, fts |-> fts, ranked |-> Fused(vector, fts)]

EndsWith(r) ==
  /\ turn' = "over"
  /\ result' = r
  /\ found' = Nothing /\ built' = NotBuilt /\ aborted' = FALSE /\ system' = 0

-----------------------------------------------------------------------------
(* _knowledge_context and _combined_system_prompt                          *)

Search(scope) ==
  /\ turn = "prepare"
  /\ scope # "none" /\ Permitted(scope)
  /\ \E v \in VectorRows(Tenant, scope), t \in TextRows(Tenant, scope) :
       found' = Found(v, t)
  /\ turn' = "found"
  /\ UNCHANGED <<aborted, system, built, call, result, adapterVars, retryVars>>

\* The exception of the text query is swallowed, and its transaction stays aborted.
TextQueryFails(scope) ==
  /\ turn = "prepare"
  /\ scope # "none" /\ Permitted(scope)
  /\ \E v \in VectorRows(Tenant, scope) : found' = Found(v, <<>>)
  /\ turn' = "found"
  /\ aborted' = TRUE
  /\ UNCHANGED <<system, built, call, result, adapterVars, retryVars>>

\* No permission, or the provider, the embedding or the vector query fails.
PrepareFails ==
  /\ turn = "prepare"
  /\ EndsWith("provider_failure")
  /\ UNCHANGED <<call, adapterVars, retryVars>>

\* Without a knowledge scope there is no search.
Combine(scope, bot) ==
  /\ \/ turn = "prepare" /\ scope = "none"
     \/ turn = "found"
  /\ system' = CombinedChars(bot, KnowledgeChars(found.ranked))
  /\ found' = Nothing
  /\ turn' = "history"
  /\ UNCHANGED <<aborted, built, call, result, adapterVars, retryVars>>

-----------------------------------------------------------------------------
(* The history query and ConversationContextBuilder.build                  *)

Build ==
  /\ turn = "history"
  /\ ~aborted
  /\ \E prompt \in Prompts :
       /\ ~Rejects(prompt, system)
       /\ \E history \in Histories, blanks \in BlankRuns :
            built' = [history |-> history, prompt |-> prompt, system |-> system,
                      context |-> BuildContext(history, prompt, system, blanks)]
  /\ turn' = "built"
  /\ system' = 0
  /\ UNCHANGED <<found, aborted, call, result, adapterVars, retryVars>>

RejectContext(prompt) ==
  /\ turn = "history"
  /\ ~aborted
  /\ Rejects(prompt, system)
  /\ EndsWith("context_rejected")
  /\ UNCHANGED <<call, adapterVars, retryVars>>

\* The query fails: always in an aborted transaction.
HistoryFails ==
  /\ turn = "history"
  /\ EndsWith("provider_failure")
  /\ UNCHANGED <<call, adapterVars, retryVars>>

-----------------------------------------------------------------------------
(* The call                                                                *)

StartStream ==
  /\ turn = "built"
  /\ \E a \in DOMAIN Wire, m \in {"stream", "stream_with_usage"} : OpenStream(a, m)
  /\ turn' = "stream"
  /\ built' = NotBuilt
  /\ UNCHANGED <<found, aborted, system, call, result, retryVars>>

StartPost ==
  /\ turn = "built"
  /\ turn' = "post"
  /\ built' = NotBuilt
  /\ UNCHANGED <<found, aborted, system, call, result, adapterVars, retryVars>>

StartVerifier ==
  /\ turn = "prepare"
  /\ turn' = "post"
  /\ call' = "verifier"
  /\ UNCHANGED <<prepareVars, result, adapterVars, retryVars>>

Streaming ==
  /\ turn = "stream"
  /\ StreamStep
  /\ UNCHANGED <<turn, prepareVars, call, result, retryVars>>

Posting ==
  /\ turn = "post"
  /\ RetryStep
  /\ UNCHANGED <<turn, prepareVars, call, result, adapterVars>>

\* _parse_verification: anything but an explicit PASS leaves the answer unverified.
\* A JSON value that is no object raises.
Verdict(raw) ==
  CASE raw = "PASS" -> "verified"
    [] raw = "array" -> "internal"
    [] OTHER -> "unverified"

\* What the caller of execute gets.
Answered(a, body, raw) ==
  LET status == results[Len(results)]
      read == IF call = "primary" THEN DecodedWithUsage(a, body)
                                  ELSE Decoded(a, status, body)
  IN CASE pc = "timed_out" -> "timeout"
       [] pc = "raised" -> "upstream"
       [] OTHER -> IF call = "verifier" /\ read \in {"text", "empty"} THEN Verdict(raw) ELSE read

Decode ==
  /\ turn = "post"
  /\ Ended
  /\ \E a \in DOMAIN Wire, body \in Bodies,
        raw \in {"PASS", "FAIL", "UNCERTAIN", "array", "other"} :
       EndsWith(Answered(a, body, raw))
  /\ UNCHANGED <<call, adapterVars, retryVars>>

-----------------------------------------------------------------------------
TurnInit ==
  /\ turn = "prepare"
  /\ found = Nothing
  /\ aborted = FALSE
  /\ system = 0
  /\ built = NotBuilt
  /\ call = "primary"
  /\ result = NoValue
  /\ AdapterInit
  /\ RetryInit

TurnNext ==
  \/ \E s \in Scopes : Search(s) \/ TextQueryFails(s)
                       \/ \E b \in BotPrompts : Combine(s, b)
  \/ PrepareFails
  \/ Build
  \/ \E p \in Prompts : RejectContext(p)
  \/ HistoryFails
  \/ StartStream \/ StartPost \/ StartVerifier
  \/ Streaming \/ Posting \/ Decode

TurnSpec == TurnInit /\ [][TurnNext]_turnVars

-----------------------------------------------------------------------------
(* Properties                                                              *)

\* What is sent to the provider is estimated exactly, leaves the reserved room for
\* the answer in the model's window, and spends at most the history's allowance on
\* the history, the compaction artifact included.
ContextFits ==
  turn = "built" => FitsWindow(built.history, built.prompt, built.system, built.context)

\* The history that is sent is the newest part that fits, in order, beginning with
\* a question; what a compaction stands for is exactly the rest.
ContextIsNewestPart ==
  turn = "built" => IsNewestPart(built.history, built.prompt, built.system, built.context)

\* The merged ranking agrees with both queries wherever they agree with each other.
RankingIsFused ==
  turn = "found" => IsFusion(found.vector, found.fts, found.ranked)

=============================================================================
