----------------------------- MODULE Retrieval -----------------------------
(***************************************************************************)
(* Hybrid retrieval (domains/documents/rag_service.py) and the system      *)
(* prompt made of its results (application/business_features.py).          *)
(*                                                                         *)
(* The two queries return chunks in an order the database determines; they *)
(* are merged by reciprocal rank fusion.                                   *)
(***************************************************************************)
EXTENDS Integers, Sequences, FiniteSets, SequencesExt, FiniteSetsExt, Functions

CONSTANTS
  Corpus,          \* Corpus[c]: organization, visibility, scope and length of chunk c,
                   \* "null" where the metadata has no value
  SearchLimit,     \* limit of hybrid_search
  FetchFloor,      \* the least number of rows each query asks for
  RrfK,
  PreambleChars, SourceChars    \* the fixed text of the knowledge context

ASSUME RetrievalAssumption ==
  /\ IsFiniteSet(DOMAIN Corpus) /\ \A c \in DOMAIN Corpus : Corpus[c].chars \in Nat
  /\ SearchLimit \in Nat \ {0} /\ FetchFloor \in Nat /\ RrfK \in Nat \ {0}
  /\ PreambleChars \in Nat /\ SourceChars \in Nat

Chunks == DOMAIN Corpus

FetchN == Max({SearchLimit * 4, FetchFloor})

\* A private search needs a verified caller, whom the chat does not pass on.
Permitted(scope) == scope # "private"

\* _scope_clause, with the tenant filter of both queries.
InScope(c, org, scope) ==
  /\ Corpus[c].organization = org
  /\ CASE scope = "organization" -> TRUE
       [] scope = "public" -> Corpus[c].visibility \in {"null", "public"}
       [] OTHER -> Corpus[c].scope = scope

\* What the vector query may return: every visible chunk, in some order.
VectorRows(org, scope) ==
  LET visible == {c \in Chunks : InScope(c, org, scope)} IN
  Injection(1..Min({FetchN, Cardinality(visible)}), visible)

\* What the text query may return: the visible chunks that match, in some order.
TextRows(org, scope) ==
  LET visible == {c \in Chunks : InScope(c, org, scope)} IN
  UNION {Injection(1..n, visible) : n \in 0..Min({FetchN, Cardinality(visible)})}

-----------------------------------------------------------------------------
(* Reciprocal rank fusion, as fractions.                                   *)

Rank(s, c) == CHOOSE i \in DOMAIN s : s[i] = c

Reciprocal(s, c) ==
  IF c \in ToSet(s) THEN [num |-> 1, den |-> RrfK + Rank(s, c)] ELSE [num |-> 0, den |-> 1]

Plus(a, b) == [num |-> a.num * b.den + b.num * a.den, den |-> a.den * b.den]

Greater(a, b) == a.num * b.den > b.num * a.den

Score_LastWins(vector, fts, c) ==
  IF c \in ToSet(fts) THEN Reciprocal(fts, c) ELSE Reciprocal(vector, c)

Score(vector, fts, c) == Plus(Reciprocal(vector, c), Reciprocal(fts, c))

\* When c was put into the dictionary of scores: first the rows of the vector query,
\* then those that only the text query returned.
Inserted(vector, fts, c) ==
  IF c \in ToSet(vector) THEN Rank(vector, c) ELSE Len(vector) + Rank(fts, c)

\* sorted(..., reverse=True) keeps the order of equal scores.
Sooner(vector, fts, d, c) ==
  \/ Greater(Score(vector, fts, d), Score(vector, fts, c))
  \/ /\ ~Greater(Score(vector, fts, c), Score(vector, fts, d))
     /\ Inserted(vector, fts, d) < Inserted(vector, fts, c)

Fused(vector, fts) ==
  LET rows == ToSet(vector) \cup ToSet(fts) IN
  [k \in 1..Min({SearchLimit, Cardinality(rows)}) |->
     CHOOSE c \in rows : Cardinality({d \in rows : Sooner(vector, fts, d, c)}) = k - 1]

-----------------------------------------------------------------------------
\* build_knowledge_system_context: its length, 0 when no result has content.
KnowledgeChars(found) ==
  LET told == {c \in ToSet(found) : Corpus[c].chars > 0} IN
  IF told = {} THEN 0
    ELSE PreambleChars + SumFunctionOnSet([c \in told |-> SourceChars + Corpus[c].chars], told)

\* _combined_system_prompt: the parts that are not blank, joined by two newlines.
CombinedChars(bot, knowledge) ==
  bot + knowledge + IF bot > 0 /\ knowledge > 0 THEN 2 ELSE 0

-----------------------------------------------------------------------------
\* c is ranked no worse than d by both queries, and better by one of them.
NoWorse(s, c, d) == d \in ToSet(s) => c \in ToSet(s) /\ Rank(s, c) <= Rank(s, d)

Dominates(vector, fts, c, d) ==
  c # d /\ NoWorse(vector, c, d) /\ NoWorse(fts, c, d)

\* No chunk is returned twice, none that both queries prefer is returned later or
\* not at all, and nothing is left out while there is room.
IsFusion(vector, fts, found) ==
  /\ IsInjective(found)
  /\ Len(found) = Min({SearchLimit, Cardinality(ToSet(vector) \cup ToSet(fts))})
  /\ \A i \in DOMAIN found : \A c \in ToSet(vector) \cup ToSet(fts) :
       Dominates(vector, fts, c, found[i]) => \E j \in 1..i - 1 : found[j] = c

=============================================================================
