------------------------- MODULE ConversationState -------------------------
(***************************************************************************)
(* One conversation: the aggregate of domains/conversations/state.py, its  *)
(* mapping to the versioned row (application/conversation_state.py) and    *)
(* the DELETE route of api/v1/conversations.py, which archives.            *)
(*                                                                         *)
(* rename and reopen have no route and are left out: nothing that runs     *)
(* leaves the lifecycle "archived".                                        *)
(***************************************************************************)
EXTENDS Naturals

CONSTANTS
  Deleters,      \* clients of DELETE /conversations/{id}
  Nobody

ASSUME NobodyAssumption == Nobody \notin Deleters

VARIABLES
  conv,          \* the conversations row; archivedAt names the request that set it
  pc,            \* pc[d]: where the request of d is, or its response status
  loaded         \* loaded[d]: the row as the session of d read it

convVars == <<conv, pc, loaded>>

-----------------------------------------------------------------------------
Absent == [lifecycle |-> "absent", version |-> 0, archivedAt |-> Nobody]

Conversations ==
  [lifecycle: {"absent", "active", "archived"}, version: 0..2,
   archivedAt: Deleters \cup {Nobody}]

Answers == {"204", "404", "409", "500"}

\* ConversationAggregate.create and new_conversation.
CreateConversation ==
  /\ conv = Absent
  /\ conv' = [lifecycle |-> "active", version |-> 1, archivedAt |-> Nobody]
  /\ UNCHANGED <<pc, loaded>>

\* ConversationAggregate.archive: an archived aggregate is returned as it is.
Archived(agg, d) ==
  IF agg.lifecycle = "archived"
    THEN agg
    ELSE [lifecycle |-> "archived", version |-> agg.version + 1, archivedAt |-> d]

\* The tenant- and owner-bound select.
Load(d) ==
  /\ pc[d] \in {"idle"} \cup Answers
  /\ loaded' = [loaded EXCEPT ![d] = conv]
  /\ pc' = [pc EXCEPT ![d] = IF conv = Absent THEN "404" ELSE "loaded"]
  /\ UNCHANGED conv

\* An unchanged aggregate is not flushed; a changed one is, WHERE version is the
\* version that was loaded.
Flushed(d) == Archived(loaded[d], d) # loaded[d]

Current(d) == conv.version = loaded[d].version

\* The commit; one that is applied may still be reported as failed.
Commit(d) ==
  /\ pc[d] = "loaded"
  /\ Flushed(d) => Current(d)
  /\ conv' = IF Flushed(d) THEN Archived(loaded[d], d) ELSE conv
  /\ \E a \in {"204", "500"} : pc' = [pc EXCEPT ![d] = a]
  /\ UNCHANGED loaded

CommitStale_Accepted(d) ==
  /\ pc[d] = "loaded"
  /\ Flushed(d) /\ ~Current(d)
  /\ pc' = [pc EXCEPT ![d] = "204"]
  /\ UNCHANGED <<conv, loaded>>

\* StaleDataError: the transaction is rolled back.
CommitStale(d) ==
  /\ pc[d] = "loaded"
  /\ Flushed(d) /\ ~Current(d)
  /\ pc' = [pc EXCEPT ![d] = "409"]
  /\ UNCHANGED <<conv, loaded>>

\* Any other database error; nothing is applied.
CommitFails(d) ==
  /\ pc[d] = "loaded"
  /\ pc' = [pc EXCEPT ![d] = "500"]
  /\ UNCHANGED <<conv, loaded>>

-----------------------------------------------------------------------------
ConvInit ==
  /\ conv = Absent
  /\ pc = [d \in Deleters |-> "idle"]
  /\ loaded = [d \in Deleters |-> Absent]

ConvNext ==
  \/ CreateConversation
  \/ \E d \in Deleters : Load(d) \/ Commit(d) \/ CommitStale(d) \/ CommitFails(d)

ConvSpec == ConvInit /\ [][ConvNext]_convVars

-----------------------------------------------------------------------------
(* Properties                                                              *)

\* Every variable stays in its type; the row satisfies its check constraints.
ConvTypeOK ==
  /\ conv \in Conversations
  /\ conv.lifecycle = "archived" <=> conv.archivedAt # Nobody
  /\ pc \in [Deleters -> {"idle", "loaded"} \cup Answers]
  /\ loaded \in [Deleters -> Conversations]

\* Archiving is idempotent: of requests that loaded the conversation while it was
\* active one archives it, and neither the others nor their retries move its
\* archive time or its version.
ArchivedOnce == [][conv.lifecycle = "archived" => UNCHANGED conv]_convVars

\* The loser of two concurrent requests is told (409), never silently accepted:
\* of the requests that saw the conversation active only the one that archived
\* it is answered 204.
AcceptedArchived ==
  \A d \in Deleters : pc[d] = "204" =>
    /\ conv.lifecycle = "archived"
    /\ loaded[d].lifecycle = "active" => conv.archivedAt = d

=============================================================================
