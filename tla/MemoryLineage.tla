--------------------------- MODULE MemoryLineage ---------------------------
(***************************************************************************)
(* Durable memory: DurableMemoryStore (application/memory_runtime.py) and  *)
(* ProvenanceResolver (application/provenance.py).                         *)
(*                                                                         *)
(* A session is a client of /memory: a user acting in its active           *)
(* organization, one request after the other.  A request gives up the      *)
(* processor at each database call; the requests of other sessions run in  *)
(* between, on transactions of their own.                                  *)
(*                                                                         *)
(* The content of record i is written i and its SHA-256 digest is written  *)
(* like the content it was taken of; a digest a caller made up is Forged.  *)
(***************************************************************************)
EXTENDS Naturals, Sequences

CONSTANTS
  Sessions, Items, Messages,
  User(_), Org(_), IsAdmin(_),   \* of a session; admin stands for owner and admin
  MessageOrg(_), MessageUser(_), \* tenant and conversation owner of a message
  Claims,                        \* the provenance dictionaries callers submit
  MaxDepth(_),                   \* max_depth of the resolver that serves a session
  None, Forged

\* A memory item is no message, and None (SQL's NULL) is neither.
ASSUME MemoryAssumption ==
  /\ \A s \in Sessions : MaxDepth(s) \in Nat \ {0}
  /\ Items \cap Messages = {}
  /\ None \notin Items \cup Messages

VARIABLES
  records,       \* records[i]: the memory_records row with item_id i
  completed,     \* the messages with status "completed"
  pc,            \* pc[s]: what the request of s does next
  draft,         \* draft[s]: the arguments of the create or delete of s
  trace          \* trace[s]: the provenance answer of s so far

memoryVars == <<records, completed, pc, draft, trace>>

-----------------------------------------------------------------------------
Users == {User(s) : s \in Sessions}
Orgs == {Org(s) : s \in Sessions}
Scopes == {"user", "organization"}
Digests == Items \cup Messages \cup {None, Forged}

AbsentRecord == [exists |-> FALSE]

Records ==
  [exists: {TRUE}, org: Orgs, owner: Users \cup {None}, actor: Users,
   scope: Scopes, message: Messages \cup {None}, memory: Items \cup {None},
   digest: Digests, sourceDigest: Digests, deleted: BOOLEAN]

\* The arguments of a create; of a delete only the item is kept.
Drafts ==
  [item: Items \cup {None}, message: Messages \cup {None}, scope: Scopes, claim: Claims]

NoDraft == [item |-> None]

Nodes ==
  [ref: Items \cup Messages \cup {None},
   integrity: {"verified", "mismatch", "source_mismatch", "unavailable"}]

Traces ==
  [at: Items \cup {None}, nodes: Seq(Nodes),
   end: {"none", "depth_limit", "cycle", "unavailable", "integrity_failure", "source",
         "declared"}]

NoTrace == [at |-> None, nodes |-> <<>>, end |-> "none"]

\* The where clause shared by get, list and the resolver.
Visible(s, i) ==
  /\ records[i].exists
  /\ records[i].org = Org(s)
  /\ records[i].scope = "organization" \/ records[i].owner = User(s)

Get(s, i) == Visible(s, i) /\ ~records[i].deleted

\* Organization memory is changed by owners and admins only.
MutationScope(s, scope) == scope = "organization" => IsAdmin(s)

MessageUsable(s, m, scope) ==
  /\ m \in completed
  /\ MessageOrg(m) = Org(s)
  /\ scope = "user" => MessageUser(m) = User(s)

-----------------------------------------------------------------------------
(* create                                                                  *)

\* The arguments are validated and the source message, if any, is loaded.
\* A request refused here (403, 422) leaves no trace.
Create(s) ==
  /\ pc[s] = "idle"
  /\ \E scope \in Scopes, m \in Messages \cup {None}, i \in Items \cup {None},
        claim \in Claims :
       /\ MutationScope(s, scope)
       /\ m # None => MessageUsable(s, m, scope)
       /\ draft' = [draft EXCEPT ![s] =
                      [item |-> i, message |-> m, scope |-> scope, claim |-> claim]]
       /\ pc' = [pc EXCEPT ![s] = IF i = None THEN "insert" ELSE "source"]
  /\ UNCHANGED <<records, completed, trace>>

\* The source memory is looked up as the caller sees it.
LoadSource(s) ==
  /\ pc[s] = "source"
  /\ pc' = [pc EXCEPT ![s] = IF Get(s, draft[s].item) THEN "insert" ELSE "idle"]
  /\ draft' = IF pc'[s] = "idle" THEN [draft EXCEPT ![s] = NoDraft] ELSE draft
  /\ UNCHANGED <<records, completed, trace>>

\* The digests the server vouches for.  A source message overrides the digest of
\* a source memory.
Authoritative(i, d) ==
  [content |-> i, source |-> IF d.message # None THEN d.message ELSE d.item]

\* {**g, **f}
Merged(g, f) ==
  [k \in DOMAIN g \cup DOMAIN f |-> IF k \in DOMAIN f THEN f[k] ELSE g[k]]

Provenance_CallerWins(i, d) == Merged(Authoritative(i, d), d.claim)

\* Caller metadata comes first and is overridden.
Provenance(i, d) == Merged(d.claim, Authoritative(i, d))

\* The record is committed under a new item_id.
Insert(s) ==
  /\ pc[s] = "insert"
  /\ \E i \in Items :
       /\ ~records[i].exists
       /\ LET d == draft[s]
              p == Provenance(i, d)
          IN  records' = [records EXCEPT ![i] =
                [exists |-> TRUE, org |-> Org(s),
                 owner |-> IF d.scope = "user" THEN User(s) ELSE None,
                 actor |-> User(s), scope |-> d.scope, message |-> d.message,
                 memory |-> d.item, digest |-> p.content,
                 sourceDigest |-> p.source, deleted |-> FALSE]]
  /\ pc' = [pc EXCEPT ![s] = "idle"]
  /\ draft' = [draft EXCEPT ![s] = NoDraft]
  /\ UNCHANGED <<completed, trace>>

\* The item_id pool of the model is used up: the request is dropped.
PoolEmpty(s) ==
  /\ pc[s] = "insert"
  /\ \A i \in Items : records[i].exists
  /\ pc' = [pc EXCEPT ![s] = "idle"]
  /\ draft' = [draft EXCEPT ![s] = NoDraft]
  /\ UNCHANGED <<records, completed, trace>>

-----------------------------------------------------------------------------
(* delete                                                                  *)

\* The record is read and the caller's authority over it checked.
Delete(s) ==
  /\ pc[s] = "idle"
  /\ \E i \in Items :
       /\ Get(s, i)
       /\ MutationScope(s, records[i].scope)
       /\ draft' = [draft EXCEPT ![s] = [item |-> i]]
  /\ pc' = [pc EXCEPT ![s] = "delete"]
  /\ UNCHANGED <<records, completed, trace>>

\* deleted_at is set by a later statement, whatever happened in between.
CommitDelete(s) ==
  /\ pc[s] = "delete"
  /\ records' = [records EXCEPT ![draft[s].item].deleted = TRUE]
  /\ pc' = [pc EXCEPT ![s] = "idle"]
  /\ draft' = [draft EXCEPT ![s] = NoDraft]
  /\ UNCHANGED <<completed, trace>>

-----------------------------------------------------------------------------
(* trace                                                                   *)

Node(ref, integrity) == [ref |-> ref, integrity |-> integrity]

Checked(expected, actual, verdict) == IF expected = actual THEN "verified" ELSE verdict

MemoryNode(i) == Node(i, Checked(records[i].digest, i, "mismatch"))

\* The items seen so far, each the item of a node.
Seen(t) == {t.nodes[k].ref : k \in 1..Len(t.nodes)}

Ended(t, nodes, end) == [t EXCEPT !.nodes = t.nodes \o nodes, !.end = end]

\* What one round of the loop of trace makes of t; include_deleted = True.
FollowMemory_AnyScope(s, t) ==
  LET i == t.at
      j == records[i].memory
  IN  IF ~(records[j].exists /\ records[j].org = Org(s))
        THEN Ended(t, <<MemoryNode(i), Node(None, "unavailable")>>, "unavailable")
      ELSE IF records[i].sourceDigest # j
        THEN Ended(t, <<MemoryNode(i), Node(j, "source_mismatch")>>, "integrity_failure")
      ELSE [t EXCEPT !.at = j, !.nodes = Append(t.nodes, MemoryNode(i))]

FollowMemory_LiveOnly(s, t) ==
  LET i == t.at
      j == records[i].memory
  IN  IF ~Get(s, j)
        THEN Ended(t, <<MemoryNode(i), Node(None, "unavailable")>>, "unavailable")
      ELSE IF records[i].sourceDigest # j
        THEN Ended(t, <<MemoryNode(i), Node(j, "source_mismatch")>>, "integrity_failure")
      ELSE [t EXCEPT !.at = j, !.nodes = Append(t.nodes, MemoryNode(i))]

FollowMemory(s, t) ==
  LET i == t.at
      j == records[i].memory
  IN  IF ~Visible(s, j)
        THEN Ended(t, <<MemoryNode(i), Node(None, "unavailable")>>, "unavailable")
      ELSE IF records[i].sourceDigest # j
        THEN Ended(t, <<MemoryNode(i), Node(j, "source_mismatch")>>, "integrity_failure")
      ELSE [t EXCEPT !.at = j, !.nodes = Append(t.nodes, MemoryNode(i))]

FollowMessage(s, t) ==
  LET i == t.at
      m == records[i].message
  IN  IF MessageOrg(m) # Org(s)
        THEN Ended(t, <<MemoryNode(i), Node(None, "unavailable")>>, "unavailable")
        ELSE Ended(t, <<MemoryNode(i),
                        Node(m, Checked(records[i].sourceDigest, m, "source_mismatch"))>>,
                   "source")

\* One round of the loop: at most MaxDepth(s) of them, one record each.
Round(s, t) ==
  CASE Len(t.nodes) = MaxDepth(s) -> Ended(t, <<>>, "depth_limit")
    [] Len(t.nodes) < MaxDepth(s) /\ t.at \in Seen(t) -> Ended(t, <<>>, "cycle")
    [] OTHER ->
         IF records[t.at].memory # None THEN FollowMemory(s, t)
         ELSE IF records[t.at].message # None THEN FollowMessage(s, t)
         ELSE Ended(t, <<MemoryNode(t.at)>>, "declared")

\* The root must be live; its sources need not be.
Trace(s) ==
  /\ pc[s] = "idle"
  /\ \E i \in Items :
       /\ Get(s, i)
       /\ trace' = [trace EXCEPT ![s] = [NoTrace EXCEPT !.at = i]]
  /\ pc' = [pc EXCEPT ![s] = "trace"]
  /\ UNCHANGED <<records, completed, draft>>

TraceStep(s) ==
  /\ pc[s] = "trace"
  /\ trace' = [trace EXCEPT ![s] = Round(s, @)]
  /\ pc' = [pc EXCEPT ![s] = IF trace'[s].end = "none" THEN "trace" ELSE "traced"]
  /\ UNCHANGED <<records, completed, draft>>

\* The answer is sent and the session goes on.
Answered(s) ==
  /\ pc[s] = "traced"
  /\ trace' = [trace EXCEPT ![s] = NoTrace]
  /\ pc' = [pc EXCEPT ![s] = "idle"]
  /\ UNCHANGED <<records, completed, draft>>

-----------------------------------------------------------------------------
\* The chat completes a message.
FinishMessage(m) ==
  /\ m \notin completed
  /\ completed' = completed \cup {m}
  /\ UNCHANGED <<records, pc, draft, trace>>

MemoryInit ==
  /\ records = [i \in Items |-> AbsentRecord]
  /\ completed = {}
  /\ pc = [s \in Sessions |-> "idle"]
  /\ draft = [s \in Sessions |-> NoDraft]
  /\ trace = [s \in Sessions |-> NoTrace]

MemoryNext ==
  \/ \E s \in Sessions :
       \/ Create(s) \/ LoadSource(s) \/ Insert(s) \/ PoolEmpty(s)
       \/ Delete(s) \/ CommitDelete(s)
       \/ Trace(s) \/ TraceStep(s) \/ Answered(s)
  \/ \E m \in Messages : FinishMessage(m)

MemorySpec == MemoryInit /\ [][MemoryNext]_memoryVars

-----------------------------------------------------------------------------
(* Properties                                                              *)

\* Every variable stays in its type.
MemoryTypeOK ==
  /\ records \in [Items -> Records \cup {AbsentRecord}]
  /\ completed \subseteq Messages
  /\ pc \in [Sessions -> {"idle", "source", "insert", "delete", "trace", "traced"}]
  /\ draft \in [Sessions -> Drafts \cup [item: Items \cup {None}]]
  /\ trace \in [Sessions -> Traces]
  /\ \A s \in Sessions : Len(trace[s].nodes) <= MaxDepth(s) + 1

\* No provenance answer names a memory item its reader may not see, however the
\* lineage crosses from one user's memory through organization memory to
\* another's.
TraceIsVisible ==
  \A s \in Sessions : \A k \in 1..Len(trace[s].nodes) :
    trace[s].nodes[k].ref \in Items => Visible(s, trace[s].nodes[k].ref)

\* A finished answer is the lineage of its root: each node is the source of the
\* one before it, and the answer stops where the lineage stops, at the first
\* hidden record, or at the depth limit.  A source deleted meanwhile does not
\* cut it short, and no lineage is ever circular.
TraceIsLineage ==
  \A s \in Sessions : pc[s] = "traced" =>
    LET t == trace[s]
        n == Len(t.nodes)
        last == records[t.at]
    IN  /\ \A k \in 1..n - 1 :
             LET src == records[t.nodes[k].ref] IN
             t.nodes[k + 1].ref \in {None, IF src.memory # None THEN src.memory
                                                               ELSE src.message}
        /\ CASE t.end = "declared" -> last.memory = None /\ last.message = None
             [] t.end = "source" -> last.memory = None /\ t.nodes[n].ref = last.message
             [] t.end = "unavailable" -> last.memory # None /\ ~Visible(s, last.memory)
             [] t.end = "integrity_failure" -> last.memory # None /\ last.message # None
             [] t.end = "depth_limit" -> n = MaxDepth(s)
             [] OTHER -> FALSE

\* The digests check out whatever the caller put into its provenance, except at a
\* record that names two sources.
DigestsVerify ==
  \A s \in Sessions : \A k \in 1..Len(trace[s].nodes) :
    LET node == trace[s].nodes[k] IN
    node.integrity \in {"mismatch", "source_mismatch"} =>
      records[trace[s].at].memory # None /\ records[trace[s].at].message # None

=============================================================================
