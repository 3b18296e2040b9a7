---------------------------- MODULE MemoryProofs ----------------------------
(***************************************************************************)
(* Durable memory and its provenance answers, for any number of sessions,  *)
(* items and messages and every depth limit.                               *)
(*                                                                         *)
(* A row is written once and afterwards only marked deleted, so what a     *)
(* trace found out about the records behind it stays true while other      *)
(* sessions write.  A source is loaded before the record that names it is  *)
(* inserted: no set of records is closed under sources, hence no trace     *)
(* ever comes back to a record it has seen.                                *)
(***************************************************************************)
EXTENDS MemoryLineage, TLAPS

\* What the server vouches for in a row: its digests, the tenant of its source
\* message, and the existence of its source memory.
RecordShape ==
  \A i \in Items : records[i].exists =>
    /\ records[i].digest = i
    /\ records[i].sourceDigest = IF records[i].message # None THEN records[i].message
                                                              ELSE records[i].memory
    /\ records[i].message # None => MessageOrg(records[i].message) = records[i].org
    /\ records[i].memory # None => records[records[i].memory].exists

\* S contains the source memory of each of its records.
Closed(S) == \A i \in S : records[i].exists /\ records[i].memory \in S

NoCircle == \A S \in SUBSET Items : S # {} => ~Closed(S)

\* The arguments of a request in progress, and what was found out about them.
DraftFits(s) ==
  /\ pc[s] \in {"source", "insert"} =>
       /\ draft[s] \in Drafts
       /\ draft[s].message # None => MessageOrg(draft[s].message) = Org(s)
  /\ pc[s] = "source" => draft[s].item \in Items
  /\ pc[s] = "insert" /\ draft[s].item # None => records[draft[s].item].exists
  /\ pc[s] = "delete" => draft[s].item \in Items /\ records[draft[s].item].exists

DraftShape == \A s \in Sessions : DraftFits(s)

\* A trace on its way: a verified chain of sources the reader may see, from its root
\* to the record it looks at next.
Walking(s, t) ==
  /\ t.end = "none" /\ Len(t.nodes) <= MaxDepth(s)
  /\ t.at \in Items /\ Visible(s, t.at)
  /\ \A k \in 1..Len(t.nodes) :
       /\ t.nodes[k].ref \in Items /\ Visible(s, t.nodes[k].ref)
       /\ t.nodes[k].integrity = "verified"
       /\ records[t.nodes[k].ref].memory =
            IF k < Len(t.nodes) THEN t.nodes[k + 1].ref ELSE t.at

\* The source a record names: its memory before its message.
SourceOf(i) == IF records[i].memory # None THEN records[i].memory ELSE records[i].message

\* How a trace at record i may end.
EndFits(s, t) ==
  LET i == t.at
      n == Len(t.nodes)
  IN  \/ t.end = "declared" /\ records[i].memory = None /\ records[i].message = None
      \/ t.end = "source" /\ records[i].memory = None /\ t.nodes[n].ref = records[i].message
      \/ t.end = "unavailable" /\ records[i].memory # None /\ ~Visible(s, records[i].memory)
      \/ t.end = "integrity_failure" /\ records[i].memory # None /\ records[i].message # None
      \/ t.end = "depth_limit" /\ n = MaxDepth(s)

\* A finished trace.
Finished(s, t) ==
  /\ Len(t.nodes) <= MaxDepth(s) + 1
  /\ t.at \in Items /\ records[t.at].exists
  /\ \A k \in 1..Len(t.nodes) :
       /\ t.nodes[k].ref \in Items => Visible(s, t.nodes[k].ref)
       /\ t.nodes[k].integrity \in {"mismatch", "source_mismatch"} =>
            records[t.at].memory # None /\ records[t.at].message # None
       /\ k < Len(t.nodes) =>
            /\ t.nodes[k].ref \in Items
            /\ t.nodes[k + 1].ref \in {None, SourceOf(t.nodes[k].ref)}
  /\ EndFits(s, t)

TraceFits(s) ==
  /\ pc[s] \in {"idle", "source", "insert", "delete"} => trace[s] = NoTrace
  /\ pc[s] = "trace" => Walking(s, trace[s])
  /\ pc[s] = "traced" => Finished(s, trace[s])

TraceShape == \A s \in Sessions : TraceFits(s)

\* The inductive invariant.
MemoryInv ==
  /\ MemoryTypeOK
  /\ RecordShape
  /\ NoCircle
  /\ DraftShape
  /\ TraceShape

-----------------------------------------------------------------------------
(* Rows                                                                    *)

\* A row that exists stays, and only its deleted mark may change.
RowsKept ==
  \A i \in Items : records[i].exists =>
    /\ records'[i].exists
    /\ records'[i].org = records[i].org /\ records'[i].owner = records[i].owner
    /\ records'[i].scope = records[i].scope
    /\ records'[i].message = records[i].message /\ records'[i].memory = records[i].memory
    /\ records'[i].digest = records[i].digest
    /\ records'[i].sourceDigest = records[i].sourceDigest

\* What the database holds of a record that exists is typed.
LEMMA RowTyped ==
  ASSUME MemoryTypeOK, NEW i \in Items
  PROVE  /\ records[i].exists \in BOOLEAN
         /\ records[i].exists => records[i] \in Records
<1>1. records[i] \in Records \/ records[i] = AbsentRecord
  BY DEF MemoryTypeOK
<1>2. CASE records[i] \in Records
  BY <1>2 DEF Records
<1>3. CASE records[i] = AbsentRecord
  <2>1. records[i].exists = FALSE
    BY <1>3 DEF AbsentRecord
  <2> QED
    BY <2>1
<1> QED
  BY <1>1, <1>2, <1>3

\* Whoever sees a record, and whoever does not, goes on doing so.
LEMMA SightKept ==
  ASSUME RowsKept, NEW s, NEW i \in Items, records[i].exists
  PROVE  Visible(s, i)' <=> Visible(s, i)
<1>1. /\ records'[i].exists /\ records'[i].org = records[i].org
      /\ records'[i].owner = records[i].owner /\ records'[i].scope = records[i].scope
  BY DEF RowsKept
<1> QED
  BY <1>1 DEF Visible

\* The trace of a session that does not move stays as good as it was.
LEMMA WalkingKept ==
  ASSUME MemoryTypeOK, RowsKept, NEW s, NEW t, Walking(s, t)
  PROVE  Walking(s, t)'
<1>1. /\ t.end = "none" /\ Len(t.nodes) <= MaxDepth(s) /\ t.at \in Items /\ Visible(s, t.at)'
  BY SightKept DEF Walking, Visible
<1>2. ASSUME NEW k \in 1..Len(t.nodes)
      PROVE  /\ t.nodes[k].ref \in Items /\ Visible(s, t.nodes[k].ref)'
             /\ t.nodes[k].integrity = "verified"
             /\ records'[t.nodes[k].ref].memory =
                  IF k < Len(t.nodes) THEN t.nodes[k + 1].ref ELSE t.at
  <2>1. /\ t.nodes[k].ref \in Items /\ Visible(s, t.nodes[k].ref)
        /\ t.nodes[k].integrity = "verified"
        /\ records[t.nodes[k].ref].memory =
             IF k < Len(t.nodes) THEN t.nodes[k + 1].ref ELSE t.at
    BY DEF Walking
  <2>2. records[t.nodes[k].ref].exists
    BY <2>1 DEF Visible
  <2>3. records'[t.nodes[k].ref].memory = records[t.nodes[k].ref].memory
    BY <2>1, <2>2 DEF RowsKept
  <2>4. Visible(s, t.nodes[k].ref)'
    BY <2>1, <2>2, SightKept
  <2> QED
    BY <2>1, <2>3, <2>4
<1> QED
  BY <1>1, <1>2 DEF Walking

LEMMA FinishedKept ==
  ASSUME MemoryTypeOK, RecordShape, RowsKept, NEW s, NEW t, Finished(s, t)
  PROVE  Finished(s, t)'
<1>1. Len(t.nodes) <= MaxDepth(s) + 1 /\ t.at \in Items /\ records[t.at].exists
  BY DEF Finished
<1>2. /\ records'[t.at].exists /\ records'[t.at].memory = records[t.at].memory
      /\ records'[t.at].message = records[t.at].message
  BY <1>1 DEF RowsKept
<1>3. ASSUME NEW i \in Items, Visible(s, i)
      PROVE  Visible(s, i)' /\ records'[i].memory = records[i].memory
             /\ records'[i].message = records[i].message
  BY <1>3, SightKept DEF Visible, RowsKept
<1>4. ASSUME NEW k \in 1..Len(t.nodes)
      PROVE  /\ t.nodes[k].ref \in Items => Visible(s, t.nodes[k].ref)'
             /\ t.nodes[k].integrity \in {"mismatch", "source_mismatch"} =>
                  records'[t.at].memory # None /\ records'[t.at].message # None
             /\ k < Len(t.nodes) =>
                  /\ t.nodes[k].ref \in Items
                  /\ t.nodes[k + 1].ref \in {None, SourceOf(t.nodes[k].ref)'}
  <2>1. /\ t.nodes[k].ref \in Items => Visible(s, t.nodes[k].ref)
        /\ t.nodes[k].integrity \in {"mismatch", "source_mismatch"} =>
             records[t.at].memory # None /\ records[t.at].message # None
        /\ k < Len(t.nodes) =>
             /\ t.nodes[k].ref \in Items
             /\ t.nodes[k + 1].ref \in {None, SourceOf(t.nodes[k].ref)}
    BY DEF Finished
  <2>2. t.nodes[k].ref \in Items => SourceOf(t.nodes[k].ref)' = SourceOf(t.nodes[k].ref)
    BY <1>3, <2>1 DEF SourceOf
  <2> QED
    BY <1>2, <1>3, <2>1, <2>2
<1>5. EndFits(s, t)'
  <2>1. records[t.at].memory # None =>
          /\ records[t.at].memory \in Items /\ records[records[t.at].memory].exists
    BY <1>1, RowTyped DEF RecordShape, Records
  <2>2. \A j \in Items : records[j].exists => (Visible(s, j)' <=> Visible(s, j))
    BY SightKept
  <2>3. EndFits(s, t)
    BY DEF Finished
  <2> QED
    BY <1>2, <2>1, <2>2, <2>3 DEF EndFits
<1> QED
  BY <1>1, <1>2, <1>4, <1>5 DEF Finished

-----------------------------------------------------------------------------
(* One round of the loop of trace.                                         *)

\* A trace that ends keeps its place and gets the last nodes.
LEMMA EndedFields ==
  ASSUME NEW t \in Traces, NEW nodes \in Seq(Nodes),
         NEW end \in {"depth_limit", "cycle", "unavailable", "integrity_failure", "source",
                      "declared"}
  PROVE  /\ Ended(t, nodes, end) \in Traces
         /\ Ended(t, nodes, end).at = t.at
         /\ Ended(t, nodes, end).end = end
         /\ Ended(t, nodes, end).nodes = t.nodes \o nodes
<1> DEFINE q == t.nodes \o nodes
<1>1. q \in Seq(Nodes)
  BY DEF Traces
<1>2. Ended(t, nodes, end) = [t EXCEPT !.nodes = q, !.end = end]
  BY DEF Ended
<1> HIDE DEF q
<1>3. Ended(t, nodes, end) = [at |-> t.at, nodes |-> q, end |-> end]
  BY <1>2 DEF Traces
<1>4. [at |-> t.at, nodes |-> q, end |-> end] \in Traces
  BY <1>1 DEF Traces
<1> QED
  BY <1>3, <1>4 DEF q

\* The nodes a trace shows after one, or two, more.
LEMMA OneMore ==
  ASSUME NEW q \in Seq(Nodes), NEW x \in Nodes
  PROVE  /\ q \o <<x>> \in Seq(Nodes) /\ Len(q \o <<x>>) = Len(q) + 1
         /\ \A k \in 1..Len(q) : (q \o <<x>>)[k] = q[k]
         /\ (q \o <<x>>)[Len(q) + 1] = x
         /\ Append(q, x) = q \o <<x>>
  OBVIOUS

LEMMA TwoMore ==
  ASSUME NEW q \in Seq(Nodes), NEW x \in Nodes, NEW y \in Nodes
  PROVE  /\ q \o <<x, y>> \in Seq(Nodes) /\ Len(q \o <<x, y>>) = Len(q) + 2
         /\ \A k \in 1..Len(q) : (q \o <<x, y>>)[k] = q[k]
         /\ (q \o <<x, y>>)[Len(q) + 1] = x
         /\ (q \o <<x, y>>)[Len(q) + 2] = y
  OBVIOUS

\* The digest of a stored record always checks out.
LEMMA NodeVerified ==
  ASSUME MemoryTypeOK, RecordShape, NEW i \in Items, records[i].exists
  PROVE  MemoryNode(i) \in Nodes /\ MemoryNode(i).ref = i /\ MemoryNode(i).integrity = "verified"
<1>1. MemoryNode(i) = [ref |-> i, integrity |-> "verified"]
  BY DEF RecordShape, MemoryNode, Node, Checked
<1> QED
  BY <1>1 DEF Nodes

\* A trace never looks at a record it has seen: from there on its chain would be a
\* set of records closed under sources.
LEMMA NeverSeen ==
  ASSUME MemoryTypeOK, NoCircle, NEW s, NEW t \in Traces, Walking(s, t)
  PROVE  t.at \notin Seen(t)
<1> SUFFICES ASSUME t.at \in Seen(t)
             PROVE  FALSE
  OBVIOUS
<1>0. Len(t.nodes) \in Nat
  BY DEF Traces
<1>1. PICK j \in 1..Len(t.nodes) : t.at = t.nodes[j].ref
  BY DEF Seen
<1> DEFINE S == {t.nodes[k].ref : k \in j..Len(t.nodes)}
<1>2. S \in SUBSET Items /\ S # {}
  <2>1. \A k \in j..Len(t.nodes) : k \in 1..Len(t.nodes)
    BY <1>0, <1>1
  <2>2. \A k \in 1..Len(t.nodes) : t.nodes[k].ref \in Items
    BY DEF Walking
  <2>3. j \in j..Len(t.nodes)
    BY <1>0, <1>1
  <2> QED
    BY <2>1, <2>2, <2>3
<1>3. ASSUME NEW i \in S
      PROVE  records[i].exists /\ records[i].memory \in S
  <2>1. PICK k \in j..Len(t.nodes) : i = t.nodes[k].ref
    OBVIOUS
  <2>2. k \in 1..Len(t.nodes)
    BY <1>0
  <2>3. records[i].exists
    BY <2>1, <2>2 DEF Walking, Visible
  <2>4. CASE k < Len(t.nodes)
    <3>1. records[i].memory = t.nodes[k + 1].ref /\ k + 1 \in j..Len(t.nodes)
      BY <1>0, <2>1, <2>2, <2>4 DEF Walking
    <3> QED
      BY <2>3, <3>1
  <2>5. CASE ~(k < Len(t.nodes))
    <3>1. records[i].memory = t.nodes[j].ref /\ j \in j..Len(t.nodes)
      BY <1>0, <1>1, <2>1, <2>2, <2>5 DEF Walking
    <3> QED
      BY <2>3, <3>1
  <2> QED
    BY <2>4, <2>5
<1>4. Closed(S)
  BY <1>3 DEF Closed
<1> QED
  BY <1>2, <1>4 DEF NoCircle

\* The last node y and the end of a trace that stops at a record with a source.
StopFits(s, i, y, end) ==
  \/ end = "source" /\ records[i].memory = None /\ y.ref = records[i].message
  \/ end = "unavailable" /\ records[i].memory # None /\ ~Visible(s, records[i].memory)
  \/ end = "integrity_failure" /\ records[i].memory # None /\ records[i].message # None

\* A trace that stops at such a record makes a finished answer.
LEMMA StopsWell ==
  ASSUME MemoryTypeOK, RecordShape, NEW s \in Sessions, NEW t \in Traces, Walking(s, t),
         Len(t.nodes) < MaxDepth(s), NEW y \in Nodes,
         NEW end \in {"unavailable", "integrity_failure", "source"},
         y.ref \in Items => Visible(s, y.ref),
         y.ref \in {None, SourceOf(t.at)},
         y.integrity \in {"mismatch", "source_mismatch"} =>
           records[t.at].memory # None /\ records[t.at].message # None,
         StopFits(s, t.at, y, end)
  PROVE  /\ Ended(t, <<MemoryNode(t.at), y>>, end) \in Traces
         /\ Ended(t, <<MemoryNode(t.at), y>>, end).end # "none"
         /\ Finished(s, Ended(t, <<MemoryNode(t.at), y>>, end))
<1> DEFINE x == MemoryNode(t.at)
           u == Ended(t, <<x, y>>, end)
           q == t.nodes
           n == Len(q)
<1>0. t.at \in Items /\ Visible(s, t.at) /\ records[t.at].exists
  BY DEF Walking, Visible
<1>1. x \in Nodes /\ x.ref = t.at /\ x.integrity = "verified"
  BY <1>0, NodeVerified
<1>2. q \in Seq(Nodes) /\ n \in Nat /\ MaxDepth(s) \in Nat
  BY MemoryAssumption DEF Traces
<1> HIDE DEF x
<1>3. u \in Traces /\ u.at = t.at /\ u.nodes = q \o <<x, y>> /\ u.end = end
  <2> DEFINE more == <<x, y>>
  <2>1. more \in Seq(Nodes)
    BY <1>1
  <2>2. end \in {"depth_limit", "cycle", "unavailable", "integrity_failure", "source",
                 "declared"}
    OBVIOUS
  <2> HIDE DEF more
  <2>3. /\ Ended(t, more, end) \in Traces /\ Ended(t, more, end).at = t.at
        /\ Ended(t, more, end).nodes = t.nodes \o more /\ Ended(t, more, end).end = end
    BY <2>1, <2>2, EndedFields
  <2> QED
    BY <2>3 DEF more
<1> HIDE DEF u, q
<1>4. /\ Len(u.nodes) = n + 2 /\ u.nodes[n + 1] = x /\ u.nodes[n + 2] = y
      /\ \A k \in 1..n : u.nodes[k] = q[k]
  BY <1>1, <1>2, <1>3, TwoMore
<1>5. ASSUME NEW k \in 1..n
      PROVE  /\ q[k].ref \in Items /\ Visible(s, q[k].ref) /\ q[k].integrity = "verified"
             /\ records[q[k].ref].memory = IF k < n THEN q[k + 1].ref ELSE t.at
  BY DEF Walking, q
<1>6. ASSUME NEW k \in 1..Len(u.nodes)
      PROVE  /\ u.nodes[k].ref \in Items => Visible(s, u.nodes[k].ref)
             /\ u.nodes[k].integrity \in {"mismatch", "source_mismatch"} =>
                  records[u.at].memory # None /\ records[u.at].message # None
             /\ k < Len(u.nodes) =>
                  /\ u.nodes[k].ref \in Items
                  /\ u.nodes[k + 1].ref \in {None, SourceOf(u.nodes[k].ref)}
  <2>1. CASE k \in 1..n
    <3>1. u.nodes[k] = q[k] /\ u.nodes[k + 1].ref = records[q[k].ref].memory
      <4>1. CASE k < n
        <5>1. k + 1 \in 1..n
          BY <1>2, <2>1, <4>1
        <5> QED
          BY <1>4, <1>5, <2>1, <4>1, <5>1
      <4>2. CASE k = n
        BY <1>1, <1>4, <1>5, <2>1, <4>2
      <4> QED
        BY <1>2, <2>1, <4>1, <4>2
    <3>2. u.nodes[k + 1].ref \in {None, SourceOf(q[k].ref)}
      BY <3>1 DEF SourceOf
    <3> QED
      BY <1>5, <2>1, <3>1, <3>2
  <2>2. CASE k = n + 1
    BY <1>0, <1>1, <1>2, <1>3, <1>4, <2>2
  <2>3. CASE k = n + 2
    BY <1>2, <1>3, <1>4, <2>3
  <2> QED
    BY <1>2, <1>4, <2>1, <2>2, <2>3
<1>7. EndFits(s, u)
  BY <1>2, <1>3, <1>4 DEF EndFits, StopFits
<1>8. Len(u.nodes) <= MaxDepth(s) + 1
  BY <1>2, <1>4 DEF q
<1>9. Finished(s, u)
  BY <1>0, <1>3, <1>6, <1>7, <1>8 DEF Finished
<1> QED
  BY <1>3, <1>9 DEF u, x

\* The limit was reached: the answer is the chain so far.
LEMMA StopsAtLimit ==
  ASSUME MemoryTypeOK, NEW s \in Sessions, NEW t \in Traces, Walking(s, t),
         Len(t.nodes) = MaxDepth(s)
  PROVE  /\ Ended(t, <<>>, "depth_limit") \in Traces
         /\ Ended(t, <<>>, "depth_limit").end # "none"
         /\ Finished(s, Ended(t, <<>>, "depth_limit"))
<1> DEFINE none == <<>>
           u == Ended(t, none, "depth_limit")
           q == t.nodes
<1>1. none \in Seq(Nodes) /\ q \in Seq(Nodes) /\ q \o none = q /\ MaxDepth(s) \in Nat
  BY MemoryAssumption DEF Traces
<1> HIDE DEF none
<1>2. u \in Traces /\ u.at = t.at /\ u.nodes = q \o none /\ u.end = "depth_limit"
  BY <1>1, EndedFields
<1>3. u.nodes = q
  BY <1>1, <1>2
<1> HIDE DEF u
<1>4. ASSUME NEW k \in 1..Len(q)
      PROVE  /\ q[k].ref \in Items /\ Visible(s, q[k].ref) /\ q[k].integrity = "verified"
             /\ k < Len(q) => q[k + 1].ref \in {None, SourceOf(q[k].ref)}
  BY DEF Walking, SourceOf
<1>5. t.at \in Items /\ records[t.at].exists
  BY DEF Walking, Visible
<1> HIDE DEF q
<1>6. EndFits(s, u) /\ Len(u.nodes) <= MaxDepth(s) + 1
  BY <1>1, <1>2, <1>3 DEF EndFits, q
<1>7. Finished(s, u)
  BY <1>2, <1>3, <1>4, <1>5, <1>6 DEF Finished
<1> QED
  BY <1>2, <1>7 DEF u, none

\* A record that names no source ends the answer.
LEMMA StopsDeclared ==
  ASSUME MemoryTypeOK, RecordShape, NEW s \in Sessions, NEW t \in Traces, Walking(s, t),
         Len(t.nodes) < MaxDepth(s), records[t.at].memory = None, records[t.at].message = None
  PROVE  /\ Ended(t, <<MemoryNode(t.at)>>, "declared") \in Traces
         /\ Ended(t, <<MemoryNode(t.at)>>, "declared").end # "none"
         /\ Finished(s, Ended(t, <<MemoryNode(t.at)>>, "declared"))
<1> DEFINE x == MemoryNode(t.at)
           more == <<x>>
           u == Ended(t, more, "declared")
           q == t.nodes
           n == Len(q)
<1>0. t.at \in Items /\ Visible(s, t.at) /\ records[t.at].exists
  BY DEF Walking, Visible
<1>1. x \in Nodes /\ x.ref = t.at /\ x.integrity = "verified"
  BY <1>0, NodeVerified
<1>2. q \in Seq(Nodes) /\ n \in Nat /\ MaxDepth(s) \in Nat
  BY MemoryAssumption DEF Traces
<1> HIDE DEF x
<1>a. more \in Seq(Nodes)
  BY <1>1
<1>b. /\ Len(q \o more) = n + 1 /\ (q \o more)[n + 1] = x
      /\ \A k \in 1..n : (q \o more)[k] = q[k]
  BY <1>1, <1>2, OneMore
<1> HIDE DEF more
<1>3. u \in Traces /\ u.at = t.at /\ u.nodes = q \o more /\ u.end = "declared"
  BY <1>a, EndedFields
<1>c. ASSUME NEW k \in 1..n
      PROVE  /\ q[k].ref \in Items /\ Visible(s, q[k].ref) /\ q[k].integrity = "verified"
             /\ records[q[k].ref].memory = IF k < n THEN q[k + 1].ref ELSE t.at
  BY DEF Walking
<1>d. n < MaxDepth(s)
  OBVIOUS
<1> HIDE DEF u, q
<1>4. /\ Len(u.nodes) = n + 1 /\ u.nodes[n + 1] = x
      /\ \A k \in 1..n : u.nodes[k] = q[k]
  BY <1>b, <1>3
<1>6. ASSUME NEW k \in 1..Len(u.nodes)
      PROVE  /\ u.nodes[k].ref \in Items /\ Visible(s, u.nodes[k].ref)
             /\ u.nodes[k].integrity = "verified"
             /\ k < Len(u.nodes) => u.nodes[k + 1].ref \in {None, SourceOf(u.nodes[k].ref)}
  <2>1. CASE k \in 1..n
    <3>1. u.nodes[k] = q[k] /\ u.nodes[k + 1].ref = records[q[k].ref].memory
      <4>1. CASE k < n
        <5>1. k + 1 \in 1..n
          BY <1>2, <2>1, <4>1
        <5> QED
          BY <1>4, <1>c, <2>1, <4>1, <5>1
      <4>2. CASE k = n
        BY <1>1, <1>4, <1>c, <2>1, <4>2
      <4> QED
        BY <1>2, <2>1, <4>1, <4>2
    <3>2. u.nodes[k + 1].ref \in {None, SourceOf(q[k].ref)}
      BY <3>1 DEF SourceOf
    <3> QED
      BY <1>c, <2>1, <3>1, <3>2
  <2>2. CASE k = n + 1
    BY <1>0, <1>1, <1>2, <1>4, <2>2
  <2> QED
    BY <1>2, <1>4, <2>1, <2>2
<1>7. EndFits(s, u) /\ Len(u.nodes) <= MaxDepth(s) + 1
  BY <1>2, <1>3, <1>4, <1>d DEF EndFits
<1>8. Finished(s, u)
  BY <1>0, <1>3, <1>6, <1>7 DEF Finished
<1> QED
  BY <1>3, <1>8 DEF u, more, x

\* The trace goes on with the source memory: the chain grows by one record.
LEMMA GoesOn ==
  ASSUME MemoryTypeOK, RecordShape, NEW s \in Sessions, NEW t \in Traces, Walking(s, t),
         Len(t.nodes) < MaxDepth(s), NEW j \in Items, records[t.at].memory = j, Visible(s, j)
  PROVE  LET u == [t EXCEPT !.at = j, !.nodes = Append(t.nodes, MemoryNode(t.at))] IN
         u \in Traces /\ u.end = "none" /\ Walking(s, u)
<1> DEFINE x == MemoryNode(t.at)
           q == t.nodes
           n == Len(q)
           w == Append(q, x)
           u == [t EXCEPT !.at = j, !.nodes = w]
<1>0. t.at \in Items /\ Visible(s, t.at) /\ records[t.at].exists /\ t.end = "none"
  BY DEF Walking, Visible
<1>1. x \in Nodes /\ x.ref = t.at /\ x.integrity = "verified"
  BY <1>0, NodeVerified
<1>2. q \in Seq(Nodes) /\ n \in Nat /\ MaxDepth(s) \in Nat /\ n < MaxDepth(s)
  BY MemoryAssumption DEF Traces
<1>c. ASSUME NEW k \in 1..n
      PROVE  /\ q[k].ref \in Items /\ Visible(s, q[k].ref) /\ q[k].integrity = "verified"
             /\ records[q[k].ref].memory = IF k < n THEN q[k + 1].ref ELSE t.at
  BY DEF Walking
<1> HIDE DEF x
<1>3. /\ w \in Seq(Nodes) /\ Len(w) = n + 1 /\ w[n + 1] = x
      /\ \A k \in 1..n : w[k] = q[k]
  BY <1>1, <1>2, OneMore
<1> HIDE DEF w
<1>4. u \in Traces /\ u.at = j /\ u.nodes = w /\ u.end = "none"
  BY <1>0, <1>3 DEF Traces
<1> HIDE DEF u, q
<1>5. ASSUME NEW k \in 1..Len(w)
      PROVE  /\ w[k].ref \in Items /\ Visible(s, w[k].ref) /\ w[k].integrity = "verified"
             /\ records[w[k].ref].memory = IF k < Len(w) THEN w[k + 1].ref ELSE j
  <2>1. CASE k \in 1..n /\ k < n
    <3>1. k + 1 \in 1..n /\ k < Len(w)
      BY <1>2, <1>3, <2>1
    <3> QED
      BY <1>3, <1>c, <2>1, <3>1
  <2>2. CASE k \in 1..n /\ k = n
    <3>1. k < Len(w) /\ w[k + 1] = x /\ w[k] = q[k]
      BY <1>2, <1>3, <2>2
    <3> QED
      BY <1>1, <1>c, <2>2, <3>1
  <2>3. CASE k = n + 1
    BY <1>0, <1>1, <1>2, <1>3, <2>3
  <2> QED
    BY <1>2, <1>3, <2>1, <2>2, <2>3
<1>6. Walking(s, u)
  BY <1>2, <1>3, <1>4, <1>5 DEF Walking
<1> QED
  BY <1>4, <1>6 DEF u, w, x, q

\* A round leaves a trace on its way, or finished.
RoundFits(s, u) ==
  /\ u \in Traces
  /\ IF u.end = "none" THEN Walking(s, u) ELSE Finished(s, u)

LEMMA RoundKeeps ==
  ASSUME MemoryTypeOK, RecordShape, NoCircle, NEW s \in Sessions, NEW t \in Traces,
         Walking(s, t)
  PROVE  RoundFits(s, Round(s, t))
<1> DEFINE i == t.at
           j == records[i].memory
           m == records[i].message
<1>0. i \in Items /\ Visible(s, i) /\ records[i].exists /\ records[i].org = Org(s)
  BY DEF Walking, Visible
<1>1. /\ records[i].sourceDigest = IF m # None THEN m ELSE j
      /\ m # None => MessageOrg(m) = Org(s)
  BY <1>0 DEF RecordShape
<1>2. j \in Items \cup {None} /\ m \in Messages \cup {None}
  BY <1>0, RowTyped DEF Records
<1>3. t.at \notin Seen(t)
  BY NeverSeen
<1>4. Len(t.nodes) \in Nat /\ Len(t.nodes) <= MaxDepth(s) /\ MaxDepth(s) \in Nat
  BY MemoryAssumption DEF Traces, Walking
<1> HIDE DEF i, j, m
<1>5. CASE Len(t.nodes) = MaxDepth(s)
  <2>1. Round(s, t) = Ended(t, <<>>, "depth_limit")
    BY <1>5 DEF Round
  <2> QED
    BY <1>5, <2>1, StopsAtLimit DEF RoundFits
<1>6. CASE Len(t.nodes) # MaxDepth(s)
  <2>0. Len(t.nodes) < MaxDepth(s)
    BY <1>4, <1>6
  <2>1. Round(s, t) = IF j # None THEN FollowMemory(s, t)
                      ELSE IF m # None THEN FollowMessage(s, t)
                      ELSE Ended(t, <<MemoryNode(t.at)>>, "declared")
    BY <1>3, <1>6 DEF Round, i, j, m
  <2>2. CASE j # None /\ ~Visible(s, j)
    <3> DEFINE y == Node(None, "unavailable")
    <3>1. y \in Nodes /\ y.ref = None /\ y.integrity = "unavailable"
      BY DEF Node, Nodes
    <3>2. Round(s, t) = Ended(t, <<MemoryNode(t.at), y>>, "unavailable")
      BY <2>1, <2>2 DEF FollowMemory, i, j
    <3> HIDE DEF y
    <3>3. StopFits(s, t.at, y, "unavailable")
      BY <2>2 DEF StopFits, i, j
    <3> QED
      BY <2>0, <3>1, <3>2, <3>3, StopsWell, MemoryAssumption DEF RoundFits
  <2>3. CASE j # None /\ Visible(s, j) /\ records[i].sourceDigest # j
    <3> DEFINE y == Node(j, "source_mismatch")
    <3>1. y \in Nodes /\ y.ref = j /\ y.integrity = "source_mismatch"
      BY <1>2 DEF Node, Nodes
    <3>2. Round(s, t) = Ended(t, <<MemoryNode(t.at), y>>, "integrity_failure")
      BY <2>1, <2>3 DEF FollowMemory, i, j
    <3> HIDE DEF y
    <3>3. m # None
      BY <1>1, <2>3
    <3>4. StopFits(s, t.at, y, "integrity_failure")
      BY <2>3, <3>3 DEF StopFits, i, j, m
    <3>5. /\ y.ref \in {None, SourceOf(t.at)}
          /\ records[t.at].memory # None /\ records[t.at].message # None
      BY <2>3, <3>1, <3>3 DEF SourceOf, i, j, m
    <3> QED
      BY <2>0, <2>3, <3>1, <3>2, <3>4, <3>5, StopsWell DEF RoundFits
  <2>4. CASE j # None /\ Visible(s, j) /\ records[i].sourceDigest = j
    <3> DEFINE u == [t EXCEPT !.at = j, !.nodes = Append(t.nodes, MemoryNode(t.at))]
    <3>1. Round(s, t) = u
      BY <2>1, <2>4 DEF FollowMemory, i, j
    <3>2. j \in Items /\ records[t.at].memory = j
      BY <1>2, <2>4 DEF i, j
    <3>3. u \in Traces /\ u.end = "none" /\ Walking(s, u)
      BY <2>0, <2>4, <3>2, GoesOn
    <3> HIDE DEF u
    <3> QED
      BY <3>1, <3>3 DEF RoundFits
  <2>5. CASE j = None /\ m # None
    <3> DEFINE y == Node(m, Checked(records[i].sourceDigest, m, "source_mismatch"))
    <3>1. y = [ref |-> m, integrity |-> "verified"]
      BY <1>1, <2>5 DEF Node, Checked
    <3>2. y \in Nodes /\ y.ref = m /\ y.integrity = "verified"
      BY <1>2, <3>1 DEF Nodes
    <3>3. Round(s, t) = Ended(t, <<MemoryNode(t.at), y>>, "source")
      BY <1>1, <2>1, <2>5 DEF FollowMessage, i, m
    <3> HIDE DEF y
    <3>4. StopFits(s, t.at, y, "source")
      BY <2>5, <3>2 DEF StopFits, i, j, m
    <3>5. y.ref \in {None, SourceOf(t.at)} /\ y.ref \notin Items
      BY <1>2, <2>5, <3>2, MemoryAssumption DEF SourceOf, i, j, m
    <3> QED
      BY <2>0, <3>2, <3>3, <3>4, <3>5, StopsWell DEF RoundFits
  <2>6. CASE j = None /\ m = None
    <3>1. Round(s, t) = Ended(t, <<MemoryNode(t.at)>>, "declared")
      BY <2>1, <2>6
    <3>2. records[t.at].memory = None /\ records[t.at].message = None
      BY <2>6 DEF i, j, m
    <3> QED
      BY <2>0, <3>1, <3>2, StopsDeclared DEF RoundFits
  <2> QED
    BY <2>2, <2>3, <2>4, <2>5, <2>6
<1> QED
  BY <1>5, <1>6

-----------------------------------------------------------------------------
(* The steps                                                               *)

\* While the rows are kept, what is known of them and of other sessions stays.
OthersIdle(s) ==
  \A q \in Sessions : q # s => pc'[q] = pc[q] /\ draft'[q] = draft[q] /\ trace'[q] = trace[q]

\* A session that does not move keeps what it knows.
LEMMA SessionKept ==
  ASSUME MemoryInv, RowsKept, NEW q \in Sessions,
         pc'[q] = pc[q], draft'[q] = draft[q], trace'[q] = trace[q]
  PROVE  DraftFits(q)' /\ TraceFits(q)'
<1>1. DraftFits(q) /\ TraceFits(q)
  BY DEF MemoryInv, DraftShape, TraceShape
<1>2. DraftFits(q)'
  <2>1. \A i \in Items : records[i].exists => records'[i].exists
    BY DEF RowsKept
  <2>2. pc[q] = "insert" => draft[q].item \in Items \cup {None}
    BY <1>1 DEF DraftFits, Drafts
  <2> QED
    BY <1>1, <2>1, <2>2 DEF DraftFits
<1>3. ASSUME NEW u, u = trace[q]
      PROVE  /\ Walking(q, u) => Walking(q, u)'
             /\ Finished(q, u) => Finished(q, u)'
  BY WalkingKept, FinishedKept DEF MemoryInv
<1>4. TraceFits(q)'
  BY <1>1, <1>3 DEF TraceFits
<1> QED
  BY <1>2, <1>4

LEMMA SessionsFit ==
  ASSUME MemoryInv, RowsKept, NEW s \in Sessions, OthersIdle(s), DraftFits(s)', TraceFits(s)'
  PROVE  DraftShape' /\ TraceShape'
<1>1. \A q \in Sessions : DraftFits(q)' /\ TraceFits(q)'
  BY SessionKept DEF OthersIdle
<1> QED
  BY <1>1 DEF DraftShape, TraceShape

\* The server's digests override whatever the caller claims.
LEMMA ServerWins ==
  ASSUME NEW i, NEW d \in Drafts
  PROVE  /\ Provenance(i, d).content = i
         /\ Provenance(i, d).source = IF d.message # None THEN d.message ELSE d.item
  BY DEF Provenance, Authoritative, Merged

\* A step that leaves the rows alone, and the requests of every session but s.
ReadsOnly(s) == UNCHANGED records /\ OthersIdle(s)

LEMMA ReadsOnlyKeeps ==
  ASSUME MemoryInv, NEW s \in Sessions, ReadsOnly(s), MemoryTypeOK', DraftFits(s)', TraceFits(s)'
  PROVE  MemoryInv'
<1>1. RowsKept
  BY DEF ReadsOnly, RowsKept
<1>2. RecordShape' /\ NoCircle'
  BY DEF ReadsOnly, MemoryInv, RecordShape, NoCircle, Closed
<1>3. DraftShape' /\ TraceShape'
  BY <1>1, SessionsFit DEF ReadsOnly
<1> QED
  BY <1>2, <1>3 DEF MemoryInv

\* A session's own request moves on, its trace and draft included.
Moves(s, p, d, t) ==
  /\ pc' = [pc EXCEPT ![s] = p]
  /\ draft' = [draft EXCEPT ![s] = d]
  /\ trace' = [trace EXCEPT ![s] = t]

LEMMA MovesTo ==
  ASSUME MemoryTypeOK, NEW s \in Sessions, NEW p, NEW d, NEW t, Moves(s, p, d, t)
  PROVE  /\ OthersIdle(s)
         /\ pc'[s] = p /\ draft'[s] = d /\ trace'[s] = t
  BY DEF MemoryTypeOK, Moves, OthersIdle

\* The kinds of value a session's request may leave.
Leaves(s, p, d, t) ==
  /\ p \in {"idle", "source", "insert", "delete", "trace", "traced"}
  /\ d \in Drafts \cup [item: Items \cup {None}]
  /\ t \in Traces /\ Len(t.nodes) <= MaxDepth(s) + 1

LEMMA MovesTyped ==
  ASSUME MemoryTypeOK, NEW s \in Sessions, NEW p, NEW d, NEW t, Moves(s, p, d, t),
         Leaves(s, p, d, t), UNCHANGED completed,
         records' \in [Items -> Records \cup {AbsentRecord}]
  PROVE  MemoryTypeOK'
<1>1. /\ pc' \in [Sessions -> {"idle", "source", "insert", "delete", "trace", "traced"}]
      /\ draft' \in [Sessions -> Drafts \cup [item: Items \cup {None}]]
      /\ trace' \in [Sessions -> Traces]
  BY DEF MemoryTypeOK, Moves, Leaves
<1>2. \A q \in Sessions : Len(trace'[q].nodes) <= MaxDepth(q) + 1
  BY MovesTo DEF MemoryTypeOK, OthersIdle, Leaves
<1> QED
  BY <1>1, <1>2 DEF MemoryTypeOK

LEMMA NoTraceTyped == NoTrace \in Traces /\ Len(NoTrace.nodes) = 0 /\ NoTrace.end = "none"
  BY DEF NoTrace, Traces

\* A read by s that leaves its request idle or in one of its later places.
LEMMA MoveKeeps ==
  ASSUME MemoryInv, NEW s \in Sessions, NEW p, NEW d, NEW t, Moves(s, p, d, t),
         Leaves(s, p, d, t), UNCHANGED <<records, completed>>,
         DraftFits(s)', TraceFits(s)'
  PROVE  MemoryInv'
<1>1. MemoryTypeOK /\ records \in [Items -> Records \cup {AbsentRecord}]
  BY DEF MemoryInv, MemoryTypeOK
<1>2. MemoryTypeOK'
  BY <1>1, MovesTyped
<1>3. ReadsOnly(s)
  BY <1>1, MovesTo DEF ReadsOnly
<1> QED
  BY <1>2, <1>3, ReadsOnlyKeeps

\* create, its look at the source memory, and the request that is dropped.
LEMMA CreateKeeps ==
  ASSUME MemoryInv, NEW s \in Sessions, Create(s) \/ LoadSource(s) \/ PoolEmpty(s)
  PROVE  MemoryInv'
<1>0. MemoryTypeOK /\ DraftFits(s) /\ TraceFits(s) /\ RecordShape
  BY DEF MemoryInv, DraftShape, TraceShape
<1>a. 0 <= MaxDepth(s) + 1
  BY MemoryAssumption
<1>b. UNCHANGED <<records, completed, trace>> /\ trace[s] = NoTrace
  BY <1>0 DEF Create, LoadSource, PoolEmpty, TraceFits
<1>c. trace' = [trace EXCEPT ![s] = NoTrace] /\ trace'[s] = NoTrace
  BY <1>0, <1>b DEF MemoryTypeOK
<1>1. CASE Create(s)
  <2>1. PICK scope \in Scopes, m \in Messages \cup {None}, i \in Items \cup {None},
             claim \in Claims :
          /\ m # None => MessageUsable(s, m, scope)
          /\ draft' = [draft EXCEPT ![s] =
                         [item |-> i, message |-> m, scope |-> scope, claim |-> claim]]
          /\ pc' = [pc EXCEPT ![s] = IF i = None THEN "insert" ELSE "source"]
    BY <1>1 DEF Create
  <2> DEFINE d == [item |-> i, message |-> m, scope |-> scope, claim |-> claim]
             p == IF i = None THEN "insert" ELSE "source"
  <2>2. d \in Drafts /\ d.item = i /\ d.message = m
    BY DEF Drafts
  <2>3. p \in {"insert", "source"} /\ (p = "insert" => i = None) /\ (p = "source" => i \in Items)
    OBVIOUS
  <2>4. draft' = [draft EXCEPT ![s] = d] /\ pc' = [pc EXCEPT ![s] = p]
    BY <2>1
  <2> HIDE DEF d, p
  <2>5. Moves(s, p, d, NoTrace)
    BY <1>c, <2>4 DEF Moves
  <2>6. Leaves(s, p, d, NoTrace)
    BY <1>a, <2>2, <2>3, NoTraceTyped DEF Leaves
  <2>7. pc'[s] = p /\ draft'[s] = d
    BY <1>0, <2>5, MovesTo
  <2>8. DraftFits(s)'
    BY <2>1, <2>2, <2>3, <2>7 DEF DraftFits, MessageUsable
  <2>9. TraceFits(s)'
    BY <1>c, <2>3, <2>7 DEF TraceFits
  <2> QED
    BY <1>b, <2>5, <2>6, <2>8, <2>9, MoveKeeps
<1>2. CASE LoadSource(s) /\ Get(s, draft[s].item)
  <2> DEFINE d == draft[s]
  <2>1. pc[s] = "source" /\ pc' = [pc EXCEPT ![s] = "insert"]
    BY <1>2 DEF LoadSource
  <2>2. pc'[s] = "insert"
    BY <1>0, <2>1 DEF MemoryTypeOK
  <2>3. draft' = draft
    BY <1>2, <2>2 DEF LoadSource
  <2>4. d \in Drafts /\ d.item \in Items /\ records[d.item].exists
        /\ (d.message # None => MessageOrg(d.message) = Org(s))
    BY <1>0, <1>2, <2>1 DEF DraftFits, Get, Visible
  <2>5. draft' = [draft EXCEPT ![s] = d] /\ draft'[s] = d
    BY <1>0, <2>3 DEF MemoryTypeOK
  <2> HIDE DEF d
  <2>6. Moves(s, "insert", d, NoTrace)
    BY <1>c, <2>1, <2>5 DEF Moves
  <2>7. Leaves(s, "insert", d, NoTrace)
    BY <1>a, <2>4, NoTraceTyped DEF Leaves
  <2>8. DraftFits(s)'
    BY <1>b, <2>2, <2>4, <2>5 DEF DraftFits
  <2>9. TraceFits(s)'
    BY <1>c, <2>2 DEF TraceFits
  <2> QED
    BY <1>b, <2>6, <2>7, <2>8, <2>9, MoveKeeps
<1>3. CASE PoolEmpty(s) \/ (LoadSource(s) /\ ~Get(s, draft[s].item))
  <2>1. pc' = [pc EXCEPT ![s] = "idle"]
    BY <1>3 DEF PoolEmpty, LoadSource
  <2>2. pc'[s] = "idle"
    BY <1>0, <2>1 DEF MemoryTypeOK
  <2>3. draft' = [draft EXCEPT ![s] = NoDraft]
    BY <1>3, <2>2 DEF PoolEmpty, LoadSource
  <2>4. Moves(s, "idle", NoDraft, NoTrace)
    BY <1>c, <2>1, <2>3 DEF Moves
  <2>5. NoDraft \in [item: Items \cup {None}]
    BY DEF NoDraft
  <2>6. Leaves(s, "idle", NoDraft, NoTrace)
    BY <1>a, <2>5, NoTraceTyped DEF Leaves
  <2>7. DraftFits(s)' /\ TraceFits(s)'
    BY <1>c, <2>2 DEF DraftFits, TraceFits
  <2> QED
    BY <1>b, <2>4, <2>6, <2>7, MoveKeeps
<1> QED
  BY <1>1, <1>2, <1>3

\* delete marks the row; its reads and those of trace change no row.
LEMMA DeleteKeeps ==
  ASSUME MemoryInv, NEW s \in Sessions, Delete(s)
  PROVE  MemoryInv'
<1>0. MemoryTypeOK /\ DraftFits(s) /\ TraceFits(s)
  BY DEF MemoryInv, DraftShape, TraceShape
<1>a. 0 <= MaxDepth(s) + 1
  BY MemoryAssumption
<1>1. PICK i \in Items : Get(s, i) /\ draft' = [draft EXCEPT ![s] = [item |-> i]]
  BY DEF Delete
<1> DEFINE d == [item |-> i]
<1>2. d \in [item: Items \cup {None}] /\ d.item = i
  OBVIOUS
<1>3. draft' = [draft EXCEPT ![s] = d] /\ records[i].exists
  BY <1>1 DEF Get, Visible
<1> HIDE DEF d
<1>4. /\ UNCHANGED <<records, completed, trace>> /\ trace[s] = NoTrace
      /\ pc' = [pc EXCEPT ![s] = "delete"]
  BY <1>0 DEF Delete, TraceFits
<1>5. trace' = [trace EXCEPT ![s] = NoTrace]
  BY <1>0, <1>4 DEF MemoryTypeOK
<1>6. Moves(s, "delete", d, NoTrace)
  BY <1>3, <1>4, <1>5 DEF Moves
<1>7. Leaves(s, "delete", d, NoTrace)
  BY <1>a, <1>2, NoTraceTyped DEF Leaves
<1>8. pc'[s] = "delete" /\ draft'[s] = d /\ trace'[s] = NoTrace
  BY <1>0, <1>6, MovesTo
<1>9. DraftFits(s)' /\ TraceFits(s)'
  BY <1>2, <1>3, <1>4, <1>8 DEF DraftFits, TraceFits
<1> QED
  BY <1>4, <1>6, <1>7, <1>9, MoveKeeps

LEMMA TraceKeeps ==
  ASSUME MemoryInv, NEW s \in Sessions, Trace(s) \/ TraceStep(s) \/ Answered(s)
  PROVE  MemoryInv'
<1>0. MemoryTypeOK /\ RecordShape /\ NoCircle /\ DraftFits(s) /\ TraceFits(s)
  BY DEF MemoryInv, DraftShape, TraceShape
<1>a. 0 <= MaxDepth(s) + 1 /\ MaxDepth(s) \in Nat
  BY MemoryAssumption
<1> DEFINE d == draft[s]
<1>b. d \in Drafts \cup [item: Items \cup {None}] /\ trace[s] \in Traces
  BY <1>0 DEF MemoryTypeOK
<1>c. UNCHANGED <<records, completed, draft>>
  BY DEF Trace, TraceStep, Answered
<1>d. draft' = [draft EXCEPT ![s] = d]
  BY <1>0, <1>c DEF MemoryTypeOK
<1> HIDE DEF d
<1>1. CASE Trace(s)
  <2>1. PICK i \in Items : Get(s, i) /\ trace' = [trace EXCEPT ![s] = [NoTrace EXCEPT !.at = i]]
    BY <1>1 DEF Trace
  <2> DEFINE t == [NoTrace EXCEPT !.at = i]
  <2>2. t = [at |-> i, nodes |-> <<>>, end |-> "none"]
    BY DEF NoTrace
  <2>3. t \in Traces /\ t.at = i /\ Len(t.nodes) = 0 /\ t.end = "none"
    <3> DEFINE none == <<>>
    <3>1. none \in Seq(Nodes) /\ Len(none) = 0
      OBVIOUS
    <3>2. t = [at |-> i, nodes |-> none, end |-> "none"]
      BY <2>2
    <3> HIDE DEF none, t
    <3> QED
      BY <3>1, <3>2 DEF Traces
  <2>4. pc' = [pc EXCEPT ![s] = "trace"] /\ trace' = [trace EXCEPT ![s] = t]
    BY <1>1, <2>1 DEF Trace
  <2> HIDE DEF t
  <2>5. Walking(s, t)
    BY <1>a, <2>1, <2>3 DEF Walking, Get
  <2>6. Moves(s, "trace", d, t) /\ Leaves(s, "trace", d, t)
    BY <1>a, <1>b, <1>d, <2>3, <2>4 DEF Moves, Leaves
  <2>7. pc'[s] = "trace" /\ trace'[s] = t
    BY <1>0, <2>6, MovesTo
  <2>8. ASSUME NEW u, u = t
        PROVE  Walking(s, u)'
    BY <1>c, <2>5, <2>8 DEF Walking, Visible
  <2>9. DraftFits(s)' /\ TraceFits(s)'
    BY <2>7, <2>8 DEF DraftFits, TraceFits
  <2> QED
    BY <1>c, <2>6, <2>9, MoveKeeps
<1>2. CASE TraceStep(s)
  <2> DEFINE t == Round(s, trace[s])
             p == IF t.end = "none" THEN "trace" ELSE "traced"
  <2>1. pc[s] = "trace" /\ Walking(s, trace[s])
    BY <1>0, <1>2 DEF TraceStep, TraceFits
  <2>2. RoundFits(s, t)
    BY <1>0, <1>b, <2>1, RoundKeeps
  <2>3. trace' = [trace EXCEPT ![s] = t]
    BY <1>2 DEF TraceStep
  <2> HIDE DEF t
  <2>4. trace'[s] = t
    BY <1>0, <2>3 DEF MemoryTypeOK
  <2>5. pc' = [pc EXCEPT ![s] = p]
    BY <1>2, <2>4 DEF TraceStep
  <2>6. p \in {"trace", "traced"} /\ (p = "trace" <=> t.end = "none")
    OBVIOUS
  <2> HIDE DEF p
  <2>7. /\ t \in Traces /\ Len(t.nodes) <= MaxDepth(s) + 1
        /\ p = "trace" => Walking(s, t)
        /\ p = "traced" => Finished(s, t)
    <3>1. Len(t.nodes) \in Nat
      BY <2>2 DEF RoundFits, Traces
    <3> QED
      BY <1>a, <2>2, <2>6, <3>1 DEF RoundFits, Walking, Finished
  <2>8. Moves(s, p, d, t) /\ Leaves(s, p, d, t)
    BY <1>b, <1>d, <2>3, <2>5, <2>6, <2>7 DEF Moves, Leaves
  <2>9. pc'[s] = p
    BY <1>0, <2>8, MovesTo
  <2>10. ASSUME NEW u, u = t
         PROVE  (p = "trace" => Walking(s, u)') /\ (p = "traced" => Finished(s, u)')
    BY <1>c, <2>7, <2>10 DEF Walking, Finished, Visible, SourceOf, EndFits
  <2>11. DraftFits(s)' /\ TraceFits(s)'
    BY <2>4, <2>6, <2>9, <2>10 DEF DraftFits, TraceFits
  <2> QED
    BY <1>c, <2>8, <2>11, MoveKeeps
<1>3. CASE Answered(s)
  <2>1. Moves(s, "idle", d, NoTrace)
    BY <1>3, <1>d DEF Answered, Moves
  <2>2. Leaves(s, "idle", d, NoTrace)
    BY <1>a, <1>b, NoTraceTyped DEF Leaves
  <2>3. pc'[s] = "idle" /\ trace'[s] = NoTrace
    BY <1>0, <2>1, MovesTo
  <2>4. DraftFits(s)' /\ TraceFits(s)'
    BY <2>3 DEF DraftFits, TraceFits
  <2> QED
    BY <1>c, <2>1, <2>2, <2>4, MoveKeeps
<1> QED
  BY <1>1, <1>2, <1>3

LEMMA NobodyMoves ==
  ASSUME MemoryInv, MemoryTypeOK', UNCHANGED <<records, pc, draft, trace>>
  PROVE  MemoryInv'
<1>1. RowsKept
  BY DEF RowsKept
<1>2. RecordShape' /\ NoCircle'
  BY DEF MemoryInv, RecordShape, NoCircle, Closed
<1>3. \A q \in Sessions : DraftFits(q)' /\ TraceFits(q)'
  BY <1>1, SessionKept
<1> QED
  BY <1>2, <1>3 DEF MemoryInv, DraftShape, TraceShape

\* The chat's own step changes nothing here but the messages.
LEMMA FinishMessageKeeps ==
  ASSUME MemoryInv, NEW m \in Messages, FinishMessage(m)
  PROVE  MemoryInv'
<1>1. MemoryTypeOK' /\ UNCHANGED <<records, pc, draft, trace>>
  BY DEF MemoryInv, MemoryTypeOK, FinishMessage
<1> QED
  BY <1>1, NobodyMoves

\* The row Insert writes for item i: existing, vouched for, and with an existing
\* source memory.
InsertedFits(s, i, e) ==
  /\ e \in Records /\ e.exists /\ e.org = Org(s)
  /\ e.digest = i
  /\ e.sourceDigest = IF e.message # None THEN e.message ELSE e.memory
  /\ e.message # None => MessageOrg(e.message) = Org(s)
  /\ e.memory # None => records[e.memory].exists

LEMMA InsertWrites ==
  ASSUME MemoryInv, NEW s \in Sessions, Insert(s)
  PROVE  \E i \in Items, e \in Records :
           ~records[i].exists /\ InsertedFits(s, i, e) /\ records' = [records EXCEPT ![i] = e]
<1> DEFINE d == draft[s]
<1>1. /\ pc[s] = "insert" /\ d \in Drafts
      /\ d.message # None => MessageOrg(d.message) = Org(s)
      /\ d.item # None => records[d.item].exists
  BY DEF MemoryInv, DraftShape, DraftFits, Insert
<1>2. PICK i \in Items :
        /\ ~records[i].exists
        /\ records' = [records EXCEPT ![i] =
             [exists |-> TRUE, org |-> Org(s),
              owner |-> IF d.scope = "user" THEN User(s) ELSE None,
              actor |-> User(s), scope |-> d.scope, message |-> d.message,
              memory |-> d.item, digest |-> Provenance(i, d).content,
              sourceDigest |-> Provenance(i, d).source, deleted |-> FALSE]]
  BY DEF Insert
<1> HIDE DEF d
<1> DEFINE owner == IF d.scope = "user" THEN User(s) ELSE None
           source == IF d.message # None THEN d.message ELSE d.item
<1>3. Provenance(i, d).content = i /\ Provenance(i, d).source = source
  BY <1>1, ServerWins
<1>4. /\ owner \in Users \cup {None} /\ User(s) \in Users /\ Org(s) \in Orgs
      /\ source \in Digests /\ i \in Digests
  BY <1>1 DEF Users, Orgs, Drafts, Digests
<1>5. /\ d.scope \in Scopes /\ d.message \in Messages \cup {None}
      /\ d.item \in Items \cup {None}
  BY <1>1 DEF Drafts
<1>6. source = IF d.message # None THEN d.message ELSE d.item
  OBVIOUS
<1> HIDE DEF owner, source
<1> DEFINE e == [exists |-> TRUE, org |-> Org(s), owner |-> owner, actor |-> User(s),
                 scope |-> d.scope, message |-> d.message, memory |-> d.item, digest |-> i,
                 sourceDigest |-> source, deleted |-> FALSE]
<1>7. records' = [records EXCEPT ![i] = e]
  BY <1>2, <1>3 DEF owner
<1>8. e \in Records
  BY <1>4, <1>5 DEF Records
<1>9. /\ e.exists /\ e.org = Org(s) /\ e.digest = i /\ e.sourceDigest = source
      /\ e.message = d.message /\ e.memory = d.item
  OBVIOUS
<1> HIDE DEF e
<1>10. InsertedFits(s, i, e)
  BY <1>1, <1>6, <1>8, <1>9 DEF InsertedFits
<1> QED
  BY <1>2, <1>7, <1>8, <1>10

\* A new row leaves the others alone, and nothing names it yet.
LEMMA NewRow ==
  ASSUME MemoryInv, NEW s \in Sessions, NEW i \in Items, NEW e \in Records,
         ~records[i].exists, InsertedFits(s, i, e), records' = [records EXCEPT ![i] = e]
  PROVE  /\ records' \in [Items -> Records \cup {AbsentRecord}]
         /\ RowsKept /\ RecordShape' /\ NoCircle'
<1>0. MemoryTypeOK /\ RecordShape /\ NoCircle
  BY DEF MemoryInv
<1>1. records' \in [Items -> Records \cup {AbsentRecord}]
  BY <1>0 DEF MemoryTypeOK
<1>2. records'[i] = e /\ \A j \in Items : j # i => records'[j] = records[j]
  BY <1>0 DEF MemoryTypeOK
<1>3. RowsKept
  BY <1>2 DEF RowsKept
<1>4. ASSUME NEW j \in Items, records'[j].exists
      PROVE  /\ records'[j].memory \in Items \cup {None}
             /\ records'[j].memory # None => records[records'[j].memory].exists
  <2>1. CASE j = i
    BY <1>2, <2>1 DEF InsertedFits, Records
  <2>2. CASE j # i
    <3>1. records'[j] = records[j] /\ records[j].exists
      BY <1>2, <1>4, <2>2
    <3>2. records[j].memory \in Items \cup {None}
      BY <1>0, <3>1, RowTyped DEF Records
    <3>3. records[j].memory # None => records[records[j].memory].exists
      BY <1>0, <3>1 DEF RecordShape
    <3> QED
      BY <3>1, <3>2, <3>3
  <2> QED
    BY <2>1, <2>2
<1>5. RecordShape'
  <2> SUFFICES ASSUME NEW j \in Items, records'[j].exists
               PROVE  /\ records'[j].digest = j
                      /\ records'[j].sourceDigest =
                           IF records'[j].message # None THEN records'[j].message
                                                         ELSE records'[j].memory
                      /\ records'[j].message # None =>
                           MessageOrg(records'[j].message) = records'[j].org
                      /\ records'[j].memory # None => records'[records'[j].memory].exists
    BY DEF RecordShape
  <2>1. records'[j].memory # None => records'[records'[j].memory].exists
    BY <1>3, <1>4 DEF RowsKept
  <2>2. CASE j = i
    BY <1>2, <2>1, <2>2 DEF InsertedFits
  <2>3. CASE j # i
    BY <1>0, <1>2, <2>1, <2>3 DEF RecordShape
  <2> QED
    BY <2>2, <2>3
<1>6. NoCircle'
  <2> SUFFICES ASSUME NEW S \in SUBSET Items, S # {}, Closed(S)'
               PROVE  FALSE
    BY DEF NoCircle
  <2>1. \A j \in S : records'[j].exists /\ records'[j].memory \in S
    BY DEF Closed
  <2>2. \A j \in S : records'[j].memory # i
    BY <1>4, <2>1, MemoryAssumption
  <2> DEFINE R == S \ {i}
  <2>3. \A j \in R : records[j].exists /\ records[j].memory \in R
    BY <1>2, <2>1, <2>2
  <2>4. R # {}
    <3>1. PICK j \in S : TRUE
      OBVIOUS
    <3>2. records'[j].memory \in R
      BY <2>1, <2>2
    <3> QED
      BY <3>2
  <2> QED
    BY <1>0, <2>3, <2>4 DEF NoCircle, Closed
<1> QED
  BY <1>1, <1>3, <1>5, <1>6

LEMMA InsertKeeps ==
  ASSUME MemoryInv, NEW s \in Sessions, Insert(s)
  PROVE  MemoryInv'
<1>0. MemoryTypeOK /\ TraceFits(s) /\ 0 <= MaxDepth(s) + 1
  BY MemoryAssumption DEF MemoryInv, TraceShape
<1>1. /\ records' \in [Items -> Records \cup {AbsentRecord}]
      /\ RowsKept /\ RecordShape' /\ NoCircle'
  BY InsertWrites, NewRow
<1>2. UNCHANGED <<completed, trace>> /\ trace[s] = NoTrace
  BY <1>0 DEF Insert, TraceFits
<1>3. trace' = [trace EXCEPT ![s] = NoTrace]
  BY <1>0, <1>2 DEF MemoryTypeOK
<1>4. Moves(s, "idle", NoDraft, NoTrace)
  BY <1>3 DEF Insert, Moves
<1>5. NoDraft \in [item: Items \cup {None}]
  BY DEF NoDraft
<1>6. Leaves(s, "idle", NoDraft, NoTrace)
  BY <1>0, <1>5, NoTraceTyped DEF Leaves
<1>7. MemoryTypeOK'
  BY <1>0, <1>1, <1>2, <1>4, <1>6, MovesTyped
<1>8. OthersIdle(s) /\ pc'[s] = "idle" /\ trace'[s] = NoTrace
  BY <1>0, <1>4, MovesTo
<1>9. DraftFits(s)' /\ TraceFits(s)'
  BY <1>8 DEF DraftFits, TraceFits
<1>10. DraftShape' /\ TraceShape'
  BY <1>1, <1>8, <1>9, SessionsFit
<1> QED
  BY <1>1, <1>7, <1>10 DEF MemoryInv

\* Marking a row deleted changes nothing a trace looks at.
LEMMA CommitDeleteKeeps ==
  ASSUME MemoryInv, NEW s \in Sessions, CommitDelete(s)
  PROVE  MemoryInv'
<1>0. MemoryTypeOK /\ RecordShape /\ NoCircle /\ TraceFits(s) /\ 0 <= MaxDepth(s) + 1
  BY MemoryAssumption DEF MemoryInv, TraceShape
<1> DEFINE i == draft[s].item
           e == [records[i] EXCEPT !.deleted = TRUE]
<1>1. i \in Items /\ records[i].exists
  BY DEF CommitDelete, MemoryInv, DraftShape, DraftFits
<1>2. records[i] \in Records
  BY <1>0, <1>1, RowTyped
<1>3. records' = [records EXCEPT ![i] = e]
  BY <1>0, <1>1 DEF CommitDelete, MemoryTypeOK
<1>4. /\ e \in Records /\ e.exists /\ e.org = records[i].org /\ e.owner = records[i].owner
      /\ e.scope = records[i].scope /\ e.message = records[i].message
      /\ e.memory = records[i].memory /\ e.digest = records[i].digest
      /\ e.sourceDigest = records[i].sourceDigest
  BY <1>1, <1>2 DEF Records
<1> HIDE DEF e, i
<1>5. records' \in [Items -> Records \cup {AbsentRecord}]
  BY <1>0, <1>3, <1>4 DEF MemoryTypeOK
<1>6. records'[i] = e /\ \A j \in Items : j # i => records'[j] = records[j]
  BY <1>0, <1>1, <1>3 DEF MemoryTypeOK
<1>7. \A j \in Items :
        /\ records'[j].exists <=> records[j].exists
        /\ records'[j].org = records[j].org /\ records'[j].owner = records[j].owner
        /\ records'[j].scope = records[j].scope
        /\ records'[j].message = records[j].message /\ records'[j].memory = records[j].memory
        /\ records'[j].digest = records[j].digest
        /\ records'[j].sourceDigest = records[j].sourceDigest
  BY <1>1, <1>4, <1>6
<1>8. RowsKept
  BY <1>7 DEF RowsKept
<1>9. RecordShape'
  <2>1. \A j \in Items : records[j].exists => records[j].memory \in Items \cup {None}
    BY <1>0, RowTyped DEF Records
  <2> QED
    BY <1>0, <1>7, <2>1 DEF RecordShape
<1>10. NoCircle'
  BY <1>0, <1>7 DEF NoCircle, Closed
<1>11. UNCHANGED <<completed, trace>> /\ trace[s] = NoTrace
  BY <1>0 DEF CommitDelete, TraceFits
<1>12. trace' = [trace EXCEPT ![s] = NoTrace]
  BY <1>0, <1>11 DEF MemoryTypeOK
<1>13. Moves(s, "idle", NoDraft, NoTrace)
  BY <1>12 DEF CommitDelete, Moves
<1>14. NoDraft \in [item: Items \cup {None}]
  BY DEF NoDraft
<1>15. Leaves(s, "idle", NoDraft, NoTrace)
  BY <1>0, <1>14, NoTraceTyped DEF Leaves
<1>16. MemoryTypeOK'
  BY <1>0, <1>5, <1>11, <1>13, <1>15, MovesTyped
<1>17. OthersIdle(s) /\ pc'[s] = "idle" /\ trace'[s] = NoTrace
  BY <1>0, <1>13, MovesTo
<1>18. DraftFits(s)' /\ TraceFits(s)'
  BY <1>17 DEF DraftFits, TraceFits
<1>19. DraftShape' /\ TraceShape'
  BY <1>8, <1>17, <1>18, SessionsFit
<1> QED
  BY <1>9, <1>10, <1>16, <1>19 DEF MemoryInv

-----------------------------------------------------------------------------
LEMMA MemoryInitOK == MemoryInit => MemoryInv
<1> SUFFICES ASSUME MemoryInit
             PROVE  MemoryInv
  OBVIOUS
<1>0. \A i \in Items : records[i] = AbsentRecord /\ ~records[i].exists
  BY DEF MemoryInit, AbsentRecord
<1>1. MemoryTypeOK
  <2>1. /\ NoDraft \in [item: Items \cup {None}]
        /\ \A s \in Sessions : 0 <= MaxDepth(s) + 1
    BY MemoryAssumption DEF NoDraft
  <2> QED
    BY <2>1, NoTraceTyped DEF MemoryInit, MemoryTypeOK
<1>2. RecordShape /\ NoCircle
  BY <1>0 DEF RecordShape, NoCircle, Closed
<1>3. DraftShape /\ TraceShape
  BY DEF MemoryInit, DraftShape, DraftFits, TraceShape, TraceFits
<1> QED
  BY <1>1, <1>2, <1>3 DEF MemoryInv

LEMMA MemoryNextKeeps == MemoryInv /\ [MemoryNext]_memoryVars => MemoryInv'
<1> SUFFICES ASSUME MemoryInv, [MemoryNext]_memoryVars
             PROVE  MemoryInv'
  OBVIOUS
<1>1. CASE MemoryNext
  BY <1>1, CreateKeeps, InsertKeeps, DeleteKeeps, CommitDeleteKeeps, TraceKeeps,
     FinishMessageKeeps
  DEF MemoryNext
<1>2. CASE UNCHANGED memoryVars
  <2>1. MemoryTypeOK' /\ UNCHANGED <<records, pc, draft, trace>>
    BY <1>2 DEF memoryVars, MemoryInv, MemoryTypeOK
  <2> QED
    BY <2>1, NobodyMoves
<1> QED
  BY <1>1, <1>2

\* The inductive invariant holds in every behaviour of the sessions.
THEOREM MemoryInvariance == MemorySpec => []MemoryInv
  BY MemoryInitOK, MemoryNextKeeps, PTL DEF MemorySpec

\* Rows, requests and answers stay in their types; no answer has more nodes than the
\* depth limit and one source (ProvenanceResolver.trace).
THEOREM MemoryTypes == MemorySpec => []MemoryTypeOK
<1>1. MemoryInv => MemoryTypeOK
  BY DEF MemoryInv
<1> QED
  BY <1>1, MemoryInvariance, PTL

\* No provenance answer names an item its reader may not see, whatever other sessions
\* create and delete while it is put together (the where clause of get and trace).
THEOREM TracesAreVisible == MemorySpec => []TraceIsVisible
<1>1. ASSUME MemoryInv, NEW s \in Sessions, NEW k \in 1..Len(trace[s].nodes),
             trace[s].nodes[k].ref \in Items
      PROVE  Visible(s, trace[s].nodes[k].ref)
  <2>1. TraceFits(s) /\ pc[s] \in {"idle", "source", "insert", "delete", "trace", "traced"}
    BY <1>1 DEF MemoryInv, TraceShape, MemoryTypeOK
  <2>2. trace[s] # NoTrace
    BY <1>1 DEF NoTrace
  <2> QED
    BY <1>1, <2>1, <2>2 DEF TraceFits, Walking, Finished
<1>2. MemoryInv => TraceIsVisible
  BY <1>1 DEF TraceIsVisible
<1> QED
  BY <1>2, MemoryInvariance, PTL

\* A finished answer is the lineage of its root and ends where the lineage does; no
\* lineage is circular (ProvenanceResolver.trace).
THEOREM TracesAreLineage == MemorySpec => []TraceIsLineage
<1>1. ASSUME MemoryInv, NEW s \in Sessions, pc[s] = "traced"
      PROVE  Finished(s, trace[s])
  BY <1>1 DEF MemoryInv, TraceShape, TraceFits
<1>2. (\A s \in Sessions : pc[s] = "traced" => Finished(s, trace[s])) => TraceIsLineage
  <2> SUFFICES ASSUME NEW s \in Sessions, NEW t, t = trace[s], Finished(s, t)
               PROVE  /\ \A k \in 1..Len(t.nodes) - 1 :
                           LET src == records[t.nodes[k].ref] IN
                           t.nodes[k + 1].ref \in {None, IF src.memory # None
                                                           THEN src.memory ELSE src.message}
                      /\ LET n == Len(t.nodes)
                             last == records[t.at]
                         IN  CASE t.end = "declared" -> last.memory = None /\ last.message = None
                               [] t.end = "source" ->
                                    last.memory = None /\ t.nodes[n].ref = last.message
                               [] t.end = "unavailable" ->
                                    last.memory # None /\ ~Visible(s, last.memory)
                               [] t.end = "integrity_failure" ->
                                    last.memory # None /\ last.message # None
                               [] t.end = "depth_limit" -> n = MaxDepth(s)
                               [] OTHER -> FALSE
    BY DEF TraceIsLineage
  <2>1. ASSUME NEW k \in 1..Len(t.nodes) - 1
        PROVE  t.nodes[k + 1].ref \in {None, SourceOf(t.nodes[k].ref)}
    BY <2>1 DEF Finished
  <2>2. EndFits(s, t)
    BY DEF Finished
  <2> QED
    BY <2>1, <2>2 DEF EndFits, SourceOf
<1>3. MemoryInv => TraceIsLineage
  BY <1>1, <1>2
<1> QED
  BY <1>3, MemoryInvariance, PTL

\* A digest fails to check out only at a record that names two sources, whatever the
\* callers put into their provenance (create's authoritative_provenance).
THEOREM StoredDigestsVerify == MemorySpec => []DigestsVerify
<1>1. ASSUME MemoryInv, NEW s \in Sessions, NEW k \in 1..Len(trace[s].nodes),
             trace[s].nodes[k].integrity \in {"mismatch", "source_mismatch"}
      PROVE  records[trace[s].at].memory # None /\ records[trace[s].at].message # None
  <2>1. TraceFits(s) /\ pc[s] \in {"idle", "source", "insert", "delete", "trace", "traced"}
    BY <1>1 DEF MemoryInv, TraceShape, MemoryTypeOK
  <2>2. trace[s] # NoTrace
    BY <1>1 DEF NoTrace
  <2> QED
    BY <1>1, <2>1, <2>2 DEF TraceFits, Walking, Finished
<1>2. MemoryInv => DigestsVerify
  BY <1>1 DEF DigestsVerify
<1> QED
  BY <1>2, MemoryInvariance, PTL
=============================================================================
