------------------------------- MODULE MCChat -------------------------------
(* Instances of ChatExecution. *)
EXTENDS ChatExecution, TLC

CONSTANTS r1, r2, r3

TwoRequests == {r1, r2}
ThreeRequests == {r1, r2, r3}
SameBody == [r \in Requests |-> "body"]
Symmetric == Permutations(Streaming) \cup Permutations(Requests \ Streaming)

\* Local variables of a request count as state only while its handler can still
\* read them; states that differ elsewhere have the same future.
Live(v, r, S) == IF stage[r] \in S THEN v[r] ELSE Null

View ==
  <<clock, row, lastId, exec, accounted, stage, boundTo, audit, answer,
    [r \in Requests |->
       IF stage[r] \in {"done", "crashed"}
         THEN recordId[r]
         ELSE <<pc[r], recordId[r], isRecovery[r], reply[r], tries[r],
                IF pc[r] \in {"insert", "select"} THEN now[r] ELSE 0,
                Live(lost, r, {"stream", "run", "finalize", "finalize_failure"}),
                Live(code, r, {"finalize_failure", "preflight_finalize"})>>]>>
=============================================================================
