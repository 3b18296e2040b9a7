---------------------------- MODULE MCChatBudget ----------------------------
(* Instances of ChatBudget: execution 1 of user u1, whose attempts are r1 and *)
(* r2, and execution 0 of user u2.                                            *)
EXTENDS ChatBudget, TLC

CONSTANTS r1, r2, r3, u1, u2

TwoRequests == {r1, r2}
SameBody == [r \in Requests |-> "body"]
TwoExecutions == 0..1
OwnExecution == {<<r1, 1>>, <<r2, 1>>, <<r3, 0>>}
TwoUsers == [x \in Reservations |-> IF x = 0 THEN u2 ELSE u1]
\* With four characters to a token and one output token: 4 tokens for execution 1,
\* which is verified, and 2 for execution 0.
Lengths == [x \in Reservations |-> IF x = 0 THEN 1 ELSE 4]
Verified == [x \in Reservations |-> x = 1]
Symmetric == Permutations(Requests)

\* Local variables of a request count as state only while its handler can still
\* read them, and the response it returned not at all: states that differ
\* elsewhere have the same future.
Live(v, r, S) == IF stage[r] \in S THEN v[r] ELSE Null

View ==
  <<clock, row, lastId, exec, accounted, overRefunded,
    count, ttl, marker, settled,
    IF standing[r3] \in {"refused", "over"} THEN "over" ELSE standing[r3],
    [r \in Requests |-> boundTo[r] # 0 /\ audit[r] = "open"],
    [r \in Requests |-> IF \E i \in Ids : exec[i].content = r THEN reported[r] ELSE NotReported],
    [r \in Requests |->
       IF stage[r] \in {"done", "crashed"}
         THEN Null
         ELSE <<stage[r], reported[r], pc[r], recordId[r], isRecovery[r], tries[r], standing[r],
                IF pc[r] \in {"insert", "select"} THEN now[r] ELSE 0,
                Live(lost, r, {"stream", "run", "finalize", "finalize_failure"}),
                Live(code, r, {"finalize_failure", "preflight_finalize"})>>]>>
=============================================================================
