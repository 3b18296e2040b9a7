----------------------------- MODULE AgentLoop -----------------------------
(***************************************************************************)
(* GovernedAgentRuntime.run (application/agent_runtime.py) driving         *)
(* run_agent_loop_async (application/agent_loop.py): planner, policy,      *)
(* budget, tool, observation, with an event made durable by                *)
(* AgentAuditTrail.record (application/agent_audit.py) at every transition.*)
(*                                                                         *)
(* Several runs execute concurrently and share one ExecutionBudget         *)
(* (application/execution_budget.py).  A run is a coroutine: at is the     *)
(* await it is suspended at, or the synchronous piece of code it executes  *)
(* next.  At the await "audit" the event being written is event[r], and    *)
(* the run goes on at then[r] once it is committed.  The task of a run may *)
(* be cancelled at any await.  dispatch is a coroutine function, so the    *)
(* refusal of a synchronous executor cannot happen here.                   *)
(***************************************************************************)
EXTENDS Integers, Sequences, SequencesExt

CONSTANTS
  Runs,                 \* the concurrent runs
  Tools,                \* the registered tools
  Declares,             \* Tool.capabilities
  allowed_capabilities, \* of the AgentAuthority
  Proposals,            \* what the planners propose: records [tool, capability]
  max_depth,
  timeout_seconds,
  tool_timeout_seconds,
  max_executions,       \* of the ExecutionBudget
  budget_seconds        \* timeout_seconds of the ExecutionBudget

ASSUME AgentAssumption ==
  /\ max_depth \in Nat \ {0}
  /\ timeout_seconds \in Nat \ {0}
  /\ tool_timeout_seconds \in 1..timeout_seconds
  /\ max_executions \in Nat
  /\ budget_seconds \in Nat \ {0}

VARIABLES
  remaining, \* ExecutionBudget._remaining
  budget,    \* time left until ExecutionBudget._deadline
  at,        \* where each run is
  event,     \* the event audit.record is writing
  then,      \* where the run goes on afterwards
  status,    \* the status of the LoopOutcome to finish with
  step,      \* the step the planner chose
  permit,    \* the permit of the run: the step it was issued for
  thread,    \* a thread executes policy
  depth,
  deadline,  \* time left until the deadline of the run
  timer,     \* time left of the wait_for around the tool
  trail,     \* the durable events of the run, in sequence order
  sequence,  \* AgentAuditTrail._sequence
  calls      \* executors called so far (history)

agentVars == <<remaining, budget, at, event, then, status, step, permit, thread,
               depth, deadline, timer, trail, sequence, calls>>
sharedVars == <<remaining, budget>>
policyVars == <<permit, thread>>
clockVars == <<deadline, timer>>
trailVars == <<trail, sequence>>

-----------------------------------------------------------------------------
NoStep == [tool |-> "none", capability |-> "none"]

NoEvent == <<"none", "none">>

\* The events of AgentEventType with their outcome.
Events ==
  {<<"run.started", "none">>, <<"tool.selected", "none">>,
   <<"tool.execution.started", "none">>, <<"tool.execution.completed", "completed">>,
   <<"observation.received", "none">>}
  \cup ({"planner.decision"} \X {"selected", "complete", "timeout", "failed"})
  \cup ({"authorization.decision"} \X {"allowed", "denied", "timeout", "failed"})
  \cup ({"budget.decision"} \X {"allowed", "denied"})
  \cup ({"tool.execution.failed"} \X {"timeout", "cancelled", "failed"})
  \cup ({"run.terminated"} \X
        {"COMPLETE", "DENIED", "BUDGET_EXHAUSTED", "TIMEOUT", "FAILED", "CANCELLED",
         "DEPTH_LIMIT_REACHED"})

Awaits == {"audit", "plan", "authorize", "execute"}

Pieces == {"head", "selected", "policy", "budget", "deadline", "dispatch", "observe",
           "finish"}

\* returned the outcome, raised CancelledError, raised AgentAuditUnavailable
Ends == {"returned", "cancelled", "unavailable"}

\* policy and authorize: the reason code of the decision.  The tenants of the
\* authority agree, or every step would be denied.
Decision(s) ==
  IF s.tool \notin Tools THEN "UNKNOWN_TOOL"
  ELSE IF s.capability = "" THEN "INVALID_REQUEST"
  ELSE IF s.capability \notin Declares[s.tool] THEN "CAPABILITY_NOT_DECLARED"
  ELSE IF s.capability \notin allowed_capabilities THEN "CAPABILITY_NOT_AUTHORIZED"
  ELSE "AUTHORIZED"

Allowed(s) == Decision(s) = "AUTHORIZED"

Earlier(a, b) == IF a < b THEN a ELSE b

\* The run starts writing event e and will go on at next.
Record(r, e, next) ==
  /\ at' = [at EXCEPT ![r] = "audit"]
  /\ event' = [event EXCEPT ![r] = e]
  /\ then' = [then EXCEPT ![r] = next]

\* An event followed by finish(outcome).
RecordAndFinish(r, e, outcome) ==
  /\ Record(r, e, "finish")
  /\ status' = [status EXCEPT ![r] = outcome]

\* finish(outcome)
Finish(r, outcome) ==
  /\ Record(r, <<"run.terminated", outcome>>,
            IF outcome = "CANCELLED" THEN "cancelled" ELSE "returned")
  /\ status' = [status EXCEPT ![r] = outcome]

Conclude(r) ==
  /\ at[r] = "finish"
  /\ Finish(r, status[r])
  /\ UNCHANGED <<sharedVars, step, policyVars, depth, clockVars, trailVars, calls>>

-----------------------------------------------------------------------------
(* AgentAuditTrail.record                                                  *)

\* The event is committed under the next sequence number.
Commit(r) ==
  /\ at[r] = "audit"
  /\ trail' = [trail EXCEPT ![r] = Append(@, event[r])]
  /\ sequence' = [sequence EXCEPT ![r] = @ + 1]
  /\ at' = [at EXCEPT ![r] = then[r]]
  /\ event' = [event EXCEPT ![r] = NoEvent]
  /\ UNCHANGED <<sharedVars, then, status, step, policyVars, depth, clockVars, calls>>

\* commit raises.  The database may have applied it all the same.
AuditFails(r) ==
  /\ at[r] = "audit"
  /\ trail' \in {trail, [trail EXCEPT ![r] = Append(@, event[r])]}
  /\ at' = [at EXCEPT ![r] = "unavailable"]
  /\ event' = [event EXCEPT ![r] = NoEvent]
  /\ UNCHANGED <<sharedVars, then, status, step, policyVars, depth, clockVars,
                 sequence, calls>>

-----------------------------------------------------------------------------
(* The loop                                                                *)

\* The deadline of the run is fixed before run.started is written.
Start(r) ==
  /\ at[r] = "idle"
  /\ deadline' = [deadline EXCEPT ![r] = timeout_seconds]
  /\ Record(r, <<"run.started", "none">>, "head")
  /\ UNCHANGED <<sharedVars, status, step, policyVars, depth, timer, trailVars, calls>>

Deeper(r) == depth[r] < max_depth

\* The head of the loop: the limits, then the planner is called.
Iterate(r) ==
  /\ at[r] = "head"
  /\ IF ~Deeper(r)
     THEN Finish(r, "DEPTH_LIMIT_REACHED")
     ELSE IF deadline[r] = 0
     THEN Finish(r, "TIMEOUT")
     ELSE at' = [at EXCEPT ![r] = "plan"] /\ UNCHANGED <<event, then, status>>
  /\ UNCHANGED <<sharedVars, step, policyVars, depth, clockVars, trailVars, calls>>

\* The planner proposes a step, or is done.
Plan(r) ==
  /\ at[r] = "plan"
  /\ \/ /\ \E s \in Proposals : step' = [step EXCEPT ![r] = s]
        /\ Record(r, <<"planner.decision", "selected">>, "selected")
        /\ UNCHANGED status
     \/ /\ RecordAndFinish(r, <<"planner.decision", "complete">>, "COMPLETE")
        /\ UNCHANGED step
  /\ UNCHANGED <<sharedVars, policyVars, depth, clockVars, trailVars, calls>>

\* How an error of the planner or of a tool is recorded and reported: its own
\* TimeoutError is taken for that of wait_for.
Raised == {<<"failed", "FAILED">>, <<"timeout", "TIMEOUT">>}

PlanFails(r) ==
  /\ at[r] = "plan"
  /\ \E e \in Raised : RecordAndFinish(r, <<"planner.decision", e[1]>>, e[2])
  /\ UNCHANGED <<sharedVars, step, policyVars, depth, clockVars, trailVars, calls>>

PlanTimesOut_Never(r) == FALSE /\ UNCHANGED agentVars

\* wait_for around the planner expires.
PlanTimesOut(r) ==
  /\ at[r] = "plan"
  /\ deadline[r] = 0
  /\ RecordAndFinish(r, <<"planner.decision", "timeout">>, "TIMEOUT")
  /\ UNCHANGED <<sharedVars, step, policyVars, depth, clockVars, trailVars, calls>>

\* tool.selected
Select(r) ==
  /\ at[r] = "selected"
  /\ Record(r, <<"tool.selected", "none">>, "policy")
  /\ UNCHANGED <<sharedVars, status, step, policyVars, depth, clockVars, trailVars,
                 calls>>

\* policy is not a coroutine function: a thread executes it, unless no time is left.
Authorize(r) ==
  /\ at[r] = "policy"
  /\ IF deadline[r] = 0
     THEN /\ RecordAndFinish(r, <<"authorization.decision", "timeout">>, "TIMEOUT")
          /\ UNCHANGED thread
     ELSE /\ thread' = [thread EXCEPT ![r] = TRUE]
          /\ at' = [at EXCEPT ![r] = "authorize"]
          /\ UNCHANGED <<event, then, status>>
  /\ UNCHANGED <<sharedVars, step, permit, depth, clockVars, trailVars, calls>>

\* What the thread does: a permit for the step, if it is allowed.
Permit(r) ==
  /\ thread[r]
  /\ thread' = [thread EXCEPT ![r] = FALSE]
  /\ permit' = [permit EXCEPT ![r] = IF Allowed(step[r]) THEN step[r] ELSE @]

Authorized_BudgetSkipped(r) ==
  /\ at[r] = "authorize"
  /\ Permit(r)
  /\ IF Allowed(step[r])
     THEN /\ Record(r, <<"authorization.decision", "allowed">>, "deadline")
          /\ UNCHANGED status
     ELSE RecordAndFinish(r, <<"authorization.decision", "denied">>, "DENIED")
  /\ UNCHANGED <<sharedVars, step, depth, clockVars, trailVars, calls>>

\* The thread answers in time.
Authorized(r) ==
  /\ at[r] = "authorize"
  /\ Permit(r)
  /\ IF Allowed(step[r])
     THEN /\ Record(r, <<"authorization.decision", "allowed">>, "budget")
          /\ UNCHANGED status
     ELSE RecordAndFinish(r, <<"authorization.decision", "denied">>, "DENIED")
  /\ UNCHANGED <<sharedVars, step, depth, clockVars, trailVars, calls>>

\* policy raises, or the thread pool does.
AuthorizeFails(r) ==
  /\ at[r] = "authorize"
  /\ thread' = [thread EXCEPT ![r] = FALSE]
  /\ RecordAndFinish(r, <<"authorization.decision", "failed">>, "FAILED")
  /\ UNCHANGED <<sharedVars, step, permit, depth, clockVars, trailVars, calls>>

\* wait_for expires; the thread goes on.
AuthorizeTimesOut(r) ==
  /\ at[r] = "authorize"
  /\ deadline[r] = 0
  /\ RecordAndFinish(r, <<"authorization.decision", "timeout">>, "TIMEOUT")
  /\ UNCHANGED <<sharedVars, step, policyVars, depth, clockVars, trailVars, calls>>

\* A thread nobody waits for issues its permit.
PermitLate(r) ==
  /\ at[r] # "authorize"
  /\ Permit(r)
  /\ UNCHANGED <<sharedVars, at, event, then, status, step, depth, clockVars,
                 trailVars, calls>>

Exhausted == remaining <= 0

\* ExecutionBudget.consume, under its lock.
Consume(r) ==
  /\ at[r] = "budget"
  /\ IF budget = 0
     THEN RecordAndFinish(r, <<"budget.decision", "denied">>, "TIMEOUT") /\ UNCHANGED remaining
     ELSE IF Exhausted
     THEN RecordAndFinish(r, <<"budget.decision", "denied">>, "BUDGET_EXHAUSTED")
          /\ UNCHANGED remaining
     ELSE /\ remaining' = remaining - 1
          /\ Record(r, <<"budget.decision", "allowed">>, "deadline")
          /\ UNCHANGED status
  /\ UNCHANGED <<budget, step, policyVars, depth, clockVars, trailVars, calls>>

CheckDeadline_Missing(r) ==
  /\ at[r] = "deadline"
  /\ timer' = [timer EXCEPT ![r] = Earlier(tool_timeout_seconds, deadline[r])]
  /\ Record(r, <<"tool.execution.started", "none">>, "dispatch")
  /\ UNCHANGED <<sharedVars, status, step, policyVars, depth, deadline, trailVars, calls>>

\* The deadline again.  The time left is what the tool will be given, counted from
\* its start.
CheckDeadline(r) ==
  /\ at[r] = "deadline"
  /\ IF deadline[r] = 0
     THEN Finish(r, "TIMEOUT") /\ UNCHANGED timer
     ELSE /\ timer' = [timer EXCEPT
                         ![r] = Earlier(tool_timeout_seconds, deadline[r])]
          /\ Record(r, <<"tool.execution.started", "none">>, "dispatch")
          /\ UNCHANGED status
  /\ UNCHANGED <<sharedVars, step, policyVars, depth, deadline, trailVars, calls>>

\* dispatch: the permit is taken, the arguments are validated, the executor is called.
Dispatch(r) ==
  /\ at[r] = "dispatch"
  /\ permit' = [permit EXCEPT ![r] = NoStep]
  /\ \/ /\ permit[r] # NoStep
        /\ calls' = [calls EXCEPT ![r] = @ + 1]
        /\ at' = [at EXCEPT ![r] = "execute"]
        /\ UNCHANGED <<event, then, status>>
     \/ /\ RecordAndFinish(r, <<"tool.execution.failed", "failed">>, "FAILED")
        /\ UNCHANGED calls
  /\ UNCHANGED <<sharedVars, step, thread, depth, clockVars, trailVars>>

\* The executor returns a value of the declared type.
ToolReturns(r) ==
  /\ at[r] = "execute"
  /\ Record(r, <<"tool.execution.completed", "completed">>, "observe")
  /\ UNCHANGED <<sharedVars, status, step, policyVars, depth, clockVars, trailVars,
                 calls>>

ToolFails_Unrecorded(r) ==
  /\ at[r] = "execute"
  /\ Finish(r, "FAILED")
  /\ UNCHANGED <<sharedVars, step, policyVars, depth, clockVars, trailVars, calls>>

\* It raises, or returns another value.
ToolFails(r) ==
  /\ at[r] = "execute"
  /\ \E e \in Raised : RecordAndFinish(r, <<"tool.execution.failed", e[1]>>, e[2])
  /\ UNCHANGED <<sharedVars, step, policyVars, depth, clockVars, trailVars, calls>>

ToolTimesOut_Retried(r) ==
  /\ at[r] = "execute"
  /\ timer[r] = 0
  /\ Record(r, <<"tool.execution.failed", "timeout">>, "head")
  /\ UNCHANGED <<sharedVars, status, step, policyVars, depth, clockVars, trailVars,
                 calls>>

\* wait_for around the executor expires and cancels it.
ToolTimesOut(r) ==
  /\ at[r] = "execute"
  /\ timer[r] = 0
  /\ RecordAndFinish(r, <<"tool.execution.failed", "timeout">>, "TIMEOUT")
  /\ UNCHANGED <<sharedVars, step, policyVars, depth, clockVars, trailVars, calls>>

Observe(r) ==
  /\ at[r] = "observe"
  /\ depth' = [depth EXCEPT ![r] = @ + 1]
  /\ Record(r, <<"observation.received", "none">>, "head")
  /\ UNCHANGED <<sharedVars, status, step, policyVars, clockVars, trailVars, calls>>

\* The task is cancelled.  Only the wait for the tool handles it; a commit that was
\* under way may still be applied.
Cancel(r) ==
  /\ at[r] \in Awaits
  /\ \/ /\ at[r] = "execute"
        /\ RecordAndFinish(r, <<"tool.execution.failed", "cancelled">>, "CANCELLED")
        /\ UNCHANGED trail
     \/ /\ at[r] # "execute"
        /\ trail' \in {trail} \cup
             {[trail EXCEPT ![r] = Append(@, e)] : e \in {event[r]} \ {NoEvent}}
        /\ at' = [at EXCEPT ![r] = "cancelled"]
        /\ event' = [event EXCEPT ![r] = NoEvent]
        /\ UNCHANGED <<then, status>>
  /\ UNCHANGED <<sharedVars, step, policyVars, depth, clockVars, sequence, calls>>

Less(t) == IF t = 0 THEN 0 ELSE t - 1

\* A unit of time passes: every deadline comes nearer, and the timer of a running tool.
Tick ==
  /\ budget' = Less(budget)
  /\ deadline' = [r \in Runs |-> Less(deadline[r])]
  /\ timer' = [r \in Runs |-> IF at[r] = "execute" THEN Less(timer[r]) ELSE timer[r]]
  /\ UNCHANGED <<remaining, at, event, then, status, step, policyVars, depth,
                 trailVars, calls>>

-----------------------------------------------------------------------------
AgentInit ==
  /\ remaining = max_executions
  /\ budget = budget_seconds
  /\ at = [r \in Runs |-> "idle"]
  /\ event = [r \in Runs |-> NoEvent]
  /\ then = [r \in Runs |-> "idle"]
  /\ status = [r \in Runs |-> "none"]
  /\ step = [r \in Runs |-> NoStep]
  /\ permit = [r \in Runs |-> NoStep]
  /\ thread = [r \in Runs |-> FALSE]
  /\ depth = [r \in Runs |-> 0]
  /\ deadline = [r \in Runs |-> 0]
  /\ timer = [r \in Runs |-> 0]
  /\ trail = [r \in Runs |-> <<>>]
  /\ sequence = [r \in Runs |-> 0]
  /\ calls = [r \in Runs |-> 0]

RunStep(r) ==
  \/ Start(r) \/ Conclude(r) \/ Commit(r) \/ AuditFails(r)
  \/ Iterate(r) \/ Plan(r) \/ PlanFails(r) \/ PlanTimesOut(r) \/ Select(r)
  \/ Authorize(r) \/ Authorized(r) \/ AuthorizeFails(r) \/ AuthorizeTimesOut(r)
  \/ PermitLate(r) \/ Consume(r) \/ CheckDeadline(r) \/ Dispatch(r)
  \/ ToolReturns(r) \/ ToolFails(r) \/ ToolTimesOut(r) \/ Observe(r) \/ Cancel(r)

AgentNext == Tick \/ \E r \in Runs : RunStep(r)

AgentSpec == AgentInit /\ [][AgentNext]_agentVars

\* What the loop itself does goes on, the database answers, timers expire and time
\* passes.  A planner, a policy thread or an executor need not ever answer.
Forced(r) ==
  \/ Conclude(r) \/ Commit(r) \/ AuditFails(r) \/ Iterate(r) \/ Select(r) \/ Authorize(r)
  \/ Consume(r) \/ CheckDeadline(r) \/ Dispatch(r) \/ Observe(r)
  \/ PlanTimesOut(r) \/ AuthorizeTimesOut(r) \/ ToolTimesOut(r)

AgentFairSpec ==
  AgentSpec /\ WF_agentVars(Tick) /\ \A r \in Runs : WF_agentVars(Forced(r))

-----------------------------------------------------------------------------
Count(r, types) == Cardinality({i \in DOMAIN trail[r] : trail[r][i][1] \in types})

Closed == {"tool.execution.completed", "tool.execution.failed"}

Refusals == {"denied", "timeout", "failed", "cancelled"}

\* Type invariant: the state of the loop, of the audit trail and of the budget.
AgentTypeOK ==
  /\ remaining \in 0..max_executions
  /\ budget \in 0..budget_seconds
  /\ deadline \in [Runs -> 0..timeout_seconds]
  /\ timer \in [Runs -> 0..tool_timeout_seconds]
  /\ at \in [Runs -> {"idle"} \cup Awaits \cup Pieces \cup Ends]
  /\ event \in [Runs -> Events \cup {NoEvent}]
  /\ \A r \in Runs : (at[r] = "audit") <=> (event[r] # NoEvent)
  /\ then \in [Runs -> {"idle"} \cup Pieces \cup Ends]
  /\ step \in [Runs -> Proposals \cup {NoStep}]
  /\ permit \in [Runs -> Proposals \cup {NoStep}]
  /\ thread \in [Runs -> BOOLEAN]
  /\ depth \in [Runs -> 0..max_depth]
  /\ \A r \in Runs : trail[r] \in Seq(Events)
  /\ sequence \in [Runs -> Nat]

\* No executor runs unless the events that justify it are durable: the last five of
\* the trail are the planner's choice, the selection, the allowed authorization and
\* budget decisions and the start of the execution, in that order, and what runs is a
\* step the policy allows.
ExecutionIsEvidenced ==
  \A r \in Runs : at[r] = "execute" =>
    /\ Allowed(step[r])
    /\ step[r].capability \in allowed_capabilities
    /\ IsSuffix(<< <<"planner.decision", "selected">>, <<"tool.selected", "none">>,
                   <<"authorization.decision", "allowed">>,
                   <<"budget.decision", "allowed">>,
                   <<"tool.execution.started", "none">> >>, trail[r])

\* The trail accounts for the work: its sequence numbers have no gap and no repetition
\* while the run goes on; every executor call has its durable start; a run
\* that returned has an end for every start, as many completed tools as its depth says,
\* and the terminal outcome as its last event, once.
TrailAccounts ==
  \A r \in Runs :
    /\ at[r] \notin {"cancelled", "unavailable"} => sequence[r] = Len(trail[r])
    /\ calls[r] <= Count(r, {"tool.execution.started"})
    /\ at[r] = "returned" =>
         /\ Count(r, {"tool.execution.started"}) = Count(r, Closed)
         /\ Count(r, {"tool.execution.completed"}) = depth[r]
         /\ Last(trail[r]) = <<"run.terminated", status[r]>>
         /\ Count(r, {"run.terminated"}) = 1

\* A refusal ends the run: no executor is called once a denial, a timeout or a failure
\* is in the trail or being written.
RefusalIsFinal ==
  [][\A r \in Runs : calls'[r] # calls[r] =>
       \A i \in DOMAIN trail[r] : trail[r][i][2] \notin Refusals]_agentVars

\* The deadline of r has passed, and the start of no tool is being written.
Past(r) ==
  /\ at[r] \notin {"idle", "dispatch"}
  /\ deadline[r] = 0
  /\ ~(at[r] = "audit" /\ then[r] = "dispatch")

\* After the deadline no executor is called, whichever of planner, policy, budget
\* and audit used the time up.  The exception is the tool whose start was being
\* written when the deadline passed: it is called late, and nothing follows it.
NoStepAfterDeadline ==
  [][\A r \in Runs : Past(r) => Past(r)' /\ calls'[r] = calls[r]]_agentVars

\* A run that started ends, though planner, policy or tools may hang.
RunsEnd == \A r \in Runs : (at[r] # "idle") ~> (at[r] \in Ends)

=============================================================================
