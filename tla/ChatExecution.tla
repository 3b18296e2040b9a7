--------------------------- MODULE ChatExecution ---------------------------
(***************************************************************************)
(* POST /chat/completions: the handler of api/v1/chat.py with the          *)
(* persistence contract of application/chat_persistence.py, the governance *)
(* audit trail and the idempotency ledger (module Idempotency).            *)
(*                                                                         *)
(* Requests carry the same idempotency key.  An execution is named by the  *)
(* id of the ledger record it was derived from (execution_identity), so    *)
(* exec[i] is the chat_executions row, with its assistant message, of      *)
(* record i.  A request runs its handler one database transaction or       *)
(* external call at a time; stage[r] is the call it is about to make.      *)
(* Between two calls the process may crash, other requests run and time    *)
(* passes.  Every database call may fail, and a commit that reports an     *)
(* error may nevertheless have been applied.                               *)
(*                                                                         *)
(* The variable pc of Idempotency is the request's standing with the       *)
(* ledger; the handler's own writes to idempotency_records move it too.    *)
(*                                                                         *)
(* assert_recovery_allowed ends with a rollback.  chat.py goes on to read  *)
(* the conversation and the bot of the same session, as if RollbackExpires *)
(* were FALSE; SQLAlchemy expires them, and the read fails like a database *)
(* call.  Since every call may fail, each behaviour with TRUE is also one  *)
(* with FALSE.                                                             *)
(***************************************************************************)
EXTENDS Idempotency, FiniteSets

CONSTANTS
  Streaming,     \* the requests with payload.stream
  AttemptLimits, \* the values settings.CHAT_MAX_ATTEMPTS may have on a server
  RollbackExpires \* a rollback expires the objects a session has loaded

ASSUME ChatAssumption ==
  /\ Streaming \subseteq Requests
  /\ AttemptLimits \subseteq Nat \ {0}
  /\ RollbackExpires \in BOOLEAN

VARIABLES
  stage,         \* stage[r]: the next call of the handler
  code,          \* code[r]: the FailureCode the handler is reporting
  lost,          \* lost[r]: the asyncio.Event set by the lease heartbeat
  exec,          \* exec[i]: the execution of record i and its assistant message
  boundTo,       \* boundTo[r]: execution_id of r's governance decision, or 0
  audit,         \* audit[r]: result_status of r's governance decision
  accounted,     \* <<i, attempt>> of the primary provider_usage_records rows
  answer         \* answer[r]: the response r returned to its client, by author

chatVars == <<stage, code, lost, exec, boundTo, audit, accounted, answer>>
vars == <<ledgerVars, chatVars>>

-----------------------------------------------------------------------------
Ids == 1..MaxRecords

Stages ==
  {"authorize", "ledger", "budget", "persist", "provider", "stream", "run",
   "finalize", "finalize_failure", "preflight_finalize", "release", "audit",
   "unlock", "done", "crashed"}

TerminalStatuses == {"completed", "failed", "cancelled"}

NoExecution ==
  [status |-> "none", attempts |-> 0, limit |-> 0, retryable |-> FALSE, attached |-> FALSE,
   assistant |-> "none", content |-> Null]

\* failure_policy(code).retryable; provider_timeout and database_failure behave like
\* provider_failure.
Retryable(c) == c # "context_rejected"

\* The terminal status a failure code is recorded with.
FailedStatus(c) == IF c = "client_cancelled" THEN "cancelled" ELSE "failed"

Terminal(i) == exec[i].status \in TerminalStatuses

Goto(r, s) == stage' = [stage EXCEPT ![r] = s]

\* _assert_recovery_owner: record i is in progress under r's unexpired lease.
Owns(r, i) ==
  /\ exec[i].attached
  /\ row.id = i
  /\ row.status = "processing"
  /\ row.token = r
  /\ ~LeaseExpired(clock)

-----------------------------------------------------------------------------
(* authorize, and the ledger                                               *)

\* The decision is committed, then begin_idempotency reads the clock.
Authorize(r) ==
  /\ stage[r] = "authorize"
  /\ Begin(r)
  /\ audit' = [audit EXCEPT ![r] = "open"]
  /\ Goto(r, "ledger")
  /\ UNCHANGED <<code, lost, exec, boundTo, accounted, answer>>

\* 404, 409 and audit failures record nothing; a policy denial is recorded closed.
RefuseAuthorization(r) ==
  /\ stage[r] = "authorize"
  /\ \E a \in {"none", "denied"} : audit' = [audit EXCEPT ![r] = a]
  /\ Goto(r, "done")
  /\ UNCHANGED <<ledgerVars, code, lost, exec, boundTo, accounted, answer>>

\* ON DELETE SET NULL: deleting a record detaches the execution bound to it.
Detach ==
  exec' = IF row'.status = "absent" /\ row.id \in Ids
            THEN [exec EXCEPT ![row.id].attached = FALSE]
            ELSE exec

\* One statement of begin_idempotency or read_cached_response.
LedgerStep(r) ==
  /\ stage[r] = "ledger"
  /\ BeginStep(r) \/ ReadCached(r)
  /\ Detach
  /\ UNCHANGED <<stage, code, lost, boundTo, audit, accounted, answer>>

\* A replay closes the decision and returns the cached response.
Replay(r) ==
  /\ stage[r] = "ledger"
  /\ pc[r] = "replayed"
  /\ audit' = [audit EXCEPT ![r] = "replayed"]
  /\ answer' = [answer EXCEPT ![r] = reply[r]]
  /\ Goto(r, "done")
  /\ UNCHANGED <<ledgerVars, code, lost, exec, boundTo, accounted>>

\* begin_idempotency raised 409 or 503: no budget was reserved.
RefusedByLedger(r) ==
  /\ stage[r] = "ledger"
  /\ pc[r] \in {"conflict", "unavailable"}
  /\ Goto(r, "audit")
  /\ UNCHANGED <<ledgerVars, code, lost, exec, boundTo, audit, accounted, answer>>

-----------------------------------------------------------------------------
(* assert_recovery_allowed                                                 *)

Recovering(r) == stage[r] = "ledger" /\ pc[r] = "owner" /\ isRecovery[r]

Exhausted(i) == exec[i].attempts >= exec[i].limit

\* The states from which another attempt may start.
Resumable_AnyFailure(i) ==
  exec[i].status \in {"prepared", "streaming", "failed", "cancelled"}

Resumable(i) ==
  \/ exec[i].status \in {"prepared", "streaming"}
  \/ exec[i].status \in {"failed", "cancelled"} /\ exec[i].retryable

\* The execution after its retry limit was found reached.
ExhaustedExecution(i) ==
  [exec[i] EXCEPT !.status = "failed", !.retryable = FALSE, !.assistant = "failed"]

RecoveryAllowed(r) ==
  LET i == recordId[r] IN
  /\ Recovering(r)
  /\ \/ exec[i].status = "none"
     \/ Owns(r, i) /\ ~Exhausted(i) /\ Resumable(i)
  /\ Goto(r, "budget")
  /\ UNCHANGED <<ledgerVars, code, lost, exec, boundTo, audit, accounted, answer>>

RecoveryRejected(r) ==
  LET i == recordId[r] IN
  /\ Recovering(r)
  /\ exec[i].status # "none"
  /\ \/ ~Owns(r, i)
     \/ ~Exhausted(i) /\ ~Resumable(i)
  /\ Goto(r, "audit")
  /\ UNCHANGED <<ledgerVars, code, lost, exec, boundTo, audit, accounted, answer>>

\* The limit closes execution and record; the record keeps its token.
RecoveryExhausted(r) ==
  LET i == recordId[r] IN
  /\ Recovering(r)
  /\ exec[i].status # "none"
  /\ Owns(r, i)
  /\ Exhausted(i)
  /\ exec' = [exec EXCEPT ![i] = ExhaustedExecution(i)]
  /\ row' = CompletedRow(r, FALSE)
  /\ pc' = [pc EXCEPT ![r] = "failed"]
  /\ Goto(r, "audit")
  /\ UNCHANGED <<clock, lastId, callVars, reply, code, lost, boundTo, audit,
                 accounted, answer>>

-----------------------------------------------------------------------------
(* reserve_budget and prepare_exchange                                     *)

\* A fresh owner, an admitted recovery, or a replay whose response was gone.
\* The reservation itself is the subject of module TokenBudget.
ReserveBudget(r) ==
  /\ \/ stage[r] = "budget"
     \/ stage[r] = "ledger" /\ pc[r] = "owner" /\ ~isRecovery[r]
     \/ stage[r] = "ledger" /\ pc[r] = "uncached"
  /\ \E s \in {"persist", "audit"} : Goto(r, s)
  /\ UNCHANGED <<ledgerVars, code, lost, exec, boundTo, audit, accounted, answer>>

\* Callers may not see the outcome of a commit: it is applied, and the handler
\* goes on or takes its error path.
CommittedOrUnknown(r) == \E s \in {"provider", "release"} : Goto(r, s)

\* persist_request can read what authorize loaded, and calls prepare_exchange.
Persisting(r) == stage[r] = "persist" /\ ~(RollbackExpires /\ isRecovery[r])

\* _bind_governance_decision: the decision of r now belongs to execution i.
BindDecision(r, i) == boundTo' = [boundTo EXCEPT ![r] = i]

\* First attempt: execution, messages, usage row and decision in one commit.
\* The retry limit is stored with it.  Neither the lease nor the token is looked
\* at; the foreign key requires the record to exist.
PersistNew(r) ==
  LET i == recordId[r] IN
  /\ Persisting(r)
  /\ exec[i].status = "none"
  /\ row.id = i
  /\ \E limit \in AttemptLimits :
       exec' = [exec EXCEPT ![i] =
         [status |-> "prepared", attempts |-> 1, limit |-> limit, retryable |-> FALSE,
          attached |-> TRUE, assistant |-> "pending", content |-> Null]]
  /\ BindDecision(r, i)
  /\ CommittedOrUnknown(r)
  /\ UNCHANGED <<ledgerVars, code, lost, audit, accounted, answer>>

\* An existing execution with its next attempt started.
NextAttempt(i) ==
  [exec[i] EXCEPT !.status = "prepared", !.attempts = exec[i].attempts + 1,
                  !.retryable = TRUE, !.assistant = "pending", !.content = Null]

PersistRecovered_Unbound(r) ==
  LET i == recordId[r] IN
  /\ Persisting(r)
  /\ exec[i].status # "none"
  /\ isRecovery[r]
  /\ Owns(r, i)
  /\ ~Exhausted(i)
  /\ Resumable(i)
  /\ exec' = [exec EXCEPT ![i] = NextAttempt(i)]
  /\ CommittedOrUnknown(r)
  /\ UNCHANGED <<ledgerVars, code, lost, boundTo, audit, accounted, answer>>

PersistRecovered_Unlimited(r) ==
  LET i == recordId[r] IN
  /\ Persisting(r)
  /\ exec[i].status # "none"
  /\ isRecovery[r]
  /\ Owns(r, i)
  /\ Resumable(i)
  /\ exec' = [exec EXCEPT ![i] = NextAttempt(i)]
  /\ BindDecision(r, i)
  /\ CommittedOrUnknown(r)
  /\ UNCHANGED <<ledgerVars, code, lost, audit, accounted, answer>>

\* The next attempt of an existing execution.
PersistRecovered(r) ==
  LET i == recordId[r] IN
  /\ Persisting(r)
  /\ exec[i].status # "none"
  /\ isRecovery[r]
  /\ Owns(r, i)
  /\ ~Exhausted(i)
  /\ Resumable(i)
  /\ exec' = [exec EXCEPT ![i] = NextAttempt(i)]
  /\ BindDecision(r, i)
  /\ CommittedOrUnknown(r)
  /\ UNCHANGED <<ledgerVars, code, lost, audit, accounted, answer>>

\* PersistenceConflict, or the foreign key fails.
PersistRejected(r) ==
  LET i == recordId[r] IN
  /\ Persisting(r)
  /\ IF exec[i].status = "none"
       THEN row.id # i
       ELSE \/ ~isRecovery[r]
            \/ ~Owns(r, i)
            \/ ~Exhausted(i) /\ ~Resumable(i)
  /\ Goto(r, "release")
  /\ UNCHANGED <<ledgerVars, code, lost, exec, boundTo, audit, accounted, answer>>

\* The limit was reached since assert_recovery_allowed; the record stays open.
\* It is tested before the execution's status.
PersistExhausted(r) ==
  LET i == recordId[r] IN
  /\ Persisting(r)
  /\ exec[i].status # "none"
  /\ isRecovery[r]
  /\ Owns(r, i)
  /\ Exhausted(i)
  /\ exec' = [exec EXCEPT ![i] = ExhaustedExecution(i)]
  /\ Goto(r, "release")
  /\ UNCHANGED <<ledgerVars, code, lost, boundTo, audit, accounted, answer>>

-----------------------------------------------------------------------------
(* prepare_provider, mark_streaming, the provider call and the heartbeat   *)

\* Provider and context are ready, or could not be built (ContextBudgetExceeded
\* is not retryable, the other failures are).
PrepareProvider(r) ==
  /\ stage[r] = "provider"
  /\ \/ /\ Goto(r, IF r \in Streaming THEN "stream" ELSE "run")
        /\ UNCHANGED code
     \/ \E c \in {"provider_failure", "context_rejected"} :
          /\ code' = [code EXCEPT ![r] = c]
          /\ Goto(r, "preflight_finalize")
  /\ UNCHANGED <<ledgerVars, lost, exec, boundTo, audit, accounted, answer>>

MarkStreaming_AnyStatus(r) ==
  LET i == recordId[r] IN
  /\ stage[r] = "stream"
  /\ exec' = [exec EXCEPT ![i].status = "streaming", ![i].assistant = "streaming"]
  /\ Goto(r, "run")
  /\ UNCHANGED <<ledgerVars, code, lost, boundTo, audit, accounted, answer>>

\* mark_streaming looks at the status only, not at the lease.
MarkStreaming(r) ==
  LET i == recordId[r] IN
  /\ stage[r] = "stream"
  /\ IF Terminal(i)
       THEN /\ code' = [code EXCEPT ![r] = "provider_failure"]
            /\ Goto(r, "finalize_failure")
            /\ UNCHANGED exec
       ELSE /\ exec' = [exec EXCEPT ![i].status = "streaming",
                                    ![i].assistant = "streaming"]
            /\ Goto(r, "run")
            /\ UNCHANGED code
  /\ UNCHANGED <<ledgerVars, lost, boundTo, audit, accounted, answer>>

\* The heartbeat task lives from before mark_streaming to the end of the handler.
HeartbeatRuns(r) ==
  /\ stage[r] \in {"stream", "run", "finalize", "finalize_failure"}
  /\ ~lost[r]

\* A renewal that finds the token replaced, or fails, sets the event.
Heartbeat(r) ==
  /\ HeartbeatRuns(r)
  /\ \/ Renew(r) /\ lost' = [lost EXCEPT ![r] = ~Renewable(r)]
     \/ lost' = [lost EXCEPT ![r] = TRUE] /\ UNCHANGED ledgerVars
  /\ UNCHANGED <<stage, code, exec, boundTo, audit, accounted, answer>>

\* A stream has ended and its usage is settled; the event is looked at last.
StreamAnswers(r) ==
  /\ stage[r] = "run" /\ r \in Streaming
  /\ IF lost[r]
       THEN /\ code' = [code EXCEPT ![r] = "provider_failure"]
            /\ Goto(r, "finalize_failure")
       ELSE /\ Goto(r, "finalize")
            /\ UNCHANGED code
  /\ UNCHANGED <<ledgerVars, lost, exec, boundTo, audit, accounted, answer>>

\* Without streaming, ProviderFailureIsolation.execute returns what its validate
\* callback returns, the text: reading completion.text raises, and the answer is
\* reported as a provider failure.
CompletionUnread(r) ==
  /\ stage[r] = "run" /\ r \notin Streaming
  /\ code' = [code EXCEPT ![r] = "provider_failure"]
  /\ Goto(r, "finalize_failure")
  /\ UNCHANGED <<ledgerVars, lost, exec, boundTo, audit, accounted, answer>>

ProviderAnswers(r) == StreamAnswers(r) \/ CompletionUnread(r)

\* The event interrupts a stream that waits for its provider.
LeaseLost(r) ==
  /\ stage[r] = "run" /\ r \in Streaming /\ lost[r]
  /\ code' = [code EXCEPT ![r] = "idempotency_lost"]
  /\ Goto(r, "finalize_failure")
  /\ UNCHANGED <<ledgerVars, lost, exec, boundTo, audit, accounted, answer>>

\* How a provider call that did not answer is reported.
ProviderFailureCodes == {"provider_failure", "client_cancelled"}

\* Provider or settlement failure, timeout, or client disconnect.
ProviderFails(r) ==
  /\ stage[r] = "run"
  /\ \E c \in ProviderFailureCodes : code' = [code EXCEPT ![r] = c]
  /\ Goto(r, "finalize_failure")
  /\ UNCHANGED <<ledgerVars, lost, exec, boundTo, audit, accounted, answer>>

\* The client goes away while finalize waits for the database: the transaction is
\* rolled back.  The stream has claimed its terminal and is over.
CancelledInFinalize(r) ==
  /\ stage[r] = "finalize"
  /\ Goto(r, "done")
  /\ UNCHANGED <<ledgerVars, code, lost, exec, boundTo, audit, accounted, answer>>

-----------------------------------------------------------------------------
(* finalize                                                                *)

OpenDecisions(i) == {q \in Requests : boundTo[q] = i /\ audit[q] = "open"}

Fenced_LeaseIgnored(r, i) ==
  exec[i].attached => row.id = i /\ row.status = "processing"

\* Ownership is required unless the execution's record was deleted.
Fenced(r, i) == exec[i].attached => Owns(r, i)

\* The tests finalize makes before it commits; metered says that the caller
\* passes accounting entries.
Finalizable(r, i, metered) ==
  /\ ~Terminal(i)
  /\ Fenced(r, i)
  /\ OpenDecisions(i) # {}
  /\ metered => <<i, exec[i].attempts>> \notin accounted

FinalAudit_OwnOnly(r, i, status) == [audit EXCEPT ![r] = status]

\* Every open decision of the execution is closed, whoever recorded it.
FinalAudit(r, i, status) ==
  [q \in Requests |-> IF q \in OpenDecisions(i) THEN status ELSE audit[q]]

FinalRow_NotWritten(r, i, status) == row

FinalRow_LeaseKept(r, i, status) ==
  IF exec[i].attached
    THEN [CompletedRow(r, status = "completed") EXCEPT !.lease = row.lease]
    ELSE row

FinalRow(r, i, status) ==
  IF exec[i].attached THEN CompletedRow(r, status = "completed") ELSE row

\* The execution and its assistant message; a stream that failed leaves its part.
FinalExecution(r, i, status, retry) ==
  [exec[i] EXCEPT !.status = status, !.retryable = retry, !.assistant = status,
                  !.content = IF status = "completed" \/ r \in Streaming
                                THEN r ELSE Null]

\* The single commit: execution, assistant message, record, decisions, usage.
CommitFinal(r, i, status, retry, metered) ==
  /\ exec' = [exec EXCEPT ![i] = FinalExecution(r, i, status, retry)]
  /\ row' = FinalRow(r, i, status)
  /\ pc' = IF exec[i].attached
             THEN [pc EXCEPT ![r] = IF status = "completed" THEN "completed" ELSE "failed"]
             ELSE pc
  /\ audit' = FinalAudit(r, i, status)
  /\ accounted' = accounted \cup (IF metered THEN {<<i, exec[i].attempts>>} ELSE {})
  /\ UNCHANGED <<clock, lastId, callVars, reply, lost, boundTo>>

\* The answer reaches the client only when the commit is known to be applied.
FinalizeCompleted(r) ==
  LET i == recordId[r] IN
  /\ stage[r] = "finalize"
  /\ Finalizable(r, i, TRUE)
  /\ CommitFinal(r, i, "completed", FALSE, TRUE)
  /\ \E a \in {r, Null} : answer' = [answer EXCEPT ![r] = a]
  /\ Goto(r, "done")
  /\ UNCHANGED code

\* finalize returned False or raised PersistenceConflict.  Only streams get here
\* (see CompletionUnread); this one has claimed its terminal and is over.
CompletionRejected(r) ==
  /\ stage[r] = "finalize"
  /\ ~Finalizable(r, recordId[r], TRUE)
  /\ Goto(r, "done")
  /\ UNCHANGED <<ledgerVars, code, lost, exec, boundTo, audit, accounted, answer>>

\* finalize_failure, or the finalize of fail_preflight, which meters nothing.
\* A refusal is swallowed: the request ends with its error either way.
RecordFailure(r, s, metered) ==
  LET i == recordId[r] IN
  /\ stage[r] = s
  /\ IF Finalizable(r, i, metered)
       THEN CommitFinal(r, i, FailedStatus(code[r]), Retryable(code[r]), metered)
       ELSE UNCHANGED <<ledgerVars, lost, exec, boundTo, audit, accounted>>
  /\ Goto(r, "done")
  /\ UNCHANGED <<code, answer>>

FinalizeFailure(r) == RecordFailure(r, "finalize_failure", TRUE)

PreflightFinalize(r) == RecordFailure(r, "preflight_finalize", FALSE)

-----------------------------------------------------------------------------
(* fail_preflight of a request that persisted nothing                      *)

\* release_tenant; see module TokenBudget.  A failure is swallowed.
ReleaseBudget(r) ==
  /\ stage[r] = "release"
  /\ Goto(r, "audit")
  /\ UNCHANGED <<ledgerVars, code, lost, exec, boundTo, audit, accounted, answer>>

\* record_result leaves a decision that is already closed alone.
AuditPreflight(r) ==
  /\ stage[r] = "audit"
  /\ audit' = [audit EXCEPT ![r] = IF @ = "open" THEN "preflight_failed" ELSE @]
  /\ Goto(r, "unlock")
  /\ UNCHANGED <<ledgerVars, code, lost, exec, boundTo, accounted, answer>>

\* _release_preflight_lease: complete_idempotency with a failure status, only
\* when begin_idempotency returned a token.
Unlock(r) ==
  /\ stage[r] = "unlock"
  /\ \E t \in ReadTimes :
       IF pc[r] = "owner" /\ Completable(r, t)
         THEN row' = CompletedRow(r, FALSE) /\ pc' = [pc EXCEPT ![r] = "failed"]
         ELSE UNCHANGED <<row, pc>>
  /\ Goto(r, "done")
  /\ UNCHANGED <<clock, lastId, callVars, reply, code, lost, exec, boundTo, audit,
                 accounted, answer>>

-----------------------------------------------------------------------------
(* Failures and the environment                                            *)

\* Where the handler goes when the database call of a stage fails and nothing
\* was applied.
AfterDbError ==
  [s \in Stages |->
     CASE s = "ledger" -> "audit"
       [] s = "persist" -> "release"
       [] s = "provider" -> "preflight_finalize"
       [] s = "stream" -> "finalize_failure"
       [] OTHER -> "done"]

\* SQLAlchemyError (reading an expired object raises one), PersistenceUnavailable
\* or GovernanceAuditUnavailable.
DbFails(r) ==
  /\ stage[r] \in {"ledger", "persist", "provider", "stream", "finalize",
                   "finalize_failure", "preflight_finalize", "audit", "unlock"}
  /\ Goto(r, IF stage[r] = "ledger" /\ pc[r] = "replayed" THEN "done"
                                                        ELSE AfterDbError[stage[r]])
  /\ code' = [code EXCEPT ![r] = IF stage[r] \in {"provider", "stream"}
                                   THEN "provider_failure" ELSE @]
  /\ UNCHANGED <<ledgerVars, lost, exec, boundTo, audit, accounted, answer>>

CrashRequest(r) ==
  /\ stage[r] \notin {"authorize", "done", "crashed"}
  /\ Goto(r, "crashed")
  /\ UNCHANGED <<ledgerVars, code, lost, exec, boundTo, audit, accounted, answer>>

CleanUpRecords ==
  /\ Cleanup
  /\ Detach
  /\ UNCHANGED <<stage, code, lost, boundTo, audit, accounted, answer>>

Time == Tick /\ UNCHANGED chatVars

-----------------------------------------------------------------------------
Init ==
  /\ LedgerInit
  /\ stage = [r \in Requests |-> "authorize"]
  /\ code = [r \in Requests |-> "provider_failure"]
  /\ lost = [r \in Requests |-> FALSE]
  /\ exec = [i \in Ids |-> NoExecution]
  /\ boundTo = [r \in Requests |-> 0]
  /\ audit = [r \in Requests |-> "none"]
  /\ accounted = {}
  /\ answer = [r \in Requests |-> Null]

\* The calls of the handler in which the token budget takes part.
BudgetedStep(r) ==
  \/ ReserveBudget(r) \/ ProviderAnswers(r) \/ ProviderFails(r) \/ ReleaseBudget(r)

UnbudgetedStep(r) ==
  \/ LedgerStep(r) \/ Replay(r) \/ RefusedByLedger(r)
  \/ RecoveryAllowed(r) \/ RecoveryRejected(r) \/ RecoveryExhausted(r)
  \/ PersistNew(r) \/ PersistRecovered(r) \/ PersistRejected(r) \/ PersistExhausted(r)
  \/ PrepareProvider(r) \/ MarkStreaming(r) \/ LeaseLost(r)
  \/ FinalizeCompleted(r) \/ CompletionRejected(r)
  \/ FinalizeFailure(r) \/ PreflightFinalize(r)
  \/ AuditPreflight(r) \/ Unlock(r)

\* What may happen to the handler instead of its next call.
Disturbance(r) == CancelledInFinalize(r) \/ DbFails(r) \/ CrashRequest(r)

\* What the handler of r does by itself.
HandlerStep(r) == BudgetedStep(r) \/ UnbudgetedStep(r)

Next ==
  \/ \E r \in Requests : \/ Authorize(r) \/ RefuseAuthorization(r) \/ HandlerStep(r)
                         \/ Heartbeat(r) \/ Disturbance(r)
  \/ CleanUpRecords
  \/ Time

Spec == Init /\ [][Next]_vars

-----------------------------------------------------------------------------
(* Properties                                                              *)

\* The record and its execution are completed together and hold the same
\* response: prepare_exchange tests the retry limit before the status, so an
\* open record of a completed execution would let a retry fail it.
LedgerAgrees ==
  \A i \in Ids : row.id = i =>
    /\ row.status = "completed" <=> exec[i].status = "completed"
    /\ row.status = "completed" => exec[i].content = row.response

\* A response a client received, first-hand or replayed, is the stored content
\* of a completed execution: no crash, takeover or late write takes it back.
AnswerIsDurable ==
  \A r \in Requests : answer[r] # Null =>
    LET e == exec[recordId[answer[r]]] IN
    e.status = "completed" /\ e.content = answer[r]

\* An execution that ended has no governance decision open, those of crashed
\* earlier attempts included, unless its retry limit ended it: that branch of
\* assert_recovery_allowed and prepare_exchange closes none.
EndedIsAudited ==
  \A i \in Ids : Terminal(i) =>
    \/ OpenDecisions(i) = {}
    \/ exec[i].status = "failed" /\ ~exec[i].retryable /\ Exhausted(i)

\* An owner inside its lease is never refused by finalize: the execution is
\* open, a decision is bound and the attempt was not yet accounted.
OwnerCanFinalize ==
  \A r \in Requests :
    stage[r] \in {"finalize", "finalize_failure", "preflight_finalize"}
      /\ Owns(r, recordId[r])
    => Finalizable(r, recordId[r], TRUE)

\* An execution ends only while its record is in progress under an unexpired
\* lease, unless the record itself has been deleted.
EndsUnderLease ==
  [][\A i \in Ids : exec[i].attached /\ ~Terminal(i) /\ Terminal(i)' =>
       row.id = i /\ row.status = "processing" /\ ~LeaseExpired(clock)]_vars

\* The handler uses the ledger as its interface allows, also where
\* chat_persistence.py writes idempotency_records by itself.
UsesLedger == LedgerInit /\ [][LedgerNext]_ledgerVars

\* The executions implement the abstract life cycle.
Phase(e) ==
  CASE e.status = "none" -> "absent"
    [] e.status \in {"prepared", "streaming"} -> "active"
    [] e.status = "completed" -> "completed"
    [] OTHER -> IF e.retryable THEN "resumable" ELSE "dead"

Lifecycle == INSTANCE ExchangeLifecycle WITH
  Names <- Ids, Limits <- AttemptLimits,
  phase <- [i \in Ids |-> Phase(exec[i])], tried <- [i \in Ids |-> exec[i].attempts],
  limit <- [i \in Ids |-> exec[i].limit]

ImplementsLifecycle == Lifecycle!LifeSpec

\* The requests whose persist_request was committed for execution i, known or not.
Attempts(i) == {r \in Requests : boundTo[r] = i}

\* At most CHAT_MAX_ATTEMPTS requests ever call the provider for one execution, the
\* limit being the one stored with it: every request that gets to the provider is
\* a counted attempt, also when it inserted its attempt after it was superseded, and no
\* attempt starts at the limit.
AttemptsAreBounded ==
  /\ \A i \in Ids : /\ Cardinality(Attempts(i)) = exec[i].attempts
                    /\ exec[i].attempts <= exec[i].limit
  /\ \A r \in Requests : stage[r] \in {"provider", "stream", "run", "finalize"}
                           => boundTo[r] = recordId[r]

\* F2-07: a replay "may then reclaim that lease, lock the existing execution
\* aggregate and start the next bounded attempt".  A retry that was admitted, still
\* owns its record and has attempts left is able to start one.
RecoveryCanStart ==
  \A r \in Requests :
    LET i == recordId[r] IN
    stage[r] = "persist" /\ isRecovery[r] /\ Owns(r, i) /\ exec[i].status # "none"
      /\ ~Exhausted(i) /\ Resumable(i)
    => ENABLED PersistRecovered(r)

\* F4-04: execute "returns a value or raises one sanitized typed failure", and the
\* non-streaming handler "uses atomic finalization": an answer that arrives while
\* the lease is held goes on to finalize, whatever the mode of the request.
AnswersAreKept ==
  [][\A r \in Requests : ProviderAnswers(r) /\ ~lost[r] => stage'[r] = "finalize"]_vars

=============================================================================
