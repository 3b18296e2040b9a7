----------------------------- MODULE ChatBudget -----------------------------
(***************************************************************************)
(* The chat handler together with the token budget: ChatExecution and      *)
(* TokenBudget composed.  The reservation id is the execution id, so all   *)
(* attempts of an execution share one reservation (chat.py passes          *)
(* reservation_id=execution_id).  The requests of ChatExecution are of one *)
(* user; the other callers are requests of other users of the organization *)
(* of which only the calls of the budget are modelled.                     *)
(***************************************************************************)
EXTENDS ChatExecution, TokenBudget

ASSUME SharedAssumption == Requests \subseteq Callers /\ Ids \subseteq Reservations

VARIABLES
  reported,     \* history: the usage settled for r's provider call, while the settlement lasts
  overRefunded  \* history: an estimate was refunded after usage had been settled

meterVars == <<reported, overRefunded>>
cbVars == <<vars, budgetVars, meterVars>>

NotReported == -1

-----------------------------------------------------------------------------
\* reserve_budget: a denial ends the request, otherwise it goes on to persist.
ReserveTokens(r) ==
  LET i == recordId[r] IN
  /\ ReserveBudget(r)
  /\ ReserveNew(r, i) \/ ReserveReplayed(r, i) \/ ReserveRefused(r, i)
  /\ stage'[r] = IF standing'[r] = "refused" THEN "audit" ELSE "persist"
  /\ UNCHANGED meterVars

\* fail_preflight before anything was persisted; a Redis failure is swallowed.
ReleaseTokens(r) ==
  /\ ReleaseBudget(r)
  /\ \/ /\ Release(r, recordId[r])
        /\ overRefunded' = (overRefunded \/ OverRefunds(recordId[r]))
     \/ UNCHANGED <<budgetVars, overRefunded>>
  /\ UNCHANGED reported

\* The provider answered.  A usage that a stream reported has been settled; the
\* non-streaming handler fails before it gets to settle.
AnswerSettled(r) ==
  LET i == recordId[r] IN
  /\ ProviderAnswers(r)
  /\ \/ \E actual \in Usages :
          /\ r \in Streaming
          /\ SettleFirst(r, i, actual) \/ SettleReplayed(r, i, actual)
          /\ reported' = [reported EXCEPT ![r] = actual]
     \/ UNCHANGED <<budgetVars, reported>>
  /\ UNCHANGED overRefunded

\* The call or the settlement failed; a settlement whose answer was lost may have
\* been applied.
AnswerFailed(r) ==
  LET i == recordId[r] IN
  /\ ProviderFails(r)
  /\ \/ \E actual \in Usages :
          /\ r \in Streaming
          /\ SettleFirst(r, i, actual) \/ SettleRefused(r, i, actual)
     \/ UNCHANGED budgetVars
  /\ UNCHANGED meterVars

\* Keys age with the clock; an expired settlement is no longer anybody's.
TimeAndKeys ==
  /\ Time
  /\ Elapse \/ ((\A k \in Counters : ttl[k] = 0) /\ UNCHANGED budgetVars)
  /\ reported' = [r \in Requests |->
       IF reported[r] # NotReported /\ settled'[recordId[r]].ttl = 0
         THEN NotReported ELSE reported[r]]
  /\ UNCHANGED overRefunded

Unmetered(r) ==
  /\ \/ Authorize(r) \/ RefuseAuthorization(r) \/ UnbudgetedStep(r)
     \/ Heartbeat(r) \/ Disturbance(r)
  /\ UNCHANGED <<budgetVars, meterVars>>

\* Another user's request reserves, and then settles, releases or is forgotten.
OtherUser ==
  /\ \E c \in Callers \ Requests, x \in Reservations :
       /\ CallsBudget(c, x)
       /\ overRefunded' = (overRefunded \/ OverRefunds(x))
  /\ UNCHANGED <<vars, reported>>

-----------------------------------------------------------------------------
CBInit ==
  /\ Init
  /\ BudgetInit
  /\ reported = [r \in Requests |-> NotReported]
  /\ overRefunded = FALSE

CBNext ==
  \/ \E r \in Requests : \/ ReserveTokens(r) \/ ReleaseTokens(r)
                         \/ AnswerSettled(r) \/ AnswerFailed(r) \/ Unmetered(r)
  \/ CleanUpRecords /\ UNCHANGED <<budgetVars, meterVars>>
  \/ OtherUser
  \/ TimeAndKeys

CBSpec == CBInit /\ [][CBNext]_cbVars

-----------------------------------------------------------------------------
(* Properties                                                              *)

\* A counter never holds less than what the live reservations charge to it, with
\* one exception: release_tenant names the execution, not the attempt, so a late
\* release by an attempt that persisted nothing refunds the estimate although
\* another attempt has settled the execution at its real usage.
ChargesAreKept == overRefunded \/ ChargesAreCounted

\* The usage reported for the answer of a completed execution is the usage its
\* reservation is settled with, also when another attempt settled before: until the
\* settlement expires nothing replaces it.
CompletedUsageIsSettled ==
  \A i \in Ids :
    LET r == exec[i].content IN
    exec[i].status = "completed" /\ reported[r] # NotReported
      => settled[i].ttl # 0 /\ settled[i].value = reported[r]

=============================================================================
