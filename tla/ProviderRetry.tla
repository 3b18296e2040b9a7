--------------------------- MODULE ProviderRetry ---------------------------
(***************************************************************************)
(* One non-streaming provider call: post_with_retry and retry_delay        *)
(* (application/providers/http.py) under the single deadline that          *)
(* ProviderFailureIsolation.execute (application/                          *)
(* provider_failure_isolation.py) sets with asyncio.wait_for.              *)
(*                                                                         *)
(* Times are numbers of ticks.  A Retry-After header is what float() or    *)
(* the date parser makes of it: a number of ticks, possibly negative,      *)
(* Infinity or NaN; Garbage when both refuse it; Missing when there is     *)
(* none.                                                                   *)
(***************************************************************************)
EXTENDS Integers, Sequences

CONSTANTS
  Attempts,      \* PROVIDER_HTTP_MAX_ATTEMPTS
  Backoff,       \* PROVIDER_HTTP_BACKOFF_SECONDS
  Cap,           \* PROVIDER_HTTP_MAX_RETRY_AFTER_SECONDS
  Deadline,      \* timeout_seconds of execute
  Headers,       \* the Retry-After headers the provider sends
  Infinity, NaN, Garbage, Missing

ASSUME RetryAssumption ==
  /\ Attempts \in 1..3
  /\ Backoff \in Nat /\ Cap \in Nat
  /\ Deadline \in Nat \ {0}

VARIABLES
  pc,            \* "posting", "sleeping", "returned", "raised" or "timed_out"
  attempt,       \* the loop variable of post_with_retry
  results,       \* what the posts so far came to, in order
  wait,          \* what is left of the sleep, or NaN
  now,           \* ticks since execute was called
  opened         \* the responses that were not closed, by attempt

retryVars == <<pc, attempt, results, wait, now, opened>>

-----------------------------------------------------------------------------
(* Python's comparison and min, max on floats: a comparison with NaN is      *)
(* False, and of two values that do not compare the first one is returned.   *)
Less(a, b) ==
  /\ a \notin {NaN, Infinity} /\ b # NaN
  /\ b = Infinity \/ a < b

PyMax(a, b) == IF Less(a, b) THEN b ELSE a
PyMin(a, b) == IF Less(b, a) THEN b ELSE a

Seconds(h, fallback) == IF h = Garbage THEN fallback ELSE h

\* retry_delay(response, fallback, Cap)
RetryDelay(h, fallback) ==
  IF h = Missing
    THEN PyMin(fallback, Cap)
    ELSE PyMin(PyMax(0, Seconds(h, fallback)), Cap)

Transient == {"transient_status", "transient_exception"}
Final == {"ok", "permanent_status", "other_exception"}

Outcome(r) == IF r \in {"other_exception", "transient_exception"} THEN "raised" ELSE "returned"

-----------------------------------------------------------------------------
\* The post ends the call: it is not transient, or it was the last one allowed.
EndsCall_AnyException(r) ==
  r \notin Transient \cup {"other_exception"} \/ attempt >= Attempts

EndsCall(r) == r \notin Transient \/ attempt >= Attempts

PostEnds(r) ==
  /\ pc = "posting"
  /\ EndsCall(r)
  /\ pc' = Outcome(r)
  /\ results' = Append(results, r)
  /\ opened' = IF Outcome(r) = "returned" THEN opened \cup {attempt} ELSE opened
  /\ UNCHANGED <<attempt, wait, now>>

\* The response, if there is one, is closed before the sleep.
PostRetried(r) ==
  /\ pc = "posting"
  /\ ~EndsCall(r)
  /\ \E h \in IF r = "transient_status" THEN Headers ELSE {Missing} :
       wait' = RetryDelay(h, Backoff * 2 ^ (attempt - 1))
  /\ pc' = "sleeping"
  /\ results' = Append(results, r)
  /\ UNCHANGED <<attempt, now, opened>>

\* The sleep is over and the next attempt is posted.
Wake ==
  /\ pc = "sleeping"
  /\ wait = 0
  /\ pc' = "posting"
  /\ attempt' = attempt + 1
  /\ UNCHANGED <<results, wait, now, opened>>

\* wait_for cancels the pending request or the sleep.
TimeOut ==
  /\ pc \in {"posting", "sleeping"}
  /\ now >= Deadline
  /\ pc' = "timed_out"
  /\ UNCHANGED <<attempt, results, wait, now, opened>>

\* The event loop runs its timers in order: none is passed over.
Tick ==
  /\ pc \in {"posting", "sleeping"}
  /\ now < Deadline
  /\ pc = "sleeping" => wait # 0
  /\ now' = now + 1
  /\ wait' = IF pc = "sleeping" /\ wait \in Nat THEN wait - 1 ELSE wait
  /\ UNCHANGED <<pc, attempt, results, opened>>

RetryInit ==
  /\ pc = "posting"
  /\ attempt = 1
  /\ results = <<>>
  /\ wait = 0
  /\ now = 0
  /\ opened = {}

Ended == pc \in {"returned", "raised", "timed_out"}

RetryStep ==
  \/ \E r \in Transient \cup Final : PostEnds(r) \/ PostRetried(r)
  \/ Wake
  \/ TimeOut
  \/ Tick

-----------------------------------------------------------------------------
(* Properties                                                              *)

\* A completion the provider answered or refused is not repeated: every post but
\* the last failed with a transient condition, and what the caller gets is the
\* last post's result.
OnlyTransientRepeated ==
  /\ \A k \in 1..Len(results) - 1 : results[k] \in Transient
  /\ pc \in {"returned", "raised"} => pc = Outcome(results[Len(results)])

=============================================================================
