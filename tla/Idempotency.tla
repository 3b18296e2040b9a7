---------------------------- MODULE Idempotency ----------------------------
(***************************************************************************)
(* The persistent idempotency ledger of core/idempotency.py: one row of    *)
(* idempotency_records, i.e. one (organization, user, key) triple, and the *)
(* requests that carry this key.  Rows of different keys never meet, so    *)
(* one row is the whole component.                                         *)
(*                                                                         *)
(* Every successful begin_idempotency call draws a fresh uuid as its lease *)
(* token, and a request makes at most one successful call; the token is    *)
(* therefore modelled by the request itself.  A client's retry is another  *)
(* member of Requests.                                                     *)
(*                                                                         *)
(* Time is a discrete clock.  begin_idempotency reads the clock once and   *)
(* uses that value (now[r]) in the statements that follow, which may run   *)
(* much later; renew and complete read it at most MaxLag before their      *)
(* statement obtains the row.                                              *)
(***************************************************************************)
EXTENDS Integers

CONSTANTS
  Requests,             \* the requests that carry the key
  Digest,               \* Digest[r]: sha256 of the body of request r
  Null,                 \* SQL NULL / Python None
  LEASE_SECONDS,        \* lease length, in clock units
  DEFAULT_TTL_SECONDS,  \* lifetime of a record, in clock units
  MaxLag,               \* bound on the age of a clock value when it is used
  MaxClock,             \* bound on the clock
  MaxRecords            \* bound on the records inserted for the key

Digests == {Digest[r] : r \in Requests}

ASSUME ConstantsAssumption ==
  /\ Null \notin Requests
  /\ DOMAIN Digest = Requests
  /\ Null \notin Digests
  /\ LEASE_SECONDS \in Nat
  /\ DEFAULT_TTL_SECONDS \in Nat
  /\ MaxLag \in Nat
  /\ MaxClock \in Nat
  /\ MaxRecords \in Nat

VARIABLES
  clock,       \* the current time
  row,         \* the record of the key
  lastId,      \* the id sequence of the table
  pc,          \* pc[r]: where request r is in its use of the ledger
  now,         \* now[r]: the local variable of begin_idempotency
  tries,       \* tries[r]: its parameter _attempts
  recordId,    \* recordId[r]: IdempotencyOutcome.record_id
  isRecovery,  \* isRecovery[r]: IdempotencyOutcome.is_recovery
  reply        \* reply[r]: the cached response read back, by its author

ledgerVars == <<clock, row, lastId, pc, now, tries, recordId, isRecovery, reply>>
callVars == <<now, tries, recordId, isRecovery>>

-----------------------------------------------------------------------------
(* The row.                                                                *)

NoLease == -1

AbsentRow ==
  [id |-> 0, status |-> "absent", hash |-> Null, response |-> Null,
   lease |-> NoLease, expires |-> 0, token |-> Null]

Rows ==
  [id: 0..MaxRecords, status: {"absent", "processing", "completed", "failed"},
   hash: Digests \cup {Null},
   response: Requests \cup {Null},
   lease: Nat \cup {NoLease}, expires: Nat, token: Requests \cup {Null}]

PcValues ==
  {"idle", "insert", "select", "owner", "replay", "replayed", "uncached",
   "conflict", "unavailable", "completed", "failed", "lost", "crashed"}

\* Clock values a caller may hold when its statement obtains the row.
ReadTimes == {t \in 0..clock : t + MaxLag >= clock}

\* The values of the INSERT.
InsertedRow(r) ==
  [id |-> lastId + 1, status |-> "processing", hash |-> Digest[r],
   response |-> Null, lease |-> now[r] + LEASE_SECONDS,
   expires |-> now[r] + DEFAULT_TTL_SECONDS, token |-> r]

\* lease_until is not NULL and lies before t.
LeaseExpired(t) == row.lease # NoLease /\ row.lease < t

\* completed and past expires_at at time t.
RecordExpired(t) == row.status = "completed" /\ row.expires < t

-----------------------------------------------------------------------------
(* begin_idempotency                                                       *)

\* The call reads the clock before its first statement.
Begin(r) ==
  /\ pc[r] = "idle"
  /\ pc' = [pc EXCEPT ![r] = "insert"]
  /\ now' = [now EXCEPT ![r] = clock]
  /\ UNCHANGED <<clock, row, lastId, tries, recordId, isRecovery, reply>>

\* INSERT ... ON CONFLICT DO NOTHING finds no row of this key.
BeginInsert(r) ==
  /\ pc[r] = "insert"
  /\ row.status = "absent"
  /\ lastId < MaxRecords
  /\ row' = InsertedRow(r)
  /\ lastId' = lastId + 1
  /\ pc' = [pc EXCEPT ![r] = "owner"]
  /\ recordId' = [recordId EXCEPT ![r] = lastId + 1]
  /\ isRecovery' = [isRecovery EXCEPT ![r] = FALSE]
  /\ UNCHANGED <<clock, now, tries, reply>>

\* The INSERT conflicts; the SELECT ... FOR UPDATE is a statement of its own.
BeginConflict(r) ==
  /\ pc[r] = "insert"
  /\ row.status # "absent"
  /\ pc' = [pc EXCEPT ![r] = "select"]
  /\ UNCHANGED <<clock, row, lastId, callVars, reply>>

\* The call recurses with _attempts + 1, or gives up with 503.
Retry(r) ==
  IF tries[r] >= 2
    THEN /\ pc' = [pc EXCEPT ![r] = "unavailable"]
         /\ UNCHANGED <<now, tries>>
    ELSE /\ pc' = [pc EXCEPT ![r] = "insert"]
         /\ now' = [now EXCEPT ![r] = clock]
         /\ tries' = [tries EXCEPT ![r] = @ + 1]

\* The row the INSERT conflicted with is gone.
BeginVanished(r) ==
  /\ pc[r] = "select"
  /\ row.status = "absent"
  /\ Retry(r)
  /\ UNCHANGED <<clock, row, lastId, recordId, isRecovery, reply>>

\* A completed record past its lifetime is deleted.
BeginExpired(r) ==
  /\ pc[r] = "select"
  /\ RecordExpired(now[r])
  /\ row' = AbsentRow
  /\ Retry(r)
  /\ UNCHANGED <<clock, lastId, recordId, isRecovery, reply>>

Selected(r) ==
  /\ pc[r] = "select"
  /\ row.status # "absent"
  /\ ~RecordExpired(now[r])

BeginReplay_AnyPayload(r) ==
  /\ Selected(r)
  /\ row.status = "completed"
  /\ pc' = [pc EXCEPT ![r] = "replay"]
  /\ recordId' = [recordId EXCEPT ![r] = row.id]
  /\ isRecovery' = [isRecovery EXCEPT ![r] = FALSE]
  /\ UNCHANGED <<clock, row, lastId, now, tries, reply>>

\* Completed: the caller will read the cached response.
BeginReplay(r) ==
  /\ Selected(r)
  /\ row.hash = Digest[r]
  /\ row.status = "completed"
  /\ pc' = [pc EXCEPT ![r] = "replay"]
  /\ recordId' = [recordId EXCEPT ![r] = row.id]
  /\ isRecovery' = [isRecovery EXCEPT ![r] = FALSE]
  /\ UNCHANGED <<clock, row, lastId, now, tries, reply>>

BeginReopen_Completed(r) ==
  /\ Selected(r)
  /\ row.hash = Digest[r]
  /\ row.status \in {"failed", "completed"}
  /\ row' = [row EXCEPT !.status = "processing", !.response = Null,
                        !.lease = now[r] + LEASE_SECONDS,
                        !.expires = now[r] + DEFAULT_TTL_SECONDS, !.token = r]
  /\ pc' = [pc EXCEPT ![r] = "owner"]
  /\ recordId' = [recordId EXCEPT ![r] = row.id]
  /\ isRecovery' = [isRecovery EXCEPT ![r] = TRUE]
  /\ UNCHANGED <<clock, lastId, now, tries, reply>>

\* A failed record is reopened with a new lease and a new lifetime.
BeginReopen(r) ==
  /\ Selected(r)
  /\ row.hash = Digest[r]
  /\ row.status = "failed"
  /\ row' = [row EXCEPT !.status = "processing", !.response = Null,
                        !.lease = now[r] + LEASE_SECONDS,
                        !.expires = now[r] + DEFAULT_TTL_SECONDS, !.token = r]
  /\ pc' = [pc EXCEPT ![r] = "owner"]
  /\ recordId' = [recordId EXCEPT ![r] = row.id]
  /\ isRecovery' = [isRecovery EXCEPT ![r] = TRUE]
  /\ UNCHANGED <<clock, lastId, now, tries, reply>>

BeginReclaim_LeaseIgnored(r) ==
  /\ Selected(r)
  /\ row.hash = Digest[r]
  /\ row.status = "processing"
  /\ row' = [row EXCEPT !.lease = now[r] + LEASE_SECONDS, !.token = r]
  /\ pc' = [pc EXCEPT ![r] = "owner"]
  /\ recordId' = [recordId EXCEPT ![r] = row.id]
  /\ isRecovery' = [isRecovery EXCEPT ![r] = TRUE]
  /\ UNCHANGED <<clock, lastId, now, tries, reply>>

\* The lease of the previous owner ran out: the record changes hands.  Its
\* lifetime (expires_at) is not extended.
BeginReclaim(r) ==
  /\ Selected(r)
  /\ row.hash = Digest[r]
  /\ row.status = "processing"
  /\ LeaseExpired(now[r])
  /\ row' = [row EXCEPT !.lease = now[r] + LEASE_SECONDS, !.token = r]
  /\ pc' = [pc EXCEPT ![r] = "owner"]
  /\ recordId' = [recordId EXCEPT ![r] = row.id]
  /\ isRecovery' = [isRecovery EXCEPT ![r] = TRUE]
  /\ UNCHANGED <<clock, lastId, now, tries, reply>>

\* 409: another payload used this key, or another request is in progress.
BeginRefused(r) ==
  /\ Selected(r)
  /\ \/ row.hash # Digest[r]
     \/ row.status = "processing" /\ ~LeaseExpired(now[r])
  /\ pc' = [pc EXCEPT ![r] = "conflict"]
  /\ UNCHANGED <<clock, row, lastId, callVars, reply>>

BeginStep(r) ==
  \/ BeginInsert(r)
  \/ BeginConflict(r)
  \/ BeginVanished(r)
  \/ BeginExpired(r)
  \/ BeginReplay(r)
  \/ BeginReopen(r)
  \/ BeginReclaim(r)
  \/ BeginRefused(r)

-----------------------------------------------------------------------------
(* read_cached_response, renew_idempotency_lease, complete_idempotency     *)

\* The response is looked up by key, in a statement after begin's commit; the
\* row may have been deleted, or deleted and inserted anew, in between.
ReadCached(r) ==
  /\ pc[r] = "replay"
  /\ IF row.status = "completed"
       THEN /\ reply' = [reply EXCEPT ![r] = row.response]
            /\ pc' = [pc EXCEPT ![r] = "replayed"]
       ELSE /\ pc' = [pc EXCEPT ![r] = "uncached"]
            /\ UNCHANGED reply
  /\ UNCHANGED <<clock, row, lastId, callVars>>

\* The WHERE clause of the renewal: it does not look at lease_until.
Renewable(r) == row.status = "processing" /\ row.token = r

RenewedRow(r, t) ==
  IF Renewable(r) THEN [row EXCEPT !.lease = t + LEASE_SECONDS] ELSE row

Renew(r) ==
  /\ pc[r] = "owner"
  /\ \E t \in ReadTimes : row' = RenewedRow(r, t)
  /\ pc' = IF Renewable(r) THEN pc ELSE [pc EXCEPT ![r] = "lost"]
  /\ UNCHANGED <<clock, lastId, callVars, reply>>

Completable_AnyToken(r, t) ==
  row.status # "absent" /\ ~LeaseExpired(t)

\* complete_idempotency called with a token; the status is not looked at.
Completable(r, t) ==
  /\ row.status # "absent"
  /\ row.token = r
  /\ ~LeaseExpired(t)

CompletedRow(r, ok) ==
  [row EXCEPT !.status = IF ok THEN "completed" ELSE "failed",
              !.response = IF ok THEN r ELSE Null,
              !.lease = NoLease]

Complete(r) ==
  /\ pc[r] = "owner"
  /\ \E t \in ReadTimes, ok \in BOOLEAN :
       IF Completable(r, t)
         THEN /\ row' = CompletedRow(r, ok)
              /\ pc' = [pc EXCEPT ![r] = IF ok THEN "completed" ELSE "failed"]
         ELSE /\ pc' = [pc EXCEPT ![r] = "lost"]
              /\ UNCHANGED row
  /\ UNCHANGED <<clock, lastId, callVars, reply>>

-----------------------------------------------------------------------------
(* The environment: the clean-up cron job, crashes of the API process in   *)
(* the middle of a request, time.                                          *)

Cleanable_AnyAge(t) == row.status \in {"completed", "failed"}

Cleanable(t) ==
  row.status \in {"completed", "failed"} /\ row.expires < t

\* cleanup_expired_records, run by the worker's cron job.
Cleanup ==
  /\ \E t \in ReadTimes : Cleanable(t)
  /\ row' = AbsentRow
  /\ UNCHANGED <<clock, lastId, pc, callVars, reply>>

Crash(r) ==
  /\ pc[r] \in {"insert", "select", "owner", "replay"}
  /\ pc' = [pc EXCEPT ![r] = "crashed"]
  /\ UNCHANGED <<clock, row, lastId, callVars, reply>>

Tick ==
  /\ clock < MaxClock
  /\ clock' = clock + 1
  /\ UNCHANGED <<row, lastId, pc, callVars, reply>>

-----------------------------------------------------------------------------
LedgerInit ==
  /\ clock = 0
  /\ row = AbsentRow
  /\ lastId = 0
  /\ pc = [r \in Requests |-> "idle"]
  /\ now = [r \in Requests |-> 0]
  /\ tries = [r \in Requests |-> 0]
  /\ recordId = [r \in Requests |-> 0]
  /\ isRecovery = [r \in Requests |-> FALSE]
  /\ reply = [r \in Requests |-> Null]

LedgerNext ==
  \/ \E r \in Requests : \/ Begin(r) \/ BeginStep(r) \/ ReadCached(r)
                         \/ Renew(r) \/ Complete(r) \/ Crash(r)
  \/ Cleanup
  \/ Tick

LedgerSpec == LedgerInit /\ [][LedgerNext]_ledgerVars


-----------------------------------------------------------------------------
(* Properties                                                              *)

\* Every variable stays in its type; _attempts never exceeds 2.
LedgerTypeOK ==
  /\ clock \in Nat
  /\ row \in Rows
  /\ lastId \in 0..MaxRecords
  /\ pc \in [Requests -> PcValues]
  /\ now \in [Requests -> Nat]
  /\ tries \in [Requests -> 0..2]
  /\ recordId \in [Requests -> 0..MaxRecords]
  /\ isRecovery \in [Requests -> BOOLEAN]
  /\ reply \in [Requests -> Requests \cup {Null}]

\* A record is leased exactly while it is processing.  A processing record
\* without a lease would answer 409 for ever: begin_idempotency reclaims only a
\* non-NULL lease_until and cleanup_expired_records never deletes it.
LeasedIffProcessing == row.status = "processing" <=> row.lease # NoLease

\* One record has one winner: two requests never both complete the same record
\* successfully, whatever reclaims, late renewals and crashes happen.
OneWinner ==
  \A r, s \in Requests :
    pc[r] = "completed" /\ pc[s] = "completed" /\ recordId[r] = recordId[s]
      => r = s

\* A replayed response was committed by the winner of a record, not of an older one
\* than begin matched.  begin compares the bodies, read_cached_response looks the key up
\* anew: the response is another body's only if the matched record has been replaced in
\* between, which takes until the clock has passed begin's reading of it, as a record
\* unexpired at that reading has to expire first.
ReplayIsCommitted ==
  \A r \in Requests : reply[r] # Null =>
    /\ pc[reply[r]] = "completed"
    /\ recordId[reply[r]] >= recordId[r]
    /\ \/ Digest[reply[r]] = Digest[r]
       \/ recordId[reply[r]] > recordId[r] /\ now[r] < clock

\* A completed record is never modified; it only disappears, and only after its
\* lifetime.
CompletedIsStable ==
  [][row.status = "completed" =>
       \/ row' = row
       \/ row'.status = "absent" /\ row.expires < clock]_ledgerVars

\* The token of a record in progress changes only after its lease ran out: no
\* request takes over from an owner that is still inside its lease.
TakeoverAfterExpiry ==
  [][row.status = "processing" /\ row'.token # row.token => LeaseExpired(clock)]_ledgerVars

=============================================================================
