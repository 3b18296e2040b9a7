----------------------------- MODULE ChatProofs -----------------------------
(***************************************************************************)
(* Proofs about the idempotency ledger, about the chat completion handler  *)
(* that uses it, about the token budget and about handler and budget       *)
(* together, for every set of requests, callers, executions and users,     *)
(* every assignment of bodies, every number of records, every limit and    *)
(* every value of the time constants.                                      *)
(*                                                                         *)
(* The ledger comes first, by its own specification.  Each step of the     *)
(* handler is a step of the ledger or leaves it alone, so the ledger's     *)
(* invariant holds there too; the invariant of the executions and of the   *)
(* governance decisions rests on it.                                       *)
(*                                                                         *)
(* Of the budget, CountersExpire is not inductive by itself: a settlement  *)
(* or a release would create a counter that has already expired.  The      *)
(* strengthening is that a counter lives at least as long as every marker  *)
(* charged to it (CountersOutliveMarkers), and both scripts act only while *)
(* the marker exists.  What a counter holds is compared with a sum over    *)
(* all reservations; the facts about sums are those of DataProofs.         *)
(***************************************************************************)
EXTENDS ChatBudget, DataProofs, TLAPS

-----------------------------------------------------------------------------
(* The ledger                                                              *)

\* The row in use is the last one inserted, and an absent row is blank.
RowShape ==
  /\ row.status = "absent" => row = AbsentRow
  /\ row.status # "absent" => row.id = lastId /\ row.id # 0

\* What the token of a present row says about the request that holds it.
TokenShape ==
  row.status # "absent" =>
    /\ row.token \in Requests
    /\ recordId[row.token] = row.id
    /\ row.hash = Digest[row.token]
    /\ row.status = "processing" => pc[row.token] \in {"owner", "lost", "crashed"}
    /\ row.status = "failed" => pc[row.token] = "failed"
    /\ row.status = "completed" => pc[row.token] = "completed" /\ row.response = row.token

\* Every record id a request holds was drawn from the sequence.
IdsDrawn == \A r \in Requests : recordId[r] <= lastId

\* As long as the record of a winner exists, it is the winner's.
WinnerShape ==
  \A r \in Requests : pc[r] = "completed" =>
    /\ recordId[r] # 0
    /\ row.id = recordId[r] => row.status = "completed" /\ row.token = r

\* A request matched with a completed record had the body of that record, which its
\* clock value found unexpired; the record is still there, or the clock has moved on.
ReplayShape ==
  \A r \in Requests : pc[r] = "replay" =>
    \/ /\ row.id = recordId[r] /\ row.status = "completed"
       /\ row.hash = Digest[r] /\ now[r] <= row.expires
    \/ /\ row.status = "absent" \/ row.id # recordId[r]
       /\ now[r] < clock

\* A response that was read back has a winner behind it.
ReplyShape ==
  \A r \in Requests : reply[r] # Null =>
    pc[r] = "replayed" /\ pc[reply[r]] = "completed"

\* A clock value held by a request is not in the future.
ClockShape == \A r \in Requests : now[r] <= clock

LedgerInv ==
  /\ LedgerTypeOK
  /\ ClockShape
  /\ LeasedIffProcessing
  /\ RowShape
  /\ TokenShape
  /\ IdsDrawn
  /\ WinnerShape
  /\ ReplayShape
  /\ ReplyShape
  /\ OneWinner
  /\ ReplayIsCommitted

-----------------------------------------------------------------------------
\* The digest of a request is a digest.
LEMMA DigestType == \A r \in Requests : Digest[r] \in Digests
  BY DEF Digests

\* Writing new values into a row leaves a row.
LEMMA RowWrite ==
  ASSUME row \in Rows,
         NEW s \in {"processing", "completed", "failed"},
         NEW p \in Requests \cup {Null},
         NEW l \in Nat \cup {NoLease},
         NEW e \in Nat,
         NEW k \in Requests \cup {Null}
  PROVE  [row EXCEPT !.status = s, !.response = p, !.lease = l,
                     !.expires = e, !.token = k] \in Rows
  BY DEF Rows

LEMMA LedgerInitOK == LedgerInit => LedgerInv
  BY ConstantsAssumption, DigestType
  DEF LedgerInit, LedgerInv, LedgerTypeOK, ClockShape, LeasedIffProcessing, RowShape, TokenShape,
      IdsDrawn, WinnerShape, ReplayShape, ReplyShape, OneWinner, ReplayIsCommitted,
      AbsentRow, Rows, PcValues, NoLease

LEMMA BeginKeeps ==
  ASSUME LedgerInv, NEW r \in Requests, Begin(r)
  PROVE  LedgerInv'
  BY ConstantsAssumption, DigestType
  DEF LedgerInv, LedgerTypeOK, ClockShape, LeasedIffProcessing, RowShape, TokenShape,
      IdsDrawn, WinnerShape, ReplayShape, ReplyShape, OneWinner, ReplayIsCommitted,
      Begin, PcValues

LEMMA BeginInsertKeeps ==
  ASSUME LedgerInv, NEW r \in Requests, BeginInsert(r)
  PROVE  LedgerInv'
  BY ConstantsAssumption, DigestType
  DEF LedgerInv, LedgerTypeOK, ClockShape, LeasedIffProcessing, RowShape, TokenShape,
      IdsDrawn, WinnerShape, ReplayShape, ReplyShape, OneWinner, ReplayIsCommitted,
      BeginInsert, InsertedRow, PcValues, Rows, NoLease

LEMMA BeginConflictKeeps ==
  ASSUME LedgerInv, NEW r \in Requests, BeginConflict(r)
  PROVE  LedgerInv'
  BY ConstantsAssumption, DigestType
  DEF LedgerInv, LedgerTypeOK, ClockShape, LeasedIffProcessing, RowShape, TokenShape,
      IdsDrawn, WinnerShape, ReplayShape, ReplyShape, OneWinner, ReplayIsCommitted,
      BeginConflict, callVars, PcValues

LEMMA BeginVanishedKeeps ==
  ASSUME LedgerInv, NEW r \in Requests, BeginVanished(r)
  PROVE  LedgerInv'
  BY ConstantsAssumption, DigestType
  DEF LedgerInv, LedgerTypeOK, ClockShape, LeasedIffProcessing, RowShape, TokenShape,
      IdsDrawn, WinnerShape, ReplayShape, ReplyShape, OneWinner, ReplayIsCommitted,
      BeginVanished, Retry, PcValues

LEMMA BeginExpiredKeeps ==
  ASSUME LedgerInv, NEW r \in Requests, BeginExpired(r)
  PROVE  LedgerInv'
  BY ConstantsAssumption, DigestType
  DEF LedgerInv, LedgerTypeOK, ClockShape, LeasedIffProcessing, RowShape, TokenShape,
      IdsDrawn, WinnerShape, ReplayShape, ReplyShape, OneWinner, ReplayIsCommitted,
      BeginExpired, Retry, RecordExpired, AbsentRow, PcValues, Rows, NoLease

LEMMA BeginReplayKeeps ==
  ASSUME LedgerInv, NEW r \in Requests, BeginReplay(r)
  PROVE  LedgerInv'
<1> USE ConstantsAssumption DEF LedgerInv, BeginReplay, Selected
<1>1. LedgerTypeOK'
  BY DEF LedgerTypeOK, Rows, PcValues, NoLease, TokenShape
<1>2. LeasedIffProcessing' /\ ClockShape'
  BY DEF LedgerTypeOK, Rows, LeasedIffProcessing, ClockShape, NoLease
<1>3. RowShape'
  BY DEF LedgerTypeOK, Rows, RowShape
<1>4. TokenShape'
  BY DEF LedgerTypeOK, Rows, TokenShape, RowShape, WinnerShape
<1>5. IdsDrawn'
  BY DEF LedgerTypeOK, Rows, IdsDrawn, RowShape
<1>6. WinnerShape'
  BY DEF LedgerTypeOK, Rows, WinnerShape, RowShape, TokenShape
<1>7. ReplayShape'
  BY DEF LedgerTypeOK, Rows, ReplayShape, RecordExpired
<1>8. ReplyShape'
  BY DEF LedgerTypeOK, Rows, ReplyShape, TokenShape
<1>9. OneWinner'
  BY DEF LedgerTypeOK, Rows, OneWinner, WinnerShape, TokenShape
<1>10. ReplayIsCommitted'
  BY DEF LedgerTypeOK, Rows, ReplayIsCommitted, ReplyShape, TokenShape, IdsDrawn, RowShape, ReplayShape
<1> QED
  BY <1>1, <1>2, <1>3, <1>4, <1>5, <1>6, <1>7, <1>8, <1>9, <1>10

LEMMA BeginReopenKeeps ==
  ASSUME LedgerInv, NEW r \in Requests, BeginReopen(r)
  PROVE  LedgerInv'
<1> USE ConstantsAssumption DEF LedgerInv, BeginReopen, Selected
<1>0. row' \in Rows
  <2>1. /\ row \in Rows
        /\ now[r] + LEASE_SECONDS \in Nat
        /\ now[r] + DEFAULT_TTL_SECONDS \in Nat
    BY DEF LedgerTypeOK
  <2> QED
    BY <2>1, RowWrite
<1>1. LedgerTypeOK'
  <2>1. row.id \in 0..MaxRecords
    BY DEF LedgerTypeOK, Rows
  <2> QED
    BY <1>0, <2>1 DEF LedgerTypeOK, PcValues
<1>2. LeasedIffProcessing' /\ ClockShape'
  BY DEF LedgerTypeOK, Rows, LeasedIffProcessing, ClockShape, NoLease
<1>3. RowShape'
  BY DEF LedgerTypeOK, Rows, RowShape
<1>4. TokenShape'
  BY DEF LedgerTypeOK, Rows, TokenShape, RowShape, WinnerShape
<1>5. IdsDrawn'
  BY DEF LedgerTypeOK, Rows, IdsDrawn, RowShape
<1>6. WinnerShape'
  BY DEF LedgerTypeOK, Rows, WinnerShape, RowShape, TokenShape
<1>7. ReplayShape'
  BY DEF LedgerTypeOK, Rows, ReplayShape, IdsDrawn, RowShape
<1>8. ReplyShape'
  BY DEF LedgerTypeOK, Rows, ReplyShape, TokenShape
<1>9. OneWinner'
  BY DEF LedgerTypeOK, Rows, OneWinner, WinnerShape, TokenShape
<1>10. ReplayIsCommitted'
  BY DEF LedgerTypeOK, Rows, ReplayIsCommitted, ReplyShape, TokenShape, IdsDrawn, RowShape, ReplayShape
<1> QED
  BY <1>1, <1>2, <1>3, <1>4, <1>5, <1>6, <1>7, <1>8, <1>9, <1>10

LEMMA BeginReclaimKeeps ==
  ASSUME LedgerInv, NEW r \in Requests, BeginReclaim(r)
  PROVE  LedgerInv'
<1> USE ConstantsAssumption DEF LedgerInv, BeginReclaim, Selected, LeaseExpired
<1>0. row' \in Rows
  <2>1. row \in Rows /\ now[r] + LEASE_SECONDS \in Nat
    BY DEF LedgerTypeOK
  <2> QED
    BY <2>1 DEF Rows
<1>1. LedgerTypeOK'
  <2>1. row.id \in 0..MaxRecords
    BY DEF LedgerTypeOK, Rows
  <2> QED
    BY <1>0, <2>1 DEF LedgerTypeOK, PcValues
<1>2. LeasedIffProcessing' /\ ClockShape'
  BY DEF LedgerTypeOK, Rows, LeasedIffProcessing, ClockShape, NoLease
<1>3. RowShape'
  BY DEF LedgerTypeOK, Rows, RowShape
<1>4. TokenShape'
  BY DEF LedgerTypeOK, Rows, TokenShape, RowShape, WinnerShape
<1>5. IdsDrawn'
  BY DEF LedgerTypeOK, Rows, IdsDrawn, RowShape
<1>6. WinnerShape'
  BY DEF LedgerTypeOK, Rows, WinnerShape, RowShape, TokenShape
<1>7. ReplayShape'
  BY DEF LedgerTypeOK, Rows, ReplayShape, IdsDrawn, RowShape
<1>8. ReplyShape'
  BY DEF LedgerTypeOK, Rows, ReplyShape, TokenShape
<1>9. OneWinner'
  BY DEF LedgerTypeOK, Rows, OneWinner, WinnerShape, TokenShape
<1>10. ReplayIsCommitted'
  BY DEF LedgerTypeOK, Rows, ReplayIsCommitted, ReplyShape, TokenShape, IdsDrawn, RowShape, ReplayShape
<1> QED
  BY <1>1, <1>2, <1>3, <1>4, <1>5, <1>6, <1>7, <1>8, <1>9, <1>10

LEMMA BeginRefusedKeeps ==
  ASSUME LedgerInv, NEW r \in Requests, BeginRefused(r)
  PROVE  LedgerInv'
  BY ConstantsAssumption, DigestType
  DEF LedgerInv, LedgerTypeOK, ClockShape, LeasedIffProcessing, RowShape, TokenShape,
      IdsDrawn, WinnerShape, ReplayShape, ReplyShape, OneWinner, ReplayIsCommitted,
      BeginRefused, Selected, callVars, PcValues

LEMMA ReadCachedKeeps ==
  ASSUME LedgerInv, NEW r \in Requests, ReadCached(r)
  PROVE  LedgerInv'
  BY ConstantsAssumption, DigestType
  DEF LedgerInv, LedgerTypeOK, ClockShape, LeasedIffProcessing, RowShape, TokenShape,
      IdsDrawn, WinnerShape, ReplayShape, ReplyShape, OneWinner, ReplayIsCommitted,
      ReadCached, callVars, PcValues, Rows

LEMMA RenewKeeps ==
  ASSUME LedgerInv, NEW r \in Requests, Renew(r)
  PROVE  LedgerInv'
  BY ConstantsAssumption, DigestType
  DEF LedgerInv, LedgerTypeOK, ClockShape, LeasedIffProcessing, RowShape, TokenShape,
      IdsDrawn, WinnerShape, ReplayShape, ReplyShape, OneWinner, ReplayIsCommitted,
      Renew, RenewedRow, Renewable, ReadTimes, callVars, PcValues, Rows, NoLease

LEMMA CompleteKeeps ==
  ASSUME LedgerInv, NEW r \in Requests, Complete(r)
  PROVE  LedgerInv'
<1> USE ConstantsAssumption DEF LedgerInv
<1>1. PICK t \in ReadTimes, ok \in BOOLEAN :
        IF Completable(r, t)
          THEN /\ row' = CompletedRow(r, ok)
               /\ pc' = [pc EXCEPT ![r] = IF ok THEN "completed" ELSE "failed"]
          ELSE /\ pc' = [pc EXCEPT ![r] = "lost"]
               /\ UNCHANGED row
  BY DEF Complete
<1>2. pc[r] = "owner" /\ UNCHANGED <<clock, lastId, callVars, reply>>
  BY DEF Complete
<1>3. CASE ~Completable(r, t)
  BY <1>1, <1>2, <1>3
  DEF LedgerTypeOK, ClockShape, LeasedIffProcessing, RowShape, TokenShape, IdsDrawn, WinnerShape,
      ReplayShape, ReplyShape, OneWinner, ReplayIsCommitted, PcValues, callVars
<1>4. CASE Completable(r, t)
  <2>1. /\ row.status = "processing" /\ row.token = r /\ row.id = recordId[r]
        /\ row.id = lastId /\ row.id # 0
    BY <1>2, <1>4 DEF Completable, TokenShape, RowShape, LedgerTypeOK, Rows
  <2>2. /\ row' \in Rows
        /\ row'.id = row.id /\ row'.token = r /\ row'.hash = row.hash
        /\ row'.lease = NoLease
        /\ row'.status = IF ok THEN "completed" ELSE "failed"
        /\ row'.response = IF ok THEN r ELSE Null
    <3>1. row \in Rows /\ row' = CompletedRow(r, ok)
      BY <1>1, <1>4 DEF LedgerTypeOK
    <3>2. CASE ok
      BY <2>1, <3>1, <3>2 DEF CompletedRow, Rows
    <3>3. CASE ~ok
      BY <2>1, <3>1, <3>3 DEF CompletedRow, Rows
    <3> QED
      BY <3>2, <3>3
  <2>3. /\ pc' = [pc EXCEPT ![r] = IF ok THEN "completed" ELSE "failed"]
        /\ UNCHANGED <<clock, lastId, now, tries, recordId, isRecovery, reply>>
    BY <1>1, <1>2, <1>4 DEF callVars
  <2> HIDE DEF LedgerInv
  <2>4. LedgerTypeOK'
    BY <2>2, <2>3 DEF LedgerInv, LedgerTypeOK, PcValues
  <2>5. ClockShape' /\ LeasedIffProcessing' /\ RowShape' /\ IdsDrawn'
    BY <2>1, <2>2, <2>3 DEF LedgerInv, ClockShape, LeasedIffProcessing, RowShape, IdsDrawn
  <2>6. TokenShape'
    BY <2>1, <2>2, <2>3 DEF LedgerInv, LedgerTypeOK, TokenShape
  <2>7. WinnerShape' /\ OneWinner'
    <3>1. \A q \in Requests : pc[q] = "completed" => recordId[q] # row.id
      BY <2>1 DEF LedgerInv, WinnerShape
    <3>2. \A q \in Requests : q # r => pc'[q] = pc[q]
      BY <2>3 DEF LedgerInv, LedgerTypeOK
    <3>3. pc'[r] = "completed" => ok
      BY <2>3 DEF LedgerInv, LedgerTypeOK
    <3>4. WinnerShape'
      BY <2>1, <2>2, <2>3, <3>1, <3>2, <3>3 DEF LedgerInv, WinnerShape
    <3>5. OneWinner'
      <4> SUFFICES ASSUME NEW p \in Requests, NEW q \in Requests, p # q,
                          pc'[p] = "completed", pc'[q] = "completed",
                          recordId[p] = recordId[q]
                   PROVE  FALSE
        BY <2>3 DEF OneWinner
      <4>1. CASE p # r /\ q # r
        BY <3>2, <4>1 DEF LedgerInv, OneWinner
      <4>2. CASE p = r
        BY <2>1, <3>1, <3>2, <4>2
      <4>3. CASE q = r
        BY <2>1, <3>1, <3>2, <4>3
      <4> QED
        BY <4>1, <4>2, <4>3
    <3> QED
      BY <3>4, <3>5
  <2>8. ReplayShape'
    BY <1>2, <2>1, <2>2, <2>3 DEF LedgerInv, LedgerTypeOK, ReplayShape
  <2>9. ReplyShape' /\ ReplayIsCommitted'
    BY <1>2, <2>3 DEF LedgerInv, LedgerTypeOK, ReplyShape, ReplayIsCommitted
  <2> QED
    BY <2>4, <2>5, <2>6, <2>7, <2>8, <2>9 DEF LedgerInv
<1> QED
  BY <1>3, <1>4

LEMMA CrashKeeps ==
  ASSUME LedgerInv, NEW r \in Requests, Crash(r)
  PROVE  LedgerInv'
  BY ConstantsAssumption, DigestType
  DEF LedgerInv, LedgerTypeOK, ClockShape, LeasedIffProcessing, RowShape, TokenShape,
      IdsDrawn, WinnerShape, ReplayShape, ReplyShape, OneWinner, ReplayIsCommitted,
      Crash, callVars, PcValues

LEMMA CleanupKeeps ==
  ASSUME LedgerInv, Cleanup
  PROVE  LedgerInv'
  BY ConstantsAssumption, DigestType
  DEF LedgerInv, LedgerTypeOK, ClockShape, LeasedIffProcessing, RowShape, TokenShape,
      IdsDrawn, WinnerShape, ReplayShape, ReplyShape, OneWinner, ReplayIsCommitted,
      Cleanup, Cleanable, ReadTimes, callVars, AbsentRow, Rows, NoLease

LEMMA TickKeeps ==
  ASSUME LedgerInv, Tick
  PROVE  LedgerInv'
  BY ConstantsAssumption, DigestType
  DEF LedgerInv, LedgerTypeOK, ClockShape, LeasedIffProcessing, RowShape, TokenShape,
      IdsDrawn, WinnerShape, ReplayShape, ReplyShape, OneWinner, ReplayIsCommitted,
      Tick, callVars

LEMMA LedgerNextKeeps == LedgerInv /\ [LedgerNext]_ledgerVars => LedgerInv'
<1> SUFFICES ASSUME LedgerInv, [LedgerNext]_ledgerVars
             PROVE  LedgerInv'
  OBVIOUS
<1>1. ASSUME NEW r \in Requests,
             \/ Begin(r) \/ BeginStep(r) \/ ReadCached(r)
             \/ Renew(r) \/ Complete(r) \/ Crash(r)
      PROVE  LedgerInv'
  BY <1>1, BeginKeeps, BeginInsertKeeps, BeginConflictKeeps, BeginVanishedKeeps,
     BeginExpiredKeeps, BeginReplayKeeps, BeginReopenKeeps, BeginReclaimKeeps,
     BeginRefusedKeeps, ReadCachedKeeps, RenewKeeps, CompleteKeeps, CrashKeeps
  DEF BeginStep
<1>2. CASE UNCHANGED ledgerVars
  BY <1>2
  DEF ledgerVars, LedgerInv, LedgerTypeOK, ClockShape, LeasedIffProcessing, RowShape, TokenShape,
      IdsDrawn, WinnerShape, ReplayShape, ReplyShape, OneWinner, ReplayIsCommitted
<1> QED
  BY <1>1, <1>2, CleanupKeeps, TickKeeps DEF LedgerNext

\* The inductive invariant holds in every behaviour of the ledger.
THEOREM LedgerInvariance == LedgerSpec => []LedgerInv
  BY LedgerInitOK, LedgerNextKeeps, PTL DEF LedgerSpec

\* Every variable stays in its type and _attempts never exceeds 2.
THEOREM LedgerTypes == LedgerSpec => []LedgerTypeOK
<1>1. LedgerInv => LedgerTypeOK
  BY DEF LedgerInv
<1> QED
  BY <1>1, LedgerInvariance, PTL

\* No record is left processing without a lease, so no key is blocked for ever.
THEOREM NoOrphanedRecord == LedgerSpec => []LeasedIffProcessing
<1>1. LedgerInv => LeasedIffProcessing
  BY DEF LedgerInv
<1> QED
  BY <1>1, LedgerInvariance, PTL

\* A record has at most one request that completed it.
THEOREM AtMostOneWinner == LedgerSpec => []OneWinner
<1>1. LedgerInv => OneWinner
  BY DEF LedgerInv
<1> QED
  BY <1>1, LedgerInvariance, PTL

\* A replayed response was committed by a winner, and for the same body unless the
\* matched record was replaced after begin, past its lifetime (read_cached_response).
THEOREM ReplaysAreCommitted == LedgerSpec => []ReplayIsCommitted
<1>1. LedgerInv => ReplayIsCommitted
  BY DEF LedgerInv
<1> QED
  BY <1>1, LedgerInvariance, PTL

\* A completed record is never modified; it is only deleted after its lifetime.
THEOREM CompletedStays == LedgerSpec => CompletedIsStable
<1>1. ASSUME LedgerInv, LedgerNext, row.status = "completed"
      PROVE  row' = row \/ (row'.status = "absent" /\ row.expires < clock)
  <2>1. row \in Rows /\ clock \in Nat /\ row.lease = NoLease
    BY <1>1 DEF LedgerInv, LedgerTypeOK, LeasedIffProcessing, Rows
  <2>2. ASSUME NEW r \in Requests, BeginStep(r)
        PROVE  row' = row \/ (row'.status = "absent" /\ row.expires < clock)
    <3>1. now[r] \in Nat /\ now[r] <= clock /\ row.expires \in Nat
      BY <1>1, <2>1 DEF LedgerInv, LedgerTypeOK, ClockShape, Rows
    <3>2. CASE BeginExpired(r)
      BY <2>1, <3>1, <3>2 DEF BeginExpired, RecordExpired, AbsentRow
    <3>3. CASE ~BeginExpired(r)
      BY <1>1, <2>2, <3>3
      DEF BeginStep, BeginInsert, BeginConflict, BeginVanished, BeginReplay,
          BeginReopen, BeginReclaim, BeginRefused
    <3> QED
      BY <3>2, <3>3
  <2>3. ASSUME NEW r \in Requests, Complete(r)
        PROVE  row' = row
    <3>1. row.token # r
      BY <1>1, <2>3 DEF Complete, LedgerInv, TokenShape
    <3> QED
      BY <2>3, <3>1 DEF Complete, Completable
  <2>4. ASSUME NEW r \in Requests,
               Begin(r) \/ ReadCached(r) \/ Renew(r) \/ Crash(r)
        PROVE  row' = row
    BY <1>1, <2>4 DEF Begin, ReadCached, Renew, RenewedRow, Renewable, Crash
  <2>5. ASSUME Cleanup
        PROVE  row'.status = "absent" /\ row.expires < clock
    <3>1. row.expires \in Nat
      BY <2>1 DEF Rows
    <3> QED
      BY <2>1, <2>5, <3>1 DEF Cleanup, Cleanable, ReadTimes, AbsentRow
  <2> QED
    BY <1>1, <2>2, <2>3, <2>4, <2>5 DEF LedgerNext, Tick
<1> QED
  BY <1>1, LedgerInvariance, PTL DEF LedgerSpec, CompletedIsStable

\* A record in progress changes hands only after the lease ran out.
THEOREM TakeoversAreLate == LedgerSpec => TakeoverAfterExpiry
<1>1. ASSUME LedgerInv, LedgerNext, row.status = "processing", row'.token # row.token
      PROVE  LeaseExpired(clock)
  <2>1. row \in Rows /\ clock \in Nat
    BY <1>1 DEF LedgerInv, LedgerTypeOK
  <2>2. ASSUME NEW r \in Requests, BeginStep(r)
        PROVE  LeaseExpired(clock)
    <3>1. now[r] \in Nat /\ now[r] <= clock /\ row.lease \in Int
      BY <1>1, <2>1 DEF LedgerInv, LedgerTypeOK, ClockShape, Rows, NoLease
    <3> QED
      BY <1>1, <2>1, <2>2, <3>1
      DEF BeginStep, BeginInsert, BeginConflict, BeginVanished, BeginExpired, BeginReplay,
          BeginReopen, BeginReclaim, BeginRefused, RecordExpired, LeaseExpired
  <2>3. ASSUME NEW r \in Requests,
               Begin(r) \/ ReadCached(r) \/ Renew(r) \/ Complete(r) \/ Crash(r)
        PROVE  row'.token = row.token
    BY <2>1, <2>3 DEF Begin, ReadCached, Renew, RenewedRow, Complete, CompletedRow, Crash, Rows
  <2> QED
    BY <1>1, <2>2, <2>3 DEF LedgerNext, Tick, Cleanup, Cleanable
<1> QED
  BY <1>1, LedgerInvariance, PTL DEF LedgerSpec, TakeoverAfterExpiry

-----------------------------------------------------------------------------
(* The handler                                                             *)

FailureCodes ==
  {"provider_failure", "context_rejected", "client_cancelled", "idempotency_lost"}

AuditStatuses ==
  TerminalStatuses \cup {"none", "open", "denied", "replayed", "preflight_failed"}

Executions ==
  [status: TerminalStatuses \cup {"none", "prepared", "streaming"},
   attempts: Nat, limit: Nat, retryable: BOOLEAN, attached: BOOLEAN,
   assistant: TerminalStatuses \cup {"none", "pending", "streaming"},
   content: Requests \cup {Null}]

ChatTypeOK ==
  /\ stage \in [Requests -> Stages]
  /\ code \in [Requests -> FailureCodes]
  /\ lost \in [Requests -> BOOLEAN]
  /\ exec \in [Ids -> Executions]
  /\ boundTo \in [Requests -> 0..MaxRecords]
  /\ audit \in [Requests -> AuditStatuses]
  /\ accounted \subseteq Ids \X Nat
  /\ answer \in [Requests -> Requests \cup {Null}]

\* The stages of a request whose attempt has been persisted.
AttemptStages ==
  {"provider", "stream", "run", "finalize", "finalize_failure", "preflight_finalize"}

\* The stages before that in which the request is admitted to an attempt.
AdmittedStages == {"budget", "persist"}

\* The ledger has given its answer to r, so recordId[r] no longer changes.
Settled(r) == pc[r] \notin {"idle", "insert", "select"}

\* r holds record i, whether or not its lease has run out.
HoldsRecord(r, i) == row.id = i /\ Renewable(r)

\* Where a request stands with the ledger at each stage.  A request that was told
\* its lease is lost never holds the record again.
StandingShape ==
  \A r \in Requests :
    /\ pc[r] # "crashed"
    /\ pc[r] = "lost" => ~Renewable(r)
    /\ pc[r] \in {"owner", "lost", "replay", "uncached"} => recordId[r] # 0
    /\ stage[r] \in AdmittedStages => pc[r] \in {"owner", "uncached"}
    /\ stage[r] \in AttemptStages => pc[r] \in {"owner", "uncached", "lost"}

\* An execution exists only for a record that was inserted, counts its attempts up
\* to its limit, and is attached exactly as long as the record is there.
ExecShape ==
  \A i \in Ids :
    /\ i > lastId => exec[i].status = "none"
    /\ exec[i].status = "none" => exec[i].attempts = 0
    /\ exec[i].status # "none" =>
         exec[i].attempts \in 1..exec[i].limit /\ exec[i].limit \in AttemptLimits
    /\ exec[i].attached <=> exec[i].status # "none" /\ row.id = i

\* A request past prepare_exchange has an execution.
StartedShape ==
  \A r \in Requests : stage[r] \in AttemptStages => exec[recordId[r]].status # "none"

\* A response that was read back is the content of a completed execution.
Durable(a) ==
  exec[recordId[a]].status = "completed" /\ exec[recordId[a]].content = a

DurableShape ==
  \A r \in Requests :
    /\ reply[r] # Null => Settled(reply[r]) /\ recordId[reply[r]] # 0 /\ Durable(reply[r])
    /\ answer[r] # Null => Settled(answer[r]) /\ recordId[answer[r]] # 0 /\ Durable(answer[r])

\* A decision is bound only by prepare_exchange, and is open until then.
DecisionShape ==
  \A r \in Requests :
    /\ stage[r] \in {"authorize", "ledger"} \cup AdmittedStages => boundTo[r] = 0
    /\ stage[r] \in {"ledger"} \cup AdmittedStages => audit[r] = "open"

\* Attempts are accounted only once they were started.
AccountShape == \A x \in accounted : x[2] <= exec[x[1]].attempts

\* The request that holds the record of its attempt finds the execution running,
\* its own decision bound and open, and the attempt not yet accounted.
HolderShape ==
  \A r \in Requests :
    LET i == recordId[r] IN
    stage[r] \in AttemptStages /\ HoldsRecord(r, i) =>
      /\ ~Terminal(i)
      /\ boundTo[r] = i
      /\ audit[r] = "open"
      /\ <<i, exec[i].attempts>> \notin accounted

ChatShape ==
  /\ ChatTypeOK
  /\ StandingShape
  /\ ExecShape
  /\ StartedShape
  /\ LedgerAgrees
  /\ DurableShape
  /\ DecisionShape
  /\ AccountShape
  /\ HolderShape
  /\ EndedIsAudited

ChatInv == LedgerInv /\ ChatShape

-----------------------------------------------------------------------------
(* Every step uses the ledger as its interface allows.                     *)

\* The clock read without delay is one of the times a caller may have read.
LEMMA ClockIsReadable == LedgerInv => clock \in ReadTimes
  BY ConstantsAssumption DEF LedgerInv, LedgerTypeOK, ReadTimes

\* A request that holds a record in progress still stands as its owner.
LEMMA HolderIsOwner ==
  ASSUME ChatInv, NEW r \in Requests, Renewable(r)
  PROVE  pc[r] = "owner" /\ row.id = recordId[r] /\ row.id \in Ids /\ row.id = lastId
  BY ConstantsAssumption
  DEF ChatInv, ChatShape, LedgerInv, LedgerTypeOK, TokenShape, RowShape, StandingShape,
      Renewable, Rows, Ids

\* The handler's own write to the record of an execution it owns is the one of
\* complete_idempotency.
LEMMA OwnWriteIsComplete ==
  ASSUME ChatInv, NEW r \in Requests, NEW ok \in BOOLEAN, Renewable(r), ~LeaseExpired(clock),
         row' = CompletedRow(r, ok),
         pc' = [pc EXCEPT ![r] = IF ok THEN "completed" ELSE "failed"],
         UNCHANGED <<clock, lastId, callVars, reply>>
  PROVE  Complete(r)
<1>1. Completable(r, clock) /\ pc[r] = "owner" /\ clock \in ReadTimes
  BY HolderIsOwner, ClockIsReadable DEF Completable, Renewable, ChatInv
<1> QED
  BY <1>1 DEF Complete

\* The single commit of finalize is a completion by its owner, or leaves the
\* ledger alone when the record was deleted.
LEMMA CommitFinalUsesLedger ==
  ASSUME ChatInv, NEW r \in Requests, NEW i \in Ids, NEW status \in TerminalStatuses,
         NEW retry, NEW metered \in BOOLEAN,
         Finalizable(r, i, metered), CommitFinal(r, i, status, retry, metered)
  PROVE  Complete(r) \/ UNCHANGED ledgerVars
<1>1. CASE exec[i].attached
  <2> DEFINE ok == status = "completed"
  <2>1. Renewable(r) /\ ~LeaseExpired(clock) /\ ok \in BOOLEAN
    BY <1>1 DEF Finalizable, Fenced, Owns, Renewable
  <2>2. row' = CompletedRow(r, ok) /\ UNCHANGED <<clock, lastId, callVars, reply>>
    BY <1>1 DEF CommitFinal, FinalRow
  <2>3. pc' = [pc EXCEPT ![r] = IF ok THEN "completed" ELSE "failed"]
    BY <1>1 DEF CommitFinal
  <2> HIDE DEF ok
  <2> QED
    BY <2>1, <2>2, <2>3, OwnWriteIsComplete
<1>2. CASE ~exec[i].attached
  BY <1>2 DEF CommitFinal, FinalRow, ledgerVars, callVars
<1> QED
  BY <1>1, <1>2

\* A request past prepare_exchange knows its record.
LEMMA AttemptHasRecord ==
  ASSUME ChatInv, NEW r \in Requests, stage[r] \in AttemptStages \cup AdmittedStages
  PROVE  recordId[r] \in Ids /\ Settled(r)
  BY ConstantsAssumption
  DEF ChatInv, ChatShape, LedgerInv, LedgerTypeOK, StandingShape, Ids, Settled

LEMMA StepUsesLedger == ChatInv /\ [Next]_vars => [LedgerNext]_ledgerVars
<1> SUFFICES ASSUME ChatInv, Next
             PROVE  LedgerNext \/ UNCHANGED ledgerVars
  BY DEF vars
<1>1. ASSUME NEW r \in Requests, Authorize(r) \/ RefuseAuthorization(r)
      PROVE  LedgerNext \/ UNCHANGED ledgerVars
  BY <1>1 DEF Authorize, RefuseAuthorization, LedgerNext
<1>2. ASSUME NEW r \in Requests, BudgetedStep(r)
      PROVE  UNCHANGED ledgerVars
  BY <1>2
  DEF BudgetedStep, ReserveBudget, ProviderAnswers, StreamAnswers, CompletionUnread,
      ProviderFails, ReleaseBudget
<1>3. ASSUME NEW r \in Requests, UnbudgetedStep(r)
      PROVE  LedgerNext \/ UNCHANGED ledgerVars
  <2>1. CASE LedgerStep(r)
    BY <2>1 DEF LedgerStep, LedgerNext
  <2>2. CASE RecoveryExhausted(r)
    <3>1. Renewable(r) /\ ~LeaseExpired(clock)
      BY <2>2 DEF RecoveryExhausted, Owns, Renewable
    <3>2. Complete(r)
      BY <2>2, <3>1, OwnWriteIsComplete DEF RecoveryExhausted
    <3> QED
      BY <3>2 DEF LedgerNext
  <2>3. CASE FinalizeCompleted(r)
    <3>1. recordId[r] \in Ids
      BY <2>3, AttemptHasRecord DEF FinalizeCompleted, AttemptStages
    <3> QED
      BY <2>3, <3>1, CommitFinalUsesLedger DEF FinalizeCompleted, TerminalStatuses, LedgerNext
  <2>4. ASSUME NEW s \in AttemptStages, NEW m \in BOOLEAN, RecordFailure(r, s, m)
        PROVE  LedgerNext \/ UNCHANGED ledgerVars
    <3>1. recordId[r] \in Ids /\ FailedStatus(code[r]) \in TerminalStatuses
      BY <2>4, AttemptHasRecord DEF RecordFailure, FailedStatus, TerminalStatuses
    <3> QED
      BY <2>4, <3>1, CommitFinalUsesLedger DEF RecordFailure, LedgerNext
  <2>5. CASE Unlock(r)
    <3>1. PICK t \in ReadTimes :
            IF pc[r] = "owner" /\ Completable(r, t)
              THEN row' = CompletedRow(r, FALSE) /\ pc' = [pc EXCEPT ![r] = "failed"]
              ELSE UNCHANGED <<row, pc>>
      BY <2>5 DEF Unlock
    <3>2. UNCHANGED <<clock, lastId, callVars, reply>>
      BY <2>5 DEF Unlock
    <3>3. Complete(r) \/ UNCHANGED <<row, pc>>
      BY <3>1, <3>2 DEF Complete
    <3> QED
      BY <3>2, <3>3 DEF ledgerVars, callVars, LedgerNext
  <2>6. CASE \/ Replay(r) \/ RefusedByLedger(r) \/ RecoveryAllowed(r) \/ RecoveryRejected(r)
             \/ PersistNew(r) \/ PersistRecovered(r) \/ PersistRejected(r)
             \/ PersistExhausted(r) \/ PrepareProvider(r) \/ MarkStreaming(r)
             \/ LeaseLost(r) \/ CompletionRejected(r) \/ AuditPreflight(r)
    BY <2>6
    DEF Replay, RefusedByLedger, RecoveryAllowed, RecoveryRejected, PersistNew,
        PersistRecovered, PersistRejected, PersistExhausted, PrepareProvider,
        MarkStreaming, LeaseLost, CompletionRejected, AuditPreflight
  <2> QED
    BY <1>3, <2>1, <2>2, <2>3, <2>4, <2>5, <2>6
    DEF UnbudgetedStep, FinalizeFailure, PreflightFinalize, AttemptStages
<1>4. ASSUME NEW r \in Requests, Heartbeat(r) \/ Disturbance(r)
      PROVE  LedgerNext \/ UNCHANGED ledgerVars
  BY <1>4 DEF Heartbeat, Disturbance, CancelledInFinalize, DbFails, CrashRequest, LedgerNext
<1>5. CASE CleanUpRecords \/ Time
  BY <1>5 DEF CleanUpRecords, Time, LedgerNext
<1> QED
  BY <1>1, <1>2, <1>3, <1>4, <1>5 DEF Next, HandlerStep

-----------------------------------------------------------------------------
(* Steps that change neither the ledger, nor the executions, nor what is   *)
(* bound or accounted.                                                     *)

\* A handler that only moves on, closes its own decision or answers with a
\* replay, and enters an attempt only from within one.
QuietStep(r, s) ==
  /\ UNCHANGED <<ledgerVars, exec, boundTo, accounted>>
  /\ stage' = [stage EXCEPT ![r] = s]
  /\ code' \in [Requests -> FailureCodes]
  /\ lost' \in [Requests -> BOOLEAN]
  /\ s \in AttemptStages => stage[r] \in AttemptStages
  /\ s \in AdmittedStages =>
       stage[r] \in {"ledger"} \cup AdmittedStages /\ pc[r] \in {"owner", "uncached"}
  /\ s \notin {"authorize", "ledger"}
  /\ \/ audit' = audit
     \/ /\ \E a \in AuditStatuses \ {"open"} : audit' = [audit EXCEPT ![r] = a]
        /\ s \notin AttemptStages \cup AdmittedStages
  /\ answer' = answer \/ answer' = [answer EXCEPT ![r] = reply[r]]

LEMMA QuietStepKeeps ==
  ASSUME ChatInv, NEW r \in Requests, NEW s \in Stages, QuietStep(r, s)
  PROVE  ChatShape'
<1>0. ChatShape /\ LedgerTypeOK
  BY DEF ChatInv, LedgerInv
<1> USE <1>0 DEF ChatShape
<1>1. ChatTypeOK'
  BY DEF QuietStep, ChatTypeOK, LedgerTypeOK
<1>a. \A q \in Requests : q # r => stage'[q] = stage[q] /\ audit'[q] = audit[q]
  BY DEF QuietStep, ChatTypeOK
<1>b. stage'[r] = s
  BY DEF QuietStep, ChatTypeOK
<1>c. /\ UNCHANGED <<clock, row, lastId, pc, now, tries, recordId, isRecovery, reply,
                     exec, boundTo, accounted>>
  BY DEF QuietStep, ledgerVars
<1>2. StandingShape'
  BY <1>a, <1>b, <1>c DEF QuietStep, StandingShape, Renewable
<1>3. ExecShape' /\ LedgerAgrees' /\ AccountShape'
  BY <1>c DEF ExecShape, LedgerAgrees, AccountShape
<1>4. StartedShape'
  BY <1>a, <1>b, <1>c DEF QuietStep, StartedShape
<1>5. DurableShape'
  BY <1>c DEF QuietStep, DurableShape, Durable, Settled, ChatTypeOK
<1>6. DecisionShape'
  BY <1>a, <1>b, <1>c DEF QuietStep, DecisionShape, AdmittedStages, AttemptStages
<1>7. HolderShape'
  BY <1>a, <1>b, <1>c DEF QuietStep, HolderShape, HoldsRecord, Renewable, Terminal
<1>8. EndedIsAudited'
  <2>1. \A i \in Ids : OpenDecisions(i)' \subseteq OpenDecisions(i)
    BY <1>a, <1>c DEF QuietStep, OpenDecisions, ChatTypeOK
  <2> QED
    BY <1>c, <2>1 DEF EndedIsAudited, Terminal, Exhausted
<1> QED
  BY <1>1, <1>2, <1>3, <1>4, <1>5, <1>6, <1>7, <1>8

LEMMA QuietActions ==
  ASSUME ChatInv, NEW r \in Requests,
         \/ RefuseAuthorization(r) \/ Replay(r) \/ RefusedByLedger(r)
         \/ RecoveryAllowed(r) \/ RecoveryRejected(r) \/ ReserveBudget(r)
         \/ PersistRejected(r) \/ PrepareProvider(r)
         \/ ProviderAnswers(r) \/ ProviderFails(r) \/ LeaseLost(r)
         \/ CompletionRejected(r) \/ ReleaseBudget(r) \/ AuditPreflight(r) \/ Disturbance(r)
  PROVE  ChatShape'
<1>0. ChatTypeOK /\ stage[r] \in Stages /\ audit[r] \in AuditStatuses
  BY DEF ChatInv, ChatShape, ChatTypeOK
<1> USE <1>0 DEF Goto, Stages, AttemptStages, AdmittedStages, AuditStatuses, TerminalStatuses,
                 FailureCodes
<1>1. CASE RefuseAuthorization(r)
  <2>1. QuietStep(r, "done")
    BY <1>1 DEF RefuseAuthorization, QuietStep, ChatTypeOK
  <2> QED
    BY <2>1, QuietStepKeeps
<1>2. CASE Replay(r)
  <2>1. QuietStep(r, "done")
    BY <1>2 DEF Replay, QuietStep, ChatTypeOK
  <2> QED
    BY <2>1, QuietStepKeeps
<1>3. CASE RefusedByLedger(r) \/ RecoveryRejected(r) \/ ReleaseBudget(r)
  <2>1. QuietStep(r, "audit")
    BY <1>3 DEF RefusedByLedger, RecoveryRejected, ReleaseBudget, QuietStep, ChatTypeOK
  <2> QED
    BY <2>1, QuietStepKeeps
<1>4. CASE RecoveryAllowed(r)
  <2>1. QuietStep(r, "budget")
    BY <1>4 DEF RecoveryAllowed, Recovering, QuietStep, ChatTypeOK
  <2> QED
    BY <2>1, QuietStepKeeps
<1>5. CASE ReserveBudget(r)
  <2>1. stage[r] \in {"ledger", "budget"} /\ pc[r] \in {"owner", "uncached"}
    BY <1>5 DEF ReserveBudget, ChatInv, ChatShape, StandingShape
  <2>2. PICK s \in {"persist", "audit"} : stage' = [stage EXCEPT ![r] = s]
    BY <1>5 DEF ReserveBudget
  <2>3. QuietStep(r, s)
    BY <1>5, <2>1, <2>2 DEF ReserveBudget, QuietStep, ChatTypeOK
  <2> QED
    BY <2>3, QuietStepKeeps
<1>6. CASE PersistRejected(r)
  <2>1. QuietStep(r, "release")
    BY <1>6 DEF PersistRejected, QuietStep, ChatTypeOK
  <2> QED
    BY <2>1, QuietStepKeeps
<1>7. CASE PrepareProvider(r) \/ ProviderAnswers(r) \/ ProviderFails(r) \/ LeaseLost(r)
  <2>1. PICK s \in AttemptStages : stage' = [stage EXCEPT ![r] = s]
    BY <1>7
    DEF PrepareProvider, ProviderAnswers, StreamAnswers, CompletionUnread, LeaseLost,
        ProviderFails
  <2>2. stage[r] \in AttemptStages /\ code' \in [Requests -> FailureCodes]
    BY <1>7
    DEF PrepareProvider, ProviderAnswers, StreamAnswers, CompletionUnread, LeaseLost,
        ProviderFails, ProviderFailureCodes, ChatTypeOK
  <2>3. QuietStep(r, s)
    BY <1>7, <2>1, <2>2
    DEF PrepareProvider, ProviderAnswers, StreamAnswers, CompletionUnread, LeaseLost,
        ProviderFails, QuietStep, ChatTypeOK
  <2> QED
    BY <2>1, <2>3, QuietStepKeeps
<1>8. CASE CompletionRejected(r) \/ CancelledInFinalize(r)
  <2>1. QuietStep(r, "done")
    BY <1>8 DEF CompletionRejected, CancelledInFinalize, QuietStep, ChatTypeOK
  <2> QED
    BY <2>1, QuietStepKeeps
<1>9. CASE AuditPreflight(r)
  <2>1. audit' = audit \/ audit' = [audit EXCEPT ![r] = "preflight_failed"]
    BY <1>9 DEF AuditPreflight, ChatTypeOK
  <2>2. QuietStep(r, "unlock")
    BY <1>9, <2>1 DEF AuditPreflight, QuietStep, ChatTypeOK
  <2> QED
    BY <2>2, QuietStepKeeps
<1>10. CASE DbFails(r)
  <2>1. PICK s \in Stages : stage' = [stage EXCEPT ![r] = s]
                            /\ s \in {"done", "audit", "release"} \cup AttemptStages
                            /\ (s \in AttemptStages => stage[r] \in AttemptStages)
    BY <1>10 DEF DbFails, AfterDbError
  <2>2. code' \in [Requests -> FailureCodes]
    BY <1>10 DEF DbFails, ChatTypeOK
  <2>3. QuietStep(r, s)
    BY <1>10, <2>1, <2>2 DEF DbFails, QuietStep, ChatTypeOK
  <2> QED
    BY <2>3, QuietStepKeeps
<1>11. CASE CrashRequest(r)
  <2>1. QuietStep(r, "crashed")
    BY <1>11 DEF CrashRequest, QuietStep, ChatTypeOK
  <2> QED
    BY <2>1, QuietStepKeeps
<1> QED
  BY <1>1, <1>2, <1>3, <1>4, <1>5, <1>6, <1>7, <1>8, <1>9, <1>10, <1>11 DEF Disturbance

-----------------------------------------------------------------------------
(* Steps of the ledger, with the foreign key's ON DELETE SET NULL.         *)

\* What a statement for r may do to the row: nothing, delete it, insert it, or let
\* r take it over; a renewal keeps the token.
RowMove(r) ==
  \/ row' = row /\ lastId' = lastId
  \/ row' = AbsentRow /\ lastId' = lastId
  \/ /\ row.status = "absent" /\ stage[r] = "ledger"
     /\ lastId' = lastId + 1 /\ lastId' \in Ids
     /\ row'.status = "processing" /\ row'.id = lastId' /\ row'.token = r
  \/ /\ row.status \in {"processing", "failed"} /\ lastId' = lastId
     /\ row'.status = "processing" /\ row'.id = row.id
     /\ \/ row'.token = r /\ stage[r] = "ledger"
        \/ row'.token = row.token /\ row.status = "processing"

\* What it may do to the standing of r, and of nobody else.
StandingMove(r) ==
  /\ \A q \in Requests \ {r} :
       pc'[q] = pc[q] /\ recordId'[q] = recordId[q] /\ reply'[q] = reply[q]
  /\ pc'[r] # "crashed"
  /\ pc'[r] = "lost" => ~Renewable(r)'
  /\ pc'[r] \in {"owner", "lost", "replay", "uncached"} => recordId'[r] # 0
  /\ stage[r] # "ledger" => pc'[r] = pc[r] \/ (pc[r] = "owner" /\ pc'[r] = "lost" /\ stage[r] \in AttemptStages)
  /\ Settled(r) => Settled(r)' /\ recordId'[r] = recordId[r]
  /\ \/ reply'[r] = reply[r]
     \/ row.status = "completed" /\ row' = row /\ reply'[r] = row.response
        /\ recordId'[row.token] = recordId[row.token]

LedgerMove(r) ==
  /\ RowMove(r) /\ StandingMove(r) /\ Detach
  /\ lost' \in [Requests -> BOOLEAN]
  /\ UNCHANGED <<stage, code, boundTo, audit, accounted, answer>>

\* Detach changes attached only, and only of the execution of a deleted record.
LEMMA DetachEffect ==
  ASSUME ChatInv, NEW r \in Requests, LedgerMove(r)
  PROVE  /\ exec' \in [Ids -> Executions]
         /\ \A i \in Ids :
              /\ exec'[i].status = exec[i].status /\ exec'[i].attempts = exec[i].attempts
              /\ exec'[i].limit = exec[i].limit /\ exec'[i].retryable = exec[i].retryable
              /\ exec'[i].content = exec[i].content
              /\ exec'[i].attached <=> exec[i].status # "none" /\ row'.id = i
<1>0. ChatTypeOK /\ ExecShape /\ RowShape /\ row \in Rows /\ lastId \in Nat
  BY DEF ChatInv, ChatShape, LedgerInv, LedgerTypeOK
<1>1. CASE row' = row \/ row'.status = "processing"
  <2>1. exec' = exec
    BY <1>0, <1>1 DEF LedgerMove, Detach, RowShape, AbsentRow, Ids
  <2>2. \A i \in Ids : exec[i].status # "none" => (row'.id = i <=> row.id = i)
    BY <1>0, <1>1 DEF LedgerMove, RowMove, ExecShape, RowShape, AbsentRow, Ids
  <2> QED
    BY <1>0, <2>1, <2>2 DEF ExecShape, ChatTypeOK
<1>2. CASE row' = AbsentRow
  <2>1. CASE row.id \in Ids
    <3> DEFINE d == [exec[row.id] EXCEPT !.attached = FALSE]
    <3>1. exec' = [exec EXCEPT ![row.id] = d]
      BY <1>2, <2>1 DEF LedgerMove, Detach, AbsentRow
    <3>2. exec[row.id] \in Executions
      BY <1>0, <2>1 DEF ChatTypeOK
    <3>3. /\ d \in Executions /\ ~d.attached
          /\ d.status = exec[row.id].status /\ d.attempts = exec[row.id].attempts
          /\ d.limit = exec[row.id].limit /\ d.retryable = exec[row.id].retryable
          /\ d.content = exec[row.id].content
      BY <3>2 DEF Executions
    <3> HIDE DEF d
    <3>5. exec' \in [Ids -> Executions] /\ exec'[row.id] = d
          /\ \A i \in Ids \ {row.id} : exec'[i] = exec[i]
      BY <1>0, <2>1, <3>1, <3>3 DEF ChatTypeOK
    <3>6. row'.id = 0 /\ 0 \notin Ids
      BY <1>2 DEF AbsentRow, Ids
    <3> QED
      BY <1>0, <2>1, <3>3, <3>5, <3>6 DEF ExecShape
  <2>2. CASE row.id \notin Ids
    <3>1. exec' = exec
      BY <1>2, <2>2 DEF LedgerMove, Detach
    <3> QED
      BY <1>0, <1>2, <2>2, <3>1 DEF ChatTypeOK, ExecShape, AbsentRow, Ids
  <2> QED
    BY <2>1, <2>2
<1> QED
  BY <1>1, <1>2 DEF LedgerMove, RowMove

LEMMA LedgerMoveKeeps ==
  ASSUME ChatInv, NEW r \in Requests, LedgerMove(r)
  PROVE  ChatShape'
<1>0. ChatShape /\ LedgerTypeOK /\ RowShape /\ TokenShape /\ row \in Rows
  BY DEF ChatInv, LedgerInv, LedgerTypeOK
<1> USE <1>0 DEF ChatShape
<1>e. /\ exec' \in [Ids -> Executions]
      /\ \A i \in Ids :
              /\ exec'[i].status = exec[i].status /\ exec'[i].attempts = exec[i].attempts
              /\ exec'[i].limit = exec[i].limit /\ exec'[i].retryable = exec[i].retryable
              /\ exec'[i].content = exec[i].content
              /\ exec'[i].attached <=> exec[i].status # "none" /\ row'.id = i
  BY DetachEffect
<1>u. UNCHANGED <<stage, code, boundTo, audit, accounted, answer>> /\ lost' \in [Requests -> BOOLEAN]
  BY DEF LedgerMove
<1>m. RowMove(r) /\ StandingMove(r)
  BY DEF LedgerMove
<1>1. ChatTypeOK'
  BY <1>e, <1>u DEF ChatTypeOK
<1>2. StandingShape'
  <2>1. \A q \in Requests \ {r} : Renewable(q)' => Renewable(q)
    BY <1>m DEF RowMove, Renewable, AbsentRow
  <2> QED
    BY <1>u, <1>m, <2>1 DEF StandingMove, StandingShape, AdmittedStages, AttemptStages
<1>3. ExecShape'
  <2>1. lastId' \in Nat /\ lastId \in Nat /\ lastId' >= lastId
    BY <1>m DEF RowMove, LedgerTypeOK, Ids
  <2>2. \A i \in Ids : i > lastId' => i > lastId
    BY <2>1 DEF Ids
  <2> QED
    BY <1>e, <2>2 DEF ExecShape
<1>k. \A q \in Requests : stage[q] \in AttemptStages => recordId'[q] = recordId[q]
  BY <1>m DEF StandingMove, StandingShape, Settled
<1>4. StartedShape'
  BY <1>e, <1>u, <1>k, AttemptHasRecord DEF StartedShape
<1>5. LedgerAgrees'
  <2>1. CASE row' = row
    BY <1>e, <2>1 DEF LedgerAgrees
  <2>2. CASE row' = AbsentRow
    BY <2>2 DEF LedgerAgrees, Ids, AbsentRow
  <2>3. CASE row.status = "absent" /\ row'.status = "processing" /\ row'.id = lastId + 1
    <3>1. row'.id \in Ids => exec[row'.id].status = "none"
      BY <2>3 DEF ExecShape, LedgerTypeOK, Ids
    <3> QED
      BY <1>e, <2>3, <3>1 DEF LedgerAgrees
  <2>4. CASE /\ row.status \in {"processing", "failed"}
             /\ row'.status = "processing" /\ row'.id = row.id
    BY <1>e, <2>4 DEF LedgerAgrees
  <2> QED
    BY <1>m, <2>1, <2>2, <2>3, <2>4 DEF RowMove
<1>6. DurableShape'
  <2>1. \A a \in Requests : recordId[a] # 0 /\ Settled(a) /\ Durable(a)
          => recordId'[a] # 0 /\ Settled(a)' /\ Durable(a)'
    BY <1>e, <1>m DEF StandingMove, Durable, LedgerTypeOK, Ids, Settled
  <2>2. row.status = "completed" =>
          /\ row.token \in Requests /\ row.response = row.token /\ recordId[row.token] # 0
          /\ Settled(row.token) /\ Durable(row.token)
    BY DEF LedgerTypeOK, RowShape, TokenShape, LedgerAgrees, Durable, Settled, Ids
  <2> QED
    BY <1>m, <1>u, <2>1, <2>2 DEF StandingMove, DurableShape, LedgerTypeOK, ChatTypeOK
<1>7. DecisionShape'
  BY <1>u DEF DecisionShape
<1>8. AccountShape'
  BY <1>e, <1>u DEF AccountShape, ChatTypeOK
<1>9. HolderShape'
  <2>1. \A q \in Requests : stage[q] \in AttemptStages /\ Renewable(q)' => Renewable(q) /\ row'.id = row.id
    BY <1>m DEF RowMove, Renewable, AbsentRow, AttemptStages
  <2> QED
    BY <1>e, <1>u, <1>k, <2>1, AttemptHasRecord DEF HolderShape, HoldsRecord, Terminal
<1>10. EndedIsAudited'
  BY <1>e, <1>u DEF EndedIsAudited, Terminal, OpenDecisions, Exhausted
<1> QED
  BY <1>1, <1>2, <1>3, <1>4, <1>5, <1>6, <1>7, <1>8, <1>9, <1>10

LEMMA LedgerStepKeeps ==
  ASSUME ChatInv, NEW r \in Requests, LedgerStep(r)
  PROVE  ChatShape'
<1>0. /\ LedgerTypeOK /\ RowShape /\ TokenShape /\ row \in Rows
      /\ StandingShape /\ ChatTypeOK
      /\ stage[r] = "ledger" /\ Detach /\ (BeginStep(r) \/ ReadCached(r))
      /\ UNCHANGED <<stage, code, lost, boundTo, audit, accounted, answer>>
  BY DEF ChatInv, ChatShape, LedgerInv, LedgerTypeOK, LedgerStep
<1>1. RowMove(r)
  <2>1. CASE BeginInsert(r)
    BY <1>0, <2>1, ConstantsAssumption DEF BeginInsert, InsertedRow, RowMove, LedgerTypeOK, Ids
  <2>2. CASE BeginReopen(r) \/ BeginReclaim(r)
    BY <1>0, <2>2 DEF BeginReopen, BeginReclaim, RowMove, Rows
  <2>3. CASE BeginExpired(r)
    BY <2>3 DEF BeginExpired, RowMove
  <2>4. CASE \/ BeginConflict(r) \/ BeginVanished(r) \/ BeginReplay(r) \/ BeginRefused(r)
             \/ ReadCached(r)
    BY <2>4
    DEF BeginConflict, BeginVanished, BeginReplay, BeginRefused, ReadCached, RowMove
  <2> QED
    BY <1>0, <2>1, <2>2, <2>3, <2>4 DEF BeginStep
<1>2. StandingMove(r)
  <2> USE <1>0 DEF LedgerTypeOK, StandingMove, Settled
  <2>1. CASE BeginInsert(r)
    BY <2>1, ConstantsAssumption DEF BeginInsert
  <2>2. CASE BeginReopen(r) \/ BeginReclaim(r) \/ BeginReplay(r)
    BY <2>2 DEF BeginReopen, BeginReclaim, BeginReplay, Selected, RowShape
  <2>3. CASE BeginExpired(r) \/ BeginVanished(r)
    BY <2>3 DEF BeginExpired, BeginVanished, Retry
  <2>4. CASE BeginConflict(r) \/ BeginRefused(r)
    BY <2>4 DEF BeginConflict, BeginRefused, callVars, Selected
  <2>5. CASE ReadCached(r)
    BY <2>5 DEF ReadCached, callVars, StandingShape
  <2> QED
    BY <2>1, <2>2, <2>3, <2>4, <2>5 DEF BeginStep
<1>3. LedgerMove(r)
  BY <1>0, <1>1, <1>2 DEF LedgerMove, ChatTypeOK
<1> QED
  BY <1>3, LedgerMoveKeeps

LEMMA HeartbeatKeeps ==
  ASSUME ChatInv, NEW r \in Requests, Heartbeat(r)
  PROVE  ChatShape'
<1>0. /\ LedgerTypeOK /\ RowShape /\ row \in Rows /\ StandingShape /\ ChatTypeOK
      /\ stage[r] \in AttemptStages /\ stage[r] \in Stages
  BY DEF ChatInv, ChatShape, LedgerInv, LedgerTypeOK, Heartbeat, HeartbeatRuns, AttemptStages,
         Stages
<1>1. CASE UNCHANGED ledgerVars
  <2>1. stage' = [stage EXCEPT ![r] = stage[r]] /\ lost' \in [Requests -> BOOLEAN]
    BY <1>0 DEF Heartbeat, ChatTypeOK, Renewable
  <2>2. QuietStep(r, stage[r])
    BY <1>0, <1>1, <2>1 DEF Heartbeat, QuietStep, ChatTypeOK, AttemptStages, AdmittedStages
  <2> QED
    BY <1>0, <2>2, QuietStepKeeps
<1>2. CASE Renew(r)
  <2>1. lost' \in [Requests -> BOOLEAN]
    BY <1>0, <1>2 DEF Heartbeat, ChatTypeOK, Renewable
  <2>2. /\ row' = row \/ (Renewable(r) /\ \E t \in ReadTimes : row' = [row EXCEPT !.lease = t + LEASE_SECONDS])
        /\ UNCHANGED <<lastId, recordId, reply>>
    BY <1>2 DEF Renew, RenewedRow, callVars
  <2>3. row' = row \/ /\ Renewable(r) /\ row'.status = row.status /\ row'.id = row.id
                      /\ row'.token = row.token
    BY <1>0, <2>2 DEF Rows
  <2>4. RowMove(r) /\ (Renewable(r)' <=> Renewable(r))
    BY <2>2, <2>3 DEF RowMove, Renewable
  <2>5. StandingMove(r)
    BY <1>0, <1>2, <2>2, <2>4
    DEF Renew, StandingMove, LedgerTypeOK, StandingShape, Settled
  <2>6. Detach
    BY <1>0, <2>3 DEF Heartbeat, Detach, RowShape, AbsentRow, Renewable, Ids
  <2>7. LedgerMove(r)
    BY <2>1, <2>4, <2>5, <2>6 DEF Heartbeat, LedgerMove
  <2> QED
    BY <2>7, LedgerMoveKeeps
<1> QED
  BY <1>1, <1>2 DEF Heartbeat

LEMMA CleanUpKeeps ==
  ASSUME ChatInv, CleanUpRecords
  PROVE  ChatShape'
<1>0. LedgerTypeOK /\ TokenShape /\ StandingShape /\ ChatTypeOK
  BY DEF ChatInv, ChatShape, LedgerInv
<1>1. PICK r \in Requests : row.token = r
  BY <1>0 DEF CleanUpRecords, Cleanup, Cleanable, TokenShape
<1>2. RowMove(r) /\ Detach /\ lost' \in [Requests -> BOOLEAN]
      /\ UNCHANGED <<stage, code, boundTo, audit, accounted, answer>>
  BY <1>0 DEF CleanUpRecords, Cleanup, RowMove, ChatTypeOK
<1>3. StandingMove(r)
  BY <1>0 DEF CleanUpRecords, Cleanup, callVars, AbsentRow, StandingMove, StandingShape,
              Settled, Renewable
<1> QED
  BY <1>1, <1>2, <1>3, LedgerMoveKeeps DEF LedgerMove

LEMMA TimeKeeps ==
  ASSUME ChatInv, Time \/ UNCHANGED vars
  PROVE  ChatShape'
<1>1. ChatShape /\ UNCHANGED <<row, lastId, pc, recordId, reply, stage, code, lost, exec,
                               boundTo, audit, accounted, answer>>
  BY DEF ChatInv, Time, Tick, vars, ledgerVars, callVars, chatVars
<1> QED
  BY <1>1
  DEF ChatShape, ChatTypeOK, StandingShape, ExecShape, StartedShape, LedgerAgrees,
      DurableShape, Durable, Settled, DecisionShape, AccountShape, HolderShape, HoldsRecord,
      Renewable, EndedIsAudited, Terminal, OpenDecisions, Exhausted

LEMMA AuthorizeKeeps ==
  ASSUME ChatInv, NEW r \in Requests, Authorize(r)
  PROVE  ChatShape'
<1>0. ChatShape /\ LedgerTypeOK
  BY DEF ChatInv, LedgerInv
<1>1. /\ UNCHANGED <<row, lastId, recordId, reply, code, lost, exec, boundTo, accounted, answer>>
      /\ stage' = [stage EXCEPT ![r] = "ledger"] /\ audit' = [audit EXCEPT ![r] = "open"]
      /\ stage[r] = "authorize" /\ pc[r] = "idle" /\ pc' = [pc EXCEPT ![r] = "insert"]
  BY DEF Authorize, Begin, Goto
<1>2. ChatTypeOK'
  BY <1>0, <1>1 DEF ChatShape, ChatTypeOK, Stages, AuditStatuses
<1>3. /\ \A q \in Requests \ {r} : stage'[q] = stage[q] /\ audit'[q] = audit[q] /\ pc'[q] = pc[q]
      /\ stage'[r] = "ledger" /\ audit'[r] = "open" /\ pc'[r] = "insert"
  BY <1>0, <1>1 DEF ChatShape, ChatTypeOK, LedgerTypeOK
<1>4. StandingShape' /\ ExecShape' /\ StartedShape' /\ LedgerAgrees' /\ AccountShape'
  BY <1>0, <1>1, <1>3
  DEF ChatShape, StandingShape, ExecShape, StartedShape, LedgerAgrees, AccountShape,
      AttemptStages, AdmittedStages, Renewable
<1>5. DurableShape' /\ DecisionShape'
  BY <1>0, <1>1, <1>3
  DEF ChatShape, ChatTypeOK, LedgerTypeOK, DurableShape, Durable, Settled, DecisionShape,
      AdmittedStages
<1>6. HolderShape'
  BY <1>0, <1>1, <1>3
  DEF ChatShape, HolderShape, HoldsRecord, Renewable, Terminal, AttemptStages
<1>7. EndedIsAudited'
  <2>1. boundTo[r] = 0
    BY <1>0, <1>1 DEF ChatShape, DecisionShape
  <2>2. \A i \in Ids : OpenDecisions(i)' = OpenDecisions(i)
    BY <1>1, <1>3, <2>1 DEF OpenDecisions, Ids
  <2> QED
    BY <1>0, <1>1, <2>2 DEF ChatShape, EndedIsAudited, Terminal, Exhausted
<1> QED
  BY <1>2, <1>4, <1>5, <1>6, <1>7 DEF ChatShape

-----------------------------------------------------------------------------
(* Steps that write an execution.                                          *)

\* Writing execution i leaves the others alone.
LEMMA ExecWrite ==
  ASSUME exec \in [Ids -> Executions], NEW i \in Ids, NEW e \in Executions,
         exec' = [exec EXCEPT ![i] = e]
  PROVE  /\ exec' \in [Ids -> Executions]
         /\ exec'[i] = e
         /\ \A j \in Ids \ {i} : exec'[j] = exec[j]
  OBVIOUS

\* The fields of an execution whose next attempt was started.
LEMMA NextAttemptFields ==
  ASSUME NEW i \in Ids, exec[i] \in Executions
  PROVE  LET e == NextAttempt(i) IN
         /\ e \in Executions /\ e.status = "prepared" /\ e.attempts = exec[i].attempts + 1
         /\ e.limit = exec[i].limit /\ e.attached = exec[i].attached
<1> DEFINE e == NextAttempt(i)
<1>1. PICK n \in Nat : n = exec[i].attempts + 1
  BY DEF Executions
<1>2. PICK x \in Executions : x = exec[i]
  OBVIOUS
<1>3. e = [x EXCEPT !.status = "prepared", !.attempts = n, !.retryable = TRUE,
                    !.assistant = "pending", !.content = Null]
  BY <1>1, <1>2 DEF NextAttempt
<1> HIDE DEF e
<1>4. e \in Executions
  BY <1>3 DEF Executions
<1>5. e.status = "prepared" /\ e.attached = x.attached /\ e.attempts = n /\ e.limit = x.limit
  BY <1>3 DEF Executions
<1> QED
  BY <1>1, <1>2, <1>4, <1>5 DEF e

\* The fields of an execution whose retry limit was found reached.
LEMMA ExhaustedFields ==
  ASSUME NEW i \in Ids, exec[i] \in Executions
  PROVE  LET e == ExhaustedExecution(i) IN
         /\ e \in Executions /\ e.status = "failed" /\ ~e.retryable
         /\ e.attempts = exec[i].attempts /\ e.limit = exec[i].limit
         /\ e.attached = exec[i].attached
  BY DEF ExhaustedExecution, Executions, TerminalStatuses

\* The fields of a finalized execution.
LEMMA FinalFields ==
  ASSUME NEW r \in Requests, NEW i \in Ids, exec[i] \in Executions,
         NEW status \in TerminalStatuses, NEW retry \in BOOLEAN
  PROVE  LET e == FinalExecution(r, i, status, retry) IN
         /\ e \in Executions /\ e.status = status /\ (e.status = "completed" => e.content = r)
         /\ e.attempts = exec[i].attempts /\ e.limit = exec[i].limit
         /\ e.attached = exec[i].attached
<1> DEFINE e == FinalExecution(r, i, status, retry)
<1>1. PICK c \in {r, Null} : c = IF status = "completed" \/ r \in Streaming THEN r ELSE Null
  OBVIOUS
<1>2. e = [exec[i] EXCEPT !.status = status, !.retryable = retry, !.assistant = status,
                          !.content = c]
  BY <1>1 DEF FinalExecution
<1> HIDE DEF e
<1>3. e \in Executions
  BY <1>2 DEF Executions
<1>4. /\ e.status = status /\ e.content = c /\ e.attempts = exec[i].attempts
      /\ e.limit = exec[i].limit /\ e.attached = exec[i].attached
  BY <1>2 DEF Executions
<1> QED
  BY <1>1, <1>3, <1>4 DEF e

\* The fields of an execution that streams.
LEMMA StreamingFields ==
  ASSUME NEW x \in Executions
  PROVE  LET e == [x EXCEPT !.status = "streaming", !.assistant = "streaming"] IN
         /\ e \in Executions /\ e.status = "streaming" /\ e.attempts = x.attempts
         /\ e.limit = x.limit /\ e.attached = x.attached
  BY DEF Executions

\* A request goes to stage s and the standing of all requests is kept.
LEMMA StageWrite ==
  ASSUME ChatInv, NEW r \in Requests, NEW s \in Stages, stage' = [stage EXCEPT ![r] = s]
  PROVE  /\ stage' \in [Requests -> Stages]
         /\ stage'[r] = s
         /\ \A q \in Requests \ {r} : stage'[q] = stage[q]
  BY DEF ChatInv, ChatShape, ChatTypeOK

\* What prepare_exchange leaves behind when it starts an attempt e of execution i.
AttemptStarts(r, i, e) ==
  /\ stage[r] = "persist" /\ row.id = i /\ exec[i].status # "completed"
  /\ e.status = "prepared" /\ e.attached /\ e.limit \in AttemptLimits
  /\ e.attempts = exec[i].attempts + 1 /\ e.attempts <= e.limit
  /\ exec' = [exec EXCEPT ![i] = e]
  /\ BindDecision(r, i)
  /\ CommittedOrUnknown(r)
  /\ UNCHANGED <<ledgerVars, code, lost, audit, accounted, answer>>

LEMMA AttemptStartsKeeps ==
  ASSUME ChatInv, NEW r \in Requests, NEW i \in Ids, recordId[r] = i,
         NEW e \in Executions, AttemptStarts(r, i, e)
  PROVE  ChatShape'
<1>0. ChatShape /\ LedgerTypeOK /\ RowShape /\ row \in Rows
  BY DEF ChatInv, LedgerInv, LedgerTypeOK
<1>1. exec' \in [Ids -> Executions] /\ exec'[i] = e /\ \A j \in Ids \ {i} : exec'[j] = exec[j]
  BY <1>0, ExecWrite DEF ChatShape, ChatTypeOK, AttemptStarts
<1>2. /\ UNCHANGED <<row, lastId, pc, recordId, reply, code, lost, audit, accounted, answer>>
      /\ boundTo' = [boundTo EXCEPT ![r] = i]
      /\ stage[r] = "persist"
  BY DEF AttemptStarts, ledgerVars, BindDecision
<1>3. PICK s \in {"provider", "release"} : stage' = [stage EXCEPT ![r] = s]
  BY DEF AttemptStarts, CommittedOrUnknown, Goto
<1>4. /\ stage' \in [Requests -> Stages] /\ stage'[r] \in {"provider", "release"}
      /\ \A q \in Requests \ {r} : stage'[q] = stage[q]
  <2>1. s \in Stages
    BY DEF Stages
  <2> QED
    BY <1>3, <2>1, StageWrite
<1>5. /\ boundTo' \in [Requests -> 0..MaxRecords] /\ boundTo'[r] = i
      /\ \A q \in Requests \ {r} : boundTo'[q] = boundTo[q]
  BY <1>0, <1>2, ConstantsAssumption DEF ChatShape, ChatTypeOK, Ids
<1>6. row.id = i /\ row.status # "completed" /\ exec[i].status # "completed"
  BY <1>0 DEF AttemptStarts, ChatShape, LedgerAgrees
<1>7. exec[i].attempts \in Nat /\ e.attempts = exec[i].attempts + 1 /\ e.attempts \in 1..e.limit
  BY <1>0, ChatAssumption DEF AttemptStarts, ChatShape, ChatTypeOK, Executions
<1>8. ChatTypeOK'
  BY <1>0, <1>1, <1>2, <1>4, <1>5 DEF ChatShape, ChatTypeOK
<1>9. StandingShape'
  BY <1>0, <1>2, <1>4 DEF ChatShape, StandingShape, AdmittedStages, AttemptStages, Renewable
<1>10. ExecShape'
  <2>1. lastId = i
    BY <1>0, <1>6 DEF RowShape, AbsentRow, Ids
  <2>2. e.status = "prepared" /\ e.attached /\ e.limit \in AttemptLimits
    BY DEF AttemptStarts
  <2> QED
    BY <1>0, <1>1, <1>2, <1>6, <1>7, <2>1, <2>2 DEF ChatShape, ExecShape, Ids
<1>11. StartedShape'
  BY <1>0, <1>1, <1>2, <1>4, AttemptHasRecord
  DEF ChatShape, StartedShape, AttemptStarts, AttemptStages
<1>12. LedgerAgrees'
  BY <1>0, <1>1, <1>2, <1>6 DEF ChatShape, LedgerAgrees, AttemptStarts
<1>13. DurableShape'
  <2>1. ASSUME NEW a \in Requests, recordId[a] # 0, Durable(a)
        PROVE  Durable(a)'
    <3>1. recordId[a] \in Ids /\ recordId'[a] = recordId[a]
      BY <1>0, <1>2, <2>1, ConstantsAssumption DEF LedgerTypeOK, Ids
    <3>2. recordId[a] # i
      BY <1>6, <2>1 DEF Durable
    <3> QED
      BY <1>1, <2>1, <3>1, <3>2 DEF Durable
  <2> QED
    BY <1>0, <1>2, <2>1 DEF ChatShape, ChatTypeOK, LedgerTypeOK, DurableShape, Settled
<1>14. DecisionShape'
  BY <1>0, <1>2, <1>4, <1>5 DEF ChatShape, DecisionShape, AdmittedStages
<1>15. AccountShape'
  BY <1>0, <1>1, <1>2, <1>7 DEF ChatShape, ChatTypeOK, Executions, AccountShape
<1>16. HolderShape'
  <2>1. <<i, e.attempts>> \notin accounted
    BY <1>0, <1>7 DEF ChatShape, AccountShape
  <2>2. audit[r] = "open"
    BY <1>0, <1>2 DEF ChatShape, DecisionShape, AdmittedStages
  <2>3. e.status = "prepared"
    BY DEF AttemptStarts
  <2> SUFFICES ASSUME NEW q \in Requests, stage'[q] \in AttemptStages, HoldsRecord(q, recordId[q])
               PROVE  /\ ~Terminal(recordId[q])' /\ boundTo'[q] = recordId[q]
                      /\ audit[q] = "open"
                      /\ <<recordId[q], exec'[recordId[q]].attempts>> \notin accounted
    BY <1>2 DEF HolderShape, HoldsRecord, Renewable
  <2>4. CASE q = r
    BY <1>1, <1>2, <1>5, <2>1, <2>2, <2>3, <2>4 DEF Terminal, TerminalStatuses
  <2>5. CASE q # r
    <3>1. stage[q] \in AttemptStages /\ recordId[q] = i
      BY <1>4, <1>6, <2>5 DEF HoldsRecord
    <3>2. boundTo[q] = i /\ audit[q] = "open"
      BY <1>0, <3>1 DEF ChatShape, HolderShape
    <3> QED
      BY <1>1, <1>2, <1>5, <2>1, <2>3, <2>5, <3>1, <3>2 DEF Terminal, TerminalStatuses
  <2> QED
    BY <2>4, <2>5
<1>17. EndedIsAudited'
  <2>1. ~Terminal(i)'
    BY <1>1 DEF Terminal, TerminalStatuses, AttemptStarts
  <2>2. \A j \in Ids \ {i} : OpenDecisions(j)' \subseteq OpenDecisions(j)
    BY <1>2, <1>5 DEF OpenDecisions
  <2> QED
    BY <1>0, <1>1, <2>1, <2>2 DEF ChatShape, EndedIsAudited, Terminal, Exhausted
<1> QED
  BY <1>8, <1>9, <1>10, <1>11, <1>12, <1>13, <1>14, <1>15, <1>16, <1>17 DEF ChatShape

LEMMA PersistNewKeeps ==
  ASSUME ChatInv, NEW r \in Requests, PersistNew(r)
  PROVE  ChatShape'
<1> DEFINE i == recordId[r]
<1>1. stage[r] = "persist" /\ i \in Ids /\ exec[i].attempts = 0 /\ exec[i].status = "none"
  BY AttemptHasRecord DEF PersistNew, Persisting, AdmittedStages, ChatInv, ChatShape, ExecShape
<1>2. PICK limit \in AttemptLimits :
        exec' = [exec EXCEPT ![i] =
          [status |-> "prepared", attempts |-> 1, limit |-> limit, retryable |-> FALSE,
           attached |-> TRUE, assistant |-> "pending", content |-> Null]]
  BY DEF PersistNew
<1> DEFINE e == [status |-> "prepared", attempts |-> 1, limit |-> limit, retryable |-> FALSE,
                 attached |-> TRUE, assistant |-> "pending", content |-> Null]
<1>3. /\ e \in Executions /\ limit \in Nat \ {0}
      /\ e.status = "prepared" /\ e.attempts = 1 /\ e.limit = limit /\ e.attached
  BY ChatAssumption DEF Executions
<1>4. exec' = [exec EXCEPT ![i] = e]
  BY <1>2
<1> HIDE DEF e
<1>5. /\ e.attempts = exec[i].attempts + 1 /\ e.attempts <= e.limit
      /\ exec[i].status # "completed" /\ e.limit \in AttemptLimits
  BY <1>1, <1>3
<1>6. /\ row.id = i /\ BindDecision(r, i) /\ CommittedOrUnknown(r)
      /\ UNCHANGED <<ledgerVars, code, lost, audit, accounted, answer>>
  BY DEF PersistNew
<1>7. AttemptStarts(r, i, e)
  BY <1>1, <1>3, <1>4, <1>5, <1>6 DEF AttemptStarts
<1> QED
  BY <1>1, <1>3, <1>7, AttemptStartsKeeps

LEMMA PersistRecoveredKeeps ==
  ASSUME ChatInv, NEW r \in Requests, PersistRecovered(r)
  PROVE  ChatShape'
<1> DEFINE i == recordId[r]
           e == NextAttempt(i)
<1>1. stage[r] = "persist" /\ i \in Ids /\ exec[i] \in Executions
  BY AttemptHasRecord DEF PersistRecovered, Persisting, AdmittedStages, ChatInv, ChatShape, ChatTypeOK
<1>2. /\ exec[i].status \notin {"none", "completed"} /\ exec[i].attached /\ row.id = i
      /\ exec[i].attempts < exec[i].limit /\ exec[i].limit \in AttemptLimits
  BY <1>1
  DEF PersistRecovered, Resumable, Owns, Exhausted, Executions, ChatInv, ChatShape, ExecShape
<1>3. /\ e \in Executions /\ e.status = "prepared" /\ e.attached
      /\ e.attempts = exec[i].attempts + 1 /\ e.limit = exec[i].limit
  BY <1>1, <1>2, NextAttemptFields
<1>4. e.attempts <= e.limit
  BY <1>1, <1>2, <1>3 DEF Executions
<1> HIDE DEF e
<1>5. AttemptStarts(r, i, e)
  BY <1>1, <1>2, <1>3, <1>4 DEF PersistRecovered, AttemptStarts, e
<1> QED
  BY <1>1, <1>3, <1>5, AttemptStartsKeeps

\* Execution i ends as e.  The record is closed with it by the request that holds it,
\* stays open (the retry limit was found by prepare_exchange), or is another one.
RecordFollows(r, i, e) ==
  \/ UNCHANGED <<row, pc>> /\ row.id # i
  \/ UNCHANGED <<row, pc>> /\ Renewable(r) /\ e.status # "completed"
  \/ /\ Renewable(r) /\ row.id = i
     /\ row' = CompletedRow(r, e.status = "completed")
     /\ pc' = [pc EXCEPT ![r] = IF e.status = "completed" THEN "completed" ELSE "failed"]

\* Only decisions of execution i are closed; all of them unless the limit was reached.
DecisionsFollow(i, e) ==
  /\ audit' \in [Requests -> AuditStatuses]
  /\ \A q \in Requests : audit'[q] = audit[q] \/ (boundTo[q] = i /\ audit'[q] # "open")
  /\ \/ \A q \in Requests : boundTo[q] = i => audit'[q] # "open"
     \/ e.status = "failed" /\ ~e.retryable /\ e.attempts >= e.limit

ExecutionEnds(r, i, e) ==
  /\ exec[i].status \notin {"none", "completed"}
  /\ e.status \in TerminalStatuses /\ (e.status = "completed" => e.content = r)
  /\ e.attempts = exec[i].attempts /\ e.limit = exec[i].limit
  /\ e.attached = exec[i].attached
  /\ exec' = [exec EXCEPT ![i] = e]
  /\ \E s \in {"audit", "release", "done"} : Goto(r, s)
  /\ RecordFollows(r, i, e)
  /\ DecisionsFollow(i, e)
  /\ accounted' = accounted \/ accounted' = accounted \cup {<<i, exec[i].attempts>>}
  /\ \/ answer' = answer
     \/ answer' = [answer EXCEPT ![r] = Null]
     \/ answer' = [answer EXCEPT ![r] = r] /\ e.status = "completed" /\ recordId[r] = i
        /\ Settled(r)
  /\ UNCHANGED <<clock, lastId, callVars, reply, code, lost, boundTo>>

LEMMA ExecutionEndsKeeps ==
  ASSUME ChatInv, NEW r \in Requests, NEW i \in Ids, NEW e \in Executions,
         ExecutionEnds(r, i, e)
  PROVE  ChatShape'
<1>0. ChatShape /\ LedgerTypeOK /\ RowShape /\ row \in Rows
  BY DEF ChatInv, LedgerInv, LedgerTypeOK
<1>1. exec' \in [Ids -> Executions] /\ exec'[i] = e /\ \A j \in Ids \ {i} : exec'[j] = exec[j]
  BY <1>0, ExecWrite DEF ChatShape, ChatTypeOK, ExecutionEnds
<1>2. UNCHANGED <<lastId, recordId, reply, code, lost, boundTo>>
  BY DEF ExecutionEnds, callVars
<1>3. /\ stage' \in [Requests -> Stages] /\ stage'[r] \in {"audit", "release", "done"}
      /\ \A q \in Requests \ {r} : stage'[q] = stage[q]
  <2>1. PICK s \in {"audit", "release", "done"} : stage' = [stage EXCEPT ![r] = s]
    BY DEF ExecutionEnds, Goto
  <2>2. s \in Stages
    BY DEF Stages
  <2> QED
    BY <2>1, <2>2, StageWrite
<1>4. /\ e.status \in TerminalStatuses /\ exec[i].status \notin {"none", "completed"}
      /\ e.attempts = exec[i].attempts /\ e.limit = exec[i].limit
      /\ e.attached = exec[i].attached
  BY DEF ExecutionEnds
<1>5. \/ row' = row /\ pc' = pc /\ (row.id = i => Renewable(r) /\ e.status # "completed")
      \/ /\ row.id = i /\ row'.id = i /\ row.status = "processing"
         /\ row'.status = IF e.status = "completed" THEN "completed" ELSE "failed"
         /\ e.status = "completed" => row'.response = r
         /\ pc' = [pc EXCEPT ![r] = IF e.status = "completed" THEN "completed" ELSE "failed"]
  <2>1. CASE row' = CompletedRow(r, e.status = "completed") /\ row.id = i /\ Renewable(r)
             /\ pc' = [pc EXCEPT ![r] = IF e.status = "completed" THEN "completed" ELSE "failed"]
    BY <1>0, <2>1 DEF CompletedRow, Renewable, Rows
  <2> QED
    BY <2>1 DEF ExecutionEnds, RecordFollows
<1>6. row'.id = row.id /\ \A q \in Requests : Renewable(q)' => row' = row /\ Renewable(q)
  BY <1>5 DEF Renewable
<1>7. ChatTypeOK'
  <2>1. accounted' \subseteq Ids \X Nat
    BY <1>0 DEF ExecutionEnds, ChatShape, ChatTypeOK, Executions
  <2>2. answer' \in [Requests -> Requests \cup {Null}] /\ audit' \in [Requests -> AuditStatuses]
    BY <1>0 DEF ExecutionEnds, DecisionsFollow, ChatShape, ChatTypeOK
  <2> QED
    BY <1>0, <1>1, <1>2, <1>3, <2>1, <2>2 DEF ChatShape, ChatTypeOK
<1>8. StandingShape'
  <2>1. \A q \in Requests : pc'[q] = pc[q] \/ (q = r /\ pc'[r] \in {"completed", "failed"})
    BY <1>0, <1>5 DEF LedgerTypeOK
  <2> QED
    BY <1>0, <1>2, <1>3, <1>6, <2>1
    DEF ChatShape, StandingShape, AdmittedStages, AttemptStages
<1>9. ExecShape'
  BY <1>0, <1>1, <1>2, <1>4, <1>6 DEF ChatShape, ExecShape, TerminalStatuses
<1>10. StartedShape'
  BY <1>0, <1>1, <1>2, <1>3, <1>4, AttemptHasRecord
  DEF ChatShape, StartedShape, AttemptStages, TerminalStatuses
<1>11. LedgerAgrees'
  <2>1. e.status = "completed" => e.content = r
    BY DEF ExecutionEnds
  <2> QED
    BY <1>0, <1>1, <1>4, <1>5, <2>1 DEF ChatShape, LedgerAgrees, Renewable
<1>12. DurableShape'
  <2>1. ASSUME NEW a \in Requests, Settled(a), recordId[a] # 0, Durable(a)
        PROVE  Durable(a)' /\ Settled(a)'
    <3>1. recordId[a] \in Ids /\ recordId'[a] = recordId[a]
      BY <1>0, <1>2, <2>1, ConstantsAssumption DEF LedgerTypeOK, Ids
    <3>2. recordId[a] # i
      BY <1>4, <2>1 DEF Durable
    <3>3. Durable(a)'
      BY <1>1, <2>1, <3>1, <3>2 DEF Durable
    <3>4. Settled(a)'
      BY <1>0, <1>5, <2>1 DEF Settled, LedgerTypeOK
    <3> QED
      BY <3>3, <3>4
  <2>2. answer'[r] = answer[r] \/ answer'[r] = Null
        \/ (answer'[r] = r /\ recordId[r] = i /\ Settled(r)' /\ Durable(r)')
    BY <1>0, <1>1, <1>2, <1>5
    DEF ExecutionEnds, ChatShape, ChatTypeOK, LedgerTypeOK, Settled, Durable
  <2>3. \A q \in Requests \ {r} : answer'[q] = answer[q]
    BY <1>0 DEF ExecutionEnds, ChatShape, ChatTypeOK
  <2>4. i # 0 /\ \A q \in Requests : /\ reply[q] \in Requests \cup {Null}
                                       /\ answer[q] \in Requests \cup {Null}
    BY <1>0 DEF ChatShape, ChatTypeOK, LedgerTypeOK, Ids
  <2>5. SUFFICES ASSUME NEW q \in Requests, NEW a \in Requests, a \in {reply'[q], answer'[q]}
                 PROVE  Settled(a)' /\ recordId'[a] # 0 /\ Durable(a)'
    <3>1. \A q \in Requests : /\ reply'[q] \in Requests \cup {Null}
                              /\ answer'[q] \in Requests \cup {Null}
      BY <1>2, <2>2, <2>3, <2>4
    <3> QED
      BY <3>1 DEF DurableShape, Settled, Durable
  <2>6. CASE a \in {reply[q], answer[q]}
    BY <1>0, <1>2, <2>1, <2>6, ConstantsAssumption DEF ChatShape, DurableShape
  <2>7. CASE a \notin {reply[q], answer[q]}
    BY <1>2, <2>2, <2>3, <2>4, <2>5, <2>7, ConstantsAssumption
  <2> QED
    BY <2>6, <2>7
<1>13. DecisionShape'
  BY <1>0, <1>2, <1>3
  DEF ExecutionEnds, DecisionsFollow, ChatShape, DecisionShape, AdmittedStages, Ids
<1>14. AccountShape'
  BY <1>0, <1>1, <1>4 DEF ExecutionEnds, ChatShape, ChatTypeOK, Executions, AccountShape
<1>15. HolderShape'
  <2> SUFFICES ASSUME NEW q \in Requests, stage'[q] \in AttemptStages, HoldsRecord(q, recordId[q])'
               PROVE  /\ ~Terminal(recordId[q])' /\ boundTo[q] = recordId[q]
                      /\ audit'[q] = "open"
                      /\ <<recordId[q], exec'[recordId[q]].attempts>> \notin accounted'
    BY <1>2 DEF HolderShape
  <2>1. q # r /\ stage[q] \in AttemptStages /\ row' = row /\ Renewable(q) /\ HoldsRecord(q, recordId[q])
    BY <1>2, <1>3, <1>6 DEF HoldsRecord, AttemptStages
  <2>2. recordId[q] # i
    BY <1>5, <2>1 DEF HoldsRecord, Renewable
  <2>3. recordId[q] \in Ids
    BY <2>1, AttemptHasRecord
  <2>4. /\ ~Terminal(recordId[q]) /\ boundTo[q] = recordId[q] /\ audit[q] = "open"
        /\ <<recordId[q], exec[recordId[q]].attempts>> \notin accounted
    BY <1>0, <2>1 DEF ChatShape, HolderShape
  <2>5. exec'[recordId[q]] = exec[recordId[q]]
    BY <1>1, <2>2, <2>3
  <2>6. audit'[q] = "open"
    BY <2>2, <2>4 DEF ExecutionEnds, DecisionsFollow
  <2>7. <<recordId[q], exec'[recordId[q]].attempts>> \notin accounted'
    BY <2>2, <2>4, <2>5 DEF ExecutionEnds
  <2> QED
    BY <1>2, <2>4, <2>5, <2>6, <2>7 DEF Terminal
<1>16. EndedIsAudited'
  <2>1. \A j \in Ids : OpenDecisions(j)' \subseteq OpenDecisions(j)
    BY <1>2 DEF ExecutionEnds, DecisionsFollow, OpenDecisions
  <2>2. OpenDecisions(i)' = {} \/ (e.status = "failed" /\ ~e.retryable /\ e.attempts >= e.limit)
    BY <1>2 DEF ExecutionEnds, DecisionsFollow, OpenDecisions
  <2> QED
    BY <1>0, <1>1, <2>1, <2>2 DEF ChatShape, EndedIsAudited, Terminal, Exhausted
<1> QED
  BY <1>7, <1>8, <1>9, <1>10, <1>11, <1>12, <1>13, <1>14, <1>15, <1>16 DEF ChatShape

\* The retry limit ends an execution that is not completed: its record is open.
LEMMA ExhaustedKeeps ==
  ASSUME ChatInv, NEW r \in Requests, RecoveryExhausted(r) \/ PersistExhausted(r)
  PROVE  ChatShape'
<1> DEFINE i == recordId[r]
           e == ExhaustedExecution(i)
<1>0. ChatShape /\ LedgerTypeOK /\ row \in Rows
  BY DEF ChatInv, LedgerInv, LedgerTypeOK
<1>1. /\ Owns(r, i) /\ Exhausted(i) /\ exec' = [exec EXCEPT ![i] = e]
      /\ exec[i].status # "none"
  BY DEF RecoveryExhausted, PersistExhausted
<1>2. Renewable(r) /\ row.id = i /\ i \in Ids /\ row.status = "processing"
  BY <1>1, HolderIsOwner DEF Owns, Renewable
<1>3. exec[i] \in Executions /\ exec[i].status \notin {"none", "completed"}
  BY <1>0, <1>1, <1>2 DEF ChatShape, ChatTypeOK, LedgerAgrees
<1>4. /\ e \in Executions /\ e.status = "failed" /\ ~e.retryable
      /\ e.attempts = exec[i].attempts /\ e.limit = exec[i].limit
      /\ e.attached = exec[i].attached
  BY <1>2, <1>3, ExhaustedFields
<1>5. e.attempts >= e.limit
  BY <1>1, <1>4 DEF Exhausted
<1> HIDE DEF e
<1>6. /\ \E s \in {"audit", "release", "done"} : Goto(r, s)
      /\ UNCHANGED <<clock, lastId, callVars, reply, code, lost, boundTo, audit, accounted, answer>>
  BY DEF RecoveryExhausted, PersistExhausted, ledgerVars, callVars
<1>7. RecordFollows(r, i, e)
  BY <1>2, <1>4 DEF RecoveryExhausted, PersistExhausted, RecordFollows, ledgerVars
<1>8. DecisionsFollow(i, e)
  BY <1>0, <1>4, <1>5, <1>6 DEF DecisionsFollow, ChatShape, ChatTypeOK
<1>9. ExecutionEnds(r, i, e)
  BY <1>1, <1>3, <1>4, <1>6, <1>7, <1>8 DEF ExecutionEnds, TerminalStatuses
<1> QED
  BY <1>2, <1>4, <1>9, ExecutionEndsKeeps

\* The single commit of finalize ends the execution.
LEMMA CommitFinalEnds ==
  ASSUME ChatInv, NEW r \in Requests, stage[r] \in AttemptStages,
         NEW status \in TerminalStatuses, NEW retry \in BOOLEAN, NEW metered \in BOOLEAN,
         Finalizable(r, recordId[r], metered),
         CommitFinal(r, recordId[r], status, retry, metered),
         Goto(r, "done"), UNCHANGED code,
         \/ UNCHANGED answer
         \/ status = "completed" /\ \E a \in {r, Null} : answer' = [answer EXCEPT ![r] = a]
  PROVE  ChatShape'
<1> DEFINE i == recordId[r]
           e == FinalExecution(r, i, status, retry)
<1>0. ChatShape /\ LedgerTypeOK /\ row \in Rows
  BY DEF ChatInv, LedgerInv, LedgerTypeOK
<1>1. i \in Ids /\ Settled(r) /\ exec[i] \in Executions /\ exec[i].status # "none"
  BY <1>0, AttemptHasRecord DEF ChatShape, ChatTypeOK, StartedShape
<1>2. exec[i].status \notin {"none", "completed"}
  BY <1>1 DEF Finalizable, Terminal, TerminalStatuses
<1>3. /\ e \in Executions /\ e.status = status /\ (e.status = "completed" => e.content = r)
      /\ e.attempts = exec[i].attempts /\ e.limit = exec[i].limit
      /\ e.attached = exec[i].attached
  BY <1>1, FinalFields
<1>4. exec' = [exec EXCEPT ![i] = e]
  BY DEF CommitFinal
<1> HIDE DEF e
<1>5. RecordFollows(r, i, e)
  <2>1. CASE exec[i].attached
    <3>1. Renewable(r) /\ row.id = i
      BY <2>1 DEF Finalizable, Fenced, Owns, Renewable
    <3> QED
      BY <1>3, <2>1, <3>1 DEF RecordFollows, CommitFinal, FinalRow
  <2>2. CASE ~exec[i].attached
    <3>1. row.id # i
      BY <1>0, <1>1, <2>2 DEF ChatShape, ExecShape
    <3> QED
      BY <2>2, <3>1 DEF RecordFollows, CommitFinal, FinalRow
  <2> QED
    BY <2>1, <2>2
<1>6. DecisionsFollow(i, e)
  BY <1>0
  DEF DecisionsFollow, CommitFinal, FinalAudit, OpenDecisions, ChatShape, ChatTypeOK,
      AuditStatuses, TerminalStatuses
<1>7. /\ UNCHANGED <<clock, lastId, callVars, reply, code, lost, boundTo>>
      /\ accounted' = accounted \/ accounted' = accounted \cup {<<i, exec[i].attempts>>}
  BY DEF CommitFinal
<1>8. \/ answer' = answer
      \/ answer' = [answer EXCEPT ![r] = Null]
      \/ answer' = [answer EXCEPT ![r] = r] /\ e.status = "completed"
  BY <1>3
<1>9. ExecutionEnds(r, i, e)
  BY <1>1, <1>2, <1>3, <1>4, <1>5, <1>6, <1>7, <1>8 DEF ExecutionEnds
<1> QED
  BY <1>1, <1>3, <1>9, ExecutionEndsKeeps

LEMMA FinalizeKeeps ==
  ASSUME ChatInv, NEW r \in Requests,
         FinalizeCompleted(r) \/ FinalizeFailure(r) \/ PreflightFinalize(r)
  PROVE  ChatShape'
<1>0. ChatTypeOK /\ code[r] \in FailureCodes
  BY DEF ChatInv, ChatShape, ChatTypeOK
<1>1. CASE FinalizeCompleted(r)
  BY <1>1, CommitFinalEnds DEF FinalizeCompleted, AttemptStages, TerminalStatuses
<1>2. ASSUME NEW s \in AttemptStages, NEW m \in BOOLEAN, RecordFailure(r, s, m)
      PROVE  ChatShape'
  <2>1. stage[r] \in AttemptStages /\ FailedStatus(code[r]) \in TerminalStatuses
        /\ Retryable(code[r]) \in BOOLEAN
    BY <1>2 DEF RecordFailure, FailedStatus, TerminalStatuses, Retryable
  <2>2. CASE Finalizable(r, recordId[r], m)
    BY <1>2, <2>1, <2>2, CommitFinalEnds DEF RecordFailure
  <2>3. CASE ~Finalizable(r, recordId[r], m)
    <3>1. QuietStep(r, "done")
      BY <1>0, <1>2, <2>3
      DEF RecordFailure, QuietStep, ChatTypeOK, Goto, AttemptStages, AdmittedStages
    <3> QED
      BY <3>1, QuietStepKeeps DEF Stages
  <2> QED
    BY <2>2, <2>3
<1> QED
  BY <1>1, <1>2 DEF FinalizeFailure, PreflightFinalize, AttemptStages

LEMMA MarkStreamingKeeps ==
  ASSUME ChatInv, NEW r \in Requests, MarkStreaming(r)
  PROVE  ChatShape'
<1> DEFINE i == recordId[r]
<1>0. ChatShape /\ LedgerTypeOK /\ stage[r] = "stream"
  BY DEF ChatInv, LedgerInv, MarkStreaming
<1>1. i \in Ids /\ exec[i] \in Executions /\ exec[i].status # "none"
  BY <1>0, AttemptHasRecord DEF ChatShape, ChatTypeOK, StartedShape, AttemptStages
<1>2. CASE Terminal(i)
  <2>1. QuietStep(r, "finalize_failure")
    BY <1>0, <1>2
    DEF MarkStreaming, QuietStep, ChatShape, ChatTypeOK, FailureCodes, Goto, AttemptStages,
        AdmittedStages
  <2> QED
    BY <2>1, QuietStepKeeps DEF Stages
<1>3. CASE ~Terminal(i)
  <2> DEFINE e == [exec[i] EXCEPT !.status = "streaming", !.assistant = "streaming"]
  <2>1. exec' = [exec EXCEPT ![i] = e] /\ stage' = [stage EXCEPT ![r] = "run"]
        /\ UNCHANGED <<row, lastId, pc, recordId, reply, code, lost, boundTo, audit, accounted,
                       answer>>
    <3>1. exec' = [exec EXCEPT ![i].status = "streaming", ![i].assistant = "streaming"]
      BY <1>3 DEF MarkStreaming
    <3>2. exec' = [exec EXCEPT ![i] = e]
      BY <1>0, <1>1, <3>1 DEF ChatShape, ChatTypeOK
    <3> QED
      BY <1>3, <3>2 DEF MarkStreaming, Goto, ledgerVars
  <2>2. /\ e \in Executions /\ e.status = "streaming"
        /\ e.attempts = exec[i].attempts /\ e.limit = exec[i].limit
        /\ e.attached = exec[i].attached
    BY <1>1, StreamingFields
  <2> HIDE DEF e
  <2>3. exec' \in [Ids -> Executions] /\ exec'[i] = e /\ \A j \in Ids \ {i} : exec'[j] = exec[j]
    BY <1>0, <1>1, <2>1, <2>2, ExecWrite DEF ChatShape, ChatTypeOK
  <2>4. /\ stage' \in [Requests -> Stages] /\ stage'[r] = "run"
        /\ \A q \in Requests \ {r} : stage'[q] = stage[q]
    BY <2>1, StageWrite DEF Stages
  <2>5. ~Terminal(i)' /\ exec[i].status # "completed"
    BY <1>3, <2>1, <2>2, <2>3 DEF Terminal, TerminalStatuses
  <2>6. ChatTypeOK' /\ StandingShape'
    BY <1>0, <2>1, <2>3, <2>4
    DEF ChatShape, ChatTypeOK, StandingShape, Renewable, AttemptStages, AdmittedStages
  <2>7. ExecShape' /\ StartedShape'
    BY <1>0, <1>1, <2>1, <2>2, <2>3, <2>4, AttemptHasRecord
    DEF ChatShape, ExecShape, StartedShape, AttemptStages
  <2>8. LedgerAgrees' /\ DecisionShape'
    BY <1>0, <2>1, <2>2, <2>3, <2>4, <2>5
    DEF ChatShape, LedgerAgrees, DecisionShape, AdmittedStages
  <2>9. AccountShape'
    BY <1>0, <2>1, <2>2, <2>3 DEF ChatShape, ChatTypeOK, AccountShape
  <2>10. DurableShape'
    <3>1. \A a \in Requests : recordId[a] # 0 /\ Durable(a) => Durable(a)'
      BY <1>0, <2>1, <2>3, <2>5 DEF Durable, LedgerTypeOK, Ids
    <3> QED
      BY <1>0, <2>1, <3>1 DEF ChatShape, ChatTypeOK, LedgerTypeOK, DurableShape, Settled
  <2>11. HolderShape'
    <3> SUFFICES ASSUME NEW q \in Requests, stage'[q] \in AttemptStages, HoldsRecord(q, recordId[q])
                 PROVE  /\ ~Terminal(recordId[q])' /\ boundTo[q] = recordId[q]
                        /\ audit[q] = "open"
                        /\ <<recordId[q], exec'[recordId[q]].attempts>> \notin accounted
      BY <2>1 DEF HolderShape, HoldsRecord, Renewable
    <3>1. stage[q] \in AttemptStages
      BY <1>0, <2>4 DEF AttemptStages
    <3>2. recordId[q] \in Ids
      BY <3>1, AttemptHasRecord
    <3> QED
      BY <1>0, <2>1, <2>2, <2>3, <2>5, <3>1, <3>2 DEF ChatShape, HolderShape, Terminal
  <2>12. EndedIsAudited'
    BY <1>0, <2>1, <2>3, <2>5 DEF ChatShape, EndedIsAudited, Terminal, OpenDecisions, Exhausted
  <2> QED
    BY <2>6, <2>7, <2>8, <2>9, <2>10, <2>11, <2>12 DEF ChatShape
<1> QED
  BY <1>2, <1>3

\* _release_preflight_lease fails a record in progress and touches no execution.
LEMMA UnlockKeeps ==
  ASSUME ChatInv, NEW r \in Requests, Unlock(r)
  PROVE  ChatShape'
<1>0. ChatShape /\ LedgerTypeOK /\ TokenShape /\ row \in Rows /\ stage[r] = "unlock"
  BY DEF ChatInv, LedgerInv, LedgerTypeOK, Unlock
<1>1. /\ UNCHANGED <<lastId, recordId, reply, code, lost, exec, boundTo, audit, accounted, answer>>
      /\ stage' = [stage EXCEPT ![r] = "done"]
  BY DEF Unlock, callVars, Goto
<1>2. CASE UNCHANGED <<row, pc>>
  <2>1. QuietStep(r, "done")
    BY <1>0, <1>2
    DEF Unlock, callVars, ledgerVars, QuietStep, ChatShape, ChatTypeOK, Goto, AttemptStages,
        AdmittedStages
  <2> QED
    BY <2>1, QuietStepKeeps DEF Stages
<1>3. CASE ~UNCHANGED <<row, pc>>
  <2>1. /\ pc[r] = "owner" /\ row.token = r /\ row.status # "absent"
        /\ row' = CompletedRow(r, FALSE) /\ pc' = [pc EXCEPT ![r] = "failed"]
    BY <1>3 DEF Unlock, Completable
  <2>2. row.status = "processing"
    BY <1>0, <2>1 DEF TokenShape, Rows
  <2>3. row'.status = "failed" /\ row'.id = row.id
    BY <1>0, <2>1 DEF CompletedRow, Rows
  <2>4. pc'[r] = "failed" /\ \A q \in Requests \ {r} : pc'[q] = pc[q]
    BY <1>0, <2>1 DEF LedgerTypeOK
  <2>5. /\ stage' \in [Requests -> Stages] /\ stage'[r] = "done"
        /\ \A q \in Requests \ {r} : stage'[q] = stage[q]
    BY <1>1, StageWrite DEF Stages
  <2>6. ChatTypeOK' /\ StandingShape'
    BY <1>0, <1>1, <2>3, <2>4, <2>5
    DEF ChatShape, ChatTypeOK, StandingShape, Renewable, AttemptStages, AdmittedStages
  <2>7. ExecShape' /\ StartedShape' /\ LedgerAgrees' /\ AccountShape'
    BY <1>0, <1>1, <2>2, <2>3, <2>5
    DEF ChatShape, ExecShape, StartedShape, LedgerAgrees, AccountShape, AttemptStages
  <2>8. DurableShape'
    BY <1>0, <1>1, <2>1, <2>4
    DEF ChatShape, ChatTypeOK, LedgerTypeOK, DurableShape, Durable, Settled
  <2>9. DecisionShape' /\ HolderShape'
    BY <1>0, <1>1, <2>3, <2>5
    DEF ChatShape, DecisionShape, HolderShape, HoldsRecord, Renewable, AdmittedStages
  <2>10. EndedIsAudited'
    BY <1>0, <1>1 DEF ChatShape, EndedIsAudited, Terminal, OpenDecisions, Exhausted
  <2> QED
    BY <2>6, <2>7, <2>8, <2>9, <2>10 DEF ChatShape
<1> QED
  BY <1>2, <1>3

-----------------------------------------------------------------------------
LEMMA ChatInitOK == Init => ChatInv
<1> SUFFICES ASSUME Init PROVE ChatInv
  OBVIOUS
<1>1. LedgerInv
  BY LedgerInitOK DEF Init
<1>2. ChatTypeOK
  BY ConstantsAssumption
  DEF Init, ChatTypeOK, Stages, FailureCodes, Executions, NoExecution, AuditStatuses,
      TerminalStatuses
<1>3. ExecShape /\ LedgerAgrees /\ EndedIsAudited
  BY DEF Init, LedgerInit, ExecShape, LedgerAgrees, EndedIsAudited, Terminal, NoExecution,
         AbsentRow, TerminalStatuses, Ids
<1>4. StandingShape /\ StartedShape /\ DurableShape /\ DecisionShape /\ AccountShape /\ HolderShape
  BY DEF Init, LedgerInit, StandingShape, StartedShape, DurableShape, DecisionShape,
         AccountShape, HolderShape, AttemptStages, AdmittedStages
<1> QED
  BY <1>1, <1>2, <1>3, <1>4 DEF ChatInv, ChatShape

LEMMA ChatNextKeeps == ChatInv /\ [Next]_vars => ChatInv'
<1> SUFFICES ASSUME ChatInv, [Next]_vars
             PROVE  ChatInv'
  OBVIOUS
<1>1. LedgerInv'
  BY StepUsesLedger, LedgerNextKeeps DEF ChatInv
<1>2. ASSUME NEW r \in Requests, BudgetedStep(r) \/ UnbudgetedStep(r)
      PROVE  ChatShape'
  BY <1>2, QuietActions, LedgerStepKeeps, PersistNewKeeps, PersistRecoveredKeeps,
     ExhaustedKeeps, FinalizeKeeps, MarkStreamingKeeps, UnlockKeeps
  DEF BudgetedStep, UnbudgetedStep
<1>3. ASSUME NEW r \in Requests,
             Authorize(r) \/ RefuseAuthorization(r) \/ Heartbeat(r) \/ Disturbance(r)
      PROVE  ChatShape'
  BY <1>3, QuietActions, AuthorizeKeeps, HeartbeatKeeps
<1>4. ChatShape'
  BY <1>2, <1>3, CleanUpKeeps, TimeKeeps DEF Next, HandlerStep
<1> QED
  BY <1>1, <1>4 DEF ChatInv

\* The inductive invariant holds in every behaviour of the handler.
THEOREM ChatInvariance == Spec => []ChatInv
  BY ChatInitOK, ChatNextKeeps, PTL DEF Spec

\* Every variable of the handler stays in its type.
THEOREM ChatTypes == Spec => []ChatTypeOK
<1>1. ChatInv => ChatTypeOK
  BY DEF ChatInv, ChatShape
<1> QED
  BY <1>1, ChatInvariance, PTL

\* The handler is a user of the ledger: also where finalize and the recovery paths of
\* chat_persistence.py write idempotency_records themselves, they do what
\* complete_idempotency allows.
THEOREM HandlerUsesLedger == Spec => UsesLedger
<1>1. Init => LedgerInit
  BY DEF Init
<1> QED
  BY <1>1, StepUsesLedger, ChatInvariance, PTL DEF Spec, UsesLedger

\* So what the ledger guarantees holds while the handler runs: one request wins a
\* record, a replayed response was committed, a completed record
\* is never modified and one in progress changes hands only after its lease.
THEOREM HandlerKeepsLedger ==
  Spec => [](OneWinner /\ ReplayIsCommitted) /\ CompletedIsStable /\ TakeoverAfterExpiry
<1>1. Spec => LedgerSpec
  BY HandlerUsesLedger DEF UsesLedger, LedgerSpec
<1> QED
  BY <1>1, AtMostOneWinner, ReplaysAreCommitted, CompletedStays, TakeoversAreLate, PTL

\* The record and its execution are completed together, with the same response.
THEOREM RecordsAgree == Spec => []LedgerAgrees
<1>1. ChatInv => LedgerAgrees
  BY DEF ChatInv, ChatShape
<1> QED
  BY <1>1, ChatInvariance, PTL

\* A response a client received, first-hand or replayed, stays the stored content of
\* a completed execution.
THEOREM AnswersAreDurable == Spec => []AnswerIsDurable
<1>1. ChatInv => AnswerIsDurable
  BY DEF ChatInv, ChatShape, DurableShape, Durable, AnswerIsDurable
<1> QED
  BY <1>1, ChatInvariance, PTL

\* An execution that ended has no open governance decision, unless the retry limit
\* ended it.
THEOREM EndedExecutionsAreAudited == Spec => []EndedIsAudited
<1>1. ChatInv => EndedIsAudited
  BY DEF ChatInv, ChatShape
<1> QED
  BY <1>1, ChatInvariance, PTL

\* finalize never refuses an owner inside its lease.
THEOREM OwnersCanFinalize == Spec => []OwnerCanFinalize
<1>1. ASSUME ChatInv, NEW r \in Requests, stage[r] \in AttemptStages, Owns(r, recordId[r])
      PROVE  Finalizable(r, recordId[r], TRUE)
  <2>1. HoldsRecord(r, recordId[r])
    BY <1>1 DEF Owns, HoldsRecord, Renewable
  <2> QED
    BY <1>1, <2>1 DEF ChatInv, ChatShape, HolderShape, Finalizable, Fenced, OpenDecisions
<1>2. ChatInv => OwnerCanFinalize
  BY <1>1 DEF OwnerCanFinalize, AttemptStages
<1> QED
  BY <1>2, ChatInvariance, PTL

-----------------------------------------------------------------------------
(* What a step does to one execution.                                      *)

\* Nothing that its life cycle knows of.
SameLife(i) ==
  /\ exec'[i].status = exec[i].status /\ exec'[i].attempts = exec[i].attempts
  /\ exec'[i].limit = exec[i].limit /\ exec'[i].retryable = exec[i].retryable
  /\ exec'[i].content = exec[i].content

\* It writes execution i and no other.
Written(i, e) ==
  /\ e \in Executions /\ exec'[i] = e
  /\ \A j \in Ids \ {i} : exec'[j] = exec[j]

Running == {"prepared", "streaming"}

\* A request that stands before prepare_exchange has its decision bound to execution i.
Binds(i) == \E r \in Requests : stage[r] = "persist" /\ recordId[r] = i /\ BindDecision(r, i)

LifeStarts(i, e) ==
  /\ exec[i].status = "none" /\ e.status = "prepared"
  /\ e.attempts = 1 /\ e.limit \in AttemptLimits
  /\ Binds(i)

LifeResumes(i, e) ==
  /\ exec[i].status \in Running \/ (exec[i].status \in {"failed", "cancelled"} /\ exec[i].retryable)
  /\ exec[i].attempts < exec[i].limit
  /\ e.status = "prepared" /\ e.attempts = exec[i].attempts + 1 /\ e.limit = exec[i].limit
  /\ Binds(i)

LifeStreams(i, e) ==
  /\ exec[i].status \in Running /\ e.status = "streaming"
  /\ e.attempts = exec[i].attempts /\ e.limit = exec[i].limit
  /\ UNCHANGED boundTo

\* It ends, and if it completes then with the answer of one of its attempts.
LifeEnds(i, e) ==
  /\ exec[i].status \in Running /\ e.status \in TerminalStatuses
  /\ e.status = "completed" => \E r \in Requests : recordId[r] = i /\ Settled(r) /\ e.content = r
  /\ e.attempts = exec[i].attempts /\ e.limit = exec[i].limit
  /\ exec[i].attached => row.id = i /\ row.status = "processing" /\ ~LeaseExpired(clock)
  /\ UNCHANGED boundTo

LifeExhausts(i, e) ==
  /\ exec[i].status \in Running \cup {"failed", "cancelled"}
  /\ exec[i].attempts = exec[i].limit
  /\ e.status = "failed" /\ ~e.retryable
  /\ e.attempts = exec[i].attempts /\ e.limit = exec[i].limit
  /\ row.id = i /\ row.status = "processing" /\ ~LeaseExpired(clock)
  /\ UNCHANGED boundTo

LifeStep ==
  \/ UNCHANGED boundTo /\ \A i \in Ids : SameLife(i)
  \/ \E i \in Ids, e \in Executions :
       /\ Written(i, e)
       /\ \/ LifeStarts(i, e) \/ LifeResumes(i, e) \/ LifeStreams(i, e) \/ LifeEnds(i, e)
          \/ LifeExhausts(i, e)

\* Detaching an execution from its deleted record leaves its life as it was.
LEMMA DetachSame ==
  ASSUME ChatTypeOK, Detach
  PROVE  \A i \in Ids : SameLife(i)
<1>1. CASE exec' = exec
  BY <1>1 DEF SameLife
<1>2. CASE exec' = [exec EXCEPT ![row.id].attached = FALSE] /\ row.id \in Ids
  <2> DEFINE d == [exec[row.id] EXCEPT !.attached = FALSE]
  <2>1. exec' = [exec EXCEPT ![row.id] = d] /\ exec[row.id] \in Executions
    BY <1>2 DEF ChatTypeOK
  <2>2. /\ d.status = exec[row.id].status /\ d.attempts = exec[row.id].attempts
        /\ d.limit = exec[row.id].limit /\ d.retryable = exec[row.id].retryable
        /\ d.content = exec[row.id].content
    BY <2>1 DEF Executions
  <2> HIDE DEF d
  <2> QED
    BY <1>2, <2>1, <2>2 DEF ChatTypeOK, SameLife
<1> QED
  BY <1>1, <1>2 DEF Detach

LEMMA StepIsLifeStep == ChatInv /\ [Next]_vars => LifeStep
<1> SUFFICES ASSUME ChatInv, [Next]_vars
             PROVE  LifeStep
  OBVIOUS
<1>0. ChatShape /\ ChatTypeOK
  BY DEF ChatInv, ChatShape
<1>1. ASSUME UNCHANGED <<exec, boundTo>>
      PROVE  LifeStep
  BY <1>1 DEF LifeStep, SameLife
<1>2. ASSUME Detach, UNCHANGED boundTo
      PROVE  LifeStep
  BY <1>0, <1>2, DetachSame DEF LifeStep
<1>3. ASSUME NEW r \in Requests, PersistNew(r)
      PROVE  LifeStep
  <2> DEFINE i == recordId[r]
  <2>1. i \in Ids /\ exec[i].status = "none" /\ Binds(i)
    BY <1>3, AttemptHasRecord DEF PersistNew, Persisting, AdmittedStages, Binds
  <2>2. PICK limit \in AttemptLimits :
          exec' = [exec EXCEPT ![i] =
            [status |-> "prepared", attempts |-> 1, limit |-> limit, retryable |-> FALSE,
             attached |-> TRUE, assistant |-> "pending", content |-> Null]]
    BY <1>3 DEF PersistNew
  <2> DEFINE e == [status |-> "prepared", attempts |-> 1, limit |-> limit, retryable |-> FALSE,
                   attached |-> TRUE, assistant |-> "pending", content |-> Null]
  <2>3. e \in Executions /\ e.status = "prepared" /\ e.attempts = 1 /\ e.limit = limit
    BY ChatAssumption DEF Executions
  <2>4. exec' = [exec EXCEPT ![i] = e]
    BY <2>2
  <2> HIDE DEF e
  <2>5. Written(i, e) /\ LifeStarts(i, e)
    BY <1>0, <2>1, <2>3, <2>4, ExecWrite DEF ChatTypeOK, Written, LifeStarts
  <2> QED
    BY <2>1, <2>3, <2>5 DEF LifeStep
<1>4. ASSUME NEW r \in Requests, PersistRecovered(r)
      PROVE  LifeStep
  <2> DEFINE i == recordId[r]
             e == NextAttempt(i)
  <2>1. i \in Ids /\ exec[i] \in Executions /\ Binds(i)
    BY <1>0, <1>4, AttemptHasRecord
    DEF PersistRecovered, Persisting, AdmittedStages, ChatTypeOK, Binds
  <2>2. /\ e \in Executions /\ e.status = "prepared" /\ e.attempts = exec[i].attempts + 1
        /\ e.limit = exec[i].limit
    BY <2>1, NextAttemptFields
  <2>3. exec' = [exec EXCEPT ![i] = e]
    BY <1>4 DEF PersistRecovered
  <2> HIDE DEF e
  <2>4. LifeResumes(i, e)
    BY <1>4, <2>1, <2>2 DEF PersistRecovered, Resumable, Exhausted, LifeResumes, Running, Executions
  <2> QED
    BY <1>0, <2>1, <2>2, <2>3, <2>4, ExecWrite DEF LifeStep, Written, ChatTypeOK
<1>5. ASSUME NEW r \in Requests, MarkStreaming(r)
      PROVE  LifeStep
  <2> DEFINE i == recordId[r]
  <2>1. i \in Ids /\ exec[i] \in Executions /\ exec[i].status # "none"
    BY <1>0, <1>5, AttemptHasRecord
    DEF MarkStreaming, AttemptStages, ChatShape, ChatTypeOK, StartedShape
  <2>2. CASE Terminal(i)
    BY <1>1, <1>5, <2>2 DEF MarkStreaming
  <2>3. CASE ~Terminal(i)
    <3> DEFINE e == [exec[i] EXCEPT !.status = "streaming", !.assistant = "streaming"]
    <3>1. exec' = [exec EXCEPT ![i].status = "streaming", ![i].assistant = "streaming"]
      BY <1>5, <2>3 DEF MarkStreaming
    <3>2. exec' = [exec EXCEPT ![i] = e]
      BY <1>0, <2>1, <3>1 DEF ChatTypeOK
    <3>3. /\ e \in Executions /\ e.status = "streaming" /\ e.attempts = exec[i].attempts
          /\ e.limit = exec[i].limit
      BY <2>1, StreamingFields
    <3> HIDE DEF e
    <3>4. exec[i].status \in Running /\ UNCHANGED boundTo
      BY <1>5, <2>1, <2>3 DEF MarkStreaming, Executions, Terminal, Running
    <3> QED
      BY <1>0, <2>1, <3>2, <3>3, <3>4, ExecWrite DEF LifeStep, Written, LifeStreams, ChatTypeOK
  <2> QED
    BY <2>2, <2>3
<1>6. ASSUME NEW r \in Requests, stage[r] \in AttemptStages,
             NEW status \in TerminalStatuses, NEW retry \in BOOLEAN, NEW metered \in BOOLEAN,
             Finalizable(r, recordId[r], metered),
             CommitFinal(r, recordId[r], status, retry, metered)
      PROVE  LifeStep
  <2> DEFINE i == recordId[r]
             e == FinalExecution(r, i, status, retry)
  <2>1. i \in Ids /\ exec[i] \in Executions /\ exec[i].status # "none" /\ Settled(r)
    BY <1>0, <1>6, AttemptHasRecord DEF ChatShape, ChatTypeOK, StartedShape
  <2>2. /\ e \in Executions /\ e.status = status /\ (status = "completed" => e.content = r)
        /\ e.attempts = exec[i].attempts /\ e.limit = exec[i].limit
    BY <2>1, FinalFields
  <2>3. exec' = [exec EXCEPT ![i] = e]
    BY <1>6 DEF CommitFinal
  <2> HIDE DEF e
  <2>4. exec[i].status \in Running
    BY <1>6, <2>1 DEF Finalizable, Terminal, Running, Executions
  <2>5. LifeEnds(i, e)
    BY <1>6, <2>1, <2>2, <2>4 DEF CommitFinal, Finalizable, Fenced, Owns, LifeEnds
  <2> QED
    BY <1>0, <2>1, <2>2, <2>3, <2>5, ExecWrite DEF LifeStep, Written, ChatTypeOK
<1>7. ASSUME NEW r \in Requests, FinalizeCompleted(r)
      PROVE  LifeStep
  BY <1>6, <1>7 DEF FinalizeCompleted, AttemptStages, TerminalStatuses
<1>8. ASSUME NEW r \in Requests, NEW s \in AttemptStages, NEW m \in BOOLEAN,
             RecordFailure(r, s, m)
      PROVE  LifeStep
  <2>1. stage[r] \in AttemptStages /\ FailedStatus(code[r]) \in TerminalStatuses
        /\ Retryable(code[r]) \in BOOLEAN
    BY <1>8 DEF RecordFailure, FailedStatus, TerminalStatuses, Retryable
  <2> QED
    BY <1>1, <1>6, <1>8, <2>1 DEF RecordFailure
<1>9. ASSUME NEW r \in Requests, RecoveryExhausted(r) \/ PersistExhausted(r)
      PROVE  LifeStep
  <2> DEFINE i == recordId[r]
             e == ExhaustedExecution(i)
  <2>1. /\ Owns(r, i) /\ Exhausted(i) /\ exec' = [exec EXCEPT ![i] = e]
        /\ exec[i].status # "none" /\ UNCHANGED boundTo
    BY <1>9 DEF RecoveryExhausted, PersistExhausted
  <2>2. i \in Ids /\ row.id = i /\ row.status = "processing" /\ ~LeaseExpired(clock)
    BY <2>1, HolderIsOwner DEF Owns, Renewable
  <2>3. exec[i] \in Executions /\ exec[i].status \notin {"none", "completed"}
    BY <1>0, <2>1, <2>2 DEF ChatShape, ChatTypeOK, LedgerAgrees
  <2>4. exec[i].status \in Running \cup {"failed", "cancelled"}
    BY <2>3 DEF Executions, TerminalStatuses, Running
  <2>5. exec[i].attempts = exec[i].limit
    BY <1>0, <2>1, <2>2, <2>3 DEF ChatShape, ExecShape, Exhausted, Executions
  <2>6. /\ e \in Executions /\ e.status = "failed" /\ ~e.retryable
        /\ e.attempts = exec[i].attempts /\ e.limit = exec[i].limit
    BY <2>2, <2>3, ExhaustedFields
  <2> HIDE DEF e
  <2>7. Written(i, e) /\ LifeExhausts(i, e)
    BY <1>0, <2>1, <2>2, <2>4, <2>5, <2>6, ExecWrite DEF Written, LifeExhausts, ChatTypeOK
  <2> QED
    BY <2>2, <2>6, <2>7 DEF LifeStep
<1>10. ASSUME NEW r \in Requests, HandlerStep(r)
       PROVE  LifeStep
  <2>1. CASE \/ Replay(r) \/ RefusedByLedger(r) \/ RecoveryAllowed(r) \/ RecoveryRejected(r)
             \/ PersistRejected(r) \/ PrepareProvider(r) \/ LeaseLost(r)
             \/ CompletionRejected(r) \/ AuditPreflight(r) \/ Unlock(r) \/ BudgetedStep(r)
    BY <1>1, <2>1
    DEF Replay, RefusedByLedger, RecoveryAllowed, RecoveryRejected, PersistRejected,
        PrepareProvider, CompletionRejected, AuditPreflight, Unlock, BudgetedStep,
        ReserveBudget, ProviderAnswers, StreamAnswers, CompletionUnread, LeaseLost,
        ProviderFails, ReleaseBudget
  <2>2. CASE LedgerStep(r)
    BY <1>2, <2>2 DEF LedgerStep
  <2>3. CASE FinalizeFailure(r) \/ PreflightFinalize(r)
    BY <1>8, <2>3 DEF FinalizeFailure, PreflightFinalize, AttemptStages
  <2> QED
    BY <1>3, <1>4, <1>5, <1>7, <1>9, <1>10, <2>1, <2>2, <2>3 DEF HandlerStep, UnbudgetedStep
<1>11. ASSUME NEW r \in Requests,
              Authorize(r) \/ RefuseAuthorization(r) \/ Heartbeat(r) \/ Disturbance(r)
       PROVE  LifeStep
  BY <1>1, <1>11
  DEF Authorize, RefuseAuthorization, Heartbeat, Disturbance, CancelledInFinalize, DbFails,
      CrashRequest
<1>12. CASE CleanUpRecords
  BY <1>2, <1>12 DEF CleanUpRecords
<1>13. CASE Time \/ UNCHANGED vars
  BY <1>1, <1>13 DEF Time, vars, chatVars
<1> QED
  BY <1>10, <1>11, <1>12, <1>13 DEF Next

\* An execution that is attached to its record ends only while the record is in
\* progress under an unexpired lease.
THEOREM EndsOnlyUnderLease == Spec => EndsUnderLease
<1>1. ASSUME LifeStep, NEW i \in Ids, exec[i].attached, ~Terminal(i), Terminal(i)'
      PROVE  row.id = i /\ row.status = "processing" /\ ~LeaseExpired(clock)
  <2>1. CASE SameLife(i)
    BY <1>1, <2>1 DEF SameLife, Terminal
  <2>2. CASE \E e \in Executions :
               Written(i, e) /\ (LifeStarts(i, e) \/ LifeResumes(i, e) \/ LifeStreams(i, e)
                                 \/ LifeEnds(i, e) \/ LifeExhausts(i, e))
    BY <1>1, <2>2
    DEF Written, LifeStarts, LifeResumes, LifeStreams, LifeEnds, LifeExhausts, Terminal,
        TerminalStatuses
  <2>3. CASE exec'[i] = exec[i]
    BY <1>1, <2>3 DEF Terminal
  <2> QED
    BY <1>1, <2>1, <2>2, <2>3 DEF LifeStep, Written
<1>2. LifeStep => \A i \in Ids : exec[i].attached /\ ~Terminal(i) /\ Terminal(i)' =>
        row.id = i /\ row.status = "processing" /\ ~LeaseExpired(clock)
  BY <1>1
<1> QED
  BY <1>2, StepIsLifeStep, ChatInvariance, PTL DEF Spec, EndsUnderLease

-----------------------------------------------------------------------------
(* How often the provider is called.                                       *)

\* The ledger's answer to a request is final: the record it names stays.
LEMMA RecordFixed ==
  ASSUME ChatInv, [Next]_vars, NEW r \in Requests, Settled(r)
  PROVE  Settled(r)' /\ recordId'[r] = recordId[r]
<1>0. LedgerTypeOK
  BY DEF ChatInv, LedgerInv
<1>1. [LedgerNext]_ledgerVars
  BY StepUsesLedger
<1>2. ASSUME NEW q \in Requests, Begin(q) \/ BeginStep(q)
      PROVE  pc'[r] = pc[r] /\ recordId'[r] = recordId[r]
  <2>1. q # r
    BY <1>2
    DEF Settled, Begin, BeginStep, BeginInsert, BeginConflict, BeginVanished, BeginExpired,
        BeginReplay, BeginReopen, BeginReclaim, BeginRefused, Selected
  <2> QED
    BY <1>0, <1>2, <2>1
    DEF LedgerTypeOK, Begin, BeginStep, BeginInsert, BeginConflict, BeginVanished, BeginExpired,
        BeginReplay, BeginReopen, BeginReclaim, BeginRefused, Retry, callVars
<1>3. ASSUME NEW q \in Requests, ReadCached(q) \/ Renew(q) \/ Complete(q) \/ Crash(q)
      PROVE  /\ pc'[r] = pc[r] \/ pc'[r] \notin {"idle", "insert", "select"}
             /\ recordId'[r] = recordId[r]
  BY <1>0, <1>3 DEF LedgerTypeOK, ReadCached, Renew, Complete, Crash, callVars
<1>4. ASSUME Cleanup \/ Tick \/ UNCHANGED ledgerVars
      PROVE  pc'[r] = pc[r] /\ recordId'[r] = recordId[r]
  BY <1>4 DEF Cleanup, Tick, ledgerVars, callVars
<1> QED
  BY <1>1, <1>2, <1>3, <1>4 DEF LedgerNext, Settled

\* The stages at which a request may call the provider.
CallStages == {"provider", "stream", "run", "finalize"}

\* The attempts of an execution are the requests whose decisions were bound to it.
AttemptShape ==
  /\ \A i \in Ids : IsFiniteSet(Attempts(i)) /\ Cardinality(Attempts(i)) = exec[i].attempts
  /\ \A r \in Requests : stage[r] \in CallStages => boundTo[r] = recordId[r]

\* The way to the provider leads through prepare_exchange.
LEMMA CallEntered ==
  ASSUME ChatInv, [Next]_vars, NEW q \in Requests, stage'[q] \in CallStages
  PROVE  stage[q] \in CallStages \/ (stage[q] = "persist" /\ boundTo'[q] = recordId[q])
<1>0. stage \in [Requests -> Stages] /\ boundTo \in [Requests -> 0..MaxRecords]
  BY DEF ChatInv, ChatShape, ChatTypeOK
<1>1. ASSUME NEW r \in Requests, PersistNew(r) \/ PersistRecovered(r)
      PROVE  stage'[q] = stage[q] \/ (stage[q] = "persist" /\ boundTo'[q] = recordId[q])
  BY <1>0, <1>1
  DEF PersistNew, PersistRecovered, Persisting, CommittedOrUnknown, BindDecision, Goto
<1>2. ASSUME NEW r \in Requests,
             \/ PrepareProvider(r) \/ MarkStreaming(r) \/ BudgetedStep(r) \/ LeaseLost(r)
      PROVE  stage'[q] = stage[q] \/ stage[q] \in CallStages
  BY <1>0, <1>2
  DEF PrepareProvider, MarkStreaming, LeaseLost, BudgetedStep, ReserveBudget, ProviderAnswers,
      StreamAnswers, CompletionUnread, ProviderFails, ReleaseBudget, Goto, CallStages
<1>3. ASSUME NEW r \in Requests,
             \/ LedgerStep(r) \/ Replay(r) \/ RefusedByLedger(r) \/ RecoveryAllowed(r)
             \/ RecoveryRejected(r) \/ RecoveryExhausted(r) \/ PersistRejected(r)
             \/ PersistExhausted(r) \/ FinalizeCompleted(r) \/ CompletionRejected(r)
             \/ FinalizeFailure(r) \/ PreflightFinalize(r) \/ AuditPreflight(r) \/ Unlock(r)
      PROVE  stage'[q] = stage[q]
  BY <1>0, <1>3
  DEF LedgerStep, Replay, RefusedByLedger, RecoveryAllowed, RecoveryRejected,
      RecoveryExhausted, PersistRejected, PersistExhausted, FinalizeCompleted,
      CompletionRejected, FinalizeFailure, PreflightFinalize, RecordFailure, AuditPreflight,
      Unlock, Goto, CallStages
<1>4. ASSUME NEW r \in Requests,
             Authorize(r) \/ RefuseAuthorization(r) \/ Heartbeat(r) \/ Disturbance(r)
      PROVE  stage'[q] = stage[q]
  BY <1>0, <1>4
  DEF Authorize, RefuseAuthorization, Heartbeat, Disturbance, CancelledInFinalize, DbFails,
      AfterDbError, CrashRequest, Goto, CallStages
<1>5. CASE CleanUpRecords \/ Time \/ UNCHANGED vars
  BY <1>5 DEF CleanUpRecords, Time, vars, chatVars
<1> QED
  BY <1>1, <1>2, <1>3, <1>4, <1>5 DEF Next, HandlerStep, UnbudgetedStep

LEMMA AttemptShapeKeeps == ChatInv /\ AttemptShape /\ [Next]_vars => AttemptShape'
<1> SUFFICES ASSUME ChatInv, AttemptShape, [Next]_vars
             PROVE  AttemptShape'
  OBVIOUS
<1>0. ChatTypeOK /\ DecisionShape /\ ExecShape /\ \A i \in Ids : i # 0
  BY ConstantsAssumption DEF ChatInv, ChatShape, Ids
<1>1. ASSUME UNCHANGED boundTo, \A i \in Ids : exec'[i].attempts = exec[i].attempts
      PROVE  AttemptShape'
  <2>1. \A i \in Ids : Attempts(i)' = Attempts(i)
    BY <1>1 DEF Attempts
  <2>2. ASSUME NEW r \in Requests, stage'[r] \in CallStages
        PROVE  boundTo'[r] = recordId'[r]
    <3>1. stage[r] \in CallStages \/ (stage[r] = "persist" /\ boundTo'[r] = recordId[r])
      BY <2>2, CallEntered
    <3>2. recordId'[r] = recordId[r]
      BY <3>1, AttemptHasRecord, RecordFixed DEF CallStages, AttemptStages, AdmittedStages
    <3> QED
      BY <1>1, <3>1, <3>2 DEF AttemptShape
  <2> QED
    BY <1>1, <2>1, <2>2 DEF AttemptShape
<1>2. ASSUME NEW i \in Ids, Binds(i), exec'[i].attempts = exec[i].attempts + 1,
             \A j \in Ids \ {i} : exec'[j] = exec[j]
      PROVE  AttemptShape'
  <2>1. PICK r \in Requests : stage[r] = "persist" /\ recordId[r] = i /\ BindDecision(r, i)
    BY <1>2 DEF Binds
  <2>2. boundTo[r] = 0 /\ boundTo'[r] = i /\ \A q \in Requests \ {r} : boundTo'[q] = boundTo[q]
    BY <1>0, <2>1 DEF ChatTypeOK, DecisionShape, AdmittedStages, BindDecision
  <2>3. r \notin Attempts(i) /\ Attempts(i)' = Attempts(i) \cup {r}
    BY <1>0, <2>2 DEF Attempts
  <2>4. IsFiniteSet(Attempts(i)') /\ Cardinality(Attempts(i)') = exec'[i].attempts
    BY <1>2, <2>3, FS_AddElement DEF AttemptShape
  <2>5. \A j \in Ids \ {i} : Attempts(j)' = Attempts(j)
    BY <1>0, <2>2 DEF Attempts
  <2>6. ASSUME NEW q \in Requests, stage'[q] \in CallStages
        PROVE  boundTo'[q] = recordId'[q]
    <3>1. stage[q] \in CallStages \/ (stage[q] = "persist" /\ boundTo'[q] = recordId[q])
      BY <2>6, CallEntered
    <3>2. recordId'[q] = recordId[q]
      BY <3>1, AttemptHasRecord, RecordFixed DEF CallStages, AttemptStages, AdmittedStages
    <3> QED
      BY <2>1, <2>2, <3>1, <3>2 DEF AttemptShape, CallStages
  <2> QED
    BY <1>2, <2>4, <2>5, <2>6 DEF AttemptShape
<1>3. LifeStep
  BY StepIsLifeStep
<1>4. ASSUME NEW i \in Ids, NEW e \in Executions, Written(i, e),
             \/ LifeStarts(i, e) \/ LifeResumes(i, e) \/ LifeStreams(i, e) \/ LifeEnds(i, e)
             \/ LifeExhausts(i, e)
      PROVE  AttemptShape'
  <2>1. CASE LifeStarts(i, e)
    BY <1>0, <1>2, <1>4, <2>1 DEF LifeStarts, Written, ExecShape
  <2>2. CASE LifeResumes(i, e)
    BY <1>2, <1>4, <2>2 DEF LifeResumes, Written
  <2>3. CASE LifeStreams(i, e) \/ LifeEnds(i, e) \/ LifeExhausts(i, e)
    BY <1>1, <1>4, <2>3 DEF LifeStreams, LifeEnds, LifeExhausts, Written
  <2> QED
    BY <1>4, <2>1, <2>2, <2>3
<1> QED
  BY <1>1, <1>3, <1>4 DEF LifeStep, SameLife

\* However many requests repeat a key, take its record over or crash, at most as many
\* of them reach the provider for one execution as its stored limit allows, each of
\* them as a counted attempt.
THEOREM ProviderCallsAreBounded == Spec => []AttemptsAreBounded
<1>1. Init => AttemptShape
  <2> SUFFICES ASSUME Init PROVE AttemptShape
    OBVIOUS
  <2>1. \A i \in Ids : Attempts(i) = {} /\ exec[i].attempts = 0
    BY DEF Init, Attempts, NoExecution, Ids
  <2>2. \A r \in Requests : stage[r] \notin CallStages
    BY DEF Init, CallStages
  <2> QED
    BY <2>1, <2>2, FS_EmptySet DEF AttemptShape
<1>2. ChatInv /\ AttemptShape => AttemptsAreBounded
  BY DEF ChatInv, ChatShape, ChatTypeOK, ExecShape, Executions, AttemptShape, AttemptsAreBounded,
         CallStages
<1> QED
  BY <1>1, <1>2, AttemptShapeKeeps, ChatInvariance, PTL DEF Spec

-----------------------------------------------------------------------------
(* The executions implement the life cycle.                                *)

\* The refinement mapping.
mappedPhase == [i \in Ids |-> Phase(exec[i])]
mappedTried == [i \in Ids |-> exec[i].attempts]
mappedLimit == [i \in Ids |-> exec[i].limit]

\* A step that writes execution i changes the mapped state at i only.
LEMMA MappedWrite ==
  ASSUME NEW i \in Ids, NEW e, Written(i, e)
  PROVE  /\ mappedPhase' = [mappedPhase EXCEPT ![i] = Phase(e)]
         /\ mappedTried' = [mappedTried EXCEPT ![i] = e.attempts]
         /\ mappedLimit' = [mappedLimit EXCEPT ![i] = e.limit]
<1>1. exec'[i] = e /\ \A j \in Ids \ {i} : exec'[j] = exec[j]
  BY DEF Written
<1>2. \A j \in Ids : Phase(exec[j])' = IF j = i THEN Phase(e) ELSE Phase(exec[j])
  BY <1>1 DEF Phase
<1> QED
  BY <1>1, <1>2 DEF mappedPhase, mappedTried, mappedLimit

\* Each kind of life step is the step of the abstract specification named for it;
\* going on to stream, and exhausting what is dead already, are stutters.
LEMMA LifeStepRefines ==
  ASSUME ChatTypeOK, LifeStep
  PROVE  [Lifecycle!LifeNext]_<<mappedPhase, mappedTried, mappedLimit>>
<1>1. CASE \A i \in Ids : SameLife(i)
  <2>1. \A i \in Ids : Phase(exec[i])' = Phase(exec[i])
    BY <1>1 DEF SameLife, Phase
  <2> QED
    BY <1>1, <2>1 DEF SameLife, mappedPhase, mappedTried, mappedLimit
<1>2. ASSUME NEW i \in Ids, NEW e \in Executions, Written(i, e),
             \/ LifeStarts(i, e) \/ LifeResumes(i, e) \/ LifeStreams(i, e) \/ LifeEnds(i, e)
             \/ LifeExhausts(i, e)
      PROVE  Lifecycle!LifeNext \/ UNCHANGED <<mappedPhase, mappedTried, mappedLimit>>
  <2>1. /\ mappedPhase' = [mappedPhase EXCEPT ![i] = Phase(e)]
        /\ mappedTried' = [mappedTried EXCEPT ![i] = e.attempts]
        /\ mappedLimit' = [mappedLimit EXCEPT ![i] = e.limit]
    BY <1>2, MappedWrite
  <2>2. /\ mappedPhase[i] = Phase(exec[i]) /\ mappedTried[i] = exec[i].attempts
        /\ mappedLimit[i] = exec[i].limit
    BY DEF mappedPhase, mappedTried, mappedLimit
  <2>3. /\ e.attempts = exec[i].attempts => UNCHANGED mappedTried
        /\ e.limit = exec[i].limit => UNCHANGED mappedLimit
        /\ Phase(e) = Phase(exec[i]) => UNCHANGED mappedPhase
    BY <2>1, <2>2 DEF mappedPhase, mappedTried, mappedLimit
  <2>4. CASE LifeStarts(i, e)
    <3>1. Phase(exec[i]) = "absent" /\ Phase(e) = "active" /\ e.attempts = 1 /\ e.limit \in AttemptLimits
      BY <2>4 DEF LifeStarts, Phase
    <3>2. Lifecycle!Start(i)
      BY <2>1, <2>2, <3>1 DEF Lifecycle!Start, mappedPhase, mappedTried, mappedLimit
    <3> QED
      BY <3>2 DEF Lifecycle!LifeNext
  <2>5. CASE LifeResumes(i, e)
    <3>1. /\ Phase(exec[i]) \in {"active", "resumable"} /\ Phase(e) = "active"
          /\ exec[i].attempts < exec[i].limit /\ e.attempts = exec[i].attempts + 1
          /\ e.limit = exec[i].limit
      BY <2>5 DEF LifeResumes, Phase, Running
    <3>2. Lifecycle!Resume(i)
      BY <2>1, <2>2, <2>3, <3>1 DEF Lifecycle!Resume, mappedPhase, mappedTried, mappedLimit
    <3> QED
      BY <3>2 DEF Lifecycle!LifeNext
  <2>6. CASE LifeStreams(i, e)
    <3>1. Phase(e) = Phase(exec[i])
      BY <2>6 DEF LifeStreams, Phase, Running
    <3> QED
      BY <2>3, <2>6, <3>1 DEF LifeStreams
  <2>7. CASE LifeEnds(i, e)
    <3>1. Phase(exec[i]) = "active" /\ Phase(e) \in {"resumable", "completed", "dead"}
      BY <2>7 DEF LifeEnds, Phase, Running, TerminalStatuses
    <3>2. Lifecycle!End(i)
      BY <2>1, <2>2, <2>3, <2>7, <3>1
      DEF LifeEnds, Lifecycle!End, mappedPhase, mappedTried, mappedLimit
    <3> QED
      BY <3>2 DEF Lifecycle!LifeNext
  <2>8. CASE LifeExhausts(i, e)
    <3>1. /\ Phase(exec[i]) \in {"active", "resumable", "dead"} /\ Phase(e) = "dead"
          /\ exec[i].attempts = exec[i].limit
      BY <2>8 DEF LifeExhausts, Phase, Running
    <3>2. CASE Phase(exec[i]) = "dead"
      BY <2>3, <2>8, <3>1, <3>2 DEF LifeExhausts
    <3>3. CASE Phase(exec[i]) # "dead"
      <4>1. Lifecycle!Exhaust(i)
        BY <2>1, <2>2, <2>3, <2>8, <3>1, <3>3
        DEF LifeExhausts, Lifecycle!Exhaust, mappedPhase, mappedTried, mappedLimit
      <4> QED
        BY <4>1 DEF Lifecycle!LifeNext
    <3> QED
      BY <3>2, <3>3
  <2> QED
    BY <1>2, <2>4, <2>5, <2>6, <2>7, <2>8
<1> QED
  BY <1>1, <1>2 DEF LifeStep

\* The persistence contract: an execution starts once, runs at most its stored limit
\* of attempts one after another, ends, and a completed or finally failed one never
\* changes again, whatever crashes, takeovers and deletions happen.
THEOREM HandlerImplementsLifecycle == Spec => ImplementsLifecycle
<1>1. Init => Lifecycle!LifeInit
  BY DEF Init, Lifecycle!LifeInit, NoExecution, Phase
<1>2. ChatInv /\ [Next]_vars => [Lifecycle!LifeNext]_(Lifecycle!lifeVars)
  <2>1. ChatInv => ChatTypeOK
    BY DEF ChatInv, ChatShape
  <2> QED
    BY <2>1, StepIsLifeStep, LifeStepRefines
    DEF Lifecycle!lifeVars, mappedPhase, mappedTried, mappedLimit
<1> QED
  BY <1>1, <1>2, ChatInvariance, PTL DEF Spec, ImplementsLifecycle, Lifecycle!LifeSpec

-----------------------------------------------------------------------------
(* The token budget                                                        *)

\* The inductive invariant.
BudgetInv == BudgetTypeOK /\ CountersExpire /\ CountersOutliveMarkers

\* The estimate of CostEstimator.estimate is a natural number.
LEMMA AmountIsNat ==
  ASSUME NEW x \in Reservations
  PROVE  Amount(x) \in Nat
<1>1. PromptLength[x] \in Nat /\ InputCharsPerToken \in Nat \ {0} /\ OutputTokens \in Nat
  BY BudgetAssumption
<1>2. (PromptLength[x] + InputCharsPerToken - 1) \in Nat
  BY <1>1
<1>3. ((PromptLength[x] + InputCharsPerToken - 1) \div InputCharsPerToken) \in Nat
  BY <1>1, <1>2
<1> QED
  BY <1>1, <1>3 DEF Amount, PrimaryTokens

\* Both counters of a reservation are counters of the organization.
LEMMA ChargedCounters ==
  ASSUME NEW x \in Reservations
  PROVE  Charged(x) \subseteq Counters
  BY BudgetAssumption DEF Charged, Counters

LEMMA BudgetInitOK == BudgetInit => BudgetInv
  BY BudgetAssumption, ChargedCounters
  DEF BudgetInit, BudgetInv, BudgetTypeOK, CountersExpire, CountersOutliveMarkers,
      Forever, NotSettled, Standings

\* reserve_tenant gives marker and counters the same, longest, time to live.
LEMMA ReserveNewKeeps ==
  ASSUME BudgetInv, NEW c \in Callers, NEW x \in Reservations, ReserveNew(c, x)
  PROVE  BudgetInv'
<1>1. Amount(x) \in Nat /\ TtlSeconds \in Nat \ {0}
  BY AmountIsNat, BudgetAssumption
<1>2. BudgetTypeOK'
  BY <1>1 DEF BudgetInv, BudgetTypeOK, ReserveNew, Reserved, Standings
<1>3. CountersExpire'
  BY <1>1 DEF BudgetInv, BudgetTypeOK, CountersExpire, ReserveNew, Forever
<1>4. CountersOutliveMarkers'
  <2> SUFFICES ASSUME NEW y \in Reservations, NEW k \in Charged(y)
               PROVE  marker'[y] <= ttl'[k]
    BY DEF CountersOutliveMarkers
  <2>1. k \in Counters
    BY ChargedCounters
  <2>2. marker[y] \in 0..TtlSeconds /\ ttl[k] \in 0..TtlSeconds /\ marker[y] <= ttl[k]
    BY <2>1 DEF BudgetInv, BudgetTypeOK, CountersExpire, CountersOutliveMarkers
  <2> QED
    BY <1>1, <2>1, <2>2 DEF BudgetInv, BudgetTypeOK, ReserveNew
<1> QED
  BY <1>2, <1>3, <1>4 DEF BudgetInv

\* While the marker of x exists its counters exist, so they keep their times.
LEMMA TtlKept ==
  ASSUME BudgetInv, NEW x \in Reservations, marker[x] # 0
  PROVE  KeptTtl(Charged(x)) = ttl
<1>1. \A k \in Charged(x) : ttl[k] # 0
  BY ChargedCounters, BudgetAssumption
  DEF BudgetInv, BudgetTypeOK, CountersExpire, CountersOutliveMarkers, Forever
<1> QED
  BY <1>1 DEF KeptTtl, BudgetInv, BudgetTypeOK

\* release_tenant deletes the marker and leaves every time to live alone.
LEMMA ReleaseKeeps ==
  ASSUME BudgetInv, NEW c \in Callers, NEW x \in Reservations, Release(c, x)
  PROVE  BudgetInv'
<1>1. ttl' = ttl
  BY TtlKept DEF Release
<1>2. Amount(x) \in Nat
  BY AmountIsNat
<1>3. count' \in [Counters -> Int]
  BY <1>2 DEF BudgetInv, BudgetTypeOK, Release, Refunded
<1>4. /\ marker' \in [Reservations -> 0..TtlSeconds]
      /\ \A y \in Reservations : marker'[y] = marker[y] \/ marker'[y] = 0
  BY BudgetAssumption DEF BudgetInv, BudgetTypeOK, Release
<1>5. BudgetTypeOK'
  BY <1>1, <1>3, <1>4 DEF BudgetInv, BudgetTypeOK, Release, Over, Standings
<1>6. CountersExpire'
  BY <1>1 DEF BudgetInv, CountersExpire
<1>7. CountersOutliveMarkers'
  <2> SUFFICES ASSUME NEW y \in Reservations, NEW k \in Charged(y)
               PROVE  marker'[y] <= ttl[k]
    BY <1>1 DEF CountersOutliveMarkers
  <2>1. ttl[k] \in 0..TtlSeconds /\ marker[y] <= ttl[k]
    BY ChargedCounters DEF BudgetInv, BudgetTypeOK, CountersExpire, CountersOutliveMarkers
  <2> QED
    BY <1>4, <2>1, BudgetAssumption
<1> QED
  BY <1>5, <1>6, <1>7 DEF BudgetInv

\* settle_tenant writes both counters and leaves every time to live alone.
LEMMA SettleFirstKeeps ==
  ASSUME BudgetInv, NEW c \in Callers, NEW x \in Reservations, NEW actual \in Usages,
         SettleFirst(c, x, actual)
  PROVE  BudgetInv'
<1>1. ttl' = ttl /\ marker' = marker
  BY TtlKept DEF SettleFirst
<1>2. Amount(x) \in Nat /\ actual \in Nat
  BY AmountIsNat, BudgetAssumption
<1>3. count' \in [Counters -> Int]
  BY <1>2 DEF BudgetInv, BudgetTypeOK, SettleFirst
<1>4. settled' \in [Reservations -> [value: Usages \cup {-1}, ttl: 0..TtlSeconds]]
  BY DEF BudgetInv, BudgetTypeOK, SettleFirst
<1> QED
  BY <1>1, <1>3, <1>4
  DEF BudgetInv, BudgetTypeOK, CountersExpire, CountersOutliveMarkers, SettleFirst, Over,
      Standings

\* Refusals and replays change no key.
LEMMA CallerOnlyKeeps ==
  ASSUME BudgetInv, NEW c \in Callers, NEW x \in Reservations, NEW actual,
         \/ ReserveReplayed(c, x) \/ ReserveRefused(c, x)
         \/ SettleReplayed(c, x, actual) \/ SettleRefused(c, x, actual)
  PROVE  BudgetInv'
  BY DEF BudgetInv, BudgetTypeOK, CountersExpire, CountersOutliveMarkers, ReserveReplayed,
         ReserveRefused, SettleReplayed, SettleRefused, Reserved, Over, Standings

\* Every time to live decreases by one; a marker is gone no later than its counters.
LEMMA ElapseKeeps ==
  ASSUME BudgetInv, Elapse
  PROVE  BudgetInv'
<1> USE BudgetAssumption
<1>1. \A k \in Counters : /\ ttl[k] \in 0..TtlSeconds
                          /\ ttl'[k] = IF ttl[k] > 0 THEN ttl[k] - 1 ELSE 0
  BY DEF BudgetInv, BudgetTypeOK, CountersExpire, Elapse, Older
<1>2. \A x \in Reservations : /\ marker[x] \in 0..TtlSeconds
                              /\ marker'[x] = IF marker[x] > 0 THEN marker[x] - 1 ELSE 0
  BY DEF BudgetInv, BudgetTypeOK, Elapse, Older
<1>3. settled' \in [Reservations -> [value: Usages \cup {-1}, ttl: 0..TtlSeconds]]
  <2> DEFINE S == [value: Usages \cup {-1}, ttl: 0..TtlSeconds]
  <2>1. NotSettled \in S
    BY DEF NotSettled
  <2>2. ASSUME NEW e \in S, e.ttl > 1
        PROVE  [e EXCEPT !.ttl = @ - 1] \in S
    BY <2>2
  <2>3. \A x \in Reservations : settled[x] \in S
    BY DEF BudgetInv, BudgetTypeOK
  <2> HIDE DEF S
  <2>4. settled' = [x \in Reservations |->
          IF settled[x].ttl > 1 THEN [settled[x] EXCEPT !.ttl = @ - 1] ELSE NotSettled]
    BY DEF Elapse
  <2>5. \A x \in Reservations :
          (IF settled[x].ttl > 1 THEN [settled[x] EXCEPT !.ttl = @ - 1] ELSE NotSettled) \in S
    BY <2>1, <2>2, <2>3
  <2> QED
    BY <2>4, <2>5 DEF S
<1>4. count' \in [Counters -> Int]
  BY DEF BudgetInv, BudgetTypeOK, Elapse
<1>5. /\ ttl' \in [Counters -> 0..TtlSeconds]
      /\ marker' \in [Reservations -> 0..TtlSeconds]
  BY <1>1, <1>2 DEF Elapse
<1>6. BudgetTypeOK' /\ CountersExpire'
  BY <1>3, <1>4, <1>5 DEF BudgetInv, BudgetTypeOK, CountersExpire, Elapse, Forever
<1>7. CountersOutliveMarkers'
  <2> SUFFICES ASSUME NEW x \in Reservations, NEW k \in Charged(x)
               PROVE  marker'[x] <= ttl'[k]
    BY DEF CountersOutliveMarkers
  <2>1. k \in Counters /\ marker[x] <= ttl[k]
    BY ChargedCounters DEF BudgetInv, CountersOutliveMarkers
  <2> QED
    BY <1>1, <1>2, <2>1
<1> QED
  BY <1>6, <1>7 DEF BudgetInv

LEMMA BudgetNextKeeps == BudgetInv /\ [BudgetNext]_budgetVars => BudgetInv'
<1> SUFFICES ASSUME BudgetInv, [BudgetNext]_budgetVars
             PROVE  BudgetInv'
  OBVIOUS
<1>1. CASE UNCHANGED budgetVars
  BY <1>1 DEF budgetVars, BudgetInv, BudgetTypeOK, CountersExpire, CountersOutliveMarkers
<1>2. CASE BudgetNext
  BY <1>2, ReserveNewKeeps, ReleaseKeeps, SettleFirstKeeps, CallerOnlyKeeps, ElapseKeeps
  DEF BudgetNext, CallsBudget
<1> QED
  BY <1>1, <1>2

\* The inductive invariant holds in every behaviour of the budget.
THEOREM BudgetInvariance == BudgetSpec => []BudgetInv
  BY BudgetInitOK, BudgetNextKeeps, PTL DEF BudgetSpec

\* The keys hold integers and times to live of the kinds the scripts expect.
THEOREM BudgetTypes == BudgetSpec => []BudgetTypeOK
<1>1. BudgetInv => BudgetTypeOK
  BY DEF BudgetInv
<1> QED
  BY <1>1, BudgetInvariance, PTL

\* No counter key ever loses its time to live, whatever attempts share an
\* execution and in whichever order they reserve, release and settle.
THEOREM NoImmortalCounter == BudgetSpec => []CountersExpire
<1>1. BudgetInv => CountersExpire
  BY DEF BudgetInv
<1> QED
  BY <1>1, BudgetInvariance, PTL

\* A counter outlives every reservation charged to it.
THEOREM MarkersAreCovered == BudgetSpec => []CountersOutliveMarkers
<1>1. BudgetInv => CountersOutliveMarkers
  BY DEF BudgetInv
<1> QED
  BY <1>1, BudgetInvariance, PTL

-----------------------------------------------------------------------------
(* The chat handler with the budget.                                       *)

\* The content of a completed execution is the answer of one of its attempts.
ContentShape ==
  \A i \in Ids : exec[i].status = "completed" =>
    /\ exec[i].content \in Requests
    /\ recordId[exec[i].content] = i
    /\ Settled(exec[i].content)

LEMMA ContentKept ==
  ASSUME ChatInv, ContentShape, [Next]_vars
  PROVE  ContentShape'
<1>1. LifeStep
  BY StepIsLifeStep
<1>2. \A r \in Requests : Settled(r) => Settled(r)' /\ recordId'[r] = recordId[r]
  BY RecordFixed
<1> SUFFICES ASSUME NEW i \in Ids, exec'[i].status = "completed"
             PROVE  \E r \in Requests :
                      exec'[i].content = r /\ recordId'[r] = i /\ Settled(r)'
  BY DEF ContentShape
<1>3. CASE SameLife(i) \/ exec'[i] = exec[i]
  BY <1>2, <1>3 DEF SameLife, ContentShape
<1>4. ASSUME NEW e \in Executions, Written(i, e),
             \/ LifeStarts(i, e) \/ LifeResumes(i, e) \/ LifeStreams(i, e) \/ LifeEnds(i, e)
             \/ LifeExhausts(i, e)
      PROVE  \E r \in Requests : exec'[i].content = r /\ recordId'[r] = i /\ Settled(r)'
  <2>1. exec'[i] = e /\ e.status = "completed"
    BY <1>4 DEF Written
  <2>2. LifeEnds(i, e)
    BY <1>4, <2>1 DEF LifeStarts, LifeResumes, LifeStreams, LifeExhausts
  <2>3. PICK r \in Requests : recordId[r] = i /\ Settled(r) /\ e.content = r
    BY <2>1, <2>2 DEF LifeEnds
  <2> QED
    BY <1>2, <2>1, <2>3
<1> QED
  BY <1>1, <1>3, <1>4 DEF LifeStep, Written

\* A usage counts as reported only while the execution's settlement key holds it.
MeterShape ==
  /\ reported \in [Requests -> Usages \cup {NotReported}]
  /\ overRefunded \in BOOLEAN
  /\ \A r \in Requests : reported[r] # NotReported =>
       /\ Settled(r)
       /\ recordId[r] \in Ids
       /\ settled[recordId[r]].ttl # 0
       /\ settled[recordId[r]].value = reported[r]

\* The inductive invariant of the composition.
CBInv == ChatInv /\ BudgetInv /\ ContentShape /\ MeterShape

\* Whatever the budget does, the handler takes one of its own steps or none.
LEMMA StepIsHandlerStep == [CBNext]_cbVars => [Next]_vars
<1>1. CBNext => Next \/ UNCHANGED vars
  BY DEF CBNext, ReserveTokens, ReleaseTokens, AnswerSettled, AnswerFailed, Unmetered, OtherUser,
         TimeAndKeys, Next, HandlerStep, BudgetedStep
<1> QED
  BY <1>1 DEF cbVars

\* A request that is about to reserve, or waits for its provider, knows its record.
LEMMA BudgetedHasRecord ==
  ASSUME ChatInv, NEW r \in Requests, ReserveBudget(r) \/ stage[r] = "run"
  PROVE  r \in Callers /\ recordId[r] \in Ids /\ recordId[r] \in Reservations /\ Settled(r)
<1>1. recordId[r] \in Ids /\ Settled(r)
  <2>1. CASE stage[r] \in AttemptStages \cup AdmittedStages
    BY <2>1, AttemptHasRecord
  <2>2. CASE pc[r] \in {"owner", "uncached"}
    BY <2>2, ConstantsAssumption
    DEF ChatInv, ChatShape, LedgerInv, LedgerTypeOK, StandingShape, Ids, Settled
  <2> QED
    BY <2>1, <2>2 DEF ReserveBudget, AttemptStages, AdmittedStages
<1> QED
  BY <1>1, SharedAssumption

\* A script that settles nothing new leaves every settlement as it is.
LEMMA MeterQuiet ==
  ASSUME CBInv, [Next]_vars, UNCHANGED <<settled, reported>>, overRefunded' \in BOOLEAN
  PROVE  MeterShape'
<1>1. \A r \in Requests : Settled(r) => Settled(r)' /\ recordId'[r] = recordId[r]
  BY RecordFixed DEF CBInv
<1> QED
  BY <1>1 DEF CBInv, MeterShape, NotReported

\* reserve_budget.
LEMMA ReserveTokensKeeps ==
  ASSUME CBInv, NEW r \in Requests, ReserveTokens(r)
  PROVE  BudgetInv' /\ UNCHANGED settled
<1>1. r \in Callers /\ recordId[r] \in Reservations
  BY BudgetedHasRecord DEF ReserveTokens, CBInv
<1>2. BudgetInv'
  BY <1>1, ReserveNewKeeps, CallerOnlyKeeps DEF ReserveTokens, CBInv
<1>3. UNCHANGED settled
  BY DEF ReserveTokens, ReserveNew, ReserveReplayed, ReserveRefused
<1> QED
  BY <1>2, <1>3

LEMMA UnchangedKeepsBudget ==
  ASSUME BudgetInv, UNCHANGED budgetVars
  PROVE  BudgetInv'
  BY BudgetNextKeeps

\* release_tenant names the record the reservation was made for.
LEMMA ReleaseTokensKeeps ==
  ASSUME CBInv, NEW r \in Requests, ReleaseTokens(r)
  PROVE  BudgetInv' /\ UNCHANGED settled /\ overRefunded' \in BOOLEAN
<1>1. CASE Release(r, recordId[r]) /\ overRefunded' \in BOOLEAN
  <2>1. r \in Callers /\ recordId[r] \in Reservations
    BY <1>1, SharedAssumption DEF Release, Holds, CBInv, BudgetInv, BudgetTypeOK
  <2> QED
    BY <1>1, <2>1, ReleaseKeeps DEF CBInv, Release
<1>2. CASE UNCHANGED <<budgetVars, overRefunded>>
  BY <1>2, UnchangedKeepsBudget DEF CBInv, MeterShape, budgetVars
<1> QED
  BY <1>1, <1>2 DEF ReleaseTokens

\* What settle_tenant leaves in the settlement key of x.
LEMMA SettledAt ==
  ASSUME BudgetInv, NEW c \in Callers, NEW x \in Reservations, NEW actual \in Usages,
         SettleFirst(c, x, actual) \/ SettleReplayed(c, x, actual)
  PROVE  /\ settled'[x].ttl # 0 /\ settled'[x].value = actual
         /\ \A y \in Reservations : settled[y].ttl # 0 => settled'[y] = settled[y]
<1>1. CASE SettleFirst(c, x, actual)
  <2>1. marker[x] # 0 /\ settled[x].ttl = 0
    BY <1>1 DEF SettleFirst
  <2>2. settled' = [settled EXCEPT ![x] = [value |-> actual, ttl |-> marker[x]]]
    BY <1>1 DEF SettleFirst
  <2> QED
    BY <2>1, <2>2 DEF BudgetInv, BudgetTypeOK
<1>2. CASE SettleReplayed(c, x, actual)
  BY <1>2 DEF SettleReplayed
<1> QED
  BY <1>1, <1>2

LEMMA AnswerSettledKeeps ==
  ASSUME CBInv, NEW r \in Requests, AnswerSettled(r), [Next]_vars
  PROVE  BudgetInv' /\ MeterShape'
<1>0. BudgetInv /\ MeterShape /\ overRefunded' \in BOOLEAN
  BY DEF CBInv, AnswerSettled, MeterShape
<1>1. r \in Callers /\ recordId[r] \in Ids /\ recordId[r] \in Reservations /\ Settled(r)
  BY BudgetedHasRecord DEF AnswerSettled, ProviderAnswers, StreamAnswers, CompletionUnread, CBInv
<1>2. \A q \in Requests : Settled(q) => Settled(q)' /\ recordId'[q] = recordId[q]
  BY RecordFixed DEF CBInv
<1>3. ASSUME NEW actual \in Usages,
             SettleFirst(r, recordId[r], actual) \/ SettleReplayed(r, recordId[r], actual),
             reported' = [reported EXCEPT ![r] = actual]
      PROVE  BudgetInv' /\ MeterShape'
  <2>1. BudgetInv'
    BY <1>0, <1>1, <1>3, SettleFirstKeeps, CallerOnlyKeeps
  <2>2. /\ settled'[recordId[r]].ttl # 0 /\ settled'[recordId[r]].value = actual
        /\ \A y \in Reservations : settled[y].ttl # 0 => settled'[y] = settled[y]
    BY <1>0, <1>1, <1>3, SettledAt
  <2>3. reported' \in [Requests -> Usages \cup {NotReported}]
    BY <1>0, <1>3 DEF MeterShape
  <2>4. ASSUME NEW q \in Requests, reported'[q] # NotReported
        PROVE  /\ Settled(q)' /\ recordId'[q] \in Ids
               /\ settled'[recordId'[q]].ttl # 0
               /\ settled'[recordId'[q]].value = reported'[q]
    <3>1. CASE q = r
      BY <1>0, <1>1, <1>2, <1>3, <2>2, <3>1 DEF MeterShape
    <3>2. CASE q # r
      BY <1>0, <1>2, <1>3, <2>2, <2>4, <3>2, SharedAssumption DEF MeterShape
    <3> QED
      BY <3>1, <3>2
  <2>5. MeterShape'
    BY <1>0, <2>3, <2>4 DEF MeterShape, NotReported
  <2> QED
    BY <2>1, <2>5
<1>4. CASE UNCHANGED <<budgetVars, reported>>
  BY <1>0, <1>4, UnchangedKeepsBudget, MeterQuiet DEF budgetVars
<1> QED
  BY <1>3, <1>4 DEF AnswerSettled

LEMMA AnswerFailedKeeps ==
  ASSUME CBInv, NEW r \in Requests, AnswerFailed(r), [Next]_vars
  PROVE  BudgetInv' /\ MeterShape'
<1>0. BudgetInv /\ MeterShape /\ UNCHANGED <<reported, overRefunded>>
  BY DEF CBInv, AnswerFailed, meterVars
<1>1. r \in Callers /\ recordId[r] \in Reservations
  BY BudgetedHasRecord DEF AnswerFailed, ProviderFails, CBInv
<1>2. \A q \in Requests : Settled(q) => Settled(q)' /\ recordId'[q] = recordId[q]
  BY RecordFixed DEF CBInv
<1>3. BudgetInv' /\ \A y \in Reservations : settled[y].ttl # 0 => settled'[y] = settled[y]
  <2>1. ASSUME NEW actual \in Usages, SettleFirst(r, recordId[r], actual)
        PROVE  BudgetInv' /\ \A y \in Reservations : settled[y].ttl # 0 => settled'[y] = settled[y]
    BY <1>0, <1>1, <2>1, SettleFirstKeeps, SettledAt
  <2>2. ASSUME NEW actual \in Usages, SettleRefused(r, recordId[r], actual)
        PROVE  BudgetInv' /\ settled' = settled
    <3>1. BudgetInv'
      BY <1>0, <1>1, <2>2, CallerOnlyKeeps
    <3> QED
      BY <2>2, <3>1 DEF SettleRefused
  <2>3. CASE UNCHANGED budgetVars
    BY <1>0, <2>3, UnchangedKeepsBudget DEF budgetVars
  <2> QED
    BY <2>1, <2>2, <2>3 DEF AnswerFailed
<1>4. MeterShape'
  BY <1>0, <1>2, <1>3, SharedAssumption DEF MeterShape, NotReported
<1> QED
  BY <1>3, <1>4

\* A settlement keeps its value as long as its key exists.
LEMMA TimeAndKeysKeeps ==
  ASSUME CBInv, TimeAndKeys, [Next]_vars
  PROVE  BudgetInv' /\ MeterShape'
<1>0. BudgetInv /\ MeterShape /\ UNCHANGED overRefunded
  BY DEF CBInv, TimeAndKeys
<1>1. \A q \in Requests : Settled(q) => Settled(q)' /\ recordId'[q] = recordId[q]
  BY RecordFixed DEF CBInv
<1>2. Elapse \/ UNCHANGED budgetVars
  BY DEF TimeAndKeys
<1>3. BudgetInv'
  BY <1>0, <1>2, ElapseKeeps, UnchangedKeepsBudget
<1>4. \A x \in Reservations : settled'[x].ttl # 0 => settled'[x].value = settled[x].value
  <2>1. CASE Elapse
    <3>1. settled' = [x \in Reservations |->
            IF settled[x].ttl > 1 THEN [settled[x] EXCEPT !.ttl = @ - 1] ELSE NotSettled]
      BY <2>1 DEF Elapse
    <3>2. \A x \in Reservations :
            settled[x] \in [value: Usages \cup {-1}, ttl: 0..TtlSeconds]
      BY <1>0 DEF BudgetInv, BudgetTypeOK
    <3> QED
      BY <3>1, <3>2 DEF NotSettled
  <2>2. CASE UNCHANGED budgetVars
    BY <2>2 DEF budgetVars
  <2> QED
    BY <1>2, <2>1, <2>2
<1>5. reported' = [r \in Requests |->
        IF reported[r] # NotReported /\ settled'[recordId[r]].ttl = 0
          THEN NotReported ELSE reported[r]]
  BY DEF TimeAndKeys
<1>6. reported' \in [Requests -> Usages \cup {NotReported}]
  BY <1>0, <1>5 DEF MeterShape
<1>7. ASSUME NEW q \in Requests, reported'[q] # NotReported
      PROVE  /\ reported[q] # NotReported /\ reported'[q] = reported[q]
             /\ settled'[recordId[q]].ttl # 0
  BY <1>5, <1>7
<1>8. ASSUME NEW q \in Requests, reported'[q] # NotReported
      PROVE  /\ Settled(q)' /\ recordId'[q] \in Ids
             /\ settled'[recordId'[q]].ttl # 0
             /\ settled'[recordId'[q]].value = reported'[q]
  BY <1>0, <1>1, <1>4, <1>7, <1>8, SharedAssumption DEF MeterShape
<1>9. MeterShape'
  BY <1>0, <1>6, <1>8 DEF MeterShape, NotReported
<1> QED
  BY <1>3, <1>9

\* Another user's calls are of other reservations or leave a settlement alone.
LEMMA OtherUserKeeps ==
  ASSUME CBInv, OtherUser, [Next]_vars
  PROVE  BudgetInv' /\ MeterShape'
<1>0. BudgetInv /\ MeterShape /\ UNCHANGED <<vars, reported>> /\ overRefunded' \in BOOLEAN
  BY DEF CBInv, OtherUser, MeterShape
<1>1. PICK c \in Callers, x \in Reservations : CallsBudget(c, x)
  BY DEF OtherUser
<1>2. BudgetInv'
  BY <1>0, <1>1, BudgetNextKeeps DEF BudgetNext
<1>3. \A y \in Reservations : settled[y].ttl # 0 => settled'[y] = settled[y]
  <2>1. CASE \/ ReserveNew(c, x) \/ ReserveReplayed(c, x) \/ ReserveRefused(c, x)
             \/ Release(c, x)
    BY <2>1 DEF ReserveNew, ReserveReplayed, ReserveRefused, Release
  <2>2. ASSUME NEW actual \in Usages,
               SettleFirst(c, x, actual) \/ SettleReplayed(c, x, actual)
        PROVE  \A y \in Reservations : settled[y].ttl # 0 => settled'[y] = settled[y]
    BY <1>0, <2>2, SettledAt
  <2>3. ASSUME NEW actual \in Usages, SettleRefused(c, x, actual)
        PROVE  settled' = settled
    BY <2>3 DEF SettleRefused
  <2> QED
    BY <1>1, <2>1, <2>2, <2>3 DEF CallsBudget
<1>4. \A q \in Requests : Settled(q) => Settled(q)' /\ recordId'[q] = recordId[q]
  BY RecordFixed DEF CBInv
<1>5. MeterShape'
  BY <1>0, <1>3, <1>4, SharedAssumption DEF MeterShape, NotReported
<1> QED
  BY <1>2, <1>5

LEMMA CBInitOK == CBInit => CBInv
<1> SUFFICES ASSUME CBInit
             PROVE  CBInv
  OBVIOUS
<1>1. ChatInv /\ BudgetInv
  BY ChatInitOK, BudgetInitOK DEF CBInit
<1>2. ContentShape
  BY DEF CBInit, Init, NoExecution, ContentShape
<1>3. MeterShape
  BY DEF CBInit, MeterShape, NotReported
<1> QED
  BY <1>1, <1>2, <1>3 DEF CBInv

LEMMA CBNextKeeps == CBInv /\ [CBNext]_cbVars => CBInv'
<1> SUFFICES ASSUME CBInv, [CBNext]_cbVars
             PROVE  CBInv'
  OBVIOUS
<1>1. [Next]_vars
  BY StepIsHandlerStep
<1>2. ChatInv' /\ ContentShape'
  BY <1>1, ChatNextKeeps, ContentKept DEF CBInv
<1>3. ASSUME UNCHANGED <<budgetVars, meterVars>>
      PROVE  BudgetInv' /\ MeterShape'
  BY <1>1, <1>3, UnchangedKeepsBudget, MeterQuiet DEF budgetVars, meterVars, CBInv, MeterShape
<1>4. ASSUME NEW r \in Requests, ReserveTokens(r) \/ ReleaseTokens(r)
      PROVE  BudgetInv' /\ MeterShape'
  <2>1. BudgetInv' /\ UNCHANGED settled
    BY <1>4, ReserveTokensKeeps, ReleaseTokensKeeps
  <2>2. UNCHANGED reported /\ overRefunded' \in BOOLEAN
    BY <1>4, ReleaseTokensKeeps DEF ReserveTokens, ReleaseTokens, meterVars, CBInv, MeterShape
  <2> QED
    BY <1>1, <2>1, <2>2, MeterQuiet
<1>5. BudgetInv' /\ MeterShape'
  BY <1>1, <1>3, <1>4, AnswerSettledKeeps, AnswerFailedKeeps, TimeAndKeysKeeps, OtherUserKeeps
  DEF CBNext, Unmetered, cbVars
<1> QED
  BY <1>2, <1>5 DEF CBInv

\* The handler's invariant, the budget's and what was reported hold together in every
\* behaviour of the composition.
THEOREM CBInvariance == CBSpec => []CBInv
  BY CBInitOK, CBNextKeeps, PTL DEF CBSpec

\* With the budget the handler does nothing that it might not do without it, so that
\* everything proved of Spec holds of the composition.
THEOREM BudgetKeepsChat == CBSpec => Spec
<1>1. CBInit => Init
  BY DEF CBInit
<1> QED
  BY <1>1, StepIsHandlerStep, PTL DEF CBSpec, Spec

\* The usage reported for the answer of a completed execution is what its reservation
\* is settled with, whichever attempts reserved, settled or failed before and after.
THEOREM UsageIsSettled == CBSpec => []CompletedUsageIsSettled
<1>1. CBInv => CompletedUsageIsSettled
  BY DEF CBInv, ContentShape, MeterShape, CompletedUsageIsSettled
<1> QED
  BY <1>1, CBInvariance, PTL

\* No counter loses its time to live while handlers crash, retry and take over.
THEOREM CountersExpireInChat == CBSpec => []CountersExpire
<1>1. CBInv => CountersExpire
  BY DEF CBInv, BudgetInv
<1> QED
  BY <1>1, CBInvariance, PTL

-----------------------------------------------------------------------------
(* What the counters hold                                                  *)

\* A settlement key lives as long as the marker it was set with.
SettledShape ==
  \A x \in Reservations : settled[x].ttl # 0 =>
    marker[x] = settled[x].ttl /\ settled[x].value \in Nat

\* The reservations charged to counter k.
On(k) == {x \in Reservations : k \in Charged(x)}

Charges == [x \in Reservations |-> Charge(x)]

Kept == ChargesAreCounted /\ SettledShape

ChargesTyped == Charges \in [Reservations -> Int]

LEMMA ChargesType == BudgetInv => ChargesTyped
<1> SUFFICES ASSUME BudgetInv, NEW x \in Reservations
             PROVE  Charge(x) \in Int
  BY DEF Charges, ChargesTyped
<1>1. Amount(x) \in Int
  BY AmountIsNat
<1>2. settled[x].value \in Int
  <2>1. settled[x] \in [value: Usages \cup {-1}, ttl: 0..TtlSeconds]
    BY DEF BudgetInv, BudgetTypeOK
  <2>2. settled[x].value \in Usages \cup {-1}
    BY <2>1
  <2>3. Usages \subseteq Nat
    BY BudgetAssumption
  <2>4. \A v : v \in Usages \cup {-1} => v \in Int
    BY <2>3
  <2> QED
    BY <2>2, <2>4, Zenon
<1> QED
  BY <1>1, <1>2 DEF Charge

LEMMA OnFinite ==
  ASSUME NEW k
  PROVE  IsFiniteSet(On(k)) /\ On(k) \subseteq Reservations
  BY BudgetAssumption, FS_Subset DEF On

\* When one charge changes, the sums of its two counters change by as much.
LEMMA OneCharge ==
  ASSUME NEW W \in [Reservations -> Int], NEW V \in [Reservations -> Int],
         NEW x \in Reservations, \A y \in Reservations : y # x => V[y] = W[y], NEW k
  PROVE  /\ SumFunctionOnSet(W, On(k)) \in Int
         /\ k \in Charged(x) =>
              SumFunctionOnSet(V, On(k)) = SumFunctionOnSet(W, On(k)) + V[x] - W[x]
         /\ k \notin Charged(x) => SumFunctionOnSet(V, On(k)) = SumFunctionOnSet(W, On(k))
<1> DEFINE S == On(k)
           T == S \ {x}
<1>1. IsFiniteSet(S) /\ S \subseteq Reservations /\ (x \in S <=> k \in Charged(x))
  BY OnFinite DEF On
<1> HIDE DEF S
<1>2. IsFiniteSet(T) /\ T \subseteq S /\ \A y \in T : V[y] = W[y]
  BY <1>1, FS_RemoveElement
<1>3. \A y \in S : W[y] \in Int /\ V[y] \in Int
  BY <1>1
<1>4. SumFunctionOnSet(W, S) \in Int
  BY <1>1, <1>3, SumType
<1>5. CASE x \notin S
  <2>1. SumFunctionOnSet(V, S) = SumFunctionOnSet(W, S)
    BY <1>1, <1>3, <1>5, SumSame
  <2> QED
    BY <1>1, <1>4, <1>5, <2>1 DEF S
<1>6. CASE x \in S
  <2>1. SumFunctionOnSet(W, S) = W[x] + SumFunctionOnSet(W, T)
    BY <1>1, <1>3, <1>6, SumRemove
  <2>2. SumFunctionOnSet(V, S) = V[x] + SumFunctionOnSet(V, T)
    BY <1>1, <1>3, <1>6, SumRemove
  <2> HIDE DEF T
  <2>3. SumFunctionOnSet(V, T) = SumFunctionOnSet(W, T)
    BY <1>2, <1>3, SumSame
  <2>4. SumFunctionOnSet(W, T) \in Int /\ W[x] \in Int /\ V[x] \in Int
    BY <1>2, <1>3, SumType
  <2>5. SumFunctionOnSet(V, S) = SumFunctionOnSet(W, S) + V[x] - W[x]
    BY <2>1, <2>2, <2>3, <2>4
  <2> QED
    BY <1>1, <1>4, <1>6, <2>5 DEF S
<1> QED
  BY <1>5, <1>6

\* A step that changes the charge of x, and the counters of x by at least as much.
LEMMA OneChargeCounted ==
  ASSUME BudgetInv, BudgetInv', ChargesAreCounted, NEW x \in Reservations,
         \A y \in Reservations : y # x => Charge(y)' = Charge(y),
         \A k \in Charged(x) : count'[k] >= count[k] + Charge(x)' - Charge(x),
         \A k \in Counters : k \notin Charged(x) => count'[k] = count[k]
  PROVE  ChargesAreCounted'
<1>0. ChargesTyped /\ ChargesTyped'
  BY ChargesType, PTL
<1>1. Charges \in [Reservations -> Int] /\ Charges' \in [Reservations -> Int]
  BY <1>0 DEF ChargesTyped
<1> SUFFICES ASSUME NEW k \in Counters
             PROVE  count'[k] >= SumFunctionOnSet(Charges', On(k))
  BY DEF ChargesAreCounted, Charges, On
<1>2. count[k] >= SumFunctionOnSet(Charges, On(k))
  BY DEF ChargesAreCounted, Charges, On
<1>3. \A y \in Reservations : y # x => Charges'[y] = Charges[y]
  BY DEF Charges
<1>4. count[k] \in Int /\ count'[k] \in Int
  BY DEF BudgetInv, BudgetTypeOK
<1>5. Charges[x] = Charge(x) /\ Charges'[x] = Charge(x)'
  BY DEF Charges
<1>6. Charges[x] \in Int /\ Charges'[x] \in Int
  BY <1>1
<1>7. /\ SumFunctionOnSet(Charges, On(k)) \in Int
      /\ k \in Charged(x) => SumFunctionOnSet(Charges', On(k))
                               = SumFunctionOnSet(Charges, On(k)) + Charges'[x] - Charges[x]
      /\ k \notin Charged(x) => SumFunctionOnSet(Charges', On(k)) = SumFunctionOnSet(Charges, On(k))
  BY <1>1, <1>3, OneCharge
<1>8. k \in Charged(x) => count'[k] >= count[k] + Charges'[x] - Charges[x]
  BY <1>4, <1>5, <1>6
<1> QED
  BY <1>2, <1>4, <1>6, <1>7, <1>8

LEMMA SettledTyped ==
  ASSUME BudgetInv, NEW x \in Reservations
  PROVE  /\ settled[x] = [value |-> settled[x].value, ttl |-> settled[x].ttl]
         /\ settled[x].ttl \in Nat
         /\ marker[x] \in Nat
<1>1. settled[x] \in [value: Usages \cup {-1}, ttl: 0..TtlSeconds] /\ marker[x] \in 0..TtlSeconds
  BY DEF BudgetInv, BudgetTypeOK
<1> QED
  BY <1>1, BudgetAssumption

\* reserve_tenant adds the estimate to both counters and to the charges.
LEMMA ReserveNewCounts ==
  ASSUME BudgetInv, Kept, NEW c \in Callers, NEW x \in Reservations, ReserveNew(c, x)
  PROVE  Kept'
<1>0. BudgetInv'
  BY ReserveNewKeeps
<1>1. marker[x] = 0 /\ settled[x].ttl = 0 /\ settled' = settled
  <2>1. marker[x] = 0 /\ settled' = settled
    BY DEF ReserveNew
  <2>2. settled[x].ttl # 0 => marker[x] = settled[x].ttl
    BY DEF Kept, SettledShape
  <2> QED
    BY <2>1, <2>2
<1>2. marker'[x] # 0 /\ \A y \in Reservations : y # x => marker'[y] = marker[y]
  BY BudgetAssumption DEF ReserveNew, BudgetInv, BudgetTypeOK
<1>3. Charge(x) = 0 /\ Charge(x)' = Amount(x)
  BY <1>1, <1>2 DEF Charge, Amount, PrimaryTokens
<1>4. \A y \in Reservations : y # x => Charge(y)' = Charge(y)
  BY <1>1, <1>2 DEF Charge, Amount, PrimaryTokens
<1>5. \A k \in Counters : count[k] \in Int
                           /\ count'[k] = count[k] + IF k \in Charged(x) THEN Amount(x) ELSE 0
  BY DEF ReserveNew, BudgetInv, BudgetTypeOK
<1>6. \A k \in Charged(x) : count'[k] >= count[k] + Charge(x)' - Charge(x)
  BY <1>3, <1>5, ChargedCounters, AmountIsNat
<1>7. \A k \in Counters : k \notin Charged(x) => count'[k] = count[k]
  BY <1>5
<1>8. ChargesAreCounted'
  BY <1>0, <1>4, <1>6, <1>7, OneChargeCounted DEF Kept
<1>9. SettledShape'
  BY <1>1, <1>2 DEF Kept, SettledShape
<1> QED
  BY <1>8, <1>9 DEF Kept

\* settle_tenant replaces the estimate by the usage in both.
LEMMA SettleFirstCounts ==
  ASSUME BudgetInv, Kept, NEW c \in Callers, NEW x \in Reservations, NEW actual \in Usages,
         SettleFirst(c, x, actual)
  PROVE  Kept'
<1>0. BudgetInv'
  BY SettleFirstKeeps
<1>1. marker[x] # 0 /\ settled[x].ttl = 0 /\ marker' = marker
  BY DEF SettleFirst
<1>2. /\ settled'[x].ttl = marker[x] /\ settled'[x].value = actual
      /\ \A y \in Reservations : y # x => settled'[y] = settled[y]
  BY DEF SettleFirst, BudgetInv, BudgetTypeOK
<1>3. Charge(x) = Amount(x) /\ Charge(x)' = actual
  BY <1>1, <1>2 DEF Charge
<1>4. \A y \in Reservations : y # x => Charge(y)' = Charge(y)
  BY <1>1, <1>2 DEF Charge, Amount, PrimaryTokens
<1>5. \A k \in Counters : count[k] \in Int
        /\ count'[k] = count[k] + IF k \in Charged(x) THEN actual - Amount(x) ELSE 0
  BY DEF SettleFirst, BudgetInv, BudgetTypeOK
<1>6. actual \in Nat
  BY BudgetAssumption
<1>7. \A k \in Charged(x) : count'[k] >= count[k] + Charge(x)' - Charge(x)
  BY <1>3, <1>5, <1>6, ChargedCounters, AmountIsNat
<1>8. \A k \in Counters : k \notin Charged(x) => count'[k] = count[k]
  BY <1>5
<1>9. ChargesAreCounted'
  BY <1>0, <1>4, <1>7, <1>8, OneChargeCounted DEF Kept
<1>10. SettledShape'
  BY <1>1, <1>2, <1>6 DEF Kept, SettledShape
<1> QED
  BY <1>9, <1>10 DEF Kept

\* release_tenant takes the estimate out of both, unless the usage was settled.
LEMMA ReleaseCounts ==
  ASSUME BudgetInv, Kept, NEW c \in Callers, NEW x \in Reservations, Release(c, x),
         ~ OverRefunds(x)
  PROVE  Kept'
<1>0. BudgetInv' /\ settled' = settled
  BY ReleaseKeeps DEF Release
<1>1. CASE UNCHANGED <<count, ttl, marker>>
  BY <1>0, <1>1 DEF Kept, ChargesAreCounted, SettledShape, Charge, Amount, PrimaryTokens
<1>2. CASE marker[x] # 0 /\ count' = Refunded(x) /\ marker' = [marker EXCEPT ![x] = 0]
  <2>1. marker'[x] = 0 /\ \A y \in Reservations : y # x => marker'[y] = marker[y]
    BY <1>2 DEF BudgetInv, BudgetTypeOK
  <2>2. settled[x].ttl = 0
    BY <1>2, <2>1 DEF OverRefunds
  <2>3. Charge(x) = Amount(x) /\ Charge(x)' = 0
    BY <1>2, <2>1, <2>2 DEF Charge
  <2>4. \A y \in Reservations : y # x => Charge(y)' = Charge(y)
    BY <1>0, <2>1 DEF Charge, Amount, PrimaryTokens
  <2>5. \A k \in Counters : /\ count[k] \in Int
                             /\ count'[k] = IF k \in Charged(x)
                                  THEN IF count[k] > Amount(x) THEN count[k] - Amount(x) ELSE 0
                                  ELSE count[k]
    BY <1>2 DEF Refunded, BudgetInv, BudgetTypeOK
  <2>6. \A k \in Charged(x) : count'[k] >= count[k] + Charge(x)' - Charge(x)
    BY <2>3, <2>5, ChargedCounters, AmountIsNat
  <2>7. \A k \in Counters : k \notin Charged(x) => count'[k] = count[k]
    BY <2>5
  <2>8. ChargesAreCounted'
    BY <1>0, <2>4, <2>6, <2>7, OneChargeCounted DEF Kept
  <2>9. SettledShape'
    BY <1>0, <2>1, <2>2 DEF Kept, SettledShape
  <2> QED
    BY <2>8, <2>9 DEF Kept
<1> QED
  BY <1>1, <1>2 DEF Release

\* Time only ends charges, and a counter ends no earlier than what is charged to it.
LEMMA ElapseCounts ==
  ASSUME BudgetInv, Kept, Elapse
  PROVE  Kept'
<1>0. BudgetInv' /\ ChargesTyped /\ ChargesTyped'
  BY ElapseKeeps, ChargesType, PTL
<1>1. ASSUME NEW x \in Reservations
      PROVE  /\ marker'[x] = IF marker[x] > 0 THEN marker[x] - 1 ELSE 0
             /\ settled[x].ttl > 1 => /\ settled'[x].ttl = settled[x].ttl - 1
                                      /\ settled'[x].value = settled[x].value
             /\ ~(settled[x].ttl > 1) => settled'[x].ttl = 0
  <2>1. settled[x].ttl \in Nat /\ marker[x] \in Nat
    BY SettledTyped
  <2>2. settled'[x] = IF settled[x].ttl > 1 THEN [settled[x] EXCEPT !.ttl = @ - 1] ELSE NotSettled
    BY DEF Elapse
  <2>3. settled[x] \in [value: Usages \cup {-1}, ttl: 0..TtlSeconds]
    BY DEF BudgetInv, BudgetTypeOK
  <2>4. marker'[x] = IF marker[x] > 0 THEN marker[x] - 1 ELSE 0
    BY <2>1 DEF Elapse, Older
  <2> QED
    BY <2>2, <2>3, <2>4 DEF NotSettled
<1>2. SettledShape'
  <2> SUFFICES ASSUME NEW x \in Reservations, settled'[x].ttl # 0
               PROVE  marker'[x] = settled'[x].ttl /\ settled'[x].value \in Nat
    BY DEF SettledShape
  <2>1. settled[x].ttl \in Nat /\ marker[x] \in Nat
    BY SettledTyped
  <2>2. settled[x].ttl # 0 => marker[x] = settled[x].ttl /\ settled[x].value \in Nat
    BY DEF Kept, SettledShape
  <2> QED
    BY <1>1, <2>1, <2>2
<1>3. ASSUME NEW x \in Reservations
      PROVE  (marker'[x] = 0 => Charge(x)' = 0) /\ Charge(x)' <= Charge(x)
  <2>1. settled[x].ttl \in Nat /\ marker[x] \in Nat
    BY SettledTyped
  <2>2. settled[x].ttl # 0 => marker[x] = settled[x].ttl /\ settled[x].value \in Nat
    BY DEF Kept, SettledShape
  <2>3. marker'[x] = 0 => Charge(x)' = 0
    BY DEF Charge
  <2>4. Charge(x) \in Nat
    BY <2>1, <2>2, AmountIsNat DEF Charge
  <2>5. marker'[x] # 0 => Charge(x)' = Charge(x)
    BY <1>1, <2>1, <2>2 DEF Charge, Amount, PrimaryTokens
  <2> QED
    BY <2>3, <2>4, <2>5
<1>4. ASSUME NEW k \in Counters
      PROVE  count'[k] >= SumFunctionOnSet(Charges', On(k))
  <2>1. IsFiniteSet(On(k)) /\ On(k) \subseteq Reservations
    BY OnFinite
  <2>2. CASE ttl'[k] = 0
    <3>1. count'[k] = 0
      BY <2>2 DEF Elapse
    <3>2. ASSUME NEW x \in On(k)
          PROVE  Charges'[x] = 0
      <4>1. x \in Reservations /\ marker'[x] <= ttl'[k]
        BY <1>0 DEF On, BudgetInv, CountersOutliveMarkers
      <4>2. marker'[x] \in 0..TtlSeconds
        BY <1>0, <4>1 DEF BudgetInv, BudgetTypeOK
      <4>3. marker'[x] = 0
        BY <2>2, <4>1, <4>2, BudgetAssumption
      <4> QED
        BY <1>3, <4>1, <4>3 DEF Charges
    <3>3. SumFunctionOnSet(Charges', On(k)) = 0
      BY <2>1, <3>2, SumZero
    <3> QED
      BY <3>1, <3>3
  <2>3. CASE ttl'[k] # 0
    <3>1. count'[k] = count[k] /\ count[k] \in Int
      BY <2>3 DEF Elapse, BudgetInv, BudgetTypeOK
    <3>2. count[k] >= SumFunctionOnSet(Charges, On(k))
      BY DEF Kept, ChargesAreCounted, Charges, On
    <3>3. \A x \in On(k) : Charges[x] \in Int /\ Charges'[x] \in Int /\ Charges'[x] <= Charges[x]
      BY <1>0, <1>3, <2>1 DEF ChargesTyped, Charges
    <3>4. SumFunctionOnSet(Charges', On(k)) <= SumFunctionOnSet(Charges, On(k))
      BY <2>1, <3>3, SumLeq
    <3>5. SumFunctionOnSet(Charges', On(k)) \in Int /\ SumFunctionOnSet(Charges, On(k)) \in Int
      BY <2>1, <3>3, SumType
    <3> QED
      BY <3>1, <3>2, <3>4, <3>5
  <2> QED
    BY <2>2, <2>3
<1>5. ChargesAreCounted'
  BY <1>4 DEF ChargesAreCounted, Charges, On
<1> QED
  BY <1>2, <1>5 DEF Kept

LEMMA UnchangedCounts ==
  ASSUME Kept, UNCHANGED <<count, ttl, marker, settled>>
  PROVE  Kept'
  BY DEF Kept, ChargesAreCounted, SettledShape, Charge, Amount, PrimaryTokens

\* A call of the budget keeps the charges counted unless it refunds what was settled.
LEMMA CallCounts ==
  ASSUME BudgetInv, Kept, NEW c \in Callers, NEW x \in Reservations, ~ OverRefunds(x),
         \/ ReserveNew(c, x) \/ ReserveReplayed(c, x) \/ ReserveRefused(c, x)
         \/ Release(c, x)
         \/ \E actual \in Usages :
              SettleFirst(c, x, actual) \/ SettleReplayed(c, x, actual)
                \/ SettleRefused(c, x, actual)
  PROVE  Kept'
<1>1. CASE ReserveReplayed(c, x) \/ ReserveRefused(c, x)
  BY <1>1, UnchangedCounts DEF ReserveReplayed, ReserveRefused
<1>2. ASSUME NEW actual \in Usages, SettleReplayed(c, x, actual) \/ SettleRefused(c, x, actual)
      PROVE  Kept'
  BY <1>2, UnchangedCounts DEF SettleReplayed, SettleRefused
<1>3. ASSUME NEW actual \in Usages, SettleFirst(c, x, actual)
      PROVE  Kept'
  BY <1>3, SettleFirstCounts
<1>4. CASE ReserveNew(c, x)
  BY <1>4, ReserveNewCounts
<1>5. CASE Release(c, x)
  BY <1>5, ReleaseCounts
<1> QED
  BY <1>1, <1>2, <1>3, <1>4, <1>5

\* Only a release after a settlement over-refunds.
LEMMA NoOverRefund ==
  ASSUME BudgetInv, NEW c \in Callers, NEW x \in Reservations, NEW actual,
         \/ ReserveNew(c, x) \/ ReserveReplayed(c, x) \/ ReserveRefused(c, x)
         \/ SettleFirst(c, x, actual) \/ SettleReplayed(c, x, actual)
         \/ SettleRefused(c, x, actual)
  PROVE  ~ OverRefunds(x)
<1>1. CASE ReserveNew(c, x)
  BY <1>1 DEF ReserveNew, OverRefunds
<1>2. CASE ~ ReserveNew(c, x)
  BY <1>2 DEF ReserveReplayed, ReserveRefused, SettleFirst, SettleReplayed, SettleRefused,
              OverRefunds
<1> QED
  BY <1>1, <1>2

ChargeInv == overRefunded \/ Kept

LEMMA ChargeInvKeeps == CBInv /\ ChargeInv /\ [CBNext]_cbVars => ChargeInv'
<1> SUFFICES ASSUME CBInv, ChargeInv, [CBNext]_cbVars
             PROVE  ChargeInv'
  OBVIOUS
<1>0. BudgetInv /\ ChatInv
  BY DEF CBInv
<1>1. ASSUME UNCHANGED <<budgetVars, overRefunded>>
      PROVE  ChargeInv'
  BY <1>1, UnchangedCounts DEF budgetVars, ChargeInv
<1>2. ASSUME NEW r \in Requests, ReserveTokens(r)
      PROVE  ChargeInv'
  <2>1. r \in Callers /\ recordId[r] \in Reservations
    BY <1>0, <1>2, BudgetedHasRecord DEF ReserveTokens
  <2>2. /\ UNCHANGED overRefunded
        /\ \/ ReserveNew(r, recordId[r]) \/ ReserveReplayed(r, recordId[r])
           \/ ReserveRefused(r, recordId[r])
    BY <1>2 DEF ReserveTokens, meterVars
  <2>3. ~ OverRefunds(recordId[r])
    BY <1>0, <2>1, <2>2, NoOverRefund
  <2>4. Kept => Kept'
    BY <1>0, <2>1, <2>2, <2>3, CallCounts
  <2> QED
    BY <2>2, <2>4 DEF ChargeInv
<1>3. ASSUME NEW r \in Requests, ReleaseTokens(r)
      PROVE  ChargeInv'
  <2>1. CASE /\ Release(r, recordId[r])
             /\ overRefunded' = (overRefunded \/ OverRefunds(recordId[r]))
    <3>1. r \in Callers /\ recordId[r] \in Reservations
      BY <1>0, <2>1, SharedAssumption DEF Release, Holds, BudgetInv, BudgetTypeOK
    <3>2. Kept /\ ~ OverRefunds(recordId[r]) => Kept'
      BY <1>0, <2>1, <3>1, CallCounts
    <3> QED
      BY <2>1, <3>2 DEF ChargeInv
  <2> QED
    BY <1>1, <1>3, <2>1 DEF ReleaseTokens
<1>4. ASSUME NEW r \in Requests, NEW actual \in Usages, UNCHANGED overRefunded, stage[r] = "run",
             \/ SettleFirst(r, recordId[r], actual) \/ SettleReplayed(r, recordId[r], actual)
             \/ SettleRefused(r, recordId[r], actual)
      PROVE  ChargeInv'
  <2>1. r \in Callers /\ recordId[r] \in Reservations
    BY <1>0, <1>4, BudgetedHasRecord
  <2>2. ~ OverRefunds(recordId[r])
    BY <1>0, <1>4, <2>1, NoOverRefund
  <2>3. Kept => Kept'
    BY <1>0, <1>4, <2>1, <2>2, CallCounts
  <2> QED
    BY <1>4, <2>3 DEF ChargeInv
<1>5. ASSUME NEW r \in Requests, AnswerSettled(r) \/ AnswerFailed(r)
      PROVE  ChargeInv'
  <2>1. UNCHANGED overRefunded /\ stage[r] = "run"
    BY <1>5
    DEF AnswerSettled, AnswerFailed, meterVars, ProviderAnswers, StreamAnswers,
        CompletionUnread, ProviderFails
  <2> QED
    BY <1>1, <1>4, <1>5, <2>1 DEF AnswerSettled, AnswerFailed
<1>6. CASE TimeAndKeys
  <2>1. CASE Elapse
    BY <1>0, <1>6, <2>1, ElapseCounts DEF ChargeInv, TimeAndKeys
  <2> QED
    BY <1>1, <1>6, <2>1 DEF TimeAndKeys
<1>7. CASE OtherUser
  <2>1. PICK c \in Callers, x \in Reservations :
          CallsBudget(c, x) /\ overRefunded' = (overRefunded \/ OverRefunds(x))
    BY <1>7 DEF OtherUser
  <2>2. Kept /\ ~ OverRefunds(x) => Kept'
    BY <1>0, <2>1, CallCounts DEF CallsBudget
  <2> QED
    BY <2>1, <2>2 DEF ChargeInv
<1> QED
  BY <1>1, <1>2, <1>3, <1>5, <1>6, <1>7 DEF CBNext, Unmetered, cbVars, meterVars

LEMMA ChargeInvInit == CBInit => ChargeInv
<1> SUFFICES ASSUME CBInit
             PROVE  Kept
  BY DEF ChargeInv
<1>1. \A x \in Reservations : marker[x] = 0 /\ settled[x].ttl = 0
  BY DEF CBInit, BudgetInit, NotSettled
<1>2. ASSUME NEW k \in Counters
      PROVE  count[k] >= SumFunctionOnSet(Charges, On(k))
  <2>1. \A x \in On(k) : Charges[x] = 0
    BY <1>1 DEF On, Charges, Charge
  <2>2. SumFunctionOnSet(Charges, On(k)) = 0
    BY <2>1, OnFinite, SumZero
  <2> QED
    BY <2>2 DEF CBInit, BudgetInit
<1> QED
  BY <1>1, <1>2 DEF Kept, ChargesAreCounted, SettledShape, Charges, On

\* Until an estimate is refunded after a settlement, a counter holds at least the sum of
\* what the live reservations charge to it, for any number of reservations, users and
\* attempts and any order of their calls, lost answers, crashes and expirations.
THEOREM ChargesStayCounted == CBSpec => []ChargesAreKept
<1>1. ChargeInv => ChargesAreKept
  BY DEF ChargeInv, Kept, ChargesAreKept
<1> QED
  BY <1>1, ChargeInvInit, ChargeInvKeeps, CBInvariance, PTL DEF CBSpec
=============================================================================
