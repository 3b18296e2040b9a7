-------------------------- MODULE DocumentIngestion --------------------------
(***************************************************************************)
(* Document ingestion: POST /documents/ingest (api/v1/documents.py), POST  *)
(* /documents/upload (api/v1/document_upload.py), the queue client         *)
(* (workers/client.py) and the worker task process_document_ingestion      *)
(* (workers/tasks.py).                                                     *)
(*                                                                         *)
(* Every request creates at most one document, which is named by the       *)
(* request.  The requests of Requests \ Uploads carry one idempotency key  *)
(* and the same payload; begin_idempotency and complete_idempotency are    *)
(* single steps here (module Idempotency has their detail).  Handlers and  *)
(* worker run one transaction or external call at a time and may crash in  *)
(* between.  The chunks of a document (module Chunking) are inserted by    *)
(* one commit, so they are counted in copies of the whole list.            *)
(***************************************************************************)
EXTENDS Chunking

CONSTANTS
  Requests,
  Uploads,          \* the requests that are multipart uploads
  Text,             \* the text of each request
  Unstorable,       \* those with a chunk the database refuses to insert
  ALLOW_SYNC_INGEST_FALLBACK,
  DatabaseErrors,   \* commits of the worker may fail
  Null,
  MaxCrashes        \* bound on the crashes of workers

ASSUME IngestAssumption ==
  /\ Uploads \subseteq Requests
  /\ Text \in [Requests -> Seq(Nat)]
  /\ Unstorable \subseteq Requests
  /\ ALLOW_SYNC_INGEST_FALLBACK \in BOOLEAN
  /\ DatabaseErrors \in BOOLEAN
  /\ Null \notin Requests
  /\ MaxCrashes \in Nat

VARIABLES
  stage,   \* the next call of each handler, or how it ended
  row,     \* the idempotency record of the key
  doc,     \* Document.status
  copies,  \* how often the chunks of the document are stored
  job,     \* the job document-ingest:<org>:<document> in the queue
  work,    \* where the worker that runs the job is
  crashes, \* crashes of workers so far
  undone   \* how often a document that was ready was marked failed (history)

ingestVars == <<stage, row, doc, copies, job, work, crashes, undone>>
workVars == <<copies, work, crashes>>

-----------------------------------------------------------------------------
ChunksOf == [r \in Requests |-> Chunked(Text[r])]

Blank == {r \in Requests : ChunksOf[r] = <<>>}

Whole == {r \in Requests : HoldsText(ChunksOf[r], Text[r])}

Ends == {"accepted", "replayed", "conflict", "rejected", "unavailable", "failed", "crashed"}

Stages ==
  {"idle", "write", "create", "enqueue", "fail", "close", "unreachable", "fallback",
   "store", "complete"} \cup Ends

Settled == {"ready", "failed"}

\* live: the lease has not expired.  doc: the document the response names.
AbsentRow == [status |-> "absent", owner |-> Null, live |-> FALSE, doc |-> Null]

Claimed(r) == [status |-> "processing", owner |-> r, live |-> TRUE, doc |-> Null]

Goto(r, s) == stage' = [stage EXCEPT ![r] = s]

Mark(r, s) ==
  /\ doc' = [doc EXCEPT ![r] = s]
  /\ undone' = [undone EXCEPT ![r] = IF doc[r] = "ready" /\ s = "failed" THEN @ + 1 ELSE @]

-----------------------------------------------------------------------------
(* The ledger of the key                                                   *)

\* begin_idempotency grants the key: no record, a failed one, or an expired lease.
BeginClaims(r) ==
  /\ stage[r] = "idle" /\ r \notin Uploads
  /\ \/ row.status \in {"absent", "failed"}
     \/ row.status = "processing" /\ ~row.live
  /\ row' = Claimed(r)
  /\ Goto(r, "create")
  /\ UNCHANGED <<doc, job, workVars, undone>>

\* A completed record is replayed; a live lease is a conflict.
BeginAnswers(r) ==
  /\ stage[r] = "idle" /\ r \notin Uploads
  /\ \/ row.status = "completed" /\ Goto(r, "replayed")
     \/ row.status = "processing" /\ row.live /\ Goto(r, "conflict")
  /\ UNCHANGED <<row, doc, job, workVars, undone>>

\* Nothing renews the lease of an ingest request.
LeaseExpires ==
  /\ row.status = "processing" /\ row.live
  /\ row' = [row EXCEPT !.live = FALSE]
  /\ UNCHANGED <<stage, doc, job, workVars, undone>>

\* complete_idempotency: without the lease it returns False, which no caller looks at.
Close(r, status) ==
  row' = IF row.owner = r /\ row.live
         THEN [row EXCEPT !.status = status, !.live = FALSE, !.doc = r]
         ELSE row

-----------------------------------------------------------------------------
(* The handlers                                                            *)

\* upload_document: the file is written, validated and its text extracted; a file
\* that fails is removed.
Write(r) ==
  /\ stage[r] = "idle" /\ r \in Uploads
  /\ \E s \in {"create", "rejected"} : Goto(r, s)
  /\ UNCHANGED <<row, doc, job, workVars, undone>>

Create(r) ==
  /\ stage[r] = "create"
  /\ Mark(r, "queued")
  /\ Goto(r, "enqueue")
  /\ UNCHANGED <<row, job, workVars>>

\* The queue accepts the job.
Enqueued(r) ==
  /\ stage[r] = "enqueue"
  /\ job' = [job EXCEPT ![r] = "queued"]
  /\ Goto(r, IF r \in Uploads THEN "accepted" ELSE "complete")
  /\ UNCHANGED <<row, doc, workVars, undone>>

\* No pool: enqueue_document_ingestion returns None.
EnqueueUnreachable(r) ==
  /\ stage[r] = "enqueue"
  /\ Goto(r, IF r \notin Uploads /\ ALLOW_SYNC_INGEST_FALLBACK THEN "fallback"
             ELSE "unreachable")
  /\ UNCHANGED <<row, doc, job, workVars, undone>>

EnqueueRaises_Accepted(r) ==
  /\ stage[r] = "enqueue"
  /\ Goto(r, IF r \in Uploads THEN "failed" ELSE "complete")
  /\ UNCHANGED <<row, doc, job, workVars, undone>>

\* enqueue_job raises; the queue may hold the job all the same.  Only ingest_document
\* handles the exception.
EnqueueRaises(r) ==
  /\ stage[r] = "enqueue"
  /\ job' \in {job, [job EXCEPT ![r] = "queued"]}
  /\ Goto(r, IF r \in Uploads THEN "failed" ELSE "fail")
  /\ UNCHANGED <<row, doc, workVars, undone>>

\* _fail_document_ingest writes the status it has not read again.
FailDocument(r) ==
  /\ stage[r] = "fail"
  /\ Mark(r, "failed")
  /\ Goto(r, "close")
  /\ UNCHANGED <<row, job, workVars>>

CloseFailed(r) ==
  /\ stage[r] = "close"
  /\ Close(r, "failed")
  /\ Goto(r, "unavailable")
  /\ UNCHANGED <<doc, job, workVars, undone>>

\* The queue was unreachable: the record of the key is left as it is.
Unreachable(r) ==
  /\ stage[r] = "unreachable"
  /\ Mark(r, "failed")
  /\ Goto(r, "unavailable")
  /\ UNCHANGED <<row, job, workVars>>

Fallback(r) ==
  /\ stage[r] = "fallback"
  /\ Mark(r, "processing")
  /\ Goto(r, "store")
  /\ UNCHANGED <<row, job, workVars>>

Stored_StatusOnly(r) ==
  /\ r \notin Unstorable \ Blank
  /\ Mark(r, IF r \in Blank THEN "failed" ELSE "ready")
  /\ UNCHANGED copies

\* What is committed once the chunks have been embedded, by handler or worker.
Stored(r) ==
  /\ r \notin Unstorable \ Blank
  /\ Mark(r, IF r \in Blank THEN "failed" ELSE "ready")
  /\ copies' = [copies EXCEPT ![r] = IF r \in Blank THEN @ ELSE @ + 1]

StoreInline(r) ==
  /\ stage[r] = "store"
  /\ Stored(r)
  /\ Goto(r, "complete")
  /\ UNCHANGED <<row, job, work, crashes>>

\* The database refuses a chunk: the exception leaves the handler.
StoreInlineRefused(r) ==
  /\ stage[r] = "store"
  /\ r \in Unstorable \ Blank
  /\ Goto(r, "failed")
  /\ UNCHANGED <<row, doc, job, workVars, undone>>

Complete(r) ==
  /\ stage[r] = "complete"
  /\ Close(r, "completed")
  /\ Goto(r, "accepted")
  /\ UNCHANGED <<doc, job, workVars, undone>>

Crash(r) ==
  /\ stage[r] \notin Ends \cup {"idle"}
  /\ Goto(r, "crashed")
  /\ UNCHANGED <<row, doc, job, workVars, undone>>

-----------------------------------------------------------------------------
(* The worker                                                              *)

\* ARQ hands the job to one worker at a time.
Deliver(d) ==
  /\ job[d] = "queued"
  /\ job' = [job EXCEPT ![d] = "running"]
  /\ work' = [work EXCEPT ![d] = "load"]
  /\ UNCHANGED <<stage, row, doc, copies, crashes, undone>>

Load_NotChecked(d) ==
  /\ job[d] = "running" /\ work[d] = "load"
  /\ work' = [work EXCEPT ![d] = "embed"]
  /\ Mark(d, "processing")
  /\ UNCHANGED <<stage, row, copies, job, crashes>>

\* The document exists: it was committed before the job was enqueued.
Load(d) ==
  /\ job[d] = "running" /\ work[d] = "load"
  /\ IF doc[d] = "ready"
     THEN work' = [work EXCEPT ![d] = "finish"] /\ UNCHANGED <<doc, undone>>
     ELSE work' = [work EXCEPT ![d] = "embed"] /\ Mark(d, "processing")
  /\ UNCHANGED <<stage, row, copies, job, crashes>>

\* The first commit raises: the exception leaves the task.
LoadFails(d) ==
  /\ DatabaseErrors
  /\ job[d] = "running" /\ work[d] = "load" /\ doc[d] # "ready"
  /\ doc' \in {doc, [doc EXCEPT ![d] = "processing"]}
  /\ work' = [work EXCEPT ![d] = "finish"]
  /\ UNCHANGED <<stage, row, copies, job, crashes, undone>>

Store(d) ==
  /\ job[d] = "running" /\ work[d] = "embed"
  /\ Stored(d)
  /\ work' = [work EXCEPT ![d] = "finish"]
  /\ UNCHANGED <<stage, row, job, crashes>>

\* The flush raises.  The session is not rolled back, so the commit of the status
\* "failed" raises too, and that exception leaves the task.
StoreRefused(d) ==
  /\ job[d] = "running" /\ work[d] = "embed"
  /\ d \in Unstorable \ Blank
  /\ work' = [work EXCEPT ![d] = "finish"]
  /\ UNCHANGED <<stage, row, doc, copies, job, crashes, undone>>

\* The commit itself raises, applied or not.
StoreFails(d) ==
  /\ DatabaseErrors
  /\ job[d] = "running" /\ work[d] = "embed"
  /\ work' = [work EXCEPT ![d] = "failing"]
  /\ \/ UNCHANGED <<doc, copies, undone>>
     \/ Stored(d)
  /\ UNCHANGED <<stage, row, job, crashes>>

\* The status "failed" is committed, or that raises.
MarkFailed(d) ==
  /\ job[d] = "running" /\ work[d] = "failing"
  /\ Mark(d, "failed") \/ (DatabaseErrors /\ UNCHANGED <<doc, undone>>)
  /\ work' = [work EXCEPT ![d] = "finish"]
  /\ UNCHANGED <<stage, row, copies, job, crashes>>

\* ARQ records the result; a task that raised is not retried.
Finish(d) ==
  /\ job[d] = "running" /\ work[d] = "finish"
  /\ job' = [job EXCEPT ![d] = "done"]
  /\ work' = [work EXCEPT ![d] = "idle"]
  /\ UNCHANGED <<stage, row, doc, copies, crashes, undone>>

\* A worker dies, or its job is cancelled: the job is delivered again.
WorkerCrash(d) ==
  /\ job[d] = "running" /\ crashes < MaxCrashes
  /\ job' = [job EXCEPT ![d] = "queued"]
  /\ work' = [work EXCEPT ![d] = "idle"]
  /\ crashes' = crashes + 1
  /\ UNCHANGED <<stage, row, doc, copies, undone>>

-----------------------------------------------------------------------------
IngestInit ==
  /\ stage = [r \in Requests |-> "idle"]
  /\ row = AbsentRow
  /\ doc = [r \in Requests |-> "none"]
  /\ copies = [r \in Requests |-> 0]
  /\ job = [r \in Requests |-> "none"]
  /\ work = [r \in Requests |-> "idle"]
  /\ crashes = 0
  /\ undone = [r \in Requests |-> 0]

HandlerStep(r) ==
  \/ BeginClaims(r) \/ BeginAnswers(r) \/ Write(r) \/ Create(r)
  \/ Enqueued(r) \/ EnqueueUnreachable(r) \/ EnqueueRaises(r)
  \/ FailDocument(r) \/ CloseFailed(r) \/ Unreachable(r)
  \/ Fallback(r) \/ StoreInline(r) \/ StoreInlineRefused(r) \/ Complete(r)

WorkerStep(d) ==
  \/ Deliver(d) \/ Load(d) \/ LoadFails(d) \/ Store(d) \/ StoreRefused(d)
  \/ StoreFails(d) \/ MarkFailed(d) \/ Finish(d)

IngestNext ==
  \/ LeaseExpires
  \/ \E r \in Requests : HandlerStep(r) \/ Crash(r) \/ WorkerStep(r) \/ WorkerCrash(r)

IngestSpec == IngestInit /\ [][IngestNext]_ingestVars

-----------------------------------------------------------------------------
\* Type invariant of handlers, ledger record, documents and queue; a worker is at work
\* exactly on the jobs that run.
IngestTypeOK ==
  /\ stage \in [Requests -> Stages]
  /\ row \in [status: {"absent", "processing", "completed", "failed"},
              owner: Requests \cup {Null}, live: BOOLEAN, doc: Requests \cup {Null}]
  /\ doc \in [Requests -> {"none", "queued", "processing"} \cup Settled]
  /\ copies \in [Requests -> Nat]
  /\ job \in [Requests -> {"none", "queued", "running", "done"}]
  /\ work \in [Requests -> {"idle", "load", "embed", "failing", "finish"}]
  /\ \A d \in Requests : (job[d] = "running") <=> (work[d] # "idle")
  /\ crashes \in 0..MaxCrashes
  /\ undone \in [Requests -> Nat]

\* A document that is ready has its chunks, whoever processed it and however often, and
\* they hold every character of its text within the size limit.
ReadyIsWhole == \A d \in Requests : doc[d] = "ready" => copies[d] > 0 /\ d \in Whole

\* Every stored copy of the chunks is accounted for: the document is ready, or it was and
\* somebody marked it failed.  So redelivery alone stores no chunk twice; what can is a
\* writer that reverts "ready", and each time it does costs one copy at most.
StoredOnce ==
  \A d \in Requests : copies[d] = undone[d] + (IF doc[d] = "ready" THEN 1 ELSE 0)

\* What the client is told is backed by the queue: a record completed for the key names a
\* document that has a job or is settled, and an ingest request that ended without
\* crashing leaves no document queued without a job.
AnswerIsBacked ==
  /\ row.status = "completed" => job[row.doc] # "none" \/ doc[row.doc] \in Settled
  /\ \A r \in Requests \ Uploads :
       stage[r] \in Ends \ {"crashed"} /\ doc[r] = "queued" => job[r] # "none"

=============================================================================
