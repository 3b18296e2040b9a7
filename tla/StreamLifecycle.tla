-------------------------- MODULE StreamLifecycle --------------------------
(***************************************************************************)
(* One streaming response: event_generator of api/v1/chat.py with          *)
(* StreamPump and StreamFinalizer of application/streaming_lifecycle.py    *)
(* and the provider boundary of application/provider_failure_isolation.py. *)
(*                                                                         *)
(* The generator is one coroutine; at is the await or yield it is          *)
(* suspended at.  Around it run the task that reads the provider, the task *)
(* that polls for a disconnect and the lease heartbeat.  The server may    *)
(* cancel the coroutine at an await, and may drop the generator at a       *)
(* yield, which raises GeneratorExit there.                                *)
(*                                                                         *)
(* Chunks are counted, not named: the reader hands them over in order.     *)
(* Times are ticks.                                                        *)
(***************************************************************************)
EXTENDS Integers

CONSTANTS
  MaxChunks,               \* bound on the chunks of the provider
  Verify,                  \* payload.verify
  SSE_HEARTBEAT_SECONDS,
  SSE_CHUNK_TIMEOUT_SECONDS

ASSUME StreamAssumption ==
  /\ MaxChunks \in Nat
  /\ Verify \in BOOLEAN
  /\ SSE_HEARTBEAT_SECONDS \in Nat \ {0}
  /\ SSE_CHUNK_TIMEOUT_SECONDS \in Nat \ {0}

VARIABLES
  at,          \* where event_generator is suspended
  reader,      \* the chunk task: none, pending, or its result
  produced,    \* chunks the provider has yielded
  age,         \* time since the pending read started
  deadline,    \* time left until _chunk_deadline
  timer,       \* time left of the timer of the current next_event
  gone,        \* the client has disconnected
  noticed,     \* the disconnect task is done
  lost,        \* the lease_lost event
  accumulated, \* chunks in the variable accumulated
  terminal,    \* StreamFinalizer._terminal
  durable,     \* the terminal status persistence.finalize committed
  saved,       \* the chunks it committed
  upstream     \* the provider stream: open or closed

streamVars == <<at, reader, produced, age, deadline, timer, gone, noticed, lost,
                accumulated, terminal, durable, saved, upstream>>

readerVars == <<reader, produced, age, deadline, timer, upstream>>
signalVars == <<gone, noticed, lost>>
resultVars == <<terminal, durable, saved>>

-----------------------------------------------------------------------------
Awaits == {"mark", "wait", "verify", "finalize", "failing", "cancelling", "closing"}

\* yields of the start, token and keep-alive events, the keep-alive of the
\* verification loop, the verification, done and error events
Yields == {"start", "token", "keepalive", "verifying", "verified", "done", "error"}

Terminals == {"completed", "failed", "cancelled"}

Least(a, b) == IF a < b THEN a ELSE b

\* Bound on age: a read is not counted any older.
MaxAge == SSE_CHUNK_TIMEOUT_SECONDS + 1

-----------------------------------------------------------------------------
(* mark_streaming, and the yields                                          *)

\* Before the pump exists: the execution is marked, or that fails.
Mark ==
  /\ at = "mark"
  /\ at' \in {"start", "failing"}
  /\ UNCHANGED <<readerVars, signalVars, accumulated, resultVars>>

NextEvent_DeadlineReset ==
  /\ reader' = IF reader = "none" THEN "pending" ELSE reader
  /\ age' = IF reader = "none" THEN 0 ELSE age
  /\ deadline' = SSE_CHUNK_TIMEOUT_SECONDS
  /\ timer' = Least(SSE_HEARTBEAT_SECONDS, deadline')
  /\ at' = "wait"
  /\ UNCHANGED <<produced, upstream>>

\* next_event up to its wait: a read is started unless one is pending, and only
\* then a deadline is set; the timer covers the nearer of heartbeat and deadline.
NextEvent ==
  /\ reader' = IF reader = "none" THEN "pending" ELSE reader
  /\ age' = IF reader = "none" THEN 0 ELSE age
  /\ deadline' = IF reader = "none" THEN SSE_CHUNK_TIMEOUT_SECONDS ELSE deadline
  /\ timer' = Least(SSE_HEARTBEAT_SECONDS, deadline')
  /\ at' = "wait"
  /\ UNCHANGED <<produced, upstream>>

\* The client took the start event, a token or a keep-alive.
Resume ==
  /\ at \in {"start", "token", "keepalive"}
  /\ NextEvent
  /\ UNCHANGED <<signalVars, accumulated, resultVars>>

\* The other yields are followed by the last statements of the generator.
ResumeLast ==
  /\ at \in {"verifying", "verified", "done", "error"}
  /\ at' = CASE at = "verifying" -> "verify"
             [] at = "verified" -> IF lost THEN "failing" ELSE "finalize"
             [] OTHER -> "closing"
  /\ UNCHANGED <<readerVars, signalVars, accumulated, resultVars>>

-----------------------------------------------------------------------------
(* next_event after its wait                                               *)

Woken == at = "wait" /\ (noticed \/ lost \/ reader # "pending" \/ timer = 0)

WakeDisconnected_Ignored ==
  /\ Woken
  /\ noticed
  /\ UNCHANGED <<at, readerVars, signalVars, accumulated, resultVars>>

\* The events in the order the code looks at them.
WakeDisconnected ==
  /\ Woken
  /\ noticed
  /\ at' = "cancelling"
  /\ UNCHANGED <<readerVars, signalVars, accumulated, resultVars>>

WakeLeaseLost ==
  /\ Woken
  /\ ~noticed /\ lost
  /\ at' = "failing"
  /\ UNCHANGED <<readerVars, signalVars, accumulated, resultVars>>

WakeChunk_NotKept ==
  /\ Woken
  /\ ~noticed /\ ~lost /\ reader = "chunk"
  /\ reader' = "none"
  /\ accumulated' = IF timer = 0 THEN accumulated ELSE accumulated + 1
  /\ at' = "token"
  /\ UNCHANGED <<produced, age, deadline, timer, upstream, signalVars, resultVars>>

WakeChunk ==
  /\ Woken
  /\ ~noticed /\ ~lost /\ reader = "chunk"
  /\ reader' = "none"
  /\ accumulated' = accumulated + 1
  /\ at' = "token"
  /\ UNCHANGED <<produced, age, deadline, timer, upstream, signalVars, resultVars>>

\* The provider is exhausted: the pump is closed, usage is settled, then the
\* answer is verified or finalized.  A failed settlement is a failure.
WakeEnd ==
  /\ Woken
  /\ ~noticed /\ ~lost /\ reader = "end"
  /\ reader' = "none"
  /\ upstream' = "closed"
  /\ at' \in {IF Verify THEN "verify" ELSE "finalize", "failing"}
  /\ UNCHANGED <<produced, age, deadline, timer, signalVars, accumulated, resultVars>>

\* ProviderFailureIsolation.stream raised.
WakeError ==
  /\ Woken
  /\ ~noticed /\ ~lost /\ reader = "error"
  /\ reader' = "none"
  /\ at' = "failing"
  /\ UNCHANGED <<produced, age, deadline, timer, upstream, signalVars, accumulated, resultVars>>

\* Only the timer fired.
WakeTimer ==
  /\ Woken
  /\ ~noticed /\ ~lost /\ reader = "pending"
  /\ at' = IF deadline = 0 THEN "failing" ELSE "keepalive"
  /\ UNCHANGED <<readerVars, signalVars, accumulated, resultVars>>

\* The verification loop: finished, a disconnect or a lost lease is found at a
\* heartbeat, or it goes on.  A failed verification is a result like any other.
VerifyStep ==
  /\ at = "verify"
  /\ \/ at' = "verified"
     \/ gone /\ at' = "cancelling"
     \/ ~gone /\ lost /\ at' = "failing"
     \/ ~gone /\ ~lost /\ at' = "verifying"
  /\ UNCHANGED <<readerVars, signalVars, accumulated, resultVars>>

-----------------------------------------------------------------------------
(* StreamFinalizer.finalize and the exception handlers                     *)

Claim_Again(t) ==
  \/ terminal' = t /\ durable' = t /\ saved' = accumulated
  \/ terminal' = t /\ UNCHANGED <<durable, saved>>

\* The terminal is claimed before apply_terminal runs; apply commits, or fails.
Claim(t) ==
  IF terminal = "none"
    THEN /\ terminal' = t
         /\ \/ durable' = t /\ saved' = accumulated
            \/ UNCHANGED <<durable, saved>>
    ELSE UNCHANGED resultVars

\* The commit succeeded, or raised, with or without effect.
FinalizeCompleted ==
  /\ at = "finalize"
  /\ Claim("completed")
  /\ \/ at' = "done" /\ durable' = "completed"
     \/ at' \in {"failing", "cancelling"}
  /\ UNCHANGED <<readerVars, signalVars, accumulated>>

\* except IsolatedProviderFailure, except Exception: the error is reported.
HandleFailure ==
  /\ at = "failing"
  /\ Claim("failed")
  /\ at' = "error"
  /\ UNCHANGED <<readerVars, signalVars, accumulated>>

\* except CancelledError: re-raised after the claim.
HandleCancel ==
  /\ at = "cancelling"
  /\ Claim("cancelled")
  /\ at' = "closing"
  /\ UNCHANGED <<readerVars, signalVars, accumulated>>

\* finally: verification task, pump and lease heartbeat are stopped.
Close ==
  /\ at = "closing"
  /\ at' = "ended"
  /\ reader' = "none"
  /\ upstream' = "closed"
  /\ UNCHANGED <<produced, age, deadline, timer, signalVars, accumulated, resultVars>>

-----------------------------------------------------------------------------
(* The server: the coroutine is cancelled at an await of the try block, or *)
(* the generator is dropped at a yield.                                    *)

Cancelled ==
  /\ gone
  /\ at \in {"mark", "wait", "verify", "finalize"}
  /\ at' = "cancelling"
  /\ UNCHANGED <<readerVars, signalVars, accumulated, resultVars>>

\* A second exception inside a handler ends it: its claim may be applied or not.
CancelledInHandler ==
  /\ gone
  /\ at = "failing"
  /\ Claim("failed")
  /\ at' = "closing"
  /\ UNCHANGED <<readerVars, signalVars, accumulated>>

\* GeneratorExit is no Exception and no CancelledError: no handler runs.
Dropped ==
  /\ gone
  /\ at \in Yields
  /\ at' = "closing"
  /\ UNCHANGED <<readerVars, signalVars, accumulated, resultVars>>

-----------------------------------------------------------------------------
(* The tasks around the generator                                          *)

\* Empty chunks are filtered by the provider boundary.
ProviderYields ==
  /\ reader = "pending"
  /\ produced < MaxChunks
  /\ produced' = produced + 1
  /\ reader' = "chunk"
  /\ UNCHANGED <<at, age, deadline, timer, upstream, signalVars, accumulated, resultVars>>

\* Exhausted, or failed: the provider boundary closes the provider either way.
ProviderStops ==
  /\ reader = "pending"
  /\ reader' \in {"end", "error"}
  /\ upstream' = "closed"
  /\ UNCHANGED <<at, produced, age, deadline, timer, signalVars, accumulated, resultVars>>

Disconnect ==
  /\ ~gone
  /\ gone' = TRUE
  /\ UNCHANGED <<at, readerVars, noticed, lost, accumulated, resultVars>>

\* The task lives from the first next_event until the pump is closed.
PollDisconnect ==
  /\ gone /\ ~noticed
  /\ at \in {"wait", "token", "keepalive"}
  /\ noticed' = TRUE
  /\ UNCHANGED <<at, readerVars, gone, lost, accumulated, resultVars>>

LeaseLost ==
  /\ ~lost
  /\ at # "ended"
  /\ lost' = TRUE
  /\ UNCHANGED <<at, readerVars, gone, noticed, accumulated, resultVars>>

\* Time passes; a timer that is due fires first.
Tick ==
  /\ at = "wait" => timer > 0
  /\ at \notin {"mark", "ended"}
  /\ age' = IF reader = "pending" THEN Least(age + 1, MaxAge) ELSE age
  /\ deadline' = IF deadline > 0 THEN deadline - 1 ELSE 0
  /\ timer' = IF timer > 0 THEN timer - 1 ELSE 0
  /\ UNCHANGED <<at, reader, produced, upstream, signalVars, accumulated, resultVars>>

-----------------------------------------------------------------------------
StreamInit ==
  /\ at = "mark"
  /\ reader = "none"
  /\ produced = 0
  /\ age = 0
  /\ deadline = 0
  /\ timer = 0
  /\ gone = FALSE
  /\ noticed = FALSE
  /\ lost = FALSE
  /\ accumulated = 0
  /\ terminal = "none"
  /\ durable = "none"
  /\ saved = 0
  /\ upstream = "open"

\* The coroutine itself.
GeneratorStep ==
  \/ Mark \/ Resume \/ ResumeLast
  \/ WakeDisconnected \/ WakeLeaseLost \/ WakeChunk \/ WakeEnd \/ WakeError \/ WakeTimer
  \/ VerifyStep \/ FinalizeCompleted \/ HandleFailure \/ HandleCancel \/ Close

StreamNext ==
  \/ GeneratorStep
  \/ Cancelled \/ CancelledInHandler \/ Dropped
  \/ ProviderYields \/ ProviderStops \/ Disconnect \/ PollDisconnect \/ LeaseLost
  \/ Tick

StreamSpec == StreamInit /\ [][StreamNext]_streamVars

\* The event loop runs what is ready, polls, and time passes.  Nothing is assumed
\* of the provider or of the client: at a yield the generator waits for the client
\* (Resume is not fair), unless the client has gone.
StreamFairSpec ==
  /\ StreamSpec
  /\ WF_streamVars(GeneratorStep /\ at \notin Yields)
  /\ WF_streamVars(PollDisconnect)
  /\ WF_streamVars(Dropped)
  /\ WF_streamVars(Tick)

-----------------------------------------------------------------------------
(* Properties                                                              *)

\* Every variable stays in its type.
StreamTypeOK ==
  /\ at \in Awaits \cup Yields \cup {"ended"}
  /\ reader \in {"none", "pending", "chunk", "end", "error"}
  /\ produced \in 0..MaxChunks
  /\ age \in 0..MaxAge
  /\ deadline \in 0..SSE_CHUNK_TIMEOUT_SECONDS
  /\ timer \in 0..SSE_HEARTBEAT_SECONDS
  /\ gone \in BOOLEAN /\ noticed \in BOOLEAN /\ lost \in BOOLEAN
  /\ accumulated \in 0..MaxChunks
  /\ terminal \in Terminals \cup {"none"}
  /\ durable \in Terminals \cup {"none"}
  /\ saved \in 0..MaxChunks
  /\ upstream \in {"open", "closed"}

\* The pump never waits for a read beyond the read's own timeout, however many
\* keep-alives were sent meanwhile and however slowly the client took them.
ReadKeepsDeadline ==
  at = "wait" /\ reader = "pending" /\ timer > 0
    => age + timer <= SSE_CHUNK_TIMEOUT_SECONDS

\* The terminal that is claimed first is the only one ever committed, also when
\* its commit fails and an exception handler runs afterwards.
TerminalIsNotOverwritten ==
  [][/\ terminal # "none" => terminal' = terminal
     /\ durable # "none" => durable' = durable /\ saved' = saved]_streamVars

\* What is committed as completed is everything the provider produced, in spite
\* of heartbeats, timers and disconnects racing with the last chunks.
CompletedIsWhole == durable = "completed" => saved = produced

\* A client that goes away ends the stream, even if the provider never answers.
DisconnectEnds == gone ~> at = "ended"

=============================================================================
