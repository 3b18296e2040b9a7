---------------------------- MODULE StreamProofs ----------------------------
(***************************************************************************)
(* One streaming response, for any heartbeat, chunk timeout and number of  *)
(* chunks, with and without verification.                                  *)
(*                                                                         *)
(* The deadline of a read and its age add up to the timeout until the      *)
(* deadline has passed.  Chunks are counted: what the provider produced is *)
(* in accumulated, or is the one result the reader holds.  After the end   *)
(* of the provider no read is started, so the count is final when the      *)
(* answer is finalized.                                                    *)
(***************************************************************************)
EXTENDS StreamLifecycle, TLAPS

\* The places in the order of event_generator.
Reading == {"mark", "start", "wait", "token", "keepalive"}
Finishing == {"verify", "verifying", "verified", "finalize"}

\* A read that is not overdue has the rest of its timeout left, and the timer of
\* next_event is not later than the deadline.
DeadlineShape ==
  /\ reader = "pending" /\ deadline > 0 => age + deadline <= SSE_CHUNK_TIMEOUT_SECONDS
  /\ at = "wait" => timer <= deadline

\* Every chunk is in accumulated or in the hands of the reader.
CountShape ==
  /\ at \in {"mark", "start"} => reader = "none"
  /\ at \in Finishing => reader = "none"
  /\ at # "ended" => produced = accumulated + (IF reader = "chunk" THEN 1 ELSE 0)
  /\ at = "ended" => reader = "none"

\* Nothing is claimed before the end; what is committed is what was claimed, and a
\* completed answer is final.
ResultShape ==
  /\ at \in Reading \cup Finishing => terminal = "none"
  /\ durable \in {"none", terminal}
  /\ terminal = "completed" => reader = "none"
  /\ durable = "completed" => saved = produced

StreamInv == StreamTypeOK /\ DeadlineShape /\ CountShape /\ ResultShape

USE StreamAssumption DEF MaxAge, Least

-----------------------------------------------------------------------------
LEMMA StreamInitial == StreamInit => StreamInv
  <1> SUFFICES ASSUME StreamInit PROVE StreamInv
    OBVIOUS
  <1>1. gone \in BOOLEAN /\ noticed \in BOOLEAN /\ lost \in BOOLEAN
    BY Zenon DEF StreamInit
  <1>2. StreamTypeOK
    BY <1>1 DEF StreamInit, StreamTypeOK, Awaits
  <1>3. DeadlineShape /\ CountShape /\ ResultShape
    BY DEF StreamInit, DeadlineShape, CountShape, ResultShape, Finishing
  <1> QED BY <1>2, <1>3 DEF StreamInv

\* The generator goes from one await or yield to another; nothing else happens.
LEMMA Goes ==
  ASSUME StreamInv, UNCHANGED <<readerVars, signalVars, accumulated, resultVars>>,
         at' \in Awaits \cup Yields, at' # "wait", at # "ended",
         at' \in {"mark", "start"} => at \in {"mark", "start"},
         at' \in Finishing => at \in Finishing,
         at' \in Reading => at \in Reading
  PROVE  StreamInv'
  <1> USE DEF StreamInv, readerVars, signalVars, resultVars
  <1>1. StreamTypeOK'
    BY DEF StreamTypeOK
  <1>2. DeadlineShape'
    BY DEF DeadlineShape
  <1>3. CountShape'
    BY DEF CountShape, Awaits, Yields
  <1>4. ResultShape'
    BY DEF ResultShape, Reading, Finishing
  <1> QED BY <1>1, <1>2, <1>3, <1>4

\* next_event starts the deadline of a new read and keeps that of a pending one.
LEMMA ResumeStep ==
  ASSUME StreamInv, Resume
  PROVE  StreamInv'
  <1> USE DEF StreamInv, Resume, NextEvent, signalVars, resultVars
  <1>1. StreamTypeOK'
    BY DEF StreamTypeOK, Awaits
  <1>2. DeadlineShape'
    BY DEF DeadlineShape, StreamTypeOK
  <1>3. CountShape'
    BY DEF CountShape, Finishing
  <1>4. ResultShape'
    BY DEF ResultShape, Reading, Finishing
  <1> QED BY <1>1, <1>2, <1>3, <1>4

LEMMA WakeStep ==
  ASSUME StreamInv, WakeChunk \/ WakeEnd \/ WakeError
  PROVE  StreamInv'
  <1> USE DEF StreamInv, Woken, signalVars, resultVars
  <1>1. CASE WakeChunk
    <2>1. produced = accumulated + 1 /\ accumulated' = produced
      BY <1>1 DEF WakeChunk, CountShape, StreamTypeOK
    <2>2. StreamTypeOK'
      BY <1>1, <2>1 DEF WakeChunk, StreamTypeOK, Yields
    <2>3. DeadlineShape' /\ ResultShape'
      BY <1>1 DEF WakeChunk, DeadlineShape, ResultShape, Reading, Finishing
    <2>4. CountShape'
      BY <1>1, <2>1 DEF WakeChunk, CountShape, Finishing, StreamTypeOK
    <2> QED BY <2>2, <2>3, <2>4
  <1>2. CASE WakeEnd
    <2>1. StreamTypeOK' /\ DeadlineShape'
      BY <1>2 DEF WakeEnd, StreamTypeOK, DeadlineShape, Awaits
    <2>2. CountShape'
      BY <1>2 DEF WakeEnd, CountShape, StreamTypeOK
    <2>3. ResultShape'
      BY <1>2 DEF WakeEnd, ResultShape, Reading, Finishing
    <2> QED BY <2>1, <2>2, <2>3
  <1>3. CASE WakeError
    BY <1>3 DEF WakeError, StreamTypeOK, DeadlineShape, CountShape, ResultShape, Awaits,
                Reading, Finishing
  <1> QED BY <1>1, <1>2, <1>3

\* The claim: the first one is kept, and what it commits is what is accumulated.
LEMMA ClaimKeeps ==
  ASSUME StreamInv, NEW t \in Terminals, Claim(t)
  PROVE  /\ terminal # "none" => UNCHANGED resultVars
         /\ terminal = "none" => terminal' = t /\ durable' \in {"none", t}
         /\ durable' # durable => saved' = accumulated
         /\ durable' = durable => saved' = saved \/ durable # "none"
         /\ terminal' \in Terminals /\ durable' \in {"none", terminal'}
         /\ saved' \in {saved, accumulated}
  BY DEF StreamInv, StreamTypeOK, ResultShape, Claim, resultVars, Terminals

LEMMA ClaimStep ==
  ASSUME StreamInv, UNCHANGED <<readerVars, signalVars, accumulated>>,
         \/ FinalizeCompleted \/ HandleFailure \/ HandleCancel \/ CancelledInHandler
  PROVE  StreamInv'
  <1> USE DEF StreamInv, readerVars, signalVars
  <1>1. PICK t \in Terminals :
          /\ Claim(t)
          /\ at \in {"finalize", "failing", "cancelling"}
          /\ t = "completed" => at = "finalize"
          /\ at' \in {"done", "failing", "cancelling", "error", "closing"}
    BY DEF FinalizeCompleted, HandleFailure, HandleCancel, CancelledInHandler, Terminals
  <1>2. StreamTypeOK' /\ DeadlineShape'
    BY <1>1, ClaimKeeps DEF StreamTypeOK, DeadlineShape, Awaits, Yields
  <1>3. CountShape'
    BY <1>1 DEF CountShape, Finishing
  <1>4. ResultShape'
    <2>1. CASE terminal # "none"
      BY <1>1, <2>1, ClaimKeeps DEF ResultShape, resultVars, Reading, Finishing
    <2>2. CASE terminal = "none"
      <3>1. durable = "none" /\ terminal' = t /\ durable' \in {"none", t}
        BY <1>1, <2>2, ClaimKeeps DEF ResultShape
      <3>2. t = "completed" => reader = "none" /\ produced = accumulated
        BY <1>1 DEF CountShape, Finishing, StreamTypeOK
      <3>3. durable' = "completed" => saved' = produced'
        BY <1>1, <3>1, <3>2, ClaimKeeps
      <3> QED BY <1>1, <3>1, <3>2, <3>3 DEF ResultShape, Reading, Finishing
    <2> QED BY <2>1, <2>2
  <1> QED BY <1>2, <1>3, <1>4

LEMMA CloseStep ==
  ASSUME StreamInv, Close
  PROVE  StreamInv'
  BY DEF StreamInv, Close, StreamTypeOK, DeadlineShape, CountShape, ResultShape, Reading,
         Finishing, signalVars, resultVars

\* The tasks around the generator.
LEMMA ReaderStep ==
  ASSUME StreamInv, ProviderYields \/ ProviderStops
  PROVE  StreamInv'
  <1> USE DEF StreamInv, signalVars, resultVars
  <1>0. terminal # "completed" /\ at # "ended"
    BY DEF ProviderYields, ProviderStops, ResultShape, CountShape
  <1>1. CASE ProviderYields
    <2>1. StreamTypeOK' /\ DeadlineShape'
      BY <1>1 DEF ProviderYields, StreamTypeOK, DeadlineShape
    <2>2. CountShape'
      BY <1>1 DEF ProviderYields, StreamTypeOK, CountShape, Finishing
    <2>3. ResultShape'
      BY <1>0, <1>1 DEF ProviderYields, ResultShape
    <2> QED BY <2>1, <2>2, <2>3
  <1>2. CASE ProviderStops
    BY <1>0, <1>2 DEF ProviderStops, StreamTypeOK, DeadlineShape, CountShape, ResultShape,
                      Finishing
  <1> QED BY <1>1, <1>2

LEMMA SignalStep ==
  ASSUME StreamInv, Disconnect \/ PollDisconnect \/ LeaseLost
  PROVE  StreamInv'
  <1>1. /\ UNCHANGED <<at, readerVars, accumulated, resultVars>>
        /\ gone' \in BOOLEAN /\ noticed' \in BOOLEAN /\ lost' \in BOOLEAN
    BY Zenon DEF Disconnect, PollDisconnect, LeaseLost, StreamInv, StreamTypeOK
  <1> QED BY <1>1 DEF StreamInv, readerVars, resultVars, StreamTypeOK, DeadlineShape,
                      CountShape, ResultShape

\* Time passes for the read, its deadline and the timer at once.
LEMMA TickStep ==
  ASSUME StreamInv, Tick
  PROVE  StreamInv'
  <1> USE DEF StreamInv, Tick, signalVars, resultVars
  <1>1. StreamTypeOK'
    BY DEF StreamTypeOK
  <1>2. DeadlineShape'
    BY DEF DeadlineShape, StreamTypeOK
  <1>3. CountShape' /\ ResultShape'
    BY DEF CountShape, ResultShape
  <1> QED BY <1>1, <1>2, <1>3

LEMMA GoesStep ==
  ASSUME StreamInv,
         \/ Mark \/ ResumeLast \/ WakeDisconnected \/ WakeLeaseLost \/ WakeTimer
         \/ VerifyStep \/ Cancelled \/ Dropped
  PROVE  StreamInv'
  <1> USE DEF Reading, Finishing, Awaits, Yields
  <1>1. CASE Mark
    BY <1>1, Goes DEF Mark
  <1>2. CASE ResumeLast
    <2>1. \/ at = "verifying" /\ at' = "verify"
          \/ at = "verified" /\ at' \in {"failing", "finalize"}
          \/ at \in {"done", "error"} /\ at' = "closing"
      <3>1. CASE at = "verifying"
        BY <1>2, <3>1 DEF ResumeLast
      <3>2. CASE at = "verified"
        BY <1>2, <3>2 DEF ResumeLast
      <3>3. CASE at \in {"done", "error"}
        BY <1>2, <3>3 DEF ResumeLast
      <3> QED BY <1>2, <3>1, <3>2, <3>3 DEF ResumeLast
    <2> QED BY <1>2, <2>1, Goes DEF ResumeLast
  <1>3. CASE WakeDisconnected \/ WakeLeaseLost \/ WakeTimer
    BY <1>3, Goes DEF WakeDisconnected, WakeLeaseLost, WakeTimer, Woken
  <1>4. CASE VerifyStep
    BY <1>4, Goes DEF VerifyStep
  <1>5. CASE Cancelled \/ Dropped
    BY <1>5, Goes DEF Cancelled, Dropped
  <1> QED BY <1>1, <1>2, <1>3, <1>4, <1>5

LEMMA StreamStep == StreamInv /\ [StreamNext]_streamVars => StreamInv'
  <1> SUFFICES ASSUME StreamInv, [StreamNext]_streamVars PROVE StreamInv'
    OBVIOUS
  <1>1. CASE UNCHANGED streamVars
    BY <1>1 DEF streamVars, StreamInv, StreamTypeOK, DeadlineShape, CountShape, ResultShape
  <1>2. CASE FinalizeCompleted \/ HandleFailure \/ HandleCancel \/ CancelledInHandler
    <2>1. UNCHANGED <<readerVars, signalVars, accumulated>>
      BY <1>2 DEF FinalizeCompleted, HandleFailure, HandleCancel, CancelledInHandler
    <2> QED BY <1>2, <2>1, ClaimStep
  <1> QED BY <1>1, <1>2, ResumeStep, WakeStep, CloseStep, ReaderStep, SignalStep, TickStep,
             GoesStep DEF StreamNext, GeneratorStep

-----------------------------------------------------------------------------
(* Theorems                                                                *)

\* Places, timers, counts and results stay consistent in every stream.
THEOREM StreamInvariance == StreamSpec => []StreamInv
  BY StreamInitial, StreamStep, PTL DEF StreamSpec

\* Every variable of the stream stays in its type: no counter leaves its range.
THEOREM StreamTypes == StreamSpec => []StreamTypeOK
  <1>1. StreamInv => StreamTypeOK
    BY DEF StreamInv
  <1> QED BY <1>1, StreamInvariance, PTL

\* The pump never waits for a read beyond its timeout, for any heartbeat and timeout
\* and any number of keep-alives (StreamPump.next_event).
THEOREM ReadsKeepDeadline == StreamSpec => []ReadKeepsDeadline
  <1>1. StreamInv => ReadKeepsDeadline
    BY DEF StreamInv, StreamTypeOK, DeadlineShape, ReadKeepsDeadline
  <1> QED BY <1>1, StreamInvariance, PTL

\* What is committed as completed is everything the provider produced, for any number
\* of chunks and any race with timers and disconnects (event_generator).
THEOREM CompletedStreamsAreWhole == StreamSpec => []CompletedIsWhole
  <1>1. StreamInv => CompletedIsWhole
    BY DEF StreamInv, ResultShape, CompletedIsWhole
  <1> QED BY <1>1, StreamInvariance, PTL

\* The first terminal claimed is the only one committed (StreamFinalizer.finalize).
THEOREM FirstTerminalStays == StreamSpec => TerminalIsNotOverwritten
  <1>1. StreamInv /\ [StreamNext]_streamVars
          => [/\ terminal # "none" => terminal' = terminal
              /\ durable # "none" => durable' = durable /\ saved' = saved]_streamVars
    <2> SUFFICES ASSUME StreamInv, StreamNext, terminal # "none"
                 PROVE  UNCHANGED resultVars
      BY DEF StreamInv, ResultShape, resultVars
    <2>1. CASE FinalizeCompleted \/ HandleFailure \/ HandleCancel \/ CancelledInHandler
      BY <2>1 DEF FinalizeCompleted, HandleFailure, HandleCancel, CancelledInHandler, Claim
    <2> QED BY <2>1 DEF StreamNext, GeneratorStep, Mark, Resume, ResumeLast, WakeDisconnected,
               WakeLeaseLost, WakeChunk, WakeEnd, WakeError, WakeTimer, VerifyStep, Close,
               Cancelled, Dropped, ProviderYields, ProviderStops, Disconnect, PollDisconnect,
               LeaseLost, Tick
  <1> QED BY <1>1, StreamInvariance, PTL DEF StreamSpec, TerminalIsNotOverwritten

=============================================================================
