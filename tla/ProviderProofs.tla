--------------------------- MODULE ProviderProofs ---------------------------
(***************************************************************************)
(* One turn with a provider, for every wire, every number of lines, every  *)
(* Retry-After header and every deadline, every corpus and history.        *)
(*                                                                         *)
(* The call is one of two machines that do not touch each other's state:   *)
(* the retried request and the stream.  Each has an invariant of its own.  *)
(* Before the call comes its preparation, which is a computation: what the *)
(* ranking and the context are is proved of the operators, for arguments   *)
(* of any size, and the invariant says that these operators made them.     *)
(***************************************************************************)
EXTENDS ProviderTurn, DataProofs, TLAPS

-----------------------------------------------------------------------------
(* The retried request                                                     *)

RetryInv ==
  /\ pc \in {"posting", "sleeping", "returned", "raised", "timed_out"}
  /\ attempt \in 1..Attempts
  /\ results \in Seq(Transient \cup Final)
  /\ pc = "posting" => Len(results) = attempt - 1
  /\ pc = "sleeping" => Len(results) = attempt /\ attempt < Attempts
  /\ pc \in {"returned", "raised"} =>
       Len(results) = attempt /\ pc = Outcome(results[Len(results)])
  /\ Len(results) <= attempt
  /\ \A k \in 1..Len(results) :
       (pc \in {"returned", "raised"} /\ k = Len(results)) \/ results[k] \in Transient

LEMMA RetryInitOK == RetryInit => RetryInv
  BY RetryAssumption DEF RetryInit, RetryInv

\* A post that ends the call adds its own result, whatever it is.
LEMMA PostEndsKeeps ==
  ASSUME RetryInv, NEW r \in Transient \cup Final, PostEnds(r)
  PROVE  RetryInv'
<1>1. Outcome(r) \in {"returned", "raised"}
  BY DEF Outcome
<1>2. /\ results' \in Seq(Transient \cup Final) /\ Len(results') = Len(results) + 1
      /\ results'[Len(results')] = r
      /\ \A k \in 1..Len(results) : results'[k] = results[k]
  BY DEF PostEnds, RetryInv
<1>3. Len(results) \in Nat /\ Len(results) = attempt - 1
      /\ \A k \in 1..Len(results) : results[k] \in Transient
  BY DEF PostEnds, RetryInv
<1>4. pc' = Outcome(r) /\ attempt' = attempt
  BY DEF PostEnds
<1>5. \A k \in 1..Len(results') : k = Len(results') \/ results'[k] \in Transient
  BY <1>2, <1>3
<1> QED
  BY <1>1, <1>2, <1>3, <1>4, <1>5, RetryAssumption DEF RetryInv

\* Only a transient failure before the last attempt is retried.
LEMMA PostRetriedKeeps ==
  ASSUME RetryInv, NEW r \in Transient \cup Final, PostRetried(r)
  PROVE  RetryInv'
<1>1. r \in Transient /\ attempt < Attempts /\ pc = "posting"
  BY RetryAssumption DEF PostRetried, EndsCall, RetryInv
<1>2. /\ results' \in Seq(Transient \cup Final) /\ Len(results') = Len(results) + 1
      /\ results'[Len(results')] = r
      /\ \A k \in 1..Len(results) : results'[k] = results[k]
  BY DEF PostRetried, RetryInv
<1>3. Len(results) \in Nat /\ Len(results) = attempt - 1
      /\ \A k \in 1..Len(results) : results[k] \in Transient
  BY <1>1 DEF RetryInv
<1>4. pc' = "sleeping" /\ attempt' = attempt
  BY DEF PostRetried
<1>5. \A k \in 1..Len(results') : results'[k] \in Transient
  BY <1>1, <1>2, <1>3
<1> QED
  BY <1>1, <1>2, <1>3, <1>4, <1>5, RetryAssumption DEF RetryInv

LEMMA RetryStepKeeps == RetryInv /\ (RetryStep \/ UNCHANGED retryVars) => RetryInv'
<1> SUFFICES ASSUME RetryInv, RetryStep \/ UNCHANGED retryVars
             PROVE  RetryInv'
  OBVIOUS
<1>1. CASE Wake
  BY <1>1, RetryAssumption DEF RetryInv, Wake
<1>2. CASE TimeOut
  BY <1>2 DEF RetryInv, TimeOut
<1>3. CASE Tick \/ UNCHANGED retryVars
  BY <1>3 DEF RetryInv, Tick, retryVars
<1> QED
  BY <1>1, <1>2, <1>3, PostEndsKeeps, PostRetriedKeeps DEF RetryStep

-----------------------------------------------------------------------------
(* The last line of a kind.  A kind is a set of lines.                     *)

Of(q, K) == {n \in DOMAIN q : q[n] \in K}

\* The line LastOf finds, of any kind.
NoLine == [input |-> NoValue, output |-> NoValue, total |-> NoValue]

LastLine(q, K) == IF Of(q, K) = {} THEN NoLine ELSE q[Max(Of(q, K))]

HasLast(q, K) == Of(q, K) # {} => \E n \in Of(q, K) : \A m \in Of(q, K) : n >= m

\* One more line is the last of its kinds and leaves the last of the others.
LEMMA LastAfterAppend ==
  ASSUME NEW q \in Seq(WireLines), NEW l \in WireLines, NEW K, HasLast(q, K)
  PROVE  /\ HasLast(Append(q, l), K)
         /\ LastLine(Append(q, l), K) = IF l \in K THEN l ELSE LastLine(q, K)
         /\ l \notin K => Of(Append(q, l), K) = Of(q, K)
         /\ l \in K => Of(Append(q, l), K) = Of(q, K) \cup {Len(q) + 1}
<1> DEFINE w == Append(q, l)
           n == Len(q)
<1>1. /\ w \in Seq(WireLines) /\ n \in Nat /\ DOMAIN q = 1..n /\ DOMAIN w = 1..n + 1
      /\ w[n + 1] = l /\ \A k \in 1..n : w[k] = q[k]
  OBVIOUS
<1> HIDE DEF w, n
<1>2. \A k \in 1..n + 1 : k \in 1..n \/ k = n + 1
  BY <1>1
<1>3. 1..n \subseteq 1..n + 1 /\ n + 1 \in 1..n + 1 /\ n + 1 \notin 1..n
  BY <1>1
<1>4. CASE l \in K
  <2>1. Of(w, K) = Of(q, K) \cup {n + 1}
    BY <1>1, <1>2, <1>3, <1>4 DEF Of
  <2>2. Of(q, K) \subseteq 1..n
    BY <1>1 DEF Of
  <2>3. \A y \in Of(w, K) : n + 1 >= y
    BY <1>1, <2>1, <2>2
  <2>4. Max(Of(w, K)) = n + 1
    <3>1. n + 1 \in Of(w, K) /\ Of(w, K) \in SUBSET Int
      BY <1>1, <2>1, <2>2
    <3> QED
      BY <2>3, <3>1, MaxIs
  <2>5. HasLast(w, K)
    BY <2>1, <2>3 DEF HasLast
  <2>6. LastLine(w, K) = l
    BY <1>1, <2>1, <2>4 DEF LastLine
  <2> QED
    BY <1>4, <2>1, <2>5, <2>6 DEF w, n
<1>5. CASE l \notin K
  <2>1. Of(w, K) = Of(q, K)
    BY <1>1, <1>2, <1>3, <1>5 DEF Of
  <2>2. Of(q, K) \subseteq 1..n
    BY <1>1 DEF Of
  <2>3. ASSUME Of(q, K) # {}
        PROVE  w[Max(Of(q, K))] = q[Max(Of(q, K))]
    <3>1. PICK x \in Of(q, K) : \A y \in Of(q, K) : x >= y
      BY <2>3 DEF HasLast
    <3>2. Max(Of(q, K)) = x
      BY <2>2, <3>1, MaxIs
    <3> QED
      BY <1>1, <2>2, <3>2
  <2>4. HasLast(w, K) /\ LastLine(w, K) = LastLine(q, K)
    BY <2>1, <2>3 DEF HasLast, LastLine
  <2> QED
    BY <1>5, <2>1, <2>4 DEF w, n
<1> QED
  BY <1>4, <1>5

-----------------------------------------------------------------------------
(* The stream                                                              *)

ReportLines == {l \in WireLines : l.shape = "json" /\ OpenAIUsage(l) # Unmetered}
StartLines == {l \in WireLines : l.shape = "json" /\ l.type = "message_start"}
DeltaLines == {l \in WireLines : l.shape = "json" /\ l.type = "message_delta"}
TotalLines == {l \in WireLines : l.shape = "json" /\ GeminiUsage(l) # Unmetered}

Kinds == {ReportLines, StartLines, DeltaLines, TotalLines}

\* What the counts of a stream being read are, by adapter.
OpenAIShape ==
  /\ meter = Unmetered
  /\ usage = OpenAIUsage(LastLine(lines, ReportLines))
  /\ \A m, n \in Of(lines, ReportLines) : m = n
  /\ usage = Unmetered => Of(lines, ReportLines) = {}

AnthropicShape ==
  /\ usage = Unmetered
  /\ meter = [input |-> Counted(LastLine(lines, StartLines).input),
              output |-> Counted(LastLine(lines, DeltaLines).output)]

GeminiShape ==
  /\ usage = Unmetered
  /\ meter = GeminiUsage(LastLine(lines, TotalLines))
  /\ meter # Unmetered => Valid(meter.input) /\ Valid(meter.output)

Shape ==
  /\ adapter = "openai" => OpenAIShape
  /\ adapter = "anthropic" => AnthropicShape
  /\ adapter = "gemini" => GeminiShape

UsageInv ==
  /\ adapter \in DOMAIN Wire
  /\ lines \in Seq(WireLines)
  /\ \A K \in Kinds : HasLast(lines, K)
  /\ outcome = "idle" => lines = <<>> /\ meter = Unmetered /\ usage = Unmetered
  /\ outcome = "reading" /\ method = "stream_with_usage" => Shape
  /\ UsageIsFinalReport

\* The lines the property speaks of are the lines of these kinds.
LEMMA KindsOfLines ==
  ASSUME lines \in Seq(WireLines)
  PROVE  /\ Reports = Of(lines, ReportLines) /\ LastOf(Reports) = LastLine(lines, ReportLines)
         /\ Starts = Of(lines, StartLines) /\ LastOf(Starts) = LastLine(lines, StartLines)
         /\ Deltas = Of(lines, DeltaLines) /\ LastOf(Deltas) = LastLine(lines, DeltaLines)
         /\ Totals = Of(lines, TotalLines) /\ LastOf(Totals) = LastLine(lines, TotalLines)
<1>1. \A n \in DOMAIN lines : lines[n] \in WireLines
  OBVIOUS
<1>2. Reports = Of(lines, ReportLines)
  BY <1>1 DEF Reports, Of, ReportLines
<1>3. Starts = Of(lines, StartLines)
  BY <1>1 DEF Starts, Of, StartLines
<1>4. Deltas = Of(lines, DeltaLines)
  BY <1>1 DEF Deltas, Of, DeltaLines
<1>5. Totals = Of(lines, TotalLines)
  BY <1>1 DEF Totals, Of, TotalLines
<1> QED
  BY <1>2, <1>3, <1>4, <1>5 DEF LastOf, LastLine, NoLine

\* Before the first line nothing has been counted.
Fresh == lines = <<>> /\ meter = Unmetered /\ usage = Unmetered

CountedSoFar == Shape /\ \A K \in Kinds : HasLast(lines, K)

LEMMA FreshShape == Fresh => CountedSoFar
<1> SUFFICES ASSUME Fresh
             PROVE  CountedSoFar
  OBVIOUS
<1>0. lines = <<>> /\ meter = Unmetered /\ usage = Unmetered
  BY DEF Fresh
<1>1. \A K : Of(lines, K) = {}
  BY <1>0 DEF Of
<1>2. \A K : LastLine(lines, K) = NoLine
  BY <1>1 DEF LastLine
<1>3. OpenAIUsage(NoLine) = Unmetered /\ GeminiUsage(NoLine) = Unmetered
  BY DEF OpenAIUsage, GeminiUsage, NoLine, Valid
<1>4. Counted(NoValue) = NoValue
  BY DEF Counted
<1> QED
  BY <1>0, <1>1, <1>2, <1>3, <1>4
     DEF CountedSoFar, Shape, OpenAIShape, AnthropicShape, GeminiShape, HasLast, NoLine, Unmetered

LEMMA UsageInitOK == AdapterInit => UsageInv
<1> SUFFICES ASSUME AdapterInit
             PROVE  UsageInv
  OBVIOUS
<1> QED
  BY FreshShape, WireAssumption DEF AdapterInit, UsageInv, UsageIsFinalReport, Fresh, CountedSoFar

\* A stream that ends is settled with what was counted.
LEMMA EndIsFinal ==
  ASSUME UsageInv, EndOfStream
  PROVE  UsageInv'
<1>1. CASE method # "stream_with_usage"
  BY <1>1 DEF UsageInv, EndOfStream, UsageIsFinalReport
<1>2. CASE method = "stream_with_usage"
  <2>1. Shape /\ lines' = lines /\ adapter' = adapter /\ lines \in Seq(WireLines)
    BY <1>2 DEF UsageInv, EndOfStream
  <2>2. ~Valid(Unmetered.input)
    BY DEF Valid, Unmetered
  <2>3. CASE adapter = "openai"
    <3>1. usage' = OpenAIUsage(LastOf(Reports)) /\ \A m, n \in Reports : m = n
      BY <2>1, <2>2, <2>3, KindsOfLines DEF Shape, OpenAIShape, EndOfStream
    <3> QED
      BY <2>1, <2>3, <3>1 DEF UsageInv, EndOfStream, UsageIsFinalReport, LastOf, Reports
  <2>4. CASE adapter = "anthropic"
    <3> DEFINE i == LastOf(Starts).input
               o == LastOf(Deltas).output
    <3>1. meter = [input |-> Counted(i), output |-> Counted(o)] /\ usage = Unmetered
      BY <2>1, <2>4, KindsOfLines DEF Shape, AnthropicShape
    <3> HIDE DEF i, o
    <3>2. ~Valid(NoValue)
      BY DEF Valid
    <3>3. usage' = IF Valid(i) /\ Valid(o) THEN [input |-> i, output |-> o] ELSE Unmetered
      BY <3>1, <3>2 DEF EndOfStream, Counted
    <3>4. LastOf(Starts)' = LastOf(Starts) /\ LastOf(Deltas)' = LastOf(Deltas)
      BY <2>1 DEF LastOf, Starts, Deltas
    <3>5. i' = i /\ o' = o
      BY <3>4 DEF i, o
    <3>6. adapter' = "anthropic" /\ usage' = IF Valid(i') /\ Valid(o') THEN [input |-> i', output |-> o'] ELSE Unmetered
      BY <2>1, <2>4, <3>3, <3>5
    <3>7. UsageIsFinalReport'
      BY <3>6 DEF i, o, UsageIsFinalReport
    <3> QED
      BY <3>7 DEF UsageInv, EndOfStream
  <2>5. CASE adapter = "gemini"
    <3>1. usage' = GeminiUsage(LastOf(Totals))
      BY <2>1, <2>2, <2>5, KindsOfLines DEF Shape, GeminiShape, EndOfStream
    <3> QED
      BY <2>1, <2>5, <3>1 DEF UsageInv, EndOfStream, UsageIsFinalReport, LastOf, Totals
  <2> QED
    BY <2>3, <2>4, <2>5, WireAssumption DEF UsageInv
<1> QED
  BY <1>1, <1>2

\* What reading a line does to the lines of each kind.
LEMMA ReadsLine ==
  ASSUME UsageInv, NEW l, Reads(l)
  PROVE  /\ l \in WireLines /\ lines' \in Seq(WireLines)
         /\ \A K \in Kinds :
              /\ HasLast(lines', K)
              /\ LastLine(lines', K) = IF l \in K THEN l ELSE LastLine(lines, K)
              /\ l \notin K => Of(lines', K) = Of(lines, K)
              /\ l \in K => Of(lines', K) = Of(lines, K) \cup {Len(lines) + 1}
<1>1. l \in WireLines /\ lines \in Seq(WireLines) /\ lines' = Append(lines, l)
  BY WireAssumption DEF Reads, UsageInv
<1>2. \A K \in Kinds : HasLast(lines, K)
  BY DEF UsageInv
<1> QED
  BY <1>1, <1>2, LastAfterAppend

\* A line that is no JSON object, and every line of the plain method.
LEMMA UncountedKeeps ==
  ASSUME UsageInv, NEW l, Reads(l), UNCHANGED <<meter, usage>>,
         l.shape # "json" \/ method = "stream",
         outcome' # "idle", outcome' = "complete" => method = "stream"
  PROVE  UsageInv'
<1>1. /\ adapter' = adapter /\ method' = method /\ outcome = "reading"
  BY DEF Reads
<1>2. ASSUME outcome' = "reading", method = "stream_with_usage"
      PROVE  Shape'
  <2>1. l \notin ReportLines /\ l \notin StartLines /\ l \notin DeltaLines /\ l \notin TotalLines
    BY <1>2 DEF ReportLines, StartLines, DeltaLines, TotalLines
  <2>2. \A K \in Kinds : LastLine(lines', K) = LastLine(lines, K) /\ Of(lines', K) = Of(lines, K)
    BY <2>1, ReadsLine DEF Kinds
  <2>3. Shape
    BY <1>1, <1>2 DEF UsageInv
  <2> QED
    BY <1>1, <2>2, <2>3 DEF Shape, OpenAIShape, AnthropicShape, GeminiShape, Kinds
<1>3. UsageIsFinalReport'
  BY <1>1 DEF UsageIsFinalReport
<1> QED
  BY <1>1, <1>2, <1>3, ReadsLine DEF UsageInv

LEMMA MeteredLineKeeps ==
  ASSUME UsageInv, NEW l, MeteredLine(l)
  PROVE  UsageInv'
<1>1. /\ Reads(l) /\ l.shape = "json" /\ outcome = "reading" /\ outcome' \in {"reading", "internal"}
      /\ adapter = "openai" /\ method = "stream_with_usage"
      /\ adapter' = adapter /\ method' = method /\ meter' = meter
  BY DEF MeteredLine, Reads
<1>2. OpenAIShape
  BY <1>1 DEF UsageInv, Shape
<1>3. ASSUME outcome' = "reading"
      PROVE  OpenAIShape'
  <2>1. CASE OpenAIUsage(l) = Unmetered
    <3>1. l \notin ReportLines /\ usage' = usage
      BY <2>1, <1>1 DEF ReportLines, MeteredLine
    <3> QED
      BY <1>1, <1>2, <3>1, ReadsLine DEF OpenAIShape, Kinds
  <2>2. CASE OpenAIUsage(l) # Unmetered
    <3>1. l \in ReportLines /\ usage = Unmetered /\ usage' = OpenAIUsage(l)
      BY <1>1, <1>3, <2>2, ReadsLine DEF ReportLines, MeteredLine
    <3>2. Of(lines', ReportLines) = {Len(lines) + 1} /\ LastLine(lines', ReportLines) = l
      BY <1>1, <1>2, <3>1, ReadsLine DEF OpenAIShape, Kinds
    <3> QED
      BY <1>1, <1>2, <2>2, <3>1, <3>2 DEF OpenAIShape
  <2> QED
    BY <2>1, <2>2
<1>4. UsageIsFinalReport'
  BY <1>1 DEF UsageIsFinalReport
<1> QED
  BY <1>1, <1>3, <1>4, ReadsLine DEF UsageInv, Shape

LEMMA AnthropicLineKeeps ==
  ASSUME UsageInv, NEW l, AnthropicLine(l)
  PROVE  UsageInv'
<1>1. /\ Reads(l) /\ l.shape = "json" /\ outcome = "reading" /\ outcome' = outcome
      /\ adapter = "anthropic" /\ method = "stream_with_usage"
      /\ adapter' = adapter /\ method' = method /\ meter' = Metered(l) /\ usage' = usage
  BY DEF AnthropicLine, Reads
<1>2. AnthropicShape
  BY <1>1 DEF UsageInv, Shape
<1>3. /\ l \in StartLines <=> l.type = "message_start"
      /\ l \in DeltaLines <=> l.type = "message_delta"
  BY <1>1, ReadsLine DEF StartLines, DeltaLines
<1>4. /\ LastLine(lines', StartLines) = IF l \in StartLines THEN l ELSE LastLine(lines, StartLines)
      /\ LastLine(lines', DeltaLines) = IF l \in DeltaLines THEN l ELSE LastLine(lines, DeltaLines)
  BY <1>1, ReadsLine DEF Kinds
<1>5. meter' = [input |-> Counted(LastLine(lines', StartLines).input),
                output |-> Counted(LastLine(lines', DeltaLines).output)]
  BY <1>1, <1>2, <1>3, <1>4 DEF AnthropicShape, Metered
<1>6. AnthropicShape'
  BY <1>1, <1>2, <1>5 DEF AnthropicShape
<1>7. UsageIsFinalReport'
  BY <1>1 DEF UsageIsFinalReport
<1> QED
  BY <1>1, <1>6, <1>7, ReadsLine DEF UsageInv, Shape

LEMMA GeminiLineKeeps ==
  ASSUME UsageInv, NEW l, GeminiLine(l)
  PROVE  UsageInv'
<1>1. /\ Reads(l) /\ l.shape = "json" /\ outcome = "reading" /\ outcome' \in {"reading", "internal"}
      /\ adapter = "gemini" /\ method = "stream_with_usage"
      /\ adapter' = adapter /\ method' = method /\ usage' = usage
  BY DEF GeminiLine, Reads
<1>2. GeminiShape
  BY <1>1 DEF UsageInv, Shape
<1>3. ASSUME outcome' = "reading"
      PROVE  GeminiShape'
  <2>1. CASE GeminiUsage(l) = Unmetered
    <3>1. l \notin TotalLines /\ meter' = meter
      BY <1>3, <2>1 DEF TotalLines, GeminiLine
    <3> QED
      BY <1>1, <1>2, <3>1, ReadsLine DEF GeminiShape, Kinds
  <2>2. CASE GeminiUsage(l) # Unmetered
    <3>1. l \in TotalLines /\ meter' = GeminiUsage(l) /\ ~Refused(GeminiUsage(l))
      BY <1>1, <1>3, <2>2, ReadsLine DEF TotalLines, GeminiLine
    <3>2. LastLine(lines', TotalLines) = l
      BY <1>1, <3>1, ReadsLine DEF Kinds
    <3>3. l.input \in Int /\ l.total \in Int /\ l.total >= l.input /\ l.input >= 0
      BY <1>1, <2>2, <3>1, ReadsLine DEF GeminiUsage, Refused, WireLines, Counts
    <3>4. Valid(meter'.input) /\ Valid(meter'.output)
      BY <2>2, <3>1, <3>3, WireAssumption DEF GeminiUsage, Valid
    <3> QED
      BY <1>1, <1>2, <3>1, <3>2, <3>4 DEF GeminiShape
  <2> QED
    BY <2>1, <2>2
<1>4. UsageIsFinalReport'
  BY <1>1 DEF UsageIsFinalReport
<1> QED
  BY <1>1, <1>3, <1>4, ReadsLine DEF UsageInv, Shape

\* One step of the stream, by the code it stands for.
LEMMA StreamStepKeeps ==
  ASSUME UsageInv, StreamStep
  PROVE  UsageInv'
<1>1. CASE TransportFails
  BY <1>1 DEF UsageInv, TransportFails, Failed, UsageIsFinalReport
<1>2. CASE EndOfStream
  BY <1>2, EndIsFinal
<1>3. CASE ReadLine
  <2>1. PICK l \in Wire[adapter] :
          \/ SkipLine(l) \/ Done(l) \/ NoObject(l)
          \/ OpenAIStream(l) \/ AnthropicStream(l) \/ GeminiStream(l)
          \/ MeteredLine(l) \/ AnthropicLine(l) \/ GeminiLine(l)
    BY <1>3 DEF ReadLine
  <2>2. CASE SkipLine(l) \/ Done(l) \/ NoObject(l)
    BY <2>2, UncountedKeeps DEF SkipLine, Done, NoObject, Reads
  <2>3. CASE OpenAIStream(l) \/ AnthropicStream(l) \/ GeminiStream(l)
    <3>1. \E e \in BOOLEAN : StreamLine(l, e)
      BY <2>1, <2>3, WireAssumption
         DEF OpenAIStream, AnthropicStream, GeminiStream, UsageInv, WireLines
    <3> QED
      BY <3>1, UncountedKeeps DEF StreamLine, Reads
  <2> QED
    BY <2>1, <2>2, <2>3, MeteredLineKeeps, AnthropicLineKeeps, GeminiLineKeeps
<1> QED
  BY <1>1, <1>2, <1>3 DEF StreamStep

-----------------------------------------------------------------------------
(* The text                                                                *)

CarrierLines(a) ==
  {l \in WireLines : l.shape = "json" /\ (a = "anthropic" => l.type = "content_block_delta")}

\* The pieces ps are the text of the lines q of kind K.
IsText(ps, q, K) ==
  /\ \A n \in Of(q, K) : \A p \in 1..q[n].parts : \E i \in DOMAIN ps : ps[i] = <<n, p>>
  /\ \A i \in DOMAIN ps : ps[i][1] \in Of(q, K) /\ ps[i][2] \in 1..q[ps[i][1]].parts
  /\ \A i, j \in DOMAIN ps : i < j => Before(ps[i], ps[j])

TextInv ==
  /\ adapter \in DOMAIN Wire
  /\ lines \in Seq(WireLines)
  /\ pieces \in Seq(Nat \X Nat)
  /\ outcome = "idle" => lines = <<>> /\ pieces = <<>>
  /\ outcome \in {"reading", "complete"} => IsText(pieces, lines, CarrierLines(adapter))

LEMMA CarriersAre ==
  ASSUME lines \in Seq(WireLines)
  PROVE  Carriers = Of(lines, CarrierLines(adapter))
<1>1. \A n \in DOMAIN lines : lines[n] \in WireLines
  OBVIOUS
<1> QED
  BY <1>1 DEF Carriers, Of, CarrierLines

LEMMA TextInvImplies == TextInv => TextIsWire
  BY CarriersAre DEF TextInv, TextIsWire, IsText

\* A line of another kind adds nothing.
LEMMA TextAfterSilent ==
  ASSUME NEW q \in Seq(WireLines), NEW l \in WireLines, NEW K, NEW ps \in Seq(Nat \X Nat),
         IsText(ps, q, K), l \notin K
  PROVE  IsText(ps, Append(q, l), K)
<1> DEFINE w == Append(q, l)
           n == Len(q)
<1>1. /\ n \in Nat /\ DOMAIN q = 1..n /\ DOMAIN w = 1..n + 1
      /\ w[n + 1] = l /\ \A k \in 1..n : w[k] = q[k]
  OBVIOUS
<1> HIDE DEF w, n
<1>2. \A k \in 1..n + 1 : k \in 1..n \/ k = n + 1
  BY <1>1
<1>3. 1..n \subseteq 1..n + 1
  BY <1>1
<1>4. Of(w, K) = Of(q, K) /\ \A k \in Of(q, K) : w[k] = q[k]
  BY <1>1, <1>2, <1>3 DEF Of
<1> QED
  BY <1>4 DEF IsText, w

LEMMA ConcatIs ==
  ASSUME NEW S, NEW s \in Seq(S), NEW t \in Seq(S)
  PROVE  /\ s \o t \in Seq(S) /\ DOMAIN (s \o t) = 1..Len(s) + Len(t)
         /\ \A i \in 1..Len(s) + Len(t) :
              (s \o t)[i] = IF i <= Len(s) THEN s[i] ELSE t[i - Len(s)]
  OBVIOUS

\* A line that carries text adds its parts, after all the others.
LEMMA TextAfterPieces ==
  ASSUME NEW q \in Seq(WireLines), NEW l \in WireLines, NEW K, NEW ps \in Seq(Nat \X Nat),
         IsText(ps, q, K), l \in K
  PROVE  LET t == [p \in 1..l.parts |-> <<Len(q) + 1, p>>]
         IN  ps \o t \in Seq(Nat \X Nat) /\ IsText(ps \o t, Append(q, l), K)
<1> DEFINE w == Append(q, l)
           n == Len(q)
           b == l.parts
           t == [p \in 1..b |-> <<n + 1, p>>]
           v == ps \o t
           a == Len(ps)
<1>1. /\ n \in Nat /\ DOMAIN q = 1..n /\ DOMAIN w = 1..n + 1
      /\ w[n + 1] = l /\ \A k \in 1..n : w[k] = q[k]
  OBVIOUS
<1>2. a \in Nat /\ b \in Nat /\ DOMAIN ps = 1..a
  BY DEF WireLines
<1> HIDE DEF n, b, w
<1>3. t \in Seq(Nat \X Nat) /\ Len(t) = b /\ \A p \in 1..b : t[p] = <<n + 1, p>>
  <2>1. t \in [1..b -> Nat \X Nat] /\ \A p \in 1..b : t[p] = <<n + 1, p>>
    BY <1>1, <1>2
  <2> HIDE DEF t
  <2> QED
    BY <1>2, <2>1
<1> HIDE DEF t
<1>4. /\ v \in Seq(Nat \X Nat) /\ DOMAIN v = 1..a + b
      /\ \A i \in 1..a : v[i] = ps[i]
      /\ \A p \in 1..b : v[a + p] = t[p]
  <2>1. /\ v \in Seq(Nat \X Nat) /\ DOMAIN v = 1..a + b
        /\ \A i \in 1..a + b : v[i] = IF i <= a THEN ps[i] ELSE t[i - a]
    BY <1>3, ConcatIs
  <2> HIDE DEF v, a
  <2>2. \A i \in 1..a : i \in 1..a + b /\ i <= a
    BY <1>2
  <2>3. \A p \in 1..b : a + p \in 1..a + b /\ ~(a + p <= a) /\ (a + p) - a = p
    BY <1>2
  <2> QED
    BY <2>1, <2>2, <2>3
<1> HIDE DEF v, a
<1>5. /\ \A i \in 1..a : i \in 1..a + b
      /\ \A p \in 1..b : a + p \in 1..a + b
      /\ \A i \in 1..a + b : i \in 1..a \/ (i - a \in 1..b /\ i = a + (i - a))
  BY <1>2
<1>6. \A i \in 1..a + b : i \notin 1..a => i - a \in 1..b /\ v[i] = <<n + 1, i - a>>
  BY <1>2, <1>3, <1>4, <1>5
<1>7. Of(w, K) = Of(q, K) \cup {n + 1} /\ Of(q, K) \subseteq 1..n
  <2>1. \A k \in 1..n + 1 : k \in 1..n \/ k = n + 1
    BY <1>1
  <2>2. 1..n \subseteq 1..n + 1 /\ n + 1 \in 1..n + 1
    BY <1>1
  <2> QED
    BY <1>1, <2>1, <2>2 DEF Of
<1>8. \A i \in 1..a : v[i][1] \in Of(q, K) /\ v[i][2] \in 1..q[v[i][1]].parts
  BY <1>2, <1>4 DEF IsText
<1>9. ASSUME NEW k \in Of(w, K), NEW p \in 1..w[k].parts
      PROVE  \E i \in DOMAIN v : v[i] = <<k, p>>
  <2>1. CASE k = n + 1
    <3>1. p \in 1..b
      BY <1>1, <2>1 DEF b
    <3>2. a + p \in DOMAIN v /\ v[a + p] = <<k, p>>
      BY <1>3, <1>4, <1>5, <2>1, <3>1
    <3> QED
      BY <3>2
  <2>2. CASE k \in Of(q, K)
    <3>1. w[k] = q[k]
      BY <1>1, <1>7, <2>2
    <3>2. PICK i \in DOMAIN ps : ps[i] = <<k, p>>
      BY <2>2, <3>1 DEF IsText
    <3> QED
      BY <1>2, <1>4, <1>5, <3>2
  <2> QED
    BY <1>7, <2>1, <2>2
<1>10. ASSUME NEW i \in DOMAIN v
       PROVE  v[i][1] \in Of(w, K) /\ v[i][2] \in 1..w[v[i][1]].parts
  <2>1. CASE i \in 1..a
    BY <1>1, <1>7, <1>8, <2>1
  <2>2. CASE i \notin 1..a
    BY <1>1, <1>4, <1>6, <1>7, <2>2 DEF b
  <2> QED
    BY <2>1, <2>2
<1>11. ASSUME NEW i \in DOMAIN v, NEW j \in DOMAIN v, i < j
       PROVE  Before(v[i], v[j])
  <2>0. i \in Int /\ j \in Int
    BY <1>4
  <2>1. CASE j \in 1..a
    <3>1. i \in 1..a
      BY <1>2, <1>4, <1>11, <2>1
    <3> QED
      BY <1>2, <1>4, <1>11, <2>1, <3>1 DEF IsText
  <2>2. CASE i \in 1..a /\ j \notin 1..a
    <3>1. v[i][1] \in 1..n
      BY <1>7, <1>8, <2>2
    <3>2. v[j][1] = n + 1
      BY <1>4, <1>6, <2>2
    <3> QED
      BY <1>1, <3>1, <3>2 DEF Before
  <2>3. CASE i \notin 1..a /\ j \notin 1..a
    <3>1. v[i] = <<n + 1, i - a>> /\ v[j] = <<n + 1, j - a>>
      BY <1>4, <1>6, <2>3
    <3>2. i - a < j - a
      BY <1>2, <1>11, <2>0
    <3> QED
      BY <3>1, <3>2 DEF Before
  <2> QED
    BY <2>1, <2>2, <2>3
<1>12. v \in Seq(Nat \X Nat) /\ IsText(v, w, K)
  BY <1>4, <1>9, <1>10, <1>11 DEF IsText
<1> QED
  BY <1>12 DEF v, t, w, b, n

LEMMA TextInitOK == AdapterInit => TextInv
  BY WireAssumption DEF AdapterInit, TextInv

\* The parts of a line, passed on as they come.
LEMMA PiecesKeep ==
  ASSUME TextInv, NEW l, Reads(l), l.shape = "json",
         pieces' = pieces \o PiecesOf(l, Len(lines')), outcome' = "reading"
  PROVE  TextInv'
<1> DEFINE K == CarrierLines(adapter)
           t == [p \in 1..l.parts |-> <<Len(lines) + 1, p>>]
<1>1. /\ l \in WireLines /\ lines \in Seq(WireLines) /\ lines' = Append(lines, l)
      /\ pieces \in Seq(Nat \X Nat) /\ IsText(pieces, lines, K) /\ adapter' = adapter
  BY WireAssumption DEF Reads, TextInv
<1>2. lines' \in Seq(WireLines) /\ Len(lines') = Len(lines) + 1
  BY <1>1
<1>3. l \in K <=> ~(adapter = "anthropic" /\ l.type # "content_block_delta")
  BY <1>1 DEF CarrierLines
<1>4. CASE l \in K
  <2>1. pieces' = pieces \o t
    BY <1>2, <1>3, <1>4 DEF PiecesOf
  <2> HIDE DEF K
  <2>2. pieces \o t \in Seq(Nat \X Nat) /\ IsText(pieces \o t, Append(lines, l), K)
    BY <1>1, <1>4, TextAfterPieces
  <2>3. pieces' \in Seq(Nat \X Nat) /\ IsText(pieces', lines', K)
    BY <1>1, <2>1, <2>2
  <2> QED
    BY <1>1, <1>2, <2>3 DEF TextInv, K
<1>5. CASE l \notin K
  <2>1. pieces' = pieces
    BY <1>1, <1>3, <1>5 DEF PiecesOf
  <2> HIDE DEF K
  <2>2. IsText(pieces', lines', K)
    BY <1>1, <1>5, <2>1, TextAfterSilent
  <2> QED
    BY <1>1, <1>2, <2>1, <2>2 DEF TextInv, K
<1> QED
  BY <1>4, <1>5

\* A line that is no JSON object leaves the text as it is; after a failure nothing
\* is said of it.
LEMMA SilentKeeps ==
  ASSUME TextInv, NEW l, Reads(l), pieces' = pieces, outcome' # "idle",
         l.shape # "json" \/ outcome' \notin {"reading", "complete"}
  PROVE  TextInv'
<1>1. /\ l \in WireLines /\ lines \in Seq(WireLines) /\ lines' = Append(lines, l)
      /\ pieces \in Seq(Nat \X Nat) /\ IsText(pieces, lines, CarrierLines(adapter))
      /\ adapter' = adapter
  BY WireAssumption DEF Reads, TextInv
<1>2. lines' \in Seq(WireLines)
  BY <1>1
<1>3. ASSUME l.shape # "json"
      PROVE  IsText(pieces, lines', CarrierLines(adapter))
  <2>1. l \notin CarrierLines(adapter)
    BY <1>3 DEF CarrierLines
  <2> QED
    BY <1>1, <2>1, TextAfterSilent
<1> QED
  BY <1>1, <1>2, <1>3 DEF TextInv

LEMMA TextStepKeeps ==
  ASSUME TextInv, StreamStep
  PROVE  TextInv'
<1>1. CASE TransportFails \/ EndOfStream
  BY <1>1 DEF TextInv, TransportFails, EndOfStream, Failed
<1>2. CASE ReadLine
  <2>1. PICK l \in Wire[adapter] :
          \/ SkipLine(l) \/ Done(l) \/ NoObject(l)
          \/ OpenAIStream(l) \/ AnthropicStream(l) \/ GeminiStream(l)
          \/ MeteredLine(l) \/ AnthropicLine(l) \/ GeminiLine(l)
    BY <1>2 DEF ReadLine
  <2>2. CASE SkipLine(l) \/ Done(l) \/ NoObject(l)
    BY <2>2, SilentKeeps DEF SkipLine, Done, NoObject, Reads
  <2>3. CASE OpenAIStream(l) \/ AnthropicStream(l) \/ GeminiStream(l)
    <3>1. PICK e \in BOOLEAN : StreamLine(l, e)
      BY <2>1, <2>3, WireAssumption
         DEF OpenAIStream, AnthropicStream, GeminiStream, TextInv, WireLines
    <3>2. CASE e
      BY <3>1, <3>2, SilentKeeps DEF StreamLine, Reads
    <3>3. CASE ~e
      BY <3>1, <3>3, PiecesKeep DEF StreamLine, Reads
    <3> QED
      BY <3>2, <3>3
  <2>4. CASE MeteredLine(l)
    BY <2>4, SilentKeeps, PiecesKeep DEF MeteredLine, Reads
  <2>5. CASE AnthropicLine(l)
    BY <2>5, PiecesKeep DEF AnthropicLine, Reads
  <2>6. CASE GeminiLine(l)
    BY <2>6, SilentKeeps, PiecesKeep DEF GeminiLine, Reads
  <2> QED
    BY <2>1, <2>2, <2>3, <2>4, <2>5, <2>6
<1> QED
  BY <1>1, <1>2 DEF StreamStep

-----------------------------------------------------------------------------
(* The turn                                                                *)

TurnInv == RetryInv /\ UsageInv /\ TextInv

\* Opening the response counts nothing yet.
LEMMA OpenKeeps ==
  ASSUME UsageInv, TextInv, NEW a \in DOMAIN Wire, NEW m \in {"stream", "stream_with_usage"},
         OpenStream(a, m)
  PROVE  UsageInv' /\ TextInv'
<1>1. /\ lines = <<>> /\ meter = Unmetered /\ usage = Unmetered /\ pieces = <<>>
      /\ lines' = lines /\ meter' = meter /\ usage' = usage /\ pieces' = pieces
      /\ outcome' = "reading" /\ adapter' = a /\ method' = m
  BY DEF OpenStream, UsageInv, TextInv
<1>2. Shape' /\ \A K \in Kinds : HasLast(lines', K)
  <2>1. Fresh'
    BY <1>1 DEF Fresh
  <2>2. CountedSoFar'
    BY <2>1, FreshShape, PTL
  <2> QED
    BY <2>2 DEF CountedSoFar
<1>3. UsageInv'
  BY <1>1, <1>2 DEF UsageInv, UsageIsFinalReport
<1>4. TextInv'
  <2>1. \A K : Of(lines', K) = {}
    BY <1>1 DEF Of
  <2> QED
    BY <1>1, <2>1 DEF TextInv, IsText
<1> QED
  BY <1>3, <1>4

\* Each step of the turn is a step of one of the machines, or of neither.
LEMMA TurnStepIs ==
  ASSUME [TurnNext]_turnVars
  PROVE  /\ RetryStep \/ UNCHANGED retryVars
         /\ \/ StreamStep \/ UNCHANGED adapterVars
            \/ \E a \in DOMAIN Wire, m \in {"stream", "stream_with_usage"} : OpenStream(a, m)
<1>1. CASE UNCHANGED turnVars
  BY <1>1 DEF turnVars
<1>2. CASE \E s \in Scopes : Search(s) \/ TextQueryFails(s)
                             \/ \E b \in BotPrompts : Combine(s, b)
  BY <1>2 DEF Search, TextQueryFails, Combine
<1>3. CASE PrepareFails \/ Build \/ (\E p \in Prompts : RejectContext(p)) \/ HistoryFails
  BY <1>3 DEF PrepareFails, Build, RejectContext, HistoryFails
<1>4. CASE StartStream
  BY <1>4 DEF StartStream
<1>5. CASE StartPost \/ StartVerifier \/ Decode
  BY <1>5 DEF StartPost, StartVerifier, Decode
<1>6. CASE Streaming
  BY <1>6 DEF Streaming
<1>7. CASE Posting
  BY <1>7 DEF Posting
<1> QED
  BY <1>1, <1>2, <1>3, <1>4, <1>5, <1>6, <1>7 DEF TurnNext

LEMMA TurnStepKeeps == TurnInv /\ [TurnNext]_turnVars => TurnInv'
<1> SUFFICES ASSUME TurnInv, [TurnNext]_turnVars
             PROVE  TurnInv'
  OBVIOUS
<1>1. RetryInv'
  BY TurnStepIs, RetryStepKeeps DEF TurnInv
<1>2. ASSUME UNCHANGED adapterVars
      PROVE  UsageInv' /\ TextInv'
  <2>1. /\ adapter' = adapter /\ method' = method /\ lines' = lines /\ pieces' = pieces
        /\ meter' = meter /\ usage' = usage /\ outcome' = outcome
    BY <1>2 DEF adapterVars
  <2>2. LastOf(Reports)' = LastOf(Reports) /\ Reports' = Reports
    BY <2>1 DEF LastOf, Reports
  <2>3. LastOf(Starts)' = LastOf(Starts) /\ LastOf(Deltas)' = LastOf(Deltas)
    BY <2>1 DEF LastOf, Starts, Deltas
  <2>4. LastOf(Totals)' = LastOf(Totals)
    BY <2>1 DEF LastOf, Totals
  <2>5. UsageIsFinalReport' = UsageIsFinalReport
    BY <2>1, <2>2, <2>3, <2>4 DEF UsageIsFinalReport
  <2>6. Shape' = Shape
    BY <2>1 DEF Shape, OpenAIShape, AnthropicShape, GeminiShape
  <2>7. UsageInv'
    BY <2>1, <2>5, <2>6 DEF TurnInv, UsageInv
  <2>8. TextInv'
    BY <2>1 DEF TurnInv, TextInv
  <2> QED
    BY <2>7, <2>8
<1> QED
  BY <1>1, <1>2, TurnStepIs, StreamStepKeeps, TextStepKeeps, OpenKeeps DEF TurnInv

\* The invariant of the request and of the stream holds in every turn.
THEOREM TurnInvariance == TurnSpec => []TurnInv
<1>1. TurnInit => TurnInv
  BY RetryInitOK, UsageInitOK, TextInitOK DEF TurnInit, TurnInv
<1> QED
  BY <1>1, TurnStepKeeps, PTL DEF TurnSpec

\* post_with_retry repeats a request only after a transient failure, and its caller
\* gets what the last post came to, whatever the headers, delays and deadline are.
THEOREM OnlyTransientIsRepeated == TurnSpec => []OnlyTransientRepeated
<1>1. RetryInv => OnlyTransientRepeated
  <2> SUFFICES ASSUME RetryInv
               PROVE  OnlyTransientRepeated
    OBVIOUS
  <2>1. \A k \in 1..Len(results) - 1 : k \in 1..Len(results) /\ k # Len(results)
    BY DEF RetryInv
  <2> QED
    BY <2>1 DEF RetryInv, OnlyTransientRepeated
<1> QED
  BY <1>1, TurnInvariance, PTL DEF TurnInv

PostsBounded == Len(results) <= Attempts

\* No call posts more often than PROVIDER_HTTP_MAX_ATTEMPTS allows.
THEOREM PostsAreBounded == TurnSpec => []PostsBounded
<1>1. RetryInv => PostsBounded
  BY RetryAssumption DEF RetryInv, PostsBounded
<1> QED
  BY <1>1, TurnInvariance, PTL DEF TurnInv

\* A stream that ends well is settled with the provider's final report, for any
\* number of lines in any order.
THEOREM FinalReportIsSettled == TurnSpec => []UsageIsFinalReport
<1>1. UsageInv => UsageIsFinalReport
  BY DEF UsageInv
<1> QED
  BY <1>1, TurnInvariance, PTL DEF TurnInv

\* The handler is given the text of the well-formed lines, once and in order, for
\* any number of lines in any order.
THEOREM AnswerIsTheText == TurnSpec => []TextIsWire
  BY TurnInvariance, TextInvImplies, PTL DEF TurnInv

-----------------------------------------------------------------------------
(* Reciprocal rank fusion                                                  *)

Fractions == [num : Nat, den : Nat \ {0}]

AtMost(a, b) == a.num * b.den <= b.num * a.den

LEMMA GreaterIs ==
  ASSUME NEW a \in Fractions, NEW b \in Fractions
  PROVE  /\ Greater(a, b) <=> ~AtMost(a, b)
         /\ AtMost(a, a)
         /\ AtMost(a, b) \/ AtMost(b, a)
<1>1. a.num \in Nat /\ a.den \in Nat /\ b.num \in Nat /\ b.den \in Nat
  BY DEF Fractions
<1>2. a.num * b.den \in Int /\ b.num * a.den \in Int /\ a.num * a.den \in Int
  BY <1>1
<1> QED
  BY <1>2 DEF Greater, AtMost

LEMMA AtMostCarries ==
  ASSUME NEW a \in Fractions, NEW b \in Fractions, NEW c \in Fractions,
         AtMost(a, b), AtMost(b, c)
  PROVE  AtMost(a, c)
<1> DEFINE an == a.num
           ad == a.den
           bn == b.num
           bd == b.den
           cn == c.num
           cd == c.den
<1>1. /\ an \in Nat /\ bn \in Nat /\ cn \in Nat /\ ad \in Nat /\ bd \in Nat /\ cd \in Nat /\ bd >= 1
      /\ an * bd <= bn * ad /\ bn * cd <= cn * bd
  BY DEF Fractions, AtMost
<1> SUFFICES an * cd <= cn * ad
  BY DEF AtMost
<1> HIDE DEF an, ad, bn, bd, cn, cd
<1>2. (an * bd) * cd <= (bn * ad) * cd
  BY <1>1, TimesLeq
<1>3. (bn * cd) * ad <= (cn * bd) * ad
  BY <1>1, TimesLeq
<1>4. (an * bd) * cd = (an * cd) * bd /\ (bn * ad) * cd = (bn * cd) * ad /\ (cn * bd) * ad = (cn * ad) * bd
  BY <1>1
<1>5. an * cd \in Int /\ cn * ad \in Int /\ (an * cd) * bd <= (cn * ad) * bd
  BY <1>1, <1>2, <1>3, <1>4
<1> QED
  BY <1>1, <1>5, TimesCancel

LEMMA PlusType ==
  ASSUME NEW a \in Fractions, NEW b \in Fractions
  PROVE  Plus(a, b) \in Fractions
<1>1. a.num \in Nat /\ a.den \in Nat /\ b.num \in Nat /\ b.den \in Nat /\ a.den >= 1 /\ b.den >= 1
  BY DEF Fractions
<1>2. a.num * b.den + b.num * a.den \in Nat
  BY <1>1
<1>3. a.den * b.den \in Nat
  BY <1>1
<1>4. 1 * b.den <= a.den * b.den
  BY <1>1, TimesLeq
<1>5. a.den * b.den # 0
  BY <1>1, <1>3, <1>4
<1> QED
  BY <1>2, <1>3, <1>5 DEF Plus, Fractions

\* A sum of no smaller fractions is no smaller, and greater if one of them is.
LEMMA PlusGrows ==
  ASSUME NEW a \in Fractions, NEW b \in Fractions, NEW c \in Fractions, NEW d \in Fractions,
         AtMost(a, c), AtMost(b, d), Greater(c, a) \/ Greater(d, b)
  PROVE  Greater(Plus(c, d), Plus(a, b))
<1> DEFINE an == a.num
           ad == a.den
           bn == b.num
           bd == b.den
           cn == c.num
           cd == c.den
           dn == d.num
           dd == d.den
<1>1. /\ an \in Nat /\ bn \in Nat /\ cn \in Nat /\ dn \in Nat
      /\ ad \in Nat /\ bd \in Nat /\ cd \in Nat /\ dd \in Nat
      /\ ad >= 1 /\ bd >= 1 /\ cd >= 1 /\ dd >= 1
      /\ an * cd <= cn * ad /\ bn * dd <= dn * bd
      /\ cn * ad > an * cd \/ dn * bd > bn * dd
  BY DEF Fractions, AtMost, Greater
<1> SUFFICES (cn * dd + dn * cd) * (ad * bd) > (an * bd + bn * ad) * (cd * dd)
  BY DEF Greater, Plus
<1> HIDE DEF an, ad, bn, bd, cn, cd, dn, dd
<1> DEFINE p == an * cd
           q == cn * ad
           r == bn * dd
           s == dn * bd
           u == bd * dd
           v == ad * cd
<1>2. /\ p \in Int /\ q \in Int /\ r \in Int /\ s \in Int /\ u \in Nat /\ v \in Nat /\ u >= 1 /\ v >= 1
      /\ p <= q /\ r <= s /\ (q > p \/ s > r)
  BY <1>1
<1>3. (cn * dd + dn * cd) * (ad * bd) = q * u + s * v
  BY <1>1
<1>4. (an * bd + bn * ad) * (cd * dd) = p * u + r * v
  BY <1>1
<1> HIDE DEF p, q, r, s, u, v
<1>5. p * u <= q * u /\ r * v <= s * v
  BY <1>2, TimesLeq
<1>6. q > p => p * u < q * u
  BY <1>2
<1>7. s > r => r * v < s * v
  BY <1>2
<1>8. p * u \in Int /\ q * u \in Int /\ r * v \in Int /\ s * v \in Int
  BY <1>2
<1> QED
  BY <1>2, <1>3, <1>4, <1>5, <1>6, <1>7, <1>8

\* A list of rows, none of them twice.
IsRows(s) == s \in Seq(ToSet(s)) /\ IsInjective(s)

LEMMA RankIs ==
  ASSUME NEW s, IsRows(s), NEW c \in ToSet(s)
  PROVE  Rank(s, c) \in 1..Len(s) /\ Len(s) \in Nat /\ s[Rank(s, c)] = c
<1>1. \E i \in DOMAIN s : s[i] = c
  BY DEF ToSet
<1>2. Rank(s, c) \in DOMAIN s /\ s[Rank(s, c)] = c
  BY <1>1 DEF Rank
<1>3. DOMAIN s = 1..Len(s) /\ Len(s) \in Nat
  BY DEF IsRows
<1> QED
  BY <1>2, <1>3

LEMMA ReciprocalType ==
  ASSUME NEW s, IsRows(s), NEW c
  PROVE  Reciprocal(s, c) \in Fractions
<1>1. CASE c \in ToSet(s)
  <2>1. RrfK + Rank(s, c) \in Nat \ {0}
    BY <1>1, RankIs, RetrievalAssumption
  <2> QED
    BY <1>1, <2>1 DEF Reciprocal, Fractions
<1>2. CASE c \notin ToSet(s)
  BY <1>2 DEF Reciprocal, Fractions
<1> QED
  BY <1>1, <1>2

LEMMA ScoreType ==
  ASSUME NEW v, IsRows(v), NEW t, IsRows(t), NEW c
  PROVE  Score(v, t, c) \in Fractions
  BY ReciprocalType, PlusType DEF Score

\* A row that is placed earlier counts for more.
LEMMA NoWorseCounts ==
  ASSUME NEW s, IsRows(s), NEW c, NEW d, NoWorse(s, c, d), c # d
  PROVE  /\ AtMost(Reciprocal(s, d), Reciprocal(s, c))
         /\ d \in ToSet(s) => Greater(Reciprocal(s, c), Reciprocal(s, d))
<1>1. CASE d \in ToSet(s)
  <2>1. c \in ToSet(s) /\ Rank(s, c) <= Rank(s, d)
    BY <1>1 DEF NoWorse
  <2> DEFINE i == Rank(s, c)
             j == Rank(s, d)
  <2>2. i \in Nat /\ j \in Nat /\ i <= j /\ i # j
    BY <1>1, <2>1, RankIs
  <2>3. Reciprocal(s, c) = [num |-> 1, den |-> RrfK + i] /\ Reciprocal(s, d) = [num |-> 1, den |-> RrfK + j]
    BY <1>1, <2>1 DEF Reciprocal
  <2> HIDE DEF i, j
  <2> QED
    BY <2>2, <2>3, RetrievalAssumption DEF AtMost, Greater
<1>2. CASE d \notin ToSet(s)
  <2>1. Reciprocal(s, d) = [num |-> 0, den |-> 1]
    BY <1>2 DEF Reciprocal
  <2> DEFINE e == Reciprocal(s, c)
  <2>2. e.num \in Nat /\ e.den \in Nat
    BY ReciprocalType DEF Fractions
  <2> HIDE DEF e
  <2>3. 0 * e.den <= e.num * 1
    BY <2>2
  <2> QED
    BY <1>2, <2>1, <2>3 DEF AtMost, e
<1> QED
  BY <1>1, <1>2

\* A row that both queries prefer comes first.
LEMMA DominatesIsSooner ==
  ASSUME NEW v, IsRows(v), NEW t, IsRows(t), NEW c, NEW d \in ToSet(v) \cup ToSet(t),
         Dominates(v, t, c, d)
  PROVE  Sooner(v, t, c, d)
<1>1. c # d /\ NoWorse(v, c, d) /\ NoWorse(t, c, d)
  BY DEF Dominates
<1>2. /\ AtMost(Reciprocal(v, d), Reciprocal(v, c))
      /\ d \in ToSet(v) => Greater(Reciprocal(v, c), Reciprocal(v, d))
  BY <1>1, NoWorseCounts
<1>3. /\ AtMost(Reciprocal(t, d), Reciprocal(t, c))
      /\ d \in ToSet(t) => Greater(Reciprocal(t, c), Reciprocal(t, d))
  BY <1>1, NoWorseCounts
<1>4. Greater(Score(v, t, c), Score(v, t, d))
  BY <1>2, <1>3, ReciprocalType, PlusGrows DEF Score
<1> QED
  BY <1>4 DEF Sooner

\* Each row has a place of its own in the dictionary.
LEMMA InsertedType ==
  ASSUME NEW v, IsRows(v), NEW t, IsRows(t), NEW c \in ToSet(v) \cup ToSet(t)
  PROVE  /\ Inserted(v, t, c) \in Nat
         /\ \A d \in ToSet(v) \cup ToSet(t) : Inserted(v, t, c) = Inserted(v, t, d) => c = d
<1>1. \A x \in ToSet(v) : Rank(v, x) \in 1..Len(v) /\ Len(v) \in Nat /\ v[Rank(v, x)] = x
  BY RankIs
<1>2. \A x \in ToSet(t) : Rank(t, x) \in 1..Len(t) /\ Len(t) \in Nat /\ t[Rank(t, x)] = x
  BY RankIs
<1>3. Len(v) \in Nat /\ Len(t) \in Nat
  BY DEF IsRows
<1>4. ASSUME NEW x \in ToSet(v) \cup ToSet(t)
      PROVE  /\ x \in ToSet(v) => Inserted(v, t, x) = Rank(v, x) /\ Inserted(v, t, x) \in 1..Len(v)
             /\ x \notin ToSet(v) => /\ Inserted(v, t, x) = Len(v) + Rank(t, x) /\ Rank(t, x) \in Nat
                                     /\ Inserted(v, t, x) \in Nat /\ Inserted(v, t, x) > Len(v)
                                     /\ x \in ToSet(t)
  <2>1. CASE x \in ToSet(v)
    BY <1>1, <2>1 DEF Inserted
  <2>2. CASE x \notin ToSet(v)
    <3>1. x \in ToSet(t) /\ Rank(t, x) \in 1..Len(t)
      BY <1>2, <2>2
    <3>2. Inserted(v, t, x) = Len(v) + Rank(t, x)
      BY <2>2 DEF Inserted
    <3> QED
      BY <1>3, <2>2, <3>1, <3>2
  <2> QED
    BY <2>1, <2>2
<1>5. Inserted(v, t, c) \in Nat
  BY <1>3, <1>4
<1>6. ASSUME NEW d \in ToSet(v) \cup ToSet(t), Inserted(v, t, c) = Inserted(v, t, d)
      PROVE  c = d
  <2>1. CASE c \in ToSet(v)
    <3>1. d \in ToSet(v)
      BY <1>3, <1>4, <1>6, <2>1
    <3>2. Rank(v, c) = Rank(v, d)
      BY <1>4, <1>6, <2>1, <3>1
    <3> QED
      BY <1>1, <2>1, <3>1, <3>2
  <2>2. CASE c \notin ToSet(v)
    <3>1. d \notin ToSet(v)
      BY <1>3, <1>4, <1>6, <2>2
    <3>2. Len(v) + Rank(t, c) = Len(v) + Rank(t, d) /\ Rank(t, c) \in Nat /\ Rank(t, d) \in Nat
      BY <1>4, <1>6, <2>2, <3>1
    <3>3. Rank(t, c) = Rank(t, d)
      BY <1>3, <3>2
    <3>4. c \in ToSet(t) /\ d \in ToSet(t)
      BY <1>4, <2>2, <3>1
    <3> QED
      BY <1>2, <3>3, <3>4
  <2> QED
    BY <2>1, <2>2
<1> QED
  BY <1>5, <1>6

\* The order in which the rows are sorted.
RowOrder(v, t) ==
  LET rows == ToSet(v) \cup ToSet(t) IN {p \in rows \X rows : Sooner(v, t, p[1], p[2])}

LEMMA SoonerIsLinear ==
  ASSUME NEW v, IsRows(v), NEW t, IsRows(t)
  PROVE  IsLinear(ToSet(v) \cup ToSet(t), RowOrder(v, t))
<1> DEFINE rows == ToSet(v) \cup ToSet(t)
           R == RowOrder(v, t)
           S(c) == Score(v, t, c)
           I(c) == Inserted(v, t, c)
<1>1. \A x, y \in rows : <<x, y>> \in R <=> Sooner(v, t, x, y)
  BY DEF RowOrder
<1>2. \A x, y \in rows : Sooner(v, t, x, y)
                         <=> ~AtMost(S(x), S(y)) \/ (AtMost(S(y), S(x)) /\ I(x) < I(y))
  BY ScoreType, GreaterIs DEF Sooner
<1>3. \A x, y \in rows : AtMost(S(x), S(x)) /\ (AtMost(S(x), S(y)) \/ AtMost(S(y), S(x)))
  BY ScoreType, GreaterIs
<1>4. \A x, y, z \in rows : AtMost(S(x), S(y)) /\ AtMost(S(y), S(z)) => AtMost(S(x), S(z))
  BY ScoreType, AtMostCarries
<1>5. \A x \in rows : I(x) \in Nat
  BY InsertedType
<1>6. \A x, y \in rows : I(x) = I(y) => x = y
  BY InsertedType
<1> HIDE DEF rows, R, S, I
<1>7. \A x \in rows : <<x, x>> \notin R
  BY <1>1, <1>2, <1>3, <1>5
<1>8. ASSUME NEW x \in rows, NEW y \in rows, NEW z \in rows, <<x, y>> \in R, <<y, z>> \in R
      PROVE  <<x, z>> \in R
  <2>1. ~AtMost(S(x), S(y)) \/ (AtMost(S(y), S(x)) /\ I(x) < I(y))
    BY <1>1, <1>2, <1>8
  <2>2. ~AtMost(S(y), S(z)) \/ (AtMost(S(z), S(y)) /\ I(y) < I(z))
    BY <1>1, <1>2, <1>8
  <2>3. I(x) \in Nat /\ I(y) \in Nat /\ I(z) \in Nat
    BY <1>5
  <2>4. ~AtMost(S(x), S(z)) \/ (AtMost(S(z), S(x)) /\ I(x) < I(z))
    BY <1>3, <1>4, <2>1, <2>2, <2>3
  <2> QED
    BY <1>1, <1>2, <2>4
<1>9. ASSUME NEW x \in rows, NEW y \in rows, x # y
      PROVE  <<x, y>> \in R \/ <<y, x>> \in R
  <2>1. I(x) < I(y) \/ I(y) < I(x)
    BY <1>5, <1>6, <1>9
  <2> QED
    BY <1>1, <1>2, <1>3, <2>1
<1> QED
  BY <1>7, <1>8, <1>9 DEF IsLinear, rows, R

LEMMA RowsFinite ==
  ASSUME NEW v, IsRows(v), NEW t, IsRows(t)
  PROVE  IsFiniteSet(ToSet(v) \cup ToSet(t))
<1>1. \A s : IsRows(s) => IsFiniteSet(ToSet(s))
  <2> SUFFICES ASSUME NEW s, IsRows(s)
               PROVE  IsFiniteSet(ToSet(s))
    OBVIOUS
  <2>1. DOMAIN s = 1..Len(s) /\ Len(s) \in Nat /\ s \in [1..Len(s) -> ToSet(s)]
    BY DEF IsRows
  <2>2. s \in Surjection(1..Len(s), ToSet(s))
    BY <2>1 DEF Surjection, ToSet
  <2>3. IsFiniteSet(1..Len(s))
    BY <2>1, FS_Interval
  <2> QED
    BY <2>2, <2>3, FS_Surjection
<1> QED
  BY <1>1, FS_Union

\* The ranking takes the rows in their order.
LEMMA FusedIs ==
  ASSUME NEW v, IsRows(v), NEW t, IsRows(t)
  PROVE  LET rows == ToSet(v) \cup ToSet(t)
             n == Min({SearchLimit, Cardinality(rows)})
         IN  /\ n \in Nat /\ n <= Cardinality(rows)
             /\ Fused(v, t) \in [1..n -> rows]
             /\ \A k \in 1..n : Place(rows, RowOrder(v, t), Fused(v, t)[k]) = k - 1
<1> DEFINE rows == ToSet(v) \cup ToSet(t)
           n == Min({SearchLimit, Cardinality(rows)})
           R == RowOrder(v, t)
<1>1. Enumerated(rows, R)
  BY RowsFinite, SoonerIsLinear, Ranked
<1>2. n \in Nat /\ n <= Cardinality(rows)
  <2> DEFINE m == Cardinality(rows)
  <2>1. m \in Nat /\ m \in Int /\ SearchLimit \in Nat /\ SearchLimit \in Int
    BY <1>1, RetrievalAssumption DEF Enumerated
  <2> HIDE DEF m
  <2>2. Min({SearchLimit, m}) \in {SearchLimit, m} /\ Min({SearchLimit, m}) <= m
    BY <2>1, MinOfTwo, Zenon
  <2> QED
    BY <2>1, <2>2 DEF m
<1>3. \A c \in rows : {d \in rows : Sooner(v, t, d, c)} = Below(rows, R, c)
  BY DEF Below, RowOrder
<1> DEFINE Chosen(k) == CHOOSE c \in rows : Cardinality({d \in rows : Sooner(v, t, d, c)}) = k - 1
<1>4. ASSUME NEW k \in 1..n
      PROVE  Chosen(k) \in rows /\ Place(rows, R, Chosen(k)) = k - 1
  <2>0. k \in 1..Cardinality(rows) /\ Cardinality(rows) \in Nat
    <3> HIDE DEF n, rows
    <3> QED
      BY <1>1, <1>2 DEF Enumerated
  <2>1. PICK c \in rows : Place(rows, R, c) = k - 1
    <3> HIDE DEF n, rows, R
    <3> QED
      BY <1>1, <2>0 DEF Enumerated
  <2>2. \E x \in rows : Cardinality({d \in rows : Sooner(v, t, d, x)}) = k - 1
    BY <1>3, <2>1 DEF Place
  <2>3. Chosen(k) \in rows /\ Cardinality({d \in rows : Sooner(v, t, d, Chosen(k))}) = k - 1
    BY <2>2
  <2> HIDE DEF Chosen
  <2> QED
    BY <1>3, <2>3 DEF Place
<1>5. Fused(v, t) = [k \in 1..n |-> Chosen(k)]
  BY DEF Fused
<1> HIDE DEF Chosen
<1> QED
  BY <1>2, <1>4, <1>5

LEMMA FusedIsFusion ==
  ASSUME NEW v, IsRows(v), NEW t, IsRows(t)
  PROVE  IsFusion(v, t, Fused(v, t))
<1> DEFINE rows == ToSet(v) \cup ToSet(t)
           n == Min({SearchLimit, Cardinality(rows)})
           R == RowOrder(v, t)
           f == Fused(v, t)
<1>1. Enumerated(rows, R)
  BY RowsFinite, SoonerIsLinear, Ranked
<1>2. /\ n \in Nat /\ n <= Cardinality(rows) /\ f \in [1..n -> rows]
      /\ \A k \in 1..n : Place(rows, R, f[k]) = k - 1
  BY FusedIs
<1>3. \A c, d \in rows : Dominates(v, t, c, d) => <<c, d>> \in R
  BY DominatesIsSooner DEF RowOrder
<1> HIDE DEF n, f, R
<1>4. IsInjective(f)
  BY <1>2 DEF IsInjective
<1>5. Len(f) = n
  BY <1>2
<1>6. ASSUME NEW i \in DOMAIN f, NEW c \in rows, Dominates(v, t, c, f[i])
      PROVE  \E j \in 1..i - 1 : f[j] = c
  <2>1. i \in 1..n /\ f[i] \in rows
    BY <1>2
  <2>2. <<c, f[i]>> \in R
    BY <1>3, <1>6, <2>1
  <2> HIDE DEF rows
  <2>3. Place(rows, R, c) < i - 1 /\ Place(rows, R, c) \in Nat
    BY <1>1, <1>2, <2>1, <2>2 DEF Enumerated
  <2> DEFINE j == Place(rows, R, c) + 1
  <2>4. j \in 1..i - 1 /\ j \in 1..n /\ j - 1 = Place(rows, R, c)
    BY <1>2, <2>1, <2>3
  <2>5. f[j] \in rows /\ Place(rows, R, f[j]) = Place(rows, R, c)
    BY <1>2, <2>4
  <2>6. f[j] = c
    BY <1>1, <2>5 DEF Enumerated
  <2> QED
    BY <2>4, <2>6
<1> QED
  BY <1>4, <1>5, <1>6 DEF IsFusion, n, f

-----------------------------------------------------------------------------
(* The search                                                              *)

LEMMA FetchType == FetchN \in Nat
<1> DEFINE a == SearchLimit * 4
<1>1. a \in Nat /\ a \in Int /\ FetchFloor \in Nat /\ FetchFloor \in Int
  BY RetrievalAssumption
<1> HIDE DEF a
<1>2. Max({a, FetchFloor}) \in {a, FetchFloor}
  BY <1>1, MaxOfTwo, Zenon
<1> QED
  BY <1>1, <1>2 DEF FetchN, a

\* The rows of a query.
LEMMA InjectionIsRows ==
  ASSUME NEW n \in Nat, NEW V \in SUBSET Chunks, NEW s \in Injection(1..n, V)
  PROVE  IsRows(s) /\ ToSet(s) \subseteq Chunks
<1>1. s \in [1..n -> V] /\ IsInjective(s)
  BY DEF Injection
<1>2. ToSet(s) \subseteq V /\ s \in [1..n -> ToSet(s)]
  BY <1>1 DEF ToSet
<1>3. s \in Seq(ToSet(s))
  BY <1>2
<1> QED
  BY <1>1, <1>2, <1>3 DEF IsRows

LEMMA QueriesGiveRows ==
  ASSUME NEW org, NEW scope
  PROVE  /\ \A v \in VectorRows(org, scope) : IsRows(v) /\ ToSet(v) \subseteq Chunks
         /\ \A t \in TextRows(org, scope) : IsRows(t) /\ ToSet(t) \subseteq Chunks
<1> DEFINE visible == {c \in Chunks : InScope(c, org, scope)}
           m == Cardinality(visible)
           a == Min({FetchN, m})
<1>1. visible \in SUBSET Chunks /\ IsFiniteSet(Chunks)
  BY RetrievalAssumption DEF Chunks
<1>2. VectorRows(org, scope) = Injection(1..a, visible)
  BY DEF VectorRows
<1>3. TextRows(org, scope) = UNION {Injection(1..n, visible) : n \in 0..a}
  BY DEF TextRows
<1> HIDE DEF visible
<1>4. m \in Nat
  BY <1>1, FS_Subset, FS_CardinalityType
<1> HIDE DEF m
<1>5. a \in Nat
  <2>1. a \in {FetchN, m}
    BY <1>4, FetchType, MinOfTwo
  <2> QED
    BY <1>4, <2>1, FetchType
<1> HIDE DEF a
<1>6. \A t \in TextRows(org, scope) : \E n \in 0..a : t \in Injection(1..n, visible)
  BY <1>3
<1>7. 0..a \subseteq Nat
  BY <1>5
<1> QED
  BY <1>1, <1>2, <1>5, <1>6, <1>7, InjectionIsRows

LEMMA EmptyIsRows == IsRows(<<>>) /\ ToSet(<<>>) = {}
  BY DEF IsRows, ToSet, IsInjective

LEMMA FusedIsRows ==
  ASSUME NEW v, IsRows(v), ToSet(v) \subseteq Chunks, NEW t, IsRows(t), ToSet(t) \subseteq Chunks
  PROVE  ToSet(Fused(v, t)) \subseteq Chunks
<1> DEFINE rows == ToSet(v) \cup ToSet(t)
<1>1. PICK n : Fused(v, t) \in [1..n -> rows]
  BY FusedIs
<1> QED
  BY <1>1 DEF ToSet

LEMMA KnowledgeType ==
  ASSUME NEW s, ToSet(s) \subseteq Chunks
  PROVE  KnowledgeChars(s) \in Nat
<1> DEFINE told == {c \in ToSet(s) : Corpus[c].chars > 0}
           w == [c \in told |-> SourceChars + Corpus[c].chars]
<1>1. IsFiniteSet(told)
  <2>1. told \in SUBSET Chunks /\ IsFiniteSet(Chunks)
    BY RetrievalAssumption DEF Chunks
  <2> HIDE DEF told
  <2> QED
    BY <2>1, FS_Subset
<1>2. \A c \in told : w[c] \in Nat
  BY RetrievalAssumption DEF Chunks
<1>3. KnowledgeChars(s) = IF told = {} THEN 0 ELSE PreambleChars + SumFunctionOnSet(w, told)
  BY DEF KnowledgeChars
<1> HIDE DEF told, w
<1>4. SumFunctionOnSet(w, told) \in Nat
  BY <1>1, <1>2, SumNat
<1> QED
  BY <1>3, <1>4, RetrievalAssumption

\* The context of a turn is made of one of its histories and prompts.
BuiltOf(b, blanks) ==
  /\ b.history \in Histories /\ b.prompt \in Prompts /\ b.system \in Nat
  /\ ~Rejects(b.prompt, b.system)
  /\ b.context = BuildContext(b.history, b.prompt, b.system, blanks)

PrepareInv ==
  /\ turn = "prepare" => found = Nothing
  /\ turn = "found" => /\ IsRows(found.vector) /\ IsRows(found.fts)
                       /\ found.ranked = Fused(found.vector, found.fts)
  /\ ToSet(found.ranked) \subseteq Chunks
  /\ system \in Nat
  /\ turn = "built" => \E blanks \in BlankRuns : BuiltOf(built, blanks)

LEMMA PrepareStepKeeps == PrepareInv /\ [TurnNext]_turnVars => PrepareInv'
<1> SUFFICES ASSUME PrepareInv, [TurnNext]_turnVars
             PROVE  PrepareInv'
  OBVIOUS
<1>1. ASSUME NEW s \in Scopes, Search(s)
      PROVE  PrepareInv'
  <2>1. PICK v \in VectorRows(Tenant, s), t \in TextRows(Tenant, s) : found' = Found(v, t)
    BY <1>1 DEF Search
  <2>2. IsRows(v) /\ IsRows(t) /\ ToSet(v) \subseteq Chunks /\ ToSet(t) \subseteq Chunks
    BY QueriesGiveRows
  <2>3. ToSet(Fused(v, t)) \subseteq Chunks
    BY <2>2, FusedIsRows
  <2> QED
    BY <1>1, <2>1, <2>2, <2>3 DEF PrepareInv, Search, Found
<1>2. ASSUME NEW s \in Scopes, TextQueryFails(s)
      PROVE  PrepareInv'
  <2>1. PICK v \in VectorRows(Tenant, s) : found' = Found(v, <<>>)
    BY <1>2 DEF TextQueryFails
  <2>2. IsRows(v) /\ IsRows(<<>>) /\ ToSet(v) \subseteq Chunks /\ ToSet(<<>>) \subseteq Chunks
    BY QueriesGiveRows, EmptyIsRows
  <2>3. ToSet(Fused(v, <<>>)) \subseteq Chunks
    BY <2>2, FusedIsRows
  <2> QED
    BY <1>2, <2>1, <2>2, <2>3 DEF PrepareInv, TextQueryFails, Found
<1>3. ASSUME NEW s \in Scopes, NEW b \in BotPrompts, Combine(s, b)
      PROVE  PrepareInv'
  <2> DEFINE k == KnowledgeChars(found.ranked)
  <2>1. k \in Nat /\ b \in Nat
    BY KnowledgeType, TurnAssumption DEF PrepareInv
  <2>2. system' = CombinedChars(b, k) /\ found' = Nothing /\ turn' = "history"
    BY <1>3 DEF Combine
  <2> HIDE DEF k
  <2>3. system' \in Nat
    BY <2>1, <2>2 DEF CombinedChars
  <2> QED
    BY <2>2, <2>3, EmptyIsRows DEF PrepareInv, Nothing
<1>4. CASE Build
  <2>1. PICK prompt \in Prompts, history \in Histories, blanks \in BlankRuns :
          /\ ~Rejects(prompt, system)
          /\ built' = [history |-> history, prompt |-> prompt, system |-> system,
                       context |-> BuildContext(history, prompt, system, blanks)]
    BY <1>4 DEF Build
  <2>2. BuiltOf(built', blanks)
    BY <2>1 DEF BuiltOf, PrepareInv
  <2> QED
    BY <1>4, <2>2 DEF PrepareInv, Build
<1>5. CASE \E r : EndsWith(r)
  BY <1>5, EmptyIsRows DEF EndsWith, PrepareInv, Nothing
<1>6. CASE StartStream \/ StartPost \/ StartVerifier \/ Streaming \/ Posting \/ UNCHANGED turnVars
  BY <1>6 DEF StartStream, StartPost, StartVerifier, Streaming, Posting, turnVars, prepareVars,
              PrepareInv, NotBuilt
<1> QED
  BY <1>1, <1>2, <1>3, <1>4, <1>5, <1>6
     DEF TurnNext, PrepareFails, RejectContext, HistoryFails, Decode

LEMMA PrepareInvariance == TurnSpec => []PrepareInv
<1>1. TurnInit => PrepareInv
  BY EmptyIsRows DEF TurnInit, PrepareInv, Nothing
<1> QED
  BY <1>1, PrepareStepKeeps, PTL DEF TurnSpec

\* The merged ranking agrees with both queries wherever they agree, and leaves nothing
\* out while there is room, for any rows the queries may return.
THEOREM RankingAgreesWithQueries == TurnSpec => []RankingIsFused
<1>1. PrepareInv => RankingIsFused
  BY FusedIsFusion DEF PrepareInv, RankingIsFused
<1> QED
  BY <1>1, PrepareInvariance, PTL

-----------------------------------------------------------------------------
(* The context                                                             *)

Rows == [role: STRING, chars: Nat, status: STRING, own: BOOLEAN]

\* A list of places, from newest to oldest.
Ascending(s) == s \in Seq(Int) /\ \A i, j \in 1..Len(s) : i < j => s[i] < s[j]

LEMMA InOrderIs ==
  ASSUME NEW K \in SUBSET Int, IsFiniteSet(K)
  PROVE  Ascending(InOrder(K)) /\ ToSet(InOrder(K)) \subseteq K
<1> DEFINE R == {p \in K \X K : p[1] < p[2]}
           n == Cardinality(K)
           Chosen(i) == CHOOSE k \in K : Cardinality({j \in K : j < k}) = i - 1
           g == InOrder(K)
<1>1. IsLinear(K, R)
  BY DEF IsLinear
<1>2. Enumerated(K, R)
  <2> HIDE DEF R
  <2> QED
    BY <1>1, Ranked
<1>3. \A k \in K : {j \in K : j < k} = Below(K, R, k)
  BY DEF Below
<1>4. \A x, y \in K : <<x, y>> \in R <=> x < y
  OBVIOUS
<1> HIDE DEF R
<1>5. n \in Nat
  BY <1>2 DEF Enumerated
<1>6. ASSUME NEW i \in 1..n
      PROVE  Chosen(i) \in K /\ Place(K, R, Chosen(i)) = i - 1
  <2>1. PICK x \in K : Place(K, R, x) = i - 1
    BY <1>2 DEF Enumerated
  <2>2. \E k \in K : Cardinality({j \in K : j < k}) = i - 1
    BY <1>3, <2>1 DEF Place
  <2>3. Chosen(i) \in K /\ Cardinality({j \in K : j < Chosen(i)}) = i - 1
    BY <2>2
  <2> HIDE DEF Chosen
  <2> QED
    BY <1>3, <2>3 DEF Place
<1>7. g = [i \in 1..n |-> Chosen(i)]
  BY DEF InOrder
<1> HIDE DEF Chosen, g
<1>8. g \in [1..n -> K] /\ \A i \in 1..n : Place(K, R, g[i]) = i - 1
  BY <1>6, <1>7
<1>9. Len(g) = n /\ g \in Seq(Int)
  <2>1. g \in [1..n -> Int]
    BY <1>8
  <2> HIDE DEF n
  <2> QED
    BY <1>5, <2>1
<1>10. ASSUME NEW i \in 1..n, NEW j \in 1..n, i < j
       PROVE  g[i] < g[j]
  <2>1. Place(K, R, g[i]) < Place(K, R, g[j])
    BY <1>5, <1>8, <1>10
  <2>2. g[i] \in K /\ g[j] \in K
    BY <1>8
  <2> QED
    BY <1>2, <1>4, <2>1, <2>2 DEF Enumerated
<1>11. ToSet(g) \subseteq K
  BY <1>8 DEF ToSet
<1> QED
  BY <1>9, <1>10, <1>11 DEF Ascending, g

\* f is the first n members of s, or all of them.
IsFirst(f, n, s) ==
  \E m \in 0..Len(s) : /\ m <= n /\ (m = n \/ m = Len(s))
                       /\ Len(f) = m /\ DOMAIN f = 1..m /\ \A i \in 1..m : f[i] = s[i]

LEMMA FirstIs ==
  ASSUME NEW S, NEW s \in Seq(S), NEW n \in Nat
  PROVE  First(n, s) \in Seq(S) /\ IsFirst(First(n, s), n, s) /\ ToSet(First(n, s)) \subseteq ToSet(s)
<1> DEFINE l == Len(s)
           m == Min({n, l})
<1>1. l \in Nat /\ l \in Int /\ n \in Int
  OBVIOUS
<1> HIDE DEF l
<1>2. m \in {n, l} /\ m <= n /\ m <= l
  BY <1>1, MinOfTwo, Zenon
<1>3. First(n, s) = SubSeq(s, 1, m)
  BY DEF First, l
<1> HIDE DEF m
<1>4. m \in 0..l /\ (m = n \/ m = l)
  BY <1>1, <1>2
<1>5. /\ SubSeq(s, 1, m) \in Seq(S) /\ Len(SubSeq(s, 1, m)) = m /\ DOMAIN SubSeq(s, 1, m) = 1..m
      /\ \A i \in 1..m : SubSeq(s, 1, m)[i] = s[i]
  BY <1>1, <1>4 DEF l
<1>6. ToSet(First(n, s)) \subseteq ToSet(s)
  BY <1>1, <1>3, <1>4, <1>5 DEF ToSet, l
<1> QED
  BY <1>2, <1>3, <1>4, <1>5, <1>6 DEF IsFirst, l

\* The eligible messages are questions and answers of the history, newest first.
IsEligible(h, s) ==
  /\ Ascending(s)
  /\ \A i \in 1..Len(s) : s[i] \in DOMAIN h /\ h[s[i]].role \in {"user", "assistant"}

LEMMA EligibleIs ==
  ASSUME NEW h \in Seq(Rows)
  PROVE  IsEligible(h, Eligible(h))
<1> DEFINE K == {k \in DOMAIN h : /\ h[k].status = "completed"
                                  /\ h[k].role \in {"user", "assistant"} /\ ~h[k].own}
           q == Queried(h)
           f == First(MaxSourceMessages, q)
           M == {k \in ToSet(f) : h[k].chars > 0}
           e == Eligible(h)
<1>1. DOMAIN h = 1..Len(h) /\ Len(h) \in Nat /\ IsFiniteSet(DOMAIN h)
  <2>1. DOMAIN h = 1..Len(h) /\ Len(h) \in Nat
    OBVIOUS
  <2> QED
    BY <2>1, FS_Interval
<1>2. K \in SUBSET Int /\ IsFiniteSet(K)
  <2>1. K \in SUBSET DOMAIN h /\ K \in SUBSET Int
    BY <1>1
  <2> HIDE DEF K
  <2> QED
    BY <1>1, <2>1, FS_Subset
<1>3. q = First(QueryLimit, InOrder(K))
  BY DEF Queried
<1>4. K \subseteq {k \in DOMAIN h : h[k].role \in {"user", "assistant"}}
  OBVIOUS
<1> HIDE DEF K, q
<1>5. InOrder(K) \in Seq(Int) /\ ToSet(InOrder(K)) \subseteq K
  BY <1>2, InOrderIs DEF Ascending
<1>6. q \in Seq(Int) /\ ToSet(q) \subseteq K
  BY <1>3, <1>5, FirstIs, PolicyAssumption
<1>7. ToSet(f) \subseteq K
  BY <1>6, FirstIs, PolicyAssumption
<1>8. e = InOrder(M)
  BY DEF Eligible, q
<1>9. M \in SUBSET K
  BY <1>7
<1> HIDE DEF M, e
<1>10. M \in SUBSET Int /\ IsFiniteSet(M)
  BY <1>2, <1>9, FS_Subset
<1>11. Ascending(e) /\ ToSet(e) \subseteq M
  BY <1>8, <1>10, InOrderIs
<1>12. \A i \in 1..Len(e) : e[i] \in M
  BY <1>11 DEF Ascending, ToSet
<1> QED
  BY <1>4, <1>9, <1>11, <1>12 DEF IsEligible, e

LEMMA TokensType ==
  ASSUME NEW c \in Nat
  PROVE  /\ Tokens(c) \in Nat
         /\ \A b \in Nat : c <= b * CharsPerToken => Tokens(c) <= b
<1> DEFINE p == CharsPerToken
           q == Tokens(c)
           a == c + p - 1
<1>1. p \in Nat /\ p >= 1 /\ a \in Nat
  BY PolicyAssumption
<1>2. q = a \div p
  BY DEF Tokens
<1> HIDE DEF q, p
<1>3. q \in Nat /\ q * p <= a
  <2> HIDE DEF a
  <2> QED
    BY <1>1, <1>2, Quotient
<1>4. ASSUME NEW b \in Nat, c <= b * p
      PROVE  q <= b
  <2>1. ASSUME q >= b + 1
        PROVE  FALSE
    <3>1. (b + 1) * p <= q * p
      BY <1>1, <1>3, <2>1, TimesLeq
    <3>2. (b + 1) * p = b * p + p /\ b * p \in Int /\ q * p \in Int
      BY <1>1, <1>3
    <3> QED
      BY <1>1, <1>3, <1>4, <3>1, <3>2
  <2> QED
    BY <1>3, <2>1
<1> QED
  BY <1>3, <1>4 DEF q, p

LEMMA NoTokens == Tokens(0) = 0
<1>1. Tokens(0) \in Nat /\ 0 <= 0 * CharsPerToken
  BY TokensType, PolicyAssumption
<1>2. Tokens(0) <= 0
  BY <1>1, TokensType
<1> QED
  BY <1>1, <1>2

Weights(h) == [k \in DOMAIN h |-> Tokens(h[k].chars)]

\* The first j messages of s, and their tokens.
Firsts(s, j) == {s[i] : i \in 1..j}

Cost(h, s, j) == SumFunctionOnSet(Weights(h), Firsts(s, j))

LEMMA WeightsType ==
  ASSUME NEW h \in Seq(Rows)
  PROVE  \A k \in DOMAIN h : Weights(h)[k] \in Nat /\ Weights(h)[k] = Tokens(h[k].chars)
<1> SUFFICES ASSUME NEW k \in DOMAIN h
             PROVE  Tokens(h[k].chars) \in Nat
  BY DEF Weights
<1>1. h[k] \in Rows
  OBVIOUS
<1>2. h[k].chars \in Nat
  BY <1>1 DEF Rows
<1> QED
  BY <1>2, TokensType

LEMMA HistoryFinite ==
  ASSUME NEW h \in Seq(Rows)
  PROVE  IsFiniteSet(DOMAIN h) /\ DOMAIN h \subseteq Int
<1>1. DOMAIN h = 1..Len(h) /\ Len(h) \in Nat
  OBVIOUS
<1> QED
  BY <1>1, FS_Interval

LEMMA FirstsType ==
  ASSUME NEW h \in Seq(Rows), NEW s, IsEligible(h, s)
  PROVE  /\ Len(s) \in Nat
         /\ \A j \in 0..Len(s) : Firsts(s, j) \in SUBSET DOMAIN h /\ ToSet(First(j, s)) = Firsts(s, j)
         /\ \A j \in 0..Len(s) : \A k \in 0..j : Firsts(s, k) \subseteq Firsts(s, j)
<1> DEFINE n == Len(s)
<1>1. s \in Seq(Int) /\ n \in Nat /\ \A i \in 1..n : s[i] \in DOMAIN h
  BY DEF IsEligible, Ascending
<1>2. ASSUME NEW j \in 0..n
      PROVE  ToSet(First(j, s)) = Firsts(s, j)
  <2>0. j \in Nat
    BY <1>1
  <2>1. IsFirst(First(j, s), j, s)
    BY <1>1, <2>0, FirstIs
  <2>2. DOMAIN First(j, s) = 1..j /\ \A i \in 1..j : First(j, s)[i] = s[i]
    BY <1>1, <2>1 DEF IsFirst
  <2> QED
    BY <2>2 DEF ToSet, Firsts
<1>3. ASSUME NEW j \in 0..n
      PROVE  Firsts(s, j) \in SUBSET DOMAIN h
  <2>1. \A i \in 1..j : i \in 1..n
    BY <1>1
  <2> QED
    BY <1>1, <2>1 DEF Firsts
<1>4. \A j \in 0..n : \A k \in 0..j : Firsts(s, k) \subseteq Firsts(s, j)
  BY <1>1 DEF Firsts
<1> QED
  BY <1>1, <1>2, <1>3, <1>4

LEMMA CostIs ==
  ASSUME NEW h \in Seq(Rows), NEW s, IsEligible(h, s)
  PROVE  /\ Cost(h, s, 0) = 0
         /\ \A j \in 0..Len(s) : Cost(h, s, j) \in Nat /\ Cost(h, s, j) = Size(h, First(j, s))
         /\ \A j \in 1..Len(s) : Cost(h, s, j) = Tokens(h[s[j]].chars) + Cost(h, s, j - 1)
         /\ \A j \in 0..Len(s) : \A k \in 0..j : Cost(h, s, k) <= Cost(h, s, j)
<1> DEFINE n == Len(s)
           w == Weights(h)
<1>1. n \in Nat /\ \A j \in 0..n : Firsts(s, j) \in SUBSET DOMAIN h /\ ToSet(First(j, s)) = Firsts(s, j)
  BY FirstsType
<1>2. \A k \in DOMAIN h : w[k] \in Nat
  BY WeightsType
<1>3. \A j \in 0..n : IsFiniteSet(Firsts(s, j)) /\ \A k \in Firsts(s, j) : w[k] \in Nat
  BY <1>1, <1>2, HistoryFinite, FS_Subset
<1> HIDE DEF w
<1>4. Cost(h, s, 0) = 0
  <2>1. Firsts(s, 0) = {}
    BY DEF Firsts
  <2> QED
    BY <2>1, SumEmpty DEF Cost
<1>5. \A j \in 0..n : Cost(h, s, j) \in Nat
  BY <1>3, SumNat DEF Cost, w
<1>6. \A j \in 0..n : Cost(h, s, j) = Size(h, First(j, s))
  BY <1>1 DEF Cost, Size, Weights
<1>7. ASSUME NEW j \in 1..n
      PROVE  Cost(h, s, j) = Tokens(h[s[j]].chars) + Cost(h, s, j - 1)
  <2> DEFINE S == Firsts(s, j - 1)
             x == s[j]
  <2>1. j - 1 \in 0..n /\ 1..j = 1..(j - 1) \cup {j}
    BY <1>1
  <2>2. Firsts(s, j) = S \cup {x}
    BY <2>1 DEF Firsts
  <2>3. x \in DOMAIN h /\ s \in Seq(Int) /\ \A i \in 1..n : i < j => s[i] < x
    BY DEF IsEligible, Ascending
  <2>4. x \notin S
    <3>1. \A i \in 1..j - 1 : i \in 1..n /\ i < j
      BY <1>1
    <3>2. \A i \in 1..n : s[i] \in Int
      BY <2>3
    <3> QED
      BY <2>3, <3>1, <3>2 DEF Firsts
  <2>5. w[x] \in Int /\ w[x] = Tokens(h[s[j]].chars)
    BY <2>3, WeightsType DEF w
  <2>6. IsFiniteSet(S) /\ \A k \in S : w[k] \in Int
    BY <1>3, <2>1
  <2> HIDE DEF S, x
  <2>7. SumFunctionOnSet(w, S \cup {x}) = w[x] + SumFunctionOnSet(w, S)
    BY <2>4, <2>5, <2>6, SumAdd
  <2> QED
    BY <2>2, <2>5, <2>7 DEF Cost, w, S
<1>8. ASSUME NEW j \in 0..n, NEW k \in 0..j
      PROVE  Cost(h, s, k) <= Cost(h, s, j)
  <2>1. Firsts(s, k) \subseteq Firsts(s, j)
    BY FirstsType
  <2> QED
    BY <1>3, <2>1, SumPart DEF Cost, w
<1> QED
  BY <1>4, <1>5, <1>6, <1>7, <1>8

Most(s) == Min({MaxHistoryMessages, Len(s)})

LEMMA MostType ==
  ASSUME NEW s \in Seq(Int)
  PROVE  Most(s) \in Nat /\ Most(s) <= Len(s) /\ Len(s) \in Nat
<1> DEFINE l == Len(s)
<1>1. l \in Nat /\ l \in Int /\ MaxHistoryMessages \in Nat /\ MaxHistoryMessages \in Int
  BY PolicyAssumption
<1> HIDE DEF l
<1>2. Min({MaxHistoryMessages, l}) \in {MaxHistoryMessages, l} /\ Min({MaxHistoryMessages, l}) <= l
  BY <1>1, MinOfTwo, Zenon
<1> QED
  BY <1>1, <1>2 DEF Most, l

Takings == [taken: Nat, used: Nat, full: BOOLEAN]

NoneTaken == [taken |-> 0, used |-> 0, full |-> FALSE]

\* acc is the loop of _select.
Selects(h, s, b, acc) ==
  acc = [j \in 0..Most(s) |->
           IF j = 0 THEN NoneTaken ELSE Took(acc[j - 1], Tokens(h[s[j]].chars), b)]

LEMMA SelectsExist ==
  ASSUME NEW h \in Seq(Rows), NEW s, IsEligible(h, s), NEW b \in Nat
  PROVE  \E acc : Selects(h, s, b, acc)
<1> DEFINE n == Most(s)
           t(j) == Tokens(h[s[j]].chars)
           G == [j \in Nat |-> [a \in Takings |-> IF j \in 1..n THEN Took(a, t(j), b) ELSE a]]
<1>1. n \in Nat /\ n <= Len(s) /\ Len(s) \in Nat /\ NoneTaken \in Takings
  BY MostType DEF IsEligible, Ascending, NoneTaken, Takings
<1>2. \A j \in 1..n : t(j) \in Nat
  <2>1. \A j \in 1..n : j \in 1..Len(s)
    BY <1>1
  <2>2. \A j \in 1..n : s[j] \in DOMAIN h
    BY <2>1 DEF IsEligible
  <2> QED
    BY <2>2, WeightsType
<1> HIDE DEF t, n
<1>3. G \in [Nat -> [Takings -> Takings]]
  <2>1. \A j \in 1..n : \A a \in Takings : Took(a, t(j), b) \in Takings
    BY <1>2 DEF Took, Takings
  <2> QED
    BY <2>1
<1>4. \A j \in 1..n : \A a \in Takings : G[j][a] = Took(a, t(j), b)
  BY <1>1
<1> HIDE DEF G
<1>5. PICK g \in [0..n -> Takings] : g[0] = NoneTaken /\ \A j \in 1..n : g[j] = G[j][g[j - 1]]
  <2>1. Loops(Takings, NoneTaken, G, n) # {}
    BY <1>1, <1>3, Recursion
  <2> QED
    BY <2>1 DEF Loops
<1>6. \A j \in 0..n : g[j] = IF j = 0 THEN NoneTaken ELSE Took(g[j - 1], t(j), b)
  <2> SUFFICES ASSUME NEW j \in 0..n, j # 0
               PROVE  g[j] = Took(g[j - 1], t(j), b)
    BY <1>5
  <2>1. j \in 1..n /\ j - 1 \in 0..n
    BY <1>1
  <2> QED
    BY <1>4, <1>5, <2>1
<1>7. g = [j \in 0..n |-> IF j = 0 THEN NoneTaken ELSE Took(g[j - 1], t(j), b)]
  BY <1>5, <1>6
<1> QED
  BY <1>7 DEF Selects, n, t

\* After j messages: what was taken, and when there was no more room.
Taking(h, s, b, j, a) ==
  /\ a \in Takings
  /\ a.taken \in 0..j /\ a.used = Cost(h, s, a.taken) /\ a.used <= b
  /\ ~a.full => a.taken = j
  /\ a.full => a.taken < j /\ Cost(h, s, a.taken + 1) > b

LEMMA SelectsTake ==
  ASSUME NEW h \in Seq(Rows), NEW s, IsEligible(h, s), NEW b \in Nat, NEW acc, Selects(h, s, b, acc)
  PROVE  \A j \in 0..Most(s) : Taking(h, s, b, j, acc[j])
<1> DEFINE n == Most(s)
           S == {j \in Nat : j <= n => Taking(h, s, b, j, acc[j])}
<1>1. n \in Nat /\ n <= Len(s) /\ Len(s) \in Nat
  BY MostType DEF IsEligible, Ascending
<1>2. \A j \in 0..n : acc[j] = IF j = 0 THEN NoneTaken ELSE Took(acc[j - 1], Tokens(h[s[j]].chars), b)
  BY DEF Selects
<1> HIDE DEF n
<1>3. 0 \in S
  <2>0. 0 \in 0..n
    BY <1>1
  <2>1. acc[0] = NoneTaken
    BY <1>2, <2>0, Zenon
  <2>2. Cost(h, s, 0) = 0
    BY CostIs
  <2>3. /\ NoneTaken \in Takings /\ NoneTaken.taken = 0 /\ NoneTaken.used = 0
        /\ ~NoneTaken.full
    BY DEF NoneTaken, Takings
  <2>4. Taking(h, s, b, 0, NoneTaken)
    BY <2>2, <2>3 DEF Taking
  <2> QED
    BY <2>1, <2>4
<1>4. ASSUME NEW m \in S
      PROVE  m + 1 \in S
  <2> SUFFICES ASSUME m + 1 <= n
               PROVE  Taking(h, s, b, m + 1, acc[m + 1])
    OBVIOUS
  <2> DEFINE a == acc[m]
             k == m + 1
             t == Tokens(h[s[k]].chars)
  <2>1. m \in Nat /\ k \in 0..n /\ k # 0 /\ k - 1 = m /\ k \in 1..Len(s) /\ Taking(h, s, b, m, a)
    BY <1>1
  <2>2. acc[k] = Took(a, t, b)
    BY <1>2, <2>1
  <2>3. Cost(h, s, k) = t + Cost(h, s, m) /\ Cost(h, s, k) \in Nat /\ Cost(h, s, m) \in Nat
    <3>1. k \in 0..Len(s) /\ m \in 0..Len(s)
      BY <1>1, <2>1
    <3> QED
      BY <2>1, <3>1, CostIs
  <2>4. t \in Nat
    <3>1. s[k] \in DOMAIN h
      BY <2>1 DEF IsEligible
    <3> QED
      BY <3>1, WeightsType
  <2>5. /\ a \in Takings /\ a.taken \in 0..m /\ a.used = Cost(h, s, a.taken) /\ a.used <= b
        /\ ~a.full => a.taken = m
        /\ a.full => a.taken < m /\ Cost(h, s, a.taken + 1) > b
    BY <2>1 DEF Taking
  <2>6. a.taken \in Nat /\ a.used \in Nat /\ a.full \in BOOLEAN
    BY <2>5 DEF Takings
  <2> HIDE DEF a, k, t
  <2>7. CASE a.full
    <3>1. acc[k] = [taken |-> a.taken, used |-> a.used, full |-> TRUE]
      BY <2>2, <2>7 DEF Took
    <3>2. a.taken \in 0..k /\ a.taken < k
      BY <2>1, <2>5, <2>6, <2>7
    <3> QED
      BY <2>5, <2>6, <2>7, <3>1, <3>2 DEF Taking, Takings, k
  <2>8. CASE ~a.full /\ a.used + t > b
    <3>1. acc[k] = [taken |-> m, used |-> a.used, full |-> TRUE]
      BY <2>2, <2>5, <2>8 DEF Took
    <3>2. m \in 0..k /\ m < k /\ m + 1 = k
      BY <2>1
    <3>3. Cost(h, s, m + 1) > b
      BY <2>3, <2>4, <2>5, <2>8, <3>2
    <3> QED
      BY <2>1, <2>5, <2>6, <2>8, <3>1, <3>2, <3>3 DEF Taking, Takings, k
  <2>9. CASE ~a.full /\ ~(a.used + t > b)
    <3>1. acc[k] = [taken |-> m + 1, used |-> a.used + t, full |-> FALSE]
      BY <2>2, <2>5, <2>9 DEF Took
    <3>2. m + 1 = k /\ k \in 0..k /\ k \in Nat
      BY <2>1
    <3>3. a.used + t = Cost(h, s, k) /\ a.used + t \in Nat /\ a.used + t <= b
      BY <2>3, <2>4, <2>5, <2>6, <2>9
    <3>4. acc[k].taken = k /\ acc[k].used = Cost(h, s, k) /\ acc[k].used <= b /\ ~acc[k].full /\ acc[k] \in Takings
      BY <3>1, <3>2, <3>3 DEF Takings
    <3> QED
      BY <3>2, <3>4 DEF Taking, k
  <2> QED
    BY <2>6, <2>7, <2>8, <2>9 DEF k
<1>5. \A j \in Nat : j \in S
  <2> HIDE DEF S
  <2> QED
    BY <1>3, <1>4, Induction DEF S
<1> QED
  BY <1>1, <1>5 DEF n

\* _select takes as many of the newest messages as fit, and knows their tokens.
LEMMA SelectIs ==
  ASSUME NEW h \in Seq(Rows), NEW s, IsEligible(h, s), NEW b \in Nat
  PROVE  LET a == Select(h, s, b)
         IN  /\ a.taken \in 0..Len(s) /\ a.used = Cost(h, s, a.taken) /\ a.used <= b
             /\ a.taken = Newest(h, s, b)
<1> DEFINE n == Most(s)
           acc == CHOOSE g : Selects(h, s, b, g)
           a == acc[n]
<1>1. n \in Nat /\ n <= Len(s) /\ Len(s) \in Nat /\ n \in 0..n
  BY MostType DEF IsEligible, Ascending
<1>2. Selects(h, s, b, acc)
  BY SelectsExist
<1>3. Select(h, s, b) = a
  BY DEF Select, Selects, NoneTaken, Most
<1> HIDE DEF acc
<1>4. Taking(h, s, b, n, a)
  BY <1>1, <1>2, SelectsTake
<1> HIDE DEF n, a
<1>5. a.taken \in 0..n /\ a.taken \in Nat /\ a.used = Cost(h, s, a.taken) /\ a.used <= b
  BY <1>4 DEF Taking, Takings
<1>6. a.taken = n \/ (a.taken < n /\ Cost(h, s, a.taken + 1) > b)
  BY <1>4 DEF Taking, Takings
<1> DEFINE C == {k \in 0..n : Size(h, First(k, s)) <= b}
           x == a.taken
<1>7. \A k \in 0..n : k \in 0..Len(s) /\ Cost(h, s, k) \in Nat /\ Size(h, First(k, s)) = Cost(h, s, k)
  BY <1>1, CostIs
<1> HIDE DEF x
<1>8. x \in C
  BY <1>5, <1>7 DEF x
<1>9. ASSUME NEW k \in C
      PROVE  x >= k
  <2>1. k \in 0..n /\ Cost(h, s, k) <= b
    BY <1>7
  <2>2. CASE x = n
    BY <1>1, <2>1, <2>2
  <2>3. CASE x < n /\ Cost(h, s, x + 1) > b
    <3>1. ASSUME k > x
          PROVE  FALSE
      <4>1. x + 1 \in 0..k /\ k \in 0..Len(s) /\ x + 1 \in 0..n
        BY <1>1, <1>5, <2>1, <3>1 DEF x
      <4>2. Cost(h, s, x + 1) <= Cost(h, s, k)
        BY <4>1, CostIs
      <4>3. Cost(h, s, x + 1) \in Nat /\ Cost(h, s, k) \in Nat
        BY <1>7, <2>1, <4>1
      <4> QED
        BY <2>1, <2>3, <4>2, <4>3
    <3> QED
      BY <1>5, <2>1, <3>1 DEF x
  <2> QED
    BY <1>6, <2>2, <2>3 DEF x
<1>10. Max(C) = x
  <2>1. C \in SUBSET Int
    BY <1>1
  <2> HIDE DEF C
  <2> QED
    BY <1>8, <1>9, <2>1, MaxIs
<1>11. Newest(h, s, b) = x
  BY <1>10 DEF Newest, n, Most
<1> QED
  BY <1>1, <1>3, <1>5, <1>11 DEF x

\* The m newest messages, oldest first.
Suffix(s, m) == Reverse(First(m, s))

IsNewestRun(f, h, s, m) ==
  /\ f \in Seq(Int) /\ Len(f) = m /\ m \in Nat
  /\ \A i \in 1..m : f[i] \in DOMAIN h /\ h[f[i]].role \in {"user", "assistant"}
  /\ \A i, j \in 1..m : i < j => f[i] > f[j]
  /\ ToSet(f) = Firsts(s, m)

LEMMA SuffixIs ==
  ASSUME NEW h \in Seq(Rows), NEW s, IsEligible(h, s), NEW m \in 0..Len(s)
  PROVE  IsNewestRun(Suffix(s, m), h, s, m)
<1> DEFINE f == Suffix(s, m)
           g == First(m, s)
<1>1. /\ s \in Seq(Int) /\ Len(s) \in Nat /\ m \in Nat /\ m <= Len(s)
      /\ \A i \in 1..Len(s) : s[i] \in DOMAIN h /\ h[s[i]].role \in {"user", "assistant"}
      /\ \A i, j \in 1..Len(s) : i < j => s[i] < s[j]
  BY DEF IsEligible, Ascending
<1>2. Len(g) = m /\ DOMAIN g = 1..m /\ \A i \in 1..m : g[i] = s[i]
  <2>1. IsFirst(g, m, s)
    BY <1>1, FirstIs
  <2> QED
    BY <1>1, <2>1 DEF IsFirst
<1> HIDE DEF g
<1>3. f = [i \in 1..m |-> g[(m - i) + 1]]
  BY <1>2 DEF Suffix, Reverse, g
<1>4. \A i \in 1..m : (m - i) + 1 \in 1..m /\ (m - i) + 1 \in 1..Len(s)
  BY <1>1
<1>5. f \in [1..m -> Int] /\ \A i \in 1..m : f[i] = s[(m - i) + 1]
  <2>1. \A i \in 1..m : f[i] = s[(m - i) + 1]
    BY <1>2, <1>3, <1>4
  <2>2. \A i \in 1..Len(s) : s[i] \in Int
    BY <1>1
  <2> QED
    BY <1>3, <1>4, <2>1, <2>2
<1> HIDE DEF f
<1>6. f \in Seq(Int) /\ Len(f) = m /\ DOMAIN f = 1..m
  BY <1>1, <1>5
<1>7. \A i \in 1..m : f[i] \in DOMAIN h /\ h[f[i]].role \in {"user", "assistant"}
  BY <1>1, <1>4, <1>5
<1>8. ASSUME NEW i \in 1..m, NEW j \in 1..m, i < j
      PROVE  f[i] > f[j]
  <2> DEFINE x == (m - i) + 1
             y == (m - j) + 1
  <2>1. y < x /\ x \in 1..Len(s) /\ y \in 1..Len(s)
    BY <1>1, <1>4, <1>8
  <2>2. f[i] = s[x] /\ f[j] = s[y]
    BY <1>5
  <2> HIDE DEF x, y
  <2>3. s[y] < s[x] /\ s[x] \in Int /\ s[y] \in Int
    BY <1>1, <2>1
  <2> QED
    BY <2>2, <2>3
<1>9. ToSet(f) = Firsts(s, m)
  <2>1. ASSUME NEW i \in 1..m
        PROVE  s[i] \in ToSet(f)
    <3> DEFINE x == (m - i) + 1
    <3>1. x \in 1..m /\ (m - x) + 1 = i
      BY <1>1
    <3>2. f[x] = s[i]
      BY <1>5, <3>1
    <3> QED
      BY <1>6, <3>1, <3>2 DEF ToSet
  <2>2. \A i \in 1..m : f[i] \in Firsts(s, m)
    BY <1>4, <1>5 DEF Firsts
  <2> QED
    BY <1>6, <2>1, <2>2 DEF ToSet, Firsts
<1> QED
  BY <1>1, <1>6, <1>7, <1>8, <1>9 DEF IsNewestRun, f

\* raw is f from its place q on, where the first question is; d is what precedes it.
Cuts(raw, d, f, h, m, q) ==
  /\ q \in 1..m + 1
  /\ raw \in Seq(Int) /\ Len(raw) = (m - q) + 1 /\ \A i \in 1..(m - q) + 1 : raw[i] = f[(q + i) - 1]
  /\ \A i \in 1..q - 1 : h[f[i]].role # "user"
  /\ q <= m => h[f[q]].role = "user"
  /\ ToSet(raw) = {f[i] : i \in q..m}
  /\ ToSet(d) = {f[i] : i \in 1..q - 1}

LEMMA RawIs ==
  ASSUME NEW h, NEW s, NEW m, NEW f, IsNewestRun(f, h, s, m)
  PROVE  LET raw == WithoutLeadingAnswers(h, f)
             d == SubSeq(f, 1, Len(f) - Len(raw))
         IN  \E q : Cuts(raw, d, f, h, m, q)
<1> DEFINE raw == WithoutLeadingAnswers(h, f)
           d == SubSeq(f, 1, Len(f) - Len(raw))
           asked == {j \in DOMAIN f : h[f[j]].role = "user"}
<1>1. f \in Seq(Int) /\ Len(f) = m /\ m \in Nat /\ DOMAIN f = 1..m
  BY DEF IsNewestRun
<1>2. raw = IF asked = {} THEN <<>> ELSE SubSeq(f, Min(asked), Len(f))
  BY DEF WithoutLeadingAnswers
<1>3. PICK q : /\ q \in 1..m + 1 /\ raw = SubSeq(f, q, m)
               /\ \A i \in 1..q - 1 : h[f[i]].role # "user"
               /\ q <= m => h[f[q]].role = "user"
  <2>1. CASE asked = {}
    <3>1. SubSeq(f, m + 1, m) = <<>>
      BY <1>1
    <3>2. \A i \in 1..m : h[f[i]].role # "user"
      BY <1>1, <2>1
    <3>3. m + 1 \in 1..m + 1 /\ (m + 1) - 1 = m /\ ~(m + 1 <= m)
      BY <1>1
    <3> HIDE DEF raw, asked
    <3> QED
      BY <1>2, <2>1, <3>1, <3>2, <3>3
  <2>2. CASE asked # {}
    <3>1. asked \in SUBSET Nat
      BY <1>1
    <3>2. PICK q \in asked : \A j \in asked : q <= j
      <4> HIDE DEF asked
      <4> QED
        BY <2>2, <3>1, LeastNat
    <3>3. Min(asked) = q
      <4>1. \A z \in asked : (\A y \in asked : z <= y) => z = q
        <5> HIDE DEF asked
        <5> QED
          BY <3>1, <3>2
      <4> HIDE DEF asked
      <4> QED
        BY <3>2, <4>1 DEF Min
    <3>4. q \in 1..m /\ h[f[q]].role = "user"
      BY <1>1, <3>2
    <3>5. ASSUME NEW i \in 1..q - 1
          PROVE  h[f[i]].role # "user"
      <4>1. i \in 1..m /\ ~(q <= i)
        BY <1>1, <3>4
      <4> QED
        BY <1>1, <3>2, <4>1
    <3>6. q \in 1..m + 1
      BY <1>1, <3>4
    <3> HIDE DEF raw, asked
    <3> QED
      BY <1>1, <1>2, <2>2, <3>3, <3>4, <3>5, <3>6
  <2> QED
    BY <2>1, <2>2
<1> HIDE DEF raw
<1>4. /\ raw \in Seq(Int) /\ Len(raw) = (m - q) + 1 /\ DOMAIN raw = 1..(m - q) + 1
      /\ \A i \in 1..(m - q) + 1 : raw[i] = f[(q + i) - 1]
  BY <1>1, <1>3
<1>5. d = SubSeq(f, 1, q - 1)
  <2>1. Len(f) - Len(raw) = q - 1
    BY <1>1, <1>3, <1>4
  <2> QED
    BY <2>1
<1>6. DOMAIN d = 1..q - 1 /\ \A i \in 1..q - 1 : d[i] = f[i]
  BY <1>1, <1>3, <1>5
<1> HIDE DEF d
<1>7. ToSet(d) = {f[i] : i \in 1..q - 1}
  BY <1>6 DEF ToSet
<1>8. ToSet(raw) = {f[i] : i \in q..m}
  <2>1. ASSUME NEW i \in q..m
        PROVE  f[i] \in ToSet(raw)
    <3> DEFINE x == (i - q) + 1
    <3>1. x \in 1..(m - q) + 1 /\ (q + x) - 1 = i
      BY <1>1, <1>3
    <3>2. raw[x] = f[i]
      BY <1>4, <3>1
    <3> QED
      BY <1>4, <3>1, <3>2 DEF ToSet
  <2>2. \A i \in 1..(m - q) + 1 : (q + i) - 1 \in q..m
    BY <1>1, <1>3
  <2> QED
    BY <1>4, <2>1, <2>2 DEF ToSet
<1>9. Cuts(raw, d, f, h, m, q)
  BY <1>3, <1>4, <1>7, <1>8 DEF Cuts
<1> QED
  BY <1>9 DEF raw, d

\* What is sent costs what was taken, without the answers that were cut off.
LEMMA RawCosts ==
  ASSUME NEW h \in Seq(Rows), NEW s, IsEligible(h, s), NEW m \in 0..Len(s),
         NEW f, IsNewestRun(f, h, s, m), NEW raw, NEW d, NEW q, Cuts(raw, d, f, h, m, q)
  PROVE  /\ Size(h, raw) = Cost(h, s, m) - Size(h, d) /\ Size(h, d) \in Nat
         /\ Size(h, raw) \in Nat /\ Size(h, raw) <= Cost(h, s, m) /\ Cost(h, s, m) \in Nat
<1> DEFINE S == Firsts(s, m)
           T == ToSet(raw)
           U == ToSet(d)
           w == Weights(h)
<1>1. /\ f \in Seq(Int) /\ m \in Nat /\ q \in 1..m + 1 /\ ToSet(f) = S /\ DOMAIN f = 1..m
      /\ T = {f[i] : i \in q..m} /\ U = {f[i] : i \in 1..q - 1}
      /\ \A i, j \in 1..m : i < j => f[i] > f[j]
  <2>1. /\ f \in Seq(Int) /\ Len(f) = m /\ m \in Nat /\ ToSet(f) = S
        /\ \A i, j \in 1..m : i < j => f[i] > f[j]
    BY DEF IsNewestRun
  <2>2. q \in 1..m + 1 /\ T = {f[i] : i \in q..m} /\ U = {f[i] : i \in 1..q - 1}
    BY DEF Cuts
  <2>3. DOMAIN f = 1..m
    BY <2>1
  <2> HIDE DEF S, T, U
  <2> QED
    BY <2>1, <2>2, <2>3
<1>2. S = {f[i] : i \in 1..m}
  BY <1>1 DEF ToSet
<1>3. S \in SUBSET DOMAIN h
  BY FirstsType
<1> HIDE DEF S, T, U
<1>4. (\A i \in 1..m : i \in q..m \/ i \in 1..q - 1) /\ q..m \subseteq 1..m /\ 1..(q - 1) \subseteq 1..m
  BY <1>1
<1>5. T \in SUBSET S /\ U \subseteq S /\ S \subseteq T \cup U
  BY <1>1, <1>2, <1>4
<1>6. ASSUME NEW x \in T, x \in U
      PROVE  FALSE
  <2>1. PICK i \in q..m : x = f[i]
    BY <1>1
  <2>2. PICK j \in 1..q - 1 : x = f[j]
    BY <1>1, <1>6
  <2>3. i \in 1..m /\ j \in 1..m /\ j < i
    BY <1>1, <1>4
  <2>4. f[j] > f[i] /\ f[i] \in Int
    BY <1>1, <2>3
  <2> QED
    BY <2>1, <2>2, <2>4
<1>7. S \ T = U
  BY <1>5, <1>6
<1>8. IsFiniteSet(S) /\ \A x \in S : w[x] \in Nat
  BY <1>3, HistoryFinite, FS_Subset, WeightsType
<1> HIDE DEF w
<1>9. SumFunctionOnSet(w, S) = SumFunctionOnSet(w, T) + SumFunctionOnSet(w, S \ T)
  <2>1. \A x \in S : w[x] \in Int
    BY <1>8
  <2> QED
    BY <1>5, <1>8, <2>1, SumSplit
<1>10. SumFunctionOnSet(w, T) \in Nat /\ SumFunctionOnSet(w, S) \in Nat
       /\ SumFunctionOnSet(w, T) <= SumFunctionOnSet(w, S)
  BY <1>5, <1>8, SumPart
<1>11. SumFunctionOnSet(w, U) \in Nat
  BY <1>5, <1>8, SumPart
<1>12. /\ Size(h, raw) = SumFunctionOnSet(w, T) /\ Size(h, d) = SumFunctionOnSet(w, U)
       /\ Cost(h, s, m) = SumFunctionOnSet(w, S)
  BY DEF Size, Cost, Weights, w, S, T, U
<1>13. SumFunctionOnSet(w, S \ T) = SumFunctionOnSet(w, U)
  BY <1>7, Zenon
<1> QED
  BY <1>9, <1>10, <1>11, <1>12, <1>13

\* A compaction artifact is made of eligible messages and takes no more than its budget.
LEMMA ArtifactIs ==
  ASSUME NEW h \in Seq(Rows), NEW ids \in Seq(Int), NEW b \in Nat, NEW blanks \in Nat,
         \A i \in 1..Len(ids) : ids[i] \in DOMAIN h /\ h[ids[i]].role \in {"user", "assistant"}
  PROVE  Artifact(h, ids, b, blanks) \in Nat /\ Tokens(Artifact(h, ids, b, blanks)) <= b
<1> DEFINE S == ToSet(ids)
           w == [k \in S |-> Label[h[k].role] + h[k].chars]
           sum == SumFunctionOnSet(w, S)
           n == Len(ids)
           payload == sum + n - 1
           c == b * CharsPerToken
           capacity == c - EnvelopeChars
           most == Max({capacity - blanks, MarkerChars})
           a == Artifact(h, ids, b, blanks)
<1>1. n \in Nat /\ DOMAIN ids = 1..n /\ (n = 0 => ids = <<>>)
  OBVIOUS
<1>2. \A k \in S : k \in DOMAIN h /\ h[k].role \in {"user", "assistant"}
  BY <1>1 DEF ToSet
<1>3. IsFiniteSet(S)
  <2>1. S \in SUBSET DOMAIN h
    BY <1>2
  <2> HIDE DEF S
  <2> QED
    BY <2>1, HistoryFinite, FS_Subset
<1>4. \A k \in S : w[k] \in Nat
  <2>1. \A k \in DOMAIN h : h[k].chars \in Nat
    <3>1. \A k \in DOMAIN h : h[k] \in Rows
      OBVIOUS
    <3> QED
      BY <3>1 DEF Rows
  <2>2. \A k \in S : Label[h[k].role] \in Nat
    BY <1>2, PolicyAssumption
  <2> HIDE DEF S
  <2> QED
    BY <1>2, <2>1, <2>2
<1>5. sum \in Nat
  <2> HIDE DEF S, w
  <2> QED
    BY <1>3, <1>4, SumNat
<1>6. c \in Nat /\ EnvelopeChars \in Nat /\ MarkerChars \in Nat
  BY PolicyAssumption
<1>7. a = IF ids = <<>> \/ b <= 0 \/ capacity <= 0 THEN 0
          ELSE IF payload <= capacity THEN EnvelopeChars + payload
          ELSE IF capacity <= MarkerChars THEN 0 ELSE EnvelopeChars + most
  BY DEF Artifact
<1> HIDE DEF sum, n, a, c
<1>8. most \in {capacity - blanks, MarkerChars} /\ most >= MarkerChars
  <2> DEFINE x == capacity - blanks
  <2>1. x \in Int /\ MarkerChars \in Int
    BY <1>6
  <2> HIDE DEF x
  <2>2. Max({x, MarkerChars}) \in {x, MarkerChars} /\ Max({x, MarkerChars}) >= MarkerChars
    BY <2>1, MaxOfTwo, Zenon
  <2> QED
    BY <2>2 DEF x
<1> HIDE DEF most
<1>9. a \in Nat /\ a <= c
  <2>1. CASE a = 0
    BY <1>6, <2>1
  <2>2. CASE ids # <<>> /\ payload <= capacity /\ a = EnvelopeChars + payload
    BY <1>1, <1>5, <1>6, <2>2 DEF n
  <2>3. CASE capacity > MarkerChars /\ a = EnvelopeChars + most
    BY <1>6, <1>8, <2>3
  <2>5. capacity <= MarkerChars \/ capacity > MarkerChars
    BY <1>6
  <2>4. \/ a = 0
        \/ ids # <<>> /\ payload <= capacity /\ a = EnvelopeChars + payload
        \/ capacity > MarkerChars /\ a = EnvelopeChars + most
    <3>1. CASE ids = <<>> \/ b <= 0 \/ capacity <= 0
      BY <1>7, <3>1
    <3>2. CASE ~(ids = <<>> \/ b <= 0 \/ capacity <= 0) /\ payload <= capacity
      BY <1>7, <3>2
    <3>3. CASE ~(ids = <<>> \/ b <= 0 \/ capacity <= 0) /\ ~(payload <= capacity)
      <4>1. a = IF capacity <= MarkerChars THEN 0 ELSE EnvelopeChars + most
        BY <1>7, <3>3
      <4> HIDE DEF capacity
      <4> QED
        BY <2>5, <4>1
    <3> QED
      BY <3>1, <3>2, <3>3
  <2> QED
    BY <2>1, <2>2, <2>3, <2>4
<1> QED
  BY <1>9, TokensType DEF a, c

LEMMA BudgetType ==
  ASSUME NEW prompt \in Nat, NEW told \in Nat, ~Rejects(prompt, told)
  PROVE  /\ Mandatory(prompt, told) \in Nat /\ InputBudget \in Nat
         /\ HistoryBudget(prompt, told) \in Nat
         /\ HistoryBudget(prompt, told) <= MaxHistoryTokens
         /\ HistoryBudget(prompt, told) <= InputBudget - Mandatory(prompt, told)
<1> DEFINE a == Mandatory(prompt, told)
           x == InputBudget - a
<1>1. a \in Nat
  BY TokensType DEF Mandatory
<1>2. InputBudget \in Nat
  BY PolicyAssumption DEF InputBudget
<1> HIDE DEF a
<1>3. a <= InputBudget
  BY <1>1, <1>2 DEF Rejects, a
<1>4. x \in Nat /\ x \in Int /\ MaxHistoryTokens \in Nat /\ MaxHistoryTokens \in Int
  BY <1>1, <1>2, <1>3, PolicyAssumption
<1> HIDE DEF x
<1>5. /\ Min({MaxHistoryTokens, x}) \in {MaxHistoryTokens, x}
      /\ Min({MaxHistoryTokens, x}) <= MaxHistoryTokens /\ Min({MaxHistoryTokens, x}) <= x
  BY <1>4, MinOfTwo, Zenon
<1> QED
  BY <1>1, <1>2, <1>4, <1>5 DEF HistoryBudget, x, a

\* build: what is sent is the newest part of the history that fits.
LEMMA BuildIs ==
  ASSUME NEW h \in Seq(Rows), NEW prompt \in Nat, NEW told \in Nat, ~Rejects(prompt, told),
         NEW blanks \in Nat
  PROVE  /\ FitsWindow(h, prompt, told, BuildContext(h, prompt, told, blanks))
         /\ IsNewestPart(h, prompt, told, BuildContext(h, prompt, told, blanks))
<1> DEFINE s == Eligible(h)
           n == Len(s)
           b == HistoryBudget(prompt, told)
           y == b - MaxCompactionTokens
           r == Max({0, y})
           all == Select(h, s, b)
           part == Select(h, s, r)
           left == SubSeq(s, part.taken + 1, n)
           z == b - part.used
           most == Min({MaxCompactionTokens, z})
           art == IF all.taken < n /\ MaxCompactionTokens > 0
                    THEN Artifact(h, Reverse(left), most, blanks) ELSE 0
           sel == IF art > 0 THEN part ELSE all
           m == sel.taken
           f == Suffix(s, m)
           raw == WithoutLeadingAnswers(h, f)
           d == SubSeq(f, 1, Len(f) - Len(raw))
           must == Mandatory(prompt, told)
           ctx == BuildContext(h, prompt, told, blanks)
<1>1. ctx = [raw |-> raw, artifact |-> art, sources |-> IF art > 0 THEN ToSet(left) ELSE {},
             estimate |-> must + sel.used - Size(h, d) + Tokens(art), truncated |-> n - Len(raw)]
  BY DEF BuildContext, Suffix
<1>2. IsEligible(h, s)
  BY EligibleIs
<1>3. /\ must \in Nat /\ InputBudget \in Nat /\ b \in Nat
      /\ b <= MaxHistoryTokens /\ b <= InputBudget - must
  BY BudgetType
<1>4. IsNewestPart(h, prompt, told, ctx) <=>
        LET k == IF ctx.artifact = 0 THEN Newest(h, s, b) ELSE Newest(h, s, r)
            cut == ToSet(First(k, s)) \ ToSet(ctx.raw)
        IN /\ ToSet(ctx.raw) \subseteq ToSet(First(k, s))
           /\ \A i, j \in DOMAIN ctx.raw : i < j => ctx.raw[i] > ctx.raw[j]
           /\ \A x \in cut : h[x].role = "assistant" /\ \A v \in ToSet(ctx.raw) : v < x
           /\ ctx.raw # <<>> => h[Head(ctx.raw)].role = "user"
           /\ ctx.artifact > 0 =>
                Newest(h, s, b) < n /\ ctx.sources = ToSet(SubSeq(s, k + 1, n))
           /\ ctx.truncated = n - Len(ctx.raw)
  BY DEF IsNewestPart
<1>5. FitsWindow(h, prompt, told, ctx) <=>
        /\ ctx.estimate = must + Size(h, ctx.raw) + Tokens(ctx.artifact)
        /\ ctx.estimate <= InputBudget
        /\ ctx.estimate - must <= MaxHistoryTokens
  BY DEF FitsWindow
<1> HIDE DEF s, b, must, ctx
<1>6. n \in Nat /\ s \in Seq(Int) /\ \A i \in 1..n : s[i] \in DOMAIN h /\ h[s[i]].role \in {"user", "assistant"}
  BY <1>2 DEF IsEligible, Ascending
<1>7. r \in Nat /\ r <= b
  <2>1. y \in Int /\ y <= b /\ 0 \in Int
    BY <1>3, PolicyAssumption
  <2> HIDE DEF y
  <2>2. r \in {0, y} /\ r >= 0 /\ r >= y
    BY <2>1, MaxOfTwo, Zenon
  <2> QED
    BY <1>3, <2>1, <2>2
<1> HIDE DEF r
<1>8. all.taken \in 0..n /\ all.used = Cost(h, s, all.taken) /\ all.used <= b /\ all.taken = Newest(h, s, b)
  BY <1>2, <1>3, SelectIs
<1>9. part.taken \in 0..n /\ part.used = Cost(h, s, part.taken) /\ part.used <= r /\ part.taken = Newest(h, s, r)
  BY <1>2, <1>7, SelectIs
<1> HIDE DEF all, part
<1>10. \A j \in 0..n : Cost(h, s, j) \in Nat
  BY <1>2, CostIs
<1>11. all.used \in Nat /\ part.used \in Nat
  BY <1>8, <1>9, <1>10
<1>12. most \in Nat /\ most <= z /\ z \in Nat
  <2>1. z \in Nat /\ z \in Int /\ MaxCompactionTokens \in Nat /\ MaxCompactionTokens \in Int
    BY <1>3, <1>7, <1>9, <1>11, PolicyAssumption
  <2> HIDE DEF z
  <2>2. most \in {MaxCompactionTokens, z} /\ most <= z
    BY <2>1, MinOfTwo, Zenon
  <2> QED
    BY <2>1, <2>2
<1> HIDE DEF most
<1>13. art \in Nat /\ Tokens(art) \in Nat /\ (art > 0 => all.taken < n /\ Tokens(art) <= z)
  <2> DEFINE ids == Reverse(left)
             x == Artifact(h, ids, most, blanks)
  <2>1. part.taken + 1 \in 1..n + 1 /\ part.taken \in Nat
    BY <1>6, <1>9
  <2>2. left \in Seq(Int) /\ \A i \in 1..Len(left) : \E j \in 1..n : left[i] = s[j]
    <3> DEFINE c == part.taken + 1
    <3> HIDE DEF c
    <3>1. c \in 1..n + 1
      BY <2>1 DEF c
    <3>2. SubSeq(s, c, n) \in Seq(Int) /\ Len(SubSeq(s, c, n)) = (n - c) + 1
          /\ \A i \in 1..(n - c) + 1 : SubSeq(s, c, n)[i] = s[(c + i) - 1]
      BY <1>6, <3>1
    <3>3. \A i \in 1..(n - c) + 1 : (c + i) - 1 \in 1..n
      BY <1>6, <3>1
    <3> QED
      BY <3>2, <3>3 DEF c
  <2> HIDE DEF left
  <2>3. ids \in Seq(Int) /\ Len(ids) = Len(left) /\ \A i \in 1..Len(left) : ids[i] = left[(Len(left) - i) + 1]
    <3> DEFINE l == Len(left)
    <3>1. l \in Nat /\ \A i \in 1..l : (l - i) + 1 \in 1..l /\ left[(l - i) + 1] \in Int
      BY <2>2
    <3>2. ids = [i \in 1..l |-> left[(l - i) + 1]]
      BY DEF Reverse
    <3> HIDE DEF ids, l
    <3> QED
      BY <3>1, <3>2 DEF l
  <2> HIDE DEF ids
  <2>4. ASSUME NEW i \in 1..Len(ids)
        PROVE  ids[i] \in DOMAIN h /\ h[ids[i]].role \in {"user", "assistant"}
    <3>1. i \in 1..Len(left) /\ (Len(left) - i) + 1 \in 1..Len(left)
      BY <2>2, <2>3
    <3>2. PICK j \in 1..n : ids[i] = s[j]
      BY <2>2, <2>3, <3>1
    <3> QED
      BY <1>6, <3>2
  <2>5. x \in Nat /\ Tokens(x) <= most
    BY <1>12, <2>3, <2>4, ArtifactIs
  <2> HIDE DEF x
  <2>6. CASE all.taken < n /\ MaxCompactionTokens > 0
    <3>1. art = x
      BY <2>6 DEF x, ids
    <3> HIDE DEF art, z
    <3>2. art \in Nat /\ Tokens(art) \in Nat /\ Tokens(art) <= most
      BY <2>5, <3>1, TokensType
    <3> QED
      BY <1>12, <2>6, <3>2
  <2>7. CASE ~(all.taken < n /\ MaxCompactionTokens > 0)
    <3>1. art = 0
      BY <2>7
    <3> HIDE DEF art, z
    <3> QED
      BY <3>1, NoTokens
  <2> QED
    BY <2>6, <2>7
<1> HIDE DEF left, art
<1>14. m \in 0..n /\ sel.used = Cost(h, s, m) /\ sel.used \in Nat
       /\ m = (IF art = 0 THEN Newest(h, s, b) ELSE Newest(h, s, r))
       /\ sel.used + Tokens(art) <= b
  <2>1. CASE art > 0
    <3>1. sel = part /\ art # 0
      BY <2>1
    <3>2. part.used + Tokens(art) <= b
      BY <1>3, <1>11, <1>13, <2>1
    <3> QED
      BY <1>9, <1>11, <3>1, <3>2
  <2>2. CASE ~(art > 0)
    <3>1. sel = all /\ art = 0
      BY <1>13, <2>2
    <3> QED
      BY <1>3, <1>8, <1>11, <3>1, NoTokens
  <2> QED
    BY <2>1, <2>2
<1> HIDE DEF sel
<1>15. IsNewestRun(f, h, s, m)
  BY <1>2, <1>14, SuffixIs
<1> HIDE DEF f
<1>16. PICK q : Cuts(raw, d, f, h, m, q)
  BY <1>15, RawIs
<1> HIDE DEF raw, d
<1>17. /\ Size(h, raw) = Cost(h, s, m) - Size(h, d) /\ Size(h, d) \in Nat
       /\ Size(h, raw) \in Nat /\ Size(h, raw) <= Cost(h, s, m) /\ Cost(h, s, m) \in Nat
  BY <1>2, <1>14, <1>15, <1>16, RawCosts
<1>18. /\ ctx.raw = raw /\ ctx.artifact = art /\ ctx.truncated = n - Len(raw)
       /\ ctx.sources = (IF art > 0 THEN ToSet(left) ELSE {})
       /\ ctx.estimate = must + sel.used - Size(h, d) + Tokens(art)
  BY <1>1
<1>19. FitsWindow(h, prompt, told, ctx)
  <2> DEFINE e == Size(h, d)
             v == Size(h, raw)
             t == Tokens(art)
             u == sel.used
  <2>1. /\ v = u - e /\ v \in Nat /\ v <= u /\ u \in Nat /\ t \in Nat /\ must \in Nat /\ u + t <= b /\ e \in Nat
        /\ ctx.estimate = must + u - e + t
    BY <1>3, <1>13, <1>14, <1>17, <1>18
  <2> HIDE DEF e, v, t, u
  <2>2. ctx.estimate = must + v + t
    BY <2>1
  <2>3. ctx.estimate <= InputBudget /\ ctx.estimate - must <= MaxHistoryTokens
    BY <1>3, <2>1, <2>2, PolicyAssumption
  <2> QED
    BY <1>5, <1>18, <2>2, <2>3 DEF v, t
<1>20. ToSet(First(m, s)) = Firsts(s, m) /\ ToSet(f) = Firsts(s, m)
  BY <1>2, <1>14, <1>15, FirstsType DEF IsNewestRun
<1> HIDE DEF m
<1>21. /\ f \in Seq(Int) /\ Len(f) = m /\ DOMAIN f = 1..m /\ m \in Nat
       /\ \A i \in 1..m : f[i] \in Int /\ h[f[i]].role \in {"user", "assistant"}
       /\ \A i, j \in 1..m : i < j => f[i] > f[j]
  BY <1>15 DEF IsNewestRun
<1>22. /\ q \in 1..m + 1
       /\ raw \in Seq(Int) /\ Len(raw) = (m - q) + 1 /\ DOMAIN raw = 1..(m - q) + 1
       /\ \A i \in 1..(m - q) + 1 : raw[i] = f[(q + i) - 1]
       /\ \A i \in 1..q - 1 : h[f[i]].role # "user"
       /\ q <= m => h[f[q]].role = "user"
       /\ ToSet(raw) = {f[i] : i \in q..m}
  BY <1>16 DEF Cuts
<1>23. ToSet(raw) \subseteq ToSet(f)
  <2>1. q..m \subseteq 1..m
    BY <1>21, <1>22
  <2> QED
    BY <1>21, <1>22, <2>1 DEF ToSet
<1>24. ASSUME NEW i \in DOMAIN raw, NEW j \in DOMAIN raw, i < j
       PROVE  raw[i] > raw[j]
  <2> DEFINE x == (q + i) - 1
             v == (q + j) - 1
  <2>1. x \in 1..m /\ v \in 1..m /\ x < v
    <3>1. i \in 1..(m - q) + 1 /\ j \in 1..(m - q) + 1
      BY <1>22
    <3>2. q \in 1..m + 1 /\ m \in Nat
      BY <1>21, <1>22
    <3> QED
      BY <1>24, <3>1, <3>2
  <2>2. raw[i] = f[x] /\ raw[j] = f[v]
    BY <1>22
  <2> HIDE DEF x, v
  <2> QED
    BY <1>21, <2>1, <2>2
<1>25. ASSUME NEW x \in ToSet(f) \ ToSet(raw)
       PROVE  h[x].role = "assistant" /\ \A v \in ToSet(raw) : v < x
  <2>1. PICK i \in 1..m : x = f[i]
    BY <1>21 DEF ToSet
  <2>2. i \in 1..q - 1
    <3>1. i \notin q..m
      BY <1>22, <1>25, <2>1
    <3> QED
      BY <1>21, <1>22, <3>1
  <2>3. h[x].role = "assistant"
    BY <1>21, <1>22, <2>1, <2>2
  <2>4. ASSUME NEW v \in ToSet(raw)
        PROVE  v < x
    <3>1. PICK j \in q..m : v = f[j]
      BY <1>22
    <3>2. i < j /\ j \in 1..m
      BY <1>21, <1>22, <2>2
    <3> QED
      BY <1>21, <2>1, <3>1, <3>2
  <2> QED
    BY <2>3, <2>4
<1>26. raw # <<>> => h[Head(raw)].role = "user"
  <2> SUFFICES ASSUME raw # <<>>
               PROVE  h[Head(raw)].role = "user"
    OBVIOUS
  <2>1. Len(raw) # 0 /\ Head(raw) = raw[1]
    BY <1>22
  <2>2. q <= m /\ 1 \in 1..(m - q) + 1 /\ (q + 1) - 1 = q
    BY <1>21, <1>22, <2>1
  <2> QED
    BY <1>22, <2>1, <2>2
<1>27. art > 0 => Newest(h, s, b) < n /\ m = part.taken
  BY <1>8, <1>9, <1>13, <1>14 DEF m
<1>28. art > 0 => ctx.sources = ToSet(SubSeq(s, m + 1, n))
  BY <1>18, <1>27 DEF left
<1>29. IsNewestPart(h, prompt, told, ctx)
  <2> DEFINE k == IF art = 0 THEN Newest(h, s, b) ELSE Newest(h, s, r)
  <2>1. k = m
    BY <1>14 DEF m
  <2>2. ToSet(First(k, s)) = ToSet(f)
    BY <1>20, <2>1
  <2>3. art > 0 => ctx.sources = ToSet(SubSeq(s, k + 1, n))
    BY <1>28, <2>1
  <2> HIDE DEF k
  <2> QED
    BY <1>4, <1>18, <1>23, <1>24, <1>25, <1>26, <1>27, <2>2, <2>3 DEF k
<1> QED
  BY <1>19, <1>29 DEF ctx

LEMMA BuiltIs ==
  ASSUME NEW c, NEW blanks \in BlankRuns, BuiltOf(c, blanks)
  PROVE  /\ FitsWindow(c.history, c.prompt, c.system, c.context)
         /\ IsNewestPart(c.history, c.prompt, c.system, c.context)
<1> DEFINE h == c.history
           p == c.prompt
           t == c.system
<1>1. h \in Seq(Rows) /\ p \in Nat /\ t \in Nat /\ blanks \in Nat
  BY TurnAssumption DEF BuiltOf, Rows
<1>2. ~Rejects(p, t) /\ c.context = BuildContext(h, p, t, blanks)
  BY DEF BuiltOf
<1> HIDE DEF h, p, t
<1>3. /\ FitsWindow(h, p, t, BuildContext(h, p, t, blanks))
      /\ IsNewestPart(h, p, t, BuildContext(h, p, t, blanks))
  BY <1>1, <1>2, BuildIs
<1> QED
  BY <1>2, <1>3 DEF h, p, t

\* What is sent to the provider is estimated exactly and leaves the reserved room for
\* the answer, for every policy, history and prompt.
THEOREM ContextFitsTheWindow == TurnSpec => []ContextFits
<1>1. PrepareInv => ContextFits
  BY BuiltIs DEF PrepareInv, ContextFits
<1> QED
  BY <1>1, PrepareInvariance, PTL

\* The history that is sent is the newest part that fits, in order and beginning with
\* a question, and a compaction stands for exactly the rest, for every policy.
THEOREM NewestPartIsSent == TurnSpec => []ContextIsNewestPart
<1>1. PrepareInv => ContextIsNewestPart
  BY BuiltIs DEF PrepareInv, ContextIsNewestPart
<1> QED
  BY <1>1, PrepareInvariance, PTL
=============================================================================
