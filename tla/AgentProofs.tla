---------------------------- MODULE AgentProofs ----------------------------
(***************************************************************************)
(* The governed agent runtime, for any number of runs, tools, proposals    *)
(* and limits.                                                             *)
(*                                                                         *)
(* A run that writes an event is looked at as if the event were committed: *)
(* Place is where it goes on then, Written the trail it has then.  Between *)
(* the two there is one table, Fits, that says for each place what the     *)
(* trail counts, ends with and does not contain.  The commit changes       *)
(* neither, and a crash or cancellation ends the run.                      *)
(***************************************************************************)
EXTENDS AgentLoop, FiniteSetTheorems, TLAPS

Outcomes == {"COMPLETE", "DENIED", "BUDGET_EXHAUSTED", "TIMEOUT", "FAILED", "CANCELLED",
             "DEPTH_LIMIT_REACHED"}

Destinations == {"idle"} \cup Pieces \cup Ends

Places == Awaits \cup Destinations

Typed ==
  /\ remaining \in 0..max_executions
  /\ budget \in 0..budget_seconds
  /\ deadline \in [Runs -> 0..timeout_seconds]
  /\ timer \in [Runs -> 0..tool_timeout_seconds]
  /\ at \in [Runs -> Places]
  /\ event \in [Runs -> Events \cup {NoEvent}]
  /\ then \in [Runs -> Destinations]
  /\ status \in [Runs -> Outcomes \cup {"none"}]
  /\ step \in [Runs -> Proposals \cup {NoStep}]
  /\ permit \in [Runs -> Proposals \cup {NoStep}]
  /\ thread \in [Runs -> BOOLEAN]
  /\ depth \in [Runs -> 0..max_depth]
  /\ trail \in [Runs -> Seq(Events)]
  /\ sequence \in [Runs -> Nat]
  /\ calls \in [Runs -> Nat]

-----------------------------------------------------------------------------
(* Trails                                                                  *)

CountIn(t, types) == Cardinality({i \in DOMAIN t : t[i][1] \in types})

Started == {"tool.execution.started"}
Completed == {"tool.execution.completed"}
Terminated == {"run.terminated"}

\* The events that justify the call of an executor.
Evidence ==
  << <<"planner.decision", "selected">>, <<"tool.selected", "none">>,
     <<"authorization.decision", "allowed">>, <<"budget.decision", "allowed">>,
     <<"tool.execution.started", "none">> >>

\* t ends with the first n of them.
EndsWith(t, n) == Len(t) >= n /\ \A k \in 1..n : t[Len(t) - n + k] = Evidence[k]

NoRefusal(t) == \A i \in DOMAIN t : t[i][2] \notin Refusals

LEMMA CountAppended ==
  ASSUME NEW t \in Seq(Events), NEW e \in Events, NEW T
  PROVE  /\ CountIn(t, T) \in Nat
         /\ CountIn(Append(t, e), T) = CountIn(t, T) + (IF e[1] \in T THEN 1 ELSE 0)
  <1> DEFINE A == {i \in DOMAIN t : t[i][1] \in T}
             u == Append(t, e)
             B == {i \in DOMAIN u : u[i][1] \in T}
             n == Len(t)
  <1>0. CountIn(t, T) = Cardinality(A) /\ CountIn(Append(t, e), T) = Cardinality(B)
    BY DEF CountIn
  <1>1. n \in Nat /\ DOMAIN t = 1..n /\ DOMAIN u = 1..(n + 1)
    OBVIOUS
  <1>2. u[n + 1] = e /\ \A i \in 1..n : u[i] = t[i]
    OBVIOUS
  <1>3. A \in SUBSET (1..n) /\ n + 1 \notin A
    BY <1>1
  <1>4. IsFiniteSet(A)
    <2>1. IsFiniteSet(1..n)
      BY <1>1, FS_Interval
    <2> HIDE DEF A
    <2> QED BY <1>3, <2>1, FS_Subset
  <1>5. Cardinality(A) \in Nat
    BY <1>4, FS_CardinalityType
  <1>6. CASE e[1] \in T
    <2>1. B = A \cup {n + 1}
      BY <1>1, <1>2, <1>6
    <2> HIDE DEF A, B
    <2>2. Cardinality(B) = Cardinality(A) + 1
      BY <1>3, <1>4, <2>1, FS_AddElement
    <2> QED BY <1>0, <1>5, <1>6, <2>2
  <1>7. CASE e[1] \notin T
    <2>1. B = A
      BY <1>1, <1>2, <1>7
    <2> HIDE DEF A, B
    <2> QED BY <1>0, <1>5, <1>7, <2>1
  <1> QED BY <1>6, <1>7

LEMMA CountEmpty ==
  ASSUME NEW T
  PROVE  CountIn(<<>>, T) = 0
  <1>1. {i \in DOMAIN <<>> : <<>>[i][1] \in T} = {}
    OBVIOUS
  <1> QED BY <1>1, FS_EmptySet DEF CountIn

LEMMA EndsAppended ==
  ASSUME NEW t \in Seq(Events), NEW e \in Events, NEW n \in 0..4,
         n = 0 \/ EndsWith(t, n), e = Evidence[n + 1]
  PROVE  EndsWith(Append(t, e), n + 1)
  <1> DEFINE u == Append(t, e)
  <1>1. Len(u) = Len(t) + 1 /\ Len(t) \in Nat /\ u[Len(t) + 1] = e
        /\ \A i \in 1..Len(t) : u[i] = t[i]
    OBVIOUS
  <1> HIDE DEF u
  <1>2. Len(t) >= n
    BY <1>1 DEF EndsWith
  <1>3. ASSUME NEW k \in 1..(n + 1) PROVE u[Len(u) - (n + 1) + k] = Evidence[k]
    <2>1. CASE k = n + 1
      BY <1>1, <2>1
    <2>2. CASE k \in 1..n
      <3>1. Len(u) - (n + 1) + k = Len(t) - n + k /\ Len(t) - n + k \in 1..Len(t)
        BY <1>1, <1>2, <2>2
      <3>2. t[Len(t) - n + k] = Evidence[k]
        BY <2>2 DEF EndsWith
      <3> QED BY <1>1, <3>1, <3>2
    <2> QED BY <2>1, <2>2
  <1>4. Len(u) >= n + 1
    BY <1>1, <1>2
  <1> QED BY <1>3, <1>4 DEF EndsWith, u

LEMMA AppendFacts ==
  ASSUME NEW t \in Seq(Events), NEW e \in Events
  PROVE  /\ Append(t, e) \in Seq(Events)
         /\ Last(Append(t, e)) = e
         /\ Len(Append(t, e)) = Len(t) + 1
         /\ NoRefusal(t) /\ e[2] \notin Refusals => NoRefusal(Append(t, e))
  BY DEF NoRefusal, Last

\* What ends with the evidence has it as its suffix.
LEMMA EvidenceIsSuffix ==
  ASSUME NEW t \in Seq(Events), EndsWith(t, 5)
  PROVE  IsSuffix(Evidence, t)
  <1>1. Len(Evidence) = 5 /\ Len(t) \in Nat /\ Len(t) >= 5
    BY DEF Evidence, EndsWith
  <1>2. \A i \in 1..5 : Reverse(Evidence)[i] = Evidence[6 - i]
    BY <1>1 DEF Reverse
  <1>3. \A i \in 1..5 : Reverse(t)[i] = t[Len(t) - i + 1]
    BY <1>1 DEF Reverse
  <1>4. \A i \in 1..5 : Reverse(Evidence)[i] = Reverse(t)[i]
    <2> SUFFICES ASSUME NEW i \in 1..5 PROVE Evidence[6 - i] = t[Len(t) - i + 1]
      BY <1>2, <1>3
    <2>1. 6 - i \in 1..5 /\ Len(t) - 5 + (6 - i) = Len(t) - i + 1
      BY <1>1
    <2> QED BY <2>1 DEF EndsWith
  <1>5. Len(Reverse(Evidence)) = 5 /\ Len(Reverse(t)) = Len(t)
    BY <1>1 DEF Reverse
  <1>6. SubSeq(Reverse(Evidence), 1, 5) = SubSeq(Reverse(t), 1, 5)
    <2>1. SubSeq(Reverse(Evidence), 1, 5) = [i \in 1..5 |-> Reverse(Evidence)[i]]
      OBVIOUS
    <2>2. SubSeq(Reverse(t), 1, 5) = [i \in 1..5 |-> Reverse(t)[i]]
      OBVIOUS
    <2> QED BY <1>4, <2>1, <2>2
  <1> QED BY <1>1, <1>5, <1>6 DEF IsSuffix, IsPrefix

-----------------------------------------------------------------------------
(* The table                                                               *)

InLoop == {"plan", "selected", "policy", "authorize", "budget", "deadline", "dispatch",
           "execute", "observe"}

Broken == {"cancelled", "unavailable"}

\* p: the place, t: the trail, d: the depth, c: the calls.  A start is open from its
\* event until the tool has ended, and counts as depth once it is observed.
Counted(p, t, d, c) ==
  /\ CountIn(t, Started) = CountIn(t, Closed) + (IF p \in {"dispatch", "execute"} THEN 1 ELSE 0)
  /\ c <= CountIn(t, Closed) + (IF p = "execute" THEN 1 ELSE 0)
  /\ CountIn(t, Completed) = d + (IF p = "observe" THEN 1 ELSE 0)
  /\ CountIn(t, Terminated) = IF p = "returned" THEN 1 ELSE 0
  /\ p \in InLoop => d < max_depth

\* s: the step.
Evidenced(p, t, s) ==
  /\ p = "selected" => EndsWith(t, 1)
  /\ p \in {"policy", "authorize"} => EndsWith(t, 2)
  /\ p = "budget" => EndsWith(t, 3)
  /\ p = "deadline" => EndsWith(t, 4)
  /\ p \in {"dispatch", "execute"} => EndsWith(t, 5)
  /\ p \in {"budget", "deadline", "dispatch", "execute"} => Allowed(s)

\* o: the status of the outcome.
Concluded(p, t, o) ==
  /\ p \notin {"finish", "returned"} => NoRefusal(t)
  /\ p = "finish" => o \in Outcomes
  /\ p = "returned" => Last(t) = <<"run.terminated", o>>

Fits(p, t, d, c, s, o) ==
  p \notin Broken => Counted(p, t, d, c) /\ Evidenced(p, t, s) /\ Concluded(p, t, o)

\* The event that leads from one place to the next while the run goes on.
Advance(p, e, q) ==
  \/ p = "idle" /\ e = <<"run.started", "none">> /\ q = "head"
  \/ p = "plan" /\ e = <<"planner.decision", "selected">> /\ q = "selected"
  \/ p = "selected" /\ e = <<"tool.selected", "none">> /\ q = "policy"
  \/ p = "authorize" /\ e = <<"authorization.decision", "allowed">> /\ q = "budget"
  \/ p = "budget" /\ e = <<"budget.decision", "allowed">> /\ q = "deadline"
  \/ p = "deadline" /\ e = <<"tool.execution.started", "none">> /\ q = "dispatch"
  \/ p = "execute" /\ e = <<"tool.execution.completed", "completed">> /\ q = "observe"
  \/ p = "observe" /\ e = <<"observation.received", "none">> /\ q = "head"

LEMMA FitsAdvance ==
  ASSUME NEW p, NEW t \in Seq(Events), NEW d \in 0..max_depth, NEW c \in Nat, NEW s, NEW o,
         Fits(p, t, d, c, s, o), NEW e, NEW q, Advance(p, e, q),
         NEW s2, s2 = s \/ p = "plan", q = "budget" => Allowed(s2),
         p = "idle" => t = <<>>
  PROVE  /\ e \in Events
         /\ Fits(q, Append(t, e), IF p = "observe" THEN d + 1 ELSE d, c, s2, o)
  <1>0. /\ e \in Events /\ p \notin Broken /\ q \notin Broken
        /\ q \in {"head", "selected", "policy", "budget", "deadline", "dispatch", "observe"}
        /\ e[2] \notin Refusals
        /\ d \in Nat /\ max_depth \in Nat
    BY AgentAssumption DEF Advance, Events, Broken, Refusals
  <1> DEFINE u == Append(t, e)
             d2 == IF p = "observe" THEN d + 1 ELSE d
  <1>1. /\ CountIn(u, Started) = CountIn(t, Started) + (IF p = "deadline" THEN 1 ELSE 0)
        /\ CountIn(u, Closed) = CountIn(t, Closed) + (IF p = "execute" THEN 1 ELSE 0)
        /\ CountIn(u, Completed) = CountIn(t, Completed) + (IF p = "execute" THEN 1 ELSE 0)
        /\ CountIn(u, Terminated) = CountIn(t, Terminated)
        /\ CountIn(t, Started) \in Nat /\ CountIn(t, Closed) \in Nat
        /\ CountIn(t, Completed) \in Nat /\ CountIn(t, Terminated) \in Nat
    <2>1. /\ e[1] \in Started <=> p = "deadline"
          /\ e[1] \in Closed <=> p = "execute"
          /\ e[1] \in Completed <=> p = "execute"
          /\ e[1] \notin Terminated
      BY DEF Advance, Started, Closed, Completed, Terminated
    <2> QED BY <1>0, <2>1, CountAppended
  <1>2. Counted(p, t, d, c) /\ Evidenced(p, t, s) /\ NoRefusal(t)
    BY <1>0 DEF Fits, Concluded, Advance
  <1> HIDE DEF u
  <1>3. Counted(q, u, d2, c)
    BY <1>0, <1>1, <1>2 DEF Counted, InLoop, Advance
  <1>4. Evidenced(q, u, s2)
    <2>1. CASE q \in {"head", "observe"}
      BY <2>1 DEF Evidenced
    <2>2. CASE q = "selected"
      <3>1. e = Evidence[0 + 1]
        BY <2>2 DEF Advance, Evidence
      <3>2. EndsWith(u, 0 + 1)
        BY <1>0, <3>1, EndsAppended DEF u
      <3> QED BY <2>2, <3>2 DEF Evidenced
    <2>3. CASE q = "policy"
      <3>1. e = Evidence[1 + 1] /\ EndsWith(t, 1)
        BY <1>2, <2>3 DEF Advance, Evidence, Evidenced
      <3>2. EndsWith(u, 1 + 1)
        BY <1>0, <3>1, EndsAppended DEF u
      <3> QED BY <2>3, <3>2 DEF Evidenced
    <2>4. CASE q = "budget"
      <3>1. e = Evidence[2 + 1] /\ EndsWith(t, 2)
        BY <1>2, <2>4 DEF Advance, Evidence, Evidenced
      <3>2. EndsWith(u, 2 + 1)
        BY <1>0, <3>1, EndsAppended DEF u
      <3> QED BY <2>4, <3>2 DEF Evidenced
    <2>5. CASE q = "deadline"
      <3>1. e = Evidence[3 + 1] /\ EndsWith(t, 3) /\ Allowed(s) /\ s2 = s
        BY <1>2, <2>5 DEF Advance, Evidence, Evidenced
      <3>2. EndsWith(u, 3 + 1)
        BY <1>0, <3>1, EndsAppended DEF u
      <3> QED BY <2>5, <3>1, <3>2 DEF Evidenced
    <2>6. CASE q = "dispatch"
      <3>1. e = Evidence[4 + 1] /\ EndsWith(t, 4) /\ Allowed(s) /\ s2 = s
        BY <1>2, <2>6 DEF Advance, Evidence, Evidenced
      <3>2. EndsWith(u, 4 + 1)
        BY <1>0, <3>1, EndsAppended DEF u
      <3> QED BY <2>6, <3>1, <3>2 DEF Evidenced
    <2> QED BY <1>0, <2>1, <2>2, <2>3, <2>4, <2>5, <2>6
  <1>5. Concluded(q, u, o)
    BY <1>0, <1>2, AppendFacts DEF Concluded, u
  <1> QED BY <1>0, <1>3, <1>4, <1>5 DEF Fits, u

\* The event after which the outcome is only to be returned.  It closes the tool that
\* was started, if there is one.
LEMMA FitsFinish ==
  ASSUME NEW p \in InLoop \ {"observe"}, NEW t \in Seq(Events), NEW d \in 0..max_depth,
         NEW c \in Nat, NEW s, NEW o, Fits(p, t, d, c, s, o), NEW e \in Events,
         e[1] \notin Started \cup Completed \cup Terminated,
         e[1] \in Closed <=> p \in {"dispatch", "execute"},
         NEW o2 \in Outcomes, NEW s2
  PROVE  Fits("finish", Append(t, e), d, c, s2, o2)
  <1> DEFINE u == Append(t, e)
  <1>1. /\ CountIn(u, Started) = CountIn(t, Started)
        /\ CountIn(u, Closed) = CountIn(t, Closed)
                                  + (IF p \in {"dispatch", "execute"} THEN 1 ELSE 0)
        /\ CountIn(u, Completed) = CountIn(t, Completed)
        /\ CountIn(u, Terminated) = CountIn(t, Terminated)
        /\ CountIn(t, Started) \in Nat /\ CountIn(t, Closed) \in Nat
        /\ CountIn(t, Completed) \in Nat /\ CountIn(t, Terminated) \in Nat
    BY CountAppended
  <1>2. Counted(p, t, d, c)
    BY DEF Fits, InLoop, Broken
  <1> HIDE DEF u
  <1>3. Counted("finish", u, d, c)
    BY <1>1, <1>2 DEF Counted, InLoop
  <1>4. Evidenced("finish", u, s2) /\ Concluded("finish", u, o2)
    BY DEF Evidenced, Concluded
  <1> QED BY <1>3, <1>4 DEF Fits, u

\* The terminal event.
LEMMA FitsReturned ==
  ASSUME NEW p \in {"finish", "head", "deadline"}, NEW t \in Seq(Events),
         NEW d \in 0..max_depth, NEW c \in Nat, NEW s, NEW o, Fits(p, t, d, c, s, o),
         NEW o2 \in Outcomes, NEW q \in {"returned", "cancelled"}
  PROVE  /\ <<"run.terminated", o2>> \in Events
         /\ Fits(q, Append(t, <<"run.terminated", o2>>), d, c, s, o2)
  <1> DEFINE e == <<"run.terminated", o2>>
             u == Append(t, e)
  <1>0. e \in Events
    BY DEF Events, Outcomes
  <1>1. /\ CountIn(u, Started) = CountIn(t, Started)
        /\ CountIn(u, Closed) = CountIn(t, Closed)
        /\ CountIn(u, Completed) = CountIn(t, Completed)
        /\ CountIn(u, Terminated) = CountIn(t, Terminated) + 1
        /\ CountIn(t, Started) \in Nat /\ CountIn(t, Closed) \in Nat
        /\ CountIn(t, Completed) \in Nat /\ CountIn(t, Terminated) \in Nat
    <2>1. e[1] \notin Started /\ e[1] \notin Closed /\ e[1] \notin Completed
          /\ e[1] \in Terminated
      BY DEF Started, Closed, Completed, Terminated
    <2> HIDE DEF e
    <2> QED BY <1>0, <2>1, CountAppended
  <1>2. Counted(p, t, d, c)
    BY DEF Fits, Broken
  <1>3. Last(u) = e
    BY <1>0, AppendFacts
  <1> HIDE DEF u
  <1>4. Counted("returned", u, d, c)
    BY <1>1, <1>2 DEF Counted, InLoop
  <1>5. Evidenced("returned", u, s) /\ Concluded("returned", u, o2)
    BY <1>3 DEF Evidenced, Concluded
  <1> QED BY <1>0, <1>4, <1>5 DEF Fits, Broken, u

\* The moves without an event.
LEMMA FitsGo ==
  ASSUME NEW p, NEW t \in Seq(Events), NEW d \in 0..max_depth, NEW c \in Nat, NEW s, NEW o,
         Fits(p, t, d, c, s, o), NEW q,
         \/ p = "head" /\ q = "plan" /\ d < max_depth
         \/ p = "policy" /\ q = "authorize"
         \/ p = "dispatch" /\ q = "execute"
  PROVE  Fits(q, t, d, IF q = "execute" THEN c + 1 ELSE c, s, o)
  <1>1. Counted(p, t, d, c) /\ Evidenced(p, t, s) /\ Concluded(p, t, o)
    BY DEF Fits, Broken
  <1>2. CountIn(t, Closed) \in Nat
    <2>1. <<"run.started", "none">> \in Events
      BY DEF Events
    <2> QED BY <2>1, CountAppended
  <1>3. Counted(q, t, d, IF q = "execute" THEN c + 1 ELSE c)
    BY <1>1, <1>2 DEF Counted, InLoop
  <1>4. Evidenced(q, t, s) /\ Concluded(q, t, o)
    BY <1>1 DEF Evidenced, Concluded
  <1> QED BY <1>3, <1>4 DEF Fits

-----------------------------------------------------------------------------
(* The invariant                                                           *)

\* Where the run goes on, and its trail, once the event it writes is committed.
Place(r) == IF at[r] = "audit" THEN then[r] ELSE at[r]
Written(r) == IF at[r] = "audit" THEN Append(trail[r], event[r]) ELSE trail[r]

RunShape(r) ==
  /\ Fits(Place(r), Written(r), depth[r], calls[r], step[r], status[r])
  /\ calls[r] <= CountIn(trail[r], Started)
  /\ at[r] \notin Broken => sequence[r] = Len(trail[r])
  /\ at[r] = "audit" <=> event[r] # NoEvent
  /\ at[r] = "audit" => then[r] # "idle"
  /\ at[r] = "idle" => trail[r] = <<>>

AgentInv == Typed /\ \A r \in Runs : RunShape(r)

\* A step of r leaves the other runs alone.
OnlyOf(r) ==
  \A q \in Runs \ {r} :
    /\ at'[q] = at[q] /\ event'[q] = event[q] /\ then'[q] = then[q]
    /\ status'[q] = status[q] /\ step'[q] = step[q] /\ depth'[q] = depth[q]
    /\ trail'[q] = trail[q] /\ sequence'[q] = sequence[q] /\ calls'[q] = calls[q]

LEMMA StepIsEnough ==
  ASSUME AgentInv, NEW r \in Runs, Typed', OnlyOf(r), RunShape(r)'
  PROVE  AgentInv'
  <1> SUFFICES ASSUME NEW q \in Runs, q # r PROVE RunShape(q)'
    BY DEF AgentInv
  <1>1. /\ at'[q] = at[q] /\ event'[q] = event[q] /\ then'[q] = then[q]
        /\ status'[q] = status[q] /\ step'[q] = step[q] /\ depth'[q] = depth[q]
        /\ trail'[q] = trail[q] /\ sequence'[q] = sequence[q] /\ calls'[q] = calls[q]
    BY DEF OnlyOf
  <1>2. RunShape(q)
    BY DEF AgentInv
  <1>3. Place(q)' = Place(q) /\ Written(q)' = Written(q)
    BY <1>1 DEF Place, Written
  <1> QED BY <1>1, <1>2, <1>3 DEF RunShape

LEMMA NoEventIsNone == NoEvent \notin Events
  BY DEF NoEvent, Events

\* What is known of a run that is not writing.
LEMMA AtPlace ==
  ASSUME AgentInv, NEW r \in Runs, at[r] # "audit"
  PROVE  /\ Fits(at[r], trail[r], depth[r], calls[r], step[r], status[r])
         /\ trail[r] \in Seq(Events) /\ depth[r] \in 0..max_depth /\ calls[r] \in Nat
         /\ status[r] \in Outcomes \cup {"none"}
         /\ calls[r] <= CountIn(trail[r], Started)
  BY DEF AgentInv, RunShape, Place, Written, Typed

\* What the table does not speak of.
RestTyped ==
  /\ remaining' \in 0..max_executions /\ budget' \in 0..budget_seconds
  /\ deadline' \in [Runs -> 0..timeout_seconds]
  /\ timer' \in [Runs -> 0..tool_timeout_seconds]
  /\ permit' \in [Runs -> Proposals \cup {NoStep}]
  /\ thread' \in [Runs -> BOOLEAN]

\* A run starts writing an event after which it fits its new place.
LEMMA RecordKeeps ==
  ASSUME AgentInv, NEW r \in Runs, NEW e \in Events, NEW q \in Destinations, Record(r, e, q),
         at[r] \notin Broken \cup {"audit"}, q # "idle",
         UNCHANGED <<trail, sequence, calls>>,
         RestTyped,
         NEW o \in Outcomes \cup {"none"}, status' = [status EXCEPT ![r] = o],
         NEW s \in Proposals \cup {NoStep}, step' = [step EXCEPT ![r] = s],
         NEW d \in 0..max_depth, depth' = [depth EXCEPT ![r] = d],
         Fits(q, Append(trail[r], e), d, calls[r], s, o)
  PROVE  AgentInv'
  <1> USE DEF AgentInv
  <1>1. /\ at' \in [Runs -> Places] /\ at'[r] = "audit"
        /\ event' \in [Runs -> Events \cup {NoEvent}] /\ event'[r] = e
        /\ then' \in [Runs -> Destinations] /\ then'[r] = q
        /\ \A x \in Runs \ {r} : at'[x] = at[x] /\ event'[x] = event[x] /\ then'[x] = then[x]
    BY DEF Typed, Record, Places, Awaits
  <1>2. /\ status' \in [Runs -> Outcomes \cup {"none"}] /\ status'[r] = o
        /\ step' \in [Runs -> Proposals \cup {NoStep}] /\ step'[r] = s
        /\ depth' \in [Runs -> 0..max_depth] /\ depth'[r] = d
        /\ \A x \in Runs \ {r} : /\ status'[x] = status[x] /\ step'[x] = step[x]
                                 /\ depth'[x] = depth[x]
    BY DEF Typed
  <1>3. Typed'
    BY <1>1, <1>2 DEF Typed, RestTyped
  <1>4. OnlyOf(r)
    BY <1>1, <1>2 DEF OnlyOf
  <1>5. RunShape(r)'
    <2>1. Place(r)' = q /\ Written(r)' = Append(trail[r], e)
      BY <1>1 DEF Place, Written
    <2>2. e # NoEvent
      BY NoEventIsNone
    <2> QED BY <1>1, <1>2, <2>1, <2>2 DEF RunShape, Broken
  <1> QED BY <1>3, <1>4, <1>5, StepIsEnough

LEMMA SameAt ==
  ASSUME AgentInv, NEW r \in Runs
  PROVE  /\ status = [status EXCEPT ![r] = status[r]] /\ status[r] \in Outcomes \cup {"none"}
         /\ step = [step EXCEPT ![r] = step[r]] /\ step[r] \in Proposals \cup {NoStep}
         /\ depth = [depth EXCEPT ![r] = depth[r]] /\ depth[r] \in 0..max_depth
  BY DEF AgentInv, Typed

\* s is the step from now on; only the planner changes it.
Chosen(r, s) ==
  /\ s \in Proposals \cup {NoStep} /\ step' = [step EXCEPT ![r] = s]
  /\ s = step[r] \/ at[r] = "plan"

\* Only an observation makes the run deeper.
Deepened(r) ==
  depth' = IF at[r] = "observe" THEN [depth EXCEPT ![r] = depth[r] + 1] ELSE depth

\* The run goes on.
LEMMA AdvanceKeeps ==
  ASSUME AgentInv, NEW r \in Runs, NEW e, NEW q, Advance(at[r], e, q), Record(r, e, q),
         UNCHANGED <<status, trail, sequence, calls>>, RestTyped,
         NEW s, Chosen(r, s), q = "budget" => Allowed(s), Deepened(r)
  PROVE  AgentInv'
  <1> USE DEF Chosen, Deepened
  <1> DEFINE d == IF at[r] = "observe" THEN depth[r] + 1 ELSE depth[r]
  <1>1. /\ at[r] \notin Broken \cup {"audit"} /\ q \in Destinations /\ q # "idle"
    BY DEF Advance, Broken, Destinations, Pieces
  <1>2. at[r] = "idle" => trail[r] = <<>>
    BY DEF AgentInv, RunShape
  <1>3. e \in Events /\ Fits(q, Append(trail[r], e), d, calls[r], s, status[r])
    BY <1>1, <1>2, AtPlace, FitsAdvance
  <1>4. depth' = [depth EXCEPT ![r] = d]
    BY SameAt
  <1>5. d \in 0..max_depth
    <2>1. at[r] = "observe" => depth[r] < max_depth
      BY <1>1, AtPlace DEF Fits, Counted, InLoop
    <2> QED BY <2>1, SameAt, AgentAssumption
  <1>6. status' = [status EXCEPT ![r] = status[r]]
    BY SameAt
  <1> HIDE DEF d
  <1> QED BY <1>1, <1>3, <1>4, <1>5, <1>6, SameAt, RecordKeeps

\* The run has its outcome and will return it.
LEMMA FinishKeeps ==
  ASSUME AgentInv, NEW r \in Runs, at[r] \in InLoop \ {"observe"}, NEW e \in Events,
         e[1] \notin Started \cup Completed \cup Terminated,
         e[1] \in Closed <=> at[r] \in {"dispatch", "execute"},
         NEW o \in Outcomes, RecordAndFinish(r, e, o),
         UNCHANGED <<step, depth, trail, sequence, calls>>, RestTyped
  PROVE  AgentInv'
  <1>1. at[r] \notin Broken \cup {"audit"} /\ "finish" \in Destinations
    BY DEF InLoop, Broken, Destinations, Pieces
  <1>2. Fits("finish", Append(trail[r], e), depth[r], calls[r], step[r], o)
    BY <1>1, AtPlace, FitsFinish
  <1>3. Record(r, e, "finish") /\ status' = [status EXCEPT ![r] = o]
    BY DEF RecordAndFinish
  <1>4. /\ step' = [step EXCEPT ![r] = step[r]] /\ step[r] \in Proposals \cup {NoStep}
        /\ depth' = [depth EXCEPT ![r] = depth[r]] /\ depth[r] \in 0..max_depth
    BY SameAt
  <1> QED BY <1>1, <1>2, <1>3, <1>4, RecordKeeps

LEMMA ReturnKeeps ==
  ASSUME AgentInv, NEW r \in Runs, at[r] \in {"finish", "head", "deadline"},
         NEW o \in Outcomes, Finish(r, o),
         UNCHANGED <<step, depth, trail, sequence, calls>>, RestTyped
  PROVE  AgentInv'
  <1>1. PICK q \in {"returned", "cancelled"} : Record(r, <<"run.terminated", o>>, q)
    BY DEF Finish
  <1>2. at[r] \notin Broken \cup {"audit"} /\ q \in Destinations /\ q # "idle"
    BY DEF Broken, Destinations, Ends
  <1>3. /\ <<"run.terminated", o>> \in Events
        /\ Fits(q, Append(trail[r], <<"run.terminated", o>>), depth[r], calls[r], step[r], o)
    BY <1>2, AtPlace, FitsReturned
  <1>4. /\ step' = [step EXCEPT ![r] = step[r]] /\ step[r] \in Proposals \cup {NoStep}
        /\ depth' = [depth EXCEPT ![r] = depth[r]] /\ depth[r] \in 0..max_depth
        /\ status' = [status EXCEPT ![r] = o]
    BY SameAt DEF Finish
  <1> QED BY <1>1, <1>2, <1>3, <1>4, RecordKeeps

\* The run goes on without an event.
LEMMA GoKeeps ==
  ASSUME AgentInv, NEW r \in Runs, NEW q,
         \/ at[r] = "head" /\ q = "plan" /\ depth[r] < max_depth
         \/ at[r] = "policy" /\ q = "authorize"
         \/ at[r] = "dispatch" /\ q = "execute",
         at' = [at EXCEPT ![r] = q],
         calls' = IF q = "execute" THEN [calls EXCEPT ![r] = calls[r] + 1] ELSE calls,
         UNCHANGED <<event, then, status, step, depth, trail, sequence>>, RestTyped
  PROVE  AgentInv'
  <1> USE DEF AgentInv
  <1>0. at[r] \notin Broken \cup {"audit"} /\ q \in Places /\ q \notin {"audit", "idle"}
    BY DEF Broken, Places, Awaits
  <1>1. /\ at' \in [Runs -> Places] /\ at'[r] = q
        /\ calls' \in [Runs -> Nat]
        /\ calls'[r] = IF q = "execute" THEN calls[r] + 1 ELSE calls[r]
        /\ \A x \in Runs \ {r} : at'[x] = at[x] /\ calls'[x] = calls[x]
    BY <1>0 DEF Typed
  <1>2. Typed' /\ OnlyOf(r)
    BY <1>1 DEF Typed, RestTyped, OnlyOf
  <1>3. Fits(q, trail[r], depth[r], calls'[r], step[r], status[r])
    <2>1. Fits(q, trail[r], depth[r], IF q = "execute" THEN calls[r] + 1 ELSE calls[r],
               step[r], status[r])
      BY <1>0, AtPlace, FitsGo
    <2> QED BY <1>1, <2>1
  <1>4. calls'[r] <= CountIn(trail[r], Started)
    <2>1. CASE q = "execute"
      <3>1. Counted("dispatch", trail[r], depth[r], calls[r])
        BY <1>0, <2>1, AtPlace DEF Fits
      <3>2. CountIn(trail[r], Closed) \in Nat
        <4>1. <<"run.started", "none">> \in Events
          BY DEF Events
        <4> QED BY <1>0, <4>1, AtPlace, CountAppended
      <3> QED BY <1>0, <1>1, <2>1, <3>1, <3>2, AtPlace DEF Counted
    <2>2. CASE q # "execute"
      BY <1>0, <1>1, <2>2, AtPlace
    <2> QED BY <2>1, <2>2
  <1>5. RunShape(r)'
    <2>1. Place(r)' = q /\ Written(r)' = trail[r]
      BY <1>0, <1>1 DEF Place, Written
    <2> QED BY <1>0, <1>1, <1>3, <1>4, <2>1 DEF RunShape
  <1> QED BY <1>2, <1>5, StepIsEnough

\* The event is committed: the run is where it was to be.
LEMMA CommitKeeps ==
  ASSUME AgentInv, NEW r \in Runs, Commit(r)
  PROVE  AgentInv'
  <1> USE DEF AgentInv
  <1>0. /\ at[r] = "audit" /\ event[r] \in Events /\ then[r] \in Destinations
        /\ then[r] # "idle" /\ trail[r] \in Seq(Events) /\ RunShape(r)
    BY DEF Commit, RunShape, Typed
  <1>1. /\ trail' = [trail EXCEPT ![r] = Append(trail[r], event[r])]
        /\ sequence' = [sequence EXCEPT ![r] = sequence[r] + 1]
        /\ at' = [at EXCEPT ![r] = then[r]] /\ event' = [event EXCEPT ![r] = NoEvent]
        /\ UNCHANGED <<remaining, budget, then, status, step, permit, thread, depth, deadline,
                       timer, calls>>
    BY DEF Commit, sharedVars, policyVars, clockVars
  <1>2. Append(trail[r], event[r]) \in Seq(Events)
        /\ Len(Append(trail[r], event[r])) = Len(trail[r]) + 1
    BY <1>0, AppendFacts
  <1>3. then[r] \in Places /\ then[r] # "audit"
    BY <1>0 DEF Places, Destinations, Pieces, Ends
  <1>4. Typed'
    BY <1>1, <1>2, <1>3 DEF Typed
  <1>5. OnlyOf(r)
    BY <1>1 DEF OnlyOf, Typed
  <1>6. /\ at'[r] = then[r] /\ event'[r] = NoEvent /\ sequence'[r] = sequence[r] + 1
        /\ trail'[r] = Append(trail[r], event[r])
    BY <1>1 DEF Typed
  <1>7. RunShape(r)'
    <2>1. Place(r)' = Place(r) /\ Written(r)' = Written(r)
      BY <1>0, <1>3, <1>6 DEF Place, Written
    <2>2. sequence'[r] = Len(trail'[r])
      BY <1>0, <1>2, <1>6 DEF RunShape, Broken
    <2>3. calls[r] <= CountIn(trail'[r], Started)
      <3>1. /\ CountIn(trail[r], Started) \in Nat
            /\ CountIn(trail'[r], Started) \in {CountIn(trail[r], Started),
                                                CountIn(trail[r], Started) + 1}
        BY <1>0, <1>6, CountAppended
      <3> QED BY <1>0, <3>1 DEF RunShape, Typed
    <2> QED BY <1>0, <1>1, <1>3, <1>6, <2>1, <2>2, <2>3 DEF RunShape
  <1> QED BY <1>4, <1>5, <1>7, StepIsEnough

\* The run ends without an outcome; the event it wrote may be in the trail.
LEMMA BreakKeeps ==
  ASSUME AgentInv, NEW r \in Runs, NEW q \in Broken, at' = [at EXCEPT ![r] = q],
         event' = [event EXCEPT ![r] = NoEvent],
         \/ trail' = trail
         \/ event[r] # NoEvent /\ trail' = [trail EXCEPT ![r] = Append(trail[r], event[r])],
         UNCHANGED <<then, status, step, depth, sequence, calls>>, RestTyped
  PROVE  AgentInv'
  <1> USE DEF AgentInv
  <1>0. trail[r] \in Seq(Events) /\ event[r] \in Events \cup {NoEvent} /\ RunShape(r)
        /\ calls[r] \in Nat /\ q \in Places /\ q \notin {"audit", "idle"}
    BY DEF Typed, Broken, Places, Destinations, Ends
  <1>1. /\ trail' \in [Runs -> Seq(Events)]
        /\ \A x \in Runs \ {r} : trail'[x] = trail[x]
        /\ calls[r] <= CountIn(trail'[r], Started)
    <2>1. CASE trail' = trail
      BY <1>0, <2>1 DEF Typed, RunShape
    <2>2. CASE /\ event[r] # NoEvent
               /\ trail' = [trail EXCEPT ![r] = Append(trail[r], event[r])]
      <3>1. trail'[r] = Append(trail[r], event[r]) /\ event[r] \in Events
        BY <1>0, <2>2 DEF Typed
      <3>2. /\ CountIn(trail[r], Started) \in Nat
            /\ CountIn(trail'[r], Started) \in {CountIn(trail[r], Started),
                                                CountIn(trail[r], Started) + 1}
        BY <1>0, <3>1, CountAppended
      <3>3. calls[r] <= CountIn(trail'[r], Started)
        BY <1>0, <3>2 DEF RunShape
      <3>4. Append(trail[r], event[r]) \in Seq(Events)
        BY <1>0, <3>1, AppendFacts
      <3> QED BY <2>2, <3>3, <3>4 DEF Typed
    <2> QED BY <2>1, <2>2
  <1>2. /\ at' \in [Runs -> Places] /\ at'[r] = q
        /\ event' \in [Runs -> Events \cup {NoEvent}] /\ event'[r] = NoEvent
        /\ \A x \in Runs \ {r} : at'[x] = at[x] /\ event'[x] = event[x]
    BY <1>0 DEF Typed
  <1>3. Typed' /\ OnlyOf(r)
    BY <1>1, <1>2 DEF Typed, RestTyped, OnlyOf
  <1>4. Fits(q, Written(r)', depth'[r], calls'[r], step'[r], status'[r])
    BY DEF Fits
  <1>5. RunShape(r)'
    <2>1. Place(r)' = q
      BY <1>0, <1>2 DEF Place
    <2> QED BY <1>0, <1>1, <1>2, <1>4, <2>1 DEF RunShape
  <1> QED BY <1>3, <1>5, StepIsEnough

\* Clocks and permits are not in the table.
LEMMA BesideKeeps ==
  ASSUME AgentInv, RestTyped,
         UNCHANGED <<at, event, then, status, step, depth, trail, sequence, calls>>
  PROVE  AgentInv'
  <1>1. Typed'
    BY DEF AgentInv, Typed, RestTyped
  <1>2. ASSUME NEW r \in Runs PROVE RunShape(r)'
    <2>1. Place(r)' = Place(r) /\ Written(r)' = Written(r) /\ RunShape(r)
      BY DEF Place, Written, AgentInv
    <2> QED BY <2>1 DEF RunShape
  <1> QED BY <1>1, <1>2 DEF AgentInv

\* The variables the table does not speak of stay in their types in every step.
LEMMA RestIsTyped ==
  ASSUME AgentInv, AgentNext
  PROVE  RestTyped
  <1> USE DEF RestTyped, sharedVars, policyVars, clockVars
  <1>0. Typed
    BY DEF AgentInv
  <1>1. CASE Tick
    <2>1. /\ UNCHANGED <<remaining, permit, thread>>
          /\ budget' = Less(budget)
          /\ deadline' = [r \in Runs |-> Less(deadline[r])]
          /\ timer' = [r \in Runs |-> IF at[r] = "execute" THEN Less(timer[r]) ELSE timer[r]]
      BY <1>1 DEF Tick
    <2>2. \A n \in Nat : \A x \in 0..n : Less(x) \in 0..n
      BY DEF Less
    <2>3. budget' \in 0..budget_seconds
      BY <1>0, <2>1, <2>2, AgentAssumption DEF Typed
    <2>4. deadline' \in [Runs -> 0..timeout_seconds]
      BY <1>0, <2>1, <2>2, AgentAssumption DEF Typed
    <2>5. timer' \in [Runs -> 0..tool_timeout_seconds]
      BY <1>0, <2>1, <2>2, AgentAssumption DEF Typed
    <2> QED BY <1>0, <2>1, <2>3, <2>4, <2>5 DEF Typed
  <1>2. ASSUME NEW r \in Runs, Start(r) PROVE RestTyped
    BY <1>0, <1>2, AgentAssumption DEF Start, Typed
  <1>3. ASSUME NEW r \in Runs, Consume(r) PROVE RestTyped
    <2>1. remaining' \in 0..max_executions
      BY <1>0, <1>3, AgentAssumption DEF Consume, Exhausted, Typed
    <2> QED BY <1>0, <1>3, <2>1 DEF Consume, Typed
  <1>4. ASSUME NEW r \in Runs, CheckDeadline(r) PROVE RestTyped
    <2>1. Earlier(tool_timeout_seconds, deadline[r]) \in 0..tool_timeout_seconds
      BY <1>0, AgentAssumption DEF Earlier, Typed
    <2>2. timer' \in [Runs -> 0..tool_timeout_seconds]
      BY <1>0, <1>4, <2>1 DEF CheckDeadline, Typed
    <2> QED BY <1>0, <1>4, <2>2 DEF CheckDeadline, Typed
  <1>5. ASSUME NEW r \in Runs,
               Authorize(r) \/ Authorized(r) \/ AuthorizeFails(r) \/ PermitLate(r)
        PROVE  RestTyped
    <2>1. /\ UNCHANGED <<remaining, budget, deadline, timer>>
          /\ \E b \in BOOLEAN : thread' = [thread EXCEPT ![r] = b] \/ thread' = thread
          /\ permit' = permit \/ permit' = [permit EXCEPT ![r] = step[r]]
                              \/ permit' = [permit EXCEPT ![r] = permit[r]]
      BY <1>5, Zenon DEF Authorize, Authorized, AuthorizeFails, PermitLate, Permit
    <2>2. thread' \in [Runs -> BOOLEAN]
      BY <1>0, <2>1 DEF Typed
    <2>3. permit' \in [Runs -> Proposals \cup {NoStep}]
      BY <1>0, <2>1 DEF Typed
    <2> QED BY <1>0, <2>1, <2>2, <2>3 DEF Typed
  <1>6. ASSUME NEW r \in Runs, Dispatch(r) PROVE RestTyped
    BY <1>0, <1>6 DEF Dispatch, Typed
  <1>7. ASSUME NEW r \in Runs,
               \/ Conclude(r) \/ Commit(r) \/ AuditFails(r) \/ Iterate(r) \/ Plan(r)
               \/ PlanFails(r) \/ PlanTimesOut(r) \/ Select(r) \/ AuthorizeTimesOut(r)
               \/ ToolReturns(r) \/ ToolFails(r) \/ ToolTimesOut(r) \/ Observe(r) \/ Cancel(r)
        PROVE  RestTyped
    <2>1. UNCHANGED <<remaining, budget, permit, thread, deadline, timer>>
      BY <1>7 DEF Conclude, Commit, AuditFails, Iterate, Plan, PlanFails, PlanTimesOut,
                  Select, AuthorizeTimesOut, ToolReturns, ToolFails, ToolTimesOut, Observe,
                  Cancel
    <2> QED BY <1>0, <2>1 DEF Typed
  <1> QED BY <1>1, <1>2, <1>3, <1>4, <1>5, <1>6, <1>7 DEF AgentNext, RunStep

-----------------------------------------------------------------------------
(* The invariant holds                                                     *)

LEMMA AgentInitial == AgentInit => AgentInv
  <1> SUFFICES ASSUME AgentInit PROVE AgentInv
    OBVIOUS
  <1>1. Typed
    BY AgentAssumption DEF AgentInit, Typed, Places, Destinations
  <1>2. ASSUME NEW r \in Runs PROVE RunShape(r)
    <2>1. /\ at[r] = "idle" /\ trail[r] = <<>> /\ depth[r] = 0 /\ calls[r] = 0
          /\ sequence[r] = 0 /\ event[r] = NoEvent
      BY DEF AgentInit
    <2>2. Counted("idle", <<>>, 0, 0)
      BY CountEmpty DEF Counted, InLoop
    <2>3. Evidenced("idle", <<>>, step[r]) /\ Concluded("idle", <<>>, status[r])
      BY DEF Evidenced, Concluded, NoRefusal
    <2>4. Fits(at[r], trail[r], depth[r], calls[r], step[r], status[r])
      BY <2>1, <2>2, <2>3 DEF Fits
    <2>5. Place(r) = at[r] /\ Written(r) = trail[r]
      BY <2>1 DEF Place, Written
    <2>6. calls[r] <= CountIn(trail[r], Started)
      BY <2>1, CountEmpty
    <2> QED BY <2>1, <2>4, <2>5, <2>6 DEF RunShape
  <1> QED BY <1>1, <1>2 DEF AgentInv

\* The events that end a run other than by its terminal event: they close the tool if
\* there is one.
LEMMA EndingEvents ==
  /\ \A e \in ({"planner.decision"} \X {"complete", "timeout", "failed"})
              \cup ({"authorization.decision"} \X {"denied", "timeout", "failed"})
              \cup {<<"budget.decision", "denied">>} :
       /\ e \in Events
       /\ e[1] \notin Started \cup Completed \cup Terminated
       /\ e[1] \notin Closed
  /\ \A e \in {"tool.execution.failed"} \X {"timeout", "cancelled", "failed"} :
       /\ e \in Events
       /\ e[1] \notin Started \cup Completed \cup Terminated
       /\ e[1] \in Closed
  BY DEF Events, Started, Completed, Terminated, Closed

LEMMA EndsBeforeTool ==
  ASSUME AgentInv, NEW r \in Runs, at[r] \in {"plan", "policy", "authorize", "budget"},
         NEW e \in ({"planner.decision"} \X {"complete", "timeout", "failed"})
                    \cup ({"authorization.decision"} \X {"denied", "timeout", "failed"})
                    \cup {<<"budget.decision", "denied">>},
         NEW o \in Outcomes, RecordAndFinish(r, e, o),
         UNCHANGED <<step, depth, trail, sequence, calls>>, RestTyped
  PROVE  AgentInv'
  <1>1. at[r] \in InLoop \ {"observe"} /\ at[r] \notin {"dispatch", "execute"}
    BY DEF InLoop
  <1>2. /\ e \in Events /\ e[1] \notin Started \cup Completed \cup Terminated
        /\ e[1] \notin Closed
    BY EndingEvents
  <1> QED BY <1>1, <1>2, FinishKeeps

LEMMA EndsInTool ==
  ASSUME AgentInv, NEW r \in Runs, at[r] \in {"dispatch", "execute"},
         NEW e \in {"tool.execution.failed"} \X {"timeout", "cancelled", "failed"},
         NEW o \in Outcomes, RecordAndFinish(r, e, o),
         UNCHANGED <<step, depth, trail, sequence, calls>>, RestTyped
  PROVE  AgentInv'
  <1>1. at[r] \in InLoop \ {"observe"}
    BY DEF InLoop
  <1>2. /\ e \in Events /\ e[1] \notin Started \cup Completed \cup Terminated
        /\ e[1] \in Closed
    BY EndingEvents
  <1> QED BY <1>1, <1>2, FinishKeeps

LEMMA AgentStep ==
  ASSUME AgentInv, [AgentNext]_agentVars
  PROVE  AgentInv'
  <1> USE DEF sharedVars, policyVars, clockVars, trailVars
  <1>1. CASE UNCHANGED agentVars
    <2>1. RestTyped
      BY <1>1 DEF agentVars, RestTyped, AgentInv, Typed
    <2> QED BY <1>1, <2>1, BesideKeeps DEF agentVars
  <1>2. CASE AgentNext
    <2>0. RestTyped
      BY <1>2, RestIsTyped
    <2>1. CASE Tick
      BY <2>0, <2>1, BesideKeeps DEF Tick
    <2> SUFFICES ASSUME NEW r \in Runs, RunStep(r) PROVE AgentInv'
      BY <1>2, <2>1 DEF AgentNext
    <2> DEFINE Beside == UNCHANGED <<trail, sequence, calls>>
               Same == UNCHANGED <<step, depth, trail, sequence, calls>>
    <2>s. /\ step = [step EXCEPT ![r] = step[r]] /\ step[r] \in Proposals \cup {NoStep}
          /\ status[r] \in Outcomes \cup {"none"}
      BY SameAt
    <2>o. {"COMPLETE", "DENIED", "BUDGET_EXHAUSTED", "TIMEOUT", "FAILED", "CANCELLED",
           "DEPTH_LIMIT_REACHED"} \subseteq Outcomes
      BY DEF Outcomes
    <2>d. at[r] # "observe" /\ UNCHANGED <<step, depth>> => Chosen(r, step[r]) /\ Deepened(r)
      BY <2>s DEF Chosen, Deepened
    <2>2. CASE Start(r)
      <3>1. /\ at[r] = "idle" /\ Record(r, <<"run.started", "none">>, "head")
            /\ UNCHANGED <<status, step, depth, trail, sequence, calls>>
        BY <2>2 DEF Start
      <3>2. Advance(at[r], <<"run.started", "none">>, "head")
        BY <3>1 DEF Advance
      <3> QED BY <2>0, <2>d, <3>1, <3>2, AdvanceKeeps
    <2>3. CASE Conclude(r)
      <3>1. at[r] = "finish" /\ Finish(r, status[r]) /\ Same
        BY <2>3 DEF Conclude
      <3>2. status[r] \in Outcomes
        BY <3>1, AtPlace DEF Fits, Concluded, Broken
      <3> QED BY <2>0, <3>1, <3>2, ReturnKeeps
    <2>4. CASE Commit(r)
      BY <2>4, CommitKeeps
    <2>5. CASE AuditFails(r)
      <3>1. /\ at[r] = "audit" /\ at' = [at EXCEPT ![r] = "unavailable"]
            /\ event' = [event EXCEPT ![r] = NoEvent]
            /\ trail' = trail \/ trail' = [trail EXCEPT ![r] = Append(trail[r], event[r])]
            /\ UNCHANGED <<then, status, step, depth, sequence, calls>>
        BY <2>5 DEF AuditFails
      <3>2. event[r] # NoEvent /\ "unavailable" \in Broken
        BY <3>1 DEF AgentInv, RunShape, Broken
      <3> QED BY <2>0, <3>1, <3>2, BreakKeeps
    <2>6. CASE Iterate(r)
      <3>1. at[r] = "head" /\ Same
        BY <2>6 DEF Iterate
      <3>2. CASE Finish(r, "DEPTH_LIMIT_REACHED") \/ Finish(r, "TIMEOUT")
        BY <2>0, <2>o, <3>1, <3>2, ReturnKeeps
      <3>3. CASE /\ Deeper(r) /\ at' = [at EXCEPT ![r] = "plan"]
                 /\ UNCHANGED <<event, then, status>>
        BY <2>0, <3>1, <3>3, GoKeeps DEF Deeper
      <3> QED BY <2>6, <3>2, <3>3 DEF Iterate
    <2>7. CASE Plan(r)
      <3>1. at[r] = "plan" /\ Beside /\ UNCHANGED depth
        BY <2>7 DEF Plan
      <3>2. CASE /\ \E s \in Proposals : step' = [step EXCEPT ![r] = s]
                 /\ Record(r, <<"planner.decision", "selected">>, "selected")
                 /\ UNCHANGED status
        <4>1. Advance(at[r], <<"planner.decision", "selected">>, "selected")
          BY <3>1 DEF Advance
        <4>2. PICK s \in Proposals : step' = [step EXCEPT ![r] = s]
          BY <3>2
        <4>3. Chosen(r, s) /\ Deepened(r)
          BY <3>1, <4>2 DEF Chosen, Deepened
        <4> QED BY <2>0, <3>1, <3>2, <4>1, <4>3, AdvanceKeeps
      <3>3. CASE /\ RecordAndFinish(r, <<"planner.decision", "complete">>, "COMPLETE")
                 /\ UNCHANGED step
        BY <2>0, <2>o, <3>1, <3>3, EndsBeforeTool
      <3> QED BY <2>7, <3>2, <3>3 DEF Plan
    <2>8. CASE PlanFails(r) \/ PlanTimesOut(r)
      <3>1. at[r] = "plan" /\ Same
        BY <2>8 DEF PlanFails, PlanTimesOut, Raised
      <3>2. \/ RecordAndFinish(r, <<"planner.decision", "failed">>, "FAILED")
            \/ RecordAndFinish(r, <<"planner.decision", "timeout">>, "TIMEOUT")
        BY <2>8 DEF PlanFails, PlanTimesOut, Raised
      <3> QED BY <2>0, <2>o, <3>1, <3>2, EndsBeforeTool
    <2>9. CASE Select(r)
      <3>1. /\ at[r] = "selected" /\ Record(r, <<"tool.selected", "none">>, "policy")
            /\ UNCHANGED <<status, step, depth, trail, sequence, calls>>
        BY <2>9 DEF Select
      <3>2. Advance(at[r], <<"tool.selected", "none">>, "policy")
        BY <3>1 DEF Advance
      <3> QED BY <2>0, <2>d, <3>1, <3>2, AdvanceKeeps
    <2>10. CASE Authorize(r)
      <3>1. at[r] = "policy" /\ Same
        BY <2>10 DEF Authorize
      <3>2. CASE RecordAndFinish(r, <<"authorization.decision", "timeout">>, "TIMEOUT")
        BY <2>0, <2>o, <3>1, <3>2, EndsBeforeTool
      <3>3. CASE at' = [at EXCEPT ![r] = "authorize"] /\ UNCHANGED <<event, then, status>>
        BY <2>0, <3>1, <3>3, GoKeeps
      <3> QED BY <2>10, <3>2, <3>3 DEF Authorize
    <2>11. CASE Authorized(r)
      <3>1. at[r] = "authorize" /\ Same
        BY <2>11 DEF Authorized
      <3>2. CASE /\ Allowed(step[r])
                 /\ Record(r, <<"authorization.decision", "allowed">>, "budget")
                 /\ UNCHANGED status
        <4>1. Advance(at[r], <<"authorization.decision", "allowed">>, "budget")
          BY <3>1 DEF Advance
        <4> QED BY <2>0, <2>d, <3>1, <3>2, <4>1, AdvanceKeeps
      <3>3. CASE RecordAndFinish(r, <<"authorization.decision", "denied">>, "DENIED")
        BY <2>0, <2>o, <3>1, <3>3, EndsBeforeTool
      <3> QED BY <2>11, <3>2, <3>3 DEF Authorized
    <2>12. CASE AuthorizeFails(r) \/ AuthorizeTimesOut(r)
      <3>1. at[r] = "authorize" /\ Same
        BY <2>12 DEF AuthorizeFails, AuthorizeTimesOut
      <3>2. \/ RecordAndFinish(r, <<"authorization.decision", "failed">>, "FAILED")
            \/ RecordAndFinish(r, <<"authorization.decision", "timeout">>, "TIMEOUT")
        BY <2>12 DEF AuthorizeFails, AuthorizeTimesOut
      <3> QED BY <2>0, <2>o, <3>1, <3>2, EndsBeforeTool
    <2>13. CASE PermitLate(r)
      BY <2>0, <2>13, BesideKeeps DEF PermitLate
    <2>14. CASE Consume(r)
      <3>1. at[r] = "budget" /\ Same
        BY <2>14 DEF Consume
      <3>2. CASE \/ RecordAndFinish(r, <<"budget.decision", "denied">>, "TIMEOUT")
                 \/ RecordAndFinish(r, <<"budget.decision", "denied">>, "BUDGET_EXHAUSTED")
        BY <2>0, <2>o, <3>1, <3>2, EndsBeforeTool
      <3>3. CASE Record(r, <<"budget.decision", "allowed">>, "deadline") /\ UNCHANGED status
        <4>1. Advance(at[r], <<"budget.decision", "allowed">>, "deadline")
          BY <3>1 DEF Advance
        <4> QED BY <2>0, <2>d, <3>1, <3>3, <4>1, AdvanceKeeps
      <3> QED BY <2>14, <3>2, <3>3 DEF Consume
    <2>15. CASE CheckDeadline(r)
      <3>1. at[r] = "deadline" /\ Same
        BY <2>15 DEF CheckDeadline
      <3>2. CASE Finish(r, "TIMEOUT")
        BY <2>0, <2>o, <3>1, <3>2, ReturnKeeps
      <3>3. CASE Record(r, <<"tool.execution.started", "none">>, "dispatch")
                 /\ UNCHANGED status
        <4>1. Advance(at[r], <<"tool.execution.started", "none">>, "dispatch")
          BY <3>1 DEF Advance
        <4> QED BY <2>0, <2>d, <3>1, <3>3, <4>1, AdvanceKeeps
      <3> QED BY <2>15, <3>2, <3>3 DEF CheckDeadline
    <2>16. CASE Dispatch(r)
      <3>1. at[r] = "dispatch" /\ UNCHANGED <<step, depth, trail, sequence>>
        BY <2>16 DEF Dispatch
      <3>2. CASE /\ calls' = [calls EXCEPT ![r] = calls[r] + 1]
                 /\ at' = [at EXCEPT ![r] = "execute"]
                 /\ UNCHANGED <<event, then, status>>
        BY <2>0, <3>1, <3>2, GoKeeps
      <3>3. CASE /\ RecordAndFinish(r, <<"tool.execution.failed", "failed">>, "FAILED")
                 /\ UNCHANGED calls
        BY <2>0, <2>o, <3>1, <3>3, EndsInTool
      <3> QED BY <2>16, <3>2, <3>3 DEF Dispatch
    <2>17. CASE ToolReturns(r)
      <3>1. /\ at[r] = "execute"
            /\ Record(r, <<"tool.execution.completed", "completed">>, "observe")
            /\ UNCHANGED <<status, step, depth, trail, sequence, calls>>
        BY <2>17 DEF ToolReturns
      <3>2. Advance(at[r], <<"tool.execution.completed", "completed">>, "observe")
        BY <3>1 DEF Advance
      <3> QED BY <2>0, <2>d, <3>1, <3>2, AdvanceKeeps
    <2>18. CASE ToolFails(r) \/ ToolTimesOut(r)
      <3>1. at[r] = "execute" /\ Same
        BY <2>18 DEF ToolFails, ToolTimesOut, Raised
      <3>2. \/ RecordAndFinish(r, <<"tool.execution.failed", "failed">>, "FAILED")
            \/ RecordAndFinish(r, <<"tool.execution.failed", "timeout">>, "TIMEOUT")
        BY <2>18 DEF ToolFails, ToolTimesOut, Raised
      <3> QED BY <2>0, <2>o, <3>1, <3>2, EndsInTool
    <2>19. CASE Observe(r)
      <3>1. /\ at[r] = "observe" /\ depth' = [depth EXCEPT ![r] = depth[r] + 1]
            /\ Record(r, <<"observation.received", "none">>, "head")
            /\ UNCHANGED <<status, step, trail, sequence, calls>>
        BY <2>19 DEF Observe
      <3>2. Advance(at[r], <<"observation.received", "none">>, "head")
        BY <3>1 DEF Advance
      <3>3. Chosen(r, step[r]) /\ Deepened(r)
        BY <2>s, <3>1 DEF Chosen, Deepened
      <3> QED BY <2>0, <3>1, <3>2, <3>3, AdvanceKeeps
    <2>20. CASE Cancel(r)
      <3>1. UNCHANGED <<step, depth, sequence, calls>>
        BY <2>20 DEF Cancel
      <3>2. CASE /\ at[r] = "execute" /\ UNCHANGED trail
                 /\ RecordAndFinish(r, <<"tool.execution.failed", "cancelled">>, "CANCELLED")
        BY <2>0, <2>o, <3>1, <3>2, EndsInTool
      <3>3. CASE /\ trail' \in {trail} \cup
                      {[trail EXCEPT ![r] = Append(@, e)] : e \in {event[r]} \ {NoEvent}}
                 /\ at' = [at EXCEPT ![r] = "cancelled"]
                 /\ event' = [event EXCEPT ![r] = NoEvent]
                 /\ UNCHANGED <<then, status>>
        <4>1. \/ trail' = trail
              \/ /\ event[r] # NoEvent
                 /\ trail' = [trail EXCEPT ![r] = Append(trail[r], event[r])]
          BY <3>3
        <4>2. "cancelled" \in Broken
          BY DEF Broken
        <4> QED BY <2>0, <3>1, <3>3, <4>1, <4>2, BreakKeeps
      <3> QED BY <2>20, <3>2, <3>3 DEF Cancel
    <2> QED BY <2>2, <2>3, <2>4, <2>5, <2>6, <2>7, <2>8, <2>9, <2>10, <2>11, <2>12, <2>13,
               <2>14, <2>15, <2>16, <2>17, <2>18, <2>19, <2>20 DEF RunStep
  <1> QED BY <1>1, <1>2

\* Every reachable state of the agent runtime satisfies the table: at each of its
\* places run_agent_loop_async has the trail, the depth and the calls the table says.
THEOREM AgentInvariance == AgentSpec => []AgentInv
  <1>1. AgentInv /\ [AgentNext]_agentVars => AgentInv'
    BY AgentStep
  <1> QED BY AgentInitial, <1>1, PTL DEF AgentSpec

\* The type invariant: clocks, budget, places, events, permits and trails of any number
\* of runs stay in their types, the budget is never overdrawn and no run is deeper than
\* max_depth.
THEOREM AgentTypes == AgentSpec => []AgentTypeOK
  <1>1. AgentInv => AgentTypeOK
    BY DEF AgentInv, Typed, RunShape, AgentTypeOK, Places, Destinations
  <1> QED BY <1>1, AgentInvariance, PTL

\* An executor of dispatch runs only a step the policy allows, and only after the
\* planner's choice, the selection, the allowed authorization, the allowed budget and the
\* start of the execution are durable, as the last five events of the trail: for every
\* planner, policy, budget, number of runs and interleaving.
THEOREM ExecutionsAreEvidenced == AgentSpec => []ExecutionIsEvidenced
  <1>1. AgentInv => ExecutionIsEvidenced
    <2> SUFFICES ASSUME AgentInv, NEW r \in Runs, at[r] = "execute"
                 PROVE  /\ Allowed(step[r])
                        /\ step[r].capability \in allowed_capabilities
                        /\ IsSuffix(Evidence, trail[r])
      BY DEF ExecutionIsEvidenced, Evidence
    <2>1. Evidenced("execute", trail[r], step[r]) /\ trail[r] \in Seq(Events)
      BY AtPlace DEF Fits, Broken
    <2>2. Allowed(step[r]) /\ EndsWith(trail[r], 5)
      BY <2>1 DEF Evidenced
    <2>3. step[r].capability \in allowed_capabilities
      BY <2>2 DEF Allowed, Decision
    <2> QED BY <2>1, <2>2, <2>3, EvidenceIsSuffix
  <1> QED BY <1>1, AgentInvariance, PTL

\* The durable trail of AgentAuditTrail accounts for what the run did: gapless sequence
\* numbers, a start for every executor call and, once the run returned, an end for every
\* start, a completed tool for every level of depth and one terminal event, the last.
THEOREM TrailsAccount == AgentSpec => []TrailAccounts
  <1>1. AgentInv => TrailAccounts
    <2> SUFFICES ASSUME AgentInv, NEW r \in Runs
                 PROVE  /\ at[r] \notin {"cancelled", "unavailable"}
                              => sequence[r] = Len(trail[r])
                        /\ calls[r] <= Count(r, {"tool.execution.started"})
                        /\ at[r] = "returned" =>
                             /\ Count(r, {"tool.execution.started"}) = Count(r, Closed)
                             /\ Count(r, {"tool.execution.completed"}) = depth[r]
                             /\ Last(trail[r]) = <<"run.terminated", status[r]>>
                             /\ Count(r, {"run.terminated"}) = 1
      BY DEF TrailAccounts
    <2>1. \A T : Count(r, T) = CountIn(trail[r], T)
      BY DEF Count, CountIn
    <2>2. /\ at[r] \notin {"cancelled", "unavailable"} => sequence[r] = Len(trail[r])
          /\ calls[r] <= CountIn(trail[r], Started)
      BY DEF AgentInv, RunShape, Broken
    <2>3. ASSUME at[r] = "returned"
          PROVE  /\ CountIn(trail[r], Started) = CountIn(trail[r], Closed)
                 /\ CountIn(trail[r], Completed) = depth[r]
                 /\ Last(trail[r]) = <<"run.terminated", status[r]>>
                 /\ CountIn(trail[r], Terminated) = 1
      <3>1. /\ Counted("returned", trail[r], depth[r], calls[r])
            /\ Concluded("returned", trail[r], status[r])
            /\ trail[r] \in Seq(Events) /\ depth[r] \in Nat
        BY <2>3, AtPlace DEF Fits, Broken
      <3>2. CountIn(trail[r], Closed) \in Nat
        <4>1. <<"run.started", "none">> \in Events
          BY DEF Events
        <4> QED BY <3>1, <4>1, CountAppended
      <3> QED BY <3>1, <3>2 DEF Counted, Concluded
    <2> QED BY <2>1, <2>2, <2>3 DEF Started, Completed, Terminated
  <1> QED BY <1>1, AgentInvariance, PTL

\* An executor is called in dispatch and nowhere else.
LEMMA CalledInDispatch ==
  ASSUME AgentInv, [AgentNext]_agentVars, NEW r \in Runs, calls'[r] # calls[r]
  PROVE  at[r] = "dispatch"
  <1> USE DEF sharedVars, policyVars, clockVars, trailVars
  <1>1. PICK q \in Runs : Dispatch(q)
    BY DEF AgentNext, agentVars, RunStep, Tick, Start, Conclude, Commit, AuditFails, Iterate,
           Plan, PlanFails, PlanTimesOut, Select, Authorize, Authorized, AuthorizeFails,
           AuthorizeTimesOut, PermitLate, Consume, CheckDeadline, ToolReturns, ToolFails,
           ToolTimesOut, Observe, Cancel
  <1>2. at[q] = "dispatch" /\ (calls' = calls \/ calls' = [calls EXCEPT ![q] = calls[q] + 1])
    BY <1>1 DEF Dispatch
  <1>3. q = r
    BY <1>2 DEF AgentInv, Typed
  <1> QED BY <1>2, <1>3

\* A denial, a timeout, a failure or a cancellation in the trail is final: the loop calls
\* no executor in that run any more.
THEOREM RefusalsAreFinal == AgentSpec => RefusalIsFinal
  <1>1. AgentInv /\ [AgentNext]_agentVars =>
          [\A r \in Runs : calls'[r] # calls[r] =>
             \A i \in DOMAIN trail[r] : trail[r][i][2] \notin Refusals]_agentVars
    <2> SUFFICES ASSUME AgentInv, [AgentNext]_agentVars, NEW r \in Runs, calls'[r] # calls[r]
                 PROVE  NoRefusal(trail[r])
      BY DEF NoRefusal
    <2>1. at[r] = "dispatch"
      BY CalledInDispatch
    <2> QED BY <2>1, AtPlace DEF Fits, Concluded, Broken
  <1> QED BY <1>1, AgentInvariance, PTL DEF AgentSpec, RefusalIsFinal

\* A step of a run changes its own place only.
LEMMA PlacesOfOthers ==
  ASSUME AgentInv, NEW q \in Runs, RunStep(q), NEW r \in Runs, r # q
  PROVE  at'[r] = at[r] /\ then'[r] = then[r] /\ deadline'[r] = deadline[r]
  <1> USE DEF sharedVars, policyVars, clockVars, trailVars
  <1>0. Typed
    BY DEF AgentInv
  <1>1. at' = at \/ \E v : at' = [at EXCEPT ![q] = v]
    BY Zenon
       DEF RunStep, Start, Conclude, Commit, AuditFails, Iterate, Plan, PlanFails,
           PlanTimesOut, Select, Authorize, Authorized, AuthorizeFails, AuthorizeTimesOut,
           PermitLate, Consume, CheckDeadline, Dispatch, ToolReturns, ToolFails,
           ToolTimesOut, Observe, Cancel, Record, RecordAndFinish, Finish
  <1>2. then' = then \/ \E v : then' = [then EXCEPT ![q] = v]
    BY Zenon
       DEF RunStep, Start, Conclude, Commit, AuditFails, Iterate, Plan, PlanFails,
           PlanTimesOut, Select, Authorize, Authorized, AuthorizeFails, AuthorizeTimesOut,
           PermitLate, Consume, CheckDeadline, Dispatch, ToolReturns, ToolFails,
           ToolTimesOut, Observe, Cancel, Record, RecordAndFinish, Finish
  <1>3. deadline' = deadline \/ deadline' = [deadline EXCEPT ![q] = timeout_seconds]
    BY DEF RunStep, Start, Conclude, Commit, AuditFails, Iterate, Plan, PlanFails,
           PlanTimesOut, Select, Authorize, Authorized, AuthorizeFails, AuthorizeTimesOut,
           PermitLate, Consume, CheckDeadline, Dispatch, ToolReturns, ToolFails,
           ToolTimesOut, Observe, Cancel
  <1> QED BY <1>0, <1>1, <1>2, <1>3 DEF Typed

\* Where a run whose deadline has passed can go: it stays, starts to write an event, or
\* moves, but not to the dispatch of a tool.
GoesElsewhere(r) ==
  \/ at' = at /\ then' = then
  \/ \E n \in Destinations \ {"idle", "dispatch"} :
       at' = [at EXCEPT ![r] = "audit"] /\ then' = [then EXCEPT ![r] = n]
  \/ \E n \in Places \ {"idle", "audit", "dispatch"} :
       at' = [at EXCEPT ![r] = n] /\ then' = then

LEMMA PastGoes ==
  ASSUME AgentInv, NEW r \in Runs, RunStep(r), Past(r)
  PROVE  deadline' = deadline /\ GoesElsewhere(r)
  <1> USE DEF sharedVars, policyVars, clockVars, trailVars, Past
  <1>1. deadline' = deadline
    BY DEF RunStep, Start, Conclude, Commit, AuditFails, Iterate, Plan, PlanFails,
           PlanTimesOut, Select, Authorize, Authorized, AuthorizeFails, AuthorizeTimesOut,
           PermitLate, Consume, CheckDeadline, Dispatch, ToolReturns, ToolFails,
           ToolTimesOut, Observe, Cancel
  <1> SUFFICES GoesElsewhere(r)
    BY <1>1
  <1>2. CASE PermitLate(r)
    BY <1>2 DEF PermitLate, GoesElsewhere
  <1>3. CASE Commit(r)
    <2>1. at[r] = "audit" /\ at' = [at EXCEPT ![r] = then[r]] /\ then' = then
      BY <1>3 DEF Commit
    <2>2. then[r] \in Destinations /\ then[r] # "idle"
      BY <2>1 DEF AgentInv, Typed, RunShape
    <2>3. then[r] \in Places \ {"idle", "audit", "dispatch"}
      BY <2>1, <2>2 DEF Places, Destinations, Pieces, Ends
    <2> QED BY <2>1, <2>3 DEF GoesElsewhere
  <1>4. CASE AuditFails(r) \/ (at[r] # "execute" /\ Cancel(r))
    <2>1. /\ then' = then
          /\ \/ at' = [at EXCEPT ![r] = "unavailable"]
             \/ at' = [at EXCEPT ![r] = "cancelled"]
      BY <1>4 DEF AuditFails, Cancel
    <2>2. {"unavailable", "cancelled"} \subseteq Places \ {"idle", "audit", "dispatch"}
      BY DEF Places, Destinations, Ends
    <2> QED BY <2>1, <2>2 DEF GoesElsewhere
  <1>5. CASE \E n \in Destinations \ {"idle", "dispatch"} : \E e : Record(r, e, n)
    BY <1>5 DEF Record, GoesElsewhere
  <1>6. {"head", "selected", "policy", "budget", "deadline", "observe", "finish", "returned",
         "cancelled"} \subseteq Destinations \ {"idle", "dispatch"}
    BY DEF Destinations, Pieces, Ends
  <1>7. ASSUME NEW e, NEW o, RecordAndFinish(r, e, o) \/ Finish(r, o)
        PROVE  \E n \in Destinations \ {"idle", "dispatch"} : \E x : Record(r, x, n)
    BY <1>6, <1>7 DEF RecordAndFinish, Finish
  <1>8. CASE \/ Conclude(r) \/ Iterate(r) \/ Plan(r) \/ PlanFails(r) \/ PlanTimesOut(r)
             \/ Select(r) \/ Authorize(r) \/ Authorized(r) \/ AuthorizeFails(r)
             \/ AuthorizeTimesOut(r) \/ Consume(r) \/ CheckDeadline(r)
             \/ ToolReturns(r) \/ ToolFails(r) \/ ToolTimesOut(r) \/ Observe(r)
             \/ at[r] = "execute" /\ Cancel(r)
    <2>1. \/ \E e, o : RecordAndFinish(r, e, o) \/ Finish(r, o)
          \/ \E e : \E n \in {"head", "selected", "policy", "budget", "deadline", "observe"} :
               Record(r, e, n)
      BY <1>8, Zenon DEF Conclude, Iterate, Plan, PlanFails, PlanTimesOut, Select, Authorize,
                  Authorized, AuthorizeFails, AuthorizeTimesOut, Consume, CheckDeadline,
                  ToolReturns, ToolFails, ToolTimesOut, Observe, Cancel
    <2> QED BY <1>5, <1>6, <1>7, <2>1
  <1>9. ~Start(r) /\ ~Dispatch(r)
    BY DEF Start, Dispatch
  <1> QED BY <1>2, <1>3, <1>4, <1>8, <1>9 DEF RunStep

\* After the deadline of a run nothing is dispatched: whatever the order in which the
\* planner, the policy thread, the budget, the audit writes and the clock of any number of
\* runs interleave, the loop checks the deadline before every start, and only a start that
\* was already being written is still followed by its call.
THEOREM NothingAfterDeadline == AgentSpec => NoStepAfterDeadline
  <1>1. AgentInv /\ [AgentNext]_agentVars =>
          [\A r \in Runs : Past(r) => Past(r)' /\ calls'[r] = calls[r]]_agentVars
    <2> SUFFICES ASSUME AgentInv, AgentNext, NEW r \in Runs, Past(r)
                 PROVE  Past(r)' /\ calls'[r] = calls[r]
      OBVIOUS
    <2>1. calls'[r] = calls[r]
      BY CalledInDispatch DEF Past
    <2>2. CASE Tick
      BY <2>1, <2>2 DEF Tick, Past, Less
    <2>3. ASSUME NEW q \in Runs, RunStep(q), q # r PROVE Past(r)'
      BY <2>3, PlacesOfOthers DEF Past
    <2>4. ASSUME RunStep(r) PROVE Past(r)'
      <3>0. Typed
        BY DEF AgentInv
      <3> QED BY <2>4, <3>0, PastGoes DEF Past, Typed, GoesElsewhere
    <2> QED BY <2>1, <2>2, <2>3, <2>4 DEF AgentNext
  <1> QED BY <1>1, AgentInvariance, PTL DEF AgentSpec, NoStepAfterDeadline

=============================================================================
