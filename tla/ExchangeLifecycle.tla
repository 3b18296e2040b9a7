------------------------- MODULE ExchangeLifecycle -------------------------
(***************************************************************************)
(* What the persistence contract promises about one chat execution,        *)
(* without leases, tokens, requests or crashes: it is started once, with   *)
(* a limit, runs at most that many attempts one after another, and ends.   *)
(* A completed execution and a failure that is not retryable are final.    *)
(***************************************************************************)
EXTENDS Integers

CONSTANTS Names, Limits

VARIABLES phase, tried, limit

lifeVars == <<phase, tried, limit>>

Phases == {"absent", "active", "resumable", "completed", "dead"}

LifeInit ==
  /\ phase = [n \in Names |-> "absent"]
  /\ tried = [n \in Names |-> 0]
  /\ limit = [n \in Names |-> 0]

Start(n) ==
  /\ phase[n] = "absent"
  /\ phase' = [phase EXCEPT ![n] = "active"]
  /\ tried' = [tried EXCEPT ![n] = 1]
  /\ \E l \in Limits : limit' = [limit EXCEPT ![n] = l]

\* The next attempt, after a crash or a retryable failure.
Resume(n) ==
  /\ phase[n] \in {"active", "resumable"}
  /\ tried[n] < limit[n]
  /\ phase' = [phase EXCEPT ![n] = "active"]
  /\ tried' = [tried EXCEPT ![n] = @ + 1]
  /\ UNCHANGED limit

End(n) ==
  /\ phase[n] = "active"
  /\ \E p \in {"resumable", "completed", "dead"} : phase' = [phase EXCEPT ![n] = p]
  /\ UNCHANGED <<tried, limit>>

\* The retry limit closes an execution that did not complete.
Exhaust(n) ==
  /\ phase[n] \in {"active", "resumable"}
  /\ tried[n] = limit[n]
  /\ phase' = [phase EXCEPT ![n] = "dead"]
  /\ UNCHANGED <<tried, limit>>

LifeNext == \E n \in Names : Start(n) \/ Resume(n) \/ End(n) \/ Exhaust(n)

LifeSpec == LifeInit /\ [][LifeNext]_lifeVars
=============================================================================
