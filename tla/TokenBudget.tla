---------------------------- MODULE TokenBudget ----------------------------
(***************************************************************************)
(* The distributed token budget of one organization: the Redis keys and    *)
(* the three Lua scripts of domains/usage/redis_reservation.py, used       *)
(* through domains/usage/execution_budget.py.                              *)
(*                                                                         *)
(* Every user has a counter key and the organization has one.  A           *)
(* reservation of an execution adds its estimate to both and sets a marker *)
(* key; a settlement replaces the estimate by the usage the provider       *)
(* reported and sets a settlement key.  Every key has a time to live; a    *)
(* key whose time is over does not exist.  A script runs atomically.       *)
(*                                                                         *)
(* A caller is one chat request: it reserves for its execution once and    *)
(* later releases, settles, or does neither (a crash, or a provider that   *)
(* reports no usage).  Several callers may share an execution: they are    *)
(* its attempts.                                                           *)
(***************************************************************************)
EXTENDS Integers, FiniteSets, Functions

CONSTANTS
  Callers,              \* the requests
  Reservations,         \* reservation ids: the execution ids
  Executes,             \* <<c, x>>: request c may be an attempt of execution x
  Users,
  UserOf,               \* UserOf[x]: the user of execution x
  Organization,         \* names the organization's counter
  PromptLength,         \* PromptLength[x], in characters
  Verify,               \* Verify[x]: a verifier call is planned
  InputCharsPerToken, OutputTokens,
  UserLimit, OrganizationLimit,
  TtlSeconds,           \* time to live of a reservation, in ticks
  Usages                \* the token counts a provider may report

Counters == Users \cup {Organization}

ASSUME BudgetAssumption ==
  /\ IsFiniteSet(Reservations)
  /\ Executes \subseteq Callers \X Reservations
  /\ UserOf \in [Reservations -> Users]
  /\ Organization \notin Users
  /\ PromptLength \in [Reservations -> Nat]
  /\ Verify \in [Reservations -> BOOLEAN]
  /\ InputCharsPerToken \in Nat \ {0}
  /\ OutputTokens \in Nat
  /\ UserLimit \in Nat \ {0}
  /\ OrganizationLimit \in Nat \ {0}
  /\ TtlSeconds \in Nat \ {0}
  /\ Usages \subseteq Nat

VARIABLES
  count,       \* count[k]: the value of counter k
  ttl,         \* ttl[k]: its time to live; 0 when the key does not exist
  marker,      \* marker[x]: the time to live of the marker of execution x
  settled,     \* settled[x]: value and time to live of its settlement key
  standing,    \* standing[c]: what caller c knows of its reservation
  reservation  \* reservation[c]: {reservation_id}, empty before the call

budgetVars == <<count, ttl, marker, settled, standing, reservation>>

-----------------------------------------------------------------------------
(* CostEstimator.estimate: the prompt in tokens, rounded up, and a fixed   *)
(* allowance for the output; twice when a verifier call is planned.        *)

PrimaryTokens(x) ==
  (PromptLength[x] + InputCharsPerToken - 1) \div InputCharsPerToken + OutputTokens

Amount(x) == PrimaryTokens(x) + IF Verify[x] THEN PrimaryTokens(x) ELSE 0

Limit(k) == IF k = Organization THEN OrganizationLimit ELSE UserLimit

\* The two counters a reservation of x is charged to.
Charged(x) == {UserOf[x], Organization}

Forever == -1   \* time to live of a key without EXPIRE
NotSettled == [value |-> -1, ttl |-> 0]

Standings == {"idle", "new", "replayed", "refused", "over"}

\* The call reserve_tenant for x ends with standing s.
Reserved(c, x, s) ==
  /\ standing' = [standing EXCEPT ![c] = s]
  /\ reservation' = [reservation EXCEPT ![c] = {x}]

\* c holds a reservation of x, new or replayed.
Holds(c, x) == standing[c] \in {"new", "replayed"} /\ reservation[c] = {x}

\* c is done with its reservation.
Over(c) == standing' = [standing EXCEPT ![c] = "over"] /\ UNCHANGED reservation

\* SET ... KEEPTTL and INCRBY create a missing key, and then without a time to
\* live; an existing key keeps the one it has.
KeptTtl_Dropped(K) == [k \in Counters |-> IF k \in K THEN Forever ELSE ttl[k]]

KeptTtl(K) ==
  [k \in Counters |-> IF k \in K /\ ttl[k] = 0 THEN Forever ELSE ttl[k]]

-----------------------------------------------------------------------------
(* reserve_tenant                                                          *)

\* ExecutionBudget.reserve compares the estimate itself with both limits.
Admissible(x) == \A k \in Charged(x) : Amount(x) <= Limit(k)

\* The script tests both counters before it changes either.
Affordable(x) == \A k \in Charged(x) : count[k] + Amount(x) <= Limit(k)

ReserveNew_MarkerOutlives(c, x) ==
  /\ standing[c] = "idle"
  /\ Admissible(x)
  /\ marker[x] = 0
  /\ Affordable(x)
  /\ count' = [k \in Counters |-> count[k] + IF k \in Charged(x) THEN Amount(x) ELSE 0]
  /\ ttl' = [k \in Counters |->
       IF k \in Charged(x) /\ ttl[k] = 0 THEN TtlSeconds ELSE ttl[k]]
  /\ marker' = [marker EXCEPT ![x] = TtlSeconds]
  /\ \E s \in {"new", "refused"} : Reserved(c, x, s)
  /\ UNCHANGED settled

\* Both counters are charged and live as long as the new marker.  The caller may
\* lose the answer of the script: it is then refused although it was charged.
ReserveNew(c, x) ==
  /\ standing[c] = "idle"
  /\ Admissible(x)
  /\ marker[x] = 0
  /\ Affordable(x)
  /\ count' = [k \in Counters |-> count[k] + IF k \in Charged(x) THEN Amount(x) ELSE 0]
  /\ ttl' = [k \in Counters |-> IF k \in Charged(x) THEN TtlSeconds ELSE ttl[k]]
  /\ marker' = [marker EXCEPT ![x] = TtlSeconds]
  /\ \E s \in {"new", "refused"} : Reserved(c, x, s)
  /\ UNCHANGED settled

\* The marker of this execution exists: nothing is charged.  The estimate is a
\* function of the request body, so the identities agree.
ReserveReplayed(c, x) ==
  /\ standing[c] = "idle"
  /\ Admissible(x)
  /\ marker[x] # 0
  /\ Reserved(c, x, "replayed")
  /\ UNCHANGED <<count, ttl, marker, settled>>

\* Over a limit, or Redis is unavailable.
ReserveRefused(c, x) ==
  /\ standing[c] = "idle"
  /\ Reserved(c, x, "refused")
  /\ UNCHANGED <<count, ttl, marker, settled>>

-----------------------------------------------------------------------------
(* release_tenant, settle_tenant                                           *)

\* The counters after a release of x.  The settlement key is left behind.
Refunded(x) ==
  [k \in Counters |->
     IF k \in Charged(x)
       THEN IF count[k] > Amount(x) THEN count[k] - Amount(x) ELSE 0
       ELSE count[k]]

\* Called only by a request that persisted nothing; a replayed reservation is
\* left alone.
Release(c, x) ==
  /\ Holds(c, x)
  /\ IF standing[c] = "new" /\ marker[x] # 0
       THEN /\ count' = Refunded(x)
            /\ ttl' = KeptTtl(Charged(x))
            /\ marker' = [marker EXCEPT ![x] = 0]
       ELSE UNCHANGED <<count, ttl, marker>>
  /\ Over(c)
  /\ UNCHANGED settled

\* settle_tenant returns 1: the counters are reconciled with the actual usage.
SettleFirst(c, x, actual) ==
  /\ Holds(c, x)
  /\ marker[x] # 0
  /\ settled[x].ttl = 0
  /\ count' = [k \in Counters |->
       count[k] + IF k \in Charged(x) THEN actual - Amount(x) ELSE 0]
  /\ ttl' = KeptTtl(Charged(x))
  /\ settled' = [settled EXCEPT ![x] = [value |-> actual, ttl |-> marker[x]]]
  /\ Over(c)
  /\ UNCHANGED marker

SettleReplayed_AnyUsage(c, x, actual) ==
  /\ Holds(c, x)
  /\ marker[x] # 0
  /\ settled[x].ttl # 0
  /\ Over(c)
  /\ UNCHANGED <<count, ttl, marker, settled>>

\* It returns 0: the same usage was settled before.
SettleReplayed(c, x, actual) ==
  /\ Holds(c, x)
  /\ marker[x] # 0
  /\ settled[x].ttl # 0
  /\ settled[x].value = actual
  /\ Over(c)
  /\ UNCHANGED <<count, ttl, marker, settled>>

\* It raises: no marker (-1), or another usage was settled before (-2).
SettleRefused(c, x, actual) ==
  /\ Holds(c, x)
  /\ \/ marker[x] = 0
     \/ settled[x].ttl # 0 /\ settled[x].value # actual
  /\ Over(c)
  /\ UNCHANGED <<count, ttl, marker, settled>>

\* A script refunds the estimate of an execution whose usage is settled.
OverRefunds(x) == marker[x] # 0 /\ marker'[x] = 0 /\ settled[x].ttl # 0

-----------------------------------------------------------------------------
(* Time: a key disappears when its time to live is over.                   *)

Older(t) == IF t > 0 THEN t - 1 ELSE t

Elapse ==
  /\ \E k \in Counters : ttl[k] > 0
  /\ ttl' = [k \in Counters |-> Older(ttl[k])]
  /\ count' = [k \in Counters |-> IF ttl'[k] = 0 THEN 0 ELSE count[k]]
  /\ marker' = [x \in Reservations |-> Older(marker[x])]
  /\ settled' = [x \in Reservations |->
       IF settled[x].ttl > 1 THEN [settled[x] EXCEPT !.ttl = @ - 1] ELSE NotSettled]
  /\ UNCHANGED <<standing, reservation>>

-----------------------------------------------------------------------------
BudgetInit ==
  /\ count = [k \in Counters |-> 0]
  /\ ttl = [k \in Counters |-> 0]
  /\ marker = [x \in Reservations |-> 0]
  /\ settled = [x \in Reservations |-> NotSettled]
  /\ standing = [c \in Callers |-> "idle"]
  /\ reservation = [c \in Callers |-> {}]

\* One call of the budget by a request c for its execution x.
CallsBudget(c, x) ==
  /\ <<c, x>> \in Executes
  /\ \/ ReserveNew(c, x) \/ ReserveReplayed(c, x) \/ ReserveRefused(c, x)
     \/ Release(c, x)
     \/ \E actual \in Usages :
          SettleFirst(c, x, actual) \/ SettleReplayed(c, x, actual)
            \/ SettleRefused(c, x, actual)

BudgetNext == (\E c \in Callers, x \in Reservations : CallsBudget(c, x)) \/ Elapse

BudgetSpec == BudgetInit /\ [][BudgetNext]_budgetVars

-----------------------------------------------------------------------------
(* Properties                                                              *)

\* Every variable stays in its type.
BudgetTypeOK ==
  /\ count \in [Counters -> Int]
  /\ ttl \in [Counters -> (0..TtlSeconds) \cup {Forever}]
  /\ marker \in [Reservations -> 0..TtlSeconds]
  /\ settled \in [Reservations -> [value: Usages \cup {-1}, ttl: 0..TtlSeconds]]
  /\ standing \in [Callers -> Standings]
  /\ reservation \in [Callers -> SUBSET Reservations]

\* No counter ever loses its time to live: settle and release write counters
\* without setting one, which is harmless only while the keys exist.  A counter
\* without one would deny its user or organization for ever once it is full.
CountersExpire == \A k \in Counters : ttl[k] # Forever

\* A counter outlives every reservation charged to it.
CountersOutliveMarkers ==
  \A x \in Reservations : \A k \in Charged(x) : marker[x] <= ttl[k]

\* What execution x is charged: the reported usage once it is settled.
Charge(x) ==
  CASE marker[x] = 0 -> 0
    [] marker[x] # 0 /\ settled[x].ttl = 0 -> Amount(x)
    [] OTHER -> settled[x].value

\* A counter holds at least what the live reservations charge to it.
ChargesAreCounted ==
  \A k \in Counters :
    count[k] >= SumFunctionOnSet([x \in Reservations |-> Charge(x)],
                                 {x \in Reservations : k \in Charged(x)})

=============================================================================
