----------------------------- MODULE DataProofs -----------------------------
(***************************************************************************)
(* What the recursive definitions of the models compute, for arguments of  *)
(* any size.                                                               *)
(*                                                                         *)
(* Induction is over sets: a set of numbers that holds 0 and the successor *)
(* of each of its members holds every number.  A property is proved for    *)
(* all numbers by applying this to the set of the numbers that have it.    *)
(***************************************************************************)
EXTENDS Integers, Sequences, FiniteSets, FiniteSetsExt, Functions, Folds,
        FiniteSetTheorems, WellFoundedInduction, TLAPS

\* Every set of natural numbers that is not empty has a least member.
LEMMA LeastNat ==
  ASSUME NEW S \in SUBSET Nat, S # {}
  PROVE  \E n \in S : \A m \in S : n <= m
<1>1. PICK n \in S : \A m \in S : ~(<<m, n>> \in OpToRel(<, Nat))
  BY WFMin, NatLessThanWellFounded
<1>2. \A m \in S : ~(m < n)
  BY <1>1 DEF OpToRel
<1> QED
  BY <1>2

\* Induction, of a set.
LEMMA Induction ==
  ASSUME NEW S \in SUBSET Nat, 0 \in S, \A n \in S : n + 1 \in S
  PROVE  \A n \in Nat : n \in S
<1> SUFFICES ASSUME \E n \in Nat : n \notin S
             PROVE  FALSE
  OBVIOUS
<1>1. PICK n \in Nat \ S : \A m \in Nat \ S : n <= m
  <2>1. Nat \ S \in SUBSET Nat /\ Nat \ S # {}
    OBVIOUS
  <2> QED
    BY <2>1, LeastNat
<1>2. n # 0 /\ n - 1 \in Nat
  BY <1>1
<1>3. n - 1 \in S
  BY <1>1, <1>2
<1> QED
  BY <1>1, <1>2, <1>3

\* A loop of N rounds exists: g[k] is the state after round k.
Loops(A, b, G, N) ==
  {g \in [0..N -> A] : g[0] = b /\ \A k \in 1..N : g[k] = G[k][g[k - 1]]}

LEMMA Recursion ==
  ASSUME NEW A, NEW b \in A, NEW G \in [Nat -> [A -> A]], NEW N \in Nat
  PROVE  Loops(A, b, G, N) # {}
<1> DEFINE Runs(n) == {g \in [0..n -> A] : g[0] = b /\ \A k \in 1..n : g[k] = G[k][g[k - 1]]}
           S == {n \in Nat : Runs(n) # {}}
<1>1. 0 \in S
  <2>1. [k \in 0..0 |-> b] \in Runs(0)
    OBVIOUS
  <2> QED
    BY <2>1
<1>2. ASSUME NEW n \in S
      PROVE  n + 1 \in S
  <2>1. PICK g \in Runs(n) : TRUE
    OBVIOUS
  <2> DEFINE h == [k \in 0..n + 1 |-> IF k = n + 1 THEN G[n + 1][g[n]] ELSE g[k]]
  <2>2. n \in Nat /\ g \in [0..n -> A] /\ n \in 0..n
    BY <2>1
  <2>3. G[n + 1][g[n]] \in A
    BY <2>2
  <2>4. h \in [0..n + 1 -> A]
    BY <2>2, <2>3
  <2>5. h[0] = b
    BY <2>1, <2>2
  <2>6. \A k \in 1..n + 1 : h[k] = G[k][h[k - 1]]
    BY <2>1, <2>2
  <2>7. h \in Runs(n + 1)
    BY <2>4, <2>5, <2>6
  <2> HIDE DEF Runs, h
  <2> QED
    BY <2>2, <2>7
<1> HIDE DEF S
<1>3. \A n \in Nat : n \in S
  BY <1>1, <1>2, Induction DEF S
<1> QED
  BY <1>3 DEF S, Loops

-----------------------------------------------------------------------------
(* Sums over finite sets                                                   *)

Pick(s) == CHOOSE x \in s : TRUE

\* The equation that SumFunctionOnSet solves.
Sums(w, S, f) ==
  f = [s \in SUBSET S |-> IF s = {} THEN 0 ELSE w[Pick(s)] + f[s \ {Pick(s)}]]

LEMMA PickIsIn == \A s : s # {} => Pick(s) \in s
  BY DEF Pick

\* The subsets of S with at most n members.
Small(S, n) == {s \in SUBSET S : Cardinality(s) <= n}

LEMMA SmallStep ==
  ASSUME NEW S, IsFiniteSet(S), NEW n \in Nat, NEW s \in Small(S, n + 1), NEW x \in s
  PROVE  /\ s \ {x} \in Small(S, n) /\ IsFiniteSet(s)
         /\ Cardinality(s \ {x}) = Cardinality(s) - 1 /\ Cardinality(s) \in Nat
<1>1. s \in SUBSET S /\ Cardinality(s) <= n + 1
  BY DEF Small
<1>2. IsFiniteSet(s) /\ Cardinality(s) \in Nat
  BY <1>1, FS_Subset, FS_CardinalityType
<1>3. Cardinality(s \ {x}) = Cardinality(s) - 1
  BY <1>2, FS_RemoveElement
<1> QED
  BY <1>1, <1>2, <1>3 DEF Small

LEMMA SmallAll ==
  ASSUME NEW S, IsFiniteSet(S)
  PROVE  \A s \in SUBSET S : s \in Small(S, Cardinality(S)) /\ Cardinality(S) \in Nat
  BY FS_Subset, FS_CardinalityType DEF Small

LEMMA SmallEmpty ==
  ASSUME NEW S, IsFiniteSet(S), NEW s \in Small(S, 0)
  PROVE  s = {}
<1>1. s \in SUBSET S /\ Cardinality(s) <= 0
  BY DEF Small
<1>2. IsFiniteSet(s) /\ Cardinality(s) \in Nat
  BY <1>1, FS_Subset, FS_CardinalityType
<1> QED
  BY <1>1, <1>2, FS_EmptySet

\* The equation has a solution, of integers.
LEMMA SumsExist ==
  ASSUME NEW S, IsFiniteSet(S), NEW w, \A x \in S : w[x] \in Int
  PROVE  \E f \in [SUBSET S -> Int] : Sums(w, S, f)
<1> DEFINE Solves(n, f) ==
             \A s \in Small(S, n) : f[s] = IF s = {} THEN 0 ELSE w[Pick(s)] + f[s \ {Pick(s)}]
           T == {n \in Nat : \E f \in [SUBSET S -> Int] : Solves(n, f)}
<1>1. 0 \in T
  <2>1. [s \in SUBSET S |-> 0] \in [SUBSET S -> Int] /\ Solves(0, [s \in SUBSET S |-> 0])
    BY SmallEmpty DEF Small
  <2> QED
    BY <2>1
<1>2. ASSUME NEW n \in T
      PROVE  n + 1 \in T
  <2>1. PICK f \in [SUBSET S -> Int] : Solves(n, f)
    OBVIOUS
  <2> DEFINE g == [s \in SUBSET S |-> IF s \in Small(S, n) THEN f[s]
                                      ELSE IF s = {} THEN 0 ELSE w[Pick(s)] + f[s \ {Pick(s)}]]
  <2>2. \A s \in SUBSET S : s # {} => w[Pick(s)] \in Int /\ s \ {Pick(s)} \in SUBSET S
    BY PickIsIn
  <2>3. g \in [SUBSET S -> Int]
    BY <2>2
  <2>4. ASSUME NEW s \in Small(S, n + 1)
        PROVE  g[s] = IF s = {} THEN 0 ELSE w[Pick(s)] + g[s \ {Pick(s)}]
    <3>1. s \in SUBSET S
      BY DEF Small
    <3>2. ASSUME s # {}
          PROVE  s \ {Pick(s)} \in Small(S, n) /\ s \ {Pick(s)} \in SUBSET S
      BY <3>1, <3>2, PickIsIn, SmallStep
    <3>3. s # {} => g[s \ {Pick(s)}] = f[s \ {Pick(s)}]
      BY <3>2
    <3>4. g[s] = IF s = {} THEN 0 ELSE w[Pick(s)] + f[s \ {Pick(s)}]
      BY <2>1, <3>1
    <3> QED
      BY <3>3, <3>4
  <2> HIDE DEF g
  <2>5. Solves(n + 1, g)
    BY <2>4
  <2> HIDE DEF Solves
  <2> QED
    BY <2>3, <2>5
<1>3. \A n \in Nat : n \in T
  <2> HIDE DEF T
  <2> QED
    BY <1>1, <1>2, Induction DEF T
<1>4. PICK f \in [SUBSET S -> Int] : Solves(Cardinality(S), f)
  <2> HIDE DEF Solves
  <2> QED
    BY <1>3, FS_CardinalityType
<1>5. \A s \in SUBSET S : f[s] = IF s = {} THEN 0 ELSE w[Pick(s)] + f[s \ {Pick(s)}]
  BY <1>4, SmallAll
<1> QED
  BY <1>5 DEF Sums

\* Solutions of the equation agree wherever their arguments do.
LEMMA SumsAgree ==
  ASSUME NEW S, IsFiniteSet(S), NEW T \in SUBSET S, NEW w, NEW v, \A x \in T : w[x] = v[x],
         NEW f, Sums(w, S, f), NEW g, Sums(v, T, g)
  PROVE  \A s \in SUBSET T : f[s] = g[s]
<1> DEFINE N == {n \in Nat : \A s \in Small(T, n) : f[s] = g[s]}
<1>0. IsFiniteSet(T)
  BY FS_Subset
<1>1. \A s \in SUBSET S : f[s] = IF s = {} THEN 0 ELSE w[Pick(s)] + f[s \ {Pick(s)}]
  BY DEF Sums
<1>2. \A s \in SUBSET T : g[s] = IF s = {} THEN 0 ELSE v[Pick(s)] + g[s \ {Pick(s)}]
  BY DEF Sums
<1>3. 0 \in N
  BY <1>0, <1>1, <1>2, SmallEmpty
<1>4. ASSUME NEW n \in N
      PROVE  n + 1 \in N
  <2> SUFFICES ASSUME NEW s \in Small(T, n + 1)
               PROVE  f[s] = g[s]
    OBVIOUS
  <2>0. s = {} => f[s] = g[s]
    BY <1>1, <1>2
  <2> SUFFICES ASSUME s # {}
               PROVE  f[s] = g[s]
    BY <2>0
  <2>1. s \in SUBSET T /\ s \in SUBSET S /\ Pick(s) \in s
    BY PickIsIn DEF Small
  <2>2. s \ {Pick(s)} \in Small(T, n)
    BY <1>0, <2>1, SmallStep
  <2>3. f[s \ {Pick(s)}] = g[s \ {Pick(s)}] /\ w[Pick(s)] = v[Pick(s)]
    BY <2>1, <2>2
  <2> QED
    BY <1>1, <1>2, <2>1, <2>3
<1>5. \A n \in Nat : n \in N
  <2> HIDE DEF N
  <2> QED
    BY <1>3, <1>4, Induction DEF N
<1> QED
  BY <1>0, <1>5, SmallAll

\* Any member may be taken out first.
TakesOut(w, S, f) == \A s \in SUBSET S : \A x \in s : f[s] = w[x] + f[s \ {x}]

LEMMA SumsTakeOut ==
  ASSUME NEW S, IsFiniteSet(S), NEW w, \A x \in S : w[x] \in Int,
         NEW f \in [SUBSET S -> Int], Sums(w, S, f)
  PROVE  TakesOut(w, S, f)
<1> DEFINE N == {n \in Nat : \A s \in Small(S, n) : \A x \in s : f[s] = w[x] + f[s \ {x}]}
<1>1. \A s \in SUBSET S : f[s] = IF s = {} THEN 0 ELSE w[Pick(s)] + f[s \ {Pick(s)}]
  BY DEF Sums
<1>2. 0 \in N
  BY SmallEmpty
<1>3. ASSUME NEW n \in N
      PROVE  n + 1 \in N
  <2> SUFFICES ASSUME NEW s \in Small(S, n + 1), NEW x \in s
               PROVE  f[s] = w[x] + f[s \ {x}]
    OBVIOUS
  <2> DEFINE p == Pick(s)
  <2>1. s \in SUBSET S /\ p \in s
    BY PickIsIn DEF Small
  <2>2. f[s] = w[p] + f[s \ {p}]
    BY <1>1, <2>1
  <2>3. CASE x = p
    BY <2>2, <2>3
  <2>4. CASE x # p
    <3>1. s \ {p} \in Small(S, n) /\ s \ {x} \in Small(S, n)
      BY <2>1, SmallStep
    <3>2. x \in s \ {p} /\ p \in s \ {x} /\ (s \ {p}) \ {x} = (s \ {x}) \ {p}
      BY <2>1, <2>4
    <3> DEFINE t == (s \ {x}) \ {p}
    <3>3. f[s \ {p}] = w[x] + f[t]
      BY <3>1, <3>2
    <3>4. f[s \ {x}] = w[p] + f[t]
      BY <3>1, <3>2
    <3>5. t \in SUBSET S /\ f[t] \in Int /\ w[x] \in Int /\ w[p] \in Int
      BY <2>1
    <3> QED
      BY <2>2, <3>3, <3>4, <3>5
  <2> QED
    BY <2>3, <2>4
<1>4. \A n \in Nat : n \in N
  <2> HIDE DEF N
  <2> QED
    BY <1>2, <1>3, Induction DEF N
<1>5. \A s \in Small(S, Cardinality(S)) : \A x \in s : f[s] = w[x] + f[s \ {x}]
  BY <1>4, FS_CardinalityType
<1> QED
  BY <1>5, SmallAll DEF TakesOut

\* The library's sum is a solution.
LEMMA SumIs ==
  ASSUME NEW S, IsFiniteSet(S), NEW w, \A x \in S : w[x] \in Int
  PROVE  \E f \in [SUBSET S -> Int] : Sums(w, S, f) /\ SumFunctionOnSet(w, S) = f[S]
<1>1. PICK h \in [SUBSET S -> Int] : Sums(w, S, h)
  BY SumsExist
<1>2. PICK f : Sums(w, S, f) /\ SumFunctionOnSet(w, S) = f[S]
  <2> DEFINE c == CHOOSE g : Sums(w, S, g)
  <2>1. Sums(w, S, c)
    BY <1>1
  <2>2. SumFunctionOnSet(w, S) = c[S]
    BY DEF SumFunctionOnSet, FoldFunctionOnSet, MapThenFoldSet, Sums, Pick
  <2> HIDE DEF c
  <2> QED
    BY <2>1, <2>2
<1>4. \A s \in SUBSET S : f[s] = h[s]
  BY <1>1, <1>2, SumsAgree
<1>5. f \in [SUBSET S -> Int]
  <2>1. f = [s \in SUBSET S |-> f[s]]
    BY <1>2 DEF Sums
  <2> QED
    BY <1>1, <1>4, <2>1
<1> QED
  BY <1>2, <1>5

LEMMA SumType ==
  ASSUME NEW S, IsFiniteSet(S), NEW w, \A x \in S : w[x] \in Int
  PROVE  SumFunctionOnSet(w, S) \in Int
<1>1. PICK f \in [SUBSET S -> Int] : Sums(w, S, f) /\ SumFunctionOnSet(w, S) = f[S]
  BY SumIs
<1>2. f[S] \in Int
  OBVIOUS
<1> QED
  BY <1>1, <1>2

LEMMA SumEmpty == \A w : SumFunctionOnSet(w, {}) = 0
<1> SUFFICES ASSUME NEW w
             PROVE  SumFunctionOnSet(w, {}) = 0
  OBVIOUS
<1>1. PICK f \in [SUBSET {} -> Int] : Sums(w, {}, f) /\ SumFunctionOnSet(w, {}) = f[{}]
  BY SumIs, FS_EmptySet
<1> QED
  BY <1>1 DEF Sums

\* Only the summands matter.
LEMMA SumSame ==
  ASSUME NEW S, IsFiniteSet(S), NEW w, NEW v, \A x \in S : w[x] \in Int /\ v[x] = w[x]
  PROVE  SumFunctionOnSet(v, S) = SumFunctionOnSet(w, S)
<1>1. PICK f \in [SUBSET S -> Int] : Sums(w, S, f) /\ SumFunctionOnSet(w, S) = f[S]
  BY SumIs
<1>2. PICK g \in [SUBSET S -> Int] : Sums(v, S, g) /\ SumFunctionOnSet(v, S) = g[S]
  BY SumIs
<1> QED
  BY <1>1, <1>2, SumsAgree

LEMMA SumRemove ==
  ASSUME NEW S, IsFiniteSet(S), NEW w, \A x \in S : w[x] \in Int, NEW x \in S
  PROVE  SumFunctionOnSet(w, S) = w[x] + SumFunctionOnSet(w, S \ {x})
<1>1. PICK f \in [SUBSET S -> Int] : Sums(w, S, f) /\ SumFunctionOnSet(w, S) = f[S]
  BY SumIs
<1> DEFINE T == S \ {x}
<1>2. IsFiniteSet(T) /\ T \in SUBSET S /\ \A y \in T : w[y] \in Int /\ w[y] = w[y]
  BY FS_RemoveElement
<1>3. TakesOut(w, S, f)
  BY <1>1, SumsTakeOut
<1>6. f[S] = w[x] + f[T]
  BY <1>3 DEF TakesOut
<1> HIDE DEF T
<1>4. PICK g \in [SUBSET T -> Int] : Sums(w, T, g) /\ SumFunctionOnSet(w, T) = g[T]
  BY <1>2, SumIs
<1>5. f[T] = g[T]
  BY <1>1, <1>2, <1>4, SumsAgree
<1> QED
  BY <1>1, <1>4, <1>5, <1>6 DEF T

LEMMA SumAdd ==
  ASSUME NEW S, IsFiniteSet(S), NEW w, \A y \in S : w[y] \in Int,
         NEW x, x \notin S, w[x] \in Int
  PROVE  SumFunctionOnSet(w, S \cup {x}) = w[x] + SumFunctionOnSet(w, S)
<1> DEFINE T == S \cup {x}
<1>1. IsFiniteSet(T) /\ x \in T /\ T \ {x} = S /\ \A y \in T : w[y] \in Int
  BY FS_AddElement
<1> HIDE DEF T
<1>2. SumFunctionOnSet(w, T) = w[x] + SumFunctionOnSet(w, T \ {x})
  BY <1>1, SumRemove
<1> QED
  BY <1>1, <1>2 DEF T

LEMMA SumZero ==
  ASSUME NEW S, IsFiniteSet(S), NEW w, \A x \in S : w[x] = 0
  PROVE  SumFunctionOnSet(w, S) = 0
<1>0. \A x \in S : w[x] \in Int
  OBVIOUS
<1>1. PICK f \in [SUBSET S -> Int] : Sums(w, S, f) /\ SumFunctionOnSet(w, S) = f[S]
  BY <1>0, SumIs
<1> DEFINE g == [s \in SUBSET S |-> 0]
<1>2. \A s \in SUBSET S : g[s] = IF s = {} THEN 0 ELSE w[Pick(s)] + g[s \ {Pick(s)}]
  BY PickIsIn
<1>3. g = [s \in SUBSET S |-> IF s = {} THEN 0 ELSE w[Pick(s)] + g[s \ {Pick(s)}]]
  BY <1>2
<1>4. g[S] = 0
  OBVIOUS
<1> HIDE DEF g
<1>5. Sums(w, S, g)
  BY <1>3 DEF Sums
<1>6. \A s \in SUBSET S : f[s] = g[s]
  BY <1>1, <1>5, SumsAgree
<1> QED
  BY <1>1, <1>4, <1>6

\* A sum of summands that are no smaller is no smaller.
LEMMA SumLeq ==
  ASSUME NEW S, IsFiniteSet(S), NEW w, NEW v,
         \A x \in S : w[x] \in Int /\ v[x] \in Int /\ v[x] <= w[x]
  PROVE  SumFunctionOnSet(v, S) <= SumFunctionOnSet(w, S)
<1> DEFINE N == {n \in Nat : \A s \in Small(S, n) :
                               SumFunctionOnSet(v, s) <= SumFunctionOnSet(w, s)}
<1>1. 0 \in N
  BY SmallEmpty, SumEmpty
<1>2. ASSUME NEW n \in N
      PROVE  n + 1 \in N
  <2> SUFFICES ASSUME NEW s \in Small(S, n + 1)
               PROVE  SumFunctionOnSet(v, s) <= SumFunctionOnSet(w, s)
    OBVIOUS
  <2>1. CASE s = {}
    BY <2>1, SumEmpty
  <2>2. ASSUME NEW x \in s
        PROVE  SumFunctionOnSet(v, s) <= SumFunctionOnSet(w, s)
    <3> DEFINE t == s \ {x}
    <3>1. s \in SUBSET S /\ IsFiniteSet(s) /\ t \in Small(S, n)
      BY SmallStep DEF Small
    <3>2. IsFiniteSet(t) /\ t \in SUBSET S
      BY <3>1, FS_Subset
    <3>3. SumFunctionOnSet(v, s) = v[x] + SumFunctionOnSet(v, t)
      BY <3>1, SumRemove
    <3>4. SumFunctionOnSet(w, s) = w[x] + SumFunctionOnSet(w, t)
      BY <3>1, SumRemove
    <3> HIDE DEF t
    <3>5. SumFunctionOnSet(v, t) \in Int /\ SumFunctionOnSet(w, t) \in Int
      BY <3>2, SumType
    <3>6. SumFunctionOnSet(v, t) <= SumFunctionOnSet(w, t)
      BY <3>1
    <3>7. v[x] \in Int /\ w[x] \in Int /\ v[x] <= w[x]
      BY <3>1
    <3> QED
      BY <3>3, <3>4, <3>5, <3>6, <3>7
  <2> QED
    BY <2>1, <2>2
<1>3. \A n \in Nat : n \in N
  <2> HIDE DEF N
  <2> QED
    BY <1>1, <1>2, Induction DEF N
<1>4. S \in Small(S, Cardinality(S)) /\ Cardinality(S) \in Nat
  BY SmallAll
<1> QED
  BY <1>3, <1>4

\* The sum over a set and a part of it differ by the sum over the rest.
LEMMA SumSplit ==
  ASSUME NEW S, IsFiniteSet(S), NEW w, \A x \in S : w[x] \in Int, NEW T \in SUBSET S
  PROVE  SumFunctionOnSet(w, S) = SumFunctionOnSet(w, T) + SumFunctionOnSet(w, S \ T)
<1> DEFINE N == {n \in Nat : \A s \in Small(T, n) :
                   SumFunctionOnSet(w, S) = SumFunctionOnSet(w, s) + SumFunctionOnSet(w, S \ s)}
<1>0. IsFiniteSet(T) /\ SumFunctionOnSet(w, S) \in Int
  BY FS_Subset, SumType
<1>1. 0 \in N
  <2> SUFFICES ASSUME NEW s \in Small(T, 0)
               PROVE  SumFunctionOnSet(w, S) = SumFunctionOnSet(w, s) + SumFunctionOnSet(w, S \ s)
    OBVIOUS
  <2>1. s = {}
    BY <1>0, SmallEmpty
  <2>2. SumFunctionOnSet(w, s) = 0
    BY <2>1, SumEmpty
  <2>3. S \ s = S
    BY <2>1
  <2>4. SumFunctionOnSet(w, S \ s) = SumFunctionOnSet(w, S)
    BY <2>3, Zenon
  <2> QED
    BY <1>0, <2>2, <2>4
<1>2. ASSUME NEW n \in N
      PROVE  n + 1 \in N
  <2> SUFFICES ASSUME NEW s \in Small(T, n + 1)
               PROVE  SumFunctionOnSet(w, S) = SumFunctionOnSet(w, s) + SumFunctionOnSet(w, S \ s)
    OBVIOUS
  <2>1. CASE s = {}
    BY <1>1, <2>1, FS_EmptySet DEF Small
  <2>2. ASSUME NEW x \in s
        PROVE  SumFunctionOnSet(w, S) = SumFunctionOnSet(w, s) + SumFunctionOnSet(w, S \ s)
    <3> DEFINE t == s \ {x}
               r == S \ t
    <3>1. s \in SUBSET T /\ IsFiniteSet(s) /\ t \in Small(T, n)
      BY <1>0, SmallStep DEF Small
    <3>2. s \in SUBSET S /\ t \in SUBSET S /\ r \in SUBSET S /\ S \ s \in SUBSET S
      BY <3>1
    <3>3. x \in r /\ r \ {x} = S \ s
      BY <3>2
    <3>4. IsFiniteSet(t) /\ IsFiniteSet(r) /\ IsFiniteSet(S \ s)
      BY <3>2, FS_Subset
    <3>5. SumFunctionOnSet(w, s) = w[x] + SumFunctionOnSet(w, t)
      BY <3>1, <3>2, SumRemove
    <3>6. SumFunctionOnSet(w, S) = SumFunctionOnSet(w, t) + SumFunctionOnSet(w, r)
      BY <3>1
    <3> HIDE DEF t, r
    <3>7. SumFunctionOnSet(w, r) = w[x] + SumFunctionOnSet(w, S \ s)
      BY <3>2, <3>3, <3>4, SumRemove
    <3>8. SumFunctionOnSet(w, t) \in Int /\ SumFunctionOnSet(w, S \ s) \in Int /\ w[x] \in Int
      BY <3>2, <3>4, SumType
    <3> QED
      BY <3>5, <3>6, <3>7, <3>8
  <2> QED
    BY <2>1, <2>2
<1>3. \A n \in Nat : n \in N
  <2> HIDE DEF N
  <2> QED
    BY <1>1, <1>2, Induction DEF N
<1>4. T \in Small(T, Cardinality(T)) /\ Cardinality(T) \in Nat
  BY <1>0, SmallAll
<1> QED
  BY <1>3, <1>4

LEMMA SumNat ==
  ASSUME NEW S, IsFiniteSet(S), NEW w, \A x \in S : w[x] \in Nat
  PROVE  SumFunctionOnSet(w, S) \in Nat
<1> DEFINE z == [x \in S |-> 0]
<1>1. \A x \in S : w[x] \in Int /\ z[x] \in Int /\ z[x] = 0 /\ z[x] <= w[x]
  OBVIOUS
<1> HIDE DEF z
<1>2. SumFunctionOnSet(w, S) \in Int
  BY <1>1, SumType
<1>3. SumFunctionOnSet(z, S) = 0
  BY <1>1, SumZero
<1>4. SumFunctionOnSet(z, S) <= SumFunctionOnSet(w, S)
  BY <1>1, SumLeq
<1> QED
  BY <1>2, <1>3, <1>4

\* A part adds up to no more than the whole.
LEMMA SumPart ==
  ASSUME NEW S, IsFiniteSet(S), NEW w, \A x \in S : w[x] \in Nat, NEW T \in SUBSET S
  PROVE  /\ SumFunctionOnSet(w, T) \in Nat /\ SumFunctionOnSet(w, S) \in Nat
         /\ SumFunctionOnSet(w, T) <= SumFunctionOnSet(w, S)
<1> DEFINE U == S \ T
<1>1. IsFiniteSet(T) /\ IsFiniteSet(U)
  BY FS_Subset
<1>2. (\A x \in T : w[x] \in Nat) /\ (\A x \in U : w[x] \in Nat) /\ \A x \in S : w[x] \in Int
  OBVIOUS
<1>3. SumFunctionOnSet(w, S) = SumFunctionOnSet(w, T) + SumFunctionOnSet(w, U)
  BY <1>2, SumSplit
<1> HIDE DEF U
<1>4. SumFunctionOnSet(w, T) \in Nat /\ SumFunctionOnSet(w, U) \in Nat
  BY <1>1, <1>2, SumNat
<1> QED
  BY <1>3, <1>4

-----------------------------------------------------------------------------
(* Numbers                                                                 *)

LEMMA MinOfTwo ==
  ASSUME NEW a \in Int, NEW b \in Int
  PROVE  Min({a, b}) \in {a, b} /\ Min({a, b}) <= a /\ Min({a, b}) <= b
<1>1. \E x \in {a, b} : \A y \in {a, b} : x <= y
  OBVIOUS
<1>2. Min({a, b}) \in {a, b} /\ \A y \in {a, b} : Min({a, b}) <= y
  BY <1>1 DEF Min
<1> QED
  BY <1>2

LEMMA MaxIs ==
  ASSUME NEW S \in SUBSET Int, NEW x \in S, \A y \in S : x >= y
  PROVE  Max(S) = x
<1>1. \A z \in S : (\A y \in S : z >= y) => z = x
  OBVIOUS
<1> QED
  BY <1>1 DEF Max

LEMMA MaxOfTwo ==
  ASSUME NEW a \in Int, NEW b \in Int
  PROVE  Max({a, b}) \in {a, b} /\ Max({a, b}) >= a /\ Max({a, b}) >= b
<1>1. \E x \in {a, b} : \A y \in {a, b} : x >= y
  OBVIOUS
<1>2. Max({a, b}) \in {a, b} /\ \A y \in {a, b} : Max({a, b}) >= y
  BY <1>1 DEF Max
<1> QED
  BY <1>2

\* Rounding down to a multiple.
LEMMA Quotient ==
  ASSUME NEW a \in Nat, NEW d \in Nat, d >= 1
  PROVE  (a \div d) \in Nat /\ (a \div d) * d <= a /\ a < (a \div d) * d + d
  OBVIOUS

\* Multiplying keeps the order, and so does dividing.
LEMMA TimesLeq ==
  ASSUME NEW a \in Int, NEW b \in Int, NEW k \in Nat, a <= b
  PROVE  a * k <= b * k
  OBVIOUS

LEMMA TimesCancel ==
  ASSUME NEW a \in Int, NEW b \in Int, NEW k \in Nat, k >= 1, a * k <= b * k
  PROVE  a <= b
  OBVIOUS

-----------------------------------------------------------------------------
(* The members of a finite set, counted in an order                        *)

IsLinear(S, R) ==
  /\ \A x \in S : <<x, x>> \notin R
  /\ \A x, y, z \in S : <<x, y>> \in R /\ <<y, z>> \in R => <<x, z>> \in R
  /\ \A x, y \in S : x = y \/ <<x, y>> \in R \/ <<y, x>> \in R

Below(S, R, x) == {y \in S : <<y, x>> \in R}

\* How many members come before x.
Place(S, R, x) == Cardinality(Below(S, R, x))

\* A member that comes before another has fewer before it.
LEMMA PlacesGrow ==
  ASSUME NEW S, IsFiniteSet(S), NEW R, IsLinear(S, R), NEW x \in S, NEW y \in S, <<x, y>> \in R
  PROVE  Place(S, R, x) < Place(S, R, y)
<1> DEFINE A == Below(S, R, x)
           B == Below(S, R, y)
<1>1. A \in SUBSET B /\ x \in B /\ x \notin A /\ B \in SUBSET S
  BY DEF Below, IsLinear
<1> HIDE DEF A, B
<1>2. IsFiniteSet(B)
  BY <1>1, FS_Subset
<1>3. IsFiniteSet(A) /\ Cardinality(A) <= Cardinality(B) /\ (Cardinality(B) = Cardinality(A) => B = A)
  BY <1>1, <1>2, FS_Subset
<1>4. Cardinality(A) \in Nat /\ Cardinality(B) \in Nat
  BY <1>2, <1>3, FS_CardinalityType
<1> QED
  BY <1>1, <1>3, <1>4 DEF A, B, Place

LEMMA PlaceType ==
  ASSUME NEW S, IsFiniteSet(S), NEW R, IsLinear(S, R), NEW x \in S
  PROVE  Place(S, R, x) \in 0..Cardinality(S) - 1 /\ Cardinality(S) \in Nat
<1> DEFINE A == Below(S, R, x)
<1>1. A \in SUBSET S /\ x \notin A
  BY DEF Below, IsLinear
<1> HIDE DEF A
<1>2. IsFiniteSet(A) /\ Cardinality(A) <= Cardinality(S) /\ (Cardinality(S) = Cardinality(A) => S = A)
  BY <1>1, FS_Subset
<1>3. Cardinality(A) \in Nat /\ Cardinality(S) \in Nat
  BY <1>2, FS_CardinalityType
<1> QED
  BY <1>1, <1>2, <1>3 DEF A, Place

\* The places are 0, 1, 2, ... in the order of the members.
Enumerated(S, R) ==
  /\ Cardinality(S) \in Nat
  /\ \A x \in S : Place(S, R, x) \in 0..Cardinality(S) - 1
  /\ \A i \in 1..Cardinality(S) : \E x \in S : Place(S, R, x) = i - 1
  /\ \A x, y \in S : <<x, y>> \in R <=> Place(S, R, x) < Place(S, R, y)
  /\ \A x, y \in S : Place(S, R, x) = Place(S, R, y) => x = y

LEMMA Ranked ==
  ASSUME NEW S, IsFiniteSet(S), NEW R, IsLinear(S, R)
  PROVE  Enumerated(S, R)
<1> DEFINE n == Cardinality(S)
           T == 0..n - 1
           f == [x \in S |-> Place(S, R, x)]
<1>1. n \in Nat /\ \A x \in S : Place(S, R, x) \in T
  BY PlaceType, FS_CardinalityType
<1>2. \A x, y \in S : <<x, y>> \in R => Place(S, R, x) < Place(S, R, y)
  BY PlacesGrow
<1>0. ASSUME NEW x \in S, NEW y \in S
      PROVE  /\ Place(S, R, x) = Place(S, R, y) => x = y
             /\ Place(S, R, x) < Place(S, R, y) => <<x, y>> \in R
  <2>1. Place(S, R, x) \in Int /\ Place(S, R, y) \in Int
    BY <1>1
  <2>2. x = y \/ <<x, y>> \in R \/ <<y, x>> \in R
    BY DEF IsLinear
  <2>3. <<x, y>> \in R => Place(S, R, x) < Place(S, R, y)
    BY <1>2
  <2>4. <<y, x>> \in R => Place(S, R, y) < Place(S, R, x)
    BY <1>2
  <2> QED
    BY <2>1, <2>2, <2>3, <2>4
<1>3. \A x, y \in S : Place(S, R, x) = Place(S, R, y) => x = y
  BY <1>0
<1>4. \A x, y \in S : Place(S, R, x) < Place(S, R, y) => <<x, y>> \in R
  BY <1>0
<1>5. f \in Injection(S, T)
  BY <1>1, <1>3 DEF Injection, IsInjective
<1>6. IsFiniteSet(T) /\ Cardinality(T) = n
  BY <1>1, FS_Interval
<1> HIDE DEF f
<1>7. f \in Surjection(S, T)
  <2> HIDE DEF T
  <2> QED
    BY <1>5, <1>6, FS_Injection
<1>8. ASSUME NEW i \in 1..n
      PROVE  \E x \in S : Place(S, R, x) = i - 1
  <2>1. i - 1 \in T
    BY <1>1
  <2>2. PICK x \in S : f[x] = i - 1
    BY <1>7, <2>1 DEF Surjection
  <2> QED
    BY <2>2 DEF f
<1> QED
  BY <1>1, <1>2, <1>3, <1>4, <1>8 DEF Enumerated
=============================================================================
