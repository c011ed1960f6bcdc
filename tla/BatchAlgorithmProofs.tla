------------------------ MODULE BatchAlgorithmProofs ------------------------
(***************************************************************************)
(* Lemmas about the operators of BatchAlgorithm, for every set of issues:  *)
(* what the rounds of Kahn's algorithm compute, and which members a slice  *)
(* of a sorted list has.                                                   *)
(*                                                                         *)
(* The rounds are a recursive function, so what they compute is proved by  *)
(* induction.  The induction is over a set of numbers (Counting), never    *)
(* over a formula, which is what the provers can use.                      *)
(***************************************************************************)
EXTENDS BatchAlgorithm, FiniteSetTheorems, WellFoundedInduction, TLAPS

-----------------------------------------------------------------------------
(* Induction.                                                              *)

(* A set of numbers that is not empty has a least one.                     *)
LEMMA LeastNumber ==
  ASSUME NEW S \in SUBSET Nat, S # {}
  PROVE  \E m \in S : \A n \in S : m <= n
<1> DEFINE R == OpToRel(<, Nat)
<1>1. IsWellFoundedOn(R, Nat)
  BY NatLessThanWellFounded
<1>2. \A m, n \in Nat : <<m, n>> \in R <=> m < n
  BY DEF OpToRel
<1> HIDE DEF R
<1>3. PICK m \in S : \A n \in S : <<n, m>> \notin R
  BY <1>1, WFMin
<1>4. \A n \in S : ~ (n < m)
  BY <1>2, <1>3
<1>5. QED
  BY <1>4

(* A set that holds 0 and, with each number, the next one, holds them all. *)
LEMMA Counting ==
  ASSUME NEW S, 0 \in S, \A n \in Nat : n \in S => n + 1 \in S
  PROVE  Nat \subseteq S
<1>1. SUFFICES ASSUME Nat \ S # {} PROVE FALSE
  OBVIOUS
<1>2. PICK m \in Nat \ S : \A n \in Nat \ S : m <= n
  BY <1>1, LeastNumber
<1>3. m # 0 /\ m - 1 \in Nat /\ m - 1 \in S
  BY <1>2
<1>4. QED
  BY <1>2, <1>3

(* Counting up to a bound.                                                 *)
LEMMA CountingTo ==
  ASSUME NEW S, NEW N \in Nat, 0 \in S,
         \A n \in 0 .. N : n \in S /\ n < N => n + 1 \in S
  PROVE  0 .. N \subseteq S
<1> DEFINE T == S \cup {n \in Nat : N < n}
<1>1. \A n \in Nat : n \in T => n + 1 \in T
  <2> SUFFICES ASSUME NEW n \in Nat, n \in T PROVE n + 1 \in T
    OBVIOUS
  <2>1. CASE n < N
    <3>1. n \in 0 .. N /\ n \in S
      BY <2>1
    <3>2. QED
      BY <2>1, <3>1
  <2>2. CASE ~ (n < N)
    BY <2>2
  <2>3. QED
    BY <2>1, <2>2
<1>2. 0 \in T
  OBVIOUS
<1>3. Nat \subseteq T
  <2> HIDE DEF T
  <2>1. QED
    BY <1>1, <1>2, Counting
<1>4. QED
  BY <1>3

IsStep(step, X) == step \in [X -> X]

(* g records N repetitions of the step.                                    *)
Repeats(g, X, start, step, N) ==
  /\ g \in [0 .. N -> X]
  /\ g[0] = start
  /\ \A k \in 1 .. N : g[k] = step[g[k - 1]]

(* A step that stays in X can be repeated N times.                         *)
LEMMA Iterated ==
  ASSUME NEW X, NEW start \in X, NEW step, IsStep(step, X), NEW N \in Nat
  PROVE  \E g : Repeats(g, X, start, step, N)
<1>0. step \in [X -> X]
  BY DEF IsStep
<1> DEFINE Reach(g, n) == /\ g[0] = start
                          /\ \A k \in 1 .. n : g[k] = step[g[k - 1]]
           S == {n \in Nat : \E g \in [0 .. n -> X] : Reach(g, n)}
<1>1. 0 \in S
  <2>1. [k \in 0 .. 0 |-> start] \in [0 .. 0 -> X] /\ Reach([k \in 0 .. 0 |-> start], 0)
    OBVIOUS
  <2>2. QED
    BY <2>1
<1>2. ASSUME NEW n \in Nat, n \in S PROVE n + 1 \in S
  <2>1. PICK g \in [0 .. n -> X] : Reach(g, n)
    BY <1>2
  <2> DEFINE h == [k \in 0 .. (n + 1) |-> IF k = n + 1 THEN step[g[n]] ELSE g[k]]
  <2>2. n \in 0 .. n /\ n + 1 # 0 /\ 0 \in 0 .. (n + 1)
        /\ \A k \in 0 .. (n + 1) : k # n + 1 => k \in 0 .. n
    OBVIOUS
  <2>3. h \in [0 .. (n + 1) -> X]
    BY <1>0, <2>2
  <2>4. h[0] = start
    BY <2>1, <2>2
  <2>5. ASSUME NEW k \in 1 .. (n + 1) PROVE h[k] = step[h[k - 1]]
    <3>1. /\ k \in 0 .. (n + 1) /\ k - 1 \in 0 .. (n + 1) /\ k - 1 # n + 1
          /\ k # n + 1 => k \in 1 .. n
          /\ k = n + 1 => k - 1 = n
      OBVIOUS
    <3>2. h[k - 1] = g[k - 1]
      BY <3>1
    <3>3. CASE k = n + 1
      BY <3>1, <3>2, <3>3
    <3>4. CASE k # n + 1
      BY <2>1, <3>1, <3>2, <3>4
    <3>5. QED
      BY <3>3, <3>4
  <2>6. Reach(h, n + 1)
    BY <2>4, <2>5
  <2>7. QED
    <3> HIDE DEF h, Reach
    <3>1. QED
      BY <2>3, <2>6
<1>3. N \in S
  <2> HIDE DEF S
  <2>1. QED
    BY <1>1, <1>2, Counting
<1>4. PICK g \in [0 .. N -> X] : Reach(g, N)
  BY <1>3
<1>5. Repeats(g, X, start, step, N)
  BY <1>4 DEF Repeats
<1>6. QED
  BY <1>5

-----------------------------------------------------------------------------
(* The rounds of Kahn's algorithm.                                         *)

(* A graph over a finite set of issues: who waits for whom.                *)
IsGraph(deps) ==
  /\ IsFiniteSet(DOMAIN deps)
  /\ deps = [n \in DOMAIN deps |-> deps[n]]
  /\ \A n \in DOMAIN deps : deps[n] \in SUBSET DOMAIN deps

(* The states a round starts from and ends in.                             *)
KahnState(deps) ==
  [remaining : SUBSET DOMAIN deps, in_degree : [DOMAIN deps -> Int]]

(* The blockers of n among a set of issues can be counted.                 *)
LEMMA BlockersCounted ==
  ASSUME NEW deps, IsGraph(deps), NEW n \in DOMAIN deps, NEW S
  PROVE  IsFiniteSet(deps[n] \cap S) /\ Cardinality(deps[n] \cap S) \in Nat
<1>1. deps[n] \cap S \in SUBSET DOMAIN deps
  BY DEF IsGraph
<1>2. QED
  BY <1>1, FS_Subset, FS_CardinalityType DEF IsGraph

(* A round stays among these states, and so does the start.                *)
LEMMA KahnStates ==
  ASSUME NEW deps, IsGraph(deps)
  PROVE  /\ KahnStart(deps) \in KahnState(deps)
         /\ \A s \in KahnState(deps) : KahnRound(deps, s) \in KahnState(deps)
<1>1. ASSUME NEW n \in DOMAIN deps PROVE Cardinality(deps[n]) \in Int
  <2>1. deps[n] \cap DOMAIN deps = deps[n]
    BY DEF IsGraph
  <2>2. QED
    BY <2>1, BlockersCounted
<1>2. KahnStart(deps) \in KahnState(deps)
  BY <1>1 DEF KahnStart, KahnState
<1>3. ASSUME NEW s \in KahnState(deps)
      PROVE  KahnRound(deps, s) \in KahnState(deps)
  <2> DEFINE layer == {n \in s.remaining : s.in_degree[n] = 0}
  <2>1. s.remaining \in SUBSET DOMAIN deps /\ s.in_degree \in [DOMAIN deps -> Int]
    BY DEF KahnState
  <2>2. \A n \in DOMAIN deps :
          s.in_degree[n] - Cardinality(deps[n] \cap layer) \in Int
    BY <2>1, BlockersCounted
  <2>3. QED
    BY <2>1, <2>2 DEF KahnRound, KahnState
<1>4. QED
  BY <1>2, <1>3

(* The recursive function is what its equations say.                       *)
LEMMA KahnRoundsUnfold ==
  ASSUME NEW deps, IsGraph(deps), NEW N \in Nat
  PROVE  /\ KahnRounds(deps, N)[0] = KahnStart(deps)
         /\ \A k \in 1 .. N : KahnRounds(deps, N)[k]
                                = KahnRound(deps, KahnRounds(deps, N)[k - 1])
         /\ \A k \in 0 .. N : KahnRounds(deps, N)[k] \in KahnState(deps)
<1> DEFINE X == KahnState(deps)
           start == KahnStart(deps)
           step == [s \in X |-> KahnRound(deps, s)]
           Unfolds(f) == f = [k \in 0 .. N |-> IF k = 0 THEN KahnStart(deps)
                                               ELSE KahnRound(deps, f[k - 1])]
<1>1. start \in X /\ IsStep(step, X)
  BY KahnStates DEF IsStep
<1>2. PICK g \in [0 .. N -> X] : /\ g[0] = start
                                 /\ \A k \in 1 .. N : g[k] = step[g[k - 1]]
  <2>1. \E g : Repeats(g, X, start, step, N)
    <3> HIDE DEF X, start, step
    <3>1. QED
      BY <1>1, Iterated
  <2> HIDE DEF X, start, step
  <2>2. QED
    BY <2>1 DEF Repeats
<1>3. \A k \in 1 .. N : k - 1 \in 0 .. N /\ k \in 0 .. N /\ k # 0
  OBVIOUS
<1>4. \A k \in 1 .. N : g[k] = KahnRound(deps, g[k - 1])
  <2> HIDE DEF X
  <2>1. QED
    BY <1>2, <1>3
<1>5. Unfolds(g)
  <2>1. \A k \in 0 .. N : k = 0 \/ k \in 1 .. N
    OBVIOUS
  <2> HIDE DEF X
  <2>2. QED
    BY <1>2, <1>4, <2>1
<1>6. Unfolds(KahnRounds(deps, N))
  BY <1>5 DEF KahnRounds
<1> DEFINE f == KahnRounds(deps, N)
<1>7. f[0] = KahnStart(deps)
      /\ \A k \in 1 .. N : f[k] = KahnRound(deps, f[k - 1])
  <2>0. 0 \in 0 .. N
    OBVIOUS
  <2> HIDE DEF f
  <2>1. f = [k \in 0 .. N |-> IF k = 0 THEN KahnStart(deps)
                              ELSE KahnRound(deps, f[k - 1])]
    BY <1>6 DEF f
  <2>2. QED
    BY <1>3, <2>0, <2>1
<1>8. \A k \in 0 .. N : f[k] \in X
  <2> DEFINE S == {k \in 0 .. N : f[k] \in X}
  <2> HIDE DEF f
  <2>1. 0 \in S
    BY <1>1, <1>7
  <2>2. ASSUME NEW n \in 0 .. N, n \in S, n < N PROVE n + 1 \in S
    <3>1. n + 1 \in 1 .. N /\ (n + 1) - 1 = n /\ n + 1 \in 0 .. N
      BY <2>2
    <3>2. f[n + 1] = KahnRound(deps, f[n])
      BY <1>7, <3>1
    <3>3. QED
      BY <2>2, <3>1, <3>2, KahnStates
  <2>3. 0 .. N \subseteq S
    <3> HIDE DEF S
    <3>1. QED
      BY <2>1, <2>2, CountingTo
  <2>4. QED
    BY <2>3
<1>9. QED
  BY <1>7, <1>8

(* The issues that outlive k rounds.                                       *)
Outlive(deps, N, k) == KahnRounds(deps, N)[k].remaining

(* The counters of the code are exact: in_degree counts the blockers that  *)
(* remain, so a round keeps the issues that still wait for one.            *)
LEMMA RoundKeepsTheWaiting ==
  ASSUME NEW deps, IsGraph(deps), NEW N \in Nat
  PROVE  /\ Outlive(deps, N, 0) = DOMAIN deps
         /\ \A k \in 1 .. N :
              Outlive(deps, N, k) = {n \in Outlive(deps, N, k - 1) :
                                       deps[n] \cap Outlive(deps, N, k - 1) # {}}
<1> DEFINE f == KahnRounds(deps, N)
           Exact(s) == /\ s.remaining \in SUBSET DOMAIN deps
                       /\ s.in_degree = [n \in DOMAIN deps |->
                                           Cardinality(deps[n] \cap s.remaining)]
<1>1. f[0] = KahnStart(deps)
      /\ \A k \in 1 .. N : f[k] = KahnRound(deps, f[k - 1])
  BY KahnRoundsUnfold
<1>2. Exact(f[0])
  <2>1. \A n \in DOMAIN deps : deps[n] \cap DOMAIN deps = deps[n]
    BY DEF IsGraph
  <2> HIDE DEF f
  <2>2. QED
    BY <1>1, <2>1 DEF KahnStart
<1>3. ASSUME NEW s, Exact(s)
      PROVE  /\ Exact(KahnRound(deps, s))
             /\ KahnRound(deps, s).remaining
                  = {n \in s.remaining : deps[n] \cap s.remaining # {}}
  <2> DEFINE R == s.remaining
             layer == {n \in R : s.in_degree[n] = 0}
  <2>1. R \in SUBSET DOMAIN deps
        /\ \A n \in DOMAIN deps : s.in_degree[n] = Cardinality(deps[n] \cap R)
    BY <1>3
  <2>2. \A n \in R : s.in_degree[n] = 0 <=> deps[n] \cap R = {}
    <3> TAKE n \in R
    <3>1. IsFiniteSet(deps[n] \cap R)
      BY <2>1, BlockersCounted
    <3>2. QED
      BY <2>1, <3>1, FS_EmptySet
  <2>3. KahnRound(deps, s).remaining = R \ layer
        /\ KahnRound(deps, s).in_degree
             = [n \in DOMAIN deps |->
                  s.in_degree[n] - Cardinality(deps[n] \cap layer)]
    BY DEF KahnRound
  <2>4. ASSUME NEW n \in DOMAIN deps
        PROVE  s.in_degree[n] - Cardinality(deps[n] \cap layer)
                 = Cardinality(deps[n] \cap (R \ layer))
    <3> DEFINE A == deps[n] \cap R
               B == deps[n] \cap layer
    <3>1. IsFiniteSet(A) /\ Cardinality(A) \in Nat
          /\ IsFiniteSet(B) /\ Cardinality(B) \in Nat
      BY BlockersCounted
    <3>2. A \cap B = B /\ A \ B = deps[n] \cap (R \ layer)
      OBVIOUS
    <3>3. Cardinality(A \ B) = Cardinality(A) - Cardinality(A \cap B)
      <4> HIDE DEF A, B
      <4>1. QED
        BY <3>1, FS_Difference
    <3>4. QED
      BY <2>1, <3>2, <3>3
  <2>5. QED
    BY <2>1, <2>2, <2>3, <2>4
<1>4. \A k \in 0 .. N : Exact(f[k])
  <2> DEFINE S == {k \in 0 .. N : Exact(f[k])}
  <2> HIDE DEF f
  <2>1. 0 \in S
    BY <1>2
  <2>2. ASSUME NEW n \in 0 .. N, n \in S, n < N PROVE n + 1 \in S
    <3>1. n + 1 \in 1 .. N /\ (n + 1) - 1 = n /\ n + 1 \in 0 .. N
      BY <2>2
    <3>2. f[n + 1] = KahnRound(deps, f[n])
      BY <1>1, <3>1
    <3> HIDE DEF Exact
    <3>3. QED
      BY <1>3, <2>2, <3>1, <3>2
  <2>3. 0 .. N \subseteq S
    <3> HIDE DEF S
    <3>1. QED
      BY <2>1, <2>2, CountingTo
  <2>4. QED
    BY <2>3
<1>5. f[0].remaining = DOMAIN deps
  BY <1>1 DEF KahnStart
<1>6. ASSUME NEW k \in 1 .. N
      PROVE  f[k].remaining = {n \in f[k - 1].remaining :
                                 deps[n] \cap f[k - 1].remaining # {}}
  <2>1. k - 1 \in 0 .. N
    OBVIOUS
  <2> HIDE DEF f, Exact
  <2>2. QED
    BY <1>1, <1>3, <1>4, <2>1
<1>7. QED
  BY <1>5, <1>6 DEF Outlive

-----------------------------------------------------------------------------
(* Rounds and chains of blockers.                                          *)

(* Each member of the chain, from n on, waits for the next one.            *)
IsChain(deps, chain, n, k) ==
  /\ chain \in [0 .. k -> DOMAIN deps]
  /\ chain[0] = n
  /\ \A j \in 1 .. k : chain[j] \in deps[chain[j - 1]]

(* k blockers stand one behind the other in front of n.                    *)
Chained(deps, n, k) == \E chain : IsChain(deps, chain, n, k)

(* Everyone waits for no one at least.                                     *)
LEMMA ChainOfNone ==
  ASSUME NEW deps, NEW n \in DOMAIN deps PROVE Chained(deps, n, 0)
<1>1. IsChain(deps, [j \in 0 .. 0 |-> n], n, 0)
  BY DEF IsChain
<1>2. QED
  BY <1>1 DEF Chained

(* The end of a chain can be left out.                                     *)
LEMMA ChainShortened ==
  ASSUME NEW deps, NEW n \in DOMAIN deps, NEW k \in Nat, NEW m \in Nat, m <= k,
         Chained(deps, n, k)
  PROVE  Chained(deps, n, m)
<1>1. PICK chain : IsChain(deps, chain, n, k)
  BY DEF Chained
<1> DEFINE c == [j \in 0 .. m |-> chain[j]]
<1>2. 0 .. m \subseteq 0 .. k /\ 0 \in 0 .. m
  OBVIOUS
<1>3. c \in [0 .. m -> DOMAIN deps] /\ c[0] = n
  BY <1>1, <1>2 DEF IsChain
<1>4. \A j \in 1 .. m : c[j] \in deps[c[j - 1]]
  <2> TAKE j \in 1 .. m
  <2>1. j \in 1 .. k /\ j \in 0 .. m /\ j - 1 \in 0 .. m
    OBVIOUS
  <2>2. QED
    BY <1>1, <2>1 DEF IsChain
<1>5. QED
  <2> HIDE DEF c
  <2>1. QED
    BY <1>3, <1>4 DEF IsChain, Chained

(* With fewer issues and fewer dependencies there are fewer chains.        *)
LEMMA FewerChains ==
  ASSUME NEW deps, NEW fewer, DOMAIN fewer \subseteq DOMAIN deps,
         \A m \in DOMAIN fewer : fewer[m] \subseteq deps[m],
         NEW n, NEW k \in Nat, Chained(fewer, n, k)
  PROVE  Chained(deps, n, k)
<1>1. PICK chain : IsChain(fewer, chain, n, k)
  BY DEF Chained
<1>2. chain \in [0 .. k -> DOMAIN deps] /\ chain[0] = n
  BY <1>1 DEF IsChain
<1>3. \A j \in 1 .. k : chain[j] \in deps[chain[j - 1]]
  <2> TAKE j \in 1 .. k
  <2>1. j - 1 \in 0 .. k
    OBVIOUS
  <2>2. chain[j - 1] \in DOMAIN fewer /\ chain[j] \in fewer[chain[j - 1]]
    BY <1>1, <2>1 DEF IsChain
  <2>3. QED
    BY <2>2
<1>4. QED
  BY <1>2, <1>3 DEF IsChain, Chained

(* A chain in front of n starts with one of its blockers and goes on with  *)
(* a chain in front of that.                                               *)
LEMMA ChainExtended ==
  ASSUME NEW deps, IsGraph(deps), NEW n \in DOMAIN deps, NEW k \in Nat
  PROVE  Chained(deps, n, k + 1) <=> \E b \in deps[n] : Chained(deps, b, k)
<1>1. ASSUME Chained(deps, n, k + 1)
      PROVE  \E b \in deps[n] : Chained(deps, b, k)
  <2>1. PICK chain : IsChain(deps, chain, n, k + 1)
    BY <1>1 DEF Chained
  <2> DEFINE c == [j \in 0 .. k |-> chain[j + 1]]
  <2>2. \A j \in 0 .. k : j + 1 \in 0 .. (k + 1)
    OBVIOUS
  <2>3. 0 \in 0 .. k /\ 0 + 1 = 1 /\ 1 \in 1 .. (k + 1) /\ 1 - 1 = 0
    OBVIOUS
  <2>4. c \in [0 .. k -> DOMAIN deps] /\ c[0] = chain[1]
    BY <2>1, <2>2, <2>3 DEF IsChain
  <2>5. chain[1] \in deps[n]
    BY <2>1, <2>3 DEF IsChain
  <2>6. \A j \in 1 .. k : c[j] \in deps[c[j - 1]]
    <3> TAKE j \in 1 .. k
    <3>1. /\ j \in 0 .. k /\ j - 1 \in 0 .. k /\ j + 1 \in 1 .. (k + 1)
          /\ (j + 1) - 1 = j /\ (j - 1) + 1 = j
      OBVIOUS
    <3>2. chain[j + 1] \in deps[chain[j]]
      BY <2>1, <3>1 DEF IsChain
    <3>3. QED
      BY <3>1, <3>2
  <2>7. IsChain(deps, c, chain[1], k)
    <3> HIDE DEF c
    <3>1. QED
      BY <2>4, <2>6 DEF IsChain
  <2>8. QED
    <3> HIDE DEF c
    <3>1. QED
      BY <2>5, <2>7 DEF Chained
<1>2. ASSUME NEW b \in deps[n], Chained(deps, b, k)
      PROVE  Chained(deps, n, k + 1)
  <2>1. PICK chain : IsChain(deps, chain, b, k)
    BY <1>2 DEF Chained
  <2> DEFINE c == [j \in 0 .. (k + 1) |-> IF j = 0 THEN n ELSE chain[j - 1]]
  <2>2. \A j \in 0 .. (k + 1) : j # 0 => j - 1 \in 0 .. k
    OBVIOUS
  <2>3. 0 \in 0 .. (k + 1)
    OBVIOUS
  <2>4. c \in [0 .. (k + 1) -> DOMAIN deps] /\ c[0] = n
    BY <2>1, <2>2, <2>3 DEF IsChain
  <2>5. ASSUME NEW j \in 1 .. (k + 1) PROVE c[j] \in deps[c[j - 1]]
    <3>1. /\ j \in 0 .. (k + 1) /\ j # 0 /\ j - 1 \in 0 .. (k + 1)
          /\ j = 1 => j - 1 = 0
          /\ j # 1 => j - 1 # 0 /\ j - 1 \in 1 .. k
      OBVIOUS
    <3>2. c[j] = chain[j - 1]
      BY <3>1
    <3>3. CASE j = 1
      BY <1>2, <2>1, <3>1, <3>2, <3>3 DEF IsChain
    <3>4. CASE j # 1
      <4>1. c[j - 1] = chain[(j - 1) - 1]
        BY <3>1, <3>4
      <4>2. QED
        BY <2>1, <3>1, <3>2, <3>4, <4>1 DEF IsChain
    <3>5. QED
      BY <3>3, <3>4
  <2>6. IsChain(deps, c, n, k + 1)
    <3> HIDE DEF c
    <3>1. QED
      BY <2>4, <2>5 DEF IsChain
  <2>7. QED
    <3> HIDE DEF c
    <3>1. QED
      BY <2>6 DEF Chained
<1>3. QED
  BY <1>1, <1>2

(* An issue outlives k rounds when k blockers stand one behind the other   *)
(* in front of it.                                                         *)
LEMMA OutlivesIffChained ==
  ASSUME NEW deps, IsGraph(deps), NEW N \in Nat
  PROVE  \A k \in 0 .. N : Outlive(deps, N, k)
                             = {n \in DOMAIN deps : Chained(deps, n, k)}
<1> DEFINE Has(k) == {n \in DOMAIN deps : Chained(deps, n, k)}
           S == {k \in 0 .. N : Outlive(deps, N, k) = Has(k)}
<1>1. 0 \in S
  BY RoundKeepsTheWaiting, ChainOfNone
<1>2. ASSUME NEW k \in 0 .. N, k \in S, k < N PROVE k + 1 \in S
  <2>1. k + 1 \in 1 .. N /\ (k + 1) - 1 = k /\ k + 1 \in 0 .. N /\ k \in Nat
    BY <1>2
  <2>2. Outlive(deps, N, k + 1) = {n \in Has(k) : deps[n] \cap Has(k) # {}}
    BY <1>2, <2>1, RoundKeepsTheWaiting
  <2>3. ASSUME NEW n \in DOMAIN deps
        PROVE  Chained(deps, n, k + 1)
                 <=> (Chained(deps, n, k) /\ deps[n] \cap Has(k) # {})
    <3>1. deps[n] \in SUBSET DOMAIN deps
      BY DEF IsGraph
    <3>2. deps[n] \cap Has(k) # {} <=> \E b \in deps[n] : Chained(deps, b, k)
      BY <3>1
    <3>3. QED
      BY <2>1, <3>2, ChainShortened, ChainExtended
  <2>4. QED
    BY <2>1, <2>2, <2>3
<1>3. 0 .. N \subseteq S
  <2> HIDE DEF S
  <2>1. QED
    BY <1>1, <1>2, CountingTo
<1>4. QED
  BY <1>3

-----------------------------------------------------------------------------
(* Counting rounds.                                                        *)

(* A set of numbers that holds, with each one, those below it is an        *)
(* interval, as long as it has members.                                    *)
LEMMA InitialInterval ==
  ASSUME NEW N \in Nat, NEW S \in SUBSET (1 .. N),
         \A k \in S : \A j \in 1 .. N : j <= k => j \in S
  PROVE  /\ Cardinality(S) \in 0 .. N
         /\ S = 1 .. Cardinality(S)
<1> DEFINE Outside == {k \in Nat : k + 1 \notin S}
<1>1. N \in Outside
  OBVIOUS
<1>2. PICK m \in Outside : \A k \in Outside : m <= k
  <2>1. Outside \in SUBSET Nat /\ Outside # {}
    BY <1>1
  <2> HIDE DEF Outside
  <2>2. QED
    BY <2>1, LeastNumber
<1>3. m \in Nat /\ m <= N /\ m + 1 \notin S
  BY <1>1, <1>2
<1>4. ASSUME NEW j \in 1 .. m PROVE j \in S
  <2>1. j - 1 \in Nat /\ ~ (m <= j - 1) /\ (j - 1) + 1 = j
    BY <1>3
  <2>2. j - 1 \notin Outside
    BY <1>2, <2>1
  <2>3. QED
    BY <2>1, <2>2
<1>5. ASSUME NEW j \in S PROVE j \in 1 .. m
  <2>1. SUFFICES ASSUME ~ (j <= m) PROVE FALSE
    BY <1>3
  <2>2. m + 1 \in 1 .. N /\ m + 1 <= j
    BY <1>3, <2>1
  <2>3. QED
    BY <1>3, <2>2
<1>6. S = 1 .. m
  BY <1>4, <1>5
<1>7. Cardinality(1 .. m) = m
  BY <1>3, FS_Interval
<1>8. QED
  BY <1>3, <1>6, <1>7

-----------------------------------------------------------------------------
(* compute_layers.                                                         *)

(* Who waits for whom among the candidates of an issue list.               *)
WaitsFor(issues) ==
  [n \in filter_candidates(issues) |->
     issues[n].blocked_by \cap filter_candidates(issues)]

LEMMA WaitsForIsGraph ==
  ASSUME NEW issues, IsFiniteSet(DOMAIN issues)
  PROVE  /\ IsGraph(WaitsFor(issues))
         /\ DOMAIN WaitsFor(issues) = filter_candidates(issues)
         /\ IsFiniteSet(filter_candidates(issues))
         /\ Cardinality(filter_candidates(issues)) \in Nat
<1>1. filter_candidates(issues) \in SUBSET DOMAIN issues
  BY DEF filter_candidates
<1>2. /\ IsFiniteSet(filter_candidates(issues))
      /\ Cardinality(filter_candidates(issues)) \in Nat
  BY <1>1, FS_Subset, FS_CardinalityType
<1>3. QED
  BY <1>2 DEF WaitsFor, IsGraph

(* The layer of an issue is the length of the longest chain of blockers in *)
(* front of it, counted up to the number of candidates; a chain as long as *)
(* that is what raises DependencyCycleError.                               *)
LEMMA LayersCountChains ==
  ASSUME NEW issues, IsFiniteSet(DOMAIN issues),
         NEW deps, deps = WaitsFor(issues),
         NEW cand, cand = filter_candidates(issues),
         NEW N, N = Cardinality(cand),
         NEW layer, layer = compute_layers(issues).layer
  PROVE  /\ layer \in [cand -> 0 .. N]
         /\ \A n \in cand : \A k \in 0 .. N :
              Chained(deps, n, k) <=> k <= layer[n]
         /\ compute_layers(issues).cycle <=> \E n \in cand : Chained(deps, n, N)
<1>1. IsGraph(deps) /\ DOMAIN deps = cand /\ N \in Nat
  BY WaitsForIsGraph
<1> DEFINE rounds(n) == {k \in 1 .. N : n \in Outlive(deps, N, k)}
<1>2. /\ compute_layers(issues).cycle <=> Outlive(deps, N, N) # {}
      /\ layer = [n \in cand |-> Cardinality(rounds(n))]
  BY DEF compute_layers, WaitsFor, Outlive
<1>3. \A k \in 0 .. N : Outlive(deps, N, k) = {n \in cand : Chained(deps, n, k)}
  BY <1>1, OutlivesIffChained
<1>4. ASSUME NEW n \in cand
      PROVE  /\ Cardinality(rounds(n)) \in 0 .. N
             /\ rounds(n) = 1 .. Cardinality(rounds(n))
  <2>1. rounds(n) = {k \in 1 .. N : Chained(deps, n, k)}
    <3>1. 1 .. N \subseteq 0 .. N
      BY <1>1
    <3>2. QED
      BY <1>3, <3>1
  <2>2. ASSUME NEW k \in rounds(n), NEW j \in 1 .. N, j <= k
        PROVE  j \in rounds(n)
    <3>1. k \in Nat /\ j \in Nat /\ Chained(deps, n, k)
      BY <1>1, <2>1
    <3>2. Chained(deps, n, j)
      BY <1>1, <2>2, <3>1, ChainShortened
    <3> HIDE DEF rounds
    <3>3. QED
      BY <2>1, <3>2
  <2>3. rounds(n) \in SUBSET (1 .. N)
    OBVIOUS
  <2> HIDE DEF rounds
  <2>4. QED
    BY <1>1, <2>2, <2>3, InitialInterval
<1>5. ASSUME NEW n \in cand, NEW k \in 0 .. N
      PROVE  Chained(deps, n, k) <=> k <= layer[n]
  <2>1. layer[n] = Cardinality(rounds(n)) /\ layer[n] \in 0 .. N
    BY <1>2, <1>4
  <2>2. CASE k = 0
    BY <1>1, <2>1, <2>2, ChainOfNone
  <2>3. CASE k # 0
    <3>1. k \in 1 .. N
      BY <1>1, <2>3
    <3>2. Chained(deps, n, k) <=> k \in rounds(n)
      BY <1>3, <3>1
    <3> HIDE DEF rounds
    <3>3. k \in rounds(n) <=> k \in 1 .. layer[n]
      BY <1>4, <2>1
    <3>4. QED
      BY <2>1, <3>1, <3>2, <3>3
  <2>4. QED
    BY <2>2, <2>3
<1>6. layer \in [cand -> 0 .. N]
  <2> HIDE DEF rounds
  <2>1. QED
    BY <1>2, <1>4
<1>7. N \in 0 .. N
  BY <1>1
<1> HIDE DEF rounds
<1>8. QED
  BY <1>2, <1>3, <1>5, <1>6, <1>7

(* Without a cycle, no chain in front of an issue is longer than its       *)
(* layer, and one is as long.                                              *)
LEMMA LayerIsLongestChain ==
  ASSUME NEW issues, IsFiniteSet(DOMAIN issues),
         ~ compute_layers(issues).cycle,
         NEW n \in filter_candidates(issues),
         NEW m, m = compute_layers(issues).layer[n]
  PROVE  /\ m \in Nat /\ Chained(WaitsFor(issues), n, m)
         /\ \A k \in Nat : Chained(WaitsFor(issues), n, k) => k <= m
<1> DEFINE deps == WaitsFor(issues)
           cand == filter_candidates(issues)
           N == Cardinality(cand)
           layer == compute_layers(issues).layer
<1>1. DOMAIN deps = cand /\ N \in Nat
  BY WaitsForIsGraph
<1>2. /\ layer \in [cand -> 0 .. N]
      /\ \A i \in cand : \A k \in 0 .. N : Chained(deps, i, k) <=> k <= layer[i]
      /\ \A i \in cand : ~ Chained(deps, i, N)
  BY LayersCountChains
<1>3. m = layer[n] /\ n \in cand
  OBVIOUS
<1> HIDE DEF deps, cand, N, layer
<1>4. m \in 0 .. N /\ m \in Nat
  BY <1>1, <1>2, <1>3
<1>5. Chained(deps, n, m)
  BY <1>2, <1>3, <1>4
<1>6. ASSUME NEW k \in Nat, Chained(deps, n, k) PROVE k <= m
  <2>1. ~ (N <= k)
    BY <1>1, <1>2, <1>3, <1>6, ChainShortened
  <2>2. k \in 0 .. N
    BY <1>1, <2>1
  <2>3. QED
    BY <1>2, <1>3, <1>6, <2>2
<1>7. QED
  BY <1>4, <1>5, <1>6 DEF deps

(* Without a cycle, an issue is in a later layer than each of its open     *)
(* blockers: the layers order the dependencies.                            *)
LEMMA BlockersInEarlierLayers ==
  ASSUME NEW issues, IsFiniteSet(DOMAIN issues),
         ~ compute_layers(issues).cycle,
         NEW n \in filter_candidates(issues),
         NEW b \in filter_candidates(issues), b \in issues[n].blocked_by
  PROVE  LET layer == compute_layers(issues).layer
         IN  /\ layer[b] \in Nat /\ layer[n] \in Nat
             /\ layer[b] < layer[n]
<1> DEFINE deps == WaitsFor(issues)
           cand == filter_candidates(issues)
           N == Cardinality(cand)
           layer == compute_layers(issues).layer
<1>1. IsGraph(deps) /\ DOMAIN deps = cand /\ N \in Nat
  BY WaitsForIsGraph
<1>2. b \in deps[n]
  BY DEF WaitsFor
<1>3. /\ layer \in [cand -> 0 .. N]
      /\ \A i \in cand : \A k \in 0 .. N : Chained(deps, i, k) <=> k <= layer[i]
      /\ \A i \in cand : ~ Chained(deps, i, N)
  BY LayersCountChains
<1> HIDE DEF deps, cand, N, layer
<1>4. n \in cand /\ b \in cand
  BY DEF cand
<1>5. layer[b] \in 0 .. N /\ layer[n] \in 0 .. N
  BY <1>3, <1>4
<1>6. Chained(deps, b, layer[b])
  BY <1>3, <1>4, <1>5, <1>1
<1>7. layer[b] # N
  BY <1>3, <1>4, <1>6
<1>8. layer[b] \in Nat /\ layer[b] + 1 \in 0 .. N
  BY <1>1, <1>5, <1>7
<1>9. Chained(deps, n, layer[b] + 1)
  BY <1>1, <1>2, <1>4, <1>6, <1>8, ChainExtended
<1>10. layer[b] + 1 <= layer[n]
  BY <1>3, <1>4, <1>8, <1>9
<1>11. QED
  BY <1>1, <1>5, <1>8, <1>10 DEF layer

-----------------------------------------------------------------------------
(* Slices of sorted lists.                                                 *)

(* A slice takes its members from the list.                                *)
LEMMA FirstOfSubset ==
  ASSUME NEW S, NEW n PROVE FirstOf(S, n) \subseteq S
BY DEF FirstOf

(* S[:n] has at most n members: the number of smaller members tells them   *)
(* apart.                                                                  *)
LEMMA FirstOfCardinality ==
  ASSUME NEW S \in SUBSET Nat, IsFiniteSet(S), NEW n \in Nat
  PROVE  IsFiniteSet(FirstOf(S, n)) /\ Cardinality(FirstOf(S, n)) <= n
<1> DEFINE T == FirstOf(S, n)
           Below(k) == {j \in S : j < k}
           rank == [k \in T |-> Cardinality(Below(k))]
<1>1. /\ T \subseteq S
      /\ \A k \in T : Cardinality(Below(k)) < n
  BY DEF FirstOf
<1>2. \A k \in S : IsFiniteSet(Below(k)) /\ Cardinality(Below(k)) \in Nat
  <2> TAKE k \in S
  <2>1. Below(k) \in SUBSET S
    OBVIOUS
  <2>2. QED
    BY <2>1, FS_Subset, FS_CardinalityType
<1> HIDE DEF T
<1>3. rank \in [T -> 0 .. (n - 1)]
  <2>1. \A c \in Nat : c < n => c \in 0 .. (n - 1)
    OBVIOUS
  <2>2. \A k \in T : Cardinality(Below(k)) \in 0 .. (n - 1)
    BY <1>1, <1>2, <2>1
  <2>3. QED
    BY <2>2
<1>4. ASSUME NEW j \in S, NEW k \in S, j < k
      PROVE  Cardinality(Below(j)) # Cardinality(Below(k))
  <2>0. \A i \in S : i < j => i < k
    <3>1. \A a, b, c \in Nat : a < b /\ b < c => a < c
      OBVIOUS
    <3>2. QED
      BY <1>4, <3>1
  <2>1. Below(j) \in SUBSET Below(k)
    BY <2>0
  <2>2. j \in Below(k) /\ j \notin Below(j)
    <3>1. \A a \in Nat : ~ (a < a)
      OBVIOUS
    <3>2. QED
      BY <1>4, <3>1
  <2>3. QED
    BY <1>2, <2>1, <2>2, FS_Subset
<1>5. \A j, k \in T : j # k => rank[j] # rank[k]
  <2> TAKE j, k \in T
  <2>1. j < k \/ k < j \/ j = k
    BY <1>1
  <2>2. QED
    BY <1>1, <1>4, <2>1
<1>6. IsFiniteSet(0 .. (n - 1)) /\ Cardinality(0 .. (n - 1)) = n
  BY FS_Interval
<1>7. IsFiniteSet(T) /\ Cardinality(T) \in Nat
  BY <1>1, FS_Subset, FS_CardinalityType
<1>8. Cardinality(T) <= n
  <2>1. SUFFICES ASSUME n < Cardinality(T) PROVE FALSE
    BY <1>7
  <2>2. \E j, k \in T : j # k /\ rank[j] = rank[k]
    <3> HIDE DEF rank
    <3>1. QED
      BY <1>3, <1>6, <1>7, <2>1, FS_PigeonHole
  <2>3. QED
    BY <1>5, <2>2
<1>9. QED
  BY <1>7, <1>8 DEF T

(* S[:n] of a list that is not empty has its least member, if n is not 0.  *)
LEMMA FirstOfNonempty ==
  ASSUME NEW S \in SUBSET Nat, S # {}, NEW n \in Nat \ {0}
  PROVE  FirstOf(S, n) # {}
<1>1. PICK least \in S : \A m \in S : least <= m
  BY LeastNumber
<1>2. {m \in S : m < least} = {}
  <2>1. \A m \in S : ~ (m < least)
    BY <1>1
  <2>2. QED
    BY <2>1
<1>3. Cardinality({m \in S : m < least}) < n
  BY <1>2, FS_EmptySet
<1>4. QED
  BY <1>1, <1>3 DEF FirstOf
=============================================================================
