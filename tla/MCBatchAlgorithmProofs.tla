----------------------- MODULE MCBatchAlgorithmProofs -----------------------
(***************************************************************************)
(* What the planner's layers and the dispatcher's choice promise, for any  *)
(* finite set of issues, any labels and any cap: the theorems behind the   *)
(* invariants of MCBatchAlgorithm.  The behaviours plan once and pick      *)
(* once, so the work is in the lemmas about compute_layers and             *)
(* next_executable_batch.                                                  *)
(***************************************************************************)
EXTENDS MCBatchAlgorithm, BatchAlgorithmProofs

(* What is known at each step: the plan is the one compute_layers returned *)
(* for the issues, and the pick the one next_executable_batch made of it.  *)
Planned ==
  /\ DOMAIN issues = Numbers
  /\ pc \in {"plan", "raised", "pick", "picked"}
  /\ pc # "plan" => plan = compute_layers(issues)
  /\ pc = "raised" => plan.cycle
  /\ pc \in {"pick", "picked"} => ~ plan.cycle
  /\ pc = "picked" => /\ cap \in 1 .. MaxCap
                      /\ picked = next_executable_batch(plan.layer, blocked, cap)

(* Planned holds in every state.                                           *)
LEMMA PlannedHolds == Spec => []Planned
<1>1. Init => Planned
  BY DEF Init, Planned
<1>2. Planned /\ [Next]_vars => Planned'
  <2> SUFFICES ASSUME Planned, [Next]_vars PROVE Planned'
    OBVIOUS
  <2>1. CASE Plan
    BY <2>1 DEF Plan, Planned
  <2>2. CASE Pick
    BY <2>2 DEF Pick, Planned
  <2>3. CASE UNCHANGED vars
    BY <2>3 DEF vars, Planned
  <2>4. QED
    BY <2>1, <2>2, <2>3 DEF Next
<1>3. QED
  BY <1>1, <1>2, PTL DEF Spec

(* The chains of the invariants are those of the lemmas.                   *)
LEMMA HasChainIsChained ==
  ASSUME NEW n \in filter_candidates(issues), NEW k \in Nat
  PROVE  HasChain(n, k) <=> Chained(WaitsFor(issues), n, k)
<1> DEFINE deps == WaitsFor(issues)
           cand == filter_candidates(issues)
<1>1. DOMAIN deps = cand /\ \A m \in cand : deps[m] = Blockers(m)
  BY DEF WaitsFor, Blockers
<1>2. ASSUME NEW chain \in [0 .. k -> cand]
      PROVE  (\A j \in 1 .. k : chain[j] \in Blockers(chain[j - 1]))
               <=> (\A j \in 1 .. k : chain[j] \in deps[chain[j - 1]])
  <2>1. \A j \in 1 .. k : j - 1 \in 0 .. k
    OBVIOUS
  <2> HIDE DEF deps
  <2>2. \A j \in 1 .. k : deps[chain[j - 1]] = Blockers(chain[j - 1])
    BY <1>1, <2>1
  <2>3. QED
    BY <2>2
<1> HIDE DEF deps
<1>3. HasChain(n, k) <=> \E chain \in [0 .. k -> cand] :
                           /\ chain[0] = n
                           /\ \A j \in 1 .. k : chain[j] \in deps[chain[j - 1]]
  BY <1>2 DEF HasChain
<1>4. QED
  BY <1>1, <1>3 DEF Chained, IsChain, deps

(* The issues can be counted.                                              *)
LEMMA CandidatesCounted ==
  ASSUME Planned
  PROVE  /\ IsFiniteSet(DOMAIN issues)
         /\ filter_candidates(issues) \in SUBSET Nat
         /\ IsFiniteSet(filter_candidates(issues))
         /\ Cardinality(filter_candidates(issues)) \in Nat
<1>1. IsFiniteSet(DOMAIN issues) /\ DOMAIN issues \in SUBSET Nat
  BY NumbersAssumption DEF Planned
<1>2. QED
  BY <1>1, WaitsForIsGraph DEF filter_candidates

(* For any number of issues and any graph over them, the planner puts an   *)
(* issue as deep as the longest chain of open blockers in front of it:     *)
(* compute_layers is exact.                                                *)
THEOREM LayersAreLongestChainsHolds == Spec => []LayersAreLongestChains
<1>1. Planned => LayersAreLongestChains
  <2> SUFFICES ASSUME Planned, pc \in {"pick", "picked"},
                      NEW n \in filter_candidates(issues)
               PROVE  /\ HasChain(n, plan.layer[n])
                      /\ ~ HasChain(n, plan.layer[n] + 1)
    BY DEF LayersAreLongestChains
  <2> DEFINE deps == WaitsFor(issues)
             cand == filter_candidates(issues)
             N == Cardinality(cand)
             layer == compute_layers(issues).layer
  <2>1. plan = compute_layers(issues) /\ ~ plan.cycle
    BY DEF Planned
  <2>2. N \in Nat /\ IsFiniteSet(DOMAIN issues)
    BY CandidatesCounted
  <2>3. /\ layer \in [cand -> 0 .. N]
        /\ \A i \in cand : \A k \in 0 .. N : Chained(deps, i, k) <=> k <= layer[i]
        /\ \A i \in cand : ~ Chained(deps, i, N)
    BY <2>1, <2>2, LayersCountChains
  <2>4. \A k \in Nat : HasChain(n, k) <=> Chained(deps, n, k)
    BY HasChainIsChained
  <2>5. plan.layer = layer /\ n \in cand
    BY <2>1
  <2> HIDE DEF deps, cand, N, layer
  <2>6. layer[n] \in Nat /\ layer[n] \in 0 .. N
    BY <2>2, <2>3, <2>5
  <2>7. Chained(deps, n, layer[n])
    BY <2>3, <2>5, <2>6
  <2>8. layer[n] # N
    BY <2>3, <2>5, <2>7
  <2>9. layer[n] + 1 \in 0 .. N /\ layer[n] + 1 \in Nat /\ ~ (layer[n] + 1 <= layer[n])
    BY <2>2, <2>6, <2>8
  <2>10. ~ Chained(deps, n, layer[n] + 1)
    BY <2>3, <2>5, <2>9
  <2>11. QED
    BY <2>4, <2>5, <2>6, <2>7, <2>9, <2>10
<1>2. QED
  BY <1>1, PlannedHolds, PTL

(* compute_layers raises DependencyCycleError exactly when candidates wait *)
(* for each other: then, and only then, a chain is as long as there are    *)
(* candidates.                                                             *)
THEOREM RaisesExactlyOnCyclesHolds == Spec => []RaisesExactlyOnCycles
<1>1. Planned => RaisesExactlyOnCycles
  <2> SUFFICES ASSUME Planned PROVE RaisesExactlyOnCycles
    OBVIOUS
  <2> DEFINE cand == filter_candidates(issues)
             N == Cardinality(cand)
  <2>1. N \in Nat /\ IsFiniteSet(DOMAIN issues)
    BY CandidatesCounted
  <2>2. compute_layers(issues).cycle
          <=> \E n \in cand : Chained(WaitsFor(issues), n, N)
    BY <2>1, LayersCountChains
  <2>3. \A n \in cand : HasChain(n, N) <=> Chained(WaitsFor(issues), n, N)
    BY <2>1, HasChainIsChained
  <2> HIDE DEF cand, N
  <2>4. /\ pc = "raised" => \E n \in cand : HasChain(n, N)
        /\ pc \in {"pick", "picked"} => \A n \in cand : ~ HasChain(n, N)
    BY <2>2, <2>3 DEF Planned
  <2>5. QED
    BY <2>4 DEF RaisesExactlyOnCycles, cand, N
<1>2. QED
  BY <1>1, PlannedHolds, PTL

(* Whatever is in flight and however many slots are free, an issue is      *)
(* picked only when each of its open blockers is in flight.                *)
THEOREM BlockersAreInFlightHolds == Spec => []BlockersAreInFlight
<1>1. Planned => BlockersAreInFlight
  <2> SUFFICES ASSUME Planned, pc = "picked",
                      NEW n \in picked, NEW b \in Blockers(n), b \notin blocked
               PROVE  FALSE
    BY DEF BlockersAreInFlight
  <2> DEFINE cand == filter_candidates(issues)
             layer == compute_layers(issues).layer
             available == DOMAIN layer \ blocked
             first == {i \in available : \A m \in available : layer[i] <= layer[m]}
  <2>1. /\ ~ compute_layers(issues).cycle
        /\ picked = FirstOf(first, cap)
    BY DEF Planned, next_executable_batch
  <2>2. n \in first
    BY <2>1, FirstOfSubset
  <2>3. DOMAIN layer = cand
    BY DEF compute_layers
  <2>4. n \in cand /\ b \in cand /\ b \in issues[n].blocked_by
    BY <2>2, <2>3 DEF Blockers
  <2>5. layer[n] <= layer[b]
    BY <2>2, <2>3, <2>4
  <2>6. layer[b] \in Nat /\ layer[n] \in Nat /\ layer[b] < layer[n]
    BY <2>1, <2>4, CandidatesCounted, BlockersInEarlierLayers
  <2>7. QED
    BY <2>5, <2>6
<1>2. QED
  BY <1>1, PlannedHolds, PTL

(* The dispatcher never idles while something in the plan is not in        *)
(* flight, and never takes more than the free slots.                       *)
THEOREM WorkConservingHolds == Spec => []WorkConserving
<1>1. Planned => WorkConserving
  <2> SUFFICES ASSUME Planned, pc = "picked"
               PROVE  /\ picked = {} <=> DOMAIN plan.layer \subseteq blocked
                      /\ Cardinality(picked) <= cap
    BY DEF WorkConserving
  <2> DEFINE cand == filter_candidates(issues)
             N == Cardinality(cand)
             layer == compute_layers(issues).layer
             available == cand \ blocked
             first == {i \in available : \A m \in available : layer[i] <= layer[m]}
  <2>1. N \in Nat /\ IsFiniteSet(DOMAIN issues) /\ cand \in SUBSET Nat
        /\ IsFiniteSet(cand)
    BY CandidatesCounted
  <2>2. layer \in [cand -> 0 .. N]
    BY <2>1, LayersCountChains
  <2>3. DOMAIN layer = cand
    BY <2>2
  <2>4. /\ plan.layer = layer
        /\ picked = FirstOf(first, cap)
        /\ cap \in Nat \ {0}
    BY <2>3, CapAssumption DEF Planned, next_executable_batch
  <2>5. first \in SUBSET cand /\ first \in SUBSET Nat /\ IsFiniteSet(first)
    BY <2>1, FS_Subset
  <2>6. ASSUME available # {} PROVE first # {}
    <3> DEFINE S == {layer[i] : i \in available}
    <3>1. S \in SUBSET Nat /\ S # {}
      BY <2>1, <2>2, <2>6
    <3>2. PICK l \in S : \A m \in S : l <= m
      <4> HIDE DEF S
      <4>1. QED
        BY <3>1, LeastNumber
    <3>3. PICK i \in available : layer[i] = l
      BY <3>2
    <3>4. \A m \in available : layer[m] \in S
      OBVIOUS
    <3>5. i \in first
      BY <3>2, <3>3, <3>4
    <3>6. QED
      BY <3>5
  <2>7. available = {} => first = {}
    OBVIOUS
  <2> HIDE DEF first
  <2>8. picked = {} <=> first = {}
    BY <2>4, <2>5, FirstOfNonempty, FirstOfSubset
  <2>9. Cardinality(picked) <= cap
    BY <2>4, <2>5, FirstOfCardinality
  <2>10. available = {} <=> cand \subseteq blocked
    OBVIOUS
  <2>11. QED
    BY <2>3, <2>4, <2>6, <2>7, <2>8, <2>9, <2>10
<1>2. QED
  BY <1>1, PlannedHolds, PTL
=============================================================================
