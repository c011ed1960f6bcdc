-------------------------- MODULE MCBatchAlgorithm --------------------------
(***************************************************************************)
(* The batch algorithm on every input of a small size: all dependency      *)
(* graphs over Numbers (self-references and cycles included), every choice *)
(* of closed or excluded issues, then every set of issues that may be in   *)
(* flight when the orchestrator asks for the next batch.                   *)
(*                                                                         *)
(* Plan is what the planner does with its fetch, Pick what one tick does   *)
(* with the layers it loads.                                               *)
(***************************************************************************)
EXTENDS BatchAlgorithm

CONSTANTS Numbers,    \* issue numbers
          LabelSets,  \* the label sets an issue may carry
          MaxCap      \* largest concurrency_cap tried

ASSUME NumbersAssumption == Numbers \in SUBSET Nat /\ IsFiniteSet(Numbers)
ASSUME CapAssumption == MaxCap \in Nat \ {0}

VARIABLES issues,   \* what GitHub lists
          plan,     \* what compute_layers returned
          blocked,  \* issues with an open PR or in progress
          cap,      \* free slots
          picked,   \* what next_executable_batch returned
          pc
vars == <<issues, plan, blocked, cap, picked, pc>>

(* Values of LabelSets.                                                    *)
PlainOrExcluded == {{}, {"ops"}}

NoPlan == [cycle |-> FALSE, layer |-> <<>>]

Issue == [state: {"open", "closed"}, labels: LabelSets, blocked_by: SUBSET Numbers]

Init ==
  /\ issues \in [Numbers -> Issue]
  /\ plan = NoPlan
  /\ blocked = {} /\ picked = {} /\ cap = 0
  /\ pc = "plan"

(* A cycle makes run_planner raise before it writes anything.              *)
Plan ==
  /\ pc = "plan"
  /\ plan' = compute_layers(issues)
  /\ pc' = IF plan'.cycle THEN "raised" ELSE "pick"
  /\ UNCHANGED <<issues, blocked, cap, picked>>

Pick ==
  /\ pc = "pick"
  /\ blocked' \in SUBSET DOMAIN plan.layer
  /\ cap' \in 1 .. MaxCap
  /\ picked' = next_executable_batch(plan.layer, blocked', cap')
  /\ pc' = "picked"
  /\ UNCHANGED <<issues, plan>>

Next == Plan \/ Pick

Spec == Init /\ [][Next]_vars

-----------------------------------------------------------------------------
(* Reference definitions: chains of open blockers.                         *)

Blockers(n) == issues[n].blocked_by \cap filter_candidates(issues)

(* k blockers stand one behind the other in front of n.                    *)
HasChain(n, k) ==
  \E chain \in [0 .. k -> filter_candidates(issues)] :
     /\ chain[0] = n
     /\ \A j \in 1 .. k : chain[j] \in Blockers(chain[j - 1])

(* The planner puts an issue as deep as the longest chain of open blockers *)
(* in front of it, so its layer index is exact: never early enough to      *)
(* overtake a blocker, never later than it needs to be.                    *)
LayersAreLongestChains ==
  pc \in {"pick", "picked"} =>
    \A n \in filter_candidates(issues) :
      /\ HasChain(n, plan.layer[n])
      /\ ~ HasChain(n, plan.layer[n] + 1)

(* compute_layers raises DependencyCycleError exactly when some candidates *)
(* wait for each other (a chain longer than the number of candidates       *)
(* repeats one); a cycle through a closed or excluded issue is no cycle.   *)
RaisesExactlyOnCycles ==
  LET N == Cardinality(filter_candidates(issues))
  IN  /\ pc = "raised" => \E n \in filter_candidates(issues) : HasChain(n, N)
      /\ pc \in {"pick", "picked"} =>
           \A n \in filter_candidates(issues) : ~ HasChain(n, N)

(* An issue is picked only when every open blocker of it already has a PR  *)
(* or is in progress, whatever subset of the plan is in flight.            *)
BlockersAreInFlight ==
  pc = "picked" => \A n \in picked : Blockers(n) \subseteq blocked

(* The algorithm idles only when everything is in flight: the early return *)
(* for a layer with nothing available is never what stops the pipeline.    *)
WorkConserving ==
  pc = "picked" =>
    /\ picked = {} <=> DOMAIN plan.layer \subseteq blocked
    /\ Cardinality(picked) <= cap

=============================================================================
