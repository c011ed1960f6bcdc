--------------------------- MODULE BatchAlgorithm ---------------------------
(***************************************************************************)
(* The pure batch-planning functions of orclaw/batch_planner/algorithm.py. *)
(*                                                                         *)
(* The code passes lists of lists of issue numbers around.  Both lists it  *)
(* builds are sorted by a key, so a layering is represented here by the    *)
(* function from each issue to the index of its layer, and the order       *)
(* inside a layer by the number.  The planner sorts a layer by priority,   *)
(* but the batches table keeps no priority: what the orchestrator loads is *)
(* sorted by the number alone.                                             *)
(*                                                                         *)
(* An issue is a record [state, labels, blocked_by]; blocked_by is what     *)
(* parse_blocked_by finds in the body.  Issues are named by their numbers. *)
(***************************************************************************)
EXTENDS Integers, FiniteSets

EXCLUDED_LABELS == {"ops", "do-not-implement", "wontfix"}

(* The numbers of the issues the pipeline considers.                       *)
filter_candidates(issues) ==
  {n \in DOMAIN issues : issues[n].state = "open"
                         /\ issues[n].labels \cap EXCLUDED_LABELS = {}}

-----------------------------------------------------------------------------
(* Kahn's algorithm, one round of its while loop at a time.                *)

(* Mutant: a blocker that was already counted down still counts.           *)
KahnRoundForgets(deps, state) ==
  LET layer == {n \in state.remaining : state.in_degree[n] = 0}
  IN  [state EXCEPT !.remaining = @ \ layer]

(* Mutant: an issue leaves while it still waits for one blocker.           *)
KahnRoundEager(deps, state) ==
  LET layer == {n \in state.remaining : state.in_degree[n] <= 1}
  IN  [remaining |-> state.remaining \ layer,
       in_degree |-> [n \in DOMAIN deps |->
                        state.in_degree[n] - Cardinality(deps[n] \cap layer)]]

KahnStart(deps) ==
  [remaining |-> DOMAIN deps,
   in_degree |-> [n \in DOMAIN deps |-> Cardinality(deps[n])]]

(* A round that finds no issue without blockers changes nothing: that is   *)
(* where the code raises DependencyCycleError.                             *)
KahnRound(deps, state) ==
  LET layer == {n \in state.remaining : state.in_degree[n] = 0}
  IN  [remaining |-> state.remaining \ layer,
       in_degree |-> [n \in DOMAIN deps |->
                        state.in_degree[n] - Cardinality(deps[n] \cap layer)]]

(* The state before the loop and after each of its first N rounds.         *)
KahnRounds(deps, N) ==
  LET kahn[k \in 0 .. N] ==
        IF k = 0 THEN KahnStart(deps) ELSE KahnRound(deps, kahn[k - 1])
  IN  kahn

(* cycle: whether DependencyCycleError is raised.  layer: the index of an  *)
(* issue's layer, which is the number of rounds the issue outlives.        *)
compute_layers(issues) ==
  LET cand == filter_candidates(issues)
      deps == [n \in cand |-> issues[n].blocked_by \cap cand]
      N    == Cardinality(cand)
      kahn == KahnRounds(deps, N)
  IN  [cycle |-> kahn[N].remaining # {},
       layer |-> [n \in cand |->
                    Cardinality({k \in 1 .. N : n \in kahn[k].remaining})]]

-----------------------------------------------------------------------------
(* The first k members of a set of numbers, ascending: sorted(S)[:k].      *)
FirstOf(S, k) == {n \in S : Cardinality({m \in S : m < n}) < k}

(* Mutant: whatever is free starts, in any layer.                          *)
NextOfAnyLayer(layer, blocked, cap) == FirstOf(DOMAIN layer \ blocked, cap)

(* Mutant: the first layer is chosen before the blocked issues leave it.   *)
NextOfFirstLayer(layer, blocked, cap) ==
  FirstOf({n \in DOMAIN layer : \A m \in DOMAIN layer : layer[n] <= layer[m]}
            \ blocked, cap)

(* The issues of the first layer that has one outside `blocked', in        *)
(* ascending order, cut at the cap; empty stands for the code's (-1, []).  *)
next_executable_batch(layer, blocked, cap) ==
  LET available == DOMAIN layer \ blocked
      first     == {n \in available : \A m \in available : layer[n] <= layer[m]}
  IN  FirstOf(first, cap)
=============================================================================
