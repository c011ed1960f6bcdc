--------------------------- MODULE MCOrchestrator ---------------------------
(***************************************************************************)
(* The orchestrator on small repositories: an issue is blocked by the next *)
(* one, so that the order of dispatch is never the order of the numbers,   *)
(* and a PR closes one issue.                                              *)
(***************************************************************************)
EXTENDS Orchestrator

Chain == [i \in Issues |-> {j \in Issues : j = i + 1}]

OneEach == {{i} : i \in Issues}

AllUpsets == {"api", "db", "crash", "agent_dies", "reviewer_dies", "late",
              "block", "pr_closed", "human", "pause", "skip", "close",
              "force_review"}
DyingAgents == {"agent_dies"}
EngineFailures == {"api", "db", "crash", "agent_dies", "late"}
OneSkip == {"skip"}
NoUpsets == {}

NoOverrides == {NoOverride}
OneOrNone == {1, NoOverride}
=============================================================================
