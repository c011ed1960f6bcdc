------------------------------ MODULE EngineDb ------------------------------
(***************************************************************************)
(* The engine's SQLite database as the orchestrator uses it: the rows of   *)
(* `batches', `runs' and `reviews', and the functions of                   *)
(* orclaw/orchestrator/state.py, orclaw/orchestrator/pollback.py and       *)
(* orclaw/batch_planner/planner.py that read or write them.  Each operator *)
(* takes the database before a function ran and gives the database after.  *)
(*                                                                         *)
(* A batch row is named by its issue (the partial unique index of          *)
(* schema.sql allows one active row per issue); a run is named by its      *)
(* place in the order of started_at.  Runs hold what the queries           *)
(* test: the agent, the issue or the PR, whether the run is still queued,  *)
(* and whether started_at is more than an hour ago.  The statuses running, *)
(* aborted and rate_limited of runs and failed and skipped of batches are  *)
(* declared by the schema but written by no code of the engine.            *)
(***************************************************************************)
EXTENDS BatchAlgorithm, Sequences

CONSTANTS Issues,       \* issue numbers
          PRs,          \* pull request numbers, in order of creation
          MaxInFlight,  \* settings.concurrency.max_in_flight
          NoOverride    \* no max_in_flight_override row in engine_state

ASSUME IssuesAssumption == Issues \in SUBSET Nat /\ IsFiniteSet(Issues)
ASSUME PRsAssumption == PRs \in SUBSET Nat /\ IsFiniteSet(PRs)
ASSUME MaxInFlightAssumption == MaxInFlight \in Nat \ {0}
ASSUME NoOverrideAssumption == NoOverride \notin Nat

(* A layering by index; Kahn's algorithm needs no more rounds than issues. *)
Layers == 0 .. Cardinality(Issues)
Layering == UNION {[S -> Layers] : S \in SUBSET Issues}

(* `run' is implementer_run_id, 0 for NULL; of pr_number only whether it is *)
(* NULL counts.  Status "none" stands for an issue without a row.          *)
Batch == [status    : {"none", "pending", "in_progress", "merged"},
          layer     : Layers,
          run       : Nat,
          pr_number : {"NULL", "set"}]

(* "finished" stands for the two statuses of a run that reported back,     *)
(* success and failed; `on' is an issue or, for a reviewer, a PR.          *)
Run == [agent  : {"implementer", "reviewer"},
        on     : Nat,
        status : {"queued", "finished", "timeout"},
        age    : {"fresh", "stale"}]

Db == [batch : [Issues -> Batch], runs : Seq(Run), reviewed : SUBSET PRs]

EmptyDb == [batch |-> [i \in Issues |-> [status |-> "none", layer |-> 0,
                                         run |-> 0, pr_number |-> "NULL"]],
            runs |-> <<>>,
            reviewed |-> {}]

WithStatus(d, s) == {i \in Issues : d.batch[i].status = s}

Queued(d) == {k \in DOMAIN d.runs : d.runs[k].status = "queued"}

QueuedFor(d, agent, on) ==
  {k \in Queued(d) : d.runs[k].agent = agent /\ d.runs[k].on = on}

(* The runs that occupy a slot: STALE_QUEUED_MINUTES excludes the old.     *)
Active(d) == {k \in Queued(d) : d.runs[k].age = "fresh"}

active_run_count(d) == Cardinality(Active(d))

(* The last n members of a set of numbers.                                 *)
LastOf(S, n) == {k \in S : Cardinality({j \in S : k < j}) < n}

UpdateRuns(d, S, status) ==
  [d EXCEPT !.runs = [k \in DOMAIN d.runs |->
                        IF k \in S THEN [d.runs[k] EXCEPT !.status = status]
                                   ELSE d.runs[k]]]

-----------------------------------------------------------------------------
(* state.py                                                                *)

effective_max_in_flight(override) ==
  IF override = NoOverride \/ override > MaxInFlight THEN MaxInFlight
                                                     ELSE override

(* The layer of every row of a live status.                                *)
load_batch_snapshot(d) ==
  [i \in WithStatus(d, "pending") \cup WithStatus(d, "in_progress") |->
     d.batch[i].layer]

create_run(d, agent, on) ==
  [d EXCEPT !.runs = Append(@, [agent |-> agent, on |-> on,
                                status |-> "queued", age |-> "fresh"])]

(* Mutant: a batch that left pending is promoted again.                    *)
mark_any_batch_in_progress(d, i, run) ==
  [d EXCEPT !.batch[i].status = "in_progress", !.batch[i].run = run]

mark_batch_in_progress(d, i, run) ==
  IF d.batch[i].status # "pending" THEN d
  ELSE [d EXCEPT !.batch[i].status = "in_progress", !.batch[i].run = run]

-----------------------------------------------------------------------------
(* pollback.py.  A fetched PR is a record [pr, review], the label as it    *)
(* was at the fetch; closes[p] is the set of issues PR p closes.           *)

Verdicts == {"approved", "hard-block"}

(* A PR's first verdict completes its latest queued reviewer run.          *)
complete_reviewer_runs(d, seen) ==
  LET new == {p \in PRs \ d.reviewed :
                \E x \in seen : x.pr = p /\ x.review \in Verdicts}
      runs == UNION {LastOf(QueuedFor(d, "reviewer", p), 1) : p \in new}
  IN  [UpdateRuns(d, runs, "finished") EXCEPT !.reviewed = @ \cup new]

(* Each time a fetched PR closes an issue, a mention, the latest run still *)
(* queued for the issue is finished.                                       *)
RunsToComplete(d, mentions, i) ==
  LastOf(QueuedFor(d, "implementer", i), Cardinality({m \in mentions : m.issue = i}))

(* Mutant: the run is completed and its batch not linked to the PR.        *)
complete_runs_only(d, mentions) ==
  UpdateRuns(d, UNION {RunsToComplete(d, mentions, i) : i \in Issues}, "finished")

complete_implementer_runs(d, mentions) ==
  LET done(i) == RunsToComplete(d, mentions, i)
  IN  [UpdateRuns(d, UNION {done(i) : i \in Issues}, "finished") EXCEPT
         !.batch = [i \in Issues |->
                      [d.batch[i] EXCEPT !.pr_number =
                         IF done(i) = {} THEN d.batch[i].pr_number ELSE "set"]]]

(* Its first statement alone: the run without the batch.                   *)
finish_run(d, i) ==
  UpdateRuns(d, LastOf(QueuedFor(d, "implementer", i), 1), "finished")

(* mark_batch_merged for every issue that a merged PR closes.              *)
mark_merged_batches(d, landed) ==
  [d EXCEPT !.batch = [i \in Issues |->
     IF i \in landed /\ d.batch[i].status \in {"pending", "in_progress"}
     THEN [d.batch[i] EXCEPT !.status = "merged", !.pr_number = "set"]
     ELSE d.batch[i]]]

(* Mutant: only the reviewer's runs are reaped.                            *)
reap_stale_reviewer_runs(d) ==
  UpdateRuns(d, {k \in Queued(d) : d.runs[k].age = "stale"
                                   /\ d.runs[k].agent = "reviewer"}, "timeout")

StaleQueued(d) == {k \in Queued(d) : d.runs[k].age = "stale"}

(* Mutant: the reaped runs count as done.                                  *)
reap_runs_as_finished(d) == UpdateRuns(d, StaleQueued(d), "finished")

reap_stale_queued_runs(d) == UpdateRuns(d, StaleQueued(d), "timeout")

(* Mutant: a run that merely ended is taken for dead.                      *)
zombies_of_any_ended_run(d) ==
  {i \in WithStatus(d, "in_progress") :
     d.batch[i].run # 0 /\ d.runs[d.batch[i].run].status # "queued"}

zombie_batches(d) ==
  {i \in WithStatus(d, "in_progress") :
     /\ d.batch[i].pr_number = "NULL"
     /\ d.batch[i].run # 0
     /\ d.runs[d.batch[i].run].status = "timeout"}

(* Mutant: implementer_run_id is not reset to NULL.                        *)
reset_batches_keeping_run(d, Z) ==
  [d EXCEPT !.batch = [i \in Issues |->
     IF i \in Z THEN [d.batch[i] EXCEPT !.status = "pending"] ELSE d.batch[i]]]

reset_batches(d, Z) ==
  [d EXCEPT !.batch = [i \in Issues |->
     IF i \in Z THEN [d.batch[i] EXCEPT !.status = "pending", !.run = 0]
                ELSE d.batch[i]]]

recover_zombie_batches(d) == reset_batches(d, zombie_batches(d))

-----------------------------------------------------------------------------
(* planner.py: _upsert_batch for every issue of the computed layers.       *)

(* Mutant: a planner rerun demotes what is not pending.                    *)
upsert_and_demote(d, layer) ==
  [d EXCEPT !.batch = [i \in Issues |->
     IF i \in DOMAIN layer
     THEN [d.batch[i] EXCEPT !.status = "pending", !.layer = layer[i]]
     ELSE d.batch[i]]]

upsert_batches(d, layer) ==
  [d EXCEPT !.batch = [i \in Issues |->
     IF i \in DOMAIN layer /\ d.batch[i].status \in {"none", "pending"}
     THEN [d.batch[i] EXCEPT !.status = "pending", !.layer = layer[i]]
     ELSE d.batch[i]]]
=============================================================================
