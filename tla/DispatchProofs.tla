--------------------------- MODULE DispatchProofs ---------------------------
(***************************************************************************)
(* Proof that the engine dispatches in dependency order, but for issues    *)
(* whose attempts failed, for any number of issues, PRs, ticks and upsets. *)
(*                                                                         *)
(* The order is that of the layers a planner run computed, carried by four *)
(* copies of them that grow stale independently: the planner's own         *)
(* variables between its fetch and its commit, the rows of the database    *)
(* (which no planner run refreshes once a batch has started), the plan     *)
(* that a tick loaded, and the issues it chose.  What makes the copies     *)
(* agree is that the graph of the blockers only shrinks: issues are closed *)
(* and excluded, never opened again, so a later planner run gives an issue *)
(* the layer of an earlier one or a lower one.                             *)
(*                                                                         *)
(* Proof, too, that the sessions at work stay within max_in_flight, for    *)
(* one tick at a time whose requests and commits do not fail.  The ceiling *)
(* is kept by counting rows, so each session at work needs an active run   *)
(* of its own, or the slot the tick has reserved for it; and no pollback   *)
(* may free the slot of a PR it has not seen.                              *)
(***************************************************************************)
EXTENDS OrchestratorProofs

(* What list_issues returns, and who waits for whom among its candidates.  *)
Listed == [i \in Issues |-> [state |-> issue[i].state, labels |-> issue[i].labels,
                             blocked_by |-> Deps[i]]]

Graph == WaitsFor(Listed)

(* The issue is no candidate of the planner.                               *)
Gone(i) == issue[i].state = "closed" \/ DoNotImplement \in issue[i].labels

(* The issue need not be waited for: it is gone, somebody is at work on it *)
(* or done, or an attempt failed.                                          *)
Covered(i) ==
  \/ Gone(i) \/ AttemptFailed(i)
  \/ db.batch[i].status \in {"in_progress", "merged"}
  \/ \E p \in OpenPRs : i \in pr[p].closes

(* No chain of blockers in front of the issue is longer than that.         *)
NoDeeper(i, layer) == \A k \in Nat : Chained(Graph, i, k) => k <= layer

(* A row puts an issue after its blockers, and no row has a lower layer    *)
(* than the graph of the day would give it.                                *)
RowOrdered(i) ==
  /\ \A b \in Deps[i] :
       \/ Covered(b)
       \/ /\ db.batch[b].status = "pending"
          /\ db.batch[b].layer < db.batch[i].layer
  /\ Gone(i) \/ NoDeeper(i, db.batch[i].layer)

RowsOrdered == \A i \in Issues : db.batch[i].status # "none" => RowOrdered(i)

(* The layers between the planner's fetch and its commit: they leave out   *)
(* only what is gone, and a row they refresh never moves to a later layer. *)
LayerOrdered(layer, i) ==
  /\ \A b \in Deps[i] \cap DOMAIN layer : layer[b] < layer[i]
  /\ db.batch[i].status # "none" => layer[i] <= db.batch[i].layer
  /\ Gone(i) \/ NoDeeper(i, layer[i])

LayersOrdered(layer) ==
  /\ \A i \in Issues \ DOMAIN layer : Gone(i)
  /\ \A i \in DOMAIN layer : LayerOrdered(layer, i)

PlannerOrdered == planner.pc = "upsert" => LayersOrdered(planner.layer)

(* The plan, the blocked issues and the choice of a tick.                  *)
PlanOrdered(plan) ==
  \A i \in DOMAIN plan : \A b \in Deps[i] :
    Covered(b) \/ (b \in DOMAIN plan /\ plan[b] < plan[i])

BlockedCovered(blocked) == \A b \in blocked : Covered(b)

TodoOrdered(todo) == \A i \in todo : \A b \in Deps[i] : Covered(b)

TickOrdered(t) ==
  /\ PlanOrdered(tick[t].plan)
  /\ BlockedCovered(tick[t].blocked)
  /\ TodoOrdered(tick[t].todo)

OrderInv ==
  /\ IInv
  /\ RowsOrdered
  /\ PlannerOrdered
  /\ \A t \in Ticks : TickOrdered(t)

-----------------------------------------------------------------------------
(* What the steps of the system leave of an issue.                         *)

(* Nobody opens an issue again or takes do-not-implement off it.           *)
LEMMA GoneStays ==
  ASSUME TypeOK, [Next]_vars, NEW j \in Issues, Gone(j)
  PROVE  Gone(j)'
<1>0. issue \in [Issues -> [state : {"open", "closed"},
                           labels : SUBSET {AgentStart, DoNotImplement}]]
  BY DEF TypeOK
<1>a. AgentStart # DoNotImplement
  BY DEF AgentStart, DoNotImplement
<1>1. ASSUME NEW i \in Issues, NEW l, Label(i, l) PROVE Gone(j)'
  BY <1>0, <1>1 DEF Label, Gone
<1>2. ASSUME NEW i \in Issues, Unlabel(i, AgentStart) PROVE Gone(j)'
  BY <1>0, <1>a, <1>2 DEF Unlabel, Gone
<1>3. ASSUME NEW S, CloseIssues(S) PROVE Gone(j)'
  BY <1>0, <1>3 DEF CloseIssues, Gone
<1>4. ASSUME UNCHANGED issue PROVE Gone(j)'
  BY <1>4 DEF Gone
<1>5. ASSUME NEW t \in Ticks, TickStep(t) \/ Crash(t) \/ CrashInReconcile(t)
      PROVE  UNCHANGED issue \/ UnlabelZombie(t) \/ IssueLabel(t)
  BY <1>5 DEF TickStep, PollOpen, PollClosed, Reconcile, Load, FetchPRs,
              ReviewComment, ReviewLabel, ReviewCommit, Decide,
              IssueGet, IssueComment, IssueCommit, Crash, CrashInReconcile, github
<1>6. ASSUME Planner PROVE UNCHANGED issue
  BY <1>6 DEF Planner, PlannerFetch, PlannerCommit, github
<1>7. ASSUME Environment
      PROVE  \/ UNCHANGED issue
             \/ \E S : CloseIssues(S)
             \/ \E i \in Issues : Label(i, DoNotImplement)
  BY <1>7 DEF Environment, AgentOpensPR, HumanOpensPR, AgentDies, ReviewerVerdict,
              ReviewerDies, MergePR, ClosePR, ForceReview, CloseIssue, SkipIssue,
              Pause, Resume, SetOverride, RunAges, github
<1>8. ASSUME NEW t \in Ticks, UnlabelZombie(t) \/ IssueLabel(t) PROVE Gone(j)'
  <2>1. tick[t].zombies \in SUBSET Issues /\ tick[t].todo \in SUBSET Issues
    BY TickFields DEF Tick
  <2>2. \A S \in SUBSET Issues : FirstOf(S, 1) \in SUBSET Issues
    BY FirstOfSubset
  <2>3. QED
    BY <1>1, <1>2, <1>4, <1>8, <2>1, <2>2 DEF UnlabelZombie, IssueLabel
<1>9. QED
  BY <1>1, <1>3, <1>4, <1>5, <1>6, <1>7, <1>8 DEF Next, vars, github

(* A run that timed out stays so, and stays the run of its issue.          *)
LEMMA TimeoutsStay ==
  ASSUME IInv, [Next]_vars, NEW k \in DOMAIN db.runs
  PROVE  /\ k \in DOMAIN db'.runs
         /\ db'.runs[k].agent = db.runs[k].agent /\ db'.runs[k].on = db.runs[k].on
         /\ db.runs[k].status = "timeout" => db'.runs[k].status = "timeout"
<1>0. TypeOK /\ DbInv(db)
  BY DEF IInv
<1>1. ASSUME RunsKept(db, db')
      PROVE  /\ k \in DOMAIN db'.runs
             /\ db'.runs[k].agent = db.runs[k].agent /\ db'.runs[k].on = db.runs[k].on
             /\ db.runs[k].status = "timeout" => db'.runs[k].status = "timeout"
  BY <1>1 DEF RunsKept
<1>2. ASSUME NEW t \in Ticks, Reconcile(t) \/ CrashInReconcile(t)
      PROVE  /\ k \in DOMAIN db'.runs
             /\ db'.runs[k].agent = db.runs[k].agent /\ db'.runs[k].on = db.runs[k].on
             /\ db.runs[k].status = "timeout" => db'.runs[k].status = "timeout"
  <2>1. PollbackLeaves(t, db')
    BY <1>0, <1>2, PollbackDb
  <2>2. PICK d : RunsSettle(db, d, Mentioned(t)) /\ db'.runs = d.runs
    BY <2>1 DEF PollbackLeaves, Settled, Settles
  <2>3. QED
    BY <2>2 DEF RunsSettle
<1>3. ASSUME NEW t \in Ticks, ReviewCommit(t) PROVE RunsKept(db, db')
  <2>1. PICK p \in LastOf(tick[t].review, 1) :
          db' = create_run(db, "reviewer", p) \/ UNCHANGED db
    BY <1>3 DEF ReviewCommit
  <2>2. p \in PRs
    BY <1>0, TickFields, LastOfSubset
  <2>3. CASE UNCHANGED db
    BY <2>3 DEF RunsKept
  <2>4. QED
    BY <1>0, <2>1, <2>2, <2>3, ReviewRecorded
<1>4. ASSUME NEW t \in Ticks, IssueCommit(t) PROVE RunsKept(db, db')
  <2>1. PICK i \in FirstOf(tick[t].todo, 1) : db' = RecordDispatch(db, i) \/ UNCHANGED db
    BY <1>4 DEF IssueCommit
  <2>2. i \in Issues
    BY <1>0, TickFields, FirstOfSubset
  <2>3. CASE UNCHANGED db
    BY <2>3 DEF RunsKept
  <2>4. QED
    BY <1>0, <2>1, <2>2, <2>3, RecordDispatchFacts
<1>5. ASSUME PlannerCommit PROVE RunsKept(db, db')
  <2>1. db' = upsert_batches(db, planner.layer) /\ planner.layer \in Layering
    BY <1>0, <1>5 DEF PlannerCommit, TypeOK
  <2>2. db'.runs = db.runs
    BY <1>0, <2>1, BatchesUpserted
  <2>3. QED
    BY <2>2 DEF RunsKept
<1>6. ASSUME NEW m \in DOMAIN db.runs, RunAges(m) PROVE RunsKept(db, db')
  <2>1. db' = [db EXCEPT !.runs[m].age = "stale"]
    BY <1>6 DEF RunAges
  <2>2. QED
    BY <1>0, <2>1, AgedRun
<1>7. ASSUME UNCHANGED db PROVE RunsKept(db, db')
  BY <1>7 DEF RunsKept
<1>8. QED
  BY <1>1, <1>2, <1>3, <1>4, <1>5, <1>6, <1>7, DbWriters

(* A failed attempt is never forgotten.                                    *)
LEMMA FailureStays ==
  ASSUME IInv, [Next]_vars, NEW i \in Issues, AttemptFailed(i)
  PROVE  AttemptFailed(i)'
<1>1. ASSUME NEW k \in DOMAIN db.runs,
             db.runs[k].agent = "implementer", db.runs[k].on = i,
             db.runs[k].status = "timeout"
      PROVE  AttemptFailed(i)'
  BY <1>1, TimeoutsStay DEF AttemptFailed
<1>2. ASSUME NEW p \in PRs, pr[p].state = "closed", i \in pr[p].closes
      PROVE  AttemptFailed(i)'
  BY <1>2, PRsStay DEF IInv, Stable, AttemptFailed
<1>3. QED
  BY <1>1, <1>2 DEF AttemptFailed

(* A batch stops being in progress when it is merged or its run timed out, *)
(* and a PR stops being open when it is merged, which closes its issues,   *)
(* or closed, which is a failed attempt.                                   *)
LEMMA CoveredStays ==
  ASSUME IInv, [Next]_vars, NEW i \in Issues, Covered(i)
  PROVE  Covered(i)'
<1>0. TypeOK /\ DbInv(db)
  BY DEF IInv
<1>1. CASE Gone(i)
  BY <1>0, <1>1, GoneStays DEF Covered
<1>2. CASE AttemptFailed(i)
  BY <1>2, FailureStays DEF Covered
<1>3. CASE db.batch[i].status \in {"in_progress", "merged"}
  <2>1. CASE Retried(db, db', i)
    <3> DEFINE k == db.batch[i].run
    <3>1. /\ k \in DOMAIN db.runs
          /\ db.runs[k].agent = "implementer" /\ db.runs[k].on = i
      BY <1>0, <2>1 DEF DbInv, Retried
    <3>2. db'.runs[k].status = "timeout"
      BY <2>1 DEF Retried
    <3>3. AttemptFailed(i)'
      <4> HIDE DEF k
      <4>1. /\ k \in DOMAIN db'.runs
            /\ db'.runs[k].agent = "implementer" /\ db'.runs[k].on = i
        BY <3>1, TimeoutsStay
      <4>2. QED
        BY <3>2, <4>1 DEF AttemptFailed
    <3>4. QED
      BY <3>3 DEF Covered
  <2>2. CASE ~ Retried(db, db', i)
    <3>1. db'.batch[i].status \in {"in_progress", "merged"}
      BY <1>3, <2>2, BatchMoves DEF Kept, Merged, Replanned, Promoted
    <3>2. QED
      BY <3>1 DEF Covered
  <2>3. QED
    BY <2>1, <2>2
<1>4. ASSUME NEW p \in PRs, pr[p].state = "open", i \in pr[p].closes
      PROVE  Covered(i)'
  <2>1. /\ pr'[p].closes = pr[p].closes
        /\ pr'[p].state \in {"open", "merged", "closed"}
        /\ pr'[p].state = "merged" => issue'[i].state = "closed"
    BY <1>0, <1>4, PRsStay DEF Stable
  <2>2. QED
    BY <1>4, <2>1 DEF Covered, Gone, AttemptFailed, OpenPRs
<1>5. QED
  BY <1>1, <1>2, <1>3, <1>4 DEF Covered, OpenPRs

(* The candidates of a planner run, in any state of the issues.            *)
LEMMA CandidatesAreNotGone ==
  ASSUME NEW some \in [Issues -> [state : {"open", "closed"},
                                 labels : SUBSET {AgentStart, DoNotImplement}]],
         NEW list, list = [i \in Issues |-> [state |-> some[i].state,
                                             labels |-> some[i].labels,
                                             blocked_by |-> Deps[i]]]
  PROVE  filter_candidates(list)
           = {i \in Issues : ~ (\/ some[i].state = "closed"
                                \/ DoNotImplement \in some[i].labels)}
<1>1. /\ DOMAIN list = Issues
      /\ \A i \in Issues : list[i].state = some[i].state
                           /\ list[i].labels = some[i].labels
  OBVIOUS
<1>2. \A i \in Issues : /\ some[i].state \in {"open", "closed"}
                        /\ some[i].labels \in SUBSET {AgentStart, DoNotImplement}
  OBVIOUS
<1>3. AgentStart \notin EXCLUDED_LABELS /\ DoNotImplement \in EXCLUDED_LABELS
  BY DEF AgentStart, DoNotImplement, EXCLUDED_LABELS
<1>4. ASSUME NEW i \in Issues
      PROVE  (some[i].labels \cap EXCLUDED_LABELS = {}) <=> DoNotImplement \notin some[i].labels
  BY <1>2, <1>3, <1>4
<1>5. QED
  BY <1>1, <1>2, <1>4 DEF filter_candidates

(* And who waits for whom among them.                                      *)
LEMMA GraphOfTheDay ==
  ASSUME TypeOK
  PROVE  /\ filter_candidates(Listed) = {i \in Issues : ~ Gone(i)}
         /\ DOMAIN Graph = {i \in Issues : ~ Gone(i)}
         /\ \A i \in DOMAIN Graph : Graph[i] = Deps[i] \cap {b \in Issues : ~ Gone(b)}
<1>1. filter_candidates(Listed) = {i \in Issues : ~ Gone(i)}
  BY CandidatesAreNotGone DEF TypeOK, Gone, Listed
<1>2. \A i \in Issues : Listed[i].blocked_by = Deps[i]
  BY DEF Listed
<1>3. QED
  BY <1>1, <1>2 DEF Graph, WaitsFor

(* Fewer candidates, fewer chains: a layer that was high enough stays so.  *)
LEMMA NoDeeperStays ==
  ASSUME TypeOK, TypeOK', [Next]_vars, NEW i, NEW layer, NoDeeper(i, layer)
  PROVE  \A k \in Nat : Chained(Graph', i, k) => k <= layer
<1>1. /\ DOMAIN Graph = {j \in Issues : ~ Gone(j)}
      /\ \A j \in DOMAIN Graph : Graph[j] = Deps[j] \cap {b \in Issues : ~ Gone(b)}
  BY GraphOfTheDay
<1>2. /\ DOMAIN Graph' = {j \in Issues : ~ Gone(j)'}
      /\ \A j \in DOMAIN Graph' : Graph'[j] = Deps[j] \cap {b \in Issues : ~ Gone(b)'}
  <2>1. filter_candidates(Listed') = {j \in Issues : ~ Gone(j)'}
    BY CandidatesAreNotGone DEF TypeOK, Gone, Listed
  <2>2. \A j \in Issues : Listed'[j].blocked_by = Deps[j]
    BY DEF Listed
  <2>3. QED
    BY <2>1, <2>2 DEF Graph, WaitsFor
<1>3. \A j \in Issues : Gone(j) => Gone(j)'
  BY GoneStays
<1>4. /\ DOMAIN Graph' \subseteq DOMAIN Graph
      /\ \A j \in DOMAIN Graph' : Graph'[j] \subseteq Graph[j]
  BY <1>1, <1>2, <1>3
<1>5. ASSUME NEW k \in Nat, Chained(Graph', i, k) PROVE Chained(Graph, i, k)
  BY <1>4, <1>5, FewerChains
<1>6. QED
  BY <1>5 DEF NoDeeper

-----------------------------------------------------------------------------
(* The rows of the database.                                               *)

(* The layers that are compared are numbers.                               *)
LEMMA LayersAreNumbers ==
  ASSUME TypeOK
  PROVE  /\ \A i \in Issues : db.batch[i].layer \in Nat
         /\ \A i \in DOMAIN planner.layer : i \in Issues /\ planner.layer[i] \in Nat
         /\ planner.layer \in Layering
<1>1. Cardinality(Issues) \in Nat
  BY IssuesAssumption, FS_CardinalityType
<1>2. Layers \subseteq Nat
  BY <1>1 DEF Layers
<1>3. \A i \in Issues : db.batch[i].layer \in Layers
  BY DbFields DEF TypeOK, Batch
<1>4. /\ planner.layer \in Layering
      /\ \A i \in DOMAIN planner.layer : i \in Issues /\ planner.layer[i] \in Layers
  BY DEF TypeOK, Layering
<1>5. QED
  BY <1>2, <1>3, <1>4

(* A row that the step leaves alone stays in order.                        *)
LEMMA RowStays ==
  ASSUME IInv, TypeOK', [Next]_vars, NEW i \in Issues, RowOrdered(i),
         db'.batch[i].layer = db.batch[i].layer,
         \A b \in Issues :
           db.batch[b].status = "pending" /\ db.batch[b].layer < db.batch[i].layer =>
             \/ Covered(b)'
             \/ /\ db'.batch[b].status = "pending"
                /\ db'.batch[b].layer < db'.batch[i].layer
  PROVE  RowOrdered(i)'
<1>0. TypeOK
  BY DEF IInv
<1>1. ASSUME NEW b \in Deps[i]
      PROVE  \/ Covered(b)'
             \/ /\ db'.batch[b].status = "pending"
                /\ db'.batch[b].layer < db'.batch[i].layer
  <2>1. b \in Issues
    BY DepsAssumption
  <2>2. CASE Covered(b)
    BY <2>1, <2>2, CoveredStays
  <2>3. CASE ~ Covered(b)
    BY <2>1, <2>3 DEF RowOrdered
  <2>4. QED
    BY <2>2, <2>3
<1>2. CASE Gone(i)
  <2>1. Gone(i)'
    BY <1>0, <1>2, GoneStays
  <2>2. QED
    BY <1>1, <2>1 DEF RowOrdered
<1>3. CASE NoDeeper(i, db.batch[i].layer)
  <2>1. \A k \in Nat : Chained(Graph', i, k) => k <= db.batch[i].layer
    BY <1>0, <1>3, NoDeeperStays
  <2>2. NoDeeper(i, db.batch[i].layer)'
    BY <2>1 DEF NoDeeper
  <2>3. QED
    BY <1>1, <2>2 DEF RowOrdered
<1>4. QED
  BY <1>2, <1>3 DEF RowOrdered

(* Only a planner run gives a row another layer.                           *)
LEMMA LayersKept ==
  ASSUME IInv, [Next]_vars, ~ PlannerCommit, NEW i \in Issues
  PROVE  /\ db'.batch[i].layer = db.batch[i].layer
         /\ db'.batch[i].status # "none" => db.batch[i].status # "none"
         /\ db.batch[i].status = "pending" =>
              db'.batch[i].status \in {"pending", "in_progress", "merged"}
BY BatchMoves DEF Kept, Merged, Retried, Promoted

(* So every other step keeps the rows in order.                            *)
LEMMA RowsStayOrdered ==
  ASSUME IInv, TypeOK', [Next]_vars, ~ PlannerCommit, RowsOrdered
  PROVE  RowsOrdered'
<1> SUFFICES ASSUME NEW i \in Issues, db'.batch[i].status # "none"
             PROVE  RowOrdered(i)'
  BY DEF RowsOrdered
<1>1. db.batch[i].status # "none" /\ db'.batch[i].layer = db.batch[i].layer
  BY LayersKept
<1>2. RowOrdered(i)
  BY <1>1 DEF RowsOrdered
<1>3. ASSUME NEW b \in Issues,
             db.batch[b].status = "pending", db.batch[b].layer < db.batch[i].layer
      PROVE  \/ Covered(b)'
             \/ /\ db'.batch[b].status = "pending"
                /\ db'.batch[b].layer < db'.batch[i].layer
  <2>1. /\ db'.batch[b].layer = db.batch[b].layer
        /\ db'.batch[b].status \in {"pending", "in_progress", "merged"}
    BY <1>3, LayersKept
  <2>2. db'.batch[b].status \in {"in_progress", "merged"} => Covered(b)'
    BY DEF Covered
  <2>3. QED
    BY <1>1, <1>3, <2>1, <2>2
<1>4. QED
  BY <1>1, <1>2, <1>3, RowStays

(* The rows that _upsert_batch writes, and those it leaves alone.          *)
LEMMA UpsertedRows ==
  ASSUME NEW d, d \in Db, NEW layer, NEW e, e = upsert_batches(d, layer), NEW i \in Issues
  PROVE  /\ i \in DOMAIN layer /\ d.batch[i].status \in {"none", "pending"} =>
              e.batch[i].status = "pending" /\ e.batch[i].layer = layer[i]
         /\ ~ (i \in DOMAIN layer /\ d.batch[i].status \in {"none", "pending"}) =>
              e.batch[i] = d.batch[i]
<1> DEFINE new == [d.batch[i] EXCEPT !.status = "pending", !.layer = layer[i]]
<1>1. d.batch[i] \in Batch
  BY DbFields
<1>2. new.status = "pending" /\ new.layer = layer[i]
  BY <1>1 DEF Batch
<1>3. e.batch[i] = IF i \in DOMAIN layer /\ d.batch[i].status \in {"none", "pending"}
                   THEN new ELSE d.batch[i]
  BY DEF upsert_batches, Db
<1> HIDE DEF new
<1>4. QED
  BY <1>2, <1>3

(* A planner run, however long ago it fetched the issues, puts each row it *)
(* writes after the blockers, and does not move a row it writes past those *)
(* that it leaves alone.                                                   *)
LEMMA CommitOrdersRows ==
  ASSUME IInv, TypeOK', PlannerCommit, RowsOrdered, PlannerOrdered
  PROVE  RowsOrdered'
<1> DEFINE L == planner.layer
           Written(i) == i \in DOMAIN L /\ db.batch[i].status \in {"none", "pending"}
<1>0. /\ TypeOK /\ db \in Db /\ [Next]_vars
      /\ \A i \in Issues : db.batch[i].layer \in Nat
      /\ \A i \in DOMAIN L : i \in Issues /\ L[i] \in Nat
      /\ \A i \in Issues : db.batch[i].status \in {"none", "pending", "in_progress", "merged"}
  BY LayersAreNumbers, DbFields DEF IInv, TypeOK, Next, Planner, Batch
<1>1. ASSUME NEW i \in Issues
      PROVE  /\ Written(i) => db'.batch[i].status = "pending" /\ db'.batch[i].layer = L[i]
             /\ ~ Written(i) => db'.batch[i] = db.batch[i]
  BY <1>0, UpsertedRows DEF PlannerCommit
<1>2. /\ \A i \in Issues \ DOMAIN L : Gone(i)
      /\ \A i \in DOMAIN L : LayerOrdered(L, i)
  BY DEF PlannerCommit, PlannerOrdered, LayersOrdered
<1> HIDE DEF L
<1> SUFFICES ASSUME NEW i \in Issues, db'.batch[i].status # "none"
             PROVE  RowOrdered(i)'
  BY DEF RowsOrdered
<1>3. CASE Written(i)
  <2>1. LayerOrdered(L, i) /\ i \in DOMAIN L /\ db'.batch[i].layer = L[i]
    BY <1>1, <1>2, <1>3
  <2>2. ASSUME NEW b \in Deps[i]
        PROVE  \/ Covered(b)'
               \/ /\ db'.batch[b].status = "pending"
                  /\ db'.batch[b].layer < db'.batch[i].layer
    <3>1. b \in Issues
      BY DepsAssumption
    <3>2. CASE Written(b)
      BY <1>1, <2>1, <3>1, <3>2 DEF LayerOrdered
    <3>3. CASE b \notin DOMAIN L
      <4>1. Covered(b)
        BY <1>2, <3>1, <3>3 DEF Covered
      <4>2. QED
        BY <1>0, <3>1, <4>1, CoveredStays
    <3>4. CASE b \in DOMAIN L /\ ~ Written(b)
      <4>1. db.batch[b].status \in {"in_progress", "merged"}
        BY <1>0, <3>1, <3>4
      <4>2. Covered(b)
        BY <4>1 DEF Covered
      <4>3. QED
        BY <1>0, <3>1, <4>2, CoveredStays
    <3>5. QED
      BY <3>2, <3>3, <3>4
  <2>3. (Gone(i) \/ NoDeeper(i, db.batch[i].layer))'
    <3>1. CASE Gone(i)
      BY <1>0, <3>1, GoneStays
    <3>2. CASE NoDeeper(i, L[i])
      <4>1. \A k \in Nat : Chained(Graph', i, k) => k <= L[i]
        BY <1>0, <3>2, NoDeeperStays
      <4>2. QED
        BY <2>1, <4>1 DEF NoDeeper
    <3>3. QED
      BY <2>1, <3>1, <3>2 DEF LayerOrdered
  <2>4. QED
    BY <2>2, <2>3 DEF RowOrdered
<1>4. CASE ~ Written(i)
  <2>1. db'.batch[i] = db.batch[i] /\ RowOrdered(i)
    BY <1>1, <1>4 DEF RowsOrdered
  <2>2. ASSUME NEW b \in Issues,
               db.batch[b].status = "pending", db.batch[b].layer < db.batch[i].layer
        PROVE  /\ db'.batch[b].status = "pending"
               /\ db'.batch[b].layer < db'.batch[i].layer
    <3>1. CASE Written(b)
      <4>1. /\ db'.batch[b].status = "pending" /\ db'.batch[b].layer = L[b]
            /\ L[b] <= db.batch[b].layer /\ L[b] \in Nat
        BY <1>0, <1>1, <1>2, <2>2, <3>1 DEF LayerOrdered
      <4>2. db.batch[b].layer \in Nat /\ db.batch[i].layer \in Nat
        BY <1>0
      <4>3. QED
        BY <2>1, <2>2, <4>1, <4>2
    <3>2. CASE ~ Written(b)
      BY <1>1, <2>1, <2>2, <3>2
    <3>3. QED
      BY <3>1, <3>2
  <2>3. QED
    BY <1>0, <2>1, <2>2, RowStays
<1>5. QED
  BY <1>3, <1>4

-----------------------------------------------------------------------------
(* The planner.                                                            *)

(* A planner run that fetches the issues computes layers in order.  It     *)
(* gives no issue a later layer than its row has.                          *)
LEMMA FetchOrdersLayers ==
  ASSUME TypeOK, PlannerFetch, RowsOrdered
  PROVE  LayersOrdered(planner'.layer)
<1> DEFINE L == compute_layers(Listed).layer
<1>1. ~ compute_layers(Listed).cycle /\ planner'.layer = L
  BY DEF PlannerFetch, Listed
<1>2. /\ filter_candidates(Listed) = {i \in Issues : ~ Gone(i)}
      /\ \A i \in Issues : Listed[i].blocked_by = Deps[i]
      /\ IsFiniteSet(DOMAIN Listed)
  BY GraphOfTheDay, IssuesAssumption DEF Listed
<1>3. DOMAIN L = filter_candidates(Listed)
  BY <1>2, LayersCountChains
<1>4. ASSUME NEW i \in DOMAIN L
      PROVE  /\ L[i] \in Nat /\ Chained(Graph, i, L[i])
             /\ \A k \in Nat : Chained(Graph, i, k) => k <= L[i]
  BY <1>1, <1>2, <1>3, LayerIsLongestChain DEF Graph
<1>5. ASSUME NEW i \in DOMAIN L, NEW b \in Deps[i] \cap DOMAIN L PROVE L[b] < L[i]
  BY <1>1, <1>2, <1>3, BlockersInEarlierLayers
<1> HIDE DEF L
<1>6. ASSUME NEW i \in DOMAIN L PROVE LayerOrdered(L, i)
  <2>1. i \in Issues /\ ~ Gone(i)
    BY <1>2, <1>3
  <2>2. db.batch[i].status # "none" => L[i] <= db.batch[i].layer
    BY <1>4, <2>1 DEF RowsOrdered, RowOrdered, NoDeeper
  <2>3. NoDeeper(i, L[i])
    BY <1>4 DEF NoDeeper
  <2>4. QED
    BY <1>5, <2>2, <2>3 DEF LayerOrdered
<1>7. QED
  BY <1>1, <1>2, <1>3, <1>6 DEF LayersOrdered

(* They stay in order until they are written, whatever happens meanwhile.  *)
LEMMA LayersStayOrdered ==
  ASSUME IInv, TypeOK', [Next]_vars, ~ PlannerCommit, LayersOrdered(planner.layer),
         planner'.layer = planner.layer
  PROVE  LayersOrdered(planner.layer)'
<1> DEFINE L == planner.layer
<1>0. TypeOK
  BY DEF IInv
<1>1. /\ \A i \in Issues \ DOMAIN L : Gone(i)
      /\ \A i \in DOMAIN L : i \in Issues /\ LayerOrdered(L, i)
  BY <1>0, LayersAreNumbers DEF LayersOrdered
<1>2. \A i \in Issues \ DOMAIN L : Gone(i)'
  BY <1>0, <1>1, GoneStays
<1>3. ASSUME NEW i \in DOMAIN L
      PROVE  /\ \A b \in Deps[i] \cap DOMAIN L : L[b] < L[i]
             /\ db'.batch[i].status # "none" => L[i] <= db'.batch[i].layer
             /\ Gone(i)' \/ \A k \in Nat : Chained(Graph', i, k) => k <= L[i]
  <2>1. i \in Issues /\ LayerOrdered(L, i)
    BY <1>1
  <2>2. db'.batch[i].status # "none" => L[i] <= db'.batch[i].layer
    BY <2>1, LayersKept DEF LayerOrdered
  <2>3. Gone(i)' \/ \A k \in Nat : Chained(Graph', i, k) => k <= L[i]
    BY <1>0, <2>1, GoneStays, NoDeeperStays DEF LayerOrdered
  <2>4. QED
    BY <2>1, <2>2, <2>3 DEF LayerOrdered
<1>4. L' = L
  OBVIOUS
<1> HIDE DEF L
<1>5. LayersOrdered(L)'
  BY <1>2, <1>3, <1>4 DEF LayersOrdered, LayerOrdered, NoDeeper
<1>6. QED
  BY <1>4, <1>5 DEF L

(* The planner's variables change when it fetches and when it commits.     *)
LEMMA PlannerStaysOrdered ==
  ASSUME IInv, TypeOK', [Next]_vars, RowsOrdered, PlannerOrdered
  PROVE  PlannerOrdered'
<1>0. TypeOK
  BY DEF IInv
<1>1. CASE PlannerFetch
  <2>1. ~ PlannerCommit
    BY <1>1 DEF PlannerFetch, PlannerCommit
  <2>2. LayersOrdered(planner'.layer)
    BY <1>0, <1>1, FetchOrdersLayers
  <2>3. UNCHANGED <<db, issue, pr>>
    BY <1>1 DEF PlannerFetch, github
  <2>4. LayersOrdered(planner.layer)'
    BY <2>2, <2>3 DEF LayersOrdered, LayerOrdered, NoDeeper, Graph, Listed, Gone
  <2>5. QED
    BY <2>4 DEF PlannerOrdered
<1>2. CASE PlannerCommit
  BY <1>2 DEF PlannerCommit, IdlePlanner, PlannerOrdered
<1>3. CASE UNCHANGED planner /\ ~ PlannerCommit
  BY <1>3, LayersStayOrdered DEF PlannerOrdered
<1>4. UNCHANGED planner \/ PlannerFetch \/ PlannerCommit
  <2>1. ASSUME NEW t \in Ticks, TickStep(t) \/ Crash(t) \/ CrashInReconcile(t)
        PROVE  UNCHANGED planner
    BY <2>1 DEF TickStep, PollOpen, PollClosed, Reconcile, UnlabelZombie, Load,
                FetchPRs, ReviewComment, ReviewLabel, ReviewCommit, Decide,
                IssueGet, IssueComment, IssueLabel, IssueCommit, Crash, CrashInReconcile
  <2>2. ASSUME Environment PROVE UNCHANGED planner
    BY <2>2 DEF Environment, AgentOpensPR, HumanOpensPR, AgentDies, CloseIssue,
                SkipIssue, ReviewerVerdict, ReviewerDies, MergePR, ClosePR,
                ForceReview, Pause, Resume, SetOverride, RunAges
  <2>3. QED
    BY <2>1, <2>2 DEF Next, vars, Planner
<1>5. QED
  BY <1>1, <1>2, <1>3, <1>4

-----------------------------------------------------------------------------
(* The ticks.                                                              *)

(* What a tick loads is in order.                                          *)
LEMMA SnapshotOrdered ==
  ASSUME RowsOrdered
  PROVE  /\ PlanOrdered(load_batch_snapshot(db))
         /\ BlockedCovered(WithStatus(db, "in_progress"))
<1> DEFINE plan == load_batch_snapshot(db)
<1>1. /\ DOMAIN plan = {i \in Issues : db.batch[i].status \in {"pending", "in_progress"}}
      /\ \A i \in DOMAIN plan : plan[i] = db.batch[i].layer
  BY DEF load_batch_snapshot, WithStatus
<1> HIDE DEF plan
<1>2. ASSUME NEW i \in DOMAIN plan, NEW b \in Deps[i]
      PROVE  Covered(b) \/ (b \in DOMAIN plan /\ plan[b] < plan[i])
  <2>1. i \in Issues /\ b \in Issues /\ RowOrdered(i)
    BY <1>1, DepsAssumption DEF RowsOrdered
  <2>2. QED
    BY <1>1, <2>1 DEF RowOrdered
<1>3. BlockedCovered(WithStatus(db, "in_progress"))
  BY DEF BlockedCovered, WithStatus, Covered
<1>4. QED
  BY <1>2, <1>3 DEF PlanOrdered, plan

(* next_executable_batch takes issues of the first layer that has one: a   *)
(* blocker in an earlier layer is blocked, so it is covered.               *)
LEMMA ChoiceOrdered ==
  ASSUME TypeOK, NEW t \in Ticks, TickOrdered(t)
  PROVE  TodoOrdered(Batches(t))
<1> DEFINE plan == tick[t].plan
           available == DOMAIN plan \ tick[t].blocked
           first == {n \in available : \A m \in available : plan[n] <= plan[m]}
<1>1. Batches(t) \subseteq first
  BY FirstOfSubset DEF Batches, next_executable_batch
<1>2. \A i \in DOMAIN plan : plan[i] \in Nat
  <2>1. Cardinality(Issues) \in Nat
    BY IssuesAssumption, FS_CardinalityType
  <2>2. tick[t].plan \in Layering
    BY DEF TypeOK, Tick
  <2>3. QED
    BY <2>1, <2>2 DEF Layering, Layers
<1>3. ASSUME NEW i \in first, NEW b \in Deps[i] PROVE Covered(b)
  <2>1. i \in DOMAIN plan
    OBVIOUS
  <2>2. CASE b \in tick[t].blocked
    BY <2>2 DEF TickOrdered, BlockedCovered
  <2>3. CASE b \in available
    <3>1. plan[i] <= plan[b] /\ ~ (plan[b] < plan[i])
      BY <1>2, <1>3, <2>1, <2>3
    <3>2. QED
      BY <2>1, <3>1 DEF TickOrdered, PlanOrdered
  <2>4. CASE b \notin DOMAIN plan
    BY <2>1, <2>4 DEF TickOrdered, PlanOrdered
  <2>5. QED
    BY <2>2, <2>3, <2>4
<1> HIDE DEF first
<1>4. QED
  BY <1>1, <1>3 DEF TodoOrdered

(* What a step of a tick leaves in its local variables is in order, seen   *)
(* from the state before the step.                                         *)
LEMMA TickMovesInOrder ==
  ASSUME TypeOK, RowsOrdered, NEW t \in Ticks, TickStep(t), TickOrdered(t)
  PROVE  /\ PlanOrdered(tick'[t].plan)
         /\ BlockedCovered(tick'[t].blocked)
         /\ TodoOrdered(tick'[t].todo)
<1> DEFINE local == tick[t]
           new   == tick'[t]
           Goal  == /\ PlanOrdered(new.plan)
                    /\ BlockedCovered(new.blocked)
                    /\ TodoOrdered(new.todo)
<1>0. /\ tick \in [Ticks -> Tick] /\ local \in Tick
      /\ PlanOrdered(local.plan) /\ BlockedCovered(local.blocked)
      /\ TodoOrdered(local.todo)
  BY DEF TypeOK, TickOrdered
<1>1. /\ PlanOrdered(IdleTick.plan) /\ BlockedCovered(IdleTick.blocked)
      /\ TodoOrdered(IdleTick.todo)
  <2>1. DOMAIN IdleTick.plan = {} /\ IdleTick.blocked = {} /\ IdleTick.todo = {}
    BY DEF IdleTick
  <2>2. QED
    BY <2>1 DEF PlanOrdered, BlockedCovered, TodoOrdered
<1>2. ASSUME NEW step, new = [IdleTick EXCEPT !.pc = step] PROVE Goal
  <2>1. /\ new.plan = IdleTick.plan /\ new.todo = IdleTick.todo
        /\ new.blocked = IdleTick.blocked
    BY <1>2 DEF IdleTick
  <2>2. QED
    BY <1>1, <2>1
<1>3. ASSUME new = IdleTick PROVE Goal
  BY <1>1, <1>3
<1>4. ASSUME new.plan = local.plan, new.blocked = local.blocked,
             new.todo \subseteq local.todo
      PROVE  Goal
  BY <1>0, <1>4 DEF TodoOrdered
<1>5. ASSUME NEW step, Goto(t, step) PROVE Goal
  <2>1. new = [local EXCEPT !.pc = step]
    BY <1>0, <1>5 DEF Goto
  <2>2. new.plan = local.plan /\ new.todo = local.todo /\ new.blocked = local.blocked
    BY <1>0, <2>1 DEF Tick
  <2>3. QED
    BY <1>4, <2>2
<1>6. CASE PollOpen(t)
  <2>1. CASE tick' = [tick EXCEPT ![t].pc = "poll_closed", ![t].open = Fetch(OpenPRs)]
    <3>1. new.plan = local.plan /\ new.todo = local.todo /\ new.blocked = local.blocked
      BY <1>0, <2>1 DEF Tick
    <3>2. QED
      BY <1>4, <3>1
  <2>2. QED
    BY <1>5, <1>6, <2>1 DEF PollOpen
<1>7. CASE PollClosed(t)
  <2>1. CASE tick' = [tick EXCEPT ![t].pc = "reconcile", ![t].closed = Fetch(recent)]
    <3>1. new.plan = local.plan /\ new.todo = local.todo /\ new.blocked = local.blocked
      BY <1>0, <2>1 DEF Tick
    <3>2. QED
      BY <1>4, <3>1
  <2>2. CASE tick' = [tick EXCEPT ![t] = [IdleTick EXCEPT !.pc = "load"]]
    BY <1>0, <1>2, <2>2
  <2>3. QED
    BY <1>7, <2>1, <2>2 DEF PollClosed
<1>8. CASE Reconcile(t)
  <2>1. \E step, zombies :
          tick' = [tick EXCEPT ![t] = [IdleTick EXCEPT !.pc = step, !.zombies = zombies]]
    BY <1>8 DEF Reconcile
  <2>2. PICK step, zombies : new = [IdleTick EXCEPT !.pc = step, !.zombies = zombies]
    BY <1>0, <2>1
  <2>3. /\ new.plan = IdleTick.plan /\ new.todo = IdleTick.todo
        /\ new.blocked = IdleTick.blocked
    BY <2>2 DEF IdleTick
  <2>4. QED
    BY <1>1, <2>3
<1>9. CASE UnlabelZombie(t)
  <2>1. PICK i \in FirstOf(local.zombies, 1) :
          tick' = [tick EXCEPT
                     ![t].zombies = @ \ {i},
                     ![t].pc = IF local.zombies = {i} THEN "load" ELSE @]
    BY <1>9 DEF UnlabelZombie
  <2> DEFINE step == IF local.zombies = {i} THEN "load" ELSE local.pc
             left == local.zombies \ {i}
  <2>2. new = [local EXCEPT !.zombies = left, !.pc = step]
    BY <1>0, <2>1
  <2> HIDE DEF step, left
  <2>3. new.plan = local.plan /\ new.todo = local.todo /\ new.blocked = local.blocked
    BY <1>0, <2>2 DEF Tick
  <2>4. QED
    BY <1>4, <2>3
<1>10. CASE Load(t)
  <2> DEFINE plan == load_batch_snapshot(db)
             blocked == WithStatus(db, "in_progress")
             slots == FreeSlots(db)
             r == [IdleTick EXCEPT !.pc = "fetch_prs", !.plan = plan,
                                   !.blocked = blocked, !.slots = slots]
  <2>1. new = IdleTick \/ new = r
    BY <1>0, <1>10 DEF Load
  <2>2. PlanOrdered(plan) /\ BlockedCovered(blocked)
    BY SnapshotOrdered
  <2> HIDE DEF plan, blocked, slots
  <2>3. r.plan = plan /\ r.todo = IdleTick.todo /\ r.blocked = blocked
    BY DEF IdleTick
  <2> HIDE DEF r
  <2>4. QED
    BY <1>1, <1>3, <2>1, <2>2, <2>3
<1>11. CASE FetchPRs(t)
  <2>1. PICK prs \in {OpenPRs, {}} :
          LET review == LastOf({p \in prs : pr[p].review = "none"}, local.slots) IN
          tick' = [tick EXCEPT
                     ![t].blocked = @ \cup UNION {pr[p].closes : p \in prs},
                     ![t].review = review,
                     ![t].pc = IF review = {} THEN "decide" ELSE "review_comment"]
    BY <1>11 DEF FetchPRs
  <2> DEFINE review == LastOf({p \in prs : pr[p].review = "none"}, local.slots)
             closed == UNION {pr[p].closes : p \in prs}
             blocked == local.blocked \cup closed
             step   == IF review = {} THEN "decide" ELSE "review_comment"
  <2>2. new = [local EXCEPT !.blocked = blocked, !.review = review, !.pc = step]
    BY <1>0, <2>1
  <2>3. \A b \in closed : Covered(b)
    BY DEF Covered
  <2>4. BlockedCovered(blocked)
    BY <1>0, <2>3 DEF BlockedCovered
  <2> HIDE DEF review, closed, step, blocked
  <2>5. new.plan = local.plan /\ new.todo = local.todo /\ new.blocked = blocked
    BY <1>0, <2>2 DEF Tick
  <2>6. QED
    BY <1>0, <2>4, <2>5
<1>12. CASE ReviewComment(t) \/ ReviewLabel(t) \/ ReviewCommit(t)
  <2>1. \/ \E step : Goto(t, step)
        \/ \E p, slots : NextReview(t, p, slots)
    BY <1>12 DEF ReviewComment, ReviewLabel, ReviewCommit
  <2>2. ASSUME NEW p, NEW slots, NextReview(t, p, slots) PROVE Goal
    <3> DEFINE step == IF local.review = {p} THEN "decide" ELSE "review_comment"
               left == local.review \ {p}
    <3>1. new = [local EXCEPT !.review = left, !.slots = slots, !.pc = step]
      BY <1>0, <2>2 DEF NextReview
    <3> HIDE DEF step, left
    <3>2. new.plan = local.plan /\ new.todo = local.todo /\ new.blocked = local.blocked
      BY <1>0, <3>1 DEF Tick
    <3>3. QED
      BY <1>4, <3>2
  <2>3. QED
    BY <1>5, <2>1, <2>2
<1>13. CASE Decide(t)
  <2>1. new = IdleTick \/ new = [IdleTick EXCEPT !.pc = "issue_get", !.todo = Batches(t)]
    BY <1>0, <1>13 DEF Decide
  <2>2. TodoOrdered(Batches(t))
    BY ChoiceOrdered
  <2>3. CASE new = [IdleTick EXCEPT !.pc = "issue_get", !.todo = Batches(t)]
    <3>1. /\ new.plan = IdleTick.plan /\ new.blocked = IdleTick.blocked
          /\ new.todo = Batches(t)
      BY <2>3 DEF IdleTick
    <3>2. QED
      BY <1>1, <2>2, <3>1
  <2>4. QED
    BY <1>3, <2>1, <2>3
<1>14. CASE IssueGet(t) \/ IssueComment(t) \/ IssueLabel(t) \/ IssueCommit(t)
  <2>1. \/ \E step : Goto(t, step)
        \/ \E i : NextIssue(t, i)
    BY <1>14 DEF IssueGet, IssueComment, IssueLabel, IssueCommit
  <2>2. ASSUME NEW i, NextIssue(t, i) PROVE Goal
    <3> DEFINE left == local.todo \ {i}
    <3>1. new = IdleTick \/ new = [local EXCEPT !.pc = "issue_get", !.todo = left]
      BY <1>0, <2>2 DEF NextIssue
    <3>2. left \subseteq local.todo
      OBVIOUS
    <3> HIDE DEF left
    <3>3. CASE new = [local EXCEPT !.pc = "issue_get", !.todo = left]
      <4>1. new.plan = local.plan /\ new.todo = left /\ new.blocked = local.blocked
        BY <1>0, <3>3 DEF Tick
      <4>2. QED
        BY <1>4, <3>2, <4>1
    <3>4. QED
      BY <1>3, <3>1, <3>3
  <2>3. QED
    BY <1>5, <2>1, <2>2
<1>15. QED
  BY <1>6, <1>7, <1>8, <1>9, <1>10, <1>11, <1>12, <1>13, <1>14 DEF TickStep

(* What is in order stays so while nobody touches it, for what is covered  *)
(* stays covered.                                                          *)
LEMMA OrderLasts ==
  ASSUME IInv, [Next]_vars, NEW t \in Ticks, tick' \in [Ticks -> Tick],
         PlanOrdered(tick'[t].plan), BlockedCovered(tick'[t].blocked),
         TodoOrdered(tick'[t].todo)
  PROVE  TickOrdered(t)'
<1> DEFINE plan == tick'[t].plan
           blocked == tick'[t].blocked
           todo == tick'[t].todo
<1>1. /\ DOMAIN plan \subseteq Issues /\ blocked \subseteq Issues /\ todo \subseteq Issues
  BY DEF Tick, Layering
<1>2. \A b \in Issues : Covered(b) => Covered(b)'
  BY CoveredStays
<1>3. \A i \in Issues : Deps[i] \subseteq Issues
  BY DepsAssumption
<1>4. /\ \A i \in DOMAIN plan : \A b \in Deps[i] :
           Covered(b)' \/ (b \in DOMAIN plan /\ plan[b] < plan[i])
      /\ \A b \in blocked : Covered(b)'
      /\ \A i \in todo : \A b \in Deps[i] : Covered(b)'
  BY <1>1, <1>2, <1>3 DEF PlanOrdered, BlockedCovered, TodoOrdered
<1>5. QED
  BY <1>4 DEF TickOrdered, PlanOrdered, BlockedCovered, TodoOrdered

(* A tick writes its own local variables only.                             *)
LEMMA OthersKept ==
  ASSUME TypeOK, NEW t \in Ticks, TickStep(t), NEW s \in Ticks, s # t
  PROVE  tick'[s] = tick[s]
<1>1. tick \in [Ticks -> Tick]
  BY DEF TypeOK
<1>2. ASSUME NEW step, Goto(t, step) PROVE tick'[s] = tick[s]
  BY <1>1, <1>2 DEF Goto
<1>3. ASSUME NEW p, NEW slots, NextReview(t, p, slots) PROVE tick'[s] = tick[s]
  BY <1>1, <1>3 DEF NextReview
<1>4. ASSUME NEW i, NextIssue(t, i) PROVE tick'[s] = tick[s]
  BY <1>1, <1>4 DEF NextIssue
<1>5. CASE PollOpen(t) \/ PollClosed(t) \/ Reconcile(t) \/ Load(t) \/ Decide(t)
  BY <1>1, <1>2, <1>5 DEF PollOpen, PollClosed, Reconcile, Load, Decide
<1>6. CASE UnlabelZombie(t) \/ FetchPRs(t)
  BY <1>1, <1>6 DEF UnlabelZombie, FetchPRs
<1>7. CASE ReviewComment(t) \/ ReviewLabel(t) \/ ReviewCommit(t)
  BY <1>2, <1>3, <1>7 DEF ReviewComment, ReviewLabel, ReviewCommit
<1>8. CASE IssueGet(t) \/ IssueComment(t) \/ IssueLabel(t) \/ IssueCommit(t)
  BY <1>2, <1>4, <1>8 DEF IssueGet, IssueComment, IssueLabel, IssueCommit
<1>9. QED
  BY <1>5, <1>6, <1>7, <1>8 DEF TickStep

(* Every step keeps the local variables of every tick in order.            *)
LEMMA TicksStayOrdered ==
  ASSUME IInv, TypeOK', [Next]_vars, RowsOrdered, \A t \in Ticks : TickOrdered(t),
         NEW s \in Ticks
  PROVE  TickOrdered(s)'
<1>0. TypeOK /\ tick \in [Ticks -> Tick] /\ tick' \in [Ticks -> Tick]
  BY DEF IInv, TypeOK
<1>1. CASE tick'[s] = tick[s]
  BY <1>0, <1>1, OrderLasts DEF TickOrdered
<1>2. CASE TickStep(s)
  BY <1>0, <1>2, TickMovesInOrder, OrderLasts
<1>3. CASE tick'[s] = IdleTick
  <2>1. DOMAIN IdleTick.plan = {} /\ IdleTick.blocked = {} /\ IdleTick.todo = {}
    BY DEF IdleTick
  <2>2. QED
    BY <1>3, <2>1 DEF TickOrdered, PlanOrdered, BlockedCovered, TodoOrdered
<1>4. ASSUME NEW t \in Ticks, Crash(t) \/ CrashInReconcile(t)
      PROVE  tick'[s] = tick[s] \/ tick'[s] = IdleTick
  BY <1>0, <1>4 DEF Crash, CrashInReconcile
<1>5. ASSUME NEW t \in Ticks, t # s, TickStep(t) PROVE tick'[s] = tick[s]
  BY <1>0, <1>5, OthersKept
<1>6. QED
  BY <1>1, <1>2, <1>3, <1>4, <1>5, TickWriters

-----------------------------------------------------------------------------
(* The order.                                                              *)

(* An engine that has planned nothing has nothing out of order.            *)
LEMMA OrderInit == Init => OrderInv
<1> SUFFICES ASSUME Init PROVE OrderInv
  OBVIOUS
<1>1. IInv
  BY InvInit
<1>2. \A i \in Issues : db.batch[i].status = "none"
  BY DEF Init, EmptyDb
<1>3. planner.pc = "idle"
  BY DEF Init, IdlePlanner
<1>4. ASSUME NEW t \in Ticks PROVE TickOrdered(t)
  <2>1. tick[t] = IdleTick
    BY DEF Init
  <2>2. DOMAIN IdleTick.plan = {} /\ IdleTick.blocked = {} /\ IdleTick.todo = {}
    BY DEF IdleTick
  <2>3. QED
    BY <2>1, <2>2 DEF TickOrdered, PlanOrdered, BlockedCovered, TodoOrdered
<1>5. QED
  BY <1>1, <1>2, <1>3, <1>4 DEF OrderInv, RowsOrdered, PlannerOrdered

(* The four copies of the layers stay in order.                            *)
LEMMA OrderStep == OrderInv /\ [Next]_vars => OrderInv'
<1> SUFFICES ASSUME OrderInv, [Next]_vars PROVE OrderInv'
  OBVIOUS
<1>1. IInv /\ RowsOrdered /\ PlannerOrdered /\ \A t \in Ticks : TickOrdered(t)
  BY DEF OrderInv
<1>2. IInv'
  BY <1>1, InvStep
<1>3. TypeOK'
  BY <1>2 DEF IInv
<1>4. RowsOrdered'
  BY <1>1, <1>3, RowsStayOrdered, CommitOrdersRows
<1>5. PlannerOrdered'
  BY <1>1, <1>3, PlannerStaysOrdered
<1>6. \A t \in Ticks : TickOrdered(t)'
  BY <1>1, <1>3, TicksStayOrdered
<1>7. QED
  BY <1>2, <1>4, <1>5, <1>6 DEF OrderInv

(* Only the comment of a tick starts a session, for an issue it chose.     *)
LEMMA SessionsStarted ==
  ASSUME TypeOK, [Next]_vars, NEW i \in Issues, sessions'[i] > sessions[i]
  PROVE  \E t \in Ticks : i \in tick[t].todo
<1>0. sessions \in [Issues -> Nat]
  BY DEF TypeOK
<1>1. ASSUME NEW t \in Ticks, IssueComment(t) PROVE i \in tick[t].todo
  <2>1. PICK j \in FirstOf(tick[t].todo, 1) :
          \/ sessions' = [sessions EXCEPT ![j] = @ + 1]
          \/ UNCHANGED sessions
    BY <1>1 DEF IssueComment
  <2>2. j \in tick[t].todo
    BY FirstOfSubset
  <2>3. ~ (sessions[i] > sessions[i])
    BY <1>0
  <2>4. QED
    BY <1>0, <2>1, <2>2, <2>3
<1>2. ASSUME UNCHANGED sessions PROVE FALSE
  BY <1>0, <1>2
<1>3. ASSUME NEW t \in Ticks, TickStep(t) \/ Crash(t) \/ CrashInReconcile(t)
      PROVE  UNCHANGED sessions \/ IssueComment(t)
  BY <1>3 DEF TickStep, PollOpen, PollClosed, Reconcile, UnlabelZombie, Load,
              FetchPRs, ReviewComment, ReviewLabel, ReviewCommit, Decide, IssueGet,
              IssueLabel, IssueCommit, Crash, CrashInReconcile, agents
<1>4. ASSUME Planner PROVE UNCHANGED sessions
  BY <1>4 DEF Planner, PlannerFetch, PlannerCommit, agents
<1>5. ASSUME Environment
      PROVE  UNCHANGED sessions \/ \E j \in Issues : AgentOpensPR(j) \/ AgentDies(j)
  BY <1>5 DEF Environment, HumanOpensPR, CloseIssue, SkipIssue, ReviewerVerdict,
              ReviewerDies, MergePR, ClosePR, ForceReview, Pause, Resume,
              SetOverride, RunAges, agents
<1>6. ASSUME NEW j \in Issues, AgentOpensPR(j) \/ AgentDies(j) PROVE FALSE
  <2>1. sessions[j] > 0 /\ sessions' = [sessions EXCEPT ![j] = @ - 1]
    BY <1>6 DEF AgentOpensPR, AgentDies
  <2>2. QED
    BY <1>0, <2>1
<1>7. QED
  BY <1>1, <1>2, <1>3, <1>4, <1>5, <1>6 DEF Next, vars, agents

(* No session starts for an issue while one of its blockers waits in the   *)
(* plan with nobody at work on it, unless an attempt at the blocker has    *)
(* failed: for any dependencies and any number of overlapping ticks and    *)
(* planner runs, with crashes, failing requests and commits, people who    *)
(* close issues and PRs, and operators who skip and review.                *)
THEOREM DependenciesOrdered == Spec => OvertakesOnlyFailedAttempts
<1>1. OrderInv /\ [Next]_vars =>
        [\A i \in Issues :
           sessions'[i] > sessions[i] =>
             \A b \in Deps[i] : Waiting(b) => AttemptFailed(b)]_vars
  <2> SUFFICES ASSUME OrderInv, [Next]_vars, NEW i \in Issues,
                      sessions'[i] > sessions[i],
                      NEW b \in Deps[i], Waiting(b)
               PROVE  AttemptFailed(b)
    OBVIOUS
  <2>1. TypeOK
    BY DEF OrderInv, IInv
  <2>2. PICK t \in Ticks : i \in tick[t].todo
    BY <2>1, SessionsStarted
  <2>3. Covered(b)
    BY <2>2 DEF OrderInv, TickOrdered, TodoOrdered
  <2>4. b \in Issues
    BY DepsAssumption
  <2>5. QED
    BY <2>1, <2>3, <2>4 DEF Covered, Waiting, Gone, TypeOK
<1>2. QED
  BY <1>1, OrderInit, OrderStep, PTL DEF Spec, OvertakesOnlyFailedAttempts


-----------------------------------------------------------------------------
(* The sessions at work, while the requests, the commits and the one tick  *)
(* that runs do not fail, every result is noticed within its hour, nobody  *)
(* but the agents opens PRs or merges them unreviewed, a PR closes one     *)
(* issue, and either no PR is closed unmerged or no review is forced.      *)

Smooth ==
  /\ Upsets \cap {"api", "db", "crash", "late", "human"} = {}
  /\ "pr_closed" \notin Upsets \/ "force_review" \notin Upsets

Single(S) == \A i, j \in S : i = j

(* A PR that was opened, and one that a reviewer is at work on or has been,*)
(* for all GitHub shows.                                                   *)
Live(p) == pr[p].state # "none"

Reviewed(p) == pr[p].state = "merged" \/ pr[p].review # "none" \/ reviewing[p] > 0

(* The tick has started a session that it has not recorded yet.            *)
Asked(t, p) ==
  /\ tick[t].pc \in {"review_label", "review_commit"}
  /\ p \in LastOf(tick[t].review, 1)

Started(t, i) ==
  /\ tick[t].pc \in {"issue_label", "issue_commit"}
  /\ i \in FirstOf(tick[t].todo, 1)

(* A session that is recorded and counted.                                 *)
ReviewRuns(d, p) == QueuedFor(d, "reviewer", p) \cap Active(d)

InHand(i) ==
  db.batch[i].status = "in_progress" /\ db.batch[i].run \in Active(db)

Pends(i) == db.batch[i].status = "pending"

(* The database knows the PR of the issue: nothing gives the batch up.     *)
Known(i) ==
  \/ db.batch[i].status = "merged"
  \/ db.batch[i].status = "in_progress" /\ db.batch[i].pr_number = "set"

Seen(S) == {x.pr : x \in S}

(* A PR closed unmerged between two polls, which no poll has seen: it does  *)
(* not matter any more.                                                    *)
Dropped(t, p) ==
  /\ pr[p].state = "closed" /\ ~ Reviewed(p)
  /\ p \notin recent \cup tick[t].review \cup Seen(tick[t].open \cup tick[t].closed)

(* What a tick knows of a PR, however long ago it was fetched, is still    *)
(* true of it.                                                             *)
PRFits(t, p) ==
  /\ pr[p].state = "closed" => "force_review" \notin Upsets
  /\ Single(pr[p].closes)
  /\ p \in recent \cup tick[t].review \cup Seen(tick[t].open \cup tick[t].closed)
       => Live(p)
  /\ p \in tick[t].review => p \in OpenPRs \cup recent

(* A pollback that has the verdict on a PR, or will fetch it, completes a  *)
(* run of the PR's if it is the first.                                     *)
Judged(seen, p) == \E x \in seen : x.pr = p /\ x.review \in Verdicts

Noticed(t, p) ==
  \/ tick[t].pc = "poll_closed" /\ Judged(tick[t].open, p)
  \/ tick[t].pc = "reconcile" /\ Judged(tick[t].open \cup tick[t].closed, p)

ToNotice(p) == p \in OpenPRs \cup recent /\ pr[p].review \in Verdicts

(* The reviewers at work are recorded, but for one that is about to be,    *)
(* and there is a run to spare for a first verdict.                        *)
ReviewerFits(t, p) ==
  /\ reviewing[p] > 0 => Live(p)
  /\ reviewing[p] + (IF ToNotice(p) /\ p \notin db.reviewed THEN 1 ELSE 0)
       <= Cardinality(ReviewRuns(db, p)) + (IF Asked(t, p) THEN 1 ELSE 0)
  /\ reviewing[p] > 0 /\ Noticed(t, p) /\ p \notin db.reviewed
       => reviewing[p] < Cardinality(ReviewRuns(db, p))

(* So is an implementer, and what a tick means to dispatch is not under    *)
(* way.                                                                    *)
WorkFits(t, i) ==
  /\ sessions[i] <= 1
  /\ sessions[i] > 0 => Started(t, i) \/ InHand(i)
  /\ i \in tick[t].todo => Pends(i)
  /\ tick[t].pc \notin DispatchSteps /\ i \in DOMAIN tick[t].plan \ tick[t].blocked
       => Pends(i)

(* An issue with a PR has no session, keeps its slot until the database    *)
(* knows the PR, and no pollback moves the cursor past a PR that it does   *)
(* not know: one that is reviewed when the closed PRs are fetched was      *)
(* fetched among the open ones or is fetched now.                          *)
DeliveryFits(t, p, i) ==
  /\ sessions[i] = 0
  /\ Known(i) \/ InHand(i) \/ (Pends(i) /\ Started(t, i) /\ ~ Reviewed(p))
  /\ pr[p].state \in {"merged", "closed"} => p \in recent \/ Known(i)
  /\ tick[t].pc = "poll_closed" /\ Reviewed(p)
       => p \in recent \cup Seen(tick[t].open) \/ Known(i)
  /\ tick[t].pc = "reconcile" /\ Reviewed(p)
       => p \in Seen(tick[t].open \cup tick[t].closed) \/ Known(i)

SessionInv(t) ==
  /\ \A p \in PRs : PRFits(t, p) /\ ReviewerFits(t, p)
  /\ \A i \in Issues : WorkFits(t, i)
  /\ \A p \in PRs : Live(p) /\ ~ Dropped(t, p) =>
       \A i \in pr[p].closes : DeliveryFits(t, p, i)

(* What can happen while everything goes smoothly.                         *)
LEMMA SmoothSteps ==
  ASSUME NEW t, Ticks = {t}, Smooth, [Next]_vars
  PROVE  \/ TickStep(t)
         \/ PlannerCommit
         \/ \E i \in Issues : AgentOpensPR(i) \/ AgentDies(i)
         \/ \E p \in PRs : \/ ReviewerVerdict(p) \/ ReviewerDies(p)
                           \/ MergePR(p) /\ pr[p].review = "approved"
                           \/ ClosePR(p)
                           \/ ForceReview(p) /\ "force_review" \in Upsets
         \/ \E k \in DOMAIN db.runs : RunAges(k) /\ ~ Awaited(db.runs[k])
         \/ UNCHANGED <<db, recent, pr, sessions, reviewing, tick>>
<1>1. /\ ~ Upset("api") /\ ~ Upset("db") /\ ~ Upset("crash") /\ ~ Upset("late")
      /\ ~ Upset("human")
  BY DEF Smooth, Upset
<1>2. ~ Crash(t) /\ ~ CrashInReconcile(t)
  BY <1>1 DEF Crash, CrashInReconcile
<1>3. ASSUME Planner
      PROVE  PlannerCommit \/ UNCHANGED <<db, recent, pr, sessions, reviewing, tick>>
  BY <1>3 DEF Planner, PlannerFetch, github, agents
<1>4. ASSUME NEW i \in Issues, HumanOpensPR(i) \/ CloseIssue(i) \/ SkipIssue(i)
      PROVE  UNCHANGED <<db, recent, pr, sessions, reviewing, tick>>
  BY <1>1, <1>4 DEF HumanOpensPR, CloseIssue, SkipIssue, agents
<1>5. ASSUME NEW p \in PRs, ForceReview(p) PROVE "force_review" \in Upsets
  BY <1>5 DEF ForceReview, Upset
<1>6. ASSUME NEW p \in PRs, MergePR(p) PROVE pr[p].review = "approved"
  BY <1>1, <1>6 DEF MergePR
<1>7. ASSUME NEW k \in DOMAIN db.runs, RunAges(k) PROVE ~ Awaited(db.runs[k])
  BY <1>1, <1>7 DEF RunAges
<1>8. ASSUME Pause \/ Resume \/ SetOverride
      PROVE  UNCHANGED <<db, recent, pr, sessions, reviewing, tick>>
  BY <1>8 DEF Pause, Resume, SetOverride, github, agents
<1>9. ASSUME UNCHANGED vars PROVE UNCHANGED <<db, recent, pr, sessions, reviewing, tick>>
  BY <1>9 DEF vars, github, agents
<1>10. QED
  BY <1>2, <1>3, <1>4, <1>5, <1>6, <1>7, <1>8, <1>9 DEF Next, Environment

(* A PR has finitely many runs to count.                                   *)
LEMMA ReviewRunsFinite ==
  ASSUME NEW d \in Db, NEW p
  PROVE  IsFiniteSet(ReviewRuns(d, p)) /\ Cardinality(ReviewRuns(d, p)) \in Nat
<1>1. IsFiniteSet(Active(d)) /\ ReviewRuns(d, p) \in SUBSET Active(d)
  BY ActiveFinite DEF ReviewRuns
<1>2. QED
  BY <1>1, FS_Subset, FS_CardinalityType

(* What is asked of the reviewers of a PR holds as long as none starts and *)
(* no run leaves the count.                                                *)
LEMMA ReviewersKept ==
  ASSUME TypeOK, db' \in Db, NEW t, NEW p \in PRs, ReviewerFits(t, p),
         reviewing'[p] = reviewing[p], Live(p) => Live(p)',
         p \in db.reviewed => p \in db'.reviewed,
         ToNotice(p)' => ToNotice(p),
         Noticed(t, p)' => Noticed(t, p) \/ (ToNotice(p) /\ ~ Asked(t, p)),
         Asked(t, p) => Asked(t, p)',
         ReviewRuns(db, p) \subseteq ReviewRuns(db', p)
  PROVE  ReviewerFits(t, p)'
<1> DEFINE owed  == IF ToNotice(p) /\ p \notin db.reviewed THEN 1 ELSE 0
           asked == IF Asked(t, p) THEN 1 ELSE 0
           runs  == Cardinality(ReviewRuns(db, p))
           later == Cardinality(ReviewRuns(db', p))
<1>1. runs \in Nat /\ later \in Nat /\ runs <= later
  <2>1. runs \in Nat /\ later \in Nat /\ IsFiniteSet(ReviewRuns(db', p))
    BY ReviewRunsFinite DEF TypeOK
  <2>2. QED
    BY <2>1, FS_Subset
<1>2. owed \in {0, 1} /\ owed' \in {0, 1} /\ owed' <= owed
  OBVIOUS
<1>3. asked \in {0, 1} /\ asked' \in {0, 1} /\ asked <= asked'
  OBVIOUS
<1>4. reviewing[p] \in Nat /\ reviewing[p] + owed <= runs + asked
  BY DEF TypeOK, ReviewerFits
<1>5. reviewing[p] > 0 /\ Noticed(t, p)' /\ p \notin db'.reviewed => reviewing[p] < runs
  <2>1. CASE Noticed(t, p)
    BY <2>1 DEF ReviewerFits
  <2>2. CASE ToNotice(p) /\ ~ Asked(t, p)
    <3>1. p \notin db'.reviewed => owed = 1 /\ asked = 0
      BY <2>2
    <3> HIDE DEF owed, asked, runs
    <3>2. QED
      BY <1>1, <1>4, <3>1
  <2>3. QED
    BY <2>1, <2>2
<1> HIDE DEF owed, asked, runs, later
<1>6. reviewing'[p] + owed' <= later + asked'
  BY <1>1, <1>2, <1>3, <1>4
<1>7. reviewing'[p] > 0 /\ Noticed(t, p)' /\ p \notin db'.reviewed => reviewing'[p] < later
  BY <1>1, <1>4, <1>5
<1>8. reviewing'[p] > 0 => Live(p)'
  BY DEF ReviewerFits
<1>9. QED
  BY <1>6, <1>7, <1>8 DEF ReviewerFits, owed, asked, later

(* A PR that nobody reviews, and that has no verdict to notice, fits.       *)
LEMMA NoReviewers ==
  ASSUME db' \in Db, NEW t, NEW p \in PRs, reviewing'[p] = 0,
         ~ ToNotice(p)' \/ p \in db'.reviewed
  PROVE  ReviewerFits(t, p)'
<1> DEFINE asked == IF Asked(t, p) THEN 1 ELSE 0
<1>1. Cardinality(ReviewRuns(db', p)) \in Nat
  BY ReviewRunsFinite
<1>2. asked' \in Nat
  OBVIOUS
<1>3. 0 <= Cardinality(ReviewRuns(db', p)) + asked'
  <2> HIDE DEF asked
  <2>1. QED
    BY <1>1, <1>2
<1>4. QED
  BY <1>3 DEF ReviewerFits

(* A step of the database alone that gives up no slot somebody needs.      *)
LEMMA DbStep ==
  ASSUME NEW t, SessionInv(t), UNCHANGED <<recent, pr, sessions, reviewing, tick>>,
         \A i \in Issues : /\ Known(i) => Known(i)'
                           /\ Pends(i) => Pends(i)'
                           /\ InHand(i) => \/ InHand(i)'
                                           \/ /\ sessions[i] = 0
                                              /\ \A p \in PRs :
                                                   (Live(p) /\ ~ Dropped(t, p)
                                                    /\ i \in pr[p].closes)
                                                      => Known(i)',
         \A p \in PRs : ReviewerFits(t, p)',
         \A p \in PRs : pr[p].closes \subseteq Issues,
         \A i \in Issues : sessions[i] \in Nat
  PROVE  SessionInv(t)'
<1>1. ASSUME NEW p \in PRs PROVE PRFits(t, p)'
  BY DEF SessionInv, PRFits, Live, OpenPRs
<1>3. ASSUME NEW i \in Issues PROVE WorkFits(t, i)'
  BY DEF SessionInv, WorkFits, Started
<1>4. ASSUME NEW p \in PRs, Live(p), ~ Dropped(t, p), NEW i \in pr[p].closes
      PROVE  DeliveryFits(t, p, i)'
  <2>1. i \in Issues /\ DeliveryFits(t, p, i)
    BY <1>4 DEF SessionInv
  <2>2. Started(t, i)' = Started(t, i) /\ Reviewed(p)' = Reviewed(p)
    BY DEF Started, Reviewed
  <2>3. QED
    BY <1>4, <2>1, <2>2 DEF DeliveryFits
<1>5. \A p : Dropped(t, p)' = Dropped(t, p) /\ Live(p)' = Live(p)
  BY DEF Dropped, Reviewed, Seen, Live
<1>6. QED
  BY <1>1, <1>3, <1>4, <1>5 DEF SessionInv

(* A tick that starts nothing and records nothing: what it then holds it   *)
(* held before, or found in the step.                                      *)
Recording == {"review_label", "review_commit", "issue_label", "issue_commit"}

Found(S) == {p \in S : pr[p].review = "none"}

Fresh(new) ==
  /\ DOMAIN new.plan \ new.blocked \subseteq {i \in Issues : Pends(i)}
  /\ new.todo = {} /\ new.review = {} /\ new.open = {} /\ new.closed = {}

Holds(local, new) ==
  /\ new.todo \subseteq local.todo
  /\ DOMAIN new.plan = DOMAIN local.plan /\ local.blocked \subseteq new.blocked

LocalStep(t) ==
  /\ UNCHANGED <<db, recent, pr, sessions, reviewing>>
  /\ tick[t].pc \notin Recording /\ tick'[t].pc \notin Recording
  /\ \/ Fresh(tick'[t]) /\ tick'[t].pc \notin {"poll_closed", "reconcile"}
     \/ /\ tick'[t].todo \subseteq DOMAIN tick[t].plan \ tick[t].blocked
        /\ tick[t].pc \notin DispatchSteps /\ tick'[t].pc \in DispatchSteps
        /\ tick'[t].review = {} /\ tick'[t].open = {} /\ tick'[t].closed = {}
     \/ /\ Holds(tick[t], tick'[t])
        /\ (tick[t].pc \in DispatchSteps) = (tick'[t].pc \in DispatchSteps)
        /\ \/ tick'[t].review = tick[t].review
           \/ tick'[t].review \subseteq Found(OpenPRs)
        /\ \/ /\ tick'[t].open = tick[t].open /\ tick'[t].closed = tick[t].closed
              /\ tick'[t].pc \notin {"poll_closed", "reconcile"}
           \/ /\ tick'[t].open = Fetch(OpenPRs) /\ tick'[t].closed = tick[t].closed
              /\ tick'[t].pc = "poll_closed"
           \/ /\ tick'[t].open = tick[t].open /\ tick'[t].closed = Fetch(recent)
              /\ tick[t].pc = "poll_closed" /\ tick'[t].pc = "reconcile"

(* A tick that starts afresh has nothing in its local variables.           *)
LEMMA FreshIdle ==
  ASSUME NEW step, NEW new, new = [IdleTick EXCEPT !.pc = step]
  PROVE  Fresh(new) /\ new.pc = step
<1>1. /\ new.pc = step /\ DOMAIN new.plan = {}
      /\ new.todo = {} /\ new.review = {} /\ new.open = {} /\ new.closed = {}
  BY DEF IdleTick
<1>2. QED
  BY <1>1 DEF Fresh

(* Seven steps of a tick only read: what they leave is what they read.     *)
LEMMA LocalSteps ==
  ASSUME TypeOK, NEW t \in Ticks,
         \/ PollOpen(t) \/ PollClosed(t) \/ UnlabelZombie(t) \/ Load(t)
         \/ FetchPRs(t) \/ Decide(t) \/ IssueGet(t)
  PROVE  LocalStep(t)
<1> DEFINE local == tick[t]
           new   == tick'[t]
<1>0. /\ tick \in [Ticks -> Tick] /\ local \in Tick
      /\ \A step \in {"idle", "load", "fetch_prs", "decide", "review_comment", "unlabel",
                      "poll_closed", "reconcile"} :
           step \notin Recording /\ step \notin DispatchSteps
      /\ \A step \in {"issue_get", "issue_comment"} :
           step \notin Recording /\ step \in DispatchSteps
  BY DEF TypeOK, Recording, DispatchSteps
<1>1. UNCHANGED <<db, recent, pr, sessions, reviewing>>
  BY DEF PollOpen, PollClosed, UnlabelZombie, Load, FetchPRs, Decide, IssueGet, github, agents
<1>2. IdleTick = [IdleTick EXCEPT !.pc = "idle"]
  BY DEF IdleTick
<1>3. ASSUME NEW step, step \notin {"poll_closed", "reconcile"}, step \notin Recording,
             local.pc \notin Recording, new = [IdleTick EXCEPT !.pc = step]
      PROVE  LocalStep(t)
  <2>1. Fresh(new) /\ new.pc = step
    BY <1>3, FreshIdle
  <2>2. QED
    BY <1>1, <1>3, <2>1 DEF LocalStep
<1>4. ASSUME NEW step, step \notin {"poll_closed", "reconcile"}, step \notin Recording,
             local.pc \notin Recording,
             (local.pc \in DispatchSteps) = (step \in DispatchSteps), Goto(t, step)
      PROVE  LocalStep(t)
  <2>1. new = [local EXCEPT !.pc = step]
    BY <1>0, <1>4 DEF Goto
  <2>2. /\ new.pc = step /\ new.plan = local.plan /\ new.todo = local.todo
        /\ new.blocked = local.blocked /\ new.review = local.review
        /\ new.open = local.open /\ new.closed = local.closed
    BY <1>0, <2>1 DEF Tick
  <2>3. QED
    BY <1>1, <1>4, <2>2 DEF LocalStep, Holds
<1>6. CASE PollOpen(t)
  <2>1. local.pc = "idle"
    BY <1>6 DEF PollOpen
  <2>2. CASE tick' = [tick EXCEPT ![t].pc = "poll_closed", ![t].open = Fetch(OpenPRs)]
    <3> DEFINE open == Fetch(OpenPRs)
    <3>1. new = [local EXCEPT !.pc = "poll_closed", !.open = open]
      BY <1>0, <2>2
    <3> HIDE DEF open
    <3>2. /\ new.pc = "poll_closed" /\ new.plan = local.plan /\ new.todo = local.todo
          /\ new.blocked = local.blocked /\ new.review = local.review
          /\ new.open = open /\ new.closed = local.closed
      BY <1>0, <3>1 DEF Tick
    <3>3. QED
      BY <1>0, <1>1, <2>1, <3>2 DEF LocalStep, Holds, open
  <2>3. CASE Goto(t, "load")
    BY <1>0, <1>4, <2>1, <2>3
  <2>4. QED
    BY <1>6, <2>2, <2>3 DEF PollOpen
<1>7. CASE PollClosed(t)
  <2>1. local.pc = "poll_closed"
    BY <1>7 DEF PollClosed
  <2>2. CASE tick' = [tick EXCEPT ![t].pc = "reconcile", ![t].closed = Fetch(recent)]
    <3> DEFINE closed == Fetch(recent)
    <3>1. new = [local EXCEPT !.pc = "reconcile", !.closed = closed]
      BY <1>0, <2>2
    <3> HIDE DEF closed
    <3>2. /\ new.pc = "reconcile" /\ new.plan = local.plan /\ new.todo = local.todo
          /\ new.blocked = local.blocked /\ new.review = local.review
          /\ new.open = local.open /\ new.closed = closed
      BY <1>0, <3>1 DEF Tick
    <3>3. QED
      BY <1>0, <1>1, <2>1, <3>2 DEF LocalStep, Holds, closed
  <2>3. CASE tick' = [tick EXCEPT ![t] = [IdleTick EXCEPT !.pc = "load"]]
    <3>1. new = [IdleTick EXCEPT !.pc = "load"]
      BY <1>0, <2>3
    <3>2. QED
      BY <1>0, <1>3, <2>1, <3>1
  <2>4. QED
    BY <1>7, <2>2, <2>3 DEF PollClosed
<1>9. CASE UnlabelZombie(t)
  <2>0. local.pc = "unlabel"
    BY <1>9 DEF UnlabelZombie
  <2>1. PICK i \in FirstOf(local.zombies, 1) :
          tick' = [tick EXCEPT
                     ![t].zombies = @ \ {i},
                     ![t].pc = IF local.zombies = {i} THEN "load" ELSE @]
    BY <1>9 DEF UnlabelZombie
  <2> DEFINE step == IF local.zombies = {i} THEN "load" ELSE local.pc
             left == local.zombies \ {i}
  <2>2. new = [local EXCEPT !.zombies = left, !.pc = step]
    BY <1>0, <2>1
  <2>3. step \in {"load", "unlabel"}
    BY <2>0
  <2> HIDE DEF step, left
  <2>4. /\ new.pc = step /\ new.plan = local.plan /\ new.todo = local.todo
        /\ new.blocked = local.blocked /\ new.review = local.review
        /\ new.open = local.open /\ new.closed = local.closed
    BY <1>0, <2>2 DEF Tick
  <2>5. QED
    BY <1>0, <1>1, <2>0, <2>3, <2>4 DEF LocalStep, Holds
<1>10. CASE Load(t)
  <2> DEFINE plan == load_batch_snapshot(db)
             blocked == WithStatus(db, "in_progress")
             slots == FreeSlots(db)
             r == [IdleTick EXCEPT !.pc = "fetch_prs", !.plan = plan,
                                   !.blocked = blocked, !.slots = slots]
  <2>0. local.pc = "load"
    BY <1>10 DEF Load
  <2>1. new = IdleTick \/ new = r
    BY <1>0, <1>10 DEF Load
  <2>2. DOMAIN plan \ blocked \subseteq {i \in Issues : Pends(i)}
    BY DEF load_batch_snapshot, WithStatus, Pends
  <2> HIDE DEF plan, blocked, slots
  <2>3. /\ r.plan = plan /\ r.blocked = blocked /\ r.pc = "fetch_prs"
        /\ r.todo = {} /\ r.review = {} /\ r.open = {} /\ r.closed = {}
    BY DEF IdleTick
  <2> HIDE DEF r
  <2>4. CASE new = r
    BY <1>0, <1>1, <2>0, <2>2, <2>3, <2>4 DEF LocalStep, Fresh
  <2>5. QED
    BY <1>0, <1>2, <1>3, <2>0, <2>1, <2>4
<1>11. CASE FetchPRs(t)
  <2>0. local.pc = "fetch_prs"
    BY <1>11 DEF FetchPRs
  <2>1. PICK prs \in {OpenPRs, {}} :
          LET review == LastOf({p \in prs : pr[p].review = "none"}, local.slots) IN
          tick' = [tick EXCEPT
                     ![t].blocked = @ \cup UNION {pr[p].closes : p \in prs},
                     ![t].review = review,
                     ![t].pc = IF review = {} THEN "decide" ELSE "review_comment"]
    BY <1>11 DEF FetchPRs
  <2> DEFINE review == LastOf({p \in prs : pr[p].review = "none"}, local.slots)
             blocked == local.blocked \cup UNION {pr[p].closes : p \in prs}
             step   == IF review = {} THEN "decide" ELSE "review_comment"
  <2>2. new = [local EXCEPT !.blocked = blocked, !.review = review, !.pc = step]
    BY <1>0, <2>1
  <2>3. review \subseteq Found(OpenPRs)
    BY LastOfSubset DEF Found
  <2>4. local.blocked \subseteq blocked /\ step \in {"decide", "review_comment"}
    OBVIOUS
  <2> HIDE DEF review, step, blocked
  <2>5. /\ new.pc = step /\ new.plan = local.plan /\ new.todo = local.todo
        /\ new.blocked = blocked /\ new.review = review
        /\ new.open = local.open /\ new.closed = local.closed
    BY <1>0, <2>2 DEF Tick
  <2>6. QED
    BY <1>0, <1>1, <2>0, <2>3, <2>4, <2>5 DEF LocalStep, Holds
<1>13. CASE Decide(t)
  <2> DEFINE todo == Batches(t)
  <2>0. local.pc = "decide"
    BY <1>13 DEF Decide
  <2>1. new = IdleTick \/ new = [IdleTick EXCEPT !.pc = "issue_get", !.todo = todo]
    BY <1>0, <1>13 DEF Decide
  <2>2. todo \subseteq DOMAIN local.plan \ local.blocked
    BY FirstOfSubset DEF Batches, next_executable_batch
  <2> HIDE DEF todo
  <2>3. CASE new = [IdleTick EXCEPT !.pc = "issue_get", !.todo = todo]
    <3>1. /\ new.pc = "issue_get" /\ new.todo = todo
          /\ new.review = {} /\ new.open = {} /\ new.closed = {}
      BY <2>3 DEF IdleTick
    <3>2. QED
      BY <1>0, <1>1, <2>0, <2>2, <3>1 DEF LocalStep
  <2>4. QED
    BY <1>0, <1>2, <1>3, <2>0, <2>1, <2>3
<1>14. CASE IssueGet(t)
  <2>0. local.pc = "issue_get"
    BY <1>14 DEF IssueGet
  <2>1. Goto(t, "issue_comment") \/ \E i : NextIssue(t, i)
    BY <1>14 DEF IssueGet
  <2>2. ASSUME NEW i, NextIssue(t, i) PROVE LocalStep(t)
    <3> DEFINE left == local.todo \ {i}
    <3>1. new = IdleTick \/ new = [local EXCEPT !.pc = "issue_get", !.todo = left]
      BY <1>0, <2>2 DEF NextIssue
    <3>2. left \subseteq local.todo
      OBVIOUS
    <3> HIDE DEF left
    <3>3. CASE new = [local EXCEPT !.pc = "issue_get", !.todo = left]
      <4>1. /\ new.pc = "issue_get" /\ new.plan = local.plan /\ new.todo = left
            /\ new.blocked = local.blocked /\ new.review = local.review
            /\ new.open = local.open /\ new.closed = local.closed
        BY <1>0, <3>3 DEF Tick
      <4>2. QED
        BY <1>0, <1>1, <2>0, <3>2, <4>1 DEF LocalStep, Holds
    <3>4. QED
      BY <1>0, <1>2, <1>3, <2>0, <3>1, <3>3
  <2>3. QED
    BY <1>0, <1>4, <2>0, <2>1, <2>2
<1>15. QED
  BY <1>6, <1>7, <1>9, <1>10, <1>11, <1>13, <1>14

(* The PRs of what a fetch returns are the PRs that it asked for.          *)
LEMMA FetchedIsSeen ==
  ASSUME NEW S, NEW p \in S PROVE p \in Seen(Fetch(S))
<1> DEFINE x == [pr |-> p, review |-> pr[p].review]
<1>1. x \in Fetch(S) /\ x.pr = p
  BY DEF Fetch
<1> HIDE DEF x
<1>2. QED
  BY <1>1 DEF Seen

(* What is read, at the time it is read, fits: the PRs that still have no  *)
(* label, the batches still pending, and the PRs, open or closed, that the *)
(* cursor has not passed.                                                  *)
LEMMA LocalStepFits ==
  ASSUME TypeOK, NEW t \in Ticks, SessionInv(t), LocalStep(t)
  PROVE  SessionInv(t)'
<1> DEFINE local == tick[t]
           new   == tick'[t]
<1>0. /\ UNCHANGED <<db, recent, pr, sessions, reviewing>>
      /\ local.pc \notin Recording /\ new.pc \notin Recording
  BY DEF LocalStep
<1>1. /\ \A i : ~ Started(t, i) /\ ~ Started(t, i)'
      /\ \A p : ~ Asked(t, p) /\ ~ Asked(t, p)'
  BY <1>0 DEF Started, Asked, Recording
<1>2. /\ new.review \subseteq local.review \/ new.review \subseteq Found(OpenPRs)
      /\ new.open \in {local.open, {}, Fetch(OpenPRs)}
      /\ new.closed \in {local.closed, {}, Fetch(recent)}
  BY DEF LocalStep, Fresh, Holds
<1>3. ASSUME NEW p \in PRs PROVE PRFits(t, p)'
  <2>1. PRFits(t, p)
    BY DEF SessionInv
  <2>2. OpenPRs' = OpenPRs /\ (p \in OpenPRs => Live(p))
    BY <1>0 DEF OpenPRs, Live
  <2>3. ASSUME NEW x \in new.open \cup new.closed, x.pr = p
        PROVE  \/ x \in local.open \cup local.closed
               \/ x.review = pr[p].review /\ p \in OpenPRs \cup recent
    BY <1>2, <2>3 DEF Fetch
  <2>4. p \in recent \cup new.review \cup Seen(new.open \cup new.closed) => Live(p)
    BY <1>2, <2>1, <2>2, <2>3 DEF PRFits, Seen, Found
  <2>5. p \in new.review => p \in OpenPRs \cup recent
    BY <1>2, <2>1 DEF PRFits, Found
  <2>6. QED
    BY <1>0, <2>1, <2>2, <2>4, <2>5 DEF PRFits, Live
<1>4. ASSUME NEW p \in PRs PROVE ReviewerFits(t, p)'
  <2>1. ReviewerFits(t, p) /\ db' \in Db
    BY <1>0 DEF SessionInv, TypeOK
  <2>2. /\ ReviewRuns(db, p) = ReviewRuns(db', p) /\ Live(p)' = Live(p)
        /\ ToNotice(p)' = ToNotice(p)
    BY <1>0 DEF Live, ToNotice, OpenPRs
  <2>3. ASSUME NEW S, Judged(Fetch(S), p) PROVE p \in S /\ pr[p].review \in Verdicts
    BY <2>3 DEF Judged, Fetch
  <2>4. Judged(new.open, p) /\ new.pc = "poll_closed" => ToNotice(p)
    <3>1. new.pc = "poll_closed" => new.open = Fetch(OpenPRs)
      BY DEF LocalStep, DispatchSteps
    <3>2. QED
      BY <2>3, <3>1 DEF ToNotice
  <2>5. Judged(new.open \cup new.closed, p) /\ new.pc = "reconcile"
          => Noticed(t, p) \/ ToNotice(p)
    <3>1. new.pc = "reconcile" =>
            local.pc = "poll_closed" /\ new.open = local.open /\ new.closed = Fetch(recent)
      BY DEF LocalStep, DispatchSteps
    <3>2. Judged(new.open \cup new.closed, p) => Judged(new.open, p) \/ Judged(new.closed, p)
      BY DEF Judged
    <3>3. QED
      BY <2>3, <3>1, <3>2 DEF ToNotice, Noticed
  <2>6. Noticed(t, p)' => Noticed(t, p) \/ ToNotice(p)
    BY <2>4, <2>5 DEF Noticed
  <2>7. QED
    BY <1>0, <1>1, <2>1, <2>2, <2>6, ReviewersKept
<1>5. ASSUME NEW i \in Issues PROVE WorkFits(t, i)'
  <2>1. WorkFits(t, i)
    BY DEF SessionInv
  <2>2. Pends(i)' = Pends(i) /\ InHand(i)' = InHand(i)
    BY <1>0 DEF Pends, InHand
  <2>3. i \in new.todo => Pends(i)
    BY <2>1 DEF LocalStep, Fresh, Holds, WorkFits
  <2>4. new.pc \notin DispatchSteps /\ i \in DOMAIN new.plan \ new.blocked => Pends(i)
    BY <2>1 DEF LocalStep, Fresh, Holds, WorkFits
  <2>5. QED
    BY <1>0, <1>1, <2>1, <2>2, <2>3, <2>4 DEF WorkFits
<1>6. ASSUME NEW p \in PRs, Live(p), ~ Dropped(t, p), NEW i \in pr[p].closes
      PROVE  DeliveryFits(t, p, i)'
  <2>1. DeliveryFits(t, p, i) /\ PRFits(t, p)
    BY <1>6 DEF SessionInv
  <2>2. /\ Pends(i)' = Pends(i) /\ InHand(i)' = InHand(i) /\ Known(i)' = Known(i)
        /\ Reviewed(p)' = Reviewed(p)
    BY <1>0 DEF Pends, InHand, Known, Reviewed
  <2>3. pr[p].state \in {"open", "merged", "closed"}
    BY <1>6 DEF TypeOK, Live
  <2>4. new.pc = "poll_closed" => p \in recent \cup Seen(new.open) \/ Known(i)
    <3>1. new.pc = "poll_closed" => new.open = Fetch(OpenPRs)
      BY DEF LocalStep, DispatchSteps
    <3>2. p \in OpenPRs => p \in Seen(Fetch(OpenPRs))
      BY FetchedIsSeen
    <3>3. QED
      BY <2>1, <2>3, <3>1, <3>2 DEF DeliveryFits, OpenPRs
  <2>5. new.pc = "reconcile" /\ Reviewed(p) => p \in Seen(new.open \cup new.closed) \/ Known(i)
    <3>1. new.pc = "reconcile" =>
            local.pc = "poll_closed" /\ new.open = local.open /\ new.closed = Fetch(recent)
      BY DEF LocalStep, DispatchSteps
    <3>2. p \in recent => p \in Seen(Fetch(recent))
      BY FetchedIsSeen
    <3>3. QED
      BY <2>1, <3>1, <3>2 DEF DeliveryFits, Seen
  <2>6. QED
    BY <1>0, <1>1, <2>1, <2>2, <2>4, <2>5 DEF DeliveryFits
<1>7. ASSUME NEW p \in PRs, Dropped(t, p) PROVE Dropped(t, p)'
  <2>1. ASSUME NEW x \in new.open \cup new.closed PROVE x.pr # p
    BY <1>2, <1>7, <2>1 DEF Dropped, Seen, Fetch, OpenPRs
  <2>2. p \notin new.review
    BY <1>2, <1>7 DEF Dropped, Found, OpenPRs
  <2>3. QED
    BY <1>0, <1>7, <2>1, <2>2 DEF Dropped, Seen, Reviewed
<1>8. QED
  BY <1>0, <1>3, <1>4, <1>5, <1>6, <1>7 DEF SessionInv, Live

(* A planner run touches no batch that is under way.                       *)
LEMMA PlannerFits ==
  ASSUME IInv, NEW t \in Ticks, SessionInv(t), PlannerCommit
  PROVE  SessionInv(t)'
<1>0. /\ TypeOK /\ DbInv(db)
      /\ \A p \in PRs : pr[p].closes \subseteq Issues
      /\ \A i \in Issues : sessions[i] \in Nat
  BY DEF IInv, TypeOK
<1>1. UNCHANGED <<recent, pr, sessions, reviewing, tick>>
  BY DEF PlannerCommit, github, agents
<1>2. /\ db'.runs = db.runs
      /\ \A i \in Issues : db'.batch[i] = db.batch[i] \/ Replanned(db, db', i)
  <2>1. db' = upsert_batches(db, planner.layer) /\ planner.layer \in Layering
    BY <1>0 DEF PlannerCommit, TypeOK
  <2>2. QED
    BY <1>0, <2>1, BatchesUpserted
<1>3. Active(db') = Active(db)
  BY <1>2 DEF Active, Queued
<1>4. ASSUME NEW i \in Issues
      PROVE  /\ Known(i) => Known(i)'
             /\ Pends(i) => Pends(i)'
             /\ InHand(i) => InHand(i)'
  BY <1>2, <1>3 DEF Replanned, Known, Pends, InHand
<1>5. ASSUME NEW p \in PRs PROVE ReviewerFits(t, p)'
  <2>1. /\ ReviewRuns(db', p) = ReviewRuns(db, p)
        /\ Live(p)' = Live(p) /\ ToNotice(p)' = ToNotice(p)
        /\ Asked(t, p)' = Asked(t, p) /\ Noticed(t, p)' = Noticed(t, p)
    BY <1>1, <1>2, <1>3 DEF ReviewRuns, QueuedFor, Queued, Live, ToNotice, OpenPRs, Asked, Noticed
  <2>2. db' \in Db /\ db'.reviewed = db.reviewed
    <3>1. db' = upsert_batches(db, planner.layer) /\ planner.layer \in Layering
      BY <1>0 DEF PlannerCommit, TypeOK
    <3>2. DbInv(db')
      BY <1>0, <3>1, BatchesUpserted
    <3>3. QED
      BY <1>0, <3>1, <3>2 DEF upsert_batches, DbInv, Db
  <2>3. QED
    BY <1>0, <1>1, <2>1, <2>2, ReviewersKept DEF SessionInv
<1>6. QED
  BY <1>0, <1>1, <1>4, <1>5, DbStep

(* No slot is given up while somebody is at work or a PR has to be noticed.*)
LEMMA AgingFits ==
  ASSUME IInv, NEW t \in Ticks, SessionInv(t),
         NEW k \in DOMAIN db.runs, RunAges(k), ~ Awaited(db.runs[k])
  PROVE  SessionInv(t)'
<1>0. /\ TypeOK /\ DbInv(db) /\ db \in Db
      /\ \A p \in PRs : pr[p].closes \subseteq Issues
      /\ \A i \in Issues : sessions[i] \in Nat
  BY DEF IInv, TypeOK
<1>1. /\ UNCHANGED <<recent, pr, sessions, reviewing, tick>>
      /\ db' = [db EXCEPT !.runs[k].age = "stale"]
  BY DEF RunAges, github, agents
<1>2. db'.batch = db.batch /\ RunsKept(db, db')
  BY <1>0, <1>1, AgedRun
<1>3. ASSUME NEW j \in Active(db), j # k
      PROVE  j \in Active(db') /\ db'.runs[j] = db.runs[j]
  <2>1. j \in DOMAIN db.runs /\ db.runs[j].status = "queued" /\ db.runs[j].age = "fresh"
    BY DEF Active, Queued
  <2>2. db'.runs[j] = db.runs[j]
    <3>1. db'.runs = [db.runs EXCEPT ![k].age = "stale"]
      BY <1>0, <1>1 DEF Db
    <3>2. QED
      BY <1>3, <2>1, <3>1
  <2>3. j \in DOMAIN db'.runs
    BY <1>2, <2>1 DEF RunsKept
  <2>4. QED
    BY <2>1, <2>2, <2>3 DEF Active, Queued
<1>4. ASSUME NEW i \in Issues, InHand(i), ~ InHand(i)'
      PROVE  /\ sessions[i] = 0
             /\ \A p \in PRs : Live(p) /\ ~ Dropped(t, p) /\ i \in pr[p].closes => Known(i)'
  <2>1. db.batch[i].status = "in_progress" /\ db.batch[i].run = k
    BY <1>2, <1>3, <1>4 DEF InHand
  <2>2. db.runs[k].agent = "implementer" /\ db.runs[k].on = i
    BY <1>0, <2>1 DEF DbInv
  <2>3. ~ (sessions[i] > 0) /\ \A p \in OpenPRs \cup recent : i \notin pr[p].closes
    BY <2>2 DEF Awaited
  <2>4. ASSUME NEW p \in PRs, Live(p), ~ Dropped(t, p), i \in pr[p].closes PROVE Known(i)
    <3>1. DeliveryFits(t, p, i)
      BY <2>4 DEF SessionInv
    <3>2. pr[p].state \in {"merged", "closed"}
      BY <1>0, <2>3, <2>4 DEF Live, OpenPRs, TypeOK
    <3>3. QED
      BY <2>3, <2>4, <3>1, <3>2 DEF DeliveryFits
  <2>5. Known(i) => Known(i)'
    BY <1>2 DEF Known
  <2>6. QED
    BY <1>0, <2>3, <2>4, <2>5
<1>5. ASSUME NEW p \in PRs PROVE ReviewerFits(t, p)'
  <2>1. ReviewerFits(t, p) /\ db' \in Db /\ db'.reviewed = db.reviewed
    <3>1. DbInv(db')
      BY <1>0, <1>1, AgedRun
    <3>2. QED
      BY <1>0, <1>1, <3>1 DEF SessionInv, DbInv, Db
  <2>2. /\ Live(p)' = Live(p) /\ ToNotice(p)' = ToNotice(p)
        /\ Asked(t, p)' = Asked(t, p) /\ Noticed(t, p)' = Noticed(t, p)
    BY <1>1 DEF Live, ToNotice, OpenPRs, Asked, Noticed
  <2>3. CASE k \notin ReviewRuns(db, p)
    <3>1. ReviewRuns(db, p) \subseteq ReviewRuns(db', p)
      BY <1>3, <2>3 DEF ReviewRuns, QueuedFor, Active
    <3>2. QED
      BY <1>0, <1>1, <2>1, <2>2, <3>1, ReviewersKept
  <2>4. CASE k \in ReviewRuns(db, p)
    <3>1. db.runs[k].agent = "reviewer" /\ db.runs[k].on = p
      BY <2>4 DEF ReviewRuns, QueuedFor
    <3>2. ~ (reviewing[p] > 0) /\ ~ (ToNotice(p) /\ p \notin db.reviewed)
      BY <3>1 DEF Awaited, ToNotice
    <3>3. reviewing[p] = 0 /\ reviewing'[p] = 0
      BY <1>0, <1>1, <3>2 DEF TypeOK
    <3>4. QED
      BY <2>1, <2>2, <3>2, <3>3, NoReviewers
  <2>5. QED
    BY <2>3, <2>4
<1>6. \A i \in Issues : (Known(i) => Known(i)') /\ (Pends(i) => Pends(i)')
  BY <1>2 DEF Known, Pends
<1>7. QED
  BY <1>0, <1>1, <1>4, <1>5, <1>6, DbStep

-----------------------------------------------------------------------------
(* Agents and GitHub.                                                      *)

(* What depends on the database and the tick alone.                        *)
LEMMA OutsideStep ==
  ASSUME UNCHANGED <<db, tick>>, NEW t
  PROVE  /\ \A i : /\ Known(i)' = Known(i) /\ Pends(i)' = Pends(i)
                   /\ InHand(i)' = InHand(i) /\ Started(t, i)' = Started(t, i)
         /\ \A p : Noticed(t, p)' = Noticed(t, p) /\ Asked(t, p)' = Asked(t, p)
<1>1. ASSUME NEW i
      PROVE  /\ Known(i)' = Known(i) /\ Pends(i)' = Pends(i)
             /\ InHand(i)' = InHand(i) /\ Started(t, i)' = Started(t, i)
  BY DEF Known, Pends, InHand, Started
<1>2. ASSUME NEW p PROVE Noticed(t, p)' = Noticed(t, p) /\ Asked(t, p)' = Asked(t, p)
  BY DEF Noticed, Asked
<1>3. QED
  BY <1>1, <1>2

(* A session that dies leaves its run to age; nothing else counts on it.   *)
LEMMA AgentDiesFits ==
  ASSUME TypeOK, NEW t \in Ticks, SessionInv(t), NEW i \in Issues, AgentDies(i)
  PROVE  SessionInv(t)'
<1>0. sessions \in [Issues -> Nat] /\ \A p \in PRs : pr[p].closes \subseteq Issues
  BY DEF TypeOK
<1>1. /\ UNCHANGED <<db, recent, pr, reviewing, tick>> /\ sessions[i] > 0
      /\ sessions' = [sessions EXCEPT ![i] = @ - 1]
  BY DEF AgentDies, github
<1>2. \A j \in Issues :
        /\ sessions'[j] = IF j = i THEN sessions[i] - 1 ELSE sessions[j]
        /\ sessions[j] \in Nat
  BY <1>0, <1>1
<1>3. /\ \A j : /\ Known(j)' = Known(j) /\ Pends(j)' = Pends(j)
                /\ InHand(j)' = InHand(j) /\ Started(t, j)' = Started(t, j)
      /\ \A p : Noticed(t, p)' = Noticed(t, p) /\ Asked(t, p)' = Asked(t, p)
  BY <1>1, OutsideStep
<1>4. ASSUME NEW p \in PRs PROVE PRFits(t, p)' /\ ReviewerFits(t, p)'
  <2>1. PRFits(t, p)'
    BY <1>1 DEF SessionInv, PRFits, Live, OpenPRs
  <2>2. Live(p)' = Live(p) /\ ToNotice(p)' = ToNotice(p) /\ db' \in Db
    BY <1>1 DEF Live, ToNotice, OpenPRs, TypeOK
  <2>3. ReviewerFits(t, p)'
    BY <1>1, <1>3, <2>2, ReviewersKept DEF SessionInv
  <2>4. QED
    BY <2>1, <2>3
<1>5. ASSUME NEW j \in Issues PROVE WorkFits(t, j)'
  <2>1. WorkFits(t, j)
    BY DEF SessionInv
  <2>2. sessions'[j] <= 1 /\ (sessions'[j] > 0 => sessions[j] > 0)
    BY <1>1, <1>2, <2>1 DEF WorkFits
  <2>3. QED
    BY <1>1, <1>3, <2>1, <2>2 DEF WorkFits
<1>6. ASSUME NEW p \in PRs, Live(p), ~ Dropped(t, p), NEW j \in pr[p].closes
      PROVE  DeliveryFits(t, p, j)'
  <2>1. DeliveryFits(t, p, j) /\ j \in Issues
    BY <1>0, <1>6 DEF SessionInv
  <2>2. sessions'[j] = 0
    BY <1>1, <1>2, <2>1 DEF DeliveryFits
  <2>3. Reviewed(p)' = Reviewed(p)
    BY <1>1 DEF Reviewed
  <2>4. QED
    BY <1>1, <1>3, <2>1, <2>2, <2>3 DEF DeliveryFits
<1>7. \A p : Dropped(t, p)' = Dropped(t, p) /\ Live(p)' = Live(p)
  BY <1>1 DEF Dropped, Reviewed, Seen, Live
<1>8. QED
  BY <1>1, <1>4, <1>5, <1>6, <1>7 DEF SessionInv

(* A session ends with its PR, and the PR takes over the slot.             *)
LEMMA AgentOpensPRFits ==
  ASSUME TypeOK, \A c \in ClosingSets : Single(c),
         NEW t \in Ticks, SessionInv(t), NEW i \in Issues, AgentOpensPR(i)
  PROVE  SessionInv(t)'
<1>0. /\ sessions \in [Issues -> Nat] /\ reviewing \in [PRs -> Nat]
      /\ pr \in [PRs -> [state : {"none", "open", "merged", "closed"},
                         closes : SUBSET Issues, review : Reviews]]
  BY DEF TypeOK
<1>1. /\ UNCHANGED <<db, recent, reviewing, tick>> /\ sessions[i] > 0
      /\ sessions' = [sessions EXCEPT ![i] = @ - 1]
      /\ OpenPR(i)
  BY DEF AgentOpensPR
<1>2. PICK p \in PRs, c \in ClosingSets :
        /\ ~ Live(p) /\ i \in c
        /\ pr' = [pr EXCEPT ![p] = [state |-> "open", closes |-> c, review |-> "none"]]
  <2>1. FirstOf({q \in PRs : pr[q].state = "none"}, 1) \subseteq {q \in PRs : ~ Live(q)}
    BY FirstOfSubset DEF Live
  <2>2. QED
    BY <1>1, <2>1 DEF OpenPR
<1>3. /\ pr'[p].state = "open" /\ pr'[p].closes = c /\ pr'[p].review = "none"
      /\ \A q \in PRs : q # p => pr'[q] = pr[q]
      /\ c = {i}
  <2>1. c = {i}
    BY <1>2 DEF Single
  <2>2. QED
    BY <1>0, <1>2, <2>1
<1>4. \A j \in Issues :
        /\ sessions'[j] = IF j = i THEN sessions[i] - 1 ELSE sessions[j]
        /\ sessions[j] \in Nat
  BY <1>0, <1>1
<1>5. /\ \A j : /\ Known(j)' = Known(j) /\ Pends(j)' = Pends(j)
                /\ InHand(j)' = InHand(j) /\ Started(t, j)' = Started(t, j)
      /\ \A q : Noticed(t, q)' = Noticed(t, q) /\ Asked(t, q)' = Asked(t, q)
  BY <1>1, OutsideStep
<1>6. PRFits(t, p) /\ ReviewerFits(t, p) /\ WorkFits(t, i)
  BY DEF SessionInv
<1>7. /\ p \notin recent \cup tick[t].review \cup Seen(tick[t].open \cup tick[t].closed)
      /\ reviewing[p] = 0
  BY <1>0, <1>2, <1>6 DEF PRFits, ReviewerFits
<1>8. PRFits(t, p)' /\ ReviewerFits(t, p)'
  <2>1. PRFits(t, p)'
    BY <1>1, <1>3, <1>7 DEF PRFits, Single, Live
  <2>2. ~ ToNotice(p)' /\ db' \in Db /\ reviewing'[p] = 0
    BY <1>1, <1>3, <1>7 DEF ToNotice, Verdicts, TypeOK
  <2>3. QED
    BY <2>1, <2>2, NoReviewers
<1>9. ASSUME NEW q \in PRs, q # p PROVE PRFits(t, q)' /\ ReviewerFits(t, q)'
  <2>1. pr'[q] = pr[q]
    BY <1>3, <1>9
  <2>2. /\ (q \in OpenPRs)' = (q \in OpenPRs)
        /\ Live(q)' = Live(q) /\ ToNotice(q)' = ToNotice(q) /\ db' \in Db
    BY <1>1, <2>1 DEF Live, ToNotice, OpenPRs, TypeOK
  <2>3. PRFits(t, q)'
    BY <1>1, <2>1, <2>2 DEF SessionInv, PRFits
  <2>4. ReviewerFits(t, q)'
    BY <1>1, <1>5, <2>2, ReviewersKept DEF SessionInv
  <2>5. QED
    BY <2>3, <2>4
<1>10. ASSUME NEW j \in Issues PROVE WorkFits(t, j)'
  <2>1. WorkFits(t, j)
    BY DEF SessionInv
  <2>2. sessions'[j] <= 1 /\ (sessions'[j] > 0 => sessions[j] > 0)
    BY <1>1, <1>4, <2>1 DEF WorkFits
  <2>3. QED
    BY <1>1, <1>5, <2>1, <2>2 DEF WorkFits
<1>11. DeliveryFits(t, p, i)'
  <2>1. sessions'[i] = 0
    BY <1>1, <1>4, <1>6 DEF WorkFits
  <2>2. ~ Reviewed(p)'
    BY <1>1, <1>3, <1>7 DEF Reviewed
  <2>3. InHand(i) \/ (Pends(i) /\ Started(t, i))
    BY <1>1, <1>6, FirstOfSubset DEF WorkFits, Started
  <2>4. QED
    BY <1>3, <1>5, <2>1, <2>2, <2>3 DEF DeliveryFits
<1>12. ASSUME NEW q \in PRs, q # p, Live(q), ~ Dropped(t, q), NEW j \in pr[q].closes
       PROVE  DeliveryFits(t, q, j)'
  <2>1. DeliveryFits(t, q, j) /\ j \in Issues
    BY <1>0, <1>12 DEF SessionInv
  <2>2. sessions'[j] = 0
    BY <1>1, <1>4, <2>1 DEF DeliveryFits
  <2>3. Reviewed(q)' = Reviewed(q) /\ pr'[q] = pr[q]
    BY <1>1, <1>3, <1>12 DEF Reviewed
  <2>4. QED
    BY <1>1, <1>5, <2>1, <2>2, <2>3 DEF DeliveryFits
<1>13. ASSUME NEW q \in PRs, q # p
       PROVE  Dropped(t, q)' = Dropped(t, q) /\ Live(q)' = Live(q) /\ pr'[q] = pr[q]
  BY <1>1, <1>3, <1>13 DEF Dropped, Reviewed, Seen, Live
<1>14. QED
  BY <1>3, <1>8, <1>9, <1>10, <1>11, <1>12, <1>13 DEF SessionInv

(* A reviewer ends, with a verdict or without, and nobody else is at work  *)
(* on its PR.                                                              *)
LEMMA ReviewerLeavesFits ==
  ASSUME TypeOK, NEW t \in Ticks, SessionInv(t), NEW p \in PRs,
         ReviewerDies(p) \/ ReviewerVerdict(p)
  PROVE  SessionInv(t)'
<1>0. /\ reviewing \in [PRs -> Nat] /\ \A q \in PRs : pr[q].closes \subseteq Issues
      /\ pr \in [PRs -> [state : {"none", "open", "merged", "closed"},
                         closes : SUBSET Issues, review : Reviews]]
  BY DEF TypeOK
<1>1. /\ UNCHANGED <<db, sessions, tick>> /\ reviewing[p] > 0
      /\ reviewing' = [reviewing EXCEPT ![p] = @ - 1]
  BY DEF ReviewerDies, ReviewerVerdict, github
<1>2. PRFits(t, p) /\ ReviewerFits(t, p)
  BY DEF SessionInv
<1>3. /\ reviewing'[p] = reviewing[p] - 1 /\ reviewing[p] \in Nat
      /\ \A q \in PRs : q # p => reviewing'[q] = reviewing[q]
  BY <1>0, <1>1
<1>4. Live(p) /\ Reviewed(p)
  BY <1>1, <1>2 DEF ReviewerFits, Reviewed
<1>5. /\ recent \subseteq recent' /\ recent' \subseteq recent \cup {p}
      /\ \A q \in PRs : q # p => pr'[q] = pr[q]
      /\ pr'[p].state = pr[p].state /\ pr'[p].closes = pr[p].closes
  <2>1. CASE ReviewerDies(p)
    BY <2>1 DEF ReviewerDies, github
  <2>2. CASE ReviewerVerdict(p)
    <3>1. PICK v \in Verdicts : UpdatePR(p, [pr[p] EXCEPT !.review = v])
      BY <2>2 DEF ReviewerVerdict, Verdicts
    <3> DEFINE new == [pr[p] EXCEPT !.review = v]
    <3>2. new.state = pr[p].state /\ new.closes = pr[p].closes
      BY <1>0
    <3>3. pr' = [pr EXCEPT ![p] = new] /\ recent' \in {recent, recent \cup {p}}
      BY <3>1 DEF UpdatePR
    <3> HIDE DEF new
    <3>4. QED
      BY <1>0, <3>2, <3>3
  <2>3. QED
    BY <2>1, <2>2
<1>6. /\ \A j : /\ Known(j)' = Known(j) /\ Pends(j)' = Pends(j)
                /\ InHand(j)' = InHand(j) /\ Started(t, j)' = Started(t, j)
      /\ \A q : Noticed(t, q)' = Noticed(t, q) /\ Asked(t, q)' = Asked(t, q)
  BY <1>1, OutsideStep
<1>7. ASSUME NEW q \in PRs PROVE PRFits(t, q)'
  <2>1. /\ pr'[q].state = pr[q].state /\ pr'[q].closes = pr[q].closes
        /\ Live(q)' = Live(q) /\ (q \in OpenPRs)' = (q \in OpenPRs)
    BY <1>5 DEF Live, OpenPRs
  <2>2. q \in recent' => Live(q)
    BY <1>4, <1>5 DEF SessionInv, PRFits
  <2>3. QED
    BY <1>1, <1>5, <2>1, <2>2 DEF SessionInv, PRFits
<1>8. ASSUME NEW q \in PRs PROVE ReviewerFits(t, q)'
  <2>1. CASE q # p
    <3>1. /\ ToNotice(q)' = ToNotice(q) /\ Live(q)' = Live(q)
          /\ reviewing'[q] = reviewing[q] /\ db' \in Db
      BY <1>1, <1>3, <1>5, <2>1 DEF ToNotice, OpenPRs, Live, TypeOK
    <3>2. QED
      BY <1>1, <1>6, <3>1, ReviewersKept DEF SessionInv
  <2>2. CASE q = p
    <3> DEFINE owed  == IF ToNotice(p) /\ p \notin db.reviewed THEN 1 ELSE 0
               asked == IF Asked(t, p) THEN 1 ELSE 0
               runs  == Cardinality(ReviewRuns(db, p))
    <3>1. runs \in Nat
      BY ReviewRunsFinite DEF TypeOK
    <3>2. /\ owed \in {0, 1} /\ owed' \in {0, 1} /\ asked \in {0, 1} /\ asked' = asked
          /\ reviewing[p] + owed <= runs + asked /\ runs' = runs
          /\ reviewing[p] > 0 /\ Noticed(t, p) /\ p \notin db.reviewed => reviewing[p] < runs
      BY <1>1, <1>2, <1>6 DEF ReviewerFits
    <3> HIDE DEF owed, asked, runs
    <3>3. reviewing'[p] + owed' <= runs' + asked'
      BY <1>1, <1>3, <3>1, <3>2
    <3>4. reviewing'[p] > 0 /\ Noticed(t, p)' /\ p \notin db'.reviewed => reviewing'[p] < runs'
      BY <1>1, <1>3, <1>6, <3>1, <3>2
    <3>5. Live(p)'
      BY <1>4, <1>5 DEF Live
    <3>6. QED
      BY <2>2, <3>3, <3>4, <3>5 DEF ReviewerFits, owed, asked, runs
  <2>3. QED
    BY <2>1, <2>2
<1>9. ASSUME NEW j \in Issues PROVE WorkFits(t, j)'
  BY <1>1, <1>6 DEF SessionInv, WorkFits
<1>10. \A q \in PRs : /\ Live(q)' = Live(q) /\ pr'[q].state = pr[q].state
                      /\ pr'[q].closes = pr[q].closes /\ (Reviewed(q)' => Reviewed(q))
  BY <1>3, <1>4, <1>5 DEF Live, Reviewed
<1>11. ASSUME NEW q \in PRs, Live(q), ~ Dropped(t, q), NEW j \in pr[q].closes
       PROVE  DeliveryFits(t, q, j)'
  <2>1. DeliveryFits(t, q, j)
    BY <1>11 DEF SessionInv
  <2>2. QED
    BY <1>1, <1>5, <1>6, <1>10, <2>1 DEF DeliveryFits
<1>12. \A q \in PRs : Dropped(t, q) => Dropped(t, q)'
  BY <1>1, <1>4, <1>5, <1>10 DEF Dropped, Seen
<1>13. QED
  BY <1>7, <1>8, <1>9, <1>10, <1>11, <1>12 DEF SessionInv

(* A PR that is merged or closed comes to the front of the closed ones,    *)
(* where the next pollback finds it.                                       *)
LEMMA EndFits ==
  ASSUME TypeOK, Smooth, NEW t \in Ticks, SessionInv(t), NEW p \in PRs,
         \/ MergePR(p) /\ pr[p].review = "approved"
         \/ ClosePR(p)
  PROVE  SessionInv(t)'
<1>0. /\ pr \in [PRs -> [state : {"none", "open", "merged", "closed"},
                         closes : SUBSET Issues, review : Reviews]]
  BY DEF TypeOK
<1>1. /\ UNCHANGED <<db, sessions, reviewing, tick>> /\ pr[p].state = "open"
      /\ \E state \in {"merged", "closed"} :
           /\ UpdatePR(p, [pr[p] EXCEPT !.state = state])
           /\ state = "merged" => pr[p].review = "approved"
           /\ state = "closed" => "force_review" \notin Upsets
  BY DEF MergePR, ClosePR, agents, Smooth, Upset
<1>2. /\ recent' = recent \cup {p} /\ \A q \in PRs : q # p => pr'[q] = pr[q]
      /\ pr'[p].state \in {"merged", "closed"} /\ pr'[p].closes = pr[p].closes
      /\ pr'[p].review = pr[p].review
      /\ pr'[p].state = "merged" => pr[p].review = "approved"
      /\ pr'[p].state = "closed" => "force_review" \notin Upsets
  <2>1. PICK state \in {"merged", "closed"} :
          /\ UpdatePR(p, [pr[p] EXCEPT !.state = state])
          /\ state = "merged" => pr[p].review = "approved"
          /\ state = "closed" => "force_review" \notin Upsets
    BY <1>1
  <2> DEFINE new == [pr[p] EXCEPT !.state = state]
  <2>2. new.state = state /\ new.closes = pr[p].closes /\ new.review = pr[p].review
    BY <1>0
  <2>3. pr' = [pr EXCEPT ![p] = new] /\ recent' = recent \cup {p}
    BY <2>1, <2>2 DEF UpdatePR
  <2> HIDE DEF new
  <2>4. QED
    BY <1>0, <2>1, <2>2, <2>3
<1>3. /\ \A j : /\ Known(j)' = Known(j) /\ Pends(j)' = Pends(j)
                /\ InHand(j)' = InHand(j) /\ Started(t, j)' = Started(t, j)
      /\ \A q : Noticed(t, q)' = Noticed(t, q) /\ Asked(t, q)' = Asked(t, q)
  BY <1>1, OutsideStep
<1>4. \A q \in PRs : /\ Live(q)' = Live(q) /\ pr'[q].review = pr[q].review
                     /\ pr'[q].closes = pr[q].closes /\ Reviewed(q)' = Reviewed(q)
                     /\ pr'[q].state = pr[q].state \/ q = p
                     /\ (q \in OpenPRs \cup recent)' = (q \in OpenPRs \cup recent)
  BY <1>1, <1>2 DEF Live, Reviewed, OpenPRs
<1>5. ASSUME NEW q \in PRs PROVE PRFits(t, q)' /\ ReviewerFits(t, q)'
  <2>1. PRFits(t, q) /\ ReviewerFits(t, q)
    BY DEF SessionInv
  <2>2. q \in recent' => Live(q)
    BY <1>1, <1>2, <2>1 DEF PRFits, Live
  <2>3. PRFits(t, q)'
    BY <1>1, <1>2, <1>4, <2>1, <2>2 DEF PRFits
  <2>4. ToNotice(q)' = ToNotice(q) /\ db' \in Db
    BY <1>1, <1>4 DEF ToNotice, TypeOK
  <2>5. ReviewerFits(t, q)'
    BY <1>1, <1>3, <1>4, <2>1, <2>4, ReviewersKept
  <2>6. QED
    BY <2>3, <2>5
<1>6. ASSUME NEW j \in Issues PROVE WorkFits(t, j)'
  BY <1>1, <1>3 DEF SessionInv, WorkFits
<1>7. ASSUME NEW q \in PRs, Live(q), ~ Dropped(t, q), NEW j \in pr[q].closes
      PROVE  DeliveryFits(t, q, j)'
  <2>1. DeliveryFits(t, q, j)
    BY <1>7 DEF SessionInv
  <2>2. QED
    BY <1>1, <1>2, <1>3, <1>4, <2>1 DEF DeliveryFits
<1>8. \A q \in PRs : Dropped(t, q) => Dropped(t, q)'
  BY <1>1, <1>2, <1>4 DEF Dropped, Seen
<1>9. QED
  BY <1>4, <1>5, <1>6, <1>7, <1>8 DEF SessionInv

(* A forced review takes the verdict off: nobody starts or leaves, and one *)
(* verdict less has to be noticed.                                         *)
LEMMA ForceFits ==
  ASSUME TypeOK, NEW t \in Ticks, SessionInv(t), NEW p \in PRs, ForceReview(p),
         "force_review" \in Upsets
  PROVE  SessionInv(t)'
<1>0. /\ pr \in [PRs -> [state : {"none", "open", "merged", "closed"},
                         closes : SUBSET Issues, review : Reviews]]
  BY DEF TypeOK
<1>1. /\ UNCHANGED <<db, sessions, reviewing, tick>> /\ Live(p)
      /\ UpdatePR(p, [pr[p] EXCEPT !.review = "none"])
  BY DEF ForceReview, agents, Live
<1>2. /\ recent \subseteq recent' /\ recent' \subseteq recent \cup {p}
      /\ \A q \in PRs : q # p => pr'[q] = pr[q]
      /\ pr'[p].state = pr[p].state /\ pr'[p].closes = pr[p].closes
      /\ pr'[p].review = "none"
  <2> DEFINE new == [pr[p] EXCEPT !.review = "none"]
  <2>1. new.state = pr[p].state /\ new.closes = pr[p].closes /\ new.review = "none"
    BY <1>0
  <2>2. pr' = [pr EXCEPT ![p] = new] /\ recent' \in {recent, recent \cup {p}}
    BY <1>1 DEF UpdatePR
  <2> HIDE DEF new
  <2>3. QED
    BY <1>0, <2>1, <2>2
<1>3. /\ \A j : /\ Known(j)' = Known(j) /\ Pends(j)' = Pends(j)
                /\ InHand(j)' = InHand(j) /\ Started(t, j)' = Started(t, j)
      /\ \A q : Noticed(t, q)' = Noticed(t, q) /\ Asked(t, q)' = Asked(t, q)
  BY <1>1, OutsideStep
<1>4. \A q \in PRs : /\ Live(q)' = Live(q) /\ pr'[q].state = pr[q].state
                     /\ pr'[q].closes = pr[q].closes /\ (Reviewed(q)' => Reviewed(q))
                     /\ (q \in OpenPRs)' = (q \in OpenPRs)
                     /\ (ToNotice(q)' => ToNotice(q))
  BY <1>1, <1>2 DEF Live, Reviewed, OpenPRs, ToNotice, Verdicts
<1>5. ASSUME NEW q \in PRs PROVE PRFits(t, q)' /\ ReviewerFits(t, q)'
  <2>1. PRFits(t, q) /\ ReviewerFits(t, q) /\ db' \in Db
    BY <1>1 DEF SessionInv, TypeOK
  <2>2. q \in recent' => Live(q)
    BY <1>1, <1>2, <2>1 DEF PRFits
  <2>3. PRFits(t, q)'
    BY <1>1, <1>2, <1>4, <2>1, <2>2 DEF PRFits
  <2>4. ReviewerFits(t, q)'
    BY <1>1, <1>3, <1>4, <2>1, ReviewersKept
  <2>5. QED
    BY <2>3, <2>4
<1>6. ASSUME NEW j \in Issues PROVE WorkFits(t, j)'
  BY <1>1, <1>3 DEF SessionInv, WorkFits
<1>7. ASSUME NEW q \in PRs, Live(q), ~ Dropped(t, q), NEW j \in pr[q].closes
      PROVE  DeliveryFits(t, q, j)'
  <2>1. DeliveryFits(t, q, j)
    BY <1>7 DEF SessionInv
  <2>2. QED
    BY <1>1, <1>2, <1>3, <1>4, <2>1 DEF DeliveryFits
<1>8. \A q \in PRs : ~ Dropped(t, q)
  BY DEF SessionInv, PRFits, Dropped
<1>9. QED
  BY <1>4, <1>5, <1>6, <1>7, <1>8 DEF SessionInv

-----------------------------------------------------------------------------
(* The steps of a tick that start and record sessions.                     *)

(* A slice of one has one member at most.                                  *)
LEMMA LastIsUnique ==
  ASSUME NEW S \in SUBSET Nat, IsFiniteSet(S),
         NEW p \in LastOf(S, 1), NEW q \in LastOf(S, 1)
  PROVE  p = q
<1> DEFINE T == LastOf(S, 1)
<1>1. IsFiniteSet(T) /\ Cardinality(T) <= 1 /\ p \in T /\ q \in T
  BY LastOfCardinality
<1> HIDE DEF T
<1>2. SUFFICES ASSUME p # q PROVE FALSE
  OBVIOUS
<1>3. IsFiniteSet(T \ {p}) /\ Cardinality(T \ {p}) = Cardinality(T) - 1
  BY <1>1, FS_RemoveElement
<1>4. IsFiniteSet((T \ {p}) \ {q}) /\ Cardinality((T \ {p}) \ {q}) = Cardinality(T \ {p}) - 1
  BY <1>1, <1>2, <1>3, FS_RemoveElement
<1>5. Cardinality(T) \in Nat /\ Cardinality((T \ {p}) \ {q}) \in Nat
  BY <1>1, <1>4, FS_CardinalityType
<1>6. QED
  BY <1>1, <1>3, <1>4, <1>5

(* A step of the reviewer pass leaves everything else the tick holds.      *)
LEMMA ReviewMoves ==
  ASSUME TypeOK, NEW t \in Ticks,
         \/ \E step : Goto(t, step)
         \/ \E p, slots : NextReview(t, p, slots)
  PROVE  /\ tick'[t].plan = tick[t].plan /\ tick'[t].blocked = tick[t].blocked
         /\ tick'[t].todo = tick[t].todo
         /\ tick'[t].open = tick[t].open /\ tick'[t].closed = tick[t].closed
<1> DEFINE local == tick[t]
           new   == tick'[t]
<1>0. tick \in [Ticks -> Tick] /\ local \in Tick
  BY DEF TypeOK
<1>1. CASE \E step : Goto(t, step)
  <2>1. PICK step : new = [local EXCEPT !.pc = step]
    BY <1>0, <1>1 DEF Goto
  <2>2. QED
    BY <1>0, <2>1 DEF Tick
<1>2. CASE \E p, slots : NextReview(t, p, slots)
  <2>1. PICK p, slots : NextReview(t, p, slots)
    BY <1>2
  <2> DEFINE step == IF local.review = {p} THEN "decide" ELSE "review_comment"
             left == local.review \ {p}
  <2>2. new = [local EXCEPT !.review = left, !.slots = slots, !.pc = step]
    BY <1>0, <2>1 DEF NextReview
  <2> HIDE DEF step, left
  <2>3. QED
    BY <1>0, <2>2 DEF Tick
<1>3. QED
  BY <1>1, <1>2

(* create_run occupies one slot more.                                      *)
LEMMA RunCreated ==
  ASSUME NEW d \in Db, NEW agent \in {"implementer", "reviewer"}, NEW on \in Nat,
         NEW e, e = create_run(d, agent, on)
  PROVE  /\ e \in Db /\ e.batch = d.batch /\ e.reviewed = d.reviewed
         /\ \A k \in Active(d) : k \in Active(e) /\ e.runs[k] = d.runs[k]
         /\ Len(d.runs) + 1 \in Active(e) \ Active(d)
         /\ e.runs[Len(d.runs) + 1].agent = agent /\ e.runs[Len(d.runs) + 1].on = on
<1> DEFINE n == Len(d.runs) + 1
<1>1. /\ e \in Db /\ e.batch = d.batch /\ e.reviewed = d.reviewed /\ n \notin DOMAIN d.runs
      /\ DOMAIN e.runs = DOMAIN d.runs \cup {n}
      /\ \A k \in DOMAIN d.runs : e.runs[k] = d.runs[k]
      /\ e.runs[n] = [agent |-> agent, on |-> on, status |-> "queued", age |-> "fresh"]
  BY CreateRunFacts
<1>2. /\ e.runs[n].agent = agent /\ e.runs[n].on = on
      /\ e.runs[n].status = "queued" /\ e.runs[n].age = "fresh"
  BY <1>1
<1> HIDE DEF n
<1>3. \A k \in Active(d) : k \in Active(e) /\ e.runs[k] = d.runs[k]
  BY <1>1 DEF Active, Queued
<1>4. n \in Active(e) \ Active(d)
  BY <1>1, <1>2 DEF Active, Queued
<1>5. QED
  BY <1>1, <1>2, <1>3, <1>4 DEF n

(* The reviewer pass touches no issue.                                     *)
LEMMA ReviewPassFits ==
  ASSUME TypeOK, NEW t \in Ticks, SessionInv(t),
         tick[t].pc \in ReviewSteps, tick'[t].pc \in ReviewSteps \cup {"decide"},
         \/ \E step : Goto(t, step)
         \/ \E p, slots : NextReview(t, p, slots),
         tick'[t].review \subseteq tick[t].review,
         UNCHANGED sessions,
         \A i \in Issues : /\ Known(i) => Known(i)'
                           /\ Pends(i) => Pends(i)'
                           /\ InHand(i) => InHand(i)',
         recent \subseteq recent',
         \A p \in PRs : p \in recent' => p \in recent \/ p \in tick[t].review,
         \A p \in PRs :
           /\ pr'[p].state = pr[p].state /\ pr'[p].closes = pr[p].closes
           /\ Reviewed(p)' => Reviewed(p) \/ p \in tick[t].review
           /\ ReviewerFits(t, p)'
  PROVE  SessionInv(t)'
<1> DEFINE local == tick[t]
           new   == tick'[t]
<1>1. /\ new.plan = local.plan /\ new.blocked = local.blocked /\ new.todo = local.todo
      /\ new.open = local.open /\ new.closed = local.closed
  BY ReviewMoves
<1>2. /\ local.pc \notin DispatchSteps /\ new.pc \notin {"poll_closed", "reconcile"}
      /\ \A i : ~ Started(t, i)
  BY DEF ReviewSteps, DispatchSteps, Started
<1>3. \A p \in PRs : Live(p)' = Live(p)
  BY DEF Live
<1>4. ASSUME NEW p \in PRs PROVE PRFits(t, p)'
  <2>1. PRFits(t, p)
    BY DEF SessionInv
  <2>2. p \in recent' \cup new.review \cup Seen(new.open \cup new.closed) => Live(p)
    BY <1>1, <2>1 DEF PRFits
  <2>3. p \in new.review => p \in OpenPRs' \cup recent'
    BY <2>1 DEF PRFits, OpenPRs
  <2>4. QED
    BY <1>1, <1>3, <2>1, <2>2, <2>3 DEF PRFits
<1>5. ASSUME NEW i \in Issues PROVE WorkFits(t, i)'
  BY <1>1, <1>2 DEF SessionInv, WorkFits
<1>6. ASSUME NEW p \in PRs, Live(p), ~ Dropped(t, p), NEW i \in pr[p].closes
      PROVE  DeliveryFits(t, p, i)'
  <2>1. DeliveryFits(t, p, i) /\ i \in Issues
    BY <1>6 DEF SessionInv, TypeOK
  <2>2. QED
    BY <1>2, <2>1 DEF DeliveryFits
<1>7. \A p \in PRs : Dropped(t, p) => Dropped(t, p)'
  BY <1>1 DEF Dropped
<1>8. QED
  BY <1>3, <1>4, <1>5, <1>6, <1>7 DEF SessionInv

(* The PR at hand is the only one asked for.                               *)
LEMMA AskedIsUnique ==
  ASSUME TypeOK, NEW t \in Ticks, NEW p \in LastOf(tick[t].review, 1)
  PROVE  \A q : Asked(t, q) => q = p
<1>1. tick[t].review \in SUBSET Nat /\ IsFiniteSet(tick[t].review)
  BY TickFields, PRsAssumption
<1>2. QED
  BY <1>1, LastIsUnique DEF Asked

(* The comment starts a reviewer on a PR that has none and had none.       *)
LEMMA ReviewCommentFits ==
  ASSUME TypeOK, NEW t \in Ticks, Smooth, SessionInv(t), ReviewComment(t)
  PROVE  SessionInv(t)'
<1>1. PICK p \in LastOf(tick[t].review, 1) :
        /\ reviewing' = [reviewing EXCEPT ![p] = @ + 1]
        /\ Goto(t, "review_label")
  BY DEF ReviewComment, Request, Upset, Smooth, Done, Outcomes
<1>2. /\ UNCHANGED <<db, recent, pr, sessions>>
      /\ tick[t].pc = "review_comment"
  BY DEF ReviewComment, github
<1>3. p \in PRs /\ p \in tick[t].review
  BY TickFields, LastOfSubset
<1>4. tick'[t].pc = "review_label" /\ tick'[t].review = tick[t].review
  <2>1. tick[t] \in Tick /\ tick'[t] = [tick[t] EXCEPT !.pc = "review_label"]
    BY <1>1 DEF TypeOK, Goto
  <2>2. QED
    BY <2>1 DEF Tick
<1>5. /\ \A q : ~ Asked(t, q)
      /\ Asked(t, p)'
      /\ \A q : ~ Noticed(t, q)'
  BY <1>1, <1>2, <1>4 DEF Asked, Noticed
<1>6. PRFits(t, p) /\ ReviewerFits(t, p)
  BY <1>3 DEF SessionInv
<1>7. /\ reviewing[p] \in Nat /\ reviewing'[p] = reviewing[p] + 1 /\ Live(p)
      /\ \A q \in PRs : q # p => reviewing'[q] = reviewing[q]
  <2>1. reviewing \in [PRs -> Nat]
    BY DEF TypeOK
  <2>2. QED
    BY <1>1, <1>3, <1>6, <2>1 DEF PRFits
<1>8. ASSUME NEW q \in PRs PROVE ReviewerFits(t, q)'
  <2>1. /\ ReviewerFits(t, q) /\ db' \in Db
        /\ Live(q)' = Live(q) /\ ToNotice(q)' = ToNotice(q)
    BY <1>2 DEF SessionInv, Live, ToNotice, OpenPRs, TypeOK
  <2>2. CASE q # p
    BY <1>2, <1>5, <1>7, <2>1, <2>2, ReviewersKept
  <2>3. CASE q = p
    <3> DEFINE owed == IF ToNotice(p) /\ p \notin db.reviewed THEN 1 ELSE 0
               runs == Cardinality(ReviewRuns(db, p))
    <3>1. /\ owed \in {0, 1} /\ owed' = owed /\ runs' = runs /\ runs \in Nat
          /\ reviewing[p] + owed <= runs
      BY <1>2, <1>5, <1>6, <2>1, <2>3, ReviewRunsFinite DEF ReviewerFits
    <3> HIDE DEF owed, runs
    <3>2. reviewing'[p] + owed' <= runs' + 1
      BY <1>7, <3>1
    <3>3. Live(p)'
      BY <1>7, <2>1, <2>3
    <3>4. QED
      BY <1>5, <2>3, <3>2, <3>3 DEF ReviewerFits, owed, runs
  <2>4. QED
    BY <2>2, <2>3
<1>9. \A i : Known(i)' = Known(i) /\ Pends(i)' = Pends(i) /\ InHand(i)' = InHand(i)
  BY <1>2 DEF Known, Pends, InHand
<1>10. tick[t].pc \in ReviewSteps /\ tick'[t].pc \in ReviewSteps
  BY <1>2, <1>4 DEF ReviewSteps
<1>11. \A q \in PRs : Reviewed(q)' => Reviewed(q) \/ q \in tick[t].review
  BY <1>2, <1>3, <1>7 DEF Reviewed
<1>12. QED
  BY <1>1, <1>2, <1>3, <1>4, <1>8, <1>9, <1>10, <1>11, ReviewPassFits

(* The label says so before the run does.                                  *)
LEMMA ReviewLabelFits ==
  ASSUME TypeOK, NEW t \in Ticks, Smooth, SessionInv(t), ReviewLabel(t)
  PROVE  SessionInv(t)'
<1>1. PICK p \in LastOf(tick[t].review, 1) :
        /\ UpdatePR(p, [pr[p] EXCEPT !.review =
                           IF pr[p].review = "none" THEN "pending" ELSE pr[p].review])
        /\ Goto(t, "review_commit")
  BY DEF ReviewLabel, Request, Upset, Smooth, Done, Outcomes
<1>2. /\ UNCHANGED <<db, sessions, reviewing>>
      /\ tick[t].pc = "review_label"
  BY DEF ReviewLabel, agents
<1>3. p \in PRs /\ p \in tick[t].review
  BY TickFields, LastOfSubset
<1>4. tick'[t].pc = "review_commit" /\ tick'[t].review = tick[t].review
  <2>1. tick[t] \in Tick /\ tick'[t] = [tick[t] EXCEPT !.pc = "review_commit"]
    BY <1>1 DEF TypeOK, Goto
  <2>2. QED
    BY <2>1 DEF Tick
<1>5. /\ recent \subseteq recent' /\ recent' \subseteq recent \cup {p}
      /\ \A q \in PRs : q # p => pr'[q] = pr[q]
      /\ pr'[p].state = pr[p].state /\ pr'[p].closes = pr[p].closes
      /\ pr'[p].review = IF pr[p].review = "none" THEN "pending" ELSE pr[p].review
  <2> DEFINE v == IF pr[p].review = "none" THEN "pending" ELSE pr[p].review
             new == [pr[p] EXCEPT !.review = v]
  <2>1. pr \in [PRs -> [state : {"none", "open", "merged", "closed"},
                        closes : SUBSET Issues, review : Reviews]]
    BY DEF TypeOK
  <2>2. UpdatePR(p, new)
    BY <1>1
  <2> HIDE DEF v
  <2>3. new.state = pr[p].state /\ new.closes = pr[p].closes /\ new.review = v
    BY <1>3, <2>1
  <2> HIDE DEF new
  <2>4. pr' = [pr EXCEPT ![p] = new] /\ recent' \in {recent, recent \cup {p}}
    BY <2>2 DEF UpdatePR
  <2>5. QED
    BY <1>3, <2>1, <2>3, <2>4 DEF v
<1>6. /\ \A q : Asked(t, q) <=> q = p
      /\ \A q : Asked(t, q)' <=> q = p
      /\ \A q : ~ Noticed(t, q)'
  <2>1. Asked(t, p)
    BY <1>1, <1>2 DEF Asked
  <2>2. \A q : Asked(t, q)' = Asked(t, q)
    BY <1>2, <1>4 DEF Asked
  <2>3. \A q : ~ Noticed(t, q)'
    BY <1>4 DEF Noticed
  <2>4. QED
    BY <1>1, <1>2, <2>1, <2>2, <2>3, AskedIsUnique
<1>7. Live(p) /\ p \in OpenPRs \cup recent
  BY <1>3 DEF SessionInv, PRFits
<1>8. ASSUME NEW q \in PRs PROVE ReviewerFits(t, q)'
  <2>1. ReviewerFits(t, q) /\ Live(q)' = Live(q) /\ db' \in Db
    BY <1>2, <1>5 DEF SessionInv, Live, TypeOK
  <2>2. ToNotice(q)' => ToNotice(q)
    BY <1>5, <1>7 DEF ToNotice, OpenPRs, Verdicts
  <2>3. QED
    BY <1>2, <1>6, <2>1, <2>2, ReviewersKept
<1>9. \A i : Known(i)' = Known(i) /\ Pends(i)' = Pends(i) /\ InHand(i)' = InHand(i)
  BY <1>2 DEF Known, Pends, InHand
<1>10. tick[t].pc \in ReviewSteps /\ tick'[t].pc \in ReviewSteps
  BY <1>2, <1>4 DEF ReviewSteps
<1>11. /\ \A q \in PRs : q \in recent' => q \in recent \/ q \in tick[t].review
       /\ \A q \in PRs :
             /\ pr'[q].state = pr[q].state /\ pr'[q].closes = pr[q].closes
             /\ Reviewed(q)' => Reviewed(q) \/ q \in tick[t].review
  BY <1>2, <1>3, <1>5 DEF Reviewed
<1>12. QED
  BY <1>1, <1>2, <1>4, <1>5, <1>8, <1>9, <1>10, <1>11, ReviewPassFits

(* The run takes the slot over from the tick.                              *)
LEMMA ReviewCommitFits ==
  ASSUME IInv, NEW t \in Ticks, Smooth, SessionInv(t), ReviewCommit(t)
  PROVE  SessionInv(t)'
<1>0. TypeOK /\ DbInv(db) /\ db \in Db
  BY DEF IInv, TypeOK
<1>1. PICK p \in LastOf(tick[t].review, 1) :
        /\ db' = create_run(db, "reviewer", p)
        /\ NextReview(t, p, tick[t].slots - 1)
  BY DEF ReviewCommit, Upset, Smooth
<1>2. /\ UNCHANGED <<recent, pr, sessions, reviewing>>
      /\ tick[t].pc = "review_commit"
  BY DEF ReviewCommit, github, agents
<1>3. p \in PRs /\ p \in Nat /\ p \in tick[t].review
  BY <1>0, TickFields, LastOfSubset, PRsAssumption
<1>4. tick'[t].pc \in {"decide", "review_comment"} /\ tick'[t].review = tick[t].review \ {p}
  <2> DEFINE step == IF tick[t].review = {p} THEN "decide" ELSE "review_comment"
             left == tick[t].review \ {p}
             slots == tick[t].slots - 1
  <2>1. tick[t] \in Tick
        /\ tick'[t] = [tick[t] EXCEPT !.review = left, !.slots = slots, !.pc = step]
    BY <1>0, <1>1 DEF TypeOK, NextReview
  <2>2. step \in {"decide", "review_comment"}
    OBVIOUS
  <2> HIDE DEF step, left, slots
  <2>3. tick'[t].pc = step /\ tick'[t].review = left
    BY <2>1 DEF Tick
  <2>4. QED
    BY <2>2, <2>3 DEF left
<1>5. /\ db'.batch = db.batch /\ db' \in Db /\ db'.reviewed = db.reviewed
      /\ \A k \in Active(db) : k \in Active(db') /\ db'.runs[k] = db.runs[k]
      /\ \A q : ReviewRuns(db, q) \subseteq ReviewRuns(db', q)
      /\ Cardinality(ReviewRuns(db, p)) + 1 <= Cardinality(ReviewRuns(db', p))
  <2> DEFINE n == Len(db.runs) + 1
  <2>1. /\ db'.batch = db.batch /\ db' \in Db /\ db'.reviewed = db.reviewed
        /\ \A k \in Active(db) : k \in Active(db') /\ db'.runs[k] = db.runs[k]
        /\ n \in Active(db') \ Active(db)
        /\ db'.runs[n].agent = "reviewer" /\ db'.runs[n].on = p
    <3> DEFINE c == create_run(db, "reviewer", p)
    <3>1. /\ c \in Db /\ c.batch = db.batch /\ c.reviewed = db.reviewed
      BY <1>0, <1>3, RunCreated
    <3>2. /\ \A k \in Active(db) : k \in Active(c) /\ c.runs[k] = db.runs[k]
          /\ n \in Active(c) \ Active(db)
          /\ c.runs[n].agent = "reviewer" /\ c.runs[n].on = p
      <4>1. \A on \in Nat : \A e : e = create_run(db, "reviewer", on) =>
              /\ \A k \in Active(db) : k \in Active(e) /\ e.runs[k] = db.runs[k]
              /\ n \in Active(e) \ Active(db)
              /\ e.runs[n].agent = "reviewer" /\ e.runs[n].on = on
        BY <1>0, RunCreated
      <4> HIDE DEF n
      <4>2. QED
        BY <1>3, <4>1
    <3> HIDE DEF c, n
    <3>3. db' = c
      BY <1>1 DEF c
    <3>4. QED
      BY <3>1, <3>2, <3>3
  <2> HIDE DEF n
  <2>2. \A q : ReviewRuns(db, q) \subseteq ReviewRuns(db', q)
    BY <2>1 DEF ReviewRuns, QueuedFor, Active
  <2>3. n \in ReviewRuns(db', p) /\ n \notin ReviewRuns(db, p)
    BY <2>1 DEF ReviewRuns, QueuedFor, Active
  <2>4. Cardinality(ReviewRuns(db, p)) + 1 <= Cardinality(ReviewRuns(db', p))
    <3>1. /\ IsFiniteSet(ReviewRuns(db, p)) /\ IsFiniteSet(ReviewRuns(db', p))
          /\ Cardinality(ReviewRuns(db, p)) \in Nat /\ Cardinality(ReviewRuns(db', p)) \in Nat
      BY <1>0, <2>1, ReviewRunsFinite
    <3>2. /\ Cardinality(ReviewRuns(db, p)) <= Cardinality(ReviewRuns(db', p))
          /\ Cardinality(ReviewRuns(db, p)) # Cardinality(ReviewRuns(db', p))
      BY <2>2, <2>3, <3>1, FS_Subset
    <3>3. QED
      BY <3>1, <3>2
  <2>5. QED
    BY <2>1, <2>2, <2>4
<1>6. /\ Asked(t, p) /\ \A q : Asked(t, q) => q = p
      /\ \A q : ~ Asked(t, q)' /\ ~ Noticed(t, q)'
  <2>1. Asked(t, p)
    BY <1>1, <1>2 DEF Asked
  <2>2. \A q : ~ Asked(t, q)' /\ ~ Noticed(t, q)'
    BY <1>4 DEF Asked, Noticed
  <2>3. QED
    BY <1>0, <1>1, <2>1, <2>2, AskedIsUnique
<1>7. ASSUME NEW q \in PRs PROVE ReviewerFits(t, q)'
  <2>1. ReviewerFits(t, q) /\ Live(q)' = Live(q) /\ ToNotice(q)' = ToNotice(q)
    BY <1>2 DEF SessionInv, Live, ToNotice, OpenPRs
  <2>2. CASE q # p
    BY <1>0, <1>2, <1>5, <1>6, <2>1, <2>2, ReviewersKept
  <2>3. CASE q = p
    <3> DEFINE owed  == IF ToNotice(p) /\ p \notin db.reviewed THEN 1 ELSE 0
               runs  == Cardinality(ReviewRuns(db, p))
               later == Cardinality(ReviewRuns(db', p))
    <3>1. /\ owed \in {0, 1} /\ owed' = owed /\ reviewing[p] + owed <= runs + 1
      BY <1>5, <1>6, <2>1, <2>3 DEF ReviewerFits
    <3>2. runs \in Nat /\ later \in Nat /\ runs + 1 <= later /\ reviewing[p] \in Nat
      BY <1>0, <1>3, <1>5, ReviewRunsFinite DEF TypeOK
    <3> HIDE DEF owed, runs, later
    <3>3. reviewing'[p] + owed' <= later + 0
      BY <1>2, <3>1, <3>2
    <3>4. reviewing'[p] > 0 => Live(p)'
      BY <1>2, <2>1, <2>3 DEF ReviewerFits
    <3>5. QED
      BY <1>6, <2>3, <3>3, <3>4 DEF ReviewerFits, owed, later
  <2>4. QED
    BY <2>2, <2>3
<1>8. \A i \in Issues : /\ Known(i) => Known(i)'
                        /\ Pends(i) => Pends(i)'
                        /\ InHand(i) => InHand(i)'
  BY <1>5 DEF Known, Pends, InHand
<1>9. /\ tick[t].pc \in ReviewSteps /\ tick'[t].pc \in ReviewSteps \cup {"decide"}
      /\ tick'[t].review \subseteq tick[t].review
  BY <1>2, <1>4 DEF ReviewSteps
<1>10. /\ recent \subseteq recent' /\ UNCHANGED sessions
       /\ \A q \in PRs : q \in recent' => q \in recent
       /\ \A q \in PRs :
            /\ pr'[q].state = pr[q].state /\ pr'[q].closes = pr[q].closes
            /\ pr'[q].review = pr[q].review /\ Reviewed(q)' = Reviewed(q)
       /\ \E q, slots : NextReview(t, q, slots)
  BY <1>1, <1>2 DEF Reviewed
<1>11. QED
  BY <1>0, <1>7, <1>8, <1>9, <1>10, ReviewPassFits

(* So does the implementer pass: it gives up what it is done with.         *)
LEMMA IssueMoves ==
  ASSUME TypeOK, NEW t \in Ticks, tick[t].pc \in DispatchSteps,
         \/ \E step \in DispatchSteps : Goto(t, step)
         \/ \E i : NextIssue(t, i)
  PROVE  /\ tick'[t].pc \in DispatchSteps \/ DOMAIN tick'[t].plan = {}
         /\ tick'[t].pc \in DispatchSteps \cup {"idle"}
         /\ tick'[t].todo \subseteq tick[t].todo /\ tick'[t].review \subseteq tick[t].review
         /\ tick'[t].open \subseteq tick[t].open /\ tick'[t].closed \subseteq tick[t].closed
<1> DEFINE local == tick[t]
           new   == tick'[t]
<1>0. tick \in [Ticks -> Tick] /\ local \in Tick
  BY DEF TypeOK
<1>1. CASE \E step \in DispatchSteps : Goto(t, step)
  <2>1. PICK step \in DispatchSteps : new = [local EXCEPT !.pc = step]
    BY <1>0, <1>1 DEF Goto
  <2>2. QED
    BY <1>0, <2>1 DEF Tick
<1>2. CASE \E i : NextIssue(t, i)
  <2>1. PICK i : new = IF local.todo = {i} THEN IdleTick
                       ELSE [local EXCEPT !.pc = "issue_get", !.todo = local.todo \ {i}]
    BY <1>0, <1>2 DEF NextIssue
  <2>2. CASE new = IdleTick
    BY <2>2 DEF IdleTick
  <2>3. CASE new = [local EXCEPT !.pc = "issue_get", !.todo = local.todo \ {i}]
    <3> DEFINE left == local.todo \ {i}
    <3>1. new = [local EXCEPT !.pc = "issue_get", !.todo = left] /\ left \subseteq local.todo
      BY <2>3
    <3> HIDE DEF left
    <3>2. /\ new.pc = "issue_get" /\ new.todo = left /\ new.review = local.review
          /\ new.open = local.open /\ new.closed = local.closed
      BY <1>0, <3>1 DEF Tick
    <3>3. QED
      BY <3>1, <3>2 DEF DispatchSteps
  <2>4. QED
    BY <2>1, <2>2, <2>3
<1>3. QED
  BY <1>1, <1>2

(* The implementer pass touches no PR.                                     *)
LEMMA IssuePassFits ==
  ASSUME TypeOK, NEW t \in Ticks, SessionInv(t), tick[t].pc \in DispatchSteps,
         \/ \E step \in DispatchSteps : Goto(t, step)
         \/ \E i : NextIssue(t, i),
         UNCHANGED <<recent, pr, reviewing>>,
         db' \in Db, db'.reviewed = db.reviewed,
         \A p \in PRs : ReviewRuns(db, p) \subseteq ReviewRuns(db', p),
         \A i \in Issues :
           /\ WorkFits(t, i)'
           /\ Known(i) => Known(i)'
           /\ InHand(i) => InHand(i)'
           /\ \/ sessions'[i] = sessions[i]
              \/ ~ Known(i) /\ ~ InHand(i) /\ ~ Started(t, i)
           /\ Pends(i) /\ Started(t, i) => (Pends(i) /\ Started(t, i))' \/ InHand(i)'
  PROVE  SessionInv(t)'
<1> DEFINE local == tick[t]
           new   == tick'[t]
<1>1. /\ new.pc \in DispatchSteps \cup {"idle"}
      /\ new.review \subseteq local.review
      /\ new.open \subseteq local.open /\ new.closed \subseteq local.closed
  BY IssueMoves
<1>2. /\ \A p : ~ Asked(t, p) /\ ~ Asked(t, p)' /\ ~ Noticed(t, p)'
      /\ new.pc \notin {"poll_closed", "reconcile"}
  BY <1>1 DEF DispatchSteps, Asked, Noticed
<1>3. ASSUME NEW p \in PRs PROVE PRFits(t, p)'
  <2>1. PRFits(t, p)
    BY DEF SessionInv
  <2>2. Seen(new.open \cup new.closed) \subseteq Seen(local.open \cup local.closed)
    BY <1>1 DEF Seen
  <2>3. QED
    BY <1>1, <2>1, <2>2 DEF PRFits, Live, OpenPRs
<1>4. ASSUME NEW p \in PRs PROVE ReviewerFits(t, p)'
  <2>1. ToNotice(p)' = ToNotice(p) /\ Live(p)' = Live(p)
    BY DEF ToNotice, OpenPRs, Live
  <2>2. QED
    BY <1>2, <2>1, ReviewersKept DEF SessionInv
<1>5. ASSUME NEW p \in PRs, Live(p), ~ Dropped(t, p), NEW i \in pr[p].closes
      PROVE  DeliveryFits(t, p, i)'
  <2>1. DeliveryFits(t, p, i) /\ i \in Issues
    BY <1>5 DEF SessionInv, TypeOK
  <2>2. Reviewed(p)' = Reviewed(p)
    BY DEF Reviewed
  <2>3. QED
    BY <1>2, <2>1, <2>2 DEF DeliveryFits
<1>6. \A p : Dropped(t, p) => Dropped(t, p)'
  BY <1>1 DEF Dropped, Seen, Reviewed
<1>7. QED
  BY <1>3, <1>4, <1>5, <1>6 DEF SessionInv, Live

(* The issue at hand is the only one started.                              *)
LEMMA StartedIsUnique ==
  ASSUME TypeOK, NEW t \in Ticks, NEW i \in FirstOf(tick[t].todo, 1)
  PROVE  \A j : Started(t, j) => j = i
<1>1. tick[t].todo \in SUBSET Nat /\ IsFiniteSet(tick[t].todo)
  BY TickFields, IssuesAssumption
<1>2. QED
  BY <1>1, FirstIsUnique DEF Started

(* The comment starts an implementer on an issue that has neither a        *)
(* session nor a PR: else its batch would not be pending.                  *)
LEMMA IssueCommentFits ==
  ASSUME TypeOK, NEW t \in Ticks, Smooth, SessionInv(t), IssueComment(t)
  PROVE  SessionInv(t)'
<1>1. PICK i \in FirstOf(tick[t].todo, 1) :
        /\ sessions' = [sessions EXCEPT ![i] = @ + 1]
        /\ Goto(t, "issue_label")
  BY DEF IssueComment, Request, Upset, Smooth, Done, Outcomes
<1>2. /\ UNCHANGED <<db, recent, pr, reviewing>>
      /\ tick[t].pc = "issue_comment"
  BY DEF IssueComment, github
<1>3. i \in Issues /\ i \in tick[t].todo
  BY TickFields, FirstOfSubset
<1>4. tick'[t].pc = "issue_label" /\ tick'[t].todo = tick[t].todo
  BY <1>1, GotoFields
<1>5. /\ \A j : ~ Started(t, j)
      /\ Started(t, i)'
      /\ \A j : Known(j)' = Known(j) /\ Pends(j)' = Pends(j) /\ InHand(j)' = InHand(j)
      /\ db' \in Db /\ db' = db
  BY <1>1, <1>2, <1>4 DEF Started, Known, Pends, InHand, TypeOK
<1>6. Pends(i) /\ ~ Known(i) /\ ~ InHand(i) /\ WorkFits(t, i)
  BY <1>3 DEF SessionInv, WorkFits, Pends, Known, InHand
<1>7. /\ sessions[i] = 0 /\ sessions'[i] = 1
      /\ \A j \in Issues : j # i => sessions'[j] = sessions[j]
  <2>1. sessions \in [Issues -> Nat]
    BY DEF TypeOK
  <2>2. QED
    BY <1>1, <1>3, <1>5, <1>6, <2>1 DEF WorkFits
<1>8. tick[t].pc \in DispatchSteps /\ "issue_label" \in DispatchSteps
  BY <1>2 DEF DispatchSteps
<1>9. ASSUME NEW j \in Issues PROVE WorkFits(t, j)'
  <2>1. WorkFits(t, j)
    BY DEF SessionInv
  <2>2. QED
    BY <1>4, <1>5, <1>7, <1>8, <2>1 DEF WorkFits
<1>10. QED
  BY <1>1, <1>2, <1>5, <1>6, <1>7, <1>8, <1>9, IssuePassFits

(* The label on the issue is in nobody's way.                              *)
LEMMA IssueLabelFits ==
  ASSUME TypeOK, NEW t \in Ticks, Smooth, SessionInv(t), IssueLabel(t)
  PROVE  SessionInv(t)'
<1>1. Goto(t, "issue_commit")
  BY DEF IssueLabel, Request, Upset, Smooth, Outcomes
<1>2. /\ UNCHANGED <<db, recent, pr, sessions, reviewing>>
      /\ tick[t].pc = "issue_label"
  BY DEF IssueLabel, agents
<1>3. tick'[t].pc = "issue_commit" /\ tick'[t].todo = tick[t].todo
  BY <1>1, GotoFields
<1>4. /\ \A j : /\ Started(t, j)' = Started(t, j)
                /\ Known(j)' = Known(j) /\ Pends(j)' = Pends(j) /\ InHand(j)' = InHand(j)
      /\ db' \in Db /\ db' = db
  BY <1>2, <1>3 DEF Started, Known, Pends, InHand, TypeOK
<1>5. tick[t].pc \in DispatchSteps /\ "issue_commit" \in DispatchSteps
  BY <1>2 DEF DispatchSteps
<1>6. ASSUME NEW j \in Issues PROVE WorkFits(t, j)'
  BY <1>2, <1>3, <1>4, <1>5 DEF SessionInv, WorkFits
<1>7. QED
  BY <1>1, <1>2, <1>4, <1>5, <1>6, IssuePassFits

(* The run and the promotion take the slot over from the tick.             *)
LEMMA IssueCommitFits ==
  ASSUME IInv, NEW t \in Ticks, Smooth, SessionInv(t), IssueCommit(t)
  PROVE  SessionInv(t)'
<1>0. TypeOK /\ DbInv(db) /\ db \in Db
  BY DEF IInv, TypeOK
<1>1. PICK i \in FirstOf(tick[t].todo, 1) :
        /\ db' = RecordDispatch(db, i)
        /\ NextIssue(t, i)
  BY DEF IssueCommit, Upset, Smooth
<1>2. /\ UNCHANGED <<recent, pr, sessions, reviewing>>
      /\ tick[t].pc = "issue_commit"
  BY DEF IssueCommit, github, agents
<1>3. i \in Issues /\ i \in Nat /\ i \in tick[t].todo /\ Pends(i)
  <2>1. i \in Issues /\ i \in tick[t].todo
    BY <1>0, TickFields, FirstOfSubset
  <2>2. QED
    BY <2>1, IssuesAssumption DEF SessionInv, WorkFits
<1>4. /\ tick'[t].pc \notin DispatchSteps => tick'[t].plan = <<>>
      /\ i \notin tick'[t].todo /\ tick'[t].todo \subseteq tick[t].todo
      /\ tick'[t].pc \notin {"issue_label", "issue_commit"}
  <2> DEFINE left == tick[t].todo \ {i}
  <2>1. /\ tick[t] \in Tick
        /\ \/ tick'[t] = IdleTick
           \/ tick'[t] = [tick[t] EXCEPT !.pc = "issue_get", !.todo = left]
    BY <1>0, <1>1 DEF TypeOK, NextIssue
  <2>2. i \notin left /\ left \subseteq tick[t].todo
    OBVIOUS
  <2> HIDE DEF left
  <2>3. CASE tick'[t] = IdleTick
    BY <2>3 DEF IdleTick
  <2>4. CASE tick'[t] = [tick[t] EXCEPT !.pc = "issue_get", !.todo = left]
    <3>1. tick'[t].pc = "issue_get" /\ tick'[t].todo = left
      BY <2>1, <2>4 DEF Tick
    <3>2. QED
      BY <2>2, <3>1 DEF DispatchSteps
  <2>5. QED
    BY <2>1, <2>3, <2>4
<1>5. /\ \A k \in Active(db) : k \in Active(db') /\ db'.runs[k] = db.runs[k]
      /\ Len(db.runs) + 1 \in Active(db')
      /\ \A j \in Issues : j # i => db'.batch[j] = db.batch[j]
      /\ db'.batch[i].status = "in_progress" /\ db'.batch[i].run = Len(db.runs) + 1
      /\ db' \in Db /\ db'.reviewed = db.reviewed
  <2> DEFINE c == create_run(db, "implementer", i)
             n == Len(db.runs) + 1
  <2>1. /\ \A k \in Active(db) : k \in Active(c) /\ c.runs[k] = db.runs[k]
        /\ n \in Active(c)
    BY <1>0, <1>3, RunCreated
  <2>2. db'.runs = c.runs /\ db'.reviewed = db.reviewed
    <3>1. c \in Db /\ c.reviewed = db.reviewed
      <4>1. /\ create_run(db, "implementer", i) \in Db
            /\ create_run(db, "implementer", i).reviewed = db.reviewed
        BY <1>0, <1>3, RunCreated
      <4>2. QED
        BY <4>1
    <3>2. db' = mark_batch_in_progress(c, i, n)
      BY <1>1 DEF RecordDispatch
    <3> HIDE DEF c
    <3>3. QED
      BY <3>1, <3>2 DEF mark_batch_in_progress, Db
  <2>3. \A j \in Issues : \/ db'.batch[j] = db.batch[j]
                          \/ j = i /\ Promoted(db, db', j)
    BY <1>0, <1>1, <1>3, RecordDispatchFacts
  <2>4. db'.batch[i].status # "pending"
    BY <1>0, <1>1, <1>3, RecordedIsNotPending
  <2>5. db' \in Db
    BY <1>0, <1>1, <1>3, RecordDispatchFacts DEF DbInv
  <2> HIDE DEF c
  <2>6. QED
    BY <1>3, <2>1, <2>2, <2>3, <2>4, <2>5 DEF Active, Queued, Promoted, Pends
<1>6. /\ InHand(i)' /\ ~ Known(i) /\ ~ InHand(i)
      /\ \A j \in Issues : j # i => /\ Known(j)' = Known(j)
                                    /\ Pends(j)' = Pends(j)
                                    /\ InHand(j) => InHand(j)'
      /\ \A p : ReviewRuns(db, p) \subseteq ReviewRuns(db', p)
  BY <1>3, <1>5 DEF InHand, Known, Pends, ReviewRuns, QueuedFor, Active
<1>7. /\ Started(t, i) /\ \A j : Started(t, j) => j = i
      /\ \A j : ~ Started(t, j)'
  BY <1>0, <1>1, <1>2, <1>4, StartedIsUnique DEF Started
<1>8. tick[t].pc \in DispatchSteps
  BY <1>2 DEF DispatchSteps
<1>9. ASSUME NEW j \in Issues PROVE WorkFits(t, j)'
  <2>1. WorkFits(t, j)
    BY DEF SessionInv
  <2>2. DOMAIN (<<>>) = {}
    OBVIOUS
  <2>3. CASE j = i
    BY <1>2, <1>4, <1>6, <2>1, <2>2, <2>3 DEF WorkFits
  <2>4. CASE j # i
    BY <1>2, <1>4, <1>6, <1>7, <2>1, <2>2, <2>4 DEF WorkFits
  <2>5. QED
    BY <2>3, <2>4
<1>10. \A j \in Issues : /\ Known(j) => Known(j)'
                         /\ InHand(j) => InHand(j)'
                         /\ sessions'[j] = sessions[j]
                         /\ Pends(j) /\ Started(t, j) => InHand(j)'
  BY <1>2, <1>6, <1>7
<1>11. QED
  BY <1>0, <1>1, <1>2, <1>5, <1>6, <1>8, <1>9, <1>10, IssuePassFits

-----------------------------------------------------------------------------
(* The pollback.                                                           *)

(* A slice of a list with members has members.                             *)
LEMMA LastOfSome ==
  ASSUME NEW S \in SUBSET Nat, IsFiniteSet(S), S # {}, NEW n \in Nat \ {0}
  PROVE  LastOf(S, n) # {}
<1> DEFINE Above(k) == {j \in S : k < j}
           rank == [k \in S |-> Cardinality(Above(k))]
           c == Cardinality(S)
<1>1. SUFFICES ASSUME \A k \in S : ~ (Cardinality(Above(k)) < n) PROVE FALSE
  BY DEF LastOf
<1>2. c \in Nat /\ c > 0
  BY FS_EmptySet, FS_CardinalityType
<1>3. \A k \in S : /\ IsFiniteSet(Above(k)) /\ Cardinality(Above(k)) \in Nat
                   /\ Cardinality(Above(k)) < c
  <2> TAKE k \in S
  <2>1. Above(k) \in SUBSET S /\ k \notin Above(k)
    <3>1. \A a \in Nat : ~ (a < a)
      OBVIOUS
    <3>2. QED
      BY <3>1
  <2>2. IsFiniteSet(Above(k)) /\ Cardinality(Above(k)) \in Nat
        /\ Cardinality(Above(k)) <= c
    BY <2>1, FS_Subset, FS_CardinalityType
  <2>3. Cardinality(Above(k)) # c
    BY <2>1, FS_Subset
  <2>4. QED
    BY <1>2, <2>2, <2>3
<1>4. rank \in [S -> 1 .. (c - 1)]
  <2>1. \A k \in S : Cardinality(Above(k)) \in 1 .. (c - 1)
    BY <1>1, <1>2, <1>3
  <2>2. QED
    BY <2>1
<1>5. ASSUME NEW j \in S, NEW k \in S, j < k
      PROVE  Cardinality(Above(j)) # Cardinality(Above(k))
  <2>1. Above(k) \in SUBSET Above(j)
    <3>1. \A x, y, z \in Nat : x < y /\ y < z => x < z
      OBVIOUS
    <3>2. \A i \in S : k < i => j < i
      BY <1>5, <3>1
    <3>3. QED
      BY <3>2
  <2>2. k \in Above(j) /\ k \notin Above(k)
    <3>1. \A a \in Nat : ~ (a < a)
      OBVIOUS
    <3>2. QED
      BY <1>5, <3>1
  <2>3. QED
    BY <1>3, <2>1, <2>2, FS_Subset
<1>6. \A j, k \in S : j # k => rank[j] # rank[k]
  <2> TAKE j, k \in S
  <2>1. j < k \/ k < j \/ j = k
    OBVIOUS
  <2>2. QED
    BY <1>5, <2>1
<1>7. IsFiniteSet(1 .. (c - 1)) /\ Cardinality(1 .. (c - 1)) = c - 1
  <2>1. PICK m \in Nat : m = c - 1
    BY <1>2
  <2>2. IsFiniteSet(1 .. m) /\ Cardinality(1 .. m) = IF 1 > m THEN 0 ELSE m - 1 + 1
    <3>1. 1 \in Int /\ m \in Int
      OBVIOUS
    <3>2. QED
      BY <3>1, FS_Interval, Zenon
  <2>3. QED
    BY <2>1, <2>2
<1>8. QED
  <2> DEFINE T == 1 .. (c - 1)
  <2>1. rank \in Injection(S, T)
    BY <1>4, <1>6 DEF Injection, IsInjective
  <2>2. IsFiniteSet(T) /\ Cardinality(T) = c - 1
    BY <1>7
  <2> HIDE DEF rank, T
  <2>3. Cardinality(S) <= Cardinality(T)
    BY <2>1, <2>2, FS_Injection
  <2>4. QED
    BY <1>2, <2>2, <2>3

(* A pollback links the batch of every mentioned issue with a queued run.  *)
LEMMA MentionedRunIsCompleted ==
  ASSUME NEW d \in Db, NEW mentions, IsFiniteSet(mentions),
         NEW m \in mentions, NEW k \in QueuedFor(d, "implementer", m.issue)
  PROVE  RunsToComplete(d, mentions, m.issue) # {}
<1> DEFINE i == m.issue
           Q == QueuedFor(d, "implementer", i)
           M == {x \in mentions : x.issue = i}
<1>1. IsFiniteSet(M) /\ M # {}
  BY FS_Subset
<1>2. Cardinality(M) \in Nat \ {0}
  BY <1>1, FS_EmptySet, FS_CardinalityType
<1>3. Q \in SUBSET Nat /\ IsFiniteSet(Q) /\ Q # {}
  <2>0. Len(d.runs) \in Nat /\ DOMAIN d.runs = 1 .. Len(d.runs)
    BY DbFields
  <2>1. Q \in SUBSET (1 .. Len(d.runs)) /\ Q \in SUBSET Nat /\ k \in Q
    BY <2>0 DEF QueuedFor, Queued
  <2>2. IsFiniteSet(1 .. Len(d.runs))
    BY <2>0, FS_Interval
  <2>3. QED
    BY <2>1, <2>2, FS_Subset
<1> HIDE DEF Q
<1>4. LastOf(Q, Cardinality(M)) # {}
  BY <1>2, <1>3, LastOfSome
<1>5. QED
  BY <1>4 DEF RunsToComplete, Q

(* A pollback looks at finitely many mentions.                             *)
LEMMA MentionsFinite == ASSUME NEW t PROVE IsFiniteSet(Mentions(t))
<1> DEFINE pairs == PRs \X Issues
           half(list) == {m \in Mentions(t) : m.list = list}
           at(list) == [m \in half(list) |-> <<m.pr, m.issue>>]
<1>1. IsFiniteSet(pairs)
  BY PRsAssumption, IssuesAssumption, FS_Product
<1>2. ASSUME NEW list PROVE IsFiniteSet(half(list))
  <2>1. at(list) \in Injection(half(list), pairs)
    BY DEF Mentions, Injection, IsInjective
  <2> HIDE DEF at, half, pairs
  <2>2. QED
    BY <1>1, <2>1, FS_Injection
<1>3. Mentions(t) = half("open") \cup half("closed")
  BY DEF Mentions
<1> HIDE DEF half
<1>4. QED
  BY <1>2, <1>3, FS_Union

(* The statuses that UpdateRuns leaves.                                    *)
LEMMA StatusUpdated ==
  ASSUME NEW d \in Db, NEW S, NEW status \in {"finished", "timeout"},
         NEW e, e = UpdateRuns(d, S, status), NEW k \in DOMAIN d.runs
  PROVE  e.runs[k].status = IF k \in S THEN status ELSE d.runs[k].status
<1>1. e.runs[k] = IF k \in S THEN [d.runs[k] EXCEPT !.status = status] ELSE d.runs[k]
  BY UpdateRunsFacts
<1>2. d.runs[k] \in Run
  BY DbFields
<1>3. QED
  BY <1>1, <1>2 DEF Run

(* The run that the first verdict on its PR completes.                     *)
FirstVerdict(d, seen, k) ==
  LET p == d.runs[k].on IN
  Judged(seen, p) /\ p \notin d.reviewed /\ k \in LastOf(QueuedFor(d, "reviewer", p), 1)

(* complete_reviewer_runs ends no other run.                               *)
LEMMA ReviewersEnded ==
  ASSUME NEW d \in Db, NEW seen, NEW e, e = complete_reviewer_runs(d, seen),
         NEW k \in Queued(d)
  PROVE  \/ e.runs[k].status = "queued"
         \/ /\ e.runs[k].status = "finished"
            /\ d.runs[k].agent = "reviewer" /\ FirstVerdict(d, seen, k)
<1> DEFINE new == {p \in PRs \ d.reviewed : Judged(seen, p)}
           S == UNION {LastOf(QueuedFor(d, "reviewer", p), 1) : p \in new}
           u == UpdateRuns(d, S, "finished")
<1>1. e = [u EXCEPT !.reviewed = @ \cup new]
  BY DEF complete_reviewer_runs, Judged
<1>2. e.runs = u.runs
  BY <1>1 DEF UpdateRuns, Db
<1>3. k \in S => d.runs[k].agent = "reviewer" /\ FirstVerdict(d, seen, k)
  <2>1. \A p \in new : k \in LastOf(QueuedFor(d, "reviewer", p), 1) =>
                        d.runs[k].agent = "reviewer" /\ d.runs[k].on = p
    BY DEF LastOf, QueuedFor
  <2>2. QED
    BY <2>1 DEF FirstVerdict
<1>4. k \in DOMAIN d.runs /\ d.runs[k].status = "queued"
  BY DEF Queued
<1> HIDE DEF S
<1>5. u.runs[k].status = IF k \in S THEN "finished" ELSE "queued"
  BY <1>4, StatusUpdated
<1> HIDE DEF u
<1>6. QED
  BY <1>2, <1>3, <1>5

(* complete_implementer_runs ends no run of a reviewer, and links the      *)
(* batch of every mentioned issue with a queued run.                       *)
LEMMA ImplementersEnded ==
  ASSUME NEW d \in Db, NEW mentions, NEW e, e = complete_implementer_runs(d, mentions)
  PROVE  /\ \A k \in Queued(d) :
              \/ e.runs[k].status = "queued"
              \/ e.runs[k].status = "finished" /\ d.runs[k].agent = "implementer"
         /\ \A i \in Issues :
              RunsToComplete(d, mentions, i) # {} => e.batch[i].pr_number = "set"
<1> DEFINE done(i) == RunsToComplete(d, mentions, i)
           S == UNION {done(i) : i \in Issues}
           u == UpdateRuns(d, S, "finished")
           batch == [i \in Issues |->
                       [d.batch[i] EXCEPT !.pr_number =
                          IF done(i) = {} THEN d.batch[i].pr_number ELSE "set"]]
<1>1. e = [u EXCEPT !.batch = batch]
  BY DEF complete_implementer_runs
<1>2. e.runs = u.runs /\ e.batch = batch
  BY <1>1 DEF UpdateRuns, Db
<1>3. \A i \in Issues : done(i) # {} => batch[i].pr_number = "set"
  <2> HIDE DEF done
  <2> TAKE i \in Issues
  <2>1. d.batch[i] \in Batch
    BY DbFields
  <2>2. QED
    BY <2>1 DEF Batch
<1>4. ASSUME NEW k \in Queued(d)
      PROVE  \/ u.runs[k].status = "queued"
             \/ u.runs[k].status = "finished" /\ d.runs[k].agent = "implementer"
  <2>1. k \in DOMAIN d.runs /\ d.runs[k].status = "queued"
    BY DEF Queued
  <2>2. k \in S => d.runs[k].agent = "implementer"
    BY DEF RunsToComplete, LastOf, QueuedFor
  <2> HIDE DEF S
  <2>3. u.runs[k].status = IF k \in S THEN "finished" ELSE "queued"
    BY <2>1, StatusUpdated
  <2>4. QED
    BY <2>2, <2>3
<1> HIDE DEF u, batch, done
<1>5. QED
  BY <1>2, <1>3, <1>4 DEF done

(* A whole pollback: a fresh run that was queued is still, or it finished  *)
(* and its result was fetched.                                             *)
LEMMA ActiveRunReconciled ==
  ASSUME DbInv(db), NEW t, Reconcile(t), NEW k \in Active(db)
  PROVE  /\ k \in DOMAIN db'.runs
         /\ db'.runs[k].agent = db.runs[k].agent /\ db'.runs[k].on = db.runs[k].on
         /\ \/ k \in Active(db')
            \/ /\ db'.runs[k].status = "finished"
               /\ db.runs[k].agent = "reviewer" =>
                    FirstVerdict(db, tick[t].open \cup tick[t].closed, k)
               /\ db.runs[k].agent = "implementer" => db.runs[k].on \in Mentioned(t)
<1> DEFINE r == Reconciled(t)
           landed == LandedIssues(tick[t].closed)
           seen == tick[t].open \cup tick[t].closed
<1>0. /\ r[1] = complete_reviewer_runs(db, seen)
      /\ r[2] = complete_implementer_runs(r[1], Mentions(t))
      /\ r[3] = mark_merged_batches(r[2], landed)
      /\ r[4] = UpdateRuns(r[3], StaleQueued(r[3]), "timeout")
      /\ db' = reset_batches(r[4], zombie_batches(r[4]))
  BY DEF Reconcile, Reconciled, reap_stale_queued_runs, recover_zombie_batches
<1>1. /\ DbInv(r[1]) /\ DbInv(r[2]) /\ DbInv(r[3]) /\ DbInv(r[4])
      /\ RunsSettle(db, r[1], Mentioned(t)) /\ RunsSettle(db, r[2], Mentioned(t))
      /\ RunsSettle(db, r[3], Mentioned(t)) /\ RunsSettle(db, r[4], Mentioned(t))
  BY ReconciliationsSettle DEF Settled, Settles
<1> HIDE DEF r, landed, seen
<1>2. /\ db \in Db /\ r[1] \in Db /\ r[2] \in Db /\ r[3] \in Db
  BY <1>1 DEF DbInv
<1>3. /\ k \in DOMAIN db.runs /\ k \in Queued(db) /\ db.runs[k].age = "fresh"
      /\ db.runs[k].status = "queued" /\ db.runs[k].agent \in {"reviewer", "implementer"}
  <2>1. k \in DOMAIN db.runs
    BY DEF Active, Queued
  <2>2. db.runs[k] \in Run
    BY <1>2, <2>1, DbFields
  <2>3. QED
    BY <2>1, <2>2 DEF Active, Queued, Run
<1>4. \A n \in {1, 2, 3, 4} :
        /\ DOMAIN r[n].runs = DOMAIN db.runs
        /\ r[n].runs[k].agent = db.runs[k].agent /\ r[n].runs[k].on = db.runs[k].on
        /\ r[n].runs[k].age = "fresh"
  BY <1>1, <1>3 DEF RunsSettle
<1>5. \/ r[1].runs[k].status = "queued"
      \/ /\ r[1].runs[k].status = "finished"
         /\ db.runs[k].agent = "reviewer" /\ FirstVerdict(db, seen, k)
  BY <1>0, <1>2, <1>3, ReviewersEnded
<1>6. \/ r[2].runs[k].status = "queued"
      \/ /\ r[2].runs[k].status = "finished"
         /\ db.runs[k].agent = "reviewer" => FirstVerdict(db, seen, k)
  <2>1. CASE r[1].runs[k].status = "queued"
    <3>1. k \in Queued(r[1])
      BY <1>3, <1>4, <2>1 DEF Queued
    <3>2. \/ r[2].runs[k].status = "queued"
          \/ r[2].runs[k].status = "finished" /\ r[1].runs[k].agent = "implementer"
      BY <1>0, <1>2, <3>1, ImplementersEnded
    <3>3. QED
      BY <1>4, <3>2
  <2>2. CASE r[1].runs[k].status = "finished"
    <3>1. Settles(r[1], r[2], Mentioned(t), {})
      <4>1. \A m \in Mentions(t) : m.issue \in Mentioned(t)
        BY DEF Mentioned
      <4>2. QED
        BY <1>0, <1>1, <4>1, ImplementerRunsSettle
    <3>2. r[2].runs[k].status = "finished"
      BY <1>3, <1>4, <2>2, <3>1 DEF Settles, RunsSettle
    <3>3. QED
      BY <1>5, <2>2, <3>2
  <2>3. QED
    BY <1>5, <2>1, <2>2
<1>7. r[3].runs = r[2].runs
  BY <1>0, <1>2 DEF mark_merged_batches, Db
<1>8. r[4].runs[k].status = r[3].runs[k].status
  <2>1. k \in DOMAIN r[3].runs /\ k \notin StaleQueued(r[3])
    BY <1>3, <1>4 DEF StaleQueued
  <2>2. QED
    BY <1>0, <1>2, <2>1, StatusUpdated
<1>9. db'.runs = r[4].runs
  BY <1>0, <1>1, ZombiesRecovered
<1>10. /\ k \in DOMAIN db'.runs /\ db'.runs[k].age = "fresh"
       /\ db'.runs[k].agent = db.runs[k].agent /\ db'.runs[k].on = db.runs[k].on
  BY <1>3, <1>4, <1>9
<1>11. CASE r[2].runs[k].status = "queued"
  BY <1>7, <1>8, <1>9, <1>10, <1>11 DEF Active, Queued
<1>12. CASE r[2].runs[k].status = "finished"
  <2>1. db'.runs[k].status = "finished" /\ r[4].runs[k].status = "finished"
    BY <1>7, <1>8, <1>9, <1>12
  <2>2. db.runs[k].agent = "implementer" => db.runs[k].on \in Mentioned(t)
    BY <1>1, <1>3, <2>1 DEF RunsSettle
  <2>3. QED
    BY <1>6, <1>10, <1>12, <2>1, <2>2 DEF seen
<1>13. QED
  BY <1>6, <1>11, <1>12

(* A first verdict is noted, and costs the PR one run.                     *)
LEMMA VerdictsNoted ==
  ASSUME DbInv(db), NEW t, Reconcile(t), NEW p \in PRs
  PROVE  /\ db' \in Db
         /\ (p \in db.reviewed \/ Judged(tick[t].open \cup tick[t].closed, p))
              => p \in db'.reviewed
<1> DEFINE r == Reconciled(t)
           seen == tick[t].open \cup tick[t].closed
           new == {q \in PRs \ db.reviewed :
                     \E x \in seen : x.pr = q /\ x.review \in Verdicts}
<1>1. /\ r[1] = complete_reviewer_runs(db, seen)
      /\ r[2] = complete_implementer_runs(r[1], Mentions(t))
      /\ r[3] = mark_merged_batches(r[2], LandedIssues(tick[t].closed))
      /\ r[4] = UpdateRuns(r[3], StaleQueued(r[3]), "timeout")
      /\ db' = reset_batches(r[4], zombie_batches(r[4]))
  BY DEF Reconcile, Reconciled, reap_stale_queued_runs, recover_zombie_batches
<1>2. db \in Db /\ r[1] \in Db /\ r[2] \in Db /\ r[3] \in Db /\ r[4] \in Db /\ db' \in Db
  <2>1. DbInv(r[1]) /\ DbInv(r[2]) /\ DbInv(r[3]) /\ DbInv(r[4])
    BY ReconciliationsSettle DEF Settled
  <2>2. DbInv(db')
    BY PollbackDb DEF PollbackLeaves
  <2>3. QED
    BY <2>1, <2>2 DEF DbInv
<1> HIDE DEF r, seen
<1>3. r[1].reviewed = db.reviewed \cup new
  BY <1>1, <1>2 DEF complete_reviewer_runs, UpdateRuns, Db
<1> HIDE DEF new
<1>4. r[2].reviewed = r[1].reviewed
  BY <1>1, <1>2 DEF complete_implementer_runs, UpdateRuns, Db
<1>5. r[3].reviewed = r[2].reviewed
  BY <1>1, <1>2 DEF mark_merged_batches, Db
<1>6. r[4].reviewed = r[3].reviewed
  BY <1>1, <1>2, UpdateRunsFacts
<1>7. db'.reviewed = r[4].reviewed
  BY <1>1, <1>2 DEF reset_batches, Db
<1>8. QED
  BY <1>2, <1>3, <1>4, <1>5, <1>6, <1>7 DEF new, seen, Judged

(* A pollback takes one run of a PR at most, and that on a first verdict.  *)
LEMMA ReviewRunsReconciled ==
  ASSUME DbInv(db), NEW t, Reconcile(t), NEW p \in PRs
  PROVE  LET before == Cardinality(ReviewRuns(db, p))
             after  == Cardinality(ReviewRuns(db', p))
         IN  /\ before \in Nat /\ after \in Nat
             /\ \/ before <= after
                \/ /\ before <= after + 1 /\ p \notin db.reviewed
                   /\ Judged(tick[t].open \cup tick[t].closed, p)
<1> DEFINE seen == tick[t].open \cup tick[t].closed
           R == ReviewRuns(db, p)
           S == ReviewRuns(db', p)
           last == LastOf(QueuedFor(db, "reviewer", p), 1)
           first == p \notin db.reviewed /\ Judged(seen, p)
<1>0. db \in Db /\ db' \in Db
  BY VerdictsNoted DEF DbInv
<1>1. /\ IsFiniteSet(R) /\ Cardinality(R) \in Nat
      /\ IsFiniteSet(S) /\ Cardinality(S) \in Nat
  BY <1>0, ReviewRunsFinite
<1>2. ASSUME NEW k \in R PROVE k \in S \/ (k \in last /\ first)
  <2>1. k \in Active(db) /\ db.runs[k].agent = "reviewer" /\ db.runs[k].on = p
    BY DEF ReviewRuns, QueuedFor
  <2>2. /\ db'.runs[k].agent = "reviewer" /\ db'.runs[k].on = p
        /\ k \in Active(db') \/ FirstVerdict(db, seen, k)
    BY <2>1, ActiveRunReconciled
  <2>3. QED
    BY <2>1, <2>2 DEF ReviewRuns, QueuedFor, FirstVerdict, Active
<1> HIDE DEF R, S, seen
<1>3. CASE ~ first
  <2>1. R \subseteq S
    BY <1>2, <1>3
  <2>2. Cardinality(R) <= Cardinality(S)
    BY <1>1, <2>1, FS_Subset
  <2>3. QED
    BY <1>1, <2>2 DEF R, S
<1>4. CASE first
  <2>1. IsFiniteSet(last) /\ Cardinality(last) \in Nat /\ Cardinality(last) <= 1
    <3> DEFINE Q == QueuedFor(db, "reviewer", p)
    <3>0. Len(db.runs) \in Nat /\ DOMAIN db.runs = 1 .. Len(db.runs)
      BY <1>0, DbFields
    <3>1. Q \in SUBSET (1 .. Len(db.runs)) /\ Q \in SUBSET Nat
      BY <3>0 DEF QueuedFor, Queued
    <3>2. IsFiniteSet(1 .. Len(db.runs))
      BY <3>0, FS_Interval
    <3>3. IsFiniteSet(Q)
      BY <3>1, <3>2, FS_Subset
    <3> HIDE DEF Q
    <3>4. IsFiniteSet(LastOf(Q, 1)) /\ Cardinality(LastOf(Q, 1)) <= 1
      BY <3>1, <3>3, LastOfCardinality
    <3>5. QED
      BY <3>4, FS_CardinalityType DEF Q
  <2> HIDE DEF last
  <2>2. R \subseteq S \cup last
    BY <1>2
  <2>3. /\ IsFiniteSet(S \cup last) /\ Cardinality(S \cup last) \in Nat
        /\ Cardinality(S \cup last) <= Cardinality(S) + Cardinality(last)
    <3>1. IsFiniteSet(S \cup last) /\ IsFiniteSet(S \cap last)
      BY <1>1, <2>1, FS_Union, FS_Intersection
    <3>2. Cardinality(S \cup last)
            = Cardinality(S) + Cardinality(last) - Cardinality(S \cap last)
      BY <1>1, <2>1, FS_Union
    <3>3. Cardinality(S \cap last) \in Nat /\ Cardinality(S \cup last) \in Nat
      BY <3>1, FS_CardinalityType
    <3>4. QED
      BY <1>1, <2>1, <3>1, <3>2, <3>3
  <2>4. Cardinality(R) <= Cardinality(S \cup last)
    BY <2>2, <2>3, FS_Subset
  <2>5. Cardinality(R) <= Cardinality(S) + 1
    BY <1>1, <2>1, <2>3, <2>4
  <2>6. QED
    BY <1>1, <1>4, <2>5 DEF R, S, seen
<1>5. QED
  BY <1>3, <1>4

(* And a mentioned issue with a fresh run has its PR linked.               *)
LEMMA MentionedIsLinked ==
  ASSUME DbInv(db), NEW t, Reconcile(t), NEW i \in Issues, i \in Mentioned(t), InHand(i)
  PROVE  db'.batch[i].pr_number = "set"
<1> DEFINE r == Reconciled(t)
           landed == LandedIssues(tick[t].closed)
           seen == tick[t].open \cup tick[t].closed
           k == db.batch[i].run
<1>0. /\ r[1] = complete_reviewer_runs(db, seen)
      /\ r[2] = complete_implementer_runs(r[1], Mentions(t))
      /\ r[3] = mark_merged_batches(r[2], landed)
      /\ r[4] = UpdateRuns(r[3], StaleQueued(r[3]), "timeout")
      /\ db' = reset_batches(r[4], zombie_batches(r[4]))
  BY DEF Reconcile, Reconciled, reap_stale_queued_runs, recover_zombie_batches
<1>1. /\ DbInv(r[1]) /\ DbInv(r[2]) /\ DbInv(r[3]) /\ DbInv(r[4])
      /\ RunsSettle(db, r[1], Mentioned(t))
  BY ReconciliationsSettle DEF Settled, Settles
<1> HIDE DEF r, landed, seen
<1>2. /\ k \in DOMAIN db.runs /\ k \in Queued(db)
      /\ db.runs[k].agent = "implementer" /\ db.runs[k].on = i
  BY DEF DbInv, InHand, Active, Queued
<1>3. r[1].runs[k].status = "queued"
  <2>1. db \in Db /\ k \in Queued(db)
    BY <1>2 DEF DbInv
  <2>2. r[1] = complete_reviewer_runs(db, seen)
    BY <1>0
  <2>3. \/ r[1].runs[k].status = "queued" \/ db.runs[k].agent = "reviewer"
    BY <2>1, <2>2, ReviewersEnded
  <2>4. QED
    BY <1>2, <2>3
<1>4. k \in QueuedFor(r[1], "implementer", i)
  BY <1>1, <1>2, <1>3 DEF QueuedFor, Queued, RunsSettle
<1>5. PICK m \in Mentions(t) : m.issue = i
  BY DEF Mentioned
<1> HIDE DEF k
<1>6. RunsToComplete(r[1], Mentions(t), i) # {}
  <2>1. r[1] \in Db /\ IsFiniteSet(Mentions(t))
    BY <1>1, MentionsFinite DEF DbInv
  <2>2. k \in QueuedFor(r[1], "implementer", m.issue)
    BY <1>4, <1>5
  <2>3. RunsToComplete(r[1], Mentions(t), m.issue) # {}
    BY <2>1, <2>2, MentionedRunIsCompleted
  <2>4. QED
    BY <1>5, <2>3
<1>7. r[2].batch[i].pr_number = "set"
  BY <1>0, <1>1, <1>6, ImplementersEnded DEF DbInv
<1>8. r[3].batch[i].pr_number = "set"
  <2>1. Settles(r[2], r[3], {}, landed)
    BY <1>0, <1>1, MergedBatchesSettle
  <2>2. QED
    BY <1>7, <2>1 DEF Settles, BatchesSettle
<1>9. r[4].batch[i].pr_number = "set"
  <2>1. Settles(r[3], r[4], {}, {})
    BY <1>0, <1>1, ReapedRunsSettle
  <2>2. QED
    BY <1>8, <2>1 DEF Settles, BatchesSettle
<1>10. db'.batch[i] = r[4].batch[i] \/ GivenUp(r[4], db', i)
  BY <1>0, <1>1, ZombiesRecovered
<1>11. QED
  BY <1>9, <1>10 DEF GivenUp

(* What a pollback does to the batch of a session's issue.                 *)
LEMMA InHandReconciled ==
  ASSUME IInv, Linked(db), NEW t \in Ticks, Reconcile(t), NEW i \in Issues, InHand(i)
  PROVE  /\ InHand(i)' \/ Known(i)'
         /\ i \in Mentioned(t) => Known(i)'
         /\ i \notin Mentioned(t) => InHand(i)'
<1> DEFINE k == db.batch[i].run
<1>0. TypeOK /\ DbInv(db) /\ DbInv(db') /\ Linked(db')
  <2>1. DbInv(db) /\ TypeOK
    BY DEF IInv
  <2>2. DbInv(db')
    BY <2>1, PollbackDb DEF PollbackLeaves
  <2>3. QED
    BY <2>1, <2>2, ReconcileLinks
<1>1. /\ k \in Active(db) /\ db.batch[i].status = "in_progress"
      /\ db.runs[k].agent = "implementer" /\ db.runs[k].on = i
  BY <1>0 DEF InHand, DbInv
<1> HIDE DEF k
<1>2. /\ k \in DOMAIN db'.runs
      /\ db'.runs[k].agent = "implementer" /\ db'.runs[k].on = i
      /\ \/ k \in Active(db')
         \/ db'.runs[k].status = "finished" /\ i \in Mentioned(t)
  BY <1>0, <1>1, ActiveRunReconciled
<1>3. \/ Kept(db, db', i)
      \/ Merged(db, db', i) /\ i \in LandedIssues(tick[t].closed)
      \/ Retried(db, db', i)
  BY <1>0, PollbackDb, PollbackMoves
<1>4. ~ Retried(db, db', i)
  BY <1>2 DEF Retried, k, Active, Queued
<1>5. /\ db'.batch[i].run = k
      /\ db'.batch[i].status = "in_progress" \/ Known(i)'
  BY <1>1, <1>3, <1>4 DEF Kept, Merged, Known, k
<1>6. i \in LandedIssues(tick[t].closed) => i \in Mentioned(t)
  <2> SUFFICES ASSUME i \in LandedIssues(tick[t].closed) PROVE i \in Mentioned(t)
    OBVIOUS
  <2>1. tick[t].closed \subseteq Fetched
    BY <1>0, TickFields DEF Tick
  <2>2. PICK x \in tick[t].closed : i \in pr[x.pr].closes /\ x.pr \in PRs
    BY <2>1 DEF LandedIssues, Fetched
  <2> DEFINE m == [list |-> "closed", pr |-> x.pr, issue |-> i]
  <2>3. m \in Mentions(t)
    BY <2>2 DEF Mentions
  <2>4. QED
    BY <2>3 DEF Mentioned
<1>7. i \in Mentioned(t) => Known(i)'
  BY <1>0, <1>5, MentionedIsLinked DEF Known
<1>8. i \notin Mentioned(t) => InHand(i)'
  BY <1>1, <1>2, <1>3, <1>4, <1>6 DEF InHand, Kept, k
<1>9. QED
  BY <1>7, <1>8

(* The tick starts afresh.                                                 *)
LEMMA ReconcileStartsAfresh ==
  ASSUME TypeOK, NEW t \in Ticks, Reconcile(t)
  PROVE  /\ tick'[t].pc \in {"load", "unlabel"} /\ tick'[t].plan = <<>>
         /\ tick'[t].todo = {} /\ tick'[t].review = {}
         /\ tick'[t].open = {} /\ tick'[t].closed = {}
<1> DEFINE zombies == zombie_batches(Reconciled(t)[4])
           step == IF zombies = {} THEN "load" ELSE "unlabel"
<1>1. tick'[t] = [IdleTick EXCEPT !.pc = step, !.zombies = zombies]
  BY DEF Reconcile, TypeOK
<1>2. step \in {"load", "unlabel"}
  OBVIOUS
<1> HIDE DEF zombies, step
<1>3. QED
  BY <1>1, <1>2 DEF IdleTick

(* The pollback: no session loses its run, no batch with a PR goes back to *)
(* pending, and no merged PR falls behind the cursor unseen.               *)
LEMMA ReconcileFits ==
  ASSUME IInv, Linked(db), NEW t \in Ticks, SessionInv(t), Reconcile(t)
  PROVE  SessionInv(t)'
<1>0. TypeOK /\ DbInv(db)
  BY DEF IInv
<1>1. /\ tick[t].pc = "reconcile" /\ recent' = {}
      /\ UNCHANGED <<pr, sessions, reviewing>>
  BY DEF Reconcile, agents
<1>2. /\ tick'[t].pc \in {"load", "unlabel"} /\ tick'[t].plan = <<>>
      /\ tick'[t].todo = {} /\ tick'[t].review = {}
      /\ tick'[t].open = {} /\ tick'[t].closed = {}
  BY <1>0, ReconcileStartsAfresh
<1>3. /\ \A p : ~ Asked(t, p) /\ ~ Asked(t, p)' /\ ~ Noticed(t, p)'
      /\ \A i : ~ Started(t, i) /\ ~ Started(t, i)'
      /\ \A p \in PRs : Live(p)' = Live(p)
  BY <1>1, <1>2 DEF Asked, Started, Live, Noticed
<1>4. \A i \in Issues : Known(i) => Known(i)'
  <2> TAKE i \in Issues
  <2>1. Kept(db, db', i) \/ Merged(db, db', i) \/ Retried(db, db', i)
    BY <1>0, PollbackDb, PollbackMoves
  <2>2. QED
    BY <2>1 DEF Known, Kept, Merged, Retried
<1>5. ASSUME NEW p \in PRs PROVE PRFits(t, p)'
  BY <1>1, <1>2 DEF SessionInv, PRFits, Seen
<1>6. ASSUME NEW p \in PRs PROVE ReviewerFits(t, p)'
  <2> DEFINE seen  == tick[t].open \cup tick[t].closed
             owed  == IF ToNotice(p) /\ p \notin db.reviewed THEN 1 ELSE 0
             runs  == Cardinality(ReviewRuns(db, p))
             later == Cardinality(ReviewRuns(db', p))
             first == p \notin db.reviewed /\ Judged(seen, p)
  <2>1. /\ reviewing[p] \in Nat /\ reviewing[p] + owed <= runs
        /\ reviewing[p] > 0 /\ first => reviewing[p] < runs
        /\ reviewing[p] > 0 => Live(p)
    <3>1. ReviewerFits(t, p) /\ ~ Asked(t, p) /\ reviewing[p] \in Nat
      BY <1>0, <1>3 DEF SessionInv, TypeOK
    <3>2. first /\ reviewing[p] > 0 => Noticed(t, p)
      BY <1>1 DEF Noticed
    <3>3. /\ reviewing[p] > 0 => Live(p)
          /\ reviewing[p] + owed <= runs + (IF Asked(t, p) THEN 1 ELSE 0)
          /\ reviewing[p] > 0 /\ Noticed(t, p) /\ p \notin db.reviewed => reviewing[p] < runs
      BY <3>1 DEF ReviewerFits
    <3> HIDE DEF owed, runs
    <3>4. (IF Asked(t, p) THEN 1 ELSE 0) = 0
      BY <3>1
    <3>5. runs \in Nat
      BY <1>0, ReviewRunsFinite DEF runs, TypeOK
    <3>6. reviewing[p] + owed <= runs
      BY <3>3, <3>4, <3>5
    <3>7. first => p \notin db.reviewed
      OBVIOUS
    <3> HIDE DEF first
    <3>8. QED
      BY <3>1, <3>2, <3>3, <3>6, <3>7
  <2>2. /\ runs \in Nat /\ later \in Nat
        /\ runs <= later \/ (runs <= later + 1 /\ first)
    BY <1>0, ReviewRunsReconciled
  <2>3. /\ owed \in {0, 1} /\ owed' \in {0, 1} /\ owed' <= owed
        /\ first => owed' = 0
    <3>1. p \in db.reviewed \/ Judged(seen, p) => p \in db'.reviewed
      BY <1>0, VerdictsNoted
    <3>2. ToNotice(p)' => ToNotice(p)
      BY <1>1 DEF ToNotice, OpenPRs
    <3>3. QED
      BY <3>1, <3>2
  <2> HIDE DEF owed, runs, later, first
  <2>4. reviewing'[p] + owed' <= later + 0
    BY <1>1, <2>1, <2>2, <2>3
  <2>5. reviewing'[p] > 0 => Live(p)'
    BY <1>1, <1>3, <2>1
  <2>6. QED
    BY <1>3, <2>4, <2>5 DEF ReviewerFits, owed, later
<1>7. \A i \in Mentioned(t) :
        \E p \in PRs : /\ p \in Seen(tick[t].open \cup tick[t].closed)
                       /\ i \in pr[p].closes
  BY DEF Mentioned, Mentions, Seen
<1>8. ASSUME NEW p \in PRs, p \in Seen(tick[t].open \cup tick[t].closed),
             NEW i \in pr[p].closes
      PROVE  i \in Mentioned(t)
  <2>1. PICK x \in tick[t].open \cup tick[t].closed : x.pr = p
    BY <1>8 DEF Seen
  <2>2. i \in Issues
    BY <1>0 DEF TypeOK
  <2> DEFINE m(list) == [list |-> list, pr |-> p, issue |-> i]
  <2>3. m("open") \in Mentions(t) \/ m("closed") \in Mentions(t)
    BY <2>1, <2>2 DEF Mentions
  <2>4. QED
    BY <2>3 DEF Mentioned
<1>9. ASSUME NEW i \in Issues PROVE WorkFits(t, i)'
  <2>1. WorkFits(t, i) /\ sessions[i] \in Nat
    BY <1>0 DEF SessionInv, TypeOK
  <2>2. ASSUME sessions[i] > 0 PROVE InHand(i)'
    <3>1. InHand(i)
      BY <1>3, <2>1, <2>2 DEF WorkFits
    <3>2. ASSUME i \in Mentioned(t) PROVE FALSE
      <4>1. PICK p \in PRs : /\ p \in Seen(tick[t].open \cup tick[t].closed)
                             /\ i \in pr[p].closes
        BY <1>7, <3>2
      <4>2. Live(p)
        BY <4>1 DEF SessionInv, PRFits
      <4>3. sessions[i] = 0
        BY <4>1, <4>2 DEF SessionInv, DeliveryFits, Dropped
      <4>4. QED
        BY <2>2, <4>3
    <3>3. QED
      BY <3>1, <3>2, InHandReconciled
  <2>3. DOMAIN (<<>>) = {}
    OBVIOUS
  <2>4. QED
    BY <1>1, <1>2, <2>1, <2>2, <2>3 DEF WorkFits
<1>10. ASSUME NEW p \in PRs, Live(p), ~ Dropped(t, p), ~ Dropped(t, p)',
              NEW i \in pr[p].closes
       PROVE  DeliveryFits(t, p, i)'
  <2>1. DeliveryFits(t, p, i) /\ PRFits(t, p) /\ i \in Issues
    BY <1>0, <1>10 DEF SessionInv, TypeOK
  <2>2. Known(i) \/ InHand(i)
    BY <1>3, <2>1 DEF DeliveryFits
  <2>3. Known(i)' \/ InHand(i)'
    BY <1>4, <2>1, <2>2, InHandReconciled
  <2>4. ASSUME pr[p].state \in {"merged", "closed"} PROVE Known(i)'
    <3>1. Reviewed(p)
      BY <1>1, <1>2, <1>10, <2>4 DEF Reviewed, Dropped, Seen
    <3>2. p \in Seen(tick[t].open \cup tick[t].closed) \/ Known(i)
      BY <1>1, <2>1, <3>1 DEF DeliveryFits
    <3>3. QED
      BY <1>4, <1>8, <2>1, <2>2, <3>2, InHandReconciled
  <2>5. QED
    BY <1>1, <1>2, <2>1, <2>3, <2>4 DEF DeliveryFits
<1>11. \A p \in PRs : Dropped(t, p) => Dropped(t, p)'
  BY <1>1, <1>2 DEF Dropped, Seen, Reviewed
<1>12. QED
  BY <1>3, <1>5, <1>6, <1>9, <1>10, <1>11, <1>1 DEF SessionInv

-----------------------------------------------------------------------------
(* The theorem.                                                            *)

(* Nobody is at work at first.                                             *)
LEMMA SessionInit == ASSUME Init, NEW t \in Ticks PROVE SessionInv(t)
<1>1. /\ tick[t].pc = "idle" /\ DOMAIN tick[t].plan = {}
      /\ tick[t].todo = {} /\ tick[t].review = {}
      /\ tick[t].open = {} /\ tick[t].closed = {}
  BY DEF Init, IdleTick
<1>2. /\ \A p \in PRs : /\ pr[p].state = "none" /\ pr[p].closes = {}
                        /\ reviewing[p] = 0
      /\ \A i \in Issues : sessions[i] = 0
      /\ recent = {}
  BY DEF Init
<1>3. \A p \in PRs : PRFits(t, p) /\ ReviewerFits(t, p) /\ ~ Live(p)
  <2> TAKE p \in PRs
  <2>1. PRFits(t, p) /\ ~ Live(p)
    BY <1>1, <1>2 DEF PRFits, Live, Single, Seen
  <2>2. ~ ToNotice(p) /\ ~ Asked(t, p)
    BY <1>1, <1>2 DEF ToNotice, OpenPRs, Asked
  <2>3. Cardinality(ReviewRuns(db, p)) \in Nat
    BY EmptyDbConsistent, ReviewRunsFinite DEF Init, DbInv
  <2>4. QED
    BY <1>2, <2>1, <2>2, <2>3 DEF ReviewerFits
<1>4. \A i \in Issues : WorkFits(t, i)
  BY <1>1, <1>2 DEF WorkFits
<1>5. QED
  BY <1>3, <1>4 DEF SessionInv

(* Every step that goes smoothly preserves the invariant.                  *)
LEMMA SessionStep ==
  ASSUME IInv, FinishedRunIsLinked, NEW t, Ticks = {t}, Smooth,
         \A c \in ClosingSets : Single(c), SessionInv(t), [Next]_vars
  PROVE  SessionInv(t)'
<1>0. TypeOK /\ t \in Ticks /\ Linked(db)
  BY DEF IInv, FinishedRunIsLinked, Linked
<1>1. ASSUME TickStep(t) PROVE SessionInv(t)'
  <2>1. CASE \/ PollOpen(t) \/ PollClosed(t) \/ UnlabelZombie(t) \/ Load(t)
             \/ FetchPRs(t) \/ Decide(t) \/ IssueGet(t)
    BY <1>0, <2>1, LocalSteps, LocalStepFits
  <2>2. CASE Reconcile(t)
    BY <1>0, <2>2, ReconcileFits
  <2>3. CASE ReviewComment(t) \/ ReviewLabel(t) \/ ReviewCommit(t)
    BY <1>0, <2>3, ReviewCommentFits, ReviewLabelFits, ReviewCommitFits
  <2>4. CASE IssueComment(t) \/ IssueLabel(t) \/ IssueCommit(t)
    BY <1>0, <2>4, IssueCommentFits, IssueLabelFits, IssueCommitFits
  <2>5. QED
    BY <1>1, <2>1, <2>2, <2>3, <2>4 DEF TickStep
<1>2. ASSUME NEW i \in Issues, AgentOpensPR(i) \/ AgentDies(i) PROVE SessionInv(t)'
  BY <1>0, <1>2, AgentOpensPRFits, AgentDiesFits
<1>3. ASSUME NEW p \in PRs, \/ ReviewerVerdict(p) \/ ReviewerDies(p)
                            \/ MergePR(p) /\ pr[p].review = "approved"
                            \/ ClosePR(p)
                            \/ ForceReview(p) /\ "force_review" \in Upsets
      PROVE  SessionInv(t)'
  BY <1>0, <1>3, ReviewerLeavesFits, EndFits, ForceFits
<1>4. ASSUME NEW k \in DOMAIN db.runs, RunAges(k), ~ Awaited(db.runs[k])
      PROVE  SessionInv(t)'
  BY <1>0, <1>4, AgingFits
<1>5. CASE UNCHANGED <<db, recent, pr, sessions, reviewing, tick>>
  <2>1. /\ \A i : Known(i)' = Known(i) /\ Pends(i)' = Pends(i) /\ InHand(i)' = InHand(i)
        /\ \A p : Asked(t, p)' = Asked(t, p) /\ Noticed(t, p)' = Noticed(t, p)
    BY <1>5, OutsideStep
  <2>2. /\ \A p \in PRs : pr[p].closes \subseteq Issues
        /\ \A i \in Issues : sessions[i] \in Nat
    BY <1>0 DEF TypeOK
  <2>3. ASSUME NEW p \in PRs PROVE ReviewerFits(t, p)'
    <3>1. Live(p)' = Live(p) /\ ToNotice(p)' = ToNotice(p) /\ db' \in Db
      BY <1>0, <1>5 DEF Live, ToNotice, OpenPRs, TypeOK
    <3>2. QED
      BY <1>0, <1>5, <2>1, <3>1, ReviewersKept DEF SessionInv
  <2>4. QED
    BY <1>5, <2>1, <2>2, <2>3, DbStep
<1>6. QED
  BY <1>0, <1>1, <1>2, <1>3, <1>4, <1>5, SmoothSteps, PlannerFits

(* The run that stands for a session at work, 0 for the one that the tick  *)
(* has not recorded yet.                                                   *)
Numbering(S) == CHOOSE f : f \in Bijection(1 .. Cardinality(S), S)

RunOfSession(x) ==
  IF x[1] = "implementer"
  THEN IF InHand(x[2]) THEN db.batch[x[2]].run ELSE 0
  ELSE LET runs == ReviewRuns(db, x[2]) IN
       IF x[3] <= Cardinality(runs) THEN Numbering(runs)[x[3]] ELSE 0

Unrecorded(t) == (\E p \in PRs : Asked(t, p)) \/ \E i \in Issues : Started(t, i)

(* No two sessions have the same run.                                      *)
LEMMA RunsOfSessions ==
  ASSUME IInv, NEW t \in Ticks, SessionInv(t)
  PROVE  [x \in AtWork |-> RunOfSession(x)]
           \in Injection(AtWork, Active(db) \cup IF Unrecorded(t) THEN {0} ELSE {})
<1> DEFINE target == Active(db) \cup IF Unrecorded(t) THEN {0} ELSE {}
           Impl(x, i) == x = <<"implementer", i, 1>> /\ (InHand(i) \/ Started(t, i))
           runs(p) == ReviewRuns(db, p)
           Rev(x, p, n) ==
             /\ x = <<"reviewer", p, n>> /\ n \in Nat \ {0}
             /\ \/ n <= Cardinality(runs(p))
                \/ n = Cardinality(runs(p)) + 1 /\ Asked(t, p)
<1>0. TypeOK /\ DbInv(db)
  BY DEF IInv
<1>0a. \A p : Numbering(runs(p)) \in Bijection(1 .. Cardinality(runs(p)), runs(p))
  <2> TAKE p
  <2>1. ExistsBijection(1 .. Cardinality(runs(p)), runs(p))
    BY <1>0, ReviewRunsFinite, FS_CardinalityType DEF TypeOK
  <2>2. QED
    BY <2>1 DEF Numbering, ExistsBijection
<1>1. ASSUME NEW x \in AtWork
      PROVE  (\E i \in Issues : Impl(x, i)) \/ \E p \in PRs : \E n \in Nat : Rev(x, p, n)
  <2>1. CASE \E i \in Issues : \E n \in 1 .. sessions[i] : x = <<"implementer", i, n>>
    <3>0. PICK i \in Issues : \E n \in 1 .. sessions[i] : x = <<"implementer", i, n>>
      BY <2>1
    <3>1. PICK n \in 1 .. sessions[i] : x = <<"implementer", i, n>>
      BY <3>0
    <3>2. sessions[i] \in Nat /\ sessions[i] <= 1
          /\ (sessions[i] > 0 => Started(t, i) \/ InHand(i))
      BY <1>0 DEF SessionInv, WorkFits, TypeOK
    <3>3. n = 1 /\ sessions[i] > 0
      BY <3>2
    <3>4. QED
      BY <3>1, <3>2, <3>3
  <2>2. CASE \E p \in PRs : \E n \in 1 .. reviewing[p] : x = <<"reviewer", p, n>>
    <3>0. PICK p \in PRs : \E n \in 1 .. reviewing[p] : x = <<"reviewer", p, n>>
      BY <2>2
    <3>1. PICK n \in 1 .. reviewing[p] : x = <<"reviewer", p, n>>
      BY <3>0
    <3> DEFINE owed  == IF ToNotice(p) /\ p \notin db.reviewed THEN 1 ELSE 0
               asked == IF Asked(t, p) THEN 1 ELSE 0
               count == Cardinality(runs(p))
    <3>2. reviewing[p] \in Nat /\ count \in Nat /\ reviewing[p] + owed <= count + asked
      BY <1>0, ReviewRunsFinite DEF SessionInv, ReviewerFits, TypeOK
    <3>3. owed \in {0, 1} /\ asked \in {0, 1} /\ (asked = 1 => Asked(t, p))
      OBVIOUS
    <3> HIDE DEF owed, asked, count
    <3>4. n \in Nat \ {0} /\ (n <= count \/ (n = count + 1 /\ asked = 1))
      BY <3>2, <3>3
    <3>5. Rev(x, p, n)
      BY <3>1, <3>3, <3>4 DEF count
    <3>6. QED
      BY <3>4, <3>5
  <2>3. QED
    BY <2>1, <2>2 DEF AtWork
<1>2. /\ \A k \in Active(db) : k # 0
      /\ \A i \in Issues : InHand(i) =>
           LET k == db.batch[i].run IN
           k \in Active(db) /\ db.runs[k].agent = "implementer" /\ db.runs[k].on = i
  <2>1. DOMAIN db.runs = 1 .. Len(db.runs) /\ Len(db.runs) \in Nat
    BY <1>0, DbFields DEF DbInv
  <2>2. QED
    BY <1>0, <2>1 DEF InHand, Active, Queued, DbInv
<1>3. ASSUME NEW x, NEW i \in Issues, Impl(x, i)
      PROVE  \/ /\ RunOfSession(x) \in Active(db)
                /\ db.runs[RunOfSession(x)].agent = "implementer"
                /\ db.runs[RunOfSession(x)].on = i
             \/ RunOfSession(x) = 0 /\ Started(t, i)
  <2>1. x[1] = "implementer" /\ x[2] = i
    BY <1>3
  <2>2. QED
    BY <1>2, <1>3, <2>1 DEF RunOfSession
<1>4. ASSUME NEW x, NEW p \in PRs, NEW n \in Nat, Rev(x, p, n)
      PROVE  \/ /\ RunOfSession(x) \in Active(db)
                /\ db.runs[RunOfSession(x)].agent = "reviewer"
                /\ db.runs[RunOfSession(x)].on = p
                /\ n \in 1 .. Cardinality(runs(p))
                /\ RunOfSession(x) = Numbering(runs(p))[n]
             \/ RunOfSession(x) = 0 /\ Asked(t, p) /\ n = Cardinality(runs(p)) + 1
  <2>1. x[1] = "reviewer" /\ x[2] = p /\ x[3] = n
    BY <1>4
  <2>2. Cardinality(runs(p)) \in Nat
    BY <1>0, ReviewRunsFinite DEF TypeOK
  <2>3. CASE n <= Cardinality(runs(p))
    <3>1. n \in 1 .. Cardinality(runs(p))
      BY <1>4, <2>2, <2>3
    <3>2. Numbering(runs(p))[n] \in runs(p)
      BY <1>0a, <3>1 DEF Bijection, Injection
    <3>3. RunOfSession(x) = Numbering(runs(p))[n]
      BY <2>1, <2>3 DEF RunOfSession
    <3>4. QED
      BY <3>1, <3>2, <3>3 DEF ReviewRuns, QueuedFor
  <2>4. CASE ~ (n <= Cardinality(runs(p)))
    BY <1>4, <2>1, <2>4 DEF RunOfSession
  <2>5. QED
    BY <2>3, <2>4
<1>5. \A i, j : Started(t, i) /\ Started(t, j) => i = j
  BY <1>0, StartedIsUnique DEF Started
<1>6. \A p, q : Asked(t, p) /\ Asked(t, q) => p = q
  BY <1>0, AskedIsUnique DEF Asked
<1>7. \A i, p : ~ (Started(t, i) /\ Asked(t, p))
  BY DEF Started, Asked
<1>8. ASSUME NEW x \in AtWork PROVE RunOfSession(x) \in target
  BY <1>1, <1>3, <1>4, <1>8 DEF Unrecorded
<1>9. ASSUME NEW x \in AtWork, NEW y \in AtWork, RunOfSession(x) = RunOfSession(y)
      PROVE  x = y
  <2>1. ASSUME NEW i \in Issues, NEW j \in Issues, Impl(x, i), Impl(y, j) PROVE x = y
    <3>1. i = j
      BY <1>2, <1>3, <1>5, <1>9, <2>1
    <3>2. QED
      BY <2>1, <3>1
  <2>2. ASSUME NEW p \in PRs, NEW q \in PRs, NEW n \in Nat, NEW m \in Nat,
               Rev(x, p, n), Rev(y, q, m)
        PROVE  x = y
    <3>1. p = q
      BY <1>2, <1>4, <1>6, <1>9, <2>2
    <3>2. n = m
      <4>1. CASE RunOfSession(x) = 0
        <5>1. n = Cardinality(runs(p)) + 1
          BY <1>2, <1>4, <2>2, <4>1
        <5>2. m = Cardinality(runs(q)) + 1
          BY <1>2, <1>4, <1>9, <2>2, <4>1
        <5>3. QED
          BY <3>1, <5>1, <5>2
      <4>2. CASE RunOfSession(x) # 0
        <5>1. /\ n \in 1 .. Cardinality(runs(p)) /\ m \in 1 .. Cardinality(runs(p))
              /\ Numbering(runs(p))[n] = Numbering(runs(p))[m]
          BY <1>4, <1>9, <2>2, <3>1, <4>2
        <5>2. QED
          BY <1>0a, <5>1 DEF Bijection, Injection, IsInjective
      <4>3. QED
        BY <4>1, <4>2
    <3>3. QED
      BY <2>2, <3>1, <3>2
  <2>3. ASSUME NEW i \in Issues, NEW p \in PRs, NEW n \in Nat,
               \/ Impl(x, i) /\ Rev(y, p, n)
               \/ Rev(x, p, n) /\ Impl(y, i)
        PROVE  FALSE
    BY <1>2, <1>3, <1>4, <1>7, <1>9, <2>3
  <2> HIDE DEF Impl, Rev
  <2>4. QED
    BY <1>1, <2>1, <2>2, <2>3
<1>10. QED
  <2> HIDE DEF target
  <2>1. [x \in AtWork |-> RunOfSession(x)] \in Injection(AtWork, target)
    BY <1>8, <1>9 DEF Injection, IsInjective
  <2>2. QED
    BY <2>1 DEF target

(* The tick has a slot left for the session that it has not recorded.      *)
LEMMA UnrecordedIsReserved ==
  ASSUME IInv, NEW t \in Ticks, Unrecorded(t) PROVE Reserved(t) > 0
<1>0. TypeOK /\ ReviewFits
  BY DEF IInv
<1>1. ASSUME NEW p \in PRs, Asked(t, p) PROVE Reserved(t) > 0
  <2>1. p \in tick[t].review /\ tick[t].pc \notin DispatchSteps
    BY <1>1, LastOfSubset DEF Asked, DispatchSteps
  <2>2. Cardinality(tick[t].review) # 0
    BY <1>0, <2>1, TickFields, FS_EmptySet
  <2>3. Cardinality(tick[t].review) <= tick[t].slots
    BY <1>0 DEF ReviewFits
  <2>4. Cardinality(tick[t].review) \in Nat /\ tick[t].slots \in Nat
    BY <1>0, TickFields
  <2>5. QED
    BY <2>1, <2>2, <2>3, <2>4 DEF Reserved
<1>2. ASSUME NEW i \in Issues, Started(t, i) PROVE Reserved(t) > 0
  <2>1. i \in tick[t].todo /\ tick[t].pc \in DispatchSteps
    BY <1>2, FirstOfSubset DEF Started, DispatchSteps
  <2>2. Cardinality(tick[t].todo) # 0 /\ Cardinality(tick[t].todo) \in Nat
    BY <1>0, <2>1, TickFields, FS_EmptySet
  <2>3. QED
    BY <2>1, <2>2 DEF Reserved
<1>3. QED
  BY <1>1, <1>2 DEF Unrecorded

(* Every session at work has its run or its reserved slot.                 *)
LEMMA SessionsCounted ==
  ASSUME IInv, RunsWithinCeiling, NEW t, Ticks = {t}, SessionInv(t)
  PROVE  SessionsWithinCeiling
<1> DEFINE extra == IF Unrecorded(t) THEN {0} ELSE {}
           run == [x \in AtWork |-> RunOfSession(x)]
<1>0. t \in Ticks /\ db \in Db
  BY DEF IInv, TypeOK
<1>1. /\ IsFiniteSet(Active(db)) /\ Cardinality(Active(db)) \in Nat
      /\ active_run_count(db) = Cardinality(Active(db))
  BY <1>0, ActiveFinite DEF active_run_count
<1>2. /\ Cardinality(Active(db)) + Reserved(t) <= MaxInFlight
      /\ Reserved(t) \in Nat /\ MaxInFlight \in Nat
  BY <1>0, <1>1, ClaimedType DEF RunsWithinCeiling, IInv
<1>3. run \in Injection(AtWork, Active(db) \cup extra)
  BY <1>0, RunsOfSessions
<1> HIDE DEF run
<1>4. CASE Unrecorded(t)
  <2>1. extra = {0} /\ Reserved(t) > 0
    BY <1>0, <1>4, UnrecordedIsReserved
  <2>2. /\ IsFiniteSet(Active(db) \cup {0})
        /\ Cardinality(Active(db) \cup {0}) \in Nat
        /\ Cardinality(Active(db) \cup {0}) <= Cardinality(Active(db)) + 1
    BY <1>1, FS_AddElement, FS_CardinalityType
  <2>3. /\ IsFiniteSet(AtWork)
        /\ Cardinality(AtWork) <= Cardinality(Active(db) \cup {0})
    BY <1>3, <2>1, <2>2, FS_Injection
  <2>4. Cardinality(AtWork) \in Nat
    BY <2>3, FS_CardinalityType
  <2>5. QED
    BY <1>1, <1>2, <2>1, <2>2, <2>3, <2>4 DEF SessionsWithinCeiling
<1>5. CASE ~ Unrecorded(t)
  <2>1. run \in Injection(AtWork, Active(db))
    BY <1>3, <1>5
  <2>2. IsFiniteSet(AtWork) /\ Cardinality(AtWork) <= Cardinality(Active(db))
    BY <1>1, <2>1, FS_Injection
  <2>3. Cardinality(AtWork) \in Nat
    BY <2>2, FS_CardinalityType
  <2>4. QED
    BY <1>1, <1>2, <2>2, <2>3 DEF SessionsWithinCeiling
<1>6. QED
  BY <1>4, <1>5

(* With one tick at a time, requests, commits and processes that do not    *)
(* fail, results that are noticed within their hour, and PRs that close    *)
(* one issue each and are merged once they are approved, the sessions that *)
(* are really at work stay within the ceiling, however many agents and     *)
(* reviewers die or block, whatever the operator pauses, skips, closes or  *)
(* overrides, and although PRs are closed unmerged or reviewed by force,   *)
(* if not both: no session outlives the run that counts it.                *)
THEOREM SessionsStayWithinCeiling ==
  ASSUME NEW t, Ticks = {t}, Smooth, \A c \in ClosingSets : Single(c)
  PROVE  Spec => []SessionsWithinCeiling
<1>1. Init => SessionInv(t)
  BY SessionInit
<1>2. IInv /\ FinishedRunIsLinked /\ SessionInv(t) /\ [Next]_vars => SessionInv(t)'
  BY SessionStep
<1>3. IInv /\ RunsWithinCeiling /\ SessionInv(t) => SessionsWithinCeiling
  BY SessionsCounted
<1>4. Spec => []FinishedRunIsLinked
  BY FinishedRunsAreLinked DEF Smooth
<1>5. QED
  BY <1>1, <1>2, <1>3, <1>4, Invariant, CeilingHolds, PTL DEF Spec
=============================================================================
