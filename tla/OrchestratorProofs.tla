------------------------- MODULE OrchestratorProofs -------------------------
(***************************************************************************)
(* Proofs about Orchestrator, for any number of issues, PRs, ticks and     *)
(* upsets: the type invariant, the consistency of the rows of batches and  *)
(* runs, the life cycle of a batch, the ceiling on active runs, the links  *)
(* between runs and batches, and the labels of the issues.                 *)
(***************************************************************************)
EXTENDS Orchestrator, EngineDbProofs

(* The PRs a tick still has to send to the reviewer have a slot each: why  *)
(* the subtraction of ReviewCommit stays within the naturals.              *)
ReviewFits == \A t \in Ticks : Cardinality(tick[t].review) <= tick[t].slots

(* TypeOK is not inductive without the two others.                         *)
IInv == TypeOK /\ DbInv(db) /\ ReviewFits

-----------------------------------------------------------------------------
(* Who writes what.                                                        *)

(* Five actions write the database.                                        *)
LEMMA DbWriters ==
  ASSUME [Next]_vars
  PROVE  \/ UNCHANGED db
         \/ \E t \in Ticks : Reconcile(t) \/ CrashInReconcile(t)
                             \/ ReviewCommit(t) \/ IssueCommit(t)
         \/ PlannerCommit
         \/ \E k \in DOMAIN db.runs : RunAges(k)
<1>1. ASSUME NEW t \in Ticks, TickStep(t)
      PROVE  UNCHANGED db \/ Reconcile(t) \/ ReviewCommit(t) \/ IssueCommit(t)
  BY <1>1 DEF TickStep, PollOpen, PollClosed, UnlabelZombie, Load, FetchPRs,
              ReviewComment, ReviewLabel, Decide, IssueGet, IssueComment, IssueLabel
<1>2. ASSUME NEW t \in Ticks, Crash(t) PROVE UNCHANGED db
  BY <1>2 DEF Crash
<1>3. ASSUME Planner PROVE UNCHANGED db \/ PlannerCommit
  BY <1>3 DEF Planner, PlannerFetch
<1>4. ASSUME Environment PROVE UNCHANGED db \/ \E k \in DOMAIN db.runs : RunAges(k)
  BY <1>4 DEF Environment, AgentOpensPR, HumanOpensPR, AgentDies, CloseIssue,
              SkipIssue, ReviewerVerdict, ReviewerDies, MergePR, ClosePR,
              ForceReview, Pause, Resume, SetOverride
<1>5. ASSUME UNCHANGED vars PROVE UNCHANGED db
  BY <1>5 DEF vars
<1>6. QED
  BY <1>1, <1>2, <1>3, <1>4, <1>5 DEF Next

(* Nothing but a tick writes the local variables of ticks.                 *)
LEMMA TickWriters ==
  ASSUME [Next]_vars
  PROVE  \/ UNCHANGED tick
         \/ \E t \in Ticks : TickStep(t) \/ Crash(t) \/ CrashInReconcile(t)
<1>1. ASSUME Planner PROVE UNCHANGED tick
  BY <1>1 DEF Planner, PlannerFetch, PlannerCommit
<1>2. ASSUME Environment PROVE UNCHANGED tick
  BY <1>2 DEF Environment, AgentOpensPR, HumanOpensPR, AgentDies, CloseIssue,
              SkipIssue, ReviewerVerdict, ReviewerDies, MergePR, ClosePR,
              ForceReview, Pause, Resume, SetOverride, RunAges
<1>3. ASSUME UNCHANGED vars PROVE UNCHANGED tick
  BY <1>3 DEF vars
<1>4. QED
  BY <1>1, <1>2, <1>3 DEF Next

-----------------------------------------------------------------------------
(* Pollback.                                                               *)

(* The issues of the fetched PRs.                                          *)
Mentioned(t) == {m.issue : m \in Mentions(t)}

(* What the reconciliations up to the reaper leave, wherever a crash cuts  *)
(* them off.                                                               *)
Settled(t, d) ==
  DbInv(d) /\ Settles(db, d, Mentioned(t), LandedIssues(tick[t].closed))

(* And what recover_zombie_batches makes of it.                            *)
PollbackLeaves(t, e) ==
  /\ DbInv(e)
  /\ \E d : /\ Settled(t, d)
            /\ e.runs = d.runs
            /\ \A i \in Issues : e.batch[i] = d.batch[i] \/ GivenUp(d, e, i)

(* It need not have got that far.                                          *)
LEMMA SettledIsLeft ==
  ASSUME NEW t, NEW e, Settled(t, e) PROVE PollbackLeaves(t, e)
BY DEF PollbackLeaves, Settled

(* One more reconciliation.                                                *)
LEMMA SettledFurther ==
  ASSUME NEW t, NEW d, NEW e, Settled(t, d), DbInv(e),
         Settles(d, e, Mentioned(t), LandedIssues(tick[t].closed))
  PROVE  Settled(t, e)
BY SettlesTransitive DEF Settled

(* Each reconciliation works on the database the one before left.          *)
LEMMA ReconciliationChain ==
  ASSUME NEW t, NEW r, r = Reconciled(t)
  PROVE  /\ r[1] = complete_reviewer_runs(db, tick[t].open \cup tick[t].closed)
         /\ r[2] = complete_implementer_runs(r[1], Mentions(t))
         /\ r[3] = mark_merged_batches(r[2], LandedIssues(tick[t].closed))
         /\ r[4] = reap_stale_queued_runs(r[3])
         /\ r[5] = recover_zombie_batches(r[4])
BY DEF Reconciled

(* What each reconciliation leaves when it got through some of its rows.   *)
LEMMA ReviewersSettle ==
  ASSUME DbInv(db), NEW t, NEW seen, NEW e, e = complete_reviewer_runs(db, seen)
  PROVE  Settled(t, e)
BY ReviewerRunsSettle DEF Settled

(* The implementers' runs, of the mentions in M.                           *)
LEMMA ImplementersSettle ==
  ASSUME NEW t, NEW d, Settled(t, d), NEW M \in SUBSET Mentions(t),
         NEW e, e = complete_implementer_runs(d, M)
  PROVE  Settled(t, e)
<1>1. DbInv(d)
  BY DEF Settled
<1>2. \A m \in M : m.issue \in Mentioned(t)
  BY DEF Mentioned
<1>3. DbInv(e) /\ Settles(d, e, Mentioned(t), LandedIssues(tick[t].closed))
  BY <1>1, <1>2, ImplementerRunsSettle
<1>4. QED
  BY <1>3, SettledFurther

(* One run without its batch.                                              *)
LEMMA HalfDoneSettles ==
  ASSUME NEW t, NEW d, Settled(t, d), NEW m \in Mentions(t),
         NEW e, e = finish_run(d, m.issue)
  PROVE  Settled(t, e)
<1>1. DbInv(d)
  BY DEF Settled
<1>2. m.issue \in Mentioned(t)
  BY DEF Mentioned
<1>3. DbInv(e) /\ Settles(d, e, Mentioned(t), LandedIssues(tick[t].closed))
  BY <1>1, <1>2, FinishedRunSettles
<1>4. QED
  BY <1>3, SettledFurther

(* The batches of the issues in landed.                                    *)
LEMMA MergesSettle ==
  ASSUME NEW t, NEW d, Settled(t, d), NEW landed \in SUBSET LandedIssues(tick[t].closed),
         NEW e, e = mark_merged_batches(d, landed)
  PROVE  Settled(t, e)
<1>1. DbInv(d)
  BY DEF Settled
<1>2. DbInv(e) /\ Settles(d, e, Mentioned(t), LandedIssues(tick[t].closed))
  BY <1>1, MergedBatchesSettle
<1>3. QED
  BY <1>2, SettledFurther

(* The stale runs in S.                                                    *)
LEMMA ReapingSettles ==
  ASSUME NEW t, NEW d, Settled(t, d), NEW S \in SUBSET StaleQueued(d),
         NEW e, e = UpdateRuns(d, S, "timeout")
  PROVE  Settled(t, e)
<1>1. DbInv(d)
  BY DEF Settled
<1>2. DbInv(e) /\ Settles(d, e, Mentioned(t), LandedIssues(tick[t].closed))
  BY <1>1, ReapedRunsSettle
<1>3. QED
  BY <1>2, SettledFurther

(* The zombies in Z.                                                       *)
LEMMA RecoveryLeaves ==
  ASSUME NEW t, NEW d, Settled(t, d), NEW Z \in SUBSET zombie_batches(d),
         NEW e, e = reset_batches(d, Z)
  PROVE  PollbackLeaves(t, e)
<1>1. DbInv(d)
  BY DEF Settled
<1>2. /\ DbInv(e) /\ e.runs = d.runs
      /\ \A i \in Issues : e.batch[i] = d.batch[i] \/ GivenUp(d, e, i)
  BY <1>1, ZombiesRecovered
<1>3. QED
  BY <1>2 DEF PollbackLeaves


(* The first four reconciliations settle, one after the other.             *)
LEMMA ReconciliationsSettle ==
  ASSUME DbInv(db), NEW t, NEW r, r = Reconciled(t)
  PROVE  Settled(t, r[1]) /\ Settled(t, r[2]) /\ Settled(t, r[3]) /\ Settled(t, r[4])
<1>1. Settled(t, r[1])
  BY ReconciliationChain, ReviewersSettle
<1>2. Settled(t, r[2])
  BY <1>1, ReconciliationChain, ImplementersSettle
<1>3. Settled(t, r[3])
  BY <1>2, ReconciliationChain, MergesSettle
<1>4. Settled(t, r[4])
  BY <1>3, ReconciliationChain, ReapingSettles DEF reap_stale_queued_runs
<1>5. QED
  BY <1>1, <1>2, <1>3, <1>4

(* A pollback that ends its reconciliations and one that dies in them.     *)
LEMMA PollbackDb ==
  ASSUME DbInv(db), NEW t, Reconcile(t) \/ CrashInReconcile(t)
  PROVE  PollbackLeaves(t, db')
<1> DEFINE r == Reconciled(t)
<1>0. r = Reconciled(t)
  OBVIOUS
<1> HIDE DEF r
<1>1. Settled(t, r[1]) /\ Settled(t, r[2]) /\ Settled(t, r[3]) /\ Settled(t, r[4])
  BY <1>0, ReconciliationsSettle
<1>2. CASE Reconcile(t)
  <2>1. db' = recover_zombie_batches(r[4])
    BY <1>0, <1>2, ReconciliationChain DEF Reconcile
  <2>2. QED
    BY <1>1, <2>1, RecoveryLeaves DEF recover_zombie_batches
<1>3. CASE CrashInReconcile(t)
  <2> DEFINE landed == LandedIssues(tick[t].closed)
  <2>0. db' \in Interrupted(t)
    BY <1>3 DEF CrashInReconcile
  <2>1. \/ \E S : db' = complete_reviewer_runs(db, S)
        \/ \E M \in SUBSET Mentions(t) : db' = complete_implementer_runs(r[1], M)
        \/ \E M \in SUBSET Mentions(t), m \in Mentions(t) :
             db' = finish_run(complete_implementer_runs(r[1], M \ {m}), m.issue)
        \/ \E X \in SUBSET landed : db' = mark_merged_batches(r[2], X)
        \/ \E S \in SUBSET StaleQueued(r[3]) : db' = UpdateRuns(r[3], S, "timeout")
        \/ \E Z \in SUBSET zombie_batches(r[4]) : db' = reset_batches(r[4], Z)
    BY <2>0 DEF Interrupted, r
  <2>2. ASSUME NEW S, db' = complete_reviewer_runs(db, S) PROVE Settled(t, db')
    BY <2>2, ReviewersSettle
  <2>3. ASSUME NEW M \in SUBSET Mentions(t), db' = complete_implementer_runs(r[1], M)
        PROVE  Settled(t, db')
    BY <1>1, <2>3, ImplementersSettle
  <2>4. ASSUME NEW M \in SUBSET Mentions(t), NEW m \in Mentions(t),
               db' = finish_run(complete_implementer_runs(r[1], M \ {m}), m.issue)
        PROVE  Settled(t, db')
    <3>1. Settled(t, complete_implementer_runs(r[1], M \ {m}))
      BY <1>1, ImplementersSettle
    <3>2. QED
      BY <2>4, <3>1, HalfDoneSettles
  <2>5. ASSUME NEW X \in SUBSET landed, db' = mark_merged_batches(r[2], X)
        PROVE  Settled(t, db')
    BY <1>1, <2>5, MergesSettle
  <2>6. ASSUME NEW S \in SUBSET StaleQueued(r[3]), db' = UpdateRuns(r[3], S, "timeout")
        PROVE  Settled(t, db')
    BY <1>1, <2>6, ReapingSettles
  <2>7. ASSUME NEW Z \in SUBSET zombie_batches(r[4]), db' = reset_batches(r[4], Z)
        PROVE  PollbackLeaves(t, db')
    BY <1>1, <2>7, RecoveryLeaves
  <2>8. QED
    BY <2>1, <2>2, <2>3, <2>4, <2>5, <2>6, <2>7, SettledIsLeft
<1>4. QED
  BY <1>2, <1>3

-----------------------------------------------------------------------------
(* The rows of the database stay consistent.                               *)

(* The fields of a tick that the proofs below use.                         *)
LEMMA TickFields ==
  ASSUME TypeOK, NEW t \in Ticks
  PROVE  /\ tick[t] \in Tick
         /\ tick[t].review \in SUBSET PRs /\ IsFiniteSet(tick[t].review)
         /\ Cardinality(tick[t].review) \in Nat
         /\ tick[t].todo \in SUBSET Issues /\ IsFiniteSet(tick[t].todo)
         /\ Cardinality(tick[t].todo) \in Nat
         /\ tick[t].slots \in Nat
<1>1. tick[t] \in Tick
  BY DEF TypeOK
<1>2. /\ tick[t].review \in SUBSET PRs
      /\ tick[t].todo \in SUBSET Issues
      /\ tick[t].slots \in Nat
  BY <1>1 DEF Tick
<1>3. /\ IsFiniteSet(tick[t].review) /\ Cardinality(tick[t].review) \in Nat
      /\ IsFiniteSet(tick[t].todo) /\ Cardinality(tick[t].todo) \in Nat
  BY <1>2, IssuesAssumption, PRsAssumption, FS_Subset, FS_CardinalityType
<1>4. QED
  BY <1>1, <1>2, <1>3

(* RecordDispatch in the terms of the lemma about its two parts.           *)
LEMMA RecordDispatchFacts ==
  ASSUME NEW d, DbInv(d), NEW i \in Issues, NEW e, e = RecordDispatch(d, i)
  PROVE  /\ DbInv(e) /\ FinishesNone(d, e) /\ RunsKept(d, e)
         /\ active_run_count(e) = active_run_count(d) + 1
         /\ \A j \in Issues : \/ e.batch[j] = d.batch[j]
                              \/ j = i /\ Promoted(d, e, j)
<1> DEFINE c == create_run(d, "implementer", i)
<1>1. e = mark_batch_in_progress(c, i, Len(d.runs) + 1)
  BY DEF RecordDispatch
<1>2. c = create_run(d, "implementer", i)
  OBVIOUS
<1> HIDE DEF c
<1>3. QED
  BY <1>1, <1>2, DispatchRecorded

(* No step breaks the consistency of the database.                         *)
LEMMA DbStaysConsistent ==
  ASSUME IInv, [Next]_vars PROVE DbInv(db')
<1>0. TypeOK /\ DbInv(db)
  BY DEF IInv
<1>1. ASSUME NEW t \in Ticks, Reconcile(t) \/ CrashInReconcile(t) PROVE DbInv(db')
  BY <1>0, <1>1, PollbackDb DEF PollbackLeaves
<1>2. ASSUME NEW t \in Ticks, ReviewCommit(t) PROVE DbInv(db')
  <2>1. PICK p \in LastOf(tick[t].review, 1) :
          db' = create_run(db, "reviewer", p) \/ UNCHANGED db
    BY <1>2 DEF ReviewCommit
  <2>2. p \in PRs
    BY <1>0, TickFields, LastOfSubset
  <2>3. QED
    BY <1>0, <2>1, <2>2, ReviewRecorded
<1>3. ASSUME NEW t \in Ticks, IssueCommit(t) PROVE DbInv(db')
  <2>1. PICK i \in FirstOf(tick[t].todo, 1) : db' = RecordDispatch(db, i) \/ UNCHANGED db
    BY <1>3 DEF IssueCommit
  <2>2. i \in Issues
    BY <1>0, TickFields, FirstOfSubset
  <2>3. QED
    BY <1>0, <2>1, <2>2, RecordDispatchFacts
<1>4. ASSUME PlannerCommit PROVE DbInv(db')
  <2>1. db' = upsert_batches(db, planner.layer) /\ planner.layer \in Layering
    BY <1>0, <1>4 DEF PlannerCommit, TypeOK
  <2>2. QED
    BY <1>0, <2>1, BatchesUpserted
<1>5. ASSUME NEW k \in DOMAIN db.runs, RunAges(k) PROVE DbInv(db')
  <2>1. db' = [db EXCEPT !.runs[k].age = "stale"]
    BY <1>5 DEF RunAges
  <2>2. QED
    BY <1>0, <2>1, AgedRun
<1>6. QED
  BY <1>0, <1>1, <1>2, <1>3, <1>4, <1>5, DbWriters

-----------------------------------------------------------------------------
(* The local variables of a tick.                                          *)

Fits(r) == r \in Tick /\ Cardinality(r.review) <= r.slots

(* A tick may be given any local variables that fit.                       *)
LEMMA TickUpdated ==
  ASSUME TypeOK, ReviewFits, NEW t \in Ticks, NEW r, Fits(r),
         tick' = [tick EXCEPT ![t] = r]
  PROVE  tick' \in [Ticks -> Tick] /\ ReviewFits'
<1>1. tick \in [Ticks -> Tick]
  BY DEF TypeOK
<1>2. tick' \in [Ticks -> Tick]
  BY <1>1 DEF Fits
<1>3. \A s \in Ticks : tick'[s] = IF s = t THEN r ELSE tick[s]
  BY <1>1
<1>4. QED
  BY <1>2, <1>3 DEF ReviewFits, Fits

(* A tick that starts afresh has nothing to review.                        *)
LEMMA FreshFits ==
  ASSUME NEW r, r \in Tick, r.review = {} PROVE Fits(r)
<1>1. Cardinality(r.review) = 0
  BY FS_EmptySet
<1>2. r.slots \in Nat
  BY DEF Tick
<1>3. QED
  BY <1>1, <1>2 DEF Fits

(* The local variables of an idle tick.                                    *)
LEMMA IdleType == IdleTick \in Tick
<1>1. <<>> \in Layering
  <2>1. [i \in {} |-> 0] \in [{} -> Layers]
    OBVIOUS
  <2>2. <<>> = [i \in {} |-> 0]
    BY SMT
  <2>3. QED
    BY <2>1, <2>2 DEF Layering
<1>2. QED
  BY <1>1 DEF IdleTick, Tick

(* What a fetch returns.                                                   *)
LEMMA FetchType ==
  ASSUME TypeOK, NEW S \in SUBSET PRs PROVE Fetch(S) \in SUBSET Fetched
BY DEF TypeOK, Fetch, Fetched

(* The cap never exceeds the configured ceiling, whatever the override.    *)
LEMMA CapBounded ==
  ASSUME TypeOK PROVE CapEffective \in Nat /\ CapEffective <= MaxInFlight
<1>1. override \in Nat \cup {NoOverride} /\ MaxInFlight \in Nat
  BY MaxInFlightAssumption DEF TypeOK
<1>2. /\ effective_max_in_flight(override) \in Nat
      /\ effective_max_in_flight(override) <= MaxInFlight
  BY <1>1 DEF effective_max_in_flight
<1>3. QED
  BY <1>1, <1>2 DEF CapEffective

(* The free slots fill an engine up to the ceiling and not beyond.         *)
LEMMA FreeSlotsBounded ==
  ASSUME TypeOK
  PROVE  /\ FreeSlots(db) \in Nat
         /\ active_run_count(db) <= MaxInFlight =>
              active_run_count(db) + FreeSlots(db) <= MaxInFlight
<1>1. active_run_count(db) \in Nat
  BY ActiveFinite DEF TypeOK
<1>2. CapEffective \in Nat /\ CapEffective <= MaxInFlight /\ MaxInFlight \in Nat
  BY CapBounded, MaxInFlightAssumption
<1>3. QED
  BY <1>1, <1>2 DEF FreeSlots

(* The next PR leaves the list, and the slots follow or stay.              *)
LEMMA NextReviewFits ==
  ASSUME TypeOK, ReviewFits, NEW t \in Ticks, NEW p \in tick[t].review, NEW slots,
         slots \in {tick[t].slots, tick[t].slots - 1}, NextReview(t, p, slots)
  PROVE  tick' \in [Ticks -> Tick] /\ ReviewFits' /\ slots \in Nat
<1> DEFINE r == [tick[t] EXCEPT
                   !.review = @ \ {p},
                   !.slots = slots,
                   !.pc = IF tick[t].review = {p} THEN "decide" ELSE "review_comment"]
<1>1. /\ tick[t] \in Tick
      /\ IsFiniteSet(tick[t].review)
      /\ Cardinality(tick[t].review) \in Nat /\ tick[t].slots \in Nat
      /\ Cardinality(tick[t].review) <= tick[t].slots
  BY TickFields DEF ReviewFits
<1>2. Cardinality(tick[t].review \ {p}) = Cardinality(tick[t].review) - 1
  BY <1>1, FS_RemoveElement
<1>3. Cardinality(tick[t].review \ {p}) \in Nat
  BY <1>1, FS_RemoveElement, FS_CardinalityType
<1>4. slots \in Nat /\ Cardinality(tick[t].review \ {p}) <= slots
  BY <1>1, <1>2, <1>3
<1>5. r \in Tick /\ r.review = tick[t].review \ {p} /\ r.slots = slots
  BY <1>1, <1>4 DEF Tick, Steps, ReviewSteps
<1>6. Fits(r)
  BY <1>4, <1>5 DEF Fits
<1>7. tick' = [tick EXCEPT ![t] = r]
  BY DEF NextReview, TypeOK
<1> HIDE DEF r
<1>8. QED
  BY <1>4, <1>6, <1>7, TickUpdated

(* An assignment that keeps the list of PRs and the slots.                 *)
LEMMA TickMoved ==
  ASSUME TypeOK, ReviewFits, NEW t \in Ticks, NEW r, r \in Tick,
         r.review = tick[t].review, r.slots = tick[t].slots,
         tick' = [tick EXCEPT ![t] = r]
  PROVE  tick' \in [Ticks -> Tick] /\ ReviewFits'
<1>1. Fits(r)
  BY DEF Fits, ReviewFits
<1>2. QED
  BY <1>1, TickUpdated

(* A step that only moves on.                                              *)
LEMMA GotoType ==
  ASSUME TypeOK, ReviewFits, NEW t \in Ticks, NEW step \in Steps, Goto(t, step)
  PROVE  tick' \in [Ticks -> Tick] /\ ReviewFits'
<1> DEFINE r == [tick[t] EXCEPT !.pc = step]
<1>1. tick[t] \in Tick
  BY DEF TypeOK
<1>2. r \in Tick /\ r.review = tick[t].review /\ r.slots = tick[t].slots
  BY <1>1 DEF Tick
<1>3. tick' = [tick EXCEPT ![t] = r]
  BY DEF Goto, TypeOK
<1> HIDE DEF r
<1>4. QED
  BY <1>2, <1>3, TickMoved

(* A step that starts with empty local variables.                          *)
LEMMA StartedAfresh ==
  ASSUME TypeOK, ReviewFits, NEW t \in Ticks, NEW r, r \in Tick, r.review = {},
         tick' = [tick EXCEPT ![t] = r]
  PROVE  tick' \in [Ticks -> Tick] /\ ReviewFits'
<1>1. Fits(r)
  BY FreshFits
<1>2. QED
  BY <1>1, TickUpdated

(* The next issue of a tick, or its end.                                   *)
LEMMA NextIssueFits ==
  ASSUME TypeOK, ReviewFits, NEW t \in Ticks, NEW i, NextIssue(t, i)
  PROVE  tick' \in [Ticks -> Tick] /\ ReviewFits'
<1> DEFINE r == [tick[t] EXCEPT !.pc = "issue_get", !.todo = tick[t].todo \ {i}]
<1>1. tick[t] \in Tick
  BY DEF TypeOK
<1>2. r \in Tick /\ r.review = tick[t].review /\ r.slots = tick[t].slots
  BY <1>1 DEF Tick, Steps, DispatchSteps
<1>3. tick' = [tick EXCEPT ![t] = IdleTick] \/ tick' = [tick EXCEPT ![t] = r]
  BY DEF NextIssue, TypeOK
<1> HIDE DEF r
<1>4. IdleTick \in Tick /\ IdleTick.review = {}
  BY IdleType DEF IdleTick
<1>5. QED
  BY <1>2, <1>3, <1>4, TickMoved, StartedAfresh

(* What a tick loads from the database.                                    *)
LEMMA SnapshotType ==
  ASSUME TypeOK
  PROVE  /\ load_batch_snapshot(db) \in Layering
         /\ WithStatus(db, "in_progress") \in SUBSET Issues
<1> DEFINE live == WithStatus(db, "pending") \cup WithStatus(db, "in_progress")
<1>1. live \in SUBSET Issues
  BY DEF WithStatus
<1>2. \A i \in Issues : db.batch[i].layer \in Layers
  BY DbFields DEF TypeOK, Batch
<1>3. load_batch_snapshot(db) \in [live -> Layers]
  BY <1>1, <1>2 DEF load_batch_snapshot
<1>4. QED
  BY <1>1, <1>3 DEF Layering, WithStatus

(* A tick takes no more issues than it has slots.                          *)
LEMMA BatchesFit ==
  ASSUME TypeOK, NEW t \in Ticks
  PROVE  /\ Batches(t) \in SUBSET Issues
         /\ Cardinality(Batches(t)) <= tick[t].slots
<1>1. PICK S \in SUBSET Issues : Batches(t) = FirstOf(S, tick[t].slots)
  <2>1. DOMAIN tick[t].plan \in SUBSET Issues
    BY TickFields DEF Tick, Layering
  <2>2. QED
    BY <2>1 DEF Batches, next_executable_batch
<1>2. S \in SUBSET Nat /\ IsFiniteSet(S)
  BY IssuesAssumption, FS_Subset
<1>3. QED
  BY <1>1, <1>2, TickFields, FirstOfSubset, FirstOfCardinality

(* Every step of a tick leaves it with local variables that fit.           *)
LEMMA TickStepsFit ==
  ASSUME TypeOK, ReviewFits, NEW t \in Ticks, TickStep(t)
  PROVE  tick' \in [Ticks -> Tick] /\ ReviewFits'
<1> DEFINE Goal == tick' \in [Ticks -> Tick] /\ ReviewFits'
           Idle(step) == [IdleTick EXCEPT !.pc = step]
           local == tick[t]
<1>1. /\ local \in Tick /\ tick \in [Ticks -> Tick]
      /\ local.review \in SUBSET PRs /\ IsFiniteSet(local.review)
      /\ local.slots \in Nat /\ local.todo \in SUBSET Issues
  BY TickFields DEF TypeOK
<1>2. \A step \in Steps \cup {"idle"} : Idle(step) \in Tick /\ Idle(step).review = {}
  <2> TAKE step \in Steps \cup {"idle"}
  <2>1. Idle(step) \in Tick
    BY IdleType DEF Tick
  <2>2. QED
    BY <2>1 DEF IdleTick
<1>3. IdleTick \in Tick /\ IdleTick.review = {}
  BY IdleType DEF IdleTick
<1>4. \A step \in Steps : Goto(t, step) => Goal
  BY GotoType
<1>5. /\ "poll_closed" \in Steps /\ "reconcile" \in Steps /\ "unlabel" \in Steps
      /\ "load" \in Steps /\ "fetch_prs" \in Steps /\ "decide" \in Steps
      /\ ReviewSteps \subseteq Steps /\ DispatchSteps \subseteq Steps
  BY DEF Steps, PollSteps
<1>6. CASE PollOpen(t)
  <2> DEFINE r == [local EXCEPT !.pc = "poll_closed", !.open = Fetch(OpenPRs)]
  <2>1. Fetch(OpenPRs) \in SUBSET Fetched
    BY FetchType DEF OpenPRs
  <2>2. r \in Tick /\ r.review = local.review /\ r.slots = local.slots
    BY <1>1, <1>5, <2>1 DEF Tick
  <2>3. tick' = [tick EXCEPT ![t] = r] \/ Goto(t, "load")
    BY <1>1, <1>6 DEF PollOpen
  <2> HIDE DEF r
  <2>4. QED
    BY <1>4, <1>5, <2>2, <2>3, TickMoved
<1>7. CASE PollClosed(t)
  <2> DEFINE r == [local EXCEPT !.pc = "reconcile", !.closed = Fetch(recent)]
  <2>1. Fetch(recent) \in SUBSET Fetched
    BY FetchType DEF TypeOK
  <2>2. r \in Tick /\ r.review = local.review /\ r.slots = local.slots
    BY <1>1, <1>5, <2>1 DEF Tick
  <2>3. \/ tick' = [tick EXCEPT ![t] = r]
        \/ tick' = [tick EXCEPT ![t] = Idle("load")]
    BY <1>1, <1>7 DEF PollClosed
  <2> HIDE DEF r, Idle
  <2>4. QED
    BY <1>2, <1>5, <2>2, <2>3, TickMoved, StartedAfresh
<1>8. CASE Reconcile(t)
  <2> DEFINE zombies == zombie_batches(Reconciled(t)[4])
             r == [IdleTick EXCEPT
                     !.pc = IF zombies = {} THEN "load" ELSE "unlabel",
                     !.zombies = zombies]
  <2>1. zombies \in SUBSET Issues
    BY DEF zombie_batches, WithStatus
  <2>2. tick' = [tick EXCEPT ![t] = r]
    BY <1>8 DEF Reconcile
  <2> HIDE DEF zombies
  <2>3. r \in Tick
    BY <1>5, <2>1, IdleType DEF Tick
  <2>4. r.review = {}
    BY DEF IdleTick
  <2> HIDE DEF r
  <2>5. QED
    BY <2>2, <2>3, <2>4, StartedAfresh
<1>9. CASE UnlabelZombie(t)
  <2>1. PICK i \in FirstOf(local.zombies, 1) :
          tick' = [tick EXCEPT
                     ![t].zombies = @ \ {i},
                     ![t].pc = IF local.zombies = {i} THEN "load" ELSE @]
    BY <1>9 DEF UnlabelZombie
  <2> DEFINE r == [local EXCEPT !.zombies = @ \ {i},
                                !.pc = IF local.zombies = {i} THEN "load" ELSE @]
  <2>2. tick' = [tick EXCEPT ![t] = r]
    BY <1>1, <2>1
  <2>3. r \in Tick /\ r.review = local.review /\ r.slots = local.slots
    BY <1>1, <1>5 DEF Tick
  <2> HIDE DEF r
  <2>4. QED
    BY <2>2, <2>3, TickMoved
<1>10. CASE Load(t)
  <2> DEFINE r == [IdleTick EXCEPT !.pc = "fetch_prs",
                                   !.plan = load_batch_snapshot(db),
                                   !.blocked = WithStatus(db, "in_progress"),
                                   !.slots = FreeSlots(db)]
  <2>1. tick' = [tick EXCEPT ![t] = IdleTick] \/ tick' = [tick EXCEPT ![t] = r]
    BY <1>10 DEF Load
  <2>2. load_batch_snapshot(db) \in Layering /\ WithStatus(db, "in_progress") \in SUBSET Issues
    BY SnapshotType
  <2>3. FreeSlots(db) \in Nat
    BY FreeSlotsBounded
  <2>4. r \in Tick
    BY <1>5, <2>2, <2>3, IdleType DEF Tick
  <2>5. r.review = {}
    BY DEF IdleTick
  <2> HIDE DEF r
  <2>6. QED
    BY <1>3, <2>1, <2>4, <2>5, StartedAfresh
<1>11. CASE FetchPRs(t)
  <2>1. PICK prs \in SUBSET PRs :
          LET review == LastOf({p \in prs : pr[p].review = "none"}, local.slots) IN
          tick' = [tick EXCEPT
                     ![t].blocked = @ \cup UNION {pr[p].closes : p \in prs},
                     ![t].review = review,
                     ![t].pc = IF review = {} THEN "decide" ELSE "review_comment"]
    BY <1>11 DEF FetchPRs, OpenPRs
  <2> DEFINE new == {p \in prs : pr[p].review = "none"}
             review == LastOf(new, local.slots)
             closed == UNION {pr[p].closes : p \in prs}
             r == [local EXCEPT
                     !.blocked = @ \cup closed,
                     !.review = review,
                     !.pc = IF review = {} THEN "decide" ELSE "review_comment"]
  <2>2. new \in SUBSET Nat /\ IsFiniteSet(new)
    BY PRsAssumption, FS_Subset
  <2>3. review \in SUBSET PRs /\ Cardinality(review) <= local.slots
    BY <1>1, <2>2, LastOfSubset, LastOfCardinality
  <2>4. closed \in SUBSET Issues
    BY DEF TypeOK
  <2>5. tick' = [tick EXCEPT ![t] = r]
    BY <1>1, <2>1
  <2> HIDE DEF review, closed
  <2>6. r \in Tick /\ r.review = review /\ r.slots = local.slots
    BY <1>1, <1>5, <2>3, <2>4 DEF Tick, ReviewSteps
  <2>7. Fits(r)
    BY <2>3, <2>6 DEF Fits
  <2> HIDE DEF r
  <2>8. QED
    BY <2>5, <2>7, TickUpdated
<1>12. CASE ReviewComment(t) \/ ReviewLabel(t)
  <2>1. PICK p \in LastOf(local.review, 1) :
          \/ \E step \in ReviewSteps : Goto(t, step)
          \/ NextReview(t, p, local.slots)
    BY <1>12 DEF ReviewComment, ReviewLabel, ReviewSteps
  <2>2. p \in local.review
    BY LastOfSubset
  <2>3. QED
    BY <1>4, <1>5, <2>1, <2>2, NextReviewFits
<1>13. CASE ReviewCommit(t)
  <2>1. PICK p \in LastOf(local.review, 1) :
          NextReview(t, p, local.slots - 1) \/ NextReview(t, p, local.slots)
    BY <1>13 DEF ReviewCommit
  <2>2. p \in local.review
    BY LastOfSubset
  <2>3. QED
    BY <2>1, <2>2, NextReviewFits
<1>14. CASE Decide(t)
  <2> DEFINE r == [IdleTick EXCEPT !.pc = "issue_get", !.todo = Batches(t)]
  <2>1. tick' = [tick EXCEPT ![t] = IdleTick] \/ tick' = [tick EXCEPT ![t] = r]
    BY <1>14 DEF Decide
  <2>2. Batches(t) \in SUBSET Issues
    BY BatchesFit
  <2>3. r \in Tick
    BY <1>5, <2>2, IdleType DEF Tick, DispatchSteps
  <2>4. r.review = {}
    BY DEF IdleTick
  <2> HIDE DEF r
  <2>5. QED
    BY <1>3, <2>1, <2>3, <2>4, StartedAfresh
<1>15. CASE IssueGet(t) \/ IssueComment(t) \/ IssueLabel(t) \/ IssueCommit(t)
  <2>1. \/ \E step \in DispatchSteps : Goto(t, step)
        \/ \E i \in FirstOf(local.todo, 1) : NextIssue(t, i)
    BY <1>15 DEF IssueGet, IssueComment, IssueLabel, IssueCommit, DispatchSteps
  <2>2. QED
    BY <1>4, <1>5, <2>1, NextIssueFits
<1>16. QED
  BY <1>6, <1>7, <1>8, <1>9, <1>10, <1>11, <1>12, <1>13, <1>14, <1>15 DEF TickStep

(* And so does every other step.                                           *)
LEMMA TicksStayFit ==
  ASSUME IInv, [Next]_vars PROVE tick' \in [Ticks -> Tick] /\ ReviewFits'
<1>0. TypeOK /\ ReviewFits
  BY DEF IInv
<1>1. CASE UNCHANGED tick
  BY <1>0, <1>1 DEF TypeOK, ReviewFits
<1>2. CASE \E t \in Ticks : TickStep(t)
  BY <1>0, <1>2, TickStepsFit
<1>3. CASE \E t \in Ticks : Crash(t) \/ CrashInReconcile(t)
  <2>1. PICK t \in Ticks : tick' = [tick EXCEPT ![t] = IdleTick]
    BY <1>3 DEF Crash, CrashInReconcile
  <2>2. IdleTick \in Tick /\ IdleTick.review = {}
    BY IdleType DEF IdleTick
  <2>3. QED
    BY <1>0, <2>1, <2>2, StartedAfresh
<1>4. QED
  BY <1>1, <1>2, <1>3, TickWriters

-----------------------------------------------------------------------------
(* The rest of the state.                                                  *)

IssueType == issue \in [Issues -> [state : {"open", "closed"},
                                   labels : SUBSET {AgentStart, DoNotImplement}]]

PRType == /\ recent \subseteq PRs
          /\ pr \in [PRs -> [state : {"none", "open", "merged", "closed"},
                             closes : SUBSET Issues, review : Reviews]]

AgentsType == sessions \in [Issues -> Nat] /\ reviewing \in [PRs -> Nat]

KnobsType == paused \in {"true", "false"} /\ override \in Nat \cup {NoOverride}

PlannerType == planner \in [pc : {"idle", "upsert"}, layer : Layering]

UpsetsType == upsets \in 0 .. MaxUpsets

(* The bound on the upsets.                                                *)
LEMMA UpsetStep ==
  ASSUME UpsetsType, NEW u, Upset(u) PROVE UpsetsType'
BY MaxUpsetsAssumption DEF UpsetsType, Upset

(* Every step counts at most one upset.                                    *)
LEMMA UpsetsCounted == ASSUME UpsetsType, [Next]_vars PROVE UpsetsType'
<1>1. UNCHANGED upsets \/ \E u : Upset(u)
  <2>1. ASSUME NEW t \in Ticks, TickStep(t)
        PROVE  UNCHANGED upsets \/ \E u : Upset(u)
    BY <2>1 DEF TickStep, PollOpen, PollClosed, Reconcile, UnlabelZombie, Load,
                FetchPRs, ReviewComment, ReviewLabel, ReviewCommit, Decide,
                IssueGet, IssueComment, IssueLabel, IssueCommit, Request
  <2>2. ASSUME NEW t \in Ticks, Crash(t) \/ CrashInReconcile(t)
        PROVE  \E u : Upset(u)
    BY <2>2 DEF Crash, CrashInReconcile
  <2>3. ASSUME Planner PROVE UNCHANGED upsets
    BY <2>3 DEF Planner, PlannerFetch, PlannerCommit
  <2>4. ASSUME Environment PROVE UNCHANGED upsets \/ \E u : Upset(u)
    BY <2>4 DEF Environment, AgentOpensPR, HumanOpensPR, AgentDies, CloseIssue,
                SkipIssue, ReviewerVerdict, ReviewerDies, MergePR, ClosePR,
                ForceReview, Pause, Resume, SetOverride, RunAges
  <2>5. ASSUME UNCHANGED vars PROVE UNCHANGED upsets
    BY <2>5 DEF vars
  <2>6. QED
    BY <2>1, <2>2, <2>3, <2>4, <2>5 DEF Next
<1>2. QED
  BY <1>1, UpsetStep DEF UpsetsType

(* The switches of the operator.                                           *)
LEMMA KnobsStep ==
  ASSUME KnobsType, [Next]_vars PROVE KnobsType'
<1>1. ASSUME NEW t \in Ticks, TickStep(t) \/ Crash(t) \/ CrashInReconcile(t)
      PROVE  UNCHANGED knobs
  BY <1>1 DEF TickStep, PollOpen, PollClosed, Reconcile, UnlabelZombie, Load,
              FetchPRs, ReviewComment, ReviewLabel, ReviewCommit, Decide,
              IssueGet, IssueComment, IssueLabel, IssueCommit, Crash, CrashInReconcile
<1>2. ASSUME Planner PROVE UNCHANGED knobs
  BY <1>2 DEF Planner, PlannerFetch, PlannerCommit
<1>3. ASSUME Environment
      PROVE  UNCHANGED knobs \/ Pause \/ Resume \/ SetOverride
  BY <1>3 DEF Environment, AgentOpensPR, HumanOpensPR, AgentDies, CloseIssue,
              SkipIssue, ReviewerVerdict, ReviewerDies, MergePR, ClosePR,
              ForceReview, RunAges
<1>4. ASSUME Pause \/ Resume \/ SetOverride PROVE KnobsType'
  BY <1>4, OverridesAssumption DEF KnobsType, Pause, Resume, SetOverride
<1>5. ASSUME UNCHANGED knobs PROVE KnobsType'
  BY <1>5 DEF KnobsType, knobs
<1>6. QED
  BY <1>1, <1>2, <1>3, <1>4, <1>5 DEF Next, vars

(* The local variables of the planner.                                     *)
LEMMA PlannerStep ==
  ASSUME PlannerType, [Next]_vars PROVE PlannerType'
<1>1. ASSUME PlannerFetch PROVE PlannerType'
  <2> DEFINE issues == [i \in Issues |->
                          [state |-> issue[i].state, labels |-> issue[i].labels,
                           blocked_by |-> Deps[i]]]
  <2>1. planner' = [pc |-> "upsert", layer |-> compute_layers(issues).layer]
    BY <1>1 DEF PlannerFetch
  <2>2. compute_layers(issues).layer \in Layering
    <3>1. DOMAIN issues \subseteq Issues
      OBVIOUS
    <3> HIDE DEF issues
    <3>2. QED
      BY <3>1, LayeringType
  <2>3. QED
    BY <2>1, <2>2 DEF PlannerType
<1>2. ASSUME PlannerCommit PROVE PlannerType'
  <2>1. IdleTick.plan \in Layering
    BY IdleType DEF Tick
  <2>2. <<>> \in Layering
    BY <2>1 DEF IdleTick
  <2>3. QED
    BY <1>2, <2>2 DEF PlannerCommit, IdlePlanner, PlannerType
<1>3. ASSUME NEW t \in Ticks, TickStep(t) \/ Crash(t) \/ CrashInReconcile(t)
      PROVE  UNCHANGED planner
  BY <1>3 DEF TickStep, PollOpen, PollClosed, Reconcile, UnlabelZombie, Load,
              FetchPRs, ReviewComment, ReviewLabel, ReviewCommit, Decide,
              IssueGet, IssueComment, IssueLabel, IssueCommit, Crash, CrashInReconcile
<1>4. ASSUME Environment PROVE UNCHANGED planner
  BY <1>4 DEF Environment, AgentOpensPR, HumanOpensPR, AgentDies, CloseIssue,
              SkipIssue, ReviewerVerdict, ReviewerDies, MergePR, ClosePR,
              ForceReview, Pause, Resume, SetOverride, RunAges
<1>5. ASSUME UNCHANGED planner PROVE PlannerType'
  BY <1>5 DEF PlannerType
<1>6. QED
  BY <1>1, <1>2, <1>3, <1>4, <1>5 DEF Next, vars, Planner

(* The issues: labelled by ticks and operators, closed by merges and       *)
(* people.                                                                 *)
LEMMA IssueStep ==
  ASSUME TypeOK, [Next]_vars PROVE IssueType'
<1>0. IssueType /\ PRType
  BY DEF TypeOK, IssueType, PRType
<1>1. ASSUME NEW i \in Issues, NEW l \in {AgentStart, DoNotImplement},
             Label(i, l) \/ Unlabel(i, l)
      PROVE  IssueType'
  BY <1>0, <1>1 DEF Label, Unlabel, IssueType
<1>2. ASSUME NEW S \in SUBSET Issues, CloseIssues(S) PROVE IssueType'
  BY <1>0, <1>2 DEF CloseIssues, IssueType
<1>3. ASSUME UNCHANGED issue PROVE IssueType'
  BY <1>0, <1>3 DEF IssueType
<1>4. ASSUME NEW t \in Ticks, TickStep(t) \/ Crash(t) \/ CrashInReconcile(t)
      PROVE  UNCHANGED issue \/ UnlabelZombie(t) \/ IssueLabel(t)
  BY <1>4 DEF TickStep, PollOpen, PollClosed, Reconcile, Load, FetchPRs,
              ReviewComment, ReviewLabel, ReviewCommit, Decide,
              IssueGet, IssueComment, IssueCommit, Crash, CrashInReconcile, github
<1>5. ASSUME Planner PROVE UNCHANGED issue
  BY <1>5 DEF Planner, PlannerFetch, PlannerCommit, github
<1>6. ASSUME Environment
      PROVE  \/ UNCHANGED issue
             \/ \E i \in Issues : CloseIssue(i) \/ SkipIssue(i)
             \/ \E p \in PRs : MergePR(p)
  BY <1>6 DEF Environment, AgentOpensPR, HumanOpensPR, AgentDies, ReviewerVerdict,
              ReviewerDies, ClosePR, ForceReview, Pause, Resume, SetOverride,
              RunAges, github
<1>7. ASSUME NEW i \in Issues, CloseIssue(i) \/ SkipIssue(i) PROVE IssueType'
  BY <1>1, <1>2, <1>7 DEF CloseIssue, SkipIssue
<1>8. ASSUME NEW p \in PRs, MergePR(p) PROVE IssueType'
  <2>1. pr[p].closes \in SUBSET Issues
    BY <1>0 DEF PRType
  <2>2. QED
    BY <1>2, <1>8, <2>1 DEF MergePR
<1>9. ASSUME NEW t \in Ticks, UnlabelZombie(t) \/ IssueLabel(t)
      PROVE  IssueType'
  <2>1. tick[t].zombies \in SUBSET Issues /\ tick[t].todo \in SUBSET Issues
    BY TickFields DEF Tick
  <2>2. \A S \in SUBSET Issues : FirstOf(S, 1) \in SUBSET Issues
    BY FirstOfSubset
  <2>3. QED
    BY <1>1, <1>3, <1>9, <2>1, <2>2 DEF UnlabelZombie, IssueLabel
<1>10. QED
  BY <1>3, <1>4, <1>5, <1>6, <1>7, <1>8, <1>9 DEF Next, vars, github

(* The PRs: opened and decided by agents and people, labelled by ticks.    *)
LEMMA PRStep ==
  ASSUME TypeOK, [Next]_vars PROVE PRType'
<1> DEFINE Row == [state : {"none", "open", "merged", "closed"},
                   closes : SUBSET Issues, review : Reviews]
<1>0. PRType /\ pr \in [PRs -> Row]
  BY DEF TypeOK, PRType
<1>1. ASSUME NEW p \in PRs, NEW new \in Row, UpdatePR(p, new) PROVE PRType'
  BY <1>0, <1>1 DEF PRType, UpdatePR
<1>2. ASSUME NEW i \in Issues, OpenPR(i), UNCHANGED recent PROVE PRType'
  <2>1. PICK p \in FirstOf({q \in PRs : pr[q].state = "none"}, 1), c \in ClosingSets :
          pr' = [pr EXCEPT ![p] = [state |-> "open", closes |-> c, review |-> "none"]]
    BY <1>2 DEF OpenPR
  <2>2. [state |-> "open", closes |-> c, review |-> "none"] \in Row
    BY ClosingSetsAssumption DEF Reviews
  <2>3. QED
    BY <1>0, <1>2, <2>1, <2>2 DEF PRType
<1>3. ASSUME UNCHANGED <<pr, recent>> PROVE PRType'
  BY <1>0, <1>3 DEF PRType
<1>4. ASSUME NEW t \in Ticks, TickStep(t) \/ Crash(t) \/ CrashInReconcile(t)
      PROVE  UNCHANGED <<pr, recent>> \/ Reconcile(t) \/ ReviewLabel(t)
  BY <1>4 DEF TickStep, PollOpen, PollClosed, UnlabelZombie, Load, FetchPRs,
              ReviewComment, ReviewCommit, Decide, IssueGet, IssueComment,
              IssueLabel, IssueCommit, Crash, CrashInReconcile, github
<1>5. ASSUME Planner PROVE UNCHANGED <<pr, recent>>
  BY <1>5 DEF Planner, PlannerFetch, PlannerCommit, github
<1>6. ASSUME Environment
      PROVE  \/ UNCHANGED <<pr, recent>>
             \/ \E i \in Issues : OpenPR(i) /\ UNCHANGED recent
             \/ \E p \in PRs : ReviewerVerdict(p) \/ MergePR(p) \/ ClosePR(p)
                               \/ ForceReview(p)
  BY <1>6 DEF Environment, AgentOpensPR, HumanOpensPR, AgentDies, CloseIssue,
              SkipIssue, ReviewerDies, Pause, Resume, SetOverride, RunAges, github
<1>7. ASSUME NEW t \in Ticks, Reconcile(t) PROVE PRType'
  BY <1>0, <1>7 DEF Reconcile, PRType
<1>8. ASSUME NEW t \in Ticks, ReviewLabel(t) PROVE PRType'
  <2>1. PICK p \in LastOf(tick[t].review, 1) :
          \/ UpdatePR(p, [pr[p] EXCEPT !.review =
                            IF pr[p].review = "none" THEN "pending" ELSE pr[p].review])
          \/ UNCHANGED <<pr, recent>>
    BY <1>8 DEF ReviewLabel
  <2>2. p \in PRs
    BY TickFields, LastOfSubset
  <2> DEFINE new == [pr[p] EXCEPT !.review =
                       IF pr[p].review = "none" THEN "pending" ELSE pr[p].review]
  <2>3. new \in Row
    BY <1>0, <2>2 DEF Reviews
  <2> HIDE DEF Row
  <2>4. QED
    BY <1>1, <1>3, <2>1, <2>2, <2>3
<1>9. ASSUME NEW p \in PRs, ReviewerVerdict(p) \/ MergePR(p) \/ ClosePR(p) \/ ForceReview(p)
      PROVE  PRType'
  <2>1. \/ \E v \in Reviews : UpdatePR(p, [pr[p] EXCEPT !.review = v])
        \/ \E s \in {"merged", "closed"} : UpdatePR(p, [pr[p] EXCEPT !.state = s])
    BY <1>9 DEF ReviewerVerdict, MergePR, ClosePR, ForceReview, Reviews, Verdicts
  <2>2. \A v \in Reviews : [pr[p] EXCEPT !.review = v] \in Row
    BY <1>0
  <2>3. \A s \in {"merged", "closed"} : [pr[p] EXCEPT !.state = s] \in Row
    BY <1>0
  <2> HIDE DEF Row
  <2>4. QED
    BY <1>1, <2>1, <2>2, <2>3
<1>10. QED
  BY <1>2, <1>3, <1>4, <1>5, <1>6, <1>7, <1>8, <1>9 DEF Next, vars, github

(* The sessions: started by comments, ended by results and deaths.         *)
LEMMA AgentsStep ==
  ASSUME TypeOK, [Next]_vars PROVE AgentsType'
<1>0. AgentsType
  BY DEF TypeOK, AgentsType
<1>1. ASSUME NEW i \in Issues, sessions' = [sessions EXCEPT ![i] = @ + 1],
             UNCHANGED reviewing
      PROVE  AgentsType'
  BY <1>0, <1>1 DEF AgentsType
<1>2. ASSUME NEW p \in PRs, reviewing' = [reviewing EXCEPT ![p] = @ + 1],
             UNCHANGED sessions
      PROVE  AgentsType'
  BY <1>0, <1>2 DEF AgentsType
<1>3. ASSUME NEW i \in Issues, sessions[i] > 0, sessions' = [sessions EXCEPT ![i] = @ - 1],
             UNCHANGED reviewing
      PROVE  AgentsType'
  BY <1>0, <1>3 DEF AgentsType
<1>4. ASSUME NEW p \in PRs, reviewing[p] > 0,
             reviewing' = [reviewing EXCEPT ![p] = @ - 1], UNCHANGED sessions
      PROVE  AgentsType'
  BY <1>0, <1>4 DEF AgentsType
<1>5. ASSUME UNCHANGED agents PROVE AgentsType'
  BY <1>0, <1>5 DEF AgentsType, agents
<1>6. ASSUME NEW t \in Ticks, TickStep(t) \/ Crash(t) \/ CrashInReconcile(t)
      PROVE  UNCHANGED agents \/ ReviewComment(t) \/ IssueComment(t)
  BY <1>6 DEF TickStep, PollOpen, PollClosed, Reconcile, UnlabelZombie, Load,
              FetchPRs, ReviewLabel, ReviewCommit, Decide, IssueGet, IssueLabel,
              IssueCommit, Crash, CrashInReconcile
<1>7. ASSUME Planner PROVE UNCHANGED agents
  BY <1>7 DEF Planner, PlannerFetch, PlannerCommit
<1>8. ASSUME Environment
      PROVE  \/ UNCHANGED agents
             \/ \E i \in Issues : AgentOpensPR(i) \/ AgentDies(i)
             \/ \E p \in PRs : ReviewerVerdict(p) \/ ReviewerDies(p)
  BY <1>8 DEF Environment, HumanOpensPR, CloseIssue, SkipIssue, MergePR, ClosePR,
              ForceReview, Pause, Resume, SetOverride, RunAges
<1>9. ASSUME NEW t \in Ticks, ReviewComment(t) \/ IssueComment(t) PROVE AgentsType'
  <2>1. /\ LastOf(tick[t].review, 1) \in SUBSET PRs
        /\ FirstOf(tick[t].todo, 1) \in SUBSET Issues
    BY TickFields, LastOfSubset, FirstOfSubset
  <2>2. QED
    BY <1>1, <1>2, <1>5, <1>9, <2>1 DEF ReviewComment, IssueComment, agents
<1>10. ASSUME NEW i \in Issues, AgentOpensPR(i) \/ AgentDies(i) PROVE AgentsType'
  BY <1>3, <1>10 DEF AgentOpensPR, AgentDies
<1>11. ASSUME NEW p \in PRs, ReviewerVerdict(p) \/ ReviewerDies(p) PROVE AgentsType'
  BY <1>4, <1>11 DEF ReviewerVerdict, ReviewerDies
<1>12. QED
  BY <1>5, <1>6, <1>7, <1>8, <1>9, <1>10, <1>11 DEF Next, vars

-----------------------------------------------------------------------------
(* The inductive invariant and what follows from it.                       *)

(* The type invariant, part by part.                                       *)
LEMMA TypeOKParts ==
  /\ TypeOK <=> /\ db \in Db /\ tick \in [Ticks -> Tick]
                /\ KnobsType /\ IssueType /\ PRType /\ AgentsType
                /\ PlannerType /\ UpsetsType
BY DEF TypeOK, KnobsType, IssueType, PRType, AgentsType, PlannerType, UpsetsType

(* A new database is consistent.                                           *)
LEMMA EmptyDbConsistent == DbInv(EmptyDb)
<1> DEFINE row == [status |-> "none", layer |-> 0, run |-> 0, pr_number |-> "NULL"]
<1>1. 0 \in Layers
  BY IssuesAssumption, FS_CardinalityType DEF Layers
<1>2. row \in Batch
  BY <1>1 DEF Batch
<1>3. /\ EmptyDb.batch = [i \in Issues |-> row]
      /\ EmptyDb.runs = <<>> /\ EmptyDb.reviewed = {}
  BY DEF EmptyDb
<1>4. EmptyDb \in Db
  BY <1>2 DEF EmptyDb, Db
<1>5. Len(EmptyDb.runs) = 0 /\ DOMAIN EmptyDb.runs = {}
  BY <1>3
<1>6. \A i \in Issues : EmptyDb.batch[i].run = 0 /\ EmptyDb.batch[i].status = "none"
  BY <1>3
<1>7. QED
  BY <1>4, <1>5, <1>6 DEF DbInv

(* The invariant holds at first.                                           *)
LEMMA InvInit == Init => IInv
<1> SUFFICES ASSUME Init PROVE IInv
  OBVIOUS
<1>1. DbInv(db) /\ db \in Db
  BY EmptyDbConsistent DEF Init, DbInv
<1>2. tick = [t \in Ticks |-> IdleTick] /\ tick \in [Ticks -> Tick]
  BY IdleType DEF Init
<1>3. ReviewFits
  <2>1. \A t \in Ticks : tick[t].review = {} /\ tick[t].slots = 0
    BY <1>2 DEF IdleTick
  <2>2. Cardinality({}) = 0
    BY FS_EmptySet
  <2>3. QED
    BY <2>1, <2>2 DEF ReviewFits
<1>4. KnobsType /\ IssueType /\ AgentsType /\ UpsetsType
  BY MaxUpsetsAssumption DEF Init, KnobsType, IssueType, AgentsType, UpsetsType
<1>5. PRType
  BY DEF Init, PRType, Reviews
<1>6. PlannerType
  <2>1. IdleTick.plan \in Layering
    BY IdleType DEF Tick
  <2>2. QED
    BY <2>1 DEF IdleTick, Init, IdlePlanner, PlannerType
<1>7. QED
  BY <1>1, <1>2, <1>3, <1>4, <1>5, <1>6, TypeOKParts DEF IInv

(* And every step keeps it.                                                *)
LEMMA InvStep == IInv /\ [Next]_vars => IInv'
<1> SUFFICES ASSUME IInv, [Next]_vars PROVE IInv'
  OBVIOUS
<1>1. /\ TypeOK
      /\ KnobsType /\ IssueType /\ PRType /\ AgentsType /\ PlannerType /\ UpsetsType
  BY TypeOKParts DEF IInv
<1>2. DbInv(db') /\ db' \in Db
  BY DbStaysConsistent DEF DbInv
<1>3. tick' \in [Ticks -> Tick] /\ ReviewFits'
  BY TicksStayFit
<1>4. KnobsType' /\ PlannerType' /\ UpsetsType'
  BY <1>1, KnobsStep, PlannerStep, UpsetsCounted
<1>5. IssueType' /\ PRType' /\ AgentsType'
  BY <1>1, IssueStep, PRStep, AgentsStep
<1>6. TypeOK'
  BY <1>2, <1>3, <1>4, <1>5
  DEF TypeOK, KnobsType, IssueType, PRType, AgentsType, PlannerType, UpsetsType
<1>7. QED
  BY <1>2, <1>3, <1>6 DEF IInv

(* The database stays consistent with itself and every tick with its       *)
(* slots.                                                                  *)
THEOREM Invariant == Spec => []IInv
BY InvInit, InvStep, PTL DEF Spec

(* Every variable keeps its type, the row of every batch and the local     *)
(* variables of every tick included.                                       *)
THEOREM TypeCorrect == Spec => []TypeOK
<1>1. IInv => TypeOK
  BY DEF IInv
<1>2. QED
  BY <1>1, Invariant, PTL

(* Ticks, however many overlap and wherever they crash, keep each batch in *)
(* progress pointed at an implementer run of its own issue.                *)
THEOREM BatchesPointAtTheirRuns == Spec => []RunOfBatch
<1>1. IInv => RunOfBatch
  BY DEF IInv, DbInv, RunOfBatch
<1>2. QED
  BY <1>1, Invariant, PTL

-----------------------------------------------------------------------------
(* What a step may do to a batch.                                          *)

Kept(d, e, i) ==
  /\ e.batch[i].status = d.batch[i].status
  /\ e.batch[i].run = d.batch[i].run
  /\ e.batch[i].pr_number \in {d.batch[i].pr_number, "set"}
  /\ e.batch[i].layer = d.batch[i].layer

Merged(d, e, i) ==
  /\ d.batch[i].status \in {"pending", "in_progress"}
  /\ e.batch[i].status = "merged"
  /\ e.batch[i].run = d.batch[i].run /\ e.batch[i].pr_number = "set"
  /\ e.batch[i].layer = d.batch[i].layer

Retried(d, e, i) ==
  /\ d.batch[i].status = "in_progress" /\ e.batch[i].status = "pending"
  /\ d.batch[i].pr_number = "NULL" /\ e.batch[i].pr_number = "NULL"
  /\ e.batch[i].run = 0 /\ e.batch[i].layer = d.batch[i].layer
  /\ e.runs[d.batch[i].run].status = "timeout"

(* The five reconciliations together, or what a crash leaves of them,      *)
(* still move each batch at most once.                                     *)
LEMMA PollbackMoves ==
  ASSUME NEW t, NEW e, PollbackLeaves(t, e), NEW i \in Issues
  PROVE  \/ Kept(db, e, i)
         \/ Merged(db, e, i) /\ i \in LandedIssues(tick[t].closed)
         \/ Retried(db, e, i)
<1> DEFINE landed == LandedIssues(tick[t].closed)
<1>1. PICK d : /\ BatchesSettle(db, d, landed)
               /\ e.runs = d.runs
               /\ e.batch[i] = d.batch[i] \/ GivenUp(d, e, i)
  BY DEF PollbackLeaves, Settled, Settles
<1> HIDE DEF landed
<1>2. \/ Kept(db, d, i)
      \/ Merged(db, d, i) /\ i \in landed
  BY <1>1 DEF BatchesSettle, Kept, Merged
<1>3. d.batch[i].run = db.batch[i].run
  BY <1>1 DEF BatchesSettle
<1>4. CASE e.batch[i] = d.batch[i]
  BY <1>2, <1>4 DEF Kept, Merged, landed
<1>5. CASE GivenUp(d, e, i)
  BY <1>1, <1>2, <1>3, <1>5 DEF GivenUp, Kept, Merged, Retried
<1>6. QED
  BY <1>1, <1>4, <1>5

(* Every step of the engine moves each batch at most once, in one of five  *)
(* ways.                                                                   *)
LEMMA BatchMoves ==
  ASSUME IInv, [Next]_vars, NEW i \in Issues
  PROVE  \/ Kept(db, db', i)
         \/ /\ Merged(db, db', i)
            /\ \E t \in Ticks : i \in LandedIssues(tick[t].closed)
         \/ Retried(db, db', i)
         \/ PlannerCommit /\ Replanned(db, db', i)
         \/ Promoted(db, db', i)
<1>0. TypeOK /\ DbInv(db)
  BY DEF IInv
<1>1. CASE \E t \in Ticks : Reconcile(t) \/ CrashInReconcile(t)
  <2>1. PICK t \in Ticks : PollbackLeaves(t, db')
    BY <1>0, <1>1, PollbackDb
  <2>2. QED
    BY <2>1, PollbackMoves
<1>2. ASSUME NEW t \in Ticks, ReviewCommit(t) PROVE Kept(db, db', i)
  <2>1. PICK p \in LastOf(tick[t].review, 1) :
          db' = create_run(db, "reviewer", p) \/ UNCHANGED db
    BY <1>2 DEF ReviewCommit
  <2>2. p \in PRs
    BY <1>0, TickFields, LastOfSubset
  <2>3. db'.batch = db.batch
    BY <1>0, <2>1, <2>2, ReviewRecorded
  <2>4. QED
    BY <2>3 DEF Kept
<1>3. ASSUME NEW t \in Ticks, IssueCommit(t)
      PROVE  Kept(db, db', i) \/ Promoted(db, db', i)
  <2>1. PICK j \in FirstOf(tick[t].todo, 1) : db' = RecordDispatch(db, j) \/ UNCHANGED db
    BY <1>3 DEF IssueCommit
  <2>2. j \in Issues
    BY <1>0, TickFields, FirstOfSubset
  <2>3. db'.batch[i] = db.batch[i] \/ Promoted(db, db', i)
    BY <1>0, <2>1, <2>2, RecordDispatchFacts
  <2>4. QED
    BY <2>3 DEF Kept
<1>4. ASSUME PlannerCommit PROVE Kept(db, db', i) \/ Replanned(db, db', i)
  <2>1. db' = upsert_batches(db, planner.layer) /\ planner.layer \in Layering
    BY <1>0, <1>4 DEF PlannerCommit, TypeOK
  <2>2. db'.batch[i] = db.batch[i] \/ Replanned(db, db', i)
    BY <1>0, <2>1, BatchesUpserted
  <2>3. QED
    BY <2>2 DEF Kept
<1>5. ASSUME NEW k \in DOMAIN db.runs, RunAges(k) PROVE Kept(db, db', i)
  <2>1. db' = [db EXCEPT !.runs[k].age = "stale"]
    BY <1>5 DEF RunAges
  <2>2. db'.batch = db.batch
    BY <1>0, <2>1, AgedRun
  <2>3. QED
    BY <2>2 DEF Kept
<1>6. CASE UNCHANGED db
  BY <1>6 DEF Kept
<1>7. QED
  BY <1>1, <1>2, <1>3, <1>4, <1>5, <1>6, DbWriters

(* A batch goes back to pending only through recover_zombie_batches, which *)
(* asks for a run that timed out: no planner run, dispatch or overlapping  *)
(* reconciliation retries anything else.                                   *)
THEOREM RetriesAreTimeouts == Spec => OnlyTimeoutsRetried
<1>1. IInv /\ [Next]_vars =>
        [\A i \in Issues :
           db.batch[i].status = "in_progress" /\ db'.batch[i].status = "pending" =>
             db'.runs[db.batch[i].run].status = "timeout"]_vars
  BY BatchMoves DEF Kept, Merged, Retried, Replanned, Promoted
<1>2. QED
  BY <1>1, Invariant, PTL DEF Spec, OnlyTimeoutsRetried

-----------------------------------------------------------------------------
(* Finished runs and merged batches.                                       *)

(* A PR is given what it closes when it is opened, once; a merge and a     *)
(* close are final, and a merge closes the issues.                         *)
Stable ==
  \A p \in PRs :
    /\ pr'[p].closes = pr[p].closes \/ (pr[p].state = "none" /\ pr'[p].state # "none")
    /\ pr[p].state # "none" => pr'[p].state # "none"
    /\ pr[p].state = "merged" => pr'[p].state = "merged"
    /\ pr[p].state = "closed" => pr'[p].state = "closed"
    /\ pr[p].state = "open" /\ pr'[p].state = "merged" =>
         \A i \in pr[p].closes : issue'[i].state = "closed"
    /\ pr[p].state = "open" => pr'[p].state \in {"open", "merged", "closed"}

(* Nobody does anything else to it.                                        *)
LEMMA PRsStay ==
  ASSUME TypeOK, [Next]_vars PROVE Stable
<1>0. pr \in [PRs -> [state : {"none", "open", "merged", "closed"},
                      closes : SUBSET Issues, review : Reviews]]
  BY DEF TypeOK
<1>1. ASSUME NEW p \in PRs, NEW v, UpdatePR(p, [pr[p] EXCEPT !.review = v])
      PROVE  Stable
  BY <1>0, <1>1 DEF UpdatePR, Stable
<1>2. ASSUME NEW p \in PRs, NEW s \in {"merged", "closed"}, pr[p].state = "open",
             UpdatePR(p, [pr[p] EXCEPT !.state = s]),
             s = "merged" => CloseIssues(pr[p].closes)
      PROVE  Stable
  <2>1. /\ pr'[p].closes = pr[p].closes /\ pr'[p].state = s
        /\ \A q \in PRs : q # p => pr'[q] = pr[q]
        /\ pr[p].closes \in SUBSET Issues
    BY <1>0, <1>2 DEF UpdatePR
  <2>2. ASSUME s = "merged", NEW i \in pr[p].closes PROVE issue'[i].state = "closed"
    BY <1>2, <2>1, <2>2 DEF CloseIssues
  <2>3. QED
    BY <1>2, <2>1, <2>2 DEF Stable
<1>3. ASSUME NEW j \in Issues, OpenPR(j) PROVE Stable
  BY <1>0, <1>3, FirstOfSubset DEF OpenPR, Stable
<1>4. ASSUME UNCHANGED pr PROVE Stable
  BY <1>4 DEF Stable
<1>5. ASSUME NEW t \in Ticks, TickStep(t) \/ Crash(t) \/ CrashInReconcile(t)
      PROVE  UNCHANGED pr \/ ReviewLabel(t)
  BY <1>5 DEF TickStep, PollOpen, PollClosed, Reconcile, UnlabelZombie, Load,
              FetchPRs, ReviewComment, ReviewCommit, Decide, IssueGet, IssueComment,
              IssueLabel, IssueCommit, Crash, CrashInReconcile, github
<1>6. ASSUME Planner PROVE UNCHANGED pr
  BY <1>6 DEF Planner, PlannerFetch, PlannerCommit, github
<1>7. ASSUME Environment
      PROVE  \/ UNCHANGED pr
             \/ \E j \in Issues : OpenPR(j)
             \/ \E p \in PRs : ReviewerVerdict(p) \/ MergePR(p) \/ ClosePR(p)
                               \/ ForceReview(p)
  BY <1>7 DEF Environment, AgentOpensPR, HumanOpensPR, AgentDies, CloseIssue,
              SkipIssue, ReviewerDies, Pause, Resume, SetOverride, RunAges, github
<1>8. ASSUME NEW t \in Ticks, ReviewLabel(t) PROVE Stable
  <2>1. PICK p \in LastOf(tick[t].review, 1) :
          \/ UpdatePR(p, [pr[p] EXCEPT !.review =
                            IF pr[p].review = "none" THEN "pending" ELSE pr[p].review])
          \/ UNCHANGED pr
    BY <1>8 DEF ReviewLabel
  <2>2. p \in PRs
    BY TickFields, LastOfSubset
  <2>3. QED
    BY <1>1, <1>4, <2>1, <2>2
<1>9. ASSUME NEW p \in PRs, ReviewerVerdict(p) \/ MergePR(p) \/ ClosePR(p) \/ ForceReview(p)
      PROVE  Stable
  <2>1. \/ \E v : UpdatePR(p, [pr[p] EXCEPT !.review = v])
        \/ \E s \in {"merged", "closed"} :
             /\ pr[p].state = "open" /\ UpdatePR(p, [pr[p] EXCEPT !.state = s])
             /\ s = "merged" => CloseIssues(pr[p].closes)
    BY <1>9 DEF ReviewerVerdict, MergePR, ClosePR, ForceReview
  <2>2. QED
    BY <1>1, <1>2, <2>1
<1>10. QED
  BY <1>3, <1>4, <1>5, <1>6, <1>7, <1>8, <1>9 DEF Next, vars, github

(* What landed stays landed.                                               *)
LEMMA LandedStays ==
  ASSUME TypeOK, [Next]_vars, NEW i, Landed(i) PROVE Landed(i)'
BY PRsStay DEF Landed, Stable

(* A PR that was never opened closes nothing.                              *)
UnopenedPRs == \A p \in PRs : pr[p].state = "none" => pr[p].closes = {}

(* No step gives it anything to close.                                     *)
LEMMA UnopenedStay ==
  ASSUME TypeOK, UnopenedPRs, [Next]_vars PROVE UnopenedPRs'
BY PRsStay DEF UnopenedPRs, Stable

(* No step but a pollback finishes a run.                                  *)
LEMMA StepsFinishNone ==
  ASSUME IInv, [Next]_vars
  PROVE  \/ FinishesNone(db, db')
         \/ \E t \in Ticks : Reconcile(t) \/ CrashInReconcile(t)
<1>0. TypeOK /\ DbInv(db)
  BY DEF IInv
<1>1. ASSUME NEW t \in Ticks, ReviewCommit(t) PROVE FinishesNone(db, db')
  <2>1. PICK p \in LastOf(tick[t].review, 1) :
          db' = create_run(db, "reviewer", p) \/ UNCHANGED db
    BY <1>1 DEF ReviewCommit
  <2>2. p \in PRs
    BY <1>0, TickFields, LastOfSubset
  <2>3. CASE UNCHANGED db
    BY <2>3 DEF FinishesNone, WasFinished
  <2>4. QED
    BY <1>0, <2>1, <2>2, <2>3, ReviewRecorded
<1>2. ASSUME NEW t \in Ticks, IssueCommit(t) PROVE FinishesNone(db, db')
  <2>1. PICK i \in FirstOf(tick[t].todo, 1) : db' = RecordDispatch(db, i) \/ UNCHANGED db
    BY <1>2 DEF IssueCommit
  <2>2. i \in Issues
    BY <1>0, TickFields, FirstOfSubset
  <2>3. CASE UNCHANGED db
    BY <2>3 DEF FinishesNone, WasFinished
  <2>4. QED
    BY <1>0, <2>1, <2>2, <2>3, RecordDispatchFacts
<1>3. ASSUME PlannerCommit PROVE FinishesNone(db, db')
  <2>1. db' = upsert_batches(db, planner.layer) /\ planner.layer \in Layering
    BY <1>0, <1>3 DEF PlannerCommit, TypeOK
  <2>2. db'.runs = db.runs
    BY <1>0, <2>1, BatchesUpserted
  <2>3. QED
    BY <2>2 DEF FinishesNone, WasFinished
<1>4. ASSUME NEW m \in DOMAIN db.runs, RunAges(m) PROVE FinishesNone(db, db')
  <2>1. db' = [db EXCEPT !.runs[m].age = "stale"]
    BY <1>4 DEF RunAges
  <2>2. QED
    BY <1>0, <2>1, AgedRun
<1>5. CASE UNCHANGED db
  BY <1>5 DEF FinishesNone, WasFinished
<1>6. QED
  BY <1>1, <1>2, <1>3, <1>4, <1>5, DbWriters

(* A step finishes implementer runs only of issues that some PR closes.    *)
LEMMA FinishedMoves ==
  ASSUME IInv, [Next]_vars, NEW k \in DOMAIN db'.runs,
         db'.runs[k].agent = "implementer", db'.runs[k].status = "finished"
  PROVE  \/ WasFinished(db, db', k)
         \/ \E t \in Ticks : db'.runs[k].on \in Mentioned(t)
<1>0. DbInv(db)
  BY DEF IInv
<1>1. ASSUME NEW t \in Ticks, Reconcile(t) \/ CrashInReconcile(t)
      PROVE  WasFinished(db, db', k) \/ db'.runs[k].on \in Mentioned(t)
  <2>1. PICK d : RunsSettle(db, d, Mentioned(t)) /\ db'.runs = d.runs
    BY <1>0, <1>1, PollbackDb DEF PollbackLeaves, Settled, Settles
  <2>2. QED
    BY <2>1 DEF RunsSettle, WasFinished
<1>2. QED
  BY <1>1, StepsFinishNone DEF FinishesNone

(* However ticks overlap, age and die, a run counts as done only when a PR *)
(* for its issue exists: nobody finishes the run of an agent that          *)
(* delivered nothing.                                                      *)
THEOREM FinishedRunsHavePRs == Spec => []FinishedRunHasPR
<1> DEFINE Inv == UnopenedPRs /\ FinishedRunHasPR
<1>1. Init => Inv
  BY DEF Init, EmptyDb, UnopenedPRs, FinishedRunHasPR
<1>2. IInv /\ Inv /\ [Next]_vars => Inv'
  <2> SUFFICES ASSUME IInv, UnopenedPRs, FinishedRunHasPR, [Next]_vars PROVE Inv'
    OBVIOUS
  <2>0. TypeOK
    BY DEF IInv
  <2>1. ASSUME NEW k \in DOMAIN db'.runs,
               db'.runs[k].agent = "implementer", db'.runs[k].status = "finished"
        PROVE  \E p \in PRs : pr'[p].state # "none" /\ db'.runs[k].on \in pr'[p].closes
    <3>1. PICK p \in PRs : pr[p].state # "none" /\ db'.runs[k].on \in pr[p].closes
      <4>1. CASE WasFinished(db, db', k)
        BY <2>1, <4>1 DEF WasFinished, FinishedRunHasPR
      <4>2. CASE \E t \in Ticks : db'.runs[k].on \in Mentioned(t)
        BY <4>2 DEF Mentioned, Mentions, UnopenedPRs
      <4>3. QED
        BY <2>1, <4>1, <4>2, FinishedMoves
    <3>2. pr'[p].state # "none" /\ pr'[p].closes = pr[p].closes
      BY <2>0, <3>1, PRsStay DEF Stable
    <3>3. QED
      BY <3>1, <3>2
  <2>2. FinishedRunHasPR'
    BY <2>1 DEF FinishedRunHasPR
  <2>3. QED
    BY <2>0, <2>2, UnopenedStay
<1>3. Inv => FinishedRunHasPR
  OBVIOUS
<1>4. QED
  BY <1>1, <1>2, <1>3, Invariant, PTL DEF Spec

(* Whatever the ticks fetched and however late they act on it, a batch is  *)
(* merged only when a PR that closes its issue is.                         *)
THEOREM MergedBatchesAreBacked == Spec => []MergedIsBacked
<1>1. Init => MergedIsBacked
  BY DEF Init, EmptyDb, MergedIsBacked, WithStatus
<1>2. IInv /\ MergedIsBacked /\ [Next]_vars => MergedIsBacked'
  <2> SUFFICES ASSUME IInv, MergedIsBacked, [Next]_vars,
                      NEW i \in Issues, db'.batch[i].status = "merged"
               PROVE  Landed(i)'
    BY DEF MergedIsBacked, WithStatus
  <2>0. TypeOK
    BY DEF IInv
  <2>1. CASE db.batch[i].status = "merged"
    <3>1. Landed(i)
      BY <2>1 DEF MergedIsBacked, WithStatus
    <3>2. QED
      BY <2>0, <3>1, LandedStays
  <2>2. CASE \E t \in Ticks : i \in LandedIssues(tick[t].closed)
    <3>1. PICK t \in Ticks : i \in LandedIssues(tick[t].closed)
      BY <2>2
    <3>2. tick[t].closed \in SUBSET Fetched
      BY <2>0, TickFields DEF Tick
    <3>3. Landed(i)
      BY <3>1, <3>2 DEF LandedIssues, Landed, Fetched
    <3>4. QED
      BY <2>0, <3>3, LandedStays
  <2>3. QED
    BY <2>1, <2>2, BatchMoves DEF Kept, Merged, Retried, Replanned, Promoted
<1>3. QED
  BY <1>1, <1>2, Invariant, PTL DEF Spec

-----------------------------------------------------------------------------
(* The life cycle of the batches.                                          *)

(* Each way a batch may move is one of its life cycle's.                   *)
LEMMA LifecycleStep ==
  ASSUME IInv, [Next]_vars PROVE Lifecycle!Next
<1> SUFFICES ASSUME NEW i \in Issues
             PROVE  \/ Lifecycle!Plan(i) \/ Lifecycle!Start(i) \/ Lifecycle!Link(i)
                    \/ Lifecycle!GiveUp(i) \/ Lifecycle!Land(i) \/ Lifecycle!Stay(i)
  BY DEF Lifecycle!Next
<1>0. DbInv(db) /\ db \in Db
  BY DEF IInv, TypeOK
<1>1. CASE Kept(db, db', i)
  BY <1>1 DEF Kept, Lifecycle!Stay, Lifecycle!Link
<1>2. CASE Merged(db, db', i)
  BY <1>2 DEF Merged, Lifecycle!Land
<1>3. CASE Retried(db, db', i)
  BY <1>3 DEF Retried, Lifecycle!GiveUp
<1>4. CASE Replanned(db, db', i)
  BY <1>4 DEF Replanned, Lifecycle!Plan, Lifecycle!Stay
<1>5. CASE Promoted(db, db', i)
  <2> DEFINE n == Len(db.runs)
  <2>1. n \in Nat
    BY <1>0, DbFields
  <2>2. \A j \in Issues : db.batch[j].run \in Nat /\ db.batch[j].run <= n
    BY <1>0, DbFields DEF DbInv, Batch
  <2>3. db'.batch[i].run = n + 1
    BY <1>5 DEF Promoted
  <2> HIDE DEF n
  <2>4. /\ db'.batch[i].run \in Nat \ {0}
        /\ \A j \in Issues : db'.batch[i].run # db.batch[j].run
    BY <2>1, <2>2, <2>3
  <2>5. QED
    BY <1>5, <2>4 DEF Promoted, Lifecycle!Start
<1>6. QED
  BY <1>1, <1>2, <1>3, <1>4, <1>5, BatchMoves

(* The engine keeps what the rows of batches promise to their readers:     *)
(* overlapping ticks, the planner, stale fetches and crashes move each     *)
(* batch along the life cycle, and each new attempt is its own.            *)
THEOREM LifecycleImplemented == Spec => ImplementsLifecycle
<1>1. Init => Lifecycle!Init
  BY DEF Init, EmptyDb, Lifecycle!Init
<1>2. IInv /\ [Next]_vars => [Lifecycle!Next]_(Lifecycle!vars)
  BY LifecycleStep
<1>3. QED
  BY <1>1, <1>2, Invariant, PTL DEF Spec, ImplementsLifecycle, Lifecycle!Spec

-----------------------------------------------------------------------------
(* Finished runs and their batches, when no process dies.                  *)

Linked(d) ==
  \A k \in DOMAIN d.runs :
    d.runs[k].agent = "implementer" /\ d.runs[k].status = "finished" =>
      d.batch[d.runs[k].on].pr_number = "set"

(* A reconciliation that finishes no implementer run keeps every link.     *)
LEMMA SettlingKeepsLinks ==
  ASSUME NEW L, NEW d, DbInv(d), Linked(d), NEW e, Settles(d, e, {}, L)
  PROVE  Linked(e)
<1> SUFFICES ASSUME NEW k \in DOMAIN e.runs,
                    e.runs[k].agent = "implementer", e.runs[k].status = "finished"
             PROVE  e.batch[e.runs[k].on].pr_number = "set"
  BY DEF Linked
<1>1. /\ k \in DOMAIN d.runs
      /\ d.runs[k].agent = "implementer" /\ d.runs[k].status = "finished"
      /\ d.runs[k].on = e.runs[k].on
  BY DEF Settles, RunsSettle
<1>2. e.runs[k].on \in Issues /\ d.batch[e.runs[k].on].pr_number = "set"
  BY <1>1 DEF DbInv, Linked
<1>3. e.batch[e.runs[k].on].pr_number \in {d.batch[e.runs[k].on].pr_number, "set"}
  BY <1>2 DEF Settles, BatchesSettle
<1>4. QED
  BY <1>2, <1>3

(* complete_implementer_runs links the batch of every run it finishes.     *)
LEMMA CompletedRunsAreLinked ==
  ASSUME NEW d, DbInv(d), Linked(d), NEW mentions,
         NEW e, e = complete_implementer_runs(d, mentions)
  PROVE  Linked(e)
<1> DEFINE done(i) == RunsToComplete(d, mentions, i)
           S == UNION {done(i) : i \in Issues}
           u == UpdateRuns(d, S, "finished")
           batch == [i \in Issues |->
                       [d.batch[i] EXCEPT !.pr_number =
                          IF done(i) = {} THEN d.batch[i].pr_number ELSE "set"]]
<1>1. d \in Db /\ d.batch \in [Issues -> Batch]
  BY DbFields DEF DbInv
<1>2. \A i \in Issues : \A k \in done(i) : d.runs[k].on = i
  BY <1>1, CompletedIsMentioned
<1>3. u = UpdateRuns(d, S, "finished") /\ e = [u EXCEPT !.batch = batch]
  BY DEF complete_implementer_runs
<1>4. \A k \in S : \E i \in Issues : k \in done(i)
  OBVIOUS
<1>5. \A i \in Issues :
        /\ batch[i].pr_number \in {d.batch[i].pr_number, "set"}
        /\ done(i) # {} => batch[i].pr_number = "set"
  <2> HIDE DEF done
  <2> TAKE i \in Issues
  <2>1. d.batch[i] \in Batch
    BY <1>1
  <2>2. QED
    BY <2>1 DEF Batch
<1>6. e.runs = u.runs /\ e.batch = batch
  BY <1>1, <1>3 DEF UpdateRuns, Db
<1> HIDE DEF done, S, u, batch
<1>7. /\ DOMAIN u.runs = DOMAIN d.runs
      /\ \A k \in DOMAIN d.runs :
           u.runs[k] = IF k \in S THEN [d.runs[k] EXCEPT !.status = "finished"]
                                  ELSE d.runs[k]
  BY <1>1, <1>3, UpdateRunsFacts
<1> SUFFICES ASSUME NEW k \in DOMAIN e.runs,
                    e.runs[k].agent = "implementer", e.runs[k].status = "finished"
             PROVE  e.batch[e.runs[k].on].pr_number = "set"
  BY DEF Linked
<1>8. k \in DOMAIN d.runs /\ d.runs[k] \in Run
  BY <1>1, <1>6, <1>7, DbFields
<1>9. CASE k \in S
  <2>1. PICK i \in Issues : k \in done(i)
    BY <1>4, <1>9
  <2>2. e.runs[k].on = i
    BY <1>2, <1>6, <1>7, <1>8, <1>9, <2>1 DEF Run
  <2>3. QED
    BY <1>5, <1>6, <2>1, <2>2
<1>10. CASE k \notin S
  <2>1. e.runs[k] = d.runs[k]
    BY <1>6, <1>7, <1>8, <1>10
  <2>2. e.runs[k].on \in Issues /\ d.batch[e.runs[k].on].pr_number = "set"
    BY <1>8, <2>1 DEF DbInv, Linked
  <2>3. QED
    BY <1>5, <1>6, <2>2
<1>11. QED
  BY <1>9, <1>10

(* A pollback that gets to its end leaves every finished run linked.       *)
LEMMA ReconcileLinks ==
  ASSUME DbInv(db), Linked(db), NEW t, Reconcile(t) PROVE Linked(db')
<1> DEFINE r == Reconciled(t)
           landed == LandedIssues(tick[t].closed)
<1>0. /\ r[1] = complete_reviewer_runs(db, tick[t].open \cup tick[t].closed)
      /\ r[2] = complete_implementer_runs(r[1], Mentions(t))
      /\ r[3] = mark_merged_batches(r[2], landed)
      /\ r[4] = UpdateRuns(r[3], StaleQueued(r[3]), "timeout")
      /\ db' = reset_batches(r[4], zombie_batches(r[4]))
  BY DEF Reconcile, Reconciled, reap_stale_queued_runs, recover_zombie_batches
<1>1. DbInv(r[1]) /\ DbInv(r[2]) /\ DbInv(r[3]) /\ DbInv(r[4])
  BY ReconciliationsSettle DEF Settled
<1> HIDE DEF r, landed
<1>2. Linked(r[1])
  <2>1. Settles(db, r[1], {}, {})
    BY <1>0, ReviewerRunsSettle
  <2>2. QED
    BY <2>1, SettlingKeepsLinks
<1>3. Linked(r[2])
  BY <1>0, <1>1, <1>2, CompletedRunsAreLinked
<1>4. Linked(r[3])
  <2>1. Settles(r[2], r[3], {}, landed)
    BY <1>0, <1>1, MergedBatchesSettle
  <2>2. QED
    BY <1>1, <1>3, <2>1, SettlingKeepsLinks
<1>5. Linked(r[4])
  <2>1. Settles(r[3], r[4], {}, {})
    BY <1>0, <1>1, ReapedRunsSettle
  <2>2. QED
    BY <1>1, <1>4, <2>1, SettlingKeepsLinks
<1>6. /\ db'.runs = r[4].runs
      /\ \A i \in Issues : db'.batch[i] = r[4].batch[i] \/ GivenUp(r[4], db', i)
  BY <1>0, <1>1, ZombiesRecovered
<1>7. ASSUME NEW k \in DOMAIN db'.runs,
             db'.runs[k].agent = "implementer", db'.runs[k].status = "finished"
      PROVE  db'.batch[db'.runs[k].on].pr_number = "set"
  <2>1. db'.runs[k].on \in Issues /\ r[4].batch[db'.runs[k].on].pr_number = "set"
    BY <1>1, <1>5, <1>6, <1>7 DEF DbInv, Linked
  <2>2. QED
    BY <1>6, <2>1 DEF GivenUp
<1>8. QED
  BY <1>7 DEF Linked

(* As long as no process dies in between, a run is never finished without  *)
(* its batch being linked to the PR, however the pollbacks of overlapping  *)
(* ticks interleave and whatever requests or commits fail: the two updates *)
(* of each completion leave no gap but the one a crash finds.              *)
THEOREM FinishedRunsAreLinked ==
  ASSUME "crash" \notin Upsets PROVE Spec => []FinishedRunIsLinked
<1>1. Init => FinishedRunIsLinked
  BY DEF Init, EmptyDb, FinishedRunIsLinked
<1>2. IInv /\ FinishedRunIsLinked /\ [Next]_vars => FinishedRunIsLinked'
  <2> SUFFICES ASSUME IInv, Linked(db), [Next]_vars PROVE Linked(db')
    BY DEF Linked, FinishedRunIsLinked
  <2>0. TypeOK /\ DbInv(db) /\ DbInv(db')
    BY DbStaysConsistent DEF IInv
  <2>1. CASE \E t \in Ticks : Reconcile(t)
    BY <2>0, <2>1, ReconcileLinks
  <2>2. CASE FinishesNone(db, db')
    <3>1. ASSUME NEW k \in DOMAIN db'.runs,
                 db'.runs[k].agent = "implementer", db'.runs[k].status = "finished"
          PROVE  db'.batch[db'.runs[k].on].pr_number = "set"
      <4> DEFINE i == db'.runs[k].on
      <4>1. i \in Issues
        BY <2>0, <3>1 DEF DbInv
      <4>2. db.batch[i].pr_number = "set"
        BY <2>2, <3>1 DEF FinishesNone, WasFinished, Linked
      <4> HIDE DEF i
      <4>3. db'.batch[i].pr_number = "set"
        BY <4>1, <4>2, BatchMoves DEF Kept, Merged, Retried, Replanned, Promoted
      <4>4. QED
        BY <4>3 DEF i
    <3>2. QED
      BY <3>1 DEF Linked
  <2>3. \A t \in Ticks : ~ CrashInReconcile(t)
    BY DEF CrashInReconcile, Upset
  <2>4. QED
    BY <2>1, <2>2, <2>3, StepsFinishNone
<1>3. QED
  BY <1>1, <1>2, Invariant, PTL DEF Spec

-----------------------------------------------------------------------------
(* The ceiling on active runs.                                             *)

(* The number of active runs together with the slots of tick t.            *)
Claimed(t) == active_run_count(db) + Reserved(t)

(* The claim is a number.                                                  *)
LEMMA ClaimedType ==
  ASSUME TypeOK, NEW t \in Ticks
  PROVE  /\ active_run_count(db) \in Nat /\ Reserved(t) \in Nat
         /\ Claimed(t) \in Nat /\ MaxInFlight \in Nat
<1>1. active_run_count(db) \in Nat
  BY ActiveFinite DEF TypeOK
<1>2. Reserved(t) \in Nat
  BY TickFields DEF Reserved
<1>3. QED
  BY <1>1, <1>2, MaxInFlightAssumption DEF Claimed

ClaimIsNat == \A t \in Ticks : active_run_count(db) \in Nat /\ Reserved(t) \in Nat

(* Only the two commits of a dispatch make a run active.                   *)
LEMMA NoNewActiveRun ==
  ASSUME IInv, [Next]_vars
  PROVE  \/ active_run_count(db') <= active_run_count(db)
         \/ \E t \in Ticks : ReviewCommit(t) \/ IssueCommit(t)
<1>0. /\ TypeOK /\ DbInv(db) /\ DbInv(db')
      /\ db \in Db /\ db' \in Db
  BY DbStaysConsistent DEF IInv, DbInv
<1>1. ASSUME Active(db') \subseteq Active(db)
      PROVE  active_run_count(db') <= active_run_count(db)
  BY <1>0, <1>1, ActiveMonotonic
<1>2. ASSUME NEW t \in Ticks, Reconcile(t) \/ CrashInReconcile(t)
      PROVE  Active(db') \subseteq Active(db)
  <2>1. PICK d : Settles(db, d, Mentioned(t), LandedIssues(tick[t].closed))
                 /\ db'.runs = d.runs
    BY <1>0, <1>2, PollbackDb DEF PollbackLeaves, Settled
  <2>2. Active(d) \subseteq Active(db)
    BY <2>1, SettlesFewerActive DEF Settles
  <2>3. QED
    BY <2>1, <2>2 DEF Active, Queued
<1>3. ASSUME PlannerCommit PROVE Active(db') \subseteq Active(db)
  <2>1. db' = upsert_batches(db, planner.layer) /\ planner.layer \in Layering
    BY <1>0, <1>3 DEF PlannerCommit, TypeOK
  <2>2. db'.runs = db.runs
    BY <1>0, <2>1, BatchesUpserted
  <2>3. QED
    BY <2>2 DEF Active, Queued
<1>4. ASSUME NEW k \in DOMAIN db.runs, RunAges(k) PROVE Active(db') \subseteq Active(db)
  <2>1. db' = [db EXCEPT !.runs[k].age = "stale"]
    BY <1>4 DEF RunAges
  <2>2. QED
    BY <1>0, <2>1, AgedRun
<1>5. CASE UNCHANGED db
  BY <1>1, <1>5
<1>6. QED
  BY <1>1, <1>2, <1>3, <1>4, <1>5, DbWriters

(* The fields of the local variables after the common assignments.         *)
LEMMA GotoFields ==
  ASSUME TypeOK, NEW t \in Ticks, NEW step, Goto(t, step)
  PROVE  /\ tick'[t].pc = step
         /\ tick'[t].slots = tick[t].slots /\ tick'[t].todo = tick[t].todo
<1>1. tick \in [Ticks -> Tick] /\ tick[t] \in Tick
  BY DEF TypeOK
<1>2. tick'[t] = [tick[t] EXCEPT !.pc = step]
  BY <1>1 DEF Goto
<1>3. QED
  BY <1>1, <1>2 DEF Tick

(* The same for the next PR of the reviewer pass.                          *)
LEMMA NextReviewFields ==
  ASSUME TypeOK, NEW t \in Ticks, NEW p, NEW slots, NextReview(t, p, slots)
  PROVE  tick'[t].pc \in {"decide", "review_comment"} /\ tick'[t].slots = slots
<1> DEFINE step == IF tick[t].review = {p} THEN "decide" ELSE "review_comment"
           left == tick[t].review \ {p}
<1>1. tick \in [Ticks -> Tick] /\ tick[t] \in Tick
  BY DEF TypeOK
<1>2. tick'[t] = [tick[t] EXCEPT !.review = left, !.slots = slots, !.pc = step]
  BY <1>1 DEF NextReview
<1>3. step \in {"decide", "review_comment"}
  OBVIOUS
<1> HIDE DEF step, left
<1>4. QED
  BY <1>1, <1>2, <1>3 DEF Tick

(* Only a tick that loads reserves slots; the steps before a commit keep   *)
(* what it reserved, and the decision gives up what it cannot use.         *)
LEMMA ReservedSteps ==
  ASSUME TypeOK, NEW t \in Ticks,
         TickStep(t) \/ Crash(t) \/ CrashInReconcile(t)
  PROVE  \/ ReviewCommit(t) \/ IssueCommit(t)
         \/ Reserved(t)' = 0
         \/ Reserved(t)' <= Reserved(t)
         \/ Load(t) /\ Reserved(t)' = FreeSlots(db)
<1> DEFINE local == tick[t]
           new   == tick'[t]
<1>0. /\ tick \in [Ticks -> Tick] /\ local \in Tick
      /\ local.review \in SUBSET PRs /\ local.slots \in Nat
      /\ local.todo \in SUBSET Issues /\ IsFiniteSet(local.todo)
      /\ Cardinality(local.todo) \in Nat
  BY TickFields DEF TypeOK
<1>1. Reserved(t) \in Nat
  BY ClaimedType
<1>2. ASSUME new.slots = 0, new.todo = {} PROVE Reserved(t)' = 0
  BY <1>2, FS_EmptySet DEF Reserved
<1>3. ASSUME local.pc \notin DispatchSteps, new.pc \notin DispatchSteps,
             new.slots \in Nat, new.slots <= local.slots
      PROVE  Reserved(t)' <= Reserved(t)
  BY <1>3 DEF Reserved
<1>4. ASSUME local.pc \in DispatchSteps, new.pc \in DispatchSteps,
             new.todo \in SUBSET local.todo
      PROVE  Reserved(t)' <= Reserved(t)
  <2>1. Cardinality(new.todo) <= Cardinality(local.todo)
    BY <1>0, <1>4, FS_Subset
  <2>2. QED
    BY <1>4, <2>1 DEF Reserved
<1>5. /\ \A step \in {"idle", "load", "fetch_prs", "decide"} : step \notin DispatchSteps
      /\ \A step \in PollSteps \cup ReviewSteps : step \notin DispatchSteps
  BY DEF PollSteps, ReviewSteps, DispatchSteps
<1>6. ASSUME Crash(t) \/ CrashInReconcile(t) \/ Reconcile(t)
      PROVE  new.slots = 0 /\ new.todo = {}
  <2>1. CASE Crash(t) \/ CrashInReconcile(t)
    <3>1. new = IdleTick
      BY <1>0, <2>1 DEF Crash, CrashInReconcile
    <3>2. QED
      BY <3>1 DEF IdleTick
  <2>2. CASE Reconcile(t)
    <3>1. \E step, zombies :
            tick' = [tick EXCEPT ![t] = [IdleTick EXCEPT !.pc = step, !.zombies = zombies]]
      BY <2>2 DEF Reconcile
    <3>2. PICK step, zombies :
            new = [IdleTick EXCEPT !.pc = step, !.zombies = zombies]
      BY <1>0, <3>1
    <3>3. QED
      BY <3>2 DEF IdleTick
  <2>3. QED
    BY <1>6, <2>1, <2>2
<1>7. CASE PollOpen(t) \/ PollClosed(t) \/ UnlabelZombie(t)
  <2>1. local.pc \in {"idle", "poll_closed", "unlabel"}
    BY <1>7 DEF PollOpen, PollClosed, UnlabelZombie
  <2>2. \/ /\ new.pc \in {"poll_closed", "reconcile", "unlabel", "load"}
           /\ new.slots = local.slots
        \/ new.slots = 0 /\ new.todo = {}
    <3>1. CASE PollOpen(t)
      <4>1. \/ tick' = [tick EXCEPT ![t].pc = "poll_closed", ![t].open = Fetch(OpenPRs)]
            \/ Goto(t, "load")
        BY <3>1 DEF PollOpen
      <4>2. CASE tick' = [tick EXCEPT ![t].pc = "poll_closed", ![t].open = Fetch(OpenPRs)]
        BY <1>0, <4>2 DEF Tick
      <4>3. QED
        BY <4>1, <4>2, GotoFields
    <3>2. CASE PollClosed(t)
      <4>1. \/ tick' = [tick EXCEPT ![t].pc = "reconcile", ![t].closed = Fetch(recent)]
            \/ tick' = [tick EXCEPT ![t] = [IdleTick EXCEPT !.pc = "load"]]
        BY <3>2 DEF PollClosed
      <4>2. CASE tick' = [tick EXCEPT ![t].pc = "reconcile", ![t].closed = Fetch(recent)]
        BY <1>0, <4>2 DEF Tick
      <4>3. CASE tick' = [tick EXCEPT ![t] = [IdleTick EXCEPT !.pc = "load"]]
        <5>1. new = [IdleTick EXCEPT !.pc = "load"]
          BY <1>0, <4>3
        <5>2. QED
          BY <5>1 DEF IdleTick
      <4>4. QED
        BY <4>1, <4>2, <4>3
    <3>3. CASE UnlabelZombie(t)
      <4>1. PICK i \in FirstOf(local.zombies, 1) :
              tick' = [tick EXCEPT
                         ![t].zombies = @ \ {i},
                         ![t].pc = IF local.zombies = {i} THEN "load" ELSE @]
        BY <3>3 DEF UnlabelZombie
      <4> DEFINE step == IF local.zombies = {i} THEN "load" ELSE local.pc
                 left == local.zombies \ {i}
      <4>2. new = [local EXCEPT !.zombies = left, !.pc = step]
        BY <1>0, <4>1
      <4>3. step \in {"unlabel", "load"}
        BY <3>3 DEF UnlabelZombie
      <4> HIDE DEF step, left
      <4>4. QED
        BY <1>0, <4>2, <4>3 DEF Tick
    <3>4. QED
      BY <1>7, <3>1, <3>2, <3>3
  <2>3. QED
    BY <1>0, <1>2, <1>3, <1>5, <2>1, <2>2 DEF PollSteps
<1>8. CASE Load(t)
  <2>1. \/ new = IdleTick
        \/ new.pc = "fetch_prs" /\ new.slots = FreeSlots(db)
    BY <1>0, <1>8 DEF Load, IdleTick
  <2>2. CASE new = IdleTick
    BY <1>2, <2>2 DEF IdleTick
  <2>3. CASE new.pc = "fetch_prs" /\ new.slots = FreeSlots(db)
    BY <1>5, <1>8, <2>3 DEF Reserved
  <2>4. QED
    BY <2>1, <2>2, <2>3
<1>9. CASE FetchPRs(t)
  <2>1. /\ local.pc = "fetch_prs" /\ new.pc \in {"decide", "review_comment"}
        /\ new.slots = local.slots
    <3>1. PICK prs \in SUBSET PRs :
            LET review == LastOf({p \in prs : pr[p].review = "none"}, local.slots) IN
            tick' = [tick EXCEPT
                       ![t].blocked = @ \cup UNION {pr[p].closes : p \in prs},
                       ![t].review = review,
                       ![t].pc = IF review = {} THEN "decide" ELSE "review_comment"]
      BY <1>9 DEF FetchPRs, OpenPRs
    <3> DEFINE review == LastOf({p \in prs : pr[p].review = "none"}, local.slots)
               closed == UNION {pr[p].closes : p \in prs}
               step   == IF review = {} THEN "decide" ELSE "review_comment"
    <3>2. new = [local EXCEPT !.blocked = local.blocked \cup closed,
                              !.review = review, !.pc = step]
      BY <1>0, <3>1
    <3>3. step \in {"decide", "review_comment"} /\ local.pc = "fetch_prs"
      BY <1>9 DEF FetchPRs
    <3> HIDE DEF review, closed, step
    <3>4. QED
      BY <1>0, <3>2, <3>3 DEF Tick
  <2>2. QED
    BY <1>0, <1>3, <1>5, <2>1 DEF ReviewSteps
<1>10. CASE ReviewComment(t) \/ ReviewLabel(t)
  <2>1. /\ local.pc \in ReviewSteps /\ new.pc \in ReviewSteps \cup {"decide"}
        /\ new.slots = local.slots
    <3>1. /\ local.pc \in ReviewSteps
          /\ \/ \E step \in ReviewSteps : Goto(t, step)
             \/ \E p : NextReview(t, p, local.slots)
      BY <1>10 DEF ReviewComment, ReviewLabel, ReviewSteps
    <3>2. QED
      BY <3>1, GotoFields, NextReviewFields DEF ReviewSteps
  <2>2. QED
    BY <1>0, <1>3, <1>5, <2>1
<1>11. CASE Decide(t)
  <2>1. \/ new = IdleTick
        \/ new.pc = "issue_get" /\ new.todo = Batches(t)
    BY <1>0, <1>11 DEF Decide, IdleTick
  <2>2. CASE new = IdleTick
    BY <1>2, <2>2 DEF IdleTick
  <2>3. CASE new.pc = "issue_get" /\ new.todo = Batches(t)
    <3>1. Reserved(t) = local.slots
      BY <1>5, <1>11 DEF Decide, Reserved
    <3>2. Reserved(t)' = Cardinality(Batches(t))
      BY <2>3 DEF Reserved, DispatchSteps
    <3>3. QED
      BY <3>1, <3>2, BatchesFit
  <2>4. QED
    BY <2>1, <2>2, <2>3
<1>12. CASE IssueGet(t) \/ IssueComment(t) \/ IssueLabel(t)
  <2>1. local.pc \in DispatchSteps
    BY <1>12 DEF IssueGet, IssueComment, IssueLabel, DispatchSteps
  <2>2. \/ \E step \in DispatchSteps : Goto(t, step)
        \/ \E i : NextIssue(t, i)
    BY <1>12 DEF IssueGet, IssueComment, IssueLabel, DispatchSteps
  <2>3. CASE \E step \in DispatchSteps : Goto(t, step)
    <3>1. new.pc \in DispatchSteps /\ new.todo = local.todo
      BY <1>0, <2>3 DEF Goto, Tick
    <3>2. QED
      BY <1>4, <2>1, <3>1
  <2>4. CASE \E i : NextIssue(t, i)
    <3>1. \/ new = IdleTick
          \/ new.pc = "issue_get" /\ new.todo \in SUBSET local.todo
      BY <1>0, <2>4 DEF NextIssue, Tick
    <3>2. CASE new = IdleTick
      BY <1>2, <3>2 DEF IdleTick
    <3>3. CASE new.pc = "issue_get" /\ new.todo \in SUBSET local.todo
      BY <1>4, <2>1, <3>3 DEF DispatchSteps
    <3>4. QED
      BY <3>1, <3>2, <3>3
  <2>5. QED
    BY <2>2, <2>3, <2>4
<1>13. QED
  BY <1>2, <1>6, <1>7, <1>8, <1>9, <1>10, <1>11, <1>12 DEF TickStep

(* A recorded dispatch turns one reserved slot into one active run, and a  *)
(* failed one at most gives the slot back.                                 *)
LEMMA CommitsKeepClaim ==
  ASSUME IInv, NEW t \in Ticks, ReviewCommit(t) \/ IssueCommit(t)
  PROVE  Claimed(t)' <= Claimed(t)
<1> DEFINE local == tick[t]
           new   == tick'[t]
<1>0. /\ TypeOK /\ ReviewFits /\ DbInv(db)
      /\ tick \in [Ticks -> Tick] /\ local \in Tick
      /\ local.slots \in Nat
      /\ local.review \in SUBSET PRs
      /\ local.todo \in SUBSET Issues /\ IsFiniteSet(local.todo)
      /\ Cardinality(local.todo) \in Nat
      /\ active_run_count(db) \in Nat
  BY TickFields, ClaimedType DEF TypeOK, IInv
<1>1. CASE ReviewCommit(t)
  <2>1. PICK p \in LastOf(local.review, 1) :
          \/ /\ db' = create_run(db, "reviewer", p)
             /\ NextReview(t, p, local.slots - 1)
          \/ UNCHANGED db /\ NextReview(t, p, local.slots)
    BY <1>1 DEF ReviewCommit
  <2>2. p \in PRs
    BY <1>0, LastOfSubset
  <2>3. /\ local.pc \notin DispatchSteps /\ new.pc \notin DispatchSteps
        /\ \/ db' = create_run(db, "reviewer", p) /\ new.slots = local.slots - 1
           \/ UNCHANGED db /\ new.slots = local.slots
    BY <1>0, <1>1, <2>1, NextReviewFields DEF ReviewCommit, DispatchSteps
  <2>4. Claimed(t) = active_run_count(db) + local.slots
    BY <2>3 DEF Claimed, Reserved
  <2>5. Claimed(t)' = active_run_count(db') + new.slots
    BY <2>3 DEF Claimed, Reserved
  <2>6. CASE db' = create_run(db, "reviewer", p) /\ new.slots = local.slots - 1
    <3>1. active_run_count(db') = active_run_count(db) + 1
      BY <1>0, <2>2, <2>6, ReviewRecorded
    <3>2. QED
      BY <1>0, <2>4, <2>5, <2>6, <3>1
  <2>7. CASE UNCHANGED db /\ new.slots = local.slots
    BY <1>0, <2>4, <2>5, <2>7
  <2>8. QED
    BY <2>3, <2>6, <2>7
<1>2. CASE IssueCommit(t)
  <2>1. PICK i \in FirstOf(local.todo, 1) :
          /\ db' = RecordDispatch(db, i) \/ UNCHANGED db
          /\ NextIssue(t, i)
    BY <1>2 DEF IssueCommit
  <2>2. i \in Issues /\ i \in local.todo
    BY <1>0, FirstOfSubset
  <2>3. active_run_count(db') <= active_run_count(db) + 1 /\ active_run_count(db') \in Nat
    <3>1. CASE db' = RecordDispatch(db, i)
      BY <1>0, <2>2, <3>1, RecordDispatchFacts
    <3>2. CASE UNCHANGED db
      BY <1>0, <3>2
    <3>3. QED
      BY <2>1, <3>1, <3>2
  <2>4. /\ Cardinality(local.todo \ {i}) = Cardinality(local.todo) - 1
        /\ Cardinality(local.todo \ {i}) \in Nat
    BY <1>0, <2>2, FS_RemoveElement, FS_CardinalityType
  <2>5. Reserved(t) = Cardinality(local.todo)
    BY <1>2 DEF IssueCommit, Reserved, DispatchSteps
  <2>6. Reserved(t)' = Cardinality(local.todo \ {i})
    <3>1. CASE local.todo = {i}
      <4>1. new = IdleTick
        BY <1>0, <2>1, <3>1 DEF NextIssue
      <4>2. Reserved(t)' = 0
        BY <4>1 DEF Reserved, IdleTick, DispatchSteps
      <4>3. local.todo \ {i} = {}
        BY <3>1
      <4>4. QED
        BY <4>2, <4>3, FS_EmptySet
    <3>2. CASE local.todo # {i}
      <4>1. new.pc = "issue_get" /\ new.todo = local.todo \ {i}
        BY <1>0, <2>1, <3>2 DEF NextIssue, Tick
      <4>2. QED
        BY <4>1 DEF Reserved, DispatchSteps
    <3>3. QED
      BY <3>1, <3>2
  <2>7. QED
    BY <1>0, <2>3, <2>4, <2>5, <2>6 DEF Claimed
<1>3. QED
  BY <1>1, <1>2

(* One tick at a time never has more runs active than the configured       *)
(* ceiling, through partial failures, crashes, aged runs and any change of *)
(* the override while it works.                                            *)
THEOREM CeilingHolds == Spec => []RunsWithinCeiling
<1>1. Init => RunsWithinCeiling
  <2> SUFFICES ASSUME Init, NEW t \in Ticks PROVE Claimed(t) <= MaxInFlight
    BY DEF RunsWithinCeiling, Claimed
  <2>1. Active(db) = {} /\ tick[t].slots = 0 /\ tick[t].pc = "idle"
    BY DEF Init, EmptyDb, Active, Queued, IdleTick
  <2>2. active_run_count(db) = 0 /\ Reserved(t) = 0
    BY <2>1, FS_EmptySet DEF active_run_count, Reserved, DispatchSteps
  <2>3. QED
    BY <2>2, MaxInFlightAssumption DEF Claimed
<1>2. IInv => ClaimIsNat
  BY ClaimedType DEF IInv, ClaimIsNat
<1>3. IInv' => ClaimIsNat'
  BY <1>2, PTL
<1>4. IInv /\ RunsWithinCeiling /\ [Next]_vars => RunsWithinCeiling'
  <2> SUFFICES ASSUME IInv, RunsWithinCeiling, [Next]_vars,
                      NEW t \in Ticks, Ticks = {t}
               PROVE  Claimed(t)' <= MaxInFlight
    BY DEF RunsWithinCeiling, Claimed
  <2>0. /\ TypeOK /\ Claimed(t) <= MaxInFlight
        /\ active_run_count(db) \in Nat /\ Reserved(t) \in Nat
        /\ Claimed(t) \in Nat /\ MaxInFlight \in Nat
    BY ClaimedType DEF IInv, RunsWithinCeiling, Claimed
  <2>1. active_run_count(db') \in Nat /\ Reserved(t)' \in Nat
    BY <1>3, InvStep DEF ClaimIsNat
  <2>2. CASE ReviewCommit(t) \/ IssueCommit(t)
    <3>1. Claimed(t)' <= Claimed(t)
      BY <2>2, CommitsKeepClaim
    <3>2. Claimed(t)' \in Nat
      BY <2>1 DEF Claimed
    <3>3. QED
      BY <2>0, <3>1, <3>2
  <2>3. CASE ~ (ReviewCommit(t) \/ IssueCommit(t))
    <3>1. active_run_count(db') <= active_run_count(db)
      BY <2>3, NoNewActiveRun
    <3>2. \/ Reserved(t)' <= Reserved(t)
          \/ Load(t) /\ Reserved(t)' = FreeSlots(db)
      <4>1. CASE UNCHANGED tick
        <5>1. Reserved(t)' = Reserved(t)
          BY <4>1 DEF Reserved
        <5>2. QED
          BY <2>0, <5>1
      <4>2. CASE TickStep(t) \/ Crash(t) \/ CrashInReconcile(t)
        BY <2>0, <2>3, <4>2, ReservedSteps
      <4>3. QED
        BY <4>1, <4>2, TickWriters
    <3>3. CASE Reserved(t)' <= Reserved(t)
      BY <2>0, <2>1, <3>1, <3>3 DEF Claimed
    <3>4. CASE Load(t) /\ Reserved(t)' = FreeSlots(db)
      <4>1. active_run_count(db) <= MaxInFlight
        BY <2>0 DEF Claimed
      <4>2. /\ FreeSlots(db) \in Nat
            /\ active_run_count(db) + FreeSlots(db) <= MaxInFlight
        BY <2>0, <4>1, FreeSlotsBounded
      <4>3. QED
        BY <2>0, <2>1, <3>1, <3>4, <4>2 DEF Claimed
    <3>5. QED
      BY <3>2, <3>3, <3>4
  <2>4. QED
    BY <2>2, <2>3
<1>5. QED
  BY <1>1, <1>4, Invariant, PTL DEF Spec

-----------------------------------------------------------------------------
(* The label agent:start, while the requests, the commits and the one tick *)
(* that runs do not fail.                                                  *)

Planned == {i \in Issues : db.batch[i].status # "none"}

(* The tick is about to take the label off or to promote the batch.        *)
Handles(t, i) ==
  \/ tick[t].pc = "unlabel" /\ i \in tick[t].zombies
  \/ tick[t].pc = "issue_commit" /\ i \in FirstOf(tick[t].todo, 1)

Labelled(i) == AgentStart \in issue[i].labels

(* A planner run must not make a labelled issue pending either: only       *)
(* issues that have a row already are ever labelled.                       *)
LabelInv(t) ==
  /\ DOMAIN tick[t].plan \subseteq Planned
  /\ tick[t].todo \subseteq Planned
  /\ \A i \in Issues : Labelled(i) =>
       /\ i \in Planned
       /\ db.batch[i].status = "pending" => Handles(t, i)

(* sorted(S)[:1] has one member at most.                                   *)
LEMMA FirstIsUnique ==
  ASSUME NEW S \in SUBSET Nat, IsFiniteSet(S),
         NEW i \in FirstOf(S, 1), NEW j \in FirstOf(S, 1)
  PROVE  i = j
<1> DEFINE T == FirstOf(S, 1)
<1>1. IsFiniteSet(T) /\ Cardinality(T) <= 1 /\ i \in T /\ j \in T
  BY FirstOfCardinality
<1> HIDE DEF T
<1>2. SUFFICES ASSUME i # j PROVE FALSE
  OBVIOUS
<1>3. IsFiniteSet(T \ {i}) /\ Cardinality(T \ {i}) = Cardinality(T) - 1
  BY <1>1, FS_RemoveElement
<1>4. IsFiniteSet((T \ {i}) \ {j}) /\ Cardinality((T \ {i}) \ {j}) = Cardinality(T \ {i}) - 1
  BY <1>1, <1>2, <1>3, FS_RemoveElement
<1>5. Cardinality(T) \in Nat /\ Cardinality((T \ {i}) \ {j}) \in Nat
  BY <1>1, <1>4, FS_CardinalityType
<1>6. QED
  BY <1>1, <1>3, <1>4, <1>5

(* A row is never deleted.                                                 *)
LEMMA PlannedStays == ASSUME IInv, [Next]_vars PROVE Planned \subseteq Planned'
<1>1. ASSUME NEW i \in Issues, db.batch[i].status # "none"
      PROVE  db'.batch[i].status # "none"
  BY <1>1, BatchMoves DEF Kept, Merged, Retried, Replanned, Promoted
<1>2. QED
  BY <1>1 DEF Planned

(* A tick plans and dispatches only issues that had a row when it loaded.  *)
LEMMA TickPlans ==
  ASSUME TypeOK, NEW t \in Ticks, TickStep(t),
         DOMAIN tick[t].plan \subseteq Planned, tick[t].todo \subseteq Planned
  PROVE  DOMAIN tick'[t].plan \subseteq Planned /\ tick'[t].todo \subseteq Planned
<1> DEFINE local == tick[t]
           new   == tick'[t]
           Goal  == DOMAIN new.plan \subseteq Planned /\ new.todo \subseteq Planned
<1>0. tick \in [Ticks -> Tick] /\ local \in Tick
  BY DEF TypeOK
<1>1. DOMAIN IdleTick.plan = {} /\ IdleTick.todo = {}
  BY DEF IdleTick
<1>2. ASSUME NEW step, new = [IdleTick EXCEPT !.pc = step] PROVE Goal
  <2>1. new.plan = IdleTick.plan /\ new.todo = IdleTick.todo
    BY <1>2 DEF IdleTick
  <2>2. QED
    BY <1>1, <2>1
<1>3. ASSUME new = IdleTick PROVE Goal
  BY <1>1, <1>3
<1>4. ASSUME new.plan = local.plan, new.todo \subseteq local.todo PROVE Goal
  BY <1>4
<1>5. ASSUME NEW step, Goto(t, step) PROVE Goal
  <2>1. new = [local EXCEPT !.pc = step]
    BY <1>0, <1>5 DEF Goto
  <2>2. new.plan = local.plan /\ new.todo = local.todo
    BY <1>0, <2>1 DEF Tick
  <2>3. QED
    BY <1>4, <2>2
<1>6. CASE PollOpen(t)
  <2>1. CASE tick' = [tick EXCEPT ![t].pc = "poll_closed", ![t].open = Fetch(OpenPRs)]
    <3>1. new.plan = local.plan /\ new.todo = local.todo
      BY <1>0, <2>1 DEF Tick
    <3>2. QED
      BY <1>4, <3>1
  <2>2. QED
    BY <1>5, <1>6, <2>1 DEF PollOpen
<1>7. CASE PollClosed(t)
  <2>1. CASE tick' = [tick EXCEPT ![t].pc = "reconcile", ![t].closed = Fetch(recent)]
    <3>1. new.plan = local.plan /\ new.todo = local.todo
      BY <1>0, <2>1 DEF Tick
    <3>2. QED
      BY <1>4, <3>1
  <2>2. CASE tick' = [tick EXCEPT ![t] = [IdleTick EXCEPT !.pc = "load"]]
    BY <1>0, <1>2, <2>2
  <2>3. QED
    BY <1>7, <2>1, <2>2 DEF PollClosed
<1>8. CASE Reconcile(t)
  <2>1. \E step, zombies :
          tick' = [tick EXCEPT ![t] = [IdleTick EXCEPT !.pc = step, !.zombies = zombies]]
    BY <1>8 DEF Reconcile
  <2>2. PICK step, zombies : new = [IdleTick EXCEPT !.pc = step, !.zombies = zombies]
    BY <1>0, <2>1
  <2>3. new.plan = IdleTick.plan /\ new.todo = IdleTick.todo
    BY <2>2 DEF IdleTick
  <2>4. QED
    BY <1>1, <2>3
<1>9. CASE UnlabelZombie(t)
  <2>1. PICK i \in FirstOf(local.zombies, 1) :
          tick' = [tick EXCEPT
                     ![t].zombies = @ \ {i},
                     ![t].pc = IF local.zombies = {i} THEN "load" ELSE @]
    BY <1>9 DEF UnlabelZombie
  <2> DEFINE step == IF local.zombies = {i} THEN "load" ELSE local.pc
             left == local.zombies \ {i}
  <2>2. new = [local EXCEPT !.zombies = left, !.pc = step]
    BY <1>0, <2>1
  <2> HIDE DEF step, left
  <2>3. new.plan = local.plan /\ new.todo = local.todo
    BY <1>0, <2>2 DEF Tick
  <2>4. QED
    BY <1>4, <2>3
<1>10. CASE Load(t)
  <2> DEFINE plan == load_batch_snapshot(db)
             blocked == WithStatus(db, "in_progress")
             slots == FreeSlots(db)
             r == [IdleTick EXCEPT !.pc = "fetch_prs", !.plan = plan,
                                   !.blocked = blocked, !.slots = slots]
  <2>1. new = IdleTick \/ new = r
    BY <1>0, <1>10 DEF Load
  <2>2. DOMAIN plan \subseteq Planned
    BY DEF load_batch_snapshot, WithStatus, Planned
  <2> HIDE DEF plan, blocked, slots
  <2>3. r.plan = plan /\ r.todo = IdleTick.todo
    BY DEF IdleTick
  <2> HIDE DEF r
  <2>4. QED
    BY <1>1, <1>3, <2>1, <2>2, <2>3
<1>11. CASE FetchPRs(t)
  <2>1. PICK prs :
          LET review == LastOf({p \in prs : pr[p].review = "none"}, local.slots) IN
          tick' = [tick EXCEPT
                     ![t].blocked = @ \cup UNION {pr[p].closes : p \in prs},
                     ![t].review = review,
                     ![t].pc = IF review = {} THEN "decide" ELSE "review_comment"]
    BY <1>11 DEF FetchPRs
  <2> DEFINE review == LastOf({p \in prs : pr[p].review = "none"}, local.slots)
             closed == UNION {pr[p].closes : p \in prs}
             step   == IF review = {} THEN "decide" ELSE "review_comment"
  <2>2. new = [local EXCEPT !.blocked = local.blocked \cup closed,
                            !.review = review, !.pc = step]
    BY <1>0, <2>1
  <2> HIDE DEF review, closed, step
  <2>3. new.plan = local.plan /\ new.todo = local.todo
    BY <1>0, <2>2 DEF Tick
  <2>4. QED
    BY <1>4, <2>3
<1>12. CASE ReviewComment(t) \/ ReviewLabel(t) \/ ReviewCommit(t)
  <2>1. \/ \E step : Goto(t, step)
        \/ \E p, slots : NextReview(t, p, slots)
    BY <1>12 DEF ReviewComment, ReviewLabel, ReviewCommit
  <2>2. ASSUME NEW p, NEW slots, NextReview(t, p, slots) PROVE Goal
    <3> DEFINE step == IF local.review = {p} THEN "decide" ELSE "review_comment"
               left == local.review \ {p}
    <3>1. new = [local EXCEPT !.review = left, !.slots = slots, !.pc = step]
      BY <1>0, <2>2 DEF NextReview
    <3> HIDE DEF step, left
    <3>2. new.plan = local.plan /\ new.todo = local.todo
      BY <1>0, <3>1 DEF Tick
    <3>3. QED
      BY <1>4, <3>2
  <2>3. QED
    BY <1>5, <2>1, <2>2
<1>13. CASE Decide(t)
  <2>1. new = IdleTick \/ new = [IdleTick EXCEPT !.pc = "issue_get", !.todo = Batches(t)]
    BY <1>0, <1>13 DEF Decide
  <2>2. Batches(t) \subseteq DOMAIN local.plan
    BY FirstOfSubset DEF Batches, next_executable_batch
  <2>3. CASE new = [IdleTick EXCEPT !.pc = "issue_get", !.todo = Batches(t)]
    <3>1. new.plan = IdleTick.plan /\ new.todo = Batches(t)
      BY <2>3 DEF IdleTick
    <3>2. QED
      BY <1>1, <2>2, <3>1
  <2>4. QED
    BY <1>3, <2>1, <2>3
<1>14. CASE IssueGet(t) \/ IssueComment(t) \/ IssueLabel(t) \/ IssueCommit(t)
  <2>1. \/ \E step : Goto(t, step)
        \/ \E i : NextIssue(t, i)
    BY <1>14 DEF IssueGet, IssueComment, IssueLabel, IssueCommit
  <2>2. ASSUME NEW i, NextIssue(t, i) PROVE Goal
    <3> DEFINE left == local.todo \ {i}
    <3>1. new = IdleTick \/ new = [local EXCEPT !.pc = "issue_get", !.todo = left]
      BY <1>0, <2>2 DEF NextIssue
    <3>2. left \subseteq local.todo
      OBVIOUS
    <3> HIDE DEF left
    <3>3. CASE new = [local EXCEPT !.pc = "issue_get", !.todo = left]
      <4>1. new.plan = local.plan /\ new.todo = left
        BY <1>0, <3>3 DEF Tick
      <4>2. QED
        BY <1>4, <3>2, <4>1
    <3>4. QED
      BY <1>3, <3>1, <3>3
  <2>3. QED
    BY <1>5, <2>1, <2>2
<1>15. QED
  BY <1>6, <1>7, <1>8, <1>9, <1>10, <1>11, <1>12, <1>13, <1>14 DEF TickStep

(* Only a failed attempt and a planner run make a batch pending.           *)
LEMMA NewlyPending ==
  ASSUME IInv, [Next]_vars, \A t \in Ticks : ~ Reconcile(t) /\ ~ CrashInReconcile(t),
         NEW i \in Issues, db'.batch[i].status = "pending"
  PROVE  db.batch[i].status \in {"none", "pending"}
<1>0. TypeOK /\ DbInv(db)
  BY DEF IInv
<1>1. ASSUME NEW t \in Ticks, ReviewCommit(t) PROVE db'.batch = db.batch
  <2>1. PICK p \in LastOf(tick[t].review, 1) :
          db' = create_run(db, "reviewer", p) \/ UNCHANGED db
    BY <1>1 DEF ReviewCommit
  <2>2. p \in PRs
    BY <1>0, TickFields, LastOfSubset
  <2>3. QED
    BY <1>0, <2>1, <2>2, ReviewRecorded
<1>2. ASSUME NEW t \in Ticks, IssueCommit(t)
      PROVE  db'.batch[i] = db.batch[i] \/ Promoted(db, db', i)
  <2>1. PICK j \in FirstOf(tick[t].todo, 1) : db' = RecordDispatch(db, j) \/ UNCHANGED db
    BY <1>2 DEF IssueCommit
  <2>2. j \in Issues
    BY <1>0, TickFields, FirstOfSubset
  <2>3. QED
    BY <1>0, <2>1, <2>2, RecordDispatchFacts
<1>3. ASSUME PlannerCommit PROVE db'.batch[i] = db.batch[i] \/ Replanned(db, db', i)
  <2>1. db' = upsert_batches(db, planner.layer) /\ planner.layer \in Layering
    BY <1>0, <1>3 DEF PlannerCommit, TypeOK
  <2>2. QED
    BY <1>0, <2>1, BatchesUpserted
<1>4. ASSUME NEW k \in DOMAIN db.runs, RunAges(k) PROVE db'.batch = db.batch
  <2>1. db' = [db EXCEPT !.runs[k].age = "stale"]
    BY <1>4 DEF RunAges
  <2>2. QED
    BY <1>0, <2>1, AgedRun
<1>5. QED
  BY <1>1, <1>2, <1>3, <1>4, DbWriters DEF Promoted, Replanned

(* A pollback takes the label off the batches it gave up.                  *)
LEMMA ReconcileHandles ==
  ASSUME IInv, NEW t \in Ticks, Reconcile(t),
         NEW i \in Issues, db'.batch[i].status = "pending"
  PROVE  \/ db.batch[i].status = "pending"
         \/ tick'[t].pc = "unlabel" /\ i \in tick'[t].zombies
<1> DEFINE r == Reconciled(t)
           Z == zombie_batches(r[4])
           step == IF Z = {} THEN "load" ELSE "unlabel"
<1>0. DbInv(db) /\ tick \in [Ticks -> Tick]
  BY DEF IInv, TypeOK
<1>1. DbInv(r[4]) /\ BatchesSettle(db, r[4], LandedIssues(tick[t].closed))
  BY <1>0, ReconciliationsSettle DEF Settled, Settles
<1>2. db' = reset_batches(r[4], Z)
  BY DEF Reconcile, Reconciled, recover_zombie_batches
<1>3. tick' = [tick EXCEPT ![t] = [IdleTick EXCEPT !.pc = step, !.zombies = Z]]
  BY DEF Reconcile
<1>4. tick'[t] = [IdleTick EXCEPT !.pc = step, !.zombies = Z]
  BY <1>0, <1>3
<1>5. i \in Z => step = "unlabel"
  OBVIOUS
<1> HIDE DEF step, r
<1>6. tick'[t].pc = step /\ tick'[t].zombies = Z
  BY <1>4 DEF IdleTick
<1>7. db'.batch[i] = r[4].batch[i] \/ GivenUp(r[4], db', i)
  BY <1>1, <1>2, ZombiesRecovered
<1>8. CASE db'.batch[i] = r[4].batch[i]
  BY <1>1, <1>8 DEF BatchesSettle
<1>9. CASE GivenUp(r[4], db', i)
  <2>1. r[4].batch[i].status = "in_progress" /\ r[4].batch[i].pr_number = "NULL"
        /\ r[4].runs[r[4].batch[i].run].status = "timeout"
    BY <1>9 DEF GivenUp
  <2>2. r[4].batch[i].run # 0
    <3>1. r[4].batch[i].run \in DOMAIN r[4].runs
      BY <1>1, <2>1 DEF DbInv
    <3>2. DOMAIN r[4].runs = 1 .. Len(r[4].runs)
      BY <1>1, DbFields DEF DbInv
    <3>3. QED
      BY <3>1, <3>2
  <2>3. i \in Z
    BY <2>1, <2>2 DEF zombie_batches, WithStatus
  <2>4. QED
    BY <1>5, <1>6, <2>3
<1>10. QED
  BY <1>7, <1>8, <1>9

(* After a promotion the batch is not pending, whatever it was.            *)
LEMMA RecordedIsNotPending ==
  ASSUME NEW d \in Db, NEW i \in Issues, NEW e, e = RecordDispatch(d, i)
  PROVE  e.batch[i].status # "pending"
<1>1. PICK c : c = create_run(d, "implementer", i)
  OBVIOUS
<1>2. i \in Nat
  BY IssuesAssumption
<1>3. c \in Db
  BY <1>1, <1>2, CreateRunFacts
<1>4. PICK n : e = mark_batch_in_progress(c, i, n)
  BY <1>1 DEF RecordDispatch
<1>5. c.batch \in [Issues -> Batch] /\ c.batch[i] \in Batch
  BY <1>3, DbFields
<1>6. CASE c.batch[i].status # "pending"
  BY <1>4, <1>6 DEF mark_batch_in_progress
<1>7. CASE c.batch[i].status = "pending"
  <2>1. e = [c EXCEPT !.batch[i].status = "in_progress", !.batch[i].run = n]
    BY <1>4, <1>7 DEF mark_batch_in_progress
  <2> DEFINE row == [c.batch[i] EXCEPT !.status = "in_progress", !.run = n]
  <2>2. e.batch = [c.batch EXCEPT ![i] = row]
    BY <1>3, <1>5, <2>1 DEF Db
  <2>3. row.status = "in_progress"
    BY <1>5 DEF Batch
  <2> HIDE DEF row
  <2>4. QED
    BY <1>5, <2>2, <2>3
<1>8. QED
  BY <1>6, <1>7

(* Only dispatch_implementer puts the label on.                            *)
LEMMA LabelWriters ==
  ASSUME TypeOK, [Next]_vars, NEW i \in Issues, Labelled(i)'
  PROVE  \/ Labelled(i)
         \/ \E t \in Ticks : IssueLabel(t) /\ i \in FirstOf(tick[t].todo, 1)
<1>0. issue \in [Issues -> [state : {"open", "closed"},
                            labels : SUBSET {AgentStart, DoNotImplement}]]
  BY DEF TypeOK
<1>1. ASSUME NEW j, NEW l, Label(j, l) PROVE (l = AgentStart /\ i = j) \/ Labelled(i)
  <2>1. i # j => issue'[i] = issue[i]
    BY <1>0, <1>1 DEF Label
  <2>2. i = j => issue'[i].labels = issue[i].labels \cup {l}
    BY <1>0, <1>1 DEF Label
  <2>3. QED
    BY <2>1, <2>2 DEF Labelled
<1>2. ASSUME NEW j, NEW l, Unlabel(j, l) PROVE Labelled(i)
  <2>1. issue'[i].labels \subseteq issue[i].labels
    BY <1>0, <1>2 DEF Unlabel
  <2>2. QED
    BY <2>1 DEF Labelled
<1>3. ASSUME NEW S, CloseIssues(S) PROVE Labelled(i)
  <2>1. issue'[i].labels \subseteq issue[i].labels
    BY <1>0, <1>3 DEF CloseIssues
  <2>2. QED
    BY <2>1 DEF Labelled
<1>4. ASSUME UNCHANGED issue PROVE Labelled(i)
  BY <1>4 DEF Labelled
<1>5. ASSUME NEW t \in Ticks, TickStep(t) \/ Crash(t) \/ CrashInReconcile(t)
      PROVE  \/ Labelled(i)
             \/ IssueLabel(t) /\ i \in FirstOf(tick[t].todo, 1)
  <2>1. CASE IssueLabel(t)
    BY <1>1, <1>4, <2>1 DEF IssueLabel
  <2>2. CASE UnlabelZombie(t)
    BY <1>2, <1>4, <2>2 DEF UnlabelZombie
  <2>3. CASE ~ IssueLabel(t) /\ ~ UnlabelZombie(t)
    <3>1. UNCHANGED issue
      BY <1>5, <2>3 DEF TickStep, Crash, CrashInReconcile, PollOpen, PollClosed,
           Reconcile, Load, FetchPRs, ReviewComment, ReviewLabel, ReviewCommit,
           Decide, IssueGet, IssueComment, IssueCommit, github
    <3>2. QED
      BY <1>4, <3>1
  <2>4. QED
    BY <2>1, <2>2, <2>3
<1>6. ASSUME Environment PROVE Labelled(i)
  <2>1. \/ UNCHANGED issue
        \/ \E S : CloseIssues(S)
        \/ \E j : Label(j, DoNotImplement)
    BY <1>6 DEF Environment, AgentOpensPR, HumanOpensPR, AgentDies, CloseIssue,
         SkipIssue, ReviewerVerdict, ReviewerDies, MergePR, ClosePR, ForceReview,
         RunAges, Pause, Resume, SetOverride, github
  <2>2. DoNotImplement # AgentStart
    BY DEF DoNotImplement, AgentStart
  <2>3. QED
    BY <1>1, <1>3, <1>4, <2>1, <2>2
<1>7. ASSUME Planner \/ UNCHANGED vars PROVE Labelled(i)
  BY <1>4, <1>7 DEF Planner, PlannerFetch, PlannerCommit, vars, github
<1>8. QED
  BY <1>5, <1>6, <1>7 DEF Next

(* The label and the row agree after every step of a tick that does not    *)
(* fail.                                                                   *)
LEMMA LabelsHandled ==
  ASSUME IInv, NEW t, Ticks = {t}, Upsets \cap {"api", "db", "crash"} = {},
         LabelInv(t), [Next]_vars,
         NEW i \in Issues, Labelled(i)', db'.batch[i].status = "pending"
  PROVE  Handles(t, i)'
<1> DEFINE local == tick[t]
           new   == tick'[t]
<1>0. /\ TypeOK /\ DbInv(db) /\ t \in Ticks
      /\ tick \in [Ticks -> Tick] /\ local \in Tick
  BY DEF IInv, TypeOK
<1>1. ~ Upset("api") /\ ~ Upset("db") /\ ~ Upset("crash")
  BY DEF Upset
<1>2. ~ Crash(t) /\ ~ CrashInReconcile(t)
  BY <1>1 DEF Crash, CrashInReconcile
<1>3. ASSUME Labelled(i), db.batch[i].status \in {"none", "pending"}
      PROVE  Handles(t, i)
  BY <1>3 DEF LabelInv, Planned
<1>4. ASSUME ~ Reconcile(t) PROVE db.batch[i].status \in {"none", "pending"}
  BY <1>0, <1>2, <1>4, NewlyPending
<1>5. CASE IssueLabel(t)
  <2>1. PICK j \in FirstOf(local.todo, 1) :
          Goto(t, "issue_commit") /\ Label(j, AgentStart)
    BY <1>1, <1>5 DEF IssueLabel, Request, Done, Outcomes
  <2>2. new.pc = "issue_commit" /\ new.todo = local.todo
    BY <1>0, <2>1, GotoFields
  <2>3. local.pc = "issue_label"
    BY <1>5 DEF IssueLabel
  <2>4. ~ Labelled(i)
    <3>1. ~ Reconcile(t)
      BY <2>3 DEF Reconcile
    <3>2. ~ Handles(t, i)
      BY <2>3 DEF Handles
    <3>3. QED
      BY <1>3, <1>4, <3>1, <3>2
  <2>5. i \in FirstOf(local.todo, 1)
    <3>1. PICK s \in Ticks : i \in FirstOf(tick[s].todo, 1)
      BY <1>0, <2>4, LabelWriters
    <3>2. QED
      BY <3>1
  <2>6. QED
    BY <2>2, <2>5 DEF Handles
<1>6. ASSUME ~ IssueLabel(t) PROVE Labelled(i)
  BY <1>0, <1>6, LabelWriters
<1>7. CASE Reconcile(t)
  <2>1. ~ Handles(t, i) /\ Labelled(i)
    BY <1>6, <1>7 DEF Reconcile, Handles, IssueLabel
  <2>2. db.batch[i].status # "pending"
    BY <1>3, <2>1
  <2>3. new.pc = "unlabel" /\ i \in new.zombies
    BY <1>0, <1>7, <2>2, ReconcileHandles
  <2>4. QED
    BY <2>3 DEF Handles
<1>8. CASE UnlabelZombie(t)
  <2>1. local.pc = "unlabel" /\ ~ Reconcile(t) /\ ~ IssueLabel(t)
    BY <1>8 DEF UnlabelZombie, Reconcile, IssueLabel
  <2>2. i \in local.zombies
    BY <1>3, <1>4, <1>6, <2>1 DEF Handles
  <2>3. PICK j \in FirstOf(local.zombies, 1) :
          /\ Unlabel(j, AgentStart)
          /\ tick' = [tick EXCEPT
                        ![t].zombies = @ \ {j},
                        ![t].pc = IF local.zombies = {j} THEN "load" ELSE @]
    BY <1>1, <1>8 DEF UnlabelZombie, Request, Done, Outcomes
  <2>4. i # j
    <3>1. issue'[j].labels = issue[j].labels \ {AgentStart} \/ j \notin Issues
      BY <1>0, <2>3 DEF Unlabel, TypeOK
    <3>2. QED
      BY <3>1 DEF Labelled
  <2> DEFINE left == local.zombies \ {j}
  <2>5. new = [local EXCEPT !.zombies = left, !.pc = "unlabel"]
    BY <1>0, <2>1, <2>2, <2>3, <2>4
  <2>6. i \in left
    BY <2>2, <2>4
  <2> HIDE DEF left
  <2>7. new.pc = "unlabel" /\ new.zombies = left
    BY <1>0, <2>5 DEF Tick
  <2>8. QED
    BY <2>6, <2>7 DEF Handles
<1>9. CASE IssueCommit(t)
  <2>1. local.pc = "issue_commit" /\ ~ Reconcile(t) /\ ~ IssueLabel(t)
    BY <1>9 DEF IssueCommit, Reconcile, IssueLabel
  <2>2. i \in FirstOf(local.todo, 1)
    BY <1>3, <1>4, <1>6, <2>1 DEF Handles
  <2>3. PICK j \in FirstOf(local.todo, 1) : db' = RecordDispatch(db, j)
    BY <1>1, <1>9 DEF IssueCommit
  <2>4. i = j
    <3>1. local.todo \in SUBSET Nat /\ IsFiniteSet(local.todo)
      BY <1>0, TickFields, IssuesAssumption
    <3>2. QED
      BY <2>2, <2>3, <3>1, FirstIsUnique
  <2>5. db'.batch[i].status # "pending"
    BY <1>0, <2>3, <2>4, RecordedIsNotPending DEF DbInv
  <2>6. QED
    BY <2>5
<1>10. CASE \/ PollOpen(t) \/ PollClosed(t) \/ Load(t) \/ FetchPRs(t)
           \/ ReviewComment(t) \/ ReviewLabel(t) \/ ReviewCommit(t)
           \/ Decide(t) \/ IssueGet(t) \/ IssueComment(t)
  <2>1. local.pc \notin {"reconcile", "unlabel", "issue_label", "issue_commit"}
    BY <1>10 DEF PollOpen, PollClosed, Load, FetchPRs, ReviewComment, ReviewLabel,
                 ReviewCommit, Decide, IssueGet, IssueComment
  <2>2. ~ Reconcile(t) /\ ~ IssueLabel(t) /\ ~ Handles(t, i)
    BY <2>1 DEF Reconcile, IssueLabel, Handles
  <2>3. QED
    BY <1>3, <1>4, <1>6, <2>2
<1>11. CASE ~ TickStep(t)
  <2>1. ~ Reconcile(t) /\ ~ IssueLabel(t)
    BY <1>11 DEF TickStep
  <2>2. UNCHANGED tick
    BY <1>2, <1>11, TickWriters
  <2>3. Handles(t, i)
    BY <1>3, <1>4, <1>6, <2>1
  <2>4. QED
    BY <2>2, <2>3 DEF Handles
<1>12. QED
  BY <1>5, <1>7, <1>8, <1>9, <1>10, <1>11 DEF TickStep

(* The labels, the rows and the plans agree from the start and for ever.   *)
LEMMA LabelStep ==
  ASSUME IInv, NEW t, Ticks = {t}, Upsets \cap {"api", "db", "crash"} = {},
         LabelInv(t), [Next]_vars
  PROVE  LabelInv(t)'
<1>0. TypeOK /\ t \in Ticks
  BY DEF IInv
<1>1. Planned \subseteq Planned'
  BY PlannedStays
<1>2. DOMAIN tick'[t].plan \subseteq Planned /\ tick'[t].todo \subseteq Planned
  <2>1. CASE TickStep(t)
    BY <1>0, <2>1, TickPlans DEF LabelInv
  <2>2. CASE UNCHANGED tick
    BY <2>2 DEF LabelInv
  <2>3. ~ Crash(t) /\ ~ CrashInReconcile(t)
    BY DEF Crash, CrashInReconcile, Upset
  <2>4. QED
    BY <2>1, <2>2, <2>3, TickWriters
<1>3. ASSUME NEW i \in Issues, Labelled(i)' PROVE i \in Planned
  <2>1. \/ Labelled(i)
        \/ \E s \in Ticks : i \in FirstOf(tick[s].todo, 1)
    BY <1>0, <1>3, LabelWriters
  <2>2. Labelled(i) \/ i \in tick[t].todo
    BY <2>1, FirstOfSubset
  <2>3. QED
    BY <2>2 DEF LabelInv
<1>4. ASSUME NEW i \in Issues, Labelled(i)', db'.batch[i].status = "pending"
      PROVE  Handles(t, i)'
  BY <1>4, LabelsHandled
<1>5. QED
  BY <1>1, <1>2, <1>3, <1>4 DEF LabelInv

(* One tick at a time whose requests and commits succeed and that does not *)
(* die never leaves agent:start on the issue of a pending batch, which     *)
(* dispatch_implementer would skip for ever.  Dying agents, late results,  *)
(* closed PRs, people, operators and planner runs in between do no harm.   *)
THEOREM PendingStaysDispatchable ==
  ASSUME NEW t, Ticks = {t}, Upsets \cap {"api", "db", "crash"} = {}
  PROVE  Spec => []PendingIsDispatchable
<1> DEFINE Inv == LabelInv(t)
<1>1. Init => Inv
  <2> SUFFICES ASSUME Init PROVE Inv
    OBVIOUS
  <2>1. tick[t] = IdleTick
    BY DEF Init
  <2>2. DOMAIN IdleTick.plan = {} /\ IdleTick.todo = {}
    BY DEF IdleTick
  <2>3. \A i \in Issues : ~ Labelled(i)
    BY DEF Init, Labelled
  <2>4. QED
    BY <2>1, <2>2, <2>3 DEF LabelInv
<1>2. IInv /\ Inv /\ [Next]_vars => Inv'
  BY LabelStep
<1>3. Inv => PendingIsDispatchable
  BY DEF LabelInv, Handles, Labelled, PendingIsDispatchable, WithStatus
<1> HIDE DEF Inv
<1>4. QED
  BY <1>1, <1>2, <1>3, Invariant, PTL DEF Spec
=============================================================================
