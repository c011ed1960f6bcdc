--------------------------- MODULE EngineDbProofs ---------------------------
(***************************************************************************)
(* Lemmas about the operators of EngineDb: what each function of the       *)
(* engine preserves of the database, for any number of issues, PRs and     *)
(* runs.                                                                   *)
(***************************************************************************)
EXTENDS EngineDb, BatchAlgorithmProofs, SequenceTheorems

-----------------------------------------------------------------------------
(* Slices at the end of sorted lists.                                      *)

(* A slice at the end takes its members from the list.                     *)
LEMMA LastOfSubset ==
  ASSUME NEW S, NEW n PROVE LastOf(S, n) \subseteq S
BY DEF LastOf

(* S[-n:] has at most n members: the number of greater members tells them  *)
(* apart.                                                                  *)
LEMMA LastOfCardinality ==
  ASSUME NEW S \in SUBSET Nat, IsFiniteSet(S), NEW n \in Nat
  PROVE  IsFiniteSet(LastOf(S, n)) /\ Cardinality(LastOf(S, n)) <= n
<1> DEFINE T == LastOf(S, n)
           Above(k) == {j \in S : k < j}
           rank == [k \in T |-> Cardinality(Above(k))]
<1>1. /\ T \subseteq S
      /\ \A k \in T : Cardinality(Above(k)) < n
  BY DEF LastOf
<1>2. \A k \in S : IsFiniteSet(Above(k)) /\ Cardinality(Above(k)) \in Nat
  <2> TAKE k \in S
  <2>1. Above(k) \in SUBSET S
    OBVIOUS
  <2>2. QED
    BY <2>1, FS_Subset, FS_CardinalityType
<1> HIDE DEF T
<1>3. rank \in [T -> 0 .. (n - 1)]
  <2>1. \A c \in Nat : c < n => c \in 0 .. (n - 1)
    OBVIOUS
  <2>2. \A k \in T : Cardinality(Above(k)) \in 0 .. (n - 1)
    BY <1>1, <1>2, <2>1
  <2>3. QED
    BY <2>2
<1>4. ASSUME NEW j \in S, NEW k \in S, j < k
      PROVE  Cardinality(Above(j)) # Cardinality(Above(k))
  <2>0. \A i \in S : k < i => j < i
    <3>1. \A a, b, c \in Nat : a < b /\ b < c => a < c
      OBVIOUS
    <3>2. QED
      BY <1>4, <3>1
  <2>1. Above(k) \in SUBSET Above(j)
    BY <2>0
  <2>2. k \in Above(j) /\ k \notin Above(k)
    <3>1. \A a \in Nat : ~ (a < a)
      OBVIOUS
    <3>2. QED
      BY <1>4, <3>1
  <2>3. QED
    BY <1>2, <2>1, <2>2, FS_Subset
<1>5. \A j, k \in T : j # k => rank[j] # rank[k]
  <2> TAKE j, k \in T
  <2>1. j < k \/ k < j \/ j = k
    BY <1>1
  <2>2. QED
    BY <1>1, <1>4, <2>1
<1>6. IsFiniteSet(0 .. (n - 1)) /\ Cardinality(0 .. (n - 1)) = n
  BY FS_Interval
<1>7. IsFiniteSet(T) /\ Cardinality(T) \in Nat
  BY <1>1, FS_Subset, FS_CardinalityType
<1>8. Cardinality(T) <= n
  <2>1. SUFFICES ASSUME n < Cardinality(T) PROVE FALSE
    BY <1>7
  <2>2. \E j, k \in T : j # k /\ rank[j] = rank[k]
    <3> HIDE DEF rank
    <3>1. QED
      BY <1>3, <1>6, <1>7, <2>1, FS_PigeonHole
  <2>3. QED
    BY <1>5, <2>2
<1>9. QED
  BY <1>7, <1>8 DEF T

-----------------------------------------------------------------------------
(* The layering.                                                           *)

(* The number of rounds an issue outlives is a layer.                      *)
LEMMA RoundsBounded ==
  ASSUME NEW S \in SUBSET Issues, NEW T \in SUBSET (1 .. Cardinality(S))
  PROVE  Cardinality(T) \in Layers
<1>1. /\ Cardinality(S) \in Nat /\ Cardinality(Issues) \in Nat
      /\ Cardinality(S) <= Cardinality(Issues)
  BY IssuesAssumption, FS_Subset, FS_CardinalityType
<1>2. /\ IsFiniteSet(1 .. Cardinality(S))
      /\ Cardinality(1 .. Cardinality(S)) = Cardinality(S)
  BY <1>1, FS_Interval
<1>3. Cardinality(T) \in Nat /\ Cardinality(T) <= Cardinality(S)
  BY <1>2, FS_Subset, FS_CardinalityType
<1>4. QED
  BY <1>1, <1>3 DEF Layers

(* compute_layers gives each of its candidates a layer the schema can hold.*)
LEMMA LayeringType ==
  ASSUME NEW issues, DOMAIN issues \subseteq Issues
  PROVE  compute_layers(issues).layer \in Layering
<1> DEFINE cand == filter_candidates(issues)
           layer == compute_layers(issues).layer
<1>1. cand \in SUBSET Issues
  BY DEF filter_candidates
<1>2. layer \in [cand -> Layers]
  BY <1>1, RoundsBounded DEF compute_layers
<1>3. QED
  BY <1>1, <1>2 DEF Layering

-----------------------------------------------------------------------------
(* The rows of `runs'.                                                     *)

(* The fields of a database, and the places of its runs.                   *)
LEMMA DbFields ==
  ASSUME NEW d \in Db
  PROVE  /\ d.batch \in [Issues -> Batch]
         /\ d.runs \in Seq(Run)
         /\ d.reviewed \in SUBSET PRs
         /\ Len(d.runs) \in Nat
         /\ DOMAIN d.runs = 1 .. Len(d.runs)
         /\ \A k \in DOMAIN d.runs : d.runs[k] \in Run
BY DEF Db

(* active_run_count is a number.                                           *)
LEMMA ActiveFinite ==
  ASSUME NEW d \in Db
  PROVE  IsFiniteSet(Active(d)) /\ active_run_count(d) \in Nat
<1>1. Active(d) \in SUBSET (1 .. Len(d.runs))
  BY DbFields DEF Active, Queued
<1>2. IsFiniteSet(1 .. Len(d.runs))
  BY DbFields, FS_Interval
<1>3. IsFiniteSet(Active(d))
  BY <1>1, <1>2, FS_Subset
<1>4. QED
  BY <1>3, FS_CardinalityType DEF active_run_count

(* Fewer active runs, a lower count.                                       *)
LEMMA ActiveMonotonic ==
  ASSUME NEW d \in Db, NEW e \in Db, Active(e) \subseteq Active(d)
  PROVE  active_run_count(e) <= active_run_count(d)
BY ActiveFinite, FS_Subset DEF active_run_count

(* An update of the status leaves the rest of the database alone.          *)
LEMMA UpdateRunsFacts ==
  ASSUME NEW d \in Db, NEW S, NEW status \in {"queued", "finished", "timeout"},
         NEW e, e = UpdateRuns(d, S, status)
  PROVE  /\ e \in Db
         /\ e.batch = d.batch /\ e.reviewed = d.reviewed
         /\ DOMAIN e.runs = DOMAIN d.runs /\ Len(e.runs) = Len(d.runs)
         /\ \A k \in DOMAIN d.runs :
              e.runs[k] = IF k \in S THEN [d.runs[k] EXCEPT !.status = status]
                                     ELSE d.runs[k]
<1> DEFINE runs == [k \in DOMAIN d.runs |->
                      IF k \in S THEN [d.runs[k] EXCEPT !.status = status]
                                 ELSE d.runs[k]]
<1>1. runs \in [1 .. Len(d.runs) -> Run]
  <2>1. \A k \in DOMAIN d.runs : runs[k] \in Run
    BY DbFields DEF Run
  <2>2. QED
    BY <2>1, DbFields
<1>2. runs \in Seq(Run)
  BY <1>1, DbFields, SeqDef
<1>3. Len(runs) = Len(d.runs) /\ DOMAIN runs = DOMAIN d.runs
  BY <1>1, <1>2, DbFields
<1>4. e = [d EXCEPT !.runs = runs]
  BY DEF UpdateRuns
<1>5. /\ e \in Db /\ e.runs = runs
      /\ e.batch = d.batch /\ e.reviewed = d.reviewed
  BY <1>2, <1>4 DEF Db
<1>6. QED
  BY <1>3, <1>5

(* The new run is the last one, and the only one added.                    *)
LEMMA CreateRunFacts ==
  ASSUME NEW d \in Db, NEW agent \in {"implementer", "reviewer"}, NEW on \in Nat,
         NEW e, e = create_run(d, agent, on)
  PROVE  /\ e \in Db
         /\ e.batch = d.batch /\ e.reviewed = d.reviewed
         /\ Len(e.runs) = Len(d.runs) + 1
         /\ DOMAIN e.runs = DOMAIN d.runs \cup {Len(d.runs) + 1}
         /\ Len(d.runs) + 1 \notin DOMAIN d.runs
         /\ \A k \in DOMAIN d.runs : e.runs[k] = d.runs[k]
         /\ e.runs[Len(d.runs) + 1] = [agent |-> agent, on |-> on,
                                       status |-> "queued", age |-> "fresh"]
<1> DEFINE new == [agent |-> agent, on |-> on, status |-> "queued", age |-> "fresh"]
<1>1. new \in Run
  BY DEF Run
<1>2. /\ Append(d.runs, new) \in Seq(Run)
      /\ Len(Append(d.runs, new)) = Len(d.runs) + 1
      /\ \A k \in 1 .. Len(d.runs) : Append(d.runs, new)[k] = d.runs[k]
      /\ Append(d.runs, new)[Len(d.runs) + 1] = new
  BY <1>1, DbFields
<1>3. e = [d EXCEPT !.runs = Append(d.runs, new)]
  BY DEF create_run
<1>4. /\ e \in Db /\ e.runs = Append(d.runs, new)
      /\ e.batch = d.batch /\ e.reviewed = d.reviewed
  BY <1>2, <1>3 DEF Db
<1>5. /\ DOMAIN e.runs = 1 .. (Len(d.runs) + 1)
      /\ DOMAIN d.runs = 1 .. Len(d.runs) /\ Len(d.runs) \in Nat
  BY <1>2, <1>4, DbFields
<1>6. QED
  BY <1>2, <1>4, <1>5

(* create_run takes one slot.                                              *)
LEMMA CreateRunActive ==
  ASSUME NEW d \in Db, NEW agent \in {"implementer", "reviewer"}, NEW on \in Nat,
         NEW e, e = create_run(d, agent, on)
  PROVE  active_run_count(e) = active_run_count(d) + 1
<1> DEFINE n == Len(d.runs) + 1
<1>1. /\ DOMAIN e.runs = DOMAIN d.runs \cup {n} /\ n \notin DOMAIN d.runs
      /\ \A k \in DOMAIN d.runs : e.runs[k] = d.runs[k]
      /\ e.runs[n] = [agent |-> agent, on |-> on, status |-> "queued", age |-> "fresh"]
  BY CreateRunFacts
<1>2. e.runs[n].status = "queued" /\ e.runs[n].age = "fresh"
  BY <1>1
<1>3. Active(e) = Active(d) \cup {n} /\ n \notin Active(d)
  BY <1>1, <1>2 DEF Active, Queued
<1>4. QED
  BY <1>3, ActiveFinite, FS_AddElement DEF active_run_count

-----------------------------------------------------------------------------
(* The consistency of the database that every function of the engine       *)
(* preserves, whatever it is called with.                                  *)

DbInv(d) ==
  /\ d \in Db
  /\ \A i \in Issues :
       /\ d.batch[i].run <= Len(d.runs)
       /\ d.batch[i].status \in {"none", "pending"} => d.batch[i].run = 0
       /\ d.batch[i].status = "in_progress" =>
            /\ d.batch[i].run \in DOMAIN d.runs
            /\ d.runs[d.batch[i].run].agent = "implementer"
            /\ d.runs[d.batch[i].run].on = i
  /\ \A k \in DOMAIN d.runs : d.runs[k].agent = "implementer" => d.runs[k].on \in Issues

(* Runs are added and aged and, by a pollback, ended; nothing else happens *)
(* to them.                                                                *)
RunsKept(d, e) ==
  \A k \in DOMAIN d.runs :
    /\ k \in DOMAIN e.runs
    /\ e.runs[k].agent = d.runs[k].agent /\ e.runs[k].on = d.runs[k].on
    /\ e.runs[k].status = d.runs[k].status

(* The reconciliations up to the reaper only end queued runs, link batches *)
(* to PRs and mark live batches as merged.  They finish implementer runs   *)
(* of the issues in I and merge batches of the issues in L.                *)
RunsSettle(d, e, I) ==
  /\ DOMAIN e.runs = DOMAIN d.runs /\ Len(e.runs) = Len(d.runs)
  /\ \A k \in DOMAIN d.runs :
       /\ e.runs[k].agent = d.runs[k].agent
       /\ e.runs[k].on = d.runs[k].on
       /\ e.runs[k].age = d.runs[k].age
       /\ \/ e.runs[k].status = d.runs[k].status
          \/ /\ d.runs[k].status = "queued"
             /\ e.runs[k].status = "finished" /\ d.runs[k].agent = "implementer" =>
                  d.runs[k].on \in I

BatchesSettle(d, e, L) ==
  \A i \in Issues :
    /\ e.batch[i].run = d.batch[i].run
    /\ e.batch[i].layer = d.batch[i].layer
    /\ e.batch[i].pr_number \in {d.batch[i].pr_number, "set"}
    /\ \/ e.batch[i].status = d.batch[i].status
       \/ /\ d.batch[i].status \in {"pending", "in_progress"}
          /\ e.batch[i].status = "merged" /\ i \in L
          /\ e.batch[i].pr_number = "set"

Settles(d, e, I, L) == RunsSettle(d, e, I) /\ BatchesSettle(d, e, L)

(* Reconciliations in a row settle what each of them settles.              *)
LEMMA SettlesTransitive ==
  ASSUME NEW I, NEW L, NEW d, NEW e, NEW f, Settles(d, e, I, L), Settles(e, f, I, L)
  PROVE  Settles(d, f, I, L)
<1>1. RunsSettle(d, f, I)
  BY DEF Settles, RunsSettle
<1>2. BatchesSettle(d, f, L)
  BY DEF Settles, BatchesSettle
<1>3. QED
  BY <1>1, <1>2 DEF Settles

(* Settling frees slots and takes none.                                    *)
LEMMA SettlesFewerActive ==
  ASSUME NEW I, NEW d, NEW e, RunsSettle(d, e, I) PROVE Active(e) \subseteq Active(d)
BY DEF RunsSettle, Active, Queued

(* A status update that ends queued runs touches no batch.                 *)
LEMMA EndedRuns ==
  ASSUME NEW I, NEW L, NEW d, DbInv(d), NEW S \in SUBSET Queued(d),
         NEW status \in {"finished", "timeout"},
         status = "finished" =>
           \A k \in S : d.runs[k].agent = "implementer" => d.runs[k].on \in I,
         NEW e, e = UpdateRuns(d, S, status)
  PROVE  DbInv(e) /\ Settles(d, e, I, L) /\ e.batch = d.batch
<1>1. d \in Db
  BY DEF DbInv
<1>2. /\ e \in Db /\ e.batch = d.batch
      /\ DOMAIN e.runs = DOMAIN d.runs /\ Len(e.runs) = Len(d.runs)
      /\ \A k \in DOMAIN d.runs :
           e.runs[k] = IF k \in S THEN [d.runs[k] EXCEPT !.status = status]
                                  ELSE d.runs[k]
  BY <1>1, UpdateRunsFacts
<1>3. ASSUME NEW k \in DOMAIN d.runs
      PROVE  /\ e.runs[k].agent = d.runs[k].agent
             /\ e.runs[k].on = d.runs[k].on
             /\ e.runs[k].age = d.runs[k].age
             /\ e.runs[k].status = IF k \in S THEN status ELSE d.runs[k].status
  <2>1. d.runs[k] \in Run
    BY <1>1, DbFields
  <2>2. QED
    BY <1>2, <2>1 DEF Run
<1>4. Settles(d, e, I, L)
  <2>1. RunsSettle(d, e, I)
    BY <1>2, <1>3 DEF RunsSettle, Queued
  <2>2. BatchesSettle(d, e, L)
    BY <1>2 DEF BatchesSettle
  <2>3. QED
    BY <2>1, <2>2 DEF Settles
<1>5. DbInv(e)
  BY <1>2, <1>3 DEF DbInv
<1>6. QED
  BY <1>2, <1>4, <1>5

(* complete_reviewer_runs finishes runs of reviewers only.                 *)
LEMMA ReviewerRunsSettle ==
  ASSUME NEW I, NEW L, NEW d, DbInv(d), NEW seen,
         NEW e, e = complete_reviewer_runs(d, seen)
  PROVE  DbInv(e) /\ Settles(d, e, I, L)
<1> DEFINE new == {p \in PRs \ d.reviewed :
                     \E x \in seen : x.pr = p /\ x.review \in Verdicts}
           S == UNION {LastOf(QueuedFor(d, "reviewer", p), 1) : p \in new}
           u == UpdateRuns(d, S, "finished")
<1>1. /\ S \in SUBSET Queued(d)
      /\ \A k \in S : d.runs[k].agent = "reviewer"
  BY DEF LastOf, QueuedFor
<1>2. DbInv(u) /\ Settles(d, u, I, L) /\ u.batch = d.batch
  <2> HIDE DEF S
  <2>1. QED
    BY <1>1, EndedRuns
<1>3. e = [u EXCEPT !.reviewed = @ \cup new]
  BY DEF complete_reviewer_runs
<1>4. u \in Db
  BY <1>2 DEF DbInv
<1>5. e \in Db /\ e.batch = u.batch /\ e.runs = u.runs
  BY <1>3, <1>4 DEF Db
<1> HIDE DEF u
<1>6. DbInv(e)
  BY <1>2, <1>5 DEF DbInv
<1>7. RunsSettle(d, e, I)
  BY <1>2, <1>5 DEF Settles, RunsSettle
<1>8. BatchesSettle(d, e, L)
  BY <1>2, <1>5 DEF Settles, BatchesSettle
<1>9. QED
  BY <1>6, <1>7, <1>8 DEF Settles

(* The reaper, having got through all the stale runs or only some of them, *)
(* finishes none.                                                          *)
LEMMA ReapedRunsSettle ==
  ASSUME NEW I, NEW L, NEW d, DbInv(d), NEW S \in SUBSET StaleQueued(d),
         NEW e, e = UpdateRuns(d, S, "timeout")
  PROVE  DbInv(e) /\ Settles(d, e, I, L)
<1>1. S \in SUBSET Queued(d)
  BY DEF StaleQueued
<1>2. QED
  BY <1>1, EndedRuns

(* The update of one run without its batch.                                *)
LEMMA FinishedRunSettles ==
  ASSUME NEW I, NEW L, NEW d, DbInv(d), NEW i \in I, NEW e, e = finish_run(d, i)
  PROVE  DbInv(e) /\ Settles(d, e, I, L)
<1> DEFINE S == LastOf(QueuedFor(d, "implementer", i), 1)
<1>1. S \in SUBSET Queued(d) /\ \A k \in S : d.runs[k].on \in I
  BY DEF LastOf, QueuedFor
<1>2. e = UpdateRuns(d, S, "finished")
  BY DEF finish_run
<1> HIDE DEF S
<1>3. QED
  BY <1>1, <1>2, EndedRuns

(* A run is completed only for an issue that some fetched PR closes.       *)
LEMMA CompletedIsMentioned ==
  ASSUME NEW d \in Db, NEW mentions, NEW i, NEW k \in RunsToComplete(d, mentions, i)
  PROVE  /\ k \in Queued(d)
         /\ d.runs[k].agent = "implementer" /\ d.runs[k].on = i
         /\ \E m \in mentions : m.issue = i
<1> DEFINE Q == QueuedFor(d, "implementer", i)
           M == {m \in mentions : m.issue = i}
<1>1. k \in LastOf(Q, Cardinality(M)) /\ k \in Q
  BY DEF RunsToComplete, LastOf
<1>2. ASSUME M = {} PROVE FALSE
  <2>0. Len(d.runs) \in Nat /\ DOMAIN d.runs = 1 .. Len(d.runs)
    BY DbFields
  <2>1. Q \in SUBSET (1 .. Len(d.runs)) /\ Q \in SUBSET Nat
    BY <2>0 DEF QueuedFor, Queued
  <2> HIDE DEF Q
  <2>2. IsFiniteSet(Q)
    <3>1. IsFiniteSet(1 .. Len(d.runs))
      BY <2>0, FS_Interval
    <3>2. QED
      BY <2>1, <3>1, FS_Subset
  <2>3. Cardinality(M) = 0
    BY <1>2, FS_EmptySet
  <2>4. /\ IsFiniteSet(LastOf(Q, 0))
        /\ Cardinality(LastOf(Q, 0)) <= 0
    BY <2>1, <2>2, LastOfCardinality
  <2>5. LastOf(Q, 0) = {}
    BY <2>4, FS_EmptySet, FS_CardinalityType
  <2>6. QED
    BY <1>1, <2>3, <2>5
<1>3. QED
  BY <1>1, <1>2 DEF QueuedFor

(* complete_implementer_runs, given all the mentions or only some of them, *)
(* finishes the runs of mentioned issues and links their batches to a PR.  *)
LEMMA ImplementerRunsSettle ==
  ASSUME NEW I, NEW L, NEW d, DbInv(d), NEW mentions, \A m \in mentions : m.issue \in I,
         NEW e, e = complete_implementer_runs(d, mentions)
  PROVE  DbInv(e) /\ Settles(d, e, I, L)
<1> DEFINE done(i) == RunsToComplete(d, mentions, i)
           S == UNION {done(i) : i \in Issues}
           u == UpdateRuns(d, S, "finished")
           batch == [i \in Issues |->
                       [d.batch[i] EXCEPT !.pr_number =
                          IF done(i) = {} THEN d.batch[i].pr_number ELSE "set"]]
<1>1. d \in Db /\ d.batch \in [Issues -> Batch]
  BY DbFields DEF DbInv
<1>2. \A i \in Issues : \A k \in done(i) : k \in Queued(d) /\ d.runs[k].on \in I
  <2> TAKE i \in Issues
  <2> TAKE k \in done(i)
  <2>1. k \in Queued(d) /\ d.runs[k].on = i /\ \E m \in mentions : m.issue = i
    BY <1>1, CompletedIsMentioned
  <2>2. QED
    BY <2>1
<1>3. u = UpdateRuns(d, S, "finished") /\ e = [u EXCEPT !.batch = batch]
  BY DEF complete_implementer_runs
<1>4. \A k \in S : \E i \in Issues : k \in done(i)
  OBVIOUS
<1> HIDE DEF done, S, u
<1>5. DbInv(u) /\ Settles(d, u, I, L) /\ u.batch = d.batch
  <2>1. /\ S \in SUBSET Queued(d)
        /\ \A k \in S : d.runs[k].agent = "implementer" => d.runs[k].on \in I
    BY <1>2, <1>4
  <2>2. u = UpdateRuns(d, S, "finished")
    BY <1>3
  <2>3. QED
    BY <2>1, <2>2, EndedRuns
<1>6. \A i \in Issues :
        /\ batch[i] \in Batch
        /\ batch[i].status = d.batch[i].status
        /\ batch[i].run = d.batch[i].run /\ batch[i].layer = d.batch[i].layer
        /\ batch[i].pr_number \in {d.batch[i].pr_number, "set"}
  <2> TAKE i \in Issues
  <2>1. d.batch[i] \in Batch
    BY <1>1
  <2>2. QED
    BY <2>1 DEF Batch
<1>7. batch \in [Issues -> Batch]
  BY <1>6
<1>8. u \in Db
  BY <1>5 DEF DbInv
<1>9. e \in Db /\ e.runs = u.runs /\ e.batch = batch
  BY <1>3, <1>7, <1>8 DEF Db
<1> HIDE DEF batch
<1>10. RunsSettle(d, e, I)
  BY <1>5, <1>9 DEF Settles, RunsSettle
<1>11. BatchesSettle(d, e, L)
  BY <1>6, <1>9 DEF BatchesSettle
<1>12. DbInv(e)
  BY <1>5, <1>6, <1>9 DEF DbInv
<1>13. QED
  BY <1>10, <1>11, <1>12 DEF Settles

(* mark_merged_batches merges live batches of landed issues only.          *)
LEMMA MergedBatchesSettle ==
  ASSUME NEW I, NEW L, NEW d, DbInv(d), NEW landed \in SUBSET L,
         NEW e, e = mark_merged_batches(d, landed)
  PROVE  DbInv(e) /\ Settles(d, e, I, L)
<1> DEFINE batch == [i \in Issues |->
              IF i \in landed /\ d.batch[i].status \in {"pending", "in_progress"}
              THEN [d.batch[i] EXCEPT !.status = "merged", !.pr_number = "set"]
              ELSE d.batch[i]]
<1>1. d \in Db /\ d.batch \in [Issues -> Batch]
  BY DbFields DEF DbInv
<1>2. e = [d EXCEPT !.batch = batch]
  BY DEF mark_merged_batches
<1>3. \A i \in Issues :
        /\ batch[i] \in Batch
        /\ batch[i].run = d.batch[i].run /\ batch[i].layer = d.batch[i].layer
        /\ batch[i].pr_number \in {d.batch[i].pr_number, "set"}
        /\ \/ batch[i].status = d.batch[i].status
           \/ /\ d.batch[i].status \in {"pending", "in_progress"} /\ i \in landed
              /\ batch[i].status = "merged" /\ batch[i].pr_number = "set"
  <2> TAKE i \in Issues
  <2>1. d.batch[i] \in Batch
    BY <1>1
  <2>2. QED
    BY <2>1 DEF Batch
<1>4. batch \in [Issues -> Batch]
  BY <1>3
<1>5. e \in Db /\ e.runs = d.runs /\ e.batch = batch
  BY <1>1, <1>2, <1>4 DEF Db
<1> HIDE DEF batch
<1>6. RunsSettle(d, e, I)
  BY <1>5 DEF RunsSettle
<1>7. BatchesSettle(d, e, L)
  BY <1>3, <1>5 DEF BatchesSettle
<1>8. DbInv(e)
  BY <1>3, <1>5 DEF DbInv
<1>9. QED
  BY <1>6, <1>7, <1>8 DEF Settles

-----------------------------------------------------------------------------
(* What the other writers of the database do.                              *)

(* A batch is given up only when its run timed out and no PR is known.     *)
GivenUp(d, e, i) ==
  /\ d.batch[i].status = "in_progress" /\ d.batch[i].pr_number = "NULL"
  /\ d.runs[d.batch[i].run].status = "timeout"
  /\ e.batch[i].status = "pending" /\ e.batch[i].pr_number = "NULL"
  /\ e.batch[i].run = 0 /\ e.batch[i].layer = d.batch[i].layer

(* recover_zombie_batches, having got through all the zombies or only some *)
(* of them, gives batches up and changes nothing else.                     *)
LEMMA ZombiesRecovered ==
  ASSUME NEW d, DbInv(d), NEW Z \in SUBSET zombie_batches(d),
         NEW e, e = reset_batches(d, Z)
  PROVE  /\ DbInv(e) /\ e.runs = d.runs
         /\ \A i \in Issues : e.batch[i] = d.batch[i] \/ GivenUp(d, e, i)
<1> DEFINE batch == [i \in Issues |->
              IF i \in Z THEN [d.batch[i] EXCEPT !.status = "pending", !.run = 0]
                         ELSE d.batch[i]]
<1>1. d \in Db /\ d.batch \in [Issues -> Batch]
  BY DbFields DEF DbInv
<1>2. e = [d EXCEPT !.batch = batch]
  BY DEF reset_batches
<1>3. \A i \in Z : /\ d.batch[i].status = "in_progress"
                   /\ d.batch[i].pr_number = "NULL"
                   /\ d.runs[d.batch[i].run].status = "timeout"
  BY DEF zombie_batches, WithStatus
<1>4. ASSUME NEW i \in Issues
      PROVE  /\ batch[i] \in Batch
             /\ i \notin Z => batch[i] = d.batch[i]
             /\ i \in Z => /\ batch[i].status = "pending" /\ batch[i].run = 0
                           /\ batch[i].pr_number = d.batch[i].pr_number
                           /\ batch[i].layer = d.batch[i].layer
  <2>1. d.batch[i] \in Batch
    BY <1>1
  <2>2. QED
    BY <2>1 DEF Batch
<1>5. batch \in [Issues -> Batch]
  BY <1>4
<1>6. e \in Db /\ e.runs = d.runs /\ e.batch = batch
  BY <1>1, <1>2, <1>5 DEF Db
<1> HIDE DEF batch
<1>7. \A i \in Issues : e.batch[i] = d.batch[i] \/ GivenUp(d, e, i)
  BY <1>3, <1>4, <1>6 DEF GivenUp
<1>8. Len(d.runs) \in Nat
  BY <1>1, DbFields
<1>9. DbInv(e)
  BY <1>3, <1>4, <1>6, <1>8 DEF DbInv
<1>10. QED
  BY <1>6, <1>7, <1>9

(* A finished run that was finished before.                                *)
WasFinished(d, e, k) ==
  /\ k \in DOMAIN d.runs /\ d.runs[k].status = "finished"
  /\ d.runs[k].agent = e.runs[k].agent /\ d.runs[k].on = e.runs[k].on

FinishesNone(d, e) ==
  \A k \in DOMAIN e.runs : e.runs[k].status = "finished" => WasFinished(d, e, k)

(* The commit of a reviewer dispatch touches no batch and takes one slot.  *)
LEMMA ReviewRecorded ==
  ASSUME NEW d, DbInv(d), NEW p \in PRs, NEW e, e = create_run(d, "reviewer", p)
  PROVE  /\ DbInv(e) /\ e.batch = d.batch /\ FinishesNone(d, e) /\ RunsKept(d, e)
         /\ active_run_count(e) = active_run_count(d) + 1
<1>1. d \in Db /\ p \in Nat
  BY PRsAssumption DEF DbInv
<1> DEFINE n == Len(d.runs) + 1
<1>2. /\ e \in Db /\ e.batch = d.batch
      /\ Len(e.runs) = n
      /\ DOMAIN e.runs = DOMAIN d.runs \cup {n}
      /\ \A k \in DOMAIN d.runs : e.runs[k] = d.runs[k]
      /\ e.runs[n] = [agent |-> "reviewer", on |-> p, status |-> "queued", age |-> "fresh"]
  BY <1>1, CreateRunFacts
<1>3. e.runs[n].agent = "reviewer" /\ e.runs[n].status = "queued"
  BY <1>2
<1>4. Len(d.runs) \in Nat /\ \A i \in Issues : d.batch[i].run \in Nat
  BY <1>1, DbFields DEF Batch
<1>5. \A i \in Issues : d.batch[i].run <= n
  <2>1. \A i \in Issues : d.batch[i].run <= Len(d.runs)
    BY DEF DbInv
  <2>2. QED
    BY <1>4, <2>1
<1> HIDE DEF n
<1>6. DbInv(e)
  <2>1. ASSUME NEW i \in Issues
        PROVE  /\ e.batch[i].run <= Len(e.runs)
               /\ e.batch[i].status \in {"none", "pending"} => e.batch[i].run = 0
               /\ e.batch[i].status = "in_progress" =>
                    /\ e.batch[i].run \in DOMAIN e.runs
                    /\ e.runs[e.batch[i].run].agent = "implementer"
                    /\ e.runs[e.batch[i].run].on = i
    BY <1>2, <1>5 DEF DbInv
  <2>2. \A k \in DOMAIN e.runs : e.runs[k].agent = "implementer" => e.runs[k].on \in Issues
    BY <1>2, <1>3 DEF DbInv
  <2>3. QED
    BY <1>2, <2>1, <2>2 DEF DbInv
<1>7. FinishesNone(d, e) /\ RunsKept(d, e)
  BY <1>2, <1>3 DEF FinishesNone, WasFinished, RunsKept
<1>8. QED
  BY <1>1, <1>2, <1>6, <1>7, CreateRunActive

(* The batch of a dispatched issue is promoted together with its run, or   *)
(* left alone when it is not pending any more.                             *)
Promoted(d, e, i) ==
  /\ d.batch[i].status = "pending" /\ e.batch[i].status = "in_progress"
  /\ e.batch[i].run = Len(d.runs) + 1
  /\ e.batch[i].pr_number = d.batch[i].pr_number
  /\ e.batch[i].layer = d.batch[i].layer

(* The commit of an implementer dispatch takes one slot and promotes at    *)
(* most the batch of its issue.                                            *)
LEMMA DispatchRecorded ==
  ASSUME NEW d, DbInv(d), NEW i \in Issues, NEW c, c = create_run(d, "implementer", i),
         NEW e, e = mark_batch_in_progress(c, i, Len(d.runs) + 1)
  PROVE  /\ DbInv(e) /\ FinishesNone(d, e) /\ RunsKept(d, e)
         /\ active_run_count(e) = active_run_count(d) + 1
         /\ \A j \in Issues : \/ e.batch[j] = d.batch[j]
                              \/ j = i /\ Promoted(d, e, j)
<1> DEFINE n == Len(d.runs) + 1
<1>1. d \in Db /\ i \in Nat
  BY IssuesAssumption DEF DbInv
<1>2. /\ c \in Db /\ c.batch = d.batch
      /\ Len(c.runs) = n
      /\ DOMAIN c.runs = DOMAIN d.runs \cup {n}
      /\ n \notin DOMAIN d.runs
      /\ \A k \in DOMAIN d.runs : c.runs[k] = d.runs[k]
      /\ c.runs[n] = [agent |-> "implementer", on |-> i,
                      status |-> "queued", age |-> "fresh"]
  BY <1>1, CreateRunFacts
<1>3. /\ c.runs[n].agent = "implementer" /\ c.runs[n].on = i
      /\ c.runs[n].status = "queued"
  BY <1>2
<1>4. /\ Len(d.runs) \in Nat /\ n \in Nat
      /\ n = Len(d.runs) + 1 /\ Len(d.runs) <= n
      /\ \A j \in Issues : d.batch[j] \in Batch /\ d.batch[j].run \in Nat
  BY <1>1, DbFields DEF Batch
<1> HIDE DEF n
<1>5. DbInv(c)
  <2>1. ASSUME NEW j \in Issues
        PROVE  /\ c.batch[j].run <= Len(c.runs)
               /\ c.batch[j].status \in {"none", "pending"} => c.batch[j].run = 0
               /\ c.batch[j].status = "in_progress" =>
                    /\ c.batch[j].run \in DOMAIN c.runs
                    /\ c.runs[c.batch[j].run].agent = "implementer"
                    /\ c.runs[c.batch[j].run].on = j
    <3>1. d.batch[j].run <= n
      <4>1. d.batch[j].run <= Len(d.runs)
        BY DEF DbInv
      <4>2. QED
        BY <1>4, <4>1
    <3>2. QED
      BY <1>2, <3>1 DEF DbInv
  <2>2. ASSUME NEW k \in DOMAIN c.runs, c.runs[k].agent = "implementer"
        PROVE  c.runs[k].on \in Issues
    <3>1. CASE k = n
      BY <1>3, <3>1
    <3>2. CASE k # n
      BY <1>2, <2>2, <3>2 DEF DbInv
    <3>3. QED
      BY <3>1, <3>2
  <2>3. QED
    BY <1>2, <2>1, <2>2 DEF DbInv
<1>6. active_run_count(c) = active_run_count(d) + 1
  BY <1>1, CreateRunActive
<1>7. FinishesNone(d, c) /\ RunsKept(d, c)
  BY <1>2, <1>3 DEF FinishesNone, WasFinished, RunsKept
<1>8. CASE c.batch[i].status # "pending"
  <2>1. e = c
    BY <1>8 DEF mark_batch_in_progress
  <2>2. QED
    BY <1>2, <1>5, <1>6, <1>7, <2>1
<1>9. CASE c.batch[i].status = "pending"
  <2> DEFINE row == [c.batch[i] EXCEPT !.status = "in_progress", !.run = n]
  <2>1. e = [c EXCEPT !.batch = [@ EXCEPT ![i] = row]]
    <3>1. e = [c EXCEPT !.batch[i].status = "in_progress", !.batch[i].run = n]
      BY <1>9 DEF mark_batch_in_progress, n
    <3>2. c.batch \in [Issues -> Batch]
      BY <1>2, DbFields
    <3>3. QED
      BY <3>1, <3>2 DEF Batch
  <2>2. /\ row \in Batch
        /\ row.status = "in_progress" /\ row.run = n
        /\ row.pr_number = c.batch[i].pr_number
        /\ row.layer = c.batch[i].layer
    BY <1>2, <1>4 DEF Batch
  <2> HIDE DEF row
  <2>3. c.batch \in [Issues -> Batch]
    BY <1>2, DbFields
  <2>4. /\ e \in Db /\ e.runs = c.runs
        /\ e.batch[i] = row
        /\ \A j \in Issues : j # i => e.batch[j] = c.batch[j]
    BY <1>2, <2>1, <2>2, <2>3 DEF Db
  <2>5. DbInv(e)
    <3>1. ASSUME NEW j \in Issues
          PROVE  /\ e.batch[j].run <= Len(e.runs)
                 /\ e.batch[j].status \in {"none", "pending"} => e.batch[j].run = 0
                 /\ e.batch[j].status = "in_progress" =>
                      /\ e.batch[j].run \in DOMAIN e.runs
                      /\ e.runs[e.batch[j].run].agent = "implementer"
                      /\ e.runs[e.batch[j].run].on = j
      <4>1. CASE j = i
        BY <1>2, <1>3, <1>4, <2>2, <2>4, <4>1
      <4>2. CASE j # i
        BY <1>5, <2>4, <4>2 DEF DbInv
      <4>3. QED
        BY <4>1, <4>2
    <3>2. QED
      BY <1>5, <2>4, <3>1 DEF DbInv
  <2>6. active_run_count(e) = active_run_count(c)
    BY <2>4 DEF active_run_count, Active, Queued
  <2>7. Promoted(d, e, i)
    BY <1>2, <1>4, <1>9, <2>2, <2>4 DEF Promoted
  <2>8. QED
    BY <1>2, <1>6, <1>7, <2>4, <2>5, <2>6, <2>7 DEF FinishesNone, WasFinished, RunsKept
<1>10. QED
  BY <1>8, <1>9

(* A planner run touches what nobody has started: status and layer.        *)
Replanned(d, e, i) ==
  /\ d.batch[i].status \in {"none", "pending"} /\ e.batch[i].status = "pending"
  /\ e.batch[i].run = d.batch[i].run
  /\ e.batch[i].pr_number = d.batch[i].pr_number

(* _upsert_batch for a whole layering, however old the layering is.        *)
LEMMA BatchesUpserted ==
  ASSUME NEW d, DbInv(d), NEW layer \in Layering,
         NEW e, e = upsert_batches(d, layer)
  PROVE  /\ DbInv(e) /\ e.runs = d.runs
         /\ \A i \in Issues : e.batch[i] = d.batch[i] \/ Replanned(d, e, i)
<1> DEFINE batch == [i \in Issues |->
              IF i \in DOMAIN layer /\ d.batch[i].status \in {"none", "pending"}
              THEN [d.batch[i] EXCEPT !.status = "pending", !.layer = layer[i]]
              ELSE d.batch[i]]
<1>1. d \in Db /\ d.batch \in [Issues -> Batch]
  BY DbFields DEF DbInv
<1>2. \A i \in DOMAIN layer : layer[i] \in Layers
  BY DEF Layering
<1>3. e = [d EXCEPT !.batch = batch]
  BY DEF upsert_batches
<1>4. ASSUME NEW i \in Issues
      PROVE  /\ batch[i] \in Batch
             /\ \/ batch[i] = d.batch[i]
                \/ /\ d.batch[i].status \in {"none", "pending"}
                   /\ batch[i].status = "pending"
                   /\ batch[i].run = d.batch[i].run
                   /\ batch[i].pr_number = d.batch[i].pr_number
  <2>1. d.batch[i] \in Batch
    BY <1>1
  <2>2. QED
    BY <1>2, <2>1 DEF Batch
<1>5. batch \in [Issues -> Batch]
  BY <1>4
<1>6. e \in Db /\ e.runs = d.runs /\ e.batch = batch
  BY <1>1, <1>3, <1>5 DEF Db
<1> HIDE DEF batch
<1>7. \A i \in Issues : e.batch[i] = d.batch[i] \/ Replanned(d, e, i)
  BY <1>4, <1>6 DEF Replanned
<1>8. DbInv(e)
  BY <1>4, <1>6 DEF DbInv
<1>9. QED
  BY <1>6, <1>7, <1>8

(* Time passes: a run that gets old leaves the count.                      *)
LEMMA AgedRun ==
  ASSUME NEW d, DbInv(d), NEW k \in DOMAIN d.runs,
         NEW e, e = [d EXCEPT !.runs[k].age = "stale"]
  PROVE  /\ DbInv(e) /\ e.batch = d.batch /\ FinishesNone(d, e) /\ RunsKept(d, e)
         /\ Active(e) \subseteq Active(d)
<1> DEFINE row == [d.runs[k] EXCEPT !.age = "stale"]
           runs == [d.runs EXCEPT ![k] = row]
<1>1. d \in Db /\ d.runs \in Seq(Run) /\ d.runs[k] \in Run
  BY DbFields DEF DbInv
<1>2. /\ row \in Run
      /\ row.agent = d.runs[k].agent /\ row.on = d.runs[k].on
      /\ row.status = d.runs[k].status /\ row.age = "stale"
  BY <1>1 DEF Run
<1> HIDE DEF row
<1>3. /\ runs \in Seq(Run) /\ Len(runs) = Len(d.runs)
      /\ DOMAIN runs = DOMAIN d.runs
      /\ runs[k] = row
      /\ \A m \in DOMAIN d.runs : m # k => runs[m] = d.runs[m]
  BY <1>1, <1>2
<1>4. e = [d EXCEPT !.runs = runs]
  BY DEF row
<1> HIDE DEF runs
<1>5. e \in Db /\ e.runs = runs /\ e.batch = d.batch
  BY <1>1, <1>3, <1>4 DEF Db
<1>6. DbInv(e)
  BY <1>2, <1>3, <1>5 DEF DbInv
<1>7. Active(e) \subseteq Active(d)
  BY <1>2, <1>3, <1>5 DEF Active, Queued
<1>8. FinishesNone(d, e) /\ RunsKept(d, e)
  BY <1>2, <1>3, <1>5 DEF FinishesNone, WasFinished, RunsKept
<1>9. QED
  BY <1>5, <1>6, <1>7, <1>8
=============================================================================
