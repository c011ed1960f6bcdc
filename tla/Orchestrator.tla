---------------------------- MODULE Orchestrator ----------------------------
(***************************************************************************)
(* One repository driven by the engine: orchestrator_tick with its         *)
(* pollback and its two dispatch passes, the batch planner, the operator's *)
(* switches, and the part of GitHub and of the agents that they act on.    *)
(*                                                                         *)
(* A tick is a coroutine that awaits GitHub between short synchronous      *)
(* blocks, so every awaited request is a step and so is every synchronous  *)
(* block; pc names the step a tick takes next.  Ticks is the set of        *)
(* processes that may run one: the systemd timer, the dashboard (its       *)
(* webhook runner and its force_tick), the Telegram bot and the specialist *)
(* server.  No lock spans them.                                            *)
(*                                                                         *)
(* What can go wrong outside the engine's control is in Upsets, and at     *)
(* most MaxUpsets of them happen in a behaviour:                           *)
(*   "api"          a GitHub request raises (its effect may have happened) *)
(*   "db"           the dispatch transaction fails and is rolled back      *)
(*   "crash"        the process of a tick dies, between two steps or within  *)
(*                  the reconciliations of pollback                        *)
(*   "agent_dies", "reviewer_dies"   a session ends without a result       *)
(*   "late"         a run's hour is over before its result is noticed      *)
(*   "block"        a reviewer blocks the PR                               *)
(*   "pr_closed"    a PR is closed unmerged                                *)
(*   "human"        a person opens a PR for an issue, or merges a PR       *)
(*   "pause", "skip", "close", "force_review"   an operator does that      *)
(***************************************************************************)
EXTENDS EngineDb

CONSTANTS Ticks,       \* processes that run apply-mode ticks
          Deps,        \* the "Blocked by" numbers of each issue's body
          ClosingSets, \* the sets of issues a PR may close
          Overrides,   \* concurrency overrides the dashboard may set
          Upsets, MaxUpsets

ASSUME DepsAssumption == Deps \in [Issues -> SUBSET Issues]
ASSUME ClosingSetsAssumption == ClosingSets \subseteq SUBSET Issues
ASSUME OverridesAssumption == Overrides \subseteq Nat \cup {NoOverride}
ASSUME MaxUpsetsAssumption == MaxUpsets \in Nat

VARIABLES
  db,         \* the SQLite database
  paused,     \* engine_state.orchestrator_paused
  override,   \* engine_state.max_in_flight_override
  recent,     \* the closed PRs updated since engine_state.last_merged_pr_check
  issue,      \* the issues on GitHub
  pr,         \* the PRs on GitHub
  sessions,   \* implementer sessions at work, by issue
  reviewing,  \* reviewer sessions at work, by PR
  tick,       \* the local variables of each tick
  planner,    \* the local variables of the planner
  upsets      \* how many upsets happened

knobs  == <<paused, override>>
github == <<recent, issue, pr>>
agents == <<sessions, reviewing>>
vars   == <<db, knobs, github, agents, tick, planner, upsets>>

AgentStart == "agent:start"
DoNotImplement == "do-not-implement"

Reviews == {"none", "pending"} \cup Verdicts
Fetched == [pr : PRs, review : Reviews]

PollSteps == {"poll_closed", "reconcile", "unlabel"}
ReviewSteps == {"review_comment", "review_label", "review_commit"}
DispatchSteps == {"issue_get", "issue_comment", "issue_label", "issue_commit"}
Steps == PollSteps \cup {"load", "fetch_prs"} \cup ReviewSteps
           \cup {"decide"} \cup DispatchSteps

IdleTick == [pc |-> "idle",
             open |-> {}, closed |-> {},  \* the PRs pollback fetched
             zombies |-> {},              \* issues to take agent:start from
             plan |-> <<>>,               \* layers of the loaded snapshot
             blocked |-> {},              \* issues in flight or with a PR
             slots |-> 0,                 \* concurrency_cap
             review |-> {},               \* PRs still to send to the reviewer
             todo |-> {}]                 \* issues still to dispatch

IdlePlanner == [pc |-> "idle", layer |-> <<>>]

Init ==
  /\ db = EmptyDb
  /\ paused = "false" /\ override = NoOverride
  /\ recent = {}
  /\ issue = [i \in Issues |-> [state |-> "open", labels |-> {}]]
  /\ pr = [p \in PRs |-> [state |-> "none", closes |-> {}, review |-> "none"]]
  /\ sessions = [i \in Issues |-> 0]
  /\ reviewing = [p \in PRs |-> 0]
  /\ tick = [t \in Ticks |-> IdleTick]
  /\ planner = IdlePlanner
  /\ upsets = 0

-----------------------------------------------------------------------------

Upset(u) == u \in Upsets /\ upsets < MaxUpsets /\ upsets' = upsets + 1

(* A request that raised may have been carried out all the same.           *)
Outcomes == {"ok", "failed", "unanswered"}
Done(o) == o # "failed"

Request(o) == IF o = "ok" THEN UNCHANGED upsets ELSE Upset("api")

Goto(t, step) == tick' = [tick EXCEPT ![t].pc = step]

OpenPRs == {p \in PRs : pr[p].state = "open"}
Fetch(S) == {[pr |-> p, review |-> pr[p].review] : p \in S}

(* An update moves a closed PR to the front of the list that pollback cuts *)
(* at its cursor.                                                          *)
UpdatePR(p, new) ==
  /\ pr' = [pr EXCEPT ![p] = new]
  /\ recent' = IF new.state = "open" THEN recent ELSE recent \cup {p}

Label(i, l) == issue' = [issue EXCEPT ![i].labels = @ \cup {l}]
Unlabel(i, l) == issue' = [issue EXCEPT ![i].labels = @ \ {l}]

-----------------------------------------------------------------------------
(* orchestrator_tick: run_pollback                                         *)

(* A failed fetch ends the pollback, not the tick.                         *)
PollOpen(t) ==
  /\ tick[t].pc = "idle"
  /\ \E o \in {"ok", "failed"} :
       /\ Request(o)
       /\ IF o = "ok" THEN tick' = [tick EXCEPT ![t].pc = "poll_closed",
                                          ![t].open = Fetch(OpenPRs)]
                ELSE Goto(t, "load")
  /\ UNCHANGED <<db, knobs, github, agents, planner>>

(* The cursor is read just before the request that it cuts.                *)
PollClosed(t) ==
  /\ tick[t].pc = "poll_closed"
  /\ \E o \in {"ok", "failed"} :
       /\ Request(o)
       /\ IF o = "ok" THEN tick' = [tick EXCEPT ![t].pc = "reconcile",
                                          ![t].closed = Fetch(recent)]
                ELSE tick' = [tick EXCEPT ![t] = [IdleTick EXCEPT !.pc = "load"]]
  /\ UNCHANGED <<db, knobs, github, agents, planner>>

(* Mutant: a PR that was closed unmerged counts.                           *)
ClosedIssues(closed) == UNION {pr[x.pr].closes : x \in closed}

LandedIssues(closed) ==
  UNION {pr[x.pr].closes : x \in {y \in closed : pr[y.pr].state = "merged"}}

(* Every issue that a fetched PR closes, once for each list it is in.      *)
Mentions(t) ==
  {m \in [list : {"open", "closed"}, pr : PRs, issue : Issues] :
     /\ m.issue \in pr[m.pr].closes
     /\ \E x \in IF m.list = "open" THEN tick[t].open ELSE tick[t].closed :
          x.pr = m.pr}

(* The database after each of the reconciliations, in the order they run.  *)
Reconciled(t) ==
  LET reviewers    == complete_reviewer_runs(db, tick[t].open \cup tick[t].closed)
      implementers == complete_implementer_runs(reviewers, Mentions(t))
      merged       == mark_merged_batches(implementers, LandedIssues(tick[t].closed))
      reaped       == reap_stale_queued_runs(merged)
  IN  <<reviewers, implementers, merged, reaped, recover_zombie_batches(reaped)>>

(* Mutant: the recovered issues keep agent:start.                          *)
ReconcileDbOnly(t) ==
  /\ tick[t].pc = "reconcile"
  /\ db' = Reconciled(t)[5]
  /\ recent' = {}
  /\ tick' = [tick EXCEPT ![t] = [IdleTick EXCEPT !.pc = "load"]]
  /\ UNCHANGED <<knobs, issue, pr, agents, planner, upsets>>

(* The cursor moves to the time of this step, not to that of the fetch.    *)
Reconcile(t) ==
  /\ tick[t].pc = "reconcile"
  /\ db' = Reconciled(t)[5]
  /\ recent' = {}
  /\ LET zombies == zombie_batches(Reconciled(t)[4]) IN
     tick' = [tick EXCEPT ![t] = [IdleTick EXCEPT
                !.pc = IF zombies = {} THEN "load" ELSE "unlabel",
                !.zombies = zombies]]
  /\ UNCHANGED <<knobs, issue, pr, agents, planner, upsets>>

(* What a process that dies in between leaves: they run in autocommit      *)
(* mode, so any of them may have done a part of its rows, and one run may  *)
(* be finished without its batch.                                          *)
Interrupted(t) ==
  LET r == Reconciled(t) IN
  UNION {
    {complete_reviewer_runs(db, S) : S \in SUBSET (tick[t].open \cup tick[t].closed)},
    {complete_implementer_runs(r[1], M) : M \in SUBSET Mentions(t)},
    {finish_run(complete_implementer_runs(r[1], M \ {m}), m.issue) :
       M \in SUBSET Mentions(t), m \in Mentions(t)},
    {mark_merged_batches(r[2], L) : L \in SUBSET LandedIssues(tick[t].closed)},
    {UpdateRuns(r[3], S, "timeout") : S \in SUBSET StaleQueued(r[3])},
    {reset_batches(r[4], Z) : Z \in SUBSET zombie_batches(r[4])}}

CrashInReconcile(t) ==
  /\ tick[t].pc = "reconcile"
  /\ Upset("crash")
  /\ db' \in Interrupted(t)
  /\ tick' = [tick EXCEPT ![t] = IdleTick]
  /\ UNCHANGED <<knobs, github, agents, planner>>

(* The labels go one by one; a failure is logged and the next one tried.   *)
UnlabelZombie(t) ==
  /\ tick[t].pc = "unlabel"
  /\ \E i \in FirstOf(tick[t].zombies, 1), o \in Outcomes :
       /\ Request(o)
       /\ IF Done(o) THEN Unlabel(i, AgentStart) ELSE UNCHANGED issue
       /\ tick' = [tick EXCEPT
                     ![t].zombies = @ \ {i},
                     ![t].pc = IF tick[t].zombies = {i} THEN "load" ELSE @]
  /\ UNCHANGED <<db, knobs, recent, pr, agents, planner>>

-----------------------------------------------------------------------------
(* orchestrator_tick: the snapshot and the open PRs                        *)

(* "effective or default": an effective cap of 0 falls back to the config. *)
CapEffective ==
  LET effective == effective_max_in_flight(override)
  IN  IF effective = 0 THEN MaxInFlight ELSE effective

(* Mutant: the slots are those of an engine with nothing in flight.        *)
FreeSlotsUncounted(d) == CapEffective

(* Mutant: no max(0, ...) around the difference.                           *)
FreeSlotsUnclamped(d) == CapEffective - active_run_count(d)

FreeSlots(d) ==
  IF active_run_count(d) < CapEffective
  THEN CapEffective - active_run_count(d) ELSE 0

Load(t) ==
  /\ tick[t].pc = "load"
  /\ IF paused = "true" \/ WithStatus(db, "none") = Issues
     THEN tick' = [tick EXCEPT ![t] = IdleTick]
     ELSE tick' = [tick EXCEPT ![t] = [IdleTick EXCEPT
                     !.pc = "fetch_prs",
                     !.plan = load_batch_snapshot(db),
                     !.blocked = WithStatus(db, "in_progress"),
                     !.slots = FreeSlots(db)]]
  /\ UNCHANGED <<db, knobs, github, agents, planner, upsets>>

(* A failed fetch leaves the tick with no PRs.  GitHub lists the newest PR *)
(* first, and as many as there are slots go to the reviewer.               *)
FetchPRs(t) ==
  /\ tick[t].pc = "fetch_prs"
  /\ \E o \in {"ok", "failed"} :
       LET prs == IF o = "ok" THEN OpenPRs ELSE {}
           new == {p \in prs : pr[p].review = "none"}
           review == LastOf(new, tick[t].slots)
       IN  /\ Request(o)
           /\ tick' = [tick EXCEPT
                 ![t].blocked = @ \cup UNION {pr[p].closes : p \in prs},
                 ![t].review = review,
                 ![t].pc = IF review = {} THEN "decide" ELSE "review_comment"]
  /\ UNCHANGED <<db, knobs, github, agents, planner>>

-----------------------------------------------------------------------------
(* orchestrator_tick: the reviewer pass                                    *)

NextReview(t, p, slots) ==
  tick' = [tick EXCEPT
             ![t].review = @ \ {p},
             ![t].slots = slots,
             ![t].pc = IF tick[t].review = {p} THEN "decide" ELSE "review_comment"]

ReviewComment(t) ==
  /\ tick[t].pc = "review_comment"
  /\ \E p \in LastOf(tick[t].review, 1), o \in Outcomes :
       /\ Request(o)
       /\ reviewing' = IF Done(o) THEN [reviewing EXCEPT ![p] = @ + 1] ELSE reviewing
       /\ IF o = "ok" THEN Goto(t, "review_label") ELSE NextReview(t, p, tick[t].slots)
  /\ UNCHANGED <<db, knobs, github, sessions, planner>>

ReviewLabel(t) ==
  /\ tick[t].pc = "review_label"
  /\ \E p \in LastOf(tick[t].review, 1), o \in Outcomes :
       /\ Request(o)
       /\ IF Done(o)
          THEN UpdatePR(p, [pr[p] EXCEPT !.review =
                              IF pr[p].review = "none" THEN "pending" ELSE pr[p].review])
          ELSE UNCHANGED <<pr, recent>>
       /\ IF o = "ok" THEN Goto(t, "review_commit") ELSE NextReview(t, p, tick[t].slots)
  /\ UNCHANGED <<db, knobs, issue, agents, planner>>

(* Only a dispatch that was recorded uses up a slot.                       *)
ReviewCommit(t) ==
  /\ tick[t].pc = "review_commit"
  /\ \E p \in LastOf(tick[t].review, 1) :
       \/ /\ db' = create_run(db, "reviewer", p)
          /\ NextReview(t, p, tick[t].slots - 1)
          /\ UNCHANGED upsets
       \/ /\ Upset("db")
          /\ NextReview(t, p, tick[t].slots)
          /\ UNCHANGED db
  /\ UNCHANGED <<knobs, github, agents, planner>>

-----------------------------------------------------------------------------
(* orchestrator_tick: the implementer pass                                 *)

Batches(t) == next_executable_batch(tick[t].plan, tick[t].blocked, tick[t].slots)

Decide(t) ==
  /\ tick[t].pc = "decide"
  /\ IF tick[t].slots < 1 \/ Batches(t) = {}
     THEN tick' = [tick EXCEPT ![t] = IdleTick]
     ELSE tick' = [tick EXCEPT ![t] = [IdleTick EXCEPT !.pc = "issue_get",
                                                       !.todo = Batches(t)]]
  /\ UNCHANGED <<db, knobs, github, agents, planner, upsets>>

NextIssue(t, i) ==
  tick' = [tick EXCEPT ![t] =
             IF tick[t].todo = {i} THEN IdleTick
             ELSE [tick[t] EXCEPT !.pc = "issue_get",
                                  !.todo = tick[t].todo \ {i}]]

(* The issue is fetched afresh and skipped when it carries agent:start.    *)
IssueGet(t) ==
  /\ tick[t].pc = "issue_get"
  /\ \E i \in FirstOf(tick[t].todo, 1), o \in {"ok", "failed"} :
       /\ Request(o)
       /\ IF o = "ok" /\ AgentStart \notin issue[i].labels
          THEN Goto(t, "issue_comment") ELSE NextIssue(t, i)
  /\ UNCHANGED <<db, knobs, github, agents, planner>>

(* The comment is what starts a session.                                   *)
IssueComment(t) ==
  /\ tick[t].pc = "issue_comment"
  /\ \E i \in FirstOf(tick[t].todo, 1), o \in Outcomes :
       /\ Request(o)
       /\ sessions' = IF Done(o) THEN [sessions EXCEPT ![i] = @ + 1] ELSE sessions
       /\ IF o = "ok" THEN Goto(t, "issue_label") ELSE NextIssue(t, i)
  /\ UNCHANGED <<db, knobs, github, reviewing, planner>>

IssueLabel(t) ==
  /\ tick[t].pc = "issue_label"
  /\ \E i \in FirstOf(tick[t].todo, 1), o \in Outcomes :
       /\ Request(o)
       /\ IF Done(o) THEN Label(i, AgentStart) ELSE UNCHANGED issue
       /\ IF o = "ok" THEN Goto(t, "issue_commit") ELSE NextIssue(t, i)
  /\ UNCHANGED <<db, knobs, recent, pr, agents, planner>>

(* The run and the promotion of the batch commit together or not at all.   *)
RecordDispatch(d, i) ==
  mark_batch_in_progress(create_run(d, "implementer", i), i, Len(d.runs) + 1)

IssueCommit(t) ==
  /\ tick[t].pc = "issue_commit"
  /\ \E i \in FirstOf(tick[t].todo, 1) :
       /\ \/ db' = RecordDispatch(db, i) /\ UNCHANGED upsets
          \/ Upset("db") /\ UNCHANGED db
       /\ NextIssue(t, i)
  /\ UNCHANGED <<knobs, github, agents, planner>>

Crash(t) ==
  /\ tick[t].pc # "idle"
  /\ Upset("crash")
  /\ tick' = [tick EXCEPT ![t] = IdleTick]
  /\ UNCHANGED <<db, knobs, github, agents, planner>>

TickStep(t) ==
  \/ PollOpen(t) \/ PollClosed(t) \/ Reconcile(t) \/ UnlabelZombie(t)
  \/ Load(t) \/ FetchPRs(t)
  \/ ReviewComment(t) \/ ReviewLabel(t) \/ ReviewCommit(t)
  \/ Decide(t)
  \/ IssueGet(t) \/ IssueComment(t) \/ IssueLabel(t) \/ IssueCommit(t)

-----------------------------------------------------------------------------
(* run_planner.  A dependency cycle or a failed fetch raises before any    *)
(* row is written.                                                         *)

PlannerFetch ==
  /\ planner.pc = "idle"
  /\ LET layers == compute_layers([i \in Issues |->
                     [state |-> issue[i].state, labels |-> issue[i].labels,
                      blocked_by |-> Deps[i]]])
     IN  /\ ~ layers.cycle
         /\ planner' = [pc |-> "upsert", layer |-> layers.layer]
  /\ UNCHANGED <<db, knobs, github, agents, tick, upsets>>

PlannerCommit ==
  /\ planner.pc = "upsert"
  /\ db' = upsert_batches(db, planner.layer)
  /\ planner' = IdlePlanner
  /\ UNCHANGED <<knobs, github, agents, tick, upsets>>

-----------------------------------------------------------------------------
(* The agents, GitHub and people.                                          *)

(* PR numbers are given in ascending order.                                *)
OpenPR(i) ==
  \E p \in FirstOf({q \in PRs : pr[q].state = "none"}, 1), c \in ClosingSets :
    /\ i \in c
    /\ pr' = [pr EXCEPT ![p] = [state |-> "open", closes |-> c, review |-> "none"]]

AgentOpensPR(i) ==
  /\ sessions[i] > 0
  /\ OpenPR(i)
  /\ sessions' = [sessions EXCEPT ![i] = @ - 1]
  /\ UNCHANGED <<db, knobs, recent, issue, reviewing, tick, planner, upsets>>

HumanOpensPR(i) ==
  /\ Upset("human")
  /\ OpenPR(i)
  /\ UNCHANGED <<db, knobs, recent, issue, agents, tick, planner>>

AgentDies(i) ==
  /\ sessions[i] > 0
  /\ Upset("agent_dies")
  /\ sessions' = [sessions EXCEPT ![i] = @ - 1]
  /\ UNCHANGED <<db, knobs, github, reviewing, tick, planner>>

(* The reviewer replaces review:pending by its verdict.                    *)
ReviewerVerdict(p) ==
  /\ reviewing[p] > 0
  /\ reviewing' = [reviewing EXCEPT ![p] = @ - 1]
  /\ \/ /\ UpdatePR(p, [pr[p] EXCEPT !.review = "approved"])
        /\ UNCHANGED upsets
     \/ /\ Upset("block")
        /\ UpdatePR(p, [pr[p] EXCEPT !.review = "hard-block"])
  /\ UNCHANGED <<db, knobs, issue, sessions, tick, planner>>

ReviewerDies(p) ==
  /\ reviewing[p] > 0
  /\ Upset("reviewer_dies")
  /\ reviewing' = [reviewing EXCEPT ![p] = @ - 1]
  /\ UNCHANGED <<db, knobs, github, sessions, tick, planner>>

(* A result pollback can still find, or somebody who works on one.         *)
Awaited(r) ==
  LET listed == OpenPRs \cup recent
  IN  IF r.agent = "implementer"
      THEN sessions[r.on] > 0 \/ \E p \in listed : r.on \in pr[p].closes
      ELSE \/ reviewing[r.on] > 0
           \/ r.on \in listed \ db.reviewed /\ pr[r.on].review \in Verdicts

(* The hour of a queued run is over; for an awaited one that is an upset.  *)
RunAges(k) ==
  /\ k \in Active(db)
  /\ IF Awaited(db.runs[k]) THEN Upset("late") ELSE UNCHANGED upsets
  /\ db' = [db EXCEPT !.runs[k].age = "stale"]
  /\ UNCHANGED <<knobs, github, agents, tick, planner>>

(* A merge closes the issues, and the cleanup workflow of the target       *)
(* repository takes agent:start off a closed issue.                        *)
CloseIssues(S) ==
  issue' = [i \in Issues |->
              IF i \in S THEN [state |-> "closed", labels |-> issue[i].labels \ {AgentStart}]
                         ELSE issue[i]]

(* Auto-merge fires on review:approved only.                               *)
MergePR(p) ==
  /\ pr[p].state = "open"
  /\ IF pr[p].review = "approved" THEN UNCHANGED upsets ELSE Upset("human")
  /\ UpdatePR(p, [pr[p] EXCEPT !.state = "merged"])
  /\ CloseIssues(pr[p].closes)
  /\ UNCHANGED <<db, knobs, agents, tick, planner>>

ClosePR(p) ==
  /\ pr[p].state = "open"
  /\ Upset("pr_closed")
  /\ UpdatePR(p, [pr[p] EXCEPT !.state = "closed"])
  /\ UNCHANGED <<db, knobs, issue, agents, tick, planner>>

CloseIssue(i) ==
  /\ issue[i].state = "open"
  /\ Upset("close")
  /\ CloseIssues({i})
  /\ UNCHANGED <<db, knobs, recent, pr, agents, tick, planner>>

-----------------------------------------------------------------------------
(* The operator, through the dashboard, the bot or the specialist.         *)

Pause ==
  /\ paused = "false"
  /\ Upset("pause")
  /\ paused' = "true"
  /\ UNCHANGED <<db, override, github, agents, tick, planner>>

Resume ==
  /\ paused = "true"
  /\ paused' = "false"
  /\ UNCHANGED <<db, override, github, agents, tick, planner, upsets>>

SetOverride ==
  /\ override' \in Overrides
  /\ UNCHANGED <<db, paused, github, agents, tick, planner, upsets>>

(* The tool reruns the planner after it labelled the issue.                *)
SkipIssue(i) ==
  /\ issue[i].state = "open"
  /\ Upset("skip")
  /\ Label(i, DoNotImplement)
  /\ UNCHANGED <<db, knobs, recent, pr, agents, tick, planner>>

ForceReview(p) ==
  /\ pr[p].state # "none"
  /\ Upset("force_review")
  /\ UpdatePR(p, [pr[p] EXCEPT !.review = "none"])
  /\ UNCHANGED <<db, knobs, issue, agents, tick, planner>>

-----------------------------------------------------------------------------

Environment ==
  \/ \E i \in Issues : AgentOpensPR(i) \/ HumanOpensPR(i) \/ AgentDies(i)
                       \/ CloseIssue(i) \/ SkipIssue(i)
  \/ \E p \in PRs : ReviewerVerdict(p) \/ ReviewerDies(p) \/ MergePR(p)
                    \/ ClosePR(p) \/ ForceReview(p)
  \/ \E k \in DOMAIN db.runs : RunAges(k)
  \/ Pause \/ Resume \/ SetOverride

Planner == PlannerFetch \/ PlannerCommit

Next ==
  \/ \E t \in Ticks : TickStep(t) \/ Crash(t) \/ CrashInReconcile(t)
  \/ Planner
  \/ Environment

Spec == Init /\ [][Next]_vars

(* The timers restart the ticks and the planner for ever; an agent that    *)
(* does not die comes back, auto-merge merges what is approved, and time   *)
(* passes.  Nothing else has to happen.                                    *)
Fairness ==
  /\ \A t \in Ticks : WF_vars(TickStep(t))
  /\ WF_vars(Planner)
  /\ \A i \in Issues : WF_vars(AgentOpensPR(i))
  /\ \A p \in PRs : /\ WF_vars(ReviewerVerdict(p))
                    /\ WF_vars(MergePR(p) /\ UNCHANGED upsets)
  /\ WF_vars(\E k \in DOMAIN db.runs : RunAges(k) /\ UNCHANGED upsets)

FairSpec == Spec /\ Fairness

-----------------------------------------------------------------------------
(* Types.                                                                  *)

Tick == [pc : Steps \cup {"idle"},
         open : SUBSET Fetched, closed : SUBSET Fetched,
         zombies : SUBSET Issues,
         plan : Layering,
         blocked : SUBSET Issues,
         slots : Nat,
         review : SUBSET PRs,
         todo : SUBSET Issues]

TypeOK ==
  /\ db \in Db
  /\ paused \in {"true", "false"} /\ override \in Nat \cup {NoOverride}
  /\ recent \subseteq PRs
  /\ issue \in [Issues -> [state : {"open", "closed"},
                          labels : SUBSET {AgentStart, DoNotImplement}]]
  /\ pr \in [PRs -> [state : {"none", "open", "merged", "closed"},
                    closes : SUBSET Issues, review : Reviews]]
  /\ sessions \in [Issues -> Nat] /\ reviewing \in [PRs -> Nat]
  /\ tick \in [Ticks -> Tick]
  /\ planner \in [pc : {"idle", "upsert"},
                  layer : Layering]
  /\ upsets \in 0 .. MaxUpsets

-----------------------------------------------------------------------------
(* Safety, whatever upsets happen and however many ticks overlap.          *)

(* A batch in progress points at an implementer run of its own issue and a *)
(* pending one at none (dispatch, zombie recovery and planner together).   *)
RunOfBatch ==
  \A i \in Issues :
    /\ db.batch[i].status \in {"none", "pending"} => db.batch[i].run = 0
    /\ db.batch[i].status = "in_progress" =>
         /\ db.batch[i].run \in DOMAIN db.runs
         /\ db.runs[db.batch[i].run].agent = "implementer"
         /\ db.runs[db.batch[i].run].on = i

(* A run counts as done only when some PR closes its issue, whoever opened *)
(* it and whatever became of it: neither the reaper nor a stale or partial *)
(* reconciliation finishes the run of an agent that delivered nothing.     *)
FinishedRunHasPR ==
  \A k \in DOMAIN db.runs :
    db.runs[k].agent = "implementer" /\ db.runs[k].status = "finished" =>
      \E p \in PRs : pr[p].state # "none" /\ db.runs[k].on \in pr[p].closes

(* A batch is merged only when some PR that closes its issue is: neither a *)
(* PR closed unmerged nor a stale fetch ever marks one.                    *)
Landed(i) == \E p \in PRs : pr[p].state = "merged" /\ i \in pr[p].closes

MergedIsBacked == \A i \in WithStatus(db, "merged") : Landed(i)

(* Ticks, planner runs and agents together move each batch along the       *)
(* lifecycle its readers rely on: what is merged stays merged, only an     *)
(* attempt without a PR is given up, and a second tick that dispatched the *)
(* same issue does not replace the run of the first.                       *)
Lifecycle == INSTANCE BatchLifecycle WITH
  status  <- [i \in Issues |-> db.batch[i].status],
  attempt <- [i \in Issues |-> db.batch[i].run],
  pr      <- [i \in Issues |-> db.batch[i].pr_number]

ImplementsLifecycle == Lifecycle!Spec

(* A batch goes back to pending only when its run timed out.               *)
OnlyTimeoutsRetried ==
  [][\A i \in Issues :
       db.batch[i].status = "in_progress" /\ db'.batch[i].status = "pending" =>
         db'.runs[db.batch[i].run].status = "timeout"]_vars

(* The slots a tick may still fill.                                        *)
Reserved(t) == IF tick[t].pc \in DispatchSteps
               THEN Cardinality(tick[t].todo) ELSE tick[t].slots

(* What one tick at a time records never exceeds the configured ceiling,   *)
(* counting what it is about to dispatch: the reviewer pass, failures half *)
(* way through a pass and a raised or lowered override included.           *)
RunsWithinCeiling ==
  \A t \in Ticks :
    Ticks = {t} => active_run_count(db) + Reserved(t) <= MaxInFlight

(* A blocker that is still to be done and waits in the plan with nobody at *)
(* work on it.                                                             *)
Waiting(i) ==
  /\ db.batch[i].status = "pending"
  /\ issue[i].state = "open" /\ DoNotImplement \notin issue[i].labels
  /\ \A p \in OpenPRs : i \notin pr[p].closes

AttemptFailed(i) ==
  \/ \E k \in DOMAIN db.runs :
       /\ db.runs[k].agent = "implementer" /\ db.runs[k].on = i
       /\ db.runs[k].status = "timeout"
  \/ \E p \in PRs : pr[p].state = "closed" /\ i \in pr[p].closes

(* No session starts for an issue while one of its blockers waits, unless  *)
(* an attempt at the blocker has failed: whatever the planner recomputes   *)
(* while ticks are under way, the layers that they load order the rest.    *)
OvertakesOnlyFailedAttempts ==
  [][\A i \in Issues :
       sessions'[i] > sessions[i] =>
         \A b \in Deps[i] : Waiting(b) => AttemptFailed(b)]_vars

(* What README.md promises, "picks them in dependency order", without the  *)
(* exception.  The planner refreshes no layer of a batch in progress, so a *)
(* batch that is retried may come after the issues that it blocks.         *)
NeverOvertakesBlocker ==
  [][\A i \in Issues :
       sessions'[i] > sessions[i] => \A b \in Deps[i] : ~ Waiting(b)]_vars

-----------------------------------------------------------------------------
(* What holds while the GitHub requests, the database and the processes    *)
(* work, one tick runs at a time and nobody interferes: only agents die.   *)

(* The sessions at work, which is what the Pro plan is charged for.        *)
AtWork ==
  (UNION {{<<"implementer", i, n>> : n \in 1 .. sessions[i]} : i \in Issues}) \cup
  (UNION {{<<"reviewer", p, n>> : n \in 1 .. reviewing[p]} : p \in PRs})

(* The single-flight guarantee: sessions at work, recorded or not yet,     *)
(* stay within the ceiling.                                                *)
SessionsWithinCeiling == Cardinality(AtWork) <= MaxInFlight

(* The issue of a pending batch can be dispatched: no tick leaves behind   *)
(* the agent:start label that makes dispatch_implementer skip it.          *)
PendingIsDispatchable ==
  (\A t \in Ticks : tick[t].pc = "idle") =>
    \A i \in WithStatus(db, "pending") : AgentStart \notin issue[i].labels

(* What telegram_bot.py says of /skip and skip_issue of the planner run it *)
(* ends with: once a planner run that found an issue excluded is over, and *)
(* nobody is at work on the issue, no tick picks it.                       *)
FoundExcluded(i) ==
  /\ DoNotImplement \in issue[i].labels
  /\ planner.pc = "upsert" /\ i \notin DOMAIN planner.layer

AtRest(i) ==
  /\ planner.pc = "idle" /\ \A t \in Ticks : tick[t].pc = "idle"
  /\ sessions[i] = 0

SkippedIsNotPicked ==
  \A i \in Issues :
    [](FoundExcluded(i) => [](AtRest(i) => [](sessions[i] = 0)))

(* A finished run is linked: the batch of its issue knows the PR, as it    *)
(* if the reconciliations were atomic.  The next pollback does not repair  *)
(* the link, for it looks at queued runs only; a merge of the PR does.     *)
FinishedRunIsLinked ==
  \A k \in DOMAIN db.runs :
    db.runs[k].agent = "implementer" /\ db.runs[k].status = "finished" =>
      db.batch[db.runs[k].on].pr_number = "set"

(* Every planned issue is delivered, dying agents notwithstanding: the     *)
(* timeout and the zombie recovery bring it back until a PR for it merges. *)
EveryIssueLands ==
  \A i \in Issues : db.batch[i].status = "pending" ~> Landed(i)

(* And the engine notices: the row of a landed issue becomes merged.       *)
EveryMergeIsNoticed ==
  \A i \in Issues : Landed(i) ~> db.batch[i].status = "merged"
=============================================================================
