--------------------------- MODULE RunnerMonitor ---------------------------
(***************************************************************************)
(* orclaw runner monitor, the oneshot service that a timer starts again    *)
(* two minutes after it ended: it compares the systemd unit of the         *)
(* self-hosted runner with the repository variable that the workflows      *)
(* choose their runner by, then reports suspicious workflow runs.          *)
(*                                                                         *)
(* Time is counted in passes: one pass is under way before the clock may   *)
(* move (Elapse), which makes the timer of the model a coarse one.  A pass *)
(* awaits GitHub and Telegram between its steps; it may die at any of them *)
(* and a request may fail, MaxMishaps times in all.                        *)
(***************************************************************************)
EXTENDS Naturals, FiniteSets, FiniteSetsExt

CONSTANTS Window,      \* SUSPICIOUS_SCAN_WINDOW
          Threshold,   \* LONG_RUN_THRESHOLD
          MaxRuns, MaxMishaps, MaxFlips

ASSUME WindowAssumption == Window \in Nat
ASSUME ThresholdAssumption == Threshold \in Nat
ASSUME RunnerBoundsAssumption ==
  MaxRuns \in Nat /\ MaxMishaps \in Nat /\ MaxFlips \in Nat

VARIABLES
  up,        \* whether the runner is up
  variable,  \* ORCLAW_RUNNER of the repository
  wfs,       \* workflow runs on GitHub, by id
  known,     \* engine_state.runner_last_known_state
  cursor,    \* engine_state.runner_last_alerted_run_id
  reports,   \* how often each run was posted to Telegram
  pass,      \* local variables of the pass
  mishaps, deaths, flips  \* how many there were

runnerVars ==
  <<up, variable, wfs, known, cursor, reports, pass, mishaps, deaths, flips>>

RunIds == 1 .. MaxRuns
Outcome == {"none", "in_progress", "success", "failure"}

(* An age is not told apart beyond OldAge.                                 *)
OldAge == (IF Window > Threshold THEN Window ELSE Threshold) + 1

IdlePass == [pc |-> "idle", active |-> FALSE, transitioned |-> FALSE,
             todo |-> {}, high |-> 0]

Desired(active) == IF active THEN "self-hosted" ELSE "ubuntu-latest"

RunnerInit ==
  /\ up \in BOOLEAN /\ variable = "unset" /\ known = "unset"
  /\ wfs = [r \in RunIds |-> [outcome |-> "none", trusted |-> TRUE, age |-> 0]]
  /\ cursor = 0
  /\ reports = [r \in RunIds |-> 0]
  /\ pass = [IdlePass EXCEPT !.pc = "probe"]
  /\ mishaps = 0 /\ deaths = 0 /\ flips = 0

-----------------------------------------------------------------------------

Mishap == mishaps < MaxMishaps /\ mishaps' = mishaps + 1
NoMishap == UNCHANGED mishaps

At(step) == pass.pc = step

-----------------------------------------------------------------------------
(* check_runner_health                                                     *)

(* A probe that fails counts as a runner that is down.                     *)
Probe ==
  /\ At("probe")
  /\ \E active \in {up, FALSE} :
       /\ IF active = up THEN NoMishap ELSE Mishap
       /\ pass' = [pass EXCEPT !.pc = "get_var", !.active = active,
                     !.transitioned = known = "unset" \/ active # (known = "active")]
  /\ UNCHANGED <<up, variable, wfs, known, cursor, reports, deaths, flips>>

(* Mutant: the variable is set by the pass that notices the transition.    *)
GetVariableOnTransition ==
  /\ At("get_var")
  /\ NoMishap
  /\ pass' = [pass EXCEPT !.pc = IF pass.transitioned THEN "set_var" ELSE "persist"]
  /\ UNCHANGED <<up, variable, wfs, known, cursor, reports, deaths, flips>>

(* A status that is no success reads as a variable that is not set.        *)
GetVariable ==
  /\ At("get_var")
  /\ \E read \in {variable, "unset"} :
       /\ IF read = variable THEN NoMishap ELSE Mishap
       /\ pass' = [pass EXCEPT !.pc =
                     IF read = Desired(pass.active) THEN "persist" ELSE "set_var"]
  /\ UNCHANGED <<up, variable, wfs, known, cursor, reports, deaths, flips>>

(* A refusal is logged, no more; the next pass tries again.                *)
SetVariable ==
  /\ At("set_var")
  /\ \/ NoMishap /\ variable' = Desired(pass.active)
     \/ Mishap /\ UNCHANGED variable
  /\ pass' = [pass EXCEPT !.pc = "persist"]
  /\ UNCHANGED <<up, wfs, known, cursor, reports, deaths, flips>>

(* Mutant: what the variable should be is recorded, not what the unit is.  *)
PersistDesired ==
  /\ At("persist")
  /\ known' = Desired(pass.active)
  /\ pass' = [pass EXCEPT !.pc = IF pass.transitioned THEN "alert" ELSE "list"]
  /\ UNCHANGED <<up, variable, wfs, cursor, reports, mishaps, deaths, flips>>

Persist ==
  /\ At("persist")
  /\ known' = IF pass.active THEN "active" ELSE "inactive"
  /\ pass' = [pass EXCEPT !.pc = IF pass.transitioned THEN "alert" ELSE "list"]
  /\ UNCHANGED <<up, variable, wfs, cursor, reports, mishaps, deaths, flips>>

(* post_telegram swallows its errors.                                      *)
Alert ==
  /\ At("alert")
  /\ pass' = [pass EXCEPT !.pc = "list"]
  /\ UNCHANGED <<up, variable, wfs, known, cursor, reports, mishaps, deaths, flips>>

-----------------------------------------------------------------------------
(* check_suspicious_workflow_runs                                          *)

Started == {r \in RunIds : wfs[r].outcome # "none"}

(* What the request filters by created.                                    *)
Listed == {r \in Started : wfs[r].age <= Window}

LongRunning(r) == wfs[r].outcome = "in_progress" /\ wfs[r].age > Threshold

_classify_run(r) ==
  \/ ~ wfs[r].trusted
  \/ wfs[r].outcome = "failure"
  \/ LongRunning(r)

(* Mutant: the cursor ends at the run the loop saw last, the oldest.       *)
ListRunsLowest ==
  /\ At("list")
  /\ \/ /\ NoMishap
        /\ pass' = [pass EXCEPT
             !.pc = "report",
             !.todo = {r \in Listed : r > cursor /\ _classify_run(r)},
             !.high = IF Listed = {} THEN cursor ELSE Min(Listed)]
     \/ Mishap /\ pass' = IdlePass
  /\ UNCHANGED <<up, variable, wfs, known, cursor, reports, deaths, flips>>

(* A status other than 200 ends the pass.                                  *)
ListRuns ==
  /\ At("list")
  /\ \/ /\ NoMishap
        /\ pass' = [pass EXCEPT
             !.pc = "report",
             !.todo = {r \in Listed : r > cursor /\ _classify_run(r)},
             !.high = Max(Listed \cup {cursor})]
     \/ Mishap /\ pass' = IdlePass
  /\ UNCHANGED <<up, variable, wfs, known, cursor, reports, deaths, flips>>

(* Mutant: the cursor is moved together with the first alert.              *)
ReportAndMove ==
  /\ At("report") /\ pass.todo # {}
  /\ LET r == Max(pass.todo)
     IN  /\ reports' = [reports EXCEPT ![r] = @ + 1]
         /\ cursor' = r
         /\ pass' = [pass EXCEPT !.todo = @ \ {r}]
  /\ UNCHANGED <<up, variable, wfs, known, mishaps, deaths, flips>>

(* GitHub lists the newest run first.                                      *)
Report ==
  /\ At("report") /\ pass.todo # {}
  /\ LET r == Max(pass.todo)
     IN  /\ reports' = [reports EXCEPT ![r] = @ + 1]
         /\ pass' = [pass EXCEPT !.todo = @ \ {r}]
  /\ UNCHANGED <<up, variable, wfs, known, cursor, mishaps, deaths, flips>>

StoreCursor ==
  /\ At("report") /\ pass.todo = {}
  /\ cursor' = pass.high
  /\ pass' = IdlePass
  /\ UNCHANGED <<up, variable, wfs, known, reports, mishaps, deaths, flips>>

Pass ==
  \/ Probe \/ GetVariable \/ SetVariable \/ Persist \/ Alert
  \/ ListRuns \/ Report \/ StoreCursor

-----------------------------------------------------------------------------

(* The process dies, or an HTTP error that nothing catches ends it.        *)
Die ==
  /\ ~ At("idle") /\ Mishap
  /\ deaths' = deaths + 1
  /\ pass' = IdlePass
  /\ UNCHANGED <<up, variable, wfs, known, cursor, reports, flips>>

Elapse ==
  /\ At("idle")
  /\ pass' = [pass EXCEPT !.pc = "probe"]
  /\ wfs' = [r \in RunIds |->
       [wfs[r] EXCEPT !.age = IF r \in Started /\ @ < OldAge THEN @ + 1 ELSE @]]
  /\ UNCHANGED <<up, variable, known, cursor, reports, mishaps, deaths, flips>>

Flip ==
  /\ flips < MaxFlips
  /\ flips' = flips + 1 /\ up' = ~ up
  /\ UNCHANGED <<variable, wfs, known, cursor, reports, pass, mishaps, deaths>>

(* GitHub numbers the runs in the order of their creation.                 *)
StartRun ==
  /\ \E r \in RunIds, trusted \in BOOLEAN :
       /\ Started = 1 .. (r - 1)
       /\ wfs' = [wfs EXCEPT ![r] =
                    [outcome |-> "in_progress", trusted |-> trusted, age |-> 0]]
  /\ UNCHANGED <<up, variable, known, cursor, reports, pass, mishaps, deaths, flips>>

EndRun ==
  /\ \E r \in RunIds, outcome \in {"success", "failure"} :
       /\ wfs[r].outcome = "in_progress"
       /\ wfs' = [wfs EXCEPT ![r].outcome = outcome]
  /\ UNCHANGED <<up, variable, known, cursor, reports, pass, mishaps, deaths, flips>>

RunnerNext == Pass \/ Die \/ Elapse \/ Flip \/ StartRun \/ EndRun

RunnerSpec == RunnerInit /\ [][RunnerNext]_runnerVars

(* The timer starts a pass for ever and a pass ends.                       *)
RunnerFairness == WF_runnerVars(Pass) /\ WF_runnerVars(Elapse)

RunnerFairSpec == RunnerSpec /\ RunnerFairness

-----------------------------------------------------------------------------

RunnerTypeOK ==
  /\ up \in BOOLEAN /\ variable \in {"unset", "self-hosted", "ubuntu-latest"}
  /\ wfs \in [RunIds -> [outcome : Outcome, trusted : BOOLEAN, age : 0 .. OldAge]]
  /\ known \in {"unset", "active", "inactive"}
  /\ cursor \in 0 .. MaxRuns
  /\ reports \in [RunIds -> Nat]
  /\ pass \in [pc : {"idle", "probe", "get_var", "set_var", "persist", "alert",
                     "list", "report"},
               active : BOOLEAN, transitioned : BOOLEAN,
               todo : SUBSET RunIds, high : 0 .. MaxRuns]
  /\ mishaps \in 0 .. MaxMishaps /\ deaths \in 0 .. mishaps
  /\ flips \in 0 .. MaxFlips

(* When the runner stays as it is, the workflows end up where it is: a     *)
(* wrong probe, a refused update of the variable or a pass that died       *)
(* between its steps is made good although the transition was noticed and  *)
(* recorded by then (check_runner_health reconciles all three).            *)
WorkflowsFollowRunner == <>[](variable = Desired(up))

(* A run is posted once, however long it stays in the scan window, unless  *)
(* a pass died between the posts and the cursor (runner_monitor.py says    *)
(* that each run is reported once).                                        *)
ReportedOnce == \A r \in RunIds : reports[r] <= 1 + deaths

(* A run of an actor outside the trusted set is posted, one lost pass and  *)
(* a run created while the runs are being listed notwithstanding: no       *)
(* cursor moves past it and the window does not leave it behind.           *)
UntrustedAreReported ==
  \A r \in RunIds :
    r \in Started /\ ~ wfs[r].trusted ~> reports[r] > 0
=============================================================================
