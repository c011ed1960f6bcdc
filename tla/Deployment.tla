----------------------------- MODULE Deployment -----------------------------
(***************************************************************************)
(* The deploy script (infra/scripts/pikra-deploy.sh) and the workflow that *)
(* runs it, next to the dashboard's writes to the overlay.                 *)
(*                                                                         *)
(* The workflow runs one deploy at a time and keeps at most one waiting.   *)
(* Under set -e any command that is not guarded ends the script where it   *)
(* is; deploy.pc names the command it runs next.  Faults of the script:    *)
(*   "pip", "migrate", "doctor"   that command exits non-zero              *)
(*   "kill"        the script dies: the job's timeout, a lost runner       *)
(***************************************************************************)
EXTENDS Overlay

CONSTANTS Stale   \* installed packages of no revision in particular

ASSUME StaleAssumption == Stale \notin Revisions
ASSUME FirstAssumption == \E r \in Revisions : \A s \in Revisions : r <= s

VARIABLES
  main,      \* origin/main
  queued,    \* a workflow run waits
  deploy,    \* the script: its command, PREV_SHA and its loop over overlays
  deps,      \* the revision whose packages are installed
  services,  \* the revision whose code the long-lived services run
  outcome,   \* how the last deploy that had something to do ended
  exposed    \* units whose override was overwritten and not restored

deployVars == <<main, queued, deploy, deps, services, outcome, exposed>>
vars == <<tree, overlayVars, faults, deployVars>>

First == CHOOSE r \in Revisions : \A s \in Revisions : r <= s

Idle == [pc |-> "idle", prev |-> First, todo |-> {}, why |-> "none"]
Commands == {"detect", "pull", "pip", "sync", "glob", "check", "cp", "migrate",
             "reload", "restart", "doctor", "repip", "resync"}
Outcomes == {"ok", "pip", "migrate", "doctor", "aborted"}

InitDeployment ==
  /\ tree = First /\ main = First
  /\ queued = FALSE /\ deploy = Idle
  /\ deps = First /\ services = First
  /\ outcome = "ok" /\ exposed = {}

Init == InitDeployment /\ InitOverlay

-----------------------------------------------------------------------------
(* The workflow.                                                           *)

(* Mutant: a push that arrives during a deploy starts no run of its own.   *)
PushWhileIdle ==
  /\ \E r \in Revisions : r = main + 1 /\ main' = r
  /\ queued' = (queued \/ deploy.pc = "idle")
  /\ UNCHANGED <<tree, overlayVars, faults, deploy, deps, services, outcome, exposed>>

(* A push replaces a run that waits, never one that runs.                  *)
Push ==
  /\ \E r \in Revisions : r = main + 1 /\ main' = r
  /\ queued' = TRUE
  /\ UNCHANGED <<tree, overlayVars, faults, deploy, deps, services, outcome, exposed>>

Start ==
  /\ deploy.pc = "idle" /\ queued
  /\ queued' = FALSE
  /\ deploy' = [deploy EXCEPT !.pc = "detect"]
  /\ UNCHANGED <<tree, overlayVars, faults, main, deps, services, outcome, exposed>>

-----------------------------------------------------------------------------
(* The script.                                                             *)

Next_(command) == deploy' = [deploy EXCEPT !.pc = command]
Finish(how) == deploy' = Idle /\ outcome' = how
RollBack(why) ==
  /\ tree' = deploy.prev
  /\ deploy' = [deploy EXCEPT !.pc = "repip", !.why = why]

(* HEAD and origin/main are the same commit: nothing to do.                *)
Detect ==
  /\ deploy.pc = "detect"
  /\ deploy' = IF tree = main THEN Idle
               ELSE [deploy EXCEPT !.pc = "pull", !.prev = tree]
  /\ UNCHANGED <<tree, overlayVars, faults, main, queued, deps, services, outcome, exposed>>

(* The pull takes what is newest now, which may be newer than NEW_SHA.     *)
Pull ==
  /\ deploy.pc = "pull"
  /\ tree' = main
  /\ Next_("pip")
  /\ UNCHANGED <<overlayVars, faults, main, queued, deps, services, outcome, exposed>>

PipInstall ==
  /\ deploy.pc = "pip"
  /\ \/ deps' = tree /\ Next_("sync") /\ UNCHANGED <<tree, faults>>
     \/ Fault("pip") /\ deps' = Stale /\ RollBack("pip")
  /\ UNCHANGED <<overlayVars, main, queued, services, outcome, exposed>>

(* Mutant: cp -n, which keeps a file that is there.                        *)
CopyMissing ==
  canonical' = [u \in Units |-> IF u \in Shipped /\ canonical[u] = Absent
                                THEN tree ELSE canonical[u]]

CopyShipped == canonical' = [u \in Units |-> IF u \in Shipped THEN tree ELSE canonical[u]]

SyncUnits ==
  /\ deploy.pc = "sync"
  /\ CopyShipped
  /\ exposed' = Shipped
  /\ Next_("glob")
  /\ UNCHANGED <<tree, overlay, loaded, enabled, request, answer, botched, requests,
                 faults, main, queued, deps, services, outcome>>

(* Mutant: the overlays are copied before the shipped units.               *)
NoOverlayGlob ==
  /\ deploy.pc = "glob"
  /\ deploy' = [deploy EXCEPT !.pc = "check"]
  /\ UNCHANGED <<tree, overlayVars, faults, main, queued, deps, services, outcome, exposed>>

(* The shell expands the patterns once, when the loop begins.              *)
OverlayGlob ==
  /\ deploy.pc = "glob"
  /\ deploy' = [deploy EXCEPT !.pc = "check",
                              !.todo = {u \in Units : overlay[u] # Absent}]
  /\ UNCHANGED <<tree, overlayVars, faults, main, queued, deps, services, outcome, exposed>>

(* The files of the loop, in some order; [ -e ] skips one that has gone.   *)
Current == CHOOSE u \in deploy.todo : TRUE

CheckOverlay ==
  /\ deploy.pc = "check"
  /\ deploy' = IF deploy.todo = {} THEN [deploy EXCEPT !.pc = "migrate"]
               ELSE IF overlay[Current] = Absent
               THEN [deploy EXCEPT !.todo = @ \ {Current}]
               ELSE [deploy EXCEPT !.pc = "cp"]
  /\ UNCHANGED <<tree, overlayVars, faults, main, queued, deps, services, outcome, exposed>>

(* One that goes after the check makes cp fail, which ends the script.     *)
CopyOverlay ==
  /\ deploy.pc = "cp"
  /\ IF overlay[Current] = Absent
     THEN Finish("aborted") /\ UNCHANGED canonical
     ELSE /\ canonical' = [canonical EXCEPT ![Current] = overlay[Current]]
          /\ deploy' = [deploy EXCEPT !.pc = "check", !.todo = @ \ {Current}]
          /\ UNCHANGED outcome
  /\ UNCHANGED <<tree, overlay, loaded, enabled, request, answer, botched, requests,
                 faults, main, queued, deps, services, exposed>>

Migrate ==
  /\ deploy.pc = "migrate"
  /\ \/ Next_("reload") /\ UNCHANGED <<tree, faults>>
     \/ Fault("migrate") /\ RollBack("migrate")
  /\ UNCHANGED <<overlayVars, main, queued, deps, services, outcome, exposed>>

(* On the way forward the overrides are back in place; a rollback after    *)
(* the doctor loads what CopyShipped left.                                 *)
Reload ==
  /\ deploy.pc = "reload"
  /\ loaded' = canonical
  /\ exposed' = IF deploy.why = "doctor" THEN exposed ELSE {}
  /\ IF deploy.why = "none" THEN Next_("restart") /\ UNCHANGED outcome
                            ELSE Finish(deploy.why)
  /\ UNCHANGED <<tree, overlay, canonical, enabled, request, answer, botched, requests,
                 faults, main, queued, deps, services>>

TryRestart ==
  /\ deploy.pc = "restart"
  /\ services' = tree
  /\ Next_("doctor")
  /\ UNCHANGED <<tree, overlayVars, faults, main, queued, deps, outcome, exposed>>

Doctor ==
  /\ deploy.pc = "doctor"
  /\ \/ Finish("ok") /\ UNCHANGED <<tree, faults>>
     \/ Fault("doctor") /\ RollBack("doctor") /\ UNCHANGED outcome
  /\ UNCHANGED <<overlayVars, main, queued, deps, services, exposed>>

(* Mutant: a failed migration takes the code back and not its packages.    *)
RepipUnlessMigrating ==
  /\ deploy.pc = "repip"
  /\ deps' = IF deploy.why = "migrate" THEN deps ELSE tree
  /\ IF deploy.why = "pip" THEN Finish("pip")
     ELSE /\ Next_(IF deploy.why = "doctor" THEN "resync" ELSE "reload")
          /\ UNCHANGED outcome
  /\ UNCHANGED <<tree, overlayVars, faults, main, queued, services, exposed>>

(* The second pip install is not guarded.                                  *)
Repip ==
  /\ deploy.pc = "repip"
  /\ \/ /\ deps' = tree
        /\ IF deploy.why = "pip" THEN Finish("pip")
           ELSE /\ Next_(IF deploy.why = "doctor" THEN "resync" ELSE "reload")
                /\ UNCHANGED outcome
        /\ UNCHANGED faults
     \/ Fault("pip") /\ deps' = Stale /\ Finish("aborted")
  /\ UNCHANGED <<tree, overlayVars, main, queued, services, exposed>>

(* After the doctor the shipped units are copied again, the overrides not. *)
ResyncUnits ==
  /\ deploy.pc = "resync"
  /\ CopyShipped
  /\ exposed' = Shipped
  /\ Next_("reload")
  /\ UNCHANGED <<tree, overlay, loaded, enabled, request, answer, botched, requests,
                 faults, main, queued, deps, services, outcome>>

Kill ==
  /\ deploy.pc # "idle"
  /\ Fault("kill")
  /\ Finish("aborted")
  /\ UNCHANGED <<tree, overlayVars, main, queued, deps, services, exposed>>

ScriptStep ==
  \/ Detect \/ Pull \/ PipInstall \/ SyncUnits
  \/ OverlayGlob \/ CheckOverlay \/ CopyOverlay
  \/ Migrate \/ Reload \/ TryRestart \/ Doctor \/ Repip \/ ResyncUnits

DashboardStep ==
  /\ Dashboard
  /\ UNCHANGED deployVars

Next == Push \/ Start \/ ScriptStep \/ Kill \/ DashboardStep

Spec == Init /\ [][Next]_vars

(* GitHub starts a waiting run, and no command of the script hangs for     *)
(* ever.  Nobody has to push or to edit, and a request may hang.           *)
FairSpec ==
  /\ Spec
  /\ WF_vars(Start) /\ WF_vars(ScriptStep)

-----------------------------------------------------------------------------

TypeOK ==
  /\ OverlayTypeOK
  /\ {tree, main, services} \subseteq Revisions
  /\ deps \in Revisions \cup {Stale}
  /\ queued \in BOOLEAN
  /\ deploy \in [pc : Commands \cup {"idle"}, prev : Revisions, todo : SUBSET Units,
                 why : {"none", "pip", "migrate", "doctor"}]
  /\ outcome \in Outcomes /\ exposed \subseteq Shipped

Quiet == deploy.pc = "idle" /\ request.pc = "idle"

(* An edit the dashboard confirmed is what systemd runs, however its       *)
(* request and a deploy overlapped and wherever an earlier request about   *)
(* the unit had failed: the deploy restores every override that it         *)
(* overwrote.  (A rollback after the doctor and a script that died do not; *)
(* their units stay exposed.)                                              *)
ConfirmedEditInForce ==
  Quiet => \A u \in Units \ exposed :
             overlay[u] # Absent /\ answer[u] = "ok" => InForce(u)

(* The same without the exception: what README.md and the script's own     *)
(* comment promise of a redeploy.                                          *)
RedeployKeepsEdits ==
  Quiet => \A u \in Units :
             overlay[u] # Absent /\ answer[u] = "ok" => InForce(u)

(* A shipped unit without an override runs as the checked-out revision     *)
(* ships it after a deploy that succeeded, whatever reverts ran meanwhile. *)
UnitsMatchCode ==
  Quiet /\ outcome = "ok" =>
    \A u \in Shipped :
      overlay[u] = Absent /\ answer[u] # "failed" => loaded[u] = tree

(* A timer the user made is enabled: the chain of its creation asks        *)
(* whether it is new before it writes the file.                            *)
NewTimerIsEnabled ==
  request.pc = "idle" =>
    \A u \in Timers \ (Shipped \cup botched) :
      overlay[u] # Absent => u \in enabled

(* The installed packages are those of the code that is checked out, after *)
(* a success and after a rollback from any of the three failures.          *)
PackagesMatchCode ==
  deploy.pc = "idle" /\ outcome # "aborted" => deps = tree

(* The newest push is deployed in the end, unless a deploy failed: pushes  *)
(* that arrive during a deploy are not lost.                               *)
PushesAreDeployed ==
  <>[](/\ deploy.pc = "idle"
       /\ outcome = "ok" => tree = main /\ services = main)
=============================================================================
