-------------------------- MODULE DeploymentProofs --------------------------
(***************************************************************************)
(* The deploy script and the dashboard, for any units, contents, revisions,*)
(* faults and numbers of requests, and any overlap of the two.             *)
(*                                                                         *)
(* The invariant says at each command of the script which units are as the *)
(* user or the checkout wants them, and at each step of a request what it  *)
(* still has to do.                                                        *)
(***************************************************************************)
EXTENDS Deployment, TLAPS

(* Why the script is where it is.                                          *)
WhyInv ==
  /\ deploy.pc \notin {"repip", "resync", "reload"} => deploy.why = "none"
  /\ deploy.pc = "repip" => deploy.why # "none"
  /\ deploy.pc = "resync" => deploy.why = "doctor"
  /\ deploy.pc = "reload" => deploy.why # "pip"

RequestInv ==
  request.pc # "idle" =>
    /\ answer[request.unit] = "none"
    /\ request.op = "save" => overlay[request.unit] # Absent
    /\ request.op = "revert" => overlay[request.unit] = Absent
    /\ request.op = "remove" => request.unit \notin Shipped
    /\ request.pc \in {"stop", "rm", "unlink"} => request.op = "remove"
    /\ request.pc \in {"publish", "switch"} => request.op # "remove"

PackagesInv ==
  /\ deploy.pc \in {"idle", "detect", "pull"} /\ outcome # "aborted" => deps = tree
  /\ deploy.pc \notin {"idle", "detect", "pull", "pip", "repip"} => deps = tree

(* The request is about u and has not written its file yet, or removes it. *)
Pending(u) ==
  /\ request.pc # "idle" /\ request.unit = u
  /\ request.pc = "publish" \/ request.op = "remove"

(* The file of u has been published since the last edit, and not failed.   *)
Published(u) == answer[u] # "failed" /\ ~ Pending(u)

EnabledInv(u) ==
  u \in Timers \ (Shipped \cup botched) /\ overlay[u] # Absent =>
    \/ u \in enabled
    \/ /\ request.pc # "idle" /\ request.unit = u
       /\ request.op = "remove" \/ (request.op = "save" /\ request.brand_new)

Restored ==
  \/ deploy.pc = "migrate"
  \/ deploy.pc \in {"repip", "reload"} /\ deploy.why \in {"none", "migrate"}

(* An override that is in place in /etc/systemd/system, or will be when    *)
(* the loop of the script is over.                                         *)
OverrideInv(u) ==
  Published(u) /\ overlay[u] # Absent =>
    /\ u \notin exposed => canonical[u] = overlay[u]
    /\ deploy.pc \in {"check", "cp"} /\ u \notin deploy.todo => canonical[u] = overlay[u]
    /\ Restored => canonical[u] = overlay[u]
    /\ /\ u \notin exposed
       /\ answer[u] = "ok" \/ (request.pc = "switch" /\ request.unit = u)
       => loaded[u] = overlay[u]

Resting == deploy.pc \in {"idle", "detect", "pull"} /\ outcome = "ok"
UnitsCopied ==
  \/ Resting
  \/ deploy.pc \in {"glob", "check", "cp", "migrate", "restart", "doctor"}
  \/ deploy.pc = "reload" /\ deploy.why = "none"

(* A shipped unit without an override.                                     *)
ShippedInv(u) ==
  u \in Shipped /\ Published(u) /\ overlay[u] = Absent =>
    /\ UnitsCopied => canonical[u] = tree
    /\ /\ Resting \/ deploy.pc \in {"restart", "doctor"}
       /\ ~ (request.pc = "reload" /\ request.unit = u)
       => loaded[u] = tree

UnitInv(u) == EnabledInv(u) /\ OverrideInv(u) /\ ShippedInv(u)

DeployInv ==
  /\ TypeOK /\ WhyInv /\ RequestInv /\ PackagesInv
  /\ \A u \in Units : UnitInv(u)

-----------------------------------------------------------------------------
(* Types                                                                   *)

Requests == [pc : {"publish", "reload", "switch", "stop", "rm", "unlink"},
             op : {"save", "revert", "remove"}, unit : Units, brand_new : BOOLEAN]

LEMMA RequestForm ==
  ASSUME TypeOK, request.pc # "idle"
  PROVE  /\ request \in Requests
         /\ request.unit \in Units
<1>1. request \in Request
  BY DEF TypeOK, OverlayTypeOK
<1>2. request # NoRequest
  BY DEF NoRequest
<1> QED
  BY <1>1, <1>2 DEF Request, Requests

LEMMA FirstType == First \in Revisions
BY FirstAssumption DEF First

LEMMA DefaultType ==
  ASSUME TypeOK, NEW u \in Units
  PROVE  /\ Default(u) \in Contents
         /\ u \in Shipped => Default(u) = tree
         /\ u \notin Shipped => Default(u) = Absent
         /\ tree # Absent
BY ContentsAssumption DEF TypeOK, Default, Contents

LEMMA FaultCounted ==
  ASSUME TypeOK, NEW f, Fault(f)
  PROVE  faults' \in 0 .. MaxFaults
BY OverlayBoundsAssumption DEF TypeOK, OverlayTypeOK, Fault

LEMMA BeginType ==
  ASSUME TypeOK, NEW op \in {"save", "revert", "remove"}, NEW u \in Units,
         NEW step \in {"publish", "stop"}, NEW new \in BOOLEAN,
         Begin(op, u, step, new)
  PROVE  /\ requests' \in 0 .. MaxRequests
         /\ request' \in Request
         /\ answer' \in [Units -> {"none", "ok", "failed"}]
<1>1. requests \in 0 .. MaxRequests /\ MaxRequests \in Nat
  BY OverlayBoundsAssumption DEF TypeOK, OverlayTypeOK
<1>2. requests' \in 0 .. MaxRequests
  BY <1>1 DEF Begin
<1>3. request' \in Request
  BY DEF Begin, Request
<1>4. answer' \in [Units -> {"none", "ok", "failed"}]
  BY DEF Begin, TypeOK, OverlayTypeOK
<1> QED
  BY <1>2, <1>3, <1>4

LEMMA ContinueType ==
  ASSUME TypeOK, request.pc # "idle",
         NEW step \in {"publish", "reload", "switch", "stop", "rm", "unlink"},
         Continue(step)
  PROVE  /\ request' \in Request
         /\ request'.pc = step
         /\ request'.op = request.op /\ request'.unit = request.unit
         /\ request'.brand_new = request.brand_new
<1>1. request \in Requests
  BY RequestForm
<1>2. request' = [request EXCEPT !.pc = step]
  BY DEF Continue
<1>3. request' \in Requests
  BY <1>1, <1>2 DEF Requests
<1> QED
  BY <1>1, <1>2, <1>3 DEF Request, Requests

LEMMA AnswerType ==
  ASSUME TypeOK, NEW a \in {"none", "ok", "failed"}, Answer(a)
  PROVE  /\ request' \in Request
         /\ request'.pc = "idle"
         /\ answer' \in [Units -> {"none", "ok", "failed"}]
<1>1. request' \in Request /\ request'.pc = "idle"
  BY DEF Answer, Request, NoRequest
<1>2. answer' \in [Units -> {"none", "ok", "failed"}]
  BY DEF Answer, TypeOK, OverlayTypeOK
<1> QED
  BY <1>1, <1>2

LEMMA DashboardType ==
  ASSUME TypeOK, DashboardStep
  PROVE  TypeOK'
<1> SUFFICES OverlayTypeOK' /\ tree' = tree
  BY DEF DashboardStep, deployVars, TypeOK
<1>1. CASE \E u \in Units, c \in Edits : SaveTimer(u, c)
  <2>1. PICK u \in Units, c \in Edits : SaveTimer(u, c)
    BY <1>1
  <2>2. /\ Begin("save", u, "publish", overlay[u] = Absent /\ Default(u) = Absent)
        /\ overlay' = [overlay EXCEPT ![u] = c]
        /\ UNCHANGED <<canonical, loaded, enabled, botched, tree, faults>>
    BY <2>1 DEF SaveTimer
  <2>3. (overlay[u] = Absent /\ Default(u) = Absent) \in BOOLEAN
    BY Zenon
  <2>4. /\ requests' \in 0 .. MaxRequests /\ request' \in Request
        /\ answer' \in [Units -> {"none", "ok", "failed"}]
    BY <2>2, <2>3, BeginType
  <2> QED
    BY <2>2, <2>4 DEF TypeOK, OverlayTypeOK
<1>2. CASE \E u \in Units : RevertTimer(u)
  <2>1. PICK u \in Units : RevertTimer(u)
    BY <1>2
  <2>2. /\ requests' \in 0 .. MaxRequests /\ request' \in Request
        /\ answer' \in [Units -> {"none", "ok", "failed"}]
    BY <2>1, BeginType DEF RevertTimer
  <2> QED
    BY <2>1, <2>2 DEF RevertTimer, TypeOK, OverlayTypeOK
<1>3. CASE \E u \in Units : RemoveTimer(u)
  <2>1. PICK u \in Units : RemoveTimer(u)
    BY <1>3
  <2>2. /\ requests' \in 0 .. MaxRequests /\ request' \in Request
        /\ answer' \in [Units -> {"none", "ok", "failed"}]
    BY <2>1, BeginType DEF RemoveTimer
  <2> QED
    BY <2>1, <2>2 DEF RemoveTimer, TypeOK, OverlayTypeOK
<1>4. CASE Publish
  <2>1. request.unit \in Units /\ request' \in Request
    BY <1>4, RequestForm, ContinueType DEF Publish, At
  <2>2. overlay[request.unit] \in Contents /\ Default(request.unit) \in Contents
    BY <2>1, DefaultType DEF TypeOK, OverlayTypeOK, Contents
  <2> QED
    BY <1>4, <2>1, <2>2 DEF Publish, TypeOK, OverlayTypeOK
<1>5. CASE DaemonReload
  <2>1. request' \in Request
    BY <1>5, ContinueType DEF DaemonReload, At
  <2> QED
    BY <1>5, <2>1 DEF DaemonReload, TypeOK, OverlayTypeOK
<1>6. CASE EnableOrRestart
  <2>1. /\ request' \in Request
        /\ answer' \in [Units -> {"none", "ok", "failed"}]
    BY <1>6, AnswerType DEF EnableOrRestart
  <2> QED
    BY <1>6, <2>1 DEF EnableOrRestart, TypeOK, OverlayTypeOK
<1>7. CASE StopAndDisable
  <2>1. request' \in Request
    BY <1>7, ContinueType DEF StopAndDisable, At
  <2>2. faults' \in 0 .. MaxFaults /\ enabled' \subseteq Timers
    BY <1>7, FaultCounted DEF StopAndDisable, TypeOK, OverlayTypeOK
  <2> QED
    BY <1>7, <2>1, <2>2 DEF StopAndDisable, TypeOK, OverlayTypeOK
<1>8. CASE RemoveFile
  <2>1. request' \in Request
    BY <1>8, ContinueType DEF RemoveFile, At
  <2> QED
    BY <1>8, <2>1 DEF RemoveFile, TypeOK, OverlayTypeOK, Contents
<1>9. CASE UnlinkOverlay
  <2>1. /\ request' \in Request
        /\ answer' \in [Units -> {"none", "ok", "failed"}]
    BY <1>9, AnswerType DEF UnlinkOverlay
  <2> QED
    BY <1>9, <2>1 DEF UnlinkOverlay, TypeOK, OverlayTypeOK
<1>10. CASE RequestFails
  <2>1. /\ request' \in Request
        /\ answer' \in [Units -> {"none", "ok", "failed"}]
    BY <1>10, AnswerType DEF RequestFails
  <2>2. faults' \in 0 .. MaxFaults /\ request.unit \in Units
    BY <1>10, FaultCounted, RequestForm DEF RequestFails
  <2> QED
    BY <1>10, <2>1, <2>2 DEF RequestFails, TypeOK, OverlayTypeOK
<1> QED
  BY <1>1, <1>2, <1>3, <1>4, <1>5, <1>6, <1>7, <1>8, <1>9, <1>10
  DEF DashboardStep, Dashboard, RequestStep

(* The record the script's position is kept in.                            *)
Deploys == [pc : Commands \cup {"idle"}, prev : Revisions, todo : SUBSET Units,
            why : {"none", "pip", "migrate", "doctor"}]

LEMMA DeployForm ==
  ASSUME TypeOK
  PROVE  /\ deploy \in Deploys /\ Idle \in Deploys
         /\ deploy.prev \in Revisions
         /\ \A command \in Commands :
              Next_(command) => /\ deploy' \in Deploys /\ deploy'.pc = command
                                /\ deploy'.why = deploy.why /\ deploy'.todo = deploy.todo
         /\ \A why \in {"pip", "migrate", "doctor"} :
              RollBack(why) => /\ deploy' \in Deploys /\ deploy'.pc = "repip"
                               /\ deploy'.why = why /\ tree' \in Revisions
<1>1. deploy \in Deploys
  BY DEF TypeOK, Deploys
<1>2. Idle \in Deploys
  BY FirstType DEF Idle, Deploys
<1>3. ASSUME NEW command \in Commands, Next_(command)
      PROVE  /\ deploy' \in Deploys /\ deploy'.pc = command
             /\ deploy'.why = deploy.why /\ deploy'.todo = deploy.todo
  BY <1>1, <1>3 DEF Next_, Deploys
<1>4. ASSUME NEW why \in {"pip", "migrate", "doctor"}, RollBack(why)
      PROVE  /\ deploy' \in Deploys /\ deploy'.pc = "repip"
             /\ deploy'.why = why /\ tree' \in Revisions
  BY <1>1, <1>4 DEF RollBack, Deploys, Commands
<1> QED
  BY <1>1, <1>2, <1>3, <1>4 DEF Deploys

LEMMA ScriptType ==
  ASSUME TypeOK, Push \/ Start \/ ScriptStep \/ Kill
  PROVE  TypeOK'
<1> USE DEF overlayVars
<1>0. /\ deploy \in Deploys /\ Idle \in Deploys /\ deploy.prev \in Revisions
      /\ OverlayTypeOK /\ tree \in Contents
  BY DeployForm DEF TypeOK, Contents
<1>1. CASE Push
  BY <1>1 DEF Push, TypeOK, OverlayTypeOK
<1>2. CASE Start
  <2>1. deploy' \in Deploys
    BY <1>0, <1>2 DEF Start, Deploys, Commands
  <2> QED
    BY <1>2, <2>1 DEF Start, TypeOK, OverlayTypeOK, Deploys
<1>3. CASE Detect
  <2>1. deploy' \in Deploys
    BY <1>0, <1>3 DEF Detect, Deploys, Commands, TypeOK
  <2> QED
    BY <1>3, <2>1 DEF Detect, TypeOK, OverlayTypeOK, Deploys
<1>4. CASE Pull
  <2>1. deploy' \in Deploys
    BY <1>4, DeployForm DEF Pull, Commands
  <2> QED
    BY <1>4, <2>1 DEF Pull, TypeOK, OverlayTypeOK, Deploys
<1>5. CASE PipInstall
  <2>1. deploy' \in Deploys /\ tree' \in Revisions /\ deps' \in Revisions \cup {Stale}
    BY <1>5, DeployForm DEF PipInstall, Commands, TypeOK
  <2>2. faults' \in 0 .. MaxFaults
    BY <1>5, FaultCounted DEF PipInstall, TypeOK, OverlayTypeOK
  <2> QED
    BY <1>5, <2>1, <2>2 DEF PipInstall, TypeOK, OverlayTypeOK, Deploys
<1>6. CASE SyncUnits
  <2>1. deploy' \in Deploys
    BY <1>6, DeployForm DEF SyncUnits, Commands
  <2>2. canonical' \in [Units -> Contents]
    BY <1>0, <1>6 DEF SyncUnits, CopyShipped, OverlayTypeOK
  <2> QED
    BY <1>6, <2>1, <2>2 DEF SyncUnits, TypeOK, OverlayTypeOK, Deploys
<1>7. CASE OverlayGlob
  <2>1. deploy' \in Deploys
    BY <1>0, <1>7 DEF OverlayGlob, Deploys, Commands
  <2> QED
    BY <1>7, <2>1 DEF OverlayGlob, TypeOK, OverlayTypeOK, Deploys
<1>8. CASE CheckOverlay
  <2>1. deploy' \in Deploys
    <3>1. deploy.todo \in SUBSET Units
      BY <1>0 DEF Deploys
    <3> QED
      BY <1>0, <1>8, <3>1 DEF CheckOverlay, Deploys, Commands
  <2> QED
    BY <1>8, <2>1 DEF CheckOverlay, TypeOK, OverlayTypeOK, Deploys
<1>9. CASE CopyOverlay
  <2>1. deploy' \in Deploys
    BY <1>0, <1>9 DEF CopyOverlay, Finish, Deploys, Commands
  <2>2. canonical' \in [Units -> Contents]
    BY <1>9 DEF CopyOverlay, TypeOK, OverlayTypeOK, Contents
  <2>3. outcome' \in Outcomes
    BY <1>9 DEF CopyOverlay, Finish, Outcomes, TypeOK
  <2> QED
    BY <1>9, <2>1, <2>2, <2>3 DEF CopyOverlay, TypeOK, OverlayTypeOK, Deploys
<1>10. CASE Migrate
  <2>1. deploy' \in Deploys /\ tree' \in Revisions
    BY <1>10, DeployForm DEF Migrate, Commands, TypeOK
  <2>2. faults' \in 0 .. MaxFaults
    BY <1>10, FaultCounted DEF Migrate, TypeOK, OverlayTypeOK
  <2> QED
    BY <1>10, <2>1, <2>2 DEF Migrate, TypeOK, OverlayTypeOK, Deploys
<1>11. CASE Reload
  <2>1. deploy' \in Deploys
    BY <1>0, <1>11, DeployForm DEF Reload, Finish, Commands
  <2>2. outcome' \in Outcomes
    BY <1>0, <1>11 DEF Reload, Finish, Outcomes, TypeOK, Deploys
  <2> QED
    BY <1>11, <2>1, <2>2 DEF Reload, TypeOK, OverlayTypeOK, Deploys
<1>12. CASE TryRestart
  <2>1. deploy' \in Deploys
    BY <1>12, DeployForm DEF TryRestart, Commands
  <2> QED
    BY <1>12, <2>1 DEF TryRestart, TypeOK, OverlayTypeOK, Deploys
<1>13. CASE Doctor
  <2>1. deploy' \in Deploys /\ tree' \in Revisions /\ outcome' \in Outcomes
    BY <1>0, <1>13, DeployForm DEF Doctor, Finish, Outcomes, TypeOK
  <2>2. faults' \in 0 .. MaxFaults
    BY <1>13, FaultCounted DEF Doctor, TypeOK, OverlayTypeOK
  <2> QED
    BY <1>13, <2>1, <2>2 DEF Doctor, TypeOK, OverlayTypeOK, Deploys
<1>14. CASE Repip
  <2>1. deploy' \in Deploys
    BY <1>0, <1>14, DeployForm DEF Repip, Finish, Commands
  <2>2. outcome' \in Outcomes /\ deps' \in Revisions \cup {Stale}
    BY <1>14 DEF Repip, Finish, Outcomes, TypeOK
  <2>3. faults' \in 0 .. MaxFaults
    BY <1>14, FaultCounted DEF Repip, TypeOK, OverlayTypeOK
  <2> QED
    BY <1>14, <2>1, <2>2, <2>3 DEF Repip, TypeOK, OverlayTypeOK, Deploys
<1>15. CASE ResyncUnits
  <2>1. deploy' \in Deploys
    BY <1>15, DeployForm DEF ResyncUnits, Commands
  <2>2. canonical' \in [Units -> Contents]
    BY <1>0, <1>15 DEF ResyncUnits, CopyShipped, OverlayTypeOK
  <2> QED
    BY <1>15, <2>1, <2>2 DEF ResyncUnits, TypeOK, OverlayTypeOK, Deploys
<1>16. CASE Kill
  <2>1. deploy' \in Deploys /\ outcome' \in Outcomes /\ faults' \in 0 .. MaxFaults
    BY <1>0, <1>16, FaultCounted DEF Kill, Finish, Outcomes
  <2> QED
    BY <1>16, <2>1 DEF Kill, TypeOK, OverlayTypeOK, Deploys
<1> QED
  BY <1>1, <1>2, <1>3, <1>4, <1>5, <1>6, <1>7, <1>8, <1>9, <1>10, <1>11, <1>12,
     <1>13, <1>14, <1>15, <1>16 DEF ScriptStep

-----------------------------------------------------------------------------
(* The script's position and the packages                                  *)

LEMMA ScriptPosition ==
  ASSUME TypeOK, WhyInv, PackagesInv, Push \/ Start \/ ScriptStep \/ Kill
  PROVE  WhyInv' /\ PackagesInv'
<1>0. /\ deploy \in Deploys
      /\ Idle.pc = "idle" /\ Idle.why = "none"
  BY DeployForm DEF Idle
<1> USE DEF WhyInv, PackagesInv
<1>1. CASE Push
  BY <1>1 DEF Push
<1>2. CASE Start \/ Detect \/ Pull \/ PipInstall
  BY <1>0, <1>2, DeployForm DEF Start, Detect, Pull, PipInstall, RollBack, Deploys, Commands
<1>3. CASE SyncUnits \/ OverlayGlob \/ CheckOverlay \/ CopyOverlay
  BY <1>0, <1>3, DeployForm
  DEF SyncUnits, OverlayGlob, CheckOverlay, CopyOverlay, Finish, Deploys, Commands
<1>4. CASE Migrate \/ Reload \/ TryRestart \/ Doctor
  BY <1>0, <1>4, DeployForm
  DEF Migrate, Reload, TryRestart, Doctor, Finish, Deploys, Commands
<1>5. CASE Repip
  BY <1>0, <1>5, DeployForm DEF Repip, Finish, Deploys, Commands
<1>6. CASE ResyncUnits \/ Kill
  BY <1>0, <1>6, DeployForm DEF ResyncUnits, Kill, Finish, Deploys, Commands
<1> QED
  BY <1>1, <1>2, <1>3, <1>4, <1>5, <1>6 DEF ScriptStep

-----------------------------------------------------------------------------
(* Units, while the script takes a step                                    *)

(* It never touches what a request keeps.                                  *)
LEMMA ScriptLeavesRequests ==
  ASSUME Push \/ Start \/ ScriptStep \/ Kill
  PROVE  UNCHANGED <<overlay, enabled, request, answer, botched>>
BY DEF Push, Start, ScriptStep, Detect, Pull, PipInstall, SyncUnits, OverlayGlob,
       CheckOverlay, CopyOverlay, Migrate, Reload, TryRestart, Doctor, Repip,
       ResyncUnits, Kill, overlayVars

LEMMA ScriptKeepsOverride ==
  ASSUME TypeOK, WhyInv, NEW u \in Units, OverrideInv(u),
         Push \/ Start \/ ScriptStep \/ Kill
  PROVE  OverrideInv(u)'
<1> SUFFICES ASSUME Published(u), overlay[u] # Absent
             PROVE  /\ u \notin exposed' => canonical'[u] = overlay[u]
                    /\ deploy'.pc \in {"check", "cp"} /\ u \notin deploy'.todo =>
                         canonical'[u] = overlay[u]
                    /\ Restored' => canonical'[u] = overlay[u]
                    /\ /\ u \notin exposed'
                       /\ answer[u] = "ok" \/ (request.pc = "switch" /\ request.unit = u)
                       => loaded'[u] = overlay[u]
  BY ScriptLeavesRequests DEF OverrideInv, Published, Pending
<1> DEFINE answered == answer[u] = "ok" \/ (request.pc = "switch" /\ request.unit = u)
<1>0. /\ u \notin exposed => canonical[u] = overlay[u]
      /\ deploy.pc \in {"check", "cp"} /\ u \notin deploy.todo => canonical[u] = overlay[u]
      /\ Restored => canonical[u] = overlay[u]
      /\ u \notin exposed /\ answered => loaded[u] = overlay[u]
  BY DEF OverrideInv
<1> HIDE DEF answered
<1> USE DEF overlayVars, Restored, WhyInv
<1>1. /\ deploy \in Deploys
      /\ Idle.pc = "idle" /\ Idle.why = "none" /\ Idle.todo = {}
      /\ canonical \in [Units -> Contents] /\ exposed \subseteq Shipped
      /\ Shipped \subseteq Units
  BY DeployForm, UnitsAssumption DEF Idle, TypeOK, OverlayTypeOK
<1>2. CASE Push
  BY <1>0, <1>2 DEF Push, answered
<1>3. CASE Start \/ Detect
  BY <1>0, <1>1, <1>3 DEF Start, Detect, Deploys, answered
<1>4. CASE Pull \/ TryRestart
  BY <1>0, <1>1, <1>4, DeployForm DEF Pull, TryRestart, Commands, answered
<1>5. CASE PipInstall
  BY <1>0, <1>1, <1>5, DeployForm DEF PipInstall, Commands, answered
<1>6. CASE SyncUnits \/ ResyncUnits
  <2>1. /\ u \notin exposed' => u \notin exposed
        /\ u \notin exposed' => canonical'[u] = canonical[u]
        /\ loaded' = loaded
    BY <1>1, <1>6 DEF SyncUnits, ResyncUnits, CopyShipped
  <2>2. deploy'.pc \in {"glob", "reload"} /\ deploy'.why = deploy.why
        /\ (deploy'.pc = "reload" => deploy.why = "doctor")
    BY <1>1, <1>6, DeployForm DEF SyncUnits, ResyncUnits, Commands
  <2> QED
    BY <1>0, <2>1, <2>2 DEF answered
<1>7. CASE OverlayGlob
  <2>1. deploy'.pc = "check" /\ u \in deploy'.todo /\ deploy'.why = deploy.why
    BY <1>1, <1>7 DEF OverlayGlob, Deploys
  <2> QED
    BY <1>0, <1>7, <2>1 DEF OverlayGlob, answered
<1>8. CASE CheckOverlay
  <2>1. UNCHANGED <<canonical, loaded, exposed>>
    BY <1>8 DEF CheckOverlay
  <2>2. CASE deploy.todo = {}
    <3>1. deploy'.pc = "migrate" /\ u \notin deploy.todo /\ deploy.pc = "check"
      BY <1>1, <1>8, <2>2 DEF CheckOverlay, Deploys
    <3> QED
      BY <1>0, <2>1, <3>1 DEF answered
  <2>3. CASE deploy.todo # {}
    <3>1. /\ deploy'.pc \in {"check", "cp"} /\ deploy.pc = "check"
          /\ u \notin deploy'.todo => u \notin deploy.todo
      BY <1>1, <1>8, <2>3 DEF CheckOverlay, Deploys
    <3> QED
      BY <1>0, <2>1, <3>1 DEF answered
  <2> QED
    BY <2>2, <2>3
<1>9. CASE CopyOverlay
  <2>1. /\ deploy.pc = "cp" /\ UNCHANGED <<loaded, exposed>>
        /\ canonical'[u] \in {canonical[u], overlay[u]}
    BY <1>1, <1>9 DEF CopyOverlay
  <2>2. CASE overlay[Current] = Absent
    BY <1>0, <1>1, <1>9, <2>1, <2>2 DEF CopyOverlay, Finish, answered
  <2>3. CASE overlay[Current] # Absent
    <3>1. /\ deploy' = [deploy EXCEPT !.pc = "check", !.todo = @ \ {Current}]
          /\ canonical' = [canonical EXCEPT ![Current] = overlay[Current]]
      BY <1>9, <2>3 DEF CopyOverlay
    <3>2. deploy'.pc = "check" /\ deploy'.todo = deploy.todo \ {Current}
      BY <1>1, <3>1 DEF Deploys
    <3>3. u \notin deploy'.todo => canonical'[u] = overlay[u]
      BY <1>0, <1>1, <2>1, <3>1, <3>2
    <3> QED
      BY <1>0, <2>1, <3>2, <3>3 DEF answered
  <2> QED
    BY <2>2, <2>3
<1>10. CASE Migrate
  BY <1>0, <1>1, <1>10, DeployForm DEF Migrate, Commands, answered
<1>11. CASE Reload
  <2>1. loaded' = canonical /\ UNCHANGED <<overlay, canonical>>
    BY <1>11 DEF Reload
  <2>2. deploy'.pc \in {"idle", "restart"}
    BY <1>1, <1>11, DeployForm DEF Reload, Finish, Commands
  <2>3. u \notin exposed' => canonical[u] = overlay[u]
    BY <1>0, <1>1, <1>11 DEF Reload, Deploys
  <2> QED
    BY <2>1, <2>2, <2>3
<1>12. CASE Doctor
  BY <1>0, <1>1, <1>12, DeployForm DEF Doctor, Finish, answered
<1>13. CASE Repip
  BY <1>0, <1>1, <1>13, DeployForm DEF Repip, Finish, Commands, answered
<1>14. CASE Kill
  BY <1>0, <1>1, <1>14 DEF Kill, Finish, answered
<1> QED
  BY <1>2, <1>3, <1>4, <1>5, <1>6, <1>7, <1>8, <1>9, <1>10, <1>11, <1>12, <1>13,
     <1>14 DEF ScriptStep

LEMMA ScriptKeepsShipped ==
  ASSUME TypeOK, WhyInv, RequestInv, NEW u \in Units, ShippedInv(u),
         Push \/ Start \/ ScriptStep \/ Kill
  PROVE  ShippedInv(u)'
<1> SUFFICES ASSUME u \in Shipped, Published(u), overlay[u] = Absent
             PROVE  /\ UnitsCopied' => canonical'[u] = tree'
                    /\ /\ Resting' \/ deploy'.pc \in {"restart", "doctor"}
                       /\ ~ (request.pc = "reload" /\ request.unit = u)
                       => loaded'[u] = tree'
  BY ScriptLeavesRequests DEF ShippedInv, Published, Pending
<1> DEFINE reloading == request.pc = "reload" /\ request.unit = u
<1>0. /\ UnitsCopied => canonical[u] = tree
      /\ (Resting \/ deploy.pc \in {"restart", "doctor"}) /\ ~ reloading => loaded[u] = tree
  BY DEF ShippedInv
<1> HIDE DEF reloading
<1> USE DEF overlayVars, Resting, UnitsCopied, WhyInv
<1>1. /\ deploy \in Deploys
      /\ Idle.pc = "idle" /\ Idle.why = "none"
      /\ canonical \in [Units -> Contents]
  BY DeployForm DEF Idle, TypeOK, OverlayTypeOK
<1>2. CASE Push
  BY <1>0, <1>2 DEF Push, reloading
<1>3. CASE Start \/ Detect
  BY <1>0, <1>1, <1>3 DEF Start, Detect, Deploys, reloading
<1>4. CASE Pull \/ TryRestart
  BY <1>0, <1>1, <1>4, DeployForm DEF Pull, TryRestart, Commands, reloading
<1>5. CASE PipInstall
  BY <1>0, <1>1, <1>5, DeployForm DEF PipInstall, Commands
<1>6. CASE SyncUnits \/ ResyncUnits
  BY <1>1, <1>6, DeployForm DEF SyncUnits, ResyncUnits, CopyShipped, Commands
<1>7. CASE OverlayGlob
  BY <1>0, <1>1, <1>7 DEF OverlayGlob, Deploys
<1>8. CASE CheckOverlay
  BY <1>0, <1>1, <1>8 DEF CheckOverlay, Deploys
<1>9. CASE CopyOverlay
  <2>1. overlay[Current] # Absent => canonical'[u] = canonical[u]
    BY <1>1, <1>9 DEF CopyOverlay
  <2> QED
    BY <1>0, <1>1, <1>9, <2>1 DEF CopyOverlay, Finish, Deploys
<1>10. CASE Migrate
  BY <1>0, <1>1, <1>10, DeployForm DEF Migrate, Commands
<1>11. CASE Reload
  <2>1. CASE deploy.why = "none"
    BY <1>0, <1>1, <1>11, <2>1, DeployForm DEF Reload, Commands
  <2>2. CASE deploy.why # "none"
    <3>1. deploy'.pc = "idle" /\ outcome' \in {"pip", "migrate", "doctor"}
      BY <1>1, <1>11, <2>2 DEF Reload, Finish, Deploys
    <3> QED
      BY <3>1
  <2> QED
    BY <2>1, <2>2
<1>12. CASE Doctor
  BY <1>0, <1>1, <1>12, DeployForm DEF Doctor, Finish, reloading
<1>13. CASE Repip
  BY <1>0, <1>1, <1>13, DeployForm DEF Repip, Finish, Commands
<1>14. CASE Kill
  BY <1>1, <1>14 DEF Kill, Finish
<1> QED
  BY <1>2, <1>3, <1>4, <1>5, <1>6, <1>7, <1>8, <1>9, <1>10, <1>11, <1>12, <1>13,
     <1>14 DEF ScriptStep

LEMMA ScriptKeepsInv ==
  ASSUME DeployInv, Push \/ Start \/ ScriptStep \/ Kill
  PROVE  DeployInv'
<1>1. TypeOK' /\ WhyInv' /\ PackagesInv'
  BY ScriptType, ScriptPosition DEF DeployInv
<1>2. RequestInv'
  BY ScriptLeavesRequests DEF DeployInv, RequestInv
<1>3. ASSUME NEW u \in Units PROVE UnitInv(u)'
  <2>1. EnabledInv(u)'
    BY ScriptLeavesRequests DEF DeployInv, UnitInv, EnabledInv
  <2>2. OverrideInv(u)'
    BY ScriptKeepsOverride DEF DeployInv, UnitInv
  <2>3. ShippedInv(u)'
    BY ScriptKeepsShipped DEF DeployInv, UnitInv
  <2> QED
    BY <2>1, <2>2, <2>3 DEF UnitInv
<1> QED
  BY <1>1, <1>2, <1>3 DEF DeployInv

-----------------------------------------------------------------------------
(* Units, while the dashboard takes a step                                 *)

(* What starting a request about v does to the requests and answers.       *)
LEMMA BeginEffect ==
  ASSUME TypeOK, NEW op \in {"save", "revert", "remove"}, NEW v \in Units,
         NEW step \in {"publish", "stop"}, NEW new \in BOOLEAN,
         Begin(op, v, step, new)
  PROVE  /\ request.pc = "idle"
         /\ request'.pc = step /\ request'.op = op /\ request'.unit = v
         /\ request'.brand_new = new
         /\ answer'[v] = "none"
         /\ \A u \in Units : u # v => answer'[u] = answer[u]
BY DEF Begin, TypeOK, OverlayTypeOK

LEMMA AnswerEffect ==
  ASSUME TypeOK, NEW a \in {"ok", "failed"}, Answer(a), request.pc # "idle"
  PROVE  /\ request'.pc = "idle"
         /\ answer'[request.unit] = a
         /\ \A u \in Units : u # request.unit => answer'[u] = answer[u]
<1>1. request.unit \in Units
  BY RequestForm
<1> QED
  BY <1>1 DEF Answer, NoRequest, TypeOK, OverlayTypeOK

LEMMA SaveKeepsUnits ==
  ASSUME DeployInv, NEW v \in Units, NEW content \in Edits, SaveTimer(v, content),
         UNCHANGED deployVars
  PROVE  RequestInv' /\ \A u \in Units : UnitInv(u)'
<1> DEFINE new == overlay[v] = Absent /\ Default(v) = Absent
<1>0. TypeOK /\ content # Absent /\ new \in BOOLEAN
  BY ContentsAssumption, Zenon DEF DeployInv
<1>1. /\ request.pc = "idle"
      /\ request'.pc = "publish" /\ request'.op = "save" /\ request'.unit = v
      /\ request'.brand_new = new
      /\ answer'[v] = "none"
      /\ \A u \in Units : u # v => answer'[u] = answer[u]
  BY <1>0, BeginEffect DEF SaveTimer
<1>2. /\ overlay'[v] = content
      /\ \A u \in Units : u # v => overlay'[u] = overlay[u]
      /\ UNCHANGED <<canonical, loaded, enabled, botched, tree, deployVars>>
  BY <1>0 DEF SaveTimer, TypeOK, OverlayTypeOK
<1>3. RequestInv'
  BY <1>0, <1>1, <1>2 DEF RequestInv
<1>4. ASSUME NEW u \in Units, u = v PROVE UnitInv(u)'
  <2>1. EnabledInv(u)'
    <3>1. EnabledInv(u)
      BY DEF DeployInv, UnitInv
    <3>2. u \notin Shipped => Default(u) = Absent
      BY <1>0, DefaultType
    <3> QED
      BY <1>1, <1>2, <1>4, <3>1, <3>2 DEF EnabledInv
  <2>2. OverrideInv(u)' /\ ShippedInv(u)'
    BY <1>1, <1>4 DEF OverrideInv, ShippedInv, Published, Pending
  <2> QED
    BY <2>1, <2>2 DEF UnitInv
<1>5. ASSUME NEW u \in Units, u # v PROVE UnitInv(u)'
  <2>0. UnitInv(u) /\ answer'[u] = answer[u] /\ overlay'[u] = overlay[u]
    BY <1>1, <1>2, <1>5 DEF DeployInv
  <2>1. EnabledInv(u)'
    BY <1>1, <1>2, <1>5, <2>0 DEF UnitInv, EnabledInv
  <2>2. OverrideInv(u)'
    BY <1>1, <1>2, <1>5, <2>0
    DEF UnitInv, OverrideInv, Published, Pending, Restored, deployVars
  <2>3. ShippedInv(u)'
    BY <1>1, <1>2, <1>5, <2>0
    DEF UnitInv, ShippedInv, Published, Pending, UnitsCopied, Resting, deployVars
  <2> QED
    BY <2>1, <2>2, <2>3 DEF UnitInv
<1> QED
  BY <1>3, <1>4, <1>5

LEMMA RevertKeepsUnits ==
  ASSUME DeployInv, NEW v \in Units, RevertTimer(v), UNCHANGED deployVars
  PROVE  RequestInv' /\ \A u \in Units : UnitInv(u)'
<1>0. TypeOK
  BY DEF DeployInv
<1>1. /\ request.pc = "idle"
      /\ request'.pc = "publish" /\ request'.op = "revert" /\ request'.unit = v
      /\ answer'[v] = "none"
      /\ \A u \in Units : u # v => answer'[u] = answer[u]
  BY <1>0, BeginEffect DEF RevertTimer
<1>2. /\ overlay'[v] = Absent
      /\ \A u \in Units : u # v => overlay'[u] = overlay[u]
      /\ UNCHANGED <<canonical, loaded, enabled, botched, tree, deployVars>>
  BY <1>0 DEF RevertTimer, TypeOK, OverlayTypeOK
<1>3. RequestInv'
  BY <1>1, <1>2 DEF RequestInv
<1>4. ASSUME NEW u \in Units, u = v PROVE UnitInv(u)'
  BY <1>1, <1>2, <1>4
  DEF UnitInv, EnabledInv, OverrideInv, ShippedInv, Published, Pending
<1>5. ASSUME NEW u \in Units, u # v PROVE UnitInv(u)'
  <2>0. UnitInv(u) /\ answer'[u] = answer[u] /\ overlay'[u] = overlay[u]
    BY <1>1, <1>2, <1>5 DEF DeployInv
  <2>1. EnabledInv(u)'
    BY <1>1, <1>2, <1>5, <2>0 DEF UnitInv, EnabledInv
  <2>2. OverrideInv(u)'
    BY <1>1, <1>2, <1>5, <2>0
    DEF UnitInv, OverrideInv, Published, Pending, Restored, deployVars
  <2>3. ShippedInv(u)'
    BY <1>1, <1>2, <1>5, <2>0
    DEF UnitInv, ShippedInv, Published, Pending, UnitsCopied, Resting, deployVars
  <2> QED
    BY <2>1, <2>2, <2>3 DEF UnitInv
<1> QED
  BY <1>3, <1>4, <1>5

LEMMA RemoveKeepsUnits ==
  ASSUME DeployInv, NEW v \in Units, RemoveTimer(v), UNCHANGED deployVars
  PROVE  RequestInv' /\ \A u \in Units : UnitInv(u)'
<1>0. TypeOK
  BY DEF DeployInv
<1>1. /\ request.pc = "idle"
      /\ request'.pc = "stop" /\ request'.op = "remove" /\ request'.unit = v
      /\ answer'[v] = "none"
      /\ \A u \in Units : u # v => answer'[u] = answer[u]
  BY <1>0, BeginEffect DEF RemoveTimer
<1>2. /\ v \notin Shipped
      /\ UNCHANGED <<overlay, canonical, loaded, enabled, botched, tree, deployVars>>
  BY <1>0, DefaultType DEF RemoveTimer
<1>3. RequestInv'
  BY <1>1, <1>2 DEF RequestInv
<1>4. ASSUME NEW u \in Units, u = v PROVE UnitInv(u)'
  BY <1>1, <1>2, <1>4
  DEF UnitInv, EnabledInv, OverrideInv, ShippedInv, Published, Pending
<1>5. ASSUME NEW u \in Units, u # v PROVE UnitInv(u)'
  <2>0. UnitInv(u) /\ answer'[u] = answer[u]
    BY <1>1, <1>5 DEF DeployInv
  <2>1. EnabledInv(u)'
    BY <1>1, <1>2, <1>5, <2>0 DEF UnitInv, EnabledInv
  <2>2. OverrideInv(u)'
    BY <1>1, <1>2, <1>5, <2>0
    DEF UnitInv, OverrideInv, Published, Pending, Restored, deployVars
  <2>3. ShippedInv(u)'
    BY <1>1, <1>2, <1>5, <2>0
    DEF UnitInv, ShippedInv, Published, Pending, UnitsCopied, Resting, deployVars
  <2> QED
    BY <2>1, <2>2, <2>3 DEF UnitInv
<1> QED
  BY <1>3, <1>4, <1>5

(* A step of the request that goes on: only its unit's file can change.    *)
LEMMA PublishKeepsUnits ==
  ASSUME DeployInv, Publish, UNCHANGED deployVars
  PROVE  RequestInv' /\ \A u \in Units : UnitInv(u)'
<1>0. TypeOK /\ RequestInv
  BY DEF DeployInv
<1>1. /\ request.pc = "publish" /\ request.unit \in Units
      /\ request'.pc = "reload" /\ request'.op = request.op
      /\ request'.unit = request.unit /\ request'.brand_new = request.brand_new
      /\ request.op \in {"save", "revert"}
  <2>1. request \in Requests /\ request.pc = "publish" /\ request.unit \in Units
    BY <1>0, RequestForm DEF Publish, At
  <2>2. request.op # "remove"
    BY <1>0, <2>1 DEF RequestInv
  <2> QED
    BY <1>0, <2>1, <2>2, ContinueType DEF Publish, Requests
<1>2. /\ \A u \in Units : u # request.unit => canonical'[u] = canonical[u]
      /\ canonical'[request.unit] = IF request.op = "save" THEN overlay[request.unit]
                                    ELSE Default(request.unit)
      /\ UNCHANGED <<overlay, loaded, enabled, answer, botched, tree, deployVars>>
  BY <1>0, <1>1 DEF Publish, TypeOK, OverlayTypeOK
<1>3. RequestInv'
  BY <1>0, <1>1, <1>2 DEF RequestInv
<1>4. ASSUME NEW u \in Units, u = request.unit PROVE UnitInv(u)'
  <2>0. /\ UnitInv(u) /\ answer[u] = "none"
        /\ request.op = "save" => overlay[u] # Absent
        /\ request.op = "revert" => overlay[u] = Absent
    BY <1>0, <1>1, <1>4 DEF DeployInv, RequestInv
  <2>1. EnabledInv(u)'
    BY <1>1, <1>2, <2>0 DEF UnitInv, EnabledInv
  <2>2. OverrideInv(u)'
    <3>1. overlay[u] # Absent => canonical'[u] = overlay[u]
      BY <1>1, <1>2, <1>4, <2>0
    <3> QED
      BY <1>1, <1>2, <2>0, <3>1 DEF OverrideInv
  <2>3. ShippedInv(u)'
    <3>1. u \in Shipped /\ overlay[u] = Absent => canonical'[u] = tree
      BY <1>0, <1>1, <1>2, <1>4, <2>0, DefaultType
    <3> QED
      BY <1>1, <1>2, <1>4, <3>1 DEF ShippedInv
  <2> QED
    BY <2>1, <2>2, <2>3 DEF UnitInv
<1>5. ASSUME NEW u \in Units, u # request.unit PROVE UnitInv(u)'
  <2>0. UnitInv(u) /\ canonical'[u] = canonical[u]
    BY <1>2, <1>5 DEF DeployInv
  <2>1. EnabledInv(u)'
    BY <1>1, <1>2, <2>0 DEF UnitInv, EnabledInv
  <2>2. OverrideInv(u)'
    BY <1>1, <1>2, <1>5, <2>0
    DEF UnitInv, OverrideInv, Published, Pending, Restored, deployVars
  <2>3. ShippedInv(u)'
    BY <1>1, <1>2, <1>5, <2>0
    DEF UnitInv, ShippedInv, Published, Pending, UnitsCopied, Resting, deployVars
  <2> QED
    BY <2>1, <2>2, <2>3 DEF UnitInv
<1> QED
  BY <1>3, <1>4, <1>5

LEMMA ReloadKeepsUnits ==
  ASSUME DeployInv, DaemonReload, UNCHANGED deployVars
  PROVE  RequestInv' /\ \A u \in Units : UnitInv(u)'
<1>0. TypeOK /\ RequestInv
  BY DEF DeployInv
<1>1. /\ request.pc = "reload" /\ request.unit \in Units
      /\ request'.pc \in {"unlink", "switch"} /\ request'.op = request.op
      /\ request'.pc = "unlink" <=> request.op = "remove"
      /\ request'.unit = request.unit /\ request'.brand_new = request.brand_new
  <2>1. request.pc = "reload" /\ request.unit \in Units
    BY <1>0, RequestForm DEF DaemonReload, At
  <2>2. CASE request.op = "remove"
    <3>1. Continue("unlink")
      BY <2>2 DEF DaemonReload
    <3> QED
      BY <1>0, <2>1, <2>2, <3>1, ContinueType
  <2>3. CASE request.op # "remove"
    <3>1. Continue("switch")
      BY <2>3 DEF DaemonReload
    <3> QED
      BY <1>0, <2>1, <2>3, <3>1, ContinueType
  <2> QED
    BY <2>2, <2>3
<1>2. /\ loaded' = canonical
      /\ UNCHANGED <<overlay, canonical, enabled, answer, botched, tree, deployVars>>
  BY DEF DaemonReload
<1>3. RequestInv'
  BY <1>0, <1>1, <1>2 DEF RequestInv
<1>4. ASSUME NEW u \in Units PROVE UnitInv(u)'
  <2>0. /\ UnitInv(u)
        /\ request.unit = u => answer[u] = "none"
        /\ Published(u)' <=> Published(u)
    BY <1>0, <1>1, <1>2, <1>4 DEF DeployInv, RequestInv, Published, Pending
  <2>1. EnabledInv(u)'
    BY <1>1, <1>2, <2>0 DEF UnitInv, EnabledInv
  <2>2. OverrideInv(u)'
    BY <1>2, <2>0 DEF UnitInv, OverrideInv, Restored, deployVars
  <2>3. ShippedInv(u)'
    BY <1>2, <2>0 DEF UnitInv, ShippedInv, UnitsCopied, Resting, deployVars
  <2> QED
    BY <2>1, <2>2, <2>3 DEF UnitInv
<1> QED
  BY <1>3, <1>4

LEMMA SwitchKeepsUnits ==
  ASSUME DeployInv, EnableOrRestart, UNCHANGED deployVars
  PROVE  RequestInv' /\ \A u \in Units : UnitInv(u)'
<1>0. TypeOK /\ RequestInv
  BY DEF DeployInv
<1>1. /\ request.pc = "switch" /\ request.unit \in Units /\ request.op # "remove"
      /\ request'.pc = "idle" /\ answer'[request.unit] = "ok"
      /\ \A u \in Units : u # request.unit => answer'[u] = answer[u]
  <2>1. request.pc = "switch" /\ Answer("ok")
    BY DEF EnableOrRestart, At
  <2> QED
    BY <1>0, <2>1, RequestForm, AnswerEffect DEF RequestInv
<1>2. /\ enabled \subseteq enabled'
      /\ request.op = "save" /\ request.brand_new /\ request.unit \in Timers =>
           request.unit \in enabled'
      /\ UNCHANGED <<overlay, canonical, loaded, botched, tree, deployVars>>
  BY DEF EnableOrRestart
<1>3. RequestInv'
  BY <1>1 DEF RequestInv
<1>4. ASSUME NEW u \in Units PROVE UnitInv(u)'
  <2>0. /\ UnitInv(u)
        /\ request.unit = u => answer[u] = "none"
        /\ Published(u)' => Published(u)
    BY <1>0, <1>1, <1>4 DEF DeployInv, RequestInv, Published, Pending
  <2>1. EnabledInv(u)'
    BY <1>1, <1>2, <2>0 DEF UnitInv, EnabledInv
  <2>2. OverrideInv(u)'
    BY <1>1, <1>2, <2>0 DEF UnitInv, OverrideInv, Restored, deployVars
  <2>3. ShippedInv(u)'
    BY <1>1, <1>2, <2>0 DEF UnitInv, ShippedInv, UnitsCopied, Resting, deployVars
  <2> QED
    BY <2>1, <2>2, <2>3 DEF UnitInv
<1> QED
  BY <1>3, <1>4

(* A removal keeps its unit pending until the override is gone.            *)
LEMMA StopOrRemoveKeepsUnits ==
  ASSUME DeployInv, StopAndDisable \/ RemoveFile, UNCHANGED deployVars
  PROVE  RequestInv' /\ \A u \in Units : UnitInv(u)'
<1>0. TypeOK /\ RequestInv
  BY DEF DeployInv
<1>1. /\ request.pc \in {"stop", "rm"} /\ request.unit \in Units
      /\ request.op = "remove" /\ request.unit \notin Shipped
      /\ request'.pc \in {"rm", "reload"} /\ request'.op = "remove"
      /\ request'.unit = request.unit
  <2>1. request.pc \in {"stop", "rm"}
    BY DEF StopAndDisable, RemoveFile, At
  <2>2. request.op = "remove" /\ request.unit \notin Shipped /\ request.unit \in Units
    BY <1>0, <2>1, RequestForm DEF RequestInv
  <2> QED
    BY <1>0, <2>1, <2>2, ContinueType DEF StopAndDisable, RemoveFile
<1>2. /\ \A u \in Units : u # request.unit =>
           canonical'[u] = canonical[u] /\ (u \in enabled => u \in enabled')
      /\ UNCHANGED <<overlay, loaded, answer, botched, tree, deployVars>>
  BY <1>0 DEF StopAndDisable, RemoveFile, TypeOK, OverlayTypeOK
<1>3. RequestInv'
  BY <1>0, <1>1, <1>2 DEF RequestInv
<1>4. ASSUME NEW u \in Units, u = request.unit PROVE UnitInv(u)'
  BY <1>1, <1>4
  DEF UnitInv, EnabledInv, OverrideInv, ShippedInv, Published, Pending
<1>5. ASSUME NEW u \in Units, u # request.unit PROVE UnitInv(u)'
  <2>0. UnitInv(u) /\ canonical'[u] = canonical[u] /\ (u \in enabled => u \in enabled')
    BY <1>2, <1>5 DEF DeployInv
  <2>1. EnabledInv(u)'
    BY <1>1, <1>2, <1>5, <2>0 DEF UnitInv, EnabledInv
  <2>2. OverrideInv(u)'
    BY <1>1, <1>2, <1>5, <2>0
    DEF UnitInv, OverrideInv, Published, Pending, Restored, deployVars
  <2>3. ShippedInv(u)'
    BY <1>1, <1>2, <1>5, <2>0
    DEF UnitInv, ShippedInv, Published, Pending, UnitsCopied, Resting, deployVars
  <2> QED
    BY <2>1, <2>2, <2>3 DEF UnitInv
<1> QED
  BY <1>3, <1>4, <1>5

LEMMA UnlinkKeepsUnits ==
  ASSUME DeployInv, UnlinkOverlay, UNCHANGED deployVars
  PROVE  RequestInv' /\ \A u \in Units : UnitInv(u)'
<1>0. TypeOK /\ RequestInv
  BY DEF DeployInv
<1>1. /\ request.pc = "unlink" /\ request.unit \in Units
      /\ request.unit \notin Shipped
      /\ request'.pc = "idle"
      /\ \A u \in Units : u # request.unit => answer'[u] = answer[u]
  <2>1. request.pc = "unlink" /\ Answer("ok")
    BY DEF UnlinkOverlay, At
  <2> QED
    BY <1>0, <2>1, RequestForm, AnswerEffect DEF RequestInv
<1>2. /\ overlay'[request.unit] = Absent
      /\ \A u \in Units : u # request.unit => overlay'[u] = overlay[u]
      /\ botched \ {request.unit} \subseteq botched'
      /\ UNCHANGED <<canonical, loaded, enabled, tree, deployVars>>
  BY <1>0, <1>1 DEF UnlinkOverlay, TypeOK, OverlayTypeOK
<1>3. RequestInv'
  BY <1>1 DEF RequestInv
<1>4. ASSUME NEW u \in Units, u = request.unit PROVE UnitInv(u)'
  BY <1>1, <1>2, <1>4 DEF UnitInv, EnabledInv, OverrideInv, ShippedInv
<1>5. ASSUME NEW u \in Units, u # request.unit PROVE UnitInv(u)'
  <2>0. UnitInv(u) /\ answer'[u] = answer[u] /\ overlay'[u] = overlay[u]
    BY <1>1, <1>2, <1>5 DEF DeployInv
  <2>1. EnabledInv(u)'
    BY <1>1, <1>2, <1>5, <2>0 DEF UnitInv, EnabledInv
  <2>2. OverrideInv(u)'
    BY <1>1, <1>2, <1>5, <2>0
    DEF UnitInv, OverrideInv, Published, Pending, Restored, deployVars
  <2>3. ShippedInv(u)'
    BY <1>1, <1>2, <1>5, <2>0
    DEF UnitInv, ShippedInv, Published, Pending, UnitsCopied, Resting, deployVars
  <2> QED
    BY <2>1, <2>2, <2>3 DEF UnitInv
<1> QED
  BY <1>3, <1>4, <1>5

LEMMA FailureKeepsUnits ==
  ASSUME DeployInv, RequestFails, UNCHANGED deployVars
  PROVE  RequestInv' /\ \A u \in Units : UnitInv(u)'
<1>0. TypeOK
  BY DEF DeployInv
<1>1. /\ request.pc # "idle" /\ request.unit \in Units
      /\ request'.pc = "idle" /\ answer'[request.unit] = "failed"
      /\ \A u \in Units : u # request.unit => answer'[u] = answer[u]
  <2>1. request.pc # "idle" /\ Answer("failed")
    BY DEF RequestFails
  <2> QED
    BY <1>0, <2>1, RequestForm, AnswerEffect
<1>2. /\ botched' = botched \cup {request.unit}
      /\ UNCHANGED <<overlay, canonical, loaded, enabled, tree, deployVars>>
  BY DEF RequestFails
<1>3. RequestInv'
  BY <1>1 DEF RequestInv
<1>4. ASSUME NEW u \in Units, u = request.unit PROVE UnitInv(u)'
  BY <1>1, <1>2, <1>4
  DEF UnitInv, EnabledInv, OverrideInv, ShippedInv, Published
<1>5. ASSUME NEW u \in Units, u # request.unit PROVE UnitInv(u)'
  <2>0. UnitInv(u) /\ answer'[u] = answer[u]
    BY <1>1, <1>5 DEF DeployInv
  <2>1. EnabledInv(u)'
    BY <1>1, <1>2, <1>5, <2>0 DEF UnitInv, EnabledInv
  <2>2. OverrideInv(u)'
    BY <1>1, <1>2, <1>5, <2>0
    DEF UnitInv, OverrideInv, Published, Pending, Restored, deployVars
  <2>3. ShippedInv(u)'
    BY <1>1, <1>2, <1>5, <2>0
    DEF UnitInv, ShippedInv, Published, Pending, UnitsCopied, Resting, deployVars
  <2> QED
    BY <2>1, <2>2, <2>3 DEF UnitInv
<1> QED
  BY <1>3, <1>4, <1>5

LEMMA DashboardKeepsInv ==
  ASSUME DeployInv, DashboardStep
  PROVE  DeployInv'
<1>1. UNCHANGED deployVars /\ Dashboard
  BY DEF DashboardStep
<1>2. TypeOK'
  BY DashboardType DEF DeployInv
<1>3. tree' = tree
  BY <1>1 DEF Dashboard, RequestStep, SaveTimer, RevertTimer, RemoveTimer, Publish,
              DaemonReload, EnableOrRestart, StopAndDisable, RemoveFile,
              UnlinkOverlay, RequestFails
<1>4. WhyInv' /\ PackagesInv'
  BY <1>1, <1>3 DEF DeployInv, WhyInv, PackagesInv, deployVars
<1>5. RequestInv' /\ \A u \in Units : UnitInv(u)'
  BY <1>1, SaveKeepsUnits, RevertKeepsUnits, RemoveKeepsUnits, PublishKeepsUnits,
     ReloadKeepsUnits, SwitchKeepsUnits, StopOrRemoveKeepsUnits, UnlinkKeepsUnits,
     FailureKeepsUnits DEF Dashboard, RequestStep
<1> QED
  BY <1>2, <1>4, <1>5 DEF DeployInv

-----------------------------------------------------------------------------

LEMMA DeployInitially == Init => DeployInv
<1> SUFFICES ASSUME Init PROVE DeployInv
  OBVIOUS
<1> USE DEF Init, InitDeployment, InitOverlay
<1>1. First \in Revisions
  BY FirstType
<1>2. Idle.pc = "idle" /\ Idle.why = "none" /\ Idle \in Deploys
  BY <1>1 DEF Idle, Deploys
<1>3. NoRequest.pc = "idle" /\ NoRequest \in Request
  BY DEF NoRequest, Request
<1>4. canonical \in [Units -> Contents]
  BY <1>1 DEF Default, Contents
<1>5. OverlayTypeOK
  BY <1>3, <1>4, OverlayBoundsAssumption DEF OverlayTypeOK
<1>6. TypeOK
  BY <1>1, <1>2, <1>5 DEF TypeOK, Deploys, Outcomes
<1>7. WhyInv /\ RequestInv /\ PackagesInv
  BY <1>2, <1>3 DEF WhyInv, RequestInv, PackagesInv
<1>8. ASSUME NEW u \in Units PROVE UnitInv(u)
  <2>1. EnabledInv(u) /\ OverrideInv(u)
    BY DEF EnabledInv, OverrideInv
  <2>2. ShippedInv(u)
    BY DEF ShippedInv, Default
  <2> QED
    BY <2>1, <2>2 DEF UnitInv
<1> QED
  BY <1>6, <1>7, <1>8 DEF DeployInv

LEMMA DeployStep == DeployInv /\ [Next]_vars => DeployInv'
<1> SUFFICES ASSUME DeployInv, [Next]_vars PROVE DeployInv'
  OBVIOUS
<1>1. CASE Push \/ Start \/ ScriptStep \/ Kill
  BY <1>1, ScriptKeepsInv
<1>2. CASE DashboardStep
  BY <1>2, DashboardKeepsInv
<1>3. CASE UNCHANGED vars
  <2> USE <1>3 DEF vars, overlayVars, deployVars
  <2>1. TypeOK' /\ WhyInv' /\ RequestInv' /\ PackagesInv'
    BY DEF DeployInv, TypeOK, OverlayTypeOK, WhyInv, RequestInv, PackagesInv
  <2>2. ASSUME NEW u \in Units PROVE UnitInv(u)'
    BY DEF DeployInv, UnitInv, EnabledInv, OverrideInv, ShippedInv, Published, Pending,
           Restored, UnitsCopied, Resting
  <2> QED
    BY <2>1, <2>2 DEF DeployInv
<1> QED
  BY <1>1, <1>2, <1>3 DEF Next

LEMMA DeployInductive == Spec => []DeployInv
<1> QED
  BY DeployInitially, DeployStep, PTL DEF Spec

-----------------------------------------------------------------------------
(* The script is at a command it has, for a reason it has, and every file  *)
(* is one that somebody wrote.                                             *)
THEOREM DeploymentTypeCorrect == Spec => []TypeOK
<1>1. DeployInv => TypeOK
  BY DEF DeployInv
<1> QED
  BY <1>1, DeployInductive, PTL

(* Whatever fails and however often, the packages are those of the code    *)
(* that is checked out once a deploy has ended by itself.                  *)
THEOREM PackagesFollowCode == Spec => []PackagesMatchCode
<1>1. DeployInv => PackagesMatchCode
  BY DEF DeployInv, PackagesInv, PackagesMatchCode
<1> QED
  BY <1>1, DeployInductive, PTL

(* No deploy disables a timer of the user's, and none of the requests      *)
(* about it leaves it saved and disabled unless one of them failed.        *)
THEOREM NewTimersAreEnabled == Spec => []NewTimerIsEnabled
<1>1. DeployInv => NewTimerIsEnabled
  <2> SUFFICES ASSUME DeployInv, request.pc = "idle",
                      NEW u \in Timers \ (Shipped \cup botched), overlay[u] # Absent
               PROVE  u \in enabled
    BY DEF NewTimerIsEnabled
  <2>1. EnabledInv(u)
    BY UnitsAssumption DEF DeployInv, UnitInv
  <2> QED
    BY <2>1 DEF EnabledInv
<1> QED
  BY <1>1, DeployInductive, PTL

(* An edit the dashboard confirmed is what systemd runs, for any overlap   *)
(* of requests and deploys, but on the units a rollback left exposed.      *)
THEOREM ConfirmedEditsHold == Spec => []ConfirmedEditInForce
<1>1. DeployInv => ConfirmedEditInForce
  <2> SUFFICES ASSUME DeployInv, Quiet, NEW u \in Units \ exposed,
                      overlay[u] # Absent, answer[u] = "ok"
               PROVE  InForce(u)
    BY DEF ConfirmedEditInForce
  <2>1. OverrideInv(u)
    BY DEF DeployInv, UnitInv
  <2>2. Published(u)
    BY DEF Quiet, Published, Pending
  <2> QED
    BY <2>1, <2>2 DEF OverrideInv, InForce
<1> QED
  BY <1>1, DeployInductive, PTL

(* After a deploy that succeeded, a shipped unit nobody overrides runs as  *)
(* the checked-out revision ships it.                                      *)
THEOREM ShippedUnitsMatchCode == Spec => []UnitsMatchCode
<1>1. DeployInv => UnitsMatchCode
  <2> SUFFICES ASSUME DeployInv, Quiet, outcome = "ok", NEW u \in Shipped,
                      overlay[u] = Absent, answer[u] # "failed"
               PROVE  loaded[u] = tree
    BY DEF UnitsMatchCode
  <2>1. ShippedInv(u)
    BY UnitsAssumption DEF DeployInv, UnitInv
  <2>2. Published(u)
    BY DEF Quiet, Published, Pending
  <2> QED
    BY <2>1, <2>2 DEF ShippedInv, Resting, Quiet
<1> QED
  BY <1>1, DeployInductive, PTL
=============================================================================
