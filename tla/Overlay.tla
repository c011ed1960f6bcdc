------------------------------ MODULE Overlay ------------------------------
(***************************************************************************)
(* The overlay of systemd units: what the dashboard edits without git.     *)
(*                                                                         *)
(* A unit has up to four contents: the one the checkout ships, the one     *)
(* saved under /var/lib/orclaw/overrides, the copy in /etc/systemd/system  *)
(* and the one systemd loaded at its last daemon-reload.  A request of the *)
(* dashboard moves an edit from the overlay to systemd by a chain of       *)
(* subprocesses.  The handlers never await in between, so requests do not  *)
(* overlap each other; the deploy script overlaps them.                    *)
(***************************************************************************)
EXTENDS Naturals, FiniteSets

CONSTANTS Units,       \* names of units, shipped or made by the user
          Timers,      \* the .timer ones
          Shipped,     \* the units the repository ships
          Edits,       \* contents a user may save
          Revisions,   \* commits of main; a commit ships itself as content
          Absent,      \* there is no such file
          Faults,      \* what may go wrong in a behaviour, by name
          MaxFaults, MaxRequests

ASSUME UnitsAssumption == Timers \subseteq Units /\ Shipped \subseteq Units
ASSUME ContentsAssumption ==
  /\ Revisions \subseteq Nat /\ Edits \subseteq Nat /\ Absent \in Nat
  /\ Edits \cap Revisions = {} /\ Absent \notin Edits \cup Revisions
ASSUME OverlayBoundsAssumption == MaxFaults \in Nat /\ MaxRequests \in Nat

VARIABLES
  tree,       \* the revision checked out in /opt/orclaw
  overlay,    \* OverlayPaths.systemd
  canonical,  \* OverlayPaths.systemd_canonical
  loaded,     \* what systemd runs the unit from
  enabled,    \* the enabled timers
  request,    \* the request the dashboard is handling
  answer,     \* how the last request about each unit ended
  botched,    \* units about which a request has failed half way
  requests, faults

overlayVars ==
  <<overlay, canonical, loaded, enabled, request, answer, botched, requests>>

Contents == Edits \cup Revisions \cup {Absent}

(* paths.defaults_systemd / name                                           *)
Default(u) == IF u \in Shipped THEN tree ELSE Absent

NoRequest == [pc |-> "idle"]
Request == {NoRequest} \cup
  [pc : {"publish", "reload", "switch", "stop", "rm", "unlink"},
   op : {"save", "revert", "remove"}, unit : Units, brand_new : BOOLEAN]

InitOverlay ==
  /\ overlay = [u \in Units |-> Absent]
  /\ canonical = [u \in Units |-> Default(u)]
  /\ loaded = canonical
  /\ enabled = Timers \cap Shipped
  /\ request = NoRequest
  /\ answer = [u \in Units |-> "none"]
  /\ botched = {} /\ requests = 0 /\ faults = 0

Fault(f) == f \in Faults /\ faults < MaxFaults /\ faults' = faults + 1

-----------------------------------------------------------------------------

Begin(op, u, step, new) ==
  /\ request.pc = "idle"
  /\ requests < MaxRequests
  /\ requests' = requests + 1
  /\ request' = [pc |-> step, op |-> op, unit |-> u, brand_new |-> new]
  /\ answer' = [answer EXCEPT ![u] = "none"]

At(step) == request.pc = step
Continue(step) == request' = [request EXCEPT !.pc = step]
Answer(a) ==
  /\ request' = NoRequest
  /\ answer' = [answer EXCEPT ![request.unit] = a]

(* Mutant: whether the unit is new is asked after the file was written.    *)
SaveTimerThenAsk(u, content) ==
  /\ Begin("save", u, "publish", FALSE)
  /\ overlay' = [overlay EXCEPT ![u] = content]
  /\ UNCHANGED <<canonical, loaded, enabled, botched, tree, faults>>

(* PUT and POST /api/timers (POST refuses a name that exists).             *)
SaveTimer(u, content) ==
  /\ Begin("save", u, "publish", overlay[u] = Absent /\ Default(u) = Absent)
  /\ overlay' = [overlay EXCEPT ![u] = content]
  /\ UNCHANGED <<canonical, loaded, enabled, botched, tree, faults>>

(* DELETE of an override of a shipped unit.  Without an override it only   *)
(* publishes the shipped content again.                                    *)
RevertTimer(u) ==
  /\ Default(u) # Absent
  /\ Begin("revert", u, "publish", FALSE)
  /\ overlay' = [overlay EXCEPT ![u] = Absent]
  /\ UNCHANGED <<canonical, loaded, enabled, botched, tree, faults>>

(* DELETE of a unit the user made.                                         *)
RemoveTimer(u) ==
  /\ Default(u) = Absent /\ overlay[u] # Absent
  /\ Begin("remove", u, "stop", FALSE)
  /\ UNCHANGED <<overlay, canonical, loaded, enabled, botched, tree, faults>>

(* cp reads its source now, not when the request began.                    *)
Publish ==
  /\ At("publish")
  /\ canonical' = [canonical EXCEPT ![request.unit] =
       IF request.op = "save" THEN overlay[request.unit] ELSE Default(request.unit)]
  /\ Continue("reload")
  /\ UNCHANGED <<overlay, loaded, enabled, answer, botched, requests, tree, faults>>

(* daemon-reload takes in every file of /etc/systemd/system.               *)
DaemonReload ==
  /\ At("reload")
  /\ loaded' = canonical
  /\ Continue(IF request.op = "remove" THEN "unlink" ELSE "switch")
  /\ UNCHANGED <<overlay, canonical, enabled, answer, botched, requests, tree, faults>>

(* Mutant: a new service is enabled as well.                               *)
EnableWhateverIsNew ==
  /\ At("switch")
  /\ enabled' = IF request.op = "save" /\ request.brand_new
                THEN enabled \cup {request.unit} ELSE enabled
  /\ Answer("ok")
  /\ UNCHANGED <<overlay, canonical, loaded, botched, requests, tree, faults>>

(* enable --now for a brand new timer, try-restart for anything else.      *)
EnableOrRestart ==
  /\ At("switch")
  /\ enabled' = IF request.op = "save" /\ request.brand_new /\ request.unit \in Timers
                THEN enabled \cup {request.unit} ELSE enabled
  /\ Answer("ok")
  /\ UNCHANGED <<overlay, canonical, loaded, botched, requests, tree, faults>>

(* stop and disable are best effort.                                       *)
StopAndDisable ==
  /\ At("stop")
  /\ \/ enabled' = enabled \ {request.unit} /\ UNCHANGED faults
     \/ Fault("quiet") /\ UNCHANGED enabled
  /\ Continue("rm")
  /\ UNCHANGED <<overlay, canonical, loaded, answer, botched, requests, tree>>

RemoveFile ==
  /\ At("rm")
  /\ canonical' = [canonical EXCEPT ![request.unit] = Absent]
  /\ Continue("reload")
  /\ UNCHANGED <<overlay, loaded, enabled, answer, botched, requests, tree, faults>>

UnlinkOverlay ==
  /\ At("unlink")
  /\ overlay' = [overlay EXCEPT ![request.unit] = Absent]
  /\ botched' = botched \ {request.unit}
  /\ Answer("ok")
  /\ UNCHANGED <<canonical, loaded, enabled, requests, tree, faults>>

(* A subprocess exits non-zero, or the dashboard dies: the rest of the     *)
(* chain is skipped and what was done stays.                               *)
RequestFails ==
  /\ request.pc \in {"publish", "reload", "switch", "rm"}
  /\ Fault("request")
  /\ Answer("failed")
  /\ botched' = botched \cup {request.unit}
  /\ UNCHANGED <<overlay, canonical, loaded, enabled, requests, tree>>

RequestStep ==
  \/ Publish \/ DaemonReload \/ EnableOrRestart
  \/ StopAndDisable \/ RemoveFile \/ UnlinkOverlay

Dashboard ==
  \/ \E u \in Units :
       \/ \E c \in Edits : SaveTimer(u, c)
       \/ RevertTimer(u) \/ RemoveTimer(u)
  \/ RequestStep \/ RequestFails

OverlayTypeOK ==
  /\ overlay \in [Units -> Edits \cup {Absent}]
  /\ canonical \in [Units -> Contents] /\ loaded \in [Units -> Contents]
  /\ enabled \subseteq Timers
  /\ request \in Request
  /\ answer \in [Units -> {"none", "ok", "failed"}]
  /\ botched \subseteq Units
  /\ requests \in 0 .. MaxRequests /\ faults \in 0 .. MaxFaults

(* systemd runs the unit as the user saved it.                             *)
InForce(u) == canonical[u] = overlay[u] /\ loaded[u] = overlay[u]
=============================================================================
