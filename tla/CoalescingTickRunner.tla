------------------------ MODULE CoalescingTickRunner ------------------------
(***************************************************************************)
(* The push path of orclaw/webhooks.py and its endpoint in                 *)
(* orclaw/dashboard/app.py: an accepted delivery schedules a task, the     *)
(* task triggers the runner, and the runner drives one tick at a time and  *)
(* folds what arrives meanwhile into one trailing tick.                    *)
(*                                                                         *)
(* All of it runs in one event loop, so what stands between two awaits is  *)
(* one step: the handler up to create_task, a task up to the tick it       *)
(* awaits, and the end of a tick with the check of _pending and either the *)
(* next tick or the release of the lock.                                   *)
(***************************************************************************)
EXTENDS Naturals, FiniteSets

CONSTANTS Deliveries,  \* webhook deliveries GitHub sends
          Relevant,    \* those verified, and that event_should_trigger takes
          MaxRestarts  \* how often the dashboard may be restarted

ASSUME DeliveriesAssumption == IsFiniteSet(Deliveries) /\ Relevant \subseteq Deliveries
ASSUME MaxRestartsAssumption == MaxRestarts \in Nat

VARIABLES received,  \* deliveries that reached the endpoint
          tasks,     \* background tasks that did not run yet, by delivery
          lock,      \* "held" while the runner drives a tick
          pending,   \* the runner's _pending: "yes" or "no"
          unseen,    \* relevant deliveries no tick has started after
          dropped,   \* those of them whose task died with the dashboard
          ticks,     \* how many ticks the runner drove
          restarts
pushVars == <<received, tasks, lock, pending, unseen, dropped, ticks, restarts>>

PushInit ==
  /\ received = {} /\ tasks = {}
  /\ lock = "free" /\ pending = "no"
  /\ unseen = {} /\ dropped = {}
  /\ ticks = 0 /\ restarts = 0

(* What a tick finds on GitHub includes what every earlier delivery was    *)
(* about.                                                                  *)
StartTick ==
  /\ unseen' = {} /\ dropped' = {}
  /\ ticks' = ticks + 1

(* github_webhook.  Anything else is answered and forgotten.               *)
Receive(d) ==
  /\ d \notin received
  /\ received' = received \cup {d}
  /\ IF d \in Relevant
     THEN tasks' = tasks \cup {d} /\ unseen' = unseen \cup {d}
     ELSE UNCHANGED <<tasks, unseen>>
  /\ UNCHANGED <<lock, pending, dropped, ticks, restarts>>

(* Mutant: a delivery that finds a tick running is dropped.                *)
TriggerDrops(d) ==
  /\ d \in tasks
  /\ tasks' = tasks \ {d}
  /\ IF lock = "held" THEN UNCHANGED <<lock, unseen, dropped, ticks>>
               ELSE lock' = "held" /\ StartTick
  /\ UNCHANGED <<received, pending, restarts>>

(* CoalescingTickRunner.trigger, up to its first await.                    *)
Trigger(d) ==
  /\ d \in tasks
  /\ tasks' = tasks \ {d}
  /\ IF lock = "held"
     THEN pending' = "yes" /\ UNCHANGED <<lock, unseen, dropped, ticks>>
     ELSE lock' = "held" /\ UNCHANGED pending /\ StartTick
  /\ UNCHANGED <<received, restarts>>

(* Mutant: _pending is cleared after the trailing tick, not before.        *)
TickEndsLateReset ==
  /\ lock = "held"
  /\ IF pending = "yes"
     THEN UNCHANGED <<lock, pending>> /\ StartTick
     ELSE lock' = "free" /\ UNCHANGED <<pending, unseen, dropped, ticks>>
  /\ UNCHANGED <<received, tasks, restarts>>

(* A tick returns or raises, which _run_once logs: the loop goes on alike. *)
TickEnds ==
  /\ lock = "held"
  /\ IF pending = "yes"
     THEN pending' = "no" /\ UNCHANGED lock /\ StartTick
     ELSE lock' = "free" /\ UNCHANGED <<pending, unseen, dropped, ticks>>
  /\ UNCHANGED <<received, tasks, restarts>>

(* The dashboard process dies with its tasks and its runner.               *)
DashboardRestart ==
  /\ restarts < MaxRestarts
  /\ restarts' = restarts + 1
  /\ tasks' = {} /\ lock' = "free" /\ pending' = "no"
  /\ dropped' = unseen
  /\ UNCHANGED <<received, unseen, ticks>>

(* The polling fallback: a tick of the systemd timer.                      *)
PollingTick ==
  /\ unseen' = {} /\ dropped' = {}
  /\ UNCHANGED <<received, tasks, lock, pending, ticks, restarts>>

PushNext ==
  \/ \E d \in Deliveries : Receive(d) \/ Trigger(d)
  \/ TickEnds
  \/ DashboardRestart
  \/ PollingTick

PushSpec == PushInit /\ [][PushNext]_pushVars

(* The event loop runs every task, and a tick ends: each of its requests   *)
(* has a timeout.  The polling timer is not part of it.                    *)
EventLoop ==
  /\ \A d \in Deliveries : WF_pushVars(Trigger(d))
  /\ WF_pushVars(TickEnds)

PushFairSpec == PushSpec /\ EventLoop

-----------------------------------------------------------------------------

PushTypeOK ==
  /\ received \subseteq Deliveries
  /\ tasks \subseteq Deliveries
  /\ lock \in {"free", "held"} /\ pending \in {"yes", "no"}
  /\ unseen \subseteq Deliveries /\ dropped \subseteq Deliveries
  /\ ticks \in Nat
  /\ restarts \in 0 .. MaxRestarts

(* No delivery falls between the last look at _pending and the release of  *)
(* the lock: one that no tick has started after is scheduled, or will be   *)
(* answered by the trailing tick, unless the dashboard died with it.       *)
NoLostDelivery ==
  \A d \in unseen : d \in tasks \/ d \in dropped \/ (lock = "held" /\ pending = "yes")

(* A burst collapses: the runner never drives more ticks than it received  *)
(* relevant deliveries, the ones still owed included.                      *)
Owed == Cardinality(tasks) + IF pending = "yes" THEN 1 ELSE 0
BurstsCollapse == ticks + Owed <= Cardinality(received \cap Relevant)

(* Without any polling, each delivery is followed by a tick that sees it,  *)
(* unless the dashboard dies first.                                        *)
EveryDeliverySeen ==
  \A d \in Deliveries : d \in unseen ~> d \notin unseen \/ d \in dropped
=============================================================================
