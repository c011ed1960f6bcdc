----------------------------- MODULE MCChannels -----------------------------
(***************************************************************************)
(* How the engine is told of what happens and tells of it: the push path   *)
(* of the dashboard, the runner monitor, the saturation alert and the      *)
(* Telegram bot.  They share no state, so a behaviour exercises one of     *)
(* them, the one `focus' names, and the state spaces add up instead of     *)
(* multiplying.                                                            *)
(***************************************************************************)
EXTENDS CoalescingTickRunner, RunnerMonitor, SaturationAlert, TelegramBot

VARIABLE focus

Init ==
  /\ PushInit /\ RunnerInit /\ AlertInit /\ BotInit
  /\ focus \in {"push", "runner", "alert", "bot"}
  /\ focus # "runner" => up = TRUE
  /\ focus # "alert" => running = {} /\ saturated = FALSE
  /\ focus # "bot" => stopped = FALSE

Next ==
  /\ \/ focus = "push"   /\ PushNext   /\ UNCHANGED <<runnerVars, alertVars, botVars>>
     \/ focus = "runner" /\ RunnerNext /\ UNCHANGED <<pushVars, alertVars, botVars>>
     \/ focus = "alert"  /\ AlertNext  /\ UNCHANGED <<pushVars, runnerVars, botVars>>
     \/ focus = "bot"    /\ BotNext    /\ UNCHANGED <<pushVars, runnerVars, alertVars>>
  /\ UNCHANGED focus

Spec == Init /\ [][Next]_<<pushVars, runnerVars, alertVars, botVars, focus>>

(* The fairness of each component in the behaviours it is the focus of; in *)
(* the others the event loop has nothing to run.                           *)
Fairness ==
  /\ EventLoop
  /\ WF_runnerVars(focus = "runner" /\ Pass)
  /\ WF_runnerVars(focus = "runner" /\ Elapse)
  /\ WF_botVars(focus = "bot" /\ RunBot)

FairSpec == Spec /\ Fairness

TypeOK == PushTypeOK /\ RunnerTypeOK /\ AlertTypeOK /\ BotTypeOK

(* The monitor is at work in the behaviours it is the focus of.            *)
WorkflowsFollow == focus = "runner" => WorkflowsFollowRunner
=============================================================================
