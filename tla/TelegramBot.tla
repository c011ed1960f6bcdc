---------------------------- MODULE TelegramBot ----------------------------
(***************************************************************************)
(* run_bot: the long-polling loop that carries the operator's commands out.*)
(* Telegram keeps an update until a getUpdates request with a higher       *)
(* offset reaches it; the bot keeps its offset in memory, so a restart     *)
(* (Restart=on-failure) polls from the oldest update that is still kept.   *)
(*                                                                         *)
(* The updates are numbered from 1.  /tick stands for the commands that    *)
(* await something while they are carried out (/tick, /skip).              *)
(***************************************************************************)
EXTENDS Naturals, Sequences

CONSTANTS MaxUpdates,
          Limit,       \* most updates in one answer (100 at Telegram)
          MaxFaults    \* restarts of the bot and polls that fail

ASSUME LimitAssumption == Limit \in Nat \ {0}
ASSUME BotBoundsAssumption == MaxUpdates \in Nat /\ MaxFaults \in Nat

VARIABLES
  sent,       \* the updates, in the order of their numbers
  kept,       \* oldest update that Telegram still keeps
  offset,     \* local variable of run_bot
  updates,    \* the updates of the current answer still to be handled
  handling,   \* the command that is being carried out, 0 for none
  handled,    \* how often each update was carried out
  stopped,    \* engine_state.orchestrator_paused
  faults

botVars == <<sent, kept, offset, updates, handling, handled, stopped, faults>>

Ids == 1 .. MaxUpdates
Commands == {"pause", "resume", "tick"}
Update == [ours : BOOLEAN, text : Commands]

BotInit ==
  /\ sent = <<>> /\ kept = 1
  /\ offset = 0 /\ updates = <<>> /\ handling = 0
  /\ handled = [u \in Ids |-> 0]
  /\ stopped \in BOOLEAN
  /\ faults = 0

Fault == faults < MaxFaults /\ faults' = faults + 1

(* The chat of the operator, or somebody else who found the bot.           *)
Send ==
  /\ Len(sent) < MaxUpdates
  /\ \E u \in Update : sent' = Append(sent, u)
  /\ UNCHANGED <<kept, offset, updates, handling, handled, stopped, faults>>

-----------------------------------------------------------------------------

Waiting == updates = <<>> /\ handling = 0

Forget == IF offset > kept THEN offset ELSE kept

(* The long poll, answered once there is something to answer.              *)
Answer == [k \in 1 .. (IF Len(sent) - Forget + 1 < Limit
                       THEN Len(sent) - Forget + 1 ELSE Limit) |-> Forget + k - 1]

Poll ==
  /\ Waiting
  /\ Forget <= Len(sent)
  /\ kept' = Forget
  /\ updates' = Answer
  /\ UNCHANGED <<sent, offset, handling, handled, stopped, faults>>

(* A poll that times out may still have told Telegram the offset.          *)
PollFails ==
  /\ Waiting
  /\ kept' \in {kept, Forget}
  /\ Fault
  /\ UNCHANGED <<sent, offset, updates, handling, handled, stopped>>

Rejected(u) == ~ sent[u].ours

(* Mutant: a rejected update ends the loop over the answer.                *)
TakeUntilRejected ==
  /\ updates # <<>> /\ handling = 0
  /\ LET u == Head(updates)
     IN  /\ offset' = updates[Len(updates)] + 1
         /\ handling' = IF Rejected(u) THEN 0 ELSE u
         /\ updates' = IF Rejected(u) THEN <<>> ELSE Tail(updates)
  /\ UNCHANGED <<sent, kept, handled, stopped, faults>>

(* Mutant: the offset moves only past the updates that are carried out.    *)
TakeOurs ==
  /\ updates # <<>> /\ handling = 0
  /\ LET u == Head(updates)
     IN  /\ offset' = IF Rejected(u) THEN offset ELSE u + 1
         /\ handling' = IF Rejected(u) THEN 0 ELSE u
  /\ updates' = Tail(updates)
  /\ UNCHANGED <<sent, kept, handled, stopped, faults>>

(* The offset moves before the update is looked at.                        *)
Take ==
  /\ updates # <<>> /\ handling = 0
  /\ LET u == Head(updates)
     IN  /\ offset' = u + 1
         /\ handling' = IF Rejected(u) THEN 0 ELSE u
  /\ updates' = Tail(updates)
  /\ UNCHANGED <<sent, kept, handled, stopped, faults>>

(* _dispatch: a handler that raises is answered like one that returns.     *)
_cmd_pause == sent[handling].text = "pause" /\ stopped' = TRUE
_cmd_resume == sent[handling].text = "resume" /\ stopped' = FALSE
_cmd_tick == sent[handling].text = "tick" /\ UNCHANGED stopped

Dispatch ==
  /\ handling # 0
  /\ _cmd_pause \/ _cmd_resume \/ _cmd_tick
  /\ handled' = [handled EXCEPT ![handling] = @ + 1]
  /\ handling' = 0
  /\ UNCHANGED <<sent, kept, offset, updates, faults>>

(* The process dies, possibly with a command carried out and not told, and *)
(* systemd starts it again.                                                *)
Restart ==
  /\ Fault
  /\ offset' = 0 /\ updates' = <<>> /\ handling' = 0
  /\ UNCHANGED <<sent, kept, handled, stopped>>

RunBot == Poll \/ Take \/ Dispatch

BotNext == Send \/ RunBot \/ PollFails \/ Restart

BotSpec == BotInit /\ [][BotNext]_botVars

(* The loop never ends.                                                    *)
BotFairness == WF_botVars(RunBot)

-----------------------------------------------------------------------------

BotTypeOK ==
  /\ sent \in Seq(Update) /\ Len(sent) <= MaxUpdates
  /\ kept \in 1 .. MaxUpdates + 1 /\ offset \in 0 .. MaxUpdates + 1
  /\ updates \in Seq(Ids) /\ Len(updates) <= Limit
  /\ handling \in {0} \cup Ids
  /\ handled \in [Ids -> Nat]
  /\ stopped \in BOOLEAN
  /\ faults \in 0 .. MaxFaults

Ours == {u \in 1 .. Len(sent) : sent[u].ours}

(* Telegram forgets no command that was not carried out: a restart in the  *)
(* middle of an answer loses none of the rest.                             *)
NothingForgotten == \A u \in Ours : u < kept => handled[u] > 0

(* When the bot has caught up, the switch is where the operator's last     *)
(* command put it, although a restart has commands carried out again.      *)
Orders == {u \in Ours : sent[u].text \in {"pause", "resume"}}

LastOrderInForce ==
  Waiting /\ offset > Len(sent) =>
    \A u \in Orders :
      (\A v \in Orders : v <= u) => stopped = (sent[u].text = "pause")

(* Every command of the operator is carried out, however many strangers    *)
(* write to the bot.                                                       *)
EveryCommandRuns == \A u \in Ids : u \in Ours ~> handled[u] > 0
=============================================================================
