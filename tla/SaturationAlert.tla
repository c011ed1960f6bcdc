-------------------------- MODULE SaturationAlert --------------------------
(***************************************************************************)
(* _notify_observability: the end of an apply-mode tick, where it alerts   *)
(* the operator once per saturation episode and keeps in engine_state that *)
(* it did.  The posting to Telegram is awaited between the two, and the    *)
(* ticks of several processes overlap without a lock: `running' are the    *)
(* ones that notify (the timer, the dashboard and the specialist; the bot  *)
(* ticks with notify off).                                                 *)
(***************************************************************************)
EXTENDS Naturals, FiniteSets

CONSTANTS Tickers,
          MaxPosts,    \* bounds `posts'
          MaxTurns,    \* how often the saturation begins or ends
          MaxDeaths    \* how many ticks die

ASSUME TickersAssumption == IsFiniteSet(Tickers)
ASSUME AlertBoundsAssumption ==
  MaxPosts \in Nat /\ MaxTurns \in Nat /\ MaxDeaths \in Nat

VARIABLES
  running,    \* the processes that run ticks in this behaviour
  saturated,  \* cap reached and work waiting
  flag,       \* engine_state.saturation_alert_sent
  at,         \* where each tick is
  seen,       \* decision of each tick: was it saturated
  posts,      \* alerts posted since the flag was last cleared
  turns, fallen

alertVars == <<running, saturated, flag, at, seen, posts, turns, fallen>>

AlertInit ==
  /\ running \in SUBSET Tickers
  /\ saturated \in BOOLEAN /\ flag = FALSE
  /\ at = [t \in Tickers |-> "idle"]
  /\ seen = [t \in Tickers |-> FALSE]
  /\ posts = 0 /\ turns = 0 /\ fallen = 0

(* The tick decides on the state that it loads; dispatching takes a while. *)
Decide(t) ==
  /\ at[t] = "idle"
  /\ seen' = [seen EXCEPT ![t] = saturated]
  /\ at' = [at EXCEPT ![t] = "notify"]
  /\ UNCHANGED <<running, saturated, flag, posts, turns, fallen>>

(* A disabled or failed Telegram counts as posted: the result of           *)
(* post_telegram is not looked at.                                         *)
NotifySaturation(t) ==
  /\ at[t] = "notify" /\ seen[t] /\ ~ flag
  /\ posts < MaxPosts
  /\ posts' = posts + 1
  /\ at' = [at EXCEPT ![t] = "record"]
  /\ UNCHANGED <<running, saturated, flag, seen, turns, fallen>>

(* Mutant: only an alert that was delivered counts.                        *)
RecordDelivered(t) ==
  /\ at[t] = "record"
  /\ flag' \in BOOLEAN
  /\ at' = [at EXCEPT ![t] = "idle"]
  /\ UNCHANGED <<running, saturated, seen, posts, turns, fallen>>

RecordAlert(t) ==
  /\ at[t] = "record"
  /\ flag' = TRUE
  /\ at' = [at EXCEPT ![t] = "idle"]
  /\ UNCHANGED <<running, saturated, seen, posts, turns, fallen>>

ClearAlert(t) ==
  /\ at[t] = "notify" /\ ~ seen[t] /\ flag
  /\ flag' = FALSE /\ posts' = 0
  /\ at' = [at EXCEPT ![t] = "idle"]
  /\ UNCHANGED <<running, saturated, seen, turns, fallen>>

NothingToTell(t) ==
  /\ at[t] = "notify" /\ seen[t] = flag
  /\ at' = [at EXCEPT ![t] = "idle"]
  /\ UNCHANGED <<running, saturated, flag, seen, posts, turns, fallen>>

Notify(t) ==
  NotifySaturation(t) \/ RecordAlert(t) \/ ClearAlert(t) \/ NothingToTell(t)

TickDies(t) ==
  /\ at[t] # "idle"
  /\ fallen < MaxDeaths /\ fallen' = fallen + 1
  /\ at' = [at EXCEPT ![t] = "idle"]
  /\ UNCHANGED <<running, saturated, flag, seen, posts, turns>>

Turn ==
  /\ turns < MaxTurns /\ turns' = turns + 1
  /\ saturated' = ~ saturated
  /\ UNCHANGED <<running, flag, at, seen, posts, fallen>>

AlertNext ==
  \/ \E t \in running : Decide(t) \/ Notify(t) \/ TickDies(t)
  \/ Turn

AlertSpec == AlertInit /\ [][AlertNext]_alertVars

-----------------------------------------------------------------------------

AlertTypeOK ==
  /\ running \subseteq Tickers
  /\ saturated \in BOOLEAN /\ flag \in BOOLEAN
  /\ at \in [Tickers -> {"idle", "notify", "record"}]
  /\ seen \in [Tickers -> BOOLEAN]
  /\ posts \in 0 .. MaxPosts
  /\ turns \in 0 .. MaxTurns /\ fallen \in 0 .. MaxDeaths

(* One alert per saturation episode: overlapping ticks may post one each,  *)
(* and so may a tick that died before it recorded its alert, but no more   *)
(* than that before the flag is cleared; and the flag of a lone process    *)
(* silences it only after an alert.                                        *)
OneAlertPerEpisode ==
  /\ posts <= Cardinality(running) + fallen
  /\ Cardinality(running) = 1 /\ flag => posts > 0
=============================================================================
