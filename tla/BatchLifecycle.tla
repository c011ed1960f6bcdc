--------------------------- MODULE BatchLifecycle ---------------------------
(***************************************************************************)
(* What the rows of `batches' promise to whoever reads the database (the   *)
(* dashboard, the summary, the specialist): each issue moves on its own    *)
(* from planned over attempted to merged, an attempt is given up only      *)
(* while no PR is known, no two batches share an attempt, and merged is    *)
(* final.                                                                  *)
(***************************************************************************)
EXTENDS Naturals

CONSTANT Issues

VARIABLES status,   \* of each issue: none, pending, in_progress or merged
          attempt,  \* the number of its current attempt, 0 for none
          pr        \* "set" once a PR is known, until then "NULL"

vars == <<status, attempt, pr>>

Init ==
  /\ status = [i \in Issues |-> "none"]
  /\ attempt = [i \in Issues |-> 0]
  /\ pr = [i \in Issues |-> "NULL"]

Plan(i) ==
  /\ status[i] = "none" /\ status'[i] = "pending"
  /\ attempt'[i] = attempt[i] /\ pr'[i] = pr[i]

Start(i) ==
  /\ status[i] = "pending" /\ status'[i] = "in_progress"
  /\ attempt'[i] \in Nat \ {0}
  /\ \A j \in Issues : attempt'[i] # attempt[j]
  /\ pr'[i] = pr[i]

(* A PR turns up, whatever became of the batch meanwhile.                  *)
Link(i) ==
  /\ status'[i] = status[i] /\ attempt'[i] = attempt[i]
  /\ pr'[i] = "set"

GiveUp(i) ==
  /\ status[i] = "in_progress" /\ status'[i] = "pending"
  /\ pr[i] = "NULL" /\ pr'[i] = "NULL"
  /\ attempt'[i] = 0

Land(i) ==
  /\ status[i] \in {"pending", "in_progress"} /\ status'[i] = "merged"
  /\ attempt'[i] = attempt[i]
  /\ pr'[i] = "set"

Stay(i) ==
  /\ status'[i] = status[i] /\ attempt'[i] = attempt[i]
  /\ pr'[i] = pr[i]

(* One transaction of the engine may move several issues.                  *)
Next ==
  \A i \in Issues : Plan(i) \/ Start(i) \/ Link(i) \/ GiveUp(i) \/ Land(i) \/ Stay(i)

Spec == Init /\ [][Next]_vars
=============================================================================
