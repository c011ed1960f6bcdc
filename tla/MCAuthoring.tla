---------------------------- MODULE MCAuthoring ----------------------------
(***************************************************************************)
(* What the specialist writes to GitHub by several requests: the issues of *)
(* a document, and changes of the engine itself.  The two share no state,  *)
(* so a behaviour exercises one of them, the one `focus' names, and the    *)
(* state spaces add up instead of multiplying.                             *)
(***************************************************************************)
EXTENDS SpecIssueCreator, RepoOps

VARIABLE focus

Names == 1 .. 3
OneIssue == [c \in {1} |-> {}]

Init ==
  /\ CreatorInit /\ RepoInit
  /\ \/ focus = "issues"
     \/ focus = "changes" /\ refs = OneIssue

Next ==
  /\ \/ focus = "issues"  /\ CreatorNext /\ UNCHANGED repoVars
     \/ focus = "changes" /\ RepoNext /\ UNCHANGED creatorVars
  /\ UNCHANGED focus

Spec == Init /\ [][Next]_<<creatorVars, repoVars, focus>>

FairSpec == Spec /\ (focus = "issues" => CreatorFairness)

TypeOK == CreatorTypeOK /\ RepoTypeOK
=============================================================================
