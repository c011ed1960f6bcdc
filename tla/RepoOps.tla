------------------------------ MODULE RepoOps ------------------------------
(***************************************************************************)
(* Changing the engine's own repository over GitHub's git data API:        *)
(* commit_multi_file_change and merge_pull_request of                      *)
(* orclaw/github_repo_ops.py behind the specialist's propose_engine_change *)
(* and merge_engine_pr, used by several chats at once while people push.   *)
(*                                                                         *)
(* A commit is the pair of its parent's files and its own.  Blobs, trees   *)
(* and commits are visible to nobody until a branch names them, so the     *)
(* requests that make them are one step after the read of main.  "api" is  *)
(* the only fault: a request raises, and may have been carried out.        *)
(***************************************************************************)
EXTENDS Naturals, Sequences, FiniteSets

CONSTANTS Files, Chats,
          Branches,      \* names the chats choose from
          NoCommit,      \* there is no such branch
          MaxProposals, MaxPushes, MaxApiFailures

(* Contents of a file: 0 at first, the number of a proposal, and above all *)
(* of those the number of a push.                                          *)
Content == 0 .. MaxProposals + MaxPushes

Commits == [parent : [Files -> Content], tree : [Files -> Content]]

ASSUME NoCommitAssumption == NoCommit \notin Commits
ASSUME RepoBoundsAssumption ==
  MaxProposals \in Nat /\ MaxPushes \in Nat /\ MaxApiFailures \in Nat

VARIABLES
  trunk,      \* the files of main
  branches,   \* the commit of each branch
  pulls,      \* the PRs, by number: their branch, state and proposal
  chat,       \* a call of propose_engine_change in each chat
  proposals,  \* how many were made; contents are numbered by it
  pushes, apiFailures

repoVars == <<trunk, branches, pulls, chat, proposals, pushes, apiFailures>>

NoCall == [pc |-> "idle"]

RepoInit ==
  /\ trunk = [f \in Files |-> 0]
  /\ branches = [b \in Branches |-> NoCommit]
  /\ pulls = <<>>
  /\ chat = [c \in Chats |-> NoCall]
  /\ proposals = 0 /\ pushes = 0 /\ apiFailures = 0

ApiFails == apiFailures < MaxApiFailures /\ apiFailures' = apiFailures + 1

Answer(ok) == IF ok THEN UNCHANGED apiFailures ELSE ApiFails

-----------------------------------------------------------------------------

(* propose_engine_change with at least one file and a prefixed branch.     *)
Propose(c) ==
  /\ chat[c].pc = "idle"
  /\ proposals < MaxProposals
  /\ proposals' = proposals + 1
  /\ \E S \in (SUBSET Files) \ {{}}, b \in Branches :
       chat' = [chat EXCEPT ![c] = [pc |-> "read", files |-> S, branch |-> b,
                                    content |-> proposals + 1]]
  /\ UNCHANGED <<trunk, branches, pulls, pushes, apiFailures>>

Overlaid(files, S, content) == [f \in Files |-> IF f \in S THEN content ELSE files[f]]

Stop(c) == chat' = [chat EXCEPT ![c] = NoCall]

(* The ref of main and the tree of that very commit.                       *)
ReadBase(c) ==
  /\ chat[c].pc = "read"
  /\ \E ok \in BOOLEAN :
       /\ Answer(ok)
       /\ IF ok THEN chat' = [chat EXCEPT ![c] =
                       [pc |-> "commit", files |-> chat[c].files, branch |-> chat[c].branch,
                        content |-> chat[c].content, base |-> trunk]]
                ELSE Stop(c)
  /\ UNCHANGED <<trunk, branches, pulls, proposals, pushes>>

(* Mutant: main is read again for the parent of the commit.                *)
CommitOnNewest(c) ==
  /\ chat[c].pc = "commit"
  /\ chat' = [chat EXCEPT ![c] =
       [pc |-> "branch", files |-> chat[c].files, branch |-> chat[c].branch,
        content |-> chat[c].content,
        commit |-> [parent |-> trunk,
                    tree |-> Overlaid(chat[c].base, chat[c].files, chat[c].content)]]]
  /\ UNCHANGED <<trunk, branches, pulls, proposals, pushes, apiFailures>>

(* Blobs, a tree over base_tree, a commit on base_sha.                     *)
Commit(c) ==
  /\ chat[c].pc = "commit"
  /\ \E ok \in BOOLEAN :
       /\ Answer(ok)
       /\ IF ok THEN chat' = [chat EXCEPT ![c] =
            [pc |-> "branch", files |-> chat[c].files, branch |-> chat[c].branch,
             content |-> chat[c].content,
             commit |-> [parent |-> chat[c].base,
                         tree |-> Overlaid(chat[c].base, chat[c].files, chat[c].content)]]]
          ELSE Stop(c)
  /\ UNCHANGED <<trunk, branches, pulls, proposals, pushes>>

(* Mutant: a branch of that name is moved.                                 *)
ForceBranch(c) ==
  /\ chat[c].pc = "branch"
  /\ branches' = [branches EXCEPT ![chat[c].branch] = chat[c].commit]
  /\ chat' = [chat EXCEPT ![c].pc = "pull"]
  /\ UNCHANGED <<trunk, pulls, proposals, pushes, apiFailures>>

(* Mutant: the answer is not looked at.                                    *)
CreateBranchUnchecked(c) ==
  /\ chat[c].pc = "branch"
  /\ UNCHANGED branches
  /\ chat' = [chat EXCEPT ![c].pc = "pull"]
  /\ UNCHANGED <<trunk, pulls, proposals, pushes, apiFailures>>

(* GitHub refuses a ref that exists; what a failed call left is in the way *)
(* of the next one by that name.                                           *)
CreateBranch(c) ==
  /\ chat[c].pc = "branch"
  /\ LET free == branches[chat[c].branch] = NoCommit IN
     \E carried_out \in {FALSE, free}, ok \in {FALSE, free} :
       /\ ok => carried_out
       /\ IF free THEN Answer(ok) ELSE UNCHANGED apiFailures
       /\ branches' = IF carried_out
                      THEN [branches EXCEPT ![chat[c].branch] = chat[c].commit]
                      ELSE branches
       /\ IF ok THEN chat' = [chat EXCEPT ![c].pc = "pull"] ELSE Stop(c)
  /\ UNCHANGED <<trunk, pulls, proposals, pushes>>

OpenPullRequest(c) ==
  /\ chat[c].pc = "pull"
  /\ \E carried_out, ok \in BOOLEAN :
       /\ ok => carried_out
       /\ Answer(ok)
       /\ pulls' = IF carried_out
                   THEN Append(pulls, [branch |-> chat[c].branch, state |-> "open",
                                       files |-> chat[c].files, content |-> chat[c].content])
                   ELSE pulls
  /\ Stop(c)
  /\ UNCHANGED <<trunk, branches, proposals, pushes>>

-----------------------------------------------------------------------------

(* GitHub's three-way merge, file by file.                                 *)
HeadCommit(n) == branches[pulls[n].branch]
Changed(n) == {f \in Files : HeadCommit(n).tree[f] # HeadCommit(n).parent[f]}
Merged(n) ==
  [f \in Files |-> IF f \in Changed(n) THEN HeadCommit(n).tree[f] ELSE trunk[f]]
Mergeable(n) ==
  \A f \in Changed(n) : trunk[f] \in {HeadCommit(n).parent[f], HeadCommit(n).tree[f]}

(* merge_engine_pr with confirm=True, by any chat, whether or not the      *)
(* answer comes back; a conflict and a closed PR are refused.              *)
MergePullRequest(n) ==
  /\ pulls[n].state = "open" /\ Mergeable(n)
  /\ trunk' = Merged(n)
  /\ pulls' = [pulls EXCEPT ![n].state = "merged"]
  /\ UNCHANGED <<branches, chat, proposals, pushes, apiFailures>>

(* Somebody else changes a file on main.                                   *)
Push(f) ==
  /\ pushes < MaxPushes
  /\ pushes' = pushes + 1
  /\ trunk' = [trunk EXCEPT ![f] = MaxProposals + pushes + 1]
  /\ UNCHANGED <<branches, pulls, chat, proposals, apiFailures>>

ChatStep(c) ==
  Propose(c) \/ ReadBase(c) \/ Commit(c) \/ CreateBranch(c) \/ OpenPullRequest(c)

RepoNext ==
  \/ \E c \in Chats : ChatStep(c)
  \/ \E n \in DOMAIN pulls : MergePullRequest(n)
  \/ \E f \in Files : Push(f)

RepoSpec == RepoInit /\ [][RepoNext]_repoVars

-----------------------------------------------------------------------------

(* A call has the locals of the step it is at.                             *)
Calls ==
  {NoCall}
  \cup [pc : {"read"}, files : SUBSET Files, branch : Branches, content : Content]
  \cup [pc : {"commit"}, files : SUBSET Files, branch : Branches, content : Content,
        base : [Files -> Content]]
  \cup [pc : {"branch", "pull"}, files : SUBSET Files, branch : Branches,
        content : Content, commit : Commits]

PullRequests == [branch : Branches, state : {"open", "merged"},
                 files : SUBSET Files, content : Content]

RepoTypeOK ==
  /\ trunk \in [Files -> Content]
  /\ branches \in [Branches -> Commits \cup {NoCommit}]
  /\ pulls \in Seq(PullRequests)
  /\ \A n \in DOMAIN pulls : HeadCommit(n) # NoCommit
  /\ chat \in [Chats -> Calls]
  /\ proposals \in 0 .. MaxProposals
  /\ pushes \in 0 .. MaxPushes /\ apiFailures \in 0 .. MaxApiFailures

(* What a PR shows to the one who reviews it is what its chat proposed,    *)
(* until it is merged: a call that picks the name of another's branch, or  *)
(* of one that a failed call left behind, changes no PR.                   *)
PullShowsProposal ==
  \A n \in DOMAIN pulls :
    \A f \in pulls[n].files : HeadCommit(n).tree[f] = pulls[n].content

(* A merge takes over what was proposed for the files it names and leaves  *)
(* what others changed in the meantime alone, although the whole tree was  *)
(* built on the main of an earlier moment.                                 *)
MergeLosesNoUpdate ==
  [][\A n \in DOMAIN pulls :
       pulls'[n].state # pulls[n].state =>
         \A f \in Files :
           trunk'[f] = IF f \in pulls[n].files THEN pulls[n].content ELSE trunk[f]]_repoVars
=============================================================================
