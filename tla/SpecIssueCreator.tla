-------------------------- MODULE SpecIssueCreator --------------------------
(***************************************************************************)
(* From a specification document to planned issues:                        *)
(* create_issues_from_spec of orclaw/spec_issue_creator.py, which opens    *)
(* the issues one `gh' call at a time, and the planners that may run at    *)
(* any moment meanwhile (the timer's, skip_issue's, the dashboard's).      *)
(*                                                                         *)
(* A document is the function from each codename to the codenames its body *)
(* refers to; codenames are numbers, in alphabetical order.  An issue is   *)
(* named by its number, its place in the sequence `issues'.  A body is     *)
(* what matters of it: the numbers it refers to and the codenames left in  *)
(* it.  Every document is an initial state.                                *)
(***************************************************************************)
EXTENDS BatchAlgorithm, Sequences

CONSTANTS Codenames,   \* what a document may define
          Unknown,     \* a codename it refers to without defining it
          Planners,    \* processes that run the planner
          PerPage,     \* issues in a page of GitHub's list
          MaxIssues,   \* that exist before the tool is run no more
          MaxRefusals  \* gh calls that exit non-zero

ASSUME CodenamesAssumption ==
  Codenames \subseteq Nat /\ IsFiniteSet(Codenames) /\ Unknown \notin Codenames
ASSUME CreatorBoundsAssumption ==
  PerPage \in Nat \ {0} /\ MaxIssues \in Nat /\ MaxRefusals \in Nat

VARIABLES
  refs,      \* the document
  creator,   \* a run of the tool: the order, what it created so far
  issues,    \* the issues on GitHub
  rows,      \* the active rows of `batches', with their layers
  scan,      \* a run of each planner
  refusals

creatorVars == <<refs, creator, issues, rows, scan, refusals>>

Documents ==
  UNION {[S -> SUBSET (S \cup {Unknown})] : S \in (SUBSET Codenames) \ {{}}}

NotRunning == [pc |-> "idle", order |-> <<>>, mapping |-> <<>>]
NotScanning == [pc |-> "idle", page |-> 0, fetched |-> {}, layer |-> <<>>, existing |-> {}]

CreatorInit ==
  /\ refs \in Documents
  /\ creator = NotRunning
  /\ issues = <<>>
  /\ rows = {}
  /\ scan = [p \in Planners |-> NotScanning]
  /\ refusals = 0

-----------------------------------------------------------------------------
(* parse_spec and topological_order                                        *)

Defined(doc) == DOMAIN doc

Parses(doc) == \A c \in Defined(doc) : doc[c] \subseteq Defined(doc)

Least(S) == CHOOSE c \in S : \A d \in S : c <= d

(* Mutant: an issue is ready as soon as one of its references is ordered.  *)
PopEager(doc, s) ==
  IF s.ready = {} THEN s
  ELSE LET c == Least(s.ready)
           dependents == {d \in Defined(doc) : c \in doc[d]}
       IN  [ordered   |-> Append(s.ordered, c),
            in_degree |-> s.in_degree,
            ready     |-> (s.ready \cup dependents)
                            \ ({s.ordered[k] : k \in DOMAIN s.ordered} \cup {c})]

(* One round of the while loop: the first of the sorted list `ready'.      *)
Pop(doc, s) ==
  IF s.ready = {} THEN s
  ELSE LET c == Least(s.ready)
           in_degree == [d \in Defined(doc) |->
                           s.in_degree[d] - (IF c \in doc[d] THEN 1 ELSE 0)]
           released == {d \in Defined(doc) : c \in doc[d] /\ in_degree[d] = 0}
       IN  [ordered   |-> Append(s.ordered, c),
            in_degree |-> in_degree,
            ready     |-> (s.ready \ {c}) \cup released]

OrderStart(doc) ==
  [ordered   |-> <<>>,
   in_degree |-> [c \in Defined(doc) |-> Cardinality(doc[c])],
   ready     |-> {c \in Defined(doc) : doc[c] = {}}]

(* The state before the loop and after each of its first N rounds.         *)
OrderRounds(doc, N) ==
  LET s[k \in 0 .. N] == IF k = 0 THEN OrderStart(doc) ELSE Pop(doc, s[k - 1])
  IN  s

(* Shorter than the document when there is a cycle.                        *)
Ordered(doc) ==
  LET N == Cardinality(Defined(doc)) IN OrderRounds(doc, N)[N].ordered

Accepted(doc) == Parses(doc) /\ Len(Ordered(doc)) = Cardinality(Defined(doc))

-----------------------------------------------------------------------------
(* create_issues_from_spec                                                 *)

(* The mapping is local to a run: the tool run again starts from nothing.  *)
RunTool ==
  /\ creator.pc = "idle"
  /\ Len(issues) + Cardinality(Defined(refs)) <= MaxIssues
  /\ Accepted(refs)
  /\ creator' = [pc |-> "create", order |-> Ordered(refs), mapping |-> <<>>]
  /\ UNCHANGED <<refs, issues, rows, scan, refusals>>

(* What _substitute_codenames makes of the body of c.                      *)
Body(c, mapping) ==
  [codename   |-> c,
   blocked_by |-> {mapping[d] : d \in refs[c] \cap DOMAIN mapping},
   left       |-> refs[c] \ DOMAIN mapping]

(* Mutant: the number is that of the issue to come.                        *)
WithNext(mapping, c, n) ==
  [d \in DOMAIN mapping \cup {c} |-> IF d = c THEN n + 1 ELSE mapping[d]]

With(mapping, c, n) ==
  [d \in DOMAIN mapping \cup {c} |-> IF d = c THEN n ELSE mapping[d]]

Created(c) == issues' = Append(issues, Body(c, creator.mapping))

CreateIssue ==
  /\ creator.pc = "create"
  /\ LET c == Head(creator.order) IN
     /\ Created(c)
     /\ creator' = IF Tail(creator.order) = <<>> THEN NotRunning
                   ELSE [creator EXCEPT
                           !.order = Tail(creator.order),
                           !.mapping = With(creator.mapping, c, Len(issues) + 1)]
  /\ UNCHANGED <<refs, rows, scan, refusals>>

(* Mutant: the loop goes on with the next issue.                           *)
SkipRefused ==
  /\ creator.pc = "create"
  /\ refusals < MaxRefusals /\ refusals' = refusals + 1
  /\ UNCHANGED issues \/ Created(Head(creator.order))
  /\ creator' = IF Tail(creator.order) = <<>> THEN NotRunning
                ELSE [creator EXCEPT !.order = Tail(creator.order)]
  /\ UNCHANGED <<refs, rows, scan>>

(* gh fails, with or without having created the issue, or its output has   *)
(* no number: the tool stops.                                              *)
IssueRefused ==
  /\ creator.pc = "create"
  /\ refusals < MaxRefusals /\ refusals' = refusals + 1
  /\ UNCHANGED issues \/ Created(Head(creator.order))
  /\ creator' = NotRunning
  /\ UNCHANGED <<refs, rows, scan>>

-----------------------------------------------------------------------------
(* run_planner                                                             *)

(* Mutant: only the first page is read.                                    *)
FetchFirstPage(p) ==
  /\ scan[p].pc = "idle"
  /\ scan' = [scan EXCEPT
                ![p].fetched = {n \in 1 .. Len(issues) : Len(issues) - n < PerPage},
                ![p].page = 1, ![p].pc = "read"]
  /\ UNCHANGED <<refs, creator, issues, rows, refusals>>

(* The list comes newest first and by offset, so what is created between   *)
(* two pages moves the rest by one: it repeats an issue, and hides none.   *)
FetchPage(p) ==
  /\ scan[p].pc = "idle" \/ scan[p].pc = "fetch"
  /\ LET from == scan[p].page * PerPage
         here == {n \in 1 .. Len(issues) : LET offset == Len(issues) - n IN
                    from <= offset /\ offset < from + PerPage}
     IN  scan' = [scan EXCEPT
                    ![p].fetched = @ \cup here,
                    ![p].page = @ + 1,
                    ![p].pc = IF Len(issues) > from + PerPage THEN "fetch" ELSE "read"]
  /\ UNCHANGED <<refs, creator, issues, rows, refusals>>

Planned(fetched) ==
  compute_layers([n \in fetched |->
    [state |-> "open", labels |-> {}, blocked_by |-> issues[n].blocked_by]])

(* The rows are read before the transaction begins.                        *)
ReadRows(p) ==
  /\ scan[p].pc = "read"
  /\ \E plan \in {Planned(scan[p].fetched)} :
       /\ ~ plan.cycle
       /\ scan' = [scan EXCEPT ![p].pc = "commit",
                               ![p].layer = plan.layer,
                               ![p].existing = {r.issue : r \in rows}]
  /\ UNCHANGED <<refs, creator, issues, rows, refusals>>

Inserts(p) == DOMAIN scan[p].layer \ scan[p].existing

(* Rows are named by the planner that inserted them too, so that two rows  *)
(* of one issue can be told apart.                                         *)
Upserted(p) ==
  {[r EXCEPT !.layer = IF r.issue \in DOMAIN scan[p].layer
                       THEN scan[p].layer[r.issue] ELSE r.layer] : r \in rows}
  \cup {[issue |-> n, layer |-> scan[p].layer[n], by |-> p] : n \in Inserts(p)}

(* Mutant: without the unique index of schema.sql.                         *)
CommitPlanUnchecked(p) ==
  /\ scan[p].pc = "commit"
  /\ rows' = Upserted(p)
  /\ scan' = [scan EXCEPT ![p] = NotScanning]
  /\ UNCHANGED <<refs, creator, issues, refusals>>

(* A row that another planner inserted meanwhile violates the index, and   *)
(* the whole plan is rolled back.                                          *)
CommitPlan(p) ==
  /\ scan[p].pc = "commit"
  /\ rows' = IF \E r \in rows : r.issue \in Inserts(p) THEN rows ELSE Upserted(p)
  /\ scan' = [scan EXCEPT ![p] = NotScanning]
  /\ UNCHANGED <<refs, creator, issues, refusals>>

PlannerStep(p) == FetchPage(p) \/ ReadRows(p) \/ CommitPlan(p)

CreatorNext ==
  \/ RunTool \/ CreateIssue \/ IssueRefused
  \/ \E p \in Planners : PlannerStep(p)

CreatorSpec == CreatorInit /\ [][CreatorNext]_creatorVars

(* The timer restarts the planner for ever, and a run of it ends: with a   *)
(* plan or on the unique index, for an accepted document has no cycle.     *)
CreatorFairness ==
  \A p \in Planners : []<><<scan[p].pc = "commit" /\ scan'[p].pc = "idle">>_creatorVars

-----------------------------------------------------------------------------

CreatorTypeOK ==
  /\ refs \in Documents
  /\ creator.pc \in {"idle", "create"}
  /\ DOMAIN creator.mapping \subseteq Codenames
  /\ \A c \in DOMAIN creator.mapping : creator.mapping[c] \in 1 .. Len(issues)
  /\ \A k \in DOMAIN creator.order : creator.order[k] \in Codenames
  /\ \A n \in DOMAIN issues : issues[n].codename \in Codenames
  /\ rows \subseteq [issue : 1 .. Len(issues), layer : Nat, by : Planners]
  /\ \A p \in Planners :
       /\ scan[p].pc \in {"idle", "fetch", "read", "commit"}
       /\ scan[p].fetched \subseteq 1 .. Len(issues)
  /\ refusals \in 0 .. MaxRefusals

(* A document is refused exactly when it refers to what it does not define *)
(* or some of its issues refer to each other in a circle (itself included).*)
Circular(doc) ==
  \E S \in (SUBSET Defined(doc)) \ {{}} : \A c \in S : doc[c] \cap S # {}

RefusesExactlyTheUnorderable == Accepted(refs) <=> Parses(refs) /\ ~ Circular(refs)

(* Whatever gh refuses and whenever, no issue is ever visible with a       *)
(* codename left in its body, and each number in it is an older issue of   *)
(* the codename it stands for.                                             *)
ReferencesResolved ==
  \A n \in DOMAIN issues :
    /\ issues[n].left = {}
    /\ \A b \in issues[n].blocked_by :
         b < n /\ issues[b].codename \in refs[issues[n].codename]
    /\ Cardinality(issues[n].blocked_by) = Cardinality(refs[issues[n].codename])

(* The planners may run between any two of the creations, fetch in pages   *)
(* and race each other: an issue has one row, and the issues it is blocked *)
(* by have rows in lower layers.                                           *)
PlanIsSound ==
  /\ \A r, s \in rows : r.issue = s.issue => r = s
  /\ \A r \in rows : \A b \in issues[r.issue].blocked_by :
       \E s \in rows : s.issue = b /\ s.layer < r.layer

(* A planner that loses the race to another is not lost: every issue gets  *)
(* its row.                                                                *)
EveryIssueIsPlanned ==
  \A n \in 1 .. MaxIssues :
    n \in DOMAIN issues ~> \E r \in rows : r.issue = n
=============================================================================
