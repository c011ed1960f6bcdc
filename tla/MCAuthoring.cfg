\* Every document of up to three issues; four issues at most before another
\* run of the tool.  Two proposals from two chats, two branch names.
SPECIFICATION FairSpec
CONSTANTS
  Codenames <- Names
  Unknown = 0
  Planners = {timer, tool}
  PerPage = 2
  MaxIssues = 4
  MaxRefusals = 1
  Files = {f1, f2}
  Chats = {c1, c2}
  Branches = {b1, b2}
  NoCommit = NoCommit
  MaxProposals = 2
  MaxPushes = 1
  MaxApiFailures = 1
INVARIANTS
  TypeOK
  RefusesExactlyTheUnorderable
  ReferencesResolved
  
  PullShowsProposal
PROPERTIES
  EveryIssueIsPlanned
  MergeLosesNoUpdate
CHECK_DEADLOCK FALSE
