\* Two chained issues, one tick at a time, and at most two implementer sessions
\* that die: every planned issue is delivered all the same.
SPECIFICATION FairSpec
CONSTANTS
  Issues = {1, 2}
  PRs = {1, 2}
  MaxInFlight = 1
  NoOverride = NoOverride
  Ticks = {t1}
  Deps <- Chain
  ClosingSets <- OneEach
  Overrides <- NoOverrides
  Upsets <- DyingAgents
  MaxUpsets = 2
INVARIANTS
  SessionsWithinCeiling
  PendingIsDispatchable
  FinishedRunIsLinked
PROPERTIES
  EveryIssueLands
