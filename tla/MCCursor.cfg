\* Violation: nothing goes wrong, and a PR merges while pollback is at work.
SPECIFICATION FairSpec
CONSTANTS
  Issues = {1}
  PRs = {1}
  MaxInFlight = 1
  NoOverride = NoOverride
  Ticks = {t1}
  Deps <- Chain
  ClosingSets <- OneEach
  Overrides <- NoOverrides
  Upsets <- NoUpsets
  MaxUpsets = 0
PROPERTIES
  EveryMergeIsNoticed
