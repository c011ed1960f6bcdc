\* One issue that an operator excludes when it is planned.
SPECIFICATION FairSpec
CONSTANTS
  Issues = {1}
  PRs = {1}
  MaxInFlight = 1
  NoOverride = NoOverride
  Ticks = {t1}
  Deps <- Chain
  ClosingSets <- OneEach
  Overrides <- NoOverrides
  Upsets <- OneSkip
  MaxUpsets = 1
PROPERTIES
  SkippedIsNotPicked
