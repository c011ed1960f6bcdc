\* Violation: three chained issues, one tick at a time, and one session dies.
SPECIFICATION Spec
CONSTANTS
  Issues = {1, 2, 3}
  PRs = {1}
  MaxInFlight = 1
  NoOverride = NoOverride
  Ticks = {t1}
  Deps <- Chain
  ClosingSets <- OneEach
  Overrides <- NoOverrides
  Upsets <- DyingAgents
  MaxUpsets = 1
PROPERTIES
  NeverOvertakesBlocker
