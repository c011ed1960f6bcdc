\* Violation: two overlapping ticks and a ceiling of one session.
SPECIFICATION Spec
CONSTANTS
  Issues = {1, 2}
  PRs = {1, 2}
  MaxInFlight = 1
  NoOverride = NoOverride
  Ticks = {t1, t2}
  Deps <- Chain
  ClosingSets <- OneEach
  Overrides <- NoOverrides
  Upsets <- NoUpsets
  MaxUpsets = 0
INVARIANTS
  SessionsWithinCeiling
