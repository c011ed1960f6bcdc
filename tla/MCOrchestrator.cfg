\* Two chained issues, one PR, one tick at a time, and any two upsets.
SPECIFICATION Spec
CONSTANTS
  Issues = {1, 2}
  PRs = {1}
  MaxInFlight = 2
  NoOverride = NoOverride
  Ticks = {t1}
  Deps <- Chain
  ClosingSets <- OneEach
  Overrides <- OneOrNone
  Upsets <- AllUpsets
  MaxUpsets = 2
INVARIANTS
  TypeOK
  RunOfBatch
  FinishedRunHasPR
  MergedIsBacked
  RunsWithinCeiling
PROPERTIES
  ImplementsLifecycle
  OnlyTimeoutsRetried
  OvertakesOnlyFailedAttempts
