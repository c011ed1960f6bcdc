\* Four deliveries, three of them relevant, and a restart of the dashboard; two
\* workflow runs against a window of two passes and a threshold of three; two
\* ticking processes; three updates to the bot, two to an answer.
SPECIFICATION FairSpec
CONSTANTS
  Deliveries = {d1, d2, d3, d4}
  Relevant = {d1, d2, d3}
  MaxRestarts = 1
  Window = 2
  Threshold = 3
  MaxRuns = 2
  MaxMishaps = 1
  MaxFlips = 1
  Tickers = {t1, t2}
  MaxPosts = 5
  MaxTurns = 4
  MaxDeaths = 1
  MaxUpdates = 3
  Limit = 2
  MaxFaults = 2
INVARIANTS
  TypeOK
  NoLostDelivery
  
  ReportedOnce
  OneAlertPerEpisode
  
PROPERTIES
  EveryDeliverySeen
  WorkflowsFollow
  
  
CHECK_DEADLOCK FALSE
