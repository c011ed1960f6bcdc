\* Three revisions, three requests about three units, any two faults.
SPECIFICATION FairSpec
CONSTANTS
  Units = {planner_timer, my_timer, my_service}
  Timers = {planner_timer, my_timer}
  Shipped = {planner_timer}
  Edits <- SavedContents
  Revisions <- Numbers
  Absent = 0
  Stale = 0
  Faults <- EveryFault
  MaxFaults = 2
  MaxRequests = 3
INVARIANTS
  TypeOK
  ConfirmedEditInForce
  UnitsMatchCode
  NewTimerIsEnabled
  

  
CHECK_DEADLOCK FALSE
