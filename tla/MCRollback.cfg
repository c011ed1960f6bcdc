\* Violation: the doctor rejects a revision and the script rolls back.
SPECIFICATION Spec
CONSTANTS
  Units = {planner_timer, my_timer}
  Timers = {planner_timer, my_timer}
  Shipped = {planner_timer}
  Edits <- SavedContents
  Revisions <- Numbers
  Absent = 0
  Stale = 0
  Faults <- DoctorFails
  MaxFaults = 1
  MaxRequests = 1
INVARIANTS
  RedeployKeepsEdits
CHECK_DEADLOCK FALSE
