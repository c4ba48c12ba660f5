CONSTANTS
  Server = {1, 2}
  Runner = {1, 2, 3}
  Job = {1, 2, 3}
  Process = {1, 2, 3}
  MaxCrashes = 1
  Output = {"o1", "o2"}
  Simulation <- FirstIds
  Earlier = "o1"
  NilId = 4
  MaxLaunches = 2
  MaxDeleted = 2
CHECK_DEADLOCK FALSE
SPECIFICATION Spec
INVARIANTS
  TypeOK
  TableIsForeignKey
  OneAtATime
  NotAnOlderScript
PROPERTIES
  OthersStay
  Drains
