SPECIFICATION SpecRuns
CONSTANTS
  MaxRows = 1
  OutcomeRows = {1}
  MaxQueued = 2
  MaxTrouble = 0
PROPERTIES
  OnceInOneRun
CHECK_DEADLOCK FALSE
