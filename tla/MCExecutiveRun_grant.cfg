SPECIFICATION FairSpec
CONSTANTS
  Runs = {r1}
  Classes = {"file_edit"}
  KillStates = {"clear"}
  MaxConcurrent = 1
  MaxSteps = 1
  MaxFaults = 0
PROPERTY GrantWakesRun
CHECK_DEADLOCK FALSE
