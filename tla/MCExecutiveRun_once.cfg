SPECIFICATION Spec
CONSTANTS
  Runs = {r1}
  Classes = {"file_edit"}
  KillStates = {"clear"}
  MaxConcurrent = 1
  MaxSteps = 1
  MaxFaults = 1
INVARIANT EffectsExactlyOnce
CHECK_DEADLOCK FALSE
