SPECIFICATION FairSpec
CONSTANTS
  Runs = {r1}
  Classes = {"file_edit", "external_post"}
  KillStates = {"clear", "unreadable"}
  MaxConcurrent = 1
  MaxSteps = 2
  MaxFaults = 1
INVARIANTS
  GatedEffects
  OneRecordPerStep
PROPERTIES
  DecisionFinal
  RunsSettle
CHECK_DEADLOCK FALSE
