SPECIFICATION Spec
CONSTANTS
  Runs = {r1, r2}
  Classes = {"file_edit"}
  KillStates = {"clear", "set"}
  MaxConcurrent = 1
  MaxSteps = 1
  MaxFaults = 1
INVARIANTS
  KillBound
  RowMatchesTask
SYMMETRY Sym
CHECK_DEADLOCK FALSE
