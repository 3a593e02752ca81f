SPECIFICATION Spec
CONSTANTS
  p1 = p1
  p2 = p2
  p3 = p3
  Absent = Absent
  Placeholder = Placeholder
  Original = Original
  Pipelines = {p1, p2}
  Names = {1, 2}
  NameOf <- DistinctNames
  InitialSkills = {}
  SerialNames = {1, 2}
  Faults = FALSE
INVARIANTS
  RollbackOnFailure
CHECK_DEADLOCK FALSE
