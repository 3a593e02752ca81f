SPECIFICATION Spec
CONSTANTS
  p1 = p1
  p2 = p2
  p3 = p3
  Absent = Absent
  Placeholder = Placeholder
  Original = Original
  Pipelines = {p1, p2, p3}
  Names = {1, 2}
  NameOf <- TwoNames
  InitialSkills = {1, 2}
  SerialNames = {1, 2}
  Faults = TRUE
INVARIANTS
  TypeOK
  SuccessIsStored
  RegistryServesStored
PROPERTIES
  ExistingKept
  ImplementsCatalog
SYMMETRY Interchangeable
CHECK_DEADLOCK FALSE
