SPECIFICATION Spec
CONSTANTS
  NumTargets = 3
  Labels = {"x", "y"}
  LabelsOf <- TwoLabels
  MaxWrites = 4
INVARIANTS
  WritesAreEven
CHECK_DEADLOCK FALSE
