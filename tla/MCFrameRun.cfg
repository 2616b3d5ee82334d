\* Two members, three section properties, sections in 1..5 and three repairs.
SPECIFICATION Spec
CONSTANTS
  column = column
  beam = beam
  Members <- Columns
  Paths <- ThreePaths
  Parameters <- ThreeParameters
  MaxParameters = 3
  MaxValue = 5
  MaxIterations = 3
  MaxChanges = 2
  HighEnergy = 1
CHECK_DEADLOCK FALSE
INVARIANTS PassedIsProven RepairsStayDeclared
PROPERTIES ImplementsBoundedRepair
