\* A column and a door on values of up to four microns, and three repairs.
SPECIFICATION Spec
CONSTANTS
  Paths <- TwoPaths
  MaxValue = 8
  Ranges <- OneRange
  Starts <- TwoStarts
  MaxRepairs = 3
CHECK_DEADLOCK FALSE
INVARIANT PassedVerdictStands
PROPERTIES ImplementsBoundedRepair
