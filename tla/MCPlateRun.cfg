\* Three fields of up to three microns, four paths, two ranges, three iterations.
SPECIFICATION Spec
CONSTANTS
  Fields <- ThreeFields
  Paths <- FourPaths
  FieldOf <- Names
  Partner <- Others
  Unit = 4
  MaxValue = 6
  Ranges <- TwoRanges
  MaxChanges = 2
  Starts <- TwoStarts
  MaxIterations = 3
CHECK_DEADLOCK FALSE
INVARIANTS BundleIsVerified RepairsStayInRange
PROPERTY ImplementsBoundedRepair
