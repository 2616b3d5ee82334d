\* Three fields of up to two microns, two paths,
\* one range, one kept proposal; drawings edited once (a plate's twice); all files, models and parts.
SPECIFICATION ServicesSpec
CONSTANTS
  Fields <- ThreeFields
  Paths <- TwoPaths
  FieldOf <- Names
  Partner <- Others
  Unit = 2
  MaxValue = 4
  Ranges <- OneRange
  MaxChanges = 2
  MaxProposals = 1
  Contracts <- AllContracts
  Edited <- FewEdits
  Inch = 2
  Jobs <- AllJobs
  Profile <- FabProfile
  Budget <- SmallBudget
INVARIANTS AppliedAsSeen NeverAppliedTwice
  PassedPlateConforms PassedPipingConforms PassedPlanConforms
  PassedFrameDrawingConforms OwnDrawingIsReadable RoundTripKeepsGeometry
  ComparisonIsOfWholeFiles PassedModelConforms PassedSolidHasEveryHole
