\* Evidence on models of which the baseline has a GlobalId twice, and the other
\* sessions as small as they can be.
SPECIFICATION ServicesSpec
CONSTANTS
  Fields <- ThreeFields
  Paths <- TwoPaths
  FieldOf <- Names
  Partner <- Others
  Unit = 1
  MaxValue = 1
  Ranges = {}
  MaxChanges = 1
  MaxProposals = 0
  Contracts <- NoContracts
  Edited <- NoContracts
  Inch = 2
  Jobs <- Duplicated
  Profile <- FabProfile
  Budget <- SmallBudget
INVARIANT DuplicatesAreAmbiguous
