SPECIFICATION Spec
CONSTANTS
  Forms <- MCForms
  MaxCost = 2
  MaxSpend = 4
  MaxEdits = 2
  MaxFaults = 1
INVARIANTS IInv EachOnce RotationGainsNothing HeadlineIsHonest
