SPECIFICATION Spec
CONSTANTS
  People = {alice, bob}
  Nobody = Nobody
  Tabs = {t1, t2}
  MaxLogins = 2
  MaxFaults = 1
SYMMETRY Symmetry
INVARIANTS IInv FlagFollowsClaim CutOff CallbackFindsState RefusedOnlyForRival
PROPERTY LastRemovalIsCrossed
