SPECIFICATION FairSpec
CONSTANTS
  Users = {alice, bob}
  Unlucky = {bob}
  Profiles = {p1, p2}
  NoProfile = NoProfile
  Default = p1
  Keys = {k1, k2}
  NoKey = NoKey
  MaxEdits = 2
INVARIANTS IInv LiveKeyHasRow RevokedBeforeCleared RevertedOnce OnAProfile
PROPERTIES Reverts SwitchIsPushed
