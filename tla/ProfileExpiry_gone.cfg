SPECIFICATION FairSpec
CONSTANTS
  Users = {alice}
  Unlucky = {}
  Profiles = {p1, p2}
  NoProfile = NoProfile
  Default = p1
  Keys = {k1}
  NoKey = NoKey
  MaxEdits = 2
PROPERTY GoneDestinationFallsBack
