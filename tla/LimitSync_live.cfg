SPECIFICATION FairSpec
CONSTANTS
  Users = {alice, bob}
  Profiles = {p1, p2}
  NoProfile = NoProfile
  Keys = {k1, k2}
  NoKey = NoKey
  Names = {n1, n2}
  Scalars = {s1}
  Quotas = {q0, q1}
  NoQuota = q0
  Owners = {alice, bob}
  MaxEdits = 2
  Changes = {"profile", "assign", "login", "expiry"}
  Faults = {"gateway"}
  Ticker = FALSE
INVARIANT OwnerInLine
PROPERTIES RunEnds NothingForgotten
CHECK_DEADLOCK FALSE
