SPECIFICATION Spec
CONSTANTS
  Users = {alice}
  Profiles = {p1, p2}
  NoProfile = NoProfile
  Keys = {k1, k2}
  NoKey = NoKey
  Names = {n1}
  Scalars = {s1}
  Quotas = {q0, q1}
  NoQuota = q0
  Owners = {alice}
  MaxEdits = 3
  Changes = {"profile", "regenerate"}
  Faults = {}
  Ticker = TRUE
INVARIANT LimitsInLine
