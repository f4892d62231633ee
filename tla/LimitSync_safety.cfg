SPECIFICATION Spec
CONSTANTS
  Users = {alice}
  Profiles = {p1, p2}
  NoProfile = NoProfile
  Keys = {k1, k2}
  NoKey = NoKey
  Names = {n1, n2}
  Scalars = {s1, s2}
  Quotas = {q0, q1}
  NoQuota = q0
  Owners = {alice}
  MaxEdits = 3
  Changes = {"profile", "assign", "login", "generate", "regenerate", "resync", "loss"}
  Faults = {"gateway", "answer", "database", "kill"}
  Ticker = TRUE
SYMMETRY Symmetry
INVARIANTS IInv KeyInLine EveryoneHasAProfile
