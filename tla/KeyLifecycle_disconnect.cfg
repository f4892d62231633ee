SPECIFICATION Spec
CONSTANTS
  Users = {alice}
  Reqs = {r1, r2}
  Keys = {k1, k2, k3}
  NoUser = NoUser
  NoKey = NoKey
  MaxDate = 1
  Faults = {"client"}
INVARIANT NoLeakedKey
