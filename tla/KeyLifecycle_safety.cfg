SPECIFICATION Spec
CONSTANTS
  Users = {alice}
  Reqs = {r1, r2}
  Keys = {k1, k2}
  NoUser = NoUser
  NoKey = NoKey
  MaxDate = 2
  Faults = {"gateway", "answer", "database", "client", "kill", "loss"}
SYMMETRY Symmetry
INVARIANTS IInv NoUnexplainedKey ShownDateIsReal HeldByWork
PROPERTIES GenerateKeepsAKey ImplementsKeyTable NoStaleWrite
