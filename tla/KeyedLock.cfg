SPECIFICATION FairSpec
CONSTANTS
  Reqs = {r1, r2, r3}
  Users = {alice, bob}
  Objs = {o1, o2, o3}
  NoUser = NoUser
  Nil = Nil
INVARIANTS IInv MutualExclusion EntryWhileInUse
PROPERTIES WaiterIsServed ImplementsMutex
