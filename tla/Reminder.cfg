SPECIFICATION FairSpec
CONSTANTS
  Users = {alice, bob}
  Unlucky = {bob}
  Thresholds <- MCThresholds
  Durations = {1, 3}
  MaxEdits = 3
  MaxFaults = 1
INVARIANTS IInv AtMostOnce NoticeIsHonest
PROPERTY Warned
