SPECIFICATION FairSpec
CONSTANTS
  k1 = k1
  k2 = k2
  Keys <- MCKeys
  MaxQueued = 2
  PageLimit = 2
  MaxRepairAttempts = 1
  InitialCommitted = {1}
  MaxCommitted = 3
  MaxSetbacks = 1
  MaxNoise = 3
  SubscribedAtCall = TRUE
INVARIANTS
    ExactlyOnce
PROPERTIES
    JudgedRight
    ThinsNoisiest
    CatchesUp
