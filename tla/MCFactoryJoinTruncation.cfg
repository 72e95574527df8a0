SPECIFICATION FairSpec
CONSTANTS
  PageLimit = 1
  MaxPages = 2
  MaxEvents = 2
  MaxBytes = 4
  EventBytes <- LightEvents
  MaxBuffered = 1
  MaxRepairAttempts = 2
  MaxSeq = 2
  InitialLengths = {1}
  MaxSetbacks = 1
  MaxTruncations = 1
  ConsumerKeepsUp = TRUE
INVARIANTS
    InOrderOnce
PROPERTIES
    LoweredOnlyWhenTold
    ComesToRest
