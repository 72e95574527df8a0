SPECIFICATION Spec
CONSTANTS
  PageLimit = 1
  MaxPages = 2
  MaxEvents = 2
  MaxBytes = 4
  EventBytes <- LightEvents
  MaxBuffered = 1
  MaxRepairAttempts = 1
  MaxSeq = 4
  InitialLengths = {1}
  MaxSetbacks = 0
  MaxTruncations = 0
  ConsumerKeepsUp = FALSE
PROPERTIES
    OverflowRepairs
