SPECIFICATION Spec
CONSTANTS
  PageLimit = 2
  MaxPages = 2
  MaxEvents = 2
  MaxBytes = 6
  EventBytes <- UnevenEvents
  MaxBuffered = 1
  MaxRepairAttempts = 1
  MaxSeq = 4
  InitialLengths = {1}
  MaxSetbacks = 2
  MaxTruncations = 0
  ConsumerKeepsUp = TRUE
INVARIANTS
    NoHole
    GivesUpOnlyOnFaults
PROPERTIES
    ImplementsFeed
