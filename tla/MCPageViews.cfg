\* Deadlock is off: a store out of its bounds, with nothing pending, rests, and
\* so does a page that was left.
SPECIFICATION ViewsSpec
CONSTANTS
    Habits <- MCHabits
    MaxGeneration = 4
    MaxEvents = 2
    MaxReports = 3
    MaxDepth = 2
    MaxSeq = 2
    MaxStarts = 2
    MaxTruncations = 1
    Queries = {first, second}
    MaxReads = 3
    After = 3
CHECK_DEADLOCK FALSE
INVARIANT OneRunHeld
PROPERTIES
    ViewTells
    StoreFaithful
    ListTells
    ProbeHonest
