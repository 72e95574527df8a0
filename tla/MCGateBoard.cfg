\* Deadlock is off: out of its bounds the session rests.
SPECIFICATION Spec
CONSTANTS
    g1 = g1
    g2 = g2
    Gates <- MCGates
    Initial = 0
    TailLimit = 1
    PageLimit = 1
    ShowsAhead = FALSE
    MaxSeq = 4
    MaxTruncations = 1
    MaxPages = 2
    MaxRuns = 2
CHECK_DEADLOCK FALSE
SYMMETRY MCSymmetry
INVARIANT BoardTrue
