\* Deadlock is off: a machine that was stopped, out of its allowance, rests.
SPECIFICATION FairSpec
CONSTANTS
    Initial = 0
    TailLimit = 1
    MaxSeq = 3
    MaxTruncations = 1
    Allowances <- MCAllowances
CHECK_DEADLOCK FALSE
INVARIANTS
    ShownIsTrue
PROPERTIES
    GateConverges
    EarlierSettles
