\* Deadlock is off: a store that was closed, with every view gone, rests.
SPECIFICATION FairSpec
CONSTANTS
    a1 = a1
    a2 = a2
    chA = chA
    Binding <- MCBinding
    Channel <- MCChannel
    ChannelOf <- MCChannelOf
    MaxEpoch = 3
    MaxLosses = 2
CHECK_DEADLOCK FALSE
INVARIANTS
    OpenIsHeard
PROPERTIES
    CancelledIsSilent
    NobodyDownUntold
