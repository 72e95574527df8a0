\* Deadlock is off: after its last release the repository rests, and with every
\* request over the tabs do.
SPECIFICATION HostSpec
CONSTANTS
    Builds <- MCBuilds
    Heads <- MCHeads
    MaxReleases = 3
    MaxSignals = 2
    MaxScribbles = 1
    MaxCrashes = 1
    tabA = tabA
    tabB = tabB
    call = call
    again = again
    other = other
    Tabs <- MCTabs
    Calls <- MCCalls
    TabOf <- MCTabOf
    Cap = 2
    Allowances <- MCAllowances
    Kinds <- MCKinds
    Goals <- MCGoals
CHECK_DEADLOCK FALSE
INVARIANTS
    AcceptedServes
    RetryIsSafe
    GoalOnce
    GateStoryTrue
PROPERTIES
    ReleasedWhole
