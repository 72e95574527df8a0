\* Deadlock is off: with its attempts spent and nobody mounted the plane rests.
SPECIFICATION PagesSpec
CONSTANTS
    input = input
    gate = gate
    composer = composer
    pane = pane
    card = card
    Controls <- MCControls
    Gates <- MCGates
    Stores <- MCStores
    Owns <- MCOwns
    MaxCommands = 2
    Allowances <- MCAllowances
    Excuses = FALSE
    Route = composer
    RouteKey = input
    Principals = {"ann", "bob"}
    LastPage = 1
    ShellLimits <- MCShellLimits
CHECK_DEADLOCK FALSE
INVARIANTS
    RetainedUntilDecided
    RepliesTold
    InputInSight
    ListOfTheReader
