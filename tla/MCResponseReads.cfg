\* Deadlock is off: a closed connection, a viewer and a document that is read rest.
SPECIFICATION ReadsSpec
CONSTANTS
    Blocks <- MCBlocks
    Breaks <- MCBreaks
    MaxBlocks = 2
    MaxLine = 4
    Props <- MCProps
    Contents <- MCContents
    NoObject = "none"
    Gone = Gone
    PageBytes = 2
    CeilingBytes = 4
    MaxLoads = 2
    MaxRewrites = 1
    Exact = 4
    MaxId = 2
    Documents <- MCDocuments
    Records <- MCRecords
    MaxAliens = 1
    Loops = {1, 2}
    Stream <- MCStream
    Limits <- MCLimits
    MaxTurns = 2
    MaxSteps = 2
    MaxPublished = 6
    MaxWaiting = 2
    MaxBad = 1
    MaxLate = 1
    MaxGenerations = 2
CHECK_DEADLOCK FALSE
INVARIANTS
    FramesAsSent
    ViewerHonest
    TakenAsSent
    ShownAsMeant
    PreviewTrue
