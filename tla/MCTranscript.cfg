\* Deadlock is off: out of its allowance the session rests.
SPECIFICATION TranscriptSpec
CONSTANTS
    root = root
    child = child
    noLoop = noLoop
    c1 = c1
    c2 = c2
    noCommand = noCommand
    gate = gate
    Root <- root
    Child <- child
    NoLoop <- noLoop
    Commands <- MCCommands
    NoCommand <- noCommand
    Gate <- gate
    Firsts = {0, 1}
    Quiets = {TRUE, FALSE}
    MaxRecords = 5
    Allowances <- MCAllowances
CHECK_DEADLOCK FALSE
SYMMETRY MCSymmetry
INVARIANTS
    ReplayAgrees
    TreeKnown
    QuietlyToldOnce
PROPERTY PartitionGrows
