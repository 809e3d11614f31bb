SPECIFICATION Spec
CONSTANTS
    t1 = t1
    t2 = t2
    j1 = j1
    x1 = x1
    k1 = k1
    None = None
    Default = Default
    Heart = Heart
    LoopTurns <- MCLoopTurns
    ThreadTurns <- MCThreadTurns
    Tools <- MCTools
    ToolFiles <- MCToolFiles
    Cycles <- MCCycles
    MaxStarts = 2
\* A gateway that is down stays down.
CHECK_DEADLOCK FALSE
INVARIANT TypeOK
INVARIANT LostOnlyByDamage
INVARIANT RowsFollowFiles
PROPERTY ArchiveSettles
