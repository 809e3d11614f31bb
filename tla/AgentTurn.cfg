SPECIFICATION Spec
CONSTANTS
    w1 = w1
    r1 = r1
    c1 = c1
    c2 = c2
    s1 = s1
    None = None
    Default = s1
    Conns <- MCConns
    Reqs <- MCReqs
    Sessions <- MCSessions
    Calls <- MCCalls
    Ops <- MCOps
    Configs <- MCConfigs
    MaxBatch <- MCMaxBatch
    Contained <- MCContained
    MaxTurns = 2
    MaxChunks = 1
    MaxDecided = 1
    MaxCrashes = 1
SYMMETRY Symmetry
\* A closed connection stays closed.
CHECK_DEADLOCK FALSE
INVARIANT TypeOK
INVARIANT ReviewedBeforeRun
INVARIANT SandboxContains
INVARIANT CallLoggedBeforeRun
INVARIANT FinalTellsWhatWasShown
INVARIANT TurnsAreBracketed
