SPECIFICATION FairSpec
CONSTANTS
    c1 = c1
    c2 = c2
    c3 = c3
    Opener = Opener
    Closer = Closer
    None = None
    Call <- MCCall
\* Every caller is called once: the run may end.
CHECK_DEADLOCK FALSE
INVARIANT TypeOK
INVARIANT ConnectedIsServed
INVARIANT DisconnectWaitsForClose
PROPERTY LeavesOwnContexts
PROPERTY CallersReturn
