SPECIFICATION Spec
CONSTANTS
    m1 = m1
    m2 = m2
    Nobody = Nobody
    Member <- MCMember
    MaxTasks = 3
\* The board is full at MaxTasks and its members may be gone.
CHECK_DEADLOCK FALSE
SYMMETRY Symmetry
INVARIANT TypeOK
INVARIANT BlockedIffWaiting
INVARIANT PoolDependenciesFirst
INVARIANT OneTaskPerMember
PROPERTY ClaimedOnce
