SPECIFICATION Spec
CONSTANTS
    r1 = r1
    r2 = r2
    r3 = r3
    a = a
    b = b
    t1 = t1
    t2 = t2
    t3 = t3
    None = None
    Request <- MCRequest
    Server <- MCServer
    Tool <- MCTool
    Prefixed <- MCDisjoint
\* Every request is made once and the gateway may shut down.
CHECK_DEADLOCK FALSE
SYMMETRY Symmetry
INVARIANT ShutdownClosesAll
