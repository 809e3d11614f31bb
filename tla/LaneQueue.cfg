\* Whoever holds or hands over a lane does so within max_age_seconds.
SPECIFICATION FairSpec
CONSTANTS
    r1 = r1
    r2 = r2
    r3 = r3
    r4 = r4
    chat = chat
    dm = dm
    NoLock = NoLock
    Request <- MCRequest
    Key <- MCKey
    KeyOf <- MCKeyOf
    QuietStale = TRUE
CHECK_DEADLOCK FALSE
INVARIANT TypeOK
INVARIANT Serialized
INVARIANT NoLostWakeUp
INVARIANT InUseStaysRegistered
PROPERTY ImplementsFifoLanes
PROPERTY EveryRequestServed
