\* A lane may be held longer than max_age_seconds and cleanup_stale may run
\* between a release and the task it woke.
SPECIFICATION Spec
CONSTANTS
    r1 = r1
    r2 = r2
    r3 = r3
    r4 = r4
    chat = chat
    dm = dm
    NoLock = NoLock
    Request <- MCRequest
    Key <- MCKey
    KeyOf <- MCKeyOf
    QuietStale = FALSE
CHECK_DEADLOCK FALSE
INVARIANT Serialized
