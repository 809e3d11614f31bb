SPECIFICATION Spec
CONSTANTS
    a1 = a1
    a2 = a2
    t1 = t1
    t2 = t2
    daily = daily
    broken = broken
    ApiTask <- MCApiTask
    ToolTask <- MCToolTask
    Cron <- MCCron
    ValidCron <- MCValidCron
\* After the shutdown nothing new begins.
CHECK_DEADLOCK FALSE
INVARIANT TypeOK
INVARIANT QueueHoldsPending
INVARIANT ListedHasJob
INVARIANT StatusTellsRun
PROPERTY AcceptedEnds
