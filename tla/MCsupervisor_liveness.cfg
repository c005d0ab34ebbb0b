SPECIFICATION FairSpec
CONSTANTS
    a = a
    b = b
    c = c
    m = m
    n = n
    NULL = NULL
    Tasks <- ThreeTasks
    Clients <- TwoClients
    NumThreads = 2
    InitialAllowed = 2
    Scripts <- DisciplinedScripts
INVARIANTS
    NoLockDeadlock
    NoOrphan
PROPERTIES
    QueuedWhenDue
    ScheduledRuns
    WaitersReturn
