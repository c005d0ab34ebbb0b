SPECIFICATION Spec
CONSTANTS
    a = a
    b = b
    c = c
    m = m
    n = n
    NULL = NULL
    Tasks <- TwoTasks
    Clients <- TwoClients
    NumThreads = 3
    InitialAllowed = 2
    Scripts <- RacingScripts
INVARIANTS
    TypeOK
    RunOnce
    NoLostWakeup
    NoForgottenWaiter
PROPERTIES
    QueuedWhenDue
    WaitReturnsSettled
    CancelIsFinal
    LifecycleKept
CHECK_DEADLOCK FALSE
