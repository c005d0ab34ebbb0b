SPECIFICATION FairSpec
CONSTANTS
    a = a
    b = b
    c = c
    m = m
    n = n
    NULL = NULL
    Tasks <- TwoTasks
    Clients <- OneClient
    NumThreads = 2
    InitialAllowed = 2
    Scripts <- CancelSetScripts
PROPERTY
    CancelSetsHonored
CHECK_DEADLOCK FALSE
