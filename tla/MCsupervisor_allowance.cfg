SPECIFICATION Spec
CONSTANTS
    a = a
    b = b
    c = c
    m = m
    n = n
    NULL = NULL
    Tasks <- TwoTasks
    Clients <- OneClient
    NumThreads = 2
    InitialAllowed = 2
    Scripts <- AllowanceScripts
PROPERTY
    AllowanceRespected
CHECK_DEADLOCK FALSE
