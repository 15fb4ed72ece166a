\* The boot thread posting and terminating test threads under timer preemption
CONSTANTS
    main = main
    t1 = t1
    t2 = t2
    t3 = t3
    IDLE = IDLE
    MAIN = main
    Threads <- MCThreads
    Prio <- MCPrio
    PRI_MAX = 2
    TIMESLICE = 2
SPECIFICATION Spec
INVARIANTS TypeOK SchedConsistent
PROPERTIES  NoStarvationAmongEquals
