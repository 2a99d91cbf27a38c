\* Run fork: fork, clone, wait4, execve and faults; exec may fail.
CONSTANTS
    FirstPid <- MCFirstPid
    MaxProcs = 3
    MaxThreads = 2
    Programs = 2
    Budget = 3
    Calls <- MCForkCalls
    WellBehaved = TRUE
    LoadCanFail = TRUE
    ExecveCanFail = TRUE
    None = None
    User = User
    IFault = IFault
    WAIT_ANY = WAIT_ANY
    KernelPT = KernelPT
SPECIFICATION Spec
INVARIANTS
    TypeOK
    UniqueTasks
    ExitedHasNoTasks
    ChildRemovedOnlyAfterExit
