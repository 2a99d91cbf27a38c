\* Run vfork: spec_fork then execve in the child, the parent held meanwhile.
CONSTANTS
    FirstPid <- MCFirstPid
    MaxProcs = 3
    MaxThreads = 2
    Programs = 2
    Budget = 3
    Calls <- MCVforkCalls
    WellBehaved = TRUE
    LoadCanFail = FALSE
    ExecveCanFail = FALSE
    None = None
    User = User
    IFault = IFault
    WAIT_ANY = WAIT_ANY
    KernelPT = KernelPT
SPECIFICATION Spec
INVARIANTS
    VforkWaiterHasLiveChild
    VforkParentHeld
    SatpOfRunningTask
PROPERTIES
    Terminates
