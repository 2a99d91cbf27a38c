\* Run satp: a main thread exits with exit while another process is queued.
CONSTANTS
    FirstPid <- MCFirstPid
    MaxProcs = 2
    MaxThreads = 2
    Programs = 1
    Budget = 2
    Calls <- MCSatpCalls
    WellBehaved = TRUE
    LoadCanFail = FALSE
    ExecveCanFail = FALSE
    None = None
    User = User
    IFault = IFault
    WAIT_ANY = WAIT_ANY
    KernelPT = KernelPT
SPECIFICATION Spec
INVARIANT
    SatpOfRunningTask
