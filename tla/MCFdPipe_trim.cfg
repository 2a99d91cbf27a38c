\* The pipe trim of PipeBuf::write_at against spec section 9.
CONSTANTS
    Procs = {p1, p2}
    Pipes = {i1}
    InitProc = p1
    MaxFd = 5
    PipeCap = 2
    MaxBytes = 6
    MaxOffset = 6
    USize = 16
    Counts = {1, 2}
    MaxCalls = 6
    None = None
    Calls <- MCTrimCalls
SPECIFICATION Spec
PROPERTY
    OnlyTrimmedBytesSkipped
\* A todo!() in a FileOP method halts the kernel (kpanic).
CHECK_DEADLOCK FALSE
