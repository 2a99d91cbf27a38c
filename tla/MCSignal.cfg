\* Run signal: tkill, tgkill, kill, sigaction, sigprocmask, fork and
\* sigreturn from two processes of two threads, with nested handlers.
CONSTANTS
    p1 = p1
    p2 = p2
    p3 = p3
    Procs = {p1, p2, p3}
    InitProcs = {p1, p2}
    Tids = {0, 1}
    InitTasks <- MCInitTasks
    Sigs = {s1}
    BigSig = BigSig
    Frames = {f1, f2, f3}
    MaxCalls = 8
    Zero = Zero
    NoFrame = NoFrame
    None = None
SPECIFICATION Spec
SYMMETRY MCFrameSymmetry
CHECK_DEADLOCK FALSE
INVARIANTS
    TypeOK
    TempHoldsActiveFrame
PROPERTIES
    RestoresInterruptedContext
