CONSTANTS
    Procs = {p1, p2}
    NFrames = 8
    Calls <- MCVforkCalls
    None = None
SPECIFICATION Spec
SYMMETRY MCProcSymmetry
INVARIANTS
    ForkIsolation
    LeavesOwned
    NoForeignWrite
    NoLeak
