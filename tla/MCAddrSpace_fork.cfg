CONSTANTS
    Procs = {p1, p2}
    NFrames = 10
    Calls <- MCForkCalls
    None = None
SPECIFICATION Spec
SYMMETRY MCProcSymmetry
INVARIANTS
    TypeOK
    ForkIsolation
    LeavesOwned
    PromisedMapped
    NoLeak
