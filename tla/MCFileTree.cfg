CONSTANTS
    r = r
    f = f
    n1 = n1
    n2 = n2
    Nodes <- MCNodes
    Root = r
    BootFile = f
    Names <- MCNames
    BootName = "a"
    Cached = TRUE
    MaxFd = 2
    MaxPath = 2
    MaxCalls = 6
    None = None
SPECIFICATION Spec
CHECK_DEADLOCK FALSE
INVARIANTS
    TypeOK

    
