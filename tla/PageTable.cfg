CONSTANTS
    NFrames = 18
    PoolBase = 525312
    StackPages = 2
    HeapPages = 1
    MaxPages = 3
    Hints = {851970}
    MaxCalls = 3
SPECIFICATION Spec
CHECK_DEADLOCK FALSE
INVARIANTS
    TypeOK
    MappedTranslates
    PageTreeSound
    LeakOnlyMunmapTables
PROPERTIES
    ImplementsTranslation
