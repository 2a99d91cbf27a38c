CONSTANTS
    NFrames = 5
    MapIds = {m1, m2, m3}
    MaxPages = 2
    MaxRc = 2
    Free = Free
SPECIFICATION Spec
INVARIANTS
    TypeOK
    AllocMoreMatchesRef
    BitmapMatchesRecords
PROPERTIES
    ImplementsFrames
