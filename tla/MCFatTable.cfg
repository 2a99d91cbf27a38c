\* The three FAT widths, four data clusters and two files.
CONSTANTS
    FatTypes = {"fat12", "fat16", "fat32"}
    TotalClusters = 4
    BytesPerFat <- MCBytesPerFat
    Media = 248
    FileIds = {f1, f2}
    None = None

SPECIFICATION Spec

INVARIANTS
    ChainsWellFormed
    NoLostClusters
    FindFreeExact
    CountFreeExact

PROPERTY
    AllocFailsOnlyWhenFull
