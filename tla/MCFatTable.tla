----------------------------- MODULE MCFatTable -----------------------------
EXTENDS FatTable

\* bytes_per_fat of each FatType: one entry past the data clusters, which
\* format_fat marks EndOfChain.
MCBytesPerFat == [t \in {"fat12", "fat16", "fat32"} |->
                    CASE t = "fat12" -> 11 [] t = "fat16" -> 14 [] t = "fat32" -> 28]

=============================================================================
