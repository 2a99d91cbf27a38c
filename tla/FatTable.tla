------------------------------ MODULE FatTable ------------------------------
(***************************************************************************)
(* The file allocation table of src/fatfs/src/table.rs, kept as the bytes  *)
(* of the FAT region: FAT12 packs two 12-bit entries into three bytes,     *)
(* FAT16 and FAT32 store 2 and 4 little-endian bytes per entry.  Cluster   *)
(* chains are the Data links from a file's first cluster to an            *)
(* EndOfChain entry.  The operations are the public functions of the      *)
(* table: format_fat (the initial state), alloc_cluster, and the truncate  *)
(* and free of ClusterIterator, with count_free_clusters and the find_free *)
(* scans as operators.  Their callers (the directory and file code of the  *)
(* FAT library) are the environment: any file may grow, shrink or be       *)
(* removed at any time.                                                    *)
(***************************************************************************)
EXTENDS Integers, FiniteSets, Sequences

CONSTANTS FatTypes,       \* the FatType values explored
          TotalClusters,  \* total_clusters of the volume
          BytesPerFat,    \* BytesPerFat[t]: bytes_per_fat for FatType t
          Media,          \* the media byte format_fat writes
          FileIds,        \* the files whose chains the environment keeps
          None

RESERVED_FAT_ENTRIES == 2

\* alloc_cluster's end_cluster: one past the last data cluster.
EndCluster == TotalClusters + RESERVED_FAT_ENTRIES

Clusters == RESERVED_FAT_ENTRIES .. EndCluster - 1

Bytes(t) == 0 .. BytesPerFat[t] - 1

\* FatValue.
Free == [kind |-> "free", n |-> 0]
Bad == [kind |-> "bad", n |-> 0]
EndOfChain == [kind |-> "eoc", n |-> 0]
Data(c) == [kind |-> "data", n |-> c]

\* The Err(NotEnoughSpace) of find_free and alloc_cluster.
NoSpace == -1

VARIABLES fatType,   \* the FatType of the volume
          fat,       \* fat[i]: byte i of the FAT region
          first,     \* first[f]: the first cluster of file f, or None
          lastAlloc  \* what the last alloc_cluster returned, or None

vars == <<fatType, fat, first, lastAlloc>>

(***************************************************************************)
(* Entry encoding: get_raw, get, set, set_raw of each FatTrait impl.       *)
(***************************************************************************)

U16(b, i) == b[i] + 256 * b[i + 1]

\* Fat12: the byte offset of an entry, cluster + cluster / 2.
Off12(c) == c + c \div 2

\* Fat12::get_raw: the u16 at cluster + cluster / 2, low 12 bits for an
\* even cluster, high 12 bits for an odd one.
GetRaw12(b, c) ==
    IF c % 2 = 0 THEN U16(b, Off12(c)) % 4096 ELSE U16(b, Off12(c)) \div 16

\* Fat32::get_raw masked with 0x0FFF_FFFF, as get and find_free use it;
\* the reserved top nibble is dropped before the value is formed.
GetRaw32(b, c) ==
    U16(b, 4 * c) + 65536 * (b[4 * c + 2] + 256 * (b[4 * c + 3] % 16))

\* get_raw of the volume's FatType (Fat16::get_raw: the u16 at 2 * cluster).
GetRaw(t, b, c) ==
    CASE t = "fat12" -> GetRaw12(b, c)
      [] t = "fat16" -> U16(b, 2 * c)
      [] t = "fat32" -> GetRaw32(b, c)

\* The special raw values: Bad and the EndOfChain that set writes.
BadRaw(t) == CASE t = "fat12" -> 4087 [] t = "fat16" -> 65527 [] t = "fat32" -> 268435447
EocRaw(t) == CASE t = "fat12" -> 4095 [] t = "fat16" -> 65535 [] t = "fat32" -> 268435455

\* FatTrait::get: 0 is Free, the Bad value, everything above it is
\* EndOfChain.  (Fat32's special cluster numbers 0x0FFF_FFF7.. are far
\* beyond the clusters of a small volume.)
Get(t, b, c) ==
    LET v == GetRaw(t, b, c)
    IN  CASE v = 0 -> Free
          [] v = BadRaw(t) -> Bad
          [] v > BadRaw(t) -> EndOfChain
          [] OTHER -> Data(v)

\* The raw value FatTrait::set writes for a FatValue.
RawOf(t, v) == CASE v.kind = "free" -> 0
                 [] v.kind = "bad" -> BadRaw(t)
                 [] v.kind = "eoc" -> EocRaw(t)
                 [] v.kind = "data" -> v.n

\* Bytes i, i+1, ... of b replaced by the little-endian bytes of x.
PutLE(b, i, x, w) ==
    [j \in DOMAIN b |-> IF j \in i .. i + w - 1
                        THEN (x \div (2 ^ (8 * (j - i)))) % 256
                        ELSE b[j]]

\* A mutant of Fat12::set_raw that drops the other entry's nibble.
SetRaw12NoMask(b, c, r) ==
    LET old == U16(b, Off12(c))
        new == IF c % 2 = 0 THEN r ELSE (old % 16) + r * 16
    IN  PutLE(b, Off12(c), new, 2)

\* Fat12::set_raw: read the u16 at the entry, keep the nibble that belongs
\* to the neighbouring entry, write the u16 back.
SetRaw12(b, c, r) ==
    LET old == U16(b, Off12(c))
        new == IF c % 2 = 0 THEN (old \div 4096) * 4096 + r
               ELSE (old % 16) + r * 16
    IN  PutLE(b, Off12(c), new, 2)

\* FatTrait::set.  Fat32 ORs in the old reserved top nibble.
Set(t, b, c, v) ==
    CASE t = "fat12" -> SetRaw12(b, c, RawOf(t, v))
      [] t = "fat16" -> PutLE(b, 2 * c, RawOf(t, v), 2)
      [] t = "fat32" ->
           LET w == PutLE(b, 4 * c, RawOf(t, v), 4)
           IN  [w EXCEPT ![4 * c + 3] = @ + 16 * (b[4 * c + 3] \div 16)]

(***************************************************************************)
(* The scans over the FAT: find_free and count_free of each FatTrait impl. *)
(* Fat12 streams the bytes: an even entry is the low 12 bits of a freshly  *)
(* read u16, an odd one reuses the high byte of the previous read.         *)
(***************************************************************************)

\* A mutant of the odd step of Fat12::find_free that keeps the low byte.
Shift12LowByte(packed, nextByte) == (packed % 256) + 256 * nextByte

\* Fat12::find_free moving to an odd entry: the high byte of the last
\* u16 and the next byte, (packed_val >> 8) | (next_byte << 8).
Shift12(packed, nextByte) == packed \div 256 + 256 * nextByte

\* Fat12::find_free's loop at `cluster`, the stream at byte `pos`.
RECURSIVE FindFree12Loop(_, _, _, _, _)
FindFree12Loop(b, cluster, pos, packed, e) ==
    LET val == IF cluster % 2 = 0 THEN packed % 4096 ELSE packed \div 16
    IN  IF val = 0 THEN cluster
        ELSE IF cluster + 1 = e THEN NoSpace
        ELSE IF (cluster + 1) % 2 = 0
             THEN FindFree12Loop(b, cluster + 1, pos + 2, U16(b, pos), e)
             ELSE FindFree12Loop(b, cluster + 1, pos + 1, Shift12(packed, b[pos]), e)

\* Fat16 and Fat32 find_free: the first raw (masked) zero in [s, e).
FindFreeWide(t, b, s, e) ==
    LET free == {c \in s .. e - 1 : GetRaw(t, b, c) = 0}
    IN  IF free = {} THEN NoSpace ELSE CHOOSE c \in free : \A d \in free : c <= d

\* find_free_cluster.
FindFree(t, b, s, e) ==
    IF t = "fat12"
    THEN FindFree12Loop(b, s, Off12(s) + 2, U16(b, Off12(s)), e)
    ELSE FindFreeWide(t, b, s, e)

\* A mutant of Fat12::count_free that takes the low nibble of the previous
\* u16 for the odd entry.
OddVal12LowNibble(packed, prev) == ((packed * 256) % 65536) + (prev % 16)

\* Fat12::count_free's odd entry: (packed_val << 8) | (prev_packed_val >> 12)
\* as u16, not the entry's value but zero exactly when it is.
OddVal12(packed, prev) == ((packed * 256) % 65536) + prev \div 4096

\* Fat12::count_free's loop at `cluster`, the stream at byte `pos`.
RECURSIVE CountFree12Loop(_, _, _, _, _, _)
CountFree12Loop(b, cluster, pos, prev, e, count) ==
    IF cluster >= e THEN count
    ELSE LET even == cluster % 2 = 0
             packed == IF even THEN U16(b, pos) ELSE b[pos]
             val == IF even THEN packed % 4096 ELSE OddVal12(packed, prev)
         IN  CountFree12Loop(b, cluster + 1, pos + (IF even THEN 2 ELSE 1),
                             packed, e, count + (IF val = 0 THEN 1 ELSE 0))

\* count_free_clusters.
CountFreeClusters(t, b) ==
    IF t = "fat12"
    THEN CountFree12Loop(b, RESERVED_FAT_ENTRIES, 3, 0, EndCluster, 0)
    ELSE Cardinality({c \in Clusters : GetRaw(t, b, c) = 0})

(***************************************************************************)
(* Chains.                                                                 *)
(***************************************************************************)

\* get_next_cluster.  These operations only link to data clusters (the
\* chain invariant below checks it), so a link elsewhere ends the walk.
NextCluster(t, b, c) ==
    LET v == Get(t, b, c)
    IN  IF v.kind = "data" /\ v.n \in Clusters THEN v.n ELSE None

\* The clusters ClusterIterator visits from c, cut after `fuel` links so
\* that a loop in the FAT shows up as a repeated cluster.
RECURSIVE ChainFrom(_, _, _, _)
ChainFrom(t, b, c, fuel) ==
    IF fuel = 0 \/ NextCluster(t, b, c) = None THEN <<c>>
    ELSE <<c>> \o ChainFrom(t, b, NextCluster(t, b, c), fuel - 1)

Chain(f) == ChainFrom(fatType, fat, first[f], TotalClusters)

\* A mutant of free()'s loop that frees a cluster before reading its link.
RECURSIVE FreeFromWriteFirst(_, _, _, _)
FreeFromWriteFirst(t, b, c, fuel) ==
    IF c = None \/ fuel = 0 THEN b
    ELSE LET b1 == Set(t, b, c, Free)
         IN  FreeFromWriteFirst(t, b1, NextCluster(t, b1, c), fuel - 1)

\* ClusterIterator::free: next() reads the link of n, then n is set Free.
RECURSIVE FreeFrom(_, _, _, _)
FreeFrom(t, b, c, fuel) ==
    IF c = None \/ fuel = 0 THEN b
    ELSE FreeFrom(t, Set(t, b, c, Free), NextCluster(t, b, c), fuel - 1)

(***************************************************************************)
(* The operations.                                                         *)
(***************************************************************************)

\* bits_per_fat_entry.
Bits(t) == CASE t = "fat12" -> 12 [] t = "fat16" -> 16 [] t = "fat32" -> 32

RECURSIVE MarkEoc(_, _, _, _)
MarkEoc(t, b, c, e) ==
    IF c >= e THEN b ELSE MarkEoc(t, Set(t, b, c, EndOfChain), c + 1, e)

\* format_fat on a zeroed FAT region: the FAT ID in entries 0 and 1, and
\* the entries past the data clusters up to the end of the FAT marked
\* EndOfChain.
Format(t) ==
    LET hdr == CASE t = "fat12" -> <<Media, 255, 255>>
                 [] t = "fat16" -> <<Media, 255, 255, 255>>
                 [] t = "fat32" -> <<Media, 255, 255, 15, 255, 255, 255, 255>>
        b == [i \in Bytes(t) |-> IF i < Len(hdr) THEN hdr[i + 1] ELSE 0]
    IN  MarkEoc(t, b, EndCluster, (BytesPerFat[t] * 8) \div Bits(t))

Init ==
    /\ fatType \in FatTypes
    /\ fat = Format(fatType)
    /\ first = [f \in FileIds |-> None]
    /\ lastAlloc = None

\* A mutant of alloc_cluster that does not wrap around below the hint.
AllocNoWrap(t, b, start) == FindFree(t, b, start, EndCluster)

\* alloc_cluster's search: from the hint to the end, then from the first
\* data cluster up to the hint.
AllocSearch(t, b, start) ==
    LET r == FindFree(t, b, start, EndCluster)
    IN  IF r # NoSpace \/ start <= RESERVED_FAT_ENTRIES THEN r
        ELSE FindFree(t, b, RESERVED_FAT_ENTRIES, start)

\* alloc_cluster(prev, hint), called to add a cluster to file f: prev is
\* the last cluster of f's chain, None for an empty file.  The new cluster
\* gets EndOfChain, then prev is linked to it.
AllocCluster(f, hint) ==
    LET t == fatType
        prev == IF first[f] = None THEN None ELSE Chain(f)[Len(Chain(f))]
        start == IF hint # None /\ hint < EndCluster THEN hint ELSE RESERVED_FAT_ENTRIES
        new == AllocSearch(t, fat, start)
        b1 == Set(t, fat, new, EndOfChain)
    IN  /\ lastAlloc' = new
        /\ IF new = NoSpace
           THEN UNCHANGED <<fat, first>>
           ELSE /\ fat' = IF prev = None THEN b1 ELSE Set(t, b1, prev, Data(new))
                /\ first' = IF prev = None THEN [first EXCEPT ![f] = new] ELSE first
        /\ UNCHANGED fatType

\* ClusterIterator::new(k-th cluster of f).truncate(): the k-th cluster
\* becomes EndOfChain and the rest of the chain is freed.
Truncate(f, k) ==
    LET t == fatType
        n == Chain(f)[k]
    IN  /\ first[f] # None
        /\ k \in 1 .. Len(Chain(f))
        /\ fat' = FreeFrom(t, Set(t, fat, n, EndOfChain), NextCluster(t, fat, n),
                           TotalClusters)
        /\ lastAlloc' = None
        /\ UNCHANGED <<fatType, first>>

\* ClusterIterator::new(first cluster of f).free(): the whole chain.
FreeChain(f) ==
    /\ first[f] # None
    /\ fat' = FreeFrom(fatType, fat, first[f], TotalClusters)
    /\ first' = [first EXCEPT ![f] = None]
    /\ lastAlloc' = None
    /\ UNCHANGED fatType

Hints == {None} \cup 0 .. EndCluster

Next ==
    \E f \in FileIds :
        \/ \E h \in Hints : AllocCluster(f, h)
        \/ \E k \in 1 .. TotalClusters : Truncate(f, k)
        \/ FreeChain(f)

Spec == Init /\ [][Next]_vars

(***************************************************************************)
(* Properties.                                                             *)
(***************************************************************************)

TypeOK ==
    /\ fatType \in FatTypes
    /\ fat \in [Bytes(fatType) -> 0 .. 255]
    /\ first \in [FileIds -> Clusters \cup {None}]
    /\ lastAlloc \in Clusters \cup {None, NoSpace}

Files == {f \in FileIds : first[f] # None}

Members(s) == {s[i] : i \in 1 .. Len(s)}

\* The chains of alloc_cluster, truncate and free stay well formed: every
\* file's chain runs through distinct data clusters to an EndOfChain
\* entry, and no cluster is in the chains of two files.  The FAT12
\* set_raw's read-modify-write of a u16 shared by two entries is what
\* keeps a write to one entry from corrupting its neighbour's link.
ChainsWellFormed ==
    /\ \A f \in Files :
          /\ Cardinality(Members(Chain(f))) = Len(Chain(f))
          /\ Get(fatType, fat, Chain(f)[Len(Chain(f))]) = EndOfChain
    /\ \A f, g \in Files : f # g => Members(Chain(f)) \cap Members(Chain(g)) = {}

\* No cluster is lost: a data cluster in no file's chain is Free, so the
\* clusters that ClusterIterator::truncate and free cut from a chain all
\* go back to the free pool (free reads each link before freeing it).
NoLostClusters ==
    \A c \in Clusters \ UNION {Members(Chain(f)) : f \in Files} :
        Get(fatType, fat, c) = Free

\* Reference: the lowest cluster of [s, e) whose decoded entry is Free.
LowestFree(s, e) ==
    LET free == {c \in s .. e - 1 : Get(fatType, fat, c) = Free}
    IN  IF free = {} THEN NoSpace ELSE CHOOSE c \in free : \A d \in free : c <= d

\* find_free_cluster, for every range alloc_cluster may pass it (hints
\* reach entries 0 and 1), returns the lowest free cluster of the range:
\* Fat12's stream of u16 and u8 reads decodes each packed entry right.
FindFreeExact ==
    \A s \in 0 .. EndCluster - 1 : \A e \in s + 1 .. EndCluster :
        FindFree(fatType, fat, s, e) = LowestFree(s, e)

\* count_free_clusters counts exactly the Free data clusters, though
\* Fat12::count_free computes a shifted value for odd entries.
CountFreeExact ==
    CountFreeClusters(fatType, fat) = Cardinality({c \in Clusters : Get(fatType, fat, c) = Free})

\* alloc_cluster fails with NotEnoughSpace only when no data cluster is
\* free, whatever the hint: the search wraps to the clusters below it.
AllocFailsOnlyWhenFull ==
    [][lastAlloc' = NoSpace => \A c \in Clusters : Get(fatType, fat, c) # Free]_vars

=============================================================================
