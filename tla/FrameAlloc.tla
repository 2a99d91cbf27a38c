----------------------------- MODULE FrameAlloc -----------------------------
(***************************************************************************)
(* The bitmap frame allocator of memory/page.rs and the MemMap records of  *)
(* memory/mem_map.rs that own its frames.  A record is created with the    *)
(* frames alloc_more (or alloc, for page-table nodes) hands out, shared    *)
(* through Rc clones, and returns its frames with dealloc_more when the    *)
(* last Rc is dropped.  Frame indices are bitmap indices: the code's ppn   *)
(* minus start >> 12.                                                      *)
(***************************************************************************)
EXTENDS Integers, FiniteSets, FiniteSetsExt

CONSTANTS NFrames,   \* pages.len()
          MapIds,    \* names of MemMap records
          MaxPages,  \* the largest page_num a record is created with
          MaxRc,     \* the largest Rc strong count explored
          Free       \* owner of a free frame in the abstract Frames spec

ASSUME NFrames \in Nat \ {0} /\ MaxPages \in Nat /\ MaxRc \in Nat \ {0}

Frames == 0 .. NFrames - 1

\* The Err(NoEnoughPage) of alloc and alloc_more.
NoFrame == -1

VARIABLES pages,   \* MemoryPageAllocator.pages
          ppn,     \* ppn[m]: MemMap.ppn of record m
          num,     \* num[m]: MemMap.page_num of record m
          rc       \* rc[m]: strong count of the Rc<MemMap>; 0 when m is dead

vars == <<pages, ppn, num, rc>>

Live == {m \in MapIds : rc[m] > 0}

\* The frames MemMap m frees in its Drop.
FramesOf(m) == ppn[m] .. ppn[m] + num[m] - 1

(***************************************************************************)
(* The allocator.                                                          *)
(***************************************************************************)

\* MemoryPageAllocator::alloc: the lowest clear bit.
AllocFirst(pg) ==
    IF \E f \in Frames : ~pg[f] THEN Min({f \in Frames : ~pg[f]}) ELSE NoFrame

\* The loop of MemoryPageAllocator::alloc_more: i walks down from the top,
\* v counts the clear bits i, i+1, ... met so far.
RECURSIVE AllocMoreScan(_, _, _, _)

\* A mutant of the scan that forgets to reset the run length at a used frame.
AllocMoreScanNoReset(pg, n, i, v) ==
    LET v2 == IF ~pg[i] THEN v + 1 ELSE v
    IN  IF v2 >= n THEN i
        ELSE IF i = 0 THEN NoFrame
        ELSE AllocMoreScan(pg, n, i - 1, v2)

\* A mutant of the scan that returns the frame after the run's start.
AllocMoreScanPastStart(pg, n, i, v) ==
    LET v2 == IF ~pg[i] THEN v + 1 ELSE 0
    IN  IF v2 >= n THEN i + 1
        ELSE IF i = 0 THEN NoFrame
        ELSE AllocMoreScan(pg, n, i - 1, v2)

AllocMoreScan(pg, n, i, v) ==
    LET v2 == IF ~pg[i] THEN v + 1 ELSE 0
    IN  IF v2 >= n THEN i
        ELSE IF i = 0 THEN NoFrame
        ELSE AllocMoreScan(pg, n, i - 1, v2)

AllocMore(pg, n) == AllocMoreScan(pg, n, NFrames - 1, 0)

\* self.pages[i..i+pages].fill(true)
Mark(pg, i, n) == [f \in Frames |-> IF f \in i .. i + n - 1 THEN TRUE ELSE pg[f]]

\* A mutant of dealloc_more that clears one frame too many.
ClearOneMore(pg, i, n) ==
    IF i \in Frames
    THEN [f \in Frames |-> IF f \in i .. i + n THEN FALSE ELSE pg[f]]
    ELSE pg

\* MemoryPageAllocator::dealloc_more: only the first index is range-checked.
Clear(pg, i, n) ==
    IF i \in Frames
    THEN [f \in Frames |-> IF f \in i .. i + n - 1 THEN FALSE ELSE pg[f]]
    ELSE pg

(***************************************************************************)
(* The records.                                                            *)
(***************************************************************************)

\* MemoryPageAllocator::init: every frame clear; no record exists.
Init == /\ pages = [f \in Frames |-> FALSE]
        /\ ppn = [m \in MapIds |-> 0]
        /\ num = [m \in MapIds |-> 0]
        /\ rc = [m \in MapIds |-> 0]

\* Record m comes to life holding n frames from frame p.
Born(m, p, n) == /\ ppn' = [ppn EXCEPT ![m] = p]
                 /\ num' = [num EXCEPT ![m] = n]
                 /\ rc' = [rc EXCEPT ![m] = 1]

\* MemMap::new (also alloc_range, new_kernel_buf, and an exists_page that
\* wraps a fresh alloc_more as exec and File::new do): alloc_more(page_num)
\* and, on success, a new Rc.  The Err leaves everything as it was.
MemMapNew(m, n) ==
    /\ rc[m] = 0
    /\ AllocMore(pages, n) # NoFrame
    /\ pages' = Mark(pages, AllocMore(pages, n), n)
    /\ Born(m, AllocMore(pages, n), n)

\* PageMapping::alloc_pte takes a frame with alloc; pte_container (or
\* pte_page) wraps it in a one-page record.
PteContainer(m) ==
    /\ rc[m] = 0
    /\ AllocFirst(pages) # NoFrame
    /\ pages' = [pages EXCEPT ![AllocFirst(pages)] = TRUE]
    /\ Born(m, AllocFirst(pages), 1)

\* MemMap::clone_with_data: a new record m2 of as many fresh frames as m.
CloneWithData(m, m2) ==
    /\ rc[m] > 0
    /\ rc[m2] = 0
    /\ AllocMore(pages, num[m]) # NoFrame
    /\ pages' = Mark(pages, AllocMore(pages, num[m]), num[m])
    /\ Born(m2, AllocMore(pages, num[m]), num[m])

\* Rc::clone of a record: MemSet's derived Clone, as Process::fork does.
RcClone(m) ==
    /\ rc[m] \in 1 .. MaxRc - 1
    /\ rc' = [rc EXCEPT ![m] = @ + 1]
    /\ UNCHANGED <<pages, ppn, num>>

\* A mutant of the drop that frees the frames at every drop, not the last.
RcDropAlwaysFree(m) ==
    /\ rc[m] > 0
    /\ rc' = [rc EXCEPT ![m] = @ - 1]
    /\ pages' = Clear(pages, ppn[m], num[m])
    /\ UNCHANGED <<ppn, num>>

\* Dropping one Rc (MemSet::release, a MemSet going out of scope); the last
\* one runs MemMap's Drop, dealloc_more(ppn, page_num).
RcDrop(m) ==
    /\ rc[m] > 0
    /\ rc' = [rc EXCEPT ![m] = @ - 1]
    /\ pages' = IF rc[m] = 1 THEN Clear(pages, ppn[m], num[m]) ELSE pages
    /\ UNCHANGED <<ppn, num>>

Next ==
    \E m \in MapIds :
        \/ \E n \in 0 .. MaxPages : MemMapNew(m, n)
        \/ PteContainer(m)
        \/ \E m2 \in MapIds : CloneWithData(m, m2)
        \/ RcClone(m)
        \/ RcDrop(m)

Spec == Init /\ [][Next]_vars

(***************************************************************************)
(* Properties.                                                             *)
(***************************************************************************)

TypeOK == /\ pages \in [Frames -> BOOLEAN]
          /\ ppn \in [MapIds -> Frames]
          /\ num \in [MapIds -> 0 .. MaxPages]
          /\ rc \in [MapIds -> 0 .. MaxRc]

\* The reference for alloc_more(n), n >= 1: the highest start of n clear
\* frames in a row, or an error when there is none.
AllocMoreRef(pg, n) ==
    LET starts == {i \in 0 .. NFrames - n : \A j \in i .. i + n - 1 : ~pg[j]}
    IN  IF starts = {} THEN NoFrame ELSE Max(starts)

\* The downward scan of alloc_more returns the highest run of n free
\* frames, for every n and every bitmap the kernel reaches.
AllocMoreMatchesRef ==
    \A n \in 1 .. NFrames : AllocMore(pages, n) = AllocMoreRef(pages, n)

\* Spec 3, "Frame bitmap": a frame is marked used exactly when a live
\* MemMap holds it.  Broken by a dealloc_more, alloc_more or Drop that
\* frees or marks the wrong frames, or frees a record still referenced.
BitmapMatchesRecords ==
    \A f \in Frames : pages[f] <=> \E m \in Live : f \in FramesOf(m)

\* The refinement: the allocator and the records implement Frames, where a
\* frame is owned by the live record that holds it.
FramesOwner == [f \in Frames |->
                   IF \E m \in Live : f \in FramesOf(m)
                   THEN CHOOSE m \in Live : f \in FramesOf(m)
                   ELSE Free]

Abstract == INSTANCE Frames WITH owner <- FramesOwner, live <- Live

\* Each step of the allocator and the records is a step of Frames: a new
\* record takes only frames no live record holds, and frames return only
\* when the last Rc of their record is dropped.
ImplementsFrames == Abstract!Spec

=============================================================================
