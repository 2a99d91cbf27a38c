------------------------------ MODULE PageTable ------------------------------
(***************************************************************************)
(* The Sv39 page table of one process (memory/page_table.rs) and the calls *)
(* that change it: Process::new with UserStack::new, the stack growth of   *)
(* alloc_until, the heap's first set_heap_top, sys_mmap, sys_munmap and    *)
(* Process::release.  Page-table nodes and user frames come from the one   *)
(* bitmap of memory/page.rs, taken with FrameAlloc's alloc and alloc_more. *)
(*                                                                         *)
(* A frame is a bitmap index f, at physical page PoolBase + f.  tab[f] is  *)
(* what frame f holds when read as a page table: an entry for every index  *)
(* the modelled pages use (the other 512 - |Idx| entries are never read).  *)
(* Addresses are page numbers: a virtual page v has the Sv39 indices       *)
(* L2(v), L1(v), L0(v); the page offset is left out.                       *)
(***************************************************************************)
EXTENDS Integers, FiniteSets, Bitwise

CONSTANTS NFrames,     \* frames of the bitmap
          PoolBase,    \* MemoryPageAllocator.start >> 12
          StackPages,  \* DEFAULT_STACK_PAGE_NUM
          HeapPages,   \* DEFAULT_HEAP_PAGE_NUM
          MaxPages,    \* the largest len / PAGE_SIZE of an mmap
          Hints,       \* the non-zero mmap start pages user code passes
          MaxCalls     \* calls a process makes after it is created

VARIABLES pages,     \* MemoryPageAllocator.pages
          tab,       \* tab[f][i]: entry i of frame f read as a table
          root,      \* PageMappingManager.pte, or NoFrame before Process::new
          memSet,    \* the pte_page and pte_container records of pmm.mem_set
          recs,      \* the process's MemMap records: [vpn, n, ppn, mem]
          stackTop,  \* UserStack.top, a page number
          heapStart, \* UserHeap.start != 0
          state,     \* "none", "live", "exited" or "panic"
          wrote,     \* the physical pages the last mmap file copy wrote
          calls,     \* calls made so far
          rmTables,  \* history: frames remove_mapping took for tables
          unmapped   \* history: pages sys_munmap was called on

vars == <<pages, tab, root, memSet, recs, stackTop, heapStart, state, wrote,
          calls, rmTables, unmapped>>

FA == INSTANCE FrameAlloc WITH MapIds <- {}, MaxRc <- 1, Free <- "free",
                               ppn <- <<>>, num <- <<>>, rc <- <<>>

Frames == FA!Frames
NoFrame == FA!NoFrame
PPN(f) == PoolBase + f

\* VirtAddr::l2, l1, l0 of the page's address.
L2(v) == (v \div 2^18) % 512
L1(v) == (v \div 2^9) % 512
L0(v) == v % 512

StackAddr == 983056          \* DEFAULT_STACK_ADDR / PAGE_SIZE = 0xf0010
HeapBottom == 271            \* DEFAULT_HEAP_BOTTOM / PAGE_SIZE = 0x10f
MmapBase == 851968           \* 0xd000_0000 / PAGE_SIZE
RamStart == 524288           \* 0x8000_0000 / PAGE_SIZE

\* Every page a call can reach within the bounds.
VSpace == (StackAddr - StackPages - MaxCalls) .. (StackAddr - 1)
          \cup HeapBottom .. HeapBottom + HeapPages - 1
          \cup MmapBase .. MmapBase + MaxCalls * (MaxPages + 1)
          \cup {h + i : h \in Hints, i \in 0 .. MaxPages - 1}
Idx == {L2(v) : v \in VSpace} \cup {L1(v) : v \in VSpace} \cup {L0(v) : v \in VSpace}

(***************************************************************************)
(* Entries.  A PageTableEntry is zero (V clear), a page directory (flags V *)
(* alone: is_valid_pd) or a leaf (some of R, W, X set); u is the U flag.   *)
(***************************************************************************)
Entry(k, p, u) == [kind |-> k, ppn |-> p, u |-> u]
Zero == Entry("zero", 0, FALSE)
PD(p) == Entry("pd", p, FALSE)                \* PageTableEntry::new(p, V)
Leaf(p, u) == Entry("leaf", p, u)             \* ... VRWX or UVRWX

ZeroTable == [i \in Idx |-> Zero]

\* alloc_pte(level) fills all 512 entries with VRWX leaves i << (level*9).
Fill(level) == [i \in Idx |-> Leaf(i * 2^(9 * level), FALSE)]

\* Entry i of the table at physical page p.  Memory outside the bitmap
\* (firmware, kernel image, no RAM) holds no valid entry for the model.
Read(tb, p, i) == IF p - PoolBase \in Frames THEN tb[p - PoolBase][i] ELSE Zero
Write(tb, p, i, e) ==
    IF p - PoolBase \in Frames THEN [tb EXCEPT ![p - PoolBase][i] = e] ELSE tb

\* PageMapping::get_phys_addr: the physical page v translates to, with the
\* U flag of the leaf that ends the walk; a leaf at level 2 or 1 maps a
\* giga- or megapage and the lower indices are or-ed into its ppn.
Err == [ok |-> FALSE, ppn |-> 0, u |-> FALSE]
Ok(p, u) == [ok |-> TRUE, ppn |-> p, u |-> u]
GetPhysAddr(tb, rt, v) ==
    LET e2 == Read(tb, PPN(rt), L2(v))
        e1 == Read(tb, e2.ppn, L1(v))
        e0 == Read(tb, e1.ppn, L0(v))
    IN  CASE rt = NoFrame      -> Err
          [] e2.kind = "zero"  -> Err
          [] e2.kind = "leaf"  -> Ok(e2.ppn | (L1(v) * 512) | L0(v), e2.u)
          [] e1.kind = "zero"  -> Err
          [] e1.kind = "leaf"  -> Ok(e1.ppn | L0(v), e1.u)
          [] e0.kind = "zero"  -> Err
          [] OTHER             -> Ok(e0.ppn, e0.u)

(***************************************************************************)
(* PageMapping::add_mapping as a walk over a machine state st: the bitmap  *)
(* pg, the memory tb, ok (no error yet), the table at (a physical page)    *)
(* the walk has reached, local (the add_mapping call's own mem_set) and    *)
(* set (what the calls so far returned).  A missing level-1 or level-0     *)
(* table is taken with alloc_pte and pushed to local.  An alloc_pte error  *)
(* returns at once: local is dropped and frees its tables, while the       *)
(* directory entries already written still point at them.  Each step is   *)
(* applied to the value of the one before through a singleton set.         *)
(***************************************************************************)
St(pg, tb) == [ok |-> TRUE, pg |-> pg, tb |-> tb, at |-> 0, local |-> {}, set |-> {}]

\* The drop of a MemSet of one-page records: dealloc_more(ppn, 1) each.
FreeAll(pg, S) == [f \in Frames |-> pg[f] /\ f \notin S]

\* A mutant of is_valid_pd that tests the V flag alone.
IsValidPdV(e) == e.kind # "zero"

\* PageTableEntry::is_valid_pd: V set and none of R, W, X.
IsValidPd(e) == e.kind = "pd"

\* One level: entry i of the table at st.at is followed if it is a
\* directory; otherwise alloc_pte(level) (the lowest free frame, filled)
\* becomes the next table and the entry a directory to it.
Descend(st, i, level) ==
    LET e == Read(st.tb, st.at, i)
        f == FA!AllocFirst(st.pg)
    IN  CASE ~st.ok         -> st
          [] IsValidPd(e)   -> [st EXCEPT !.at = e.ppn]
          [] f = NoFrame    -> [st EXCEPT !.ok = FALSE, !.local = {},
                                          !.pg = FreeAll(@, st.local)]
          [] OTHER          -> [st EXCEPT !.pg[f] = TRUE, !.at = PPN(f),
                                          !.local = @ \cup {f},
                                          !.tb = Write([@ EXCEPT ![f] = Fill(level)],
                                                       st.at, i, PD(PPN(f)))]

\* The walk from root rt to the level-0 table of page v.
Walk(st, rt, v) ==
    CHOOSE s \in {Descend(s1, L1(v), 0) :
                  s1 \in {Descend([st EXCEPT !.at = PPN(rt)], L2(v), 1)}} : TRUE

\* A mutant of add_mapping that never pushes the pte_container records.
AddMappingNoSet(st, rt, p, v) ==
    CHOOSE s \in {IF ~w.ok THEN w
                  ELSE [w EXCEPT !.tb = Write(@, w.at, L0(v), Leaf(p, TRUE)),
                                 !.local = {}] :
                  w \in {Walk(st, rt, v)}} : TRUE

\* add_mapping(p, v, UVRWX): the walk, the leaf, and local returned.
AddMapping(st, rt, p, v) ==
    CHOOSE s \in {IF ~w.ok THEN w
                  ELSE [w EXCEPT !.tb = Write(@, w.at, L0(v), Leaf(p, TRUE)),
                                 !.set = @ \cup w.local, !.local = {}] :
                  w \in {Walk(st, rt, v)}} : TRUE

\* PageMapping::add_mapping_by_map: add_mapping for page i of the record at
\* ppn + i, vpn + i, appending each returned mem_set to set; the first
\* error drops set, and with it every table the loop has allocated.
RECURSIVE AddMappingByMap(_, _, _, _, _)
AddMappingByMap(st, rt, p, v, n) ==
    IF n = 0 THEN st
    ELSE CHOOSE s \in {IF r.ok THEN AddMappingByMap(r, rt, p + 1, v + 1, n - 1)
                       ELSE [r EXCEPT !.pg = FreeAll(@, r.set), !.set = {}] :
                       r \in {AddMapping(st, rt, p, v)}} : TRUE

\* The 512 KiB branch of sys_mmap: PageMappingManager::add_mapping of the
\* one frame p at each of n pages; each call's tables go to pmm.mem_set at
\* once and stay there when a later call fails.
RECURSIVE AddMappingEach(_, _, _, _, _)
AddMappingEach(st, rt, p, v, n) ==
    IF n = 0 THEN st
    ELSE CHOOSE s \in {IF r.ok THEN AddMappingEach(r, rt, p, v + 1, n - 1) ELSE r :
                       r \in {AddMapping(st, rt, p, v)}} : TRUE

(***************************************************************************)
(* The calls.                                                              *)
(***************************************************************************)
\* A MemMap record of n pages at v, frames from f; mem: in process.mem_set.
\* span (history) is the pages mapped with it: n, or MaxPages for the one
\* frame of the 512 KiB mmap.
Rec(v, n, f, mem) == [vpn |-> v, n |-> n, ppn |-> f, mem |-> mem, span |-> n]
WrapRec(v, f) == [vpn |-> v, n |-> 1, ppn |-> f, mem |-> TRUE, span |-> MaxPages]

\* MemMap::new(vpn, n): alloc_more(n), whose init_pages zeroes the frames.
AllocMore(n) == FA!AllocMore(pages, n)
Zeroed(tb, f, n) == [g \in Frames |-> IF g \in f .. f + n - 1 THEN ZeroTable ELSE tb[g]]
MemMapNew(f, n) == St(FA!Mark(pages, f, n), Zeroed(tab, f, n))

\* The pattern of UserStack::new, alloc_until and set_heap_top: MemMap::new
\* of n pages at v, pmm.add_mapping_by_map, and on success the record is
\* pushed into a mem_set.  An error drops the record and frees its frames.
MapRecord(v, n, mem) ==
    LET f == AllocMore(n) IN
    IF f = NoFrame THEN UNCHANGED <<pages, tab, memSet, recs>>
    ELSE \E r \in {AddMappingByMap(MemMapNew(f, n), root, PPN(f), v, n)} :
           /\ pages' = IF r.ok THEN r.pg ELSE FA!Clear(r.pg, f, n)
           /\ tab' = r.tb
           /\ memSet' = memSet \cup r.set
           /\ recs' = IF r.ok THEN recs \cup {Rec(v, n, f, mem)} ELSE recs

\* MapRecord pushed its record: the call returned Ok.
Pushed(v, n, mem) == Rec(v, n, AllocMore(n), mem) \in recs'

Counted == /\ state = "live"
           /\ calls < MaxCalls
           /\ calls' = calls + 1

\* Process::new: PageMappingManager::new (alloc_pte(2), recorded as
\* pte_page), UserHeap::new (nothing mapped) and UserStack::new.  An error
\* drops the new pmm and everything it recorded: nothing is left.
ProcessNew ==
    /\ state = "none"
    /\ LET rt == FA!AllocFirst(pages)
           pg == [pages EXCEPT ![rt] = TRUE]
           f  == FA!AllocMore(pg, StackPages)
           v  == StackAddr - StackPages
       IN  /\ rt # NoFrame /\ f # NoFrame
           /\ \E r \in {AddMappingByMap(St(FA!Mark(pg, f, StackPages),
                                           Zeroed([tab EXCEPT ![rt] = Fill(2)], f, StackPages)),
                                        rt, PPN(f), v, StackPages)} :
                 /\ r.ok
                 /\ pages' = r.pg /\ tab' = r.tb /\ root' = rt
                 /\ memSet' = {rt} \cup r.set
                 /\ recs' = {Rec(v, StackPages, f, FALSE)}
    /\ stackTop' = StackAddr - StackPages
    /\ state' = "live"
    /\ UNCHANGED <<heapStart, wrote, calls, rmTables, unmapped>>

\* UserStack::alloc_until, one page below the stack's top; top moves down
\* only after the page is mapped and pushed.
StackGrow ==
    /\ Counted
    /\ MapRecord(stackTop - 1, 1, FALSE)
    /\ stackTop' = IF Pushed(stackTop - 1, 1, FALSE) THEN stackTop - 1 ELSE stackTop
    /\ UNCHANGED <<root, heapStart, state, wrote, rmTables, unmapped>>

\* The first set_heap_top (start == 0), which exec_with_process makes after
\* loading the file: HeapPages pages from the heap bottom up.
\* start is set before MemMap::new, so a call that fails still counts.
BrkFirst ==
    /\ Counted
    /\ ~heapStart
    /\ MapRecord(HeapBottom, HeapPages, FALSE)
    /\ heapStart' = TRUE
    /\ UNCHANGED <<root, stackTop, state, wrote, rmTables, unmapped>>

\* MemSet::get_last_addr of process.mem_set, as a page: (end + 1) << 12.
LastAddr == LET ends == {r.vpn + r.n : r \in {x \in recs : x.mem}}
            IN  1 + (IF ends = {} THEN 0
                     ELSE CHOOSE e \in ends : \A e2 \in ends : e2 <= e)

\* sys_mmap's start: the hint, or max(get_last_addr, 0xd000_0000).
MmapStart(h) == IF h # 0 THEN h
                ELSE IF LastAddr < MmapBase THEN MmapBase ELSE LastAddr

\* sys_mmap with len == 0x80000: one frame (MemMap::new(start, 1)) added
\* at each of MaxPages pages with pmm.add_mapping; the record is pushed
\* only when every call succeeded.  No file is copied.
SysMmapWrap(h) ==
    /\ Counted
    /\ LET v == MmapStart(h)
           f == AllocMore(1)
       IN  IF f = NoFrame THEN UNCHANGED <<pages, tab, memSet, recs>>
           ELSE \E r \in {AddMappingEach(MemMapNew(f, 1), root, PPN(f), v, MaxPages)} :
                  /\ pages' = IF r.ok THEN r.pg ELSE FA!Clear(r.pg, f, 1)
                  /\ tab' = r.tb
                  /\ memSet' = memSet \cup r.set
                  /\ recs' = IF r.ok THEN recs \cup {WrapRec(v, f)} ELSE recs
    /\ wrote' = {}
    /\ UNCHANGED <<root, stackTop, heapStart, state, rmTables, unmapped>>

\* sys_mmap of n pages of a file otherwise: get_phys_addr(start)?; a
\* physical address below 0x8000_0000 means unmapped, and a new record of
\* n pages is mapped there; file.copy_to then writes len bytes from the
\* physical address, new or found.
SysMmap(h, n) ==
    /\ Counted
    /\ LET v == MmapStart(h)
           p == GetPhysAddr(tab, root, v)
           f == AllocMore(n)
       IN  /\ p.ok
           /\ IF p.ppn < RamStart
              THEN /\ MapRecord(v, n, TRUE)
                   /\ wrote' = IF Pushed(v, n, TRUE) THEN
                                   {PPN(f) + i : i \in 0 .. n - 1}
                               ELSE {}
              ELSE /\ UNCHANGED <<pages, tab, memSet, recs>>
                   /\ wrote' = {p.ppn + i : i \in 0 .. n - 1}
    /\ UNCHANGED <<root, stackTop, heapStart, state, rmTables, unmapped>>

\* A mutant of remove_mapping's leaf that keeps the U flag (UVRWX).
RemovedLeafUser(v) == Leaf(L0(v) * 2^18, TRUE)

\* The entry remove_mapping writes: VRWX to ppn l0 << 18, no U flag.
RemovedLeaf(v) == Leaf(L0(v) * 2^18, FALSE)

\* sys_munmap -> PageMapping::remove_mapping(start): a missing level-1 or
\* level-0 table is taken with alloc_pte(..).unwrap() (a panic when memory
\* is out) and recorded nowhere; the leaf becomes VRWX to l0 << 18.
SysMunmap(v) ==
    /\ Counted
    /\ \E w \in {Walk(St(pages, tab), root, v)} :
          IF ~w.ok
          THEN /\ state' = "panic"
               /\ UNCHANGED <<pages, tab, rmTables>>
          ELSE /\ pages' = w.pg
               /\ tab' = Write(w.tb, w.at, L0(v), RemovedLeaf(v))
               /\ rmTables' = rmTables \cup w.local
               /\ UNCHANGED state
    /\ unmapped' = unmapped \cup {v}
    /\ wrote' = {}
    /\ UNCHANGED <<root, memSet, recs, stackTop, heapStart>>

\* The frames of a record, freed by its Drop (dealloc_more(ppn, n)).
RecFrames(r) == r.ppn .. r.ppn + r.n - 1

\* A mutant of Process::release without heap.mem_set.release().
ReleaseNoHeap ==
    /\ state = "live"
    /\ pages' = FreeAll(pages, memSet \cup UNION {RecFrames(r) : r \in
                                 {x \in recs : x.vpn # HeapBottom}})
    /\ memSet' = {} /\ recs' = {}
    /\ state' = "exited"
    /\ wrote' = {}
    /\ UNCHANGED <<tab, root, stackTop, heapStart, calls, rmTables, unmapped>>

\* Process::release at exit: the stack's, heap's and process's mem_sets and
\* pmm.mem_set drop their records; the tables munmap took are not among them.
Release ==
    /\ state = "live"
    /\ pages' = FreeAll(pages, memSet \cup UNION {RecFrames(r) : r \in recs})
    /\ memSet' = {} /\ recs' = {}
    /\ state' = "exited"
    /\ wrote' = {}
    /\ UNCHANGED <<tab, root, stackTop, heapStart, calls, rmTables, unmapped>>

\* The pages user code maps: the hints, and the pages of its mmaps.
MunmapPages == Hints \cup {r.vpn + i : r \in {x \in recs : x.mem}, i \in 0 .. MaxPages - 1}

Init == /\ pages = [f \in Frames |-> FALSE]
        /\ tab = [f \in Frames |-> ZeroTable]
        /\ root = NoFrame
        /\ memSet = {} /\ recs = {}
        /\ stackTop = StackAddr
        /\ heapStart = FALSE
        /\ state = "none"
        /\ wrote = {}
        /\ calls = 0
        /\ rmTables = {} /\ unmapped = {}

Next == \/ ProcessNew
        \/ StackGrow
        \/ BrkFirst
        \/ \E h \in Hints \cup {0} : \/ SysMmapWrap(h)
                                     \/ \E n \in 1 .. MaxPages : SysMmap(h, n)
        \/ \E v \in MunmapPages : SysMunmap(v)
        \/ Release

Spec == Init /\ [][Next]_vars

(***************************************************************************)
(* Properties.                                                             *)
(***************************************************************************)
Unmapped == -1

\* What a user access to page v reaches: the frame, or a fault.
UserMap(v) == LET r == GetPhysAddr(tab, root, v)
              IN  IF state = "live" /\ r.ok /\ r.u THEN r.ppn ELSE Unmapped

TypeOK ==
    /\ pages \in [Frames -> BOOLEAN]
    /\ root \in Frames \cup {NoFrame}
    /\ memSet \subseteq Frames /\ rmTables \subseteq Frames
    /\ \A r \in recs : /\ r.vpn \in VSpace /\ r.n \in 1 .. MaxPages + StackPages
                       /\ RecFrames(r) \subseteq Frames /\ r.mem \in BOOLEAN
    /\ state \in {"none", "live", "exited", "panic"}
    /\ calls \in 0 .. MaxCalls

\* The frame record r maps at page w, or Unmapped.
RecFrameAt(r, w) == IF w - r.vpn \notin 0 .. r.span - 1 THEN Unmapped
                    ELSE IF r.span = r.n THEN PPN(r.ppn) + (w - r.vpn)
                    ELSE PPN(r.ppn)

\* Every page a MemMap record of the process mapped, unless user code
\* unmapped it, translates for a user access to the frame some record
\* holds for that page (a later mmap at the same start maps a new record
\* over it): a later alloc_pte, mapping or munmap of another page never
\* redirects a mapped page to a frame that is not its own.
MappedTranslates ==
    state = "live" =>
        \A w \in VSpace \ unmapped :
            (\E r \in recs : RecFrameAt(r, w) # Unmapped) =>
                \E r \in recs : RecFrameAt(r, w) = UserMap(w)

\* The page table as user code sees it implements Translation: each call
\* changes only the translation of the pages it was asked for, munmap makes
\* its page fault, and after exit nothing translates.
AbsMaxPages == IF MaxPages < StackPages THEN StackPages ELSE MaxPages
T == INSTANCE Translation WITH VPNs <- VSpace,
                               PPNs <- {PPN(f) : f \in Frames},
                               MaxPages <- AbsMaxPages,
                               map <- [v \in VSpace |-> UserMap(v)]
ImplementsTranslation == T!Spec

\* The tables the walk from the root reaches.
PDs(f) == {Read(tab, PPN(f), i).ppn - PoolBase : i \in {j \in Idx : Read(tab, PPN(f), j).kind = "pd"}}
Tables1 == PDs(root)
Tables0 == UNION {PDs(f) : f \in Tables1 \cap Frames}
Tables == {root} \cup Tables1 \cup Tables0
\* The frames a user leaf of those tables maps.
UserFrames == {g \in Frames : \E f \in Tables, i \in Idx :
                                  Read(tab, PPN(f), i) = Leaf(PPN(g), TRUE)}

\* While the process lives its page table is a sound tree over allocated
\* frames: each table the walk reaches is allocated and recorded (in
\* pmm.mem_set, or taken by remove_mapping), the root and the tables of
\* the two levels are distinct frames, and every frame a user leaf maps is
\* allocated and owned by one of the process's records, never a table.
PageTreeSound ==
    state = "live" =>
        LET tables == Tables
            owned  == UNION {RecFrames(r) : r \in recs}
        IN  /\ tables \subseteq Frames
            /\ \A f \in tables : pages[f]
            /\ tables \subseteq memSet \cup rmTables
            /\ root \notin Tables1 \cup Tables0 /\ Tables1 \cap Tables0 = {}
            /\ \A f \in UserFrames : pages[f] /\ f \in owned /\ f \notin tables

\* After Process::release the only frames still allocated are the tables
\* remove_mapping took, which no mem_set records.
LeakOnlyMunmapTables ==
    state = "exited" => {f \in Frames : pages[f]} = rmTables

=============================================================================
