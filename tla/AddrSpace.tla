------------------------------ MODULE AddrSpace ------------------------------
(***************************************************************************)
(* Per-process address spaces: the page table of a PageMappingManager and  *)
(* the MemMap records a process holds in its mem_set, its stack and its    *)
(* heap (task/process.rs, task/stack.rs, task/user_heap.rs, sys_call/mm.rs *)
(* and the memory half of fork, spec_fork, execve and exit).               *)
(*                                                                         *)
(* A record is [ppn, n, vp]: the frame it starts at, its page count (0 or  *)
(* 1: the ownership of a record of k pages behaves like that of one) and   *)
(* the virtual page it is mapped at.  A record lives as long as some set   *)
(* holds its Rc, and then its frames are held.  A page table is named by   *)
(* its root frame; it is held while its pmm.mem_set still owns the root.   *)
(* leaves[t][v] is the frame page table t maps virtual page v to, or       *)
(* NoFrame when v reaches only the identity entries alloc_pte fills in.    *)
(* Frames are handed out as FrameAlloc does: alloc (page-table nodes)      *)
(* takes the lowest free frame, alloc_more the highest.                    *)
(***************************************************************************)
EXTENDS Integers, Sequences, FiniteSets, FiniteSetsExt, Relation

CONSTANTS Procs,     \* process slots
          NFrames,   \* frames of the bitmap
          Calls,     \* the operations the run lets processes perform
          None       \* no vfork parent

Frames == 0 .. NFrames - 1
NoFrame == -1

\* The virtual pages a process may use: the ELF text, the initial stack and
\* one page it grows by, the heap's first page, one brk page, the signal
\* temp page, and two pages of an mmap.
VPages == {"text", "stack", "stack2", "heap", "brk", "temp", "mm0", "mm1"}

\* The order records sit in their Vec, which decides which clone gets which
\* fresh frame.
VOrd == [v \in VPages |->
           CASE v = "text" -> 1 [] v = "stack" -> 2 [] v = "stack2" -> 3
             [] v = "heap" -> 4 [] v = "brk" -> 5 [] v = "temp" -> 6
             [] v = "mm0" -> 7 [] v = "mm1" -> 8]

Rec == [ppn : Frames, n : 0 .. 1, vp : VPages]

\* The pages an mmap of each length kind maps: below a page, one page, a
\* page and a half, and the 512 KiB special case.
MmKinds == {"small", "page", "partial", "wrap"}

VARIABLES st,        \* st[p]: "none", "live" or "zombie" (exit_code set)
          pmm,       \* Process.pmm: the root frame of its page table
          stackPmm,  \* UserStack.pmm
          heapPmm,   \* UserHeap.pmm
          memSet,    \* Process.mem_set: a set of records
          stackSet,  \* UserStack.mem_set
          heapSet,   \* UserHeap.mem_set
          temp,      \* UserHeap.temp: the signal temp frame, or NoFrame
          mmKind,    \* the mmap the process was given: "none" or a kind
          vforkOf,   \* vforkOf[c]: the parent a spec_fork child holds, or None
          ptHeld,    \* roots still owned by their pmm.mem_set
          leaves,    \* leaves[t][v]
          wrote      \* writes of the last step: [who, dst, into]

vars == <<st, pmm, stackPmm, heapPmm, memSet, stackSet, heapSet, temp,
          mmKind, vforkOf, ptHeld, leaves, wrote>>

RecFrames(r) == r.ppn .. r.ppn + r.n - 1

R(f, n, v) == [ppn |-> f, n |-> n, vp |-> v]

\* The records a process holds.
Recs(ms, ss, hs, p) == ms[p] \cup ss[p] \cup hs[p]

\* Frames held by live records and page tables.
HeldFrames(ms, ss, hs, ph) ==
    UNION {RecFrames(r) : r \in UNION {Recs(ms, ss, hs, q) : q \in Procs}}
    \cup ph

Held == HeldFrames(memSet, stackSet, heapSet, ptHeld)

\* A mutant of alloc_more(1) that returns the frame after the run it found.
AllocHighPastEnd(h) == IF Frames \ h = {} THEN NoFrame ELSE Max(Frames \ h) + 1

\* alloc_more(1) and alloc() over the frames not in h.
AllocHigh(h) == IF Frames \ h = {} THEN NoFrame ELSE Max(Frames \ h)
AllocLow(h) == IF Frames \ h = {} THEN NoFrame ELSE Min(Frames \ h)

\* alloc_more(n) of a record of n pages (alloc_more(0) is the top frame).
AllocRec(h, n) == IF n = 0 THEN NFrames - 1 ELSE AllocHigh(h)

\* A fresh page table: alloc_pte fills the root with identity entries.
IdentityLeaves == [v \in VPages |-> NoFrame]

\* A mutant of add_mapping_by_set whose page loop starts at 1, not 0.
MapRecsSkipFirst(lv, recs) == lv

\* add_mapping_by_set: each record of one page is mapped at its page.
MapRecs(lv, recs) ==
    [v \in VPages |-> IF \E r \in recs : r.vp = v /\ r.n = 1
                      THEN (CHOOSE r \in recs : r.vp = v /\ r.n = 1).ppn
                      ELSE lv[v]]

\* Rc<PageMappingManager> holders: a page table is dropped, and its root
\* freed, when no process slot refers to it any more.
Referenced(t, s, pm, sp, hp) ==
    \E q \in Procs : s[q] # "none" /\ t \in {pm[q], sp[q], hp[q]}

\* Mutants of the drop of a PageMappingManager Rc: one that frees the root
\* at every drop, and one that never frees it.
KeepReferencedNone(ph, s, pm, sp, hp) == {}
KeepReferencedAll(ph, s, pm, sp, hp) == ph

KeepReferenced(ph, s, pm, sp, hp) == {t \in ph : Referenced(t, s, pm, sp, hp)}

\* The tables of a freed root read as fresh: the frame is zeroed or refilled
\* by whichever alloc hands it out next, so nothing can see what it held.
Settle(lv, ph) == [t \in Frames |-> IF t \in ph THEN lv[t] ELSE IdentityLeaves]

\* A process runs unless a spec_fork child of it is alive (VFORK_WAIT_LIST).
Runnable(p) == /\ st[p] = "live"
               /\ ~\E c \in Procs : vforkOf[c] = p /\ st[c] = "live"

Grown(p) == \E r \in stackSet[p] : r.vp = "stack2"
HasBrk(p) == \E r \in heapSet[p] : r.vp = "brk"

Init == /\ st = [p \in Procs |-> "none"]
        /\ pmm = [p \in Procs |-> NoFrame]
        /\ stackPmm = [p \in Procs |-> NoFrame]
        /\ heapPmm = [p \in Procs |-> NoFrame]
        /\ memSet = [p \in Procs |-> {}]
        /\ stackSet = [p \in Procs |-> {}]
        /\ heapSet = [p \in Procs |-> {}]
        /\ temp = [p \in Procs |-> NoFrame]
        /\ mmKind = [p \in Procs |-> "none"]
        /\ vforkOf = [p \in Procs |-> None]
        /\ ptHeld = {}
        /\ leaves = [t \in Frames |-> IdentityLeaves]
        /\ wrote = {}

\* A write the kernel makes on behalf of process p into the frames dst,
\* meant for the record `into' that p maps at the written address.
Write(p, dst, into) == [who |-> p, dst |-> dst, into |-> into]

\* A mutant that looks the page up in the mem_set alone, not in the heap.
RecAtMemSetOnly(p, v) ==
    IF \E r \in memSet[p] : r.vp = v
    THEN CHOOSE r \in memSet[p] : r.vp = v
    ELSE R(0, 0, v)

\* The record p maps at page v (an empty one if there is none).
RecAt(p, v) ==
    IF \E r \in Recs(memSet, stackSet, heapSet, p) : r.vp = v
    THEN CHOOSE r \in Recs(memSet, stackSet, heapSet, p) : r.vp = v
    ELSE R(0, 0, v)

RecsFrames(S) == UNION {RecFrames(r) : r \in S}

\* MemSet::clone_with_data: a fresh record, alloc_more(page_num), for each
\* record in Vec order, each frame taken out of the free frames in turn.
RECURSIVE CloneRecs(_, _, _)

\* A mutant that Rc-clones the records (MemSet::clone) instead of copying.
CloneRecsShallow(recs, h, done) == done \cup recs

CloneRecs(recs, h, done) ==
    IF recs = {} THEN done
    ELSE LET r == CHOOSE x \in recs : \A y \in recs : VOrd[x.vp] <= VOrd[y.vp]
             c == R(AllocRec(h, r.n), r.n, r.vp)
         IN  CloneRecs(recs \ {r}, h \cup RecFrames(c), done \cup {c})

Allocated(recs) == \A r \in recs : r.ppn # NoFrame

(***************************************************************************)
(* Operations.                                                             *)
(***************************************************************************)

\* load_next_task -> exec_by_str -> exec, when the run queue is empty:
\* Process::new (alloc_pte for the root, UserStack::new) and
\* exec_with_process (the ELF segment, new_heap, set_heap_top).
Exec(p) ==
    /\ "exec" \in Calls
    /\ \A q \in Procs : st[q] # "live"
    /\ st[p] = "none"
    /\ LET t  == AllocLow(Held)
           s  == AllocHigh(Held \cup {t})
           x  == AllocHigh(Held \cup {t, s})
           hp == AllocHigh(Held \cup {t, s, x})
       IN  /\ hp # NoFrame
           /\ st' = [st EXCEPT ![p] = "live"]
           /\ pmm' = [pmm EXCEPT ![p] = t]
           /\ stackPmm' = [stackPmm EXCEPT ![p] = t]
           /\ heapPmm' = [heapPmm EXCEPT ![p] = t]
           /\ memSet' = [memSet EXCEPT ![p] = {R(x, 1, "text")}]
           /\ stackSet' = [stackSet EXCEPT ![p] = {R(s, 1, "stack")}]
           /\ heapSet' = [heapSet EXCEPT ![p] = {R(hp, 1, "heap")}]
           /\ ptHeld' = ptHeld \cup {t}
           /\ leaves' = [leaves EXCEPT ![t] = [IdentityLeaves EXCEPT
                            !["stack"] = s, !["text"] = x, !["heap"] = hp]]
           /\ wrote' = {Write(p, {x}, R(x, 1, "text")),
                        Write(p, {s}, R(s, 1, "stack"))}
    /\ temp' = [temp EXCEPT ![p] = NoFrame]
    /\ mmKind' = [mmKind EXCEPT ![p] = "none"]
    /\ vforkOf' = [vforkOf EXCEPT ![p] = None]

\* Process::exit: release() empties the stack, heap and mem_set and the
\* pmm's own mem_set (the root), while the Rcs to the pmm stay.
SysExit(p) ==
    /\ "exit" \in Calls
    /\ Runnable(p)
    /\ st' = [st EXCEPT ![p] = "zombie"]
    /\ memSet' = [memSet EXCEPT ![p] = {}]
    /\ stackSet' = [stackSet EXCEPT ![p] = {}]
    /\ heapSet' = [heapSet EXCEPT ![p] = {}]
    /\ ptHeld' = ptHeld \ {pmm[p]}
    /\ leaves' = Settle(leaves, ptHeld')
    /\ wrote' = {}
    /\ UNCHANGED <<pmm, stackPmm, heapPmm, temp, mmKind, vforkOf>>

\* wait4 detaches an exited child and the Process is dropped, with the Rcs
\* to its page tables.
Reap(p) ==
    /\ st[p] = "zombie"
    /\ LET s2 == [st EXCEPT ![p] = "none"]
           pm == [pmm EXCEPT ![p] = NoFrame]
           sp == [stackPmm EXCEPT ![p] = NoFrame]
           hp == [heapPmm EXCEPT ![p] = NoFrame]
       IN  /\ st' = s2 /\ pmm' = pm /\ stackPmm' = sp /\ heapPmm' = hp
           /\ ptHeld' = KeepReferenced(ptHeld, s2, pm, sp, hp)
    /\ leaves' = Settle(leaves, ptHeld')
    /\ temp' = [temp EXCEPT ![p] = NoFrame]
    /\ mmKind' = [mmKind EXCEPT ![p] = "none"]
    /\ vforkOf' = [vforkOf EXCEPT ![p] = None]
    /\ wrote' = {}
    /\ UNCHANGED <<memSet, stackSet, heapSet>>

\* sys_brk past heap.end: set_heap_top maps one more page with heap.pmm and
\* pushes it into heap.mem_set.
SysBrk(p) ==
    /\ "brk" \in Calls
    /\ Runnable(p)
    /\ ~HasBrk(p)
    /\ LET f == AllocHigh(Held)
       IN  /\ f # NoFrame
           /\ heapSet' = [heapSet EXCEPT ![p] = @ \cup {R(f, 1, "brk")}]
           /\ leaves' = [leaves EXCEPT ![heapPmm[p]]["brk"] = f]
    /\ wrote' = {}
    /\ UNCHANGED <<st, pmm, stackPmm, heapPmm, memSet, stackSet, temp, mmKind,
                   vforkOf, ptHeld>>

\* A store fault in the stack region: alloc_until maps one more page with
\* stack.pmm and pushes it into stack.mem_set.
StackGrow(p) ==
    /\ "stack_grow" \in Calls
    /\ Runnable(p)
    /\ ~Grown(p)
    /\ LET f == AllocHigh(Held)
       IN  /\ f # NoFrame
           /\ stackSet' = [stackSet EXCEPT ![p] = @ \cup {R(f, 1, "stack2")}]
           /\ leaves' = [leaves EXCEPT ![stackPmm[p]]["stack2"] = f]
    /\ wrote' = {}
    /\ UNCHANGED <<st, pmm, stackPmm, heapPmm, memSet, heapSet, temp, mmKind,
                   vforkOf, ptHeld>>

\* Task::signal with a handler: heap.get_temp allocates the temp page on
\* first use (mapped with the process's pmm); the saved context is written
\* into the temp frame, and release_temp zeroes it again.
Signal(p) ==
    /\ "signal" \in Calls
    /\ Runnable(p)
    /\ IF temp[p] = NoFrame
       THEN LET f == AllocHigh(Held)
            IN  /\ f # NoFrame
                /\ heapSet' = [heapSet EXCEPT ![p] = @ \cup {R(f, 1, "temp")}]
                /\ leaves' = [leaves EXCEPT ![pmm[p]]["temp"] = f]
                /\ temp' = [temp EXCEPT ![p] = f]
                /\ wrote' = {Write(p, {f}, R(f, 1, "temp"))}
       ELSE /\ wrote' = {Write(p, {temp[p]}, RecAt(p, "temp"))}
            /\ UNCHANGED <<heapSet, leaves, temp>>
    /\ UNCHANGED <<st, pmm, stackPmm, heapPmm, memSet, stackSet, mmKind,
                   vforkOf, ptHeld>>


\* sys_fork: Process::new for the child (a root and a fresh stack), then
\* clone_with_data of the mem_set, the stack (dropping the fresh one) and
\* the heap, each mapped into the child's table; heap.temp is copied as is.
SysFork(p, c) ==
    /\ "fork" \in Calls
    /\ Runnable(p)
    /\ st[c] = "none"
    /\ LET t      == AllocLow(Held)
           s0     == AllocHigh(Held \cup {t})
           memC   == CloneRecs(memSet[p], Held \cup {t, s0}, {})
           h1     == Held \cup {t, s0} \cup RecsFrames(memC)
           stackC == CloneRecs(stackSet[p], h1, {})
           heapC  == CloneRecs(heapSet[p], (h1 \ {s0}) \cup RecsFrames(stackC), {})
           fresh  == [IdentityLeaves EXCEPT !["stack"] = s0]
       IN  /\ s0 # NoFrame
           /\ Allocated(memC \cup stackC \cup heapC)
           /\ memSet' = [memSet EXCEPT ![c] = memC]
           /\ stackSet' = [stackSet EXCEPT ![c] = stackC]
           /\ heapSet' = [heapSet EXCEPT ![c] = heapC]
           /\ pmm' = [pmm EXCEPT ![c] = t]
           /\ stackPmm' = [stackPmm EXCEPT ![c] = t]
           /\ heapPmm' = [heapPmm EXCEPT ![c] = t]
           /\ ptHeld' = ptHeld \cup {t}
           /\ leaves' = [leaves EXCEPT ![t] =
                           MapRecs(MapRecs(MapRecs(fresh, stackC), heapC), memC)]
           /\ wrote' = {Write(c, RecFrames(r), r) : r \in memC \cup stackC \cup heapC}
    /\ st' = [st EXCEPT ![c] = "live"]
    /\ temp' = [temp EXCEPT ![c] = temp[p]]
    /\ mmKind' = [mmKind EXCEPT ![c] = mmKind[p]]
    /\ vforkOf' = [vforkOf EXCEPT ![c] = None]

\* Process::fork: a new PageMappingManager t that maps the parent's mem_set
\* and heap, and a child whose mem_set and heap are Rc clones of the
\* parent's (the heap keeps the parent's pmm).
ProcessFork(p, c, t) ==
    /\ pmm' = [pmm EXCEPT ![c] = t]
    /\ ptHeld' = ptHeld \cup {t}
    /\ memSet' = [memSet EXCEPT ![c] = memSet[p]]
    /\ heapSet' = [heapSet EXCEPT ![c] = heapSet[p]]
    /\ heapPmm' = [heapPmm EXCEPT ![c] = heapPmm[p]]

\* sys_spec_fork: Process::fork, then the stack is cloned with data into
\* the new table; the parent joins VFORK_WAIT_LIST.
SysSpecFork(p, c) ==
    /\ "spec_fork" \in Calls
    /\ Runnable(p)
    /\ st[c] = "none"
    /\ LET t      == AllocLow(Held)
           stackC == CloneRecs(stackSet[p], Held \cup {t}, {})
           shared == MapRecs(MapRecs(IdentityLeaves, memSet[p]), heapSet[p])
       IN  /\ t # NoFrame
           /\ Allocated(stackC)
           /\ ProcessFork(p, c, t)
           /\ stackSet' = [stackSet EXCEPT ![c] = stackC]
           /\ stackPmm' = [stackPmm EXCEPT ![c] = t]
           /\ leaves' = [leaves EXCEPT ![t] = MapRecs(shared, stackC)]
           /\ wrote' = {Write(c, RecFrames(r), r) : r \in stackC}
    /\ st' = [st EXCEPT ![c] = "live"]
    /\ temp' = [temp EXCEPT ![c] = temp[p]]
    /\ mmKind' = [mmKind EXCEPT ![c] = mmKind[p]]
    /\ vforkOf' = [vforkOf EXCEPT ![c] = p]

\* A mutant of Process::reset that keeps the old mem_set.
ResetKeepMemSet(ms, p) == ms

\* Process::reset replaces the mem_set by an empty one, dropping its Rcs.
Reset(ms, p) == [ms EXCEPT ![p] = {}]

\* sys_execve: Process::reset (a new root, an empty mem_set, a new stack),
\* then exec_with_process: the ELF segment, new_heap (dropping the old heap
\* and, with the last Rc, the old table), and set_heap_top.
SysExecve(p) ==
    /\ "execve" \in Calls
    /\ Runnable(p)
    /\ LET t   == AllocLow(Held)
           ms1 == Reset(memSet, p)
           s   == AllocHigh(HeldFrames(ms1, stackSet, heapSet, ptHeld \cup {t}))
           ss1 == [stackSet EXCEPT ![p] = {R(s, 1, "stack")}]
           x   == AllocHigh(HeldFrames(ms1, ss1, heapSet, ptHeld \cup {t}))
           ms2 == [ms1 EXCEPT ![p] = @ \cup {R(x, 1, "text")}]
           hs1 == [heapSet EXCEPT ![p] = {}]
           pm  == [pmm EXCEPT ![p] = t]
           sp  == [stackPmm EXCEPT ![p] = t]
           hpm == [heapPmm EXCEPT ![p] = t]
           ph1 == KeepReferenced(ptHeld \cup {t}, st, pm, sp, hpm)
           hf  == AllocHigh(HeldFrames(ms2, ss1, hs1, ph1))
       IN  /\ t # NoFrame /\ s # NoFrame /\ x # NoFrame /\ hf # NoFrame
           /\ memSet' = ms2
           /\ stackSet' = ss1
           /\ heapSet' = [heapSet EXCEPT ![p] = {R(hf, 1, "heap")}]
           /\ pmm' = pm /\ stackPmm' = sp /\ heapPmm' = hpm
           /\ ptHeld' = ph1
           /\ leaves' = Settle([leaves EXCEPT ![t] = [IdentityLeaves EXCEPT
                            !["stack"] = s, !["text"] = x, !["heap"] = hf]], ph1)
           /\ wrote' = {Write(p, {x}, R(x, 1, "text")),
                        Write(p, {s}, R(s, 1, "stack"))}
    /\ temp' = [temp EXCEPT ![p] = NoFrame]
    /\ mmKind' = [mmKind EXCEPT ![p] = "none"]
    /\ UNCHANGED <<st, vforkOf>>

\* The frames the file copy of sys_mmap writes: len bytes from the start of
\* the new record (a page and a half spill into the next frame).
MmapSpan(f, k) == IF k = "partial" THEN {f, f + 1} ELSE {f}

\* sys_mmap with hint 0 on a region the table does not map yet
\* (p_start < 0x8000_0000).  "wrap" is the len == 0x80000 branch: one frame
\* mapped at every page of the range.  Otherwise page_num = len / PAGE_SIZE
\* and, for a file, copy_to writes len bytes from the record's first frame.
SysMmap(p, k, file) ==
    /\ ("mmap_" \o k) \in Calls
    /\ file => "mmap_file" \in Calls
    /\ Runnable(p)
    /\ mmKind[p] = "none"
    /\ leaves[pmm[p]]["mm0"] = NoFrame
    /\ LET n == IF k = "small" THEN 0 ELSE 1
           f == AllocRec(Held, n)
           r == R(f, n, "mm0")
       IN  /\ f # NoFrame
           /\ memSet' = [memSet EXCEPT ![p] = @ \cup {r}]
           /\ leaves' = [leaves EXCEPT ![pmm[p]] =
                           IF k = "wrap" THEN [@ EXCEPT !["mm0"] = f, !["mm1"] = f]
                           ELSE MapRecs(@, {r})]
           /\ wrote' = IF file /\ k # "wrap" THEN {Write(p, MmapSpan(f, k), r)}
                       ELSE {}
    /\ mmKind' = [mmKind EXCEPT ![p] = k]
    /\ UNCHANGED <<st, pmm, stackPmm, heapPmm, stackSet, heapSet, temp, vforkOf,
                   ptHeld>>

Next ==
    \/ \E p \in Procs :
          \/ Exec(p) \/ SysExit(p) \/ Reap(p) \/ SysBrk(p) \/ StackGrow(p)
          \/ Signal(p) \/ SysExecve(p)
          \/ \E k \in MmKinds, file \in BOOLEAN : SysMmap(p, k, file)
          \/ \E c \in Procs : SysFork(p, c) \/ SysSpecFork(p, c)

Spec == Init /\ [][Next]_vars

(***************************************************************************)
(* Properties.                                                             *)
(***************************************************************************)

Slot == Frames \cup {NoFrame}

TypeOK ==
    /\ st \in [Procs -> {"none", "live", "zombie"}]
    /\ pmm \in [Procs -> Slot] /\ stackPmm \in [Procs -> Slot]
    /\ heapPmm \in [Procs -> Slot]
    /\ memSet \in [Procs -> SUBSET Rec] /\ stackSet \in [Procs -> SUBSET Rec]
    /\ heapSet \in [Procs -> SUBSET Rec]
    /\ temp \in [Procs -> Slot]
    /\ mmKind \in [Procs -> MmKinds \cup {"none"}]
    /\ vforkOf \in [Procs -> Procs \cup {None}]
    /\ ptHeld \subseteq Frames
    /\ leaves \in [Frames -> [VPages -> Slot]]

\* The frames of the records process p holds.
OwnFrames(p) == RecsFrames(Recs(memSet, stackSet, heapSet, p))

\* Spec 2, "Address space": every leaf a running process's page table maps
\* is a frame of a MemMap that process holds, and its root is still owned.
\* Broken when one process maps pages into another's table (spec_fork's
\* shared heap keeps the parent's pmm) or frees frames another still maps.
LeavesOwned ==
    \A p \in Procs : st[p] = "live" =>
        /\ pmm[p] \in ptHeld
        /\ \A v \in VPages : leaves[pmm[p]][v] # NoFrame =>
                                 leaves[pmm[p]][v] \in OwnFrames(p)

\* The pages process p has been given: its image, stack and heap, what it
\* grew, the signal temp page, and the pages of its mmap.
Promised(p) ==
    {"text", "stack", "heap"}
    \cup (IF Grown(p) THEN {"stack2"} ELSE {})
    \cup (IF HasBrk(p) THEN {"brk"} ELSE {})
    \cup (IF temp[p] # NoFrame THEN {"temp"} ELSE {})
    \cup (CASE mmKind[p] \in {"small", "page"} -> {"mm0"}
            [] mmKind[p] \in {"partial", "wrap"} -> {"mm0", "mm1"}
            [] OTHER -> {})

\* Every page a call handed to a process (brk, mmap, stack growth, a fork
\* that copied the parent's) is mapped in its own table to a frame it holds,
\* so the user access that follows cannot fault.
PromisedMapped ==
    \A p \in Procs : st[p] = "live" =>
        \A v \in Promised(p) : leaves[pmm[p]][v] \in OwnFrames(p)

\* Every write the kernel makes for a process (ELF load, argument stack,
\* fork's copies, mmap's file copy, the signal context) lands inside the
\* record the process maps at that address.
NoForeignWrite ==
    \A w \in wrote : /\ w.dst \subseteq RecFrames(w.into)
                     /\ w.into \in Recs(memSet, stackSet, heapSet, w.who)

\* p and q are linked by spec_fork: one is a (transitive) vfork child of
\* the other that still runs on its heap (its heap.pmm is the other's).
VforkLinked(p, q) ==
    LET child == [x \in Procs \X Procs |-> /\ vforkOf[x[1]] = x[2]
                                            /\ heapPmm[x[1]] = heapPmm[x[2]]]
        tc == TransitiveClosure(child, Procs)
    IN  tc[p, q] \/ tc[q, p]

\* Spec 2: fork gives the child a copy of every record; only spec_fork
\* shares the parent's mem_set and heap.  Two processes hold a record in
\* common only when one is a vfork child of the other that has not yet
\* called execve.  Broken by a fork that Rc-clones instead of
\* clone_with_data, or an execve that keeps the shared records.
ForkIsolation ==
    \A p, q \in Procs :
        p # q /\ Recs(memSet, stackSet, heapSet, p) \cap
                  Recs(memSet, stackSet, heapSet, q) # {}
        => VforkLinked(p, q)

\* Once every process has been reaped, every frame is free again: nothing
\* the address spaces allocated is leaked.
NoLeak == (\A p \in Procs : st[p] = "none") => Held = {}


=============================================================================
