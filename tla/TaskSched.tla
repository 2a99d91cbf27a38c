----------------------------- MODULE TaskSched -----------------------------
(***************************************************************************)
(* The task scheduler and the process lifecycle of the kernel             *)
(* (src/kernel/src/task/task_scheduler.rs, task_queue.rs, process.rs,      *)
(* sys_call/task/fork.rs, exit.rs, sys_call/mod.rs).                       *)
(*                                                                         *)
(* One hart runs TaskScheduler::start: the task at the head of the         *)
(* VecDeque runs until it traps, Task::catch handles the trap, and the     *)
(* loop goes on.  The user program of a task is arbitrary, so every trap   *)
(* is a nondeterministic choice among the system calls in Calls; a budget  *)
(* per task bounds how many fresh calls its program makes before it ends   *)
(* (exit_group for a main thread, exit for another thread).  A call the    *)
(* kernel retries by moving sepc back (wait4) re-fires with the same       *)
(* argument and costs no budget.                                           *)
(*                                                                         *)
(* A task is the pair <<pid, tid>>.  A Process is kept alive by the strong *)
(* references of its tasks in the queue and of its parent's children      *)
(* vector; the parent pointer is Weak.  Held(p) below is that reachability.*)
(***************************************************************************)
EXTENDS Integers, Sequences, SequencesExt, FiniteSets

CONSTANTS
    FirstPid,       \* PidGenerater::new starts at 1000
    MaxProcs,       \* bound: number of pids the model may hand out
    MaxThreads,     \* bound: tids a process may create (tasks.len())
    Programs,       \* entries of TASK_QUEUE at boot
    Budget,         \* bound: fresh system calls of a loaded program
    Calls,          \* system calls user programs may issue
    WellBehaved,    \* programs reap their children before they exit
    LoadCanFail,    \* exec in exec_by_str may fail (file missing)
    ExecveCanFail,  \* execve may fail after process.reset()
    None,           \* model value: no parent (Option::None)
    User,           \* model value: task resumes in fresh user code
    IFault,         \* model value: task resumes in an unmapped address space
    WAIT_ANY,       \* model value: wait4's pid argument SYS_CALL_ERR (-1)
    KernelPT        \* model value: satp holds KERNEL_PAGE_MAPPING

AllCalls == {"yield", "fork", "spec_fork", "thread", "exit", "exit_group",
             "wait4", "execve", "getppid", "fault", "other"}

ASSUME /\ FirstPid \in Nat /\ MaxProcs \in Nat \ {0}
       /\ MaxThreads \in Nat \ {0} /\ Programs \in Nat \ {0}
       /\ Budget \in Nat /\ Calls \subseteq AllCalls
       /\ {WellBehaved, LoadCanFail, ExecveCanFail} \subseteq BOOLEAN

Pids     == FirstPid .. FirstPid + MaxProcs - 1
Tids     == 0 .. MaxThreads - 1
Tasks    == Pids \X Tids
WaitArgs == Pids \cup {WAIT_ANY}

VARIABLES
    queue,          \* TaskScheduler.queue: Seq of tasks, head runs
    taskQueue,      \* number of programs left in TASK_QUEUE
    nextPid,        \* NEXT_PID
    parent,         \* Process.parent (Weak), None for a loaded program
    children,       \* Process.children, in push order
    exited,         \* Process.exit_code.is_some()
    ntasks,         \* Process.tasks.len() (Weak entries are never removed)
    memShared,      \* mem_set and heap shared with the parent (Process::fork)
    vforkWaitList,  \* VFORK_WAIT_LIST (duplicates are irrelevant: only
                    \* membership is read and removal drains all copies)
    budget,         \* fresh calls left to the program of each task
    resume,         \* how the task resumes: User, IFault, or a wait4 retry
    kstate,         \* "run", "halt" (start returned: shutdown) or "panic"
    reaped,         \* history: <<parent, child>> pairs returned by wait4
    satp            \* whose page table satp points to (change_satp)

vars == <<queue, taskQueue, nextPid, parent, children, exited, ntasks,
          memShared, vforkWaitList, budget, resume, kstate, reaped, satp>>

-----------------------------------------------------------------------------
(* Helpers translated from the code.                                       *)

\* PidGenerater::next with the pre-increment slip
NewPidPreInc(n) == n + 1
\* PidGenerater::next: returns the current value, then increments
NewPid(n) == n

\* Task::new forgetting process_mut.tasks.push
RegisterTaskNoop(nt, p) == nt
\* Task::new pushes a Weak reference into process.tasks
RegisterTask(nt, p) == [nt EXCEPT ![p] = @ + 1]

\* sys_clone: the new tid is process.tasks.len()
NewTid(p) == ntasks[p]

\* TaskScheduler::add_task
AddTask(q, t) == Append(q, t)

\* switch_next that leaves the front task in place
SwitchNextStay(q) == q
\* TaskScheduler::switch_next: pop the front task, push it to the back
SwitchNext(q) == IF q = <<>> THEN q ELSE Append(Tail(q), Head(q))

\* switch_next that forgets to reload satp
ActiveAfterStale(q) == satp
\* switch_next ends with queue[0].before_run(): satp <- the new head's pmm
ActiveAfter(q) == IF q = <<>> THEN satp ELSE Head(q)[1]

\* kill_process that removes only the main thread
KillProcessMain(q, pid) == SelectSeq(q, LAMBDA t : t # <<pid, 0>>)
\* TaskScheduler::kill_process: drop every task of pid from the queue
KillProcess(q, pid) == SelectSeq(q, LAMBDA t : t[1] # pid)

\* TaskScheduler::kill_task
KillTask(q, t) == SelectSeq(q, LAMBDA u : u # t)

\* add_vfork_wait that forgets to push
AddVforkWaitNoop(w, pid) == w
\* add_vfork_wait
AddVforkWait(w, pid) == w \cup {pid}

\* remove_vfork_wait that forgets to drain
RemoveVforkWaitNoop(w, pid) == w
\* remove_vfork_wait: drain_filter removes every entry equal to pid
RemoveVforkWait(w, pid) == w \ {pid}

\* wait4 reaping a child whatever its state
ReapableAlways(c) == TRUE
\* wait4's test on a child: exit_code is Some
Reapable(c) == exited[c]

InQueue(p) == \E i \in 1 .. Len(queue) : queue[i][1] = p

\* Rc<RefCell<Process>> is alive: a task of it is queued, or its parent is
\* alive and still lists it among its children.
RECURSIVE Held(_)
Held(p) == \/ InQueue(p)
           \/ /\ parent[p] \in Pids
              /\ p \in ToSet(children[parent[p]])
              /\ Held(parent[p])

\* parent.upgrade().unwrap() panics when the parent is gone
OrphanOf(p) == parent[p] \in Pids /\ ~Held(parent[p])

-----------------------------------------------------------------------------
(* The user program of a task.                                             *)

\* A well-behaved program ends only when it has no unreaped children.
MayEnd(p) == ~WellBehaved \/ children[p] = <<>>

Program(t) ==
    LET p == t[1] IN
    IF budget[t] > 0
    THEN {c \in Calls : /\ c = "exit_group" => MayEnd(p)
                        /\ c = "exit" /\ t[2] = 0 => MayEnd(p)}
    ELSE IF t[2] # 0 THEN {"exit"}
    ELSE IF MayEnd(p) THEN {"exit_group"} ELSE {"wait4"}

\* The head task traps into the kernel with a fresh call c.
MayCall(t, c) == resume[t] = User /\ c \in Program(t)

Spent(t) == [budget EXCEPT ![t] = IF @ > 0 THEN @ - 1 ELSE 0]

\* A new task continues its creator's program.
Inherit(t, n) == [Spent(t) EXCEPT ![n] = budget[t] - 1]

-----------------------------------------------------------------------------
Init ==
    /\ queue = <<>>
    /\ taskQueue = Programs
    /\ nextPid = FirstPid
    /\ parent = [p \in Pids |-> None]
    /\ children = [p \in Pids |-> <<>>]
    /\ exited = [p \in Pids |-> FALSE]
    /\ ntasks = [p \in Pids |-> 0]
    /\ memShared = [p \in Pids |-> FALSE]
    /\ vforkWaitList = {}
    /\ budget = [t \in Tasks |-> 0]
    /\ resume = [t \in Tasks |-> User]
    /\ kstate = "run"
    /\ reaped = {}
    /\ satp = KernelPT

\* Pids the bound still allows forks to take: one is kept for each program
\* left in TASK_QUEUE.
PidsLeft == FirstPid + MaxProcs - nextPid - taskQueue

(***************************************************************************)
(* start(): the queue is empty, load_next_task pops TASK_QUEUE and         *)
(* exec_by_str execs it under a new pid.  An exec error is dropped, yet    *)
(* load_next_task still returns true and start indexes queue[0] of the     *)
(* empty VecDeque: a panic.                                                *)
(***************************************************************************)
LoadNextTask ==
    LET pid == NewPid(nextPid) IN
    /\ kstate = "run" /\ queue = <<>> /\ taskQueue > 0
    /\ taskQueue' = taskQueue - 1
    /\ nextPid' = nextPid + 1
    /\ \E ok \in IF LoadCanFail THEN BOOLEAN ELSE {TRUE} :
         IF ok
         THEN /\ queue' = AddTask(queue, <<pid, 0>>)
              /\ ntasks' = RegisterTask(ntasks, pid)
              /\ budget' = [budget EXCEPT ![<<pid, 0>>] = Budget]
              /\ satp' = pid
              /\ UNCHANGED kstate
         ELSE /\ kstate' = "panic"
              /\ UNCHANGED <<queue, ntasks, budget, satp>>
    /\ UNCHANGED <<parent, children, exited, memShared, vforkWaitList,
                   resume, reaped>>

\* start(): TASK_QUEUE is empty too, the loop breaks and main shuts down.
Shutdown ==
    /\ kstate = "run" /\ queue = <<>> /\ taskQueue = 0
    /\ kstate' = "halt"
    /\ UNCHANGED <<queue, taskQueue, nextPid, parent, children, exited,
                   ntasks, memShared, vforkWaitList, budget, resume, reaped,
                   satp>>

\* start(): the head task's pid is in VFORK_WAIT_LIST, switch_next.
VforkSkip ==
    /\ kstate = "run" /\ queue # <<>>
    /\ Head(queue)[1] \in vforkWaitList
    /\ queue' = SwitchNext(queue)
    /\ satp' = ActiveAfter(queue')
    /\ UNCHANGED <<taskQueue, nextPid, parent, children, exited, ntasks,
                   memShared, vforkWaitList, budget, resume, kstate, reaped>>

\* The head task t runs: start() calls task.run() and task.catch().
Runs(t) ==
    /\ kstate = "run" /\ queue # <<>> /\ Head(queue) = t
    /\ t[1] \notin vforkWaitList

-----------------------------------------------------------------------------
(* System calls, each the whole of sys_call(...) and catch(...).           *)

\* sys_sched_yield: status READY, Err(ChangeTask), catch calls switch_next.
SysSchedYield(t) ==
    /\ Runs(t) /\ MayCall(t, "yield")
    /\ queue' = SwitchNext(queue)
    /\ satp' = ActiveAfter(queue')
    /\ budget' = Spent(t)
    /\ UNCHANGED <<taskQueue, nextPid, parent, children, exited, ntasks,
                   memShared, vforkWaitList, resume, kstate, reaped>>

\* Any call that neither blocks nor changes the task set (read, write, ...).
SysOther(t) ==
    /\ Runs(t) /\ MayCall(t, "other")
    /\ budget' = Spent(t)
    /\ UNCHANGED <<queue, taskQueue, nextPid, parent, children, exited,
                   ntasks, memShared, vforkWaitList, resume, kstate, reaped,
                   satp>>

(***************************************************************************)
(* sys_clone with flags 0x11 or 0x4111: sys_fork.  Process::new under a    *)
(* fresh pid, pushed into children, the child task queued, then            *)
(* Err(ChangeTask) rotates the queue.  The child's memory is a copy.       *)
(***************************************************************************)
SysFork(t) ==
    LET p == t[1]
        c == NewPid(nextPid)
    IN
    /\ Runs(t) /\ MayCall(t, "fork") /\ PidsLeft > 0
    /\ nextPid' = nextPid + 1
    /\ parent' = [parent EXCEPT ![c] = p]
    /\ children' = [children EXCEPT ![p] = Append(@, c)]
    /\ ntasks' = RegisterTask(ntasks, c)
    /\ queue' = SwitchNext(AddTask(queue, <<c, 0>>))
    /\ satp' = ActiveAfter(queue')
    /\ budget' = Inherit(t, <<c, 0>>)
    /\ UNCHANGED <<taskQueue, exited, memShared, vforkWaitList, resume,
                   kstate, reaped>>

(***************************************************************************)
(* sys_clone with flags 0x1200011: sys_spec_fork.  Process::fork shares    *)
(* the parent's mem_set and heap (Rc clones), the child is queued, the     *)
(* caller's pid goes into VFORK_WAIT_LIST, Err(ChangeTask) rotates.        *)
(***************************************************************************)
SysSpecFork(t) ==
    LET p == t[1]
        c == NewPid(nextPid)
    IN
    /\ Runs(t) /\ MayCall(t, "spec_fork") /\ PidsLeft > 0
    /\ nextPid' = nextPid + 1
    /\ parent' = [parent EXCEPT ![c] = p]
    /\ children' = [children EXCEPT ![p] = Append(@, c)]
    /\ ntasks' = RegisterTask(ntasks, c)
    /\ memShared' = [memShared EXCEPT ![c] = TRUE]
    /\ queue' = SwitchNext(AddTask(queue, <<c, 0>>))
    /\ satp' = ActiveAfter(queue')
    /\ vforkWaitList' = AddVforkWait(vforkWaitList, p)
    /\ budget' = Inherit(t, <<c, 0>>)
    /\ UNCHANGED <<taskQueue, exited, resume, kstate, reaped>>

\* sys_clone with any other flags: a thread of the same process with
\* tid = tasks.len(), queued at the back; Ok(()) keeps the caller running.
SysClone(t) ==
    LET p == t[1]
        n == <<p, NewTid(p)>>
    IN
    /\ Runs(t) /\ MayCall(t, "thread") /\ NewTid(p) < MaxThreads
    /\ ntasks' = RegisterTask(ntasks, p)
    /\ queue' = AddTask(queue, n)
    /\ budget' = Inherit(t, n)
    /\ UNCHANGED <<taskQueue, nextPid, parent, children, exited, memShared,
                   vforkWaitList, resume, kstate, reaped, satp>>

(***************************************************************************)
(* sys_exit: the main thread runs Process::exit (exit_code, kill_process), *)
(* another thread kill_task; Err(KillCurrentTask) makes catch kill_task    *)
(* again.  No switch_next (so no before_run: satp is left as it is), and  *)
(* VFORK_WAIT_LIST is not touched.                                         *)
(***************************************************************************)
SysExit(t) ==
    LET p == t[1] IN
    /\ Runs(t) /\ MayCall(t, "exit")
    /\ IF t[2] = 0
       THEN /\ exited' = [exited EXCEPT ![p] = TRUE]
            /\ queue' = KillTask(KillProcess(queue, p), t)
       ELSE /\ queue' = KillTask(queue, t)
            /\ UNCHANGED exited
    /\ budget' = Spent(t)
    /\ UNCHANGED <<taskQueue, nextPid, parent, children, ntasks, memShared,
                   vforkWaitList, resume, kstate, reaped, satp>>

(***************************************************************************)
(* sys_exit_group: Process::exit (exit_code, kill_process), then           *)
(* parent.upgrade().unwrap() and remove_vfork_wait(parent.pid), then       *)
(* Err(ChangeTask): switch_next on the queue without the process.          *)
(***************************************************************************)
SysExitGroup(t) ==
    LET p == t[1] IN
    /\ Runs(t) /\ MayCall(t, "exit_group")
    /\ exited' = [exited EXCEPT ![p] = TRUE]
    /\ IF OrphanOf(p)
       THEN /\ kstate' = "panic"
            /\ queue' = KillProcess(queue, p)
            /\ UNCHANGED <<vforkWaitList, satp>>
       ELSE /\ queue' = SwitchNext(KillProcess(queue, p))
            /\ satp' = ActiveAfter(queue')
            /\ vforkWaitList' = IF parent[p] \in Pids
                                THEN RemoveVforkWait(vforkWaitList, parent[p])
                                ELSE vforkWaitList
            /\ UNCHANGED kstate
    /\ budget' = Spent(t)
    /\ UNCHANGED <<taskQueue, nextPid, parent, children, ntasks, memShared,
                   resume, reaped>>

(***************************************************************************)
(* sys_wait4(pid): a child with that pid and an exit code is drained from  *)
(* children and its pid returned; no such child: -ECHILD.  sys_wait4(-1):  *)
(* no children: -ECHILD; otherwise EVERY child with an exit code is        *)
(* drained and the first one's pid returned.  If nothing was reaped, sepc  *)
(* is moved back (the same call re-fires) and Err(ChangeTask) rotates.     *)
(***************************************************************************)
SysWait4(t, arg) ==
    LET p     == t[1]
        kids  == children[p]
        found == {c \in ToSet(kids) : Reapable(c)}
        first == SelectSeq(kids, Reapable)
        Done(res) == /\ resume' = [resume EXCEPT ![t] = User]
                     /\ queue' = queue
                     /\ reaped' = reaped \cup res
                     /\ satp' = satp
        Retry == /\ resume' = [resume EXCEPT ![t] = arg]
                 /\ queue' = SwitchNext(queue)
                 /\ satp' = ActiveAfter(queue')
                 /\ UNCHANGED <<children, reaped>>
    IN
    /\ Runs(t)
    /\ \/ resume[t] = User /\ MayCall(t, "wait4") /\ budget' = Spent(t)
       \/ resume[t] = arg /\ UNCHANGED budget
    /\ IF arg # WAIT_ANY
       THEN IF arg \notin ToSet(kids)
            THEN Done({}) /\ UNCHANGED children
            ELSE IF Reapable(arg)
                 THEN /\ Done({<<p, arg>>})
                      /\ children' = [children EXCEPT ![p] = Remove(kids, arg)]
                 ELSE Retry
       ELSE IF kids = <<>>
            THEN Done({}) /\ UNCHANGED children
            ELSE IF found # {}
                 THEN /\ Done({<<p, Head(first)>>})
                      /\ children' = [children EXCEPT ![p] =
                                        SelectSeq(kids, LAMBDA c : ~Reapable(c))]
                 ELSE Retry
    /\ UNCHANGED <<taskQueue, nextPid, parent, exited, ntasks, memShared,
                   vforkWaitList, kstate>>

(***************************************************************************)
(* sys_execve: process.reset() replaces pmm, mem_set and stack, satp is   *)
(* set to the kernel table, then exec_with_process loads the file and      *)
(* before_run loads the new table.  Only new_heap, at the end of a load    *)
(* that succeeded, drops the heap a spec_fork child shares with its        *)
(* parent.  When the load fails the error is returned to a task whose old  *)
(* mappings are gone, on the kernel page table, still holding that heap.   *)
(***************************************************************************)
SysExecve(t) ==
    LET p == t[1] IN
    /\ Runs(t) /\ MayCall(t, "execve")
    /\ \E ok \in IF ExecveCanFail THEN BOOLEAN ELSE {TRUE} :
         /\ memShared' = [memShared EXCEPT ![p] = @ /\ ~ok]
         /\ resume' = [resume EXCEPT ![t] = IF ok THEN User ELSE IFault]
         /\ satp' = IF ok THEN p ELSE KernelPT
    /\ budget' = Spent(t)
    /\ UNCHANGED <<queue, taskQueue, nextPid, parent, children, exited,
                   ntasks, vforkWaitList, kstate, reaped>>

\* sys_getppid: parent.upgrade().unwrap() on the Weak parent pointer.
SysGetppid(t) ==
    /\ Runs(t) /\ MayCall(t, "getppid")
    /\ kstate' = IF OrphanOf(t[1]) THEN "panic" ELSE kstate
    /\ budget' = Spent(t)
    /\ UNCHANGED <<queue, taskQueue, nextPid, parent, children, exited,
                   ntasks, memShared, vforkWaitList, resume, reaped, satp>>

\* interrupt(): an exception of the catch-all arm returns KillCurrentTask;
\* catch runs kill_task.  The process's exit_code stays None.
UserFault(t) ==
    /\ Runs(t) /\ MayCall(t, "fault")
    /\ queue' = KillTask(queue, t)
    /\ budget' = Spent(t)
    /\ UNCHANGED <<taskQueue, nextPid, parent, children, exited, ntasks,
                   memShared, vforkWaitList, resume, kstate, reaped, satp>>

\* interrupt(): InstructionPageFault panics.
InstructionPageFault(t) ==
    /\ Runs(t) /\ resume[t] = IFault
    /\ kstate' = "panic"
    /\ UNCHANGED <<queue, taskQueue, nextPid, parent, children, exited,
                   ntasks, memShared, vforkWaitList, budget, resume, reaped,
                   satp>>

\* After shutdown or a panic nothing runs any more.
Stopped == kstate # "run" /\ UNCHANGED vars

Next ==
    \/ LoadNextTask
    \/ Shutdown
    \/ VforkSkip
    \/ \E t \in Tasks :
         \/ SysSchedYield(t)
         \/ SysOther(t)
         \/ SysFork(t)
         \/ SysSpecFork(t)
         \/ SysClone(t)
         \/ SysExit(t)
         \/ SysExitGroup(t)
         \/ \E a \in WaitArgs : SysWait4(t, a)
         \/ SysExecve(t)
         \/ SysGetppid(t)
         \/ UserFault(t)
         \/ InstructionPageFault(t)
    \/ Stopped

\* The hart never idles: while the kernel runs, the start loop takes a step.
Spec == Init /\ [][Next]_vars /\ WF_vars(Next)

-----------------------------------------------------------------------------
(* Properties.                                                             *)

TypeOK ==
    /\ queue \in Seq(Tasks)
    /\ taskQueue \in 0 .. Programs
    /\ nextPid \in FirstPid .. FirstPid + MaxProcs
    /\ parent \in [Pids -> Pids \cup {None}]
    /\ children \in [Pids -> Seq(Pids)]
    /\ exited \in [Pids -> BOOLEAN]
    /\ ntasks \in [Pids -> 0 .. MaxThreads]
    /\ memShared \in [Pids -> BOOLEAN]
    /\ vforkWaitList \subseteq Pids
    /\ budget \in [Tasks -> 0 .. Budget]
    /\ resume \in [Tasks -> {User, IFault} \cup WaitArgs]
    /\ kstate \in {"run", "halt", "panic"}
    /\ reaped \subseteq Pids \X Pids
    /\ satp \in Pids \cup {KernelPT}

(* No task is queued twice: clone's tid = tasks.len() never reuses a tid   *)
(* of a live thread, and fork always queues a fresh pid.                   *)
UniqueTasks == IsInjective(queue)

(* A process whose exit_code is set has no task left in the run queue:     *)
(* exit and exit_group remove every thread, not only the caller.           *)
ExitedHasNoTasks == \A i \in 1 .. Len(queue) : ~exited[queue[i][1]]

(* wait4 drops a child from its parent's children vector only after that   *)
(* child has exited: a running child is never detached from its parent.    *)
ChildRemovedOnlyAfterExit ==
    \A c \in Pids : parent[c] \in Pids /\ c \notin ToSet(children[parent[c]])
                        => exited[c]

(* Every child that wait4 removed from its parent was reported to the      *)
(* parent by that wait4 (its pid returned in a0).                          *)
ExitStatusReported ==
    \A c \in Pids : parent[c] \in Pids /\ c \notin ToSet(children[parent[c]])
                        => <<parent[c], c>> \in reaped

(* A pid in VFORK_WAIT_LIST has a spec_fork child that has not exited and  *)
(* still has a task queued: the scheduler skips the waiter only while      *)
(* someone can release it.                                                 *)
VforkWaiterHasLiveChild ==
    \A p \in vforkWaitList :
        \E c \in ToSet(children[p]) : ~exited[c] /\ InQueue(c)

(* While a spec_fork child runs on its parent's mem_set and heap, the      *)
(* parent does not run: its pid is in VFORK_WAIT_LIST.                     *)
VforkParentHeld ==
    \A c \in Pids : memShared[c] /\ InQueue(c) => parent[c] \in vforkWaitList

(* A task that enters user mode does so on its own process's page table:  *)
(* Task::run does not load satp, so every path that changes the head of    *)
(* the queue must have called before_run on the new head.                  *)
SatpOfRunningTask ==
    LET t == Head(queue) IN
    kstate = "run" /\ queue # <<>> /\ t[1] \notin vforkWaitList
        => satp = t[1]

(* The kernel never panics.                                                *)
NoKernelPanic == kstate # "panic"

(* Once TASK_QUEUE is drained and every program has ended, start()         *)
(* returns and the kernel shuts down.                                      *)
Terminates == <>(kstate = "halt")

=============================================================================
