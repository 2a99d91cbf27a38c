------------------------------- MODULE Signal -------------------------------
(***************************************************************************)
(* Signal delivery: Task::signal (sys_call/mod.rs) and the system calls    *)
(* that install, mask, send and return from signals (sys_call/signal.rs,   *)
(* sys_call/task/exit.rs), with the scheduler steps that interleave them.  *)
(*                                                                         *)
(* Task::signal runs the handler inside the kernel call that sent the      *)
(* signal: it saves the task's context in a Rust local and in the          *)
(* SignalUserContext on the heap's temp page, then loops run()/interrupt() *)
(* until the task traps with rt_sigreturn.  A handler that sends another   *)
(* signal nests a further Task::signal, so the kernel stack holds a        *)
(* sequence of handler frames; the innermost one's task is the one that    *)
(* runs.  The word ucontext.context.x[0] of the temp page holds the saved  *)
(* sepc and doubles as the "handler active" flag, and release_temp zeroes  *)
(* the page.  heap.temp is a physical page number and fork copies it       *)
(* (UserHeap::clone_with_data), so a parent and its forked child share the *)
(* page the kernel reads and writes.                                       *)
(*                                                                         *)
(* A context is abstracted to its sepc: "main" (the interrupted program),  *)
(* a signal s (the entry of the handler of s), or Zero.                    *)
(***************************************************************************)
EXTENDS Integers, Sequences, SequencesExt

CONSTANTS Procs,      \* process slots; the ones not in InitProcs are for fork
          InitProcs,  \* the processes that exist at the start
          Tids,       \* thread ids of a process; 0 is the main thread
          InitTasks,  \* the tasks of InitProcs at the start
          Sigs,       \* signal numbers below 64 a run uses
          BigSig,     \* a signal number of 64 or more
          Frames,     \* physical pages a temp page can be
          MaxCalls,   \* system calls in a run
          Zero,       \* the word 0
          NoFrame,    \* heap.temp == 0: no temp page yet
          None        \* a null user pointer

Tasks == Procs \X Tids

ProcOf(t) == t[1]

Pcs == {"main"} \cup Sigs

\* The sigprocmask how values: block, unblock, setmask, and any other.
Hows == 0 .. 3

VARIABLES alive,    \* the processes that exist
          tasks,    \* the tasks that get_task finds
          queue,    \* TaskScheduler.queue; its head runs at the top level
          handler,  \* handler[p]: the signals whose sig_actions handler # 0
          mask,     \* TaskInner.sig_mask
          tempOf,   \* UserHeap.temp: a physical page, or NoFrame
          word,     \* word[f]: ucontext.context.x[0] in page f
          ctx,      \* ctx[t]: the sepc of TaskInner.context
          stack,    \* the Task::signal frames on the kernel stack
          satp,     \* the process whose page table satp selects
          kstate,   \* "up", or "panic"
          budget    \* system calls left

vars == <<alive, tasks, queue, handler, mask, tempOf, word, ctx, stack, satp,
          kstate, budget>>

\* The task that runs: the innermost handler's task, or the queue's head.
Running == IF stack = <<>> THEN Head(queue) ELSE Last(stack).task

Init ==
    /\ alive = InitProcs
    /\ tasks = InitTasks
    /\ queue \in SetToSeqs(InitTasks)
    /\ handler = [p \in Procs |-> {}]
    /\ mask = [t \in Tasks |-> {}]
    /\ tempOf = [p \in Procs |-> NoFrame]
    /\ word = [f \in Frames |-> Zero]
    /\ ctx = [t \in Tasks |-> "main"]
    /\ stack = <<>>
    /\ satp = ProcOf(Head(queue))
    /\ kstate = "up"
    /\ budget = MaxCalls

\* A system call of the running task r, dispatched by Task::sys_call.
Call(r) ==
    /\ kstate = "up"
    /\ budget > 0
    /\ r = Running
    /\ budget' = budget - 1

(***************************************************************************)
(* The scheduler.  At the top level Task::catch turns ChangeTask into      *)
(* switch_next, which moves the head to the back and activates the new     *)
(* head's page table.  Inside a handler frame interrupt()'s errors other   *)
(* than SigReturn are dropped by the loop, so nothing switches.            *)
(***************************************************************************)
SwitchNext(q) ==
    /\ queue' = Append(Tail(q), Head(q))
    /\ satp' = ProcOf(Head(queue'))

\* A ChangeTask result, with q the queue after the call's own changes.
ChangeTask(q) ==
    IF stack = <<>> THEN SwitchNext(q) ELSE queue' = q /\ UNCHANGED satp

\* sys_sched_yield returns ChangeTask.  (A timer interrupt switches
\* nothing: timer_handler's suspend_and_run_next is commented out.)
SchedYield(r) ==
    /\ Call(r)
    /\ ChangeTask(queue)
    /\ UNCHANGED <<alive, tasks, handler, mask, tempOf, word, ctx, stack,
                   kstate>>

(***************************************************************************)
(* Task::signal(signal) on task t.  change_satp comes first; a signal of   *)
(* 64 or more then panics on the sig_actions index; no handler returns;    *)
(* get_temp allocates a zeroed page on first use; a non-zero x[0] means a  *)
(* handler is active on that page and the signal is dropped.  Otherwise    *)
(* the saved sepc goes to x[0], sepc becomes the handler, and the handler  *)
(* loop starts: a new frame on the kernel stack.                           *)
(***************************************************************************)
GetTemp(p) ==
    IF tempOf[p] # NoFrame
    THEN {tempOf[p]}
    ELSE {f \in Frames : \A q \in alive : tempOf[q] # f}

\* Mutant: the x[0] check left out, so a second signal on a page in use
\* starts another handler and overwrites the saved sepc.
DeliverNoBusyCheck(t, s) ==
    LET p == ProcOf(t) IN
    /\ satp' = p
    /\ \/ /\ s = BigSig
          /\ kstate' = "panic"
          /\ UNCHANGED <<tempOf, word, ctx, stack>>
       \/ /\ s \in Sigs \ handler[p]
          /\ UNCHANGED <<tempOf, word, ctx, stack, kstate>>
       \/ /\ s \in handler[p]
          /\ \E f \in GetTemp(p) :
               /\ tempOf' = [tempOf EXCEPT ![p] = f]
               /\ word' = [word EXCEPT ![f] = ctx[t]]
               /\ ctx' = [ctx EXCEPT ![t] = s]
               /\ stack' = Append(stack, [task |-> t, saved |-> ctx[t]])
          /\ UNCHANGED kstate

Deliver(t, s) ==
    LET p == ProcOf(t) IN
    /\ satp' = p
    /\ \/ /\ s = BigSig
          /\ kstate' = "panic"
          /\ UNCHANGED <<tempOf, word, ctx, stack>>
       \/ /\ s \in Sigs \ handler[p]
          /\ UNCHANGED <<tempOf, word, ctx, stack, kstate>>
       \/ /\ s \in handler[p]
          /\ \E f \in GetTemp(p) :
               /\ tempOf' = [tempOf EXCEPT ![p] = f]
               /\ IF word[f] # Zero
                  THEN UNCHANGED <<word, ctx, stack>>
                  ELSE /\ word' = [word EXCEPT ![f] = ctx[t]]
                       /\ ctx' = [ctx EXCEPT ![t] = s]
                       /\ stack' = Append(stack, [task |-> t, saved |-> ctx[t]])
          /\ UNCHANGED kstate

\* sys_tkill: get_task(self.pid, tid), then signal.
Tkill(tid, s) ==
    LET r == Running
        t == <<ProcOf(r), tid>>
    IN /\ Call(r)
       /\ IF t \in tasks THEN Deliver(t, s)
                         ELSE UNCHANGED <<satp, tempOf, word, ctx, stack, kstate>>
       /\ UNCHANGED <<alive, tasks, queue, handler, mask>>

\* sys_tgkill: get_task(tgid, tid), then signal; no such task is an error
\* in a0.
Tgkill(p, tid, s) ==
    LET r == Running
        t == <<p, tid>>
    IN /\ Call(r)
       /\ IF t \in tasks THEN Deliver(t, s)
                         ELSE UNCHANGED <<satp, tempOf, word, ctx, stack, kstate>>
       /\ UNCHANGED <<alive, tasks, queue, handler, mask>>

\* sys_kill: logs and returns 0; nothing is delivered.
Kill(s) ==
    /\ Call(Running)
    /\ UNCHANGED <<alive, tasks, queue, handler, mask, tempOf, word, ctx,
                   stack, satp, kstate>>

(***************************************************************************)
(* rt_sigreturn returns Err(SigReturn).  Inside a handler frame it breaks  *)
(* the loop: the frame's task gets its saved context back with sepc taken  *)
(* from x[0] of the temp page, and release_temp zeroes that page.  At the  *)
(* top level Task::catch only logs it.  A return is not counted against    *)
(* the budget, so every run can unwind its handler frames.                 *)
(***************************************************************************)
\* Mutant: release_temp left out, so the page keeps its saved sepc.
SigreturnKeepsTemp ==
    LET r == Running
        f == tempOf[ProcOf(r)]
    IN /\ kstate = "up"
       /\ stack # <<>>
       /\ ctx' = [ctx EXCEPT ![r] = word[f]]
       /\ stack' = Front(stack)
       /\ UNCHANGED <<alive, tasks, queue, handler, mask, tempOf, word, satp,
                      kstate, budget>>

Sigreturn ==
    LET r == Running
        f == tempOf[ProcOf(r)]
    IN /\ kstate = "up"
       /\ stack # <<>>
       /\ ctx' = [ctx EXCEPT ![r] = word[f]]
       /\ word' = [word EXCEPT ![f] = Zero]
       /\ stack' = Front(stack)
       /\ UNCHANGED <<alive, tasks, queue, handler, mask, tempOf, satp, kstate,
                      budget>>

StraySigreturn ==
    /\ stack = <<>>
    /\ Call(Running)
    /\ UNCHANGED <<alive, tasks, queue, handler, mask, tempOf, word, ctx,
                   stack, satp, kstate>>

\* SigAction::copy_from into sig_actions[s]: the handler becomes act's.
CopyAction(h, s, act) == IF act THEN h \cup {s} ELSE h \ {s}

\* SigSet::block (|=), unblock (^= self & set) and copy_from.
NewMask(how, m, set) ==
    CASE how = 0 -> m \cup set
      [] how = 1 -> m \ set
      [] how = 2 -> set

\* Mutant: sig_actions indexed without its bound, so a signal number of 64
\* or more gets an action instead of panicking.
SigactionNoBound(s, act, old) ==
    LET r == Running
        p == ProcOf(r)
    IN /\ Call(r)
       /\ IF act # None
          THEN handler' = [handler EXCEPT ![p] = CopyAction(@, s, act)]
          ELSE UNCHANGED handler
       /\ UNCHANGED <<alive, tasks, queue, mask, tempOf, word, ctx, stack,
                      satp, kstate>>

\* sys_sigaction: a non-null oldact first copies sig_actions[signum] out,
\* then a non-null act is copied into it, for the running task's process;
\* act is TRUE for a handler, FALSE for SIG_DFL (handler 0), or None.
\* Either access panics on the index for a signum of 64 or more.
Sigaction(s, act, old) ==
    LET r == Running
        p == ProcOf(r)
    IN /\ Call(r)
       /\ IF s = BigSig /\ (old \/ act # None)
          THEN /\ kstate' = "panic"
               /\ UNCHANGED handler
          ELSE /\ IF act # None
                  THEN handler' = [handler EXCEPT ![p] = CopyAction(@, s, act)]
                  ELSE UNCHANGED handler
               /\ UNCHANGED kstate
       /\ UNCHANGED <<alive, tasks, queue, mask, tempOf, word, ctx, stack,
                      satp>>

\* sys_sigprocmask on the running task's sig_mask: SigSet::block (|=),
\* unblock (^= self & set), copy_from; any other how is unimplemented!().
Sigprocmask(how, set) ==
    LET r == Running IN
    /\ Call(r)
    /\ \/ /\ set = None
          /\ UNCHANGED <<mask, kstate>>
       \/ /\ set # None
          /\ how \in 0 .. 2
          /\ mask' = [mask EXCEPT ![r] = NewMask(how, @, set)]
          /\ UNCHANGED kstate
       \/ /\ set # None
          /\ how = 3
          /\ kstate' = "panic"
          /\ UNCHANGED mask
    /\ UNCHANGED <<alive, tasks, queue, handler, tempOf, word, ctx, stack,
                   satp>>

(***************************************************************************)
(* sys_fork: Process::new gives the child empty sig_actions and a main     *)
(* task with an empty sig_mask; the child's context is the parent's;       *)
(* heap.clone_with_data copies heap.temp, the parent's physical page; the  *)
(* child joins the queue and the call returns ChangeTask.                  *)
(***************************************************************************)
Fork(c) ==
    LET r == Running
        child == <<c, 0>>
    IN /\ Call(r)
       /\ c \notin alive
       /\ alive' = alive \cup {c}
       /\ tasks' = tasks \cup {child}
       /\ handler' = [handler EXCEPT ![c] = {}]
       /\ mask' = [mask EXCEPT ![child] = {}]
       /\ tempOf' = [tempOf EXCEPT ![c] = tempOf[ProcOf(r)]]
       /\ ctx' = [ctx EXCEPT ![child] = ctx[r]]
       /\ ChangeTask(Append(queue, child))
       /\ UNCHANGED <<word, stack, kstate>>

SigNext ==
    \/ SchedYield(Running)
    \/ \E tid \in Tids, s \in Sigs \cup {BigSig} : Tkill(tid, s)
    \/ \E p \in Procs, tid \in Tids, s \in Sigs \cup {BigSig} : Tgkill(p, tid, s)
    \/ \E s \in Sigs : Kill(s)
    \/ Sigreturn
    \/ StraySigreturn
    \/ \E s \in Sigs \cup {BigSig}, act \in BOOLEAN \cup {None},
         old \in BOOLEAN : Sigaction(s, act, old)
    \/ \E how \in Hows, set \in SUBSET Sigs \cup {None} : Sigprocmask(how, set)
    \/ \E c \in Procs : Fork(c)

Spec == Init /\ [][SigNext]_vars

(***************************************************************************)
(* Properties.                                                             *)
(***************************************************************************)

TypeOK ==
    /\ alive \subseteq Procs
    /\ tasks \subseteq alive \X Tids
    /\ queue \in Seq(tasks)
    /\ handler \in [Procs -> SUBSET Sigs]
    /\ mask \in [Tasks -> SUBSET Sigs]
    /\ tempOf \in [Procs -> Frames \cup {NoFrame}]
    /\ word \in [Frames -> Pcs \cup {Zero}]
    /\ ctx \in [Tasks -> Pcs \cup {Zero}]
    /\ stack \in Seq([task : tasks, saved : Pcs \cup {Zero}])
    /\ satp \in alive
    /\ kstate \in {"up", "panic"}
    /\ budget \in 0 .. MaxCalls

\* Each temp page holds in its x[0] the saved sepc of the one handler frame
\* running on it, and is zero when none is.  Task::signal's x[0] check,
\* release_temp, and fork's sharing of heap.temp between two processes
\* must agree for this to hold across nested and cross-process signals.
TempHoldsActiveFrame ==
    \A f \in Frames :
        LET on == {i \in 1 .. Len(stack) : tempOf[ProcOf(stack[i].task)] = f}
        IN  IF on = {} THEN word[f] = Zero
            ELSE \E i \in on : on = {i} /\ word[f] = stack[i].saved

\* When rt_sigreturn ends a handler, its task resumes at the sepc it had
\* when Task::signal interrupted it, read back from the temp page.
RestoresInterruptedContext ==
    [][Len(stack') < Len(stack) =>
         ctx'[Last(stack).task] = Last(stack).saved]_vars

====
