---------------------------- MODULE MCTaskSched ----------------------------
(***************************************************************************)
(* Model-checking instance of TaskSched.  The constants are given in the  *)
(* .cfg files; the programs that each run lets the user issue are chosen  *)
(* there as the set Calls.                                                 *)
(***************************************************************************)
EXTENDS TaskSched

\* PidGenerater::new
MCFirstPid == 1000

\* The fork/thread shell: every call but spec_fork and getppid.
MCForkCalls == {"yield", "fork", "thread", "exit", "exit_group", "wait4",
                "execve", "other", "fault"}

\* The vfork shell of the busybox tests: spec_fork, then execve in the child.
MCVforkCalls == {"spec_fork", "execve", "exit_group", "wait4", "yield",
                 "getppid"}

\* Programs that may exit before their children: the orphan case.
MCOrphanCalls == {"fork", "exit_group", "getppid", "yield"}

\* A shell mixing fork and spec_fork.
MCMixedCalls == {"fork", "spec_fork", "exit_group", "wait4", "yield"}

\* A spec_fork child that leaves through exit instead of exit_group.
MCVforkExitCalls == {"spec_fork", "exit", "exit_group", "wait4"}

\* Programs whose tasks may die of an exception.
MCFaultCalls == {"fork", "fault", "exit_group", "wait4", "yield"}

\* Programs whose execve may fail.
MCExecCalls == {"fork", "execve", "exit_group", "wait4"}

\* Programs whose main thread may leave through exit, next to another
\* process.
MCSatpCalls == {"fork", "exit", "exit_group", "wait4", "yield"}

=============================================================================
