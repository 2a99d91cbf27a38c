------------------------------ MODULE MCFdPipe ------------------------------
(***************************************************************************)
(* FdPipe instantiated for TLC: a process and the child it forks, one or   *)
(* two pipes, a short buffer standing in for the 4096 bytes of a pipe, and *)
(* the system calls each run lets programs issue.                          *)
(***************************************************************************)
EXTENDS FdPipe, TLC

MCPipeSymmetry == Permutations(Pipes)

\* Every descriptor call of sys_call/fd that reaches the fd table or a pipe.
MCAllCalls == {"pipe2", "fork", "dup", "dup3", "close", "lseek", "read",
               "readv", "write", "writev", "sendfile", "openat"}

\* The pipeline pattern: pipe2, fork, one side writes, the other reads.
MCTrimCalls == {"pipe2", "fork", "read", "write"}

=============================================================================
