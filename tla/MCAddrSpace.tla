---------------------------- MODULE MCAddrSpace -----------------------------
(***************************************************************************)
(* AddrSpace for TLC: the operation sets of the runs, and symmetry of the  *)
(* process slots (no definition picks a slot with CHOOSE).                 *)
(***************************************************************************)
EXTENDS AddrSpace, TLC

MCProcSymmetry == Permutations(Procs)

\* Fork, exec, execve, exit and the calls that grow an address space.
MCForkCalls == {"exec", "fork", "execve", "exit", "brk", "stack_grow",
                "mmap_page"}

\* The busybox pattern: spec_fork, execve in the child; signals and file
\* mmap.
MCVforkCalls == {"exec", "spec_fork", "execve", "exit", "signal",
                 "mmap_page", "mmap_file"}

\* spec_fork children that call brk before they execve or exit.
MCVforkBrkCalls == {"exec", "spec_fork", "brk", "exit"}

\* A file mmap of a page and a half.
MCMmapWriteCalls == {"exec", "mmap_partial", "mmap_file"}

=============================================================================
