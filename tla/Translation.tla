----------------------------- MODULE Translation -----------------------------
(***************************************************************************)
(* What a process's page table promises its user code (spec 2, "Address   *)
(* space"): each virtual page either translates, for a user access, to a  *)
(* physical frame or faults.  A mapping call changes the translation of   *)
(* the pages it was asked for and of no other page; munmap makes its page *)
(* fault; when the process exits no page translates any more.             *)
(***************************************************************************)
EXTENDS Integers

CONSTANTS VPNs,      \* the virtual pages a process uses
          PPNs,      \* the physical frames a user page may translate to
          MaxPages,  \* the largest page count of one mapping call
          Unmapped   \* a user access to the page faults

VARIABLES map        \* map[v]: the frame page v translates to, or Unmapped

Init == map = [v \in VPNs |-> Unmapped]

\* The pages v, v+1, ..., v+n-1 a call of n pages from v covers.
Span(v, n) == {v + i : i \in 0 .. n - 1} \cap VPNs

\* A mapping call of n pages from v: those pages may get frames (a call
\* that fails half way maps only some); every other page keeps its frame.
Map(v, n) ==
    /\ \A w \in VPNs \ Span(v, n) : map'[w] = map[w]
    /\ \A w \in Span(v, n) : map'[w] \in PPNs \cup {map[w]}

\* munmap of page v: a user access to it faults from now on.
Unmap(v) == map' = [map EXCEPT ![v] = Unmapped]

\* The process exits and its address space is gone.
Clear == map' = [v \in VPNs |-> Unmapped]

Next == \/ \E v \in VPNs, n \in 1 .. MaxPages : Map(v, n)
        \/ \E v \in VPNs : Unmap(v)
        \/ Clear

Spec == Init /\ [][Next]_map

=============================================================================
