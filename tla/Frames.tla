------------------------------- MODULE Frames -------------------------------
(***************************************************************************)
(* What the physical frame allocator and the MemMap records promise        *)
(* together (spec 3, "MemMap" and "Frame bitmap"): every frame is free or  *)
(* owned by exactly one live record; a new record takes only free frames;  *)
(* the frames of a record go back to the free pool only when the record    *)
(* itself dies, and then all of them at once.                              *)
(***************************************************************************)
CONSTANTS Frames,   \* the frame indices of the bitmap
          MapIds,   \* names of MemMap records
          Free      \* the owner of a free frame

VARIABLES owner,    \* owner[f]: the record that holds frame f, or Free
          live      \* the set of live records

avars == <<owner, live>>

Init == /\ owner = [f \in Frames |-> Free]
        /\ live = {}

\* A fresh record takes a set of free frames (possibly none).
Acquire(m, S) ==
    /\ m \notin live
    /\ \A f \in S : owner[f] = Free
    /\ owner' = [f \in Frames |-> IF f \in S THEN m ELSE owner[f]]
    /\ live' = live \cup {m}

\* A record dies and every frame it holds becomes free.
Release(m) ==
    /\ m \in live
    /\ owner' = [f \in Frames |-> IF owner[f] = m THEN Free ELSE owner[f]]
    /\ live' = live \ {m}

Next == \E m \in MapIds : \/ \E S \in SUBSET Frames : Acquire(m, S)
                          \/ Release(m)

Spec == Init /\ [][Next]_avars

=============================================================================
