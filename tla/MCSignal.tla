------------------------------ MODULE MCSignal ------------------------------
(***************************************************************************)
(* Signal for TLC: two processes of two threads and a slot for a forked    *)
(* child; the temp pages are interchangeable.                              *)
(***************************************************************************)
EXTENDS Signal, TLC

CONSTANTS p1, p2, p3

\* p1 has a second thread; p2 only its main thread.
MCInitTasks == {<<p1, 0>>, <<p1, 1>>, <<p2, 0>>}

MCFrameSymmetry == Permutations(Frames)

=============================================================================
