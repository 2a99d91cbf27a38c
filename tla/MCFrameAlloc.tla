---------------------------- MODULE MCFrameAlloc ----------------------------
(***************************************************************************)
(* FrameAlloc for TLC.  No symmetry on the record names: FramesOwner picks *)
(* an owner with CHOOSE, which is not symmetric.                           *)
(***************************************************************************)
EXTENDS FrameAlloc

=============================================================================
