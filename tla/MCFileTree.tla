----------------------------- MODULE MCFileTree -----------------------------
(***************************************************************************)
(* FileTree for TLC: the root, the boot file and two nodes to create, two  *)
(* filenames of which one is the boot file's, paths of up to two           *)
(* components and two descriptor slots.                                    *)
(***************************************************************************)
EXTENDS FileTree

CONSTANTS r, f, n1, n2

MCNodes == {r, f, n1, n2}

MCNames == {"a", "b"}

=============================================================================
