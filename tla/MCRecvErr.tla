----------------------------- MODULE MCRecvErr -----------------------------
(***************************************************************************)
(* An 8 bit usize, with the lengths around the sizes of the structures,    *)
(* around isize::MAX and around usize::MAX.                                *)
(***************************************************************************)
EXTENDS RecvErr

EdgeLengths  == {0, 15, 16, 17, 31, 32, 33, 47, 48, 63, 64, 65, 120, 121, 126, 127}
EdgeCmsgLens == (0 .. 50) \cup (58 .. 66) \cup (120 .. 130) \cup (240 .. 255)
=============================================================================
