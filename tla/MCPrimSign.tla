------------------------------ MODULE MCPrimSign ------------------------------
(***************************************************************************)
(* PrimSign for TLC: lengths on both sides of every loop's threshold, and  *)
(* every even and some odd destination alignments.                         *)
(***************************************************************************)
EXTENDS PrimSign

\* Below 16 (general path), the prologue's worst case, one and two
\* 32-blocks, 8-blocks and leftovers.
SignLens == {0, 1, 15, 16, 17, 23, 39, 40, 47, 72, 80}
DstAlign == {0, 1, 2, 4, 6, 8, 10, 14, 15}
SrcAlign == {0, 2, 6}
=============================================================================
