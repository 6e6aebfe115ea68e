----------------------------- MODULE MCBuffers -----------------------------
(* Buffers for TLC: processes, blocks and buffers are model values and play *)
(* equal parts.                                                             *)
EXTENDS Buffers, TLC

Symmetry == Permutations(Procs) \cup Permutations(Blocks) \cup Permutations(Bufs)
=============================================================================
