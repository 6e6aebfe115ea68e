-------------------------------- MODULE MCProc --------------------------------
(* Instances of Proc for TLC.                                                 *)
EXTENDS Proc, TLC

CpuSymmetry == Permutations(CPUs)
===============================================================================
