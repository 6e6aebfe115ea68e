------------------------------- MODULE MCMyLock -------------------------------
(* Instances of MyLock for TLC.                                               *)
EXTENDS MyLock, TLC

CpuSymmetry == Permutations(CPUs)
===============================================================================
