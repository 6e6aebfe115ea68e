------------------------------ MODULE MCSpinLock ------------------------------
(* Instances of SpinLock for TLC: two CPUs, as the Makefile's CPUS := 2.      *)
EXTENDS SpinLock, TLC

CpuSymmetry == Permutations(CPUs)
===============================================================================
