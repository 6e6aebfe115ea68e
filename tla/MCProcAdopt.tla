------------------------------ MODULE MCProcAdopt ------------------------------
(* Instances of ProcAdopt for TLC.                                            *)
EXTENDS ProcAdopt, TLC

CpuSymmetry == Permutations(CPUs)
===============================================================================
