-------------------------- MODULE MCKernelThreads --------------------------
(* Instances of KernelThreads for TLC.                                           *)
EXTENDS KernelThreads

CONSTANTS t1, t2, a1, a2, a3
=============================================================================
