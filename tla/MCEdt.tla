------------------------------- MODULE MCEdt --------------------------------
(***************************************************************************)
(* Instances of HgEdt for TLC.                                             *)
(***************************************************************************)
EXTENDS HgEdt, TLC

\* The CPUs run the same program.
CpuSymmetry == Permutations(CPU)
=============================================================================
