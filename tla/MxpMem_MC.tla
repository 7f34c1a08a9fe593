------------------------------- MODULE MxpMem_MC -------------------------------
(***************************************************************************)
(* Instances of MxpMem for TLC.                                            *)
(***************************************************************************)
EXTENDS MxpMem, TLC

Interchangeable == Permutations(Names)

================================================================================
