------------------------------ MODULE Dspmod_MC ------------------------------
(***************************************************************************)
(* Instances of Dspmod for TLC.                                            *)
(***************************************************************************)
EXTENDS Dspmod

=============================================================================
