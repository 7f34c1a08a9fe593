----------------------------- MODULE TeleDex_MC -----------------------------
(***************************************************************************)
(* Instances of TeleDex for TLC.                                           *)
(***************************************************************************)
EXTENDS TeleDex

=============================================================================
