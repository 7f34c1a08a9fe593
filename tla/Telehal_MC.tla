----------------------------- MODULE Telehal_MC -----------------------------
(***************************************************************************)
(* Instances of Telehal for TLC.                                           *)
(***************************************************************************)
EXTENDS Telehal

=============================================================================
