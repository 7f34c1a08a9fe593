----------------------------- MODULE VoiceNi_MC -----------------------------
(***************************************************************************)
(* Instances of VoiceNi for TLC.                                           *)
(***************************************************************************)
EXTENDS VoiceNi

=============================================================================
