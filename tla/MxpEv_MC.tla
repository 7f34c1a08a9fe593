-------------------------------- MODULE MxpEv_MC --------------------------------
(***************************************************************************)
(* Instances of MxpEv for TLC.                                             *)
(***************************************************************************)
EXTENDS MxpEv, TLC

\* Threads, names and event bits are interchangeable.
Interchangeable ==
    Permutations(Threads) \cup Permutations(Names) \cup Permutations(Events)

================================================================================
