------------------------------- MODULE MxpTmr_MC -------------------------------
(***************************************************************************)
(* Instances of MxpTmr for TLC.                                            *)
(***************************************************************************)
EXTENDS MxpTmr, TLC

\* Threads are interchangeable, and so are the tasks.
Interchangeable == Permutations(Threads) \cup Permutations(Tids)

================================================================================
