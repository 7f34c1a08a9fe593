-------------------------------- MODULE MxpQ_MC --------------------------------
(***************************************************************************)
(* Instances of MxpQ for TLC.                                              *)
(***************************************************************************)
EXTENDS MxpQ, TLC

\* Threads, containers, messages and names are interchangeable.
Interchangeable ==
    Permutations(Threads) \cup Permutations(Conts)
        \cup Permutations(Msgs) \cup Permutations(Names)

================================================================================
