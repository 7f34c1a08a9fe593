---------------------------- MODULE HalTransfers ----------------------------
(***************************************************************************)
(* What the telephony HAL promises its callers: a chipset sees transfers   *)
(* one after the other and whole - the byte that names the register, then  *)
(* the data - and a caller is told that a transfer succeeded only when the *)
(* chipset has seen all the bytes asked for.  Nothing is promised when     *)
(* transfers overlap.                                                      *)
(***************************************************************************)
EXTENDS Naturals

CONSTANTS Devices, Callers, Lengths, None

VARIABLES
    seen,   \* what each chipset has seen of a transfer under way
    told,   \* what a caller was told last
    apart   \* whether callers keep their transfers apart; never changes

vars == <<seen, told, apart>>

Init ==
    /\ seen = [d \in Devices |-> None]
    /\ told = "nothing"
    /\ apart \in BOOLEAN

\* A transfer of n bytes begins with the byte that names the register.
Begin(t, d, n) ==
    /\ seen[d] = None
    /\ seen' = [seen EXCEPT ![d] = [who |-> t, asked |-> n, got |-> 0]]
    /\ UNCHANGED <<told, apart>>

\* A data byte.
Byte(d) ==
    /\ seen[d] # None /\ seen[d].got < seen[d].asked
    /\ seen' = [seen EXCEPT ![d].got = @ + 1]
    /\ UNCHANGED <<told, apart>>

\* The caller is told that all went well, or that something did not.
End(d, good) ==
    /\ seen[d] # None
    /\ good => seen[d].got = seen[d].asked
    /\ seen' = [seen EXCEPT ![d] = None]
    /\ told' = IF good THEN "success" ELSE "failure"
    /\ UNCHANGED apart

\* A call that reaches no chipset is told so.
Refuse ==
    /\ told' = "failure"
    /\ UNCHANGED <<seen, apart>>

Overlap == ~apart /\ UNCHANGED apart

Next ==
    \/ \E d \in Devices :
         \/ \E t \in Callers, n \in Lengths : Begin(t, d, n)
         \/ Byte(d)
         \/ \E good \in BOOLEAN : End(d, good)
    \/ Refuse
    \/ Overlap

Spec == Init /\ [][Next]_vars
=============================================================================
