------------------------------ MODULE EventFlags ------------------------------
(***************************************************************************)
(* What MXP events promise to a task that alone waits for and clears its   *)
(* events: a set of flags per task.  A post raises flags.  A wait ends by  *)
(* taking, in one step, flags that answer what was asked for: with OR all  *)
(* those raised of the ones asked for, with AND all the ones asked for.    *)
(* MxpEv, the model of src/mxp/mmxp_ev.c, is shown to implement this       *)
(* specification.                                                          *)
(***************************************************************************)
CONSTANTS
    Clients,    \* the threads
    Tasks,      \* the tasks whose flags are specified
    Flags,      \* the event bits
    None        \* no request, no answer

VARIABLES
    raised,     \* raised[k]: the flags of task k posted and not yet taken
    request,    \* request[c]: what client c waits for, or None
    answer      \* what the step just made gives to its caller, or None

vars == <<raised, request, answer>>

Requests == [task : Tasks, cond : {"OR", "AND"}, events : SUBSET Flags]

Init ==
    /\ raised = [k \in Tasks |-> {}]
    /\ request = [c \in Clients |-> None]
    /\ answer = None

Answers(r, flags) ==
    IF r.cond = "OR" THEN r.events \cap flags # {} ELSE r.events \subseteq flags

\* c takes the flags that answer r, which it asked for before or asks for now.
Take(c, r) ==
    /\ request[c] \in {None, r}
    /\ Answers(r, raised[r.task])
    /\ raised' = [raised EXCEPT ![r.task] = @ \ r.events]
    /\ request' = [request EXCEPT ![c] = None]
    /\ answer' = [task |-> r.task, events |-> r.events \cap raised[r.task]]

Quiet ==
    /\ answer' = None
    /\ \/ \E k \in Tasks, S \in SUBSET Flags :
             /\ raised' \in {[raised EXCEPT ![k] = @ \cup S], [raised EXCEPT ![k] = @ \ S]}
             /\ UNCHANGED request
       \/ \E c \in Clients, r \in Requests :
             /\ request[c] = None
             /\ request' = [request EXCEPT ![c] = r]
             /\ UNCHANGED raised
       \/ \E c \in Clients :
             /\ request' = [request EXCEPT ![c] = None]
             /\ UNCHANGED raised
       \/ UNCHANGED <<raised, request>>

Next == Quiet \/ \E c \in Clients, r \in Requests : Take(c, r)

Spec == Init /\ [][Next]_vars

================================================================================
