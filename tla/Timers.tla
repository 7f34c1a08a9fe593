-------------------------------- MODULE Timers --------------------------------
(***************************************************************************)
(* What the timer objects promise: an armed timer has a time left; every   *)
(* tick that is processed takes from all of them alike; a timer expires    *)
(* when no time is left, the one that was due first before the others, and *)
(* all that are due expire before the next ticks are processed.  MxpTmr is *)
(* shown to implement this specification.                                  *)
(***************************************************************************)
EXTENDS Integers

CONSTANTS
    Objs,       \* the timers
    MaxTime,    \* the longest time a timer can be armed for
    Off         \* the time left of a timer that is not armed

VARIABLE left   \* left[o]: the ticks until o expires, or Off

Init == left = [o \in Objs |-> Off]

Armed == {o \in Objs : left[o] # Off}

Start(o) ==
    /\ left[o] = Off
    /\ \E d \in 1 .. MaxTime : left' = [left EXCEPT ![o] = d]

\* A timer that is due already cannot be stopped any more.
Stop(o) ==
    /\ o \in Armed
    /\ left[o] > 0
    /\ left' = [left EXCEPT ![o] = Off]

\* d ticks are processed.
Advance(d) ==
    /\ \A o \in Armed : left[o] > 0
    /\ left' = [o \in Objs |-> IF o \in Armed THEN left[o] - d ELSE Off]

Expire(o) ==
    /\ o \in Armed
    /\ left[o] <= 0
    /\ \A p \in Armed : left[o] <= left[p]
    /\ left' = [left EXCEPT ![o] = Off]

Next ==
    \/ \E o \in Objs : Start(o) \/ Stop(o) \/ Expire(o)
    \/ \E d \in 1 .. MaxTime : Advance(d)

Spec == Init /\ [][Next]_left

================================================================================
