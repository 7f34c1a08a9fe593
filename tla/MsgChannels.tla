------------------------------ MODULE MsgChannels ------------------------------
(***************************************************************************)
(* What the MXP message queues promise to their users: bounded FIFO        *)
(* channels that can be opened and closed.  Every message put into a       *)
(* channel is handed to one receiver, once and in order, unless the        *)
(* channel is closed first.  MxpQ, the model of src/mxp/mmxp_q.c, is shown *)
(* to implement this specification.                                        *)
(***************************************************************************)
EXTENDS Integers, Sequences

CONSTANTS Qids, Msgs, Depths, NoMsg

VARIABLES
    open,   \* the channels in use
    chan,   \* chan[q]: the messages sent to q and not yet received
    cap,    \* cap[q]: how many messages q may hold
    got     \* the message the step just made hands to its caller, or NoMsg

vars == <<open, chan, cap, got>>

Init ==
    /\ open = {}
    /\ chan = [q \in Qids |-> <<>>]
    /\ got = NoMsg

Open(q, d) ==
    /\ q \notin open
    /\ open' = open \cup {q}
    /\ cap' = [cap EXCEPT ![q] = d]
    /\ UNCHANGED chan

Close(q) ==
    /\ q \in open
    /\ open' = open \ {q}
    /\ chan' = [chan EXCEPT ![q] = <<>>]
    /\ UNCHANGED cap

Send(q, m) ==
    /\ q \in open
    /\ Len(chan[q]) < cap[q]
    /\ chan' = [chan EXCEPT ![q] = Append(@, m)]
    /\ UNCHANGED <<open, cap>>

Receive(q) ==
    /\ q \in open
    /\ chan[q] # <<>>
    /\ chan' = [chan EXCEPT ![q] = Tail(@)]
    /\ UNCHANGED <<open, cap>>

Next ==
    \/ \E q \in Qids : Receive(q) /\ got' = Head(chan[q])
    \/ /\ got' = NoMsg
       /\ \/ \E q \in Qids, d \in Depths : Open(q, d)
          \/ \E q \in Qids : Close(q)
          \/ \E q \in Qids, m \in Msgs : Send(q, m)
          \/ UNCHANGED <<open, chan, cap>>

Spec == Init /\ [][Next]_vars

================================================================================
