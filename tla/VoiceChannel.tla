---------------------------- MODULE VoiceChannel ----------------------------
(***************************************************************************)
(* What the voice network interface promises to the DSP: while the         *)
(* interface is open, packets are taken in the order they were sent, each  *)
(* once.  Only on a lossy channel does a packet go untaken, and closing    *)
(* ends with an empty channel.                                             *)
(***************************************************************************)
EXTENDS Naturals, Sequences

CONSTANT Packets

VARIABLES
    ch,     \* the packets sent and not yet taken
    open,   \* whether the interface is open
    lossy   \* whether packets may be dropped; never changes

vars == <<ch, open, lossy>>

Init ==
    /\ ch = <<>>
    /\ open = FALSE
    /\ lossy \in BOOLEAN

Open ==
    /\ ~open
    /\ open' = TRUE
    /\ UNCHANGED <<ch, lossy>>

Close ==
    /\ open
    /\ open' = FALSE
    /\ ch' = <<>>
    /\ UNCHANGED lossy

Send(p) ==
    /\ open
    /\ p \notin {ch[i] : i \in 1 .. Len(ch)}
    /\ ch' = Append(ch, p)
    /\ UNCHANGED <<open, lossy>>

Take ==
    /\ ch # <<>>
    /\ ch' = Tail(ch)
    /\ UNCHANGED <<open, lossy>>

\* Packets at the front go untaken.
Lose(n) ==
    /\ lossy
    /\ ch' = SubSeq(ch, n + 1, Len(ch))
    /\ UNCHANGED <<open, lossy>>

Next ==
    \/ Open
    \/ Close
    \/ \E p \in Packets : Send(p)
    \/ Take
    \/ \E n \in 1 .. Len(ch) : Lose(n)

Spec == Init /\ [][Next]_vars
=============================================================================
