------------------------------ MODULE TmrHeap_MC ------------------------------
(***************************************************************************)
(* The heap of timer objects on its own, for TLC: its operations in any    *)
(* order on more objects than the runs of MxpTmr can afford.  An object is *)
(* started only while it is outside of the heap.                           *)
(***************************************************************************)
EXTENDS TmrHeap

CONSTANT WakeUpTimes   \* the times objects are started with

ASSUME WakeUpTimesAssumption == WakeUpTimes \subseteq Int

VARIABLE h

In(g) == {o \in Objs : g.index[o] > 0}

Init == h = Empty

Start == \E o \in Objs \ In(h), w \in WakeUpTimes : h' = Insert(h, o, w)
Remove == \E o \in In(h) : h' = Delete(h, o)
Expire == h.heap # <<>> /\ h' = Pop(h)

Next == Start \/ Remove \/ Expire

Spec == Init /\ [][Next]_h

\* Every operation leaves a heap: an object that took the place of a deleted one
\* is moved up as well as down, and every _index is its object's place, so that
\* the next deletion by _index removes the right object (mmxpcore.c:788-832,
\* 859-867, 893-907).
StaysHeap == Consistent(h)

\* Nothing is lost and nothing is invented: a step adds or removes exactly one
\* object, and all others stay armed with their times (mmxpcore.c:859-867,
\* 893-907, 936-941).
TouchesOne ==
    [][/\ \E o \in Objs : In(h') = In(h) \cup {o} \/ In(h') = In(h) \ {o}
       /\ Len(h'.heap) \in {Len(h.heap) - 1, Len(h.heap) + 1}
       /\ {h'.heap[j] : j \in DOMAIN h'.heap} = In(h')
       /\ \A o \in In(h) \cap In(h') : h'.time[o] = h.time[o]]_h

================================================================================
