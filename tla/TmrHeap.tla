-------------------------------- MODULE TmrHeap --------------------------------
(***************************************************************************)
(* The binary heap of timer objects in src/mxp/mmxpcore.c, as operators on *)
(* a heap value.                                                           *)
(*                                                                         *)
(* h.heap is _heap[1 .. _inUse], h.index[o] is o->_index, 0 for an object  *)
(* outside of the heap, and h.time[o] is o->_wakeUpTime.  The code never   *)
(* reads the time of an object outside of the heap; it is 0 here.          *)
(***************************************************************************)
EXTENDS Integers, Sequences

CONSTANT Objs   \* the timer objects

Empty == [heap |-> <<>>, index |-> [o \in Objs |-> 0], time |-> [o \in Objs |-> 0]]

\* What every operation takes for granted and has to keep: the _index of every
\* object is its place, and no father is later than his sons.
Consistent(h) ==
    /\ \A j \in DOMAIN h.heap : h.index[h.heap[j]] = j
    /\ \A o \in Objs : h.index[o] > 0 => h.index[o] \in DOMAIN h.heap /\ h.heap[h.index[o]] = o
    /\ \A j \in DOMAIN h.heap : j > 1 => h.time[h.heap[j \div 2]] <= h.time[h.heap[j]]

\* h with the objects at the places of path as in heap and their _index set.
Placed(h, heap, path) ==
    [h EXCEPT !.heap = heap,
              !.index = [o \in Objs |-> IF \E j \in path : heap[j] = o
                                        THEN CHOOSE j \in path : heap[j] = o
                                        ELSE h.index[o]]]

\* The places object o goes through from each place, moving up while it is
\* earlier than its father.
UpPath(h, o) ==
    LET path[j \in 1 .. Len(h.heap)] ==
            IF j > 1 /\ h.time[o] < h.time[h.heap[j \div 2]]
            THEN {j} \cup path[j \div 2] ELSE {j}
    IN  path

\* The object at place k moves up.
UpTree(h, k) ==
    LET path == UpPath(h, h.heap[k])[k]
        top == CHOOSE j \in path : \A i \in path : j <= i
    IN  Placed(h, [j \in DOMAIN h.heap |->
                      IF j = top THEN h.heap[k]
                      ELSE IF j \in path THEN h.heap[j \div 2] ELSE h.heap[j]],
               path)

\* The earlier son of place j.
Son(h, j) ==
    IF 2 * j < Len(h.heap) /\ h.time[h.heap[2 * j + 1]] < h.time[h.heap[2 * j]]
    THEN 2 * j + 1 ELSE 2 * j

\* The places object o goes through, moving down while a son is earlier.
DownPath(h, o) ==
    LET path[j \in 1 .. Len(h.heap)] ==
            IF 2 * j <= Len(h.heap) /\ h.time[o] > h.time[h.heap[Son(h, j)]]
            THEN {j} \cup path[Son(h, j)] ELSE {j}
    IN  path

\* The object at place k moves down.
DownTree(h, k) ==
    LET path == DownPath(h, h.heap[k])[k]
        end == CHOOSE j \in path : \A i \in path : j >= i
    IN  Placed(h, [j \in DOMAIN h.heap |->
                      IF j = end THEN h.heap[k]
                      ELSE IF j \in path THEN h.heap[Son(h, j)] ELSE h.heap[j]],
               path)

\* The heap with its last object moved to place k and the object there removed.
\* k is not the last place.
LastTo(h, k) ==
    LET n == Len(h.heap)
        o == h.heap[k]
    IN  [heap |-> SubSeq([h.heap EXCEPT ![k] = h.heap[n]], 1, n - 1),
         index |-> [h.index EXCEPT ![h.heap[n]] = k, ![o] = 0],
         time |-> [h.time EXCEPT ![o] = 0]]

DropLast(h) ==
    LET o == h.heap[Len(h.heap)]
    IN  [heap |-> SubSeq(h.heap, 1, Len(h.heap) - 1),
         index |-> [h.index EXCEPT ![o] = 0],
         time |-> [h.time EXCEPT ![o] = 0]]

\* The heap part of tmrobj_Start: o wakes up at time w.
Insert(h, o, w) ==
    LET n == Len(h.heap) + 1
    IN  UpTree([heap |-> Append(h.heap, o),
                index |-> [h.index EXCEPT ![o] = n],
                time |-> [h.time EXCEPT ![o] = w]], n)

\* A faulty deletion that moves the last object down only.
DeleteDownOnly(h, o) ==
    LET k == h.index[o]
    IN  IF k = 0 THEN h
        ELSE IF k = Len(h.heap) THEN DropLast(h)
        ELSE DownTree(LastTo(h, k), k)

\* A faulty deletion that takes the last place but one for the last.
DeleteOffByOne(h, o) ==
    LET k == h.index[o]
    IN  IF k = 0 THEN h
        ELSE IF k >= Len(h.heap) - 1
             THEN [heap |-> SubSeq(h.heap, 1, Len(h.heap) - 1),
                   index |-> [h.index EXCEPT ![o] = 0],
                   time |-> [h.time EXCEPT ![o] = 0]]
             ELSE UpTree(DownTree(LastTo(h, k), k), k)

\* tmrobj_Delete.  After DownTree, UpTree is called for whatever is at k.
Delete(h, o) ==
    LET k == h.index[o]
    IN  IF k = 0 THEN h
        ELSE IF k = Len(h.heap) THEN DropLast(h)
        ELSE UpTree(DownTree(LastTo(h, k), k), k)

\* The removal of the first object in tmrobj_clock.
Pop(h) == IF Len(h.heap) = 1 THEN DropLast(h) ELSE DownTree(LastTo(h, 1), 1)

\* All times brought back by d, when the clock is.
Shift(h, d) == [h EXCEPT !.time = [o \in Objs |-> IF h.index[o] > 0 THEN @[o] - d ELSE 0]]

================================================================================
