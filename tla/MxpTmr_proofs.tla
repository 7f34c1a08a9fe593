----------------------------- MODULE MxpTmr_proofs -----------------------------
(***************************************************************************)
(* Proofs about MxpTmr, for any number of threads, tasks and timers and    *)
(* any clock: types, the heap of timer objects, what is armed, and that    *)
(* the timers keep time.  They are about callers who keep to OneStart.     *)
(***************************************************************************)
EXTENDS MxpTmr, FiniteSetTheorems, TLAPS

HeapFacts == INSTANCE TmrHeap_proofs WITH WakeUpTimes <- Int

\* The heap of MxpTmr is the one TmrHeap_proofs is about.
LEMMA SameHeap ==
    /\ \A g, o, w : Heap!Insert(g, o, w) = HeapFacts!Insert(g, o, w)
    /\ \A g, o : Heap!Delete(g, o) = HeapFacts!Delete(g, o)
    /\ \A g : Heap!Pop(g) = HeapFacts!Pop(g)
    /\ \A g : Heap!Consistent(g) <=> HeapFacts!Consistent(g)
<1>1. \A g, k : Heap!UpTree(g, k) = HeapFacts!UpTree(g, k)
  BY DEF Heap!UpTree, HeapFacts!UpTree, Heap!UpPath, HeapFacts!UpPath,
         Heap!Placed, HeapFacts!Placed
<1>2. \A g, k : Heap!DownTree(g, k) = HeapFacts!DownTree(g, k)
  BY DEF Heap!DownTree, HeapFacts!DownTree, Heap!DownPath, HeapFacts!DownPath,
         Heap!Son, HeapFacts!Son, Heap!Placed, HeapFacts!Placed
<1>3. \A g, k : Heap!LastTo(g, k) = HeapFacts!LastTo(g, k)
  BY DEF Heap!LastTo, HeapFacts!LastTo
<1>4. \A g : Heap!DropLast(g) = HeapFacts!DropLast(g)
  BY DEF Heap!DropLast, HeapFacts!DropLast
<1>5. \A g, o, w : Heap!Insert(g, o, w) = HeapFacts!Insert(g, o, w)
  BY <1>1 DEF Heap!Insert, HeapFacts!Insert
<1>6. \A g, o : Heap!Delete(g, o) = HeapFacts!Delete(g, o)
  BY <1>1, <1>2, <1>3, <1>4 DEF Heap!Delete, HeapFacts!Delete
<1>7. \A g : Heap!Pop(g) = HeapFacts!Pop(g)
  BY <1>2, <1>3, <1>4 DEF Heap!Pop, HeapFacts!Pop
<1>8. \A g : Heap!Consistent(g) <=> HeapFacts!Consistent(g)
  BY DEF Heap!Consistent, HeapFacts!Consistent
<1> QED BY <1>5, <1>6, <1>7, <1>8

--------------------------------------------------------------------------------
HeapInv ==
    /\ h \in HeapFacts!Heaps
    /\ Heap!Consistent(h)
    /\ h.time \in [Objs -> 0 .. Words - 1]

\* What is armed, and the times, after o was started or deleted.
Adds(o, w) ==
    /\ h'.time = [h.time EXCEPT ![o] = w]
    /\ \A x \in Objs : h'.index[x] > 0 <=> h.index[x] > 0 \/ x = o

Removes(o) ==
    /\ h'.time = [h.time EXCEPT ![o] = 0]
    /\ \A x \in Objs : h'.index[x] > 0 <=> h.index[x] > 0 /\ x # o

LEMMA HeapTypes ==
    ASSUME NEW g \in HeapFacts!Heaps
    PROVE  /\ g.heap \in Seq(Objs) /\ g.index \in [Objs -> Nat] /\ g.time \in [Objs -> Int]
           /\ Len(g.heap) \in Nat /\ DOMAIN g.heap = 1 .. Len(g.heap)
           /\ \A j \in 1 .. Len(g.heap) : g.heap[j] \in Objs
BY HeapFacts!HeapTypes

LEMMA WordsIs ==
    /\ Words \in Nat /\ Words > 0 /\ MaxClock \in Nat /\ MaxClock > 0
    /\ \A x \in Int : x % Words \in 0 .. Words - 1
    /\ \A x \in 0 .. Words - 1 : x % Words = x
<1>1. MaxClock \in Nat /\ MaxClock > 0
  BY MxpTmrAssumption
<1>2. Words \in Nat /\ Words > 0
  BY <1>1 DEF Words
<1> QED BY <1>1, <1>2

LEMMA ObjsFinite == IsFiniteSet(Objs) /\ Cardinality(Objs) \in Nat
<1>1. IsFiniteSet(TimerIds)
  BY MxpTmrAssumption, FS_Interval DEF TimerIds
<1>2. IsFiniteSet(Objs)
  BY <1>1, MxpTmrAssumption, FS_Union DEF Objs
<1> QED BY <1>2, FS_CardinalityType

\* No object is in the heap twice, so there is a place for every one of them.
LEMMA PlacesLeft ==
    ASSUME NEW g \in HeapFacts!Heaps, Heap!Consistent(g)
    PROVE  /\ Len(g.heap) <= MaxObjs
           /\ \A o \in Objs : g.index[o] = 0 => Len(g.heap) < MaxObjs
<1> DEFINE n == Len(g.heap)
           N == 1 .. n
<1>1. /\ n \in Nat /\ DOMAIN g.heap = N
      /\ \A j \in N : g.heap[j] \in Objs /\ g.index[g.heap[j]] = j
  BY HeapTypes DEF Heap!Consistent
<1>2. MaxObjs \in Nat /\ Cardinality(Objs) <= MaxObjs
  BY MxpTmrAssumption
<1> HIDE DEF n
<1>3. IsFiniteSet(N) /\ Cardinality(N) = n
  BY <1>1, FS_Interval
<1>4. ASSUME NEW T \in SUBSET Objs, \A j \in N : g.heap[j] \in T
      PROVE  n <= Cardinality(T) /\ IsFiniteSet(T)
  <2>1. IsFiniteSet(T)
    BY ObjsFinite, FS_Subset
  <2> DEFINE f == [j \in N |-> g.heap[j]]
  <2>2. f \in Injection(N, T)
    <3>1. f \in [N -> T]
      BY <1>4
    <3>2. \A i, j \in N : f[i] = f[j] => i = j
      BY <1>1
    <3> QED BY <3>1, <3>2 DEF Injection, IsInjective
  <2>3. Cardinality(N) <= Cardinality(T)
    BY <2>1, <2>2, FS_Injection
  <2> QED BY <1>3, <2>1, <2>3
<1>5. n <= Cardinality(Objs)
  BY <1>1, <1>4
<1>6. ASSUME NEW o \in Objs, g.index[o] = 0
      PROVE  n < Cardinality(Objs)
  <2>1. \A j \in N : g.heap[j] \in Objs \ {o}
    BY <1>1, <1>6
  <2>2. n <= Cardinality(Objs \ {o}) /\ IsFiniteSet(Objs \ {o})
    BY <1>4, <2>1
  <2>3. Cardinality(Objs \ {o}) = Cardinality(Objs) - 1
    BY ObjsFinite, FS_RemoveElement
  <2> QED BY <1>1, <2>2, <2>3, ObjsFinite
<1> QED BY <1>1, <1>2, <1>5, <1>6, ObjsFinite DEF n

LEMMA Starts ==
    ASSUME HeapInv, clock \in 0 .. Words - 1, NEW o \in Objs, ~Armed(o), NEW d \in Nat,
           h' = Started(o, d)
    PROVE  HeapInv' /\ Adds(o, (clock + Delta(d)) % Words)
<1> DEFINE w == (clock + Delta(d)) % Words
<1>1. w \in 0 .. Words - 1 /\ w \in Int
  <2>1. clock \in Int /\ Delta(d) \in Int
    BY WordsIs DEF Delta
  <2>2. clock + Delta(d) \in Int
    BY <2>1
  <2>3. w \in 0 .. Words - 1
    BY <2>2, WordsIs
  <2> QED BY <2>3
<1>2. h.index[o] = 0
  BY HeapTypes DEF HeapInv, Armed
<1>3. h' = HeapFacts!Insert(h, o, w)
  BY <1>2, PlacesLeft, SameHeap DEF HeapInv, Started
<1> HIDE DEF w
<1>4. /\ h' \in HeapFacts!Heaps /\ HeapFacts!Consistent(h')
      /\ HeapFacts!With(h, o, w, h')
  BY <1>1, <1>2, <1>3, SameHeap, HeapFacts!Inserted DEF HeapInv
<1>5. Adds(o, w)
  BY <1>4 DEF Adds, HeapFacts!With
<1>6. h'.time \in [Objs -> 0 .. Words - 1]
  BY <1>1, <1>5 DEF Adds, HeapInv
<1>7. HeapInv'
  BY <1>4, <1>6, SameHeap DEF HeapInv
<1> QED BY <1>5, <1>7 DEF w

LEMMA Deletes ==
    ASSUME HeapInv, NEW o \in Objs, h' = Heap!Delete(h, o)
    PROVE  HeapInv' /\ IF Armed(o) THEN Removes(o) ELSE h' = h
<1>1. CASE Armed(o)
  <2>1. /\ h' \in HeapFacts!Heaps /\ HeapFacts!Consistent(h')
        /\ HeapFacts!Without(h, o, h')
    BY <1>1, SameHeap, HeapFacts!Deleted DEF HeapInv, Armed
  <2>2. Removes(o)
    BY <2>1 DEF Removes, HeapFacts!Without
  <2>3. h'.time \in [Objs -> 0 .. Words - 1]
    BY <2>2, WordsIs DEF Removes, HeapInv
  <2>4. HeapInv'
    BY <2>1, <2>3, SameHeap DEF HeapInv
  <2> QED BY <1>1, <2>2, <2>4
<1>2. CASE ~Armed(o)
  <2>1. h.index[o] = 0
    BY <1>2, HeapTypes DEF HeapInv, Armed
  <2>2. h' = h
    BY <2>1 DEF Heap!Delete
  <2>3. HeapInv'
    BY <2>2 DEF HeapInv
  <2> QED BY <1>2, <2>2, <2>3
<1> QED BY <1>1, <1>2

LEMMA Pops ==
    ASSUME HeapInv, h.heap # <<>>, h' = Heap!Pop(h)
    PROVE  /\ h.heap[1] \in Objs /\ Armed(h.heap[1])
           /\ HeapInv' /\ Removes(h.heap[1])
<1>1. /\ h.heap[1] \in Objs /\ h.index[h.heap[1]] = 1
      /\ h' \in HeapFacts!Heaps /\ HeapFacts!Consistent(h')
      /\ HeapFacts!Without(h, h.heap[1], h')
  BY SameHeap, HeapFacts!Popped DEF HeapInv
<1>2. Armed(h.heap[1])
  BY <1>1 DEF Armed
<1>3. Removes(h.heap[1])
  BY <1>1 DEF Removes, HeapFacts!Without
<1>4. h'.time \in [Objs -> 0 .. Words - 1]
  BY <1>1, <1>3, WordsIs DEF Removes, HeapInv
<1>5. HeapInv'
  BY <1>1, <1>4, SameHeap DEF HeapInv
<1> QED BY <1>1, <1>2, <1>3, <1>5

\* The first object of the heap is the one due first.
LEMMA Earliest ==
    ASSUME HeapInv
    PROVE  \A x \in Objs : Armed(x) => h.heap # <<>> /\ h.time[h.heap[1]] <= h.time[x]
<1>1. /\ HeapFacts!Ordered(h) /\ HeapFacts!Indexed(h)
  BY SameHeap, HeapFacts!ConsistentIs DEF HeapInv
<1>2. \A j \in DOMAIN h.heap : HeapFacts!At(h, 1) <= HeapFacts!At(h, j)
  BY <1>1, HeapFacts!FirstIsEarliest DEF HeapInv
<1>3. ASSUME NEW x \in Objs, Armed(x)
      PROVE  h.heap # <<>> /\ h.time[h.heap[1]] <= h.time[x]
  <2>1. h.index[x] \in DOMAIN h.heap /\ h.heap[h.index[x]] = x
    BY <1>1, <1>3 DEF HeapFacts!Indexed, Armed
  <2>2. h.heap # <<>>
    BY <2>1, HeapTypes DEF HeapInv
  <2> QED BY <1>2, <2>1, <2>2 DEF HeapFacts!At
<1> QED BY <1>3

\* The turn of the clock: no time goes below zero, since none is due.
LEMMA Shifts ==
    ASSUME HeapInv, clock \in 0 .. Words - 1, ~Due, h' = Heap!Shift(h, clock)
    PROVE  /\ HeapInv' /\ h'.index = h.index
           /\ \A x \in Objs : Armed(x) => h'.time[x] = h.time[x] - clock /\ h.time[x] > clock
<1> DEFINE time == [x \in Objs |-> IF h.index[x] > 0 THEN h.time[x] - clock ELSE 0]
<1>1. h' = [h EXCEPT !.time = time]
  BY DEF Heap!Shift
<1>2. /\ h.heap \in Seq(Objs) /\ h.index \in [Objs -> Nat] /\ h.time \in [Objs -> 0 .. Words - 1]
      /\ DOMAIN h.heap = 1 .. Len(h.heap) /\ Len(h.heap) \in Nat
      /\ \A j \in 1 .. Len(h.heap) : h.heap[j] \in Objs
  BY HeapTypes DEF HeapInv
<1>3. Words \in Nat /\ Words > 0 /\ clock \in Int
  BY WordsIs
<1>4. ASSUME NEW x \in Objs, Armed(x)
      PROVE  h.time[x] > clock
  <2>1. h.heap # <<>> /\ h.time[h.heap[1]] <= h.time[x]
    BY <1>4, Earliest
  <2>2. ~(h.time[h.heap[1]] <= clock)
    BY <2>1 DEF Due
  <2>3. h.heap[1] \in Objs
    <3>1. 1 \in 1 .. Len(h.heap)
      BY <1>2, <2>1
    <3> QED BY <1>2, <3>1
  <2>4. h.time[h.heap[1]] \in Int /\ h.time[x] \in Int
    BY <1>2, <2>3
  <2> QED BY <1>3, <2>1, <2>2, <2>4
<1>5. time \in [Objs -> 0 .. Words - 1]
  <2>1. ASSUME NEW x \in Objs
        PROVE  time[x] \in 0 .. Words - 1
    <3>1. h.time[x] \in 0 .. Words - 1 /\ (h.index[x] > 0 => h.time[x] > clock)
      BY <1>2, <1>4 DEF Armed
    <3>2. h.time[x] > clock => h.time[x] - clock \in 0 .. Words - 1
      BY <1>3, <3>1
    <3> QED BY <1>3, <3>1, <3>2
  <2> QED BY <2>1
<1>6. \A x \in Objs : h.index[x] > 0 => time[x] = h.time[x] - clock
  OBVIOUS
<1> HIDE DEF time
<1>7. h'.heap = h.heap /\ h'.index = h.index /\ h'.time = time
  BY <1>1 DEF HeapInv, HeapFacts!Heaps
<1>8. h' \in HeapFacts!Heaps
  <2>1. time \in [Objs -> Int]
    BY <1>3, <1>5
  <2> QED BY <1>1, <2>1 DEF HeapInv, HeapFacts!Heaps
<1>9. Heap!Consistent(h')
  <2>1. /\ \A j \in DOMAIN h.heap : h.index[h.heap[j]] = j
        /\ \A o \in Objs : h.index[o] > 0 => h.index[o] \in DOMAIN h.heap /\ h.heap[h.index[o]] = o
        /\ \A j \in DOMAIN h.heap : j > 1 => h.time[h.heap[j \div 2]] <= h.time[h.heap[j]]
    BY DEF HeapInv, Heap!Consistent
  <2>2. ASSUME NEW j \in DOMAIN h.heap
        PROVE  time[h.heap[j]] = h.time[h.heap[j]] - clock /\ h.time[h.heap[j]] \in Int
    <3>1. h.heap[j] \in Objs /\ h.index[h.heap[j]] = j /\ j > 0
      BY <1>2, <2>1
    <3>2. h.time[h.heap[j]] \in 0 .. Words - 1
      BY <1>2, <3>1
    <3> QED BY <1>3, <1>6, <3>1, <3>2
  <2>3. ASSUME NEW j \in DOMAIN h.heap, j > 1
        PROVE  time[h.heap[j \div 2]] <= time[h.heap[j]]
    <3>1. j \div 2 \in DOMAIN h.heap
      BY <1>2, <2>3
    <3>2. h.time[h.heap[j \div 2]] <= h.time[h.heap[j]]
      BY <2>1, <2>3
    <3> QED BY <1>3, <2>2, <2>3, <3>1, <3>2
  <2> QED BY <1>7, <2>1, <2>3 DEF Heap!Consistent
<1>10. HeapInv'
  BY <1>5, <1>7, <1>8, <1>9 DEF HeapInv
<1> QED BY <1>4, <1>6, <1>7, <1>10 DEF Armed

--------------------------------------------------------------------------------
\* TypeOK apart from the heap.
ClocksOK ==
    /\ lag \in 0 .. MaxLag
    /\ sched \in BOOLEAN
    /\ tasklet \in TaskletPcs
    /\ act \in Objs \cup {None}
    /\ (act # None) <=> tasklet \in {"callback", "post"}
    /\ tasklet = "post" => act \in TimerIds
    /\ clock \in 0 .. Words - 1

TimersOK ==
    /\ state \in [TimerIds -> States]
    /\ reload \in [TimerIds -> Reloads \cup {0}]

LocalsOK ==
    /\ wait4event \in [Tids -> {0, 1}]
    /\ pc \in [Threads -> Pcs]
    /\ tid \in [Threads -> Tids \cup {None}]
    /\ \A t \in Threads : pc[t] # "idle" <=> tid[t] # None
    /\ reply \in Codes

\* The object whose callback runs is out of the heap, so that the callback may
\* start it; and of the sleepers of one task there is one, so that nobody takes
\* its timer away.
Alone ==
    /\ tasklet = "callback" => ~Armed(act)
    /\ \A t, u \in Threads :
          pc[t] \in Sleeping /\ pc[u] \in Sleeping /\ tid[t] = tid[u] => t = u

IInv == HeapInv /\ ClocksOK /\ TimersOK /\ LocalsOK /\ Alone /\ TimersArmed

LEMMA SomeNone == None \notin TimerIds /\ None \notin Tids /\ TimerIds \cap Tids = {}
BY MxpTmrAssumption DEF Objs

LEMMA Initially == Init => IInv
<1> SUFFICES ASSUME Init PROVE IInv
  OBVIOUS
<1>1. h.heap = <<>> /\ h.index = [o \in Objs |-> 0] /\ h.time = [o \in Objs |-> 0]
  BY DEF Init, Heap!Empty
<1>2. HeapInv
  <2>1. h \in HeapFacts!Heaps
    BY DEF Init, Heap!Empty, HeapFacts!Heaps
  <2>2. DOMAIN h.heap = {}
    BY <1>1
  <2>3. Heap!Consistent(h)
    BY <1>1, <2>2 DEF Heap!Consistent
  <2>4. h.time \in [Objs -> 0 .. Words - 1]
    BY <1>1, WordsIs
  <2> QED BY <2>1, <2>3, <2>4 DEF HeapInv
<1>3. ClocksOK
  <2>1. 0 \in 0 .. Words - 1 /\ 0 \in 0 .. MaxLag
    BY WordsIs, MxpTmrAssumption
  <2> QED BY <2>1 DEF Init, ClocksOK, TaskletPcs
<1>4. TimersOK
  BY DEF Init, TimersOK, States
<1>5. LocalsOK
  BY DEF Init, LocalsOK, Pcs, Sleeping, Codes
<1>6. Alone
  BY DEF Init, Alone, Sleeping
<1>7. TimersArmed
  <2>1. ActiveIsArmed
    BY <1>1, SomeNone DEF Init, ActiveIsArmed, Armed, Objs
  <2>2. SleeperIsTimed
    BY DEF Init, SleeperIsTimed, Sleeping
  <2> QED BY <2>1, <2>2 DEF TimersArmed
<1> QED BY <1>2, <1>3, <1>4, <1>5, <1>6, <1>7 DEF IInv

\* Steps that change neither the heap nor what is armed.
LEMMA HeapKept ==
    ASSUME HeapInv, UNCHANGED h
    PROVE  HeapInv' /\ \A o : Armed(o)' <=> Armed(o)
BY DEF HeapInv, Armed

LEMMA IrqOK == ASSUME IInv, Irq PROVE IInv'
<1>1. HeapInv'
  BY HeapKept DEF IInv, Irq
<1>2. ClocksOK'
  BY MxpTmrAssumption DEF IInv, Irq, ClocksOK, clocks
<1>3. TimersOK'
  BY DEF IInv, Irq, TimersOK, timers
<1>4. LocalsOK'
  BY DEF IInv, Irq, LocalsOK, Codes
<1>5. Alone'
  BY DEF IInv, Irq, Alone, Armed
<1>6. TimersArmed'
  BY DEF IInv, Irq, TimersArmed, ActiveIsArmed, SleeperIsTimed, Armed, timers
<1> QED BY <1>1, <1>2, <1>3, <1>4, <1>5, <1>6 DEF IInv

LEMMA TaskletEnterOK == ASSUME IInv, TaskletEnter PROVE IInv'
<1>1. HeapInv'
  BY HeapKept DEF IInv, TaskletEnter
<1>2. ClocksOK'
  BY DEF IInv, TaskletEnter, ClocksOK, TaskletPcs
<1>3. TimersOK'
  BY DEF IInv, TaskletEnter, TimersOK, timers
<1>4. LocalsOK'
  BY DEF IInv, TaskletEnter, LocalsOK, Codes
<1>5. Alone'
  BY DEF IInv, TaskletEnter, Alone, Armed
<1>6. TimersArmed'
  BY DEF IInv, TaskletEnter, TimersArmed, ActiveIsArmed, SleeperIsTimed, Armed, timers
<1> QED BY <1>1, <1>2, <1>3, <1>4, <1>5, <1>6 DEF IInv

LEMMA ClockStartOK == ASSUME IInv, ClockStart PROVE IInv'
<1>1. HeapInv'
  BY HeapKept DEF IInv, ClockStart
<1>2. ClocksOK'
  <2>1. clock' \in 0 .. Words - 1
    <3>1. clock + lag \in Int
      BY WordsIs DEF IInv, ClocksOK
    <3> QED BY <3>1, WordsIs DEF IInv, ClockStart, ClocksOK
  <2>2. lag' \in 0 .. MaxLag /\ tasklet' \in {"oops", "idle", "loop"}
    BY MxpTmrAssumption DEF IInv, ClockStart, ClocksOK
  <2> QED BY <2>1, <2>2 DEF IInv, ClockStart, ClocksOK, TaskletPcs
<1>3. TimersOK'
  BY DEF IInv, ClockStart, TimersOK, timers
<1>4. LocalsOK'
  BY DEF IInv, ClockStart, LocalsOK, Codes
<1>5. tasklet = "entered" /\ tasklet' \in {"oops", "idle", "loop"}
  BY DEF ClockStart
<1>6. Alone'
  BY <1>5 DEF IInv, ClockStart, Alone, Armed
<1>7. TimersArmed'
  BY <1>5 DEF IInv, ClockStart, TimersArmed, ActiveIsArmed, SleeperIsTimed, Armed, timers
<1> QED BY <1>1, <1>2, <1>3, <1>4, <1>6, <1>7 DEF IInv

LEMMA ClockPopOK == ASSUME IInv, ClockPop PROVE IInv'
<1>0. PICK o : o = h.heap[1]
  OBVIOUS
<1>1. o \in Objs /\ Armed(o) /\ HeapInv' /\ Removes(o)
  BY <1>0, Pops DEF IInv, ClockPop, Due
<1>2. act' = o /\ tasklet = "loop" /\ tasklet' = "callback" /\ act = None
  BY <1>0 DEF IInv, ClockPop, ClocksOK
<1>3. ClocksOK'
  BY <1>1, <1>2, MxpTmrAssumption DEF IInv, ClockPop, ClocksOK, TaskletPcs
<1>4. TimersOK'
  BY DEF IInv, ClockPop, TimersOK, timers
<1>5. LocalsOK'
  BY DEF IInv, ClockPop, LocalsOK, Codes
<1>6. \A x \in Objs : h'.index[x] > 0 <=> Armed(x) /\ x # o
  BY <1>1 DEF Removes, Armed
<1>7. Alone'
  <2>1. ~(h'.index[act'] > 0)
    BY <1>1, <1>2, <1>6
  <2> QED BY <2>1 DEF IInv, ClockPop, Alone, Armed
<1>8. ActiveIsArmed'
  <2>1. ASSUME NEW i \in TimerIds
        PROVE  (state'[i] = "TMR_ACTIVE") <=> (h'.index[i] > 0 \/ (act' = i /\ tasklet' = "callback"))
    <3>1. (state[i] = "TMR_ACTIVE") <=> Armed(i)
      BY <1>2 DEF IInv, TimersArmed, ActiveIsArmed
    <3>2. state' = state
      BY DEF ClockPop, timers
    <3> QED BY <1>1, <1>2, <1>6, <3>1, <3>2 DEF Objs
  <2> QED BY <2>1 DEF ActiveIsArmed, Armed
<1>9. SleeperIsTimed'
  <2>1. ASSUME NEW t \in Threads, pc'[t] \in Sleeping, wait4event'[tid'[t]] # 0
        PROVE  h'.index[tid[t]] > 0 \/ act' = tid[t]
    <3>1. Armed(tid[t])
      <4>1. tid[t] \in Tids
        BY <2>1 DEF IInv, ClockPop, LocalsOK, Sleeping
      <4> QED BY <1>2, <2>1, <4>1, SomeNone DEF IInv, ClockPop, TimersArmed, SleeperIsTimed
    <3>2. tid[t] \in Objs
      BY <2>1 DEF IInv, ClockPop, LocalsOK, Sleeping, Objs
    <3> QED BY <1>2, <1>6, <3>1, <3>2
  <2> QED BY <2>1 DEF SleeperIsTimed, ClockPop, Armed
<1> QED BY <1>1, <1>3, <1>4, <1>5, <1>7, <1>8, <1>9 DEF IInv, TimersArmed

LEMMA ClockEndOK == ASSUME IInv, ClockEnd PROVE IInv'
<1>1. tasklet = "loop" /\ tasklet' = "idle" /\ act = None /\ act' = None
  BY DEF IInv, ClockEnd, ClocksOK
<1>2. HeapInv' /\ h'.index = h.index /\ clock' \in 0 .. Words - 1
  <2>1. CASE clock >= MaxClock
    <3>1. clock' = 0 /\ h' = Heap!Shift(h, clock) /\ ~Due
      BY <2>1 DEF ClockEnd
    <3> QED BY <3>1, Shifts, WordsIs DEF IInv, ClocksOK
  <2>2. CASE ~(clock >= MaxClock)
    BY <2>2, HeapKept DEF IInv, ClockEnd, ClocksOK
  <2> QED BY <2>1, <2>2
<1>3. ClocksOK'
  BY <1>1, <1>2 DEF IInv, ClockEnd, ClocksOK, TaskletPcs
<1>4. TimersOK'
  BY DEF IInv, ClockEnd, TimersOK, timers
<1>5. LocalsOK'
  BY DEF IInv, ClockEnd, LocalsOK, Codes
<1>6. Alone'
  BY <1>1 DEF IInv, ClockEnd, Alone
<1>7. TimersArmed'
  BY <1>1, <1>2 DEF IInv, ClockEnd, TimersArmed, ActiveIsArmed, SleeperIsTimed, Armed, timers
<1> QED BY <1>2, <1>3, <1>4, <1>5, <1>6, <1>7 DEF IInv

LEMMA ReloadIsNat ==
    ASSUME TimersOK, NEW i \in TimerIds
    PROVE  reload[i] \in Nat
<1>1. reload[i] \in Reloads \cup {0}
  BY DEF TimersOK
<1>2. Reloads \subseteq Nat /\ 0 \in Nat
  BY MxpTmrAssumption
<1> QED BY <1>1, <1>2, Zenon

LEMMA TimerTimeOutOK == ASSUME IInv, TimerTimeOut PROVE IInv'
<1>1. /\ tasklet = "callback" /\ tasklet' = "post" /\ act \in TimerIds /\ act' = act
      /\ act \in Objs /\ ~Armed(act) /\ clock \in 0 .. Words - 1
  BY DEF IInv, TimerTimeOut, Alone, ClocksOK, Objs
<1>2. state[act] = "TMR_ACTIVE"
  BY <1>1 DEF IInv, TimersArmed, ActiveIsArmed
<1>3. ClocksOK'
  BY <1>1 DEF IInv, TimerTimeOut, ClocksOK, TaskletPcs
<1>4. LocalsOK'
  BY DEF IInv, TimerTimeOut, LocalsOK, Codes
<1>5. TimersOK'
  BY <1>1 DEF IInv, TimerTimeOut, TimersOK, timers, States
<1>6. Alone'
  BY <1>1 DEF IInv, TimerTimeOut, Alone
<1>7. CASE reload[act] \notin {0, Words - 1}
  <2>1. h' = Started(act, reload[act]) /\ UNCHANGED <<state, wait4event, pc, tid>>
    BY <1>7 DEF TimerTimeOut, timers
  <2>2. PICK w : HeapInv' /\ Adds(act, w)
    BY <1>1, <2>1, ReloadIsNat, Starts DEF IInv
  <2>3. \A x \in Objs : h'.index[x] > 0 <=> Armed(x) \/ x = act
    BY <2>2 DEF Adds, Armed
  <2>4. ActiveIsArmed'
    <3>1. ASSUME NEW i \in TimerIds
          PROVE  (state'[i] = "TMR_ACTIVE") <=> (h'.index[i] > 0 \/ (act' = i /\ tasklet' = "callback"))
      BY <1>1, <1>2, <2>1, <2>3 DEF IInv, TimersArmed, ActiveIsArmed, Objs
    <3> QED BY <3>1 DEF ActiveIsArmed, Armed
  <2>5. SleeperIsTimed'
    <3>1. ASSUME NEW t \in Threads, pc[t] \in Sleeping, wait4event[tid[t]] # 0
          PROVE  h'.index[tid[t]] > 0
      <4>1. tid[t] \in Tids /\ tid[t] \in Objs /\ tid[t] # act
        BY <1>1, <3>1, SomeNone DEF IInv, LocalsOK, Sleeping, Objs
      <4> QED BY <2>3, <3>1, <4>1 DEF IInv, TimersArmed, SleeperIsTimed
    <3> QED BY <2>1, <3>1 DEF SleeperIsTimed, Armed
  <2> QED BY <1>3, <1>4, <1>5, <1>6, <2>2, <2>4, <2>5 DEF IInv, TimersArmed
<1>8. CASE ~(reload[act] \notin {0, Words - 1})
  <2>1. state' = [state EXCEPT ![act] = "TMR_FIRED"] /\ UNCHANGED <<h, wait4event, pc, tid>>
    BY <1>8 DEF TimerTimeOut
  <2>2. HeapInv'
    BY <2>1, HeapKept DEF IInv
  <2>3. \A i \in TimerIds : (state'[i] = "TMR_ACTIVE") <=> (state[i] = "TMR_ACTIVE" /\ i # act)
    BY <1>1, <2>1 DEF IInv, TimersOK
  <2>4. ActiveIsArmed'
    BY <1>1, <1>2, <2>1, <2>3 DEF IInv, TimersArmed, ActiveIsArmed, Armed
  <2>5. SleeperIsTimed'
    BY <1>1, <2>1 DEF IInv, TimersArmed, SleeperIsTimed, Armed
  <2> QED BY <1>3, <1>4, <1>5, <1>6, <2>2, <2>4, <2>5 DEF IInv, TimersArmed
<1> QED BY <1>7, <1>8

LEMMA TimerPostOK == ASSUME IInv, TimerPost PROVE IInv'
<1>1. tasklet = "post" /\ tasklet' = "loop" /\ act \in TimerIds /\ act' = None
  BY DEF IInv, TimerPost, ClocksOK
<1>2. HeapInv'
  BY HeapKept DEF IInv, TimerPost
<1>3. ClocksOK'
  BY <1>1 DEF IInv, TimerPost, ClocksOK, TaskletPcs
<1>4. TimersOK'
  BY DEF IInv, TimerPost, TimersOK, timers
<1>5. LocalsOK'
  BY DEF IInv, TimerPost, LocalsOK, Codes
<1>6. Alone'
  BY <1>1 DEF IInv, TimerPost, Alone
<1>7. ActiveIsArmed'
  BY <1>1 DEF IInv, TimerPost, TimersArmed, ActiveIsArmed, Armed, timers
<1>8. SleeperIsTimed'
  <2>1. ASSUME NEW t \in Threads, pc[t] \in Sleeping, wait4event[tid[t]] # 0
        PROVE  Armed(tid[t])
    <3>1. tid[t] \in Tids
      BY <2>1 DEF IInv, LocalsOK, Sleeping
    <3> QED BY <1>1, <2>1, <3>1, SomeNone DEF IInv, TimersArmed, SleeperIsTimed
  <2> QED BY <2>1 DEF TimerPost, SleeperIsTimed, Armed
<1> QED BY <1>2, <1>3, <1>4, <1>5, <1>6, <1>7, <1>8 DEF IInv, TimersArmed

LEMMA TaskWakeupOK == ASSUME IInv, TaskWakeup PROVE IInv'
<1>1. tasklet = "callback" /\ tasklet' = "loop" /\ act \in Tids /\ act' = None
  BY DEF TaskWakeup
<1>2. HeapInv'
  BY HeapKept DEF IInv, TaskWakeup
<1>3. ClocksOK'
  BY <1>1 DEF IInv, TaskWakeup, ClocksOK, TaskletPcs
<1>4. TimersOK'
  BY DEF IInv, TaskWakeup, TimersOK, timers
<1>5. /\ pc' \in [Threads -> Pcs]
      /\ \A t \in Threads : (pc'[t] \in Sleeping <=> pc[t] \in Sleeping)
                            /\ (pc'[t] # "idle" <=> pc[t] # "idle")
  BY DEF IInv, TaskWakeup, LocalsOK, Pcs, Sleeping
<1>6. /\ wait4event' \in [Tids -> {0, 1}] /\ wait4event'[act] = 0
      /\ \A k \in Tids : k # act => wait4event'[k] = wait4event[k]
  BY <1>1 DEF IInv, TaskWakeup, LocalsOK
<1>7. tid' = tid /\ reply' \in Codes
  BY DEF TaskWakeup, Codes
<1>8. LocalsOK'
  BY <1>5, <1>6, <1>7 DEF IInv, LocalsOK
<1>9. Alone'
  BY <1>1, <1>5, <1>7 DEF IInv, Alone
<1>10. ActiveIsArmed'
  BY <1>1, SomeNone DEF IInv, TaskWakeup, TimersArmed, ActiveIsArmed, Armed, timers
<1>11. SleeperIsTimed'
  <2>1. ASSUME NEW t \in Threads, pc'[t] \in Sleeping, wait4event'[tid[t]] # 0
        PROVE  Armed(tid[t])
    <3>1. pc[t] \in Sleeping /\ tid[t] \in Tids
      BY <1>5, <2>1 DEF IInv, LocalsOK, Sleeping
    <3>2. tid[t] # act /\ wait4event[tid[t]] # 0
      BY <1>6, <2>1, <3>1
    <3> QED BY <3>1, <3>2 DEF IInv, TimersArmed, SleeperIsTimed
  <2> QED BY <1>7, <2>1 DEF TaskWakeup, SleeperIsTimed, Armed
<1> QED BY <1>2, <1>3, <1>4, <1>8, <1>9, <1>10, <1>11 DEF IInv, TimersArmed

--------------------------------------------------------------------------------
\* While a thread takes a step the tasklet does nothing.
LEMMA ThreadStepsOK ==
    ASSUME IInv, tasklet = "idle", UNCHANGED clocks
    PROVE  /\ act = None /\ act' = None /\ tasklet' = "idle" /\ ClocksOK'
           /\ \A i \in TimerIds : (state[i] = "TMR_ACTIVE") <=> Armed(i)
           /\ \A t \in Threads : pc[t] \in Sleeping =>
                 tid[t] \in Tids /\ (wait4event[tid[t]] # 0 => Armed(tid[t]))
<1>1. act = None /\ act' = None /\ tasklet' = "idle"
  BY DEF IInv, ClocksOK, clocks
<1>2. ClocksOK'
  BY DEF IInv, ClocksOK, clocks
<1>3. \A i \in TimerIds : (state[i] = "TMR_ACTIVE") <=> Armed(i)
  BY DEF IInv, TimersArmed, ActiveIsArmed
<1>4. ASSUME NEW t \in Threads, pc[t] \in Sleeping
      PROVE  tid[t] \in Tids /\ (wait4event[tid[t]] # 0 => Armed(tid[t]))
  <2>1. tid[t] \in Tids
    BY <1>4 DEF IInv, LocalsOK, Sleeping
  <2> QED BY <1>1, <1>4, <2>1, SomeNone DEF IInv, TimersArmed, SleeperIsTimed
<1> QED BY <1>1, <1>2, <1>3, <1>4

LEMMA Returns ==
    ASSUME IInv, NEW t \in Threads, NEW e \in Codes, Return(t, e),
           wait4event' \in [Tids -> {0, 1}]
    PROVE  LocalsOK'
BY DEF IInv, Return, LocalsOK, Pcs

\* A call about timers: nobody begins or ends a sleep, the objects of tasks keep
\* their places, and what it starts or stops is armed or not as its state says.
LEMMA TimerCall ==
    ASSUME IInv, tasklet = "idle", UNCHANGED <<clocks, wait4event>>, HeapInv', TimersOK',
           NEW t \in Threads, NEW e \in Codes, pc[t] = "idle", Return(t, e),
           \A k \in Tids : Armed(k) => h'.index[k] > 0,
           \A i \in TimerIds : (state'[i] = "TMR_ACTIVE") <=> h'.index[i] > 0
    PROVE  IInv'
<1>1. LocalsOK'
  BY Returns DEF IInv, LocalsOK
<1>2. pc' = pc /\ tid' = tid
  BY DEF IInv, LocalsOK, Return
<1>3. Alone'
  BY <1>2, ThreadStepsOK DEF IInv, Alone
<1>4. ActiveIsArmed'
  BY ThreadStepsOK DEF ActiveIsArmed, Armed
<1>5. SleeperIsTimed'
  <2>1. \A u \in Threads : pc[u] \in Sleeping /\ wait4event[tid[u]] # 0 => h'.index[tid[u]] > 0
    BY ThreadStepsOK
  <2> QED BY <1>2, <2>1 DEF SleeperIsTimed, Armed
<1> QED BY <1>1, <1>3, <1>4, <1>5, ThreadStepsOK DEF IInv, TimersArmed

LEMMA TmrCreateOK ==
    ASSUME IInv, NEW t \in Threads, TmrCreate(t)
    PROVE  IInv'
<1>1. tasklet = "idle" /\ pc[t] = "idle" /\ UNCHANGED <<clocks, h, wait4event>>
  BY DEF TmrCreate, MayRun
<1>2. HeapInv' /\ \A o : h'.index[o] > 0 <=> Armed(o)
  BY <1>1, HeapKept DEF IInv, Armed
<1>3. PICK e \in Codes : Return(t, e)
  BY DEF TmrCreate, Codes
<1>4. TimersOK'
  BY DEF IInv, TmrCreate, TimersOK, timers, States, Unused
<1>5. \A i \in TimerIds : (state'[i] = "TMR_ACTIVE") <=> (state[i] = "TMR_ACTIVE")
  BY DEF IInv, TmrCreate, TimersOK, timers, Unused
<1>6. \A i \in TimerIds : (state'[i] = "TMR_ACTIVE") <=> h'.index[i] > 0
  BY <1>1, <1>2, <1>5, ThreadStepsOK
<1> QED BY <1>1, <1>2, <1>3, <1>4, <1>6, TimerCall

LEMMA TmrStartOK ==
    ASSUME OneStart, IInv, NEW t \in Threads, NEW i \in TimerIds \cup {0},
           NEW d \in Timeouts, NEW r \in Reloads, TmrStart(t, i, d, r)
    PROVE  IInv'
<1>1. tasklet = "idle" /\ pc[t] = "idle" /\ UNCHANGED <<clocks, wait4event>>
  BY DEF TmrStart, MayRun
<1>2. CASE ~Valid(i)
  <2>1. Return(t, "ERR_TMRINV") /\ UNCHANGED <<h, timers>> /\ "ERR_TMRINV" \in Codes
    BY <1>2 DEF TmrStart, Codes
  <2>2. HeapInv' /\ TimersOK' /\ state' = state /\ \A o : h'.index[o] > 0 <=> Armed(o)
    BY <2>1, HeapKept DEF IInv, Armed, TimersOK, timers
  <2> QED BY <1>1, <2>1, <2>2, ThreadStepsOK, TimerCall
<1>3. CASE Valid(i)
  <2>1. /\ i \in TimerIds /\ i \in Objs /\ ~Armed(i) /\ d \in Nat
        /\ reload' = [reload EXCEPT ![i] = r] /\ state' = [state EXCEPT ![i] = "TMR_ACTIVE"]
        /\ h' = Started(i, d) /\ Return(t, "ERR_NOERR") /\ "ERR_NOERR" \in Codes
    BY <1>3, MxpTmrAssumption DEF TmrStart, Valid, MayStart, Codes, Objs
  <2>2. PICK w : HeapInv' /\ Adds(i, w)
    BY <2>1, Starts DEF IInv, ClocksOK
  <2>3. \A x \in Objs : h'.index[x] > 0 <=> Armed(x) \/ x = i
    BY <2>2 DEF Adds, Armed
  <2>4. TimersOK'
    BY <2>1 DEF IInv, TimersOK, States
  <2>5. \A j \in TimerIds : (state'[j] = "TMR_ACTIVE") <=> h'.index[j] > 0
    BY <1>1, <2>1, <2>3, ThreadStepsOK DEF IInv, TimersOK, Objs
  <2>6. \A k \in Tids : Armed(k) => h'.index[k] > 0
    BY <2>3 DEF Objs
  <2> QED BY <1>1, <2>1, <2>2, <2>4, <2>5, <2>6, TimerCall
<1> QED BY <1>2, <1>3

\* mxp_tmrAbort and mxp_tmrDelete take an active timer out of the heap.
LEMMA Stops ==
    ASSUME IInv, tasklet = "idle", UNCHANGED <<clocks>>, NEW i \in TimerIds, h' = Stopped(i)
    PROVE  /\ HeapInv'
           /\ \A x \in Objs : h'.index[x] > 0 <=> Armed(x) /\ x # i
           /\ IF Armed(i) THEN Removes(i) ELSE h' = h
<1>1. i \in Objs /\ (state[i] = "TMR_ACTIVE" <=> Armed(i))
  BY ThreadStepsOK DEF Objs
<1>2. CASE Armed(i)
  BY <1>1, <1>2, Deletes DEF IInv, Stopped, Removes, Armed
<1>3. CASE ~Armed(i)
  <2>1. h' = h
    BY <1>1, <1>3 DEF Stopped
  <2> QED BY <1>1, <1>3, <2>1, HeapKept DEF IInv, Armed
<1> QED BY <1>2, <1>3

LEMMA TmrAbortOK ==
    ASSUME IInv, NEW t \in Threads, NEW i \in TimerIds \cup {0}, TmrAbort(t, i)
    PROVE  IInv'
<1>1. tasklet = "idle" /\ pc[t] = "idle" /\ UNCHANGED <<clocks, wait4event>>
  BY DEF TmrAbort, MayRun
<1>2. CASE ~Valid(i)
  <2>1. Return(t, "ERR_TMRINV") /\ UNCHANGED <<h, timers>> /\ "ERR_TMRINV" \in Codes
    BY <1>2 DEF TmrAbort, Codes, timers
  <2>2. HeapInv' /\ TimersOK' /\ state' = state /\ \A o : h'.index[o] > 0 <=> Armed(o)
    BY <2>1, HeapKept DEF IInv, Armed, TimersOK, timers
  <2> QED BY <1>1, <2>1, <2>2, ThreadStepsOK, TimerCall
<1>3. CASE Valid(i)
  <2>1. /\ i \in TimerIds /\ h' = Stopped(i)
        /\ state' = [state EXCEPT ![i] = "TMR_IDLE"] /\ UNCHANGED reload
    BY <1>3 DEF TmrAbort, Valid
  <2>2. PICK e \in Codes : Return(t, e)
    BY <1>3 DEF TmrAbort, Codes
  <2>3. HeapInv' /\ \A x \in Objs : h'.index[x] > 0 <=> Armed(x) /\ x # i
    BY <1>1, <2>1, Stops
  <2>4. TimersOK'
    BY <2>1 DEF IInv, TimersOK, States
  <2>5. \A j \in TimerIds : (state'[j] = "TMR_ACTIVE") <=> h'.index[j] > 0
    BY <1>1, <2>1, <2>3, ThreadStepsOK DEF IInv, TimersOK, Objs
  <2>6. \A k \in Tids : Armed(k) => h'.index[k] > 0
    BY <2>1, <2>3, SomeNone DEF Objs
  <2> QED BY <1>1, <2>2, <2>3, <2>4, <2>5, <2>6, TimerCall
<1> QED BY <1>2, <1>3

LEMMA TmrDeleteOK ==
    ASSUME IInv, NEW t \in Threads, NEW i \in TimerIds \cup {0}, TmrDelete(t, i)
    PROVE  IInv'
<1>1. tasklet = "idle" /\ pc[t] = "idle" /\ UNCHANGED <<clocks, wait4event>>
  BY DEF TmrDelete, MayRun
<1>2. CASE ~Valid(i)
  <2>1. Return(t, "ERR_TMRINV") /\ UNCHANGED <<h, timers>> /\ "ERR_TMRINV" \in Codes
    BY <1>2 DEF TmrDelete, Codes, timers
  <2>2. HeapInv' /\ TimersOK' /\ state' = state /\ \A o : h'.index[o] > 0 <=> Armed(o)
    BY <2>1, HeapKept DEF IInv, Armed, TimersOK, timers
  <2> QED BY <1>1, <2>1, <2>2, ThreadStepsOK, TimerCall
<1>3. CASE Valid(i)
  <2>1. /\ i \in TimerIds /\ h' = Stopped(i)
        /\ state' = [state EXCEPT ![i] = "TMR_FREE"] /\ UNCHANGED reload
        /\ Return(t, "ERR_NOERR") /\ "ERR_NOERR" \in Codes
    BY <1>3 DEF TmrDelete, Valid, Codes
  <2>3. HeapInv' /\ \A x \in Objs : h'.index[x] > 0 <=> Armed(x) /\ x # i
    BY <1>1, <2>1, Stops
  <2>4. TimersOK'
    BY <2>1 DEF IInv, TimersOK, States
  <2>5. \A j \in TimerIds : (state'[j] = "TMR_ACTIVE") <=> h'.index[j] > 0
    BY <1>1, <2>1, <2>3, ThreadStepsOK DEF IInv, TimersOK, Objs
  <2>6. \A k \in Tids : Armed(k) => h'.index[k] > 0
    BY <2>1, <2>3, SomeNone DEF Objs
  <2> QED BY <1>1, <2>1, <2>3, <2>4, <2>5, <2>6, TimerCall
<1> QED BY <1>2, <1>3

LEMMA TaskSleepOK ==
    ASSUME OneStart, IInv, NEW t \in Threads, NEW k \in Tids, NEW d \in Timeouts,
           TaskSleep(t, k, d)
    PROVE  IInv'
<1>1. /\ tasklet = "idle" /\ pc[t] = "idle" /\ UNCHANGED <<clocks, timers>>
      /\ ~Armed(k) /\ InSleep(k) = {} /\ k \in Objs /\ d \in Nat /\ h' = Started(k, d)
      /\ wait4event' = [wait4event EXCEPT ![k] = 1]
      /\ pc' = [pc EXCEPT ![t] = "sleepCheck"] /\ tid' = [tid EXCEPT ![t] = k]
      /\ reply' \in Codes
  BY MxpTmrAssumption DEF TaskSleep, MayRun, MaySleep, Objs, Codes
<1>2. PICK w : HeapInv' /\ Adds(k, w)
  BY <1>1, Starts DEF IInv, ClocksOK
<1>3. \A x \in Objs : h'.index[x] > 0 <=> Armed(x) \/ x = k
  BY <1>2 DEF Adds, Armed
<1>4. TimersOK' /\ state' = state
  BY <1>1 DEF IInv, TimersOK, timers
<1>5. LocalsOK'
  BY <1>1, SomeNone DEF IInv, LocalsOK, Pcs, Sleeping
<1>6. /\ pc'[t] = "sleepCheck" /\ tid'[t] = k
      /\ \A u \in Threads : u # t => pc'[u] = pc[u] /\ tid'[u] = tid[u]
  BY <1>1 DEF IInv, LocalsOK
<1>7. \A u \in Threads : pc[u] \in Sleeping => tid[u] # k
  BY <1>1 DEF InSleep
<1>8. Alone'
  BY <1>1, <1>6, <1>7, ThreadStepsOK DEF IInv, Alone
<1>9. ActiveIsArmed'
  <2>1. \A i \in TimerIds : (state'[i] = "TMR_ACTIVE") <=> h'.index[i] > 0
    BY <1>1, <1>3, <1>4, ThreadStepsOK, SomeNone DEF Objs
  <2> QED BY <1>1, <2>1, ThreadStepsOK DEF ActiveIsArmed, Armed
<1>10. SleeperIsTimed'
  <2>1. ASSUME NEW u \in Threads, pc'[u] \in Sleeping, wait4event'[tid'[u]] # 0
        PROVE  h'.index[tid'[u]] > 0
    <3>1. CASE u = t
      BY <1>1, <1>3, <1>6, <3>1
    <3>2. CASE u # t
      <4>1. pc[u] \in Sleeping /\ tid'[u] = tid[u] /\ tid[u] # k
        BY <1>6, <1>7, <2>1, <3>2
      <4>2. tid[u] \in Tids /\ tid[u] \in Objs
        BY <1>1, <4>1, ThreadStepsOK DEF Objs
      <4>3. wait4event[tid[u]] # 0
        BY <1>1, <2>1, <4>1, <4>2 DEF IInv, LocalsOK
      <4>4. Armed(tid[u])
        BY <1>1, <4>1, <4>3, ThreadStepsOK
      <4> QED BY <1>3, <4>1, <4>2, <4>4
    <3> QED BY <3>1, <3>2
  <2> QED BY <2>1 DEF SleeperIsTimed, Armed
<1> QED BY <1>1, <1>2, <1>4, <1>5, <1>8, <1>9, <1>10, ThreadStepsOK DEF IInv, TimersArmed

\* A thread moves on inside its sleep.
LEMMA SleepMoves ==
    ASSUME IInv, tasklet = "idle", NEW t \in Threads, NEW s \in Sleeping,
           pc[t] \in Sleeping, pc' = [pc EXCEPT ![t] = s], reply' \in Codes,
           UNCHANGED <<clocks, h, wait4event, timers, tid>>
    PROVE  IInv'
<1>1. pc' \in [Threads -> Pcs] /\ \A u \in Threads : pc'[u] \in Sleeping <=> pc[u] \in Sleeping
  BY DEF IInv, LocalsOK, Pcs
<1>2. \A u \in Threads : pc'[u] # "idle" <=> pc[u] # "idle"
  BY DEF IInv, LocalsOK, Sleeping
<1>3. LocalsOK'
  BY <1>1, <1>2 DEF IInv, LocalsOK
<1>4. HeapInv' /\ TimersOK'
  BY HeapKept DEF IInv, TimersOK, timers
<1>5. Alone'
  BY <1>1, ThreadStepsOK DEF IInv, Alone
<1>6. ActiveIsArmed'
  BY DEF IInv, TimersArmed, ActiveIsArmed, Armed, timers, clocks
<1>7. SleeperIsTimed'
  BY <1>1 DEF IInv, TimersArmed, SleeperIsTimed, Armed, clocks
<1> QED BY <1>3, <1>4, <1>5, <1>6, <1>7, ThreadStepsOK DEF IInv, TimersArmed

LEMMA SleepCheckOK ==
    ASSUME IInv, NEW t \in Threads, SleepCheck(t) \/ Signal(t)
    PROVE  IInv'
<1>1. PICK s \in Sleeping : pc' = [pc EXCEPT ![t] = s]
  BY DEF SleepCheck, Signal, Sleeping
<1>2. /\ tasklet = "idle" /\ pc[t] \in Sleeping /\ reply' \in Codes
      /\ UNCHANGED <<clocks, h, wait4event, timers, tid>>
  BY DEF SleepCheck, Signal, Sleeping, MayRun, Codes
<1> QED BY <1>1, <1>2, SleepMoves

LEMMA SleepResumeOK ==
    ASSUME IInv, NEW t \in Threads, SleepResume(t)
    PROVE  IInv'
<1> DEFINE k == tid[t]
<1>1. /\ tasklet = "idle" /\ pc[t] \in Sleeping /\ UNCHANGED <<clocks, timers>>
      /\ k \in Tids /\ k \in Objs
  BY ThreadStepsOK DEF SleepResume, MayRun, Sleeping, Objs
<1>2. PICK e \in Codes : Return(t, e)
  BY DEF SleepResume, Codes
<1>3. /\ wait4event' \in [Tids -> {0, 1}]
      /\ \A j \in Tids : j # k => wait4event'[j] = wait4event[j]
  BY <1>1 DEF IInv, LocalsOK, SleepResume
<1>4. HeapInv' /\ \A x \in Objs : x # k => (h'.index[x] > 0 <=> Armed(x))
  <2>1. CASE UNCHANGED h
    BY <2>1, HeapKept DEF IInv, Armed
  <2>2. CASE h' = Heap!Delete(h, k)
    <3>1. HeapInv' /\ IF Armed(k) THEN Removes(k) ELSE h' = h
      BY <1>1, <2>2, Deletes DEF IInv
    <3> QED BY <3>1 DEF Removes, Armed
  <2> QED BY <2>1, <2>2 DEF SleepResume
<1>5. LocalsOK'
  BY <1>2, <1>3, Returns
<1>6. TimersOK' /\ state' = state
  BY <1>1 DEF IInv, TimersOK, timers
<1>7. \A u \in Threads : pc'[u] \in Sleeping => u # t /\ pc[u] \in Sleeping /\ tid'[u] = tid[u]
  BY <1>2 DEF IInv, LocalsOK, Return, Sleeping
<1>8. Alone'
  BY <1>1, <1>7, ThreadStepsOK DEF IInv, Alone
<1>9. ActiveIsArmed'
  <2>1. \A i \in TimerIds : (state'[i] = "TMR_ACTIVE") <=> h'.index[i] > 0
    BY <1>1, <1>4, <1>6, ThreadStepsOK, SomeNone DEF Objs
  <2> QED BY <1>1, <2>1, ThreadStepsOK DEF ActiveIsArmed, Armed
<1>10. SleeperIsTimed'
  <2>1. ASSUME NEW u \in Threads, pc'[u] \in Sleeping, wait4event'[tid'[u]] # 0
        PROVE  h'.index[tid'[u]] > 0
    <3>1. u # t /\ pc[u] \in Sleeping /\ tid'[u] = tid[u]
      BY <1>7, <2>1
    <3>2. tid[u] # k
      BY <1>1, <3>1 DEF IInv, Alone
    <3>3. tid[u] \in Tids /\ tid[u] \in Objs
      BY <1>1, <3>1, ThreadStepsOK DEF Objs
    <3>4. Armed(tid[u])
      BY <1>1, <1>3, <2>1, <3>1, <3>2, <3>3, ThreadStepsOK
    <3> QED BY <1>4, <3>1, <3>2, <3>3, <3>4
  <2> QED BY <2>1 DEF SleeperIsTimed, Armed
<1> QED BY <1>1, <1>4, <1>5, <1>6, <1>8, <1>9, <1>10, ThreadStepsOK DEF IInv, TimersArmed

LEMMA Inductive ==
    ASSUME OneStart, IInv, [Next]_vars
    PROVE  IInv'
<1>1. CASE UNCHANGED vars
  BY <1>1 DEF vars, timers, IInv, HeapInv, ClocksOK, TimersOK, LocalsOK, Alone, TimersArmed,
             ActiveIsArmed, SleeperIsTimed, Armed
<1>2. CASE Tasklet
  BY <1>2, TaskletEnterOK, ClockStartOK, ClockPopOK, ClockEndOK, TimerTimeOutOK, TimerPostOK,
     TaskWakeupOK DEF Tasklet
<1>3. ASSUME NEW t \in Threads, Call(t)
      PROVE  IInv'
  BY <1>3, TmrCreateOK, TmrStartOK, TmrAbortOK, TmrDeleteOK, TaskSleepOK DEF Call
<1>4. ASSUME NEW t \in Threads, Step(t) \/ Signal(t)
      PROVE  IInv'
  BY <1>4, SleepCheckOK, SleepResumeOK DEF Step
<1> QED BY <1>1, <1>2, <1>3, <1>4, IrqOK DEF Next

LEMMA Invariant ==
    ASSUME OneStart
    PROVE  Spec => []IInv
<1>1. IInv /\ [Next]_vars => IInv'
  BY Inductive
<1> QED BY <1>1, Initially, PTL DEF Spec

--------------------------------------------------------------------------------
\* The variables have their types, the places and the wake-up times of the timer
\* objects included: neither the turn of the clock nor an interval of any length
\* leaves the range of a word (mmxpcore.c:836-885, 915-943).
THEOREM TypeCorrect ==
    ASSUME OneStart
    PROVE  Spec => []TypeOK
<1>1. ASSUME IInv
      PROVE  TypeOK
  <2>1. h.heap \in Seq(Objs) /\ h.index \in [Objs -> 0 .. MaxObjs]
    <3>1. h.heap \in Seq(Objs) /\ h.index \in [Objs -> Nat] /\ Len(h.heap) \in Nat
          /\ DOMAIN h.heap = 1 .. Len(h.heap)
      BY <1>1, HeapTypes DEF IInv, HeapInv
    <3>2. \A o \in Objs : h.index[o] > 0 => h.index[o] \in 1 .. Len(h.heap)
      BY <1>1, <3>1 DEF IInv, HeapInv, Heap!Consistent
    <3>3. Len(h.heap) <= MaxObjs /\ MaxObjs \in Nat
      BY <1>1, PlacesLeft, MxpTmrAssumption DEF IInv, HeapInv
    <3>4. \A o \in Objs : h.index[o] \in 0 .. MaxObjs
      BY <3>1, <3>2, <3>3
    <3> QED BY <3>1, <3>4
  <2> QED BY <1>1, <2>1 DEF IInv, HeapInv, ClocksOK, TimersOK, LocalsOK, TypeOK
<1> QED BY <1>1, Invariant, PTL

\* The heap stays a heap under everything its callers, the turn of the clock and
\* the reloads do to it (mmxpcore.c:788-832, 859-867, 893-907).
THEOREM HeapCorrect ==
    ASSUME OneStart
    PROVE  Spec => []HeapConsistent
<1>1. IInv => HeapConsistent
  BY DEF IInv, HeapInv, HeapConsistent
<1> QED BY <1>1, Invariant, PTL

\* What waits for a timer has one: an active MXP timer is in the heap or its
\* expiry is handled, and so for a sleeper (mmxpcore.c:226-258, 354-461).
THEOREM TimersArmedCorrect ==
    ASSUME OneStart
    PROVE  Spec => []TimersArmed
<1>1. IInv => TimersArmed
  BY DEF IInv
<1> QED BY <1>1, Invariant, PTL

--------------------------------------------------------------------------------
\* The numbers fit: the ticks that wait are no more than the clock can count, and
\* no timer is reloaded, that late, with an interval whose sum with the clock
\* wraps (mmxpcore.c:934; MAX_CLOCK is 0x7FFFFFFF, mxp_mod.h:26).
TimesFit ==
    /\ MaxClock > 1
    /\ MaxLag <= MaxClock
    /\ \A r \in Reloads \ {0, Words - 1} : Delta(r) + MaxLag <= MaxClock + 2

\* Unless the tasklet is in its loop, the clock is before its turn and no timer
\* is due.
Calm == tasklet \in {"idle", "entered", "oops"}

TimeInv ==
    /\ clock <= IF Calm THEN MaxClock - 1 ELSE MaxClock - 1 + MaxLag
    /\ Calm => \A o \in Objs : Armed(o) => h.time[o] > clock

TInv == IInv /\ TimeInv

Left == [o \in Objs |-> IF Armed(o) THEN h.time[o] - clock ELSE Off]

LEMMA Numbers ==
    ASSUME IInv
    PROVE  /\ clock \in Nat /\ lag \in Nat /\ lag <= MaxLag /\ MaxLag \in Nat
           /\ MaxClock \in Nat /\ MaxClock > 0 /\ Words = 2 * MaxClock + 2
           /\ \A o \in Objs : h.time[o] \in 0 .. Words - 1 /\ h.time[o] \in Int
           /\ Off \notin Int
<1>1. MaxClock \in Nat /\ MaxClock > 0 /\ MaxLag \in Nat /\ Off \notin Int
  BY MxpTmrAssumption
<1>2. Words = 2 * MaxClock + 2 /\ Words \in Nat
  BY <1>1 DEF Words
<1>3. clock \in Nat /\ lag \in Nat /\ lag <= MaxLag
  BY <1>1, <1>2 DEF IInv, ClocksOK
<1>4. \A o \in Objs : h.time[o] \in 0 .. Words - 1
  BY DEF IInv, HeapInv
<1>5. \A o \in Objs : h.time[o] \in Int
  BY <1>2, <1>4
<1> QED BY <1>1, <1>2, <1>3, <1>4, <1>5

LEMMA LeftIs ==
    ASSUME IInv, NEW o \in Objs
    PROVE  /\ o \in Time!Armed <=> Armed(o)
           /\ Armed(o) => Left[o] = h.time[o] - clock
           /\ ~Armed(o) => Left[o] = Off
<1>1. /\ Armed(o) => Left[o] = h.time[o] - clock
      /\ ~Armed(o) => Left[o] = Off
  BY DEF Left
<1>2. o \in Time!Armed <=> Left[o] # Off
  BY DEF Time!Armed, Left
<1>3. h.time[o] - clock \in Int /\ Off \notin Int
  BY Numbers
<1>4. CASE Armed(o)
  <2>1. Left[o] \in Int
    BY <1>1, <1>3, <1>4
  <2>2. Left[o] # Off
    BY <1>3, <2>1
  <2> QED BY <1>1, <1>2, <1>4, <2>2
<1>5. CASE ~Armed(o)
  BY <1>1, <1>2, <1>5
<1> QED BY <1>4, <1>5

LEMMA ArmedAreObjs ==
    ASSUME NEW o \in Time!Armed
    PROVE  o \in Objs
BY DEF Time!Armed

\* The steps of the heap are steps of Timers.
LEMMA AddStarts ==
    ASSUME IInv, NEW o \in Objs, ~Armed(o), NEW w \in Int, Adds(o, w), UNCHANGED clock,
           w - clock \in 1 .. MaxClock
    PROVE  Time!Next
<1>1. Left[o] = Off
  BY LeftIs
<1>2. Left' = [Left EXCEPT ![o] = w - clock]
  <2>1. ASSUME NEW x \in Objs
        PROVE  Left'[x] = IF x = o THEN w - clock ELSE Left[x]
    <3>1. /\ h'.index[x] > 0 <=> h.index[x] > 0 \/ x = o
          /\ h'.time[x] = IF x = o THEN w ELSE h.time[x]
      BY DEF IInv, HeapInv, Adds
    <3> QED BY <3>1 DEF Left, Armed
  <2> QED BY <2>1 DEF Left
<1>3. Time!Start(o)
  BY <1>1, <1>2 DEF Time!Start, Left
<1> QED BY <1>3 DEF Time!Next

LEMMA RemoveTakes ==
    ASSUME IInv, NEW o \in Objs, Armed(o), Removes(o), UNCHANGED clock
    PROVE  Left' = [Left EXCEPT ![o] = Off]
<1>1. ASSUME NEW x \in Objs
      PROVE  Left'[x] = IF x = o THEN Off ELSE Left[x]
  <2>1. /\ h'.index[x] > 0 <=> h.index[x] > 0 /\ x # o
        /\ x # o => h'.time[x] = h.time[x]
    BY DEF IInv, HeapInv, Removes
  <2> QED BY <2>1 DEF Left, Armed
<1> QED BY <1>1 DEF Left

LEMMA RemoveStops ==
    ASSUME IInv, NEW o \in Objs, Armed(o), Removes(o), UNCHANGED clock, h.time[o] > clock
    PROVE  Time!Next
<1>1. Left' = [Left EXCEPT ![o] = Off]
  BY RemoveTakes
<1>2. o \in Time!Armed /\ Left[o] > 0
  <2>1. o \in Time!Armed /\ Left[o] = h.time[o] - clock
    BY LeftIs
  <2>2. h.time[o] \in Int /\ clock \in Int
    BY Numbers
  <2> QED BY <2>1, <2>2
<1>3. Time!Stop(o)
  BY <1>1, <1>2 DEF Time!Stop, Left
<1> QED BY <1>3 DEF Time!Next

LEMMA SameLeft ==
    ASSUME UNCHANGED <<h, clock>>
    PROVE  UNCHANGED Left
BY DEF Left, Armed

LEMMA DeltaIs ==
    ASSUME TimesFit, NEW d \in Nat
    PROVE  Delta(d) \in 1 .. MaxClock - 1
BY MxpTmrAssumption DEF Delta, TimesFit

\* A thread's start: the clock has not turned, so the sum fits.
LEMMA ThreadStarts ==
    ASSUME TimesFit, TInv, tasklet = "idle", UNCHANGED clocks, NEW o \in Objs, ~Armed(o),
           NEW d \in Nat, h' = Started(o, d)
    PROVE  Time!Next /\ TimeInv'
<1>1. Delta(d) \in 1 .. MaxClock - 1
  BY DeltaIs
<1>2. clock <= MaxClock - 1 /\ \A x \in Objs : Armed(x) => h.time[x] > clock
  BY DEF TInv, TimeInv, Calm
<1> DEFINE w == clock + Delta(d)
<1>3. w \in 0 .. Words - 1 /\ w \in Int /\ w - clock \in 1 .. MaxClock /\ w > clock
  BY <1>1, <1>2, Numbers DEF TInv
<1>4. (clock + Delta(d)) % Words = w
  BY <1>3, WordsIs
<1>5. Adds(o, w)
  BY <1>4, Starts DEF TInv, IInv, ClocksOK
<1> HIDE DEF w
<1>6. Time!Next
  BY <1>3, <1>5, AddStarts DEF TInv, clocks
<1>7. \A x \in Objs : h'.index[x] > 0 => h'.time[x] > clock
  <2>1. ASSUME NEW x \in Objs, h'.index[x] > 0
        PROVE  h'.time[x] > clock
    <3>1. (h.index[x] > 0 \/ x = o) /\ h'.time[x] = IF x = o THEN w ELSE h.time[x]
      BY <1>5, <2>1 DEF TInv, IInv, HeapInv, Adds
    <3> QED BY <1>2, <1>3, <3>1 DEF Armed
  <2> QED BY <2>1
<1>8. TimeInv'
  BY <1>2, <1>7 DEF TimeInv, Calm, Armed, clocks
<1> QED BY <1>6, <1>8

\* A thread's deletion, if there is anything to delete.
LEMMA ThreadDeletes ==
    ASSUME TInv, tasklet = "idle", UNCHANGED clocks, NEW o \in Objs,
           IF Armed(o) THEN Removes(o) ELSE UNCHANGED h
    PROVE  (Time!Next \/ UNCHANGED Left) /\ TimeInv'
<1>1. clock <= MaxClock - 1 /\ \A x \in Objs : Armed(x) => h.time[x] > clock
  BY DEF TInv, TimeInv, Calm
<1>2. CASE Armed(o)
  <2>1. Time!Next
    BY <1>1, <1>2, RemoveStops DEF TInv, clocks
  <2>2. \A x \in Objs : h'.index[x] > 0 => Armed(x) /\ h'.time[x] = h.time[x]
    BY <1>2 DEF TInv, IInv, HeapInv, Removes, Armed
  <2>3. TimeInv'
    BY <1>1, <2>2 DEF TimeInv, Calm, Armed, clocks
  <2> QED BY <2>1, <2>3
<1>3. CASE ~Armed(o)
  <2>1. UNCHANGED h
    BY <1>3
  <2> QED BY <1>1, <2>1, SameLeft DEF TimeInv, Calm, Armed, clocks
<1> QED BY <1>2, <1>3

\* Steps that change neither the heap nor the clock.
LEMMA TimeStays ==
    ASSUME TInv, UNCHANGED <<h, clock>>, Calm' => Calm, Calm => Calm'
    PROVE  UNCHANGED Left /\ TimeInv'
<1>1. UNCHANGED Left
  BY SameLeft
<1>2. TimeInv'
  BY DEF TInv, TimeInv, Armed
<1> QED BY <1>1, <1>2

LEMMA ClockStartKeeps ==
    ASSUME TimesFit, TInv, ClockStart
    PROVE  (Time!Next \/ UNCHANGED Left) /\ TimeInv'
<1>1. tasklet = "entered" /\ h' = h
  BY DEF ClockStart
<1>2. clock <= MaxClock - 1 /\ \A x \in Objs : Armed(x) => h.time[x] > clock
  BY <1>1 DEF TInv, TimeInv, Calm
<1>3. CASE lag = 0
  <2>1. clock' = clock /\ tasklet' \in {"oops", "idle"}
    BY <1>3, Numbers DEF ClockStart, TInv
  <2> QED BY <1>1, <2>1, TimeStays DEF Calm
<1>4. CASE lag > 0
  <2>1. clock' = (clock + lag) % Words /\ tasklet' = "loop"
    BY <1>4, Numbers DEF ClockStart, TInv
  <2>2. clock + lag \in 0 .. Words - 1 /\ lag \in 1 .. MaxClock
    BY <1>2, <1>4, Numbers DEF TInv, TimesFit
  <2>3. clock' = clock + lag
    BY <2>1, <2>2, WordsIs
  <2>4. \A o \in Time!Armed : o \in Objs /\ Armed(o) /\ Left[o] > 0
    <3>1. ASSUME NEW o \in Objs, Armed(o)
          PROVE  Left[o] > 0
      <4>1. Left[o] = h.time[o] - clock /\ h.time[o] > clock
        BY <1>2, <3>1, LeftIs DEF TInv
      <4>2. h.time[o] \in Int /\ clock \in Int
        BY Numbers DEF TInv
      <4> QED BY <4>1, <4>2
    <3> QED BY <3>1, LeftIs, ArmedAreObjs DEF TInv
  <2>5. Left' = [o \in Objs |-> IF o \in Time!Armed THEN Left[o] - lag ELSE Off]
    <3>1. ASSUME NEW o \in Objs
          PROVE  Left'[o] = IF o \in Time!Armed THEN Left[o] - lag ELSE Off
      <4>1. o \in Time!Armed <=> Armed(o)
        BY LeftIs DEF TInv
      <4>2. Armed(o) => Left'[o] = h.time[o] - (clock + lag) /\ Left[o] = h.time[o] - clock
        BY <1>1, <2>3 DEF Left, Armed
      <4>3. ~Armed(o) => Left'[o] = Off
        BY <1>1 DEF Left, Armed
      <4>4. h.time[o] \in Int /\ clock \in Int /\ lag \in Int
        BY Numbers DEF TInv
      <4> QED BY <4>1, <4>2, <4>3, <4>4
    <3> QED BY <3>1 DEF Left
  <2>6. PICK d : d = lag
    OBVIOUS
  <2>7. Time!Next
    <3>1. Time!Advance(d)
      BY <2>4, <2>5, <2>6 DEF Time!Advance, Left
    <3>2. d \in 1 .. MaxClock
      BY <2>2, <2>6
    <3> QED BY <3>1, <3>2 DEF Time!Next
  <2>8. clock' <= MaxClock - 1 + MaxLag
    BY <1>2, <2>3, Numbers DEF TInv
  <2>9. ~Calm'
    BY <2>1 DEF Calm
  <2>10. TimeInv'
    BY <2>8, <2>9 DEF TimeInv
  <2> QED BY <2>7, <2>10
<1> QED BY <1>3, <1>4, Numbers DEF TInv

LEMMA ClockPopKeeps ==
    ASSUME TInv, ClockPop
    PROVE  Time!Next /\ TimeInv'
<1>0. PICK o : o = h.heap[1]
  OBVIOUS
<1>1. o \in Objs /\ Armed(o) /\ Removes(o) /\ h.time[o] <= clock
  BY <1>0, Pops DEF TInv, IInv, ClockPop, Due
<1>2. tasklet = "loop" /\ tasklet' = "callback" /\ clock' = clock
  BY DEF ClockPop
<1>3. Left' = [Left EXCEPT ![o] = Off]
  BY <1>1, <1>2, RemoveTakes DEF TInv
<1>4. o \in Time!Armed /\ Left[o] <= 0
  <2>1. o \in Time!Armed /\ Left[o] = h.time[o] - clock
    BY <1>1, LeftIs DEF TInv
  <2>2. h.time[o] \in Int /\ clock \in Int
    BY <1>1, Numbers DEF TInv
  <2> QED BY <1>1, <2>1, <2>2
<1>5. ASSUME NEW p \in Time!Armed
      PROVE  Left[o] <= Left[p]
  <2>1. p \in Objs /\ Armed(p)
    BY LeftIs, ArmedAreObjs DEF TInv
  <2>2. h.time[o] <= h.time[p]
    BY <1>0, <2>1, Earliest DEF TInv, IInv
  <2>3. Left[o] = h.time[o] - clock /\ Left[p] = h.time[p] - clock
    BY <1>1, <2>1, LeftIs DEF TInv
  <2>4. h.time[o] \in Int /\ h.time[p] \in Int /\ clock \in Int
    BY <1>1, <2>1, Numbers DEF TInv
  <2> QED BY <2>2, <2>3, <2>4
<1>6. Time!Expire(o)
  BY <1>3, <1>4, <1>5 DEF Time!Expire, Left
<1>7. TimeInv'
  BY <1>2 DEF TInv, TimeInv, Calm
<1> QED BY <1>1, <1>6, <1>7 DEF Time!Next

LEMMA ClockEndKeeps ==
    ASSUME TimesFit, TInv, ClockEnd
    PROVE  UNCHANGED Left /\ TimeInv'
<1>1. tasklet = "loop" /\ tasklet' = "idle" /\ ~Due
  BY DEF ClockEnd
<1>2. CASE clock >= MaxClock
  <2>1. clock' = 0 /\ h' = Heap!Shift(h, clock)
    BY <1>2 DEF ClockEnd
  <2>2. /\ h'.index = h.index
        /\ \A x \in Objs : Armed(x) => h'.time[x] = h.time[x] - clock /\ h.time[x] > clock
    BY <1>1, <2>1, Shifts DEF TInv, IInv, ClocksOK
  <2>3. ASSUME NEW x \in Objs
        PROVE  Left'[x] = Left[x] /\ (Armed(x) => h'.time[x] > 0)
    <3>1. h.time[x] \in Int /\ clock \in Int
      BY Numbers DEF TInv
    <3> QED BY <2>1, <2>2, <3>1 DEF Left, Armed
  <2>4. UNCHANGED Left
    BY <2>3 DEF Left
  <2>5. TimeInv'
    BY <1>1, <2>1, <2>2, <2>3, MxpTmrAssumption DEF TimeInv, Calm, Armed
  <2> QED BY <2>4, <2>5
<1>3. CASE ~(clock >= MaxClock)
  <2>1. UNCHANGED <<clock, h>>
    BY <1>3 DEF ClockEnd
  <2>2. ASSUME NEW x \in Objs, Armed(x)
        PROVE  h.time[x] > clock
    <3>1. h.heap # <<>> /\ h.time[h.heap[1]] <= h.time[x]
      BY <2>2, Earliest DEF TInv, IInv
    <3>2. ~(h.time[h.heap[1]] <= clock)
      BY <1>1, <3>1 DEF Due
    <3>3. h.heap[1] \in Objs
      <4>1. Len(h.heap) \in Nat /\ h.heap \in Seq(Objs) /\ \A j \in 1 .. Len(h.heap) : h.heap[j] \in Objs
        BY HeapTypes DEF TInv, IInv, HeapInv
      <4>2. 1 \in 1 .. Len(h.heap)
        BY <3>1, <4>1
      <4> QED BY <4>1, <4>2
    <3>4. h.time[h.heap[1]] \in Int /\ h.time[x] \in Int /\ clock \in Int
      BY <3>3, Numbers DEF TInv
    <3> QED BY <3>1, <3>2, <3>4
  <2>3. TimeInv'
    BY <1>1, <1>3, <2>1, <2>2, Numbers DEF TInv, TimeInv, Calm, Armed
  <2> QED BY <2>1, <2>3, SameLeft
<1> QED BY <1>2, <1>3

\* A reload in the tasklet, where the clock may be past its turn.
LEMMA TimeOutKeeps ==
    ASSUME TimesFit, TInv, TimerTimeOut
    PROVE  (Time!Next \/ UNCHANGED Left) /\ TimeInv'
<1>1. /\ tasklet = "callback" /\ tasklet' = "post" /\ act \in TimerIds /\ clock' = clock
      /\ act \in Objs /\ ~Armed(act)
  BY DEF TInv, IInv, TimerTimeOut, Alone, Objs
<1>2. TimeInv'
  BY <1>1 DEF TInv, TimeInv, Calm
<1>3. CASE reload[act] \notin {0, Words - 1}
  <2>1. h' = Started(act, reload[act]) /\ reload[act] \in Nat
    BY <1>1, <1>3, ReloadIsNat DEF TimerTimeOut, TInv, IInv
  <2>2. Delta(reload[act]) \in 1 .. MaxClock - 1
    BY <2>1, DeltaIs
  <2>3. Delta(reload[act]) + MaxLag <= MaxClock + 2
    <3>1. reload[act] \in Reloads \ {0, Words - 1}
      BY <1>1, <1>3 DEF TInv, IInv, TimersOK
    <3> QED BY <3>1 DEF TimesFit
  <2>4. clock <= MaxClock - 1 + MaxLag
    BY <1>1 DEF TInv, TimeInv, Calm
  <2> DEFINE w == clock + Delta(reload[act])
  <2>5. w \in 0 .. Words - 1 /\ w \in Int /\ w - clock \in 1 .. MaxClock
    BY <2>2, <2>3, <2>4, Numbers DEF TInv
  <2>6. w % Words = w
    BY <2>5, WordsIs
  <2>7. Adds(act, w)
    BY <1>1, <2>1, <2>6, Starts DEF TInv, IInv, ClocksOK
  <2> HIDE DEF w
  <2> QED BY <1>1, <1>2, <2>5, <2>7, AddStarts DEF TInv
<1>4. CASE ~(reload[act] \notin {0, Words - 1})
  <2>1. UNCHANGED h
    BY <1>4 DEF TimerTimeOut
  <2> QED BY <1>1, <1>2, <2>1, SameLeft
<1> QED BY <1>3, <1>4

\* The steps of the threads, which find the tasklet at rest.
LEMMA CallKeeps ==
    ASSUME OneStart, TimesFit, TInv, NEW t \in Threads, Call(t)
    PROVE  (Time!Next \/ UNCHANGED Left) /\ TimeInv'
<1>1. tasklet = "idle" /\ UNCHANGED clocks
  BY DEF Call, TmrCreate, TmrStart, TmrAbort, TmrDelete, TaskSleep, MayRun
<1>2. ASSUME UNCHANGED h
      PROVE  UNCHANGED Left /\ TimeInv'
  BY <1>1, <1>2, TimeStays DEF clocks, Calm
<1>3. ASSUME NEW i \in TimerIds, h' = Stopped(i)
      PROVE  (Time!Next \/ UNCHANGED Left) /\ TimeInv'
  <2>1. i \in Objs /\ IF Armed(i) THEN Removes(i) ELSE h' = h
    BY <1>1, <1>3, Stops DEF TInv, Objs
  <2> QED BY <1>1, <2>1, ThreadDeletes
<1>4. ASSUME NEW i \in TimerIds \cup {0}, TmrAbort(t, i) \/ TmrDelete(t, i)
      PROVE  (Time!Next \/ UNCHANGED Left) /\ TimeInv'
  <2>1. UNCHANGED h \/ (i \in TimerIds /\ h' = Stopped(i))
    BY <1>4 DEF TmrAbort, TmrDelete, Valid
  <2> QED BY <1>2, <1>3, <2>1
<1>5. ASSUME NEW i \in TimerIds \cup {0}, NEW d \in Timeouts, NEW r \in Reloads,
             TmrStart(t, i, d, r)
      PROVE  (Time!Next \/ UNCHANGED Left) /\ TimeInv'
  <2>1. UNCHANGED h \/ (i \in Objs /\ ~Armed(i) /\ d \in Nat /\ h' = Started(i, d))
    BY <1>5, MxpTmrAssumption DEF TmrStart, Valid, MayStart, Objs
  <2> QED BY <1>1, <1>2, <2>1, ThreadStarts
<1>6. ASSUME NEW k \in Tids, NEW d \in Timeouts, TaskSleep(t, k, d)
      PROVE  (Time!Next \/ UNCHANGED Left) /\ TimeInv'
  <2>1. k \in Objs /\ ~Armed(k) /\ d \in Nat /\ h' = Started(k, d)
    BY <1>6, MxpTmrAssumption DEF TaskSleep, MaySleep, Objs
  <2> QED BY <1>1, <2>1, ThreadStarts
<1>7. ASSUME TmrCreate(t)
      PROVE  UNCHANGED h
  BY <1>7 DEF TmrCreate
<1> QED BY <1>2, <1>4, <1>5, <1>6, <1>7 DEF Call

LEMMA SleeperKeeps ==
    ASSUME TInv, NEW t \in Threads, Step(t) \/ Signal(t)
    PROVE  (Time!Next \/ UNCHANGED Left) /\ TimeInv'
<1>1. tasklet = "idle" /\ UNCHANGED clocks
  BY DEF Step, SleepCheck, SleepResume, Signal, MayRun
<1>2. CASE UNCHANGED h
  BY <1>1, <1>2, TimeStays DEF clocks, Calm
<1>3. CASE pc[t] = "resume" /\ h' = Heap!Delete(h, tid[t])
  <2>1. tid[t] \in Objs
    BY <1>3 DEF TInv, IInv, LocalsOK, Objs
  <2>2. PICK o \in Objs : o = tid[t]
    BY <2>1
  <2>3. IF Armed(o) THEN Removes(o) ELSE h' = h
    BY <1>3, <2>2, Deletes DEF TInv, IInv
  <2> QED BY <1>1, <2>3, ThreadDeletes
<1> QED BY <1>2, <1>3 DEF Step, SleepCheck, SleepResume, Signal

LEMMA TaskletKeeps ==
    ASSUME TimesFit, TInv, Tasklet
    PROVE  (Time!Next \/ UNCHANGED Left) /\ TimeInv'
<1>1. ASSUME TaskletEnter \/ TimerPost \/ TaskWakeup
      PROVE  UNCHANGED Left /\ TimeInv'
  BY <1>1, TimeStays DEF TaskletEnter, TimerPost, TaskWakeup, Calm
<1> QED BY <1>1, ClockStartKeeps, ClockPopKeeps, ClockEndKeeps, TimeOutKeeps DEF Tasklet

LEMMA EveryStepKeeps ==
    ASSUME OneStart, TimesFit, TInv, [Next]_vars
    PROVE  (Time!Next \/ UNCHANGED Left) /\ TInv'
<1>1. IInv'
  BY Inductive DEF TInv
<1>2. CASE UNCHANGED vars \/ Irq
  <2>1. UNCHANGED <<h, clock, tasklet>>
    BY <1>2 DEF vars, Irq
  <2> QED BY <1>1, <2>1, TimeStays DEF Calm, TInv
<1> QED BY <1>1, <1>2, TaskletKeeps, CallKeeps, SleeperKeeps DEF Next, TInv

LEMMA StartsInTime ==
    ASSUME TimesFit, Init
    PROVE  Time!Init /\ TInv
<1>1. h.index = [o \in Objs |-> 0] /\ clock = 0
  BY DEF Init, Heap!Empty
<1>2. Left = [o \in Objs |-> Off]
  BY <1>1 DEF Left, Armed
<1>3. Time!Init
  BY <1>2 DEF Time!Init, Left
<1>4. TimeInv
  BY <1>1, MxpTmrAssumption DEF TimeInv, Init, Calm, Armed
<1> QED BY <1>3, <1>4, Initially DEF TInv

\* The timer objects keep time, whatever starts, aborts, reloads and late ticks
\* come together and across the turn of the clock: MxpTmr implements Timers
\* (mmxpcore.c:839-942).
THEOREM TimersKeepTime ==
    ASSUME OneStart, TimesFit
    PROVE  Spec => KeepsTime
<1>1. Init => Time!Init /\ TInv
  BY StartsInTime
<1>2. TInv /\ [Next]_vars => [Time!Next]_Left /\ TInv'
  BY EveryStepKeeps
<1> QED BY <1>1, <1>2, PTL DEF Spec, KeepsTime, Time!Spec, Left

================================================================================
