---------------------------- MODULE TmrHeap_proofs ----------------------------
(***************************************************************************)
(* Proofs about the heap of timer objects, for any set of objects and      *)
(* heaps of any size: every operation keeps a heap, with the _index of     *)
(* every object at its place, and changes one object.                      *)
(*                                                                         *)
(* UpTree and DownTree both turn the objects on a path round by one place. *)
(* What does not depend on the order of times is proved once, of any such  *)
(* turn (Turn); the order is proved of each.                               *)
(***************************************************************************)
EXTENDS TmrHeap_MC, WellFoundedInduction, TLAPS

LEMMA LeastIn ==
    ASSUME NEW S \in SUBSET Nat, S # {}
    PROVE  \E x \in S : \A y \in S : x <= y
<1> DEFINE R == OpToRel(<, Nat)
<1>1. IsWellFoundedOn(R, Nat)
  BY NatLessThanWellFounded
<1>2. \A x, y \in Nat : <<x, y>> \notin R => y <= x
  BY DEF OpToRel
<1> HIDE DEF R
<1>3. PICK x \in S : \A y \in S : <<y, x>> \notin R
  BY <1>1, WFMin
<1> QED BY <1>2, <1>3

LEMMA GreatestIn ==
    ASSUME NEW n \in Nat, NEW S \in SUBSET (1 .. n), S # {}
    PROVE  \E x \in S : \A y \in S : y <= x
<1> DEFINE D == {n - x : x \in S}
<1>1. D \in SUBSET Nat /\ D # {}
  <2>1. \A x \in 1 .. n : n - x \in Nat
    OBVIOUS
  <2>2. D \subseteq Nat
    BY <2>1
  <2> QED BY <2>2
<1>2. PICK d \in D : \A e \in D : d <= e
  BY <1>1, LeastIn
<1>3. PICK x \in S : d = n - x
  BY <1>2
<1>4. \A y \in S : n - y \in D
  OBVIOUS
<1>5. \A y \in S : n - x <= n - y
  BY <1>2, <1>3, <1>4
<1>6. S \subseteq Int
  OBVIOUS
<1>7. \A y \in S : y <= x
  BY <1>5, <1>6, <1>3
<1> QED BY <1>7

\* A path is well defined whatever the step from one place to the next: the
\* places it goes through are the least set closed under the step.
LEMMA PathExists ==
    ASSUME NEW n \in Nat, NEW step \in [1 .. n -> 0 .. n]
    PROVE  \E path : path = [j \in 1 .. n |->
                                IF step[j] # 0 THEN {j} \cup path[step[j]] ELSE {j}]
<1> DEFINE N == 1 .. n
           Closed(S) == \A x \in S : step[x] # 0 => step[x] \in S
           Reached(j) == {i \in N : \A S \in SUBSET N : j \in S /\ Closed(S) => i \in S}
           path == [j \in N |-> Reached(j)]
<1>1. ASSUME NEW j \in N, step[j] = 0
      PROVE  Reached(j) = {j}
  <2>1. Closed({j})
    BY <1>1
  <2> QED BY <2>1
<1>2. ASSUME NEW j \in N, step[j] # 0
      PROVE  Reached(j) = {j} \cup Reached(step[j])
  <2>1. step[j] \in N
    BY <1>2
  <2>2. ASSUME NEW i \in Reached(step[j])
        PROVE  i \in Reached(j)
    BY <1>2
  <2>3. j \in Reached(j)
    OBVIOUS
  <2> DEFINE S == {j} \cup Reached(step[j])
  <2>4. S \in SUBSET N
    OBVIOUS
  <2>5. step[j] \in Reached(step[j])
    BY <2>1
  <2>6. ASSUME NEW x \in Reached(step[j]), step[x] # 0
        PROVE  step[x] \in Reached(step[j])
    BY <2>6
  <2>7. Closed(S)
    BY <2>5, <2>6
  <2>8. \A i \in Reached(j) : i \in S
    BY <2>4, <2>7
  <2> QED BY <2>2, <2>3, <2>8
<1>3. ASSUME NEW j \in N
      PROVE  path[j] = IF step[j] # 0 THEN {j} \cup path[step[j]] ELSE {j}
  <2> HIDE DEF Reached
  <2>1. CASE step[j] = 0
    BY <1>1, <2>1
  <2>2. CASE step[j] # 0
    <3>1. step[j] \in N
      BY <2>2
    <3>2. path[step[j]] = Reached(step[j])
      BY <3>1
    <3> QED BY <1>2, <2>2, <3>2
  <2> QED BY <2>1, <2>2
<1>4. path = [j \in N |-> IF step[j] # 0 THEN {j} \cup path[step[j]] ELSE {j}]
  BY <1>3
<1> QED BY <1>4

--------------------------------------------------------------------------------
Heaps == [heap : Seq(Objs), index : [Objs -> Nat], time : [Objs -> Int]]

LEMMA HeapTypes ==
    ASSUME NEW g \in Heaps
    PROVE  /\ g.heap \in Seq(Objs) /\ g.index \in [Objs -> Nat] /\ g.time \in [Objs -> Int]
           /\ Len(g.heap) \in Nat /\ DOMAIN g.heap = 1 .. Len(g.heap)
           /\ \A j \in 1 .. Len(g.heap) : g.heap[j] \in Objs /\ g.time[g.heap[j]] \in Int
<1>1. g.heap \in Seq(Objs) /\ g.index \in [Objs -> Nat] /\ g.time \in [Objs -> Int]
  BY DEF Heaps
<1>2. Len(g.heap) \in Nat /\ DOMAIN g.heap = 1 .. Len(g.heap)
  BY <1>1
<1>3. ASSUME NEW j \in 1 .. Len(g.heap)
      PROVE  g.heap[j] \in Objs
  BY <1>1
<1> QED BY <1>1, <1>2, <1>3

\* The time of the object at place j, and the two halves of Consistent.
At(g, j) == g.time[g.heap[j]]

Indexed(g) ==
    /\ \A j \in DOMAIN g.heap : g.index[g.heap[j]] = j
    /\ \A o \in Objs : g.index[o] > 0 => g.index[o] \in DOMAIN g.heap /\ g.heap[g.index[o]] = o

Ordered(g) == \A j \in DOMAIN g.heap : j > 1 => At(g, j \div 2) <= At(g, j)

LEMMA ConsistentIs ==
    ASSUME NEW g
    PROVE  Consistent(g) <=> Indexed(g) /\ Ordered(g)
BY DEF Consistent, Indexed, Ordered, At

\* The first object is the earliest.
LEMMA FirstIsEarliest ==
    ASSUME NEW g \in Heaps, Ordered(g)
    PROVE  \A j \in DOMAIN g.heap : At(g, 1) <= At(g, j)
<1> DEFINE n == Len(g.heap)
           Late == {j \in 1 .. n : ~(At(g, 1) <= At(g, j))}
<1>1. n \in Nat /\ DOMAIN g.heap = 1 .. n /\ \A j \in 1 .. n : At(g, j) \in Int
  BY HeapTypes DEF At
<1> HIDE DEF n
<1>2. CASE Late # {}
  <2>1. Late \in SUBSET Nat
    BY <1>1
  <2>2. PICK j \in Late : \A i \in Late : j <= i
    BY <1>2, <2>1, LeastIn
  <2>3. j \in 1 .. n /\ 1 \in 1 .. n /\ j # 1
    BY <1>1, <2>2
  <2>4. j \div 2 \in 1 .. n /\ j \div 2 < j
    BY <1>1, <2>3
  <2>5. j \div 2 \notin Late
    <3>1. ASSUME j \div 2 \in Late
          PROVE  FALSE
      <4>1. j <= j \div 2
        BY <2>2, <3>1
      <4> QED BY <1>1, <2>3, <2>4, <4>1
    <3> QED BY <3>1
  <2>6. At(g, 1) <= At(g, j \div 2)
    BY <2>4, <2>5
  <2>8. At(g, j \div 2) <= At(g, j)
    <3>1. j > 1
      BY <1>1, <2>3
    <3> QED BY <1>1, <2>3, <3>1 DEF Ordered
  <2>7. At(g, 1) <= At(g, j)
    BY <1>1, <2>3, <2>4, <2>6, <2>8
  <2> QED BY <2>2, <2>7
<1>3. CASE Late = {}
  BY <1>1, <1>3
<1> QED BY <1>2, <1>3

--------------------------------------------------------------------------------
\* The objects on the places of P are turned round: place j gets the object of
\* place s[j].
Turn(g, P, s) ==
    /\ P \in SUBSET (DOMAIN g.heap)
    /\ s \in [DOMAIN g.heap -> DOMAIN g.heap]
    /\ \A j \in DOMAIN g.heap \ P : s[j] = j
    /\ \A j \in P : s[j] \in P
    /\ \A i, j \in P : s[i] = s[j] => i = j
    /\ \A j \in P : \E i \in P : s[i] = j

Turned(g, P, s) == Placed(g, [j \in DOMAIN g.heap |-> g.heap[s[j]]], P)

LEMMA TurnKeeps ==
    ASSUME NEW g \in Heaps, Indexed(g), NEW P, NEW s, Turn(g, P, s),
           NEW f, f = Turned(g, P, s)
    PROVE  /\ f \in Heaps /\ Indexed(f)
           /\ Len(f.heap) = Len(g.heap) /\ f.time = g.time
           /\ \A j \in DOMAIN g.heap : f.heap[j] = g.heap[s[j]]
           /\ \A o \in Objs : f.index[o] > 0 <=> g.index[o] > 0
<1> DEFINE n == Len(g.heap)
           heap == [j \in DOMAIN g.heap |-> g.heap[s[j]]]
           Moved(o) == \E j \in P : heap[j] = o
           index == [o \in Objs |-> IF Moved(o) THEN CHOOSE j \in P : heap[j] = o
                                    ELSE g.index[o]]
<1>1. /\ n \in Nat /\ DOMAIN g.heap = 1 .. n /\ g.heap \in Seq(Objs)
      /\ g.index \in [Objs -> Nat] /\ g.time \in [Objs -> Int]
      /\ \A j \in 1 .. n : g.heap[j] \in Objs
  BY HeapTypes
<1> HIDE DEF n
<1>2. /\ P \in SUBSET (1 .. n) /\ s \in [1 .. n -> 1 .. n]
      /\ \A j \in (1 .. n) \ P : s[j] = j
      /\ \A j \in P : s[j] \in P
      /\ \A i, j \in P : s[i] = s[j] => i = j
      /\ \A j \in P : \E i \in P : s[i] = j
  BY <1>1 DEF Turn
<1>3. f = [g EXCEPT !.heap = heap, !.index = index]
  BY DEF Turned, Placed
<1>4. heap \in Seq(Objs) /\ Len(heap) = n /\ DOMAIN heap = 1 .. n
  BY <1>1, <1>2
<1>5. f.heap = heap /\ f.index = index /\ f.time = g.time
  BY <1>3 DEF Heaps
<1>6. \A j \in 1 .. n : heap[j] = g.heap[s[j]]
  BY <1>1
<1>7. \A j \in 1 .. n : g.index[g.heap[j]] = j
  BY <1>1 DEF Indexed
<1> HIDE DEF heap
<1>8. \A i, j \in 1 .. n : heap[i] = heap[j] => s[i] = s[j]
  <2>1. ASSUME NEW i \in 1 .. n
        PROVE  g.index[heap[i]] = s[i]
    <3>1. s[i] \in 1 .. n
      BY <1>2
    <3> QED BY <1>6, <1>7, <3>1
  <2> QED BY <2>1
<1>9. \A i, j \in 1 .. n : heap[i] = heap[j] => i = j
  BY <1>2, <1>8
<1>10. ASSUME NEW j \in P
       PROVE  index[heap[j]] = j
  <2>1. heap[j] \in Objs /\ Moved(heap[j])
    BY <1>1, <1>2, <1>6
  <2>2. \A i \in P : heap[i] = heap[j] => i = j
    BY <1>2, <1>9
  <2> QED BY <2>1, <2>2
<1>11. ASSUME NEW j \in (1 .. n) \ P
       PROVE  index[heap[j]] = j
  <2>1. heap[j] = g.heap[j] /\ heap[j] \in Objs
    BY <1>1, <1>2, <1>6
  <2>2. ~Moved(heap[j])
    BY <1>2, <1>9
  <2> QED BY <1>7, <2>1, <2>2
<1>12. ASSUME NEW o \in Objs, Moved(o)
       PROVE  /\ index[o] \in P /\ heap[index[o]] = o
              /\ g.index[o] \in P
  <2>1. PICK j \in P : heap[j] = o
    BY <1>12
  <2>2. s[j] \in P /\ g.heap[s[j]] = o
    BY <1>2, <1>6, <2>1
  <2>3. index[o] = j
    BY <1>10, <2>1
  <2>4. g.index[o] = s[j]
    BY <1>2, <1>7, <2>2
  <2> QED BY <2>1, <2>2, <2>3, <2>4
<1>13. ASSUME NEW o \in Objs, ~Moved(o)
       PROVE  /\ index[o] = g.index[o]
              /\ g.index[o] > 0 => index[o] \in 1 .. n /\ heap[index[o]] = o
  <2>1. index[o] = g.index[o]
    BY <1>13
  <2>2. ASSUME g.index[o] > 0
        PROVE  index[o] \in 1 .. n /\ heap[index[o]] = o
    <3>1. g.index[o] \in 1 .. n /\ g.heap[g.index[o]] = o
      BY <1>1, <2>2 DEF Indexed
    <3>2. CASE g.index[o] \in P
      <4>1. PICK i \in P : s[i] = g.index[o]
        BY <1>2, <3>2
      <4>2. heap[i] = o
        BY <1>2, <1>6, <3>1, <4>1
      <4> QED BY <1>13, <4>2
    <3>3. CASE g.index[o] \notin P
      BY <1>2, <1>6, <2>1, <3>1, <3>3
    <3> QED BY <3>2, <3>3
  <2> QED BY <2>1, <2>2
<1>14. index \in [Objs -> Nat]
  <2>1. P \subseteq Nat
    BY <1>2
  <2>2. \A o \in Objs : index[o] \in Nat
    BY <1>1, <1>12, <1>13, <2>1
  <2> QED BY <2>2
<1>15. \A o \in Objs : index[o] > 0 <=> g.index[o] > 0
  <2>1. \A j \in P : j > 0
    BY <1>2
  <2> QED BY <1>12, <1>13, <2>1
<1>16. f \in Heaps
  BY <1>1, <1>3, <1>4, <1>14 DEF Heaps
<1> HIDE DEF index
<1>17. \A o \in Objs : index[o] > 0 => index[o] \in 1 .. n /\ heap[index[o]] = o
  BY <1>2, <1>12, <1>13, <1>15
<1>18. Indexed(f)
  BY <1>4, <1>5, <1>10, <1>11, <1>17 DEF Indexed
<1> QED BY <1>1, <1>4, <1>5, <1>6, <1>15, <1>16, <1>18 DEF n

--------------------------------------------------------------------------------
\* An object at place j is later than o, which would pass it.
UpCond(g, o, j) == j > 1 /\ g.time[o] < At(g, j \div 2)

LEMMA UpPathIs ==
    ASSUME NEW g \in Heaps, NEW o
    PROVE  \A j \in 1 .. Len(g.heap) :
             UpPath(g, o)[j] = IF UpCond(g, o, j) THEN {j} \cup UpPath(g, o)[j \div 2] ELSE {j}
<1> DEFINE n == Len(g.heap)
           step == [j \in 1 .. n |-> IF UpCond(g, o, j) THEN j \div 2 ELSE 0]
           Is(path) == path = [j \in 1 .. n |->
                                 IF j > 1 /\ g.time[o] < g.time[g.heap[j \div 2]]
                                 THEN {j} \cup path[j \div 2] ELSE {j}]
<1>1. n \in Nat
  BY HeapTypes
<1> HIDE DEF n
<1>2. \A j \in 1 .. n : UpCond(g, o, j) => j \div 2 \in 1 .. n
  BY <1>1 DEF UpCond
<1>3. step \in [1 .. n -> 0 .. n]
  BY <1>1, <1>2
<1>4. \A j \in 1 .. n : step[j] # 0 <=> UpCond(g, o, j)
  BY <1>2
<1>5. \A j \in 1 .. n : UpCond(g, o, j) => step[j] = j \div 2
  OBVIOUS
<1> HIDE DEF step
<1>6. PICK path : path = [j \in 1 .. n |->
                            IF step[j] # 0 THEN {j} \cup path[step[j]] ELSE {j}]
  BY <1>1, <1>3, PathExists
<1>7. \A j \in 1 .. n :
         (IF step[j] # 0 THEN {j} \cup path[step[j]] ELSE {j})
           = IF UpCond(g, o, j) THEN {j} \cup path[j \div 2] ELSE {j}
  BY <1>4, <1>5
<1>8. path = [j \in 1 .. n |-> IF UpCond(g, o, j) THEN {j} \cup path[j \div 2] ELSE {j}]
  BY <1>6, <1>7
<1>9. Is(path)
  BY <1>8 DEF UpCond, At
<1>10. UpPath(g, o) = CHOOSE p : Is(p)
  BY DEF UpPath, n
<1>11. Is(UpPath(g, o))
  BY <1>9, <1>10
<1>12. UpPath(g, o) = [j \in 1 .. n |->
          IF UpCond(g, o, j) THEN {j} \cup UpPath(g, o)[j \div 2] ELSE {j}]
  BY <1>11 DEF UpCond, At
<1> QED BY <1>12 DEF n

\* The path from k up to its top: from every place but the top o moves on, and
\* every place but k is the father of one place of the path.
UpShape(g, o, k, P, top) ==
    /\ P \in SUBSET (1 .. k) /\ k \in P /\ top \in P
    /\ \A i \in P : top <= i
    /\ ~UpCond(g, o, top)
    /\ \A i \in P \ {top} : UpCond(g, o, i) /\ i \div 2 \in P
    /\ \A i \in P \ {k} : \E c \in P \ {top} : c \div 2 = i
    /\ \A i, j \in P \ {top} : i \div 2 = j \div 2 => i = j

LEMMA UpPathShape ==
    ASSUME NEW g \in Heaps, NEW o, NEW k \in 1 .. Len(g.heap)
    PROVE  \E top : UpShape(g, o, k, UpPath(g, o)[k], top)
<1> DEFINE n == Len(g.heap)
           path == UpPath(g, o)
           Shaped(j) == \E top : UpShape(g, o, j, path[j], top)
           Odd == {j \in 1 .. n : ~Shaped(j)}
<1>1. n \in Nat
  BY HeapTypes
<1>2. \A j \in 1 .. n : path[j] = IF UpCond(g, o, j) THEN {j} \cup path[j \div 2] ELSE {j}
  BY UpPathIs
<1> HIDE DEF n, path
<1>3. ASSUME NEW j \in 1 .. n, ~UpCond(g, o, j)
      PROVE  Shaped(j)
  <2>1. path[j] = {j}
    BY <1>2, <1>3
  <2>2. UpShape(g, o, j, {j}, j)
    BY <1>3 DEF UpShape
  <2> QED BY <2>1, <2>2
<1>4. ASSUME NEW j \in 1 .. n, UpCond(g, o, j), Shaped(j \div 2)
      PROVE  Shaped(j)
  <2> DEFINE Q == path[j \div 2]
             P == path[j]
  <2>1. PICK top : UpShape(g, o, j \div 2, Q, top)
    BY <1>4
  <2>2. P = {j} \cup Q
    BY <1>2, <1>4
  <2>3. j \div 2 \in 1 .. n /\ j \div 2 < j /\ j > 1
    BY <1>1, <1>4 DEF UpCond
  <2> HIDE DEF P, Q
  <2>4. /\ Q \in SUBSET (1 .. j \div 2) /\ j \div 2 \in Q /\ top \in Q
        /\ \A i \in Q : top <= i
        /\ ~UpCond(g, o, top)
        /\ \A i \in Q \ {top} : UpCond(g, o, i) /\ i \div 2 \in Q
        /\ \A i \in Q \ {j \div 2} : \E c \in Q \ {top} : c \div 2 = i
        /\ \A i, m \in Q \ {top} : i \div 2 = m \div 2 => i = m
    BY <2>1 DEF UpShape
  <2>5. ASSUME NEW i \in Q
        PROVE  i \in 1 .. n /\ i < j /\ i <= j \div 2
    <3>1. i \in 1 .. j \div 2
      BY <2>4
    <3> QED BY <1>1, <2>3, <3>1
  <2>6. j \notin Q /\ j # top
    BY <2>4, <2>5
  <2>7. P \in SUBSET (1 .. j)
    BY <2>2, <2>5
  <2>8. top <= j
    BY <2>4, <2>5
  <2>9. \A i \in Q \ {top} : i \div 2 # j \div 2
    <3>1. \A i \in Q : i \div 2 < i
      BY <2>5
    <3> QED BY <2>3, <2>5, <3>1
  <2>10. \A i \in P \ {j} : \E c \in P \ {top} : c \div 2 = i
    BY <2>2, <2>4, <2>6
  <2>11. \A i, m \in P \ {top} : i \div 2 = m \div 2 => i = m
    BY <2>2, <2>4, <2>9
  <2>12. \A i \in P \ {top} : UpCond(g, o, i) /\ i \div 2 \in P
    BY <1>4, <2>2, <2>4
  <2>13. UpShape(g, o, j, P, top)
    BY <2>2, <2>4, <2>7, <2>8, <2>10, <2>11, <2>12 DEF UpShape
  <2> QED BY <2>13 DEF P
<1>5. CASE Odd # {}
  <2>1. PICK j \in Odd : \A i \in Odd : j <= i
    <3>1. Odd \in SUBSET Nat
      BY <1>1
    <3> QED BY <1>5, <3>1, LeastIn
  <2>2. j \in 1 .. n /\ ~Shaped(j)
    BY <2>1
  <2>3. UpCond(g, o, j)
    BY <1>3, <2>2
  <2>4. j \div 2 \in 1 .. n /\ j \div 2 < j
    BY <1>1, <2>2, <2>3 DEF UpCond
  <2> HIDE DEF Shaped
  <2>5. Shaped(j \div 2)
    <3>1. ASSUME j \div 2 \in Odd
          PROVE  FALSE
      <4>1. j <= j \div 2
        BY <2>1, <3>1
      <4> QED BY <1>1, <2>2, <2>4, <4>1
    <3> QED BY <2>4, <3>1
  <2> QED BY <1>4, <2>2, <2>3, <2>5
<1>6. CASE Odd = {}
  BY <1>6 DEF n, path
<1> QED BY <1>5, <1>6

\* UpTree turns the objects on its path.
UpMove(P, top, k, n) ==
    [j \in 1 .. n |-> IF j = top THEN k ELSE IF j \in P THEN j \div 2 ELSE j]

LEMMA UpTreeTurns ==
    ASSUME NEW g \in Heaps, NEW k \in 1 .. Len(g.heap), NEW top,
           UpShape(g, g.heap[k], k, UpPath(g, g.heap[k])[k], top)
    PROVE  LET P == UpPath(g, g.heap[k])[k]
               s == UpMove(P, top, k, Len(g.heap))
           IN  Turn(g, P, s) /\ UpTree(g, k) = Turned(g, P, s)
<1> DEFINE n == Len(g.heap)
           o == g.heap[k]
           P == UpPath(g, o)[k]
           s == UpMove(P, top, k, n)
           low == CHOOSE j \in P : \A i \in P : j <= i
<1>1. n \in Nat /\ DOMAIN g.heap = 1 .. n /\ k \in 1 .. n
  BY HeapTypes
<1>2. UpTree(g, k) = Placed(g, [j \in DOMAIN g.heap |->
                      IF j = low THEN o
                      ELSE IF j \in P THEN g.heap[j \div 2] ELSE g.heap[j]], P)
  BY DEF UpTree
<1>3. UpShape(g, o, k, P, top)
  OBVIOUS
<1> HIDE DEF n, P
<1>4. /\ P \in SUBSET (1 .. k) /\ k \in P /\ top \in P
      /\ \A i \in P : top <= i
      /\ \A i \in P \ {top} : UpCond(g, o, i) /\ i \div 2 \in P
      /\ \A i \in P \ {k} : \E c \in P \ {top} : c \div 2 = i
      /\ \A i, j \in P \ {top} : i \div 2 = j \div 2 => i = j
  BY <1>3 DEF UpShape
<1>5. \A i \in P : i \in 1 .. n /\ i <= k
  <2>1. \A i \in P : i \in 1 .. k
    BY <1>4
  <2> QED BY <1>1, <2>1
<1>6. low = top
  <2>1. \A j \in P : (\A i \in P : j <= i) => j = top
    BY <1>4, <1>5
  <2> QED BY <1>4, <2>1
<1>7. \A j \in P \ {top} : j \div 2 \in P /\ j \div 2 # k
  BY <1>1, <1>4, <1>5
<1>8. s = [j \in 1 .. n |-> IF j = top THEN k ELSE IF j \in P THEN j \div 2 ELSE j]
  BY DEF UpMove
<1> HIDE DEF s, low, o
<1>9. s \in [1 .. n -> 1 .. n]
  BY <1>5, <1>7, <1>8, <1>1
<1>10. s[top] = k /\ \A j \in P \ {top} : s[j] = j \div 2
  BY <1>4, <1>5, <1>8
<1>11. \A j \in (1 .. n) \ P : s[j] = j
  BY <1>4, <1>8
<1>12. \A j \in P : s[j] \in P
  BY <1>4, <1>7, <1>10
<1>13. ASSUME NEW i \in P, NEW j \in P, s[i] = s[j]
       PROVE  i = j
  <2>1. CASE i = top
    BY <1>7, <1>10, <1>13, <2>1
  <2>2. CASE j = top
    BY <1>7, <1>10, <1>13, <2>2
  <2>3. CASE i # top /\ j # top
    BY <1>4, <1>10, <1>13, <2>3
  <2> QED BY <2>1, <2>2, <2>3
<1>14. \A j \in P : \E i \in P : s[i] = j
  BY <1>4, <1>10
<1>15. P \in SUBSET (1 .. n)
  BY <1>5
<1>16. Turn(g, P, s)
  BY <1>1, <1>9, <1>11, <1>12, <1>13, <1>14, <1>15 DEF Turn
<1>17. ASSUME NEW j \in 1 .. n
       PROVE  (IF j = low THEN o ELSE IF j \in P THEN g.heap[j \div 2] ELSE g.heap[j])
                = g.heap[s[j]]
  <2>1. CASE j = top
    BY <1>6, <1>10, <2>1 DEF o
  <2>2. CASE j \in P \ {top}
    BY <1>6, <1>10, <2>2
  <2>3. CASE j \notin P
    BY <1>4, <1>6, <1>11, <2>3
  <2> QED BY <2>1, <2>2, <2>3
<1>18. UpTree(g, k) = Turned(g, P, s)
  BY <1>1, <1>2, <1>17 DEF Turned
<1> QED BY <1>16, <1>18 DEF P, s, n, o

\* The heap is in order but for the object at k, which may be earlier than its
\* father, but not its sons than him.
UpAt(g, k) ==
    /\ \A j \in DOMAIN g.heap : j > 1 /\ j # k => At(g, j \div 2) <= At(g, j)
    /\ \A j \in DOMAIN g.heap : j > 1 /\ k > 1 /\ j \div 2 = k => At(g, k \div 2) <= At(g, j)

LEMMA UpTreeOrders ==
    ASSUME NEW g \in Heaps, Indexed(g), NEW k \in 1 .. Len(g.heap), UpAt(g, k),
           NEW f, f = UpTree(g, k)
    PROVE  /\ f \in Heaps /\ Indexed(f) /\ Ordered(f)
           /\ Len(f.heap) = Len(g.heap) /\ f.time = g.time
           /\ \A o \in Objs : f.index[o] > 0 <=> g.index[o] > 0
<1> DEFINE n == Len(g.heap)
           o == g.heap[k]
           P == UpPath(g, o)[k]
<1>1. PICK top : UpShape(g, o, k, P, top)
  BY UpPathShape
<1> DEFINE s == UpMove(P, top, k, n)
<1>2. Turn(g, P, s) /\ f = Turned(g, P, s)
  BY <1>1, UpTreeTurns
<1>3. /\ f \in Heaps /\ Indexed(f)
      /\ Len(f.heap) = Len(g.heap) /\ f.time = g.time
      /\ \A j \in DOMAIN g.heap : f.heap[j] = g.heap[s[j]]
      /\ \A x \in Objs : f.index[x] > 0 <=> g.index[x] > 0
  <2> HIDE DEF P, s, o
  <2> QED BY <1>2, TurnKeeps
<1>4. /\ n \in Nat /\ DOMAIN g.heap = 1 .. n /\ k \in 1 .. n
      /\ DOMAIN f.heap = 1 .. n /\ \A j \in 1 .. n : At(g, j) \in Int
  BY <1>3, HeapTypes DEF At
<1> HIDE DEF n, P
<1>5. /\ P \in SUBSET (1 .. k) /\ k \in P /\ top \in P
      /\ \A i \in P : top <= i
      /\ ~UpCond(g, o, top)
      /\ \A i \in P \ {top} : UpCond(g, o, i) /\ i \div 2 \in P
      /\ \A i \in P \ {k} : \E c \in P \ {top} : c \div 2 = i
  BY <1>1 DEF UpShape
<1>6. \A i \in P : i \in 1 .. n /\ i <= k
  <2>1. \A i \in P : i \in 1 .. k
    BY <1>5
  <2> QED BY <1>4, <2>1
<1>7. g.time[o] = At(g, k)
  BY DEF At
<1>8. /\ At(f, top) = At(g, k)
      /\ \A j \in P \ {top} : At(f, j) = At(g, j \div 2)
      /\ \A j \in (1 .. n) \ P : At(f, j) = At(g, j)
  <2>1. \A j \in 1 .. n : At(f, j) = At(g, s[j])
    BY <1>3, <1>4 DEF At
  <2>2. s[top] = k /\ (\A j \in P \ {top} : s[j] = j \div 2) /\ \A j \in (1 .. n) \ P : s[j] = j
    BY <1>5, <1>6 DEF UpMove
  <2> HIDE DEF s
  <2> QED BY <1>5, <1>6, <2>1, <2>2
<1> HIDE DEF o, s
<1>9. /\ \A j \in 1 .. n : j > 1 /\ j # k => At(g, j \div 2) <= At(g, j)
      /\ \A j \in 1 .. n : j > 1 /\ k > 1 /\ j \div 2 = k => At(g, k \div 2) <= At(g, j)
  BY <1>4 DEF UpAt
<1>10. \A j \in P : UpCond(g, o, j) <=> j > 1 /\ At(g, k) < At(g, j \div 2)
  BY <1>7 DEF UpCond
<1>11. ASSUME NEW i \in 1 .. n, i > 1
       PROVE  At(f, i \div 2) <= At(f, i)
  <2> DEFINE d == i \div 2
  <2>1. d \in 1 .. n /\ d < i
    BY <1>4, <1>11
  <2>2. CASE i = top
    <3>1. d \notin P
      BY <1>4, <1>5, <1>6, <2>1, <2>2
    <3>2. At(f, d) = At(g, d) /\ At(f, i) = At(g, k)
      BY <1>8, <2>1, <2>2, <3>1
    <3>3. ~(At(g, k) < At(g, d))
      BY <1>5, <1>10, <1>11, <2>2
    <3> QED BY <1>4, <2>1, <3>2, <3>3
  <2>3. CASE i \in P \ {top}
    <3>1. d \in P /\ At(g, k) < At(g, d) /\ At(f, i) = At(g, d)
      BY <1>5, <1>8, <1>10, <2>3
    <3>2. CASE d = top
      BY <1>4, <1>8, <2>1, <3>1, <3>2
    <3>3. CASE d # top
      <4>1. d > 1
        BY <1>5, <1>10, <3>1, <3>3
      <4>2. d # k
        BY <1>4, <1>6, <2>1, <2>3
      <4>3. At(g, d \div 2) <= At(g, d)
        BY <1>9, <2>1, <4>1, <4>2
      <4> QED BY <1>8, <3>1, <3>3, <4>3
    <3> QED BY <3>2, <3>3
  <2>4. CASE i \notin P /\ d = top
    <3>1. At(f, i) = At(g, i) /\ At(f, d) = At(g, k) /\ At(g, d) <= At(g, i)
      BY <1>5, <1>8, <1>9, <1>11, <2>4
    <3>2. CASE d = k
      BY <3>1, <3>2
    <3>3. CASE d # k
      <4>1. PICK c \in P \ {top} : c \div 2 = d
        BY <1>5, <2>4, <3>3
      <4>2. At(g, k) < At(g, d)
        BY <1>5, <1>10, <4>1
      <4> QED BY <1>4, <2>1, <3>1, <4>2
    <3> QED BY <3>2, <3>3
  <2>5. CASE i \notin P /\ d \in P \ {top}
    <3>1. At(f, i) = At(g, i) /\ At(f, d) = At(g, d \div 2) /\ d > 1
      BY <1>5, <1>8, <1>10, <2>5
    <3>2. CASE d = k
      BY <1>9, <1>11, <3>1, <3>2
    <3>3. CASE d # k
      <4>1. At(g, d \div 2) <= At(g, d) /\ At(g, d) <= At(g, i)
        BY <1>5, <1>9, <1>11, <2>1, <2>5, <3>1, <3>3
      <4>2. d \div 2 \in 1 .. n
        BY <1>4, <2>1, <3>1
      <4> QED BY <1>4, <2>1, <3>1, <4>1, <4>2
    <3> QED BY <3>2, <3>3
  <2>6. CASE i \notin P /\ d \notin P
    BY <1>5, <1>8, <1>9, <1>11, <2>1, <2>6
  <2> QED BY <2>2, <2>3, <2>4, <2>5, <2>6, <1>5
<1>12. Ordered(f)
  BY <1>4, <1>11 DEF Ordered
<1> QED BY <1>3, <1>12

--------------------------------------------------------------------------------
\* o is later than the earlier son of place j, who would pass it.
DownCond(g, o, j) == 2 * j <= Len(g.heap) /\ g.time[o] > At(g, Son(g, j))

LEMMA SonIs ==
    ASSUME NEW g \in Heaps, NEW j \in 1 .. Len(g.heap), 2 * j <= Len(g.heap)
    PROVE  /\ Son(g, j) \in 1 .. Len(g.heap) /\ Son(g, j) > j /\ Son(g, j) \div 2 = j
           /\ \A i \in 1 .. Len(g.heap) : i > 1 /\ i \div 2 = j => At(g, Son(g, j)) <= At(g, i)
<1> DEFINE n == Len(g.heap)
<1>1. n \in Nat /\ \A i \in 1 .. n : At(g, i) \in Int
  BY HeapTypes DEF At
<1> HIDE DEF n
<1>2. 2 * j <= n /\ j \in 1 .. n
  BY DEF n
<1>3. Son(g, j) = IF 2 * j < n /\ At(g, 2 * j + 1) < At(g, 2 * j) THEN 2 * j + 1 ELSE 2 * j
  BY DEF Son, At, n
<1>4. ASSUME NEW i \in 1 .. n, i > 1, i \div 2 = j
      PROVE  At(g, Son(g, j)) <= At(g, i)
  <2>1. i = 2 * j \/ i = 2 * j + 1
    BY <1>1, <1>2, <1>4
  <2>2. 2 * j \in 1 .. n /\ (2 * j < n => 2 * j + 1 \in 1 .. n)
    BY <1>1, <1>2
  <2>3. i = 2 * j + 1 => 2 * j < n
    BY <1>1, <1>2
  <2>4. At(g, 2 * j) \in Int /\ At(g, i) \in Int /\ (2 * j < n => At(g, 2 * j + 1) \in Int)
    BY <1>1, <2>2
  <2> QED BY <1>3, <2>1, <2>3, <2>4
<1>5. Son(g, j) \in {2 * j, 2 * j + 1} /\ (Son(g, j) = 2 * j + 1 => 2 * j < n)
  BY <1>2, <1>3
<1>6. Son(g, j) \in 1 .. n /\ Son(g, j) > j /\ Son(g, j) \div 2 = j
  <2>1. /\ 2 * j \in 1 .. n /\ 2 * j > j /\ (2 * j) \div 2 = j
        /\ 2 * j < n => 2 * j + 1 \in 1 .. n
        /\ 2 * j + 1 > j /\ (2 * j + 1) \div 2 = j
    BY <1>1, <1>2
  <2>2. CASE Son(g, j) = 2 * j
    BY <2>1, <2>2
  <2>3. CASE Son(g, j) = 2 * j + 1
    BY <1>5, <2>1, <2>3
  <2> QED BY <1>5, <2>2, <2>3
<1> QED BY <1>4, <1>6 DEF n

LEMMA DownPathIs ==
    ASSUME NEW g \in Heaps, NEW o
    PROVE  \A j \in 1 .. Len(g.heap) :
             DownPath(g, o)[j] =
                IF DownCond(g, o, j) THEN {j} \cup DownPath(g, o)[Son(g, j)] ELSE {j}
<1> DEFINE n == Len(g.heap)
           step == [j \in 1 .. n |-> IF DownCond(g, o, j) THEN Son(g, j) ELSE 0]
           Is(path) == path = [j \in 1 .. n |->
                                 IF 2 * j <= Len(g.heap) /\ g.time[o] > g.time[g.heap[Son(g, j)]]
                                 THEN {j} \cup path[Son(g, j)] ELSE {j}]
<1>1. n \in Nat
  BY HeapTypes
<1>2. \A j \in 1 .. n : DownCond(g, o, j) => Son(g, j) \in 1 .. n
  BY SonIs DEF DownCond
<1>10. DownPath(g, o) = CHOOSE p : Is(p)
  BY DEF DownPath
<1>3. step \in [1 .. n -> 0 .. n]
  BY <1>1, <1>2
<1>4. \A j \in 1 .. n : step[j] # 0 <=> DownCond(g, o, j)
  BY <1>1, <1>2
<1>5. \A j \in 1 .. n : DownCond(g, o, j) => step[j] = Son(g, j)
  OBVIOUS
<1> HIDE DEF step
<1>6. PICK path : path = [j \in 1 .. n |->
                            IF step[j] # 0 THEN {j} \cup path[step[j]] ELSE {j}]
  BY <1>1, <1>3, PathExists
<1>7. \A j \in 1 .. n :
         (IF step[j] # 0 THEN {j} \cup path[step[j]] ELSE {j})
           = IF DownCond(g, o, j) THEN {j} \cup path[Son(g, j)] ELSE {j}
  BY <1>4, <1>5
<1>8. path = [j \in 1 .. n |-> IF DownCond(g, o, j) THEN {j} \cup path[Son(g, j)] ELSE {j}]
  BY <1>6, <1>7
<1>9. Is(path)
  BY <1>8 DEF DownCond, At
<1>11. Is(DownPath(g, o))
  BY <1>9, <1>10
<1>12. DownPath(g, o) = [j \in 1 .. n |->
          IF DownCond(g, o, j) THEN {j} \cup DownPath(g, o)[Son(g, j)] ELSE {j}]
  BY <1>11 DEF DownCond, At
<1> QED BY <1>12

\* The path from k down to its end: from every place but the end o moves on to
\* the earlier son, and so comes to every place but k from its father.
DownShape(g, o, k, P, end) ==
    /\ P \in SUBSET (k .. Len(g.heap)) /\ k \in P /\ end \in P
    /\ \A i \in P : end >= i
    /\ ~DownCond(g, o, end)
    /\ \A i \in P \ {end} : DownCond(g, o, i) /\ Son(g, i) \in P
    /\ \A i \in P \ {k} : i \div 2 \in P \ {end} /\ Son(g, i \div 2) = i

LEMMA DownPathShape ==
    ASSUME NEW g \in Heaps, NEW o, NEW k \in 1 .. Len(g.heap)
    PROVE  \E end : DownShape(g, o, k, DownPath(g, o)[k], end)
<1> DEFINE n == Len(g.heap)
           path == DownPath(g, o)
           Shaped(j) == \E end : DownShape(g, o, j, path[j], end)
           Odd == {j \in 1 .. n : ~Shaped(j)}
<1>1. n \in Nat
  BY HeapTypes
<1>2. \A j \in 1 .. n : path[j] = IF DownCond(g, o, j) THEN {j} \cup path[Son(g, j)] ELSE {j}
  BY DownPathIs
<1>3. \A j \in 1 .. n : DownCond(g, o, j) =>
         Son(g, j) \in 1 .. n /\ Son(g, j) > j /\ Son(g, j) \div 2 = j
  BY SonIs DEF DownCond
<1> HIDE DEF path
<1>4. ASSUME NEW j \in 1 .. n, ~DownCond(g, o, j)
      PROVE  Shaped(j)
  <2>1. path[j] = {j}
    BY <1>2, <1>4
  <2>2. j \in j .. n
    BY <1>1
  <2>3. DownShape(g, o, j, {j}, j)
    BY <1>1, <1>4, <2>2 DEF DownShape
  <2> QED BY <2>1, <2>3
<1>5. ASSUME NEW j \in 1 .. n, DownCond(g, o, j), Shaped(Son(g, j))
      PROVE  Shaped(j)
  <2> DEFINE b == Son(g, j)
             Q == path[b]
             P == path[j]
  <2>1. PICK end : DownShape(g, o, b, Q, end)
    BY <1>5
  <2>2. P = {j} \cup Q
    BY <1>2, <1>5
  <2>3. b \in 1 .. n /\ b > j /\ b \div 2 = j
    BY <1>3, <1>5
  <2> HIDE DEF P, Q, b
  <2>4. /\ Q \in SUBSET (b .. n) /\ b \in Q /\ end \in Q
        /\ \A i \in Q : end >= i
        /\ ~DownCond(g, o, end)
        /\ \A i \in Q \ {end} : DownCond(g, o, i) /\ Son(g, i) \in Q
        /\ \A i \in Q \ {b} : i \div 2 \in Q \ {end} /\ Son(g, i \div 2) = i
    BY <2>1 DEF DownShape
  <2>5. ASSUME NEW i \in Q
        PROVE  i \in 1 .. n /\ i > j
    <3>1. i \in b .. n
      BY <2>4
    <3> QED BY <1>1, <2>3, <3>1
  <2>6. j \notin Q /\ j # end
    BY <2>4, <2>5
  <2>7. P \in SUBSET (j .. n)
    <3>1. \A i \in Q : i \in j .. n
      BY <2>5
    <3>2. j \in j .. n
      BY <1>1
    <3> QED BY <2>2, <3>1, <3>2
  <2>8. end >= j
    BY <2>4, <2>5
  <2>9. \A i \in P \ {end} : DownCond(g, o, i) /\ Son(g, i) \in P
    BY <1>5, <2>2, <2>4 DEF b
  <2>10. \A i \in P \ {j} : i \div 2 \in P \ {end} /\ Son(g, i \div 2) = i
    BY <2>2, <2>3, <2>4, <2>6 DEF b
  <2>13. DownShape(g, o, j, P, end)
    BY <2>2, <2>4, <2>7, <2>8, <2>9, <2>10 DEF DownShape
  <2> QED BY <2>13 DEF P
<1>6. CASE Odd # {}
  <2>1. PICK j \in Odd : \A i \in Odd : i <= j
    <3>1. Odd \in SUBSET (1 .. n)
      OBVIOUS
    <3> HIDE DEF Odd, n
    <3> QED BY <1>1, <1>6, <3>1, GreatestIn
  <2>2. j \in 1 .. n /\ ~Shaped(j)
    BY <2>1
  <2>3. DownCond(g, o, j)
    BY <1>4, <2>2
  <2>4. Son(g, j) \in 1 .. n /\ Son(g, j) > j
    BY <1>3, <2>2, <2>3
  <2> HIDE DEF Shaped
  <2>5. Shaped(Son(g, j))
    <3>1. ASSUME Son(g, j) \in Odd
          PROVE  FALSE
      <4>1. Son(g, j) <= j
        BY <2>1, <3>1
      <4> QED BY <1>1, <2>2, <2>4, <4>1
    <3> QED BY <2>4, <3>1
  <2> QED BY <1>5, <2>2, <2>3, <2>5
<1>7. CASE Odd = {}
  BY <1>7 DEF path
<1> QED BY <1>6, <1>7

\* DownTree turns the objects on its path.
DownMove(g, P, end, k) ==
    [j \in 1 .. Len(g.heap) |-> IF j = end THEN k ELSE IF j \in P THEN Son(g, j) ELSE j]

LEMMA DownTreeTurns ==
    ASSUME NEW g \in Heaps, NEW k \in 1 .. Len(g.heap), NEW end,
           DownShape(g, g.heap[k], k, DownPath(g, g.heap[k])[k], end)
    PROVE  LET P == DownPath(g, g.heap[k])[k]
               s == DownMove(g, P, end, k)
           IN  Turn(g, P, s) /\ DownTree(g, k) = Turned(g, P, s)
<1> DEFINE n == Len(g.heap)
           o == g.heap[k]
           P == DownPath(g, o)[k]
           s == DownMove(g, P, end, k)
           last == CHOOSE j \in P : \A i \in P : j >= i
<1>1. n \in Nat /\ DOMAIN g.heap = 1 .. n /\ k \in 1 .. n
  BY HeapTypes
<1>2. DownTree(g, k) = Placed(g, [j \in DOMAIN g.heap |->
                      IF j = last THEN o
                      ELSE IF j \in P THEN g.heap[Son(g, j)] ELSE g.heap[j]], P)
  BY DEF DownTree
<1>3. DownShape(g, o, k, P, end)
  OBVIOUS
<1> HIDE DEF P
<1>4. /\ P \in SUBSET (k .. n) /\ k \in P /\ end \in P
      /\ \A i \in P : end >= i
      /\ \A i \in P \ {end} : DownCond(g, o, i) /\ Son(g, i) \in P
      /\ \A i \in P \ {k} : i \div 2 \in P \ {end} /\ Son(g, i \div 2) = i
  BY <1>3 DEF DownShape
<1>5. \A i \in P : i \in 1 .. n /\ i >= k
  <2>1. \A i \in P : i \in k .. n
    BY <1>4
  <2> QED BY <1>1, <2>1
<1>6. last = end
  <2>1. \A j \in P : (\A i \in P : j >= i) => j = end
    BY <1>4, <1>5
  <2> QED BY <1>4, <2>1
<1>7. \A j \in P \ {end} : Son(g, j) \in P /\ Son(g, j) \div 2 = j /\ Son(g, j) # k
  <2>1. \A j \in P \ {end} : Son(g, j) > j /\ Son(g, j) \div 2 = j
    BY <1>4, <1>5, SonIs DEF DownCond
  <2> QED BY <1>1, <1>4, <1>5, <2>1
<1>8. s = [j \in 1 .. n |-> IF j = end THEN k ELSE IF j \in P THEN Son(g, j) ELSE j]
  BY DEF DownMove
<1> HIDE DEF s, last, o, n
<1>9. s \in [1 .. n -> 1 .. n]
  BY <1>5, <1>7, <1>8, <1>1
<1>10. s[end] = k /\ \A j \in P \ {end} : s[j] = Son(g, j)
  BY <1>4, <1>5, <1>8
<1>11. \A j \in (1 .. n) \ P : s[j] = j
  BY <1>4, <1>8
<1>12. \A j \in P : s[j] \in P
  BY <1>4, <1>7, <1>10
<1>13. ASSUME NEW i \in P, NEW j \in P, s[i] = s[j]
       PROVE  i = j
  <2>1. CASE i = end
    BY <1>7, <1>10, <1>13, <2>1
  <2>2. CASE j = end
    BY <1>7, <1>10, <1>13, <2>2
  <2>3. CASE i # end /\ j # end
    BY <1>7, <1>10, <1>13, <2>3
  <2> QED BY <2>1, <2>2, <2>3
<1>14. \A j \in P : \E i \in P : s[i] = j
  BY <1>4, <1>10
<1>15. P \in SUBSET (1 .. n)
  BY <1>5
<1>16. Turn(g, P, s)
  BY <1>1, <1>9, <1>11, <1>12, <1>13, <1>14, <1>15 DEF Turn
<1>17. ASSUME NEW j \in 1 .. n
       PROVE  (IF j = last THEN o ELSE IF j \in P THEN g.heap[Son(g, j)] ELSE g.heap[j])
                = g.heap[s[j]]
  <2>1. CASE j = end
    BY <1>6, <1>10, <2>1 DEF o
  <2>2. CASE j \in P \ {end}
    BY <1>6, <1>10, <2>2
  <2>3. CASE j \notin P
    BY <1>4, <1>6, <1>11, <2>3
  <2> QED BY <2>1, <2>2, <2>3
<1>18. DownTree(g, k) = Turned(g, P, s)
  BY <1>1, <1>2, <1>17 DEF Turned
<1> QED BY <1>16, <1>18 DEF P, s, o

\* The heap is in order but for the object at k, which stands between a father
\* and sons that are in order.
DownAt(g, k) ==
    /\ \A j \in DOMAIN g.heap :
          j > 1 /\ j # k /\ j \div 2 # k => At(g, j \div 2) <= At(g, j)
    /\ \A j \in DOMAIN g.heap : j > 1 /\ k > 1 /\ j \div 2 = k => At(g, k \div 2) <= At(g, j)

LEMMA DownTreeOrders ==
    ASSUME NEW g \in Heaps, Indexed(g), NEW k \in 1 .. Len(g.heap), DownAt(g, k),
           NEW f, f = DownTree(g, k)
    PROVE  /\ f \in Heaps /\ Indexed(f) /\ UpAt(f, k)
           /\ Len(f.heap) = Len(g.heap) /\ f.time = g.time
           /\ \A o \in Objs : f.index[o] > 0 <=> g.index[o] > 0
<1> DEFINE n == Len(g.heap)
           o == g.heap[k]
           P == DownPath(g, o)[k]
<1>1. PICK end : DownShape(g, o, k, P, end)
  BY DownPathShape
<1> DEFINE s == DownMove(g, P, end, k)
<1>2. Turn(g, P, s) /\ f = Turned(g, P, s)
  BY <1>1, DownTreeTurns
<1>3. /\ f \in Heaps /\ Indexed(f)
      /\ Len(f.heap) = Len(g.heap) /\ f.time = g.time
      /\ \A j \in DOMAIN g.heap : f.heap[j] = g.heap[s[j]]
      /\ \A x \in Objs : f.index[x] > 0 <=> g.index[x] > 0
  <2> HIDE DEF P, s, o
  <2> QED BY <1>2, TurnKeeps
<1>4. /\ n \in Nat /\ DOMAIN g.heap = 1 .. n /\ k \in 1 .. n
      /\ DOMAIN f.heap = 1 .. n /\ \A j \in 1 .. n : At(g, j) \in Int
  BY <1>3, HeapTypes DEF At
<1> HIDE DEF P
<1>5. /\ P \in SUBSET (k .. n) /\ k \in P /\ end \in P
      /\ \A i \in P : end >= i
      /\ ~DownCond(g, o, end)
      /\ \A i \in P \ {end} : DownCond(g, o, i) /\ Son(g, i) \in P
      /\ \A i \in P \ {k} : i \div 2 \in P \ {end} /\ Son(g, i \div 2) = i
  BY <1>1 DEF DownShape
<1>6. \A i \in P : i \in 1 .. n /\ i >= k
  <2>1. \A i \in P : i \in k .. n
    BY <1>5
  <2> QED BY <1>4, <2>1
<1>7. g.time[o] = At(g, k)
  BY DEF At
<1>13. \A j \in 1 .. n : 2 * j <= n =>
         /\ Son(g, j) \in 1 .. n /\ Son(g, j) > j /\ Son(g, j) \div 2 = j
         /\ \A i \in 1 .. n : i > 1 /\ i \div 2 = j => At(g, Son(g, j)) <= At(g, i)
  BY SonIs
<1>10. \A j \in P : DownCond(g, o, j) <=> 2 * j <= n /\ At(g, k) > At(g, Son(g, j))
  BY <1>7 DEF DownCond
<1>8. /\ At(f, end) = At(g, k)
      /\ \A j \in P \ {end} : At(f, j) = At(g, Son(g, j))
      /\ \A j \in (1 .. n) \ P : At(f, j) = At(g, j)
  <2>1. \A j \in 1 .. n : At(f, j) = At(g, s[j])
    BY <1>3, <1>4 DEF At
  <2>2. /\ s[end] = k /\ (\A j \in P \ {end} : s[j] = Son(g, j))
        /\ \A j \in (1 .. n) \ P : s[j] = j
    BY <1>5, <1>6 DEF DownMove
  <2> HIDE DEF s
  <2> QED BY <1>5, <1>6, <2>1, <2>2
<1> HIDE DEF o, s, n
<1>9. /\ \A j \in 1 .. n : j > 1 /\ j # k /\ j \div 2 # k => At(g, j \div 2) <= At(g, j)
      /\ \A j \in 1 .. n : j > 1 /\ k > 1 /\ j \div 2 = k => At(g, k \div 2) <= At(g, j)
  BY <1>4 DEF DownAt
\* A place of the path below k gets the object that moved, or one not earlier.
<1>14. ASSUME NEW i \in P \ {k}
       PROVE  At(f, i) = At(g, k) \/ (At(g, i) <= At(f, i) /\ i # end)
  <2>1. CASE i = end
    BY <1>8, <2>1
  <2>2. CASE i # end
    <3>1. At(f, i) = At(g, Son(g, i)) /\ 2 * i <= n /\ i \in 1 .. n /\ i > 1
      BY <1>4, <1>5, <1>6, <1>8, <1>10, <1>14, <2>2
    <3>2. Son(g, i) \in 1 .. n /\ Son(g, i) > i /\ Son(g, i) \div 2 = i
      BY <1>13, <3>1
    <3>3. Son(g, i) # k /\ Son(g, i) > 1
      BY <1>4, <1>6, <1>14, <3>1, <3>2
    <3>4. At(g, i) <= At(g, Son(g, i))
      BY <1>9, <1>14, <3>2, <3>3
    <3> QED BY <2>2, <3>1, <3>4
  <2> QED BY <2>1, <2>2
<1>11. ASSUME NEW i \in 1 .. n, i > 1, i # k
       PROVE  At(f, i \div 2) <= At(f, i)
  <2> DEFINE d == i \div 2
  <2>1. d \in 1 .. n /\ d < i /\ 2 * d <= n
    <3>1. i \in Int /\ n \in Nat /\ i <= n /\ i >= 2
      BY <1>4, <1>11
    <3>2. 2 * d <= i /\ d >= 1 /\ d \in Int
      BY <3>1
    <3> QED BY <3>1, <3>2
  <2>2. CASE i \in P
    <3>1. d \in P \ {end} /\ Son(g, d) = i
      BY <1>5, <1>11, <2>2
    <3>2. At(f, d) = At(g, i) /\ At(g, k) > At(g, i)
      BY <1>5, <1>8, <1>10, <3>1
    <3>3. At(g, i) \in Int /\ At(g, k) \in Int
      BY <1>4
    <3> QED BY <1>11, <1>14, <2>2, <3>2, <3>3
  <2>3. CASE i \notin P /\ d = end
    <3>1. At(f, d) = At(g, k) /\ At(f, i) = At(g, i)
      BY <1>8, <2>3
    <3>2. ~(At(g, k) > At(g, Son(g, d)))
      BY <1>5, <1>10, <2>1, <2>3
    <3>3. At(g, Son(g, d)) <= At(g, i) /\ Son(g, d) \in 1 .. n
      BY <1>11, <1>13, <2>1
    <3>4. At(g, i) \in Int /\ At(g, k) \in Int /\ At(g, Son(g, d)) \in Int
      BY <1>4, <3>3
    <3> QED BY <3>1, <3>2, <3>3, <3>4
  <2>4. CASE i \notin P /\ d \in P \ {end}
    <3>1. At(f, d) = At(g, Son(g, d)) /\ At(f, i) = At(g, i)
      BY <1>8, <2>4
    <3>2. At(g, Son(g, d)) <= At(g, i)
      BY <1>11, <1>13, <2>1
    <3> QED BY <3>1, <3>2
  <2>5. CASE i \notin P /\ d \notin P
    <3>1. At(f, d) = At(g, d) /\ At(f, i) = At(g, i)
      BY <1>8, <2>1, <2>5
    <3>2. d # k
      BY <1>5, <2>5
    <3> QED BY <1>9, <1>11, <3>1, <3>2
  <2> QED BY <2>2, <2>3, <2>4, <2>5
<1>12. ASSUME NEW i \in 1 .. n, i > 1, k > 1, i \div 2 = k
       PROVE  At(f, k \div 2) <= At(f, i)
  <2> DEFINE d == k \div 2
  <2>1. d \in 1 .. n /\ d < k
    BY <1>4, <1>12
  <2>2. d \notin P
    BY <1>4, <1>6, <2>1
  <2>3. At(f, d) = At(g, d) /\ At(g, d) <= At(g, i)
    BY <1>8, <1>9, <1>12, <2>1, <2>2
  <2>4. At(g, d) \in Int /\ At(g, i) \in Int /\ At(g, k) \in Int
    BY <1>4, <2>1
  <2>5. i # k
    BY <1>4, <1>12
  <2>6. CASE i \notin P
    BY <1>8, <2>3, <2>6
  <2>7. CASE i \in P
    <3>1. At(g, k) > At(g, i)
      BY <1>5, <1>10, <1>12, <2>5, <2>7
    <3>2. CASE At(f, i) = At(g, k)
      BY <2>3, <2>4, <3>1, <3>2
    <3>3. CASE At(g, i) <= At(f, i) /\ i # end
      <4>1. Son(g, i) \in 1 .. n /\ At(f, i) = At(g, Son(g, i))
        BY <1>5, <1>6, <1>8, <2>7, <3>3
      <4>2. At(f, i) \in Int
        BY <1>4, <4>1
      <4> QED BY <2>3, <2>4, <3>3, <4>2
    <3> QED BY <1>14, <2>5, <2>7, <3>2, <3>3
  <2> QED BY <2>6, <2>7
<1>15. UpAt(f, k)
  BY <1>4, <1>11, <1>12 DEF UpAt
<1> QED BY <1>3, <1>15

--------------------------------------------------------------------------------
\* Of two heaps g and f: f is without o, and otherwise has the objects of g.
Without(g, o, f) ==
    /\ f.time = [g.time EXCEPT ![o] = 0]
    /\ \A x \in Objs : f.index[x] > 0 <=> g.index[x] > 0 /\ x # o

LEMMA LastMoved ==
    ASSUME NEW g \in Heaps, Consistent(g), NEW k \in 1 .. Len(g.heap) - 1,
           NEW f, f = LastTo(g, k)
    PROVE  /\ f \in Heaps /\ Indexed(f) /\ DownAt(f, k)
           /\ Len(f.heap) = Len(g.heap) - 1 /\ Without(g, g.heap[k], f)
<1> DEFINE n == Len(g.heap)
           o == g.heap[k]
           l == g.heap[n]
           full == [g.heap EXCEPT ![k] = l]
           heap == SubSeq(full, 1, n - 1)
           index == [g.index EXCEPT ![l] = k, ![o] = 0]
           time == [g.time EXCEPT ![o] = 0]
<1>1. /\ n \in Nat /\ DOMAIN g.heap = 1 .. n /\ g.heap \in Seq(Objs)
      /\ g.index \in [Objs -> Nat] /\ g.time \in [Objs -> Int]
      /\ \A j \in 1 .. n : g.heap[j] \in Objs /\ At(g, j) \in Int
  BY HeapTypes DEF At
<1> HIDE DEF n
<1>2. /\ k \in 1 .. n - 1 /\ k \in 1 .. n /\ n \in 1 .. n /\ k # n /\ n - 1 \in Nat
      /\ \A j \in 1 .. n - 1 : j \in 1 .. n /\ j # n
  <2>1. k \in 1 .. n - 1
    BY DEF n
  <2> QED BY <1>1, <2>1
<1>3. /\ \A j \in 1 .. n : g.index[g.heap[j]] = j
      /\ \A x \in Objs : g.index[x] > 0 => g.index[x] \in 1 .. n /\ g.heap[g.index[x]] = x
      /\ \A j \in 1 .. n : j > 1 => At(g, j \div 2) <= At(g, j)
  BY <1>1, ConsistentIs DEF Indexed, Ordered
<1>4. f = [heap |-> heap, index |-> index, time |-> time]
  BY DEF LastTo, n
<1>21. heap = SubSeq(full, 1, n - 1) /\ time = [g.time EXCEPT ![o] = 0]
  OBVIOUS
<1>22. ASSUME g.index \in [Objs -> Nat], l \in Objs, o \in Objs, k \in Nat
       PROVE  /\ index \in [Objs -> Nat]
              /\ \A x \in Objs : index[x] = IF x = o THEN 0 ELSE IF x = l THEN k ELSE g.index[x]
  BY <1>22
<1> HIDE DEF heap, index, time
<1>20. full = [g.heap EXCEPT ![k] = l] /\ l = g.heap[n] /\ o = g.heap[k]
  OBVIOUS
<1> HIDE DEF full, l, o
<1>5. f.heap = heap /\ f.index = index /\ f.time = time
  BY <1>4
<1>6. l \in Objs /\ o \in Objs /\ l # o
  BY <1>1, <1>2, <1>3, <1>20, SMTT(30)
<1>7. full \in Seq(Objs) /\ Len(full) = n
  BY <1>1, <1>2, <1>6, <1>20
<1>8. \A j \in 1 .. n : full[j] = IF j = k THEN l ELSE g.heap[j]
  BY <1>1, <1>20
<1>9. /\ f.heap \in Seq(Objs) /\ Len(f.heap) = n - 1 /\ DOMAIN f.heap = 1 .. n - 1
      /\ \A j \in 1 .. n - 1 : f.heap[j] = full[j]
  <2>1. n - 1 \in Nat /\ n - 1 <= n /\ n \in Nat
    BY <1>1, <1>2
  <2>2. \A j \in 1 .. n - 1 : full[j] \in Objs
    BY <1>2, <1>7
  <2>3. f.heap = [j \in 1 .. n - 1 |-> full[j]]
    BY <1>5, <1>21, <2>1
  <2> QED BY <2>1, <2>2, <2>3
<1>10. \A j \in 1 .. n - 1 : f.heap[j] = IF j = k THEN l ELSE g.heap[j]
  BY <1>2, <1>8, <1>9
<1>11. f \in Heaps
  <2>1. f.index \in [Objs -> Nat] /\ f.time \in [Objs -> Int]
    BY <1>1, <1>2, <1>5, <1>6, <1>21, <1>22, SMTT(30)
  <2>2. f = [heap |-> f.heap, index |-> f.index, time |-> f.time]
    BY <1>4
  <2> QED BY <1>9, <2>1, <2>2 DEF Heaps
<1>12. \A j \in 1 .. n - 1 : f.heap[j] # o /\ (j # k => f.heap[j] # l)
  <2>1. ASSUME NEW j \in 1 .. n - 1, j # k
        PROVE  f.heap[j] # o /\ f.heap[j] # l
    <3>1. f.heap[j] = g.heap[j] /\ j \in 1 .. n /\ j # n
      BY <1>2, <1>10, <2>1
    <3>2. g.index[o] = k /\ g.index[l] = n /\ g.index[g.heap[j]] = j
      BY <1>2, <1>3, <1>20, <3>1
    <3> QED BY <2>1, <3>1, <3>2
  <2>2. f.heap[k] # o
    BY <1>2, <1>6, <1>10
  <2> QED BY <2>1, <2>2
<1>13. \A x \in Objs : f.index[x] = IF x = o THEN 0 ELSE IF x = l THEN k ELSE g.index[x]
  <2>1. k \in Nat
    BY <1>1, <1>2
  <2> QED BY <1>1, <1>5, <1>6, <1>22, <2>1, Zenon
<1>14. \A j \in 1 .. n - 1 : f.index[f.heap[j]] = j
  <2>1. ASSUME NEW j \in 1 .. n - 1, j # k
        PROVE  f.index[f.heap[j]] = j
    <3>1. f.heap[j] = g.heap[j] /\ f.heap[j] \in Objs /\ f.heap[j] # o /\ f.heap[j] # l
      BY <1>1, <1>2, <1>10, <1>12, <2>1
    <3>2. j \in 1 .. n /\ g.index[g.heap[j]] = j
      BY <1>2, <1>3
    <3> QED BY <1>13, <3>1, <3>2
  <2>2. f.index[f.heap[k]] = k
    BY <1>2, <1>6, <1>10, <1>13
  <2> QED BY <2>1, <2>2
<1>15. ASSUME NEW x \in Objs, f.index[x] > 0
       PROVE  f.index[x] \in 1 .. n - 1 /\ f.heap[f.index[x]] = x
  <2>1. x # o
    BY <1>13, <1>15
  <2>2. CASE x = l
    BY <1>2, <1>10, <1>13, <2>1, <2>2
  <2>3. CASE x # l
    <3>1. g.index[x] \in 1 .. n /\ g.heap[g.index[x]] = x /\ f.index[x] = g.index[x]
      BY <1>3, <1>13, <1>15, <2>1, <2>3
    <3>2. g.index[x] # k /\ g.index[x] # n
      BY <1>20, <2>1, <2>3, <3>1
    <3>3. g.index[x] \in 1 .. n - 1
      BY <1>1, <3>1, <3>2
    <3> QED BY <1>10, <3>1, <3>2, <3>3
  <2> QED BY <2>2, <2>3
<1>16. Indexed(f)
  BY <1>9, <1>14, <1>15 DEF Indexed
<1>17. \A x \in Objs : f.index[x] > 0 <=> g.index[x] > 0 /\ x # o
  <2>1. g.index[l] = n /\ n > 0 /\ k > 0
    <3>1. g.index[l] = n
      BY <1>2, <1>3, <1>20
    <3> QED BY <1>1, <1>2, <3>1
  <2>2. ASSUME NEW x \in Objs
        PROVE  f.index[x] > 0 <=> g.index[x] > 0 /\ x # o
    <3>1. CASE x = o
      BY <1>13, <3>1
    <3>2. CASE x = l
      BY <1>6, <1>13, <2>1, <3>2
    <3>3. CASE x # o /\ x # l
      BY <1>13, <3>3
    <3> QED BY <3>1, <3>2, <3>3
  <2> QED BY <2>2
<1>18. \A j \in 1 .. n - 1 : j # k => At(f, j) = At(g, j)
  <2>1. ASSUME NEW j \in 1 .. n - 1, j # k
        PROVE  At(f, j) = At(g, j)
    <3>1. f.heap[j] = g.heap[j] /\ f.heap[j] \in Objs /\ f.heap[j] # o
      BY <1>1, <1>2, <1>10, <1>12, <2>1
    <3> QED BY <1>1, <1>5, <1>21, <3>1 DEF At
  <2> QED BY <2>1
<1>19. DownAt(f, k)
  <2>1. ASSUME NEW j \in 1 .. n - 1, j > 1, j # k, j \div 2 # k
        PROVE  At(f, j \div 2) <= At(f, j)
    <3>1. j \div 2 \in 1 .. n - 1
      BY <1>1, <2>1
    <3> QED BY <1>2, <1>3, <1>18, <2>1, <3>1
  <2>2. ASSUME NEW j \in 1 .. n - 1, j > 1, k > 1, j \div 2 = k
        PROVE  At(f, k \div 2) <= At(f, j)
    <3>1. j # k /\ k \div 2 \in 1 .. n - 1 /\ k \div 2 # k
      <4>1. j \in Nat /\ k \in Nat /\ j > 1 /\ k > 1 /\ j \div 2 = k /\ k <= n - 1 /\ n \in Nat
        BY <1>1, <1>2, <2>2
      <4> QED BY <4>1
    <3>2. At(f, j) = At(g, j) /\ At(f, k \div 2) = At(g, k \div 2)
      BY <1>18, <2>2, <3>1
    <3>3. At(g, k \div 2) <= At(g, k) /\ At(g, k) <= At(g, j)
      BY <1>2, <1>3, <2>2
    <3>4. At(g, k \div 2) \in Int /\ At(g, k) \in Int /\ At(g, j) \in Int
      BY <1>1, <1>2, <2>2, <3>1
    <3> QED BY <3>2, <3>3, <3>4
  <2> QED BY <1>9, <2>1, <2>2 DEF DownAt
<1> QED BY <1>5, <1>9, <1>11, <1>16, <1>17, <1>19, <1>20, <1>21 DEF Without, n

LEMMA LastDropped ==
    ASSUME NEW g \in Heaps, Consistent(g), Len(g.heap) > 0,
           NEW f, f = DropLast(g)
    PROVE  /\ f \in Heaps /\ Consistent(f)
           /\ Len(f.heap) = Len(g.heap) - 1 /\ Without(g, g.heap[Len(g.heap)], f)
<1> DEFINE n == Len(g.heap)
           o == g.heap[n]
           heap == SubSeq(g.heap, 1, n - 1)
           index == [g.index EXCEPT ![o] = 0]
           time == [g.time EXCEPT ![o] = 0]
<1>1. /\ n \in Nat /\ DOMAIN g.heap = 1 .. n /\ g.heap \in Seq(Objs)
      /\ g.index \in [Objs -> Nat] /\ g.time \in [Objs -> Int]
      /\ \A j \in 1 .. n : g.heap[j] \in Objs /\ At(g, j) \in Int
  BY HeapTypes DEF At
<1>2. f = [heap |-> heap, index |-> index, time |-> time]
  BY DEF DropLast
<1>3. n > 0 /\ o = g.heap[n]
  OBVIOUS
<1> HIDE DEF n, o
<1>17. /\ heap = SubSeq(g.heap, 1, n - 1)
       /\ index = [g.index EXCEPT ![o] = 0]
       /\ time = [g.time EXCEPT ![o] = 0]
  OBVIOUS
<1> HIDE DEF heap, index, time
<1>18. f.heap = heap /\ f.index = index /\ f.time = time
  BY <1>2
<1>4. n \in 1 .. n /\ n - 1 \in Nat /\ \A j \in 1 .. n - 1 : j \in 1 .. n /\ j # n
  BY <1>1, <1>3
<1>5. /\ \A j \in 1 .. n : g.index[g.heap[j]] = j
      /\ \A x \in Objs : g.index[x] > 0 => g.index[x] \in 1 .. n /\ g.heap[g.index[x]] = x
      /\ \A j \in 1 .. n : j > 1 => At(g, j \div 2) <= At(g, j)
  BY <1>1, ConsistentIs DEF Indexed, Ordered
<1>6. /\ f.heap = SubSeq(g.heap, 1, n - 1)
      /\ f.index = [g.index EXCEPT ![o] = 0]
      /\ f.time = [g.time EXCEPT ![o] = 0]
  BY <1>17, <1>18
<1>7. /\ f.heap \in Seq(Objs) /\ Len(f.heap) = n - 1 /\ DOMAIN f.heap = 1 .. n - 1
      /\ \A j \in 1 .. n - 1 : f.heap[j] = g.heap[j]
  BY <1>1, <1>4, <1>6
<1>8. f \in Heaps
  <2>1. f.index \in [Objs -> Nat] /\ f.time \in [Objs -> Int]
    BY <1>1, <1>3, <1>4, <1>6
  <2>2. f = [heap |-> f.heap, index |-> f.index, time |-> f.time]
    BY <1>2
  <2> QED BY <1>7, <2>1, <2>2 DEF Heaps
<1>9. \A j \in 1 .. n - 1 : f.heap[j] # o /\ f.heap[j] \in Objs
  <2>1. ASSUME NEW j \in 1 .. n - 1
        PROVE  f.heap[j] # o /\ f.heap[j] \in Objs
    <3>1. f.heap[j] = g.heap[j] /\ j \in 1 .. n /\ j # n
      BY <1>4, <1>7
    <3> QED BY <1>1, <1>3, <1>4, <1>5, <3>1
  <2> QED BY <2>1
<1>10. \A x \in Objs : f.index[x] = IF x = o THEN 0 ELSE g.index[x]
  BY <1>1, <1>6
<1>11. ASSUME NEW x \in Objs, f.index[x] > 0
       PROVE  f.index[x] \in 1 .. n - 1 /\ f.heap[f.index[x]] = x
  <2>1. x # o /\ f.index[x] = g.index[x]
    BY <1>10, <1>11
  <2>2. g.index[x] \in 1 .. n /\ g.heap[g.index[x]] = x
    BY <1>5, <1>11, <2>1
  <2>3. g.index[x] # n
    BY <1>3, <2>1, <2>2
  <2>4. g.index[x] \in 1 .. n - 1
    BY <1>1, <2>2, <2>3
  <2> QED BY <1>7, <2>1, <2>2, <2>4
<1>12. Indexed(f)
  <2>1. ASSUME NEW j \in 1 .. n - 1
        PROVE  f.index[f.heap[j]] = j
    <3>1. f.heap[j] = g.heap[j] /\ j \in 1 .. n
      BY <1>4, <1>7
    <3> QED BY <1>5, <1>9, <1>10, <3>1
  <2> QED BY <1>7, <1>11, <2>1 DEF Indexed
<1>13. \A j \in 1 .. n - 1 : At(f, j) = At(g, j)
  <2>1. ASSUME NEW j \in 1 .. n - 1
        PROVE  At(f, j) = At(g, j)
    <3>1. f.heap[j] = g.heap[j] /\ f.heap[j] \in Objs /\ f.heap[j] # o
      BY <1>4, <1>7, <1>9
    <3> QED BY <1>1, <1>6, <3>1 DEF At
  <2> QED BY <2>1
<1>14. ASSUME NEW j \in 1 .. n - 1, j > 1
       PROVE  At(f, j \div 2) <= At(f, j)
  <2>1. j \div 2 \in 1 .. n - 1
    BY <1>1, <1>14
  <2> QED BY <1>4, <1>5, <1>13, <1>14, <2>1
<1>15. Ordered(f)
  BY <1>7, <1>14 DEF Ordered
<1>16. Without(g, o, f)
  <2>1. g.index[o] = n
    BY <1>3, <1>4, <1>5
  <2> QED BY <1>6, <1>10 DEF Without
<1> QED BY <1>7, <1>8, <1>12, <1>15, <1>16, ConsistentIs DEF n, o

--------------------------------------------------------------------------------
\* Of two heaps g and f: f has o with time w as well as the objects of g.
With(g, o, w, f) ==
    /\ f.time = [g.time EXCEPT ![o] = w]
    /\ \A x \in Objs : f.index[x] > 0 <=> g.index[x] > 0 \/ x = o

\* What the three operations on the heap do.
LEMMA Inserted ==
    ASSUME NEW g \in Heaps, Consistent(g), NEW o \in Objs, g.index[o] = 0, NEW w \in Int,
           NEW f, f = Insert(g, o, w)
    PROVE  /\ f \in Heaps /\ Consistent(f)
           /\ Len(f.heap) = Len(g.heap) + 1 /\ With(g, o, w, f)
<1> DEFINE n == Len(g.heap) + 1
           heap == Append(g.heap, o)
           index == [g.index EXCEPT ![o] = n]
           time == [g.time EXCEPT ![o] = w]
           e == [heap |-> heap, index |-> index, time |-> time]
<1>1. /\ Len(g.heap) \in Nat /\ DOMAIN g.heap = 1 .. Len(g.heap) /\ g.heap \in Seq(Objs)
      /\ g.index \in [Objs -> Nat] /\ g.time \in [Objs -> Int]
      /\ \A j \in 1 .. Len(g.heap) : g.heap[j] \in Objs
  BY HeapTypes
<1>2. f = UpTree(e, n)
  BY DEF Insert
<1>3. n \in Nat /\ n > 0 /\ Len(g.heap) = n - 1
  BY <1>1
<1> HIDE DEF n
<1>4. /\ heap \in Seq(Objs) /\ Len(heap) = n /\ DOMAIN heap = 1 .. n /\ heap[n] = o
      /\ \A j \in 1 .. n - 1 : heap[j] = g.heap[j]
  BY <1>1, <1>3
<1>5. index \in [Objs -> Nat] /\ \A x \in Objs : index[x] = IF x = o THEN n ELSE g.index[x]
  BY <1>1, <1>3
<1>6. time \in [Objs -> Int] /\ \A x \in Objs : x # o => time[x] = g.time[x]
  BY <1>1
<1>7. time = [g.time EXCEPT ![o] = w]
  OBVIOUS
<1> HIDE DEF heap, index, time
<1>8. e \in Heaps /\ e.heap = heap /\ e.index = index /\ e.time = time
  BY <1>4, <1>5, <1>6 DEF Heaps
<1> HIDE DEF e
<1>9. /\ \A j \in 1 .. n - 1 : g.index[g.heap[j]] = j
      /\ \A x \in Objs : g.index[x] > 0 => g.index[x] \in 1 .. n - 1 /\ g.heap[g.index[x]] = x
      /\ \A j \in 1 .. n - 1 : j > 1 => At(g, j \div 2) <= At(g, j)
  BY <1>1, <1>3, ConsistentIs DEF Indexed, Ordered
<1>10. ASSUME NEW j \in 1 .. n - 1
       PROVE  /\ heap[j] = g.heap[j] /\ heap[j] \in Objs /\ heap[j] # o
              /\ index[heap[j]] = j /\ At(e, j) = At(g, j)
  <2>1. heap[j] = g.heap[j] /\ heap[j] \in Objs /\ g.index[heap[j]] = j /\ j # 0
    <3>1. heap[j] = g.heap[j] /\ j # 0
      BY <1>3, <1>4
    <3>2. g.heap[j] \in Objs
      BY <1>1, <1>3
    <3> QED BY <1>9, <3>1, <3>2
  <2>2. heap[j] # o
    BY <2>1
  <2> QED BY <1>5, <1>6, <1>8, <2>1, <2>2 DEF At
<1>11. Indexed(e)
  <2>1. \A j \in 1 .. n : j = n \/ j \in 1 .. n - 1
    BY <1>3
  <2>2. \A j \in 1 .. n : index[heap[j]] = j
    BY <1>4, <1>5, <1>10, <2>1
  <2>3. \A x \in Objs : index[x] > 0 => index[x] \in 1 .. n /\ heap[index[x]] = x
    <3>1. \A j \in 1 .. n - 1 : j \in 1 .. n
      BY <1>3
    <3>2. n \in 1 .. n
      BY <1>3
    <3> QED BY <1>4, <1>5, <1>9, <1>10, <3>1, <3>2
  <2> QED BY <1>4, <1>8, <2>2, <2>3 DEF Indexed
<1>12. UpAt(e, n)
  <2>1. ASSUME NEW j \in 1 .. n, j > 1, j # n
        PROVE  At(e, j \div 2) <= At(e, j)
    <3>1. j \in 1 .. n - 1 /\ j \div 2 \in 1 .. n - 1
      BY <1>3, <2>1
    <3> QED BY <1>9, <1>10, <2>1, <3>1
  <2>2. \A j \in 1 .. n : ~(j > 1 /\ j \div 2 = n)
    BY <1>3
  <2> QED BY <1>4, <1>8, <2>1, <2>2 DEF UpAt
<1>13. n \in 1 .. Len(e.heap)
  BY <1>3, <1>4, <1>8
<1>14. /\ f \in Heaps /\ Indexed(f) /\ Ordered(f)
       /\ Len(f.heap) = n /\ f.time = time
       /\ \A x \in Objs : f.index[x] > 0 <=> index[x] > 0
  BY <1>2, <1>4, <1>8, <1>11, <1>12, <1>13, UpTreeOrders
<1>15. With(g, o, w, f)
  BY <1>3, <1>5, <1>7, <1>14 DEF With
<1> QED BY <1>14, <1>15, ConsistentIs DEF n

LEMMA Deleted ==
    ASSUME NEW g \in Heaps, Consistent(g), NEW o \in Objs, g.index[o] > 0,
           NEW f, f = Delete(g, o)
    PROVE  /\ f \in Heaps /\ Consistent(f)
           /\ Len(f.heap) = Len(g.heap) - 1 /\ Without(g, o, f)
<1> DEFINE k == g.index[o]
<1>1. /\ Len(g.heap) \in Nat /\ k \in 1 .. Len(g.heap) /\ g.heap[k] = o
  BY HeapTypes DEF Consistent
<1>2. CASE k = Len(g.heap)
  <2>1. f = DropLast(g) /\ Len(g.heap) > 0
    BY <1>1, <1>2 DEF Delete
  <2> QED BY <1>1, <1>2, <2>1, LastDropped
<1>3. CASE k # Len(g.heap)
  <2>1. k \in 1 .. Len(g.heap) - 1
    BY <1>1, <1>3
  <2>2. PICK e : e = LastTo(g, k)
    OBVIOUS
  <2>3. PICK d : d = DownTree(e, k)
    OBVIOUS
  <2>4. f = UpTree(d, k)
    BY <1>1, <1>3, <2>2, <2>3 DEF Delete
  <2>5. /\ e \in Heaps /\ Indexed(e) /\ DownAt(e, k)
        /\ Len(e.heap) = Len(g.heap) - 1 /\ Without(g, o, e)
    BY <1>1, <2>1, <2>2, LastMoved
  <2> HIDE DEF k
  <2>6. /\ d \in Heaps /\ Indexed(d) /\ UpAt(d, k)
        /\ Len(d.heap) = Len(e.heap) /\ d.time = e.time
        /\ \A x \in Objs : d.index[x] > 0 <=> e.index[x] > 0
    BY <2>1, <2>3, <2>5, DownTreeOrders
  <2>7. /\ f \in Heaps /\ Indexed(f) /\ Ordered(f)
        /\ Len(f.heap) = Len(d.heap) /\ f.time = d.time
        /\ \A x \in Objs : f.index[x] > 0 <=> d.index[x] > 0
    BY <2>1, <2>4, <2>5, <2>6, UpTreeOrders
  <2>8. Without(g, o, f)
    BY <2>5, <2>6, <2>7 DEF Without
  <2> QED BY <2>5, <2>6, <2>7, <2>8, ConsistentIs
<1> QED BY <1>2, <1>3

LEMMA Popped ==
    ASSUME NEW g \in Heaps, Consistent(g), g.heap # <<>>,
           NEW f, f = Pop(g)
    PROVE  /\ g.heap[1] \in Objs /\ g.index[g.heap[1]] = 1
           /\ f \in Heaps /\ Consistent(f)
           /\ Len(f.heap) = Len(g.heap) - 1 /\ Without(g, g.heap[1], f)
<1>1. Len(g.heap) \in Nat /\ Len(g.heap) > 0 /\ g.heap \in Seq(Objs)
  <2>1. Len(g.heap) \in Nat /\ g.heap \in Seq(Objs)
    BY HeapTypes
  <2> QED BY <2>1
<1>2. 1 \in 1 .. Len(g.heap) /\ g.heap[1] \in Objs /\ g.index[g.heap[1]] = 1
  BY <1>1, HeapTypes DEF Consistent
<1>3. CASE Len(g.heap) = 1
  <2>1. f = DropLast(g)
    BY <1>3 DEF Pop
  <2> QED BY <1>1, <1>2, <1>3, <2>1, LastDropped
<1>4. CASE Len(g.heap) # 1
  <2>1. 1 \in 1 .. Len(g.heap) - 1
    <3>1. \A n \in Nat : n > 0 /\ n # 1 => 1 \in 1 .. n - 1
      OBVIOUS
    <3> QED BY <1>1, <1>4, <3>1
  <2>2. PICK e : e = LastTo(g, 1)
    OBVIOUS
  <2>3. f = DownTree(e, 1)
    BY <1>4, <2>2 DEF Pop
  <2>5. /\ e \in Heaps /\ Indexed(e) /\ DownAt(e, 1)
        /\ Len(e.heap) = Len(g.heap) - 1 /\ Without(g, g.heap[1], e)
    BY <2>1, <2>2, LastMoved
  <2>6. /\ f \in Heaps /\ Indexed(f) /\ UpAt(f, 1)
        /\ Len(f.heap) = Len(e.heap) /\ f.time = e.time
        /\ \A x \in Objs : f.index[x] > 0 <=> e.index[x] > 0
    BY <2>1, <2>3, <2>5, DownTreeOrders
  <2>7. Ordered(f)
    BY <2>6 DEF UpAt, Ordered
  <2>8. Without(g, g.heap[1], f)
    BY <2>5, <2>6 DEF Without
  <2> QED BY <1>2, <2>5, <2>6, <2>7, <2>8, ConsistentIs
<1> QED BY <1>3, <1>4

--------------------------------------------------------------------------------
\* Start, Remove and Expire of TmrHeap_MC are these operations.
IInv == h \in Heaps /\ Consistent(h)

LEMMA Initially == Init => IInv
<1> SUFFICES ASSUME Init PROVE IInv
  OBVIOUS
<1>1. h.heap = <<>> /\ h.index = [o \in Objs |-> 0] /\ h.time = [o \in Objs |-> 0]
  BY DEF Init, Empty
<1>2. h \in Heaps
  BY DEF Init, Empty, Heaps
<1>3. DOMAIN h.heap = {}
  BY <1>1
<1>4. Consistent(h)
  BY <1>1, <1>3 DEF Consistent
<1> QED BY <1>2, <1>4 DEF IInv

\* Every step adds one object or takes one away.
OneMore(o) == h.index[o] = 0 /\ Len(h'.heap) = Len(h.heap) + 1 /\ \E w \in Int : With(h, o, w, h')
OneLess(o) == h.index[o] > 0 /\ Len(h'.heap) = Len(h.heap) - 1 /\ Without(h, o, h')

LEMMA StepOfOne ==
    ASSUME IInv, Next
    PROVE  IInv' /\ \E o \in Objs : OneMore(o) \/ OneLess(o)
<1>1. CASE Start
  <2>1. PICK o \in Objs \ In(h) : \E w \in WakeUpTimes : h' = Insert(h, o, w)
    BY <1>1 DEF Start
  <2>2. PICK w \in WakeUpTimes : h' = Insert(h, o, w)
    BY <2>1
  <2>3. w \in Int
    BY WakeUpTimesAssumption
  <2>4. h.index[o] = 0
    BY <2>1, HeapTypes DEF In, IInv
  <2>5. h' \in Heaps /\ Consistent(h') /\ Len(h'.heap) = Len(h.heap) + 1 /\ With(h, o, w, h')
    BY <2>2, <2>3, <2>4, Inserted DEF IInv
  <2> QED BY <2>3, <2>4, <2>5 DEF IInv, OneMore
<1>2. CASE Remove
  <2>1. PICK o \in Objs : h.index[o] > 0 /\ h' = Delete(h, o)
    BY <1>2 DEF Remove, In
  <2>2. h' \in Heaps /\ Consistent(h') /\ Len(h'.heap) = Len(h.heap) - 1 /\ Without(h, o, h')
    BY <2>1, Deleted DEF IInv
  <2> QED BY <2>1, <2>2 DEF IInv, OneLess
<1>3. CASE Expire
  <2>1. /\ h.heap[1] \in Objs /\ h.index[h.heap[1]] = 1
        /\ h' \in Heaps /\ Consistent(h')
        /\ Len(h'.heap) = Len(h.heap) - 1 /\ Without(h, h.heap[1], h')
    BY <1>3, Popped DEF IInv, Expire
  <2>2. h.index[h.heap[1]] > 0
    BY <2>1
  <2> QED BY <2>1, <2>2 DEF IInv, OneLess
<1> QED BY <1>1, <1>2, <1>3 DEF Next

LEMMA Inductive == IInv /\ [Next]_h => IInv'
<1>1. ASSUME IInv, UNCHANGED h
      PROVE  IInv'
  BY <1>1 DEF IInv
<1> QED BY <1>1, StepOfOne

\* The heap stays a heap, with every _index the place of its object, whatever is
\* started, deleted and expires in whatever order (mmxpcore.c:788-832, 859-867,
\* 893-907).
THEOREM StaysHeapCorrect == Spec => []StaysHeap
<1>1. IInv => StaysHeap
  BY DEF IInv, StaysHeap
<1> QED BY <1>1, Initially, Inductive, PTL DEF Spec

\* Every operation adds or removes one object, and leaves all others armed with
\* their times (mmxpcore.c:859-867, 893-907, 936-941).
THEOREM TouchesOneCorrect == Spec => TouchesOne
<1> DEFINE Touches ==
      /\ \E o \in Objs : In(h') = In(h) \cup {o} \/ In(h') = In(h) \ {o}
      /\ Len(h'.heap) \in {Len(h.heap) - 1, Len(h.heap) + 1}
      /\ {h'.heap[j] : j \in DOMAIN h'.heap} = In(h')
      /\ \A o \in In(h) \cap In(h') : h'.time[o] = h.time[o]
<1>1. ASSUME IInv, Next
      PROVE  Touches
  <2>1. PICK o \in Objs : OneMore(o) \/ OneLess(o)
    BY <1>1, StepOfOne
  <2>2. h \in Heaps /\ h' \in Heaps /\ Consistent(h')
    BY <1>1, StepOfOne DEF IInv
  <2>3. {h'.heap[j] : j \in DOMAIN h'.heap} = In(h')
    <3>1. \A j \in DOMAIN h'.heap : h'.heap[j] \in Objs /\ h'.index[h'.heap[j]] = j /\ j > 0
      BY <2>2, HeapTypes DEF Consistent
    <3>2. \A x \in Objs : h'.index[x] > 0 => \E j \in DOMAIN h'.heap : h'.heap[j] = x
      BY <2>2 DEF Consistent
    <3> QED BY <3>1, <3>2 DEF In
  <2>4. CASE OneMore(o)
    <3>1. In(h') = In(h) \cup {o} /\ o \notin In(h)
      BY <2>4 DEF OneMore, With, In
    <3>2. \A x \in In(h) : h'.time[x] = h.time[x]
      BY <2>2, <2>4, <3>1, HeapTypes DEF OneMore, With, In
    <3> QED BY <2>3, <2>4, <3>1, <3>2 DEF OneMore
  <2>5. CASE OneLess(o)
    <3>1. In(h') = In(h) \ {o}
      BY <2>5 DEF OneLess, Without, In
    <3>2. \A x \in In(h) : x # o => h'.time[x] = h.time[x]
      BY <2>2, <2>5, HeapTypes DEF OneLess, Without, In
    <3> QED BY <2>3, <2>5, <3>1, <3>2 DEF OneLess
  <2> QED BY <2>1, <2>4, <2>5
<1>2. IInv /\ [Next]_h => [Touches]_h
  BY <1>1
<1> QED BY <1>2, Initially, Inductive, PTL DEF Spec, TouchesOne

================================================================================
