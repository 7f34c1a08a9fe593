---------------------------- MODULE VoiceNi_proofs ----------------------------
(***************************************************************************)
(* Proofs about VoiceNi, for any number of descriptors, buffers and        *)
(* entries of a page, and in all surroundings: types, that descriptors and *)
(* buffers have one owner, that reception does not stop, that nothing is   *)
(* met that is not there, and that the interface is the channel of         *)
(* VoiceChannel.                                                           *)
(***************************************************************************)
EXTENDS VoiceNi, SequenceTheorems, TLAPS

\* The accumulator and the driver take the pages in turn, and what the driver
\* has left to read is where it left off.
PagesInTurn ==
    /\ op \in {"down", "queues", "closed"} => count = 0
    /\ tl = "read" => count > 0
    /\ Has("chan") =>
         /\ op \in {"channel", "up"}
         /\ count = 1 <=> hwpage # list.page
         /\ count = 0 => list.pos = 1
    /\ count = 2 => page[Other(list.page)] # <<>>
    /\ count > 0 /\ tl # "read" /\ ~spent => list.pos = 1 /\ page[list.page] # <<>>

\* After a capture nothing comes any more until the interface is opened anew.
SpentIsLast ==
    spent =>
      /\ world = "captures" /\ tl = "idle" /\ ~sched /\ ~irq /\ ~armed
      /\ list.pos <= Len(page[list.page])
      /\ Has("chan") => count > 0

\* Where a page can wait, something is on its way to the tasklet, or the next
\* page sends it.
Served ==
    world # "captures" =>
      /\ Coming \/ armed
      /\ count > 0 => Coming \/ world = "edge"

Distinct(s) == \A i, j \in 1 .. Len(s) : i # j => s[i] # s[j]

\* Who has a buffer, and that no two have the same.
BufsHeld ==
    \A b \in Own :
      /\ buf[b] \notin pool
      /\ b \in free => buf[b] = None
      /\ b \in toDsp \cup Elems(Pending) => buf[b] \in Bufs
      /\ \A c \in Own \ {b} : buf[b] = buf[c] => buf[b] = None

\* Who has a descriptor.
BdsHeld ==
    /\ Distinct(Pending)
    /\ free \cap toDsp = {}
    /\ (free \cup toDsp \cup recycled) \cap Elems(Pending) = {}
    /\ world # "foreign" => Elems(Pending) \subseteq Own

\* Where the pool is not allocated nothing is anywhere, and where it is nothing
\* is lost, unless the driver has freed descriptors that were in use.
Wrecked == oops /\ op = "closed"
NothingLost ==
    /\ op \in {"down", "closed"} => ~Has("pool")
    /\ ~Wrecked /\ ~Has("pool") =>
         /\ free = {} /\ toDsp = {} /\ Pending = <<>>
         /\ \A b \in Own : buf[b] = None
         /\ world # "foreign" => pool = Bufs
    /\ Has("pool") /\ world # "foreign" =>
         /\ Own \subseteq free \cup toDsp \cup Elems(Pending)
         /\ Bufs \subseteq pool \cup {buf[b] : b \in Own}

\* While the DSP is silent during open and close, and nothing fails: where open
\* or close is tells what there is, and the tasklet runs between them only.
Calm == world \notin {"noisy", "scarce"}

OpenWhole ==
    Calm =>
      /\ mod # "failed"
      /\ op # "down" => mod = "ready"
      /\ mod \in {"paired", "looked", "ready"} => Has("pal")
      /\ op \in {"queues", "channel", "up", "closing"} =>
           Has("bdq") /\ Has("pool") /\ Queues \subseteq res
      /\ op \in {"channel", "up"} => Has("chan")
      /\ op \in {"channel", "up", "closing", "closed"} => Has("list")
      /\ op = "up" => Has("tasklet")
      /\ op \in {"up", "closing"} => Has("recycle")

ClosedQuiet ==
    Calm =>
      /\ op # "up" => ~Coming /\ Pending = <<>> /\ toDsp = {}
      /\ op = "closing" => free = Own
      /\ tl # "idle" => ~sched /\ ~irq /\ ~armed
      /\ sched => ~irq /\ ~armed
      /\ irq => ~armed
      /\ armed /\ world # "edge" => count = 0
      /\ irq \/ sched => count > 0

MtaThere == world # "mta" => mta /\ (mod \in {"looked", "ready"} => ptr)

IInv ==
    /\ TypeOK
    /\ PagesInTurn /\ SpentIsLast /\ Served
    /\ BdsHeld /\ BufsHeld /\ NothingLost
    /\ OpenWhole /\ ClosedQuiet /\ MtaThere /\ NoOops

-----------------------------------------------------------------------------
\* What is left of a sequence when its first n elements are gone.
Left(s, n) == SubSeq(s, n + 1, Len(s))

LEMMA LeftTyped ==
    ASSUME NEW S, NEW s \in Seq(S), NEW n \in 0 .. Len(s)
    PROVE  /\ Left(s, n) \in Seq(S)
           /\ Len(Left(s, n)) = Len(s) - n
           /\ \A i \in 1 .. Len(s) - n : Left(s, n)[i] = s[i + n]
<1>1. Len(s) \in Nat /\ \A i \in n + 1 .. Len(s) : s[i] \in S
  OBVIOUS
<1>2. /\ Left(s, n) \in Seq(S)
      /\ Len(Left(s, n)) = IF n + 1 <= Len(s) THEN Len(s) - (n + 1) + 1 ELSE 0
      /\ \A i \in 1 .. Len(s) - (n + 1) + 1 : Left(s, n)[i] = s[(n + 1) + i - 1]
  BY <1>1, SubSeqProperties DEF Left
<1>3. \A i \in 1 .. Len(s) - n : s[(n + 1) + i - 1] = s[i + n]
  BY <1>1
<1> QED BY <1>1, <1>2, <1>3

\* What is left is part of the sequence, and what has gone is not in it.
LEMMA LeftElems ==
    ASSUME NEW S, NEW s \in Seq(S), NEW n \in 0 .. Len(s)
    PROVE  /\ Elems(Left(s, n)) \subseteq Elems(s)
           /\ Distinct(s) => Distinct(Left(s, n))
           /\ Distinct(s) => \A i \in 1 .. n : s[i] \notin Elems(Left(s, n))
<1> DEFINE t == Left(s, n)
<1>1. Len(s) \in Nat /\ n \in Nat /\ n <= Len(s)
  OBVIOUS
<1>2. Len(t) = Len(s) - n /\ \A i \in 1 .. Len(t) : t[i] = s[i + n]
  BY LeftTyped
<1> HIDE DEF t
<1>3. \A i \in 1 .. Len(t) : i + n \in 1 .. Len(s) /\ i + n > n
  BY <1>1, <1>2
<1>4. Elems(t) \subseteq Elems(s)
  BY <1>2, <1>3 DEF Elems
<1>5. ASSUME Distinct(s), NEW i \in 1 .. Len(t), NEW j \in 1 .. Len(t), i # j
      PROVE  t[i] # t[j]
  <2>1. i + n # j + n
    BY <1>1, <1>2, <1>5
  <2> QED BY <1>2, <1>3, <1>5, <2>1 DEF Distinct
<1>6. ASSUME Distinct(s), NEW i \in 1 .. n, NEW j \in 1 .. Len(t)
      PROVE  s[i] # t[j]
  <2>1. i \in 1 .. Len(s) /\ i # j + n
    BY <1>1, <1>2
  <2> QED BY <1>2, <1>3, <1>6, <2>1 DEF Distinct
<1> QED BY <1>4, <1>5, <1>6 DEF Distinct, Elems, t

\* Only the first n have gone.
LEMMA LeftKeeps ==
    ASSUME NEW S, NEW s \in Seq(S), s # <<>>
    PROVE  Elems(s) = Elems(Left(s, 1)) \cup {s[1]}
<1>1. Len(s) \in Nat \ {0}
  OBVIOUS
<1> DEFINE t == Left(s, 1)
<1>2. 1 \in 0 .. Len(s)
  BY <1>1
<1>3. Len(t) = Len(s) - 1 /\ \A i \in 1 .. Len(s) - 1 : t[i] = s[i + 1]
  BY <1>2, LeftTyped
<1>4. Elems(t) \subseteq Elems(s)
  BY <1>2, LeftElems
<1> HIDE DEF t
<1>5. ASSUME NEW i \in 1 .. Len(s) PROVE s[i] \in Elems(t) \cup {s[1]}
  <2>1. CASE i = 1
    BY <2>1
  <2>2. CASE i # 1
    <3>1. i - 1 \in 1 .. Len(t) /\ t[i - 1] = s[(i - 1) + 1] /\ (i - 1) + 1 = i
      BY <1>1, <1>3, <2>2
    <3> QED BY <3>1 DEF Elems
  <2> QED BY <2>1, <2>2
<1>6. s[1] \in Elems(s)
  BY <1>1 DEF Elems
<1>7. Elems(s) \subseteq Elems(t) \cup {s[1]}
  BY <1>5 DEF Elems
<1> QED BY <1>4, <1>6, <1>7 DEF t

\* A concatenation loses what its first part loses.
LEMMA LeftConcat ==
    ASSUME NEW S, NEW s \in Seq(S), NEW t \in Seq(S), NEW n \in 0 .. Len(s)
    PROVE  Left(s \o t, n) = Left(s, n) \o t
<1> DEFINE a == Left(s \o t, n)
           b == Left(s, n) \o t
<1>1. Len(s) \in Nat /\ Len(t) \in Nat /\ n \in 0 .. Len(s \o t) /\ s \o t \in Seq(S)
      /\ Len(s \o t) = Len(s) + Len(t)
  OBVIOUS
<1>2. a \in Seq(S) /\ Len(a) = Len(s) + Len(t) - n
      /\ \A i \in 1 .. Len(s) + Len(t) - n : a[i] = (s \o t)[i + n]
  <2> DEFINE st == s \o t
  <2>1. st \in Seq(S) /\ n \in 0 .. Len(st)
    BY <1>1
  <2> HIDE DEF st
  <2>2. Left(st, n) \in Seq(S) /\ Len(Left(st, n)) = Len(st) - n
        /\ \A i \in 1 .. Len(st) - n : Left(st, n)[i] = st[i + n]
    BY <2>1, LeftTyped
  <2> QED BY <1>1, <2>2 DEF st
<1>3. Left(s, n) \in Seq(S) /\ Len(Left(s, n)) = Len(s) - n
      /\ \A i \in 1 .. Len(s) - n : Left(s, n)[i] = s[i + n]
  BY LeftTyped
<1>4. b \in Seq(S) /\ Len(b) = Len(s) + Len(t) - n
  <2>1. b \in Seq(S) /\ Len(b) = Len(Left(s, n)) + Len(t)
    BY <1>3, ConcatProperties
  <2> HIDE DEF b
  <2> QED BY <1>1, <1>3, <2>1
<1>5. ASSUME NEW i \in 1 .. Len(s) + Len(t) - n PROVE a[i] = b[i]
  <2>1. b[i] = IF i <= Len(s) - n THEN Left(s, n)[i] ELSE t[i - (Len(s) - n)]
    BY <1>1, <1>3, ConcatProperties
  <2>2. (s \o t)[i + n] = IF i + n <= Len(s) THEN s[i + n] ELSE t[i + n - Len(s)]
    BY <1>1, ConcatProperties
  <2>3. a[i] = (s \o t)[i + n]
    BY <1>2
  <2> HIDE DEF a, b
  <2> QED BY <1>1, <1>3, <2>1, <2>2, <2>3
<1> HIDE DEF a, b
<1>6. a = b
  BY <1>1, <1>2, <1>4, <1>5, SeqEqual
<1> QED BY <1>6 DEF a, b

LEMMA LeftNothing ==
    ASSUME NEW S, NEW s \in Seq(S)
    PROVE  Left(s, 0) = s /\ Left(s, Len(s)) = <<>> /\ SubSeq(s, 1, Len(s)) = s
<1>1. Len(s) \in Nat
  OBVIOUS
<1>2. SubSeq(s, 1, Len(s)) = s
  BY SubSeqFull
<1>3. Left(s, Len(s)) \in Seq(S) /\ Len(Left(s, Len(s))) = 0
  BY <1>1, LeftTyped
<1> QED BY <1>1, <1>2, <1>3 DEF Left

LEMMA LeftTwice ==
    ASSUME NEW S, NEW s \in Seq(S), NEW m \in 0 .. Len(s), NEW n \in 0 .. Len(s) - m
    PROVE  Left(Left(s, m), n) = Left(s, m + n)
<1>1. Len(s) \in Nat /\ m + n \in 0 .. Len(s)
  OBVIOUS
<1>2. Left(s, m) \in Seq(S) /\ Len(Left(s, m)) = Len(s) - m
      /\ \A i \in 1 .. Len(s) - m : Left(s, m)[i] = s[i + m]
  BY LeftTyped
<1>3. Left(Left(s, m), n) \in Seq(S) /\ Len(Left(Left(s, m), n)) = Len(s) - m - n
      /\ \A i \in 1 .. Len(s) - m - n : Left(Left(s, m), n)[i] = Left(s, m)[i + n]
  BY <1>2, LeftTyped
<1>4. Left(s, m + n) \in Seq(S) /\ Len(Left(s, m + n)) = Len(s) - (m + n)
      /\ \A i \in 1 .. Len(s) - (m + n) : Left(s, m + n)[i] = s[i + (m + n)]
  BY <1>1, LeftTyped
<1>5. ASSUME NEW i \in 1 .. Len(s) - (m + n)
      PROVE  Left(Left(s, m), n)[i] = Left(s, m + n)[i]
  <2>1. i \in 1 .. Len(s) - m - n /\ i + n \in 1 .. Len(s) - m
        /\ (i + n) + m = i + (m + n)
    BY <1>1
  <2> QED BY <1>2, <1>3, <1>4, <2>1
<1>6. Len(Left(Left(s, m), n)) = Len(Left(s, m + n))
      /\ \A i \in 1 .. Len(Left(Left(s, m), n)) : Left(Left(s, m), n)[i] = Left(s, m + n)[i]
  <2>1. Len(s) - m - n = Len(s) - (m + n)
    BY <1>1
  <2>2. /\ Len(Left(Left(s, m), n)) = Len(s) - (m + n)
        /\ Len(Left(s, m + n)) = Len(s) - (m + n)
    BY <1>3, <1>4, <2>1, Zenon
  <2> QED BY <1>5, <2>2, Zenon
<1> QED BY <1>3, <1>4, <1>6, SeqEqual

LEMMA AppendElems ==
    ASSUME NEW S, NEW s \in Seq(S), NEW e \in S
    PROVE  /\ Elems(Append(s, e)) = Elems(s) \cup {e}
           /\ Distinct(s) /\ e \notin Elems(s) => Distinct(Append(s, e))
  BY AppendProperties DEF Elems, Distinct

\* A sequence is its first n elements and what is left.
LEMMA SplitAt ==
    ASSUME NEW S, NEW s \in Seq(S), NEW n \in 1 .. Len(s)
    PROVE  /\ SubSeq(s, 1, n) \in Seq(S) /\ Len(SubSeq(s, 1, n)) = n
           /\ SubSeq(s, 1, n) \o Left(s, n) = s
<1>1. Len(s) \in Nat \ {0} /\ \A i \in 1 .. n : s[i] \in S
  OBVIOUS
<1>2. SubSeq(s, 1, n) \in Seq(S) /\ Len(SubSeq(s, 1, n)) = n
  BY <1>1, SubSeqProperties
<1>3. SubSeq(s, 1, n) \o SubSeq(s, n + 1, Len(s)) = SubSeq(s, 1, Len(s))
  BY <1>1, ConcatAdjacentSubSeq
<1> QED BY <1>2, <1>3, LeftNothing DEF Left

-----------------------------------------------------------------------------
\* The page the driver reads, the other one, and how much of the page is read.
Here == page[list.page]
There == page[Other(list.page)]
Place == (list.pos - 1) + (IF spent THEN 1 ELSE 0)

LEMMA PendingTyped ==
    ASSUME TypeOK, SpentIsLast
    PROVE  /\ Here \in Seq(BDs) /\ There \in Seq(BDs) /\ Other(list.page) \in 0 .. 1
           /\ Other(list.page) # list.page /\ Other(Other(list.page)) = list.page
           /\ Place \in 0 .. Len(Here) /\ list.pos \in Nat
           /\ Unread = Left(Here, Place)
           /\ Unread \in Seq(BDs) /\ Listed \in Seq(BDs) /\ Pending \in Seq(BDs)
<1>1. /\ list.page \in 0 .. 1 /\ Other(list.page) \in 0 .. 1
      /\ Other(list.page) # list.page /\ Other(Other(list.page)) = list.page
  BY DEF TypeOK, Other
<1>2. Here \in Seq(BDs) /\ There \in Seq(BDs)
  BY <1>1 DEF TypeOK, Here, There
<1>3. Place \in 0 .. Len(Here) /\ list.pos \in Nat
  BY <1>2 DEF TypeOK, SpentIsLast, Here, Place
<1>4. Unread = Left(Here, Place)
  <2>1. (list.pos - 1) + (IF spent THEN 1 ELSE 0) + 1 = list.pos + (IF spent THEN 1 ELSE 0)
    BY <1>3
  <2> QED BY <2>1 DEF Unread, Left, Here, Place
<1>5. Unread \in Seq(BDs)
  BY <1>2, <1>3, <1>4, LeftTyped
<1>6. Listed \in Seq(BDs)
  <2>1. CASE count = 0
    BY <2>1 DEF Listed
  <2>2. CASE count = 1
    BY <2>2, <1>5 DEF Listed
  <2>3. CASE count # 0 /\ count # 1
    BY <2>3, <1>2, <1>5 DEF Listed, There
  <2> QED BY <2>1, <2>2, <2>3
<1>7. Pending \in Seq(BDs)
  BY <1>6 DEF TypeOK, Pending
<1> QED BY <1>1, <1>2, <1>3, <1>4, <1>5, <1>6, <1>7

\* What is listed, count by count.
LEMMA ListedIs ==
    /\ count = 0 => Listed = <<>>
    /\ count = 1 => Listed = Unread
    /\ count = 2 => Listed = Unread \o There
  BY DEF Listed, There

LEMMA PendingKept ==
    ASSUME UNCHANGED <<page, count, list, spent, rxq>>
    PROVE  Pending' = Pending
  BY DEF Pending, Listed, Unread

LEMMA PendingGrows ==
    ASSUME TypeOK, SpentIsLast, UNCHANGED <<page, count, list, spent>>,
           NEW b \in BDs, rxq' = Append(rxq, b)
    PROVE  Pending' = Append(Pending, b)
<1>1. Listed' = Listed
  BY DEF Listed, Unread
<1>2. Listed \in Seq(BDs) /\ rxq \in Seq(BDs)
  BY PendingTyped DEF TypeOK
<1>3. Append(rxq, b) = rxq \o <<b>> /\ <<b>> \in Seq(BDs)
      /\ Append(Listed \o rxq, b) = (Listed \o rxq) \o <<b>>
  BY <1>2, AppendIsConcat
<1>4. (Listed \o rxq) \o <<b>> = Listed \o (rxq \o <<b>>)
  BY <1>2, <1>3, ConcatAssociative
<1> QED BY <1>1, <1>3, <1>4 DEF Pending

\* A step of the driver that leaves n of the unread entries behind it.
LEMMA PendingShrinks ==
    ASSUME TypeOK, SpentIsLast, count > 0, NEW n \in 0 .. Len(Unread),
           UNCHANGED <<rxq, page, count, list.page>>, Unread' = Left(Unread, n)
    PROVE  n \in 0 .. Len(Pending) /\ Pending' = Left(Pending, n)
<1>1. Unread \in Seq(BDs) /\ There \in Seq(BDs) /\ rxq \in Seq(BDs) /\ Listed \in Seq(BDs)
  BY PendingTyped DEF TypeOK
<1>2. There' = There
  BY DEF There, Other
<1>3. n \in 0 .. Len(Listed) /\ Listed' = Left(Listed, n)
  <2>1. CASE count = 1
    BY <2>1, <1>1 DEF Listed
  <2>2. CASE count = 2
    <3>1. Left(Unread \o There, n) = Left(Unread, n) \o There
      BY <1>1, LeftConcat
    <3>2. Listed = Unread \o There /\ Listed' = Unread' \o There'
      BY <2>2 DEF Listed, There
    <3> QED BY <1>1, <1>2, <3>1, <3>2
  <2> QED BY <2>1, <2>2 DEF TypeOK
<1>4. n \in 0 .. Len(Listed \o rxq)
  BY <1>1, <1>3
<1>5. Left(Listed \o rxq, n) = Left(Listed, n) \o rxq
  BY <1>1, <1>3, LeftConcat
<1> QED BY <1>3, <1>4, <1>5 DEF Pending

\* An entry is handled: it was the first of those that wait.
LEMMA PendingTaken ==
    ASSUME TypeOK, SpentIsLast, PagesInTurn, tl = "read", ~AtEnd,
           UNCHANGED <<rxq, page, count, list.page>>,
           list.pos + 1 = list'.pos + (IF spent' THEN 1 ELSE 0)
    PROVE  /\ Pending \in Seq(BDs) /\ Pending # <<>> /\ Entry = Pending[1]
           /\ Entry \in Elems(Pending) /\ Pending' = Left(Pending, 1)
<1>1. ~spent /\ count > 0 /\ count \in 1 .. 2
  BY DEF SpentIsLast, PagesInTurn, TypeOK
<1>2. /\ Here \in Seq(BDs) /\ There \in Seq(BDs) /\ Place \in 0 .. Len(Here)
      /\ list.pos \in Nat /\ Unread = Left(Here, Place) /\ Pending \in Seq(BDs)
      /\ Unread \in Seq(BDs) /\ rxq \in Seq(BDs)
  BY PendingTyped DEF TypeOK
<1>3. Place = list.pos - 1 /\ Place < Len(Here) /\ Entry = Here[Place + 1]
  BY <1>1, <1>2, SMTT(30) DEF Place, AtEnd, Entry, Here
<1>4. Len(Here) \in Nat /\ Len(Unread) = Len(Here) - Place /\ Unread[1] = Here[Place + 1]
  <2>1. Len(Here) \in Nat /\ 1 \in 1 .. Len(Here) - Place /\ 1 + Place = Place + 1
    BY <1>2, <1>3, SMTT(30)
  <2>2. /\ Len(Left(Here, Place)) = Len(Here) - Place
        /\ \A i \in 1 .. Len(Here) - Place : Left(Here, Place)[i] = Here[i + Place]
    BY <1>2, LeftTyped
  <2>3. Left(Here, Place)[1] = Here[1 + Place]
    BY <2>1, <2>2
  <2> QED BY <1>2, <2>1, <2>2, <2>3
<1>5. 1 \in 0 .. Len(Unread) /\ Unread # <<>>
  <2>1. Place \in 0 .. Len(Here) /\ Place < Len(Here) /\ Len(Here) \in Nat
        /\ Len(Unread) = Len(Here) - Place
    BY <1>2, <1>3, <1>4, Zenon
  <2>2. Len(Unread) \in Nat /\ Len(Unread) >= 1
    BY <2>1
  <2> QED BY <2>2
<1>6. Here' = Here
  BY DEF Here
<1>7. Unread' = Left(Here, Place + 1)
  <2>1. Unread' = SubSeq(Here', list'.pos + (IF spent' THEN 1 ELSE 0), Len(Here'))
    BY DEF Unread, Here
  <2>2. list'.pos + (IF spent' THEN 1 ELSE 0) = (Place + 1) + 1
    BY <1>2, <1>3
  <2> QED BY <1>6, <2>1, <2>2 DEF Left
<1>8. Unread' = Left(Unread, 1)
  <2>1. 1 \in 0 .. Len(Here) - Place
    BY <1>2, <1>3
  <2> QED BY <1>2, <1>7, <2>1, LeftTwice
<1>9. 1 \in 0 .. Len(Pending) /\ Pending' = Left(Pending, 1)
  BY <1>1, <1>5, <1>8, PendingShrinks
<1>10. Pending[1] = Unread[1]
  BY <1>1, <1>2, <1>4, <1>5 DEF Pending, Listed
<1>11. Len(Pending) \in Nat \ {0} /\ Pending # <<>>
  BY <1>2, <1>9
<1>12. Entry \in Elems(Pending)
  <2>1. 1 \in 1 .. Len(Pending) /\ Entry = Pending[1]
    BY <1>3, <1>4, <1>10, <1>11
  <2> QED BY <2>1 DEF Elems
<1> QED BY <1>2, <1>3, <1>4, <1>9, <1>10, <1>11, <1>12

\* The driver turns the page: what it has not read of it is left behind.
LEMMA PendingTurned ==
    ASSUME TypeOK, SpentIsLast, PagesInTurn, tl = "read", NextPage, UNCHANGED rxq
    PROVE  /\ Len(Unread) \in 0 .. Len(Pending)
           /\ Pending \in Seq(BDs) /\ Pending' = Left(Pending, Len(Unread))
           /\ AtEnd => Unread = <<>>
           /\ ~AtEnd => Unread # <<>> /\ Entry = Pending[1] /\ Pending # <<>>
<1>1. ~spent /\ count \in 1 .. 2
  BY DEF SpentIsLast, PagesInTurn, TypeOK
<1>2. /\ Here \in Seq(BDs) /\ There \in Seq(BDs) /\ Place \in 0 .. Len(Here)
      /\ list.pos \in Nat /\ Unread = Left(Here, Place) /\ Pending \in Seq(BDs)
      /\ Unread \in Seq(BDs) /\ rxq \in Seq(BDs) /\ Listed \in Seq(BDs)
      /\ Other(list.page) \in 0 .. 1
  BY PendingTyped DEF TypeOK
<1>3. /\ Len(Here) \in Nat /\ Place = list.pos - 1 /\ Len(Unread) = Len(Here) - Place
      /\ \A i \in 1 .. Len(Unread) : Unread[i] = Here[i + Place]
  <2>1. Place = list.pos - 1 /\ Len(Here) \in Nat
    BY <1>1, <1>2 DEF Place
  <2>2. /\ Len(Left(Here, Place)) = Len(Here) - Place
        /\ \A i \in 1 .. Len(Here) - Place : Left(Here, Place)[i] = Here[i + Place]
    BY <1>2, LeftTyped
  <2> QED BY <1>2, <2>1, <2>2
<1>4. AtEnd <=> Len(Unread) = 0
  BY <1>2, <1>3 DEF AtEnd, Here
<1>5. /\ list' = [page |-> Other(list.page), pos |-> 1] /\ count' = count - 1
      /\ UNCHANGED <<page, spent>>
  BY DEF NextPage
<1>6. Unread' = There
  <2>1. list'.pos = 1 /\ list'.page = Other(list.page) /\ ~spent'
    BY <1>1, <1>5
  <2>2. Unread' = SubSeq(There, 1, Len(There))
    BY <1>5, <2>1 DEF Unread, There
  <2> QED BY <1>2, <2>2, LeftNothing
<1>7. Left(Unread, Len(Unread)) = <<>>
  BY <1>2, LeftNothing
<1>8. Len(Unread) \in 0 .. Len(Listed) /\ Listed' = Left(Listed, Len(Unread))
  <2>1. CASE count = 1
    BY <2>1, <1>2, <1>5, <1>7 DEF Listed
  <2>2. CASE count = 2
    <3>1. Left(Unread \o There, Len(Unread)) = <<>> \o There /\ <<>> \o There = There
      <4>1. Len(Unread) \in 0 .. Len(Unread)
        BY <1>2
      <4>2. Left(Unread \o There, Len(Unread)) = Left(Unread, Len(Unread)) \o There
        BY <1>2, <4>1, LeftConcat
      <4> QED BY <1>2, <1>7, <4>2, ConcatEmptySeq
    <3>2. Listed = Unread \o There /\ Listed' = Unread'
      BY <2>2, <1>5 DEF Listed, There
    <3> QED BY <1>2, <1>6, <3>1, <3>2
  <2> QED BY <1>1, <2>1, <2>2
<1>9. Len(Unread) \in 0 .. Len(Listed \o rxq)
  BY <1>2, <1>8
<1>10. Left(Listed \o rxq, Len(Unread)) = Left(Listed, Len(Unread)) \o rxq
  BY <1>2, <1>8, LeftConcat
<1>11. ~AtEnd => Unread # <<>> /\ Entry = Pending[1] /\ Pending # <<>>
  <2> SUFFICES ASSUME ~AtEnd
               PROVE  Unread # <<>> /\ Entry = Pending[1] /\ Pending # <<>>
    OBVIOUS
  <2>1. 1 \in 1 .. Len(Unread) /\ Unread[1] = Here[list.pos] /\ 1 + Place = list.pos
    <3>1. Len(Unread) # 0 /\ Len(Unread) \in Nat
      BY <1>2, <1>4
    <3>2. 1 \in 1 .. Len(Unread) /\ 1 + Place = list.pos
      BY <1>2, <1>3, <3>1, SMTT(30)
    <3> QED BY <1>3, <3>2
  <2>2. Pending[1] = Unread[1] /\ Len(Pending) > 0
    BY <1>1, <1>2, <2>1 DEF Pending, Listed
  <2> QED BY <1>2, <2>1, <2>2 DEF Entry, Here
<1> QED BY <1>2, <1>4, <1>8, <1>9, <1>10, <1>11 DEF Pending

\* The accumulator only moves what waits.
LEMMA PendingMoved ==
    ASSUME TypeOK, SpentIsLast, PagesInTurn, Accumulate
    PROVE  /\ Pending' = Pending
           /\ count = 0 => page'[list.page] # <<>>
           /\ count > 0 => page'[list.page] = page[list.page]
           /\ count = 1 => page'[Other(list.page)] # <<>>
           /\ rxq' \in Seq(BDs) /\ page' \in [0 .. 1 -> Seq(BDs)]
<1>1. PICK n \in 1 .. PageLen :
        /\ n <= Len(rxq)
        /\ page' = [page EXCEPT ![hwpage] = SubSeq(rxq, 1, n)]
        /\ rxq' = SubSeq(rxq, n + 1, Len(rxq))
  BY DEF Accumulate
<1>2. rxq \in Seq(BDs) /\ n \in 1 .. Len(rxq) /\ n \in 0 .. Len(rxq)
  BY <1>1, VoiceNiAssumption DEF TypeOK
<1> DEFINE m == SubSeq(rxq, 1, n)
<1>3. m \in Seq(BDs) /\ Len(m) = n /\ m \o rxq' = rxq /\ rxq' \in Seq(BDs)
      /\ m # <<>>
  <2>1. m \in Seq(BDs) /\ Len(m) = n /\ m \o Left(rxq, n) = rxq
    BY <1>2, SplitAt
  <2>2. Left(rxq, n) \in Seq(BDs) /\ rxq' = Left(rxq, n)
    BY <1>1, <1>2, LeftTyped DEF Left
  <2> HIDE DEF m
  <2> QED BY <1>2, <2>1, <2>2
<1> HIDE DEF m
<1>4. /\ page \in [0 .. 1 -> Seq(BDs)] /\ hwpage \in 0 .. 1 /\ list.page \in 0 .. 1
      /\ list.pos \in Nat
      /\ page'[hwpage] = m /\ \A p \in 0 .. 1 : p # hwpage => page'[p] = page[p]
      /\ page' \in [0 .. 1 -> Seq(BDs)]
  BY <1>1, <1>3 DEF TypeOK, m
<1>5. Has("chan") /\ count \in 0 .. 1 /\ count' = count + 1 /\ UNCHANGED <<list, spent>>
  BY DEF Accumulate, TypeOK, rx
<1>6. Listed \in Seq(BDs) /\ Unread \in Seq(BDs)
  BY PendingTyped
<1>7. CASE count = 0
  <2>1. hwpage = list.page /\ list.pos = 1 /\ ~spent
    BY <1>5, <1>7 DEF PagesInTurn, SpentIsLast
  <2>2. page'[list.page] = m
    BY <1>4, <2>1
  <2>3. Unread' = SubSeq(m, 1, Len(m))
    BY <1>5, <2>1, <2>2 DEF Unread
  <2>4. Listed' = m /\ Listed = <<>>
    <3>1. count' = 1 /\ SubSeq(m, 1, Len(m)) = m
      BY <1>3, <1>5, <1>7, LeftNothing
    <3> QED BY <1>7, <2>3, <3>1 DEF Listed
  <2>5. <<>> \o rxq = rxq
    BY <1>2, ConcatEmptySeq
  <2> QED BY <1>3, <1>4, <1>7, <2>2, <2>4, <2>5 DEF Pending
<1>8. CASE count = 1
  <2>1. hwpage = Other(list.page) /\ hwpage # list.page
    BY <1>4, <1>5, <1>8 DEF PagesInTurn, Other
  <2>2. page'[list.page] = page[list.page] /\ page'[Other(list.page)] = m
    BY <1>4, <2>1
  <2>3. Unread' = Unread
    BY <1>5, <2>2 DEF Unread
  <2>4. Listed' = Unread \o m /\ Listed = Unread
    <3>1. count' = 2
      BY <1>5, <1>8
    <3> QED BY <1>5, <1>8, <2>2, <2>3, <3>1 DEF Listed
  <2>5. (Unread \o m) \o rxq' = Unread \o (m \o rxq')
    <3>1. \A a, b, c \in Seq(BDs) : (a \o b) \o c = a \o (b \o c)
      BY ConcatAssociative, SMTT(30)
    <3> QED BY <1>3, <1>6, <3>1, ZenonT(90)
  <2> QED BY <1>3, <1>4, <1>8, <2>2, <2>4, <2>5 DEF Pending
<1> QED BY <1>5, <1>7, <1>8

LEMMA PendingEmptied ==
    ASSUME count = 0, rxq = <<>>
    PROVE  Pending = <<>>
  BY DEF Pending, Listed

\* Where no page is filled, only the queue counts.
LEMMA PendingIsQueue ==
    ASSUME TypeOK, count = 0
    PROVE  Pending = rxq
<1>1. rxq \in Seq(BDs) /\ <<>> \o rxq = rxq
  BY ConcatEmptySeq DEF TypeOK
<1> QED BY <1>1 DEF Pending, Listed

\* Types.  The accumulator fills the page the driver reads only when the driver is
\* at its start.
LEMMA TypesKept == IInv /\ Next => TypeOK'
<1> SUFFICES ASSUME IInv, ~oops, Next PROVE TypeOK'
  BY DEF Next
<1> USE VoiceNiAssumption DEF IInv
<1>1. CASE ModRegister
  BY <1>1 DEF ModRegister, TypeOK, life, bds, hw, rx
<1>2. ASSUME NEW ok \in BOOLEAN, ModPal(ok) PROVE TypeOK'
  BY <1>2, ZenonT(90) DEF ModPal, TypeOK, life, bds, hw, rx, CreatePid, Resources
<1>3. CASE ModLookup \/ ModReady
  <2>1. CASE ModLookup
    BY <2>1, ZenonT(90) DEF ModLookup, TypeOK, life, bds, hw, rx
  <2>2. CASE ModReady
    BY <2>2, ZenonT(90) DEF ModReady, TypeOK, life, bds, hw, rx
  <2> QED BY <1>3, <2>1, <2>2
<1>4. CASE NetdevEvent
  BY <1>4, ZenonT(90) DEF NetdevEvent, TypeOK, life, bds, hw, rx
<1>5. ASSUME NEW q \in BOOLEAN, NEW a \in BOOLEAN, NEW o \in SUBSET Queues,
             OpenQueues(q, a, o)
      PROVE  TypeOK'
  BY <1>5 DEF OpenQueues, TypeOK, life, bds, hw, rx, Resources, FreeBdPool,
         FreeBdQueue, VoiceQueues, DspQueues
<1>6. ASSUME NEW m \in BOOLEAN, NEW c \in BOOLEAN, NEW l \in BOOLEAN, OpenChannel(m, c, l)
      PROVE  TypeOK'
  <2>1. [p \in 0 .. 1 |-> <<>>] \in [0 .. 1 -> Seq(BDs)]
    OBVIOUS
  <2>2. /\ page' = [p \in 0 .. 1 |-> <<>>] /\ list' = [page |-> 0, pos |-> 1]
        /\ page'[list'.page] = <<>> /\ Len(<<>>) = 0
    BY <1>6 DEF OpenChannel
  <2>3. /\ list' \in [page : 0 .. 1, pos : Nat \ {0}] /\ list'.pos <= Len(page'[list'.page]) + 1
        /\ page' \in [0 .. 1 -> Seq(BDs)] /\ UNCHANGED rxq
    BY <1>6, <2>1, <2>2 DEF OpenChannel, bds
  <2>4. res' \subseteq Resources /\ oops' \in BOOLEAN
    BY <1>6 DEF OpenChannel, TypeOK, Resources
  <2>5. /\ op' = "channel" /\ hwpage' = 0 /\ count' = 0
        /\ irq' = FALSE /\ armed' = TRUE /\ spent' = FALSE
        /\ UNCHANGED <<world, mod, mta, ptr, bds, tl, sched>>
    BY <1>6 DEF OpenChannel
  <2>6. UNCHANGED <<world, mod, mta, ptr, free, pool, buf, rxq, toDsp, recycled, tl, sched>>
    BY <2>5 DEF bds
  <2>7. /\ op' \in {"down", "queues", "channel", "up", "closing", "closed"}
        /\ hwpage' \in 0 .. 1 /\ count' \in 0 .. 2
    BY <2>5
  <2>8. irq' \in BOOLEAN /\ armed' \in BOOLEAN /\ spent' \in BOOLEAN
    BY <2>5, Zenon
  <2> QED BY <2>3, <2>4, <2>6, <2>7, <2>8 DEF TypeOK
<1>7. ASSUME NEW q \in BOOLEAN, OpenTasklet(q) PROVE TypeOK'
  <2>1. res' \subseteq Resources /\ op' \in {"up"}
    BY <1>7 DEF OpenTasklet, TypeOK, Resources
  <2> QED BY <1>7, <2>1, ZenonT(90) DEF OpenTasklet, TypeOK, life, bds, hw, rx
<1>8. CASE CloseChannel
  <2>1. res' \subseteq Resources /\ oops' \in BOOLEAN
    BY <1>8 DEF CloseChannel, TypeOK, MayCrash
  <2> QED BY <1>8, <2>1 DEF CloseChannel, TypeOK, life, bds, hw, rx
<1>9. CASE CloseQueues
  <2>1. res' \subseteq Resources /\ oops' \in BOOLEAN
    BY <1>9 DEF CloseQueues, TypeOK, MayCrash
  <2> QED BY <1>9, <2>1 DEF CloseQueues, TypeOK, life, bds, hw, rx
<1>10. CASE CloseList
  BY <1>10 DEF CloseList, TypeOK, life, bds, hw, rx
<1>11. CASE Xmit
  <2>1. oops' \in BOOLEAN
    BY <1>11 DEF Xmit
  <2> QED BY <1>11, <2>1 DEF Xmit, TypeOK, life, bds, hw, rx, BDs
<1>12. ASSUME NEW b \in Own, NEW u \in Bufs, DspSend(b, u) PROVE TypeOK'
  BY <1>12 DEF DspSend, TypeOK, life, bds, hw, rx, BDs
<1>13. ASSUME NEW b \in Own, DspDone(b) PROVE TypeOK'
  <2>1. buf[b] \in Bufs
    BY <1>13 DEF DspDone, BufsHeld
  <2> QED BY <1>13, <2>1 DEF DspDone, TypeOK, life, bds, hw, rx, BDs
<1>14. ASSUME NEW b \in Foreign, ForeignSend(b) PROVE TypeOK'
  BY <1>14 DEF ForeignSend, TypeOK, life, bds, hw, rx, BDs
<1>15. ASSUME NEW b \in Foreign, Recycle(b) PROVE TypeOK'
  BY <1>15 DEF Recycle, TypeOK, life, bds, hw, rx
<1>16. CASE Accumulate
  <2>1. /\ count < 2 /\ count' = count + 1 /\ hwpage' = Other(hwpage)
        /\ irq' \in BOOLEAN /\ armed' \in BOOLEAN
        /\ UNCHANGED <<life, oops, free, pool, buf, toDsp, recycled, rx>>
    BY <1>16 DEF Accumulate, TypeOK
  <2>2. rxq' \in Seq(BDs) /\ page' \in [0 .. 1 -> Seq(BDs)]
    BY <1>16, PendingMoved
  <2>3. list.pos <= Len(page'[list.page]) + 1
    <3>1. page'[list.page] \in Seq(BDs) /\ list.pos \in Nat
      BY <2>2 DEF TypeOK
    <3>2. CASE count = 0
      BY <1>16, <3>1, <3>2 DEF PagesInTurn, Accumulate
    <3>3. CASE count > 0
      BY <1>16, <3>3, PendingMoved DEF TypeOK
    <3> QED BY <3>2, <3>3 DEF TypeOK
  <2> QED BY <2>1, <2>2, <2>3 DEF TypeOK, Other, life, rx
<1>17. CASE Isr
  BY <1>17, ZenonT(90) DEF Isr, TypeOK, life, bds, hw, rx
<1>18. CASE TaskletRun
  BY <1>18, ZenonT(60) DEF TaskletRun, TypeOK, life, bds, hw, rx
<1>19. CASE RxTest
  BY <1>19, ZenonT(60) DEF RxTest, TypeOK, life, bds, hw, rx
<1>20. CASE RxEoi
  BY <1>20, ZenonT(60) DEF RxEoi, TypeOK, life, bds, hw, rx
<1>21. ASSUME NEW skb \in BOOLEAN, RxForward(skb) PROVE TypeOK'
  <2>1. /\ list' = [page |-> list.page, pos |-> list.pos + 1] /\ ~spent /\ ~spent'
        /\ list.page \in 0 .. 1 /\ list.pos \in Nat
        /\ UNCHANGED <<rxq, page, count>> /\ tl = "read" /\ ~AtEnd /\ Entry \in Own
    BY <1>21 DEF RxForward, Advance, TypeOK, SpentIsLast, hw, rx
  <2>2. buf[Entry] \in Bufs
    BY <2>1, PendingTaken DEF BufsHeld
  <2>3. /\ pool' \subseteq Bufs /\ buf' \in [BDs -> Bufs \cup {None}] /\ free' \subseteq Own
        /\ oops' \in BOOLEAN
    BY <1>21, <2>2 DEF RxForward, GiveBack, TypeOK
  <2>4. list' \in [page : 0 .. 1, pos : Nat \ {0}] /\ list'.pos <= Len(page'[list'.page]) + 1
    BY <2>1 DEF AtEnd, TypeOK
  <2> QED BY <1>21, <2>3, <2>4 DEF RxForward, TypeOK, life, hw, rx
<1>22. CASE RxLoop
  BY <1>22, SMTT(30) DEF RxLoop, TypeOK, life, bds, hw, rx, Advance, AtEnd
<1>23. CASE RxCapture
  <2>1. list.pos + 1 = list'.pos + (IF spent' THEN 1 ELSE 0)
    BY <1>23, PendingTyped DEF RxCapture, TypeOK, SpentIsLast, life, bds, hw, rx
  <2>2. buf[Entry] \in Bufs
    BY <1>23, <2>1, PendingTaken DEF RxCapture, BufsHeld, life, bds, hw, rx
  <2> QED BY <1>23, <2>2, ZenonT(60) DEF RxCapture, GiveBack, AtEnd, TypeOK, life, bds, hw, rx
<1>24. CASE RxPageEnd
  BY <1>24 DEF RxPageEnd, TypeOK, life, bds, hw, rx, NextPage, Other,
         PagesInTurn
<1>25. CASE RxForeign
  BY <1>25 DEF RxForeign, TypeOK, life, bds, hw, rx, NextPage, Other,
         PagesInTurn
<1> QED BY <1>1, <1>2, <1>3, <1>4, <1>5, <1>6, <1>7, <1>8, <1>9, <1>10,
       <1>11, <1>12, <1>13, <1>14, <1>15, <1>16, <1>17, <1>18, <1>19, <1>20,
       <1>21, <1>22, <1>23, <1>24, <1>25 DEF Next, Module, Interface,
       Hardware, Tasklet

\* The pages and the interrupt.
LEMMA TurnKept == IInv /\ Next => (PagesInTurn /\ SpentIsLast /\ Served)'
<1> SUFFICES ASSUME IInv, ~oops, Next PROVE (PagesInTurn /\ SpentIsLast /\ Served)'
  BY DEF Next
<1> USE VoiceNiAssumption DEF IInv
<1>1. CASE ModRegister
  BY <1>1 DEF ModRegister, PagesInTurn, SpentIsLast, Served, Coming, TypeOK, Has,
         life, bds, hw, rx
<1>2. ASSUME NEW ok \in BOOLEAN, ModPal(ok)
      PROVE  (PagesInTurn /\ SpentIsLast /\ Served)'
  <2>1. /\ "chan" \in res' <=> "chan" \in res
        /\ UNCHANGED <<world, op, hw, rx>>
    BY <1>2 DEF ModPal, CreatePid
  <2> QED BY <2>1 DEF PagesInTurn, SpentIsLast, Served, Coming, Has, hw, rx
<1>3. CASE ModLookup \/ ModReady
  BY <1>3 DEF ModLookup, ModReady, PagesInTurn, SpentIsLast, Served, Coming, TypeOK, Has, life,
         bds, hw, rx
<1>4. CASE NetdevEvent
  BY <1>4 DEF NetdevEvent, PagesInTurn, SpentIsLast, Served, Coming, TypeOK, Has,
         life, bds, hw, rx
<1>5. ASSUME NEW q \in BOOLEAN, NEW a \in BOOLEAN, NEW o \in SUBSET Queues,
             OpenQueues(q, a, o)
      PROVE  (PagesInTurn /\ SpentIsLast /\ Served)'
  BY <1>5 DEF OpenQueues, PagesInTurn, SpentIsLast, Served, Coming, TypeOK, Has,
         life, bds, hw, rx, FreeBdQueue, VoiceQueues, DspQueues
<1>6. ASSUME NEW m \in BOOLEAN, NEW c \in BOOLEAN, NEW l \in BOOLEAN, OpenChannel(m, c, l)
      PROVE  (PagesInTurn /\ SpentIsLast /\ Served)'
  BY <1>6 DEF OpenChannel, PagesInTurn, SpentIsLast, Served, Coming, TypeOK, Has,
         life, bds, hw, rx
<1>7. ASSUME NEW q \in BOOLEAN, OpenTasklet(q)
      PROVE  (PagesInTurn /\ SpentIsLast /\ Served)'
  BY <1>7 DEF OpenTasklet, PagesInTurn, SpentIsLast, Served, Coming, TypeOK, Has,
         life, bds, hw, rx
<1>8. CASE CloseChannel
  BY <1>8 DEF CloseChannel, PagesInTurn, SpentIsLast, Served, Coming, TypeOK, Has,
         life, bds, hw, rx
<1>9. CASE CloseQueues
  BY <1>9 DEF CloseQueues, PagesInTurn, SpentIsLast, Served, Coming, TypeOK, Has,
         life, bds, hw, rx, Idle
<1>10. CASE CloseList
  BY <1>10 DEF CloseList, PagesInTurn, SpentIsLast, Served, Coming, TypeOK, Has,
         life, bds, hw, rx
<1>11. CASE Xmit
  BY <1>11 DEF Xmit, PagesInTurn, SpentIsLast, Served, Coming, TypeOK, Has, life,
         bds, hw, rx
<1>12. ASSUME NEW b \in Own, NEW u \in Bufs, DspSend(b, u)
       PROVE  (PagesInTurn /\ SpentIsLast /\ Served)'
  BY <1>12 DEF DspSend, PagesInTurn, SpentIsLast, Served, Coming, TypeOK, Has, life,
         bds, hw, rx
<1>13. ASSUME NEW b \in Own, DspDone(b)
       PROVE  (PagesInTurn /\ SpentIsLast /\ Served)'
  BY <1>13 DEF DspDone, PagesInTurn, SpentIsLast, Served, Coming, TypeOK, Has, life,
         bds, hw, rx
<1>14. ASSUME NEW b \in Foreign, ForeignSend(b)
       PROVE  (PagesInTurn /\ SpentIsLast /\ Served)'
  BY <1>14 DEF ForeignSend, PagesInTurn, SpentIsLast, Served, Coming, TypeOK, Has,
         life, bds, hw, rx
<1>15. ASSUME NEW b \in Foreign, Recycle(b)
       PROVE  (PagesInTurn /\ SpentIsLast /\ Served)'
  BY <1>15 DEF Recycle, PagesInTurn, SpentIsLast, Served, Coming, TypeOK, Has, life,
         bds, hw, rx
<1>16. CASE Accumulate
  <2>1. /\ Has("chan") /\ count \in 0 .. 1 /\ count' = count + 1
        /\ hwpage' = 1 - hwpage /\ hwpage \in 0 .. 1 /\ list.page \in 0 .. 1
        /\ irq' = (irq \/ armed) /\ armed' = FALSE
        /\ UNCHANGED <<world, op, res, list, spent, tl, sched>>
    BY <1>16 DEF Accumulate, TypeOK, Other, life, rx
  <2>2. /\ count = 0 => page'[list.page] # <<>>
        /\ count > 0 => page'[list.page] = page[list.page]
        /\ count = 1 => page'[Other(list.page)] # <<>>
    BY <1>16, PendingMoved
  <2>3. PagesInTurn'
    BY <2>1, <2>2 DEF PagesInTurn, Has, Other
  <2>4. SpentIsLast'
    <3>1. ASSUME spent PROVE page'[list.page] = page[list.page] /\ ~irq' /\ count' > 0
      <4>1. ~irq /\ ~armed /\ count > 0
        BY <2>1, <3>1 DEF SpentIsLast
      <4>2. ~irq'
        BY <2>1, <4>1, Zenon
      <4> QED BY <2>1, <2>2, <4>1, <4>2
    <3> QED BY <2>1, <3>1 DEF SpentIsLast
  <2>5. Served'
    BY <2>1 DEF Served, Coming
  <2> QED BY <2>3, <2>4, <2>5
<1>17. CASE Isr
  BY <1>17 DEF Isr, PagesInTurn, SpentIsLast, Served, Coming, TypeOK, Has, life, bds,
         hw, rx, ClosedQuiet, Calm
<1>18. CASE TaskletRun
  BY <1>18 DEF TaskletRun, PagesInTurn, SpentIsLast, Served, Coming, TypeOK, Has,
         life, bds, hw, rx
<1>19. CASE RxTest
  BY <1>19 DEF RxTest, PagesInTurn, SpentIsLast, Served, Coming, TypeOK, Has, life,
         bds, hw, rx
<1>20. CASE RxEoi
  BY <1>20 DEF RxEoi, PagesInTurn, SpentIsLast, Served, Coming, TypeOK, Has, life,
         bds, hw, rx
<1>21. ASSUME NEW skb \in BOOLEAN, RxForward(skb)
       PROVE  (PagesInTurn /\ SpentIsLast /\ Served)'
  BY <1>21 DEF RxForward, PagesInTurn, SpentIsLast, Served, Coming, TypeOK, Has,
         life, bds, hw, rx, Advance, AtEnd
<1>22. CASE RxLoop
  BY <1>22 DEF RxLoop, PagesInTurn, SpentIsLast, Served, Coming, TypeOK, Has, life,
         bds, hw, rx, Advance, AtEnd
<1>23. CASE RxCapture
  BY <1>23 DEF RxCapture, PagesInTurn, SpentIsLast, Served, Coming, TypeOK, Has,
         life, bds, hw, rx, AtEnd, ClosedQuiet, Calm
<1>24. CASE RxPageEnd
  BY <1>24 DEF RxPageEnd, PagesInTurn, SpentIsLast, Served, Coming, TypeOK, Has,
         life, bds, hw, rx, NextPage, Other
<1>25. CASE RxForeign
  BY <1>25 DEF RxForeign, PagesInTurn, SpentIsLast, Served, Coming, TypeOK, Has,
         life, bds, hw, rx, NextPage, Other
<1> QED BY <1>1, <1>2, <1>3, <1>4, <1>5, <1>6, <1>7, <1>8, <1>9, <1>10,
       <1>11, <1>12, <1>13, <1>14, <1>15, <1>16, <1>17, <1>18, <1>19, <1>20,
       <1>21, <1>22, <1>23, <1>24, <1>25 DEF Next, Module, Interface,
       Hardware, Tasklet

\* What there is after open and close.
LEMMA WholeKept == IInv /\ Next => (OpenWhole /\ MtaThere)'
<1> SUFFICES ASSUME IInv, ~oops, Next PROVE (OpenWhole /\ MtaThere)'
  BY DEF Next
<1> USE VoiceNiAssumption DEF IInv
<1>1. CASE ModRegister
  BY <1>1 DEF ModRegister, OpenWhole, MtaThere, Calm, Works, Has, life, bds,
         hw, rx
<1>2. ASSUME NEW ok \in BOOLEAN, ModPal(ok) PROVE (OpenWhole /\ MtaThere)'
  BY <1>2 DEF ModPal, OpenWhole, MtaThere, Calm, Works, Has, life, bds, hw,
         rx, CreatePid
<1>3. CASE ModLookup \/ ModReady
  BY <1>3 DEF ModLookup, ModReady, OpenWhole, MtaThere, Calm, Works, Has, life, bds, hw,
         rx
<1>4. CASE NetdevEvent
  BY <1>4 DEF NetdevEvent, OpenWhole, MtaThere, Calm, Works, Has, life, bds,
         hw, rx
<1>5. ASSUME NEW q \in BOOLEAN, NEW a \in BOOLEAN, NEW o \in SUBSET Queues,
             OpenQueues(q, a, o)
      PROVE  (OpenWhole /\ MtaThere)'
  <2>1. /\ op = "down" /\ op' = "queues" /\ UNCHANGED <<world, mod, mta, ptr>>
        /\ mod = "ready" \/ ~Calm
        /\ Has("pal") => "pal" \in res'
        /\ (Has("list") => "list" \in res')
        /\ Calm => /\ {"bdq", "pool"} \subseteq res' /\ Queues \subseteq res'
    BY <1>5 DEF OpenQueues, Calm, Works, Has, FreeBdQueue, VoiceQueues, DspQueues, Queues
  <2> QED BY <2>1 DEF OpenWhole, MtaThere, Calm, Has
<1>6. ASSUME NEW m \in BOOLEAN, NEW c \in BOOLEAN, NEW l \in BOOLEAN, OpenChannel(m, c, l)
      PROVE  (OpenWhole /\ MtaThere)'
  BY <1>6 DEF OpenChannel, OpenWhole, MtaThere, Calm, Works, Has, life, bds,
         hw, rx
<1>7. ASSUME NEW q \in BOOLEAN, OpenTasklet(q) PROVE (OpenWhole /\ MtaThere)'
  BY <1>7 DEF OpenTasklet, OpenWhole, MtaThere, Calm, Works, Has, life, bds,
         hw, rx
<1>8. CASE CloseChannel
  <2>1. /\ op = "up" /\ op' = "closing" /\ UNCHANGED <<world, mod, mta, ptr>>
        /\ res' = res \ {"irq", "chan"}
    BY <1>8 DEF CloseChannel
  <2>2. Queues \subseteq res => Queues \subseteq res'
    BY <2>1 DEF Queues
  <2> QED BY <2>1, <2>2 DEF OpenWhole, MtaThere, Calm, Has
<1>9. CASE CloseQueues
  <2>1. /\ op = "closing" /\ op' = "closed" /\ UNCHANGED <<world, mod, mta, ptr>>
        /\ res' = res \ (Queues \cup {"recycle", "bdq", "pool"})
    BY <1>9 DEF CloseQueues
  <2>2. /\ "list" \in res => "list" \in res'
        /\ "pal" \in res => "pal" \in res'
    BY <2>1 DEF Queues
  <2> QED BY <2>1, <2>2 DEF OpenWhole, MtaThere, Calm, Has
<1>10. CASE CloseList
  BY <1>10 DEF CloseList, OpenWhole, MtaThere, Calm, Works, Has, life, bds,
         hw, rx
<1>11. CASE Xmit
  BY <1>11 DEF Xmit, OpenWhole, MtaThere, Calm, Works, Has, life, bds, hw, rx
<1>12. ASSUME NEW b \in Own, NEW u \in Bufs, DspSend(b, u)
       PROVE  (OpenWhole /\ MtaThere)'
  BY <1>12 DEF DspSend, OpenWhole, MtaThere, Calm, Works, Has, life, bds, hw,
         rx
<1>13. ASSUME NEW b \in Own, DspDone(b) PROVE (OpenWhole /\ MtaThere)'
  BY <1>13 DEF DspDone, OpenWhole, MtaThere, Calm, Works, Has, life, bds, hw,
         rx
<1>14. ASSUME NEW b \in Foreign, ForeignSend(b) PROVE (OpenWhole /\ MtaThere)'
  BY <1>14 DEF ForeignSend, OpenWhole, MtaThere, Calm, Works, Has, life, bds,
         hw, rx
<1>15. ASSUME NEW b \in Foreign, Recycle(b) PROVE (OpenWhole /\ MtaThere)'
  BY <1>15 DEF Recycle, OpenWhole, MtaThere, Calm, Works, Has, life, bds, hw,
         rx
<1>16. CASE Accumulate
  BY <1>16 DEF Accumulate, OpenWhole, MtaThere, Calm, Works, Has, life, bds,
         hw, rx
<1>17. CASE Isr
  BY <1>17 DEF Isr, OpenWhole, MtaThere, Calm, Works, Has, life, bds, hw, rx
<1>18. CASE TaskletRun
  BY <1>18 DEF TaskletRun, OpenWhole, MtaThere, Calm, Works, Has, life, bds,
         hw, rx
<1>19. CASE RxTest
  BY <1>19 DEF RxTest, OpenWhole, MtaThere, Calm, Works, Has, life, bds, hw,
         rx
<1>20. CASE RxEoi
  BY <1>20 DEF RxEoi, OpenWhole, MtaThere, Calm, Works, Has, life, bds, hw,
         rx
<1>21. ASSUME NEW skb \in BOOLEAN, RxForward(skb)
       PROVE  (OpenWhole /\ MtaThere)'
  BY <1>21 DEF RxForward, OpenWhole, MtaThere, Calm, Works, Has, life, bds,
         hw, rx
<1>22. CASE RxLoop
  BY <1>22 DEF RxLoop, OpenWhole, MtaThere, Calm, Works, Has, life, bds, hw,
         rx
<1>23. CASE RxCapture
  BY <1>23 DEF RxCapture, OpenWhole, MtaThere, Calm, Works, Has, life, bds,
         hw, rx
<1>24. CASE RxPageEnd
  BY <1>24 DEF RxPageEnd, OpenWhole, MtaThere, Calm, Works, Has, life, bds,
         hw, rx
<1>25. CASE RxForeign
  BY <1>25 DEF RxForeign, OpenWhole, MtaThere, Calm, Works, Has, life, bds,
         hw, rx
<1> QED BY <1>1, <1>2, <1>3, <1>4, <1>5, <1>6, <1>7, <1>8, <1>9, <1>10,
       <1>11, <1>12, <1>13, <1>14, <1>15, <1>16, <1>17, <1>18, <1>19, <1>20,
       <1>21, <1>22, <1>23, <1>24, <1>25 DEF Next, Module, Interface,
       Hardware, Tasklet

-----------------------------------------------------------------------------
\* The steps that leave every descriptor and buffer where it is.
Still ==
    \/ Module
    \/ \E m, c, l \in BOOLEAN : OpenChannel(m, c, l)
    \/ \E q \in BOOLEAN : OpenTasklet(q)
    \/ CloseChannel \/ CloseList \/ Accumulate \/ Isr
    \/ TaskletRun \/ RxTest \/ RxEoi \/ RxPageEnd

LEMMA StillKeeps ==
    ASSUME IInv, Still
    PROVE  /\ Pending' = Pending /\ UNCHANGED <<world, free, pool, buf, toDsp, recycled>>
           /\ "pool" \in res' <=> "pool" \in res
           /\ op' \in {"down", "closed"} => op \in {"down", "closed"}
           /\ op' # "up" => op # "up" \/ CloseChannel
<1> DEFINE G == /\ Pending' = Pending /\ UNCHANGED <<world, free, pool, buf, toDsp, recycled>>
                /\ "pool" \in res' <=> "pool" \in res
                /\ op' \in {"down", "closed"} => op \in {"down", "closed"}
                /\ op' # "up" => op # "up" \/ CloseChannel
<1>1. CASE Module
  BY <1>1, PendingKept DEF Module, ModRegister, ModLookup, ModReady, NetdevEvent, ModPal, CreatePid,
         bds, hw, rx
<1>2. ASSUME NEW m \in BOOLEAN, NEW c \in BOOLEAN, NEW l \in BOOLEAN, OpenChannel(m, c, l)
      PROVE  G
  <2>1. count = 0 /\ count' = 0 /\ UNCHANGED rxq /\ TypeOK
    BY <1>2 DEF OpenChannel, IInv, PagesInTurn, bds
  <2>2. Pending = rxq /\ rxq \in Seq(BDs)
    BY <2>1, PendingIsQueue DEF TypeOK
  <2>3. Pending' = Pending
    BY <2>1, <2>2, ConcatEmptySeq DEF Pending, Listed
  <2> QED BY <1>2, <2>3 DEF OpenChannel, bds
<1>3. ASSUME NEW q \in BOOLEAN, OpenTasklet(q) PROVE G
  BY <1>3, PendingKept DEF OpenTasklet, bds, hw, rx
<1>4. CASE CloseChannel
  BY <1>4, PendingKept DEF CloseChannel, bds, hw, rx
<1>5. CASE CloseList
  BY <1>5, PendingKept DEF CloseList, bds, hw, rx
<1>6. CASE Accumulate
  BY <1>6, PendingMoved DEF IInv, Accumulate, life
<1>7. CASE Isr \/ TaskletRun \/ RxTest \/ RxEoi
  BY <1>7, PendingKept DEF Isr, TaskletRun, RxTest, RxEoi, bds, hw, life
<1>8. CASE RxPageEnd
  <2>1. /\ Pending \in Seq(BDs) /\ Pending' = Left(Pending, Len(Unread))
        /\ Unread = <<>>
    BY <1>8, PendingTurned DEF RxPageEnd, IInv, bds
  <2>2. Pending' = Pending
    BY <2>1, LeftNothing
  <2> QED BY <1>8, <2>2 DEF RxPageEnd, life, bds
<1> QED BY <1>1, <1>2, <1>3, <1>4, <1>5, <1>6, <1>7, <1>8 DEF Still

\* The steps of the driver that take a packet.
TakeSteps == (\E skb \in BOOLEAN : RxForward(skb)) \/ RxLoop \/ RxCapture

LEMMA TakeStep ==
    ASSUME IInv, TakeSteps
    PROVE  /\ Entry \in Own /\ Entry \in Elems(Pending) /\ tl = "read"
           /\ Pending \in Seq(BDs) /\ Pending # <<>> /\ Pending' = Left(Pending, 1)
           /\ Elems(Pending') = Elems(Pending) \ {Entry}
           /\ Distinct(Pending')
<1> USE DEF IInv
<1>1. /\ Entry \in Own /\ tl = "read" /\ ~AtEnd /\ ~spent
      /\ list.page \in 0 .. 1 /\ list.pos \in Nat
      /\ UNCHANGED <<rxq, page, count>>
  BY DEF TakeSteps, RxForward, RxLoop, RxCapture, SpentIsLast, TypeOK, hw
<1>2. list'.page = list.page /\ list.pos + 1 = list'.pos + (IF spent' THEN 1 ELSE 0)
  <2>1. CASE RxCapture
    BY <1>1, <2>1 DEF RxCapture
  <2>2. CASE ~RxCapture
    <3>1. list' = [list EXCEPT !.pos = list.pos + 1] /\ spent' = spent
      BY <2>2 DEF TakeSteps, RxForward, RxLoop, Advance
    <3>2. list' = [page |-> list.page, pos |-> list.pos + 1]
      BY <3>1 DEF TypeOK
    <3> QED BY <1>1, <3>1, <3>2
  <2> QED BY <2>1, <2>2
<1>3. /\ Pending \in Seq(BDs) /\ Pending # <<>> /\ Entry = Pending[1]
      /\ Entry \in Elems(Pending) /\ Pending' = Left(Pending, 1)
  BY <1>1, <1>2, PendingTaken
<1>4. Elems(Pending) = Elems(Left(Pending, 1)) \cup {Entry}
  BY <1>3, LeftKeeps
<1>5. /\ Distinct(Left(Pending, 1)) /\ Entry \notin Elems(Left(Pending, 1))
  <2>1. 1 \in 0 .. Len(Pending) /\ Distinct(Pending) /\ 1 \in 1 .. 1
    BY <1>3 DEF BdsHeld
  <2>2. \A i \in 1 .. 1 : Pending[i] \notin Elems(Left(Pending, 1))
    BY <1>3, <2>1, LeftElems
  <2> QED BY <1>3, <2>1, <2>2, LeftElems
<1> QED BY <1>1, <1>3, <1>4, <1>5

\* The step that leaves a page at a descriptor of another pool.
LEMMA ForeignStep ==
    ASSUME IInv, RxForeign
    PROVE  /\ Entry \in Foreign /\ Entry \in Elems(Pending) /\ world = "foreign"
           /\ Pending \in Seq(BDs) /\ Len(Unread) \in 1 .. Len(Pending)
           /\ Pending' = Left(Pending, Len(Unread))
           /\ Elems(Pending') \subseteq Elems(Pending) \ {Entry}
           /\ Distinct(Pending')
<1> USE DEF IInv
<1>1. /\ Len(Unread) \in 0 .. Len(Pending) /\ Unread \in Seq(BDs)
      /\ Pending \in Seq(BDs) /\ Pending' = Left(Pending, Len(Unread))
      /\ Unread # <<>> /\ Entry = Pending[1] /\ Pending # <<>>
  BY PendingTurned, PendingTyped DEF RxForeign
<1>2. Len(Unread) \in 1 .. Len(Pending) /\ 1 \in 1 .. Len(Pending) /\ 1 \in 1 .. Len(Unread)
  BY <1>1
<1>3. Entry \in Elems(Pending) /\ Entry \in Foreign
  BY <1>1, <1>2 DEF Elems, RxForeign
<1>4. world = "foreign"
  BY <1>3, VoiceNiAssumption DEF BdsHeld
<1> DEFINE n == Len(Unread)
<1>5. n \in 0 .. Len(Pending) /\ Distinct(Pending) /\ Pending' = Left(Pending, n)
      /\ 1 \in 1 .. n
  BY <1>1, <1>2 DEF BdsHeld
<1> HIDE DEF n
<1>6. /\ Elems(Left(Pending, n)) \subseteq Elems(Pending) /\ Distinct(Left(Pending, n))
      /\ \A i \in 1 .. n : Pending[i] \notin Elems(Left(Pending, n))
  BY <1>1, <1>5, LeftElems
<1> QED BY <1>1, <1>2, <1>3, <1>4, <1>5, <1>6

\* The steps that queue a packet for the driver.
LEMMA SendStep ==
    ASSUME IInv, NEW b \in BDs, b \notin Elems(Pending), rxq' = Append(rxq, b),
           UNCHANGED <<page, count, list, spent>>
    PROVE  /\ Pending \in Seq(BDs) /\ Pending' = Append(Pending, b)
           /\ Elems(Pending') = Elems(Pending) \cup {b}
           /\ Distinct(Pending')
<1>1. TypeOK /\ SpentIsLast /\ Distinct(Pending)
  BY DEF IInv, BdsHeld
<1>2. Pending \in Seq(BDs) /\ Pending' = Append(Pending, b)
  BY <1>1, PendingTyped, PendingGrows
<1> QED BY <1>1, <1>2, AppendElems

-----------------------------------------------------------------------------
\* Who has what, step by step.
Held == BdsHeld /\ BufsHeld /\ NothingLost

LEMMA StillHeld == IInv /\ ~oops /\ Still => Held'
<1> SUFFICES ASSUME IInv, ~oops, Still PROVE Held'
  OBVIOUS
<1>1. /\ Pending' = Pending /\ UNCHANGED <<world, free, pool, buf, toDsp, recycled>>
      /\ "pool" \in res' <=> "pool" \in res
      /\ op' \in {"down", "closed"} => op \in {"down", "closed"}
  BY StillKeeps
<1> QED BY <1>1 DEF Held, IInv, BdsHeld, BufsHeld, NothingLost, Has, Wrecked

LEMMA OpenHeld ==
    ASSUME IInv, ~oops, NEW q \in BOOLEAN, NEW a \in BOOLEAN, NEW o \in SUBSET Queues,
             OpenQueues(q, a, o)
    PROVE  Held'
<1> USE DEF IInv
<1>1. /\ Pending' = Pending /\ UNCHANGED <<world, pool, buf, toDsp, recycled>>
      /\ op = "down" /\ op' = "queues" /\ free' = IF a THEN Own ELSE {}
      /\ "pool" \in res' <=> a \/ "pool" \in res
  BY PendingKept DEF OpenQueues, FreeBdPool, FreeBdQueue, VoiceQueues, DspQueues, hw, rx
<1>2. /\ free = {} /\ toDsp = {} /\ Pending = <<>> /\ "pool" \notin res
      /\ \A b \in Own : buf[b] = None
      /\ world # "foreign" => pool = Bufs
  BY <1>1 DEF NothingLost, Wrecked, Has
<1>3. Elems(Pending) = {} /\ recycled \subseteq Foreign
  BY <1>2 DEF Elems, TypeOK
<1> QED BY <1>1, <1>2, <1>3 DEF Held, BdsHeld, BufsHeld, NothingLost, Has, Wrecked

LEMMA CloseHeld ==
    ASSUME IInv, ~oops, CloseQueues
    PROVE  Held'
<1> USE DEF IInv
<1>1. /\ UNCHANGED <<world, pool, buf, recycled>> /\ op' = "closed"
      /\ free' = {} /\ toDsp' = {} /\ rxq' = <<>> /\ count' = 0
      /\ "pool" \notin res'
      /\ Has("pool") /\ ~Quiet => oops'
  BY DEF CloseQueues
<1>2. Pending' = <<>> /\ Elems(Pending') = {} /\ Distinct(Pending')
  BY <1>1, PendingEmptied DEF Elems, Distinct, Pending, Listed
<1>3. \A b \in Own : \A c \in Own \ {b} : buf[b] = buf[c] => buf[b] = None
  BY DEF BufsHeld
<1>4. ASSUME ~oops' PROVE /\ \A b \in Own : buf[b] = None
                          /\ world # "foreign" => pool = Bufs
  <2>1. CASE Has("pool")
    <3>1. free = Own
      BY <1>1, <1>4, <2>1 DEF Quiet
    <3>2. \A b \in Own : buf[b] = None
      BY <3>1 DEF BufsHeld
    <3>3. world # "foreign" => Bufs \subseteq pool
      BY <2>1, <3>2, VoiceNiAssumption DEF NothingLost
    <3> QED BY <3>2, <3>3 DEF TypeOK
  <2>2. CASE ~Has("pool")
    BY <2>2 DEF NothingLost, Wrecked
  <2> QED BY <2>1, <2>2
<1>5. \A b \in Own : buf[b] \notin pool
  BY DEF BufsHeld
<1> QED BY <1>1, <1>2, <1>3, <1>4, <1>5
        DEF Held, BdsHeld, BufsHeld, NothingLost, Has, Wrecked

\* A descriptor that is free, or listed, tells that the pool is there.
LEMMA PoolThere ==
    ASSUME IInv, ~oops, free # {} \/ toDsp # {} \/ Elems(Pending) # {}
    PROVE  Has("pool") /\ op \notin {"down", "closed"}
  BY DEF IInv, NothingLost, Wrecked, Elems

LEMMA XmitHeld == IInv /\ ~oops /\ Xmit => Held'
<1> SUFFICES ASSUME IInv, ~oops, Xmit PROVE Held'
  OBVIOUS
<1> USE DEF IInv
<1>1. Pending' = Pending /\ UNCHANGED <<world, op, res, recycled>>
  BY PendingKept DEF Xmit, hw, rx, life
<1>2. CASE UNCHANGED <<free, pool, buf, toDsp>>
  BY <1>1, <1>2 DEF Held, BdsHeld, BufsHeld, NothingLost, Has, Wrecked
<1>3. ASSUME NEW u \in pool, NEW b \in free, pool' = pool \ {u}, free' = free \ {b},
             buf' = [buf EXCEPT ![b] = u], toDsp' = toDsp \cup {b}
      PROVE  Held'
  <2>1. b \in Own /\ b \in BDs /\ u \in Bufs /\ buf \in [BDs -> Bufs \cup {None}]
        /\ b \notin toDsp /\ b \notin Elems(Pending) /\ Own \subseteq BDs
    BY <1>3 DEF TypeOK, BDs, BdsHeld
  <2>2. buf'[b] = u /\ \A c \in Own \ {b} : buf'[c] = buf[c]
    BY <1>3, <2>1
  <2>3. Has("pool") /\ op \notin {"down", "closed"}
    BY <1>3, PoolThere
  <2>4. BdsHeld'
    BY <1>1, <1>3, <2>1 DEF BdsHeld
  <2>5. BufsHeld'
    <3>1. \A c \in Own : buf[c] # u /\ u # None
      BY <1>3, <2>1, VoiceNiAssumption DEF BufsHeld
    <3>2. \A c \in Own \ {b} : c \in toDsp' => c \in toDsp
      BY <1>3
    <3> QED BY <1>1, <1>3, <2>1, <2>2, <3>1, <3>2 DEF BufsHeld
  <2>6. ASSUME world # "foreign"
        PROVE  /\ Own \subseteq free' \cup toDsp' \cup Elems(Pending)
               /\ Bufs \subseteq pool' \cup {buf'[c] : c \in Own}
    <3>1. buf[b] = None /\ None \notin Bufs
      BY <1>3, <2>1, VoiceNiAssumption DEF BufsHeld
    <3>2. Bufs \subseteq pool \cup {buf[c] : c \in Own}
      BY <2>3, <2>6 DEF NothingLost
    <3>3. Own \subseteq free \cup toDsp \cup Elems(Pending)
      BY <2>3, <2>6 DEF NothingLost
    <3>4. ASSUME NEW v \in Bufs, v \notin pool' PROVE \E c \in Own : v = buf'[c]
      BY <1>3, <2>1, <2>2, <3>1, <3>2, <3>4
    <3> QED BY <1>3, <3>3, <3>4
  <2> QED BY <1>1, <2>3, <2>4, <2>5, <2>6 DEF Held, NothingLost, Has
<1> QED BY <1>2, <1>3 DEF Xmit

\* The DSP sends with a free descriptor and a buffer of the pool.
LEMMA DspSendHeld ==
    ASSUME IInv, ~oops, NEW b \in Own, NEW u \in Bufs, DspSend(b, u)
    PROVE  Held'
<1> USE DEF IInv
<1>1. /\ b \in free /\ u \in pool /\ free' = free \ {b} /\ pool' = pool \ {u}
      /\ buf' = [buf EXCEPT ![b] = u] /\ UNCHANGED <<world, op, res, toDsp, recycled>>
  BY DEF DspSend, life
<1>2. b \in BDs /\ b \notin Elems(Pending) /\ b \notin toDsp /\ Own \subseteq BDs
      /\ buf \in [BDs -> Bufs \cup {None}] /\ recycled \subseteq Foreign
  BY <1>1 DEF TypeOK, BDs, BdsHeld
<1>3. Elems(Pending') = Elems(Pending) \cup {b} /\ Distinct(Pending')
  BY <1>2, SendStep DEF DspSend, hw, rx
<1>4. buf'[b] = u /\ \A c \in Own \ {b} : buf'[c] = buf[c]
  BY <1>1, <1>2
<1>5. Has("pool") /\ op \notin {"down", "closed"}
  BY <1>1, PoolThere
<1>6. BdsHeld'
  BY <1>1, <1>2, <1>3, VoiceNiAssumption DEF BdsHeld
<1>7. BufsHeld'
  <2>1. \A c \in Own : buf[c] # u /\ u # None
    BY <1>1, VoiceNiAssumption DEF BufsHeld
  <2> QED BY <1>1, <1>2, <1>3, <1>4, <2>1 DEF BufsHeld
<1>8. ASSUME world # "foreign"
      PROVE  /\ Own \subseteq free' \cup toDsp' \cup Elems(Pending')
             /\ Bufs \subseteq pool' \cup {buf'[c] : c \in Own}
  <2>1. buf[b] = None /\ None \notin Bufs
    BY <1>1, VoiceNiAssumption DEF BufsHeld
  <2>2. /\ Own \subseteq free \cup toDsp \cup Elems(Pending)
        /\ Bufs \subseteq pool \cup {buf[c] : c \in Own}
    BY <1>5, <1>8 DEF NothingLost
  <2>3. ASSUME NEW v \in Bufs, v \notin pool' PROVE \E c \in Own : v = buf'[c]
    BY <1>1, <1>4, <2>1, <2>2, <2>3
  <2> QED BY <1>1, <1>3, <2>2, <2>3
<1> QED BY <1>1, <1>5, <1>6, <1>7, <1>8 DEF Held, NothingLost, Has

\* The DSP has used a packet up, or the driver gives one back.
LEMMA ReturnedHeld ==
    ASSUME IInv, ~oops, NEW b \in Own, NEW E, E \subseteq BDs,
           b \in toDsp \cup Elems(Pending),
           pool' = pool \cup {buf[b]}, buf' = [buf EXCEPT ![b] = None],
           free' = free \cup {b}, toDsp' \subseteq toDsp, E \subseteq Elems(Pending),
           b \notin toDsp', b \notin E, toDsp \cup Elems(Pending) \subseteq toDsp' \cup E \cup {b},
           Elems(Pending') = E, Distinct(Pending'), UNCHANGED <<world, op, res, recycled>>
    PROVE  Held'
<1> USE DEF IInv
<1>1. /\ buf[b] \in Bufs /\ buf[b] # None /\ b \in BDs /\ Own \subseteq BDs
      /\ buf \in [BDs -> Bufs \cup {None}] /\ recycled \subseteq Foreign
  BY VoiceNiAssumption DEF BufsHeld, TypeOK, BDs
<1>2. buf'[b] = None /\ \A c \in Own \ {b} : buf'[c] = buf[c] /\ buf[c] # buf[b]
  BY <1>1 DEF BufsHeld
<1>3. Has("pool") /\ op \notin {"down", "closed"}
  BY PoolThere
<1>4. BdsHeld'
  BY <1>1, VoiceNiAssumption DEF BdsHeld
<1>5. BufsHeld'
  BY <1>1, <1>2, VoiceNiAssumption DEF BufsHeld, TypeOK
<1>6. ASSUME world # "foreign"
      PROVE  /\ Own \subseteq free' \cup toDsp' \cup E
             /\ Bufs \subseteq pool' \cup {buf'[c] : c \in Own}
  <2>1. /\ Own \subseteq free \cup toDsp \cup Elems(Pending)
        /\ Bufs \subseteq pool \cup {buf[c] : c \in Own}
    BY <1>3, <1>6 DEF NothingLost
  <2>2. ASSUME NEW v \in Bufs, v \notin pool' PROVE \E c \in Own : v = buf'[c]
    BY <1>2, <2>1, <2>2
  <2> QED BY <2>1, <2>2
<1> QED BY <1>3, <1>4, <1>5, <1>6 DEF Held, NothingLost, Has

\* The driver sends a packet back to the DSP as it is.
LEMMA LoopHeld == IInv /\ ~oops /\ RxLoop => Held'
<1> SUFFICES ASSUME IInv, ~oops, RxLoop PROVE Held'
  OBVIOUS
<1> USE DEF IInv
<1>1. /\ UNCHANGED <<world, op, res, free, pool, buf, recycled>>
      /\ toDsp' = toDsp \cup {Entry}
  BY DEF RxLoop, life
<1>2. /\ Entry \in Own /\ Entry \in Elems(Pending)
      /\ Elems(Pending') = Elems(Pending) \ {Entry} /\ Distinct(Pending')
  BY TakeStep DEF TakeSteps
<1>3. Has("pool") /\ op \notin {"down", "closed"}
  BY <1>2, PoolThere
<1>4. BdsHeld'
  BY <1>1, <1>2 DEF BdsHeld
<1>5. BufsHeld'
  BY <1>1, <1>2 DEF BufsHeld
<1> QED BY <1>1, <1>2, <1>3, <1>4, <1>5 DEF Held, NothingLost, Has

LEMMA HeldKept == IInv /\ Next => Held'
<1> SUFFICES ASSUME IInv, ~oops, Next PROVE Held'
  BY DEF Next
<1> USE DEF IInv
<1>1. CASE Still
  BY <1>1, StillHeld
<1>2. ASSUME NEW q \in BOOLEAN, NEW a \in BOOLEAN, NEW o \in SUBSET Queues,
             OpenQueues(q, a, o) PROVE Held'
  BY <1>2, OpenHeld
<1>3. CASE CloseQueues
  BY <1>3, CloseHeld
<1>4. CASE Xmit
  BY <1>4, XmitHeld
<1>5. ASSUME NEW b \in Own, NEW u \in Bufs, DspSend(b, u) PROVE Held'
  BY <1>5, DspSendHeld
<1>6. ASSUME NEW b \in Own, DspDone(b) PROVE Held'
  <2>1. /\ b \in toDsp /\ toDsp' = toDsp \ {b} /\ Pending' = Pending
        /\ UNCHANGED <<world, op, res, recycled>>
        /\ pool' = pool \cup {buf[b]} /\ buf' = [buf EXCEPT ![b] = None]
        /\ free' = free \cup {b}
    BY <1>6, PendingKept DEF DspDone, life, hw, rx
  <2>2. Elems(Pending) \subseteq BDs /\ Distinct(Pending) /\ b \notin Elems(Pending)
    BY <2>1, PendingTyped DEF Elems, BdsHeld
  <2> QED BY <2>1, <2>2, ReturnedHeld
<1>7. ASSUME NEW b \in Foreign, ForeignSend(b) PROVE Held'
  <2>1. /\ b \in BDs /\ b \notin Own /\ b \notin Elems(Pending) /\ b \notin recycled
        /\ world = "foreign" /\ op = "up"
        /\ UNCHANGED <<world, op, res, free, pool, buf, toDsp, recycled>>
    BY <1>7, VoiceNiAssumption DEF ForeignSend, BDs, life
  <2>2. Elems(Pending') = Elems(Pending) \cup {b} /\ Distinct(Pending')
    BY <1>7, <2>1, SendStep DEF ForeignSend, hw, rx
  <2>3. Has("pool")
    BY <2>1 DEF OpenWhole, Calm
  <2>4. free \subseteq Own /\ toDsp \subseteq Own
    BY DEF TypeOK
  <2> QED BY <2>1, <2>2, <2>3, <2>4 DEF Held, BdsHeld, BufsHeld, NothingLost, Has
<1>8. ASSUME NEW b \in Foreign, Recycle(b) PROVE Held'
  <2>1. /\ Pending' = Pending /\ recycled' \subseteq recycled
        /\ UNCHANGED <<world, op, oops, res, free, pool, buf, toDsp>>
    BY <1>8, PendingKept DEF Recycle, life, hw, rx
  <2> QED BY <2>1 DEF Held, BdsHeld, BufsHeld, NothingLost, Has, Wrecked
<1>9. CASE (\E skb \in BOOLEAN : RxForward(skb)) \/ RxCapture
  <2>1. /\ UNCHANGED <<world, op, res, toDsp, recycled>>
        /\ pool' = pool \cup {buf[Entry]} /\ buf' = [buf EXCEPT ![Entry] = None]
        /\ free' = free \cup {Entry}
    BY <1>9 DEF RxForward, RxCapture, GiveBack, life
  <2>2. /\ Entry \in Own /\ Entry \in Elems(Pending) /\ Pending \in Seq(BDs)
        /\ Elems(Pending') = Elems(Pending) \ {Entry} /\ Distinct(Pending')
    BY <1>9, TakeStep DEF TakeSteps
  <2>3. Elems(Pending) \subseteq BDs /\ Entry \notin toDsp
    BY <2>2 DEF Elems, BdsHeld
  <2> QED BY <2>1, <2>2, <2>3, ReturnedHeld
<1>10. CASE RxLoop
  BY <1>10, LoopHeld
<1>11. CASE RxForeign
  <2>1. /\ UNCHANGED <<world, op, oops, res, free, pool, buf, toDsp>>
        /\ recycled' \subseteq recycled \cup {Entry}
    BY <1>11 DEF RxForeign, life
  <2>2. /\ Entry \in Foreign /\ Entry \in Elems(Pending) /\ world = "foreign"
        /\ Elems(Pending') \subseteq Elems(Pending) \ {Entry} /\ Distinct(Pending')
    BY <1>11, ForeignStep
  <2>3. Has("pool")
    BY <2>2, PoolThere
  <2>4. free \subseteq Own /\ toDsp \subseteq Own /\ Entry \notin Own
    BY <2>2, VoiceNiAssumption DEF TypeOK
  <2> QED BY <2>1, <2>2, <2>3, <2>4 DEF Held, BdsHeld, BufsHeld, NothingLost, Has
<1> QED BY <1>1, <1>2, <1>3, <1>4, <1>5, <1>6, <1>7, <1>8, <1>9, <1>10, <1>11
        DEF Next, Still, Interface, Hardware, Tasklet

-----------------------------------------------------------------------------
\* Between two pages, a page that is counted holds a packet.
LEMMA CountedWaits ==
    ASSUME IInv, count > 0, tl # "read", ~spent
    PROVE  Pending # <<>>
<1>1. list.pos = 1 /\ Here # <<>> /\ count \in 1 .. 2
  BY DEF IInv, PagesInTurn, TypeOK, Here
<1>2. /\ Here \in Seq(BDs) /\ There \in Seq(BDs) /\ rxq \in Seq(BDs)
      /\ Unread = Left(Here, Place)
  BY PendingTyped DEF IInv, TypeOK
<1>3. Unread = Here
  <2>1. Place = 0
    BY <1>1 DEF Place
  <2> QED BY <1>2, <2>1, LeftNothing
<1> QED BY <1>1, <1>2, <1>3 DEF Pending, Listed, There

\* Where the interrupt is raised or the tasklet scheduled, a packet waits.
LEMMA RaisedWaits ==
    ASSUME IInv, Calm, irq \/ sched
    PROVE  Pending # <<>>
<1>1. count > 0 /\ tl = "idle" /\ ~spent
  BY DEF IInv, ClosedQuiet, SpentIsLast
<1> QED BY <1>1, CountedWaits

\* Outside of open and close nothing runs and nothing waits.
LEMMA QuietKept == IInv /\ Next => ClosedQuiet'
<1> SUFFICES ASSUME IInv, ~oops, Next, Calm' PROVE ClosedQuiet'
  BY DEF Next, ClosedQuiet
<1> USE DEF IInv
<1>0. world' = world /\ Calm
  <2>1. world' = world
    BY DEF Next, Module, ModRegister, ModPal, ModLookup, ModReady, NetdevEvent, Interface, OpenQueues,
           OpenChannel, OpenTasklet, CloseChannel, CloseQueues, CloseList, Xmit, Hardware,
           DspSend, DspDone, ForeignSend, Recycle, Accumulate, Isr, Tasklet, TaskletRun,
           RxTest, RxEoi, RxForward, RxLoop, RxCapture, RxPageEnd, RxForeign, life
  <2> QED BY <2>1 DEF Calm
<1>1. CASE Module
  BY <1>0, <1>1, PendingKept DEF Module, ModRegister, ModPal, ModLookup, ModReady, NetdevEvent,
     ClosedQuiet, Coming, bds, hw, rx
<1>2. ASSUME NEW q \in BOOLEAN, NEW a \in BOOLEAN, NEW o \in SUBSET Queues,
             OpenQueues(q, a, o) PROVE ClosedQuiet'
  BY <1>0, <1>2, PendingKept DEF OpenQueues, ClosedQuiet, Coming, hw, rx
<1>3. ASSUME NEW m \in BOOLEAN, NEW c \in BOOLEAN, NEW l \in BOOLEAN, OpenChannel(m, c, l)
      PROVE  ClosedQuiet'
  <2>1. Pending' = Pending
    BY <1>3, StillKeeps DEF Still
  <2> QED BY <1>0, <1>3, <2>1 DEF OpenChannel, ClosedQuiet, Coming, bds
<1>4. ASSUME NEW q \in BOOLEAN, OpenTasklet(q) PROVE ClosedQuiet'
  BY <1>0, <1>4 DEF OpenTasklet, ClosedQuiet, Coming, bds, hw, rx
<1>5. CASE CloseChannel
  <2>1. Pending = <<>> /\ free = Own
    BY <1>0, <1>5 DEF CloseChannel, Calm, Quiet
  <2>2. ~Coming
    BY <1>0, <1>5, <2>1, RaisedWaits DEF CloseChannel, Idle, Coming
  <2>3. toDsp = {} /\ Pending' = Pending
    BY <1>5, <2>1, PendingKept DEF CloseChannel, TypeOK, BdsHeld, bds, hw, rx
  <2> QED BY <1>0, <1>5, <2>1, <2>2, <2>3 DEF CloseChannel, ClosedQuiet, Coming, bds, hw, rx
<1>6. CASE CloseQueues
  <2>1. Pending' = <<>>
    BY <1>6, PendingEmptied DEF CloseQueues, Pending, Listed
  <2> QED BY <1>0, <1>6, <2>1 DEF CloseQueues, ClosedQuiet, Coming, rx
<1>7. CASE CloseList
  BY <1>0, <1>7, PendingKept DEF CloseList, ClosedQuiet, Coming, bds, hw, rx
<1>8. CASE Xmit
  BY <1>0, <1>8 DEF Xmit, ClosedQuiet, Coming, life, hw, rx
<1>9. ASSUME NEW b \in Own, NEW u \in Bufs, DspSend(b, u) PROVE ClosedQuiet'
  BY <1>0, <1>9 DEF DspSend, ClosedQuiet, Coming, Calm, life, hw, rx
<1>10. ASSUME NEW b \in Own, DspDone(b) PROVE ClosedQuiet'
  BY <1>0, <1>10, PendingKept DEF DspDone, ClosedQuiet, Coming, life, hw, rx
<1>11. ASSUME NEW b \in Foreign, ForeignSend(b) PROVE ClosedQuiet'
  BY <1>0, <1>11 DEF ForeignSend, ClosedQuiet, Coming, life, hw, rx
<1>12. ASSUME NEW b \in Foreign, Recycle(b) PROVE ClosedQuiet'
  BY <1>0, <1>12, PendingKept DEF Recycle, ClosedQuiet, Coming, life, hw, rx
<1>13. CASE Accumulate
  <2>1. /\ Pending' = Pending
        /\ count = 0 => page'[list.page] # <<>>
        /\ count > 0 => page'[list.page] = page[list.page]
    BY <1>13, PendingMoved
  <2>2. /\ count' = count + 1 /\ irq' = (irq \/ armed) /\ armed' = FALSE
        /\ Has("chan") /\ UNCHANGED <<op, toDsp, free, list, tl, sched>>
    BY <1>13 DEF Accumulate, life, rx
  <2>3. op # "up" => ~armed
    <3> SUFFICES ASSUME op # "up", armed PROVE FALSE
      OBVIOUS
    <3>1. Pending = <<>> /\ tl = "idle" /\ ~spent
      BY <1>0 DEF ClosedQuiet, Coming, SpentIsLast
    <3>2. count = 0
      BY <3>1, CountedWaits DEF TypeOK
    <3>3. rxq = <<>>
      BY <3>1, <3>2, PendingIsQueue
    <3> QED BY <1>13, <3>3 DEF Accumulate
  <2>4. ASSUME op # "up" PROVE ~Coming' /\ toDsp' = {} /\ Pending' = <<>>
    BY <1>0, <2>1, <2>2, <2>3, <2>4 DEF ClosedQuiet, Coming
  <2>5. /\ count' > 0 /\ ~armed'
        /\ irq' => ~armed' /\ (op = "closing" => free' = Own)
    BY <1>0, <2>2 DEF ClosedQuiet, TypeOK
  <2>6. (tl # "idle" => ~sched /\ ~irq') /\ (sched => ~irq')
    BY <1>0, <2>2, Zenon DEF ClosedQuiet
  <2> QED BY <1>0, <2>2, <2>4, <2>5, <2>6, Zenon DEF ClosedQuiet
<1>14. CASE Isr
  BY <1>0, <1>14, PendingKept DEF Isr, ClosedQuiet, Coming, life, bds
<1>15. CASE TaskletRun \/ RxTest
  BY <1>0, <1>15, PendingKept DEF TaskletRun, RxTest, ClosedQuiet, Coming, life, bds, hw
<1>18. CASE RxEoi
  <2>1. /\ Pending' = Pending /\ tl = "eoi" /\ tl' = "idle"
        /\ UNCHANGED <<op, free, toDsp, count, sched>>
    BY <1>18, PendingKept DEF RxEoi, life, bds
  <2>2. op = "up" /\ ~sched /\ ~irq /\ ~armed
    BY <1>0, <2>1 DEF ClosedQuiet, Coming
  <2>3. \/ count > 0 /\ world # "edge" /\ irq' /\ ~armed'
        \/ ~(count > 0 /\ world # "edge") /\ armed' /\ ~irq'
    BY <1>18, <2>2 DEF RxEoi
  <2>4. armed' /\ world # "edge" => count = 0
    BY <2>3 DEF TypeOK
  <2> QED BY <1>0, <2>1, <2>2, <2>3, <2>4, Zenon DEF ClosedQuiet
<1>16. CASE TakeSteps
  <2>1. tl = "read"
    BY <1>16, TakeStep
  <2>2. op = "up" /\ ~sched /\ ~irq /\ ~armed
    BY <1>0, <2>1 DEF ClosedQuiet, Coming
  <2> QED BY <1>0, <1>16, <2>1, <2>2 DEF TakeSteps, RxForward, RxLoop, RxCapture, ClosedQuiet,
          Coming,
          life, hw
<1>17. CASE RxPageEnd \/ RxForeign
  BY <1>0, <1>17 DEF RxPageEnd, RxForeign, NextPage, ClosedQuiet, Coming, life
<1> QED BY <1>1, <1>2, <1>3, <1>4, <1>5, <1>6, <1>7, <1>8, <1>9, <1>10, <1>11, <1>12,
           <1>13, <1>14, <1>15, <1>16, <1>17, <1>18 DEF Next, Interface, Hardware, Tasklet, TakeSteps

\* In calm surroundings where the MTA device stays, no step meets what is not
\* there.
LEMMA OopsNever == IInv /\ Next => NoOops'
<1> SUFFICES ASSUME IInv, ~oops, Next, world' \in {"lawful", "captures", "foreign", "edge"}
             PROVE  ~oops'
  BY DEF Next, NoOops
<1> USE DEF IInv
<1>1. CASE Module
  BY <1>1 DEF Module, ModRegister, ModPal, ModLookup, ModReady, NetdevEvent
<1>2. ASSUME NEW q \in BOOLEAN, NEW a \in BOOLEAN, NEW o \in SUBSET Queues,
             OpenQueues(q, a, o) PROVE ~oops'
  BY <1>2 DEF OpenQueues, FreeBdPool, Works, OpenWhole, Calm, Has, life
<1>3. ASSUME NEW m \in BOOLEAN, NEW c \in BOOLEAN, NEW l \in BOOLEAN, OpenChannel(m, c, l)
      PROVE  ~oops'
  BY <1>3 DEF OpenChannel, Works
<1>4. CASE \E q \in BOOLEAN : OpenTasklet(q)
  BY <1>4 DEF OpenTasklet, ClosedQuiet, Coming, Calm
<1>5. CASE CloseChannel \/ CloseList
  BY <1>5 DEF CloseChannel, CloseList, MayCrash, OpenWhole, Calm, Has
<1>6. CASE CloseQueues
  BY <1>6 DEF CloseQueues, ClosedQuiet, OpenWhole, MayCrash, Calm, Quiet, Has
<1>7. CASE Xmit
  BY <1>7 DEF Xmit, OpenWhole, Calm, Has, Queues, life
<1>8. CASE Hardware
  BY <1>8 DEF Hardware, DspSend, DspDone, ForeignSend, Recycle, Accumulate
<1>9. CASE Isr
  BY <1>9 DEF Isr
<1>10. CASE TaskletRun \/ RxTest
  BY <1>10 DEF TaskletRun, RxTest, OpenWhole, ClosedQuiet, Coming, Calm, life
<1>11. ASSUME NEW skb \in BOOLEAN, RxForward(skb) PROVE ~oops'
  BY <1>11 DEF RxForward, Works, MtaThere, OpenWhole, ClosedQuiet, Coming, Calm, life
<1>12. CASE RxLoop
  BY <1>12 DEF RxLoop, OpenWhole, ClosedQuiet, Coming, Calm, Has, Queues, life
<1>13. CASE RxEoi \/ RxCapture \/ RxPageEnd \/ RxForeign
  BY <1>13 DEF RxEoi, RxCapture, RxPageEnd, RxForeign
<1> QED BY <1>1, <1>2, <1>3, <1>4, <1>5, <1>6, <1>7, <1>8, <1>9, <1>10, <1>11, <1>12, <1>13
        DEF Next, Interface, Tasklet

-----------------------------------------------------------------------------
LEMMA InvInit == Init => IInv
<1> SUFFICES ASSUME Init PROVE IInv
  OBVIOUS
<1> USE VoiceNiAssumption DEF Init
<1>1. [p \in 0 .. 1 |-> <<>>] \in [0 .. 1 -> Seq(BDs)] /\ <<>> \in Seq(BDs)
  OBVIOUS
<1>2. list = [page |-> 0, pos |-> 1] /\ page[list.page] = <<>> /\ Len(<<>>) = 0
  OBVIOUS
<1>3. /\ list \in [page : 0 .. 1, pos : Nat \ {0}] /\ list.pos <= Len(page[list.page]) + 1
      /\ rxq \in Seq(BDs) /\ page \in [0 .. 1 -> Seq(BDs)]
  BY <1>1, <1>2
<1>4. /\ mta \in BOOLEAN /\ buf \in [BDs -> Bufs \cup {None}] /\ oops \in BOOLEAN
      /\ ptr \in BOOLEAN /\ irq \in BOOLEAN /\ armed \in BOOLEAN /\ spent \in BOOLEAN
  OBVIOUS
<1>5. TypeOK
  BY <1>3, <1>4, SMTT(30) DEF TypeOK
<1>6. Pending = <<>> /\ Elems(Pending) = {} /\ Distinct(Pending)
  BY PendingEmptied DEF Elems, Distinct
<1>7. \A b \in Own : buf[b] = None
  BY DEF BDs
<1>8. Held
  BY <1>6, <1>7 DEF Held, BdsHeld, BufsHeld, NothingLost, Has, Wrecked
<1>9. PagesInTurn /\ SpentIsLast /\ Served
  BY DEF PagesInTurn, SpentIsLast, Served, Coming, Has
<1>10. OpenWhole /\ ClosedQuiet /\ MtaThere /\ NoOops
  BY <1>6 DEF OpenWhole, ClosedQuiet, MtaThere, NoOops
<1> QED BY <1>5, <1>8, <1>9, <1>10 DEF IInv, Held

LEMMA InvStutter == IInv /\ UNCHANGED vars => IInv'
<1> SUFFICES ASSUME IInv, UNCHANGED vars PROVE IInv'
  OBVIOUS
<1>1. UNCHANGED <<life, oops, bds, hw, rx>>
  BY DEF vars
<1>2. Pending' = Pending
  BY <1>1, PendingKept DEF bds, hw, rx
<1> QED BY <1>1, <1>2
        DEF IInv, TypeOK, PagesInTurn, SpentIsLast, Served, BdsHeld, BufsHeld, NothingLost,
            Wrecked, OpenWhole, ClosedQuiet, Coming, MtaThere, NoOops, Calm, Has, life, bds, hw, rx

LEMMA InvNext == IInv /\ [Next]_vars => IInv'
<1>1. IInv /\ Next => IInv'
  BY TypesKept, TurnKept, HeldKept, WholeKept, QuietKept, OopsNever DEF IInv, Held
<1> QED BY <1>1, InvStutter

LEMMA InvCorrect == Spec => []IInv
  BY InvInit, InvNext, PTL DEF Spec

\* The variables keep their types; the driver never reads behind the end of a
\* page (voice_ni.c:151-276).
THEOREM TypeCorrect == Spec => []TypeOK
<1>1. IInv => TypeOK
  BY DEF IInv
<1> QED BY <1>1, InvCorrect, PTL

\* Whatever fails, is captured or comes between: a descriptor or a buffer has
\* one owner (voice_ni.c:224-236, 252-264, 699-744).
THEOREM OneOwnerCorrect == Spec => []OneOwner
<1>1. IInv => OneOwner
  BY DEF IInv, OneOwner, BdsHeld, BufsHeld, NothingLost, Distinct
<1> QED BY <1>1, InvCorrect, PTL

\* A page that waits has the tasklet coming, unless a packet was captured
\* (voice_ni.c:161-274).
THEOREM NothingStuckCorrect == Spec => []NothingStuck
<1>1. IInv => NothingStuck
  BY DEF IInv, Served, NothingStuck
<1> QED BY <1>1, InvCorrect, PTL

\* While the DSP is silent during open and close, the MTA device stays and
\* nothing fails, nothing is met that is not there (voice_ni.c:594-674).
THEOREM NoOopsCorrect == Spec => []NoOops
<1>1. IInv => NoOops
  BY DEF IInv
<1> QED BY <1>1, InvCorrect, PTL
-----------------------------------------------------------------------------
\* The refinement.  A step opens or closes the channel, sends a packet, takes
\* the first one, drops some on a lossy channel, or does nothing to it.
LEMMA ChannelInit == Init => Channel!Init
  BY PendingEmptied DEF Init, Channel!Init, Has

LEMMA ChannelNext == IInv /\ [Next]_vars => [Channel!Next]_(Channel!vars)
<1> SUFFICES ASSUME IInv, [Next]_vars PROVE [Channel!Next]_(Channel!vars)
  OBVIOUS
<1> USE DEF IInv
<1> DEFINE Same == Pending' = Pending /\ world' = world /\ (Has("pool"))' = Has("pool")
<1>0. Same => [Channel!Next]_(Channel!vars)
  BY DEF Channel!vars
<1> HIDE DEF Same
<1>1. CASE Still
  <2>1. Pending' = Pending /\ world' = world /\ ("pool" \in res' <=> "pool" \in res)
    BY <1>1, StillKeeps
  <2> QED BY <1>0, <2>1 DEF Same, Has
<1>2. ASSUME ~oops, NEW q \in BOOLEAN, NEW a \in BOOLEAN, NEW o \in SUBSET Queues,
             OpenQueues(q, a, o)
      PROVE  [Channel!Next]_(Channel!vars)
  <2>1. /\ Pending' = Pending /\ world' = world /\ op = "down"
        /\ "pool" \in res' <=> a \/ "pool" \in res
    BY <1>2, PendingKept DEF OpenQueues, FreeBdQueue, VoiceQueues, DspQueues, bds, hw, rx
  <2>2. ~Has("pool")
    BY <2>1 DEF NothingLost
  <2>3. CASE a
    <3>1. Channel!Open
      BY <2>1, <2>2, <2>3 DEF Channel!Open, Has
    <3> QED BY <3>1 DEF Channel!Next
  <2>4. CASE ~a
    BY <1>0, <2>1, <2>2, <2>4 DEF Same, Has
  <2> QED BY <2>3, <2>4
<1>3. ASSUME ~oops, CloseQueues PROVE [Channel!Next]_(Channel!vars)
  <2>1. Pending' = <<>> /\ "pool" \notin res' /\ world' = world
    BY <1>3, PendingEmptied DEF CloseQueues, Pending, Listed
  <2>2. CASE Has("pool")
    <3>1. Channel!Close
      BY <2>1, <2>2 DEF Channel!Close, Has
    <3> QED BY <3>1 DEF Channel!Next
  <2>3. CASE ~Has("pool")
    <3>1. Pending = <<>>
      BY <1>3, <2>3 DEF NothingLost, Wrecked
    <3> QED BY <1>0, <2>1, <2>3, <3>1 DEF Same, Has
  <2> QED BY <2>2, <2>3
<1>4. CASE Xmit
  BY <1>0, <1>4, PendingKept DEF Same, Xmit, Has, life, hw, rx
<1>5. ASSUME NEW b \in BDs, b \notin Elems(Pending), rxq' = Append(rxq, b), Has("pool"),
             UNCHANGED <<life, hw, rx>>
      PROVE  [Channel!Next]_(Channel!vars)
  <2>1. Pending' = Append(Pending, b)
    BY <1>5, SendStep DEF hw, rx
  <2>2. Channel!Send(b)
    BY <1>5, <2>1 DEF Channel!Send, Elems, Has, life
  <2> QED BY <1>5, <2>2 DEF Channel!Next
<1>6. ASSUME ~oops, NEW b \in Own, NEW u \in Bufs, DspSend(b, u)
      PROVE  [Channel!Next]_(Channel!vars)
  <2>1. b \in free /\ b \in BDs /\ b \notin Elems(Pending)
    BY <1>6 DEF DspSend, BDs, BdsHeld
  <2> QED BY <1>5, <1>6, <2>1, PoolThere DEF DspSend
<1>7. ASSUME NEW b \in Foreign, ForeignSend(b) PROVE [Channel!Next]_(Channel!vars)
  <2>1. Has("pool")
    BY <1>7 DEF ForeignSend, OpenWhole, Calm
  <2> QED BY <1>5, <1>7, <2>1 DEF ForeignSend, BDs
<1>8. CASE (\E b \in Own : DspDone(b)) \/ (\E b \in Foreign : Recycle(b))
  BY <1>0, <1>8, PendingKept DEF Same, DspDone, Recycle, Has, life, hw, rx
<1>9. CASE TakeSteps
  <2>1. Pending \in Seq(BDs) /\ Pending # <<>> /\ Pending' = Left(Pending, 1)
    BY <1>9, TakeStep
  <2>2. Pending' = Tail(Pending)
    BY <2>1, TailIsSubSeq DEF Left
  <2>3. world' = world /\ res' = res
    BY <1>9 DEF TakeSteps, RxForward, RxLoop, RxCapture, life
  <2>4. Channel!Take
    BY <2>1, <2>2, <2>3 DEF Channel!Take, Has
  <2> QED BY <2>4 DEF Channel!Next
<1>10. CASE RxForeign
  <2>1. /\ world = "foreign" /\ Len(Unread) \in 1 .. Len(Pending)
        /\ Pending' = Left(Pending, Len(Unread))
    BY <1>10, ForeignStep
  <2>2. world' = world /\ res' = res
    BY <1>10 DEF RxForeign, life
  <2>3. Channel!Lose(Len(Unread))
    BY <2>1, <2>2 DEF Channel!Lose, Left, Has
  <2> QED BY <2>1, <2>3 DEF Channel!Next
<1>11. CASE UNCHANGED vars
  BY <1>0, <1>11, PendingKept DEF Same, vars, Has, life, bds, hw, rx
<1> QED BY <1>1, <1>2, <1>3, <1>4, <1>6, <1>7, <1>8, <1>9, <1>10, <1>11
        DEF Next, Still, Interface, Hardware, Tasklet, TakeSteps

\* Packets of the DSP are taken in order and once; only a descriptor without a
\* virtual address makes the driver skip some (voice_ni.c:151-276).
THEOREM VoiceIsChannel == Spec => DeliversInOrder
  BY ChannelInit, ChannelNext, InvCorrect, PTL DEF Spec, DeliversInOrder, Channel!Spec

===============================================================================
