----------------------------- MODULE MxpMem_proofs -----------------------------
(***************************************************************************)
(* Proofs about MxpMem, for any number and size of segments, partitions    *)
(* and blocks: types; that the free count of a partition is the length of  *)
(* its free list; and that blocks lie apart and are in one place each.     *)
(* The first two need each other: mxp_pBalloc takes the head of a list     *)
(* because the count says that there is one.                               *)
(***************************************************************************)
EXTENDS MxpMem, WellFoundedInduction, TLAPS

Block == Segs \X Int
Replies == [ret : Codes, num : Int, ptr : Block \cup {None}]

\* What a partition header is, with its count.
HeaderOK(h) == h \in Headers /\ h.FreeBlocks = Len(h.FreeList)

\* The strengthening of CountsAgree, without the bound on partition numbers.
Counted == \A s \in Segs : \A p \in 1 .. Len(part[s]) : HeaderOK(part[s][p])

IInv == TypeOK /\ Counted

\* The searches of the module find a number among those they look at.
LEMMA LeastIn ==
    ASSUME NEW S \in SUBSET Nat, S # {}
    PROVE  Least(S) \in S
<1> DEFINE R == OpToRel(<, Nat)
<1>1. IsWellFoundedOn(R, Nat)
  BY NatLessThanWellFounded
<1>2. \A x, y \in Nat : <<x, y>> \notin R => y <= x
  BY DEF OpToRel
<1> HIDE DEF R
<1>3. PICK x \in S : \A y \in S : <<y, x>> \notin R
  BY <1>1, WFMin
<1>4. \A y \in S : x <= y
  BY <1>2, <1>3
<1> QED BY <1>4 DEF Least

LEMMA BlockSizeNat ==
    ASSUME NEW l \in Nat
    PROVE  BlockSize(l) \in Nat \ {0}
  BY MxpMemAssumption DEF BlockSize

LEMMA NewTopInt ==
    ASSUME TypeOK, NEW s \in Segs, NEW l \in Lengths, NEW c \in Counts
    PROVE  NewTop(s, l, c) \in Int
<1>1. BlockSize(l) \in Int /\ c \in Int /\ top[s] \in Int
  BY BlockSizeNat, MxpMemAssumption DEF TypeOK
<1> QED BY <1>1 DEF NewTop

\* A new partition counts as free all the blocks it links.
LEMMA CarvedOK ==
    ASSUME TypeOK, NEW s \in Segs, NEW n \in Names, NEW l \in Lengths, NEW c \in Counts
    PROVE  HeaderOK(Carved(s, n, l, c))
<1> DEFINE L == [i \in 1 .. c |-> <<s, NewTop(s, l, c) + (i - 1) * BlockSize(l)>>]
<1>1. NewTop(s, l, c) \in Int /\ BlockSize(l) \in Nat \ {0} /\ c \in Nat
  BY NewTopInt, BlockSizeNat, MxpMemAssumption
<1>2. \A i \in 1 .. c : <<s, NewTop(s, l, c) + (i - 1) * BlockSize(l)>> \in Block
  <2>1. ASSUME NEW i \in 1 .. c PROVE NewTop(s, l, c) + (i - 1) * BlockSize(l) \in Int
    <3> HIDE DEF L
    <3>1. (i - 1) \in Int /\ (i - 1) * BlockSize(l) \in Int
      BY <1>1
    <3> QED BY <3>1, <1>1
  <2> QED BY <2>1 DEF Block
<1>3. L \in [1 .. c -> Block]
  BY <1>2
<1>4. L \in Seq(Block) /\ Len(L) = c
  BY <1>1, <1>3
<1> HIDE DEF L
<1>5. Carved(s, n, l, c) =
        [name |-> n, BlockSize |-> BlockSize(l), BlockCnt |-> c, FreeBlocks |-> c,
         base |-> NewTop(s, l, c), FreeList |-> L]
  BY DEF Carved, L
<1> QED BY <1>1, <1>4, <1>5 DEF HeaderOK, Headers, Block

LEMMA BlocksAreBlocks == IInv => Blocks \subseteq Block
<1> SUFFICES ASSUME IInv, NEW s \in Segs, NEW p \in 1 .. Len(part[s]),
                    NEW i \in 0 .. part[s][p].BlockCnt - 1
             PROVE  <<s, part[s][p].base + i * part[s][p].BlockSize>> \in Block
  BY DEF Blocks, BlocksOf, Parts
<1>1. part[s] \in Seq(Headers)
  BY DEF IInv, TypeOK
<1>2. part[s][p] \in Headers
  BY <1>1
<1>3. part[s][p].base \in Int /\ part[s][p].BlockSize \in Int /\ i \in Int
  BY <1>2 DEF Headers
<1>4. i * part[s][p].BlockSize \in Int
  BY <1>3
<1> QED BY <1>3, <1>4 DEF Block

LEMMA CodesIn ==
    /\ Replies = [ret : Codes, num : Int, ptr : Block \cup {None}]
    /\ \A e \in Codes, v \in Int, b \in Block \cup {None} : Return(e, v, b) => reply' \in Replies
  BY DEF Replies, Return

\* A call that fails changes nothing but its reply.
LEMMA KeepsOK ==
    ASSUME IInv, UNCHANGED <<segs, part, busy, held>>, reply' \in Replies
    PROVE  IInv'
  BY DEF IInv, TypeOK, Counted, segs, Replies, Block

LEMMA FailOK ==
    ASSUME IInv, NEW e \in Codes, Fail(e)
    PROVE  IInv'
  BY KeepsOK, CodesIn DEF Fail

LEMMA RelinkedOK ==
    ASSUME NEW h, HeaderOK(h), NEW L \in Seq(Block), NEW k \in Nat, k = Len(L)
    PROVE  HeaderOK(Relinked(h, L, k))
  BY DEF HeaderOK, Headers, Block, Relinked

\* A step that replaces the header of one partition.
LEMMA HeaderStep ==
    ASSUME IInv, NEW s \in Segs, NEW p \in 1 .. Len(part[s]), NEW h, HeaderOK(h),
           part' = [part EXCEPT ![s][p] = h], busy' \subseteq Block, held' \subseteq Block \X Nat,
           reply' \in Replies, UNCHANGED segs
    PROVE  IInv'
<1>1. part[s] \in Seq(Headers) /\ h \in Headers /\ part \in [Segs -> Seq(Headers)]
  BY DEF IInv, TypeOK, HeaderOK
<1>2. /\ [part[s] EXCEPT ![p] = h] \in Seq(Headers)
      /\ Len([part[s] EXCEPT ![p] = h]) = Len(part[s])
      /\ \A q \in 1 .. Len(part[s]) : [part[s] EXCEPT ![p] = h][q] = IF q = p THEN h ELSE part[s][q]
  BY <1>1
<1>3. part' = [part EXCEPT ![s] = [part[s] EXCEPT ![p] = h]]
  BY <1>1
<1>4. part' \in [Segs -> Seq(Headers)]
  BY <1>1, <1>2, <1>3
<1>5. TypeOK'
  BY <1>4 DEF IInv, TypeOK, segs, Replies, Block
<1>6. ASSUME NEW r \in Segs, NEW q \in 1 .. Len(part'[r]) PROVE HeaderOK(part'[r][q])
  <2>1. CASE r = s
    BY <2>1, <1>1, <1>2, <1>3 DEF IInv, Counted
  <2>2. CASE r # s
    BY <2>2, <1>1, <1>3 DEF IInv, Counted
  <2> QED BY <2>1, <2>2
<1> QED BY <1>5, <1>6 DEF IInv, Counted

--------------------------------------------------------------------------------
LEMMA InvInit == Init => IInv
<1> SUFFICES ASSUME Init PROVE IInv
  OBVIOUS
<1>1. <<>> \in Seq(Headers) /\ Len(<<>>) = 0
  OBVIOUS
<1>2. TypeOK
  BY <1>1 DEF Init, TypeOK, Codes
<1>3. Counted
  BY <1>1 DEF Init, Counted
<1> QED BY <1>2, <1>3 DEF IInv

LEMMA SegInitOK == IInv /\ SegInit => IInv'
<1> SUFFICES ASSUME IInv, SegInit PROVE IInv'
  OBVIOUS
<1>1. <<>> \in Seq(Headers) /\ Len(<<>>) = 0
  OBVIOUS
<1>2. TypeOK'
  BY <1>1 DEF SegInit, IInv, TypeOK, Return, Codes
<1>3. Counted'
  BY <1>1 DEF SegInit, Counted
<1> QED BY <1>2, <1>3 DEF IInv

LEMMA SegCreateOK ==
    ASSUME IInv, NEW n \in Names, NEW len \in SegSizes, SegCreate(n, len)
    PROVE  IInv'
<1> DEFINE s == Least(Unused)
<1>1. CASE Unused = {} /\ Fail("ERR_NOSEG")
  BY <1>1, FailOK DEF Codes
<1>2. CASE Unused # {} /\ ByName(n) # {} /\ Fail("ERR_ASGN")
  BY <1>2, FailOK DEF Codes
<1>3. CASE /\ Unused # {}
           /\ ByName(n) = {}
           /\ used' = used \cup {s}
           /\ name' = [name EXCEPT ![s] = n]
           /\ top' = [top EXCEPT ![s] = len]
           /\ size' = [size EXCEPT ![s] = len]
           /\ part' = [part EXCEPT ![s] = <<>>]
           /\ Return("ERR_NOERR", s, None)
           /\ UNCHANGED <<busy, held>>
  <2>1. s \in Segs /\ s \in Int
    <3>1. Unused \in SUBSET Nat /\ Unused # {}
      BY <1>3, MxpMemAssumption DEF Unused, Segs
    <3>2. s \in Unused
      BY <3>1, LeastIn
    <3> QED BY <3>1, <3>2 DEF Unused
  <2>2. <<>> \in Seq(Headers) /\ Len(<<>>) = 0 /\ len \in Int
    BY MxpMemAssumption
  <2> HIDE DEF s
  <2>3. used' \subseteq Segs /\ busy' \subseteq Block /\ held' \subseteq Block \X Nat
    BY <1>3, <2>1 DEF IInv, TypeOK, Block
  <2>4. /\ name' \in [Segs -> Names \cup {NoName}]
        /\ top' \in [Segs -> Int]
        /\ size' \in [Segs -> SegSizes \cup {0}]
    BY <1>3, <2>1, <2>2 DEF IInv, TypeOK
  <2>5. part' \in [Segs -> Seq(Headers)]
    BY <1>3, <2>1, <2>2 DEF IInv, TypeOK
  <2>6. reply' \in Replies
    BY <1>3, <2>1, CodesIn DEF Codes
  <2>7. TypeOK'
    BY <2>3, <2>4, <2>5, <2>6 DEF TypeOK, Replies, Block
  <2>8. Counted'
    BY <1>3, <2>1, <2>2 DEF IInv, TypeOK, Counted
  <2> QED BY <2>7, <2>8 DEF IInv
<1> QED BY <1>1, <1>2, <1>3 DEF SegCreate

LEMMA PCreateOK ==
    ASSUME IInv, NEW s \in Segs, NEW n \in Names, NEW l \in Lengths, NEW c \in Counts,
           PCreate(s, n, l, c)
    PROVE  IInv'
<1> DEFINE h == Carved(s, n, l, c)
<1>1. CASE Fail("ERR_SEGINV") \/ Fail("ERR_NOMEM")
  BY <1>1, FailOK DEF Codes
<1>2. CASE /\ part' = [part EXCEPT ![s] = Append(@, h)]
           /\ top' = [top EXCEPT ![s] = NewTop(s, l, c)]
           /\ Return("ERR_NOERR", Len(part[s]) + 1, None)
           /\ UNCHANGED <<used, name, size, busy, held>>
  <2>1. HeaderOK(h) /\ h \in Headers /\ NewTop(s, l, c) \in Int
    BY CarvedOK, NewTopInt DEF IInv, HeaderOK
  <2> HIDE DEF h
  <2>2. part[s] \in Seq(Headers) /\ part \in [Segs -> Seq(Headers)]
    BY DEF IInv, TypeOK
  <2>3. /\ Append(part[s], h) \in Seq(Headers)
        /\ Len(Append(part[s], h)) = Len(part[s]) + 1
        /\ Len(part[s]) \in Nat
        /\ \A p \in 1 .. Len(part[s]) + 1 :
              Append(part[s], h)[p] = IF p = Len(part[s]) + 1 THEN h ELSE part[s][p]
    BY <2>1, <2>2
  <2>4. part' \in [Segs -> Seq(Headers)] /\ part'[s] = Append(part[s], h)
    BY <1>2, <2>2, <2>3
  <2>5. reply' \in Replies
    BY <1>2, <2>3, CodesIn DEF Codes
  <2>6. top' \in [Segs -> Int]
    BY <1>2, <2>1 DEF IInv, TypeOK
  <2>7. TypeOK'
    BY <1>2, <2>4, <2>5, <2>6 DEF IInv, TypeOK, Replies, Block
  <2>8. ASSUME NEW r \in Segs, NEW q \in 1 .. Len(part'[r]) PROVE HeaderOK(part'[r][q])
    <3>1. CASE r = s
      BY <3>1, <2>1, <2>3, <2>4 DEF IInv, Counted
    <3>2. CASE r # s
      BY <3>2, <1>2, <2>2 DEF IInv, Counted
    <3> QED BY <3>1, <3>2
  <2> QED BY <2>7, <2>8 DEF IInv, Counted
<1> QED BY <1>1, <1>2 DEF PCreate

\* The calls that look something up.
LEMMA SegIdentifyOK ==
    ASSUME IInv, NEW n \in Names, SegIdentify(n)
    PROVE  IInv'
<1>1. ByName(n) # {} => Least(ByName(n)) \in Int
  <2>1. ByName(n) \in SUBSET Nat
    <3>1. Segs \subseteq Nat /\ used \subseteq Segs
      BY MxpMemAssumption DEF IInv, TypeOK, Segs
    <3> QED BY <3>1 DEF ByName
  <2> QED BY <2>1, LeastIn
<1>2. reply' \in Replies
  BY <1>1, CodesIn DEF SegIdentify, Codes
<1> QED BY <1>2, KeepsOK DEF SegIdentify

LEMMA SegGetNameOK ==
    ASSUME IInv, NEW s \in Segs, SegGetName(s)
    PROVE  IInv'
<1>1. reply' \in Replies
  BY CodesIn, MxpMemAssumption DEF SegGetName, Codes, Segs
<1> QED BY <1>1, KeepsOK DEF SegGetName

LEMMA PIdentifyOK ==
    ASSUME IInv, NEW s \in Segs, NEW n \in Names, PIdentify(s, n)
    PROVE  IInv'
<1> DEFINE found == {q \in 1 .. Len(part[s]) : part[s][q].name = n}
<1>1. Len(part[s]) \in Nat
  BY DEF IInv, TypeOK
<1>2. found # {} => Least(found) \in Int
  <2>1. found \in SUBSET Nat
    BY <1>1
  <2> HIDE DEF found
  <2>2. found # {} => Least(found) \in found
    BY <2>1, LeastIn
  <2>3. found \subseteq Int
    BY <2>1
  <2> QED BY <2>2, <2>3
<1>3. \/ Return("ERR_SEGINV", -1, None)
      \/ Return("ERR_INVNAME", -1, None)
      \/ found # {} /\ Return("ERR_NOERR", Least(found), None)
  BY DEF PIdentify
<1> HIDE DEF found
<1>4. reply' \in Replies
  BY <1>2, <1>3, CodesIn DEF Codes
<1> QED BY <1>4, KeepsOK DEF PIdentify

LEMMA PInquiryOK ==
    ASSUME IInv, NEW s \in Segs, NEW p \in 1 .. MaxParts, PInquiry(s, p)
    PROVE  IInv'
<1>1. Valid(s, p) => part[s][p].FreeBlocks \in Int
  <2> SUFFICES ASSUME Valid(s, p) PROVE part[s][p].FreeBlocks \in Int
    OBVIOUS
  <2>1. HeaderOK(part[s][p])
    BY DEF Valid, IInv, Counted
  <2> QED BY <2>1 DEF HeaderOK, Headers
<1>2. reply' \in Replies
  BY <1>1, CodesIn DEF PInquiry, Codes
<1> QED BY <1>2, KeepsOK DEF PInquiry

\* Where the count is not zero there is a block to take.
LEMMA PBallocOK ==
    ASSUME IInv, NEW s \in Segs, NEW p \in 1 .. MaxParts, PBalloc(s, p)
    PROVE  IInv'
<1> DEFINE L == part[s][p].FreeList
           h == Relinked(part[s][p], Tail(L), part[s][p].FreeBlocks - 1)
<1>1. CASE Fail("ERR_PARTINV") \/ Fail("ERR_NOMEM")
  BY <1>1, FailOK DEF Codes
<1>2. CASE /\ Valid(s, p)
           /\ part[s][p].FreeBlocks # 0
           /\ part' = [part EXCEPT ![s][p] = h]
           /\ busy' = busy \cup {Head(L)}
           /\ held' = held \cup {<<Head(L), part[s][p].BlockSize>>}
           /\ Return("ERR_NOERR", 0, Head(L))
           /\ UNCHANGED segs
  <2>1. HeaderOK(part[s][p]) /\ p \in 1 .. Len(part[s])
    BY <1>2 DEF Valid, IInv, Counted
  <2>2. L \in Seq(Block) /\ L # <<>> /\ Len(L) = part[s][p].FreeBlocks
    BY <1>2, <2>1 DEF HeaderOK, Headers, Block
  <2>3. Head(L) \in Block /\ Tail(L) \in Seq(Block) /\ Len(Tail(L)) = Len(L) - 1 /\ Len(L) \in Nat \ {0}
    BY <2>2
  <2>4. HeaderOK(h)
    <3>1. part[s][p].FreeBlocks - 1 \in Nat /\ part[s][p].FreeBlocks - 1 = Len(Tail(L))
      BY <2>2, <2>3
    <3> QED BY <2>1, <2>3, <3>1, RelinkedOK
  <2>5. part' = [part EXCEPT ![s][p] = h]
    BY <1>2
  <2>6. busy' \subseteq Block /\ reply' \in Replies
    <3>1. busy \subseteq Block /\ Head(L) \in Block
      BY <2>3 DEF IInv, TypeOK, Block
    <3>2. Return("ERR_NOERR", 0, Head(L)) /\ Head(L) \in Block \cup {None}
      BY <1>2, <3>1
    <3>3. reply' \in Replies
      BY <3>2, CodesIn DEF Codes
    <3> QED BY <1>2, <3>1, <3>3
  <2>7. held' \subseteq Block \X Nat
    <3>1. part[s][p].BlockSize \in Nat
      BY <2>1 DEF HeaderOK, Headers
    <3>2. <<Head(L), part[s][p].BlockSize>> \in Block \X Nat
      BY <2>3, <3>1
    <3>3. held \subseteq Block \X Nat
      BY DEF IInv, TypeOK, Block
    <3> QED BY <1>2, <3>2, <3>3
  <2> HIDE DEF h
  <2> QED BY <1>2, <2>1, <2>4, <2>5, <2>6, <2>7, HeaderStep
<1> QED BY <1>1, <1>2 DEF PBalloc

LEMMA PBfreeOK ==
    ASSUME IInv, NEW s \in Segs, NEW p \in 1 .. MaxParts, NEW b \in Blocks, PBfree(s, p, b)
    PROVE  IInv'
<1> DEFINE L == part[s][p].FreeList
           h == Relinked(part[s][p], <<b>> \o L, part[s][p].FreeBlocks + 1)
<1>1. CASE Fail("ERR_PARTINV") \/ Fail("ERR_FREE")
  BY <1>1, FailOK DEF Codes
<1>2. CASE /\ Valid(s, p)
           /\ part' = Released(s, p, b)
           /\ busy' = busy \ {b}
           /\ held' = {u \in held : u[1] # b}
           /\ Return("ERR_NOERR", 0, None)
           /\ UNCHANGED segs
  <2>1. HeaderOK(part[s][p]) /\ p \in 1 .. Len(part[s])
    BY <1>2 DEF Valid, IInv, Counted
  <2>2. L \in Seq(Block) /\ Len(L) = part[s][p].FreeBlocks /\ b \in Block /\ Len(L) \in Nat
    BY <2>1, BlocksAreBlocks DEF HeaderOK, Headers, Block
  <2>3. <<b>> \o L \in Seq(Block) /\ Len(<<b>> \o L) = Len(L) + 1
    BY <2>2
  <2>4. HeaderOK(h)
    <3>1. part[s][p].FreeBlocks + 1 \in Nat /\ part[s][p].FreeBlocks + 1 = Len(<<b>> \o L)
      BY <2>2, <2>3
    <3> QED BY <2>1, <2>3, <3>1, RelinkedOK
  <2>5. part' = [part EXCEPT ![s][p] = h]
    BY <1>2 DEF Released
  <2>6. busy' \subseteq Block /\ reply' \in Replies
    BY <1>2, CodesIn DEF IInv, TypeOK, Block, Codes
  <2>7. held' \subseteq Block \X Nat
    BY <1>2 DEF IInv, TypeOK, Block
  <2> HIDE DEF h
  <2> QED BY <1>2, <2>1, <2>4, <2>5, <2>6, <2>7, HeaderStep
<1> QED BY <1>1, <1>2 DEF PBfree

LEMMA InvNext == IInv /\ [Next]_vars => IInv'
<1> SUFFICES ASSUME IInv, [Next]_vars PROVE IInv'
  OBVIOUS
<1>1. CASE UNCHANGED vars
  BY <1>1 DEF vars, segs, IInv, TypeOK, Counted
<1>2. CASE SegInit
  BY <1>2, SegInitOK
<1>3. ASSUME NEW n \in Names, NEW len \in SegSizes, SegCreate(n, len) PROVE IInv'
  BY <1>3, SegCreateOK
<1>4. ASSUME NEW s \in Segs, NEW n \in Names, NEW l \in Lengths, NEW c \in Counts,
             PCreate(s, n, l, c)
      PROVE  IInv'
  BY <1>4, PCreateOK
<1>5. ASSUME NEW n \in Names, SegIdentify(n) PROVE IInv'
  BY <1>5, SegIdentifyOK
<1>6. ASSUME NEW s \in Segs, SegGetName(s) PROVE IInv'
  BY <1>6, SegGetNameOK
<1>7. ASSUME NEW s \in Segs, NEW n \in Names, PIdentify(s, n) PROVE IInv'
  BY <1>7, PIdentifyOK
<1>8. ASSUME NEW s \in Segs, NEW p \in 1 .. MaxParts, PInquiry(s, p) PROVE IInv'
  BY <1>8, PInquiryOK
<1>9. ASSUME NEW s \in Segs, NEW p \in 1 .. MaxParts, PBalloc(s, p) PROVE IInv'
  BY <1>9, PBallocOK
<1>10. ASSUME NEW s \in Segs, NEW p \in 1 .. MaxParts, NEW b \in Blocks, PBfree(s, p, b)
       PROVE  IInv'
  BY <1>10, PBfreeOK
<1> QED
  BY <1>1, <1>2, <1>3, <1>4, <1>5, <1>6, <1>7, <1>8, <1>9, <1>10 DEF Next

\* mmxpmem.c: the descriptors, headers and marks of blocks keep their types.
THEOREM TypeCorrect == Spec => []TypeOK
<1>1. Init => IInv
  BY InvInit
<1>2. IInv /\ [Next]_vars => IInv'
  BY InvNext
<1>3. IInv => TypeOK
  BY DEF IInv
<1> QED BY <1>1, <1>2, <1>3, PTL DEF Spec

\* mmxpmem.c:357-366, 405-407: the count that mxp_pBalloc trusts is the length of
\* the list it takes from, whatever is freed to whichever partition.
THEOREM CountsCorrect == Spec => []CountsAgree
<1>1. Init => IInv
  BY InvInit
<1>2. IInv /\ [Next]_vars => IInv'
  BY InvNext
<1>3. IInv => CountsAgree
  BY DEF IInv, Counted, HeaderOK, CountsAgree, Parts
<1> QED BY <1>1, <1>2, <1>3, PTL DEF Spec

--------------------------------------------------------------------------------
(***************************************************************************)
(* The blocks are sound where every partition fits its segment.            *)
(*                                                                         *)
(* Where the blocks lie: the partitions of a segment lie one below the     *)
(* other, the last one from top on, and the headers below top.  Who has    *)
(* them: what a call does to the free lists is to take a head, to put a    *)
(* busy block first, or to add a list of new blocks.                       *)
(***************************************************************************)

\* Where the blocks of header h end.
EndOf(h) == h.base + h.BlockCnt * h.BlockSize

SegmentLaidOut(s) ==
    /\ s \notin used => part[s] = <<>>
    /\ HdrSize * Len(part[s]) <= top[s]
    /\ top[s] <= size[s]
    /\ \A p \in 1 .. Len(part[s]) :
          top[s] <= part[s][p].base /\ EndOf(part[s][p]) <= size[s]
    /\ \A p, q \in 1 .. Len(part[s]) :
          p < q => EndOf(part[s][q]) <= part[s][p].base

LaidOut == \A s \in Segs : SegmentLaidOut(s)

LEMMA StepOfBlocks ==
    ASSUME NEW i \in Int, NEW j \in Int, i < j, NEW k \in Nat
    PROVE  i * k + k <= j * k
<1>1. PICK d \in Nat : j = i + 1 + d
  <2>1. j - i - 1 \in Nat /\ j = i + 1 + (j - i - 1)
    OBVIOUS
  <2> QED BY <2>1
<1>2. j * k = i * k + k + d * k
  BY <1>1
<1>3. d * k \in Nat
  OBVIOUS
<1> QED BY <1>2, <1>3

\* The addresses of the blocks of a header.
LEMMA BlockSpan ==
    ASSUME NEW h \in Headers, NEW i \in 0 .. h.BlockCnt - 1
    PROVE  /\ h.base \in Int /\ h.BlockSize \in Nat \ {0} /\ h.BlockCnt \in Nat
           /\ h.base + i * h.BlockSize \in Int
           /\ EndOf(h) \in Int
           /\ h.base <= h.base + i * h.BlockSize
           /\ h.base + i * h.BlockSize + h.BlockSize <= EndOf(h)
<1>1. h.base \in Int /\ h.BlockSize \in Nat \ {0} /\ h.BlockCnt \in Nat
  BY DEF Headers
<1>2. i * h.BlockSize \in Nat /\ h.BlockCnt * h.BlockSize \in Nat
  BY <1>1
<1>3. i * h.BlockSize + h.BlockSize <= h.BlockCnt * h.BlockSize
  BY <1>1, StepOfBlocks
<1> QED BY <1>1, <1>2, <1>3 DEF EndOf

LEMMA HeaderTyped ==
    ASSUME IInv, NEW s \in Segs, NEW p \in 1 .. Len(part[s])
    PROVE  part[s][p] \in Headers
  BY DEF IInv, TypeOK

LEMMA SpansApart ==
    ASSUME NEW p \in Int, NEW q \in Int,
           NEW x \in Int, NEW k \in Nat, NEW o \in Int, NEW e \in Int,
           NEW y \in Int, NEW l \in Nat, NEW u \in Int, NEW v \in Int,
           o <= x, x + k <= e, u <= y, y + l <= v,
           p < q => v <= o, q < p => e <= u, p # q
    PROVE  x + k <= y \/ y + l <= x
  OBVIOUS

\* A block belongs to one partition only.
LEMMA OnePartition ==
    ASSUME IInv, LaidOut, NEW s \in Segs,
           NEW p \in 1 .. Len(part[s]), NEW q \in 1 .. Len(part[s]), NEW b,
           b \in BlocksOf(s, p), b \in BlocksOf(s, q)
    PROVE  p = q
<1>1. PICK i \in 0 .. part[s][p].BlockCnt - 1 :
         b = <<s, part[s][p].base + i * part[s][p].BlockSize>>
  BY DEF BlocksOf
<1>2. PICK j \in 0 .. part[s][q].BlockCnt - 1 :
         b = <<s, part[s][q].base + j * part[s][q].BlockSize>>
  BY DEF BlocksOf
<1>3. part[s][p].base + i * part[s][p].BlockSize = part[s][q].base + j * part[s][q].BlockSize
  BY <1>1, <1>2
<1>4. /\ part[s][p].base <= b[2] /\ b[2] + part[s][p].BlockSize <= EndOf(part[s][p])
      /\ part[s][p].base \in Int /\ b[2] \in Int /\ part[s][p].BlockSize \in Nat \ {0}
      /\ EndOf(part[s][p]) \in Int
  BY <1>1, HeaderTyped, BlockSpan
<1>5. /\ part[s][q].base <= b[2] /\ b[2] + part[s][q].BlockSize <= EndOf(part[s][q])
      /\ part[s][q].base \in Int /\ part[s][q].BlockSize \in Nat \ {0}
      /\ EndOf(part[s][q]) \in Int
  BY <1>2, HeaderTyped, BlockSpan
<1>6. /\ p < q => EndOf(part[s][q]) <= part[s][p].base
      /\ q < p => EndOf(part[s][p]) <= part[s][q].base
  BY DEF LaidOut, SegmentLaidOut
<1>7. p \in Int /\ q \in Int
  OBVIOUS
<1> DEFINE x == b[2]
           k == part[s][p].BlockSize
           o == part[s][p].base
           e == EndOf(part[s][p])
           l == part[s][q].BlockSize
           u == part[s][q].base
           v == EndOf(part[s][q])
<1>8. /\ x \in Int /\ o \in Int /\ u \in Int /\ e \in Int /\ v \in Int
      /\ k \in Nat \ {0} /\ l \in Nat \ {0}
      /\ o <= x /\ x + k <= e /\ u <= x /\ x + l <= v
      /\ (p < q => v <= o) /\ (q < p => e <= u)
  BY <1>4, <1>5, <1>6
<1> HIDE DEF x, k, o, e, l, u, v
<1>9. ASSUME p # q PROVE FALSE
  <2>1. x + k <= x \/ x + l <= x
    BY <1>7, <1>8, <1>9, SpansApart
  <2> QED BY <1>8, <2>1
<1> QED BY <1>9

\* Block b is the one with index i of partition p of s.
LiesAt(b, s, p, i) ==
    /\ b = <<s, part[s][p].base + i * part[s][p].BlockSize>>
    /\ SizeAt(b) = part[s][p].BlockSize

LEMMA PlaceOfBlock ==
    ASSUME IInv, LaidOut, NEW b \in Blocks
    PROVE  \E s \in Segs : \E p \in 1 .. Len(part[s]) :
              \E i \in 0 .. part[s][p].BlockCnt - 1 : LiesAt(b, s, p, i)
<1>a. PICK s \in Segs : \E p \in 1 .. Len(part[s]) : b \in BlocksOf(s, p)
  BY DEF Blocks, Parts
<1>1. PICK p \in 1 .. Len(part[s]) : b \in BlocksOf(s, p)
  BY <1>a
<1>2. PICK i \in 0 .. part[s][p].BlockCnt - 1 :
         b = <<s, part[s][p].base + i * part[s][p].BlockSize>>
  BY <1>1 DEF BlocksOf
<1> DEFINE r == CHOOSE r \in 1 .. Len(part[s]) : b \in BlocksOf(s, r)
<1>3. r \in 1 .. Len(part[s]) /\ b \in BlocksOf(s, r)
  BY <1>1
<1> HIDE DEF r
<1>4. r = p
  BY <1>1, <1>3, OnePartition
<1>5. b[1] = s
  BY <1>2
<1>6. SizeAt(b) = part[s][r].BlockSize
  BY <1>5 DEF SizeAt, r
<1>7. LiesAt(b, s, p, i)
  BY <1>2, <1>4, <1>6 DEF LiesAt
<1> QED BY <1>7

\* Where the partitions lie one below the other, so do their blocks.
LEMMA ApartByLayout == IInv /\ LaidOut => BlocksApart
<1> SUFFICES ASSUME IInv, LaidOut PROVE BlocksApart
  OBVIOUS
<1>1. ASSUME NEW b \in Blocks
      PROVE  b[2] >= HdrSize * Len(part[b[1]]) /\ b[2] + SizeAt(b) <= size[b[1]]
  <2>a. PICK s \in Segs : \E p \in 1 .. Len(part[s]) :
           \E i \in 0 .. part[s][p].BlockCnt - 1 : LiesAt(b, s, p, i)
    BY PlaceOfBlock
  <2>1. PICK p \in 1 .. Len(part[s]) :
           \E i \in 0 .. part[s][p].BlockCnt - 1 : LiesAt(b, s, p, i)
    BY <2>a
  <2>2. PICK i \in 0 .. part[s][p].BlockCnt - 1 :
           /\ b = <<s, part[s][p].base + i * part[s][p].BlockSize>>
           /\ SizeAt(b) = part[s][p].BlockSize
    BY <2>1 DEF LiesAt
  <2>3. /\ part[s][p].base <= b[2] /\ b[2] + SizeAt(b) <= EndOf(part[s][p])
        /\ part[s][p].base \in Int /\ b[2] \in Int /\ SizeAt(b) \in Int
        /\ EndOf(part[s][p]) \in Int /\ b[1] = s
    BY <2>2, HeaderTyped, BlockSpan
  <2>4. /\ HdrSize * Len(part[s]) <= top[s] /\ top[s] <= part[s][p].base
        /\ EndOf(part[s][p]) <= size[s]
    BY DEF LaidOut, SegmentLaidOut
  <2>5. top[s] \in Int /\ size[s] \in Int /\ HdrSize * Len(part[s]) \in Int
    <3>1. HdrSize \in Int
      BY MxpMemAssumption
    <3>2. Len(part[s]) \in Int /\ top[s] \in Int
      BY DEF IInv, TypeOK
    <3>3. size[s] \in Int
      <4>1. size[s] \in SegSizes \cup {0}
        BY DEF IInv, TypeOK
      <4>2. SegSizes \cup {0} \subseteq Int
        BY MxpMemAssumption
      <4> QED BY <4>1, <4>2, Zenon
    <3> QED BY <3>1, <3>2, <3>3
  <2> QED BY <2>3, <2>4, <2>5, SMTT(30)
<1>2. ASSUME NEW b \in Blocks, NEW c \in Blocks, b # c, b[1] = c[1]
      PROVE  b[2] + SizeAt(b) <= c[2] \/ c[2] + SizeAt(c) <= b[2]
  <2>a. PICK s \in Segs : \E p \in 1 .. Len(part[s]) :
           \E i \in 0 .. part[s][p].BlockCnt - 1 : LiesAt(b, s, p, i)
    BY PlaceOfBlock
  <2>1. PICK p \in 1 .. Len(part[s]) :
           \E i \in 0 .. part[s][p].BlockCnt - 1 : LiesAt(b, s, p, i)
    BY <2>a
  <2>2. PICK i \in 0 .. part[s][p].BlockCnt - 1 :
           /\ b = <<s, part[s][p].base + i * part[s][p].BlockSize>>
           /\ SizeAt(b) = part[s][p].BlockSize
    BY <2>1 DEF LiesAt
  <2>b. PICK r \in Segs : \E q \in 1 .. Len(part[r]) :
           \E j \in 0 .. part[r][q].BlockCnt - 1 : LiesAt(c, r, q, j)
    BY PlaceOfBlock
  <2>3. PICK q \in 1 .. Len(part[r]) :
           \E j \in 0 .. part[r][q].BlockCnt - 1 : LiesAt(c, r, q, j)
    BY <2>b
  <2>4. r = s
    BY <1>2, <2>2, <2>3 DEF LiesAt
  <2>5. PICK j \in 0 .. part[s][q].BlockCnt - 1 :
           /\ c = <<s, part[s][q].base + j * part[s][q].BlockSize>>
           /\ SizeAt(c) = part[s][q].BlockSize
    BY <2>3, <2>4 DEF LiesAt
  <2>6. /\ part[s][p].base <= b[2] /\ b[2] + SizeAt(b) <= EndOf(part[s][p])
        /\ part[s][p].base \in Int /\ b[2] \in Int /\ SizeAt(b) \in Int
        /\ EndOf(part[s][p]) \in Int
    BY <2>2, HeaderTyped, BlockSpan, SMTT(30)
  <2>7. /\ part[s][q].base <= c[2] /\ c[2] + SizeAt(c) <= EndOf(part[s][q])
        /\ part[s][q].base \in Int /\ c[2] \in Int /\ SizeAt(c) \in Int
        /\ EndOf(part[s][q]) \in Int /\ q \in 1 .. Len(part[s])
    <3>1. q \in 1 .. Len(part[s])
      BY <2>3, <2>4
    <3>2. part[s][q] \in Headers
      BY <3>1, HeaderTyped
    <3> QED BY <2>5, <3>1, <3>2, BlockSpan, SMTT(30)
  <2>8. /\ p < q => EndOf(part[s][q]) <= part[s][p].base
        /\ q < p => EndOf(part[s][p]) <= part[s][q].base
    BY <2>7 DEF LaidOut, SegmentLaidOut
  <2>9. CASE p = q
    <3> DEFINE k == part[s][p].BlockSize
               o == part[s][p].base
    <3>1. b = <<s, o + i * k>> /\ c = <<s, o + j * k>> /\ SizeAt(b) = k /\ SizeAt(c) = k
      BY <2>2, <2>5, <2>9
    <3>2. o \in Int /\ k \in Nat /\ i \in Int /\ j \in Int
      BY HeaderTyped DEF Headers
    <3>3. i # j
      BY <1>2, <3>1
    <3> HIDE DEF k, o
    <3>4. /\ i < j => i * k + k <= j * k
          /\ j < i => j * k + k <= i * k
      BY <3>2, StepOfBlocks
    <3>5. b[2] = o + i * k /\ c[2] = o + j * k /\ i * k \in Int /\ j * k \in Int
      BY <3>1, <3>2
    <3> QED BY <3>1, <3>2, <3>3, <3>4, <3>5
  <2>10. CASE p # q
    <3> DEFINE x == b[2]
               k == SizeAt(b)
               o == part[s][p].base
               e == EndOf(part[s][p])
               y == c[2]
               l == SizeAt(c)
               u == part[s][q].base
               v == EndOf(part[s][q])
    <3>1. p \in Int /\ q \in Int /\ k \in Nat /\ l \in Nat
      <4>1. p \in Int /\ q \in Int
        BY <2>7
      <4>2. part[s][p].BlockSize \in Nat /\ part[s][q].BlockSize \in Nat
        BY <2>7, HeaderTyped DEF Headers
      <4> QED BY <2>2, <2>5, <4>1, <4>2
    <3>2. /\ x \in Int /\ o \in Int /\ e \in Int /\ y \in Int /\ u \in Int /\ v \in Int
          /\ o <= x /\ x + k <= e /\ u <= y /\ y + l <= v
          /\ (p < q => v <= o) /\ (q < p => e <= u)
      BY <2>6, <2>7, <2>8
    <3> HIDE DEF x, k, o, e, y, l, u, v
    <3>3. x + k <= y \/ y + l <= x
      BY <2>10, <3>1, <3>2, SpansApart
    <3> QED BY <3>3 DEF x, k, y, l
  <2> QED BY <2>9, <2>10
<1> QED BY <1>1, <1>2 DEF BlocksApart, Apart

--------------------------------------------------------------------------------
\* The layout of a segment depends on these parts of it only.
LEMMA LayoutKept ==
    ASSUME IInv, LaidOut, used' = used, top' = top, size' = size,
           \A s \in Segs : Len(part'[s]) = Len(part[s]),
           \A s \in Segs : \A p \in 1 .. Len(part[s]) :
              /\ part'[s][p].base = part[s][p].base
              /\ part'[s][p].BlockCnt = part[s][p].BlockCnt
              /\ part'[s][p].BlockSize = part[s][p].BlockSize,
           part' \in [Segs -> Seq(Headers)]
    PROVE  LaidOut'
<1> SUFFICES ASSUME NEW s \in Segs PROVE SegmentLaidOut(s)'
  BY DEF LaidOut
<1>1. SegmentLaidOut(s)
  BY DEF LaidOut
<1>2. \A p \in 1 .. Len(part[s]) : EndOf(part[s][p])' = EndOf(part[s][p])
  BY DEF EndOf
<1>3. s \notin used' => part'[s] = <<>>
  <2>1. s \notin used => Len(part[s]) = 0
    BY <1>1 DEF SegmentLaidOut
  <2> QED BY <2>1
<1> QED BY <1>1, <1>2, <1>3 DEF SegmentLaidOut

\* The headers of all other partitions, and of this one but for its free list,
\* stay what they are when a block is taken or given back.
RelinkedOnly(s, p, L) ==
    /\ \A r \in Segs : Len(part'[r]) = Len(part[r])
    /\ \A r \in Segs : \A q \in 1 .. Len(part[r]) :
          /\ part'[r][q].base = part[r][q].base
          /\ part'[r][q].BlockCnt = part[r][q].BlockCnt
          /\ part'[r][q].BlockSize = part[r][q].BlockSize
          /\ part'[r][q].FreeList =
                IF r = s /\ q = p THEN L ELSE part[r][q].FreeList

LEMMA Relinking ==
    ASSUME IInv, NEW s \in Segs, NEW p \in 1 .. Len(part[s]), NEW L, NEW k,
           part' = [part EXCEPT ![s][p] = Relinked(part[s][p], L, k)],
           part' \in [Segs -> Seq(Headers)]
    PROVE  RelinkedOnly(s, p, L)
<1> DEFINE h == Relinked(part[s][p], L, k)
<1>1. /\ part \in [Segs -> Seq(Headers)]
      /\ part[s] \in Seq(Headers) /\ part[s][p] \in Headers
  BY DEF IInv, TypeOK
<1>2. /\ h.base = part[s][p].base
      /\ h.BlockCnt = part[s][p].BlockCnt
      /\ h.BlockSize = part[s][p].BlockSize
      /\ h.FreeList = L
  BY <1>1 DEF Relinked, Headers
<1> HIDE DEF h
<1>3. part' = [part EXCEPT ![s] = [part[s] EXCEPT ![p] = h]]
  BY <1>1 DEF h
<1>4. /\ part'[s] = [part[s] EXCEPT ![p] = h]
      /\ \A r \in Segs \ {s} : part'[r] = part[r]
  BY <1>1, <1>3
<1>5. /\ Len(part'[s]) = Len(part[s])
      /\ part'[s][p] = h
      /\ \A q \in 1 .. Len(part[s]) : q # p => part'[s][q] = part[s][q]
  BY <1>1, <1>4
<1>6. ASSUME NEW r \in Segs PROVE Len(part'[r]) = Len(part[r])
  BY <1>4, <1>5
<1>7. ASSUME NEW r \in Segs, NEW q \in 1 .. Len(part[r])
      PROVE  /\ part'[r][q].base = part[r][q].base
             /\ part'[r][q].BlockCnt = part[r][q].BlockCnt
             /\ part'[r][q].BlockSize = part[r][q].BlockSize
             /\ part'[r][q].FreeList =
                   IF r = s /\ q = p THEN L ELSE part[r][q].FreeList
  <2>1. CASE r = s /\ q = p
    BY <1>2, <1>5, <2>1
  <2>2. CASE r = s /\ q # p
    BY <1>5, <2>2
  <2>3. CASE r # s
    BY <1>4, <2>3
  <2> QED BY <2>1, <2>2, <2>3
<1> QED BY <1>6, <1>7 DEF RelinkedOnly

\* A new partition lies below the others of its segment.
LEMMA LayoutCarved ==
    ASSUME IInv, LaidOut, NEW s \in Segs, NEW n \in Names, NEW l \in Lengths,
           NEW c \in Counts, s \in used, Fits(s, l, c),
           part' = [part EXCEPT ![s] = Append(@, Carved(s, n, l, c))],
           top' = [top EXCEPT ![s] = NewTop(s, l, c)],
           UNCHANGED <<used, size>>
    PROVE  LaidOut'
<1> DEFINE h == Carved(s, n, l, c)
           k == BlockSize(l)
<1>1. /\ part \in [Segs -> Seq(Headers)] /\ part[s] \in Seq(Headers)
      /\ top \in [Segs -> Int] /\ top[s] \in Int
  BY DEF IInv, TypeOK
<1>2. /\ k \in Nat \ {0} /\ c \in Nat /\ NewTop(s, l, c) \in Int
      /\ HdrSize \in Nat \ {0}
  <2>1. Lengths \subseteq Nat /\ Counts \subseteq Nat /\ HdrSize \in Nat \ {0}
    BY MxpMemAssumption
  <2> QED BY <2>1, BlockSizeNat, NewTopInt DEF IInv
<1>3. h \in Headers /\ h.base = NewTop(s, l, c) /\ EndOf(h) = top[s]
  <2>1. h \in Headers
    BY CarvedOK DEF IInv, HeaderOK
  <2>2. h.base = NewTop(s, l, c) /\ h.BlockCnt = c /\ h.BlockSize = k
    BY DEF Carved
  <2> HIDE DEF h
  <2>3. EndOf(h) = top[s] - k * c + c * k
    BY <2>2 DEF EndOf, NewTop
  <2> HIDE DEF k
  <2>4. k * c \in Int /\ c * k = k * c
    BY <1>2
  <2> QED BY <1>1, <2>1, <2>2, <2>3, <2>4
<1>4. NewTop(s, l, c) <= top[s]
  <2> HIDE DEF k
  <2>1. k * c \in Nat
    BY <1>2
  <2>2. NewTop(s, l, c) = top[s] - k * c
    BY DEF NewTop, k
  <2> QED BY <1>1, <2>1, <2>2
<1> HIDE DEF h, k
<1>5. /\ part'[s] = Append(part[s], h) /\ top'[s] = NewTop(s, l, c)
      /\ \A r \in Segs \ {s} : part'[r] = part[r] /\ top'[r] = top[r]
  BY <1>1 DEF h
<1>6. /\ Len(part'[s]) = Len(part[s]) + 1
      /\ Len(part[s]) \in Nat
      /\ part'[s][Len(part[s]) + 1] = h
      /\ \A p \in 1 .. Len(part[s]) : part'[s][p] = part[s][p]
  BY <1>1, <1>3, <1>5
<1>7. ASSUME NEW r \in Segs \ {s} PROVE SegmentLaidOut(r)'
  <2>1. /\ SegmentLaidOut(r) /\ part'[r] = part[r] /\ top'[r] = top[r]
        /\ used' = used /\ size' = size
    BY <1>5 DEF LaidOut
  <2>2. \A p \in 1 .. Len(part[r]) : EndOf(part[r][p])' = EndOf(part[r][p])
    BY <2>1 DEF EndOf
  <2> QED BY <2>1, <2>2 DEF SegmentLaidOut
<1>8. SegmentLaidOut(s)'
  <2> DEFINE m == Len(part[s]) + 1
  <2>1. SegmentLaidOut(s)
    BY DEF LaidOut
  <2>2. size'[s] = size[s] /\ size[s] \in Int
    <3>1. size[s] \in SegSizes \cup {0}
      BY DEF IInv, TypeOK
    <3>2. SegSizes \cup {0} \subseteq Int
      BY MxpMemAssumption
    <3>3. size[s] \in Int
      BY <3>1, <3>2, Zenon
    <3> QED BY <3>3
  <2>3. HdrSize * Len(part'[s]) <= top'[s]
    BY <1>5, <1>6 DEF Fits
  <2>4. top'[s] <= size'[s]
    BY <1>1, <1>2, <1>4, <1>5, <2>1, <2>2 DEF SegmentLaidOut
  <2>5. ASSUME NEW p \in 1 .. Len(part[s])
        PROVE  /\ top'[s] <= part'[s][p].base /\ EndOf(part'[s][p]) <= size'[s]
               /\ EndOf(h) <= part'[s][p].base
    <3>1. /\ top[s] <= part[s][p].base /\ EndOf(part[s][p]) <= size[s]
          /\ part[s][p].base \in Int
      BY <2>1, HeaderTyped DEF SegmentLaidOut, Headers
    <3>2. part'[s][p] = part[s][p]
      BY <1>6
    <3> QED BY <1>1, <1>2, <1>3, <1>4, <1>5, <2>2, <3>1, <3>2
  <2>6. top'[s] <= h.base /\ EndOf(h) <= size'[s]
    BY <1>1, <1>2, <1>3, <1>5, <2>1, <2>2 DEF SegmentLaidOut
  <2>7. ASSUME NEW p \in 1 .. Len(part'[s])
        PROVE  top'[s] <= part'[s][p].base /\ EndOf(part'[s][p]) <= size'[s]
    <3>1. CASE p = m
      BY <1>6, <2>6, <3>1
    <3>2. CASE p # m
      <4>1. p \in 1 .. Len(part[s])
        BY <1>6, <3>2
      <4> QED BY <2>5, <4>1
    <3> QED BY <3>1, <3>2
  <2>8. ASSUME NEW p \in 1 .. Len(part'[s]), NEW q \in 1 .. Len(part'[s]), p < q
        PROVE  EndOf(part'[s][q]) <= part'[s][p].base
    <3>1. p \in 1 .. Len(part[s])
      BY <1>6, <2>8
    <3>2. CASE q = m
      BY <1>6, <2>5, <3>1, <3>2
    <3>3. CASE q # m
      <4>1. q \in 1 .. Len(part[s])
        BY <1>6, <3>3
      <4>2. EndOf(part[s][q]) <= part[s][p].base
        BY <2>1, <2>8, <3>1, <4>1 DEF SegmentLaidOut
      <4> QED BY <1>6, <3>1, <4>1, <4>2
    <3> QED BY <3>2, <3>3
  <2> QED BY <2>3, <2>4, <2>7, <2>8 DEF SegmentLaidOut, EndOf
<1> QED BY <1>7, <1>8 DEF LaidOut

LEMMA LayoutNext ==
    ASSUME Roomy, IInv, IInv', LaidOut, [Next]_vars
    PROVE  LaidOut'
<1>0. ASSUME UNCHANGED <<segs, part>> PROVE LaidOut'
  BY <1>0 DEF segs, LaidOut, SegmentLaidOut, EndOf
<1>p. part' \in [Segs -> Seq(Headers)]
  BY DEF IInv, TypeOK
<1>1. CASE UNCHANGED vars
  BY <1>0, <1>1 DEF vars, segs
<1>2. CASE SegInit
  <2>1. ASSUME NEW s \in Segs
        PROVE  part'[s] = <<>> /\ top'[s] = 0 /\ size'[s] = 0 /\ Len(part'[s]) = 0
    BY <1>2 DEF SegInit
  <2>2. HdrSize * 0 <= 0
    BY MxpMemAssumption
  <2> QED BY <2>1, <2>2 DEF LaidOut, SegmentLaidOut
<1>3. ASSUME NEW n \in Names, NEW len \in SegSizes, SegCreate(n, len) PROVE LaidOut'
  <2>1. CASE Unused = {} \/ ByName(n) # {}
    BY <1>0, <1>3, <2>1 DEF SegCreate, Fail
  <2>2. CASE Unused # {} /\ ByName(n) = {}
    <3>0. PICK s : s = Least(Unused)
      OBVIOUS
    <3>1. /\ used' = used \cup {s} /\ top' = [top EXCEPT ![s] = len]
          /\ size' = [size EXCEPT ![s] = len] /\ part' = [part EXCEPT ![s] = <<>>]
      BY <1>3, <2>2, <3>0 DEF SegCreate
    <3>2. len \in Nat /\ HdrSize \in Nat
      BY MxpMemAssumption
    <3>3. HdrSize * 0 <= len
      BY <3>2
    <3>4. ASSUME NEW r \in Segs, r # s PROVE SegmentLaidOut(r)'
      <4>1. /\ SegmentLaidOut(r) /\ part'[r] = part[r] /\ top'[r] = top[r]
            /\ size'[r] = size[r] /\ (r \in used' <=> r \in used)
        BY <3>1, <3>4 DEF LaidOut, IInv, TypeOK
      <4> QED BY <4>1 DEF SegmentLaidOut, EndOf
    <3>5. ASSUME s \in Segs PROVE SegmentLaidOut(s)'
      <4>1. part'[s] = <<>> /\ top'[s] = len /\ size'[s] = len /\ Len(part'[s]) = 0
        <5>1. s \in DOMAIN part /\ s \in DOMAIN top /\ s \in DOMAIN size
          BY <3>5 DEF IInv, TypeOK
        <5>2. part'[s] = <<>> /\ top'[s] = len /\ size'[s] = len
          BY <3>1, <5>1, Zenon
        <5> QED BY <5>2
      <4>2. HdrSize * Len(part'[s]) <= top'[s] /\ top'[s] <= size'[s]
        BY <3>2, <3>3, <4>1
      <4>3. 1 .. Len(part'[s]) = {}
        BY <4>1
      <4> QED BY <4>1, <4>2, <4>3 DEF SegmentLaidOut
    <3>6. \A r \in Segs : SegmentLaidOut(r)'
      BY <3>4, <3>5
    <3> QED BY <3>6 DEF LaidOut
  <2> QED BY <2>1, <2>2
<1>4. ASSUME NEW s \in Segs, NEW n \in Names, NEW l \in Lengths, NEW c \in Counts,
             PCreate(s, n, l, c)
      PROVE  LaidOut'
  <2>1. CASE UNCHANGED <<segs, part>>
    BY <1>0, <2>1
  <2>2. CASE /\ s \in used
             /\ MayCreate(s, l, c)
             /\ part' = [part EXCEPT ![s] = Append(@, Carved(s, n, l, c))]
             /\ top' = [top EXCEPT ![s] = NewTop(s, l, c)]
             /\ UNCHANGED <<used, name, size, busy, held>>
    <3>1. Fits(s, l, c)
      BY <2>2 DEF MayCreate
    <3> QED BY <2>2, <3>1, LayoutCarved
  <2> QED BY <1>4, <2>1, <2>2 DEF PCreate, Fail
<1>5. ASSUME NEW s \in Segs, NEW p \in 1 .. Len(part[s]), NEW L, NEW k, UNCHANGED segs,
             part' = [part EXCEPT ![s][p] = Relinked(part[s][p], L, k)]
      PROVE  LaidOut'
  <2>1. RelinkedOnly(s, p, L)
    BY <1>p, <1>5, Relinking
  <2>2. used' = used /\ top' = top /\ size' = size
    BY <1>5 DEF segs
  <2> QED BY <1>p, <2>1, <2>2, LayoutKept DEF RelinkedOnly
<1>6. ASSUME NEW s \in Segs, NEW p \in 1 .. MaxParts, PBalloc(s, p) PROVE LaidOut'
  <2>1. CASE UNCHANGED <<segs, part>>
    BY <1>0, <2>1
  <2>2. CASE Valid(s, p) /\ \E L, k : part' = [part EXCEPT ![s][p] = Relinked(part[s][p], L, k)]
                         /\ UNCHANGED segs
    BY <1>5, <2>2 DEF Valid
  <2> QED BY <1>6, <2>1, <2>2 DEF PBalloc, Fail
<1>7. ASSUME NEW s \in Segs, NEW p \in 1 .. MaxParts, NEW b \in Blocks, PBfree(s, p, b)
      PROVE  LaidOut'
  <2>1. CASE UNCHANGED <<segs, part>>
    BY <1>0, <2>1
  <2>2. CASE Valid(s, p) /\ \E L, k : part' = [part EXCEPT ![s][p] = Relinked(part[s][p], L, k)]
                         /\ UNCHANGED segs
    BY <1>5, <2>2 DEF Valid
  <2> QED BY <1>7, <2>1, <2>2 DEF PBfree, Fail, Released
<1>8. CASE \/ \E n \in Names : SegIdentify(n)
           \/ \E s \in Segs : SegGetName(s)
           \/ \E s \in Segs, n \in Names : PIdentify(s, n)
           \/ \E s \in Segs, p \in 1 .. MaxParts : PInquiry(s, p)
  BY <1>0, <1>8 DEF SegIdentify, SegGetName, PIdentify, PInquiry
<1> QED BY <1>1, <1>2, <1>3, <1>4, <1>6, <1>7, <1>8 DEF Next

--------------------------------------------------------------------------------
\* Lists L of the partitions P, with the busy blocks B, hold the blocks D: each
\* in one place.
Sorted(P, L, B, D) ==
    /\ B \subseteq D
    /\ \A x \in P : \A i \in 1 .. Len(L[x]) : L[x][i] \in D \ B
    /\ \A b \in D : b \in B \/ \E x \in P : \E i \in 1 .. Len(L[x]) : L[x][i] = b
    /\ \A x, y \in P : \A i \in 1 .. Len(L[x]), j \in 1 .. Len(L[y]) :
          L[x][i] = L[y][j] => x = y /\ i = j

Lists == [x \in Parts |-> part[x[1]][x[2]].FreeList]

\* Taking the head of a list.
LEMMA TakeFirst ==
    ASSUME NEW P, NEW U, NEW L \in [P -> Seq(U)], NEW B, NEW D, Sorted(P, L, B, D),
           NEW x \in P, L[x] # <<>>
    PROVE  Sorted(P, [L EXCEPT ![x] = Tail(@)], B \cup {Head(L[x])}, D)
<1> DEFINE M == [L EXCEPT ![x] = Tail(@)]
           h == Head(L[x])
<1>1. /\ L[x] \in Seq(U) /\ Len(L[x]) \in Nat \ {0} /\ h = L[x][1]
      /\ Len(Tail(L[x])) = Len(L[x]) - 1
      /\ \A i \in 1 .. Len(L[x]) - 1 : Tail(L[x])[i] = L[x][i + 1]
  OBVIOUS
<1>2. /\ Len(M[x]) = Len(L[x]) - 1
      /\ \A i \in 1 .. Len(L[x]) - 1 : M[x][i] = L[x][i + 1]
      /\ \A y \in P : y # x => M[y] = L[y]
  BY <1>1
<1> HIDE DEF M, h
<1>3. 1 \in 1 .. Len(L[x]) /\ h \in D \ B
  BY <1>1 DEF Sorted
\* Where an entry of the new lists was in the old ones.
<1>4. ASSUME NEW y \in P, NEW i \in 1 .. Len(M[y])
      PROVE  \E j \in 1 .. Len(L[y]) : /\ M[y][i] = L[y][j]
                                       /\ j = IF y = x THEN i + 1 ELSE i
  <2>1. CASE y = x
    <3>1. i \in 1 .. Len(L[x]) - 1
      BY <1>2, <2>1
    <3>2. i + 1 \in 1 .. Len(L[x])
      <4>1. Len(L[x]) \in Nat
        BY <1>1
      <4> QED BY <3>1, <4>1
    <3>3. M[x][i] = L[x][i + 1]
      BY <1>2, <3>1, Zenon
    <3> QED BY <2>1, <3>2, <3>3
  <2>2. CASE y # x
    BY <1>2, <2>2
  <2> QED BY <2>1, <2>2
<1>5. ASSUME NEW y \in P, NEW i \in 1 .. Len(M[y])
      PROVE  M[y][i] \in D \ (B \cup {h})
  <2>1. PICK j \in 1 .. Len(L[y]) : /\ M[y][i] = L[y][j]
                                    /\ j = IF y = x THEN i + 1 ELSE i
    BY <1>4
  <2>2. M[y][i] \in D \ B
    BY <2>1 DEF Sorted
  <2>3. M[y][i] # h
    <3>1. ~(y = x /\ j = 1)
      <4>1. i \in Nat \ {0}
        OBVIOUS
      <4> QED BY <2>1, <4>1
    <3> QED BY <1>1, <1>3, <2>1, <3>1 DEF Sorted
  <2> QED BY <2>2, <2>3
<1>6. ASSUME NEW b \in D, b \notin B \cup {h}
      PROVE  \E y \in P : \E i \in 1 .. Len(M[y]) : M[y][i] = b
  <2>1. PICK y \in P : \E i \in 1 .. Len(L[y]) : L[y][i] = b
    BY <1>6 DEF Sorted
  <2>2. PICK i \in 1 .. Len(L[y]) : L[y][i] = b
    BY <2>1
  <2>3. CASE y = x
    <3>1. i # 1
      BY <1>1, <1>6, <2>2, <2>3
    <3>2. i - 1 \in 1 .. Len(L[x]) - 1 /\ i - 1 + 1 = i
      BY <1>1, <2>3, <3>1
    <3>3. i - 1 \in 1 .. Len(M[x]) /\ M[x][i - 1] = b
      BY <1>2, <2>2, <2>3, <3>2
    <3> QED BY <3>3
  <2>4. CASE y # x
    BY <1>2, <2>2, <2>4
  <2> QED BY <2>3, <2>4
<1>7. ASSUME NEW y \in P, NEW z \in P, NEW i \in 1 .. Len(M[y]), NEW j \in 1 .. Len(M[z]),
             M[y][i] = M[z][j]
      PROVE  y = z /\ i = j
  <2>1. PICK a \in 1 .. Len(L[y]) : /\ M[y][i] = L[y][a]
                                    /\ a = IF y = x THEN i + 1 ELSE i
    BY <1>4
  <2>2. PICK c \in 1 .. Len(L[z]) : /\ M[z][j] = L[z][c]
                                    /\ c = IF z = x THEN j + 1 ELSE j
    BY <1>4
  <2>3. y = z /\ a = c
    <3>1. L[y][a] = L[z][c]
      BY <1>7, <2>1, <2>2
    <3> QED BY <3>1 DEF Sorted
  <2> QED BY <2>1, <2>2, <2>3
<1>8. B \cup {h} \subseteq D
  BY <1>3 DEF Sorted
<1>9. Sorted(P, M, B \cup {h}, D)
  BY <1>5, <1>6, <1>7, <1>8 DEF Sorted
<1> QED BY <1>9 DEF M, h

\* Putting a busy block first in a list.
LEMMA PutFirst ==
    ASSUME NEW P, NEW U, NEW L \in [P -> Seq(U)], NEW B, NEW D, Sorted(P, L, B, D),
           NEW x \in P, NEW b \in B, b \in U
    PROVE  Sorted(P, [L EXCEPT ![x] = <<b>> \o @], B \ {b}, D)
<1> DEFINE M == [L EXCEPT ![x] = <<b>> \o @]
<1>1. /\ L[x] \in Seq(U) /\ Len(L[x]) \in Nat /\ <<b>> \in Seq(U)
      /\ Len(<<b>> \o L[x]) = Len(L[x]) + 1
      /\ (<<b>> \o L[x])[1] = b
      /\ \A i \in 1 .. Len(L[x]) : (<<b>> \o L[x])[i + 1] = L[x][i]
  OBVIOUS
<1>2. /\ Len(M[x]) = Len(L[x]) + 1
      /\ M[x][1] = b
      /\ \A i \in 1 .. Len(L[x]) : M[x][i + 1] = L[x][i]
      /\ \A y \in P : y # x => M[y] = L[y]
  BY <1>1
<1> HIDE DEF M
<1>3. b \in D /\ \A y \in P : \A i \in 1 .. Len(L[y]) : L[y][i] # b
  BY DEF Sorted
\* An entry of the new lists is the new one or was in the old lists.
<1>4. ASSUME NEW y \in P, NEW i \in 1 .. Len(M[y])
      PROVE  \/ y = x /\ i = 1 /\ M[y][i] = b
             \/ \E j \in 1 .. Len(L[y]) : /\ M[y][i] = L[y][j]
                                          /\ i = IF y = x THEN j + 1 ELSE j
  <2>1. CASE y = x /\ i = 1
    BY <1>2, <2>1
  <2>2. CASE y = x /\ i # 1
    <3>1. i - 1 \in 1 .. Len(L[x]) /\ i - 1 + 1 = i
      BY <1>1, <1>2, <2>2
    <3>2. M[y][i] = L[y][i - 1]
      BY <1>2, <2>2, <3>1
    <3> QED BY <2>2, <3>1, <3>2
  <2>3. CASE y # x
    BY <1>2, <2>3
  <2> QED BY <2>1, <2>2, <2>3
<1>5. ASSUME NEW y \in P, NEW i \in 1 .. Len(M[y])
      PROVE  M[y][i] \in D \ (B \ {b})
  <2>1. CASE M[y][i] = b
    BY <1>3, <2>1
  <2>2. CASE M[y][i] # b
    <3>1. PICK j \in 1 .. Len(L[y]) : M[y][i] = L[y][j]
      BY <1>4, <2>2
    <3> QED BY <3>1 DEF Sorted
  <2> QED BY <2>1, <2>2
<1>6. ASSUME NEW d \in D, d \notin B \ {b}
      PROVE  \E y \in P : \E i \in 1 .. Len(M[y]) : M[y][i] = d
  <2>1. CASE d = b
    <3>1. 1 \in 1 .. Len(M[x]) /\ M[x][1] = d
      BY <1>1, <1>2, <2>1
    <3> QED BY <3>1
  <2>2. CASE d # b
    <3>1. PICK y \in P : \E i \in 1 .. Len(L[y]) : L[y][i] = d
      BY <1>6, <2>2 DEF Sorted
    <3>2. PICK i \in 1 .. Len(L[y]) : L[y][i] = d
      BY <3>1
    <3>3. CASE y = x
      <4>1. i + 1 \in 1 .. Len(M[x]) /\ M[x][i + 1] = d
        BY <1>1, <1>2, <3>2, <3>3
      <4> QED BY <4>1
    <3>4. CASE y # x
      BY <1>2, <3>2, <3>4
    <3> QED BY <3>3, <3>4
  <2> QED BY <2>1, <2>2
<1>7. ASSUME NEW y \in P, NEW z \in P, NEW i \in 1 .. Len(M[y]), NEW j \in 1 .. Len(M[z]),
             M[y][i] = M[z][j]
      PROVE  y = z /\ i = j
  <2>1. CASE M[y][i] = b
    <3>1. y = x /\ i = 1
      BY <1>3, <1>4, <2>1
    <3>2. z = x /\ j = 1
      <4>1. M[z][j] = b
        BY <1>7, <2>1
      <4> QED BY <1>3, <1>4, <4>1
    <3> QED BY <3>1, <3>2
  <2>2. CASE M[y][i] # b
    <3>1. PICK a \in 1 .. Len(L[y]) : /\ M[y][i] = L[y][a]
                                      /\ i = IF y = x THEN a + 1 ELSE a
      BY <1>4, <2>2
    <3>2. PICK c \in 1 .. Len(L[z]) : /\ M[z][j] = L[z][c]
                                      /\ j = IF z = x THEN c + 1 ELSE c
      <4>1. M[z][j] # b
        BY <1>7, <2>2
      <4> QED BY <1>4, <4>1
    <3>3. y = z /\ a = c
      <4>1. L[y][a] = L[z][c]
        BY <1>7, <3>1, <3>2
      <4> QED BY <4>1 DEF Sorted
    <3> QED BY <3>1, <3>2, <3>3
  <2> QED BY <2>1, <2>2
<1>8. B \ {b} \subseteq D
  BY DEF Sorted
<1>9. Sorted(P, M, B \ {b}, D)
  BY <1>5, <1>6, <1>7, <1>8 DEF Sorted
<1> QED BY <1>9 DEF M

\* Adding a list of new blocks.
LEMMA AddList ==
    ASSUME NEW P, NEW L, NEW B, NEW D, Sorted(P, L, B, D),
           NEW x, x \notin P, NEW M, \A y \in P : M[y] = L[y],
           NEW N, N \cap D = {},
           \A i \in 1 .. Len(M[x]) : M[x][i] \in N,
           \A b \in N : \E i \in 1 .. Len(M[x]) : M[x][i] = b,
           \A i, j \in 1 .. Len(M[x]) : M[x][i] = M[x][j] => i = j
    PROVE  Sorted(P \cup {x}, M, B, D \cup N)
<1>1. ASSUME NEW y \in P \cup {x}, NEW i \in 1 .. Len(M[y])
      PROVE  M[y][i] \in (D \cup N) \ B
  BY <1>1 DEF Sorted
<1>2. ASSUME NEW b \in D \cup N, b \notin B
      PROVE  \E y \in P \cup {x} : \E i \in 1 .. Len(M[y]) : M[y][i] = b
  <2>1. CASE b \in D
    <3>1. PICK y \in P : \E i \in 1 .. Len(L[y]) : L[y][i] = b
      BY <1>2, <2>1 DEF Sorted
    <3> QED BY <3>1
  <2>2. CASE b \in N
    BY <2>2
  <2> QED BY <2>1, <2>2
<1>3. ASSUME NEW y \in P \cup {x}, NEW z \in P \cup {x},
             NEW i \in 1 .. Len(M[y]), NEW j \in 1 .. Len(M[z]), M[y][i] = M[z][j]
      PROVE  y = z /\ i = j
  <2>1. CASE y \in P /\ z \in P
    BY <1>3, <2>1 DEF Sorted
  <2>2. CASE y = x /\ z = x
    BY <1>3, <2>2
  <2>3. CASE y \in P /\ z = x
    <3>1. M[y][i] \in D /\ M[z][j] \in N
      BY <2>3 DEF Sorted
    <3> QED BY <1>3, <3>1
  <2>4. CASE y = x /\ z \in P
    <3>1. M[z][j] \in D /\ M[y][i] \in N
      BY <2>4 DEF Sorted
    <3> QED BY <1>3, <3>1
  <2> QED BY <2>1, <2>2, <2>3, <2>4
<1>4. B \subseteq D \cup N
  BY DEF Sorted
<1> QED BY <1>1, <1>2, <1>3, <1>4 DEF Sorted

\* This is what FreeOrBusy says.
LEMMA SortedIsFreeOrBusy == Sorted(Parts, Lists, busy, Blocks) => FreeOrBusy
<1> SUFFICES ASSUME Sorted(Parts, Lists, busy, Blocks) PROVE FreeOrBusy
  OBVIOUS
<1> DEFINE List(x) == part[x[1]][x[2]].FreeList
           places == UNION {{x} \X (1 .. Len(List(x))) : x \in Parts}
           At(y) == List(y[1])[y[2]]
<1>1. \A x \in Parts : Lists[x] = List(x)
  BY DEF Lists
<1>2. ASSUME NEW y \in places
      PROVE  /\ y[1] \in Parts /\ y[2] \in 1 .. Len(Lists[y[1]])
             /\ At(y) = Lists[y[1]][y[2]] /\ y = <<y[1], y[2]>>
  <2>1. PICK x \in Parts : y \in {x} \X (1 .. Len(List(x)))
    OBVIOUS
  <2>2. y[1] = x /\ y[2] \in 1 .. Len(List(x)) /\ y = <<y[1], y[2]>>
    BY <2>1
  <2> QED BY <1>1, <2>2
<1>3. ASSUME NEW x \in Parts, NEW i \in 1 .. Len(Lists[x])
      PROVE  <<x, i>> \in places /\ At(<<x, i>>) = Lists[x][i]
  BY <1>1
<1> HIDE DEF places, At
<1>4. busy \cup {At(y) : y \in places} = Blocks
  <2>1. ASSUME NEW y \in places PROVE At(y) \in Blocks
    BY <1>2 DEF Sorted
  <2>2. ASSUME NEW b \in Blocks, b \notin busy PROVE \E y \in places : At(y) = b
    <3>1. PICK x \in Parts : \E i \in 1 .. Len(Lists[x]) : Lists[x][i] = b
      BY <2>2 DEF Sorted
    <3> QED BY <1>3, <3>1
  <2>3. busy \subseteq Blocks
    BY DEF Sorted
  <2> QED BY <2>1, <2>2, <2>3
<1>5. \A y \in places : At(y) \notin busy
  BY <1>2 DEF Sorted
<1>6. \A y, z \in places : At(y) = At(z) => y = z
  <2> SUFFICES ASSUME NEW y \in places, NEW z \in places, At(y) = At(z) PROVE y = z
    OBVIOUS
  <2>1. y[1] = z[1] /\ y[2] = z[2]
    BY <1>2 DEF Sorted
  <2> QED BY <1>2, <2>1
<1> QED BY <1>4, <1>5, <1>6 DEF FreeOrBusy, places, At

--------------------------------------------------------------------------------
Blocked == Sorted(Parts, Lists, busy, Blocks)

LEMMA PartsIn ==
    ASSUME NEW s, NEW p
    PROVE  <<s, p>> \in Parts <=> s \in Segs /\ p \in 1 .. Len(part[s])
  BY DEF Parts

LEMMA PartPair ==
    ASSUME NEW x \in Parts
    PROVE  /\ x[1] \in Segs /\ x[2] \in 1 .. Len(part[x[1]])
           /\ x = <<x[1], x[2]>>
  BY DEF Parts

LEMMA ListsTyped == IInv => Lists \in [Parts -> Seq(Block)]
<1> SUFFICES ASSUME IInv, NEW x \in Parts PROVE part[x[1]][x[2]].FreeList \in Seq(Block)
  BY DEF Lists
<1> QED BY PartPair, HeaderTyped DEF Headers, Block

\* Relinking a partition changes its list and nothing else of this.
LEMMA RelinkedLists ==
    ASSUME NEW s \in Segs, NEW p \in 1 .. Len(part[s]), NEW L, RelinkedOnly(s, p, L)
    PROVE  /\ Parts' = Parts
           /\ Blocks' = Blocks
           /\ Lists' = [Lists EXCEPT ![<<s, p>>] = L]
<1>1. Parts' = Parts
  BY DEF Parts, RelinkedOnly
<1>2. ASSUME NEW x \in Parts PROVE BlocksOf(x[1], x[2])' = BlocksOf(x[1], x[2])
  BY PartPair, SMTT(30) DEF BlocksOf, RelinkedOnly
<1>3. Blocks' = Blocks
  BY <1>1, <1>2 DEF Blocks
<1>4. ASSUME NEW x \in Parts
      PROVE  part'[x[1]][x[2]].FreeList =
                IF x = <<s, p>> THEN L ELSE part[x[1]][x[2]].FreeList
  <2>1. /\ x[1] \in Segs /\ x[2] \in 1 .. Len(part[x[1]])
        /\ x = <<x[1], x[2]>>
    BY PartPair
  <2>2. x = <<s, p>> <=> x[1] = s /\ x[2] = p
    BY <2>1
  <2> QED BY <2>1, <2>2 DEF RelinkedOnly
<1>5. Lists' = [x \in Parts |-> IF x = <<s, p>> THEN L ELSE Lists[x]]
  BY <1>1, <1>4 DEF Lists
<1>6. [Lists EXCEPT ![<<s, p>>] = L] = [x \in Parts |-> IF x = <<s, p>> THEN L ELSE Lists[x]]
  BY DEF Lists
<1> QED BY <1>1, <1>3, <1>5, <1>6

LEMMA BallocBlocked ==
    ASSUME IInv, IInv', Blocked, NEW s \in Segs, NEW p \in 1 .. MaxParts,
           Valid(s, p), part[s][p].FreeBlocks # 0,
           part' = [part EXCEPT ![s][p] = Relinked(@, Tail(@.FreeList), @.FreeBlocks - 1)],
           busy' = busy \cup {Head(part[s][p].FreeList)}
    PROVE  Blocked'
<1> DEFINE L == part[s][p].FreeList
           x == <<s, p>>
<1>1. p \in 1 .. Len(part[s]) /\ x \in Parts /\ Lists[x] = L /\ L # <<>>
  <2>1. p \in 1 .. Len(part[s]) /\ x \in Parts
    BY PartsIn DEF Valid
  <2>2. HeaderOK(part[s][p])
    BY <2>1 DEF IInv, Counted
  <2> QED BY <2>1, <2>2 DEF Lists, HeaderOK
<1>2. RelinkedOnly(s, p, Tail(L))
  <2>1. part' \in [Segs -> Seq(Headers)]
    BY DEF IInv, TypeOK
  <2>2. part' = [part EXCEPT ![s][p] = Relinked(part[s][p], Tail(L), part[s][p].FreeBlocks - 1)]
    OBVIOUS
  <2> QED BY <1>1, <2>1, <2>2, Relinking
<1>3. /\ Parts' = Parts /\ Blocks' = Blocks
      /\ Lists' = [Lists EXCEPT ![x] = Tail(L)]
  BY <1>1, <1>2, RelinkedLists
<1>4. Lists' = [Lists EXCEPT ![x] = Tail(@)] /\ busy' = busy \cup {Head(Lists[x])}
  BY <1>1, <1>3
<1> HIDE DEF x, L
<1>5. Sorted(Parts, [Lists EXCEPT ![x] = Tail(@)], busy \cup {Head(Lists[x])}, Blocks)
  BY <1>1, ListsTyped, TakeFirst DEF Blocked
<1>6. Sorted(Parts', Lists', busy', Blocks')
  BY <1>3, <1>4, <1>5
<1> QED BY <1>6 DEF Blocked, Sorted

LEMMA BfreeBlocked ==
    ASSUME IInv, IInv', Blocked, NEW s \in Segs, NEW p \in 1 .. MaxParts, NEW b \in Blocks,
           Valid(s, p), IsBusy(b), part' = Released(s, p, b), busy' = busy \ {b}
    PROVE  Blocked'
<1> DEFINE L == part[s][p].FreeList
           x == <<s, p>>
<1>1. p \in 1 .. Len(part[s]) /\ x \in Parts /\ Lists[x] = L
  BY PartsIn DEF Valid, Lists
<1>2. RelinkedOnly(s, p, <<b>> \o L)
  <2>1. part' \in [Segs -> Seq(Headers)]
    BY DEF IInv, TypeOK
  <2>2. part' = [part EXCEPT ![s][p] = Relinked(part[s][p], <<b>> \o L, part[s][p].FreeBlocks + 1)]
    BY DEF Released
  <2> QED BY <1>1, <2>1, <2>2, Relinking
<1>3. /\ Parts' = Parts /\ Blocks' = Blocks
      /\ Lists' = [Lists EXCEPT ![x] = <<b>> \o L]
  BY <1>1, <1>2, RelinkedLists
<1>4. Lists' = [Lists EXCEPT ![x] = <<b>> \o @]
  BY <1>1, <1>3
<1>5. b \in busy /\ b \in Block
  BY BlocksAreBlocks DEF IsBusy
<1> HIDE DEF x, L
<1>6. Sorted(Parts, [Lists EXCEPT ![x] = <<b>> \o @], busy \ {b}, Blocks)
  BY <1>1, <1>5, ListsTyped, PutFirst DEF Blocked
<1>7. Sorted(Parts', Lists', busy', Blocks')
  BY <1>3, <1>4, <1>6
<1> QED BY <1>7 DEF Blocked, Sorted

\* The blocks of a new partition are all free, each once, and lie below the
\* others of the segment.
LEMMA CreateBlocked ==
    ASSUME IInv, LaidOut, Blocked, NEW s \in Segs, NEW n \in Names, NEW l \in Lengths,
           NEW c \in Counts,
           part' = [part EXCEPT ![s] = Append(@, Carved(s, n, l, c))],
           busy' = busy
    PROVE  Blocked'
<1> DEFINE h == Carved(s, n, l, c)
           k == BlockSize(l)
           o == NewTop(s, l, c)
           N == {<<s, o + i * k>> : i \in 0 .. c - 1}
<1>m. PICK m : m = Len(part[s]) + 1
  OBVIOUS
<1>x. PICK x : x = <<s, m>>
  OBVIOUS
<1>1. /\ part \in [Segs -> Seq(Headers)] /\ part[s] \in Seq(Headers)
      /\ Len(part[s]) \in Nat /\ top[s] \in Int
  BY DEF IInv, TypeOK
<1>2. /\ k \in Nat \ {0} /\ c \in Nat /\ o \in Int
  <2>1. Lengths \subseteq Nat /\ Counts \subseteq Nat
    BY MxpMemAssumption
  <2> QED BY <2>1, BlockSizeNat, NewTopInt DEF IInv
<1>3. h \in Headers
  BY CarvedOK DEF IInv, HeaderOK
<1>4. /\ h.base = o /\ h.BlockCnt = c /\ h.BlockSize = k
      /\ h.FreeList = [i \in 1 .. c |-> <<s, o + (i - 1) * k>>]
  BY DEF Carved
<1>5. top[s] = o + k * c
  <2> HIDE DEF k
  <2>1. o = top[s] - k * c
    BY DEF NewTop, k
  <2>2. k * c \in Int
    BY <1>2
  <2> QED BY <1>1, <1>2, <2>1, <2>2
<1> HIDE DEF h, k, o
<1>6. /\ part'[s] = Append(part[s], h)
      /\ \A r \in Segs \ {s} : part'[r] = part[r]
  BY <1>1 DEF h
<1>7. /\ Len(part'[s]) = m
      /\ part'[s][m] = h
      /\ \A p \in 1 .. Len(part[s]) : part'[s][p] = part[s][p]
  BY <1>m, <1>1, <1>3, <1>6
<1>8. Parts' = Parts \cup {x} /\ x \notin Parts
  <2>1. 1 .. m = (1 .. Len(part[s])) \cup {m} /\ m \notin 1 .. Len(part[s])
    BY <1>m, <1>1
  <2>2. x \notin Parts
    BY <1>x, <2>1, PartsIn
  <2>3. ASSUME NEW r \in Segs, NEW p
        PROVE  p \in 1 .. Len(part'[r]) <=> p \in 1 .. Len(part[r]) \/ (r = s /\ p = m)
    <3>1. CASE r = s
      BY <1>7, <2>1, <3>1
    <3>2. CASE r # s
      BY <1>6, <3>2
    <3> QED BY <3>1, <3>2
  <2>4. ASSUME NEW y \in Parts' PROVE y \in Parts \cup {x}
    <3>1. PICK r \in Segs : y \in {r} \X (1 .. Len(part'[r]))
      BY DEF Parts
    <3>2. PICK p \in 1 .. Len(part'[r]) : y = <<r, p>>
      BY <3>1
    <3> QED BY <1>x, <2>3, <3>2, PartsIn
  <2>5. ASSUME NEW y \in Parts PROVE y \in Parts'
    <3>1. PICK r \in Segs : y \in {r} \X (1 .. Len(part[r]))
      BY DEF Parts
    <3>2. y \in {r} \X (1 .. Len(part'[r]))
      BY <2>3, <3>1
    <3> QED BY <3>2 DEF Parts
  <2>6. x \in Parts'
    <3>1. x \in {s} \X (1 .. Len(part'[s]))
      BY <1>x, <2>3
    <3> QED BY <3>1 DEF Parts
  <2> QED BY <2>2, <2>4, <2>5, <2>6
<1>9. \A y \in Parts : part'[y[1]][y[2]] = part[y[1]][y[2]]
  BY <1>6, <1>7, PartPair
<1>10. part'[x[1]][x[2]] = h /\ x[1] = s
  BY <1>x, <1>7
<1>11. BlocksOf(x[1], x[2])' = N
  BY <1>4, <1>10 DEF BlocksOf
<1>12. Blocks' = Blocks \cup N
  <2>1. \A y \in Parts : BlocksOf(y[1], y[2])' = BlocksOf(y[1], y[2])
    BY <1>9 DEF BlocksOf
  <2> QED BY <1>8, <1>11, <2>1 DEF Blocks
<1>13. N \cap Blocks = {}
  <2> SUFFICES ASSUME NEW b \in Blocks, b \in N PROVE FALSE
    OBVIOUS
  <2>1. PICK i \in 0 .. c - 1 : b = <<s, o + i * k>>
    OBVIOUS
  <2>2. PICK r \in Segs : \E p \in 1 .. Len(part[r]) :
           \E j \in 0 .. part[r][p].BlockCnt - 1 : LiesAt(b, r, p, j)
    BY PlaceOfBlock
  <2>3. r = s
    BY <2>1, <2>2 DEF LiesAt
  <2>4. PICK p \in 1 .. Len(part[s]) :
           \E j \in 0 .. part[s][p].BlockCnt - 1 : LiesAt(b, s, p, j)
    BY <2>2, <2>3
  <2>5. PICK j \in 0 .. part[s][p].BlockCnt - 1 :
           b = <<s, part[s][p].base + j * part[s][p].BlockSize>>
    BY <2>4 DEF LiesAt
  <2>6. part[s][p].base <= b[2] /\ part[s][p].base \in Int /\ b[2] \in Int
    BY <2>5, HeaderTyped, BlockSpan
  <2>7. top[s] <= part[s][p].base
    BY DEF LaidOut, SegmentLaidOut
  <2>8. i * k + k <= c * k /\ i * k \in Int /\ c * k \in Int /\ k * c = c * k
    BY <1>2, StepOfBlocks
  <2>9. b[2] = o + i * k
    BY <2>1
  <2> DEFINE u == i * k
             v == c * k
  <2>10. /\ u \in Int /\ v \in Int /\ u + k <= v /\ b[2] = o + u /\ top[s] = o + v
    BY <1>5, <2>8, <2>9
  <2> HIDE DEF u, v
  <2> QED BY <1>1, <1>2, <2>6, <2>7, <2>10
<1>14. /\ Lists'[x] = h.FreeList
       /\ \A y \in Parts : Lists'[y] = Lists[y]
  <2>1. Lists' = [y \in Parts' |-> part'[y[1]][y[2]].FreeList]
    BY DEF Lists
  <2>2. x \in Parts' /\ Lists'[x] = h.FreeList
    BY <1>8, <1>10, <2>1
  <2>3. ASSUME NEW y \in Parts PROVE Lists'[y] = Lists[y]
    <3>1. y \in Parts' /\ Lists[y] = part[y[1]][y[2]].FreeList
      BY <1>8 DEF Lists
    <3> QED BY <1>9, <2>1, <3>1
  <2> QED BY <2>2, <2>3
<1>15. /\ Len(h.FreeList) = c
       /\ \A i \in 1 .. c : h.FreeList[i] = <<s, o + (i - 1) * k>>
  BY <1>2, <1>4
<1>16. \A i \in 1 .. c : h.FreeList[i] \in N
  <2> SUFFICES ASSUME NEW i \in 1 .. c PROVE h.FreeList[i] \in N
    OBVIOUS
  <2>1. i - 1 \in 0 .. c - 1
    BY <1>2
  <2> QED BY <1>15, <2>1
<1>17. \A b \in N : \E i \in 1 .. c : h.FreeList[i] = b
  <2> SUFFICES ASSUME NEW i \in 0 .. c - 1
               PROVE  \E j \in 1 .. c : h.FreeList[j] = <<s, o + i * k>>
    OBVIOUS
  <2>1. i + 1 \in 1 .. c /\ i + 1 - 1 = i
    BY <1>2
  <2>2. h.FreeList[i + 1] = <<s, o + i * k>>
    BY <1>15, <2>1
  <2> QED BY <2>1, <2>2
<1>18. \A i, j \in 1 .. c : h.FreeList[i] = h.FreeList[j] => i = j
  <2> SUFFICES ASSUME NEW i \in 1 .. c, NEW j \in 1 .. c, i # j,
                      o + (i - 1) * k = o + (j - 1) * k
               PROVE  FALSE
    BY <1>15
  <2>1. i - 1 \in Int /\ j - 1 \in Int /\ k \in Nat \ {0}
    BY <1>2
  <2>2. /\ i - 1 < j - 1 => (i - 1) * k + k <= (j - 1) * k
        /\ j - 1 < i - 1 => (j - 1) * k + k <= (i - 1) * k
    BY <2>1, StepOfBlocks
  <2>3. i - 1 < j - 1 \/ j - 1 < i - 1
    OBVIOUS
  <2>4. (i - 1) * k \in Int /\ (j - 1) * k \in Int
    BY <2>1
  <2> QED BY <1>2, <2>1, <2>2, <2>3, <2>4
<1>19. Sorted(Parts \cup {x}, Lists', busy, Blocks \cup N)
  <2> HIDE DEF N
  <2>1. Len(Lists'[x]) = c
    BY <1>14, <1>15
  <2>2. /\ \A i \in 1 .. Len(Lists'[x]) : Lists'[x][i] \in N
        /\ \A b \in N : \E i \in 1 .. Len(Lists'[x]) : Lists'[x][i] = b
        /\ \A i, j \in 1 .. Len(Lists'[x]) : Lists'[x][i] = Lists'[x][j] => i = j
    BY <1>14, <1>16, <1>17, <1>18, <2>1
  <2>3. Sorted(Parts, Lists, busy, Blocks)
    BY DEF Blocked
  <2> QED BY <1>8, <1>13, <1>14, <2>2, <2>3, AddList
<1>20. Sorted(Parts', Lists', busy', Blocks')
  <2> HIDE DEF N
  <2> QED BY <1>8, <1>12, <1>19
<1> QED BY <1>20 DEF Blocked, Sorted

LEMMA NoParts ==
    ASSUME \A s \in Segs : part[s] = <<>>, busy = {}
    PROVE  Blocked
<1>1. Parts = {}
  BY DEF Parts
<1>2. Blocks = {}
  BY <1>1 DEF Blocks
<1> QED BY <1>1, <1>2 DEF Blocked, Sorted

LEMMA BlockedNext ==
    ASSUME IInv, IInv', LaidOut, Blocked, [Next]_vars
    PROVE  Blocked'
<1>0. ASSUME UNCHANGED <<part, busy>> PROVE Blocked'
  <2>1. Parts' = Parts /\ Lists' = Lists /\ Blocks' = Blocks
    BY <1>0 DEF Parts, Lists, Blocks, BlocksOf
  <2>2. Sorted(Parts', Lists', busy', Blocks')
    BY <1>0, <2>1 DEF Blocked
  <2> QED BY <2>2 DEF Blocked, Sorted
<1>1. CASE UNCHANGED vars
  BY <1>0, <1>1 DEF vars
<1>2. CASE SegInit
  <2>1. /\ \A s \in Segs : part'[s] = <<>>
        /\ busy' = {}
    BY <1>2 DEF SegInit
  <2>2. Parts' = {}
    BY <2>1 DEF Parts
  <2>3. Blocks' = {}
    BY <2>2 DEF Blocks
  <2> QED BY <2>1, <2>2, <2>3 DEF Blocked, Sorted
<1>3. ASSUME NEW n \in Names, NEW len \in SegSizes, SegCreate(n, len) PROVE Blocked'
  <2>1. CASE Unused = {} \/ ByName(n) # {}
    BY <1>0, <1>3, <2>1 DEF SegCreate, Fail
  <2>2. CASE Unused # {} /\ ByName(n) = {}
    <3>1. PICK s : s = Least(Unused)
      OBVIOUS
    <3>2. s \in Segs /\ s \notin used
      <4>1. Unused \in SUBSET Nat
        BY MxpMemAssumption DEF Unused, Segs
      <4>2. s \in Unused
        BY <2>2, <3>1, <4>1, LeastIn
      <4> QED BY <4>2 DEF Unused
    <3>3. part' = [part EXCEPT ![s] = <<>>] /\ busy' = busy
      BY <1>3, <2>2, <3>1 DEF SegCreate
    <3>4. part[s] = <<>>
      BY <3>2 DEF LaidOut, SegmentLaidOut
    <3>5. part' = part
      BY <3>2, <3>3, <3>4 DEF IInv, TypeOK
    <3> QED BY <1>0, <3>3, <3>5
  <2> QED BY <2>1, <2>2
<1>4. ASSUME NEW s \in Segs, NEW n \in Names, NEW l \in Lengths, NEW c \in Counts,
             PCreate(s, n, l, c)
      PROVE  Blocked'
  BY <1>0, <1>4, CreateBlocked DEF PCreate, Fail
<1>5. ASSUME NEW s \in Segs, NEW p \in 1 .. MaxParts, PBalloc(s, p) PROVE Blocked'
  BY <1>0, <1>5, BallocBlocked DEF PBalloc, Fail
<1>6. ASSUME NEW s \in Segs, NEW p \in 1 .. MaxParts, NEW b \in Blocks, PBfree(s, p, b)
      PROVE  Blocked'
  BY <1>0, <1>6, BfreeBlocked DEF PBfree, Fail
<1>7. CASE \/ \E n \in Names : SegIdentify(n)
           \/ \E s \in Segs : SegGetName(s)
           \/ \E s \in Segs, n \in Names : PIdentify(s, n)
           \/ \E s \in Segs, p \in 1 .. MaxParts : PInquiry(s, p)
  BY <1>0, <1>7 DEF SegIdentify, SegGetName, PIdentify, PInquiry
<1> QED BY <1>1, <1>2, <1>3, <1>4, <1>5, <1>6, <1>7 DEF Next

--------------------------------------------------------------------------------
(***************************************************************************)
(* Who has the blocks knows their size: where blocks are given back to the *)
(* partition they came from, a free list holds blocks of its partition     *)
(* only, and what a partition hands out has the size it was carved with.   *)
(***************************************************************************)
Homely ==
    \A s \in Segs : \A p \in 1 .. Len(part[s]) :
        \A i \in 1 .. Len(part[s][p].FreeList) : part[s][p].FreeList[i] \in BlocksOf(s, p)

FromPart(u, s, p) == u[1] \in BlocksOf(s, p) /\ u[2] = part[s][p].BlockSize
Handed(u) == \E s \in Segs : \E p \in 1 .. Len(part[s]) : FromPart(u, s, p)

UsersKnow ==
    /\ Homely
    /\ busy = {u[1] : u \in held}
    /\ \A u \in held : Handed(u)

\* The blocks a partition was carved into stay, whatever its free list is.
LEMMA RelinkedUsers ==
    ASSUME UsersKnow, NEW s \in Segs, NEW p \in 1 .. Len(part[s]), NEW L,
           RelinkedOnly(s, p, L),
           \A i \in 1 .. Len(L) : L[i] \in BlocksOf(s, p),
           busy' = {u[1] : u \in held'},
           \A u \in held' : u \in held \/ FromPart(u, s, p)
    PROVE  UsersKnow'
<1>1. \A r \in Segs : Len(part'[r]) = Len(part[r])
  BY DEF RelinkedOnly
<1>2. ASSUME NEW r \in Segs, NEW q \in 1 .. Len(part[r])
      PROVE  /\ BlocksOf(r, q)' = BlocksOf(r, q)
             /\ part'[r][q].BlockSize = part[r][q].BlockSize
  BY DEF BlocksOf, RelinkedOnly
<1>3. ASSUME NEW r \in Segs, NEW q \in 1 .. Len(part'[r]),
             NEW i \in 1 .. Len(part'[r][q].FreeList)
      PROVE  part'[r][q].FreeList[i] \in BlocksOf(r, q)'
  <2>1. q \in 1 .. Len(part[r])
    BY <1>1
  <2>2. part'[r][q].FreeList = IF r = s /\ q = p THEN L ELSE part[r][q].FreeList
    BY <2>1 DEF RelinkedOnly
  <2>3. CASE r = s /\ q = p
    <3>1. part'[r][q].FreeList[i] \in BlocksOf(r, q)
      BY <2>2, <2>3
    <3> QED BY <1>2, <2>1, <3>1
  <2>4. CASE ~(r = s /\ q = p)
    <3>1. part'[r][q].FreeList[i] \in BlocksOf(r, q)
      BY <2>1, <2>2, <2>4 DEF UsersKnow, Homely
    <3> QED BY <1>2, <2>1, <3>1
  <2> QED BY <2>3, <2>4
<1>4. ASSUME NEW u \in held' PROVE Handed(u)'
  <2>a. PICK r \in Segs : \E q \in 1 .. Len(part[r]) : FromPart(u, r, q)
    BY <1>4 DEF UsersKnow, Handed
  <2>1. PICK q \in 1 .. Len(part[r]) : FromPart(u, r, q)
    BY <2>a
  <2>2. u[1] \in BlocksOf(r, q)' /\ u[2] = part'[r][q].BlockSize
    BY <1>2, <2>1 DEF FromPart
  <2>3. q \in 1 .. Len(part'[r])
    BY <1>1
  <2> QED BY <2>2, <2>3 DEF Handed, FromPart
<1>5. Homely'
  BY <1>3 DEF Homely
<1> QED BY <1>4, <1>5 DEF UsersKnow

\* The blocks of a new partition are in its own list.
LEMMA CreateUsers ==
    ASSUME IInv, UsersKnow, NEW s \in Segs, NEW n \in Names, NEW l \in Lengths,
           NEW c \in Counts,
           part' = [part EXCEPT ![s] = Append(@, Carved(s, n, l, c))],
           UNCHANGED <<busy, held>>
    PROVE  UsersKnow'
<1> DEFINE h == Carved(s, n, l, c)
<1>m. PICK m : m = Len(part[s]) + 1
  OBVIOUS
<1>1. /\ part \in [Segs -> Seq(Headers)] /\ part[s] \in Seq(Headers)
      /\ Len(part[s]) \in Nat
  BY DEF IInv, TypeOK
<1>2. h \in Headers
  BY CarvedOK DEF IInv, HeaderOK
<1>3. /\ h.base = NewTop(s, l, c) /\ h.BlockCnt = c /\ h.BlockSize = BlockSize(l)
      /\ h.FreeList = [i \in 1 .. c |-> <<s, NewTop(s, l, c) + (i - 1) * BlockSize(l)>>]
  BY DEF Carved
<1>4. c \in Nat
  BY MxpMemAssumption
<1> HIDE DEF h
<1>5. /\ part'[s] = Append(part[s], h)
      /\ \A r \in Segs \ {s} : part'[r] = part[r]
  BY <1>1 DEF h
<1>6. /\ Len(part'[s]) = m
      /\ part'[s][m] = h
      /\ \A q \in 1 .. Len(part[s]) : part'[s][q] = part[s][q]
  BY <1>m, <1>1, <1>2, <1>5
\* The partitions there were stay.
<1>7. ASSUME NEW r \in Segs, NEW q \in 1 .. Len(part[r])
      PROVE  /\ q \in 1 .. Len(part'[r])
             /\ part'[r][q] = part[r][q]
             /\ BlocksOf(r, q)' = BlocksOf(r, q)
  <2>1. q \in 1 .. Len(part'[r]) /\ part'[r][q] = part[r][q]
    <3>1. CASE r = s
      BY <1>m, <1>1, <1>6, <3>1
    <3>2. CASE r # s
      BY <1>5, <3>2
    <3> QED BY <3>1, <3>2
  <2> QED BY <2>1 DEF BlocksOf
<1>8. ASSUME NEW i \in 1 .. Len(h.FreeList)
      PROVE  h.FreeList[i] \in BlocksOf(s, m)'
  <2>1. Len(h.FreeList) = c
    BY <1>3, <1>4
  <2>2. i \in 1 .. c /\ i - 1 \in 0 .. c - 1
    BY <1>4, <2>1
  <2>3. h.FreeList[i] = <<s, h.base + (i - 1) * h.BlockSize>>
    BY <1>3, <2>2
  <2>4. BlocksOf(s, m)' = {<<s, h.base + j * h.BlockSize>> : j \in 0 .. h.BlockCnt - 1}
    BY <1>6 DEF BlocksOf
  <2> QED BY <1>3, <2>2, <2>3, <2>4
<1>9. ASSUME NEW r \in Segs, NEW q \in 1 .. Len(part'[r]),
             NEW i \in 1 .. Len(part'[r][q].FreeList)
      PROVE  part'[r][q].FreeList[i] \in BlocksOf(r, q)'
  <2>1. CASE r = s /\ q = m
    BY <1>6, <1>8, <2>1
  <2>2. CASE ~(r = s /\ q = m)
    <3>1. q \in 1 .. Len(part[r])
      <4>1. CASE r = s
        BY <1>m, <1>1, <1>6, <2>2, <4>1
      <4>2. CASE r # s
        BY <1>5, <4>2
      <4> QED BY <4>1, <4>2
    <3>2. part'[r][q] = part[r][q] /\ BlocksOf(r, q)' = BlocksOf(r, q)
      BY <1>7, <3>1
    <3>3. part[r][q].FreeList[i] \in BlocksOf(r, q)
      BY <3>1, <3>2 DEF UsersKnow, Homely
    <3> QED BY <3>2, <3>3
  <2> QED BY <2>1, <2>2
<1>10. ASSUME NEW u \in held' PROVE Handed(u)'
  <2>1. u \in held
    OBVIOUS
  <2>a. PICK r \in Segs : \E q \in 1 .. Len(part[r]) : FromPart(u, r, q)
    BY <2>1 DEF UsersKnow, Handed
  <2>2. PICK q \in 1 .. Len(part[r]) : FromPart(u, r, q)
    BY <2>a
  <2>3. u[1] \in BlocksOf(r, q)' /\ u[2] = part'[r][q].BlockSize /\ q \in 1 .. Len(part'[r])
    BY <1>7, <2>2 DEF FromPart
  <2> QED BY <2>3 DEF Handed, FromPart
<1>11. Homely'
  BY <1>9 DEF Homely
<1>12. busy' = {u[1] : u \in held'}
  BY DEF UsersKnow
<1> QED BY <1>10, <1>11, <1>12 DEF UsersKnow

LEMMA BallocUsers ==
    ASSUME IInv, IInv', UsersKnow, NEW s \in Segs, NEW p \in 1 .. MaxParts,
           Valid(s, p), part[s][p].FreeBlocks # 0,
           part' = [part EXCEPT ![s][p] = Relinked(@, Tail(@.FreeList), @.FreeBlocks - 1)],
           busy' = busy \cup {Head(part[s][p].FreeList)},
           held' = held \cup {<<Head(part[s][p].FreeList), part[s][p].BlockSize>>}
    PROVE  UsersKnow'
<1> DEFINE L == part[s][p].FreeList
           w == <<Head(L), part[s][p].BlockSize>>
<1>1. p \in 1 .. Len(part[s])
  BY DEF Valid
<1>2. L \in Seq(Block) /\ Len(L) # 0
  <2>1. HeaderOK(part[s][p])
    BY <1>1 DEF IInv, Counted
  <2> QED BY <2>1 DEF HeaderOK, Headers, Block
<1>3. RelinkedOnly(s, p, Tail(L))
  <2>1. part' \in [Segs -> Seq(Headers)]
    BY DEF IInv, TypeOK
  <2>2. part' = [part EXCEPT ![s][p] = Relinked(part[s][p], Tail(L), part[s][p].FreeBlocks - 1)]
    OBVIOUS
  <2> QED BY <1>1, <2>1, <2>2, Relinking
<1>4. \A i \in 1 .. Len(L) : L[i] \in BlocksOf(s, p)
  BY <1>1 DEF UsersKnow, Homely
<1> HIDE DEF L
<1>5. \A i \in 1 .. Len(Tail(L)) : Tail(L)[i] \in BlocksOf(s, p)
  <2> SUFFICES ASSUME NEW i \in 1 .. Len(Tail(L)) PROVE Tail(L)[i] \in BlocksOf(s, p)
    OBVIOUS
  <2>1. i + 1 \in 1 .. Len(L) /\ Tail(L)[i] = L[i + 1]
    BY <1>2
  <2> QED BY <1>4, <2>1
<1>6. FromPart(w, s, p)
  <2>1. Head(L) \in BlocksOf(s, p)
    BY <1>2, <1>4
  <2> QED BY <2>1 DEF FromPart
<1>7. held' = held \cup {w} /\ busy' = busy \cup {w[1]}
  BY DEF L
<1> HIDE DEF w
<1>8. busy' = {u[1] : u \in held'}
  BY <1>7 DEF UsersKnow
<1>9. \A u \in held' : u \in held \/ FromPart(u, s, p)
  BY <1>6, <1>7
<1> QED BY <1>1, <1>3, <1>5, <1>8, <1>9, RelinkedUsers

LEMMA BfreeUsers ==
    ASSUME IInv, IInv', UsersKnow, NEW s \in Segs, NEW p \in 1 .. MaxParts, NEW b \in Blocks,
           Valid(s, p), b \in BlocksOf(s, p), part' = Released(s, p, b),
           busy' = busy \ {b}, held' = {u \in held : u[1] # b}
    PROVE  UsersKnow'
<1> DEFINE L == part[s][p].FreeList
<1>1. p \in 1 .. Len(part[s])
  BY DEF Valid
<1>2. L \in Seq(Block)
  <2>1. HeaderOK(part[s][p])
    BY <1>1 DEF IInv, Counted
  <2> QED BY <2>1 DEF HeaderOK, Headers, Block
<1>3. RelinkedOnly(s, p, <<b>> \o L)
  <2>1. part' \in [Segs -> Seq(Headers)]
    BY DEF IInv, TypeOK
  <2>2. part' = [part EXCEPT ![s][p] = Relinked(part[s][p], <<b>> \o L, part[s][p].FreeBlocks + 1)]
    BY DEF Released
  <2> QED BY <1>1, <2>1, <2>2, Relinking
<1>4. \A i \in 1 .. Len(L) : L[i] \in BlocksOf(s, p)
  BY <1>1 DEF UsersKnow, Homely
<1>b. b \in Block
  BY BlocksAreBlocks
<1> HIDE DEF L
<1>5. \A i \in 1 .. Len(<<b>> \o L) : (<<b>> \o L)[i] \in BlocksOf(s, p)
  <2> SUFFICES ASSUME NEW i \in 1 .. Len(<<b>> \o L)
               PROVE  (<<b>> \o L)[i] \in BlocksOf(s, p)
    OBVIOUS
  <2>1. CASE i = 1
    BY <1>2, <1>b, <2>1
  <2>2. CASE i # 1
    <3>1. i - 1 \in 1 .. Len(L) /\ (<<b>> \o L)[i] = L[i - 1]
      BY <1>2, <1>b, <2>2
    <3> QED BY <1>4, <3>1
  <2> QED BY <2>1, <2>2
<1>6. busy' = {u[1] : u \in held'}
  BY DEF UsersKnow
<1> QED BY <1>1, <1>3, <1>5, <1>6, RelinkedUsers

LEMMA UsersNext ==
    ASSUME Homeward, IInv, IInv', LaidOut, UsersKnow, [Next]_vars
    PROVE  UsersKnow'
<1>0. ASSUME UNCHANGED <<part, busy, held>> PROVE UsersKnow'
  BY <1>0 DEF UsersKnow, Homely, Handed, FromPart, BlocksOf
<1>1. CASE UNCHANGED vars
  BY <1>0, <1>1 DEF vars
<1>2. CASE SegInit
  <2>1. held = {} /\ busy = {}
    BY <1>2 DEF SegInit, UsersKnow
  <2>2. held' = {} /\ busy' = {} /\ \A s \in Segs : part'[s] = <<>>
    BY <1>2, <2>1 DEF SegInit
  <2>3. \A s \in Segs : Len(part'[s]) = 0
    BY <2>2
  <2>4. Homely'
    BY <2>3 DEF Homely
  <2> QED BY <2>2, <2>4 DEF UsersKnow
<1>3. ASSUME NEW n \in Names, NEW len \in SegSizes, SegCreate(n, len) PROVE UsersKnow'
  <2>1. CASE Unused = {} \/ ByName(n) # {}
    BY <1>0, <1>3, <2>1 DEF SegCreate, Fail
  <2>2. CASE Unused # {} /\ ByName(n) = {}
    <3>1. PICK s : s = Least(Unused)
      OBVIOUS
    <3>2. s \in Segs /\ s \notin used
      <4>1. Unused \in SUBSET Nat
        BY MxpMemAssumption DEF Unused, Segs
      <4>2. s \in Unused
        BY <2>2, <3>1, <4>1, LeastIn
      <4> QED BY <4>2 DEF Unused
    <3>3. part' = [part EXCEPT ![s] = <<>>] /\ UNCHANGED <<busy, held>>
      BY <1>3, <2>2, <3>1 DEF SegCreate
    <3>4. part[s] = <<>>
      BY <3>2 DEF LaidOut, SegmentLaidOut
    <3>5. part' = part
      BY <3>2, <3>3, <3>4 DEF IInv, TypeOK
    <3> QED BY <1>0, <3>3, <3>5
  <2> QED BY <2>1, <2>2
<1>4. ASSUME NEW s \in Segs, NEW n \in Names, NEW l \in Lengths, NEW c \in Counts,
             PCreate(s, n, l, c)
      PROVE  UsersKnow'
  BY <1>0, <1>4, CreateUsers DEF PCreate, Fail
<1>5. ASSUME NEW s \in Segs, NEW p \in 1 .. MaxParts, PBalloc(s, p) PROVE UsersKnow'
  BY <1>0, <1>5, BallocUsers DEF PBalloc, Fail
<1>6. ASSUME NEW s \in Segs, NEW p \in 1 .. MaxParts, NEW b \in Blocks, PBfree(s, p, b)
      PROVE  UsersKnow'
  BY <1>0, <1>6, BfreeUsers DEF PBfree, Fail, Returns
<1>7. CASE \/ \E n \in Names : SegIdentify(n)
           \/ \E s \in Segs : SegGetName(s)
           \/ \E s \in Segs, n \in Names : PIdentify(s, n)
           \/ \E s \in Segs, p \in 1 .. MaxParts : PInquiry(s, p)
  BY <1>0, <1>7 DEF SegIdentify, SegGetName, PIdentify, PInquiry
<1> QED BY <1>1, <1>2, <1>3, <1>4, <1>5, <1>6, <1>7 DEF Next

\* What a user has is a block with the size it was carved with.
LEMMA UsersByLayout ==
    ASSUME IInv, LaidOut, BlocksApart, UsersKnow
    PROVE  UsersApart
<1>1. ASSUME NEW u \in held PROVE u[1] \in Blocks /\ SizeAt(u[1]) = u[2]
  <2>a. PICK s \in Segs : \E p \in 1 .. Len(part[s]) : FromPart(u, s, p)
    BY DEF UsersKnow, Handed
  <2>1. PICK p \in 1 .. Len(part[s]) : FromPart(u, s, p)
    BY <2>a
  <2>2. u[1] \in BlocksOf(s, p) /\ u[2] = part[s][p].BlockSize
    BY <2>1 DEF FromPart
  <2>3. <<s, p>> \in Parts
    BY PartsIn
  <2>4. u[1] \in Blocks
    BY <2>2, <2>3 DEF Blocks
  <2>5. u[1][1] = s
    BY <2>2 DEF BlocksOf
  <2> DEFINE r == CHOOSE r \in 1 .. Len(part[s]) : u[1] \in BlocksOf(s, r)
  <2>6. r \in 1 .. Len(part[s]) /\ u[1] \in BlocksOf(s, r)
    BY <2>2
  <2>7. SizeAt(u[1]) = part[s][r].BlockSize
    BY <2>5 DEF SizeAt
  <2> HIDE DEF r
  <2>8. r = p
    BY <2>2, <2>6, OnePartition
  <2> QED BY <2>2, <2>4, <2>7, <2>8
<1>2. ASSUME NEW u \in held
      PROVE  /\ u[1][2] + u[2] <= size[u[1][1]]
             /\ \A b \in Blocks : b # u[1] => Apart(u[1], u[2], b, SizeAt(b))
  <2>1. u[1] \in Blocks /\ SizeAt(u[1]) = u[2]
    BY <1>1
  <2>2. u[1][2] + SizeAt(u[1]) <= size[u[1][1]]
    BY <2>1 DEF BlocksApart
  <2>3. \A b \in Blocks : b # u[1] => Apart(u[1], SizeAt(u[1]), b, SizeAt(b))
    BY <2>1 DEF BlocksApart
  <2> QED BY <2>1, <2>2, <2>3
<1> QED BY <1>2 DEF UsersApart, UsersKnow

\* mmxpmem.c:231-257, 362-366, 399-407: where partitions are created only if
\* their blocks fit, and users give a block back to the partition they have it
\* from, a block has one user or none, and what a user takes for its memory is
\* nobody else's and not the module's, for any number and size of segments,
\* partitions and blocks, and whatever is freed twice.
THEOREM BlocksCorrect ==
    ASSUME Roomy, Homeward
    PROVE  Spec => []BlocksSound
<1>1. Init => IInv
  BY InvInit
<1>2. Init => LaidOut /\ UsersKnow
  <2> SUFFICES ASSUME Init PROVE LaidOut /\ UsersKnow
    OBVIOUS
  <2>1. ASSUME NEW s \in Segs
        PROVE  part[s] = <<>> /\ top[s] = 0 /\ size[s] = 0 /\ Len(part[s]) = 0
    BY DEF Init
  <2>2. HdrSize * 0 <= 0
    BY MxpMemAssumption
  <2>3. LaidOut
    BY <2>1, <2>2 DEF LaidOut, SegmentLaidOut
  <2>4. busy = {} /\ held = {}
    BY DEF Init
  <2> QED BY <2>1, <2>3, <2>4 DEF UsersKnow, Homely
<1>3. Init => Blocked
  BY NoParts DEF Init
<1>4. IInv /\ [Next]_vars => IInv'
  BY InvNext
<1>5. IInv /\ IInv' /\ LaidOut /\ [Next]_vars => LaidOut'
  BY LayoutNext
<1>6. IInv /\ IInv' /\ LaidOut /\ Blocked /\ [Next]_vars => Blocked'
  BY BlockedNext
<1>7. IInv /\ IInv' /\ LaidOut /\ UsersKnow /\ [Next]_vars => UsersKnow'
  BY UsersNext
<1>8. IInv /\ LaidOut /\ Blocked /\ UsersKnow => BlocksSound
  BY ApartByLayout, UsersByLayout, SortedIsFreeOrBusy DEF Blocked, BlocksSound
<1> QED BY <1>1, <1>2, <1>3, <1>4, <1>5, <1>6, <1>7, <1>8, PTL DEF Spec

================================================================================
