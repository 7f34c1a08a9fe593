--------------------------------- MODULE MxpMem ---------------------------------
(***************************************************************************)
(* The MXP memory partitions of src/mxp/mmxpmem.c.  A segment is memory of *)
(* the application; the headers of its partitions grow from its start, the *)
(* blocks of its partitions from its end.  A block is a link, followed by  *)
(* the data its user gets.                                                 *)
(*                                                                         *)
(* Every call runs with interrupts masked, so one call is one action.      *)
(* An address is a segment and an offset.  The link of a block is either   *)
(* BLOCK_BUSY or the next block of a free list: the free lists are         *)
(* sequences, and busy is the set of blocks that are marked.               *)
(***************************************************************************)
EXTENDS Integers, Sequences

CONSTANTS
    MaxSegments,    \* MAX_SEGMENTS of mxp_mod.h
    Names,          \* names of segments and partitions
    SegSizes,       \* the sizes of the memory segments are made of
    Lengths,        \* the block lengths callers ask for
    Counts,         \* the numbers of blocks callers ask for
    HdrSize,        \* sizeof(PART_HDR_T)
    LinkSize,       \* sizeof(void *)
    MaxParts,       \* bound on the partition numbers callers try
    NoName,         \* the name of a segment never created
    None,           \* no block
    Roomy,          \* callers create a partition only where its blocks fit, or
                    \* where mxp_pCreate refuses it
    Homeward        \* callers give a block back to the partition it came from

Segs == 0 .. MaxSegments - 1

ASSUME MxpMemAssumption ==
    /\ MaxSegments \in Nat
    /\ SegSizes \subseteq Nat
    /\ Lengths \subseteq Nat
    /\ Counts \subseteq Nat
    /\ HdrSize \in Nat \ {0}
    /\ LinkSize \in Nat \ {0}
    /\ MaxParts \in Nat
    /\ NoName \notin Names
    /\ None \notin Segs \X Int
    /\ Roomy \in BOOLEAN
    /\ Homeward \in BOOLEAN

VARIABLES
    used,       \* the segments whose Seg_ID is not FREE_SEG
    name,       \* the fields of seg_descs[s]
    top,
    size,
    part,       \* part[s]: the partition headers at segPtr, PartCnt of them
    busy,       \* the blocks whose link is BLOCK_BUSY
    held,       \* what users have: blocks, each with the BlockSize of the partition
                \* that was asked for it
    reply       \* what the step just made returns to its caller

segs == <<used, name, top, size>>
vars == <<used, name, top, size, part, busy, held, reply>>

Codes == {"NONE", "ERR_NOERR", "ERR_NOSEG", "ERR_ASGN", "ERR_INVNAME", "ERR_SEGINV",
          "ERR_NOMEM", "ERR_PARTINV", "ERR_FREE"}

--------------------------------------------------------------------------------
\* mxp_segInit, when the module is loaded.
Init ==
    /\ used = {}
    /\ name = [s \in Segs |-> NoName]
    /\ top = [s \in Segs |-> 0]
    /\ size = [s \in Segs |-> 0]
    /\ part = [s \in Segs |-> <<>>]
    /\ busy = {}
    /\ held = {}
    /\ reply = [ret |-> "NONE", num |-> 0, ptr |-> None]

Return(e, v, b) == reply' = [ret |-> e, num |-> v, ptr |-> b]
Fail(e) == Return(e, -1, None) /\ UNCHANGED <<segs, part, busy, held>>

ByName(n) == {s \in used : name[s] = n}

\* A faulty search that starts and ends one descriptor too far.
UnusedTooFar == (1 .. MaxSegments) \ used

Unused == Segs \ used
Least(S) == CHOOSE s \in S : \A r \in S : s <= r

\* The size of a block of length l: rounded up to words, and the link.
BlockSize(l) == 4 * ((l + 3) \div 4) + LinkSize

Valid(s, p) == s \in used /\ p \in 1 .. Len(part[s])

\* The blocks of the partitions.
BlocksOf(s, p) == {<<s, part[s][p].base + i * part[s][p].BlockSize>> : i \in 0 .. part[s][p].BlockCnt - 1}
Parts == UNION {{s} \X (1 .. Len(part[s])) : s \in Segs}
Blocks == UNION {BlocksOf(x[1], x[2]) : x \in Parts}

\* A faulty top that leaves no room for the links.
NewTopUnlinked(s, l, c) == top[s] - (BlockSize(l) - LinkSize) * c

\* Where the blocks of the next partition would start.
NewTop(s, l, c) == top[s] - BlockSize(l) * c
Fits(s, l, c) == NewTop(s, l, c) >= HdrSize * (Len(part[s]) + 1)
MayCreate(s, l, c) == Len(part[s]) < MaxParts /\ (Roomy => Fits(s, l, c))
--------------------------------------------------------------------------------
\* The segments are forgotten, and with them their partitions.  Callers do this
\* when nobody has a block: one still in use would be handed out again.
SegInit ==
    /\ busy = {}
    /\ used' = {}
    /\ name' = [s \in Segs |-> NoName]
    /\ top' = [s \in Segs |-> 0]
    /\ size' = [s \in Segs |-> 0]
    /\ part' = [s \in Segs |-> <<>>]
    /\ Return("ERR_NOERR", 0, None)
    /\ UNCHANGED <<busy, held>>

SegCreate(n, len) ==
    \/ /\ Unused = {}
       /\ Fail("ERR_NOSEG")
    \/ /\ Unused # {}
       /\ ByName(n) # {}
       /\ Fail("ERR_ASGN")
    \/ /\ Unused # {}
       /\ ByName(n) = {}
       /\ LET s == Least(Unused)
          IN  /\ used' = used \cup {s}
              /\ name' = [name EXCEPT ![s] = n]
              /\ top' = [top EXCEPT ![s] = len]
              /\ size' = [size EXCEPT ![s] = len]
              /\ part' = [part EXCEPT ![s] = <<>>]
              /\ Return("ERR_NOERR", s, None)
       /\ UNCHANGED <<busy, held>>

SegIdentify(n) ==
    /\ IF ByName(n) = {} THEN Return("ERR_INVNAME", -1, None)
                         ELSE Return("ERR_NOERR", Least(ByName(n)), None)
    /\ UNCHANGED <<segs, part, busy, held>>

SegGetName(s) ==
    /\ Return(IF s \in used THEN "ERR_NOERR" ELSE "ERR_SEGINV", s, None)
    /\ UNCHANGED <<segs, part, busy, held>>

\* The header of a new partition, with all its blocks linked as free.  base is
\* where its blocks start.
Carved(s, n, l, c) ==
    [name |-> n, BlockSize |-> BlockSize(l), BlockCnt |-> c, FreeBlocks |-> c,
     base |-> NewTop(s, l, c),
     FreeList |-> [i \in 1 .. c |-> <<s, NewTop(s, l, c) + (i - 1) * BlockSize(l)>>]]

\* The room that is tested for is that of the length asked for, not that of the
\* blocks that are carved.
PCreate(s, n, l, c) ==
    \/ /\ s \notin used
       /\ Fail("ERR_SEGINV")
    \/ /\ s \in used
       /\ top[s] - HdrSize * Len(part[s]) < HdrSize + l * c
       /\ Fail("ERR_NOMEM")
    \/ /\ s \in used
       /\ top[s] - HdrSize * Len(part[s]) >= HdrSize + l * c
       /\ MayCreate(s, l, c)
       /\ part' = [part EXCEPT ![s] = Append(@, Carved(s, n, l, c))]
       /\ top' = [top EXCEPT ![s] = NewTop(s, l, c)]
       /\ Return("ERR_NOERR", Len(part[s]) + 1, None)
       /\ UNCHANGED <<used, name, size, busy, held>>

\* Names of partitions need not differ; the first is found.
PIdentify(s, n) ==
    /\ LET found == {p \in 1 .. Len(part[s]) : part[s][p].name = n}
       IN  CASE s \notin used -> Return("ERR_SEGINV", -1, None)
             [] s \in used /\ found = {} -> Return("ERR_INVNAME", -1, None)
             [] OTHER -> Return("ERR_NOERR", Least(found), None)
    /\ UNCHANGED <<segs, part, busy, held>>

PInquiry(s, p) ==
    /\ IF Valid(s, p) THEN Return("ERR_NOERR", part[s][p].FreeBlocks, None)
                      ELSE Return("ERR_PARTINV", -1, None)
    /\ UNCHANGED <<segs, part, busy, held>>

\* Header h with another free list and count.
Relinked(h, list, n) == [h EXCEPT !.FreeList = list, !.FreeBlocks = n]

PBalloc(s, p) ==
    \/ /\ ~Valid(s, p)
       /\ Fail("ERR_PARTINV")
    \/ /\ Valid(s, p)
       /\ part[s][p].FreeBlocks = 0
       /\ Fail("ERR_NOMEM")
    \/ /\ Valid(s, p)
       /\ part[s][p].FreeBlocks # 0
       /\ part' = [part EXCEPT ![s][p] = Relinked(@, Tail(@.FreeList), @.FreeBlocks - 1)]
       /\ busy' = busy \cup {Head(part[s][p].FreeList)}
       /\ held' = held \cup {<<Head(part[s][p].FreeList), part[s][p].BlockSize>>}
       /\ Return("ERR_NOERR", 0, Head(part[s][p].FreeList))
       /\ UNCHANGED segs

\* A faulty release that does not count.
ReleasedUncounted(s, p, b) ==
    [part EXCEPT ![s][p] = Relinked(@, <<b>> \o @.FreeList, @.FreeBlocks)]

\* Block b comes first in the free list of the partition.
Released(s, p, b) ==
    [part EXCEPT ![s][p] = Relinked(@, <<b>> \o @.FreeList, @.FreeBlocks + 1)]

IsBusy(b) == b \in busy

\* Who has a block gives it back, to any partition or home; who has not may try.
Returns(s, p, b) == Homeward => b \in BlocksOf(s, p)

\* Whether b is a block of the partition is not asked.
PBfree(s, p, b) ==
    \/ /\ ~Valid(s, p)
       /\ Fail("ERR_PARTINV")
    \/ /\ Valid(s, p)
       /\ ~IsBusy(b)
       /\ Fail("ERR_FREE")
    \/ /\ Valid(s, p)
       /\ IsBusy(b)
       /\ Returns(s, p, b)
       /\ part' = Released(s, p, b)
       /\ busy' = busy \ {b}
       /\ held' = {u \in held : u[1] # b}
       /\ Return("ERR_NOERR", 0, None)
       /\ UNCHANGED segs
--------------------------------------------------------------------------------
\* Segment and partition numbers out of range are included.
Next ==
    \/ SegInit
    \/ \E n \in Names, len \in SegSizes : SegCreate(n, len)
    \/ \E n \in Names : SegIdentify(n)
    \/ \E s \in Segs : SegGetName(s)
    \/ \E s \in Segs, n \in Names :
          \/ PIdentify(s, n)
          \/ \E l \in Lengths, c \in Counts : PCreate(s, n, l, c)
    \/ \E s \in Segs, p \in 1 .. MaxParts :
          \/ PInquiry(s, p)
          \/ PBalloc(s, p)
          \/ \E b \in Blocks : PBfree(s, p, b)

Spec == Init /\ [][Next]_vars
--------------------------------------------------------------------------------
Headers ==
    [name : Names, BlockSize : Nat \ {0}, BlockCnt : Nat, FreeBlocks : Nat, base : Int,
     FreeList : Seq(Segs \X Int)]

TypeOK ==
    /\ used \subseteq Segs
    /\ name \in [Segs -> Names \cup {NoName}]
    /\ top \in [Segs -> Int]
    /\ size \in [Segs -> SegSizes \cup {0}]
    /\ part \in [Segs -> Seq(Headers)]
    /\ busy \subseteq Segs \X Int
    /\ held \subseteq (Segs \X Int) \X Nat
    /\ reply \in [ret : Codes, num : Int, ptr : (Segs \X Int) \cup {None}]

\* The size block b was carved with.
SizeAt(b) == part[b[1]][CHOOSE p \in 1 .. Len(part[b[1]]) : b \in BlocksOf(b[1], p)].BlockSize

\* A block of n bytes at a and one of m bytes at b share no byte.
Apart(a, n, b, m) == a[1] = b[1] => a[2] + n <= b[2] \/ b[2] + m <= a[2]

\* A block lies inside its segment, above the headers of all its partitions, and
\* apart from every other block (mmxpmem.c:231-257).
BlocksApart ==
    /\ \A b \in Blocks :
          /\ b[2] >= HdrSize * Len(part[b[1]])
          /\ b[2] + SizeAt(b) <= size[b[1]]
    /\ \A b, c \in Blocks : b # c => Apart(b, SizeAt(b), c, SizeAt(c))

\* Every block is either taken, or free in one place of one list, whatever is
\* freed twice; no list holds anything else (mmxpmem.c:362-366, 399-406).
FreeOrBusy ==
    LET List(x) == part[x[1]][x[2]].FreeList
        places == UNION {{x} \X (1 .. Len(List(x))) : x \in Parts}
        At(y) == List(y[1])[y[2]]
    IN  /\ busy \cup {At(x) : x \in places} = Blocks
        /\ \A x \in places : At(x) \notin busy
        /\ \A x, y \in places : At(x) = At(y) => x = y

\* The users have the taken blocks, and what a user takes itself to have, a block
\* of the size of the partition it asked, ends with its segment and holds nothing
\* of another block, taken or free (mmxpmem.c:362-366, 399-407).
UsersApart ==
    /\ busy = {u[1] : u \in held}
    /\ \A u \in held :
          /\ u[1][2] + u[2] <= size[u[1][1]]
          /\ \A b \in Blocks : b # u[1] => Apart(u[1], u[2], b, SizeAt(b))

\* Where blocks are given back to the partition they came from, a block has one
\* user or none, and no user writes over what the module or another user keeps
\* (mmxpmem.c:231-257, 362-366, 399-407).
BlocksSound == BlocksApart /\ FreeOrBusy /\ UsersApart

\* The counter that mxp_pBalloc trusts is the length of the list it takes from
\* (mmxpmem.c:357-366, 407).
CountsAgree ==
    \A x \in Parts : part[x[1]][x[2]].FreeBlocks = Len(part[x[1]][x[2]].FreeList)

\* mmxpmem.c:231 asks "Do we have enough room?" before a partition is created.  A
\* partition that is created has its blocks above the headers.
RoomChecked == \A s \in used : top[s] >= HdrSize * Len(part[s])

================================================================================
