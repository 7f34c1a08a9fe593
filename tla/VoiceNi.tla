------------------------------- MODULE VoiceNi -------------------------------
(***************************************************************************)
(* voice_ni.c: the network interface vni0 between the DSP and the network  *)
(* stack.  Packets from the DSP reach the driver as descriptors that the   *)
(* accumulator of the queue manager writes into pages of a list; a tasklet *)
(* walks a page, copies each packet into the network and gives descriptor  *)
(* and buffer back.  Packets to the DSP take a descriptor and a buffer     *)
(* from the pools that the DSP takes its own from.                         *)
(*                                                                         *)
(* One processor: a tasklet is never interrupted by open, close or         *)
(* transmit, but the hardware works on beside it, and it may come between  *)
(* two steps of open and close.                                            *)
(*                                                                         *)
(* Queue manager, accumulator, interrupt distributor and DSP are external: *)
(* they do what the driver's calls rely on.                                *)
(***************************************************************************)
EXTENDS Naturals, Sequences, FiniteSets

CONSTANTS
    Own,        \* the descriptors of free_bd_pool
    Foreign,    \* descriptors of other pools, without a virtual address
    Bufs,       \* buffers of the pool BMGR0_POOL09
    PageLen,    \* entries of a page before the terminating null
    Worlds,     \* the surroundings to consider, see below
    None

\* What may go wrong around the driver, one thing at a time:
\* "captures": the protocol handler may keep a packet; "foreign": descriptors
\* without a virtual address arrive; "noisy": the DSP is active while the
\* interface is opened or closed; "mta": the network device may be missing;
\* "scarce": allocations and registrations may fail; "edge": pages that wait
\* at the end of interrupt do not raise the interrupt again, which they do in
\* all others.
AllWorlds == {"lawful", "captures", "foreign", "noisy", "mta", "scarce", "edge"}

ASSUME VoiceNiAssumption ==
    /\ Own \cap Foreign = {}
    /\ PageLen \in Nat \ {0}
    /\ Worlds \subseteq AllWorlds
    /\ None \notin Bufs

BDs == Own \cup Foreign
Queues == {"rx_queue", "tx_queue", "dsp_rx_queue", "dsp_tx_queue"}
Resources == Queues \cup {"pal", "pid", "bdq", "pool", "chan", "list", "base",
                          "irq", "recycle", "tasklet"}

VARIABLES
    world,      \* the surroundings; never changes
    oops,       \* the kernel has crashed, or freed memory that is in use
    mod,        \* how far voiceni_init_module has come
    op,         \* how far open or close has come
    res,        \* what the private data holds valid handles of; "base": the
                \* address of the pages is not NULL, whether they are there or not
    mta,        \* the MTA network device is there
    ptr,        \* ptr_etmani_device is not NULL
    free,       \* the free descriptor queue
    pool,       \* the buffers in the pool
    buf,        \* the buffer a descriptor carries
    rxq,        \* descriptors queued for the driver
    toDsp,      \* descriptors on their way to the DSP
    recycled,   \* descriptors in the recycle queue
    page,       \* the two pages of the accumulator's list
    hwpage,     \* the page the accumulator fills next
    count,      \* interrupt count: pages filled and not yet acknowledged
    irq,        \* the interrupt is raised
    armed,      \* the next filled page raises it (end of interrupt written)
    list,       \* rxAcc_chan_list: page and position
    spent,      \* history: the entry under list has been handled already
    tl,         \* how far the running tasklet has come
    sched       \* the tasklet is scheduled

life == <<world, mod, op, res, mta, ptr>>
bds == <<free, pool, buf, rxq, toDsp, recycled>>
hw == <<page, hwpage, count, irq, armed>>
rx == <<list, spent, tl, sched>>
vars == <<life, oops, bds, hw, rx>>

Has(r) == r \in res
Elems(s) == {s[i] : i \in 1 .. Len(s)}
Other(p) == 1 - p
Idle == tl = "idle"     \* open, close, transmit may run

\* Descriptors the accumulator has written and the driver not yet handled.
Unread ==
    SubSeq(page[list.page], list.pos + (IF spent THEN 1 ELSE 0),
           Len(page[list.page]))
Listed ==
    CASE count = 0 -> <<>>
      [] count = 1 -> Unread
      [] OTHER     -> Unread \o page[Other(list.page)]
Pending == Listed \o rxq
-----------------------------------------------------------------------------
Init ==
    /\ world \in Worlds
    /\ oops = FALSE
    /\ mod = "unloaded" /\ op = "down" /\ res = {}
    /\ mta \in (IF world = "mta" THEN BOOLEAN ELSE {TRUE}) /\ ptr = FALSE
    /\ free = {} /\ pool = Bufs /\ buf = [b \in BDs |-> None]
    /\ rxq = <<>> /\ toDsp = {} /\ recycled = {}
    /\ page = [p \in 0 .. 1 |-> <<>>] /\ hwpage = 0 /\ count = 0
    /\ irq = FALSE /\ armed = TRUE
    /\ list = [page |-> 0, pos |-> 1] /\ spent = FALSE
    /\ tl = "idle" /\ sched = FALSE

\* A call may fail only where means are scarce.
Works(ok) == ok \/ world = "scarce"

\* voiceni_init_module, up to register_netdev: from here on vni0 can be opened.
ModRegister ==
    /\ mod = "unloaded"
    /\ mod' = "registered"
    /\ UNCHANGED <<world, op, res, mta, ptr, oops, bds, hw, rx>>

\* voiceni_create_pid looks at no result: packets of the DSP now find a way.
CreatePid(handles) == handles \cup {"pid"}

\* PAL_cppi4Init and the PID; a failure leaves the device registered.
ModPal(ok) ==
    /\ mod = "registered" /\ Idle /\ Works(ok)
    /\ IF ok
       THEN mod' = "paired" /\ res' = CreatePid(res \cup {"pal"})
       ELSE mod' = "failed" /\ UNCHANGED res
    /\ UNCHANGED <<world, op, mta, ptr, oops, bds, hw, rx>>

\* A faulty initialisation that relies on the notifier alone.
ModLookupNot ==
    /\ mod = "paired" /\ Idle
    /\ mod' = "looked"
    /\ UNCHANGED <<world, op, res, mta, ptr, oops, bds, hw, rx>>

\* dev_get_by_name, and then the notifier; its registration may replay that
\* the device is up.
ModLookup ==
    /\ mod = "paired" /\ Idle
    /\ mod' = "looked"
    /\ ptr' = mta
    /\ UNCHANGED <<world, op, res, mta, oops, bds, hw, rx>>

ModReady ==
    /\ mod = "looked" /\ Idle
    /\ mod' = "ready"
    /\ ptr' \in {ptr, ptr \/ mta}
    /\ UNCHANGED <<world, op, res, mta, oops, bds, hw, rx>>

\* The MTA device comes up or goes down; voiceni_netdev_event once registered.
NetdevEvent ==
    /\ world = "mta" /\ Idle
    /\ mta' = ~mta
    /\ ptr' = IF mod = "ready" THEN mta' ELSE ptr
    /\ UNCHANGED <<world, mod, op, res, oops, bds, hw, rx>>
-----------------------------------------------------------------------------
\* voiceni_open, which looks at no result.  The free descriptor queue,
FreeBdQueue(ok) == IF ok THEN {"bdq"} ELSE {}

\* the pool, whose descriptors all go into that queue,
FreeBdPool(alloc, queue) ==
    /\ oops' = (~Has("pal") \/ (alloc /\ ~queue))
    /\ free' = IF alloc THEN Own ELSE {}

\* and the queues of the interface and of the DSP.
VoiceQueues(opened) == opened \cap {"rx_queue", "tx_queue"}
DspQueues(opened) == opened \cap {"dsp_rx_queue", "dsp_tx_queue"}

OpenQueues(queue, alloc, opened) ==
    /\ op = "down" /\ Idle
    /\ Works(queue) /\ Works(alloc) /\ Works(opened = Queues)
    /\ mod # "unloaded" /\ (mod = "ready" \/ world \in {"noisy", "scarce"})
    /\ op' = "queues"
    /\ FreeBdPool(alloc, queue)
    /\ res' = res \cup FreeBdQueue(queue)
                  \cup VoiceQueues(opened) \cup DspQueues(opened)
                  \cup (IF alloc THEN {"pool"} ELSE {})
    /\ UNCHANGED <<world, mod, mta, ptr, pool, buf, rxq, toDsp, recycled, hw, rx>>

\* init_voiceni_ccpi4_accum_channel: pages, channel, interrupt.  When the
\* channel cannot be opened the page memory is freed by its physical address.
OpenChannel(mem, chan, line) ==
    /\ op = "queues" /\ Idle
    /\ Works(mem) /\ Works(chan) /\ Works(line)
    /\ op' = "channel"
    /\ oops' = (mem /\ ~chan)
    /\ res' = res \cup (IF mem /\ chan THEN {"list", "base", "chan"} ELSE {})
                  \cup (IF mem /\ chan /\ line THEN {"irq"} ELSE {})
    /\ page' = [p \in 0 .. 1 |-> <<>>] /\ hwpage' = 0 /\ count' = 0
    /\ irq' = FALSE /\ armed' = TRUE
    /\ list' = [page |-> 0, pos |-> 1] /\ spent' = FALSE
    /\ UNCHANGED <<world, mod, mta, ptr, bds, tl, sched>>

\* The recycle queue, the tasklet, netif_start_queue.  The kernel does not
\* survive the initialisation of a tasklet that is scheduled.
OpenTasklet(queue) ==
    /\ op = "channel" /\ Idle /\ Works(queue)
    /\ op' = "up"
    /\ res' = res \cup {"tasklet"} \cup (IF queue THEN {"recycle"} ELSE {})
    /\ oops' = sched
    /\ UNCHANGED <<world, mod, mta, ptr, bds, hw, rx>>

\* The DSP has nothing under way.
Quiet == free = Own /\ Pending = <<>>

\* What the queue manager makes of a handle that is not there: it may crash.
MayCrash(handles) == IF handles \subseteq res THEN {FALSE} ELSE BOOLEAN

\* voiceni_close: the interrupt and the channel,
CloseChannel ==
    /\ op = "up" /\ Idle
    /\ world \in {"noisy", "scarce"} \/ Quiet
    /\ op' = "closing"
    /\ res' = res \ {"irq", "chan"}
    /\ oops' \in MayCrash({"chan"})
    /\ UNCHANGED <<world, mod, mta, ptr, bds, hw, rx>>

\* the queues and the descriptors' memory - wherever the descriptors are -
CloseQueues ==
    /\ op = "closing" /\ Idle
    /\ op' = "closed"
    /\ res' = res \ (Queues \cup {"recycle", "bdq", "pool"})
    /\ oops' \in IF Has("pool") /\ ~Quiet THEN {TRUE}
                 ELSE MayCrash(Queues \cup {"recycle", "bdq", "pool"})
    /\ free' = {} /\ rxq' = <<>> /\ toDsp' = {}
    /\ count' = 0
    /\ UNCHANGED <<world, mod, mta, ptr, pool, buf, recycled, page, hwpage,
                   irq, armed, rx>>

\* and the pages, at an address that stays behind: where the next open got no
\* pages, the next close frees these again.  The tasklet is not killed.
CloseList ==
    /\ op = "closed" /\ Idle
    /\ op' = "down"
    /\ res' = res \ {"list"}
    /\ oops' = (Has("base") /\ ~Has("list"))
    /\ UNCHANGED <<world, mod, mta, ptr, bds, hw, rx>>
-----------------------------------------------------------------------------
\* voiceni_start_xmit: a buffer, then a descriptor, then the DSP's queue; what
\* was taken goes back when the second of them is missing.
Xmit ==
    /\ op = "up" /\ Idle
    /\ \/ /\ pool = {} \/ free = {}
          /\ oops' = (pool # {} /\ ~Has("bdq"))
          /\ UNCHANGED <<free, pool, buf, toDsp>>
       \/ \E u \in pool, b \in free :
            /\ oops' = (~Has("bdq") \/ ~Has("tx_queue"))
            /\ pool' = pool \ {u}
            /\ free' = free \ {b}
            /\ buf' = [buf EXCEPT ![b] = u]
            /\ toDsp' = toDsp \cup {b}
    /\ UNCHANGED <<life, rxq, recycled, hw, rx>>
-----------------------------------------------------------------------------
\* The DSP takes a descriptor and a buffer and sends a packet, which the packet
\* processor queues for the driver.
DspSend(b, u) ==
    /\ Has("pid") /\ b \in free /\ u \in pool
    /\ op = "up" \/ world = "noisy"
    /\ free' = free \ {b}
    /\ pool' = pool \ {u}
    /\ buf' = [buf EXCEPT ![b] = u]
    /\ rxq' = Append(rxq, b)
    /\ UNCHANGED <<life, oops, toDsp, recycled, hw, rx>>

\* A packet to the DSP has been used up.
DspDone(b) ==
    /\ b \in toDsp
    /\ toDsp' = toDsp \ {b}
    /\ free' = free \cup {b}
    /\ pool' = pool \cup {buf[b]}
    /\ buf' = [buf EXCEPT ![b] = None]
    /\ UNCHANGED <<life, oops, rxq, recycled, hw, rx>>

\* A descriptor of another pool is queued for the driver, and comes back from
\* the recycle queue to where it belongs.
ForeignSend(b) ==
    /\ world = "foreign" /\ op = "up"
    /\ b \in Foreign \ (Elems(Pending) \cup recycled)
    /\ rxq' = Append(rxq, b)
    /\ UNCHANGED <<life, oops, free, pool, buf, toDsp, recycled, hw, rx>>

Recycle(b) ==
    /\ b \in recycled
    /\ recycled' = recycled \ {b}
    /\ UNCHANGED <<life, oops, free, pool, buf, rxq, toDsp, hw, rx>>

\* The accumulator fills a page that the driver has acknowledged.
Accumulate ==
    /\ Has("chan") /\ count < 2
    /\ \E n \in 1 .. PageLen :
         /\ n <= Len(rxq)
         /\ page' = [page EXCEPT ![hwpage] = SubSeq(rxq, 1, n)]
         /\ rxq' = SubSeq(rxq, n + 1, Len(rxq))
    /\ hwpage' = Other(hwpage)
    /\ count' = count + 1
    /\ irq' = (irq \/ armed)
    /\ armed' = FALSE
    /\ UNCHANGED <<life, oops, free, pool, buf, toDsp, recycled, rx>>
-----------------------------------------------------------------------------
\* A faulty interrupt handler that schedules nothing.
IsrForgets ==
    /\ irq /\ Has("irq")
    /\ irq' = FALSE
    /\ UNCHANGED <<life, oops, bds, page, hwpage, count, armed, rx>>

\* voiceni_rx_isr; the tasklet may be running.
Isr ==
    /\ irq /\ Has("irq")
    /\ irq' = FALSE
    /\ sched' = TRUE
    /\ UNCHANGED <<life, oops, bds, page, hwpage, count, armed, list, spent, tl>>

\* The kernel runs the tasklet, voiceni_rx_processing.
TaskletRun ==
    /\ tl = "idle" /\ sched
    /\ tl' = "test"
    /\ sched' = FALSE
    /\ oops' = ~Has("tasklet")
    /\ UNCHANGED <<life, bds, hw, list, spent>>

\* The outer loop: while the count says that a page is left.
RxTest ==
    /\ tl = "test"
    /\ tl' = IF count > 0 THEN "read" ELSE "eoi"
    /\ oops' = (count > 0 /\ ~Has("list"))
    /\ UNCHANGED <<life, bds, hw, list, spent, sched>>

\* A faulty end of the tasklet without the end of interrupt.
RxEoiMissing ==
    /\ tl = "eoi"
    /\ tl' = "idle"
    /\ UNCHANGED <<life, oops, bds, hw, list, spent, sched>>

\* The end of interrupt.  Pages may have come since the count was tested.
RxEoi ==
    /\ tl = "eoi"
    /\ tl' = "idle"
    /\ IF count > 0 /\ world # "edge"
       THEN irq' = TRUE /\ UNCHANGED armed
       ELSE armed' = TRUE /\ UNCHANGED irq
    /\ UNCHANGED <<life, oops, bds, page, hwpage, count, list, spent, sched>>

\* The inner loop: the entry under list, until the terminating null.
AtEnd == list.pos > Len(page[list.page])
Entry == page[list.page][list.pos]

\* A faulty step that skips a packet when another follows.
AdvanceTwo == [list EXCEPT !.pos = IF @ < Len(page[list.page]) THEN @ + 2 ELSE @ + 1]

Advance == [list EXCEPT !.pos = @ + 1]

\* Descriptor and buffer of b go back.
GiveBack(b) ==
    /\ pool' = pool \cup {buf[b]}
    /\ buf' = [buf EXCEPT ![b] = None]
    /\ free' = free \cup {b}

\* A packet for the network.
RxForward(skb) ==
    /\ tl = "read" /\ ~AtEnd /\ Entry \in Own /\ Works(skb)
    /\ oops' = (~skb \/ ~ptr)
    /\ GiveBack(Entry)
    /\ list' = Advance
    /\ UNCHANGED <<life, rxq, toDsp, recycled, hw, spent, tl, sched>>

\* A faulty loop back that gives the packet's buffer away as well.
RxLoopAndFree ==
    /\ tl = "read" /\ ~AtEnd /\ Entry \in Own
    /\ oops' = ~Has("tx_queue")
    /\ GiveBack(Entry)
    /\ toDsp' = toDsp \cup {Entry}
    /\ list' = Advance
    /\ UNCHANGED <<life, rxq, recycled, hw, spent, tl, sched>>

\* A packet whose two addresses are the same goes back to the DSP.
RxLoop ==
    /\ tl = "read" /\ ~AtEnd /\ Entry \in Own
    /\ oops' = ~Has("tx_queue")
    /\ toDsp' = toDsp \cup {Entry}
    /\ list' = Advance
    /\ UNCHANGED <<life, free, pool, buf, rxq, recycled, hw, spent, tl, sched>>

\* A packet the protocol handler keeps: everything is given back, and the
\* tasklet returns with neither list nor count nor interrupt updated.
RxCapture ==
    /\ tl = "read" /\ ~AtEnd /\ Entry \in Own /\ world = "captures"
    /\ GiveBack(Entry)
    /\ spent' = TRUE
    /\ tl' = "idle"
    /\ UNCHANGED <<life, oops, rxq, toDsp, recycled, hw, list, sched>>

\* A faulty turn of the page that keeps the position.
NextPageSamePlace ==
    /\ list' = [list EXCEPT !.page = Other(list.page)]
    /\ count' = count - 1
    /\ tl' = "test"
    /\ UNCHANGED <<page, hwpage, irq, armed, spent, sched>>

\* The end of the page: the next one, and one interrupt less.
NextPage ==
    /\ list' = [page |-> Other(list.page), pos |-> 1]
    /\ count' = count - 1
    /\ tl' = "test"
    /\ UNCHANGED <<page, hwpage, irq, armed, spent, sched>>

RxPageEnd ==
    /\ tl = "read" /\ AtEnd
    /\ NextPage
    /\ UNCHANGED <<life, oops, bds>>

\* A descriptor without a virtual address ends the page, whatever follows it.
RxForeign ==
    /\ tl = "read" /\ ~AtEnd /\ Entry \in Foreign
    /\ recycled' = IF Has("recycle") THEN recycled \cup {Entry} ELSE recycled
    /\ NextPage
    /\ UNCHANGED <<life, oops, free, pool, buf, rxq, toDsp>>
-----------------------------------------------------------------------------
Module ==
    \/ ModRegister \/ ModLookup \/ ModReady \/ NetdevEvent
    \/ \E ok \in BOOLEAN : ModPal(ok)

Interface ==
    \/ \E q, a \in BOOLEAN, o \in SUBSET Queues : OpenQueues(q, a, o)
    \/ \E m, c, l \in BOOLEAN : OpenChannel(m, c, l)
    \/ \E q \in BOOLEAN : OpenTasklet(q)
    \/ CloseChannel \/ CloseQueues \/ CloseList \/ Xmit

Hardware ==
    \/ \E b \in Own, u \in Bufs : DspSend(b, u)
    \/ \E b \in Own : DspDone(b)
    \/ \E b \in Foreign : ForeignSend(b) \/ Recycle(b)
    \/ Accumulate

Tasklet ==
    \/ TaskletRun \/ RxTest \/ RxEoi
    \/ \E skb \in BOOLEAN : RxForward(skb)
    \/ RxLoop \/ RxCapture \/ RxPageEnd \/ RxForeign

Next == ~oops /\ (Module \/ Interface \/ Hardware \/ Isr \/ Tasklet)

Spec == Init /\ [][Next]_vars

\* The accumulator, the interrupt and a scheduled tasklet do their work.
Fairness ==
    /\ WF_vars(~oops /\ Accumulate)
    /\ WF_vars(~oops /\ Isr)
    /\ WF_vars(~oops /\ Tasklet)

FairSpec == Spec /\ Fairness
-----------------------------------------------------------------------------
\* Types, and what the steps of open, close and the tasklet leave in place.
TypeOK ==
    /\ world \in Worlds /\ oops \in BOOLEAN /\ mta \in BOOLEAN /\ ptr \in BOOLEAN
    /\ mod \in {"unloaded", "registered", "paired", "looked", "ready", "failed"}
    /\ op \in {"down", "queues", "channel", "up", "closing", "closed"}
    /\ res \subseteq Resources
    /\ free \subseteq Own /\ toDsp \subseteq Own /\ recycled \subseteq Foreign
    /\ pool \subseteq Bufs /\ buf \in [BDs -> Bufs \cup {None}]
    /\ rxq \in Seq(BDs) /\ page \in [0 .. 1 -> Seq(BDs)]
    /\ hwpage \in 0 .. 1 /\ count \in 0 .. 2
    /\ irq \in BOOLEAN /\ armed \in BOOLEAN /\ spent \in BOOLEAN
    /\ list \in [page : 0 .. 1, pos : Nat \ {0}]
    /\ list.pos <= Len(page[list.page]) + 1
    /\ tl \in {"idle", "test", "read", "eoi"} /\ sched \in BOOLEAN

\* voice_ni.c:224-236, 252-264, 699-744: whichever of driver, DSP and hardware
\* has a descriptor or a buffer, it is the only one; neither is freed twice -
\* not even after a capture, where the list still shows the entry - and none
\* is lost unless a descriptor without a virtual address cut a page short.
OneOwner ==
    /\ \A i, j \in 1 .. Len(Pending) : i # j => Pending[i] # Pending[j]
    /\ free \cap toDsp = {} /\ (free \cup toDsp \cup recycled) \cap Elems(Pending) = {}
    /\ \A b \in Own :
         /\ b \in free => buf[b] = None
         /\ b \in toDsp \cup Elems(Pending) => buf[b] \in Bufs \ pool
         /\ \A c \in Own \ {b} : buf[b] = buf[c] => buf[b] = None
    /\ (op = "up" /\ Has("pool") /\ world # "foreign") =>
         /\ Own \subseteq free \cup toDsp \cup Elems(Pending)
         /\ Bufs \subseteq pool \cup {buf[b] : b \in Own}

\* voice_ni.c:161-274: whenever a page comes, between the last test of the
\* count and the end of interrupt included, it has an interrupt or a run of the
\* tasklet coming, so reception does not stop.  A captured packet stops it; and
\* where pages that wait at the end of interrupt do not raise the interrupt,
\* they wait with the interrupt ready for the next page to raise it.
Coming == irq \/ sched \/ tl # "idle"
NothingStuck ==
    (count > 0 /\ Has("irq") /\ world # "captures") =>
        (Coming \/ (world = "edge" /\ armed))

\* voice_ni.c:594-674: as long as the DSP is silent while the interface is
\* opened and closed, the MTA device stays and nothing fails, the tasklet never
\* meets what close has freed or open has not yet made.
NoOops == world \in {"lawful", "captures", "foreign", "edge"} => ~oops

\* voice_ni.c:151-276: packets from the DSP are taken in order and once, and
\* only a descriptor without a virtual address makes the driver skip some.
Channel == INSTANCE VoiceChannel WITH
    Packets <- BDs,
    ch <- Pending,
    open <- Has("pool"),
    lossy <- (world = "foreign")
DeliversInOrder == Channel!Spec

\* voice_ni.c:151-276: a packet from the DSP is forwarded or sent back to it,
\* whenever it comes; pages that wait at the end of interrupt raise it again.
PacketsLeave ==
    \A b \in Own :
        (world = "lawful" /\ b \in Elems(Pending)) ~> (b \in free \cup toDsp)
=============================================================================
