# A verification project for the TI voice kernel modules

The repository holds four groups of Linux kernel modules for the voice part of
Puma 5 and Puma 6 gateways: the MXP core (`src/mxp`), which gives a real-time
executive's tasks, events, queues, timers and memory partitions to a user-space
voice application; the telephony HAL (`src/telehal`); the DSP module
(`src/dspmod`); and the voice network interface (`src/voiceni`). This directory
holds TLA+ models of them, TLC runs on small instances and TLAPS proofs.

Paths below are relative to the repository; `mmxpcore.c:220` is a line of
`src/mxp/mmxpcore.c`.

## 1. The system

The processor has one ARM11 core. Three things interleave on it:

* **threads** of the application, inside `mxp_ioctl` and the other ioctls;
* **tasklets** (`tmrobj_tasklet`, `voiceni_rx_processing`), which run above the
  threads and are never interrupted by them;
* **interrupts**: the MXP tick, the telephony interrupt, the voice network one.

`local_irq_save .. local_irq_restore` therefore makes a stretch of code atomic,
and that is the grain of the models: one action per masked section, or per step
of a kernel primitive between two sections (the condition test and the sleep of
`wait_event_interruptible`, `wake_up`, a signal). The hard bugs live between the
sections.

| component | state | operations | talks to | what is hard |
|---|---|---|---|---|
| message queues, `mmxp_q.c` | pool of message containers, `mqueue[]` | create, delete, delete all, post, wait, identify, inquiry | posts an event to the queue's task; wakes waiters | flag `wait4msg` shared by all waiters, deletion under a waiter, signals, pool exhaustion |
| tasks and events, `mmxp_ev.c`, `mmxpcore.c:100-213` | `mxp_tcb[]`, `mxp_subtcb[].gate_lock` | alloc, free, identify; post, wait, clear, inquiry | posted to by queues, timers, the telephony interrupt | post decides, waiter computes its result later; one mask per task |
| timers and sleeps, `mmxpcore.c:205-461, 788-955` | `irq_tick`, `mxp_tick`, `_clock`, `_heap[]`, `timers[]` | create, start, abort, delete, sleep; tick; tasklet | expiry posts an event or a message, or wakes a sleeper | callbacks in the middle of the loop, late ticks, turn of the clock, signals, double start |
| timer hardware, `puma/mmxptimer.c` | registers | init, cleanup | raises the tick | order of initialisation |
| memory partitions, `mmxpmem.c` | segments, partition headers, free lists in shared memory | segment init/create/identify/name; partition create/identify/inquiry; block alloc/free | application memory | room computation, block ownership, re-initialisation |
| core device, `mmxpcore.c:463-770` | - | open, close, mmap, ioctl, /proc, module init and cleanup | dispatches to all of the above | partial failure of init |
| telephony HAL, `tiuhal_mod.c`, `tiuhal_pform.c`, `tiuhal.c` | open count, chip selects, API table, SPI devices, one global SPI pointer | open, release, ioctl (read, write, chip select, config), interrupt, init, teardown | SPI core; posts to the MXP task "DEX" | transfers that sleep around a global, a task id kept for ever, order of init and its failures |
| voice network interface, `voice_ni.c` | descriptor pool and queues, accumulator list, tasklet | open, close, transmit, receive tasklet, interrupt, netdev events | CPPI queues, DSP, network stack | captured packets, foreign descriptors, open and close against the tasklet, the end of interrupt against new pages |
| DSP module, `hw_dspmod.c` | open count, module references, reset and clock registers | load, unload, open, release, ioctls | hardware | order of resets, overlapping ioctls, release against open and unload |

What makes each correct:

* queues: containers are never lost or in two places; a message goes to one
  receiver, in order; a waiter does not sleep over a message;
* events: a waiter gets what it asked for and nothing posted vanishes unseen; no
  wake-up is lost;
* timers: an object is in the heap at most once and knows its place; timers
  expire in order, at their time and not after an abort; every sleep ends;
* partitions: blocks do not overlap headers or each other, a block is free or
  taken, and what a user gets is as long as the block;
* telephony HAL: a chipset sees whole transfers one after the other, and success
  is told only for those; an interrupt reaches DEX or nobody;
* voice network: a descriptor and a buffer have one owner; packets are taken in
  order and once; no page waits without an interrupt to come for it;
* DSP module: the count, the references and the users agree; the DSP never
  runs without its proxy and its interconnect, and no call leaves it without its
  clock.

The full list of hazards, each at its line, is under `hazards` in
`PROJECT.json`.

## 2. Modules

| module | what it is |
|---|---|
| `MxpQ` | `mmxp_q.c`, whole |
| `MsgChannels` | what queues promise: bounded FIFO channels that open and close |
| `MxpQ_MC` | TLC instances of `MxpQ` |
| `MxpQ_proofs` | types, pool, counts, names, `MxpQ` implements `MsgChannels`; no NULL container, no lost wake-up |
| `MxpEv` | task control blocks and `mmxp_ev.c` |
| `EventFlags` | what events promise: flags that a wait takes in one step |
| `MxpEv_MC` | TLC instances of `MxpEv` |
| `MxpEv_proofs` | types, task names, consumed events, no lost wake-up, `MxpEv` implements `EventFlags`; and of `TeleDex`, interrupts reach DEX |
| `TmrHeap` | the binary heap of timer objects, as operators |
| `TmrHeap_MC` | the heap alone, for TLC |
| `TmrHeap_proofs` | what the heap operations do, for any heap |
| `MxpTmr` | tick, tasklet, MXP timers, `mxp_task_sleep` |
| `Timers` | what timers promise: they expire in order when their ticks are processed |
| `MxpTmr_MC` | TLC instances of `MxpTmr` |
| `MxpTmr_proofs` | types, heap, active timers and sleepers, `MxpTmr` implements `Timers` |
| `TeleDex` | the telephony interrupt, `tiuhal_pform.c:79-101`, composed with `MxpEv` |
| `TeleDex_MC` | TLC instance of both |
| `MxpMem` | `mmxpmem.c`, whole |
| `MxpMem_MC` | TLC instances of `MxpMem` |
| `MxpMem_proofs` | types, free counts, where blocks lie and that each is in one place |
| `VoiceNi` | `voice_ni.c`: initialisation, open, close, transmit, interrupt, tasklet |
| `VoiceChannel` | what the interface promises the DSP: packets in order and once |
| `VoiceNi_MC` | TLC instance of `VoiceNi` |
| `VoiceNi_proofs` | types, owners, reception goes on, no fault, `VoiceNi` implements `VoiceChannel` |
| `Telehal` | `tiuhal_mod.c`, `tiuhal.c`, `tiuhal_pform.c` without the interrupt |
| `HalTransfers` | what the telephony HAL promises: whole transfers, honest results |
| `Telehal_MC` | TLC instance of `Telehal` |
| `Telehal_proofs` | types, open count, no stale pointer, `Telehal` implements `HalTransfers` |
| `Dspmod` | `hw_dspmod.c` |
| `Dspmod_MC` | TLC instance of `Dspmod` |
| `Dspmod_proofs` | types, users, order of resets |

### How state and actions correspond to the code

**MxpQ.** `list[q]` and `free` are the linked lists from head to tail, `cmsg` the
`msg` fields; the other variables carry the names of the fields of `mqueue`.
`pc`, `qid` and `wakeT` are where each thread is and its locals. A post is up to
three actions: `QPost` (the masked section), `QPostWake` (`wake_up`, after it),
`QPostEvent` (the call of `mxp_ev_post`). A wait is `QWait`, `QWaitCheck` (the
test in `wait_event_interruptible`), perhaps a sleep that `Woken` or `Signal`
ends, and `QWaitResume`. `mxp_q_delete_all` is one action per queue, as its
masked sections are. Taking the head of an empty list leads to `oops`.

**MxpEv.** Event words are sets of bits. `ask` is a history variable: the request
a thread is waiting with, which the code keeps once per task and not per thread.
`EvPost` decides with the request in the control block; `EvPostWake` is the
`wake_up`; `EvWaitResume` computes the result. `GateWake` is the `wake_up` on the
same wait queue that the expiry of a sleep makes. A post from an interrupt or
from `mxp_q_post` is a post like any other.

**TmrHeap, MxpTmr.** `h.heap` is `_heap[1 .. _inUse]`, `h.index` and `h.time` the
fields of the objects. The loops of `UpTree` and `DownTree` are the path they
take. `lag` is `irq_tick - mxp_tick`, all the code ever computes from the two.
`Irq` may come anywhere; `TaskletEnter`, `ClockStart`, then rounds of `ClockPop`
and a callback (`TimerTimeOut`, `TimerPost`, or `TaskWakeup`), then `ClockEnd`;
no thread moves while the tasklet is inside. Wake-up times are words:
`MAX_CLOCK` is 2^31 - 1 in the code and `Words` keeps the relation
2 * MAX_CLOCK + 2 between the two at any size.

**MxpMem.** Every call is one masked section, so one action each. An address is a
segment and an offset from its `segPtr`; `top` is `Top`, and `part[s]` the
`PartCnt` headers at the start of the segment. A free list is a sequence of
blocks; `busy` are the blocks whose link is `BLOCK_BUSY`. `base`, where the
blocks of a partition start, is what `blkStart` is at creation; the code does
not keep it. `held` is a history variable: for a block in use, how much memory
its user was given, which is the `BlockSize` of the partition it was taken *from*.
Users name any segment and any partition, and free any block, once or more often:
to the partition it came from where `Homeward` holds, to any where it does not.
`mxp_segInit` is called only while no block is in use. Lengths are positive and
counts not negative, and what is freed is the address of a block: the code takes
negative numbers and any pointer (232, 399), and what happens then is up to the
memory, not to the code.

**TeleDex.** `dexTid` is the static `dex_tid` of `tele_int_handler`; the handler
is not interrupted by threads, so its lookup, post and wake-up are one action
between any two steps of `MxpEv`.

**VoiceNi.** `op` is how far `voiceni_open` or `voiceni_close` has come, `mod` how
far the module's initialisation; each is several actions, since the tasklet may
come between them, and any of the calls may fail where means are scarce. `res` is
the set of handles that the private data holds: what open takes and close gives
back; `base` stays in it after a close, as the address of the freed pages stays in
`rxAcc_chan_list_base`. `free`, `pool`, `rxq`, `toDsp`, `recycled` are
where descriptors and buffers are, `buf` which buffer a descriptor carries;
`page` is the accumulator's list, `count` the interrupt count of the queue
manager, `armed` whether an end of interrupt has been written since the last
interrupt. `sched` is the kernel's mark on a scheduled tasklet, which an interrupt
may set while the tasklet runs. The tasklet is `RxTest` (the count, 161), then
rounds of `RxForward`, `RxLoop`, `RxCapture` or `RxForeign` for an entry and
`RxPageEnd`, until `RxTest` finds no page left; `RxEoi` (274) is a step of its own
after that, and the accumulator works in between. `oops` is set where the code
would go through a NULL pointer, use or free what is freed already, free memory
that is in use, or initialise a tasklet that is scheduled; where it hands a NULL
handle to the PAL's close calls it may be set. The statistics read the length of
an skb that the stack may have freed (243-245); only a number comes of it, and it
is not counted.

**Telehal.** The three files are one module because a call goes through all of
them: `device_ioctl`, the table of the board, the SPI routines. `dev` is the
global `tiuhal_spi_dev`, set when a transfer begins (`Begin`) and read again
before every byte (`SpiRead`, `SpiWrite`). `seen` is a history variable: what
each chipset has seen since the last register byte; `told` is what the caller
was told. Loading is three actions, because the device is registered before the
SPI drivers and the board are there; when the registration fails, the code
deregisters all the same and may crash. The chip select of a channel is any
number, and is cut to a byte on the way to the driver (`SpiDrv`), as the `UINT8`
parameter is. Channels are in range, as the comments at `tiuhal_mod.c:148` and
`:180` assume; a failed `put_user`, whose result the code drops, is not modelled.

**Dspmod.** A routine is the sequence of its register writes, `todo[t]` what is
left of the routine of `t`, and `Write` makes one. `refs` counts the references
of the kernel (one for the file, around open and release) and of the module
itself (`try_module_get`, `module_put`). Release is two steps, the count and the
reference (`ReleaseCount`, `ReleasePut`), since it has no lock and an open may come
between them. A reset line stands for the registers the code writes together to
move it; the state of the module `PSC_DSPSS` in the PSC and the raw register
0x08621a08 (103-110) are two lines, though both concern the DSP subsystem.

## 3. Runs

All bounds are constants in the `.cfg` files.

| run | configuration | shows |
|---|---|---|
| `queue_safety` | 3 threads, all subject to signals; 2 queues, 2 names, 2 containers, 2 messages; deletion at any time, under a waiter too; symmetric | types, pool, counts, names, `DeliversFifo` (implements `MsgChannels`) |
| `queue_liveness` | 3 threads, one of them signalled and waiting alone; 1 queue, 2 containers; no deletion under a waiter | `NoNullContainer`, `NoLostWakeup`, a lone waiter is served, a message with waiters does not stick |
| `events_any` | 3 threads, 1 task, 2 event bits; anything goes; symmetric | types, `ConsumedIsReported` |
| `events_owned` | the same with 2 names, but nobody waits for, clears or frees the task while another thread waits; composed with the telephony interrupt | `TakesAnswers` (implements `EventFlags`), no lost wake-up, `PostedIsServed`, `InterruptReachesDex` |
| `timers` | 1 thread, 1 sleeping task, 2 timers; clock turns at 3, up to 3 late ticks, intervals below and above the bound, reload or not; signals | types, heap, `KeepsTime` (implements `Timers`), `TimersArmed` (active timers are armed, sleepers timed), sleeps end, one-shots fire |
| `timer_heap` | 6 objects, 3 wake-up times, every order of operations | the heap stays a heap; a step touches one object |
| `sleep_signal` | 1 thread, 1 task | **violated**: a signal leaves the task's timer armed |
| `partitions` | 2 segments of 32 bytes, up to 2 partitions of 1 or 2 blocks each, or none, lengths 4 and 5, headers of 8 bytes, links of 4; partitions only where their blocks fit, blocks given back where they came from | types, `BlocksSound` (blocks and what users hold overlap nothing, a block is taken or free in one place), counts |
| `partition_room` | 1 segment of 24 bytes, 1 partition | **violated**: a partition is created that does not fit |
| `voiceni` | 2 descriptors of the driver and 1 foreign, 2 buffers, pages of 2 entries; seven surroundings | types, `OneOwner`, `NothingStuck`, `NoOops`, `DeliversInOrder` (implements `VoiceChannel`), packets leave |
| `telehal` | 2 threads, 2 channels, chip selects 1 and 8, where a byte ends at 8, lengths 0, 2 and 9; five surroundings | types, `OneOpen`, `NoOops`, `TransfersWhole` (implements `HalTransfers`), transfers end |
| `dspmod` | 2 threads, both chips, every ioctl; three surroundings | types, `OneUser`, `ResetOrder` |

Why the bounds are enough. The races need a poster, a waiter, and a third thread
that waits too, deletes or clears: three threads. Queues interact through the
pool only: two of them, with a pool smaller than their depths together would
fill, so that containers change queues. A queue of depth 2 has the cases empty,
first, later and full. Two event bits tell OR from AND. Timers interact through
the order of the heap: three objects reach every relation of first, last and
middle in the tasklet, and the heap itself is checked with six, the least size
at which a deletion moves the replacement *up*. The clock turns several times,
with the greatest number of late ticks for which the sum in `tmrobj_Start` fits
a word; with four late ticks at the turn and the longest interval it would not.

Segments of 32 bytes take two partitions of one block, or one of two with each
length, and refuse what does not fit; two lengths tell a multiple of the word
from one that is rounded up; two segments with two partitions let blocks be
freed twice, after others and before, and make numbers that do not exist.
`HdrSize` and `LinkSize` are smaller than on the target, and only their being
positive matters.

Two descriptors, two buffers and pages of two entries let a page hold one or two
packets, both pages be full, the two pools run empty at once or one before the
other, and transmit compete with the DSP for the last of each; a third
descriptor would only repeat the second. Two threads are enough for the two
single-open devices, whose hazards are one thread in open, release or a transfer
and another beside it; the module is loaded and unloaded by one. In `telehal`
two stands for the limit of 80 bytes and eight for the 2^8 at which the counter
of a read wraps and a chip select is cut: what matters is that the limit is the
smaller, that a length is below, at and above, and that a chip select is inside
the byte and beyond it. A second
thread in `timers`, or a second control block in `events_owned`, is more than the
runs can carry; what they would add - another thread at the timers while one
sleeps, an event for DEX at another task - is in the theorems `TimersArmedCorrect`
and `InterruptsReachDex`, which hold for any number of either. Liveness of sleeps
is checked with one thread only. In `dspmod` nothing else is bounded.

A queue waiter can sleep for ever, a thread stop on a NULL container, and the
voice interface and the telephony HAL end with `oops` in surroundings that allow
it, so those runs do not check deadlock; the others do.

### Rules on callers, and who justifies them

Some properties hold only for callers that keep a rule. The rules of queues, events
and `TeleDex` are also left out, in `queue_safety`, `events_any` and half of
`events_owned`, which show what still holds; the theorems name the rules they need.

* `SignalledAlone`, `QuietDelete` (queues): a signalled waiter clears the flag of
  the others (`mmxp_q.c:321`), and a deletion wakes nobody. The code enforces
  neither.
* `Owned` (events): only one thread waits for the events of a task, and no other
  clears them or frees the task meanwhile. The user API gives `XevWait` no task
  argument (`rtxuser.h:474`), so a task waits for its own events; but `XevClear`
  (481) and `XtDelete` (403) take one, so that part is the callers' affair, and
  the kernel code enforces none of it.
* `OneStart` (timers): a timer is started when it is not active, and a task put
  to sleep when its object is not armed. The code enforces neither; without the
  rule an object enters the heap twice, four steps after the start.
* Identifiers of timers are not negative, and the task that sleeps has a control
  block in range; the code tests neither (`mmxpcore.c:391`, `:220`).
* `Roomy` (partitions): a partition is asked for only where its blocks fit, or
  where `mxp_pCreate` refuses it. The code does not see to it: the violation.
* `Homeward` (partitions): a block is given back to the partition it came from.
  The code does not see to it: a block given back to another partition is handed
  out with that one's size. The runs keep the rule; `CountsAgree` is proved
  without it.
* `mxp_segInit` (partitions) is called with no block in use. The code does not
  see to it: users' blocks would lie where new partitions are carved.
* `kept` (`TeleDex`, a variable that never changes): the task DEX is never freed.
  Nothing enforces it; the run has both cases.

`VoiceNi`, `Telehal` and `Dspmod` choose a `world` at the start: what may go wrong
around them, one thing at a time. In every world the invariants on types,
owners and counts are checked; a property that holds in some worlds only names
them, and its comment or its hazard's note says what the others would do to it.
`UpFaults` is FALSE in the timer runs: `up()` of the semaphore `tmr_lock`, which
nobody initialises (`mmxpcore.c:849`), is taken to be harmless; with TRUE the tasklet
may crash there.

* `VoiceNi`: `lawful`; `captures` (the protocol handler keeps a packet); `foreign`
  (descriptors without a virtual address arrive); `noisy` (the DSP is active
  while the interface is opened and closed, or it is opened before the module is
  ready); `mta` (the network device comes and goes); `scarce` (allocations,
  registrations and the opening of queues fail); `edge` (pages that wait at the
  end of interrupt do not raise the interrupt again).
* `Telehal`: `lawful`; `racing` (transfers overlap); `early` (the device is used
  while the module is initialised); `scarce`; `unbound` (an SPI device leaves
  its driver). SPI transactions may fail in each.
* `Dspmod`: `serial`; `failing` (the clocks refuse); `interleaved` (ioctls of
  threads that share the file overlap).

### What is outside the source

The kernel and the PAL are not in the repository and are modelled from how the
drivers use them, marked external in `PROJECT.json`: opening a misc device is
done under the lock of the misc driver and with a reference to the module;
release comes when no ioctl is under way; a module with references is not
unloaded. Closing a PAL queue or accumulator channel drops what it holds; the
accumulator fills a page only after the driver has acknowledged it. A filled page
raises the interrupt if the end of the last one has been written. A page may be
filled after the driver's last look at the count (`voice_ni.c:161`) and before it
writes the end (274): then the end of interrupt raises the interrupt again, as the
distributor's count of pages is not zero. The source does not say so - it only
relies on it - and therefore the world `edge` takes the opposite: the page waits,
with the interrupt armed, until the next one comes. `NothingStuck` states both;
`PacketsLeave` needs the first. `PHYS_2_VIRT` of a NULL address is taken to be
NULL, which is what the drivers test for. The DSP takes descriptors and
buffers from the pools the driver fills and returns what it was sent. On Puma 5
the reset line written through `AVALANCHE_C55X_RESET_BIT` is taken to be the one
of 0x08621a08.

### Fairness

A thread that is ready to run is run: `WF` on its next step, and nothing about
calls or signals. In `MxpTmr` threads are ready only while the tasklet is not
running, which may be again and again, so they get `SF`: the scheduler does not
starve a thread whenever the tasklet pauses. The tick is periodic hardware and
the kernel runs a scheduled tasklet: `WF` for both. In `VoiceNi` the accumulator
and the interrupt are hardware that works on its own and the tasklet runs to its
end once scheduled: `WF` for each; nothing is assumed of the DSP or of
transmit. In `Telehal` an SPI transaction ends, well or not, and the thread that
slept in it goes on: `WF` on its next step. `TransferEnds` needs no more.

### Disagreements found

Each of these is a violated run:

* `mmxpcore.c:243`: the comment says the timer object is deleted after a signal;
  the branch returns before that. (It also unlocks `mxp_lock`, which it does not
  hold, at 246.)
* `mmxpmem.c:232`: the room of a partition is computed from the length asked for,
  without the rounding and the link of each block (215).

These were met while modelling; the models do what the code does, and the
properties say where they stop:

* `mmxp_q.c:297`, `:328`: the waiter trusts a count that a deletion left behind
  (`queue_safety` reaches it as `oops`).
* `mmxp_q.c:348`: `mxp_q_identify` compares with 0, the search returns -1, so an
  unknown name is reported as found.
* `mmxpmem.c:400`: `ERR_INVBLK`, "given block address is out of range"
  (`rtxerr.h:48`), is never returned: a block may be freed to another partition.
* `mmxpcore.c:396`: `ERR_TMRACTIVE`, "attempt to start an active timer"
  (`rtxerr.h:56`), is never returned: the object enters the heap twice.
* `voice_ni.c:237`: after a captured packet the tasklet returns without the end
  of interrupt of 274, and reception stops.
* `voice_ni.c:178`: a descriptor without a virtual address ends its page; the
  entries behind it are never taken.
* `voice_ni.c:620`: the interrupt is requested before the tasklet is initialised,
  and `voiceni_close` neither kills it nor waits for descriptors that are out:
  an active DSP gets a tasklet run that is not initialised, or descriptors in
  freed memory. `voiceni_open` looks at no result.
* `voice_ni.c:665`: the base of the pages is freed and not cleared; if the next open
  gets no pages, the next close frees it again.
* `voice_ni.c:341`: the page memory is freed by its physical address.
* `voice_ni.c:545-547`: the PID is zeroed twice and its range not at all.
* `voice_ni.c:726`: the length is or-ed into a descriptor that still has the last
  one. `:824`, `:896`: the device got by `dev_get_by_name` is never put.
  The interface is registered before `pal_hnd` is set. The cleanup function
  undoes nothing. None of these changes what is modelled.
* `tiuhal.c:326`: of two overlapping transfers the second redirects the bytes of
  the first, and both callers are told of success (`tiuhal.h:224-225` promises
  them the result of their own).
* `tiuhal_mod.c:283`: the device can be used before `tiuhw_api` is set, and a
  failed initialisation tears down through it: both are NULL.
  `tiuhw_init_hal`, `tiuhw_reset_tid` and `tiuhal_spi_ioctl` have no caller.
* `hw_dspmod.c:444`: the comment says "out of RESET" and the code writes 0x03,
  which is how line 109 puts the DSP in reset. `:438`: the comment says the TDM
  goes in reset, the argument takes it out. `:137-145`: the header and the
  message of the NMI routine disagree on what TRUE means.
* `hw_dspmod.c:118`: resets in both directions that overlap can leave the core
  out of reset over an interconnect in reset; there is no lock.

## 4. Proofs

For every value of the constants that satisfies the named assumption of the
module (finiteness, ranges, distinct special values):

| theorem | says |
|---|---|
| `MxpQ_proofs!TypeCorrect` | `Spec => []TypeOK` |
| `MxpQ_proofs!PoolCorrect` | `Spec => []PoolConserved` |
| `MxpQ_proofs!CountsCorrect` | `Spec => []CountsAgree` |
| `MxpQ_proofs!QueuesAreChannels` | `Spec => DeliversFifo`, the refinement of `MsgChannels` |
| `MxpQ_proofs!NamesCorrect` | `Spec => []NamesUnique` |
| `MxpQ_proofs!NoNullCorrect` | `Spec => []NoNullContainer`, given `QuietDelete` and a pool that fills every queue |
| `MxpQ_proofs!NoWakeupLost` | `Spec => []NoLostWakeup`, given `SignalledAlone` and `QuietDelete` |
| `MxpEv_proofs!TypeCorrect` | `Spec => []TypeOK` |
| `MxpEv_proofs!TaskNamesDiffer` | `Spec => []TaskNamesUnique` |
| `MxpEv_proofs!ConsumedReported` | `Spec => ConsumedIsReported` |
| `MxpEv_proofs!NoEventWakeupLost` | `Spec => []NoLostEventWakeup` |
| `MxpEv_proofs!EventsAreFlags` | `Spec => TakesAnswers`, the refinement of `EventFlags` |
| `MxpEv_proofs!InterruptsReachDex` | `DexSpec => InterruptReachesDex` |
| `MxpMem_proofs!TypeCorrect` | `Spec => []TypeOK` |
| `MxpMem_proofs!CountsCorrect` | `Spec => []CountsAgree` |
| `MxpMem_proofs!BlocksCorrect` | `Spec => []BlocksSound`, given `Roomy` and `Homeward` |
| `TmrHeap_proofs!StaysHeapCorrect` | `Spec => []StaysHeap` |
| `TmrHeap_proofs!TouchesOneCorrect` | `Spec => TouchesOne` |
| `MxpTmr_proofs!TypeCorrect` | `Spec => []TypeOK`, given `OneStart` |
| `MxpTmr_proofs!HeapCorrect` | `Spec => []HeapConsistent`, given `OneStart` |
| `MxpTmr_proofs!TimersArmedCorrect` | `Spec => []TimersArmed`, given `OneStart` |
| `MxpTmr_proofs!TimersKeepTime` | `Spec => KeepsTime`, the refinement of `Timers`, given `OneStart` and `TimesFit` |
| `VoiceNi_proofs!TypeCorrect` | `Spec => []TypeOK` |
| `VoiceNi_proofs!OneOwnerCorrect` | `Spec => []OneOwner` |
| `VoiceNi_proofs!NothingStuckCorrect` | `Spec => []NothingStuck` |
| `VoiceNi_proofs!NoOopsCorrect` | `Spec => []NoOops` |
| `VoiceNi_proofs!VoiceIsChannel` | `Spec => DeliversInOrder`, the refinement of `VoiceChannel` |
| `Telehal_proofs!TypeCorrect` | `Spec => []TypeOK` |
| `Telehal_proofs!OneOpenCorrect` | `Spec => []OneOpen` |
| `Telehal_proofs!NoOopsCorrect` | `Spec => []NoOops` |
| `Telehal_proofs!TransfersAreWhole` | `Spec => TransfersWhole`, the refinement of `HalTransfers` |
| `Dspmod_proofs!TypeCorrect` | `Spec => []TypeOK` |
| `Dspmod_proofs!OneUserCorrect` | `Spec => []OneUser` |
| `Dspmod_proofs!ResetOrderCorrect` | `Spec => []ResetOrder` |

How they go. `PoolConserved` is inductive once the types are known; its proof
reduces every step to one of a few moves of a container between two lists
(`ListStep`), so each move is argued once. `CountsAgree` follows the same moves.
The refinement of `MsgChannels` needs both: a container taken from the free list
is in no queue, so overwriting its `msg` changes no channel, and the count the
code tests is the length of the list. The wake-up theorem for queues strengthens
"no sleeper over a message" (`WakeInv`): a flag is set only over an empty queue;
no waiter is left on a queue that is not in use, where creation would clear the
flag under it; and a thread that clears the flag after a signal has no other
waiter beside it. For events (`OwnedInv`) the control block of an owned task
holds the request of the one thread inside its wait, the flag is clear exactly
while the posted events answer that request, and whenever it is clear over a
sleeper some thread stands before its `wake_up`. That is what makes the result,
computed long after the post decided, agree with the decision.
`ConsumedIsReported` is a property of steps and needs the types only: a step that
takes bits off an event word is a wait that reports them or a clear, for whatever
callers.

`NoNullContainer` is a count. Were the free list empty when `mxp_q_post` takes its
head, every container would be at a place of some queue (`PoolConserved`), and no
queue is longer than its depth, so there would be no place left in the queue
posted to: hence the hypothesis `EnoughContainers`, that the pool is not smaller
than all queues at the greatest depth together (16384 containers and 1024 queues
in `mxp_mod.h`: depths up to 16; the code does not enforce it). The wait takes the head of a
queue in use, where the counter tells the truth; after the sleep this needs
`QuietDelete`, that a waiter's queue is still there (`WaitersOnQueuesInUse`).

In `MxpMem` neither theorem holds alone: the head that `mxp_pBalloc` takes is a
block only because the count is the length of the list, so one invariant
(`IInv`) carries both. `BlocksSound` is proved in three parts. `LaidOut` is about
numbers: the headers grow from one end of a segment and the blocks from the
other, `top` between them, and partitions lie one below the other, so two blocks
overlap only if they are the same; this is where `Roomy` is used, and the violated
run shows what comes of a partition without it. `Sorted` is about the lists:
every block that was ever made is busy or at one place of one free list. The third
part is what users hold (`UsersKnow`): a list holds blocks of its own partition
only, and so a block is handed out with the size it was carved with. This is
where `Homeward` is used: a block that was freed to a partition with longer blocks
would be handed out with that length, over its neighbour.

In `TmrHeap_proofs` the loops of `UpTree` and `DownTree` are the set of places
they go through, a recursive function of the place they start at. What such a
function is cannot be proved by induction here, but that it exists can
(`PathExists`): the places reached from a place are the least set that is closed
under one round of the loop, whatever that round is. Everything that does not depend on the order of times is said once,
for any turn of the objects on a set of places by a permutation (`Turn`,
`TurnKeeps`): it keeps the indexes right, the times, and what is armed. The
order is then two lemmas, one per direction: a heap that is in order but for one
object which may be too early (`UpAt`) or too late (`DownAt`) for its place is in
order afterwards. A deletion leaves one or the other at the place of the object
that fills the gap, so the code's two calls in a row are right, and neither alone
is.

`MxpTmr_proofs` uses these facts through an instance of that module. Its
invariant (`IInv`) adds that the object whose callback runs is out of the heap, so
that the reload starts what is not armed, and that the sleepers of a task are
alone (`Alone`); that a place is free for every object not armed is counting
again (`PlacesLeft`). `TimersKeepTime` needs the time as well (`TimeInv`): outside
the tasklet's loop the clock is before its turn and nothing armed is due, inside
it is late by the ticks that waited at most. Its hypothesis `TimesFit` is the
arithmetic of `mmxpcore.c:934`: the ticks that wait are no more than `MAX_CLOCK`,
and the reload periods in use, cut as the code cuts them, leave room for that
many beyond twice `MAX_CLOCK`. At the longest period these are three ticks, at a
period of half the clock a thousand million. Without it the sum wraps and the
timer is due at once, again and again; the other three theorems hold all the
same. `OneStart` is needed by all four (section 3).

In `VoiceNi_proofs` one invariant (`IInv`) carries four of the five theorems. The
accumulator and the driver use the pages in turn, and which one is whose is what
the interrupt count says (`PagesInTurn`); a page that waits has the interrupt, a
scheduled tasklet or a running one on the way (`Served`), unless a packet was
captured, after which nothing comes (`SpentIsLast`). The critical step is the end
of interrupt with a page that came after the last test: it raises the interrupt,
or, at the `edge`, leaves it armed with the page waiting. Descriptors and buffers are
each in one place (`BdsHeld`, `BufsHeld`), and while the pool is allocated all of
them are somewhere (`NothingLost`), so that closing frees what is there. In the
calm surroundings how far open or close has come tells what exists and who is
quiet (`OpenWhole`, `ClosedQuiet`), which is why no step meets a pointer that is
not there. The refinement of `VoiceChannel` reads the packets on the way as what
is left of the driver's page, then the other page.

`InterruptReachesDex` follows from an invariant (`DexInv`): under the rule, an id
that the handler has kept is that of a control block which is busy and named
DEX, and task names are unique (`TaskNamesUnique`), so no other task is.

In `Telehal_proofs`, `UseInv` says who holds the lock of the misc driver and that
transfers are made through an open file; with it the open count is the number of
open files and of threads in release. `Lawful` adds that users exist only while
the board is up, which keeps it up, and that the drivers know only devices that
are there. `Apart` is the heart of the refinement: where transfers do not
overlap there is at most one, and the chipset under the global pointer has seen
exactly the bytes its caller has counted, so that a transfer which ends well,
uncut, has been seen whole.

In `Dspmod_proofs` the count and the references are sums over the threads, whose
changes are those of the sizes of three sets (`PcMoves`): the threads that have yet to lower the count, those
that hold a reference of the kernel meanwhile, and those between the two steps of
release; `UseInv` adds where
threads can be at all: the lock is held over a closed device only, ioctls need an
open file, loading and unloading have the module to themselves. From it, one
routine at most is under way where ioctls do not overlap (`OneTodo`). The order
of resets then is a property of sequences: certain writes come only right after
another (`Led`), others are followed by one more and no other (`Followed`). Each
routine is shown to keep to both, a step keeps what is left of it so, and the
registers are never further apart than the one write that is left (`Halves`).

Only model-checked: the liveness properties (`LoneWaiterServed`,
`MessageNotStuck`, `PostedIsServed`, `SleepEnds`, `OneShotFires`, `PacketsLeave`,
`TransferEnds`), since the prover handles neither fairness nor `ENABLED`. Every
invariant and every action property of a passing run is a theorem too, for the
callers and surroundings its table entry or its own statement names.

## 5. Plan

Done: every component with behaviour of its own is modelled and checked, with
the proofs above. In this order next:

1. `Mxp`: the composition of queues, events and timers - a message posted to a
   queue with a task, or a timer's expiry, raises the task's event; what happens
   when task, queue and timer are freed in different orders.
2. The life cycle of the MXP module: the order of its initialisation, and its
   failures.

## 6. Not modelled, and why

`mmxptimer.c` programs the hardware timer in a straight line; its effect on the
rest is the tick, `Irq` of `MxpTmr`. `mxp_mmap` and the `/proc` files are I/O.
Loading and unloading the MXP module run before and after everything else. The
pins, clocks and pads that `tiuhal_spi_init` and `hwu_dsp_init` program once are
read by nobody. The statistics and the parameter ioctl of `voice_ni.c`, and the
queries of the DSP module, change nothing that is read again. A failed
`copy_from_user` ends a call before it changes state and is left out, except in
the telephony HAL, where a copy fails after the transfer too.
`mxp_getTicks` and `mxp_q_inquiry`-like reads change nothing; the inquiries are
modelled for their error codes. The copy of a result to the user comes last
(`mmxpcore.c:529`), after a wait has taken its event or message: if it fails, what
was taken is lost, and this is not modelled either.

## 7. Running

    tlc -workers 2 -config MxpQ_safety.cfg MxpQ_MC
    tlapm MxpQ_proofs.tla

and likewise for the runs and theorems listed in `PROJECT.json`.
