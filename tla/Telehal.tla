------------------------------- MODULE Telehal -------------------------------
(***************************************************************************)
(* The telephony HAL: the single-open device of tiuhal_mod.c, whose ioctls *)
(* reach the telephony chipsets over SPI (tiuhal.c), and the board's       *)
(* initialisation and teardown (tiuhal_pform.c).                           *)
(*                                                                         *)
(* A transfer is a register byte and the data bytes, each a transaction of *)
(* its own in which the caller sleeps; a step is what happens from one     *)
(* sleep to the next.  The ioctl takes no lock.  The misc driver opens a   *)
(* device under its lock, which release does not take.                     *)
(***************************************************************************)
EXTENDS Naturals, FiniteSets

CONSTANTS
    Threads,    \* threads of the process that has the device open, or wants it
    Tcids,      \* telephony channels, of TIUHW_MAX_TCIDS
    Selects,    \* chip selects that callers register
    Lens,       \* lengths that callers ask for
    MaxBytes,   \* TIUHAL_LIN_MAX_RD_WR_BYTES
    Wrap,       \* 2^8: a read counts in a UINT8, a chip select is cut to one
    Worlds,     \* the surroundings to consider, see below
    NoDevice,   \* TIUHAL_SPI_MAX_CS; also the NULL of tiuhal_spi_dev
    None

\* What may go wrong around the HAL, one thing at a time: "racing": threads
\* transfer at the same time; "early": the device is used while the module is
\* initialised; "scarce": registrations and copies fail; "unbound": an SPI
\* device leaves its driver.  SPI transactions may fail at any time.
AllWorlds == {"lawful", "racing", "early", "scarce", "unbound"}

Devices == 0 .. 1       \* the chip selects below TIUHW_MAX_TIDS

\* The locals of a transfer, and what a chipset sees of one.
Ops == [rw : {"read", "write"}, tcid : Tcids, cut : BOOLEAN,
        i : 0 .. MaxBytes, len : 0 .. MaxBytes]
Sights == [who : Threads, asked : Lens, got : Nat]

ASSUME TelehalAssumption ==
    /\ Worlds \subseteq AllWorlds
    /\ NoDevice \in 2 .. (Wrap - 1) /\ Selects \subseteq Nat
    /\ Lens \subseteq Nat
    /\ MaxBytes \in Nat /\ Wrap \in Nat /\ MaxBytes < Wrap
    /\ IsFiniteSet(Threads)
    /\ None \notin Threads /\ None \notin Ops /\ None \notin Sights

VARIABLES
    world,      \* the surroundings; never changes
    oops,       \* the kernel has crashed
    mod,        \* how far init_module has come
    misc,       \* the device is registered
    api,        \* tiuhw_api is not NULL
    line,       \* the telephony interrupt is requested
    drivers,    \* the registered SPI drivers, by chip select
    present,    \* the SPI devices of the board
    tid,        \* tid_template[d].spi is not NULL
    count,      \* device_open_count
    files,      \* history: open files
    lock,       \* the thread that holds the lock of the misc driver
    chipsel,    \* tiuhal_chipselect
    dev,        \* tiuhal_spi_dev
    pc,         \* where each thread is
    op,         \* the transfer each thread makes
    seen,       \* history: what each chipset has seen of a transfer under way
    told        \* history: what a caller was told last about a transfer

board == <<mod, misc, api, line, drivers, present, tid>>
opening == <<count, files, lock>>
use == <<pc, op, seen, told>>
vars == <<world, oops, board, opening, chipsel, dev, use>>

Works(ok) == ok \/ world = "scarce"
Idle == \A t \in Threads : pc[t] = "idle"
-----------------------------------------------------------------------------
Init ==
    /\ world \in Worlds
    /\ oops = FALSE
    /\ mod = "unloaded" /\ misc = FALSE /\ api = FALSE /\ line = FALSE
    /\ drivers = {} /\ tid = [d \in Devices |-> FALSE]
    /\ present \in SUBSET Devices
    /\ count = 0 /\ files = 0 /\ lock = None
    /\ chipsel = [c \in Tcids |-> 0]
    /\ dev = NoDevice
    /\ pc = [t \in Threads |-> "idle"]
    /\ op = [t \in Threads |-> None]
    /\ seen = [d \in Devices |-> None]
    /\ told = "nothing"

\* init_module: the device is there before the board is.  One that could not be
\* registered is deregistered all the same, which the kernel may not survive.
LoadRegister(ok) ==
    /\ mod = "unloaded" /\ Works(ok)
    /\ misc' = ok
    /\ mod' = IF ok THEN "registered" ELSE "unloaded"
    /\ oops' \in IF ok THEN {FALSE} ELSE BOOLEAN
    /\ UNCHANGED <<world, api, line, drivers, present, tid, opening,
                   chipsel, dev, use>>

\* spi_tid_probe, which spi_register_driver calls for the devices it matches.
Probed(D) == [d \in Devices |-> tid[d] \/ d \in D \cap present]

\* tiuhal_spi_init: the drivers of both chip selects.  When one cannot be
\* registered the other stays, and init_module tears down through tiuhw_api,
\* which is NULL.
LoadSpi(ok0, ok1) ==
    /\ mod = "registered" /\ Works(ok0) /\ Works(ok1)
    /\ drivers' = IF ~ok0 THEN {} ELSE IF ~ok1 THEN {0} ELSE {0, 1}
    /\ tid' = Probed(drivers')
    /\ oops' = ~(ok0 /\ ok1)
    /\ mod' = "probed"
    /\ UNCHANGED <<world, misc, api, line, present, opening, chipsel, dev,
                   use>>

\* tiuhw_int_disconnect, and tiuhal_spi_teardown: both drivers go.
IntDisconnect == line' = FALSE
SpiTeardown == drivers' = {}

\* tiuhal_board_teardown, and the device after it.
BoardTeardown ==
    /\ IntDisconnect
    /\ SpiTeardown
    /\ misc' = FALSE
    /\ mod' = "unloaded"

\* tiuhw_int_connect.
IntConnect(ok) ==
    /\ line' = ok
    /\ mod' = "up"
    /\ UNCHANGED <<misc, drivers>>

\* The rest of tiuhal_board_init: the table, the chip selects, the interrupt.
LoadBoard(ok) ==
    /\ mod = "probed" /\ Works(ok)
    /\ api' = ok
    /\ chipsel' = [c \in Tcids |-> NoDevice]
    /\ IF ok
       THEN IntConnect(ok) /\ UNCHANGED tid
       ELSE BoardTeardown /\ tid' = [d \in Devices |-> FALSE]
    /\ oops' = (~ok /\ files > 0)
    /\ UNCHANGED <<world, present, opening, dev, use>>

\* cleanup_module; a module in use is not unloaded.
Unload ==
    /\ mod = "up" /\ files = 0 /\ Idle
    /\ BoardTeardown
    /\ api' = FALSE
    /\ tid' = [d \in Devices |-> FALSE]
    /\ chipsel' = [c \in Tcids |-> 0]
    /\ dev' = NoDevice
    /\ UNCHANGED <<world, oops, present, opening, use>>

\* An SPI device leaves its driver: spi_tid_remove does nothing.
SpiRemove(d) ==
    /\ world = "unbound" /\ d \in present
    /\ present' = present \ {d}
    /\ UNCHANGED <<world, oops, mod, misc, api, line, drivers, tid, opening,
                   chipsel, dev, use>>
-----------------------------------------------------------------------------
Usable == misc /\ (mod = "up" \/ world = "early")
Goto(t, l) == pc' = [pc EXCEPT ![t] = l]

\* A faulty open that does without the lock.
OpenTestUnlocked(t) ==
    /\ pc[t] = "idle" /\ Usable
    /\ IF count # 0 THEN UNCHANGED pc ELSE Goto(t, "openCount")
    /\ UNCHANGED <<world, oops, board, opening, chipsel, dev, op, seen, told>>

\* device_open: refused with ENFILE when the device is open,
OpenTest(t) ==
    /\ pc[t] = "idle" /\ Usable /\ lock = None
    /\ IF count # 0
       THEN UNCHANGED <<lock, pc>>
       ELSE lock' = t /\ Goto(t, "openCount")
    /\ UNCHANGED <<world, oops, board, count, files, chipsel, dev, op, seen, told>>

\* counted otherwise.
OpenCount(t) ==
    /\ pc[t] = "openCount"
    /\ count' = count + 1
    /\ files' = files + 1
    /\ lock' = None
    /\ Goto(t, "idle")
    /\ UNCHANGED <<world, oops, board, chipsel, dev, op, seen, told>>

\* The last reference to the file goes, so no ioctl is under way;
\* device_release comes after that and takes no lock.
Close(t) ==
    /\ pc[t] = "idle" /\ files > 0
    /\ \A u \in Threads : pc[u] # "transfer"
    /\ files' = files - 1
    /\ Goto(t, "release")
    /\ UNCHANGED <<world, oops, board, count, lock, chipsel, dev, op, seen, told>>

Release(t) ==
    /\ pc[t] = "release"
    /\ count' = IF count # 0 THEN count - 1 ELSE count
    /\ Goto(t, "idle")
    /\ UNCHANGED <<world, oops, board, files, lock, chipsel, dev, op, seen, told>>
-----------------------------------------------------------------------------
\* TIUHAL_LIN_IOCTL_CS_REG; a channel out of range changes nothing.
CsReg(t, c, s) ==
    /\ pc[t] = "idle" /\ files > 0
    /\ chipsel' = IF c \in Tcids THEN [chipsel EXCEPT ![c] = s] ELSE chipsel
    /\ UNCHANGED <<world, oops, board, opening, dev, use>>

\* TIUHAL_LIN_IOCTL_MREAD and MWRITE.  A length above the limit is cut, and the
\* caller told so when all is done.
Cut(n) == n > MaxBytes

\* A faulty ioctl that passes any length on.
NothingCut(n) == n

CutTo(n) == IF Cut(n) THEN MaxBytes ELSE n

\* tiuhw_select_tid.
SelectTid(c) == chipsel[c]

\* A faulty selection that takes the chip select on trust.
SpiDrvUnprobed(c) ==
    LET d == SelectTid(c) % Wrap IN IF d \in Devices THEN d ELSE NoDevice

\* tiuhal_spi_drv: the SPI device of the chip select registered for c, as far
\* as a UINT8 holds it.
SpiDrv(c) ==
    LET d == SelectTid(c) % Wrap
    IN  IF d \in Devices /\ tid[d] THEN d ELSE NoDevice

\* A transaction on an SPI device that is not there, or through NULL.
Faults(d) == d = NoDevice \/ d \notin present

\* What d has seen once t has sent it a register byte, and a data byte.
SeenRegister(t, d, n) ==
    seen' = [seen EXCEPT ![d] = [who |-> t, asked |-> n, got |-> 0]]
SeenByte(t, d) ==
    seen' = IF d # NoDevice /\ seen[d] # None /\ seen[d].who = t
            THEN [seen EXCEPT ![d].got = @ + 1] ELSE seen

\* A faulty end that forgets to clean up.
FinishKeepsOp(t, good) ==
    /\ Goto(t, "idle")
    /\ UNCHANGED op
    /\ seen' = [d \in Devices |->
                  IF seen[d] # None /\ seen[d].who = t THEN None ELSE seen[d]]
    /\ told' = IF good THEN "success" ELSE "failure"

\* The transfer of t is over.
Finish(t, good) ==
    /\ Goto(t, "idle")
    /\ op' = [op EXCEPT ![t] = None]
    /\ seen' = [d \in Devices |->
                  IF seen[d] # None /\ seen[d].who = t THEN None ELSE seen[d]]
    /\ told' = IF good THEN "success" ELSE "failure"

\* The ioctl up to the first transaction.
Begin(t, rw, c, n) ==
    /\ pc[t] = "idle" /\ files > 0
    /\ world # "racing" => Idle
    /\ dev' = SpiDrv(c)
    /\ IF dev' = NoDevice
       THEN /\ told' = "failure"            \* TIUHAL_IO_INVALID_TCID
            /\ oops' = ~api
            /\ UNCHANGED <<pc, op, seen>>
       ELSE /\ oops' = (~api \/ Faults(dev'))
            /\ op' = [op EXCEPT ![t] =
                        [rw |-> rw, tcid |-> c, len |-> CutTo(n), i |-> 0,
                         cut |-> Cut(n)]]
            /\ SeenRegister(t, dev', n)
            /\ Goto(t, "transfer")
            /\ UNCHANGED told
    /\ UNCHANGED <<world, board, opening, chipsel>>

\* The caller's data cannot be copied in.
BeginUncopied(t) ==
    /\ pc[t] = "idle" /\ files > 0 /\ world = "scarce"
    /\ told' = "failure"
    /\ UNCHANGED <<world, oops, board, opening, chipsel, dev, pc, op, seen>>

\* A faulty choice that looks the channel's chip select up again.
TargetOfChannel(t) == SpiDrv(op[t].tcid)

\* The device of the next data byte: the global is read again.
Target(t) == dev

\* A transaction of t has ended and the next data byte goes out; the loop of a
\* read counts the bytes in a UINT8,
Send(t, next) ==
    /\ pc[t] = "transfer" /\ op[t].i < op[t].len
    /\ oops' = Faults(Target(t))
    /\ op' = [op EXCEPT ![t].i = next]
    /\ SeenByte(t, Target(t))
    /\ UNCHANGED <<world, board, opening, chipsel, dev, pc, told>>

SpiRead(t) == op[t] # None /\ op[t].rw = "read" /\ Send(t, (op[t].i + 1) % Wrap)

\* that of a write in a UINT32;
SpiWrite(t) == op[t] # None /\ op[t].rw = "write" /\ Send(t, op[t].i + 1)

\* or it was the last, and the ioctl returns;
TransferDone(t, copied) ==
    /\ pc[t] = "transfer" /\ op[t].i >= op[t].len /\ Works(copied)
    /\ Finish(t, copied /\ ~op[t].cut)
    /\ UNCHANGED <<world, oops, board, opening, chipsel, dev>>

\* or it has failed: the rest is not sent, whatever the chipset makes of it.
TransferError(t) ==
    /\ pc[t] = "transfer"
    /\ Finish(t, FALSE)
    /\ UNCHANGED <<world, oops, board, opening, chipsel, dev>>
-----------------------------------------------------------------------------
Module ==
    \/ \E ok \in BOOLEAN : LoadRegister(ok) \/ LoadBoard(ok)
    \/ \E ok0, ok1 \in BOOLEAN : LoadSpi(ok0, ok1)
    \/ Unload
    \/ \E d \in Devices : SpiRemove(d)

Call(t) ==
    \/ OpenTest(t) \/ Close(t) \/ BeginUncopied(t)
    \/ \E c \in Tcids \cup {None}, s \in Selects : CsReg(t, c, s)
    \/ \E rw \in {"read", "write"}, c \in Tcids, n \in Lens : Begin(t, rw, c, n)

Step(t) ==
    \/ OpenCount(t) \/ Release(t)
    \/ SpiRead(t) \/ SpiWrite(t) \/ TransferError(t)
    \/ \E copied \in BOOLEAN : TransferDone(t, copied)

Next == ~oops /\ (Module \/ \E t \in Threads : Call(t) \/ Step(t))

Spec == Init /\ [][Next]_vars

\* Every SPI transaction ends, and every thread that can go on does.
Fairness == \A t \in Threads : WF_vars(~oops /\ Step(t))

FairSpec == Spec /\ Fairness
-----------------------------------------------------------------------------
\* Types, and where a transfer under way stands.
TypeOK ==
    /\ world \in Worlds /\ oops \in BOOLEAN
    /\ mod \in {"unloaded", "registered", "probed", "up"}
    /\ misc \in BOOLEAN /\ api \in BOOLEAN /\ line \in BOOLEAN
    /\ drivers \subseteq Devices /\ present \subseteq Devices
    /\ tid \in [Devices -> BOOLEAN]
    /\ count \in Nat /\ files \in Nat /\ lock \in Threads \cup {None}
    /\ chipsel \in [Tcids -> Selects \cup {0, NoDevice}]
    /\ dev \in Devices \cup {NoDevice}
    /\ pc \in [Threads -> {"idle", "openCount", "release", "transfer"}]
    /\ DOMAIN op = Threads
    /\ \A t \in Threads :
         IF pc[t] = "transfer"
         THEN op[t] \in Ops /\ op[t].i <= op[t].len
         ELSE op[t] = None
    /\ seen \in [Devices -> {None} \cup Sights]
    /\ told \in {"nothing", "success", "failure"}

\* tiuhal_mod.c:86-119: one file is open at most, and the count agrees with it
\* whenever no thread is between the two; so the device does not stay closed.
OneOpen ==
    /\ files <= 1
    /\ count = files + Cardinality({t \in Threads : pc[t] = "release"})
    /\ (\A t \in Threads : pc[t] # "openCount") <=> lock = None

\* tiuhal_mod.c:274-283, tiuhal.c:326-348: where the device is used only once
\* the module is up, one transfer at a time, and its SPI devices stay, no
\* transaction goes through a null or a stale pointer.
NoOops == world = "lawful" => ~oops

\* tiuhal.c:322-407, tiuhal.h:184-185 and 224-225: chipsets see whole transfers
\* one after the other, whatever becomes of the chip selects in between, and
\* success is reported only for those seen whole; unless transfers overlap.
Transfers == INSTANCE HalTransfers WITH
    Callers <- Threads, Lengths <- Lens,
    apart <- (world # "racing")
TransfersWhole == Transfers!Spec

\* tiuhal_mod.c:161-163, 191-193, tiuhal.c:345, 394: every transfer ends,
\* though a read counts in eight bits.
TransferEnds == \A t \in Threads : (pc[t] = "transfer") ~> (pc[t] = "idle" \/ oops)
=============================================================================
