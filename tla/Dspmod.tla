-------------------------------- MODULE Dspmod --------------------------------
(***************************************************************************)
(* The DSP module, hw_dspmod.c: a single-open device whose ioctls write    *)
(* the registers that reset, clock and place the DSP.                      *)
(*                                                                         *)
(* A routine is the sequence of its register writes, and a step is one of  *)
(* them: the ioctl takes no lock, so threads that share the open file can  *)
(* be anywhere in their routines.  A reset line has one value for the two  *)
(* or three registers that the code writes to move it.                     *)
(***************************************************************************)
EXTENDS Naturals, Sequences, FiniteSets

CONSTANTS
    Threads,    \* threads that open the device, or load and unload the module
    Worlds,     \* the surroundings to consider, see below
    None

\* "serial": callers make one ioctl at a time; "failing": clocks, and the timer,
\* refuse now and then; "interleaved": ioctls of several threads overlap.
AllWorlds == {"serial", "failing", "interleaved"}

ASSUME DspmodAssumption ==
    /\ Worlds \subseteq AllWorlds
    /\ IsFiniteSet(Threads) /\ None \notin Threads

VARIABLES
    chip,       \* CONFIG_MACH_PUMA5 or CONFIG_MACH_PUMA6; never changes
    world,      \* the surroundings; never changes
    loaded,     \* init_module has succeeded, and cleanup_module not begun
    refs,       \* the references to the module that the kernel counts
    count,      \* dspmod_device_open
    files,      \* history: open files
    lock,       \* the thread that holds the lock of the misc driver
    hw,         \* the registers
    pc,         \* where each thread is
    todo        \* the writes its routine has still to make

opening == <<refs, count, files, lock>>
vars == <<chip, world, loaded, opening, hw, pc, todo>>

\* The registers and their values.
Lines == {"INC", "PROXY", "C55", "TDM"}
Domains == {"PSC_DSPSS", "PSC_TDM"}
Regs == Lines \cup Domains \cup {"ARM", "TIMER", "NMI", "BASE"}
Values(r) ==
    CASE r \in Lines -> {"in", "out"}
      [] r \in Domains -> {"on", "off"}
      [] r = "ARM" -> {"full", "half"}
      [] r = "TIMER" -> {"5000", "10000"}
      [] r = "NMI" -> {"on", "off"}
      [] r = "BASE" -> {"boot", "query"}
AllValues == UNION {Values(r) : r \in Regs}
Writes == {w \in Regs \X AllValues : w[2] \in Values(w[1])}

Idle == \A t \in Threads : pc[t] = "idle"
Goto(t, l) == pc' = [pc EXCEPT ![t] = l]

\* As the boot loader leaves it: the DSP wholly in reset or wholly out of it.
Init ==
    /\ chip \in {"puma5", "puma6"} /\ world \in Worlds
    /\ loaded = FALSE
    /\ refs = 0 /\ count = 0 /\ files = 0 /\ lock = None
    /\ \E s \in {"in", "out"} :
         hw = [r \in Regs |->
                 CASE r \in Lines -> s
                   [] r \in Domains -> "on"
                   [] r = "ARM" -> "full"
                   [] r = "TIMER" -> "5000"
                   [] r = "NMI" -> "off"
                   [] r = "BASE" -> "boot"]
    /\ pc = [t \in Threads |-> "idle"]
    /\ todo = [t \in Threads |-> <<>>]
-----------------------------------------------------------------------------
\* The routines.

\* A faulty reset that takes the lines in the same order both ways.
DspResetOneOrder(status) ==
    LET s == IF status THEN "in" ELSE "out"
    IN IF chip = "puma6" THEN << <<"C55", s>>, <<"PROXY", s>>, <<"INC", s>> >>
                         ELSE << <<"PSC_DSPSS", "on">>, <<"C55", s>> >>

\* hwu_lin_puma_dsp_reset: on Puma 6 the core goes into reset first and comes
\* out last; on Puma 5 the clock is switched first, either way.
DspReset(status) ==
    CASE chip = "puma6" /\ status ->
            << <<"C55", "in">>, <<"PROXY", "in">>, <<"INC", "in">> >>
      [] chip = "puma6" /\ ~status ->
            << <<"INC", "out">>, <<"PROXY", "out">>, <<"C55", "out">> >>
      [] chip = "puma5" /\ status ->
            << <<"PSC_DSPSS", "off">>, <<"C55", "in">> >>
      [] OTHER ->
            << <<"PSC_DSPSS", "on">>, <<"C55", "out">> >>

\* hwu_lin_puma_dsp_halt.
DspHalt == DspReset(TRUE)

\* hwu_lin_puma_dsp_nmi.
DspNmi(status) == << <<"NMI", IF status THEN "on" ELSE "off">> >>

\* hwu_lin_pumav_dsp_power_control: the clock of the processor, and the timer
\* that lives on it.
DspPower(status) ==
    CASE chip = "puma6" -> <<>>
      [] chip = "puma5" /\ status -> << <<"ARM", "half">>, <<"TIMER", "10000">> >>
      [] OTHER -> << <<"ARM", "full">>, <<"TIMER", "5000">> >>

\* hwu_lin_puma_reset_tdm; compiled out on Puma 6.
ResetTdm(status) ==
    IF chip = "puma6" THEN <<>>
                      ELSE << <<"PSC_TDM", IF status THEN "off" ELSE "on">> >>

\* DSPMOD_IOCTL_QUERY_DSP_ADDR, where the memory set aside for the DSP is there
\* or not: on Puma 5 the DSP goes into reset (the value is that of 109) before
\* anything is known, on Puma 6 its caller has seen to that.
QueryAddr(ok) ==
    CASE chip = "puma5" /\ ok ->
            << <<"C55", "in">>, <<"PROXY", "out">>, <<"BASE", "query">> >>
      [] chip = "puma5" /\ ~ok ->
            << <<"C55", "in">>, <<"PROXY", "out">> >>
      [] chip = "puma6" /\ ok ->
            << <<"BASE", "query">> >> \o ResetTdm(FALSE)
      [] OTHER -> <<>>

\* The writes of cleanup_module.
Shutdown ==
    IF chip = "puma6"
    THEN << <<"C55", "in">>, <<"PROXY", "in">>, <<"INC", "in">>, <<"TDM", "in">> >>
    ELSE << <<"TDM", "in">>, <<"C55", "in">> >>

\* hwu_dsp_init: the pins, and the DSP in reset.
HwuDspInit == DspReset(TRUE)
-----------------------------------------------------------------------------
\* PAL calls that report failure, which the code logs and ignores.
MayFail(r) == world = "failing" /\ r \in Domains \cup {"ARM", "TIMER"}

\* The next write of t's routine.
Write(t, ok) ==
    /\ todo[t] # <<>> /\ (ok \/ MayFail(Head(todo[t])[1]))
    /\ hw' = IF ok THEN [hw EXCEPT ![Head(todo[t])[1]] = Head(todo[t])[2]] ELSE hw
    /\ todo' = [todo EXCEPT ![t] = Tail(@)]
    /\ UNCHANGED <<chip, world, loaded, opening, pc>>

\* dspmod_init_module: hwu_dsp_init first,
Load(t) ==
    /\ ~loaded /\ Idle
    /\ Goto(t, "load")
    /\ todo' = [todo EXCEPT ![t] = HwuDspInit]
    /\ UNCHANGED <<chip, world, loaded, opening, hw>>

\* the device after it.
LoadRegister(t, ok) ==
    /\ pc[t] = "load" /\ todo[t] = <<>>
    /\ loaded' = ok
    /\ count' = 0
    /\ Goto(t, "idle")
    /\ UNCHANGED <<chip, world, refs, files, lock, hw, todo>>

\* dspmod_cleanup_module; the kernel calls it when nobody has a reference.
Unload(t) ==
    /\ loaded /\ refs = 0 /\ lock = None /\ pc[t] = "idle"
    /\ loaded' = FALSE
    /\ Goto(t, "unload")
    /\ todo' = [todo EXCEPT ![t] = Shutdown]
    /\ UNCHANGED <<chip, world, opening, hw>>

UnloadDone(t) ==
    /\ pc[t] = "unload" /\ todo[t] = <<>>
    /\ Goto(t, "idle")
    /\ UNCHANGED <<chip, world, loaded, opening, hw, todo>>
-----------------------------------------------------------------------------
\* dspmod_open, which the misc driver calls with its lock, and with a reference
\* to the module: refused with EBUSY when the device is open,
OpenTest(t) ==
    /\ loaded /\ pc[t] = "idle" /\ lock = None
    /\ IF count # 0
       THEN UNCHANGED <<refs, lock, pc>>
       ELSE refs' = refs + 1 /\ lock' = t /\ Goto(t, "open")
    /\ UNCHANGED <<chip, world, loaded, count, files, hw, todo>>

\* A faulty open that takes no reference of its own.
OpenCountNoGet(t) ==
    /\ pc[t] = "open"
    /\ count' = count + 1
    /\ files' = files + 1
    /\ lock' = None
    /\ Goto(t, "idle")
    /\ UNCHANGED <<chip, world, loaded, refs, hw, todo>>

\* counted otherwise, with a second reference.
OpenCount(t) ==
    /\ pc[t] = "open"
    /\ count' = count + 1
    /\ refs' = refs + 1
    /\ files' = files + 1
    /\ lock' = None
    /\ Goto(t, "idle")
    /\ UNCHANGED <<chip, world, loaded, hw, todo>>

\* The file goes, and no ioctl is under way.
Close(t) ==
    /\ pc[t] = "idle" /\ files > 0
    /\ \A u \in Threads : pc[u] # "ioctl"
    /\ files' = files - 1
    /\ Goto(t, "release")
    /\ UNCHANGED <<chip, world, loaded, refs, count, lock, hw, todo>>

\* dspmod_release takes neither lock nor a look at the count,
ReleaseCount(t) ==
    /\ pc[t] = "release"
    /\ count' = count - 1
    /\ Goto(t, "drop")
    /\ UNCHANGED <<chip, world, loaded, refs, files, lock, hw, todo>>

\* and gives the reference back that open took.
ReleasePut(t) ==
    /\ pc[t] = "drop"
    /\ refs' = refs - 1
    /\ Goto(t, "put")
    /\ UNCHANGED <<chip, world, loaded, count, files, lock, hw, todo>>

\* The kernel gives its reference back once dspmod_release has returned.
Put(t) ==
    /\ pc[t] = "put"
    /\ refs' = refs - 1
    /\ Goto(t, "idle")
    /\ UNCHANGED <<chip, world, loaded, count, files, lock, hw, todo>>

\* The routines of dspmod_ioctl.
Routines ==
    {DspHalt} \cup {QueryAddr(ok) : ok \in BOOLEAN}
    \cup UNION {{DspReset(s), DspNmi(s), DspPower(s), ResetTdm(s)} : s \in BOOLEAN}

\* dspmod_ioctl.
Ioctl(t, r) ==
    /\ pc[t] = "idle" /\ files > 0
    /\ world # "interleaved" => \A u \in Threads : pc[u] # "ioctl"
    /\ Goto(t, "ioctl")
    /\ todo' = [todo EXCEPT ![t] = r]
    /\ UNCHANGED <<chip, world, loaded, opening, hw>>

\* A faulty return from the middle of a routine.
IoctlDoneEarly(t) ==
    /\ pc[t] = "ioctl"
    /\ Goto(t, "idle")
    /\ UNCHANGED <<chip, world, loaded, opening, hw, todo>>

IoctlDone(t) ==
    /\ pc[t] = "ioctl" /\ todo[t] = <<>>
    /\ Goto(t, "idle")
    /\ UNCHANGED <<chip, world, loaded, opening, hw, todo>>

Next ==
    \E t \in Threads :
        \/ \E ok \in BOOLEAN : Write(t, ok) \/ LoadRegister(t, ok)
        \/ Load(t) \/ Unload(t) \/ UnloadDone(t)
        \/ OpenTest(t) \/ OpenCount(t)
        \/ Close(t) \/ ReleaseCount(t) \/ ReleasePut(t) \/ Put(t)
        \/ \E r \in Routines : Ioctl(t, r)
        \/ IoctlDone(t)

Spec == Init /\ [][Next]_vars
-----------------------------------------------------------------------------
\* Types, and what a routine may still have to write.
TypeOK ==
    /\ chip \in {"puma5", "puma6"} /\ world \in Worlds
    /\ loaded \in BOOLEAN
    /\ refs \in Nat /\ count \in Nat /\ files \in Nat
    /\ lock \in Threads \cup {None}
    /\ hw \in [Regs -> AllValues] /\ \A r \in Regs : hw[r] \in Values(r)
    /\ pc \in [Threads -> {"idle", "load", "unload", "ioctl",
                        "open", "release", "drop", "put"}]
    /\ todo \in [Threads -> Seq(Writes)]
    /\ \A t \in Threads : pc[t] \notin {"load", "unload", "ioctl"} => todo[t] = <<>>

\* The threads that have yet to uncount the device, those that have a reference
\* of the kernel outside the time the device is counted as open, and those of
\* them that have the reference of the device as well.
Releasing == {t \in Threads : pc[t] = "release"}
Holding == {t \in Threads : pc[t] \in {"open", "drop", "put"}}
Dropping == {t \in Threads : pc[t] = "drop"}

\* hw_dspmod.c:341-363: one file is open at most, the count says whether one
\* is, and the module is there, with the references of its users, for as long
\* as a thread is in it.
OneUser ==
    /\ files <= 1
    /\ count = files + Cardinality(Releasing)
    /\ refs = 2 * count + Cardinality(Holding) + Cardinality(Dropping)
    /\ refs > 0 => loaded

\* On Puma 6 the core is never out of reset with its proxy in reset, nor the
\* proxy with the interconnect in reset, at any moment.
CoreLast ==
    (chip = "puma6" /\ world # "interleaved") =>
        /\ hw["C55"] = "out" => hw["PROXY"] = "out"
        /\ hw["PROXY"] = "out" => hw["INC"] = "out"

\* On Puma 5, between calls, the core runs only with its clock, and the timer
\* has the value for the speed of the processor.
ClocksAgree ==
    (chip = "puma5" /\ world = "serial" /\ Idle) =>
        /\ hw["C55"] = "out" => hw["PSC_DSPSS"] = "on"
        /\ hw["ARM"] = "half" <=> hw["TIMER"] = "10000"

\* hw_dspmod.c:92-132 and 179-206: the DSP and the clocks are moved in an order
\* that never leaves the DSP running without what it needs.
ResetOrder == CoreLast /\ ClocksAgree
=============================================================================
