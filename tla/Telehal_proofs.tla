---------------------------- MODULE Telehal_proofs ----------------------------
(***************************************************************************)
(* Proofs about Telehal, for any number of threads and channels: types,    *)
(* the open count, pointers that are never null or stale where the board   *)
(* is up, and whole transfers.                                             *)
(***************************************************************************)
EXTENDS Telehal, FiniteSetTheorems, TLAPS

\* What holds of the lock of the misc driver, and of users of an open file.
Roles ==
    /\ \A t \in Threads : pc[t] = "openCount" <=> lock = t
    /\ lock # None => count = 0
    /\ \A t \in Threads : pc[t] = "transfer" => files > 0

UseInv == TypeOK /\ OneOpen /\ Roles

\* Where nothing goes wrong around the HAL: users come when the board is up,
\* and every device that the drivers know is there.
Lawful ==
    /\ mod = "up" => api
    /\ world = "lawful" =>
         /\ files > 0 \/ (\E t \in Threads : pc[t] # "idle") => mod = "up"
         /\ \A d \in Devices : tid[d] => d \in present
         /\ (\E t \in Threads : pc[t] = "transfer") => dev \in present
         /\ ~oops

\* Where transfers do not overlap, the chipset under dev has seen what its one
\* caller has sent, and no other has seen anything.
Apart ==
    world # "racing" =>
        /\ \A t, u \in Threads : pc[t] = "transfer" /\ pc[u] = "transfer" => t = u
        /\ \A d \in Devices :
             seen[d] # None => d = dev /\ pc[seen[d].who] = "transfer"
        /\ \A t \in Threads : pc[t] = "transfer" =>
             /\ dev \in Devices /\ seen[dev] # None
             /\ seen[dev].who = t /\ seen[dev].got = op[t].i
             /\ IF op[t].cut THEN seen[dev].asked > MaxBytes
                             ELSE seen[dev].asked = op[t].len
-----------------------------------------------------------------------------
\* A thread at l with o, seen from any thread.
LEMMA MovesTo ==
    ASSUME TypeOK, NEW t \in Threads, NEW l, Goto(t, l)
    PROVE  \A u \in Threads : pc'[u] = IF u = t THEN l ELSE pc[u]
  BY DEF Goto, TypeOK

\* Steps of the module's life leave the threads where they are.
LEMMA ModuleType ==
    ASSUME TypeOK, Module
    PROVE  TypeOK'
<1> USE TelehalAssumption
<1>1. ASSUME NEW ok \in BOOLEAN, LoadRegister(ok) PROVE TypeOK'
  BY <1>1 DEF LoadRegister, TypeOK, opening, use
<1>2. ASSUME NEW ok \in BOOLEAN, LoadBoard(ok) PROVE TypeOK'
  <2>1. chipsel' \in [Tcids -> Selects \cup {0, NoDevice}]
    BY <1>2 DEF LoadBoard
  <2>2. tid' \in [Devices -> BOOLEAN]
    BY <1>2 DEF LoadBoard, TypeOK
  <2>3. mod' \in {"unloaded", "up"} /\ line' \in BOOLEAN /\ misc' \in BOOLEAN
        /\ drivers' \subseteq Devices /\ api' \in BOOLEAN /\ oops' \in BOOLEAN
    BY <1>2 DEF LoadBoard, TypeOK, IntConnect, BoardTeardown, IntDisconnect, SpiTeardown
  <2> QED BY <1>2, <2>1, <2>2, <2>3 DEF LoadBoard, TypeOK, opening, use
<1>3. ASSUME NEW ok0 \in BOOLEAN, NEW ok1 \in BOOLEAN, LoadSpi(ok0, ok1) PROVE TypeOK'
  <2>1. drivers' \subseteq Devices
    BY <1>3 DEF LoadSpi, Devices
  <2>2. tid' \in [Devices -> BOOLEAN]
    BY <1>3 DEF LoadSpi, Probed, TypeOK
  <2> QED BY <1>3, <2>1, <2>2 DEF LoadSpi, TypeOK, opening, use
<1>4. ASSUME Unload PROVE TypeOK'
  <2>1. /\ chipsel' \in [Tcids -> Selects \cup {0, NoDevice}] /\ tid' \in [Devices -> BOOLEAN]
        /\ mod' = "unloaded" /\ line' = FALSE /\ misc' = FALSE /\ drivers' = {}
    BY <1>4 DEF Unload, BoardTeardown, IntDisconnect, SpiTeardown
  <2> QED BY <1>4, <2>1 DEF Unload, TypeOK, opening, use
<1>5. ASSUME NEW d \in Devices, SpiRemove(d) PROVE TypeOK'
  BY <1>5 DEF SpiRemove, TypeOK, opening, use
<1> QED BY <1>1, <1>2, <1>3, <1>4, <1>5 DEF Module

\* Opening and closing.
LEMMA OpeningType ==
    ASSUME TypeOK, NEW t \in Threads, OpenTest(t) \/ OpenCount(t) \/ Close(t) \/ Release(t)
    PROVE  TypeOK'
<1> USE DEF board
<1>1. ASSUME NEW l \in {"idle", "openCount", "release"}, Goto(t, l), pc[t] # "transfer",
             UNCHANGED op
      PROVE  /\ pc' \in [Threads -> {"idle", "openCount", "release", "transfer"}]
             /\ DOMAIN op' = Threads
             /\ \A u \in Threads : IF pc'[u] = "transfer"
                                   THEN op'[u] \in Ops /\ op'[u].i <= op'[u].len
                                   ELSE op'[u] = None
  <2>1. pc' \in [Threads -> {"idle", "openCount", "release", "transfer"}]
    BY <1>1 DEF Goto, TypeOK
  <2>2. \A u \in Threads : pc'[u] = IF u = t THEN l ELSE pc[u]
    BY <1>1, MovesTo
  <2> QED BY <1>1, <2>1, <2>2 DEF TypeOK
<1>2. CASE OpenTest(t)
  <2>1. CASE count # 0
    BY <1>2, <2>1 DEF OpenTest, TypeOK
  <2>2. CASE count = 0
    BY <1>1, <1>2, <2>2 DEF OpenTest, TypeOK
  <2> QED BY <2>1, <2>2
<1>3. CASE OpenCount(t)
  BY <1>1, <1>3 DEF OpenCount, TypeOK
<1>4. CASE Close(t)
  BY <1>1, <1>4 DEF Close, TypeOK
<1>5. CASE Release(t)
  BY <1>1, <1>5 DEF Release, TypeOK
<1> QED BY <1>2, <1>3, <1>4, <1>5

LEMMA NoDeviceIsNone == NoDevice \notin Devices
  BY TelehalAssumption DEF Devices

\* Counting in eight bits is counting, up to the limit.
LEMMA NoWrap ==
    ASSUME NEW i \in 0 .. MaxBytes, NEW n \in 0 .. MaxBytes, i < n
    PROVE  (i + 1) % Wrap = i + 1 /\ i + 1 \in 0 .. MaxBytes /\ i + 1 <= n
<1>1. i + 1 \in 0 .. MaxBytes /\ i + 1 <= n /\ i + 1 < Wrap /\ Wrap \in Nat
  BY TelehalAssumption
<1>2. ASSUME NEW a \in Nat, NEW b \in Nat, a < b PROVE a % b = a
  BY <1>2
<1> QED BY <1>1, <1>2, TelehalAssumption

\* What is sent of a request, and what a thread that sends is.
LEMMA CutLength ==
    ASSUME NEW n \in Lens
    PROVE  /\ n \in Nat /\ Cut(n) \in BOOLEAN /\ CutTo(n) \in 0 .. MaxBytes
           /\ IF Cut(n) THEN n > MaxBytes ELSE n = CutTo(n)
  BY TelehalAssumption DEF Cut, CutTo

\* A byte of t, and what is left of it in its locals.
LEMMA SendIs ==
    ASSUME TypeOK, NEW t \in Threads, SpiRead(t) \/ SpiWrite(t)
    PROVE  /\ pc[t] = "transfer" /\ op[t] \in Ops /\ op[t].i < op[t].len
           /\ op' = [op EXCEPT ![t] = [op[t] EXCEPT !.i = op[t].i + 1]]
           /\ [op[t] EXCEPT !.i = op[t].i + 1] \in Ops
           /\ op[t].i + 1 <= op[t].len
           /\ oops' = Faults(dev) /\ SeenByte(t, dev)
           /\ UNCHANGED <<world, board, opening, chipsel, dev, pc, told>>
<1>1. /\ pc[t] = "transfer" /\ op[t].i < op[t].len
      /\ oops' = Faults(dev) /\ SeenByte(t, dev)
      /\ UNCHANGED <<world, board, opening, chipsel, dev, pc, told>>
  BY DEF SpiRead, SpiWrite, Send, Target
<1>2. op[t] \in Ops /\ DOMAIN op = Threads
  BY <1>1 DEF TypeOK
<1>3. op[t].i \in 0 .. MaxBytes /\ op[t].len \in 0 .. MaxBytes
  BY <1>2 DEF Ops
<1>4. /\ (op[t].i + 1) % Wrap = op[t].i + 1 /\ op[t].i + 1 \in 0 .. MaxBytes
      /\ op[t].i + 1 <= op[t].len
  BY <1>1, <1>3, NoWrap
<1>5. \/ op' = [op EXCEPT ![t].i = (op[t].i + 1) % Wrap]
      \/ op' = [op EXCEPT ![t].i = op[t].i + 1]
  BY DEF SpiRead, SpiWrite, Send
<1>6. op' = [op EXCEPT ![t] = [op[t] EXCEPT !.i = op[t].i + 1]]
  BY <1>4, <1>5
<1>7. [op[t] EXCEPT !.i = op[t].i + 1] \in Ops
  BY <1>2, <1>4 DEF Ops
<1> QED BY <1>1, <1>2, <1>4, <1>6, <1>7

\* The end of a transfer.
LEMMA FinishType ==
    ASSUME TypeOK, NEW t \in Threads, NEW good \in BOOLEAN, Finish(t, good),
           UNCHANGED <<world, oops, board, opening, chipsel, dev>>
    PROVE  TypeOK'
<1>1. \A u \in Threads : pc'[u] = IF u = t THEN "idle" ELSE pc[u]
  BY MovesTo DEF Finish
<1>2. pc' \in [Threads -> {"idle", "openCount", "release", "transfer"}]
  BY DEF Finish, Goto, TypeOK
<1>3. DOMAIN op' = Threads /\ \A u \in Threads : op'[u] = IF u = t THEN None ELSE op[u]
  BY DEF Finish, TypeOK
<1>4. seen' \in [Devices -> {None} \cup Sights]
  BY DEF Finish, TypeOK
<1>5. told' \in {"nothing", "success", "failure"}
  BY DEF Finish
<1> QED BY <1>1, <1>2, <1>3, <1>4, <1>5 DEF TypeOK, board, opening

LEMMA SendType ==
    ASSUME TypeOK, NEW t \in Threads, SpiRead(t) \/ SpiWrite(t)
    PROVE  TypeOK'
<1>1. /\ pc[t] = "transfer" /\ op[t] \in Ops
      /\ op' = [op EXCEPT ![t] = [op[t] EXCEPT !.i = op[t].i + 1]]
      /\ [op[t] EXCEPT !.i = op[t].i + 1] \in Ops
      /\ op[t].i + 1 <= op[t].len
      /\ oops' = Faults(dev) /\ SeenByte(t, dev)
      /\ UNCHANGED <<world, board, opening, chipsel, dev, pc, told>>
  BY SendIs
<1>2. [op[t] EXCEPT !.i = op[t].i + 1].i <= [op[t] EXCEPT !.i = op[t].i + 1].len
  BY <1>1 DEF Ops
<1>3. DOMAIN op' = Threads
      /\ \A u \in Threads : op'[u] = IF u = t THEN [op[t] EXCEPT !.i = op[t].i + 1] ELSE op[u]
  BY <1>1 DEF TypeOK
<1>4. \A u \in Threads : IF pc'[u] = "transfer"
                         THEN op'[u] \in Ops /\ op'[u].i <= op'[u].len
                         ELSE op'[u] = None
  BY <1>1, <1>2, <1>3 DEF TypeOK
<1>5. seen' \in [Devices -> {None} \cup Sights]
  <2>1. CASE dev # NoDevice /\ seen[dev] # None /\ seen[dev].who = t
    <3>1. dev \in Devices /\ seen[dev] \in Sights
      BY <2>1 DEF TypeOK
    <3>2. [seen[dev] EXCEPT !.got = seen[dev].got + 1] \in Sights
      BY <3>1 DEF Sights
    <3>3. seen' = [seen EXCEPT ![dev] = [seen[dev] EXCEPT !.got = seen[dev].got + 1]]
      BY <1>1, <2>1 DEF SeenByte
    <3> QED BY <3>2, <3>3 DEF TypeOK
  <2>2. CASE ~(dev # NoDevice /\ seen[dev] # None /\ seen[dev].who = t)
    BY <1>1, <2>2 DEF SeenByte, TypeOK
  <2> QED BY <2>1, <2>2
<1>6. oops' \in BOOLEAN
  BY <1>1 DEF Faults
<1> QED BY <1>1, <1>3, <1>4, <1>5, <1>6 DEF TypeOK, board, opening

\* The device of a channel.
LEMMA SpiDrvIs ==
    ASSUME TypeOK, NEW c \in Tcids
    PROVE  /\ SpiDrv(c) \in Devices \cup {NoDevice}
           /\ SpiDrv(c) # NoDevice => SpiDrv(c) \in Devices /\ tid[SpiDrv(c)]
  BY TelehalAssumption DEF SpiDrv

\* The first byte of a transfer.
LEMMA BeginType ==
    ASSUME TypeOK, NEW t \in Threads, NEW rw \in {"read", "write"}, NEW c \in Tcids,
           NEW n \in Lens, Begin(t, rw, c, n)
    PROVE  TypeOK'
<1>1. dev' \in Devices \cup {NoDevice} /\ UNCHANGED <<world, board, opening, chipsel>>
  BY SpiDrvIs DEF Begin
<1>2. CASE dev' = NoDevice
  BY <1>1, <1>2 DEF Begin, TypeOK, board, opening
<1>3. CASE dev' # NoDevice
  <2> DEFINE o == [rw |-> rw, tcid |-> c, len |-> CutTo(n), i |-> 0, cut |-> Cut(n)]
  <2>1. o \in Ops /\ o.i <= o.len
    BY CutLength, TelehalAssumption DEF Ops
  <2>2. op' = [op EXCEPT ![t] = o] /\ Goto(t, "transfer") /\ told' = told
    BY <1>3, Zenon DEF Begin
  <2> HIDE DEF o
  <2>3. pc' \in [Threads -> {"idle", "openCount", "release", "transfer"}]
    BY <2>2 DEF Goto, TypeOK
  <2>4. \A u \in Threads : pc'[u] = IF u = t THEN "transfer" ELSE pc[u]
    BY <2>2, MovesTo
  <2>5. DOMAIN op' = Threads /\ \A u \in Threads : op'[u] = IF u = t THEN o ELSE op[u]
    BY <2>2 DEF TypeOK
  <2>6. \A u \in Threads : IF pc'[u] = "transfer"
                           THEN op'[u] \in Ops /\ op'[u].i <= op'[u].len
                           ELSE op'[u] = None
    BY <2>1, <2>4, <2>5 DEF TypeOK
  <2>7. [who |-> t, asked |-> n, got |-> 0] \in Sights
    BY DEF Sights
  <2>8. seen' \in [Devices -> {None} \cup Sights]
    BY <1>1, <1>3, <2>7 DEF Begin, SeenRegister, TypeOK
  <2>9. oops' \in BOOLEAN
    BY <1>3 DEF Begin, Faults, TypeOK
  <2> QED BY <1>1, <2>2, <2>3, <2>5, <2>6, <2>8, <2>9 DEF TypeOK, board, opening
<1> QED BY <1>2, <1>3

\* Every call and every step of a thread.
LEMMA ThreadType ==
    ASSUME TypeOK, NEW t \in Threads, Call(t) \/ Step(t)
    PROVE  TypeOK'
<1>1. ASSUME NEW c \in Tcids \cup {None}, NEW s \in Selects, CsReg(t, c, s)
      PROVE  TypeOK'
  <2>1. chipsel' \in [Tcids -> Selects \cup {0, NoDevice}]
    BY <1>1 DEF CsReg, TypeOK
  <2> QED BY <1>1, <2>1 DEF CsReg, TypeOK, board, opening, use
<1>2. CASE BeginUncopied(t)
  BY <1>2 DEF BeginUncopied, TypeOK, board, opening
<1>3. ASSUME NEW rw \in {"read", "write"}, NEW c \in Tcids, NEW n \in Lens, Begin(t, rw, c, n)
      PROVE  TypeOK'
  BY <1>3, BeginType
<1>4. CASE SpiRead(t) \/ SpiWrite(t)
  BY <1>4, SendType
<1>5. ASSUME NEW copied \in BOOLEAN, TransferDone(t, copied)
      PROVE  TypeOK'
  <2>1. op[t].cut \in BOOLEAN
    BY <1>5 DEF TransferDone, TypeOK, Ops
  <2>2. (copied /\ ~op[t].cut) \in BOOLEAN
    BY <2>1
  <2> QED BY <1>5, <2>2, FinishType DEF TransferDone
<1>6. CASE TransferError(t)
  BY <1>6, FinishType DEF TransferError
<1>7. CASE OpenTest(t) \/ OpenCount(t) \/ Close(t) \/ Release(t)
  BY <1>7, OpeningType
<1> QED BY <1>1, <1>2, <1>3, <1>4, <1>5, <1>6, <1>7 DEF Call, Step

LEMMA TypeNext == TypeOK /\ [Next]_vars => TypeOK'
<1> SUFFICES ASSUME TypeOK, [Next]_vars PROVE TypeOK'
  OBVIOUS
<1>1. CASE Module
  BY <1>1, ModuleType
<1>2. ASSUME NEW t \in Threads, Call(t) \/ Step(t) PROVE TypeOK'
  BY <1>2, ThreadType
<1>3. CASE UNCHANGED vars
  BY <1>3 DEF vars, TypeOK, board, opening, use
<1> QED BY <1>1, <1>2, <1>3 DEF Next

LEMMA TypeInit == Init => TypeOK
<1> SUFFICES ASSUME Init PROVE TypeOK
  OBVIOUS
<1>1. /\ chipsel \in [Tcids -> Selects \cup {0, NoDevice}] /\ tid \in [Devices -> BOOLEAN]
      /\ pc \in [Threads -> {"idle", "openCount", "release", "transfer"}]
      /\ seen \in [Devices -> {None} \cup Sights]
      /\ DOMAIN op = Threads /\ \A t \in Threads : op[t] = None /\ pc[t] = "idle"
  BY DEF Init
<1> HIDE DEF Init
<1>2. /\ world \in Worlds /\ oops = FALSE
      /\ mod = "unloaded" /\ misc = FALSE /\ api = FALSE /\ line = FALSE
      /\ drivers = {} /\ present \in SUBSET Devices
      /\ count = 0 /\ files = 0 /\ lock = None /\ dev = NoDevice /\ told = "nothing"
  BY DEF Init
<1> QED BY <1>1, <1>2 DEF TypeOK

\* Every variable has its type, and a transfer under way has sent no more than
\* its length, which is no more than the limit (tiuhal_mod.c:161-163, 191-193).
THEOREM TypeCorrect == Spec => []TypeOK
  BY TypeInit, TypeNext, PTL DEF Spec
-----------------------------------------------------------------------------
\* The threads in device_release, and what a step of t to l does to their
\* number.
Releasing == {t \in Threads : pc[t] = "release"}

LEMMA ReleasingMoves ==
    ASSUME TypeOK, NEW t \in Threads, NEW l, Goto(t, l)
    PROVE  /\ Cardinality(Releasing) \in Nat /\ Cardinality(Releasing') \in Nat
           /\ pc[t] = "release" /\ l # "release" =>
                Cardinality(Releasing') = Cardinality(Releasing) - 1
           /\ pc[t] # "release" /\ l = "release" =>
                Cardinality(Releasing') = Cardinality(Releasing) + 1
           /\ pc[t] # "release" /\ l # "release" =>
                Cardinality(Releasing') = Cardinality(Releasing)
<1>1. /\ IsFiniteSet(Releasing) /\ Cardinality(Releasing) \in Nat
  BY FS_Subset, FS_CardinalityType, TelehalAssumption DEF Releasing
<1>2. \A u \in Threads : pc'[u] = IF u = t THEN l ELSE pc[u]
  BY MovesTo
<1>3. CASE pc[t] = "release" /\ l # "release"
  <2>1. Releasing' = Releasing \ {t} /\ t \in Releasing
    BY <1>2, <1>3 DEF Releasing
  <2>2. Cardinality(Releasing') = Cardinality(Releasing) - 1 /\ IsFiniteSet(Releasing')
    BY <1>1, <2>1, FS_RemoveElement
  <2> QED BY <1>1, <1>3, <2>2, FS_CardinalityType
<1>4. CASE pc[t] # "release" /\ l = "release"
  <2>1. Releasing' = Releasing \cup {t} /\ t \notin Releasing
    BY <1>2, <1>4 DEF Releasing
  <2>2. Cardinality(Releasing') = Cardinality(Releasing) + 1
    BY <1>1, <2>1, FS_AddElement
  <2> QED BY <1>1, <1>4, <2>2
<1>5. CASE (pc[t] = "release") <=> (l = "release")
  <2>1. Releasing' = Releasing
    BY <1>2, <1>5 DEF Releasing
  <2> QED BY <1>1, <1>5, <2>1
<1> QED BY <1>3, <1>4, <1>5

\* Steps that have nothing to do with open and release.
LEMMA KeepsOpen ==
    ASSUME TypeOK, OneOpen, Roles, UNCHANGED opening,
           \A u \in Threads : pc'[u] \in {"openCount", "release"} \/ pc[u] \in {"openCount", "release"}
                                => pc'[u] = pc[u],
           \A u \in Threads : pc'[u] = "transfer" => pc[u] = "transfer" \/ files > 0
    PROVE  OneOpen' /\ Roles'
<1>1. Releasing' = Releasing
  BY DEF Releasing
<1>2. \A u \in Threads : pc'[u] = "openCount" <=> pc[u] = "openCount"
  OBVIOUS
<1>3. OneOpen'
  BY <1>1, <1>2 DEF OneOpen, opening, Releasing
<1>4. Roles'
  BY <1>2 DEF Roles, opening
<1> QED BY <1>3, <1>4

\* Threads that are in none of them.
LEMMA ThreadOpen ==
    ASSUME UseInv, NEW t \in Threads, NEW l \in {"idle", "transfer"}, Goto(t, l),
           pc[t] \in {"idle", "transfer"}, UNCHANGED opening,
           l = "transfer" => files > 0
    PROVE  OneOpen' /\ Roles'
<1>1. \A u \in Threads : pc'[u] = IF u = t THEN l ELSE pc[u]
  BY MovesTo DEF UseInv
<1> QED BY <1>1, KeepsOpen DEF UseInv

\* OneOpen written with Releasing.
LEMMA OpenIs ==
    ASSUME TypeOK, Roles
    PROVE  OneOpen <=> files <= 1 /\ count = files + Cardinality(Releasing)
<1>1. (\A t \in Threads : pc[t] # "openCount") <=> lock = None
  BY TelehalAssumption DEF TypeOK, Roles
<1> QED BY <1>1 DEF OneOpen, Releasing

LEMMA OpenIsNext ==
    ASSUME TypeOK', Roles'
    PROVE  OneOpen' <=> files' <= 1 /\ count' = files' + Cardinality(Releasing')
<1>1. (\A t \in Threads : pc'[t] # "openCount") <=> lock' = None
  BY TelehalAssumption DEF TypeOK, Roles
<1> QED BY <1>1 DEF OneOpen, Releasing

\* Opening and closing.
LEMMA OpeningOpen ==
    ASSUME UseInv, NEW t \in Threads, OpenTest(t) \/ OpenCount(t) \/ Close(t) \/ Release(t)
    PROVE  UseInv'
<1>1. TypeOK' /\ TypeOK
  BY OpeningType DEF UseInv
<1>2. /\ count \in Nat /\ files \in Nat /\ Cardinality(Releasing) \in Nat
      /\ files <= 1 /\ count = files + Cardinality(Releasing)
  BY <1>1, OpenIs, FS_Subset, FS_CardinalityType, TelehalAssumption
  DEF UseInv, TypeOK, Releasing
<1>3. CASE OpenTest(t) /\ count # 0
  <2>1. UNCHANGED <<pc, opening>>
    BY <1>3 DEF OpenTest, opening
  <2> QED BY <1>1, <2>1, KeepsOpen DEF UseInv
<1>4. CASE OpenTest(t) /\ count = 0
  <2>1. /\ Goto(t, "openCount") /\ lock' = t /\ lock = None /\ pc[t] = "idle"
        /\ UNCHANGED <<count, files>>
    BY <1>4 DEF OpenTest
  <2>2. \A u \in Threads : pc'[u] = IF u = t THEN "openCount" ELSE pc[u]
    BY <1>1, <2>1, MovesTo
  <2>3. Roles'
    BY <1>4, <2>1, <2>2, TelehalAssumption DEF UseInv, Roles
  <2>4. Cardinality(Releasing') = Cardinality(Releasing)
    BY <1>1, <2>1, ReleasingMoves
  <2> QED BY <1>1, <1>2, <2>1, <2>3, <2>4, OpenIsNext DEF UseInv
<1>5. CASE OpenCount(t)
  <2>1. /\ Goto(t, "idle") /\ pc[t] = "openCount" /\ lock' = None
        /\ count' = count + 1 /\ files' = files + 1
    BY <1>5 DEF OpenCount
  <2>2. \A u \in Threads : pc'[u] = IF u = t THEN "idle" ELSE pc[u]
    BY <1>1, <2>1, MovesTo
  <2>3. lock = t /\ count = 0
    BY <2>1, TelehalAssumption DEF UseInv, Roles
  <2>4. Roles'
    BY <1>2, <2>1, <2>2, <2>3, TelehalAssumption DEF UseInv, Roles
  <2>5. Cardinality(Releasing') = Cardinality(Releasing)
    BY <1>1, <2>1, ReleasingMoves
  <2>6. files' <= 1 /\ count' = files' + Cardinality(Releasing')
    BY <1>2, <2>1, <2>3, <2>5
  <2> QED BY <1>1, <2>4, <2>6, OpenIsNext DEF UseInv
<1>6. CASE Close(t)
  <2>1. /\ Goto(t, "release") /\ pc[t] = "idle" /\ UNCHANGED <<count, lock>>
        /\ files' = files - 1 /\ \A u \in Threads : pc[u] # "transfer"
    BY <1>6 DEF Close
  <2>2. \A u \in Threads : pc'[u] = IF u = t THEN "release" ELSE pc[u]
    BY <1>1, <2>1, MovesTo
  <2>3. Roles'
    BY <2>1, <2>2 DEF UseInv, Roles
  <2>4. Cardinality(Releasing') = Cardinality(Releasing) + 1
    BY <1>1, <2>1, ReleasingMoves
  <2>5. files' <= 1 /\ count' = files' + Cardinality(Releasing')
    BY <1>2, <2>1, <2>4
  <2> QED BY <1>1, <2>3, <2>5, OpenIsNext DEF UseInv
<1>7. CASE Release(t)
  <2>1. /\ Goto(t, "idle") /\ pc[t] = "release" /\ UNCHANGED <<files, lock>>
        /\ count' = IF count # 0 THEN count - 1 ELSE count
    BY <1>7 DEF Release
  <2>2. \A u \in Threads : pc'[u] = IF u = t THEN "idle" ELSE pc[u]
    BY <1>1, <2>1, MovesTo
  <2>3. Cardinality(Releasing') = Cardinality(Releasing) - 1 /\ Cardinality(Releasing') \in Nat
    BY <1>1, <2>1, ReleasingMoves
  <2>4. count > 0
    BY <1>2, <2>3
  <2>5. Roles'
    BY <1>2, <2>1, <2>2, <2>4 DEF UseInv, Roles
  <2>6. files' <= 1 /\ count' = files' + Cardinality(Releasing')
    BY <1>2, <2>1, <2>3, <2>4
  <2> QED BY <1>1, <2>5, <2>6, OpenIsNext DEF UseInv
<1> QED BY <1>3, <1>4, <1>5, <1>6, <1>7

LEMMA UseNext == UseInv /\ [Next]_vars => UseInv'
<1> SUFFICES ASSUME UseInv, [Next]_vars PROVE UseInv'
  OBVIOUS
<1>1. TypeOK /\ TypeOK'
  BY TypeNext DEF UseInv
<1>2. ASSUME UNCHANGED <<opening, pc>> PROVE UseInv'
  BY <1>1, <1>2, KeepsOpen DEF UseInv
<1>3. CASE Module \/ UNCHANGED vars
  BY <1>2, <1>3 DEF Module, LoadRegister, LoadBoard, LoadSpi, Unload, SpiRemove, use, vars
<1>4. ASSUME NEW t \in Threads, Call(t) \/ Step(t) PROVE UseInv'
  <2>1. ASSUME NEW c \in Tcids \cup {None}, NEW s \in Selects, CsReg(t, c, s)
        PROVE  UseInv'
    BY <1>2, <2>1 DEF CsReg, use
  <2>2. CASE BeginUncopied(t) \/ SpiRead(t) \/ SpiWrite(t)
    BY <1>2, <2>2 DEF BeginUncopied, SpiRead, SpiWrite, Send
  <2>3. ASSUME NEW rw \in {"read", "write"}, NEW c \in Tcids, NEW n \in Lens, Begin(t, rw, c, n)
        PROVE  UseInv'
    <3>1. UNCHANGED opening /\ pc[t] = "idle" /\ files > 0
      BY <2>3 DEF Begin
    <3>2. CASE dev' = NoDevice
      BY <1>2, <2>3, <3>1, <3>2 DEF Begin
    <3>3. CASE dev' # NoDevice
      <4>1. Goto(t, "transfer")
        BY <2>3, <3>3 DEF Begin
      <4> QED BY <1>1, <3>1, <4>1, ThreadOpen DEF UseInv
    <3> QED BY <3>2, <3>3
  <2>4. ASSUME NEW copied \in BOOLEAN, TransferDone(t, copied) \/ TransferError(t)
        PROVE  UseInv'
    <3>1. UNCHANGED opening /\ pc[t] = "transfer" /\ Goto(t, "idle")
      BY <2>4 DEF TransferDone, TransferError, Finish
    <3> QED BY <1>1, <3>1, ThreadOpen DEF UseInv
  <2>5. CASE OpenTest(t) \/ OpenCount(t) \/ Close(t) \/ Release(t)
    BY <2>5, OpeningOpen
  <2> QED BY <1>4, <2>1, <2>2, <2>3, <2>4, <2>5 DEF Call, Step
<1> QED BY <1>3, <1>4 DEF Next

LEMMA UseInit == Init => UseInv
<1> SUFFICES ASSUME Init PROVE UseInv
  OBVIOUS
<1>1. TypeOK
  BY TypeInit
<1>2. /\ files = 0 /\ count = 0 /\ lock = None
      /\ \A t \in Threads : pc[t] = "idle"
  BY DEF Init
<1>3. Roles
  BY <1>2, TelehalAssumption DEF Roles
<1>4. Releasing = {}
  BY <1>2 DEF Releasing
<1>5. Cardinality(Releasing) = 0
  BY <1>4, FS_EmptySet
<1> QED BY <1>1, <1>2, <1>3, <1>5, OpenIs DEF UseInv

THEOREM UseCorrect == Spec => []UseInv
  BY UseInit, UseNext, PTL DEF Spec

\* At most one file is open, and the open count says whether one is, for as
\* long as no thread is on its way out (tiuhal_mod.c:86-119).
THEOREM OneOpenCorrect == Spec => []OneOpen
<1>1. UseInv => OneOpen
  BY DEF UseInv
<1> QED BY <1>1, UseCorrect, PTL
-----------------------------------------------------------------------------
\* A thread that begins a transfer.
LEMMA Begins ==
    ASSUME UseInv, NEW t \in Threads, NEW rw \in {"read", "write"}, NEW c \in Tcids,
           NEW n \in Lens, Begin(t, rw, c, n), dev' # NoDevice
    PROVE  /\ dev' \in Devices /\ tid[dev']
           /\ pc[t] = "idle" /\ files > 0 /\ (world # "racing" => Idle)
           /\ \A u \in Threads : pc'[u] = IF u = t THEN "transfer" ELSE pc[u]
           /\ op'[t] = [rw |-> rw, tcid |-> c, len |-> CutTo(n), i |-> 0, cut |-> Cut(n)]
           /\ seen' = [seen EXCEPT ![dev'] = [who |-> t, asked |-> n, got |-> 0]]
           /\ oops' = (~api \/ Faults(dev'))
           /\ UNCHANGED <<world, board, opening, chipsel, told>>
<1>1. dev' = SpiDrv(c) /\ TypeOK
  BY DEF Begin, UseInv
<1>2. dev' \in Devices /\ tid[dev']
  BY <1>1, SpiDrvIs
<1>3. /\ pc[t] = "idle" /\ files > 0 /\ (world # "racing" => Idle)
      /\ Goto(t, "transfer") /\ oops' = (~api \/ Faults(dev'))
      /\ SeenRegister(t, dev', n)
      /\ UNCHANGED <<world, board, opening, chipsel, told>>
  BY DEF Begin
<1>4. op' = [op EXCEPT ![t] =
               [rw |-> rw, tcid |-> c, len |-> CutTo(n), i |-> 0, cut |-> Cut(n)]]
  BY DEF Begin
<1>5. op'[t] = [rw |-> rw, tcid |-> c, len |-> CutTo(n), i |-> 0, cut |-> Cut(n)]
  BY <1>1, <1>4 DEF TypeOK
<1>6. \A u \in Threads : pc'[u] = IF u = t THEN "transfer" ELSE pc[u]
  BY <1>1, <1>3, MovesTo
<1> QED BY <1>2, <1>3, <1>5, <1>6 DEF SeenRegister

LEMMA LawfulModule ==
    ASSUME UseInv, Lawful, Module
    PROVE  Lawful'
<1> USE DEF UseInv, opening, use
<1>1. ASSUME NEW ok \in BOOLEAN, LoadRegister(ok) PROVE Lawful'
  <2>1. /\ mod # "up" /\ mod' # "up"
        /\ UNCHANGED <<world, api, present, tid, files, pc, dev>>
    BY <1>1 DEF LoadRegister
  <2>2. world = "lawful" => oops' = FALSE
    <3>1. CASE ok
      BY <1>1, <3>1 DEF LoadRegister
    <3>2. CASE ~ok
      BY <1>1, <3>2 DEF LoadRegister, Works
    <3> QED BY <3>1, <3>2
  <2> QED BY <2>1, <2>2 DEF Lawful
<1>2. ASSUME NEW ok \in BOOLEAN, LoadBoard(ok) PROVE Lawful'
  BY <1>2 DEF LoadBoard, IntConnect, BoardTeardown, Lawful, Works
<1>3. ASSUME NEW ok0 \in BOOLEAN, NEW ok1 \in BOOLEAN, LoadSpi(ok0, ok1) PROVE Lawful'
  BY <1>3 DEF LoadSpi, Lawful, Works, Probed
<1>4. CASE Unload
  BY <1>4 DEF Unload, BoardTeardown, Lawful, Idle, TypeOK
<1>5. ASSUME NEW d \in Devices, SpiRemove(d) PROVE Lawful'
  BY <1>5 DEF SpiRemove, Lawful
<1> QED BY <1>1, <1>2, <1>3, <1>4, <1>5 DEF Module

LEMMA LawfulThread ==
    ASSUME UseInv, Lawful, ~oops, NEW t \in Threads, Call(t) \/ Step(t)
    PROVE  Lawful'
<1> USE DEF board, opening, use
<1>1. ASSUME NEW c \in Tcids \cup {None}, NEW s \in Selects, CsReg(t, c, s)
      PROVE  Lawful'
  BY <1>1 DEF CsReg, Lawful
<1>2. CASE BeginUncopied(t)
  BY <1>2 DEF BeginUncopied, Lawful
<1>3. ASSUME NEW rw \in {"read", "write"}, NEW c \in Tcids, NEW n \in Lens, Begin(t, rw, c, n)
      PROVE  Lawful'
  <2>1. CASE dev' = NoDevice
    <3>1. /\ UNCHANGED <<world, board, opening, pc>> /\ oops' = ~api /\ files > 0
          /\ world # "racing" => Idle
      BY <1>3, <2>1 DEF Begin
    <3> QED BY <3>1 DEF Lawful, Idle
  <2>2. CASE dev' # NoDevice
    <3>1. /\ dev' \in Devices /\ tid[dev'] /\ files > 0 /\ oops' = (~api \/ Faults(dev'))
          /\ UNCHANGED <<world, board, opening>> /\ dev' # NoDevice
      BY <1>3, <2>2, Begins
    <3> QED BY <3>1 DEF Lawful, Faults
  <2> QED BY <2>1, <2>2
<1>4. CASE SpiRead(t) \/ SpiWrite(t)
  <2>1. /\ pc[t] = "transfer" /\ oops' = Faults(dev)
        /\ UNCHANGED <<world, board, opening, chipsel, dev, pc, told>>
    BY <1>4, SendIs DEF UseInv
  <2>2. present \subseteq Devices
    BY DEF UseInv, TypeOK
  <2> QED BY <2>1, <2>2, NoDeviceIsNone DEF Lawful, Faults
<1>5. ASSUME NEW copied \in BOOLEAN, TransferDone(t, copied) \/ TransferError(t)
      PROVE  Lawful'
  <2>1. /\ pc[t] = "transfer" /\ Goto(t, "idle")
        /\ UNCHANGED <<world, oops, board, opening, chipsel, dev>>
    BY <1>5 DEF TransferDone, TransferError, Finish
  <2>2. \A u \in Threads : pc'[u] = IF u = t THEN "idle" ELSE pc[u]
    BY <2>1, MovesTo DEF UseInv
  <2> QED BY <2>1, <2>2 DEF Lawful
<1>6. CASE OpenTest(t)
  <2>1. /\ world = "lawful" => mod = "up"
        /\ UNCHANGED <<world, oops, board, chipsel, dev, files>>
        /\ pc[t] = "idle" /\ (UNCHANGED pc \/ Goto(t, "openCount"))
    BY <1>6 DEF OpenTest, Usable
  <2>2. \A u \in Threads : pc'[u] = "transfer" => pc[u] = "transfer"
    BY <2>1, MovesTo DEF UseInv
  <2> QED BY <2>1, <2>2 DEF Lawful
<1>7. CASE OpenCount(t) \/ Close(t) \/ Release(t)
  <2>1. /\ pc[t] # "idle" \/ files > 0
        /\ UNCHANGED <<world, oops, board, chipsel, dev>>
        /\ Goto(t, "idle") \/ Goto(t, "release")
    BY <1>7 DEF OpenCount, Close, Release
  <2>2. \A u \in Threads : pc'[u] = "transfer" => pc[u] = "transfer"
    BY <2>1, MovesTo DEF UseInv
  <2>3. world = "lawful" => mod = "up"
    BY <2>1 DEF Lawful
  <2> QED BY <2>1, <2>2, <2>3 DEF Lawful
<1> QED BY <1>1, <1>2, <1>3, <1>4, <1>5, <1>6, <1>7 DEF Call, Step

\* In a lawful world nothing goes through a pointer that is null or stale: a
\* user comes only when the board is up, and keeps it up (tiuhal_mod.c:274-283,
\* tiuhal.c:326-348).
THEOREM NoOopsCorrect == Spec => []NoOops
<1>1. Init => Lawful
  BY DEF Init, Lawful
<1>2. UseInv /\ Lawful /\ [Next]_vars => Lawful'
  <2>1. CASE Next
    BY <2>1, LawfulModule, LawfulThread DEF Next
  <2>2. CASE UNCHANGED vars
    BY <2>2 DEF vars, board, opening, use, Lawful
  <2> QED BY <2>1, <2>2
<1>3. Lawful => NoOops
  BY DEF Lawful, NoOops
<1> QED BY <1>1, <1>2, <1>3, UseCorrect, PTL DEF Spec
-----------------------------------------------------------------------------
\* No transfer is under way, and no chipset has seen a part of one.
LEMMA NothingSeen ==
    ASSUME UseInv, Apart, world # "racing", Idle
    PROVE  \A d \in Devices : seen[d] = None
<1>1. \A d \in Devices : seen[d] # None => seen[d].who \in Threads
  BY DEF UseInv, TypeOK, Sights
<1> QED BY <1>1 DEF Apart, Idle

\* What the byte that t sends does to what chipsets have seen.
LEMMA Sends ==
    ASSUME UseInv, Apart, world # "racing", NEW t \in Threads, SpiRead(t) \/ SpiWrite(t)
    PROVE  /\ dev \in Devices /\ seen[dev] # None /\ seen[dev] \in Sights
           /\ seen' = [seen EXCEPT ![dev] = [seen[dev] EXCEPT !.got = seen[dev].got + 1]]
           /\ seen'[dev] = [seen[dev] EXCEPT !.got = seen[dev].got + 1]
           /\ seen'[dev].who = seen[dev].who /\ seen'[dev].asked = seen[dev].asked
           /\ seen'[dev].got = seen[dev].got + 1 /\ seen'[dev] # None
           /\ \A d \in Devices : d # dev => seen'[d] = seen[d]
           /\ seen[dev].got < seen[dev].asked
<1>1. pc[t] = "transfer" /\ op[t] \in Ops /\ op[t].i < op[t].len /\ SeenByte(t, dev)
  BY SendIs DEF UseInv
<1>2. /\ dev \in Devices /\ seen[dev] # None /\ seen[dev].who = t
      /\ seen[dev].got = op[t].i
      /\ IF op[t].cut THEN seen[dev].asked > MaxBytes ELSE seen[dev].asked = op[t].len
  BY <1>1 DEF Apart
<1>3. seen[dev] \in Sights
  BY <1>2 DEF UseInv, TypeOK
<1>4. dev # NoDevice
  BY <1>2, NoDeviceIsNone
<1>5. seen' = [seen EXCEPT ![dev] = [seen[dev] EXCEPT !.got = seen[dev].got + 1]]
  BY <1>1, <1>2, <1>4 DEF SeenByte
<1>6. DOMAIN seen = Devices
  BY DEF UseInv, TypeOK
<1>7. /\ seen'[dev] = [seen[dev] EXCEPT !.got = seen[dev].got + 1]
      /\ \A d \in Devices : d # dev => seen'[d] = seen[d]
  BY <1>2, <1>5, <1>6
<1>8. /\ seen'[dev].who = seen[dev].who /\ seen'[dev].asked = seen[dev].asked
      /\ seen'[dev].got = seen[dev].got + 1 /\ seen'[dev] \in Sights
  BY <1>3, <1>7 DEF Sights
<1>9. seen[dev].got < seen[dev].asked
  <2>1. op[t].len <= MaxBytes /\ op[t].len \in Nat /\ op[t].i \in Nat /\ seen[dev].asked \in Nat
    BY <1>1, <1>3, TelehalAssumption DEF Ops, Sights
  <2> QED BY <1>1, <1>2, <2>1, TelehalAssumption
<1> QED BY <1>2, <1>3, <1>5, <1>7, <1>8, <1>9, TelehalAssumption

\* What the end of the transfer of t does to it.
LEMMA Finishes ==
    ASSUME UseInv, Apart, world # "racing", NEW t \in Threads, pc[t] = "transfer",
           NEW good, Finish(t, good)
    PROVE  /\ dev \in Devices /\ seen[dev] # None
           /\ seen' = [seen EXCEPT ![dev] = None]
           /\ \A d \in Devices : seen'[d] = None
           /\ \A u \in Threads : pc'[u] # "transfer"
<1>1. /\ dev \in Devices /\ seen[dev] # None /\ seen[dev].who = t
  BY DEF Apart
<1>2. \A d \in Devices : seen[d] # None => d = dev
  BY DEF Apart
<1>3. seen' = [d \in Devices |->
                 IF seen[d] # None /\ seen[d].who = t THEN None ELSE seen[d]]
  BY DEF Finish
<1>4. seen \in [Devices -> {None} \cup Sights]
  BY DEF UseInv, TypeOK
<1>5. \A d \in Devices : seen'[d] = None
  BY <1>1, <1>2, <1>3
<1>6. seen' = [seen EXCEPT ![dev] = None]
  BY <1>1, <1>2, <1>3, <1>4
<1>7. \A u \in Threads : pc'[u] = IF u = t THEN "idle" ELSE pc[u]
  BY MovesTo DEF Finish, UseInv
<1>8. \A u \in Threads : pc'[u] # "transfer"
  BY <1>7 DEF Apart
<1> QED BY <1>1, <1>5, <1>6, <1>8

LEMMA ApartNext == UseInv /\ Apart /\ [Next]_vars => Apart'
<1> SUFFICES ASSUME UseInv, Apart, [Next]_vars, world # "racing", world' = world
             PROVE  Apart'
  BY ZenonT(60) DEF Next, Module, Call, Step, LoadRegister, LoadBoard, LoadSpi, Unload, SpiRemove,
         OpenTest, OpenCount, Close, Release, CsReg, Begin, BeginUncopied, SpiRead,
         SpiWrite, Send, TransferDone, TransferError, vars, Apart
<1>1. ASSUME UNCHANGED <<dev, op, seen>>,
             \A u \in Threads : pc'[u] = "transfer" <=> pc[u] = "transfer"
      PROVE  Apart'
  <2>1. \A d \in Devices : seen[d] # None => seen[d].who \in Threads
    BY DEF UseInv, TypeOK, Sights
  <2> QED BY <1>1, <2>1 DEF Apart
<1>2. ASSUME \A d \in Devices : seen'[d] = None, \A u \in Threads : pc'[u] # "transfer"
      PROVE  Apart'
  BY <1>2 DEF Apart
<1>3. CASE Unload
  <2>1. Idle /\ UNCHANGED <<pc, seen>>
    BY <1>3 DEF Unload, use
  <2>2. \A d \in Devices : seen[d] = None
    BY <2>1, NothingSeen
  <2> QED BY <1>2, <2>1, <2>2 DEF Idle
<1>4. CASE Module /\ ~Unload
  <2>1. UNCHANGED <<dev, op, seen, pc>>
    BY <1>4 DEF Module, LoadRegister, LoadBoard, LoadSpi, SpiRemove, use
  <2> QED BY <1>1, <2>1
<1>5. ASSUME NEW t \in Threads, NEW c \in Tcids \cup {None}, NEW s \in Selects, CsReg(t, c, s)
      PROVE  Apart'
  BY <1>1, <1>5 DEF CsReg, use
<1>6. ASSUME NEW t \in Threads, BeginUncopied(t) PROVE Apart'
  BY <1>1, <1>6 DEF BeginUncopied
<1>7. ASSUME NEW t \in Threads, NEW rw \in {"read", "write"}, NEW c \in Tcids, NEW n \in Lens,
             Begin(t, rw, c, n)
      PROVE  Apart'
  <2>1. Idle
    BY <1>7 DEF Begin
  <2>2. \A d \in Devices : seen[d] = None
    BY <2>1, NothingSeen
  <2>3. CASE dev' = NoDevice
    <3>1. UNCHANGED <<pc, seen>>
      BY <1>7, <2>3 DEF Begin
    <3> QED BY <1>2, <2>1, <2>2, <3>1 DEF Idle
  <2>4. CASE dev' # NoDevice
    <3> DEFINE o == [rw |-> rw, tcid |-> c, len |-> CutTo(n), i |-> 0, cut |-> Cut(n)]
               w == [who |-> t, asked |-> n, got |-> 0]
    <3>1. /\ dev' \in Devices /\ op'[t] = o
          /\ \A u \in Threads : pc'[u] = IF u = t THEN "transfer" ELSE pc[u]
          /\ seen' = [seen EXCEPT ![dev'] = w]
      <4>1. dev' \in Devices /\ op'[t] = o
        BY <1>7, <2>4, Begins
      <4>2. \A u \in Threads : pc'[u] = IF u = t THEN "transfer" ELSE pc[u]
        BY <1>7, <2>4, Begins
      <4>3. seen' = [seen EXCEPT ![dev'] = w]
        BY <1>7, <2>4 DEF Begin, SeenRegister
      <4> QED BY <4>1, <4>2, <4>3
    <3>2. o.i = 0 /\ o.cut = Cut(n) /\ o.len = CutTo(n)
      OBVIOUS
    <3>3. w \in Sights /\ w.who = t /\ w.asked = n /\ w.got = 0 /\ w # None
      BY TelehalAssumption DEF Sights
    <3>4. IF o.cut THEN w.asked > MaxBytes ELSE w.asked = o.len
      BY <3>2, <3>3, CutLength
    <3> HIDE DEF o, w
    <3>5. /\ seen'[dev'] = w
          /\ \A d \in Devices : d # dev' => seen'[d] = None
      BY <2>2, <3>1 DEF UseInv, TypeOK
    <3>6. \A u \in Threads : pc'[u] = "transfer" <=> u = t
      BY <2>1, <3>1 DEF Idle
    <3> QED BY <3>1, <3>2, <3>3, <3>4, <3>5, <3>6 DEF Apart
  <2> QED BY <2>3, <2>4
<1>8. ASSUME NEW t \in Threads, SpiRead(t) \/ SpiWrite(t) PROVE Apart'
  <2>1. /\ pc[t] = "transfer" /\ op[t] \in Ops /\ UNCHANGED <<dev, pc>>
        /\ op' = [op EXCEPT ![t] = [op[t] EXCEPT !.i = op[t].i + 1]]
    BY <1>8, SendIs DEF UseInv
  <2>2. op'[t] = [op[t] EXCEPT !.i = op[t].i + 1]
    BY <2>1 DEF UseInv, TypeOK
  <2>3. op'[t].i = op[t].i + 1 /\ op'[t].cut = op[t].cut /\ op'[t].len = op[t].len
    BY <2>1, <2>2 DEF Ops
  <2>4. /\ dev \in Devices /\ seen[dev] # None
        /\ seen'[dev].who = seen[dev].who /\ seen'[dev].asked = seen[dev].asked
        /\ seen'[dev].got = seen[dev].got + 1 /\ seen'[dev] # None
        /\ \A d \in Devices : d # dev => seen'[d] = seen[d]
    BY <1>8, Sends
  <2>5. \A u \in Threads : pc[u] = "transfer" => u = t
    BY <2>1 DEF Apart
  <2> QED BY <2>1, <2>3, <2>4, <2>5 DEF Apart
<1>9. ASSUME NEW t \in Threads, NEW copied \in BOOLEAN, TransferDone(t, copied) \/ TransferError(t)
      PROVE  Apart'
  <2>1. pc[t] = "transfer" /\ \E good : Finish(t, good)
    BY <1>9 DEF TransferDone, TransferError
  <2> QED BY <1>2, <2>1, Finishes
<1>10. ASSUME NEW t \in Threads, OpenTest(t) \/ OpenCount(t) \/ Close(t) \/ Release(t)
       PROVE  Apart'
  <2>1. /\ UNCHANGED <<dev, op, seen>> /\ pc[t] # "transfer"
        /\ UNCHANGED pc \/ Goto(t, "openCount") \/ Goto(t, "idle") \/ Goto(t, "release")
    BY <1>10 DEF OpenTest, OpenCount, Close, Release
  <2>2. \A u \in Threads : pc'[u] = "transfer" <=> pc[u] = "transfer"
    BY <2>1, MovesTo DEF UseInv
  <2> QED BY <1>1, <2>1, <2>2
<1>11. CASE UNCHANGED vars
  BY <1>1, <1>11 DEF vars, use
<1> QED BY <1>3, <1>4, <1>5, <1>6, <1>7, <1>8, <1>9, <1>10, <1>11 DEF Next, Call, Step
-----------------------------------------------------------------------------
\* Steps that chipsets and callers do not notice.
LEMMA Unnoticed ==
    ASSUME [Next]_vars
    PROVE  /\ world' = world
           /\ Module \/ UNCHANGED vars => UNCHANGED <<seen, told>>
<1>1. CASE Module
  BY <1>1 DEF Module, LoadRegister, LoadBoard, LoadSpi, Unload, SpiRemove, use
<1>2. ASSUME NEW t \in Threads, Call(t) \/ Step(t) PROVE world' = world
  BY <1>2 DEF Call, Step, OpenTest, OpenCount, Close, Release, CsReg, Begin, BeginUncopied,
              SpiRead, SpiWrite, Send, TransferDone, TransferError
<1>3. CASE UNCHANGED vars
  BY <1>3 DEF vars, use
<1> QED BY <1>1, <1>2, <1>3 DEF Next

LEMMA TransferSteps ==
    ASSUME UseInv, Apart, [Next]_vars
    PROVE  [Transfers!Next]_(Transfers!vars)
<1>1. world' = world
  BY Unnoticed
<1>2. CASE world = "racing"
  BY <1>1, <1>2 DEF Transfers!Next, Transfers!Overlap
<1>3. CASE world # "racing"
  <2> USE <1>3
  <2>1. ASSUME UNCHANGED <<seen, told>> PROVE [Transfers!Next]_(Transfers!vars)
    BY <1>1, <2>1 DEF Transfers!vars
  <2>2. CASE Module \/ UNCHANGED vars
    BY <2>1, <2>2, Unnoticed
  <2>3. ASSUME NEW t \in Threads,
               OpenTest(t) \/ OpenCount(t) \/ Close(t) \/ Release(t)
               \/ \E c \in Tcids \cup {None}, s \in Selects : CsReg(t, c, s)
        PROVE  [Transfers!Next]_(Transfers!vars)
    BY <2>1, <2>3 DEF OpenTest, OpenCount, Close, Release, CsReg, use
  <2>4. ASSUME NEW t \in Threads, BeginUncopied(t)
        PROVE  [Transfers!Next]_(Transfers!vars)
    BY <1>1, <2>4 DEF BeginUncopied, Transfers!Next, Transfers!Refuse
  <2>5. ASSUME NEW t \in Threads, NEW rw \in {"read", "write"}, NEW c \in Tcids, NEW n \in Lens,
               Begin(t, rw, c, n)
        PROVE  [Transfers!Next]_(Transfers!vars)
    <3>1. CASE dev' = NoDevice
      BY <1>1, <2>5, <3>1 DEF Begin, Transfers!Next, Transfers!Refuse
    <3>2. CASE dev' # NoDevice
      <4>1. dev' \in Devices /\ Idle /\ told' = told
        BY <2>5, <3>2, Begins
      <4>2. seen[dev'] = None
        BY <4>1, NothingSeen
      <4>3. seen' = [seen EXCEPT ![dev'] = [who |-> t, asked |-> n, got |-> 0]]
        BY <2>5, <3>2 DEF Begin, SeenRegister
      <4>4. Transfers!Begin(t, dev', n)
        BY <1>1, <4>1, <4>2, <4>3 DEF Transfers!Begin
      <4> QED BY <4>1, <4>4 DEF Transfers!Next
    <3> QED BY <3>1, <3>2
  <2>6. ASSUME NEW t \in Threads, SpiRead(t) \/ SpiWrite(t)
        PROVE  [Transfers!Next]_(Transfers!vars)
    <3>1. /\ dev \in Devices /\ seen[dev] # None /\ seen[dev].got < seen[dev].asked
          /\ seen' = [seen EXCEPT ![dev] = [seen[dev] EXCEPT !.got = seen[dev].got + 1]]
      BY <2>6, Sends
    <3>2. told' = told
      BY <2>6, SendIs DEF UseInv
    <3>3. Transfers!Byte(dev)
      BY <1>1, <3>1, <3>2 DEF Transfers!Byte
    <3> QED BY <3>1, <3>3 DEF Transfers!Next
  <2>7. ASSUME NEW t \in Threads, NEW good \in BOOLEAN, pc[t] = "transfer", Finish(t, good),
               good => op[t].i >= op[t].len /\ ~op[t].cut
        PROVE  [Transfers!Next]_(Transfers!vars)
    <3>1. /\ dev \in Devices /\ seen[dev] # None
          /\ seen' = [seen EXCEPT ![dev] = None]
      BY <2>7, Finishes
    <3>2. good => seen[dev].got = seen[dev].asked
      <4>1. /\ seen[dev].got = op[t].i
            /\ ~op[t].cut => seen[dev].asked = op[t].len
        BY <2>7 DEF Apart
      <4>2. op[t].i \in Nat /\ op[t].len \in Nat /\ op[t].i <= op[t].len
        BY <2>7, TelehalAssumption DEF UseInv, TypeOK, Ops
      <4> QED BY <2>7, <4>1, <4>2
    <3>3. told' = IF good THEN "success" ELSE "failure"
      BY <2>7 DEF Finish
    <3>4. Transfers!End(dev, good)
      BY <1>1, <3>1, <3>2, <3>3 DEF Transfers!End
    <3> QED BY <3>1, <3>4 DEF Transfers!Next
  <2>8. ASSUME NEW t \in Threads, NEW copied \in BOOLEAN, TransferDone(t, copied)
        PROVE  [Transfers!Next]_(Transfers!vars)
    <3>1. /\ pc[t] = "transfer" /\ op[t].i >= op[t].len
          /\ Finish(t, copied /\ ~op[t].cut)
      BY <2>8 DEF TransferDone
    <3>2. op[t].cut \in BOOLEAN
      BY <3>1 DEF UseInv, TypeOK, Ops
    <3>3. (copied /\ ~op[t].cut) \in BOOLEAN
      BY <3>2
    <3> QED BY <2>7, <3>1, <3>3
  <2>9. ASSUME NEW t \in Threads, TransferError(t)
        PROVE  [Transfers!Next]_(Transfers!vars)
    BY <2>7, <2>9 DEF TransferError
  <2> QED BY <2>2, <2>3, <2>4, <2>5, <2>6, <2>8, <2>9 DEF Next, Call, Step
<1> QED BY <1>2, <1>3

\* Chipsets see whole transfers one after the other, and a caller is told of
\* success only for those, unless transfers overlap (tiuhal.c:322-407,
\* tiuhal.h:184-185, 224-225).
THEOREM TransfersAreWhole == Spec => TransfersWhole
<1>1. Init => Transfers!Init /\ Apart
  <2>1. Init => Transfers!Init
    BY DEF Init, Transfers!Init
  <2>2. Init => Apart
    BY DEF Init, Apart
  <2> QED BY <2>1, <2>2
<1>2. UseInv /\ Apart /\ [Next]_vars => Apart' /\ [Transfers!Next]_(Transfers!vars)
  BY ApartNext, TransferSteps
<1> QED BY <1>1, <1>2, UseCorrect, PTL DEF Spec, TransfersWhole, Transfers!Spec
=============================================================================
