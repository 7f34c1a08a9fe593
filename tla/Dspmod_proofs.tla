---------------------------- MODULE Dspmod_proofs ----------------------------
(***************************************************************************)
(* Proofs about Dspmod, for any number of threads: types, the agreement of *)
(* open count, files and references, and the order of resets.              *)
(***************************************************************************)
EXTENDS Dspmod, FiniteSetTheorems, TLAPS

\* What each thread does where it is: the lock is held only in open, and only
\* over a closed device; ioctls are made through an open file; the module is
\* loaded and unloaded by one thread, while nobody uses it.
Roles ==
    /\ \A t \in Threads : pc[t] = "open" <=> lock = t
    /\ lock # None => count = 0
    /\ \A t \in Threads : pc[t] = "ioctl" => files > 0
    /\ \A t \in Threads : pc[t] \in {"load", "unload"} =>
         ~loaded /\ \A u \in Threads : pc[u] \in {"load", "unload"} => u = t

\* Where ioctls do not overlap, at most one is under way.
OneCall ==
    world # "interleaved" =>
        \A t, u \in Threads : pc[t] = "ioctl" /\ pc[u] = "ioctl" => t = u

UseInv == TypeOK /\ OneUser /\ Roles /\ OneCall

\* Writes that are made only right after another, and writes that are followed
\* by one more and by no other.
Before ==
    IF chip = "puma6"
    THEN { << <<"C55", "in">>, <<"PROXY", "in">> >>,
           << <<"PROXY", "in">>, <<"INC", "in">> >>,
           << <<"INC", "out">>, <<"PROXY", "out">> >>,
           << <<"PROXY", "out">>, <<"C55", "out">> >> }
    ELSE { << <<"PSC_DSPSS", "on">>, <<"C55", "out">> >>,
           << <<"ARM", "half">>, <<"TIMER", "10000">> >>,
           << <<"ARM", "full">>, <<"TIMER", "5000">> >> }
After ==
    IF chip = "puma6" THEN {}
    ELSE { << <<"PSC_DSPSS", "off">>, <<"C55", "in">> >>,
           << <<"ARM", "half">>, <<"TIMER", "10000">> >>,
           << <<"ARM", "full">>, <<"TIMER", "5000">> >> }

\* The writes s, from registers h on, keep to the first; and to the second.
Led(h, s) ==
    \A i \in 1 .. Len(s) : \A p \in Before :
        s[i] = p[2] => IF i = 1 THEN h[p[1][1]] = p[1][2] ELSE s[i - 1] = p[1]
Followed(s) ==
    \A i \in 1 .. Len(s) : \A p \in After :
        s[i] = p[1] => i + 1 = Len(s) /\ s[i + 1] = p[2]

\* Where the order matters.
Orderly == world = "serial" \/ (world = "failing" /\ chip = "puma6")

\* Between two writes that belong together the second is all that is left.
Half(bad, w) == bad => \E t \in Threads : todo[t] = <<w>>
Halves ==
    (chip = "puma5" /\ world = "serial") =>
        /\ Half(hw["C55"] = "out" /\ hw["PSC_DSPSS"] = "off", <<"C55", "in">>)
        /\ Half(hw["ARM"] = "half" /\ hw["TIMER"] = "5000", <<"TIMER", "10000">>)
        /\ Half(hw["ARM"] = "full" /\ hw["TIMER"] = "10000", <<"TIMER", "5000">>)

OrderInv ==
    /\ Orderly => \A t \in Threads : Led(hw, todo[t]) /\ Followed(todo[t])
    /\ CoreLast
    /\ Halves
-----------------------------------------------------------------------------
\* The values of registers, and the writes the routines are made of.
LEMMA ValueIn ==
    ASSUME NEW r \in Regs, NEW v \in Values(r)
    PROVE  v \in AllValues /\ <<r, v>> \in Writes
<1>1. v \in AllValues
  BY Zenon DEF AllValues
<1>2. <<r, v>> \in Regs \X AllValues /\ <<r, v>>[1] = r /\ <<r, v>>[2] = v
  BY <1>1
<1> QED BY <1>1, <1>2 DEF Writes

LEMMA EachWrite ==
    /\ \A r \in Lines : <<r, "in">> \in Writes /\ <<r, "out">> \in Writes
    /\ \A r \in Domains : <<r, "on">> \in Writes /\ <<r, "off">> \in Writes
    /\ <<"ARM", "full">> \in Writes /\ <<"ARM", "half">> \in Writes
    /\ <<"TIMER", "5000">> \in Writes /\ <<"TIMER", "10000">> \in Writes
    /\ <<"NMI", "on">> \in Writes /\ <<"NMI", "off">> \in Writes
    /\ <<"BASE", "query">> \in Writes
<1>1. \A r \in Lines : r \in Regs /\ Values(r) = {"in", "out"}
  BY DEF Regs, Values, Lines, Domains
<1>2. \A r \in Domains : r \in Regs /\ Values(r) = {"on", "off"}
  BY DEF Regs, Values, Lines, Domains
<1>3. /\ {"ARM", "TIMER", "NMI", "BASE"} \subseteq Regs
      /\ Values("ARM") = {"full", "half"} /\ Values("TIMER") = {"5000", "10000"}
      /\ Values("NMI") = {"on", "off"} /\ Values("BASE") = {"boot", "query"}
  BY DEF Regs, Values, Lines, Domains
<1>4. \A r \in Lines : <<r, "in">> \in Writes /\ <<r, "out">> \in Writes
  BY <1>1, ValueIn
<1>5. \A r \in Domains : <<r, "on">> \in Writes /\ <<r, "off">> \in Writes
  BY <1>2, ValueIn
<1>6. /\ <<"ARM", "full">> \in Writes /\ <<"ARM", "half">> \in Writes
      /\ <<"TIMER", "5000">> \in Writes /\ <<"TIMER", "10000">> \in Writes
      /\ <<"NMI", "on">> \in Writes /\ <<"NMI", "off">> \in Writes
      /\ <<"BASE", "query">> \in Writes
  BY <1>3, ValueIn
<1> QED BY <1>4, <1>5, <1>6

\* The sequences of the routines are sequences of writes.
LEMMA Seqs ==
    ASSUME NEW S, NEW a \in S, NEW b \in S, NEW c \in S, NEW d \in S
    PROVE  /\ <<>> \in Seq(S) /\ <<a>> \in Seq(S) /\ <<a, b>> \in Seq(S)
           /\ <<a, b, c>> \in Seq(S) /\ <<a, b, c, d>> \in Seq(S)
  OBVIOUS

LEMMA DspResetWrites ==
    ASSUME chip \in {"puma5", "puma6"}, NEW status \in BOOLEAN
    PROVE  DspReset(status) \in Seq(Writes)
<1> USE EachWrite, Seqs DEF DspReset, Lines, Domains
<1>1. CASE chip = "puma6" /\ status
  BY <1>1
<1>2. CASE chip = "puma6" /\ ~status
  BY <1>2
<1>3. CASE chip = "puma5" /\ status
  BY <1>3
<1>4. CASE chip = "puma5" /\ ~status
  BY <1>4
<1> QED BY <1>1, <1>2, <1>3, <1>4

LEMMA SmallWrites ==
    ASSUME chip \in {"puma5", "puma6"}, NEW status \in BOOLEAN
    PROVE  /\ DspNmi(status) \in Seq(Writes)
           /\ DspPower(status) \in Seq(Writes)
           /\ ResetTdm(status) \in Seq(Writes)
<1>1. DspNmi(status) \in Seq(Writes)
  BY EachWrite, Seqs DEF DspNmi
<1>2. DspPower(status) \in Seq(Writes)
  <2>1. CASE chip = "puma6"
    BY <2>1, EachWrite, Seqs DEF DspPower
  <2>2. CASE chip = "puma5" /\ status
    BY <2>2, EachWrite, Seqs DEF DspPower
  <2>3. CASE chip = "puma5" /\ ~status
    BY <2>3, EachWrite, Seqs DEF DspPower
  <2> QED BY <2>1, <2>2, <2>3
<1>3. ResetTdm(status) \in Seq(Writes)
  <2>1. CASE chip = "puma6"
    BY <2>1, EachWrite, Seqs DEF ResetTdm
  <2>2. CASE chip = "puma5"
    BY <2>2, EachWrite, Seqs DEF ResetTdm, Domains
  <2> QED BY <2>1, <2>2
<1> QED BY <1>1, <1>2, <1>3

\* What the query of the address writes, written out for Puma 6.
LEMMA QueryIs ==
    ASSUME NEW ok \in BOOLEAN, chip = "puma6"
    PROVE  QueryAddr(ok) = IF ok THEN << <<"BASE", "query">> >> ELSE <<>>
<1>1. ASSUME NEW a PROVE <<a>> \o <<>> = <<a>>
  OBVIOUS
<1>2. << <<"BASE", "query">> >> \o <<>> = << <<"BASE", "query">> >>
  BY <1>1
<1>3. ResetTdm(FALSE) = <<>>
  BY DEF ResetTdm
<1>4. CASE ok
  BY <1>2, <1>3, <1>4, Zenon DEF QueryAddr
<1>5. CASE ~ok
  BY <1>5 DEF QueryAddr
<1> QED BY <1>4, <1>5

LEMMA QueryWrites ==
    ASSUME chip \in {"puma5", "puma6"}, NEW ok \in BOOLEAN
    PROVE  QueryAddr(ok) \in Seq(Writes)
<1>1. /\ <<"C55", "in">> \in Writes /\ <<"PROXY", "out">> \in Writes
      /\ <<"BASE", "query">> \in Writes
  BY EachWrite DEF Lines
<1>2. CASE chip = "puma6"
  BY <1>1, <1>2, QueryIs, Seqs
<1>3. CASE chip = "puma5" /\ ok
  BY <1>1, <1>3, Seqs DEF QueryAddr
<1>4. CASE chip = "puma5" /\ ~ok
  BY <1>1, <1>4, Seqs DEF QueryAddr
<1> QED BY <1>2, <1>3, <1>4

LEMMA ShutdownWrites ==
    ASSUME chip \in {"puma5", "puma6"}
    PROVE  Shutdown \in Seq(Writes)
<1>1. CASE chip = "puma6"
  BY <1>1, EachWrite, Seqs DEF Shutdown, Lines
<1>2. CASE chip = "puma5"
  BY <1>2, EachWrite, Seqs DEF Shutdown, Lines
<1> QED BY <1>1, <1>2

LEMMA RoutineWrites ==
    ASSUME chip \in {"puma5", "puma6"}, NEW r \in Routines
    PROVE  r \in Seq(Writes)
<1>1. CASE r = DspHalt
  BY <1>1, DspResetWrites DEF DspHalt
<1>2. CASE \E ok \in BOOLEAN : r = QueryAddr(ok)
  BY <1>2, QueryWrites
<1>3. CASE \E status \in BOOLEAN :
             r \in {DspReset(status), DspNmi(status), DspPower(status), ResetTdm(status)}
  BY <1>3, DspResetWrites, SmallWrites
<1> QED BY <1>1, <1>2, <1>3 DEF Routines
-----------------------------------------------------------------------------
\* A step of one thread adds that thread to a set, takes it out, or neither.
LEMMA OneMoves ==
    ASSUME NEW S \in SUBSET Threads, NEW t \in Threads, NEW T, NEW joins \in BOOLEAN,
           T = (S \ {t}) \cup (IF joins THEN {t} ELSE {})
    PROVE  /\ Cardinality(S) \in Nat /\ Cardinality(T) \in Nat
           /\ t \in S /\ joins => Cardinality(T) = Cardinality(S)
           /\ t \in S /\ ~joins => Cardinality(T) = Cardinality(S) - 1
           /\ t \notin S /\ joins => Cardinality(T) = Cardinality(S) + 1
           /\ t \notin S /\ ~joins => Cardinality(T) = Cardinality(S)
<1>1. IsFiniteSet(S) /\ Cardinality(S) \in Nat
  BY FS_Subset, FS_CardinalityType, DspmodAssumption
<1>2. CASE t \in S /\ joins
  <2>1. T = S
    BY <1>2
  <2> QED BY <1>1, <1>2, <2>1
<1>3. CASE t \in S /\ ~joins
  <2>1. T = S \ {t}
    BY <1>3
  <2>2. IsFiniteSet(T) /\ Cardinality(T) = Cardinality(S) - 1
    BY <1>1, <1>3, <2>1, FS_RemoveElement
  <2>3. Cardinality(T) \in Nat
    BY <2>2, FS_CardinalityType
  <2> QED BY <1>1, <1>3, <2>2, <2>3
<1>4. CASE t \notin S /\ joins
  <2>1. T = S \cup {t}
    BY <1>4
  <2>2. Cardinality(T) = Cardinality(S) + 1
    BY <1>1, <1>4, <2>1, FS_AddElement
  <2> QED BY <1>1, <1>4, <2>2
<1>5. CASE t \notin S /\ ~joins
  <2>1. T = S
    BY <1>5
  <2> QED BY <1>1, <1>5, <2>1
<1> QED BY <1>2, <1>3, <1>4, <1>5

\* What a step of t to l does to the sets of OneUser.
LEMMA PcMoves ==
    ASSUME TypeOK, NEW t \in Threads, NEW l, Goto(t, l)
    PROVE  /\ Cardinality(Releasing) \in Nat /\ Cardinality(Holding) \in Nat
           /\ Cardinality(Dropping) \in Nat
           /\ Cardinality(Releasing') =
                Cardinality(Releasing) - (IF pc[t] = "release" THEN 1 ELSE 0)
                                       + (IF l = "release" THEN 1 ELSE 0)
           /\ Cardinality(Holding') =
                Cardinality(Holding) - (IF pc[t] \in {"open", "drop", "put"} THEN 1 ELSE 0)
                                     + (IF l \in {"open", "drop", "put"} THEN 1 ELSE 0)
           /\ Cardinality(Dropping') =
                Cardinality(Dropping) - (IF pc[t] = "drop" THEN 1 ELSE 0)
                                      + (IF l = "drop" THEN 1 ELSE 0)
           /\ pc[t] = "release" => Cardinality(Releasing) > 0
           /\ pc[t] \in {"open", "drop", "put"} => Cardinality(Holding) > 0
<1> DEFINE R == l = "release"
           H == l \in {"open", "drop", "put"}
           D == l = "drop"
<1>1. /\ Releasing \in SUBSET Threads /\ Holding \in SUBSET Threads
      /\ Dropping \in SUBSET Threads
      /\ t \in Releasing <=> pc[t] = "release"
      /\ t \in Dropping <=> pc[t] = "drop"
      /\ t \in Holding <=> pc[t] \in {"open", "drop", "put"}
  BY DEF Releasing, Holding, Dropping
<1>2. pc' = [pc EXCEPT ![t] = l] /\ DOMAIN pc = Threads
  BY DEF Goto, TypeOK
<1>3. \A u \in Threads : pc'[u] = IF u = t THEN l ELSE pc[u]
  BY <1>2
<1>4. Releasing' = (Releasing \ {t}) \cup (IF R THEN {t} ELSE {})
  BY <1>3 DEF Releasing
<1>5. Holding' = (Holding \ {t}) \cup (IF H THEN {t} ELSE {})
  BY <1>3 DEF Holding
<1>11. Dropping' = (Dropping \ {t}) \cup (IF D THEN {t} ELSE {})
  BY <1>3 DEF Dropping
<1>6. R \in BOOLEAN /\ H \in BOOLEAN /\ D \in BOOLEAN
  OBVIOUS
<1>7. /\ Cardinality(Releasing) \in Nat /\ Cardinality(Releasing') \in Nat
      /\ t \in Releasing /\ R => Cardinality(Releasing') = Cardinality(Releasing)
      /\ t \in Releasing /\ ~R => Cardinality(Releasing') = Cardinality(Releasing) - 1
      /\ t \notin Releasing /\ R => Cardinality(Releasing') = Cardinality(Releasing) + 1
      /\ t \notin Releasing /\ ~R => Cardinality(Releasing') = Cardinality(Releasing)
  <2> HIDE DEF R, H, D
  <2> QED BY <1>1, <1>4, <1>6, OneMoves, ZenonT(60)
<1>8. /\ Cardinality(Holding) \in Nat /\ Cardinality(Holding') \in Nat
      /\ t \in Holding /\ H => Cardinality(Holding') = Cardinality(Holding)
      /\ t \in Holding /\ ~H => Cardinality(Holding') = Cardinality(Holding) - 1
      /\ t \notin Holding /\ H => Cardinality(Holding') = Cardinality(Holding) + 1
      /\ t \notin Holding /\ ~H => Cardinality(Holding') = Cardinality(Holding)
  <2> HIDE DEF R, H, D
  <2> QED BY <1>1, <1>5, <1>6, OneMoves, ZenonT(60)
<1>12. /\ Cardinality(Dropping) \in Nat /\ Cardinality(Dropping') \in Nat
       /\ t \in Dropping /\ D => Cardinality(Dropping') = Cardinality(Dropping)
       /\ t \in Dropping /\ ~D => Cardinality(Dropping') = Cardinality(Dropping) - 1
       /\ t \notin Dropping /\ D => Cardinality(Dropping') = Cardinality(Dropping) + 1
       /\ t \notin Dropping /\ ~D => Cardinality(Dropping') = Cardinality(Dropping)
  <2> HIDE DEF R, H, D
  <2> QED BY <1>1, <1>11, <1>6, OneMoves, ZenonT(60)
<1>9. t \in Releasing => Cardinality(Releasing) > 0
  <2>1. IsFiniteSet(Releasing)
    BY <1>1, FS_Subset, DspmodAssumption
  <2> QED BY <1>7, <2>1, FS_EmptySet
<1>10. t \in Holding => Cardinality(Holding) > 0
  <2>1. IsFiniteSet(Holding)
    BY <1>1, FS_Subset, DspmodAssumption
  <2> QED BY <1>8, <2>1, FS_EmptySet
<1> QED BY <1>1, <1>7, <1>8, <1>9, <1>10, <1>12
-----------------------------------------------------------------------------
\* A closed module has no users.
LEMMA Unused ==
    ASSUME UseInv, refs = 0
    PROVE  /\ count = 0 /\ files = 0
           /\ \A t \in Threads : pc[t] \notin {"open", "drop", "put", "release", "ioctl"}
<1>1. /\ IsFiniteSet(Releasing) /\ IsFiniteSet(Holding) /\ IsFiniteSet(Dropping)
      /\ Cardinality(Releasing) \in Nat /\ Cardinality(Holding) \in Nat
      /\ Cardinality(Dropping) \in Nat
  BY FS_Subset, FS_CardinalityType, DspmodAssumption DEF Releasing, Holding, Dropping
<1>2. count = 0 /\ files = 0 /\ Cardinality(Releasing) = 0 /\ Cardinality(Holding) = 0
  <2>1. /\ count \in Nat /\ files \in Nat
        /\ count = files + Cardinality(Releasing)
        /\ refs = 2 * count + Cardinality(Holding) + Cardinality(Dropping)
    BY DEF UseInv, OneUser, TypeOK
  <2>2. ASSUME NEW c \in Nat, NEW b \in Nat, NEW x \in Nat, 0 = 2 * c + b + x
        PROVE  c = 0 /\ b = 0
    BY <2>2
  <2>6. 0 = 2 * count + Cardinality(Holding) + Cardinality(Dropping)
    BY <2>1
  <2>3. count = 0 /\ Cardinality(Holding) = 0
    BY <1>1, <2>1, <2>2, <2>6
  <2>4. ASSUME NEW f \in Nat, NEW a \in Nat, 0 = f + a
        PROVE  f = 0 /\ a = 0
    BY <2>4
  <2>5. files = 0 /\ Cardinality(Releasing) = 0
    BY <1>1, <2>1, <2>3, <2>4
  <2> QED BY <2>3, <2>5
<1>3. Releasing = {} /\ Holding = {}
  BY <1>1, <1>2, FS_EmptySet
<1>4. \A t \in Threads : pc[t] \notin {"open", "drop", "put", "release"}
  BY <1>3 DEF Releasing, Holding
<1> QED BY <1>2, <1>4 DEF UseInv, Roles

LEMMA InitUse == Init => UseInv
<1> SUFFICES ASSUME Init PROVE UseInv
  OBVIOUS
<1>1. PICK s \in {"in", "out"} :
         hw = [r \in Regs |->
                 CASE r \in Lines -> s
                   [] r \in Domains -> "on"
                   [] r = "ARM" -> "full"
                   [] r = "TIMER" -> "5000"
                   [] r = "NMI" -> "off"
                   [] r = "BASE" -> "boot"]
  BY DEF Init
<1>2. \A r \in Regs : hw[r] \in Values(r)
  BY <1>1 DEF Values, Regs, Lines, Domains
<1>3. hw \in [Regs -> AllValues]
  <2>1. \A r \in Regs : hw[r] \in AllValues
    BY <1>2, ValueIn
  <2> DEFINE v(r) == CASE r \in Lines -> s
                      [] r \in Domains -> "on"
                      [] r = "ARM" -> "full"
                      [] r = "TIMER" -> "5000"
                      [] r = "NMI" -> "off"
                      [] r = "BASE" -> "boot"
  <2>2. hw = [r \in Regs |-> v(r)]
    BY <1>1, Zenon
  <2> HIDE DEF v
  <2> QED BY <2>1, <2>2
<1>4. Releasing = {} /\ Holding = {} /\ Dropping = {}
  BY DEF Init, Releasing, Holding, Dropping
<1>5. Cardinality(Releasing) = 0 /\ Cardinality(Holding) = 0 /\ Cardinality(Dropping) = 0
  BY <1>4, FS_EmptySet
<1>6. TypeOK
  <2>1. todo \in [Threads -> Seq(Writes)] /\ \A t \in Threads : todo[t] = <<>>
    BY DEF Init
  <2>2. pc \in [Threads -> {"idle", "load", "unload", "ioctl",
                           "open", "release", "drop", "put"}]
    BY DEF Init
  <2>3. /\ chip \in {"puma5", "puma6"} /\ world \in Worlds
        /\ loaded \in BOOLEAN /\ lock \in Threads \cup {None}
        /\ refs \in Nat /\ count \in Nat /\ files \in Nat
    BY DEF Init
  <2> QED BY <1>2, <1>3, <2>1, <2>2, <2>3 DEF TypeOK
<1>7. OneUser
  BY <1>5 DEF Init, OneUser
<1>8. Roles
  BY DspmodAssumption DEF Init, Roles
<1>9. OneCall
  BY DEF Init, OneCall
<1> QED BY <1>6, <1>7, <1>8, <1>9 DEF UseInv

\* A write changes a register and shortens a routine, nothing else.
LEMMA WriteUse ==
    ASSUME UseInv, NEW t \in Threads, NEW ok \in BOOLEAN, Write(t, ok)
    PROVE  UseInv'
<1> USE DEF Write, opening
<1>1. todo[t] \in Seq(Writes) /\ todo[t] # <<>>
  BY DEF UseInv, TypeOK
<1> DEFINE w == Head(todo[t])
<1>2. w \in Writes /\ Tail(todo[t]) \in Seq(Writes)
  BY <1>1
<1>3. w[1] \in Regs /\ w[2] \in Values(w[1]) /\ w[2] \in AllValues
  BY <1>2 DEF Writes
<1>4. hw' \in [Regs -> AllValues] /\ \A r \in Regs : hw'[r] \in Values(r)
  <2> HIDE DEF w
  <2>1. hw' = [hw EXCEPT ![w[1]] = w[2]] \/ hw' = hw
    BY DEF w
  <2> QED BY <1>3, <2>1 DEF UseInv, TypeOK
<1>5. /\ todo' \in [Threads -> Seq(Writes)]
      /\ \A u \in Threads : u # t => todo'[u] = todo[u]
  BY <1>2 DEF UseInv, TypeOK
<1>6. pc[t] \in {"load", "unload", "ioctl"}
  BY <1>1 DEF UseInv, TypeOK
<1>7. TypeOK'
  BY <1>4, <1>5, <1>6 DEF UseInv, TypeOK
<1>8. OneUser'
  BY DEF UseInv, OneUser, Releasing, Holding, Dropping
<1>9. Roles' /\ OneCall'
  BY DEF UseInv, Roles, OneCall
<1> QED BY <1>7, <1>8, <1>9 DEF UseInv

\* A thread that goes to l, where it has s to write: types.
LEMMA GoType ==
    ASSUME TypeOK, NEW t \in Threads, NEW l, Goto(t, l), NEW s \in Seq(Writes),
           l \in {"idle", "load", "unload", "ioctl", "open", "release", "drop", "put"},
           l \notin {"load", "unload", "ioctl"} => s = <<>>,
           todo' = [todo EXCEPT ![t] = s], UNCHANGED <<chip, world, hw>>,
           loaded' \in BOOLEAN, refs' \in Nat, count' \in Nat, files' \in Nat,
           lock' \in Threads \cup {None}
    PROVE  TypeOK'
<1>1. pc' \in [Threads -> {"idle", "load", "unload", "ioctl",
                           "open", "release", "drop", "put"}]
  BY DEF Goto, TypeOK
<1>2. todo' \in [Threads -> Seq(Writes)]
  BY DEF TypeOK
<1>3. \A u \in Threads : /\ pc'[u] = IF u = t THEN l ELSE pc[u]
                         /\ todo'[u] = IF u = t THEN s ELSE todo[u]
  BY DEF Goto, TypeOK
<1>4. \A u \in Threads : pc'[u] \notin {"load", "unload", "ioctl"} => todo'[u] = <<>>
  BY <1>3 DEF TypeOK
<1> QED BY <1>1, <1>2, <1>4 DEF TypeOK

\* A thread that goes elsewhere with nothing to write.
LEMMA GoEmpty ==
    ASSUME TypeOK, NEW t \in Threads, todo[t] = <<>>
    PROVE  todo = [todo EXCEPT ![t] = <<>>] /\ <<>> \in Seq(Writes)
  BY DEF TypeOK
-----------------------------------------------------------------------------
\* What a step of t to l does to pc, and what OneUser says in the sets' sizes.
LEMMA GoPc ==
    ASSUME TypeOK, NEW t \in Threads, NEW l, Goto(t, l)
    PROVE  \A u \in Threads : pc'[u] = IF u = t THEN l ELSE pc[u]
  BY DEF Goto, TypeOK

\* Steps that leave count, files, references and lock alone, and that neither
\* begin nor end in open and release.
LEMMA GoCounts ==
    ASSUME UseInv, NEW t \in Threads, NEW l, Goto(t, l), UNCHANGED opening,
           pc[t] \notin {"open", "release", "drop", "put"}, l \notin {"open", "release", "drop", "put"},
           refs > 0 => loaded'
    PROVE  OneUser'
<1>1. Releasing' = Releasing
  BY GoPc DEF UseInv, Releasing
<1>2. Holding' = Holding /\ Dropping' = Dropping
  BY GoPc DEF UseInv, Holding, Dropping
<1> QED BY <1>1, <1>2 DEF UseInv, OneUser, opening

LEMMA LoadUse ==
    ASSUME UseInv, NEW t \in Threads, Load(t)
    PROVE  UseInv'
<1> USE DEF Load, opening
<1>1. TypeOK'
  <2>1. HwuDspInit \in Seq(Writes)
    BY DspResetWrites DEF HwuDspInit, UseInv, TypeOK
  <2>2. TypeOK
    BY DEF UseInv
  <2>3. loaded' \in BOOLEAN /\ refs' \in Nat /\ count' \in Nat /\ files' \in Nat /\ lock' \in Threads \cup {None}
    BY <2>2 DEF TypeOK
  <2> QED BY <2>1, <2>2, <2>3, GoType
<1>2. OneUser'
  BY GoCounts DEF UseInv, OneUser, Idle
<1>3. Roles' /\ OneCall'
  BY GoPc DEF UseInv, Roles, OneCall, Idle
<1> QED BY <1>1, <1>2, <1>3 DEF UseInv

LEMMA LoadRegisterUse ==
    ASSUME UseInv, NEW t \in Threads, NEW ok \in BOOLEAN, LoadRegister(t, ok)
    PROVE  UseInv'
<1> USE DEF LoadRegister
<1>1. refs = 0 /\ count = 0 /\ files = 0
  <2>1. ~loaded
    BY DEF UseInv, Roles
  <2>2. refs = 0
    BY <2>1 DEF UseInv, OneUser, TypeOK
  <2> QED BY <2>2, Unused
<1>2. TypeOK'
  <2>1. TypeOK
    BY DEF UseInv
  <2>2. todo' = [todo EXCEPT ![t] = <<>>] /\ <<>> \in Seq(Writes)
    BY <2>1, GoEmpty
  <2>3. loaded' \in BOOLEAN /\ refs' \in Nat /\ count' \in Nat /\ files' \in Nat /\ lock' \in Threads \cup {None}
    BY <2>1 DEF TypeOK
  <2> QED BY <2>1, <2>2, <2>3, GoType
<1>3. OneUser'
  <2>1. UNCHANGED opening /\ ~(refs > 0)
    BY <1>1 DEF opening
  <2> QED BY <2>1, GoCounts
<1>4. Roles' /\ OneCall'
  BY <1>1, GoPc DEF UseInv, Roles, OneCall
<1> QED BY <1>2, <1>3, <1>4 DEF UseInv

LEMMA UnloadUse ==
    ASSUME UseInv, NEW t \in Threads, Unload(t)
    PROVE  UseInv'
<1> USE DEF Unload, opening
<1>1. TypeOK'
  <2>1. Shutdown \in Seq(Writes)
    BY ShutdownWrites DEF UseInv, TypeOK
  <2>2. TypeOK
    BY DEF UseInv
  <2>3. loaded' \in BOOLEAN /\ refs' \in Nat /\ count' \in Nat /\ files' \in Nat /\ lock' \in Threads \cup {None}
    BY <2>2 DEF TypeOK
  <2> QED BY <2>1, <2>2, <2>3, GoType
<1>2. OneUser'
  <2>1. ~(refs > 0)
    OBVIOUS
  <2> QED BY <2>1, GoCounts
<1>3. \A u \in Threads : pc[u] \notin {"load", "unload", "ioctl"}
  BY Unused DEF UseInv, Roles
<1>4. Roles' /\ OneCall'
  BY <1>3, GoPc DEF UseInv, Roles, OneCall
<1> QED BY <1>1, <1>2, <1>4 DEF UseInv

LEMMA DoneUse ==
    ASSUME UseInv, NEW t \in Threads, UnloadDone(t) \/ IoctlDone(t)
    PROVE  UseInv'
<1> USE DEF UnloadDone, IoctlDone, opening
<1>1. TypeOK'
  <2>1. TypeOK
    BY DEF UseInv
  <2>2. todo' = [todo EXCEPT ![t] = <<>>] /\ <<>> \in Seq(Writes)
    BY <2>1, GoEmpty
  <2>3. loaded' \in BOOLEAN /\ refs' \in Nat /\ count' \in Nat /\ files' \in Nat /\ lock' \in Threads \cup {None}
    BY <2>1 DEF TypeOK
  <2> QED BY <2>1, <2>2, <2>3, GoType
<1>2. OneUser'
  BY GoCounts DEF UseInv, OneUser
<1>3. Roles' /\ OneCall'
  BY GoPc DEF UseInv, Roles, OneCall
<1> QED BY <1>1, <1>2, <1>3 DEF UseInv

LEMMA IoctlUse ==
    ASSUME UseInv, NEW t \in Threads, NEW r \in Routines, Ioctl(t, r)
    PROVE  UseInv'
<1> USE DEF Ioctl, opening
<1>1. TypeOK'
  <2>1. r \in Seq(Writes)
    BY RoutineWrites DEF UseInv, TypeOK
  <2>2. TypeOK
    BY DEF UseInv
  <2>3. loaded' \in BOOLEAN /\ refs' \in Nat /\ count' \in Nat /\ files' \in Nat /\ lock' \in Threads \cup {None}
    BY <2>2 DEF TypeOK
  <2> QED BY <2>1, <2>2, <2>3, GoType
<1>2. OneUser'
  BY GoCounts DEF UseInv, OneUser
<1>3. Roles' /\ OneCall'
  BY GoPc DEF UseInv, Roles, OneCall
<1> QED BY <1>1, <1>2, <1>3 DEF UseInv
-----------------------------------------------------------------------------
\* OneUser as a sum of numbers, and the sum after a step of t to l.
LEMMA GoSum ==
    ASSUME UseInv, NEW t \in Threads, NEW l, Goto(t, l),
           NEW p \in {0, 1}, p = (IF pc[t] = "release" THEN 1 ELSE 0),
           NEW q \in {0, 1}, q = (IF pc[t] \in {"open", "drop", "put"} THEN 1 ELSE 0),
           NEW m \in {0, 1}, m = (IF l = "release" THEN 1 ELSE 0),
           NEW n \in {0, 1}, n = (IF l \in {"open", "drop", "put"} THEN 1 ELSE 0),
           NEW x \in {0, 1}, x = (IF pc[t] = "drop" THEN 1 ELSE 0),
           NEW y \in {0, 1}, y = (IF l = "drop" THEN 1 ELSE 0),
           count' + p + files = count + m + files',
           refs' + 2 * count + q + x = refs + 2 * count' + n + y,
           count' \in Nat, refs' \in Nat, files' \in Nat, files' <= 1,
           refs' > 0 => loaded'
    PROVE  OneUser'
<1>1. TypeOK /\ count \in Nat /\ files \in Nat /\ refs \in Nat
  BY DEF UseInv, TypeOK
<1>2. /\ count = files + Cardinality(Releasing)
      /\ refs = 2 * count + Cardinality(Holding) + Cardinality(Dropping)
  BY DEF UseInv, OneUser
<1>3. /\ Cardinality(Releasing) \in Nat /\ Cardinality(Holding) \in Nat
      /\ Cardinality(Dropping) \in Nat
      /\ Cardinality(Dropping') = Cardinality(Dropping) - x + y
      /\ Cardinality(Releasing') = Cardinality(Releasing) - p + m
      /\ Cardinality(Holding') = Cardinality(Holding) - q + n
  BY <1>1, PcMoves
<1>4. ASSUME NEW a \in Nat, NEW b \in Nat, NEW g \in Nat,
             NEW c \in Nat, NEW d \in Nat, NEW e \in Nat,
             NEW c2 \in Nat, NEW d2 \in Nat, NEW e2 \in Nat,
             c = d + a, e = 2 * c + b + g,
             c2 + p + d = c + m + d2, e2 + 2 * c + q + x = e + 2 * c2 + n + y
      PROVE  c2 = d2 + (a - p + m) /\ e2 = 2 * c2 + (b - q + n) + (g - x + y)
  BY <1>4
<1>5. /\ count' = files' + (Cardinality(Releasing) - p + m)
      /\ refs' = 2 * count' + (Cardinality(Holding) - q + n)
                            + (Cardinality(Dropping) - x + y)
  <2>1. /\ count' + p + files = count + m + files'
        /\ refs' + 2 * count + q + x = refs + 2 * count' + n + y
        /\ count' \in Nat /\ refs' \in Nat /\ files' \in Nat
    OBVIOUS
  <2>2. /\ Cardinality(Releasing) \in Nat /\ Cardinality(Holding) \in Nat
        /\ Cardinality(Dropping) \in Nat
    BY <1>3
  <2> QED BY ONLY <1>1, <1>2, <1>4, <2>1, <2>2
<1> QED BY <1>3, <1>5 DEF OneUser

LEMMA OpenTestUse ==
    ASSUME UseInv, NEW t \in Threads, OpenTest(t)
    PROVE  UseInv'
<1> USE DEF OpenTest
<1>1. CASE count # 0
  <2>1. Releasing' = Releasing /\ Holding' = Holding /\ Dropping' = Dropping
    BY <1>1 DEF Releasing, Holding, Dropping
  <2> QED BY <1>1, <2>1 DEF UseInv, TypeOK, OneUser, Roles, OneCall
<1>2. CASE count = 0
  <2> USE <1>2
  <2>1. TypeOK /\ refs \in Nat /\ files \in Nat /\ files <= 1
    BY DEF UseInv, TypeOK, OneUser
  <2>2. todo' = [todo EXCEPT ![t] = <<>>] /\ <<>> \in Seq(Writes)
    BY <2>1, GoEmpty DEF TypeOK
  <2>3. /\ loaded' \in BOOLEAN /\ refs' \in Nat /\ count' \in Nat /\ files' \in Nat
        /\ lock' \in Threads \cup {None}
    BY <2>1 DEF TypeOK
  <2>4. TypeOK'
    BY <2>1, <2>2, <2>3, GoType
  <2>5. OneUser'
    <3>1. /\ count' + 0 + files = count + 0 + files'
          /\ refs' + 2 * count + 0 + 0 = refs + 2 * count' + 1 + 0
      BY <2>1
    <3> QED BY <2>1, <2>3, <3>1, GoSum
  <2>6. Roles' /\ OneCall'
    BY <2>1, GoPc, DspmodAssumption DEF UseInv, Roles, OneCall
  <2> QED BY <2>4, <2>5, <2>6 DEF UseInv
<1> QED BY <1>1, <1>2 DEF UseInv, TypeOK

LEMMA OpenCountUse ==
    ASSUME UseInv, NEW t \in Threads, OpenCount(t)
    PROVE  UseInv'
<1> USE DEF OpenCount
<1>1. TypeOK /\ refs \in Nat /\ files \in Nat /\ count \in Nat
  BY DEF UseInv, TypeOK
<1>2. lock = t /\ count = 0 /\ files = 0 /\ loaded
  <2>1. lock = t /\ lock # None /\ count = 0
    BY DspmodAssumption DEF UseInv, Roles
  <2>2. /\ Cardinality(Releasing) \in Nat /\ Cardinality(Dropping) \in Nat
        /\ Cardinality(Holding) > 0 /\ Cardinality(Holding) \in Nat
    BY <1>1, PcMoves
  <2>3. files = 0 /\ refs > 0
    <3>1. /\ count = files + Cardinality(Releasing)
          /\ refs = 2 * count + Cardinality(Holding) + Cardinality(Dropping)
      BY DEF UseInv, OneUser
    <3>2. ASSUME NEW a \in Nat, NEW b \in Nat, b > 0, NEW f \in Nat, NEW r \in Nat,
                 NEW g \in Nat, 0 = f + a, r = 2 * 0 + b + g
          PROVE  f = 0 /\ r > 0
      BY <3>2
    <3> QED BY <1>1, <2>1, <2>2, <3>1, <3>2
  <2> QED BY <2>1, <2>3 DEF UseInv, OneUser
<1>3. todo' = [todo EXCEPT ![t] = <<>>] /\ <<>> \in Seq(Writes)
  BY <1>1, GoEmpty DEF TypeOK
<1>4. /\ loaded' \in BOOLEAN /\ refs' \in Nat /\ count' \in Nat /\ files' \in Nat
      /\ lock' \in Threads \cup {None} /\ files' <= 1
  BY <1>1, <1>2 DEF TypeOK
<1>5. TypeOK'
  BY <1>1, <1>3, <1>4, GoType
<1>6. OneUser'
  <2>1. /\ count' + 0 + files = count + 0 + files'
        /\ refs' + 2 * count + 1 + 0 = refs + 2 * count' + 0 + 0
    BY <1>1, <1>2
  <2> QED BY <1>2, <1>4, <2>1, GoSum
<1>7. Roles' /\ OneCall'
  BY <1>1, <1>2, GoPc, DspmodAssumption DEF UseInv, Roles, OneCall
<1> QED BY <1>5, <1>6, <1>7 DEF UseInv

LEMMA CloseUse ==
    ASSUME UseInv, NEW t \in Threads, Close(t)
    PROVE  UseInv'
<1> USE DEF Close
<1>1. TypeOK /\ refs \in Nat /\ files \in Nat /\ count \in Nat /\ files = 1
  BY DEF UseInv, TypeOK, OneUser
<1>2. todo' = [todo EXCEPT ![t] = <<>>] /\ <<>> \in Seq(Writes)
  BY <1>1, GoEmpty DEF TypeOK
<1>3. /\ loaded' \in BOOLEAN /\ refs' \in Nat /\ count' \in Nat /\ files' \in Nat
      /\ lock' \in Threads \cup {None} /\ files' <= 1
  BY <1>1 DEF TypeOK
<1>4. TypeOK'
  BY <1>1, <1>2, <1>3, GoType
<1>5. OneUser'
  <2>1. /\ count' + 0 + files = count + 1 + files'
        /\ refs' + 2 * count + 0 + 0 = refs + 2 * count' + 0 + 0
    BY <1>1
  <2> QED BY <1>3, <2>1, GoSum, SMTT(30) DEF UseInv, OneUser
<1>6. Roles' /\ OneCall'
  BY <1>1, GoPc, DspmodAssumption DEF UseInv, Roles, OneCall
<1> QED BY <1>4, <1>5, <1>6 DEF UseInv

LEMMA ReleaseCountUse ==
    ASSUME UseInv, NEW t \in Threads, ReleaseCount(t)
    PROVE  UseInv'
<1> USE DEF ReleaseCount
<1>1. TypeOK /\ refs \in Nat /\ files \in Nat /\ count \in Nat
  BY DEF UseInv, TypeOK
<1>2. count > 0 /\ refs > 0
  <2>1. /\ Cardinality(Releasing) > 0 /\ Cardinality(Releasing) \in Nat
        /\ Cardinality(Holding) \in Nat /\ Cardinality(Dropping) \in Nat
    BY <1>1, PcMoves
  <2>2. /\ count = files + Cardinality(Releasing)
        /\ refs = 2 * count + Cardinality(Holding) + Cardinality(Dropping)
    BY DEF UseInv, OneUser
  <2>3. ASSUME NEW a \in Nat, NEW b \in Nat, a > 0, NEW f \in Nat, NEW r \in Nat,
               NEW c \in Nat, NEW g \in Nat, c = f + a, r = 2 * c + b + g
        PROVE  c > 0 /\ r > 0
    BY <2>3
  <2> QED BY <1>1, <2>1, <2>2, <2>3
<1>3. todo' = [todo EXCEPT ![t] = <<>>] /\ <<>> \in Seq(Writes)
  BY <1>1, GoEmpty DEF TypeOK
<1>4. /\ loaded' \in BOOLEAN /\ refs' \in Nat /\ count' \in Nat /\ files' \in Nat
      /\ lock' \in Threads \cup {None} /\ files' <= 1
  BY <1>1, <1>2 DEF UseInv, OneUser, TypeOK
<1>5. TypeOK'
  BY <1>1, <1>3, <1>4, GoType
<1>6. OneUser'
  <2>1. /\ count' + 1 + files = count + 0 + files'
        /\ refs' + 2 * count + 0 + 0 = refs + 2 * count' + 1 + 1
    BY <1>1, <1>2
  <2>2. loaded'
    BY <1>1, <1>2 DEF UseInv, OneUser
  <2> QED BY <1>4, <2>1, <2>2, GoSum
<1>7. Roles' /\ OneCall'
  BY <1>1, <1>2, GoPc, DspmodAssumption DEF UseInv, Roles, OneCall
<1> QED BY <1>5, <1>6, <1>7 DEF UseInv

LEMMA ReleasePutUse ==
    ASSUME UseInv, NEW t \in Threads, ReleasePut(t)
    PROVE  UseInv'
<1> USE DEF ReleasePut
<1>1. TypeOK /\ refs \in Nat /\ files \in Nat /\ count \in Nat
  BY DEF UseInv, TypeOK
<1>2. refs > 0
  <2>1. /\ Cardinality(Holding) > 0 /\ Cardinality(Holding) \in Nat
        /\ Cardinality(Dropping) \in Nat
    BY <1>1, PcMoves
  <2>2. refs = 2 * count + Cardinality(Holding) + Cardinality(Dropping)
    BY DEF UseInv, OneUser
  <2>3. ASSUME NEW b \in Nat, b > 0, NEW r \in Nat, NEW c \in Nat,
               NEW g \in Nat, r = 2 * c + b + g
        PROVE  r > 0
    BY <2>3
  <2> QED BY <1>1, <2>1, <2>2, <2>3
<1>3. todo' = [todo EXCEPT ![t] = <<>>] /\ <<>> \in Seq(Writes)
  BY <1>1, GoEmpty DEF TypeOK
<1>4. /\ loaded' \in BOOLEAN /\ refs' \in Nat /\ count' \in Nat /\ files' \in Nat
      /\ lock' \in Threads \cup {None} /\ files' <= 1
  BY <1>1, <1>2 DEF UseInv, OneUser, TypeOK
<1>5. TypeOK'
  BY <1>1, <1>3, <1>4, GoType
<1>6. OneUser'
  <2>1. /\ count' + 0 + files = count + 0 + files'
        /\ refs' + 2 * count + 1 + 1 = refs + 2 * count' + 1 + 0
    BY <1>1, <1>2
  <2>2. loaded'
    BY <1>1, <1>2 DEF UseInv, OneUser
  <2>3. /\ 0 = (IF pc[t] = "release" THEN 1 ELSE 0)
        /\ 1 = (IF pc[t] \in {"open", "drop", "put"} THEN 1 ELSE 0)
        /\ 0 = (IF "put" = "release" THEN 1 ELSE 0)
        /\ 1 = (IF "put" \in {"open", "drop", "put"} THEN 1 ELSE 0)
        /\ 1 = (IF pc[t] = "drop" THEN 1 ELSE 0)
        /\ 0 = (IF "put" = "drop" THEN 1 ELSE 0)
        /\ Goto(t, "put")
    OBVIOUS
  <2> HIDE DEF ReleasePut
  <2> QED BY <1>4, <2>1, <2>2, <2>3, GoSum
<1>7. Roles' /\ OneCall'
  BY <1>1, <1>2, GoPc, DspmodAssumption DEF UseInv, Roles, OneCall
<1> QED BY <1>5, <1>6, <1>7 DEF UseInv

LEMMA PutUse ==
    ASSUME UseInv, NEW t \in Threads, Put(t)
    PROVE  UseInv'
<1> USE DEF Put
<1>1. TypeOK /\ refs \in Nat /\ files \in Nat /\ count \in Nat
  BY DEF UseInv, TypeOK
<1>2. refs > 0
  <2>1. /\ Cardinality(Holding) > 0 /\ Cardinality(Holding) \in Nat
        /\ Cardinality(Dropping) \in Nat
    BY <1>1, PcMoves
  <2>2. refs = 2 * count + Cardinality(Holding) + Cardinality(Dropping)
    BY DEF UseInv, OneUser
  <2>3. ASSUME NEW b \in Nat, b > 0, NEW r \in Nat, NEW c \in Nat,
               NEW g \in Nat, r = 2 * c + b + g
        PROVE  r > 0
    BY <2>3
  <2> QED BY <1>1, <2>1, <2>2, <2>3
<1>3. todo' = [todo EXCEPT ![t] = <<>>] /\ <<>> \in Seq(Writes)
  BY <1>1, GoEmpty DEF TypeOK
<1>4. /\ loaded' \in BOOLEAN /\ refs' \in Nat /\ count' \in Nat /\ files' \in Nat
      /\ lock' \in Threads \cup {None} /\ files' <= 1
  BY <1>1, <1>2 DEF UseInv, OneUser, TypeOK
<1>5. TypeOK'
  BY <1>1, <1>3, <1>4, GoType
<1>6. OneUser'
  <2>1. /\ count' + 0 + files = count + 0 + files'
        /\ refs' + 2 * count + 1 + 0 = refs + 2 * count' + 0 + 0
    BY <1>1, <1>2
  <2>2. loaded'
    BY <1>1, <1>2 DEF UseInv, OneUser
  <2>3. /\ 0 = (IF pc[t] = "release" THEN 1 ELSE 0)
        /\ 1 = (IF pc[t] \in {"open", "drop", "put"} THEN 1 ELSE 0)
        /\ 0 = (IF "idle" = "release" THEN 1 ELSE 0)
        /\ 0 = (IF "idle" \in {"open", "drop", "put"} THEN 1 ELSE 0)
        /\ 0 = (IF pc[t] = "drop" THEN 1 ELSE 0)
        /\ 0 = (IF "idle" = "drop" THEN 1 ELSE 0)
        /\ Goto(t, "idle")
    OBVIOUS
  <2> HIDE DEF Put
  <2> QED BY <1>4, <2>1, <2>2, <2>3, GoSum
<1>7. Roles' /\ OneCall'
  BY <1>1, <1>2, GoPc, DspmodAssumption DEF UseInv, Roles, OneCall
<1> QED BY <1>5, <1>6, <1>7 DEF UseInv

LEMMA NextUse ==
    ASSUME UseInv, [Next]_vars
    PROVE  UseInv'
<1>1. ASSUME NEW t \in Threads, NEW ok \in BOOLEAN, Write(t, ok) \/ LoadRegister(t, ok)
      PROVE  UseInv'
  BY <1>1, WriteUse, LoadRegisterUse
<1>2. ASSUME NEW t \in Threads, Load(t) \/ Unload(t) \/ UnloadDone(t) \/ IoctlDone(t)
      PROVE  UseInv'
  BY <1>2, LoadUse, UnloadUse, DoneUse
<1>3. ASSUME NEW t \in Threads,
             \/ OpenTest(t) \/ OpenCount(t)
             \/ Close(t) \/ ReleaseCount(t) \/ ReleasePut(t) \/ Put(t)
      PROVE  UseInv'
  BY <1>3, OpenTestUse, OpenCountUse, CloseUse, ReleaseCountUse, ReleasePutUse,
     PutUse
<1>4. ASSUME NEW t \in Threads, NEW r \in Routines, Ioctl(t, r)
      PROVE  UseInv'
  BY <1>4, IoctlUse
<1>5. CASE UNCHANGED vars
  BY <1>5 DEF vars, opening, UseInv, TypeOK, OneUser, Roles, OneCall, Releasing, Holding,
       Dropping
<1> QED BY <1>1, <1>2, <1>3, <1>4, <1>5 DEF Next

\* The threads' places, the count, the files and the references stay together.
THEOREM UseCorrect == Spec => []UseInv
<1>1. Init => UseInv
  BY InitUse
<1>2. UseInv /\ [Next]_vars => UseInv'
  BY NextUse
<1> QED BY <1>1, <1>2, PTL DEF Spec

\* Every variable has its type, and a thread that is not in a routine has
\* nothing left to write (hw_dspmod.c).
THEOREM TypeCorrect == Spec => []TypeOK
<1>1. UseInv => TypeOK
  BY DEF UseInv
<1> QED BY <1>1, UseCorrect, PTL

\* At most one file is open, the open count says whether one is, and the
\* module stays for as long as it has a user (hw_dspmod.c:341-363).
THEOREM OneUserCorrect == Spec => []OneUser
<1>1. UseInv => OneUser
  BY DEF UseInv
<1> QED BY <1>1, UseCorrect, PTL
-----------------------------------------------------------------------------
\* A routine of up to four writes keeps to both orders when each neighbour does.
LEMMA Short ==
    ASSUME NEW h, NEW a, NEW b, NEW c, NEW d
    PROVE  /\ Led(h, <<>>) /\ Followed(<<>>)
           /\ (\A p \in Before : a # p[2]) => Led(h, <<a>>)
           /\ (\A p \in Before : a # p[2] /\ (b = p[2] => a = p[1])) => Led(h, <<a, b>>)
           /\ (\A p \in Before : a # p[2] /\ (b = p[2] => a = p[1]) /\ (c = p[2] => b = p[1]))
                => Led(h, <<a, b, c>>)
           /\ (\A p \in Before : /\ a # p[2] /\ (b = p[2] => a = p[1])
                                 /\ (c = p[2] => b = p[1]) /\ (d = p[2] => c = p[1]))
                => Led(h, <<a, b, c, d>>)
           /\ (\A p \in After : a # p[1]) => Followed(<<a>>)
           /\ (\A p \in After : (a = p[1] => b = p[2]) /\ b # p[1]) => Followed(<<a, b>>)
           /\ (\A p \in After : a # p[1] /\ b # p[1] /\ c # p[1]) => Followed(<<a, b, c>>)
           /\ After = {} => Followed(<<a, b, c, d>>)
<1>1. Led(h, <<>>) /\ Followed(<<>>)
  BY DEF Led, Followed
<1>2. (\A p \in Before : a # p[2]) => Led(h, <<a>>)
  BY DEF Led
<1>3. (\A p \in Before : a # p[2] /\ (b = p[2] => a = p[1])) => Led(h, <<a, b>>)
  BY DEF Led
<1>4. (\A p \in Before : a # p[2] /\ (b = p[2] => a = p[1]) /\ (c = p[2] => b = p[1]))
        => Led(h, <<a, b, c>>)
  BY DEF Led
<1>5. (\A p \in Before : /\ a # p[2] /\ (b = p[2] => a = p[1])
                         /\ (c = p[2] => b = p[1]) /\ (d = p[2] => c = p[1]))
        => Led(h, <<a, b, c, d>>)
  BY DEF Led
<1>6. (\A p \in After : a # p[1]) => Followed(<<a>>)
  BY DEF Followed
<1>7. (\A p \in After : (a = p[1] => b = p[2]) /\ b # p[1]) => Followed(<<a, b>>)
  BY DEF Followed
<1>8. (\A p \in After : a # p[1] /\ b # p[1] /\ c # p[1]) => Followed(<<a, b, c>>)
  BY DEF Followed
<1>9. After = {} => Followed(<<a, b, c, d>>)
  BY DEF Followed
<1> QED BY <1>1, <1>2, <1>3, <1>4, <1>5, <1>6, <1>7, <1>8, <1>9

\* Each routine keeps to both orders, whatever the registers hold.
LEMMA ResetOrdered ==
    ASSUME chip \in {"puma5", "puma6"}, NEW status \in BOOLEAN, NEW h
    PROVE  Led(h, DspReset(status)) /\ Followed(DspReset(status))
<1>1. CASE chip = "puma6" /\ status
  <2>1. DspReset(status) = << <<"C55", "in">>, <<"PROXY", "in">>, <<"INC", "in">> >>
    BY <1>1 DEF DspReset
  <2>2. \A p \in Before : /\ <<"C55", "in">> # p[2]
                         /\ (<<"PROXY", "in">> = p[2] => <<"C55", "in">> = p[1])
                         /\ (<<"INC", "in">> = p[2] => <<"PROXY", "in">> = p[1])
    BY <1>1 DEF Before
  <2>3. \A p \in After : /\ <<"C55", "in">> # p[1]
                        /\ <<"PROXY", "in">> # p[1]
                        /\ <<"INC", "in">> # p[1]
    BY <1>1 DEF After
  <2> QED BY <2>1, <2>2, <2>3, Short
<1>2. CASE chip = "puma6" /\ ~status
  <2>1. DspReset(status) = << <<"INC", "out">>, <<"PROXY", "out">>, <<"C55", "out">> >>
    BY <1>2 DEF DspReset
  <2>2. \A p \in Before : /\ <<"INC", "out">> # p[2]
                         /\ (<<"PROXY", "out">> = p[2] => <<"INC", "out">> = p[1])
                         /\ (<<"C55", "out">> = p[2] => <<"PROXY", "out">> = p[1])
    BY <1>2 DEF Before
  <2>3. \A p \in After : /\ <<"INC", "out">> # p[1]
                        /\ <<"PROXY", "out">> # p[1]
                        /\ <<"C55", "out">> # p[1]
    BY <1>2 DEF After
  <2> QED BY <2>1, <2>2, <2>3, Short
<1>3. CASE chip = "puma5" /\ status
  <2>1. DspReset(status) = << <<"PSC_DSPSS", "off">>, <<"C55", "in">> >>
    BY <1>3 DEF DspReset
  <2>2. \A p \in Before : /\ <<"PSC_DSPSS", "off">> # p[2]
                         /\ (<<"C55", "in">> = p[2] => <<"PSC_DSPSS", "off">> = p[1])
    BY <1>3 DEF Before
  <2>3. \A p \in After : /\ (<<"PSC_DSPSS", "off">> = p[1] => <<"C55", "in">> = p[2])
                        /\ <<"C55", "in">> # p[1]
    BY <1>3 DEF After
  <2> QED BY <2>1, <2>2, <2>3, Short
<1>4. CASE chip = "puma5" /\ ~status
  <2>1. DspReset(status) = << <<"PSC_DSPSS", "on">>, <<"C55", "out">> >>
    BY <1>4 DEF DspReset
  <2>2. \A p \in Before : /\ <<"PSC_DSPSS", "on">> # p[2]
                         /\ (<<"C55", "out">> = p[2] => <<"PSC_DSPSS", "on">> = p[1])
    BY <1>4 DEF Before
  <2>3. \A p \in After : /\ (<<"PSC_DSPSS", "on">> = p[1] => <<"C55", "out">> = p[2])
                        /\ <<"C55", "out">> # p[1]
    BY <1>4 DEF After
  <2> QED BY <2>1, <2>2, <2>3, Short
<1> QED BY <1>1, <1>2, <1>3, <1>4

LEMMA NmiOrdered ==
    ASSUME chip \in {"puma5", "puma6"}, NEW status \in BOOLEAN, NEW h
    PROVE  Led(h, DspNmi(status)) /\ Followed(DspNmi(status))
<1>1. CASE status
  <2>1. DspNmi(status) = << <<"NMI", "on">> >>
    BY <1>1 DEF DspNmi
  <2>2. \A p \in Before : /\ <<"NMI", "on">> # p[2]
    BY <1>1 DEF Before
  <2>3. \A p \in After : /\ <<"NMI", "on">> # p[1]
    BY <1>1 DEF After
  <2> QED BY <2>1, <2>2, <2>3, Short
<1>2. CASE ~status
  <2>1. DspNmi(status) = << <<"NMI", "off">> >>
    BY <1>2 DEF DspNmi
  <2>2. \A p \in Before : /\ <<"NMI", "off">> # p[2]
    BY <1>2 DEF Before
  <2>3. \A p \in After : /\ <<"NMI", "off">> # p[1]
    BY <1>2 DEF After
  <2> QED BY <2>1, <2>2, <2>3, Short
<1> QED BY <1>1, <1>2

LEMMA PowerOrdered ==
    ASSUME chip \in {"puma5", "puma6"}, NEW status \in BOOLEAN, NEW h
    PROVE  Led(h, DspPower(status)) /\ Followed(DspPower(status))
<1>1. CASE chip = "puma6"
  <2>1. DspPower(status) = <<>>
    BY <1>1 DEF DspPower
  <2> QED BY <2>1, Short
<1>2. CASE chip = "puma5" /\ status
  <2>1. DspPower(status) = << <<"ARM", "half">>, <<"TIMER", "10000">> >>
    BY <1>2 DEF DspPower
  <2>2. \A p \in Before : /\ <<"ARM", "half">> # p[2]
                         /\ (<<"TIMER", "10000">> = p[2] => <<"ARM", "half">> = p[1])
    BY <1>2 DEF Before
  <2>3. \A p \in After : /\ (<<"ARM", "half">> = p[1] => <<"TIMER", "10000">> = p[2])
                        /\ <<"TIMER", "10000">> # p[1]
    BY <1>2 DEF After
  <2> QED BY <2>1, <2>2, <2>3, Short
<1>3. CASE chip = "puma5" /\ ~status
  <2>1. DspPower(status) = << <<"ARM", "full">>, <<"TIMER", "5000">> >>
    BY <1>3 DEF DspPower
  <2>2. \A p \in Before : /\ <<"ARM", "full">> # p[2]
                         /\ (<<"TIMER", "5000">> = p[2] => <<"ARM", "full">> = p[1])
    BY <1>3 DEF Before
  <2>3. \A p \in After : /\ (<<"ARM", "full">> = p[1] => <<"TIMER", "5000">> = p[2])
                        /\ <<"TIMER", "5000">> # p[1]
    BY <1>3 DEF After
  <2> QED BY <2>1, <2>2, <2>3, Short
<1> QED BY <1>1, <1>2, <1>3

LEMMA TdmOrdered ==
    ASSUME chip \in {"puma5", "puma6"}, NEW status \in BOOLEAN, NEW h
    PROVE  Led(h, ResetTdm(status)) /\ Followed(ResetTdm(status))
<1>1. CASE chip = "puma6"
  <2>1. ResetTdm(status) = <<>>
    BY <1>1 DEF ResetTdm
  <2> QED BY <2>1, Short
<1>2. CASE chip = "puma5" /\ status
  <2>1. ResetTdm(status) = << <<"PSC_TDM", "off">> >>
    BY <1>2 DEF ResetTdm
  <2>2. \A p \in Before : /\ <<"PSC_TDM", "off">> # p[2]
    BY <1>2 DEF Before
  <2>3. \A p \in After : /\ <<"PSC_TDM", "off">> # p[1]
    BY <1>2 DEF After
  <2> QED BY <2>1, <2>2, <2>3, Short
<1>3. CASE chip = "puma5" /\ ~status
  <2>1. ResetTdm(status) = << <<"PSC_TDM", "on">> >>
    BY <1>3 DEF ResetTdm
  <2>2. \A p \in Before : /\ <<"PSC_TDM", "on">> # p[2]
    BY <1>3 DEF Before
  <2>3. \A p \in After : /\ <<"PSC_TDM", "on">> # p[1]
    BY <1>3 DEF After
  <2> QED BY <2>1, <2>2, <2>3, Short
<1> QED BY <1>1, <1>2, <1>3

LEMMA QueryOrdered ==
    ASSUME chip \in {"puma5", "puma6"}, NEW ok \in BOOLEAN, NEW h
    PROVE  Led(h, QueryAddr(ok)) /\ Followed(QueryAddr(ok))
<1>1. CASE chip = "puma6" /\ ok
  <2>1. QueryAddr(ok) = << <<"BASE", "query">> >>
    BY <1>1, QueryIs
  <2>2. \A p \in Before : /\ <<"BASE", "query">> # p[2]
    BY <1>1 DEF Before
  <2>3. \A p \in After : /\ <<"BASE", "query">> # p[1]
    BY <1>1 DEF After
  <2> QED BY <2>1, <2>2, <2>3, Short
<1>2. CASE chip = "puma6" /\ ~ok
  <2>1. QueryAddr(ok) = <<>>
    BY <1>2, QueryIs
  <2> QED BY <2>1, Short
<1>3. CASE chip = "puma5" /\ ok
  <2>1. QueryAddr(ok) = << <<"C55", "in">>, <<"PROXY", "out">>, <<"BASE", "query">> >>
    BY <1>3 DEF QueryAddr
  <2>2. \A p \in Before : /\ <<"C55", "in">> # p[2]
                         /\ (<<"PROXY", "out">> = p[2] => <<"C55", "in">> = p[1])
                         /\ (<<"BASE", "query">> = p[2] => <<"PROXY", "out">> = p[1])
    BY <1>3 DEF Before
  <2>3. \A p \in After : /\ <<"C55", "in">> # p[1]
                        /\ <<"PROXY", "out">> # p[1]
                        /\ <<"BASE", "query">> # p[1]
    BY <1>3 DEF After
  <2> QED BY <2>1, <2>2, <2>3, Short
<1>4. CASE chip = "puma5" /\ ~ok
  <2>1. QueryAddr(ok) = << <<"C55", "in">>, <<"PROXY", "out">> >>
    BY <1>4 DEF QueryAddr
  <2>2. \A p \in Before : /\ <<"C55", "in">> # p[2]
                         /\ (<<"PROXY", "out">> = p[2] => <<"C55", "in">> = p[1])
    BY <1>4 DEF Before
  <2>3. \A p \in After : /\ (<<"C55", "in">> = p[1] => <<"PROXY", "out">> = p[2])
                        /\ <<"PROXY", "out">> # p[1]
    BY <1>4 DEF After
  <2> QED BY <2>1, <2>2, <2>3, Short
<1> QED BY <1>1, <1>2, <1>3, <1>4

LEMMA ShutdownOrdered ==
    ASSUME chip \in {"puma5", "puma6"}, NEW h
    PROVE  Led(h, Shutdown) /\ Followed(Shutdown)
<1>1. CASE chip = "puma6"
  <2>1. Shutdown = << <<"C55", "in">>, <<"PROXY", "in">>, <<"INC", "in">>, <<"TDM", "in">> >>
    BY <1>1 DEF Shutdown
  <2>2. \A p \in Before : /\ <<"C55", "in">> # p[2]
                         /\ (<<"PROXY", "in">> = p[2] => <<"C55", "in">> = p[1])
                         /\ (<<"INC", "in">> = p[2] => <<"PROXY", "in">> = p[1])
                         /\ (<<"TDM", "in">> = p[2] => <<"INC", "in">> = p[1])
    BY <1>1 DEF Before
  <2>3. After = {}
    BY <1>1 DEF After
  <2> QED BY <2>1, <2>2, <2>3, Short
<1>2. CASE chip = "puma5"
  <2>1. Shutdown = << <<"TDM", "in">>, <<"C55", "in">> >>
    BY <1>2 DEF Shutdown
  <2>2. \A p \in Before : /\ <<"TDM", "in">> # p[2]
                         /\ (<<"C55", "in">> = p[2] => <<"TDM", "in">> = p[1])
    BY <1>2 DEF Before
  <2>3. \A p \in After : /\ (<<"TDM", "in">> = p[1] => <<"C55", "in">> = p[2])
                        /\ <<"C55", "in">> # p[1]
    BY <1>2 DEF After
  <2> QED BY <2>1, <2>2, <2>3, Short
<1> QED BY <1>1, <1>2

LEMMA RoutineOrdered ==
    ASSUME chip \in {"puma5", "puma6"}, NEW r \in Routines, NEW h
    PROVE  Led(h, r) /\ Followed(r)
<1>1. CASE r = DspHalt
  BY <1>1, ResetOrdered DEF DspHalt
<1>2. CASE \E ok \in BOOLEAN : r = QueryAddr(ok)
  BY <1>2, QueryOrdered
<1>3. CASE \E status \in BOOLEAN :
             r \in {DspReset(status), DspNmi(status), DspPower(status), ResetTdm(status)}
  BY <1>3, ResetOrdered, NmiOrdered, PowerOrdered, TdmOrdered
<1> QED BY <1>1, <1>2, <1>3 DEF Routines
-----------------------------------------------------------------------------
\* Where ioctls do not overlap, one thread at most has something to write.
LEMMA OneTodo ==
    ASSUME UseInv, world # "interleaved", NEW t \in Threads, NEW u \in Threads,
           todo[t] # <<>>, todo[u] # <<>>
    PROVE  t = u
<1>1. pc[t] \in {"load", "unload", "ioctl"} /\ pc[u] \in {"load", "unload", "ioctl"}
  BY DEF UseInv, TypeOK
<1>2. CASE pc[t] = "ioctl" /\ pc[u] = "ioctl"
  BY <1>2 DEF UseInv, OneCall
<1>3. CASE pc[t] \in {"load", "unload"} \/ pc[u] \in {"load", "unload"}
  <2>1. ~loaded
    BY <1>3 DEF UseInv, Roles
  <2>2. refs = 0
    BY <2>1 DEF UseInv, OneUser, TypeOK
  <2>3. pc[t] \in {"load", "unload"} /\ pc[u] \in {"load", "unload"}
    BY <1>1, <2>2, Unused
  <2> QED BY <2>3 DEF UseInv, Roles
<1> QED BY <1>1, <1>2, <1>3

\* What is left of a routine after its first write.
LEMMA Rest ==
    ASSUME NEW s \in Seq(Writes), s # <<>>
    PROVE  /\ Head(s) = s[1] /\ Len(s) >= 1 /\ Tail(s) \in Seq(Writes)
           /\ Len(Tail(s)) = Len(s) - 1
           /\ \A i \in 1 .. Len(Tail(s)) : Tail(s)[i] = s[i + 1]
           /\ Head(s) \in Writes
  OBVIOUS

LEMMA RestFollowed ==
    ASSUME NEW s \in Seq(Writes), s # <<>>, Followed(s)
    PROVE  Followed(Tail(s))
<1>1. SUFFICES ASSUME NEW i \in 1 .. Len(Tail(s)), NEW p \in After, Tail(s)[i] = p[1]
               PROVE  i + 1 = Len(Tail(s)) /\ Tail(s)[i + 1] = p[2]
  BY DEF Followed
<1>2. i + 1 \in 1 .. Len(s) /\ s[i + 1] = p[1] /\ Len(s) \in Nat /\ i \in Nat
  BY <1>1, Rest
<1>3. (i + 1) + 1 = Len(s) /\ s[(i + 1) + 1] = p[2]
  BY <1>2 DEF Followed
<1>4. i + 1 = Len(Tail(s)) /\ i + 1 \in 1 .. Len(Tail(s))
  BY <1>2, <1>3, Rest
<1> QED BY <1>3, <1>4, Rest

\* A write that is taken leads the next one.
LEMMA RestLed ==
    ASSUME NEW s \in Seq(Writes), s # <<>>, NEW h, NEW g, Led(h, s),
           \A p \in Before : Head(s) = p[1] => g[p[1][1]] = p[1][2]
    PROVE  Led(g, Tail(s))
<1>1. SUFFICES ASSUME NEW i \in 1 .. Len(Tail(s)), NEW p \in Before, Tail(s)[i] = p[2]
               PROVE  IF i = 1 THEN g[p[1][1]] = p[1][2] ELSE Tail(s)[i - 1] = p[1]
  BY DEF Led
<1>2. i + 1 \in 1 .. Len(s) /\ s[i + 1] = p[2] /\ i + 1 # 1 /\ (i + 1) - 1 = i /\ i \in Nat
  BY <1>1, Rest
<1>3. s[i] = p[1]
  <2>1. s[(i + 1) - 1] = p[1]
    BY <1>2 DEF Led
  <2> QED BY <1>2, <2>1
<1>4. CASE i = 1
  <2>1. Head(s) = p[1]
    BY <1>3, <1>4, Rest
  <2> QED BY <1>4, <2>1
<1>5. CASE i # 1
  <2>1. i - 1 \in 1 .. Len(Tail(s)) /\ (i - 1) + 1 = i
    BY <1>1, <1>2, <1>5
  <2>2. Tail(s)[i - 1] = s[(i - 1) + 1]
    BY <2>1, Rest
  <2> QED BY <1>3, <1>5, <2>1, <2>2
<1> QED BY <1>4, <1>5

\* A write that is made alone, and what it does.
LEMMA WriteIs ==
    ASSUME UseInv, NEW t \in Threads, NEW ok \in BOOLEAN, Write(t, ok)
    PROVE  /\ todo[t] \in Seq(Writes) /\ todo[t] # <<>> /\ Head(todo[t]) = todo[t][1]
           /\ Head(todo[t]) \in Writes
           /\ Head(todo[t]) = <<Head(todo[t])[1], Head(todo[t])[2]>>
           /\ Head(todo[t])[1] \in Regs /\ Head(todo[t])[2] \in Values(Head(todo[t])[1])
           /\ ok => /\ hw'[Head(todo[t])[1]] = Head(todo[t])[2]
                    /\ \A r \in Regs : r # Head(todo[t])[1] => hw'[r] = hw[r]
           /\ ~ok => hw' = hw /\ MayFail(Head(todo[t])[1])
           /\ todo'[t] = Tail(todo[t])
           /\ \A u \in Threads : u # t => todo'[u] = todo[u]
<1>1. todo[t] \in Seq(Writes) /\ todo[t] # <<>> /\ DOMAIN todo = Threads
  BY DEF UseInv, TypeOK, Write
<1>2. Head(todo[t]) = todo[t][1] /\ Head(todo[t]) \in Writes
  BY <1>1, Rest
<1> DEFINE w == Head(todo[t])
<1>3. w \in Regs \X AllValues /\ w[2] \in Values(w[1])
  BY <1>2 DEF Writes
<1>4. w[1] \in Regs /\ w = <<w[1], w[2]>>
  BY <1>3
<1>5. ok => hw' = [hw EXCEPT ![w[1]] = w[2]]
  BY DEF Write
<1>6. hw \in [Regs -> AllValues]
  BY DEF UseInv, TypeOK
<1>7. ok => hw'[w[1]] = w[2] /\ \A r \in Regs : r # w[1] => hw'[r] = hw[r]
  <2> HIDE DEF w
  <2> QED BY <1>4, <1>5, <1>6
<1>8. ~ok => hw' = hw /\ MayFail(w[1])
  BY DEF Write
<1>9. todo' = [todo EXCEPT ![t] = Tail(todo[t])]
  BY DEF Write
<1>10. /\ todo'[t] = Tail(todo[t])
       /\ \A u \in Threads : u # t => todo'[u] = todo[u]
  BY <1>1, <1>9
<1> QED BY <1>1, <1>2, <1>3, <1>4, <1>7, <1>8, <1>10
-----------------------------------------------------------------------------
\* A write keeps what is left of the routines in order.
LEMMA WriteKeepsOrder ==
    ASSUME UseInv, OrderInv, NEW t \in Threads, NEW ok \in BOOLEAN, Write(t, ok), Orderly
    PROVE  \A u \in Threads : Led(hw', todo'[u]) /\ Followed(todo'[u])
<1> DEFINE w == Head(todo[t])
<1>1. world # "interleaved"
  BY DEF Orderly
<1>2. Led(hw, todo[t]) /\ Followed(todo[t])
  BY DEF OrderInv
<1>3. ASSUME NEW p \in Before, w = p[1]
      PROVE  hw'[p[1][1]] = p[1][2]
  <2>1. ok
    <3>1. CASE chip = "puma6"
      <4>1. p[1][1] \in {"C55", "PROXY", "INC"}
        BY <3>1 DEF Before
      <4>2. ~MayFail(w[1])
        BY <1>3, <4>1 DEF MayFail, Domains
      <4> QED BY <4>2, WriteIs
    <3>2. CASE chip # "puma6"
      <4>1. world # "failing"
        BY <3>2 DEF Orderly
      <4> QED BY <4>1, WriteIs DEF MayFail
    <3> QED BY <3>1, <3>2
  <2>2. hw'[w[1]] = w[2]
    BY <2>1, WriteIs
  <2> HIDE DEF w
  <2> QED BY <1>3, <2>2
<1>4. Led(hw', todo'[t]) /\ Followed(todo'[t])
  <2>1. todo[t] \in Seq(Writes) /\ todo[t] # <<>> /\ todo'[t] = Tail(todo[t])
    BY WriteIs
  <2>2. Followed(Tail(todo[t]))
    BY <1>2, <2>1, RestFollowed
  <2>3. Led(hw', Tail(todo[t]))
    BY <1>2, <1>3, <2>1, RestLed
  <2> QED BY <2>1, <2>2, <2>3
<1>5. ASSUME NEW u \in Threads, u # t
      PROVE  Led(hw', todo'[u]) /\ Followed(todo'[u])
  <2>1. todo'[u] = todo[u] /\ todo[t] # <<>>
    BY <1>5, WriteIs
  <2>2. todo[u] = <<>>
    BY <1>1, <1>5, <2>1, OneTodo
  <2> QED BY <2>1, <2>2, Short
<1> QED BY <1>4, <1>5

\* A write of <<r, v>> that is made only after another finds that one made.
LEMMA Leads ==
    ASSUME UseInv, OrderInv, Orderly, NEW t \in Threads, NEW ok \in BOOLEAN, Write(t, ok),
           NEW p \in Before, Head(todo[t]) = p[2]
    PROVE  hw[p[1][1]] = p[1][2]
<1>1. Led(hw, todo[t])
  BY DEF OrderInv
<1>2. 1 \in 1 .. Len(todo[t]) /\ todo[t][1] = p[2]
  BY WriteIs, Rest
<1> QED BY <1>1, <1>2 DEF Led

\* A write of the first of two leaves the second.
LEMMA Leaves ==
    ASSUME UseInv, OrderInv, Orderly, NEW t \in Threads, NEW ok \in BOOLEAN, Write(t, ok),
           NEW p \in After, Head(todo[t]) = p[1]
    PROVE  todo'[t] = <<p[2]>>
<1>1. Followed(todo[t])
  BY DEF OrderInv
<1>2. 1 \in 1 .. Len(todo[t]) /\ todo[t][1] = p[1] /\ todo[t] \in Seq(Writes) /\ todo[t] # <<>>
  BY WriteIs, Rest
<1>3. 1 + 1 = Len(todo[t]) /\ todo[t][1 + 1] = p[2]
  BY <1>1, <1>2 DEF Followed
<1>4. Len(Tail(todo[t])) = 1 /\ Tail(todo[t])[1] = p[2] /\ Tail(todo[t]) \in Seq(Writes)
  BY <1>2, <1>3, Rest
<1>5. ASSUME NEW q \in Seq(Writes), Len(q) = 1 PROVE q = <<q[1]>>
  BY <1>5
<1> QED BY <1>4, <1>5, WriteIs, ZenonT(90)

\* On Puma 6 a write keeps the order of the three lines.
LEMMA WriteKeepsCore ==
    ASSUME UseInv, OrderInv, NEW t \in Threads, NEW ok \in BOOLEAN, Write(t, ok)
    PROVE  CoreLast'
<1> SUFFICES ASSUME chip = "puma6", world # "interleaved"
             PROVE  /\ hw'["C55"] = "out" => hw'["PROXY"] = "out"
                    /\ hw'["PROXY"] = "out" => hw'["INC"] = "out"
  BY DEF CoreLast, Write
<1> DEFINE r == Head(todo[t])[1]
           v == Head(todo[t])[2]
<1>1. Orderly
  BY DspmodAssumption DEF Orderly, UseInv, TypeOK, AllWorlds
<1>2. /\ hw["C55"] = "out" => hw["PROXY"] = "out"
      /\ hw["PROXY"] = "out" => hw["INC"] = "out"
  BY DEF OrderInv, CoreLast
<1>3. /\ hw["C55"] \in {"in", "out"} /\ hw["PROXY"] \in {"in", "out"} /\ hw["INC"] \in {"in", "out"}
      /\ {"C55", "PROXY", "INC"} \subseteq Regs
      /\ \A q \in {"C55", "PROXY", "INC"} : Values(q) = {"in", "out"}
  <2>1. {"C55", "PROXY", "INC"} \subseteq Regs
    BY DEF Regs, Lines
  <2>2. \A q \in {"C55", "PROXY", "INC"} : Values(q) = {"in", "out"}
    BY DEF Lines, Domains, Values
  <2>3. \A q \in {"C55", "PROXY", "INC"} : hw[q] \in Values(q)
    BY <2>1 DEF UseInv, TypeOK
  <2> QED BY <2>1, <2>2, <2>3
<1>4. /\ << <<"C55", "in">>, <<"PROXY", "in">> >> \in Before
      /\ << <<"PROXY", "in">>, <<"INC", "in">> >> \in Before
      /\ << <<"INC", "out">>, <<"PROXY", "out">> >> \in Before
      /\ << <<"PROXY", "out">>, <<"C55", "out">> >> \in Before
  BY DEF Before
<1>5. /\ r = "PROXY" /\ v = "in" => hw["C55"] = "in"
      /\ r = "INC" /\ v = "in" => hw["PROXY"] = "in"
      /\ r = "PROXY" /\ v = "out" => hw["INC"] = "out"
      /\ r = "C55" /\ v = "out" => hw["PROXY"] = "out"
  <2>1. Head(todo[t]) = <<r, v>>
    BY WriteIs
  <2>2. r = "PROXY" /\ v = "in" => hw["C55"] = "in"
    BY <1>1, <1>4, <2>1, Leads
  <2>3. r = "INC" /\ v = "in" => hw["PROXY"] = "in"
    BY <1>1, <1>4, <2>1, Leads
  <2>4. r = "PROXY" /\ v = "out" => hw["INC"] = "out"
    BY <1>1, <1>4, <2>1, Leads
  <2>5. r = "C55" /\ v = "out" => hw["PROXY"] = "out"
    BY <1>1, <1>4, <2>1, Leads
  <2> QED BY <2>2, <2>3, <2>4, <2>5
<1>6. /\ v \in Values(r)
      /\ ok => hw'[r] = v /\ \A q \in Regs : q # r => hw'[q] = hw[q]
      /\ ~ok => hw' = hw
  BY WriteIs
<1> HIDE DEF r, v
<1> QED BY <1>2, <1>3, <1>5, <1>6

\* On Puma 5 a write that leaves two registers apart leaves the other write.
LEMMA WriteKeepsHalves ==
    ASSUME UseInv, OrderInv, NEW t \in Threads, NEW ok \in BOOLEAN, Write(t, ok)
    PROVE  Halves'
<1> SUFFICES ASSUME chip = "puma5", world = "serial" PROVE Halves'
  BY DEF Halves, Write
<1> DEFINE r == Head(todo[t])[1]
           v == Head(todo[t])[2]
<1>1. Orderly
  BY DEF Orderly
<1>2. ok /\ hw'[r] = v /\ (\A q \in Regs : q # r => hw'[q] = hw[q]) /\ v \in Values(r)
  BY WriteIs DEF MayFail
<1>3. Head(todo[t]) = <<r, v>> /\ todo[t] # <<>>
  BY WriteIs
<1>4. {"C55", "PSC_DSPSS", "ARM", "TIMER"} \subseteq Regs
  BY DEF Regs, Lines, Domains
<1>5. ASSUME NEW u \in Threads, NEW z \in Writes, todo[u] = <<z>>
      PROVE  r = z[1] /\ v = z[2]
  <2>1. todo[u] # <<>>
    BY <1>5
  <2>2. u = t
    BY <1>3, <2>1, OneTodo
  <2>3. Head(todo[t]) = z
    BY <1>5, <2>2
  <2> QED BY <2>3
<1>6. /\ <<"C55", "in">> \in Writes
      /\ <<"TIMER", "5000">> \in Writes /\ <<"TIMER", "10000">> \in Writes
  BY EachWrite DEF Lines
<1>7. /\ r = "C55" /\ v = "out" => hw["PSC_DSPSS"] = "on"
      /\ r = "TIMER" /\ v = "10000" => hw["ARM"] = "half"
      /\ r = "TIMER" /\ v = "5000" => hw["ARM"] = "full"
  <2>1. /\ << <<"PSC_DSPSS", "on">>, <<"C55", "out">> >> \in Before
        /\ << <<"ARM", "half">>, <<"TIMER", "10000">> >> \in Before
        /\ << <<"ARM", "full">>, <<"TIMER", "5000">> >> \in Before
    BY DEF Before
  <2>2. r = "C55" /\ v = "out" => hw["PSC_DSPSS"] = "on"
    BY <1>1, <1>3, <2>1, Leads
  <2>3. r = "TIMER" /\ v = "10000" => hw["ARM"] = "half"
    BY <1>1, <1>3, <2>1, Leads
  <2>4. r = "TIMER" /\ v = "5000" => hw["ARM"] = "full"
    BY <1>1, <1>3, <2>1, Leads
  <2> QED BY <2>2, <2>3, <2>4
<1>8. /\ r = "PSC_DSPSS" /\ v = "off" => todo'[t] = << <<"C55", "in">> >>
      /\ r = "ARM" /\ v = "half" => todo'[t] = << <<"TIMER", "10000">> >>
      /\ r = "ARM" /\ v = "full" => todo'[t] = << <<"TIMER", "5000">> >>
  <2>1. /\ << <<"PSC_DSPSS", "off">>, <<"C55", "in">> >> \in After
        /\ << <<"ARM", "half">>, <<"TIMER", "10000">> >> \in After
        /\ << <<"ARM", "full">>, <<"TIMER", "5000">> >> \in After
    BY DEF After
  <2>2. r = "PSC_DSPSS" /\ v = "off" => todo'[t] = << <<"C55", "in">> >>
    BY <1>1, <1>3, <2>1, Leaves
  <2>3. r = "ARM" /\ v = "half" => todo'[t] = << <<"TIMER", "10000">> >>
    BY <1>1, <1>3, <2>1, Leaves
  <2>4. r = "ARM" /\ v = "full" => todo'[t] = << <<"TIMER", "5000">> >>
    BY <1>1, <1>3, <2>1, Leaves
  <2> QED BY <2>2, <2>3, <2>4
<1> HIDE DEF r, v
<1>9. Half(hw["C55"] = "out" /\ hw["PSC_DSPSS"] = "off", <<"C55", "in">>)'
  <2>1. SUFFICES ASSUME hw'["C55"] = "out", hw'["PSC_DSPSS"] = "off"
                 PROVE  todo'[t] = << <<"C55", "in">> >>
    BY DEF Half
  <2>2. CASE hw["C55"] = "out" /\ hw["PSC_DSPSS"] = "off"
    <3>1. \E u \in Threads : todo[u] = << <<"C55", "in">> >>
      BY <2>2 DEF OrderInv, Halves, Half
    <3>2. r = "C55" /\ v = "in"
      BY <1>5, <1>6, <3>1
    <3> QED BY <1>2, <2>1, <3>2
  <2>3. CASE ~(hw["C55"] = "out" /\ hw["PSC_DSPSS"] = "off")
    BY <1>2, <1>4, <1>7, <1>8, <2>1, <2>3
  <2> QED BY <2>2, <2>3
<1>10. Half(hw["ARM"] = "half" /\ hw["TIMER"] = "5000", <<"TIMER", "10000">>)'
  <2>1. SUFFICES ASSUME hw'["ARM"] = "half", hw'["TIMER"] = "5000"
                 PROVE  todo'[t] = << <<"TIMER", "10000">> >>
    BY DEF Half
  <2>2. CASE hw["ARM"] = "half" /\ hw["TIMER"] = "5000"
    <3>1. \E u \in Threads : todo[u] = << <<"TIMER", "10000">> >>
      BY <2>2 DEF OrderInv, Halves, Half
    <3>2. r = "TIMER" /\ v = "10000"
      BY <1>5, <1>6, <3>1
    <3> QED BY <1>2, <2>1, <3>2
  <2>3. CASE ~(hw["ARM"] = "half" /\ hw["TIMER"] = "5000")
    BY <1>2, <1>4, <1>7, <1>8, <2>1, <2>3
  <2> QED BY <2>2, <2>3
<1>11. Half(hw["ARM"] = "full" /\ hw["TIMER"] = "10000", <<"TIMER", "5000">>)'
  <2>1. SUFFICES ASSUME hw'["ARM"] = "full", hw'["TIMER"] = "10000"
                 PROVE  todo'[t] = << <<"TIMER", "5000">> >>
    BY DEF Half
  <2>2. CASE hw["ARM"] = "full" /\ hw["TIMER"] = "10000"
    <3>1. \E u \in Threads : todo[u] = << <<"TIMER", "5000">> >>
      BY <2>2 DEF OrderInv, Halves, Half
    <3>2. r = "TIMER" /\ v = "5000"
      BY <1>5, <1>6, <3>1
    <3> QED BY <1>2, <2>1, <3>2
  <2>3. CASE ~(hw["ARM"] = "full" /\ hw["TIMER"] = "10000")
    BY <1>2, <1>4, <1>7, <1>8, <2>1, <2>3
  <2> QED BY <2>2, <2>3
<1> QED BY <1>9, <1>10, <1>11 DEF Halves

\* A step that writes nothing, and begins a routine only where all is still.
LEMMA GoOrder ==
    ASSUME UseInv, OrderInv, NEW t \in Threads, NEW s \in Seq(Writes),
           UNCHANGED <<chip, world, hw>>, Led(hw, s) /\ Followed(s),
           \/ todo' = todo
           \/ todo' = [todo EXCEPT ![t] = s] /\ (Orderly => \A u \in Threads : todo[u] = <<>>)
    PROVE  OrderInv'
<1>1. CoreLast'
  BY DEF OrderInv, CoreLast
<1>2. CASE todo' = todo
  BY <1>1, <1>2 DEF OrderInv, Orderly, CoreLast, Halves, Half, Led, Followed, Before, After
<1>3. CASE todo' = [todo EXCEPT ![t] = s] /\ (Orderly => \A u \in Threads : todo[u] = <<>>)
  <2>1. \A u \in Threads : todo'[u] = IF u = t THEN s ELSE todo[u]
    BY <1>3 DEF UseInv, TypeOK
  <2>2. Orderly => \A u \in Threads : Led(hw, todo'[u]) /\ Followed(todo'[u])
    BY <2>1 DEF OrderInv
  <2>3. Before' = Before /\ After' = After /\ (Orderly' <=> Orderly)
    BY DEF Before, After, Orderly
  <2>4. (Orderly => \A u \in Threads : Led(hw, todo[u]) /\ Followed(todo[u]))'
    BY <2>2, <2>3 DEF Led, Followed
  <2>5. Halves'
    <3>1. SUFFICES ASSUME chip = "puma5", world = "serial" PROVE Halves'
      BY DEF Halves
    <3>2. \A u \in Threads : todo[u] = <<>>
      BY <1>3, <3>1 DEF Orderly
    <3>3. \A w : <<>> # <<w>>
      OBVIOUS
    <3>4. /\ ~(hw["C55"] = "out" /\ hw["PSC_DSPSS"] = "off")
          /\ ~(hw["ARM"] = "half" /\ hw["TIMER"] = "5000")
          /\ ~(hw["ARM"] = "full" /\ hw["TIMER"] = "10000")
      BY <3>1, <3>2, <3>3 DEF OrderInv, Halves, Half
    <3> QED BY <3>4 DEF Halves, Half
  <2> QED BY <1>1, <2>4, <2>5 DEF OrderInv
<1> QED BY <1>2, <1>3

\* Still is all where no routine is under way.
LEMMA Still ==
    ASSUME UseInv, \A u \in Threads : pc[u] \notin {"load", "unload", "ioctl"}
    PROVE  \A u \in Threads : todo[u] = <<>>
  BY DEF UseInv, TypeOK

LEMMA InitOrder == Init => OrderInv
<1> SUFFICES ASSUME Init PROVE OrderInv
  OBVIOUS
<1>1. PICK s \in {"in", "out"} :
         hw = [r \in Regs |->
                 CASE r \in Lines -> s
                   [] r \in Domains -> "on"
                   [] r = "ARM" -> "full"
                   [] r = "TIMER" -> "5000"
                   [] r = "NMI" -> "off"
                   [] r = "BASE" -> "boot"]
  BY DEF Init
<1>2. /\ hw["C55"] = s /\ hw["PROXY"] = s /\ hw["INC"] = s
      /\ hw["PSC_DSPSS"] = "on" /\ hw["ARM"] = "full" /\ hw["TIMER"] = "5000"
  BY <1>1 DEF Regs, Lines, Domains
<1>3. \A t \in Threads : Led(hw, todo[t]) /\ Followed(todo[t])
  <2>1. \A t \in Threads : todo[t] = <<>>
    BY DEF Init
  <2> QED BY <2>1, Short
<1> QED BY <1>2, <1>3 DEF OrderInv, CoreLast, Halves, Half

\* Every step keeps the order of writes.
LEMMA NextOrder ==
    ASSUME UseInv, OrderInv, [Next]_vars
    PROVE  OrderInv'
<1> chip \in {"puma5", "puma6"}
  BY DEF UseInv, TypeOK
<1>1. ASSUME NEW t \in Threads, NEW ok \in BOOLEAN, Write(t, ok)
      PROVE  OrderInv'
  <2>1. Before' = Before /\ After' = After /\ (Orderly' <=> Orderly)
    BY <1>1 DEF Before, After, Orderly, Write
  <2>2. Orderly => \A u \in Threads : Led(hw', todo'[u]) /\ Followed(todo'[u])
    BY <1>1, WriteKeepsOrder
  <2>3. (Orderly => \A u \in Threads : Led(hw, todo[u]) /\ Followed(todo[u]))'
    BY <2>1, <2>2 DEF Led, Followed
  <2>4. CoreLast' /\ Halves'
    BY <1>1, WriteKeepsCore, WriteKeepsHalves
  <2> QED BY <2>3, <2>4 DEF OrderInv
<1>2. Led(hw, <<>>) /\ Followed(<<>>) /\ <<>> \in Seq(Writes)
  BY Short, Seqs, EachWrite, ZenonT(90)
<1>3. ASSUME NEW t \in Threads, NEW ok \in BOOLEAN, LoadRegister(t, ok)
      PROVE  OrderInv'
  BY <1>2, <1>3, GoOrder DEF LoadRegister
<1>4. ASSUME NEW t \in Threads, Load(t)
      PROVE  OrderInv'
  <2>1. Led(hw, HwuDspInit) /\ Followed(HwuDspInit) /\ HwuDspInit \in Seq(Writes)
    BY ResetOrdered, DspResetWrites DEF HwuDspInit
  <2>2. \A u \in Threads : todo[u] = <<>>
    BY <1>4, Still DEF Load, Idle
  <2> QED BY <1>4, <2>1, <2>2, GoOrder DEF Load
<1>5. ASSUME NEW t \in Threads, Unload(t)
      PROVE  OrderInv'
  <2>1. Led(hw, Shutdown) /\ Followed(Shutdown) /\ Shutdown \in Seq(Writes)
    BY ShutdownOrdered, ShutdownWrites
  <2>2. \A u \in Threads : pc[u] \notin {"load", "unload", "ioctl"}
    BY <1>5, Unused DEF Unload, UseInv, Roles
  <2>3. \A u \in Threads : todo[u] = <<>>
    BY <2>2, Still
  <2> QED BY <1>5, <2>1, <2>3, GoOrder DEF Unload
<1>6. ASSUME NEW t \in Threads, UnloadDone(t) \/ IoctlDone(t)
      PROVE  OrderInv'
  BY <1>2, <1>6, GoOrder DEF UnloadDone, IoctlDone
<1>7. ASSUME NEW t \in Threads,
             \/ OpenTest(t) \/ OpenCount(t)
             \/ Close(t) \/ ReleaseCount(t) \/ ReleasePut(t) \/ Put(t)
      PROVE  OrderInv'
  BY <1>2, <1>7, GoOrder DEF OpenTest, OpenCount, Close, ReleaseCount, ReleasePut,
     Put
<1>8. ASSUME NEW t \in Threads, NEW r \in Routines, Ioctl(t, r)
      PROVE  OrderInv'
  <2>1. Led(hw, r) /\ Followed(r) /\ r \in Seq(Writes)
    BY RoutineOrdered, RoutineWrites
  <2>2. Orderly => \A u \in Threads : pc[u] # "ioctl"
    BY <1>8 DEF Orderly, Ioctl
  <2>3. loaded
    <3>1. files > 0
      BY <1>8 DEF Ioctl
    <3>2. refs # 0
      BY <3>1, Unused DEF UseInv, TypeOK
    <3> QED BY <3>2 DEF UseInv, OneUser, TypeOK
  <2>4. Orderly => \A u \in Threads : todo[u] = <<>>
    BY <2>2, <2>3, Still DEF UseInv, Roles
  <2> QED BY <1>8, <2>1, <2>4, GoOrder DEF Ioctl
<1>9. CASE UNCHANGED vars
  BY <1>9 DEF vars, OrderInv, Orderly, CoreLast, Halves, Half, Led, Followed, Before, After
<1> QED BY <1>1, <1>3, <1>4, <1>5, <1>6, <1>7, <1>8, <1>9 DEF Next

\* The DSP never runs without what it needs: its lines and clocks are moved in
\* an order that holds at every step on Puma 6, and between calls on Puma 5
\* (hw_dspmod.c:92-132, 179-206).
THEOREM ResetOrderCorrect == Spec => []ResetOrder
<1>1. Init => UseInv /\ OrderInv
  BY InitUse, InitOrder
<1>2. UseInv /\ OrderInv /\ [Next]_vars => (UseInv /\ OrderInv)'
  BY NextUse, NextOrder
<1>3. UseInv /\ OrderInv => ResetOrder
  <2> SUFFICES ASSUME UseInv, OrderInv PROVE ResetOrder
    OBVIOUS
  <2>1. ASSUME chip = "puma5", world = "serial", Idle
        PROVE  /\ hw["C55"] = "out" => hw["PSC_DSPSS"] = "on"
               /\ hw["ARM"] = "half" <=> hw["TIMER"] = "10000"
    <3>1. \A u \in Threads : todo[u] = <<>>
      BY <2>1, Still DEF Idle
    <3>2. \A w : <<>> # <<w>>
      OBVIOUS
    <3>3. /\ ~(hw["C55"] = "out" /\ hw["PSC_DSPSS"] = "off")
          /\ ~(hw["ARM"] = "half" /\ hw["TIMER"] = "5000")
          /\ ~(hw["ARM"] = "full" /\ hw["TIMER"] = "10000")
      BY <2>1, <3>1, <3>2 DEF OrderInv, Halves, Half
    <3>4. {"PSC_DSPSS", "ARM", "TIMER"} \subseteq Regs
      BY DEF Regs, Domains
    <3>5. /\ Values("PSC_DSPSS") = {"on", "off"} /\ Values("ARM") = {"full", "half"}
          /\ Values("TIMER") = {"5000", "10000"}
      BY DEF Values, Lines, Domains
    <3>6. hw["PSC_DSPSS"] \in {"on", "off"} /\ hw["ARM"] \in {"full", "half"}
          /\ hw["TIMER"] \in {"5000", "10000"}
      BY <3>4, <3>5 DEF UseInv, TypeOK
    <3> QED BY <3>3, <3>6
  <2>2. ClocksAgree
    BY <2>1 DEF ClocksAgree
  <2> QED BY <2>2 DEF OrderInv, ResetOrder
<1> QED BY <1>1, <1>2, <1>3, PTL DEF Spec
=============================================================================
