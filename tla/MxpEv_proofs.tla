----------------------------- MODULE MxpEv_proofs -----------------------------
(***************************************************************************)
(* Proofs about MxpEv, for any number of threads, tasks, names and events: *)
(* types, and names of tasks, whatever the callers do; that an event       *)
(* consumed is an event reported; and, for the tasks whose waiters are     *)
(* alone, that events are flags taken in one step and no wake-up is lost.  *)
(* Then, about TeleDex, which extends MxpEv, that the id tele_int_handler  *)
(* keeps stays the id of the task DEX.                                     *)
(***************************************************************************)
EXTENDS TeleDex, WellFoundedInduction, TLAPS

\* tcb_by_name and the search of mxp_tcb_alloc find a task among those they
\* look at.
LEMMA LeastIn ==
    ASSUME NEW S \in SUBSET Tids, S # {}
    PROVE  Least(S) \in S
<1> DEFINE R == OpToRel(<, Nat)
<1>1. IsWellFoundedOn(R, Nat)
  BY NatLessThanWellFounded
<1>2. \A x, y \in Nat : <<x, y>> \notin R => y <= x
  BY DEF OpToRel
<1>3. S \subseteq Nat
  BY MxpEvAssumption DEF Tids
<1> HIDE DEF R
<1>4. PICK x \in S : \A y \in S : <<y, x>> \notin R
  BY <1>1, <1>3, WFMin
<1>5. \A y \in S : x <= y
  BY <1>2, <1>3, <1>4
<1> QED BY <1>5 DEF Least

--------------------------------------------------------------------------------
ReplyOK == reply \in [ret : Codes, tid : -1 .. MaxTasks, events : SUBSET Events,
                      took : BOOLEAN]

LEMMA LeaveOK ==
    ASSUME LocalsOK, NEW t \in Threads, Leave(t), ReplyOK'
    PROVE  LocalsOK'
  BY MxpEvAssumption DEF LocalsOK, Leave, ReplyOK, Pcs, Waiting

LEMMA ReturnOK ==
    ASSUME LocalsOK, NEW t \in Threads, NEW e \in Codes,
           NEW k \in -1 .. MaxTasks, NEW S \in SUBSET Events, Return(t, e, k, S)
    PROVE  LocalsOK'
  BY LeaveOK DEF Return, ReplyOK

LEMMA ReturnTakenOK ==
    ASSUME LocalsOK, NEW t \in Threads, NEW k \in -1 .. MaxTasks,
           NEW S \in SUBSET Events, ReturnTaken(t, k, S)
    PROVE  LocalsOK'
  BY LeaveOK DEF ReturnTaken, ReplyOK, Codes

LEMMA FailOK ==
    ASSUME TypeOK, NEW t \in Threads, NEW e \in Codes, Fail(t, e)
    PROVE  TypeOK'
<1>1. 0 \in -1 .. MaxTasks /\ {} \in SUBSET Events
  BY MxpEvAssumption
<1>2. LocalsOK'
  BY <1>1, ReturnOK DEF Fail, TypeOK
<1> QED BY <1>2 DEF Fail, TypeOK, TcbsOK, tcbs

\* A step that leaves the control blocks alone and moves threads about inside
\* their waits, or out of the wake-up of a post.
LEMMA MoveOK ==
    ASSUME TypeOK, UNCHANGED <<tcbs, tid, ask>>, pc' \in [Threads -> Pcs], ReplyOK',
           \A u \in Threads : pc'[u] # pc[u] => pc[u] \in Waiting /\ pc'[u] \in Waiting
    PROVE  TypeOK'
<1>1. TcbsOK'
  BY DEF TypeOK, TcbsOK, tcbs
<1>2. LocalsOK'
  <2>1. \A t \in Threads : pc'[t] # "idle" => tid'[t] \in Tids
    BY DEF TypeOK, LocalsOK, Waiting
  <2>2. \A t \in Threads :
           IF pc'[t] \in Waiting THEN ask'[t] \in Asks /\ ask'[t].task = tid'[t]
                                 ELSE ask'[t] = None
    BY DEF TypeOK, LocalsOK
  <2>3. ReplyOK' /\ tid' \in [Threads -> 0 .. MaxTasks] /\ ask' \in [Threads -> Asks \cup {None}]
    BY DEF TypeOK, LocalsOK
  <2> QED BY <2>1, <2>2, <2>3 DEF LocalsOK, ReplyOK
<1> QED BY <1>1, <1>2 DEF TypeOK

LEMMA NoReplyOK ==
    NoReply \in [ret : Codes, tid : -1 .. MaxTasks, events : SUBSET Events, took : BOOLEAN]
  BY MxpEvAssumption DEF NoReply, Codes

LEMMA TypeInit == Init => TypeOK
<1> SUFFICES ASSUME Init PROVE TypeOK
  OBVIOUS
<1>1. TcbsOK
  BY DEF Init, TcbsOK
<1>2. LocalsOK
  BY NoReplyOK, MxpEvAssumption DEF Init, LocalsOK, Pcs, Waiting
<1> QED BY <1>1, <1>2 DEF TypeOK

LEMMA TypeNext == TypeOK /\ [Next]_vars => TypeOK'
<1> SUFFICES ASSUME TypeOK, [Next]_vars PROVE TypeOK'
  OBVIOUS
<1> USE DEF TypeOK
<1>0. /\ 0 \in -1 .. MaxTasks
      /\ -1 \in -1 .. MaxTasks
      /\ Tids \subseteq -1 .. MaxTasks
      /\ Tids \subseteq 0 .. MaxTasks
      /\ \A k : Valid(k) => k \in Tids
      /\ {} \in SUBSET Events
      /\ NoReply \in [ret : Codes, tid : -1 .. MaxTasks, events : SUBSET Events,
                      took : BOOLEAN]
  BY MxpEvAssumption, NoReplyOK DEF Tids, Valid
<1>1. CASE UNCHANGED vars
  BY <1>1 DEF vars, TcbsOK, LocalsOK
<1>2. ASSUME NEW t \in Threads, NEW n \in Names, TcbIdentify(t, n)
      PROVE  TypeOK'
  <2>1. ByName(n) # {} => Least(ByName(n)) \in -1 .. MaxTasks
    BY <1>0, LeastIn DEF ByName
  <2>2. LocalsOK'
    BY <1>0, <1>2, <2>1, ReturnOK DEF TcbIdentify, Codes
  <2> QED BY <1>2, <2>2 DEF TcbIdentify, TcbsOK, tcbs
<1>3. ASSUME NEW t \in Threads, NEW n \in Names, TcbAlloc(t, n)
      PROVE  TypeOK'
  <2>1. CASE Fail(t, "ERR_ASGN") \/ Fail(t, "ERR_NOTCB")
    BY <2>1, FailOK DEF Codes
  <2>2. CASE /\ Unused # {}
             /\ busy' = [busy EXCEPT ![Least(Unused)] = 1]
             /\ name' = [name EXCEPT ![Least(Unused)] = n]
             /\ Return(t, "ERR_NOERR", Least(Unused), {})
             /\ UNCHANGED <<posted, cond, mask, wait4event>>
    <3>1. Least(Unused) \in Tids
      BY <2>2, LeastIn DEF Unused
    <3>2. LocalsOK'
      BY <1>0, <2>2, <3>1, ReturnOK DEF Codes
    <3>3. TcbsOK'
      BY <2>2, <3>1 DEF TcbsOK
    <3> QED BY <3>2, <3>3
  <2> QED BY <1>3, <2>1, <2>2 DEF TcbAlloc
<1>4. ASSUME NEW t \in Threads, NEW k \in Tids \cup {0}, TcbFree(t, k)
      PROVE  TypeOK'
  <2>1. CASE ~Valid(k)
    BY <1>4, <2>1, FailOK DEF TcbFree, Codes
  <2>2. CASE Valid(k)
    <3>1. LocalsOK'
      BY <1>0, <1>4, <2>2, ReturnOK DEF TcbFree, Codes
    <3>2. TcbsOK'
      BY <1>0, <1>4, <2>2 DEF TcbFree, TcbsOK
    <3> QED BY <3>1, <3>2
  <2> QED BY <2>1, <2>2
<1>5. ASSUME NEW t \in Threads, NEW k \in Tids \cup {0}, EvInquiry(t, k)
      PROVE  TypeOK'
  <2>1. Valid(k) => posted[k] \in SUBSET Events
    BY <1>0 DEF TcbsOK
  <2>2. LocalsOK'
    BY <1>0, <1>5, <2>1, ReturnOK DEF EvInquiry, Codes
  <2> QED BY <1>5, <2>2 DEF EvInquiry, TcbsOK, tcbs
<1>6. ASSUME NEW t \in Threads, NEW k \in Tids \cup {0}, NEW S \in SUBSET Events,
             EvPost(t, k, S)
      PROVE  TypeOK'
  <2>1. CASE ~Valid(k)
    BY <1>6, <2>1, FailOK DEF EvPost, Codes
  <2>2. CASE Valid(k)
    <3>1. k \in Tids
      BY <1>0, <2>2
    <3>2. TcbsOK'
      BY <1>6, <2>2, <3>1 DEF EvPost, TcbsOK
    <3>3. CASE Wakes(k, S)
      <4>1. /\ pc' = [pc EXCEPT ![t] = "postWake"]
            /\ tid' = [tid EXCEPT ![t] = k]
            /\ reply' = NoReply
            /\ ask' = ask
            /\ pc[t] = "idle"
        BY <1>6, <2>2, <3>3 DEF EvPost
      <4>2. LocalsOK'
        BY <1>0, <3>1, <4>1 DEF LocalsOK, Pcs, Waiting
      <4> QED BY <3>2, <4>2
    <3>4. CASE ~Wakes(k, S)
      <4>1. LocalsOK'
        BY <1>0, <1>6, <2>2, <3>1, <3>4, ReturnOK DEF EvPost, Codes
      <4> QED BY <3>2, <4>1
    <3> QED BY <3>3, <3>4
  <2> QED BY <2>1, <2>2
<1>7. ASSUME NEW t \in Threads, NEW k \in Tids \cup {0}, NEW S \in SUBSET Events,
             EvClear(t, k, S)
      PROVE  TypeOK'
  <2>1. CASE ~Valid(k)
    BY <1>7, <2>1, FailOK DEF EvClear, Codes
  <2>2. CASE Valid(k)
    <3>1. LocalsOK'
      BY <1>0, <1>7, <2>2, ReturnOK DEF EvClear, Codes
    <3>2. TcbsOK'
      BY <1>0, <1>7, <2>2 DEF EvClear, TcbsOK
    <3> QED BY <3>1, <3>2
  <2> QED BY <2>1, <2>2
<1>8. ASSUME NEW t \in Threads, NEW k \in Tids \cup {0}, NEW c,
             NEW E \in SUBSET Events, NEW timeout, EvWait(t, k, c, E, timeout)
      PROVE  TypeOK'
  <2>1. CASE \/ Fail(t, "ERR_TIDINV")
             \/ Fail(t, "SYS_ILLEGAL_REQUEST")
             \/ Fail(t, "ERR_NOEVT")
    BY <2>1, FailOK DEF Codes
  <2>2. CASE /\ Valid(k)
             /\ posted' = [posted EXCEPT ![k] = @ \ E]
             /\ ReturnTaken(t, k, E \cap posted[k])
             /\ UNCHANGED <<busy, name, cond, mask, wait4event>>
    <3>1. LocalsOK'
      BY <1>0, <2>2, ReturnTakenOK
    <3>2. TcbsOK'
      BY <1>0, <2>2 DEF TcbsOK
    <3> QED BY <3>1, <3>2
  <2>3. CASE /\ Valid(k)
             /\ pc[t] = "idle"
             /\ c \in {"OR", "AND"}
             /\ cond' = [cond EXCEPT ![k] = c]
             /\ mask' = [mask EXCEPT ![k] = E]
             /\ wait4event' = [wait4event EXCEPT ![k] = 1]
             /\ pc' = [pc EXCEPT ![t] = "waitCheck"]
             /\ tid' = [tid EXCEPT ![t] = k]
             /\ ask' = [ask EXCEPT ![t] = [task |-> k, cond |-> c, events |-> E]]
             /\ reply' = NoReply
             /\ UNCHANGED <<busy, name, posted>>
    <3>1. k \in Tids
      BY <1>0, <2>3
    <3>2. TcbsOK'
      BY <2>3, <3>1 DEF TcbsOK
    <3>3. LocalsOK'
      BY <1>0, <2>3, <3>1 DEF LocalsOK, Pcs, Waiting, Asks
    <3> QED BY <3>2, <3>3
  <2> QED BY <1>8, <2>1, <2>2, <2>3 DEF EvWait
<1>9. ASSUME NEW t \in Threads, EvPostWake(t)
      PROVE  TypeOK'
  <2>1. /\ pc[t] = "postWake"
        /\ pc' = [Woken(tid[t]) EXCEPT ![t] = "idle"]
        /\ tid' = [tid EXCEPT ![t] = 0]
        /\ reply' = [NoReply EXCEPT !.ret = "ERR_NOERR"]
        /\ UNCHANGED <<tcbs, ask>>
    BY <1>9 DEF EvPostWake
  <2>2. TcbsOK'
    BY <2>1 DEF TcbsOK, tcbs
  <2>3. ReplyOK'
    BY <1>0, <2>1 DEF ReplyOK, NoReply, Codes
  <2>4. LocalsOK'
    BY <2>1, <2>3, MxpEvAssumption DEF LocalsOK, ReplyOK, Woken, Pcs, Waiting
  <2> QED BY <2>2, <2>4
<1>10. ASSUME NEW t \in Threads, EvWaitCheck(t) \/ Signal(t)
       PROVE  TypeOK'
  <2>1. /\ UNCHANGED <<tcbs, tid, ask>>
        /\ reply' = NoReply
        /\ pc[t] \in Waiting
        /\ \E l \in Waiting : pc' = [pc EXCEPT ![t] = l]
    BY <1>10 DEF EvWaitCheck, Signal, Waiting
  <2>2. /\ pc' \in [Threads -> Pcs]
        /\ \A u \in Threads : pc'[u] # pc[u] => pc[u] \in Waiting /\ pc'[u] \in Waiting
    BY <2>1 DEF LocalsOK, Pcs
  <2> QED BY <1>0, <2>1, <2>2, MoveOK DEF ReplyOK
<1>11. ASSUME NEW t \in Threads, EvWaitResume(t)
       PROVE  TypeOK'
  <2>1. tid[t] \in Tids
    BY <1>11 DEF EvWaitResume, ResumePosted, LocalsOK
  <2>2. CASE pc[t] = "resumeSig"
    <3>1. /\ wait4event' = [wait4event EXCEPT ![tid[t]] = 0]
          /\ Return(t, "SYS_CONFIG_ERR", 0, {})
          /\ UNCHANGED <<busy, name, posted, cond, mask>>
      BY <1>11, <2>2 DEF EvWaitResume, ResumePosted
    <3>2. LocalsOK'
      BY <1>0, <3>1, ReturnOK DEF Codes
    <3> QED BY <2>1, <3>1, <3>2 DEF TcbsOK
  <2>3. CASE ResumePosted(t)
    <3> DEFINE k == tid[t]
               S == IF cond[k] = "OR" THEN mask[k] \cap posted[k] ELSE mask[k]
    <3>1. S \in SUBSET Events /\ k \in -1 .. MaxTasks
      BY <1>0, <2>1 DEF TcbsOK
    <3>2. ReturnTaken(t, k, S)
      BY <2>3 DEF ResumePosted
    <3> HIDE DEF S
    <3>3. LocalsOK'
      BY <3>1, <3>2, ReturnTakenOK
    <3> QED BY <2>1, <2>3, <3>3 DEF ResumePosted, TcbsOK
  <2> QED BY <1>11, <2>2, <2>3 DEF EvWaitResume
<1>12. ASSUME NEW k \in Tids, GateWake(k)
       PROVE  TypeOK'
  <2>1. UNCHANGED <<tcbs, tid, ask>> /\ reply' = NoReply /\ pc' = Woken(k)
    BY <1>12 DEF GateWake
  <2>2. /\ pc' \in [Threads -> Pcs]
        /\ \A u \in Threads : pc'[u] # pc[u] => pc[u] \in Waiting /\ pc'[u] \in Waiting
    BY <2>1 DEF LocalsOK, Woken, Pcs, Waiting
  <2> QED BY <1>0, <2>1, <2>2, MoveOK DEF ReplyOK
<1> QED BY <1>1, <1>2, <1>3, <1>4, <1>5, <1>6, <1>7, <1>8, <1>9, <1>10, <1>11, <1>12
        DEF Next, Call, Step

\* The variables of tasks and events have their types in every reachable state,
\* and a request stands exactly while its thread is inside a wait
\* (mmxp_ev.c:107-136).
THEOREM TypeCorrect == Spec => []TypeOK
  BY TypeInit, TypeNext, PTL DEF Spec

--------------------------------------------------------------------------------
\* Names change hands only in the two task calls.
LEMMA NamesKept ==
    ASSUME NEW t \in Threads,
           \/ \E n \in Names : TcbIdentify(t, n)
           \/ \E k \in Tids \cup {0} :
                 \/ EvInquiry(t, k)
                 \/ \E S \in SUBSET Events :
                       \/ EvPost(t, k, S)
                       \/ EvClear(t, k, S)
                       \/ \E c \in {"OR", "AND", "other"},
                             timeout \in {"NO_BLOCK", "INDEFINITE", "ticks"} :
                                EvWait(t, k, c, S, timeout)
           \/ Step(t)
           \/ Signal(t)
    PROVE  UNCHANGED <<busy, name>>
<1>1. CASE \E n \in Names : TcbIdentify(t, n)
  BY <1>1 DEF TcbIdentify, tcbs
<1>2. ASSUME NEW k \in Tids \cup {0}, EvInquiry(t, k)
      PROVE  UNCHANGED <<busy, name>>
  BY <1>2 DEF EvInquiry, tcbs
<1>3. ASSUME NEW k \in Tids \cup {0}, NEW S \in SUBSET Events, EvPost(t, k, S)
      PROVE  UNCHANGED <<busy, name>>
  BY <1>3 DEF EvPost, Fail, tcbs
<1>4. ASSUME NEW k \in Tids \cup {0}, NEW S \in SUBSET Events, EvClear(t, k, S)
      PROVE  UNCHANGED <<busy, name>>
  BY <1>4 DEF EvClear, Fail, tcbs
<1>5. ASSUME NEW k \in Tids \cup {0}, NEW S \in SUBSET Events, NEW c, NEW timeout,
             EvWait(t, k, c, S, timeout)
      PROVE  UNCHANGED <<busy, name>>
  BY <1>5 DEF EvWait, Fail, tcbs
<1>6. CASE Step(t) \/ Signal(t)
  BY <1>6 DEF Step, Signal, EvPostWake, EvWaitCheck, EvWaitResume, ResumePosted, tcbs
<1> QED BY <1>1, <1>2, <1>3, <1>4, <1>5, <1>6

LEMMA NamesNext == TypeOK /\ TaskNamesUnique /\ [Next]_vars => TaskNamesUnique'
<1> SUFFICES ASSUME TypeOK, TaskNamesUnique, [Next]_vars PROVE TaskNamesUnique'
  OBVIOUS
<1>1. CASE UNCHANGED <<busy, name>>
  BY <1>1 DEF TaskNamesUnique, Busy
<1>2. ASSUME NEW t \in Threads, NEW n \in Names, TcbAlloc(t, n)
      PROVE  TaskNamesUnique'
  <2>1. CASE UNCHANGED tcbs
    BY <1>1, <2>1 DEF tcbs
  <2>2. CASE /\ ByName(n) = {}
             /\ Unused # {}
             /\ busy' = [busy EXCEPT ![Least(Unused)] = 1]
             /\ name' = [name EXCEPT ![Least(Unused)] = n]
    <3>1. Least(Unused) \in Tids /\ \A k \in Tids : ~(Busy(k) /\ name[k] = n)
      BY <2>2, LeastIn DEF Unused, ByName
    <3> QED BY <2>2, <3>1 DEF TaskNamesUnique, Busy, TypeOK, TcbsOK
  <2> QED BY <1>2, <2>1, <2>2 DEF TcbAlloc, Fail
<1>3. ASSUME NEW t \in Threads, NEW k, TcbFree(t, k)
      PROVE  TaskNamesUnique'
  <2>1. CASE UNCHANGED tcbs
    BY <1>1, <2>1 DEF tcbs
  <2>2. CASE busy' = [busy EXCEPT ![k] = 0] /\ UNCHANGED name
    BY <2>2 DEF TaskNamesUnique, Busy, TypeOK, TcbsOK
  <2> QED BY <1>3, <2>1, <2>2 DEF TcbFree, Fail
<1>4. ASSUME NEW k \in Tids, GateWake(k)
      PROVE  UNCHANGED <<busy, name>>
  BY <1>4 DEF GateWake, tcbs
<1>5. CASE UNCHANGED vars
  BY <1>1, <1>5 DEF vars
<1> QED BY <1>1, <1>2, <1>3, <1>4, <1>5, NamesKept DEF Next, Call

\* Tasks in use have different names, whoever allocates and frees them
\* (mmxpcore.c:116-124, 158).
THEOREM TaskNamesDiffer == Spec => []TaskNamesUnique
<1>1. Init => TaskNamesUnique
  BY DEF Init, TaskNamesUnique, Busy
<1> QED BY <1>1, NamesNext, TypeCorrect, PTL DEF Spec

--------------------------------------------------------------------------------
(***************************************************************************)
(* The events of an owned task are flags that a wait takes in one step,    *)
(* and no wake-up of its waiter is lost.                                   *)
(*                                                                         *)
(* The invariant says why a post may decide early and the waiter take      *)
(* late: the waiter is alone, the control block holds what it asked for,   *)
(* and its flag is cleared exactly while the posted events answer it.      *)
(***************************************************************************)

InOwned(t) == pc[t] \in Waiting /\ tid[t] \in Owned

WaitsAlone ==
    \A t, u \in Threads : InOwned(t) /\ pc[u] \in Waiting /\ tid[u] = tid[t] => t = u

BlockHoldsRequest ==
    \A t \in Threads : InOwned(t) =>
        cond[tid[t]] = ask[t].cond /\ mask[tid[t]] = ask[t].events

FlagFollowsEvents ==
    \A t \in Threads : InOwned(t) =>
        /\ wait4event[tid[t]] = 0 <=>
              Satisfied(cond[tid[t]], mask[tid[t]], posted[tid[t]])
        /\ pc[t] = "resume" => wait4event[tid[t]] = 0

ClearedIsBeingWoken ==
    \A t \in Threads : InOwned(t) /\ pc[t] = "asleep" /\ wait4event[tid[t]] = 0
        => \E u \in Threads : pc[u] = "postWake" /\ tid[u] = tid[t]

OwnedInv == WaitsAlone /\ BlockHoldsRequest /\ FlagFollowsEvents /\ ClearedIsBeingWoken

LEMMA OwnedInit == Init => OwnedInv
  BY DEF Init, OwnedInv, WaitsAlone, BlockHoldsRequest, FlagFollowsEvents,
         ClearedIsBeingWoken, InOwned, Waiting

\* What a step may do to the task of waiter u: nothing that u can tell, or make
\* what u asked for true, clear its flag and end at l, about task k.
Untouched(u) ==
    /\ wait4event'[tid[u]] = wait4event[tid[u]]
    /\ Satisfied(cond[tid[u]], mask[tid[u]], posted'[tid[u]])
          <=> Satisfied(cond[tid[u]], mask[tid[u]], posted[tid[u]])

Answered(u, l, k) ==
    /\ wait4event'[tid[u]] = 0
    /\ Satisfied(cond[tid[u]], mask[tid[u]], posted'[tid[u]])
    /\ l = "postWake"
    /\ k = tid[u]

\* A step of t that leads outside of a wait keeps the invariant if it treats the
\* tasks of the other waiters well: it keeps what they asked for, and either it
\* changes nothing of their flag and its truth, or it makes it true, clears the
\* flag and ends where it will wake them.
LEMMA OutsideWait ==
    ASSUME OwnedInv, TypeOK, NEW t \in Threads, NEW l, NEW k,
           pc' = [pc EXCEPT ![t] = l], tid' = [tid EXCEPT ![t] = k],
           \A u \in Threads \ {t} : ask'[u] = ask[u],
           pc[t] # "postWake", l \notin Waiting,
           \A u \in Threads \ {t} : InOwned(u) =>
              /\ cond'[tid[u]] = cond[tid[u]] /\ mask'[tid[u]] = mask[tid[u]]
              /\ Untouched(u) \/ Answered(u, l, k)
    PROVE  OwnedInv'
<1>1. /\ pc'[t] = l /\ tid'[t] = k
      /\ \A u \in Threads \ {t} : pc'[u] = pc[u] /\ tid'[u] = tid[u]
  BY DEF TypeOK, LocalsOK
<1>2. \A u \in Threads : InOwned(u)' => u # t /\ InOwned(u)
  BY <1>1 DEF InOwned
<1>3. WaitsAlone'
  BY <1>1, <1>2 DEF OwnedInv, WaitsAlone, InOwned
<1>4. BlockHoldsRequest'
  BY <1>1, <1>2 DEF OwnedInv, BlockHoldsRequest
<1>5. FlagFollowsEvents'
  <2> SUFFICES ASSUME NEW u \in Threads, InOwned(u)'
               PROVE  /\ wait4event'[tid'[u]] = 0 <=>
                            Satisfied(cond'[tid'[u]], mask'[tid'[u]], posted'[tid'[u]])
                      /\ pc'[u] = "resume" => wait4event'[tid'[u]] = 0
    BY DEF FlagFollowsEvents, Satisfied
  <2>1. u # t /\ InOwned(u) /\ pc'[u] = pc[u] /\ tid'[u] = tid[u]
    BY <1>1, <1>2
  <2>2. /\ wait4event[tid[u]] = 0 <=>
              Satisfied(cond[tid[u]], mask[tid[u]], posted[tid[u]])
        /\ pc[u] = "resume" => wait4event[tid[u]] = 0
    BY <2>1 DEF OwnedInv, FlagFollowsEvents
  <2> QED BY <2>1, <2>2 DEF Untouched, Answered
<1>6. ClearedIsBeingWoken'
  <2> SUFFICES ASSUME NEW u \in Threads, InOwned(u)', pc'[u] = "asleep",
                      wait4event'[tid'[u]] = 0
               PROVE  \E w \in Threads : pc'[w] = "postWake" /\ tid'[w] = tid'[u]
    BY DEF ClearedIsBeingWoken
  <2>1. u # t /\ InOwned(u) /\ pc[u] = "asleep" /\ tid'[u] = tid[u]
    BY <1>1, <1>2
  <2>2. CASE l = "postWake" /\ k = tid[u]
    BY <1>1, <2>1, <2>2
  <2>3. CASE ~(l = "postWake" /\ k = tid[u])
    <3>1. wait4event[tid[u]] = 0
      BY <2>1, <2>3 DEF Untouched, Answered
    <3>2. PICK w \in Threads : pc[w] = "postWake" /\ tid[w] = tid[u]
      BY <2>1, <3>1 DEF OwnedInv, ClearedIsBeingWoken
    <3> QED BY <1>1, <2>1, <3>2
  <2> QED BY <2>2, <2>3
<1> QED BY <1>3, <1>4, <1>5, <1>6 DEF OwnedInv

\* The same for a call that leaves all that waiters look at alone, or touches
\* only a task that no other thread waits for.
LEMMA ReturnsAlone ==
    ASSUME OwnedInv, TypeOK, NEW t \in Threads, NEW k, Leave(t), pc[t] # "postWake",
           UNCHANGED <<cond, mask>>,
           \A q \in Tids : q # k => wait4event'[q] = wait4event[q] /\ posted'[q] = posted[q],
           \A u \in Threads \ {t} : InOwned(u) => tid[u] # k
    PROVE  OwnedInv'
<1>1. /\ pc' = [pc EXCEPT ![t] = "idle"]
      /\ tid' = [tid EXCEPT ![t] = 0]
      /\ \A u \in Threads \ {t} : ask'[u] = ask[u]
      /\ "idle" \notin Waiting
  BY DEF Leave, TypeOK, LocalsOK, Waiting
<1>2. \A u \in Threads \ {t} : InOwned(u) => tid[u] \in Tids /\ tid[u] # k
  BY DEF InOwned, TypeOK, LocalsOK, Waiting
<1>3. \A u \in Threads \ {t} : InOwned(u) =>
         /\ cond'[tid[u]] = cond[tid[u]] /\ mask'[tid[u]] = mask[tid[u]]
         /\ wait4event'[tid[u]] = wait4event[tid[u]]
         /\ posted'[tid[u]] = posted[tid[u]]
  BY <1>2
<1> DEFINE l == "idle"
           kk == 0
<1>4. pc' = [pc EXCEPT ![t] = l] /\ tid' = [tid EXCEPT ![t] = kk] /\ l \notin Waiting
  BY <1>1
<1> HIDE DEF l, kk
<1>5. \A u \in Threads \ {t} : InOwned(u) =>
          /\ cond'[tid[u]] = cond[tid[u]] /\ mask'[tid[u]] = mask[tid[u]]
          /\ Untouched(u)
  BY <1>3 DEF Untouched
<1>6. \A u \in Threads \ {t} : ask'[u] = ask[u]
  BY <1>1
<1> QED BY <1>4, <1>5, <1>6, OutsideWait

LEMMA NothingTouched ==
    ASSUME OwnedInv, TypeOK, NEW t \in Threads, Leave(t), pc[t] # "postWake",
           UNCHANGED <<cond, mask, wait4event, posted>>
    PROVE  OwnedInv'
<1> DEFINE none == 0
<1>1. \A u \in Threads \ {t} : InOwned(u) => tid[u] # none
  BY DEF InOwned, TypeOK, LocalsOK, Waiting, Tids
<1> HIDE DEF none
<1>2. \A q \in Tids : q # none => wait4event'[q] = wait4event[q] /\ posted'[q] = posted[q]
  OBVIOUS
<1>3. UNCHANGED <<cond, mask>>
  OBVIOUS
<1> QED BY <1>1, <1>2, <1>3, ReturnsAlone

\* wake_up moves sleepers to their test and nothing else.
LEMMA WakeUp ==
    ASSUME OwnedInv, TypeOK, NEW k, UNCHANGED <<tcbs, ask>>,
           NEW t, pc[t] \notin Waiting,
           \A u \in Threads \ {t} :
              /\ tid'[u] = tid[u]
              /\ pc'[u] = IF pc[u] = "asleep" /\ tid[u] = k THEN "waitCheck" ELSE pc[u],
           t \in Threads => pc[t] = "postWake" /\ tid[t] = k /\ pc'[t] \notin Waiting
    PROVE  OwnedInv'
<1>1. \A u \in Threads : pc'[u] \in Waiting =>
         u # t /\ pc[u] \in Waiting /\ tid'[u] = tid[u]
  BY DEF Waiting
<1>2. \A u \in Threads : InOwned(u)' => InOwned(u)
  BY <1>1 DEF InOwned
<1>3. WaitsAlone'
  BY <1>1, <1>2 DEF OwnedInv, WaitsAlone, InOwned
<1>4. BlockHoldsRequest'
  BY <1>1, <1>2 DEF OwnedInv, BlockHoldsRequest, InOwned, tcbs
<1>5. FlagFollowsEvents'
  <2> SUFFICES ASSUME NEW u \in Threads, InOwned(u)'
               PROVE  /\ wait4event'[tid'[u]] = 0 <=>
                            Satisfied(cond'[tid'[u]], mask'[tid'[u]], posted'[tid'[u]])
                      /\ pc'[u] = "resume" => wait4event'[tid'[u]] = 0
    BY DEF FlagFollowsEvents, Satisfied
  <2>1. u # t /\ InOwned(u) /\ tid'[u] = tid[u] /\ (pc'[u] = "resume" => pc[u] = "resume")
    BY <1>1, <1>2 DEF InOwned
  <2> QED BY <2>1 DEF OwnedInv, FlagFollowsEvents, tcbs
<1>6. ClearedIsBeingWoken'
  <2> SUFFICES ASSUME NEW u \in Threads, InOwned(u)', pc'[u] = "asleep",
                      wait4event'[tid'[u]] = 0
               PROVE  \E w \in Threads : pc'[w] = "postWake" /\ tid'[w] = tid'[u]
    BY DEF ClearedIsBeingWoken
  <2>1. /\ u # t /\ InOwned(u) /\ tid'[u] = tid[u]
        /\ pc[u] = "asleep" /\ tid[u] # k
    BY <1>1, <1>2 DEF InOwned
  <2>2. PICK w \in Threads : pc[w] = "postWake" /\ tid[w] = tid[u]
    BY <2>1 DEF OwnedInv, ClearedIsBeingWoken, tcbs
  <2>3. w # t
    BY <2>1, <2>2
  <2> QED BY <2>1, <2>2, <2>3
<1> QED BY <1>3, <1>4, <1>5, <1>6 DEF OwnedInv

\* A thread goes on with a wait.
LEMMA GoOnWaiting ==
    ASSUME OwnedInv, TypeOK, NEW t \in Threads, NEW l \in Waiting,
           pc' = [pc EXCEPT ![t] = l], UNCHANGED <<tcbs, tid, ask>>,
           pc[t] \in Waiting,
           l = "resume" => wait4event[tid[t]] = 0,
           l = "asleep" => wait4event[tid[t]] # 0
    PROVE  OwnedInv'
<1>1. pc'[t] = l /\ \A u \in Threads \ {t} : pc'[u] = pc[u]
  BY DEF TypeOK, LocalsOK
<1>2. \A u \in Threads : InOwned(u)' <=> InOwned(u)
  BY <1>1 DEF InOwned
<1>3. WaitsAlone'
  BY <1>1, <1>2 DEF OwnedInv, WaitsAlone
<1>4. BlockHoldsRequest'
  BY <1>2 DEF OwnedInv, BlockHoldsRequest, tcbs
<1>5. FlagFollowsEvents'
  BY <1>1, <1>2 DEF OwnedInv, FlagFollowsEvents, Satisfied, tcbs
<1>6. ClearedIsBeingWoken'
  <2> SUFFICES ASSUME NEW u \in Threads, InOwned(u)', pc'[u] = "asleep",
                      wait4event'[tid'[u]] = 0
               PROVE  \E w \in Threads : pc'[w] = "postWake" /\ tid'[w] = tid'[u]
    BY DEF ClearedIsBeingWoken
  <2>1. u # t /\ InOwned(u) /\ pc[u] = "asleep"
    BY <1>1, <1>2 DEF tcbs
  <2>2. PICK w \in Threads : pc[w] = "postWake" /\ tid[w] = tid[u]
    BY <2>1 DEF OwnedInv, ClearedIsBeingWoken, tcbs
  <2> QED BY <1>1, <2>2 DEF Waiting
<1> QED BY <1>3, <1>4, <1>5, <1>6 DEF OwnedInv

LEMMA PostOwned ==
    ASSUME OwnedInv, TypeOK, NEW t \in Threads, NEW k, NEW S, EvPost(t, k, S)
    PROVE  OwnedInv'
<1>1. pc[t] = "idle"
  BY DEF EvPost
<1>2. CASE ~Valid(k)
  BY <1>1, <1>2, NothingTouched DEF EvPost, Fail, Return, tcbs
<1>3. CASE Valid(k)
  <2>1. /\ k \in Tids
        /\ posted' = [posted EXCEPT ![k] = @ \cup S]
        /\ UNCHANGED <<cond, mask>>
    BY <1>3 DEF EvPost, Valid
  <2>2. posted'[k] = posted[k] \cup S /\ \A q \in Tids \ {k} : posted'[q] = posted[q]
    BY <2>1 DEF TypeOK, TcbsOK
  <2>3. \A u \in Threads : InOwned(u) =>
           /\ tid[u] \in Tids
           /\ wait4event[tid[u]] = 0 <=>
                 Satisfied(cond[tid[u]], mask[tid[u]], posted[tid[u]])
    BY DEF InOwned, OwnedInv, FlagFollowsEvents, TypeOK, LocalsOK, Waiting
  <2>4. CASE Wakes(k, S)
    <3>1. /\ wait4event' = [wait4event EXCEPT ![k] = 0]
          /\ pc' = [pc EXCEPT ![t] = "postWake"]
          /\ tid' = [tid EXCEPT ![t] = k]
          /\ ask' = ask
      BY <1>3, <2>4 DEF EvPost
    <3>2. ASSUME NEW u \in Threads \ {t}, InOwned(u), tid[u] # k
          PROVE  wait4event'[tid[u]] = wait4event[tid[u]] /\ posted'[tid[u]] = posted[tid[u]]
      BY <2>2, <2>3, <3>1, <3>2 DEF TypeOK, TcbsOK
    <3>3. wait4event'[k] = 0 /\ Satisfied(cond[k], mask[k], posted'[k])
      BY <2>1, <2>2, <2>4, <3>1 DEF Wakes, TypeOK, TcbsOK
    <3> DEFINE l == "postWake"
    <3>4. pc' = [pc EXCEPT ![t] = l] /\ l \notin Waiting /\ l = "postWake"
      BY <3>1 DEF Waiting
    <3> HIDE DEF l
    <3>5. \A u \in Threads \ {t} : InOwned(u) =>
              /\ cond'[tid[u]] = cond[tid[u]] /\ mask'[tid[u]] = mask[tid[u]]
              /\ Untouched(u) \/ Answered(u, l, k)
      BY <2>1, <3>2, <3>3, <3>4 DEF Untouched, Answered
    <3>6. /\ pc[t] # "postWake"
          /\ \A u \in Threads \ {t} : ask'[u] = ask[u]
          /\ pc' = [pc EXCEPT ![t] = l] /\ l \notin Waiting
      BY <1>1, <3>1, <3>4
    <3>7. tid' = [tid EXCEPT ![t] = k]
      BY <3>1
    <3> QED BY <3>5, <3>6, <3>7, OutsideWait
  <2>5. CASE ~Wakes(k, S)
    <3>1. Leave(t) /\ wait4event' = wait4event
      BY <1>3, <2>5 DEF EvPost, Return
    <3>2. ASSUME NEW u \in Threads \ {t}, InOwned(u)
          PROVE  Satisfied(cond[tid[u]], mask[tid[u]], posted'[tid[u]])
                    <=> Satisfied(cond[tid[u]], mask[tid[u]], posted[tid[u]])
      <4>1. CASE tid[u] # k
        BY <2>2, <2>3, <3>2, <4>1
      <4>2. CASE tid[u] = k /\ wait4event[k] = 0
        <5>1. Satisfied(cond[k], mask[k], posted[k])
          BY <2>3, <3>2, <4>2
        <5>2. Satisfied(cond[k], mask[k], posted'[k])
          BY <2>2, <5>1 DEF Satisfied
        <5> QED BY <4>2, <5>1, <5>2
      <4>3. CASE tid[u] = k /\ wait4event[k] # 0
        BY <2>2, <2>3, <2>5, <3>2, <4>3 DEF Wakes
      <4> QED BY <4>1, <4>2, <4>3
    <3> DEFINE l == "idle"
               kk == 0
    <3>3. /\ pc' = [pc EXCEPT ![t] = l] /\ tid' = [tid EXCEPT ![t] = kk]
          /\ l \notin Waiting
          /\ \A u \in Threads \ {t} : ask'[u] = ask[u]
      BY <3>1 DEF Leave, Waiting, TypeOK, LocalsOK
    <3> HIDE DEF l, kk
    <3>4. \A u \in Threads \ {t} : InOwned(u) =>
              /\ cond'[tid[u]] = cond[tid[u]] /\ mask'[tid[u]] = mask[tid[u]]
              /\ Untouched(u)
      BY <2>1, <3>1, <3>2 DEF Untouched
    <3> QED BY <1>1, <3>3, <3>4, OutsideWait
  <2> QED BY <2>4, <2>5
<1> QED BY <1>2, <1>3

\* While t is outside of waits, a task that it may disturb has no owned waiter.
LEMMA NoneDisturbed ==
    ASSUME NEW k, MayDisturb(k)
    PROVE  \A u \in Threads : InOwned(u) => tid[u] # k
  BY DEF MayDisturb, Inside, InOwned

LEMMA WaitOwned ==
    ASSUME OwnedInv, TypeOK, NEW t \in Threads, NEW k, NEW c, NEW E, NEW timeout,
           EvWait(t, k, c, E, timeout)
    PROVE  OwnedInv'
<1>1. pc[t] = "idle" /\ \A u \in Threads : InOwned(u) => tid[u] # k
  BY NoneDisturbed DEF EvWait
<1>2. CASE \/ Fail(t, "ERR_TIDINV")
           \/ Fail(t, "SYS_ILLEGAL_REQUEST")
           \/ Fail(t, "ERR_NOEVT")
  BY <1>1, <1>2, NothingTouched DEF Fail, Return, tcbs
<1>3. CASE /\ Valid(k)
           /\ posted' = [posted EXCEPT ![k] = @ \ E]
           /\ ReturnTaken(t, k, E \cap posted[k])
           /\ UNCHANGED <<busy, name, cond, mask, wait4event>>
  <2>1. \A q \in Tids : q # k => wait4event'[q] = wait4event[q] /\ posted'[q] = posted[q]
    BY <1>3 DEF TypeOK, TcbsOK
  <2>2. Leave(t) /\ UNCHANGED <<cond, mask>>
    BY <1>3 DEF ReturnTaken
  <2>3. pc[t] # "postWake" /\ \A u \in Threads \ {t} : InOwned(u) => tid[u] # k
    BY <1>1
  <2> QED BY <2>1, <2>2, <2>3, ReturnsAlone
<1>4. CASE /\ Valid(k)
           /\ c \in {"OR", "AND"}
           /\ ~Satisfied(c, E, posted[k])
           /\ cond' = [cond EXCEPT ![k] = c]
           /\ mask' = [mask EXCEPT ![k] = E]
           /\ wait4event' = [wait4event EXCEPT ![k] = 1]
           /\ pc' = [pc EXCEPT ![t] = "waitCheck"]
           /\ tid' = [tid EXCEPT ![t] = k]
           /\ ask' = [ask EXCEPT ![t] = [task |-> k, cond |-> c, events |-> E]]
           /\ UNCHANGED <<busy, name, posted>>
  <2>1. k \in Tids
    BY <1>4 DEF Valid
  <2>2. /\ pc'[t] = "waitCheck" /\ tid'[t] = k
        /\ ask'[t] = [task |-> k, cond |-> c, events |-> E]
        /\ cond'[k] = c /\ mask'[k] = E /\ wait4event'[k] = 1 /\ posted'[k] = posted[k]
        /\ \A u \in Threads \ {t} : pc'[u] = pc[u] /\ tid'[u] = tid[u] /\ ask'[u] = ask[u]
        /\ \A q \in Tids \ {k} :
              /\ cond'[q] = cond[q] /\ mask'[q] = mask[q]
              /\ wait4event'[q] = wait4event[q] /\ posted'[q] = posted[q]
    BY <1>4, <2>1 DEF TypeOK, TcbsOK, LocalsOK
  <2>3. \A u \in Threads \ {t} : InOwned(u)' => InOwned(u) /\ tid[u] \in Tids \ {k}
    BY <1>1, <2>2 DEF InOwned, TypeOK, LocalsOK, Waiting
  <2>4. k \in Owned => \A u \in Threads \ {t} : pc[u] \in Waiting => tid[u] # k
    BY <1>1 DEF InOwned
  <2>5. WaitsAlone'
    <3> SUFFICES ASSUME NEW u \in Threads, NEW w \in Threads, InOwned(u)',
                        pc'[w] \in Waiting, tid'[w] = tid'[u]
                 PROVE  u = w
      BY DEF WaitsAlone
    <3>1. CASE u = t
      BY <2>2, <2>4, <3>1 DEF InOwned
    <3>2. CASE u # t
      <4>1. w # t
        BY <2>2, <2>3, <3>2
      <4> QED BY <2>2, <2>3, <3>2, <4>1 DEF OwnedInv, WaitsAlone
    <3> QED BY <3>1, <3>2
  <2>6. BlockHoldsRequest'
    BY <2>2, <2>3 DEF OwnedInv, BlockHoldsRequest
  <2>7. FlagFollowsEvents'
    <3>1. /\ wait4event'[k] = 0 <=> Satisfied(cond'[k], mask'[k], posted'[k])
          /\ pc'[t] # "resume"
      BY <1>4, <2>2
    <3>2. ASSUME NEW u \in Threads, InOwned(u)'
          PROVE  /\ wait4event'[tid'[u]] = 0 <=>
                       Satisfied(cond'[tid'[u]], mask'[tid'[u]], posted'[tid'[u]])
                 /\ pc'[u] = "resume" => wait4event'[tid'[u]] = 0
      <4>1. CASE u = t
        BY <2>2, <3>1, <4>1
      <4>2. CASE u # t
        BY <2>2, <2>3, <3>2, <4>2 DEF OwnedInv, FlagFollowsEvents
      <4> QED BY <4>1, <4>2
    <3> QED BY <3>2 DEF FlagFollowsEvents, Satisfied
  <2>8. ClearedIsBeingWoken'
    <3> SUFFICES ASSUME NEW u \in Threads, InOwned(u)', pc'[u] = "asleep",
                        wait4event'[tid'[u]] = 0
                 PROVE  \E w \in Threads : pc'[w] = "postWake" /\ tid'[w] = tid'[u]
      BY DEF ClearedIsBeingWoken
    <3>1. u # t /\ InOwned(u) /\ pc[u] = "asleep" /\ tid'[u] = tid[u] /\ wait4event[tid[u]] = 0
      BY <2>2, <2>3
    <3>2. PICK w \in Threads : pc[w] = "postWake" /\ tid[w] = tid[u]
      BY <3>1 DEF OwnedInv, ClearedIsBeingWoken
    <3> QED BY <1>1, <2>2, <3>1, <3>2
  <2> QED BY <2>5, <2>6, <2>7, <2>8 DEF OwnedInv
<1> QED BY <1>2, <1>3, <1>4 DEF EvWait

LEMMA ResumeOwned ==
    ASSUME OwnedInv, TypeOK, NEW t \in Threads, EvWaitResume(t)
    PROVE  OwnedInv'
<1> DEFINE k == tid[t]
<1>1. pc[t] \in {"resume", "resumeSig"} /\ Leave(t) /\ UNCHANGED <<cond, mask>>
  BY DEF EvWaitResume, ResumePosted, Return, ReturnTaken
<1>2. \A u \in Threads \ {t} : InOwned(u) => tid[u] # k
  BY <1>1 DEF OwnedInv, WaitsAlone, InOwned, Waiting
<1>3. \A q \in Tids : q # k => wait4event'[q] = wait4event[q] /\ posted'[q] = posted[q]
  BY DEF EvWaitResume, ResumePosted, TypeOK, TcbsOK
<1>4. pc[t] # "postWake"
  BY <1>1
<1> HIDE DEF k
<1> QED BY <1>1, <1>2, <1>3, <1>4, ReturnsAlone

LEMMA OwnedNext == TypeOK /\ OwnedInv /\ [Next]_vars => OwnedInv'
<1> SUFFICES ASSUME TypeOK, OwnedInv, [Next]_vars PROVE OwnedInv'
  OBVIOUS
<1>1. CASE UNCHANGED vars
  BY <1>1 DEF vars, OwnedInv, WaitsAlone, BlockHoldsRequest, FlagFollowsEvents,
              ClearedIsBeingWoken, InOwned, Satisfied
<1>2. ASSUME NEW t \in Threads, NEW n \in Names, TcbIdentify(t, n) \/ TcbAlloc(t, n)
      PROVE  OwnedInv'
  BY <1>2, NothingTouched DEF TcbIdentify, TcbAlloc, Fail, Return, tcbs
<1>3. ASSUME NEW t \in Threads, NEW k, TcbFree(t, k) \/ EvInquiry(t, k)
      PROVE  OwnedInv'
  BY <1>3, NothingTouched DEF TcbFree, EvInquiry, Fail, Return, tcbs
<1>4. ASSUME NEW t \in Threads, NEW k, NEW S, EvClear(t, k, S)
      PROVE  OwnedInv'
  <2>1. pc[t] = "idle" /\ \A u \in Threads : InOwned(u) => tid[u] # k
    BY <1>4, NoneDisturbed DEF EvClear
  <2>2. CASE ~Valid(k)
    BY <1>4, <2>1, <2>2, NothingTouched DEF EvClear, Fail, Return, tcbs
  <2>3. CASE Valid(k)
    <3>1. /\ Leave(t)
          /\ UNCHANGED <<cond, mask>>
          /\ \A q \in Tids : q # k => wait4event'[q] = wait4event[q] /\ posted'[q] = posted[q]
      BY <1>4, <2>3 DEF EvClear, Return, TypeOK, TcbsOK
    <3> QED BY <2>1, <3>1, ReturnsAlone
  <2> QED BY <2>2, <2>3
<1>5. ASSUME NEW t \in Threads, NEW k, NEW S, EvPost(t, k, S)
      PROVE  OwnedInv'
  BY <1>5, PostOwned
<1>6. ASSUME NEW t \in Threads, NEW k, NEW c, NEW E, NEW timeout,
             EvWait(t, k, c, E, timeout)
      PROVE  OwnedInv'
  BY <1>6, WaitOwned
<1>7. ASSUME NEW t \in Threads, EvPostWake(t)
      PROVE  OwnedInv'
  <2> DEFINE k == tid[t]
  <2>1. /\ pc[t] = "postWake" /\ pc'[t] = "idle"
        /\ UNCHANGED <<tcbs, ask>>
        /\ \A u \in Threads \ {t} :
              /\ tid'[u] = tid[u]
              /\ pc'[u] = IF pc[u] = "asleep" /\ tid[u] = k THEN "waitCheck" ELSE pc[u]
    BY <1>7 DEF EvPostWake, Woken, TypeOK, LocalsOK
  <2>2. pc[t] \notin Waiting /\ pc'[t] \notin Waiting
    BY <2>1 DEF Waiting
  <2> QED BY <2>1, <2>2, WakeUp
<1>8. ASSUME NEW t \in Threads, EvWaitCheck(t) \/ Signal(t)
      PROVE  OwnedInv'
  <2>1. PICK l \in Waiting :
           /\ pc' = [pc EXCEPT ![t] = l]
           /\ l = "resume" => wait4event[tid[t]] = 0
           /\ l = "asleep" => wait4event[tid[t]] # 0
    BY <1>8 DEF EvWaitCheck, Signal, Waiting
  <2>2. pc[t] \in Waiting /\ UNCHANGED <<tcbs, tid, ask>>
    BY <1>8 DEF EvWaitCheck, Signal, Waiting
  <2> QED BY <2>1, <2>2, GoOnWaiting
<1>9. ASSUME NEW t \in Threads, EvWaitResume(t)
      PROVE  OwnedInv'
  BY <1>9, ResumeOwned
<1>10. ASSUME NEW k \in Tids, GateWake(k)
       PROVE  OwnedInv'
  <2>1. UNCHANGED <<tcbs, ask, tid>> /\ pc' = Woken(k)
    BY <1>10 DEF GateWake
  <2>2. \A u \in Threads :
           /\ tid'[u] = tid[u]
           /\ pc'[u] = IF pc[u] = "asleep" /\ tid[u] = k THEN "waitCheck" ELSE pc[u]
    BY <2>1 DEF Woken
  <2>3. \A u \in Threads : pc'[u] \in Waiting => pc[u] \in Waiting
    BY <2>2 DEF Waiting
  <2>4. CASE \A u \in Threads : pc[u] # "asleep" \/ tid[u] # k
    BY <2>1, <2>2, <2>4 DEF tcbs, OwnedInv, WaitsAlone, BlockHoldsRequest,
       FlagFollowsEvents, ClearedIsBeingWoken, InOwned, Satisfied
  <2>5. CASE \E u \in Threads : pc[u] = "asleep" /\ tid[u] = k
    <3>1. \A u \in Threads : InOwned(u)' <=> InOwned(u)
      BY <2>2 DEF InOwned, Waiting
    <3>2. WaitsAlone'
      BY <2>2, <2>3, <3>1 DEF OwnedInv, WaitsAlone
    <3>3. BlockHoldsRequest'
      BY <2>1, <2>2, <3>1 DEF OwnedInv, BlockHoldsRequest, tcbs
    <3>4. FlagFollowsEvents'
      BY <2>1, <2>2, <3>1 DEF OwnedInv, FlagFollowsEvents, Satisfied, tcbs
    <3>5. ClearedIsBeingWoken'
      BY <2>1, <2>2, <3>1 DEF OwnedInv, ClearedIsBeingWoken, tcbs
    <3> QED BY <3>2, <3>3, <3>4, <3>5 DEF OwnedInv
  <2> QED BY <2>4, <2>5
<1> QED BY <1>1, <1>2, <1>3, <1>4, <1>5, <1>6, <1>7, <1>8, <1>9, <1>10
        DEF Next, Call, Step

\* A sleeper for an owned task whose events are posted is always about to be
\* woken (mmxp_ev.c:38-51), for any number of threads, tasks and events.
THEOREM NoEventWakeupLost == Spec => []NoLostEventWakeup
<1>1. OwnedInv => NoLostEventWakeup
  <2> SUFFICES ASSUME OwnedInv, NEW t \in Threads, pc[t] = "asleep", tid[t] \in Owned,
                      \/ wait4event[tid[t]] = 0
                      \/ Satisfied(ask[t].cond, ask[t].events, posted[tid[t]])
               PROVE  \E u \in Threads : pc[u] = "postWake" /\ tid[u] = tid[t]
    BY DEF NoLostEventWakeup
  <2>1. InOwned(t)
    BY DEF InOwned, Waiting
  <2>2. wait4event[tid[t]] = 0
    BY <2>1 DEF OwnedInv, BlockHoldsRequest, FlagFollowsEvents
  <2> QED BY <2>1, <2>2 DEF OwnedInv, ClearedIsBeingWoken
<1> QED BY <1>1, OwnedInit, OwnedNext, TypeCorrect, PTL DEF Spec

--------------------------------------------------------------------------------
\* The refinement mapping of TakesAnswers.
Raised == [k \in Owned |-> posted[k]]
Request == [t \in Threads |-> IF tid[t] \in Owned THEN ask[t] ELSE None]
Answer == IF reply.took /\ reply.tid \in Owned
          THEN [task |-> reply.tid, events |-> reply.events] ELSE None

LEMMA QuietSame ==
    ASSUME ~reply'.took \/ reply'.tid \notin Owned, UNCHANGED <<Raised, Request>>
    PROVE  Flags!Next
<1>1. Answer' = None
  BY DEF Answer
<1> QED BY <1>1 DEF Flags!Next, Flags!Quiet, Raised, Request, Answer

LEMMA RequestKept ==
    ASSUME TypeOK, NEW t \in Threads, Leave(t), pc[t] \notin Waiting
    PROVE  Request' = Request
<1>1. ask[t] = None /\ ask'[t] = None
  BY DEF Leave, TypeOK, LocalsOK
<1>2. \A u \in Threads \ {t} : ask'[u] = ask[u] /\ tid'[u] = tid[u]
  BY DEF Leave, TypeOK, LocalsOK
<1> QED BY <1>1, <1>2 DEF Request

LEMMA RequestDropped ==
    ASSUME TypeOK, NEW t \in Threads, Leave(t)
    PROVE  Request' = [Request EXCEPT ![t] = None]
<1>1. ask'[t] = None
  BY DEF Leave, TypeOK, LocalsOK
<1>2. \A u \in Threads \ {t} : ask'[u] = ask[u] /\ tid'[u] = tid[u]
  BY DEF Leave, TypeOK, LocalsOK
<1> QED BY <1>1, <1>2 DEF Request

LEMMA FailsQuietly ==
    ASSUME TypeOK, NEW t \in Threads, pc[t] = "idle", NEW e, NEW k, NEW S,
           Return(t, e, k, S), UNCHANGED posted
    PROVE  Flags!Next
<1>1. Request' = Request
  BY RequestKept DEF Return, Waiting
<1>2. ~reply'.took
  BY DEF Return
<1> QED BY <1>1, <1>2, QuietSame DEF Raised

\* A post or a clear.
LEMMA RaisesOrLowers ==
    ASSUME NEW k \in Tids, NEW S \in SUBSET Events, TypeOK,
           posted' \in {[posted EXCEPT ![k] = @ \cup S], [posted EXCEPT ![k] = @ \ S]},
           Request' = Request, ~reply'.took
    PROVE  Flags!Next
<1>1. CASE k \notin Owned
  <2>1. Raised' = Raised
    BY <1>1, MxpEvAssumption DEF Raised, TypeOK, TcbsOK
  <2> QED BY <2>1, QuietSame
<1>2. CASE k \in Owned
  <2>1. Raised' \in {[Raised EXCEPT ![k] = @ \cup S], [Raised EXCEPT ![k] = @ \ S]}
    BY <1>2, MxpEvAssumption DEF Raised, TypeOK, TcbsOK
  <2>2. Answer' = None
    BY DEF Answer
  <2> QED BY <1>2, <2>1, <2>2 DEF Flags!Next, Flags!Quiet, Raised, Request, Answer
<1> QED BY <1>1, <1>2

\* A wait for k that asked for E under c ends with the events S.
LEMMA Takes ==
    ASSUME TypeOK, NEW t \in Threads, NEW k \in Tids, NEW c \in {"OR", "AND"},
           NEW E \in SUBSET Events, NEW S,
           posted' = [posted EXCEPT ![k] = @ \ E],
           ReturnTaken(t, k, S),
           pc[t] \notin Waiting \/ (tid[t] = k /\ (k \in Owned => ask[t] = [task |-> k, cond |-> c, events |-> E])),
           k \in Owned => Satisfied(c, E, posted[k]) /\ S = E \cap posted[k]
    PROVE  Flags!Next
<1>1. reply'.tid = k /\ reply'.events = S /\ reply'.took /\ Leave(t)
  BY DEF ReturnTaken
<1>2. CASE k \notin Owned
  <2>1. Raised' = Raised
    BY <1>2, MxpEvAssumption DEF Raised, TypeOK, TcbsOK
  <2>2. Request' = Request
    <3>1. CASE pc[t] \notin Waiting
      BY <1>1, <3>1, RequestKept
    <3>2. CASE tid[t] = k
      <4>1. Request[t] = None
        BY <1>2, <3>2 DEF Request
      <4>2. [Request EXCEPT ![t] = None] = Request
        BY <4>1 DEF Request
      <4> QED BY <1>1, <4>2, RequestDropped
    <3> QED BY <3>1, <3>2
  <2> QED BY <1>1, <1>2, <2>1, <2>2, QuietSame
<1>3. CASE k \in Owned
  <2> DEFINE r == [task |-> k, cond |-> c, events |-> E]
  <2>1. r \in Flags!Requests
    BY <1>3 DEF Flags!Requests
  <2>2. Request[t] \in {None, r}
    BY <1>3 DEF Request, TypeOK, LocalsOK
  <2>3. Raised[k] = posted[k] /\ Raised' = [Raised EXCEPT ![k] = @ \ E]
    BY <1>3, MxpEvAssumption DEF Raised, TypeOK, TcbsOK
  <2>4. Request' = [Request EXCEPT ![t] = None]
    BY <1>1, RequestDropped
  <2>5. Answer' = [task |-> k, events |-> E \cap Raised[k]]
    BY <1>1, <1>3, <2>3 DEF Answer
  <2>6. Flags!Answers(r, Raised[k])
    BY <1>3, <2>3 DEF Flags!Answers, Satisfied
  <2>7. Flags!Take(t, r)
    BY <2>2, <2>3, <2>4, <2>5, <2>6 DEF Flags!Take, Raised, Request, Answer
  <2> QED BY <2>1, <2>7 DEF Flags!Next
<1> QED BY <1>2, <1>3

LEMMA TakesInit == Init => Flags!Init
  BY MxpEvAssumption DEF Init, Flags!Init, NoReply

LEMMA TakesNext == TypeOK /\ OwnedInv /\ [Next]_vars => [Flags!Next]_Flags!vars
<1> SUFFICES ASSUME TypeOK, OwnedInv, [Next]_vars PROVE [Flags!Next]_Flags!vars
  OBVIOUS
<1>1. CASE UNCHANGED vars
  BY <1>1 DEF vars, Flags!vars
<1>2. ASSUME NEW t \in Threads, NEW n \in Names, TcbIdentify(t, n) \/ TcbAlloc(t, n)
      PROVE  Flags!Next
  BY <1>2, FailsQuietly DEF TcbIdentify, TcbAlloc, Fail, tcbs
<1>3. ASSUME NEW t \in Threads, NEW k, TcbFree(t, k) \/ EvInquiry(t, k)
      PROVE  Flags!Next
  BY <1>3, FailsQuietly DEF TcbFree, EvInquiry, Fail, tcbs
<1>4. ASSUME NEW t \in Threads, NEW k, NEW S \in SUBSET Events, EvClear(t, k, S)
      PROVE  Flags!Next
  <2>1. CASE ~Valid(k)
    BY <1>4, <2>1, FailsQuietly DEF EvClear, Fail, tcbs
  <2>2. CASE Valid(k)
    <3>1. /\ k \in Tids /\ pc[t] = "idle"
          /\ posted' = [posted EXCEPT ![k] = @ \ S]
          /\ Leave(t) /\ ~reply'.took
      BY <1>4, <2>2 DEF EvClear, Valid, Return
    <3>2. Request' = Request
      BY <3>1, RequestKept DEF Waiting
    <3> QED BY <3>1, <3>2, RaisesOrLowers
  <2> QED BY <2>1, <2>2
<1>5. ASSUME NEW t \in Threads, NEW k, NEW S \in SUBSET Events, EvPost(t, k, S)
      PROVE  Flags!Next
  <2>1. CASE ~Valid(k)
    BY <1>5, <2>1, FailsQuietly DEF EvPost, Fail, tcbs
  <2>2. CASE Valid(k)
    <3>1. /\ k \in Tids /\ pc[t] = "idle"
          /\ posted' = [posted EXCEPT ![k] = @ \cup S]
      BY <1>5, <2>2 DEF EvPost, Valid
    <3>2. CASE Wakes(k, S)
      <4>1. tid' = [tid EXCEPT ![t] = k] /\ ask' = ask /\ reply' = NoReply
        BY <1>5, <2>2, <3>2 DEF EvPost
      <4>2. ask[t] = None
        BY <3>1 DEF TypeOK, LocalsOK, Waiting
      <4>3. Request' = Request
        BY <4>1, <4>2 DEF Request, TypeOK, LocalsOK
      <4>4. ~reply'.took
        BY <4>1 DEF NoReply
      <4> QED BY <3>1, <4>3, <4>4, RaisesOrLowers
    <3>3. CASE ~Wakes(k, S)
      <4>1. Leave(t) /\ ~reply'.took
        BY <1>5, <2>2, <3>3 DEF EvPost, Return
      <4>2. Request' = Request
        BY <3>1, <4>1, RequestKept DEF Waiting
      <4> QED BY <3>1, <4>1, <4>2, RaisesOrLowers
    <3> QED BY <3>2, <3>3
  <2> QED BY <2>1, <2>2
<1>6. ASSUME NEW t \in Threads, NEW k, NEW c, NEW E \in SUBSET Events, NEW timeout,
             EvWait(t, k, c, E, timeout)
      PROVE  Flags!Next
  <2>1. pc[t] = "idle"
    BY <1>6 DEF EvWait
  <2>2. CASE \/ Fail(t, "ERR_TIDINV")
             \/ Fail(t, "SYS_ILLEGAL_REQUEST")
             \/ Fail(t, "ERR_NOEVT")
    BY <2>1, <2>2, FailsQuietly DEF Fail, tcbs
  <2>3. CASE /\ Valid(k)
             /\ c \in {"OR", "AND"}
             /\ Satisfied(c, E, posted[k])
             /\ posted' = [posted EXCEPT ![k] = @ \ E]
             /\ ReturnTaken(t, k, E \cap posted[k])
    BY <2>1, <2>3, Takes DEF Valid, Waiting
  <2>4. CASE /\ Valid(k)
             /\ c \in {"OR", "AND"}
             /\ tid' = [tid EXCEPT ![t] = k]
             /\ ask' = [ask EXCEPT ![t] = [task |-> k, cond |-> c, events |-> E]]
             /\ reply' = NoReply
             /\ UNCHANGED <<busy, name, posted>>
    <3> DEFINE r == [task |-> k, cond |-> c, events |-> E]
    <3>1. k \in Tids /\ ask[t] = None /\ ~reply'.took /\ Raised' = Raised
      BY <2>1, <2>4 DEF Valid, TypeOK, LocalsOK, Waiting, NoReply, Raised
    <3>2. CASE k \notin Owned
      <4>1. Request' = Request
        BY <2>4, <3>1, <3>2 DEF Request, TypeOK, LocalsOK
      <4> QED BY <3>1, <4>1, QuietSame
    <3>3. CASE k \in Owned
      <4>1. Request[t] = None /\ Request' = [Request EXCEPT ![t] = r]
        BY <2>4, <3>1, <3>3 DEF Request, TypeOK, LocalsOK
      <4>2. r \in Flags!Requests
        BY <2>4, <3>3 DEF Flags!Requests
      <4>3. Answer' = None
        BY <3>1 DEF Answer
      <4> QED BY <3>1, <4>1, <4>2, <4>3
              DEF Flags!Next, Flags!Quiet, Raised, Request, Answer
    <3> QED BY <3>2, <3>3
  <2> QED BY <1>6, <2>2, <2>3, <2>4 DEF EvWait
<1>7. ASSUME NEW t \in Threads, EvPostWake(t)
      PROVE  Flags!Next
  <2>1. /\ pc[t] = "postWake"
        /\ tid' = [tid EXCEPT ![t] = 0]
        /\ reply' = [NoReply EXCEPT !.ret = "ERR_NOERR"]
        /\ UNCHANGED <<tcbs, ask>>
    BY <1>7 DEF EvPostWake
  <2>2. ask[t] = None
    BY <2>1 DEF TypeOK, LocalsOK, Waiting
  <2>3. Request' = Request
    BY <2>1, <2>2 DEF Request, TypeOK, LocalsOK
  <2>4. ~reply'.took /\ Raised' = Raised
    BY <2>1 DEF NoReply, Raised, tcbs
  <2> QED BY <2>3, <2>4, QuietSame
<1>8. ASSUME \/ \E t \in Threads : EvWaitCheck(t) \/ Signal(t)
             \/ \E k \in Tids : GateWake(k)
      PROVE  Flags!Next
  <2>1. reply' = NoReply /\ UNCHANGED <<tcbs, tid, ask>>
    BY <1>8 DEF EvWaitCheck, Signal, GateWake
  <2>2. ~reply'.took /\ Raised' = Raised /\ Request' = Request
    BY <2>1 DEF NoReply, Raised, Request, tcbs
  <2> QED BY <2>2, QuietSame
<1>9. ASSUME NEW t \in Threads, EvWaitResume(t)
      PROVE  Flags!Next
  <2> DEFINE k == tid[t]
  <2>1. k \in Tids /\ pc[t] \in {"resume", "resumeSig"}
    BY <1>9 DEF EvWaitResume, ResumePosted, TypeOK, LocalsOK
  <2>2. CASE pc[t] = "resumeSig"
    <3>1. Leave(t) /\ ~reply'.took /\ UNCHANGED posted
      BY <1>9, <2>2 DEF EvWaitResume, ResumePosted, Return
    <3>2. Request' = [Request EXCEPT ![t] = None]
      BY <3>1, RequestDropped
    <3>3. Answer' = None /\ Raised' = Raised
      BY <3>1 DEF Answer, Raised
    <3> QED BY <3>2, <3>3 DEF Flags!Next, Flags!Quiet, Raised, Request, Answer
  <2>3. CASE ResumePosted(t)
    <3> DEFINE S == IF cond[k] = "OR" THEN mask[k] \cap posted[k] ELSE mask[k]
    <3>1. /\ pc[t] = "resume"
          /\ posted' = [posted EXCEPT ![k] = @ \ mask[k]]
          /\ ReturnTaken(t, k, S)
      BY <2>3 DEF ResumePosted
    <3>2. cond[k] \in {"OR", "AND"} /\ mask[k] \in SUBSET Events
      BY <2>1 DEF TypeOK, TcbsOK
    <3>3. ASSUME k \in Owned
          PROVE  /\ ask[t] = [task |-> k, cond |-> cond[k], events |-> mask[k]]
                 /\ Satisfied(cond[k], mask[k], posted[k])
                 /\ S = mask[k] \cap posted[k]
      <4>1. InOwned(t)
        BY <3>1, <3>3 DEF InOwned, Waiting
      <4>2. cond[k] = ask[t].cond /\ mask[k] = ask[t].events
        BY <4>1 DEF OwnedInv, BlockHoldsRequest
      <4>3. ask[t] \in Asks /\ ask[t].task = k
        BY <3>1 DEF TypeOK, LocalsOK, Waiting
      <4>4. Satisfied(cond[k], mask[k], posted[k])
        BY <3>1, <4>1 DEF OwnedInv, FlagFollowsEvents
      <4>5. S = mask[k] \cap posted[k]
        BY <3>2, <4>4 DEF Satisfied
      <4> QED BY <4>2, <4>3, <4>4, <4>5 DEF Asks
    <3> HIDE DEF S, k
    <3>4. pc[t] \notin Waiting \/ (tid[t] = k /\ (k \in Owned =>
             ask[t] = [task |-> k, cond |-> cond[k], events |-> mask[k]]))
      BY <3>3 DEF k
    <3> QED BY <2>1, <3>1, <3>2, <3>3, <3>4, Takes
  <2> QED BY <1>9, <2>2, <2>3 DEF EvWaitResume
<1> QED BY <1>1, <1>2, <1>3, <1>4, <1>5, <1>6, <1>7, <1>8, <1>9 DEF Next, Call, Step

\* For owned tasks, what a wait returns is what its caller asked for, was posted
\* since and is returned to nobody else (mmxp_ev.c:38-47 against 128-134), for
\* any number of threads, tasks and events.
THEOREM EventsAreFlags == Spec => TakesAnswers
<1>1. Init => Flags!Init
  BY TakesInit
<1>2. TypeOK /\ OwnedInv /\ [Next]_vars => [Flags!Next]_Flags!vars
  BY TakesNext
<1> QED BY <1>1, <1>2, OwnedInit, OwnedNext, TypeCorrect, PTL
        DEF Spec, TakesAnswers, Flags!Spec

--------------------------------------------------------------------------------
(***************************************************************************)
(* Where posted events go.                                                 *)
(***************************************************************************)

\* Events leave task k only by a clear, or into the message of a waiter.
Accounted(k) ==
    posted[k] \ posted'[k] # {} =>
        \/ \E t \in Threads, S \in SUBSET Events : EvClear(t, k, S)
        \/ /\ reply'.took
           /\ reply'.tid = k
           /\ posted[k] \ posted'[k] \subseteq reply'.events

\* A wait that takes events out of j hands out all of them.
LEMMA TakenAccounted ==
    ASSUME TypeOK, NEW k \in Tids, NEW t, NEW j \in Tids,
           NEW E \in SUBSET Events, NEW S,
           posted' = [posted EXCEPT ![j] = @ \ E],
           ReturnTaken(t, j, S), E \cap posted[j] \subseteq S
    PROVE  Accounted(k)
<1>1. reply'.took /\ reply'.tid = j /\ reply'.events = S
  BY DEF ReturnTaken
<1>2. CASE k = j
  <2>1. posted'[k] = posted[k] \ E
    BY <1>2 DEF TypeOK, TcbsOK
  <2> QED BY <1>1, <1>2, <2>1 DEF Accounted
<1>3. CASE k # j
  <2>1. posted'[k] = posted[k]
    BY <1>3 DEF TypeOK, TcbsOK
  <2> QED BY <2>1 DEF Accounted
<1> QED BY <1>2, <1>3

LEMMA AllAccounted ==
    ASSUME TypeOK, Next, NEW k \in Tids
    PROVE  Accounted(k)
<1>0. ASSUME posted' = posted PROVE Accounted(k)
  BY <1>0 DEF Accounted
<1> USE DEF tcbs
<1>1. ASSUME NEW t \in Threads, NEW j, NEW S \in SUBSET Events, EvPost(t, j, S)
      PROVE  Accounted(k)
  <2>1. CASE posted' = [posted EXCEPT ![j] = @ \cup S]
    BY <2>1 DEF Accounted, TypeOK, TcbsOK
  <2> QED BY <1>0, <1>1, <2>1 DEF EvPost, Fail
<1>2. ASSUME NEW t \in Threads, NEW j, NEW S \in SUBSET Events, EvClear(t, j, S)
      PROVE  Accounted(k)
  <2>1. CASE j = k
    BY <1>2, <2>1 DEF Accounted
  <2>2. CASE j # k
    <3>1. posted'[k] = posted[k]
      BY <1>2, <2>2 DEF EvClear, Fail, TypeOK, TcbsOK
    <3> QED BY <3>1 DEF Accounted
  <2> QED BY <2>1, <2>2
<1>3. ASSUME NEW t \in Threads, NEW j, NEW c, NEW E \in SUBSET Events, NEW timeout,
             EvWait(t, j, c, E, timeout)
      PROVE  Accounted(k)
  <2>1. CASE /\ j \in Tids
             /\ posted' = [posted EXCEPT ![j] = @ \ E]
             /\ ReturnTaken(t, j, E \cap posted[j])
    BY <2>1, TakenAccounted
  <2> QED BY <1>0, <1>3, <2>1 DEF EvWait, Fail, Valid
<1>4. ASSUME NEW t \in Threads, EvWaitResume(t)
      PROVE  Accounted(k)
  <2>1. CASE ResumePosted(t)
    <3> DEFINE j == tid[t]
               S == IF cond[j] = "OR" THEN mask[j] \cap posted[j] ELSE mask[j]
    <3>1. j \in Tids
      BY <2>1 DEF ResumePosted, TypeOK, LocalsOK
    <3>2. mask[j] \in SUBSET Events /\ mask[j] \cap posted[j] \subseteq S
      BY <3>1 DEF TypeOK, TcbsOK
    <3>3. posted' = [posted EXCEPT ![j] = @ \ mask[j]] /\ ReturnTaken(t, j, S)
      BY <2>1 DEF ResumePosted
    <3> HIDE DEF j, S
    <3> QED BY <3>1, <3>2, <3>3, TakenAccounted
  <2> QED BY <1>0, <1>4, <2>1 DEF EvWaitResume
<1>5. ASSUME NEW t \in Threads,
             \/ \E n \in Names : TcbIdentify(t, n) \/ TcbAlloc(t, n)
             \/ \E j \in Tids \cup {0} : TcbFree(t, j) \/ EvInquiry(t, j)
             \/ EvPostWake(t) \/ EvWaitCheck(t) \/ Signal(t)
      PROVE  Accounted(k)
  BY <1>0, <1>5 DEF TcbIdentify, TcbAlloc, TcbFree, EvInquiry, EvPostWake,
                    EvWaitCheck, Signal, Fail
<1>6. ASSUME NEW j \in Tids, GateWake(j)
      PROVE  Accounted(k)
  BY <1>0, <1>6 DEF GateWake
<1> QED BY <1>1, <1>2, <1>3, <1>4, <1>5, <1>6 DEF Next, Call, Step

\* No event vanishes unseen (mmxp_ev.c:78-79, 85-86, 129-133, 154): for any
\* number of threads and tasks and any overlap of waits, posts, clears and
\* signals, an event that stops being posted was cleared or is handed out.
THEOREM ConsumedReported == Spec => ConsumedIsReported
<1>1. TypeOK /\ [Next]_vars => [\A k \in Tids : Accounted(k)]_vars
  BY AllAccounted
<1>2. Spec => [][\A k \in Tids : Accounted(k)]_vars
  BY <1>1, TypeCorrect, PTL DEF Spec
<1> QED BY <1>2 DEF ConsumedIsReported, Accounted

--------------------------------------------------------------------------------

\* A task in use keeps its name: names are written for unused control blocks.
LEMMA BusyKeepsName ==
    ASSUME TypeOK, [Next]_vars, NEW k \in Tids, Busy(k)
    PROVE  name'[k] = name[k]
<1>1. ASSUME NEW t \in Threads, NEW n \in Names, TcbAlloc(t, n)
      PROVE  name'[k] = name[k]
  <2>1. CASE UNCHANGED tcbs
    BY <2>1 DEF tcbs
  <2>2. CASE Unused # {} /\ name' = [name EXCEPT ![Least(Unused)] = n]
    <3>1. Least(Unused) # k
      BY <2>2, LeastIn DEF Unused
    <3> QED BY <2>2, <3>1 DEF TypeOK, TcbsOK
  <2> QED BY <1>1, <2>1, <2>2 DEF TcbAlloc, Fail
<1>2. ASSUME NEW t \in Threads, NEW j, TcbFree(t, j)
      PROVE  UNCHANGED name
  BY <1>2 DEF TcbFree, Fail, tcbs
<1>3. ASSUME NEW j \in Tids, GateWake(j)
      PROVE  UNCHANGED name
  BY <1>3 DEF GateWake, tcbs
<1>4. CASE UNCHANGED vars
  BY <1>4 DEF vars
<1> QED BY <1>1, <1>2, <1>3, <1>4, NamesKept DEF Next, Call

\* The wake-up and the post of the interrupt keep the types.
LEMMA PostByTidOK ==
    ASSUME TypeOK, NEW k \in Tids, NEW S \in SUBSET Events, PostByTid(k, S),
           UNCHANGED <<tid, ask>>, ReplyOK'
    PROVE  TypeOK'
<1>1. TcbsOK'
  BY DEF PostByTid, TypeOK, TcbsOK
<1>2. /\ pc' \in [Threads -> Pcs]
      /\ \A u \in Threads : pc'[u] # pc[u] => pc[u] \in Waiting /\ pc'[u] \in Waiting
  BY DEF PostByTid, Woken, TypeOK, LocalsOK, Pcs, Waiting
<1>3. \A t \in Threads : pc'[t] # "idle" => tid'[t] \in Tids
  BY <1>2 DEF TypeOK, LocalsOK, Waiting
<1>4. \A t \in Threads :
         IF pc'[t] \in Waiting THEN ask'[t] \in Asks /\ ask'[t].task = tid'[t]
                               ELSE ask'[t] = None
  BY <1>2 DEF TypeOK, LocalsOK
<1>5. tid' \in [Threads -> 0 .. MaxTasks] /\ ask' \in [Threads -> Asks \cup {None}]
  BY DEF TypeOK, LocalsOK
<1> QED BY <1>1, <1>2, <1>3, <1>4, <1>5 DEF TypeOK, LocalsOK, ReplyOK

\* The kept id: unknown, or that of the task DEX for as long as it is kept.
DexOK ==
    /\ dexTid \in Tids \cup {-1}
    /\ (kept /\ dexTid # -1) => Busy(dexTid) /\ name[dexTid] = Dex

DexInv == TypeOK /\ TaskNamesUnique /\ DexOK

LEMMA LookedUpOK ==
    /\ LookedUp \in Tids \cup {-1}
    /\ LookedUp # -1 => Busy(LookedUp) /\ name[LookedUp] = Dex
    /\ LookedUp = -1 => \A k \in Tids : ~(Busy(k) /\ name[k] = Dex)
<1>1. CASE ByName(Dex) = {}
  BY <1>1, MxpEvAssumption DEF LookedUp, ByName, Tids
<1>2. CASE ByName(Dex) # {}
  <2>1. ByName(Dex) \in SUBSET Tids
    BY DEF ByName
  <2>2. Least(ByName(Dex)) \in ByName(Dex)
    BY <1>2, <2>1, LeastIn
  <2>3. \A k \in Tids : k # -1
    BY MxpEvAssumption DEF Tids
  <2> QED BY <1>2, <2>2, <2>3 DEF LookedUp, ByName
<1> QED BY <1>1, <1>2

\* What the interrupt does, in terms of the id it ends up with.
LEMMA InterruptPosts ==
    ASSUME DexInv, TeleInterrupt
    PROVE  /\ TypeOK' /\ UNCHANGED <<busy, name>>
           /\ dexTid' \in Tids \cup {-1}
           /\ kept => \/ /\ dexTid' \in Tids
                         /\ Busy(dexTid') /\ name[dexTid'] = Dex
                         /\ posted' = [posted EXCEPT ![dexTid'] = @ \cup {Transition}]
                      \/ /\ \A k \in Tids : ~(Busy(k) /\ name[k] = Dex)
                         /\ UNCHANGED posted
<1>1. dexTid' = IF dexTid < 0 THEN LookedUp ELSE dexTid
  BY DEF TeleInterrupt
<1>2. dexTid \in Tids => ~(dexTid < 0)
  BY MxpEvAssumption DEF Tids
<1>3. /\ dexTid' \in Tids \cup {-1}
      /\ kept => IF dexTid' = -1
                 THEN \A k \in Tids : ~(Busy(k) /\ name[k] = Dex)
                 ELSE Busy(dexTid') /\ name[dexTid'] = Dex
  <2>1. CASE dexTid = -1
    BY <1>1, <2>1, LookedUpOK
  <2>2. CASE dexTid \in Tids
    BY <1>1, <1>2, <2>2 DEF DexInv, DexOK
  <2> QED BY <2>1, <2>2 DEF DexInv, DexOK
<1>4. IF Valid(dexTid') THEN PostByTid(dexTid', {Transition}) ELSE UNCHANGED <<tcbs, pc>>
  BY <1>1 DEF TeleInterrupt
<1>5. UNCHANGED <<tid, ask>> /\ ReplyOK'
  BY NoReplyOK DEF TeleInterrupt, ReplyOK
<1>6. CASE Valid(dexTid')
  <2>1. dexTid' \in Tids /\ {Transition} \in SUBSET Events
    BY <1>6, TeleDexAssumption DEF Valid
  <2>2. -1 \notin Tids
    BY MxpEvAssumption DEF Tids
  <2>3. PostByTid(dexTid', {Transition})
    BY <1>4, <1>6
  <2>4. TypeOK'
    BY <1>5, <2>1, <2>3, PostByTidOK DEF DexInv
  <2> QED BY <1>3, <2>1, <2>2, <2>3, <2>4 DEF PostByTid
<1>7. CASE ~Valid(dexTid')
  <2>1. UNCHANGED <<tcbs, pc>>
    BY <1>4, <1>7
  <2>2. TypeOK'
    BY <1>5, <2>1, MoveOK DEF DexInv, TypeOK, LocalsOK
  <2> QED BY <1>3, <1>7, <2>1, <2>2 DEF tcbs, Valid
<1> QED BY <1>6, <1>7

LEMMA DexInvInit == DexInit => DexInv
<1> SUFFICES ASSUME DexInit PROVE DexInv
  OBVIOUS
<1>1. TypeOK /\ TaskNamesUnique
  BY TypeInit DEF DexInit, Init, TaskNamesUnique, Busy
<1> QED BY <1>1 DEF DexInit, DexInv, DexOK

LEMMA DexInvNext == DexInv /\ [DexNext]_dexVars => DexInv'
<1> SUFFICES ASSUME DexInv, [DexNext]_dexVars PROVE DexInv'
  OBVIOUS
<1>1. CASE TeleInterrupt
  <2>1. TypeOK' /\ UNCHANGED <<busy, name>> /\ dexTid' \in Tids \cup {-1}
    BY <1>1, InterruptPosts
  <2>2. kept' = kept
    BY <1>1 DEF TeleInterrupt
  <2>3. (kept /\ dexTid' # -1) => Busy(dexTid') /\ name[dexTid'] = Dex
    <3>1. CASE dexTid = -1
      BY <1>1, <3>1, LookedUpOK DEF TeleInterrupt
    <3>2. CASE dexTid \in Tids
      BY <1>1, <3>2, MxpEvAssumption DEF TeleInterrupt, Tids, DexInv, DexOK
    <3> QED BY <3>1, <3>2 DEF DexInv, DexOK
  <2>4. TaskNamesUnique' /\ DexOK'
    BY <2>1, <2>2, <2>3 DEF DexInv, DexOK, TaskNamesUnique, Busy
  <2> QED BY <2>1, <2>4 DEF DexInv
<1>2. CASE MxpStep \/ UNCHANGED dexVars
  <2>1. [Next]_vars /\ UNCHANGED <<dexTid, kept>>
    BY <1>2 DEF MxpStep, dexVars
  <2>2. TypeOK' /\ TaskNamesUnique'
    BY <2>1, TypeNext, NamesNext DEF DexInv
  <2>3. ASSUME kept, dexTid # -1
        PROVE  Busy(dexTid)' /\ name'[dexTid] = Dex
    <3>1. dexTid \in Tids /\ Busy(dexTid) /\ name[dexTid] = Dex
      BY <2>3 DEF DexInv, DexOK
    <3>2. name'[dexTid] = Dex
      BY <2>1, <3>1, BusyKeepsName DEF DexInv
    <3>3. CASE MxpStep
      <4>1. \A k \in Tids : (Busy(k) /\ name[k] = Dex) => busy'[k] = 1
        BY <2>3, <3>3 DEF MxpStep
      <4> QED BY <2>1, <3>1, <3>2, <4>1 DEF Busy
    <3>4. CASE UNCHANGED dexVars
      BY <2>1, <3>1, <3>2, <3>4 DEF dexVars, vars, Busy
    <3> QED BY <1>2, <3>3, <3>4
  <2>4. DexOK'
    BY <2>1, <2>3 DEF DexInv, DexOK, Busy
  <2> QED BY <2>2, <2>4 DEF DexInv
<1> QED BY <1>1, <1>2 DEF DexNext

\* The id of the task DEX that tele_int_handler keeps for ever
\* (tiuhal_pform.c:82-88) names a task in use called DEX for as long as nobody
\* frees that task, whatever else threads allocate and free.
THEOREM KeptIdIsDex == DexSpec => []DexInv
  BY DexInvInit, DexInvNext, PTL DEF DexSpec

\* Every telephony interrupt posts the transition event to the task DEX and to
\* no other, as long as DEX is never freed (tiuhal_pform.c:90-95).
THEOREM InterruptsReachDex == DexSpec => InterruptReachesDex
<1> DEFINE Posts == (TeleInterrupt /\ kept) =>
                      \A k \in Tids :
                         posted'[k] = IF Busy(k) /\ name[k] = Dex
                                      THEN posted[k] \cup {Transition} ELSE posted[k]
<1>1. DexInv /\ [DexNext]_dexVars => [Posts]_dexVars
  <2> SUFFICES ASSUME DexInv, TeleInterrupt, kept, NEW k \in Tids
               PROVE  posted'[k] = IF Busy(k) /\ name[k] = Dex
                                   THEN posted[k] \cup {Transition} ELSE posted[k]
    OBVIOUS
  <2>1. CASE /\ dexTid' \in Tids
             /\ Busy(dexTid') /\ name[dexTid'] = Dex
             /\ posted' = [posted EXCEPT ![dexTid'] = @ \cup {Transition}]
    <3>1. (Busy(k) /\ name[k] = Dex) <=> k = dexTid'
      BY <2>1 DEF DexInv, TaskNamesUnique
    <3> QED BY <2>1, <3>1 DEF DexInv, TypeOK, TcbsOK
  <2>2. CASE (\A j \in Tids : ~(Busy(j) /\ name[j] = Dex)) /\ UNCHANGED posted
    BY <2>2
  <2> QED BY <2>1, <2>2, InterruptPosts
<1> QED BY <1>1, KeptIdIsDex, PTL DEF InterruptReachesDex, DexSpec
================================================================================
