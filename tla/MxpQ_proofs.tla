------------------------------ MODULE MxpQ_proofs ------------------------------
(***************************************************************************)
(* Proofs about MxpQ, for every number of threads, queues, containers and  *)
(* messages and whatever the callers do.                                   *)
(***************************************************************************)
EXTENDS MxpQ, FiniteSetTheorems, SequenceTheorems, TLAPS

\* Returning from a call, or going on with it, keeps the thread's variables
\* typed.
LEMMA ReturnAllOK ==
    ASSUME LocalsOK, NEW t \in Threads, NEW e \in Codes,
           NEW m \in Msgs \cup {NoMsg}, NEW v \in Int, ReturnAll(t, e, m, v)
    PROVE  LocalsOK'
  BY MxpQAssumption DEF LocalsOK, ReturnAll, Pcs, Waiting, Qids

LEMMA ReturnOK ==
    ASSUME LocalsOK, NEW t \in Threads, NEW e \in Codes, NEW v \in Int,
           Return(t, e, v)
    PROVE  LocalsOK'
  BY ReturnAllOK DEF Return

LEMMA NoReplyOK == NoReply \in [ret : Codes, msg_ptr : Msgs \cup {NoMsg}, num : Int]
  BY DEF NoReply, Codes

LEMMA ContinueOK ==
    ASSUME LocalsOK, NEW t \in Threads, NEW l \in Pcs,
           NEW q \in 0 .. MaxQueues + 1,
           l \in Waiting \cup {"postWake"} => q \in Qids,
           l = "delAll" => q # 0,
           wakeT' \in [Threads -> TaskIds],
           Continue(t, q, l)
    PROVE  LocalsOK'
  BY NoReplyOK DEF LocalsOK, Continue

\* qcb_by_name and msg_queue_alloc find a queue among those they look at.
LEMMA LeastIn ==
    ASSUME NEW S \in SUBSET Qids, S # {}
    PROVE  Least(S) \in S
<1> DEFINE R == OpToRel(<, Nat)
<1>1. IsWellFoundedOn(R, Nat)
  BY NatLessThanWellFounded
<1>2. \A x, y \in Nat : <<x, y>> \notin R => y <= x
  BY DEF OpToRel
<1>3. S \subseteq Nat
  BY MxpQAssumption DEF Qids
<1> HIDE DEF R
<1>4. PICK x \in S : \A y \in S : <<y, x>> \notin R
  BY <1>1, <1>3, WFMin
<1>5. \A y \in S : x <= y
  BY <1>2, <1>3, <1>4
<1> QED BY <1>5 DEF Least

LEMMA TypeInit == Init => TypeOK
<1> SUFFICES ASSUME Init PROVE TypeOK
  OBVIOUS
<1>1. PoolOK
  <2>1. Cardinality(Conts) \in Nat
    BY FS_CardinalityType, MxpQAssumption
  <2> QED BY <2>1 DEF Init, PoolOK
<1>2. QcbsOK
  BY MxpQAssumption DEF Init, QcbsOK
<1>3. LocalsOK
  BY MxpQAssumption, NoReplyOK DEF Init, LocalsOK, Pcs, Waiting
<1> QED BY <1>1, <1>2, <1>3 DEF TypeOK

\* What the masked sections do to the pool and the control blocks keeps their
\* types.
LEMMA ReleaseOK ==
    ASSUME TypeOK, NEW q \in Qids, Release(q)
    PROVE  PoolOK' /\ QcbsOK'
  BY DEF TypeOK, PoolOK, QcbsOK, Release

LEMMA EnqueueOK ==
    ASSUME TypeOK, NEW q \in Qids, NEW m \in Msgs, free # <<>>, Enqueue(q, m)
    PROVE  PoolOK' /\ QcbsOK'
<1>1. Head(free) \in Conts /\ Tail(free) \in Seq(Conts)
  BY HeadTailProperties DEF TypeOK, PoolOK
<1>2. PoolOK'
  BY <1>1 DEF TypeOK, PoolOK, Enqueue
<1>3. QcbsOK'
  BY DEF TypeOK, QcbsOK, Enqueue
<1> QED BY <1>2, <1>3

LEMMA OopsOK ==
    ASSUME TypeOK, NEW t \in Threads, Oops(t)
    PROVE  TypeOK'
<1>1. LocalsOK'
  BY ContinueOK DEF Oops, Waiting, Pcs, TypeOK, LocalsOK
<1>2. PoolOK' /\ QcbsOK'
  BY DEF Oops, TypeOK, PoolOK, QcbsOK, pool, qcbs
<1> QED BY <1>1, <1>2 DEF TypeOK

LEMMA TakeHeadOK ==
    ASSUME TypeOK, NEW t \in Threads, NEW q \in Qids, msgcnt[q] # 0,
           TakeHead(t, q)
    PROVE  TypeOK'
<1>1. CASE list[q] = <<>>
  BY <1>1, OopsOK DEF TakeHead
<1>2. CASE list[q] # <<>>
  <2>1. Head(list[q]) \in Conts /\ Tail(list[q]) \in Seq(Conts)
    BY <1>2, HeadTailProperties DEF TypeOK, PoolOK
  <2> /\ list' = [list EXCEPT ![q] = Tail(@)]
      /\ free' = Append(free, Head(list[q]))
      /\ msgcnt' = [msgcnt EXCEPT ![q] = @ - 1]
      /\ ReturnAll(t, "ERR_NOERR", cmsg[Head(list[q])], 0)
      /\ UNCHANGED <<cmsg, state, name, depth, taskId, wait4msg>>
    BY <1>2 DEF TakeHead
  <2>2. PoolOK'
    BY <2>1 DEF TypeOK, PoolOK
  <2>3. QcbsOK'
    BY DEF TypeOK, QcbsOK
  <2>4. cmsg[Head(list[q])] \in Msgs \cup {NoMsg}
    BY <2>1 DEF TypeOK, PoolOK
  <2>5. LocalsOK'
    BY <2>4, ReturnAllOK DEF TypeOK, Codes
  <2> QED BY <2>2, <2>3, <2>5 DEF TypeOK
<1> QED BY <1>1, <1>2

\* Every step keeps the types, whatever the callers do.
LEMMA TypeNext == TypeOK /\ [Next]_vars => TypeOK'
<1> SUFFICES ASSUME TypeOK, [Next]_vars PROVE TypeOK'
  OBVIOUS
<1> USE DEF Codes
<1> DEFINE Keeps == PoolOK' /\ QcbsOK'
<1>0. UNCHANGED <<pool, qcbs>> => Keeps
  BY DEF TypeOK, PoolOK, QcbsOK, pool, qcbs
<1>1. ASSUME NEW t \in Threads, NEW n \in Names, NEW d \in Depths,
             NEW tid \in TaskIds, QCreate(t, n, d, tid)
      PROVE  TypeOK'
  <2>1. CASE ByName(n) # {} \/ Unused = {}
    <3>1. LocalsOK'
      BY <1>1, <2>1, ReturnOK DEF QCreate, TypeOK
    <3> QED BY <1>0, <1>1, <2>1, <3>1 DEF QCreate, TypeOK
  <2>2. CASE ByName(n) = {} /\ Unused # {}
    <3> DEFINE q == Least(Unused)
    <3>1. q \in Qids
      BY <1>1, <2>2, LeastIn DEF QCreate, Unused
    <3> HIDE DEF q
    <3>2. /\ state' = [state EXCEPT ![q] = 1]
          /\ name' = [name EXCEPT ![q] = n]
          /\ msgcnt' = [msgcnt EXCEPT ![q] = 0]
          /\ depth' = [depth EXCEPT ![q] = d]
          /\ taskId' = [taskId EXCEPT ![q] = tid]
          /\ wait4msg' = [wait4msg EXCEPT ![q] = 0]
          /\ Return(t, "ERR_NOERR", q)
      BY <1>1, <2>2 DEF QCreate, q
    <3>3. QcbsOK'
      BY <3>1, <3>2, MxpQAssumption DEF TypeOK, QcbsOK
    <3>4. PoolOK'
      BY <1>1 DEF QCreate, TypeOK, PoolOK, pool
    <3>5. LocalsOK'
      BY <3>1, <3>2, ReturnOK, MxpQAssumption DEF TypeOK, Qids
    <3> QED BY <3>3, <3>4, <3>5 DEF TypeOK
  <2> QED BY <2>1, <2>2
<1>2. ASSUME NEW t \in Threads, NEW q \in Qids \cup {0}, QDelete(t, q)
      PROVE  TypeOK'
  <2>1. LocalsOK'
    BY <1>2, ReturnOK DEF QDelete, TypeOK
  <2> QED BY <1>0, <1>2, <2>1, ReleaseOK DEF QDelete, TypeOK, Valid
<1>3. ASSUME NEW t \in Threads, QDeleteAll(t)
      PROVE  TypeOK'
  <2>1. LocalsOK'
    BY <1>3, ContinueOK, MxpQAssumption DEF QDeleteAll, TypeOK, LocalsOK, Pcs, Waiting
  <2> QED BY <1>0, <1>3, <2>1 DEF QDeleteAll, TypeOK
<1>4. ASSUME NEW t \in Threads, QDeleteNext(t)
      PROVE  TypeOK'
  <2>1. CASE qid[t] \in Qids /\ Continue(t, qid[t] + 1, "delAll") /\ UNCHANGED wakeT
    BY <1>0, <1>4, <2>1, ContinueOK, ReleaseOK, MxpQAssumption
       DEF QDeleteNext, TypeOK, LocalsOK, Pcs, Waiting, Qids, Valid, Unused
  <2>2. CASE Return(t, "ERR_NOERR", 0) /\ UNCHANGED <<pool, qcbs>>
    BY <1>0, <2>2, ReturnOK DEF TypeOK
  <2> QED BY <1>4, <2>1, <2>2 DEF QDeleteNext, Valid, Unused
<1>5. ASSUME NEW t \in Threads, NEW q \in Qids \cup {0}, NEW m \in Msgs,
             QPost(t, q, m)
      PROVE  TypeOK'
  <2>1. CASE Oops(t)
    BY <2>1, OopsOK
  <2>2. CASE \E e \in Codes : Return(t, e, 0) /\ UNCHANGED <<pool, qcbs>>
    BY <1>0, <2>2, ReturnOK DEF TypeOK
  <2>3. CASE /\ q \in Qids
             /\ free # <<>>
             /\ Enqueue(q, m)
             /\ \/ Return(t, "ERR_NOERR", 0)
                \/ \E l \in {"postWake", "postEvent"} :
                      /\ Continue(t, q, l)
                      /\ wakeT' = [wakeT EXCEPT ![t] = taskId[q]]
    <3>1. PoolOK' /\ QcbsOK'
      BY <2>3, EnqueueOK
    <3>2. LocalsOK'
      <4>1. CASE Return(t, "ERR_NOERR", 0)
        BY <4>1, ReturnOK DEF TypeOK
      <4>2. ASSUME NEW l \in {"postWake", "postEvent"}, Continue(t, q, l),
                   wakeT' = [wakeT EXCEPT ![t] = taskId[q]]
            PROVE  LocalsOK'
        <5>1. wakeT' \in [Threads -> TaskIds]
          BY <2>3, <4>2 DEF TypeOK, LocalsOK, QcbsOK
        <5>2. l \in Pcs /\ q \in 0 .. MaxQueues + 1 /\ l # "delAll"
          BY <2>3, MxpQAssumption DEF Pcs, Waiting, Qids
        <5> QED BY <2>3, <4>2, <5>1, <5>2, ContinueOK DEF TypeOK
      <4> QED BY <2>3, <4>1, <4>2
    <3> QED BY <3>1, <3>2 DEF TypeOK
  <2> QED BY <1>5, <2>1, <2>2, <2>3 DEF QPost, Valid
<1>6. ASSUME NEW t \in Threads, QPostWake(t)
      PROVE  TypeOK'
  <2>1. Woken(qid[t]) \in [Threads -> Pcs]
    BY DEF TypeOK, LocalsOK, Woken, Pcs, Waiting
  <2>2. reply' \in [ret : Codes, msg_ptr : Msgs \cup {NoMsg}, num : Int]
    BY <1>6, NoReplyOK DEF QPostWake, NoReply
  <2>3. ASSUME NEW l \in {"postEvent", "idle"}, pc' = [Woken(qid[t]) EXCEPT ![t] = l]
        PROVE  /\ pc' \in [Threads -> Pcs]
               /\ \A u \in Threads : pc'[u] \in Waiting \cup {"postWake", "delAll"} =>
                     u # t /\ (pc[u] = pc'[u] \/ (pc[u] = "asleep" /\ pc'[u] = "waitCheck"))
    BY <2>1, <2>3 DEF Woken, Pcs, Waiting
  <2>4. /\ qid' \in [Threads -> 0 .. MaxQueues + 1]
        /\ \A u \in Threads : u # t => qid'[u] = qid[u]
    BY <1>6, MxpQAssumption DEF QPostWake, TypeOK, LocalsOK
  <2>5. pc' \in [Threads -> Pcs]
    BY <1>6, <2>3 DEF QPostWake
  <2>6. \A u \in Threads : pc'[u] \in Waiting \cup {"postWake"} => qid'[u] \in Qids
    BY <1>6, <2>3, <2>4 DEF QPostWake, TypeOK, LocalsOK, Waiting
  <2>7. \A u \in Threads : pc'[u] = "delAll" => qid'[u] # 0
    BY <1>6, <2>3, <2>4 DEF QPostWake, TypeOK, LocalsOK, Waiting
  <2>8. LocalsOK'
    BY <1>6, <2>2, <2>4, <2>5, <2>6, <2>7 DEF QPostWake, TypeOK, LocalsOK
  <2> QED BY <1>0, <1>6, <2>8 DEF QPostWake, TypeOK
<1>7. ASSUME NEW t \in Threads, QPostEvent(t)
      PROVE  TypeOK'
  BY <1>0, <1>7, ReturnOK DEF QPostEvent, TypeOK
<1>8. ASSUME NEW t \in Threads, NEW q \in Qids \cup {0}, NEW b \in BOOLEAN,
             QWait(t, q, b)
      PROVE  TypeOK'
  <2>1. CASE \E e \in Codes : Return(t, e, 0) /\ UNCHANGED <<pool, qcbs>>
    BY <1>0, <2>1, ReturnOK DEF TypeOK
  <2>2. CASE q \in Qids /\ msgcnt[q] # 0 /\ TakeHead(t, q)
    BY <2>2, TakeHeadOK
  <2>3. CASE /\ q \in Qids
             /\ wait4msg' = [wait4msg EXCEPT ![q] = 1]
             /\ Continue(t, q, "waitCheck")
             /\ UNCHANGED <<pool, wakeT, state, name, msgcnt, depth, taskId>>
    <3>1. LocalsOK'
      BY <2>3, ContinueOK, MxpQAssumption DEF TypeOK, LocalsOK, Pcs, Waiting, Qids
    <3> QED BY <2>3, <3>1 DEF TypeOK, PoolOK, QcbsOK, pool
  <2> QED BY <1>8, <2>1, <2>2, <2>3 DEF QWait, Valid
<1>9. ASSUME NEW t \in Threads, QWaitCheck(t) \/ Signal(t)
      PROVE  TypeOK'
  <2>1. LocalsOK'
    BY <1>9, NoReplyOK DEF QWaitCheck, Signal, TypeOK, LocalsOK, Pcs, Waiting
  <2> QED BY <1>0, <1>9, <2>1 DEF QWaitCheck, Signal, TypeOK
<1>10. ASSUME NEW t \in Threads, QWaitResume(t)
       PROVE  TypeOK'
  <2>1. CASE pc[t] = "resumeSig"
    <3>1. qid[t] \in Qids
      BY <2>1 DEF TypeOK, LocalsOK, Waiting
    <3>2. LocalsOK'
      BY <1>10, <2>1, ReturnOK DEF QWaitResume, TypeOK
    <3> QED BY <1>10, <2>1, <3>1, <3>2
            DEF QWaitResume, TypeOK, PoolOK, QcbsOK, pool
  <2>2. CASE pc[t] = "resume"
    <3>1. qid[t] \in Qids
      BY <2>2 DEF TypeOK, LocalsOK, Waiting
    <3>2. CASE msgcnt[qid[t]] = 0
      BY <1>0, <1>10, <2>2, <3>2, ReturnOK DEF QWaitResume, TypeOK
    <3>3. CASE msgcnt[qid[t]] # 0
      BY <1>10, <2>2, <3>1, <3>3, TakeHeadOK DEF QWaitResume
    <3> QED BY <3>2, <3>3
  <2> QED BY <1>10, <2>1, <2>2 DEF QWaitResume
<1>11. ASSUME NEW t \in Threads, NEW n \in Names, QIdentify(t, n)
       PROVE  TypeOK'
  <2> DEFINE found == IF ByName(n) = {} THEN -1 ELSE Least(ByName(n))
  <2>1. found \in Int
    BY LeastIn, MxpQAssumption DEF ByName, Qids
  <2> HIDE DEF found
  <2>2. Return(t, IF found = 0 THEN "ERR_INVNAME" ELSE "ERR_NOERR", found)
    BY <1>11 DEF QIdentify, found
  <2>3. LocalsOK'
    BY <2>1, <2>2, ReturnOK DEF TypeOK
  <2> QED BY <1>0, <1>11, <2>3 DEF QIdentify, TypeOK
<1>12. ASSUME NEW t \in Threads, NEW q \in Qids \cup {0}, QInquiry(t, q)
       PROVE  TypeOK'
  <2>1. Valid(q) => msgcnt[q] \in Int
    BY DEF Valid, TypeOK, QcbsOK
  <2>2. LocalsOK'
    BY <1>12, <2>1, ReturnOK DEF QInquiry, TypeOK
  <2> QED BY <1>0, <1>12, <2>2 DEF QInquiry, TypeOK
<1>13. CASE UNCHANGED vars
  BY <1>13 DEF vars, TypeOK, PoolOK, QcbsOK, LocalsOK
<1> QED
  BY <1>1, <1>2, <1>3, <1>4, <1>5, <1>6, <1>7, <1>8, <1>9, <1>10, <1>11,
     <1>12, <1>13 DEF Next, Call, Step

\* Type correctness, for any number of threads, queues, containers and
\* messages, with signals and deletions at any time.
THEOREM TypeCorrect == Spec => []TypeOK
<1> QED BY TypeInit, TypeNext, PTL DEF Spec
--------------------------------------------------------------------------------
\* What a step can do to the lists, seen through the fields the lists depend on.
Quiet ==
    /\ UNCHANGED <<free, list, cmsg, state, msgcnt, depth>>
    /\ reply'.msg_ptr = NoMsg

Opens(q, d) ==
    /\ state[q] = 0
    /\ state' = [state EXCEPT ![q] = 1]
    /\ msgcnt' = [msgcnt EXCEPT ![q] = 0]
    /\ depth' = [depth EXCEPT ![q] = d]
    /\ UNCHANGED <<free, list, cmsg>>
    /\ reply'.msg_ptr = NoMsg

Closes(q) ==
    /\ InUse(q)
    /\ Release(q)
    /\ reply'.msg_ptr = NoMsg

Sends(q, m) ==
    /\ InUse(q)
    /\ msgcnt[q] < depth[q]
    /\ free # <<>>
    /\ Enqueue(q, m)
    /\ reply'.msg_ptr = NoMsg

Takes(q) ==
    /\ list[q] # <<>>
    /\ msgcnt[q] # 0
    /\ list' = [list EXCEPT ![q] = Tail(@)]
    /\ free' = Append(free, Head(list[q]))
    /\ msgcnt' = [msgcnt EXCEPT ![q] = @ - 1]
    /\ UNCHANGED <<cmsg, state, depth>>
    /\ reply'.msg_ptr = cmsg[Head(list[q])]

ListStep ==
    \/ Quiet
    \/ \E q \in Qids : \/ \E d \in Depths : Opens(q, d)
                       \/ Closes(q)
                       \/ \E m \in Msgs : Sends(q, m)
                       \/ Takes(q)

LEMMA RepliesNothing ==
    ASSUME NEW t, NEW q, NEW e, NEW v, NEW l,
           \/ Return(t, e, v)
           \/ Continue(t, q, l)
    PROVE  reply'.msg_ptr = NoMsg
  BY DEF Return, ReturnAll, Continue, NoReply

LEMMA TakeHeadStep ==
    ASSUME TypeOK, NEW t \in Threads, NEW q \in Qids, msgcnt[q] # 0,
           TakeHead(t, q)
    PROVE  ListStep
<1>1. CASE list[q] = <<>>
  BY <1>1, RepliesNothing DEF TakeHead, Oops, pool, qcbs, ListStep, Quiet
<1>2. CASE list[q] # <<>>
  BY <1>2 DEF TakeHead, ReturnAll, ListStep, Takes
<1> QED BY <1>1, <1>2

\* Every step is one of these five.
LEMMA Steps == TypeOK /\ Next => ListStep
<1> SUFFICES ASSUME TypeOK, Next PROVE ListStep
  OBVIOUS
<1> USE DEF pool, qcbs
<1>1. ASSUME NEW t \in Threads, NEW n \in Names, NEW d \in Depths,
             NEW tid \in TaskIds, QCreate(t, n, d, tid)
      PROVE  ListStep
  <2>1. CASE ByName(n) # {} \/ Unused = {}
    BY <1>1, <2>1, RepliesNothing DEF QCreate, ListStep, Quiet
  <2>2. CASE ByName(n) = {} /\ Unused # {}
    <3> DEFINE q == Least(Unused)
    <3>1. q \in Unused
      BY <2>2, LeastIn DEF Unused
    <3> HIDE DEF q
    <3>2. Opens(q, d)
      BY <1>1, <2>2, <3>1, RepliesNothing DEF QCreate, Opens, q, Unused, InUse
    <3> QED BY <3>1, <3>2 DEF ListStep, Unused
  <2> QED BY <2>1, <2>2
<1>2. ASSUME NEW t \in Threads, NEW q \in Qids \cup {0}, QDelete(t, q)
      PROVE  ListStep
  BY <1>2, RepliesNothing DEF QDelete, ListStep, Quiet, Closes, Valid
<1>3. ASSUME NEW t \in Threads, QDeleteAll(t) \/ QDeleteNext(t)
      PROVE  ListStep
  BY <1>3, RepliesNothing DEF QDeleteAll, QDeleteNext, ListStep, Quiet, Closes, Valid
<1>4. ASSUME NEW t \in Threads, NEW q \in Qids \cup {0}, NEW m \in Msgs,
             QPost(t, q, m)
      PROVE  ListStep
  BY <1>4, RepliesNothing DEF QPost, Oops, ListStep, Quiet, Sends, Valid
<1>5. ASSUME NEW t \in Threads, QPostWake(t) \/ QPostEvent(t)
      PROVE  ListStep
  BY <1>5, RepliesNothing DEF QPostWake, QPostEvent, ListStep, Quiet, NoReply
<1>6. ASSUME NEW t \in Threads, NEW q \in Qids \cup {0}, NEW b \in BOOLEAN,
             QWait(t, q, b)
      PROVE  ListStep
  BY <1>6, RepliesNothing, TakeHeadStep DEF QWait, ListStep, Quiet, Valid
<1>7. ASSUME NEW t \in Threads, QWaitCheck(t) \/ Signal(t)
      PROVE  ListStep
  BY <1>7 DEF QWaitCheck, Signal, ListStep, Quiet, NoReply
<1>8. ASSUME NEW t \in Threads, QWaitResume(t)
      PROVE  ListStep
  <2>1. pc[t] = "resume" => qid[t] \in Qids
    BY DEF TypeOK, LocalsOK, Waiting
  <2> QED BY <1>8, <2>1, RepliesNothing, TakeHeadStep
          DEF QWaitResume, ListStep, Quiet
<1>9. ASSUME NEW t \in Threads,
             \/ \E n \in Names : QIdentify(t, n)
             \/ \E q \in Qids \cup {0} : QInquiry(t, q)
      PROVE  ListStep
  BY <1>9, RepliesNothing DEF QIdentify, QInquiry, ListStep, Quiet
<1> QED
  BY <1>1, <1>2, <1>3, <1>4, <1>5, <1>6, <1>7, <1>8, <1>9 DEF Next, Call, Step

LEMMA CountsStep == TypeOK /\ CountsAgree /\ ListStep => CountsAgree'
<1> SUFFICES ASSUME TypeOK, CountsAgree, ListStep PROVE CountsAgree'
  OBVIOUS
<1> USE DEF TypeOK, PoolOK, QcbsOK, CountsAgree, InUse
<1>1. CASE Quiet
  BY <1>1 DEF Quiet
<1>2. ASSUME NEW q \in Qids, NEW d \in Depths, Opens(q, d)
      PROVE  CountsAgree'
  BY <1>2, MxpQAssumption DEF Opens
<1>3. ASSUME NEW q \in Qids, Closes(q)
      PROVE  CountsAgree'
  BY <1>3 DEF Closes, Release
<1>4. ASSUME NEW q \in Qids, NEW m \in Msgs, Sends(q, m)
      PROVE  CountsAgree'
  <2>1. Head(free) \in Conts
    BY <1>4 DEF Sends
  <2>2. Len(list'[q]) = Len(list[q]) + 1
    BY <1>4, <2>1, AppendProperties DEF Sends, Enqueue
  <2> QED BY <1>4, <2>2 DEF Sends, Enqueue
<1>5. ASSUME NEW q \in Qids, Takes(q)
      PROVE  CountsAgree'
  <2>1. Len(list'[q]) = Len(list[q]) - 1
    BY <1>5, HeadTailProperties DEF Takes
  <2>2. InUse(q)
    BY <1>5 DEF Takes
  <2> QED BY <1>5, <2>1, <2>2 DEF Takes
<1> QED BY <1>1, <1>2, <1>3, <1>4, <1>5 DEF ListStep

\* The counters agree with the lists of the queues in use, never exceed the
\* depth, and the other queues are empty: the list is the counter's only source.
THEOREM CountsCorrect == Spec => []CountsAgree
<1>1. Init => CountsAgree
  BY DEF Init, CountsAgree, InUse
<1>2. TypeOK /\ CountsAgree /\ [Next]_vars => CountsAgree'
  <2>1. UNCHANGED vars /\ CountsAgree => CountsAgree'
    BY DEF vars, CountsAgree, InUse
  <2> QED BY <2>1, Steps, CountsStep
<1> QED BY <1>1, <1>2, TypeCorrect, PTL DEF Spec
--------------------------------------------------------------------------------
\* The pool as one function from the numbers of the lists to the lists.
Linked == [q \in Lists |-> ListOf(q)]

Covers(L) == \A c \in Conts : \E q \in Lists : \E i \in DOMAIN L[q] : L[q][i] = c

Apart(L) ==
    \A q, r \in Lists : \A i \in DOMAIN L[q], j \in DOMAIN L[r] :
        L[q][i] = L[r][j] => q = r /\ i = j

LEMMA ConservedLinked == PoolConserved <=> Covers(Linked) /\ Apart(Linked)
  BY DEF PoolConserved, Covers, Apart, Linked

LEMMA LinkedType == TypeOK => Linked \in [Lists -> Seq(Conts)]
  BY MxpQAssumption DEF TypeOK, PoolOK, Linked, Lists, ListOf, Qids

\* Moving the head of one list to the tail of another loses no container and
\* links none twice: what post and wait do.
LEMMA MoveHead ==
    ASSUME NEW L \in [Lists -> Seq(Conts)], NEW a \in Lists, NEW b \in Lists,
           a # b, L[a] # <<>>, Covers(L), Apart(L)
    PROVE  LET M == [L EXCEPT ![a] = Tail(L[a]), ![b] = Append(L[b], Head(L[a]))]
           IN  Covers(M) /\ Apart(M)
<1> DEFINE M == [L EXCEPT ![a] = Tail(L[a]), ![b] = Append(L[b], Head(L[a]))]
<1>1. /\ M[a] = Tail(L[a])
      /\ M[b] = Append(L[b], Head(L[a]))
      /\ \A q \in Lists \ {a, b} : M[q] = L[q]
  OBVIOUS
<1>a. /\ DOMAIN L[a] = 1 .. Len(L[a])
      /\ Len(L[a]) \in Nat \ {0}
      /\ Head(L[a]) = L[a][1]
      /\ Head(L[a]) \in Conts
  OBVIOUS
<1>b. /\ Tail(L[a]) \in Seq(Conts)
      /\ Len(Tail(L[a])) = Len(L[a]) - 1
      /\ \A i \in 1 .. Len(Tail(L[a])) : Tail(L[a])[i] = L[a][i + 1]
  BY HeadTailProperties
<1>2. /\ DOMAIN L[a] = 1 .. Len(L[a])
      /\ Len(L[a]) \in Nat \ {0}
      /\ Head(L[a]) = L[a][1]
      /\ Head(L[a]) \in Conts
      /\ DOMAIN M[a] = 1 .. Len(L[a]) - 1
      /\ \A i \in 1 .. Len(L[a]) - 1 : M[a][i] = L[a][i + 1]
  <2> HIDE DEF M
  <2> QED BY <1>1, <1>a, <1>b
<1>3. /\ DOMAIN L[b] = 1 .. Len(L[b])
      /\ Len(L[b]) \in Nat
      /\ DOMAIN M[b] = 1 .. Len(L[b]) + 1
      /\ \A i \in 1 .. Len(L[b]) : M[b][i] = L[b][i]
      /\ M[b][Len(L[b]) + 1] = L[a][1]
  BY <1>1, <1>2, AppendProperties
<1> HIDE DEF M
<1>4. Covers(M)
  <2> SUFFICES ASSUME NEW c \in Conts
               PROVE  \E q \in Lists : \E i \in DOMAIN M[q] : M[q][i] = c
    BY DEF Covers
  <2>0. PICK q \in Lists : \E i \in DOMAIN L[q] : L[q][i] = c
    BY DEF Covers
  <2>1. PICK i \in DOMAIN L[q] : L[q][i] = c
    BY <2>0
  <2>2. CASE q \notin {a, b}
    BY <1>1, <2>1, <2>2
  <2>3. CASE q = b
    BY <1>3, <2>1, <2>3
  <2>4. CASE q = a /\ i = 1
    <3>1. Len(L[b]) + 1 \in DOMAIN M[b]
      BY <1>3
    <3> QED BY <1>3, <2>1, <2>4, <3>1
  <2>5. CASE q = a /\ i # 1
    <3>1. i - 1 \in DOMAIN M[a] /\ M[a][i - 1] = L[a][i]
      BY <1>2, <2>1, <2>5
    <3> QED BY <2>1, <2>5, <3>1
  <2> QED BY <2>2, <2>3, <2>4, <2>5
<1>5. Apart(M)
  \* Every place of M was a place of L, and different places stay different.
  <2> DEFINE Q(q, i) == IF q = b /\ i = Len(L[b]) + 1 THEN a ELSE q
             I(q, i) == IF q = b /\ i = Len(L[b]) + 1 THEN 1
                        ELSE IF q = a THEN i + 1 ELSE i
  <2>1. ASSUME NEW q \in Lists, NEW i \in DOMAIN M[q]
        PROVE  /\ Q(q, i) \in Lists
               /\ I(q, i) \in DOMAIN L[Q(q, i)]
               /\ M[q][i] = L[Q(q, i)][I(q, i)]
    <3>1. CASE q \notin {a, b}
      BY <1>1, <3>1
    <3>2. CASE q = a
      BY <1>2, <3>2
    <3>3. CASE q = b
      BY <1>2, <1>3, <3>3
    <3> QED BY <3>1, <3>2, <3>3
  <2>2. ASSUME NEW q \in Lists, NEW r \in Lists,
               NEW i \in DOMAIN M[q], NEW j \in DOMAIN M[r],
               Q(q, i) = Q(r, j), I(q, i) = I(r, j)
        PROVE  q = r /\ i = j
    BY <1>1, <1>2, <1>3, <2>2
  <2> HIDE DEF Q, I
  <2> SUFFICES ASSUME NEW q \in Lists, NEW r \in Lists,
                      NEW i \in DOMAIN M[q], NEW j \in DOMAIN M[r],
                      M[q][i] = M[r][j]
               PROVE  q = r /\ i = j
    BY DEF Apart
  <2> QED BY <2>1, <2>2 DEF Apart
<1> QED BY <1>4, <1>5 DEF M

\* Appending one list to another and emptying it conserves the containers: what
\* deleting a queue does.
LEMMA MoveAll ==
    ASSUME NEW L \in [Lists -> Seq(Conts)], NEW a \in Lists, NEW b \in Lists,
           a # b, Covers(L), Apart(L)
    PROVE  LET M == [L EXCEPT ![a] = <<>>, ![b] = L[b] \o L[a]]
           IN  Covers(M) /\ Apart(M)
<1> DEFINE M == [L EXCEPT ![a] = <<>>, ![b] = L[b] \o L[a]]
<1>1. /\ M[a] = <<>>
      /\ M[b] = L[b] \o L[a]
      /\ \A q \in Lists \ {a, b} : M[q] = L[q]
  OBVIOUS
<1>2. /\ DOMAIN L[a] = 1 .. Len(L[a])
      /\ DOMAIN L[b] = 1 .. Len(L[b])
      /\ Len(L[a]) \in Nat
      /\ Len(L[b]) \in Nat
      /\ DOMAIN M[b] = 1 .. Len(L[b]) + Len(L[a])
      /\ DOMAIN M[a] = {}
      /\ \A i \in 1 .. Len(L[b]) : M[b][i] = L[b][i]
      /\ \A i \in 1 .. Len(L[a]) : M[b][Len(L[b]) + i] = L[a][i]
  BY <1>1
<1> HIDE DEF M
<1>3. Covers(M)
  <2> SUFFICES ASSUME NEW c \in Conts
               PROVE  \E q \in Lists : \E i \in DOMAIN M[q] : M[q][i] = c
    BY DEF Covers
  <2>0. PICK q \in Lists : \E i \in DOMAIN L[q] : L[q][i] = c
    BY DEF Covers
  <2>1. PICK i \in DOMAIN L[q] : L[q][i] = c
    BY <2>0
  <2>2. CASE q \notin {a, b}
    BY <1>1, <2>1, <2>2
  <2>3. CASE q = b
    BY <1>2, <2>1, <2>3
  <2>4. CASE q = a
    <3>1. Len(L[b]) + i \in DOMAIN M[b] /\ M[b][Len(L[b]) + i] = L[a][i]
      BY <1>2, <2>1, <2>4
    <3> QED BY <2>1, <2>4, <3>1
  <2> QED BY <2>2, <2>3, <2>4
<1>4. Apart(M)
  <2> DEFINE Q(q, i) == IF q = b /\ i > Len(L[b]) THEN a ELSE q
             I(q, i) == IF q = b /\ i > Len(L[b]) THEN i - Len(L[b]) ELSE i
  <2>1. ASSUME NEW q \in Lists, NEW i \in DOMAIN M[q]
        PROVE  /\ q # a
               /\ Q(q, i) \in Lists
               /\ I(q, i) \in DOMAIN L[Q(q, i)]
               /\ M[q][i] = L[Q(q, i)][I(q, i)]
    <3>1. CASE q \notin {a, b}
      BY <1>1, <3>1
    <3>2. CASE q = b /\ i > Len(L[b])
      <4>1. i - Len(L[b]) \in 1 .. Len(L[a]) /\ Len(L[b]) + (i - Len(L[b])) = i
        BY <1>2, <3>2
      <4> QED BY <1>2, <3>2, <4>1
    <3>3. CASE q = b /\ ~(i > Len(L[b]))
      BY <1>2, <3>3
    <3>4. q # a
      BY <1>2
    <3> QED BY <3>1, <3>2, <3>3, <3>4
  <2>2. ASSUME NEW q \in Lists, NEW r \in Lists,
               NEW i \in DOMAIN M[q], NEW j \in DOMAIN M[r],
               Q(q, i) = Q(r, j), I(q, i) = I(r, j)
        PROVE  q = r /\ i = j
    BY <1>1, <1>2, <2>1, <2>2
  <2> HIDE DEF Q, I
  <2> SUFFICES ASSUME NEW q \in Lists, NEW r \in Lists,
                      NEW i \in DOMAIN M[q], NEW j \in DOMAIN M[r],
                      M[q][i] = M[r][j]
               PROVE  q = r /\ i = j
    BY DEF Apart
  <2> QED BY <2>1, <2>2 DEF Apart
<1> QED BY <1>3, <1>4 DEF M

LEMMA PoolStep == TypeOK /\ PoolConserved /\ ListStep => PoolConserved'
<1> SUFFICES ASSUME TypeOK, PoolConserved, ListStep PROVE PoolConserved'
  OBVIOUS
<1>1. /\ Linked \in [Lists -> Seq(Conts)]
      /\ Covers(Linked)
      /\ Apart(Linked)
  BY ConservedLinked, LinkedType
<1>2. 0 \in Lists /\ \A q \in Qids : q \in Lists /\ q # 0
  BY MxpQAssumption DEF Lists, Qids
<1>3. Linked[0] = free /\ \A q \in Qids : Linked[q] = list[q]
  BY <1>2 DEF Linked, ListOf
<1>4. \A q \in Lists \ {0} : q \in Qids
  BY MxpQAssumption DEF Lists, Qids
<1>5. CASE UNCHANGED <<free, list>>
  BY <1>5 DEF PoolConserved, ListOf
<1>6. ASSUME NEW q \in Qids, Closes(q)
      PROVE  PoolConserved'
  <2>1. Linked' = [Linked EXCEPT ![q] = <<>>, ![0] = Linked[0] \o Linked[q]]
    BY <1>2, <1>3, <1>4, <1>6 DEF Closes, Release, Linked, ListOf, TypeOK, PoolOK
  <2>2. Covers(Linked') /\ Apart(Linked')
    BY <1>1, <1>2, <2>1, MoveAll
  <2> QED BY <2>2 DEF PoolConserved, Covers, Apart, Linked
<1>7. ASSUME NEW q \in Qids, NEW m \in Msgs, Sends(q, m)
      PROVE  PoolConserved'
  <2>1. Linked' = [Linked EXCEPT ![0] = Tail(Linked[0]),
                                 ![q] = Append(Linked[q], Head(Linked[0]))]
    BY <1>2, <1>3, <1>4, <1>7 DEF Sends, Enqueue, Linked, ListOf, TypeOK, PoolOK
  <2>2. Covers(Linked') /\ Apart(Linked')
    BY <1>1, <1>2, <1>3, <1>7, <2>1, MoveHead DEF Sends
  <2> QED BY <2>2 DEF PoolConserved, Covers, Apart, Linked
<1>8. ASSUME NEW q \in Qids, Takes(q)
      PROVE  PoolConserved'
  <2>1. Linked' = [Linked EXCEPT ![q] = Tail(Linked[q]),
                                 ![0] = Append(Linked[0], Head(Linked[q]))]
    BY <1>2, <1>3, <1>4, <1>8 DEF Takes, Linked, ListOf, TypeOK, PoolOK
  <2>2. Covers(Linked') /\ Apart(Linked')
    BY <1>1, <1>2, <1>3, <1>8, <2>1, MoveHead DEF Takes
  <2> QED BY <2>2 DEF PoolConserved, Covers, Apart, Linked
<1> QED BY <1>5, <1>6, <1>7, <1>8 DEF ListStep, Quiet, Opens

\* No container is ever lost or linked twice, for any pool and any callers.
THEOREM PoolCorrect == Spec => []PoolConserved
<1>1. Init => PoolConserved
  BY MxpQAssumption DEF Init, PoolConserved, Lists, ListOf, Qids
<1>2. TypeOK /\ PoolConserved /\ [Next]_vars => PoolConserved'
  <2>1. UNCHANGED vars /\ PoolConserved => PoolConserved'
    BY DEF vars, PoolConserved, ListOf
  <2> QED BY <2>1, Steps, PoolStep
<1> QED BY <1>1, <1>2, TypeCorrect, PTL DEF Spec
--------------------------------------------------------------------------------
\* The queues implement the channels: the contents of a queue follow its list.
LEMMA ContentsType ==
    ASSUME TypeOK, NEW q \in Qids
    PROVE  /\ Contents(q) \in Seq(Msgs \cup {NoMsg})
           /\ Len(Contents(q)) = Len(list[q])
           /\ \A i \in 1 .. Len(list[q]) : Contents(q)[i] = cmsg[list[q][i]]
<1>1. list[q] \in Seq(Conts) /\ DOMAIN list[q] = 1 .. Len(list[q]) /\ Len(list[q]) \in Nat
  BY DEF TypeOK, PoolOK
<1>2. \A i \in 1 .. Len(list[q]) : cmsg[list[q][i]] \in Msgs \cup {NoMsg}
  BY <1>1 DEF TypeOK, PoolOK
<1> QED BY <1>1, <1>2 DEF Contents

LEMMA SeqAsFunction ==
    ASSUME NEW S, NEW s \in Seq(S), NEW n, n = Len(s)
    PROVE  s = [i \in 1 .. n |-> s[i]]
  OBVIOUS

LEMMA ChannelStep ==
    ASSUME TypeOK, TypeOK', CountsAgree, PoolConserved, ListStep
    PROVE  Channels!Next
<1> DEFINE chan == [q \in Qids |-> Contents(q)]
           open == {q \in Qids : InUse(q)}
<1>0. TypeOK /\ TypeOK'
  OBVIOUS
<1>1. CASE Quiet
  <2>1. UNCHANGED <<open, chan, depth>>
    BY <1>1 DEF Quiet, Contents, InUse
  <2> QED BY <1>1, <2>1 DEF Quiet, Channels!Next
<1>2. ASSUME NEW q \in Qids, NEW d \in Depths, Opens(q, d)
      PROVE  Channels!Next
  <2>1. chan' = chan
    BY <1>2 DEF Opens, Contents
  <2>2. q \notin open /\ open' = open \cup {q}
    BY <1>2 DEF Opens, InUse, TypeOK, QcbsOK
  <2>3. Channels!Open(q, d)
    BY <1>2, <2>1, <2>2 DEF Opens, Channels!Open
  <2> QED BY <1>2, <2>3 DEF Opens, Channels!Next
<1>3. ASSUME NEW q \in Qids, Closes(q)
      PROVE  Channels!Next
  <2>a. list' = [list EXCEPT ![q] = <<>>] /\ cmsg' = cmsg
    BY <1>3 DEF Closes, Release
  <2>b. list'[q] = <<>> /\ \A r \in Qids \ {q} : list'[r] = list[r]
    BY <2>a DEF TypeOK, PoolOK
  <2>c. Contents(q)' = <<>>
    BY <2>b DEF Contents
  <2>d. \A r \in Qids \ {q} : Contents(r)' = Contents(r)
    BY <2>a, <2>b DEF Contents
  <2>1. chan' = [chan EXCEPT ![q] = <<>>]
    BY <2>c, <2>d
  <2>2. q \in open /\ open' = open \ {q}
    BY <1>3 DEF Closes, Release, InUse, TypeOK, QcbsOK
  <2>3. Channels!Close(q)
    BY <1>3, <2>1, <2>2 DEF Closes, Release, Channels!Close
  <2> QED BY <1>3, <2>3 DEF Closes, Channels!Next
<1>4. ASSUME NEW q \in Qids, NEW m \in Msgs, Sends(q, m)
      PROVE  Channels!Next
  <2> DEFINE c == Head(free)
  <2>1. c \in Conts /\ 1 \in DOMAIN free /\ free[1] = c
    BY <1>4 DEF Sends, TypeOK, PoolOK
  <2>2. \A r \in Qids : \A i \in DOMAIN list[r] : list[r][i] # c
    BY <2>1, MxpQAssumption DEF PoolConserved, Lists, ListOf, Qids
  <2>3. cmsg' = [cmsg EXCEPT ![c] = m] /\ list' = [list EXCEPT ![q] = Append(@, c)]
    BY <1>4 DEF Sends, Enqueue
  <2> HIDE DEF c
  <2>4. ASSUME NEW r \in Qids \ {q}
        PROVE  Contents(r)' = Contents(r)
    <3>1. list'[r] = list[r]
      BY <2>3 DEF TypeOK, PoolOK
    <3>2. \A i \in DOMAIN list[r] : cmsg'[list[r][i]] = cmsg[list[r][i]]
      BY <2>2, <2>3 DEF TypeOK, PoolOK
    <3> QED BY <3>1, <3>2 DEF Contents
  <2>5. Contents(q)' = Append(Contents(q), m)
    <3>1. list'[q] = Append(list[q], c)
      BY <2>3 DEF TypeOK, PoolOK
    <3>2. /\ list[q] \in Seq(Conts)
          /\ Len(list[q]) \in Nat
          /\ Len(list'[q]) = Len(list[q]) + 1
          /\ \A i \in 1 .. Len(list[q]) : list'[q][i] = list[q][i]
          /\ list'[q][Len(list[q]) + 1] = c
      BY <2>1, <3>1, AppendProperties DEF TypeOK, PoolOK
    <3>3. /\ Contents(q)' \in Seq(Msgs \cup {NoMsg})
          /\ Len(Contents(q)') = Len(list[q]) + 1
          /\ \A i \in 1 .. Len(list[q]) + 1 : Contents(q)'[i] = cmsg'[list'[q][i]]
      <4>1. Contents(q)' = [i \in 1 .. Len(list'[q]) |-> cmsg'[list'[q][i]]]
        BY <2>1, <3>1 DEF Contents, TypeOK, PoolOK
      <4>2. \A i \in 1 .. Len(list'[q]) : cmsg'[list'[q][i]] \in Msgs \cup {NoMsg}
        BY <1>0, <2>1, <3>1, <3>2 DEF TypeOK, PoolOK
      <4> QED BY <3>2, <4>1, <4>2
    <3>4. \A i \in 1 .. Len(list[q]) : cmsg'[list[q][i]] = cmsg[list[q][i]]
      BY <2>2, <2>3, <3>2 DEF TypeOK, PoolOK
    <3>5. cmsg'[c] = m
      BY <2>1, <2>3 DEF TypeOK, PoolOK
    <3>6. /\ Contents(q) \in Seq(Msgs \cup {NoMsg})
          /\ Len(Contents(q)) = Len(list[q])
          /\ \A i \in 1 .. Len(list[q]) : Contents(q)[i] = cmsg[list[q][i]]
      BY ContentsType
    <3> HIDE DEF Contents
    <3>7. \A i \in 1 .. Len(list[q]) + 1 : Contents(q)'[i] = Append(Contents(q), m)[i]
      BY <3>2, <3>3, <3>4, <3>5, <3>6
    <3> QED BY <3>2, <3>3, <3>6, <3>7
  <2>6. chan' = [chan EXCEPT ![q] = Append(@, m)]
    BY <2>4, <2>5
  <2>7. Len(chan[q]) < depth[q]
    BY <1>4, ContentsType DEF Sends, CountsAgree
  <2>8. q \in open /\ open' = open /\ depth' = depth
    BY <1>4 DEF Sends, Enqueue, InUse
  <2>9. Channels!Send(q, m)
    BY <2>6, <2>7, <2>8 DEF Channels!Send
  <2> QED BY <1>4, <2>9 DEF Sends, Channels!Next
<1>5. ASSUME NEW q \in Qids, Takes(q)
      PROVE  Channels!Next
  <2>1. /\ list[q] \in Seq(Conts)
        /\ Len(list[q]) \in Nat \ {0}
        /\ Head(list[q]) = list[q][1]
    BY <1>5 DEF Takes, TypeOK, PoolOK
  <2>2. /\ list'[q] \in Seq(Conts)
        /\ Len(list'[q]) = Len(list[q]) - 1
        /\ \A i \in 1 .. Len(list[q]) - 1 : list'[q][i] = list[q][i + 1]
    BY <1>5, <2>1, HeadTailProperties DEF Takes, TypeOK, PoolOK
  <2>3. /\ Contents(q) \in Seq(Msgs \cup {NoMsg})
        /\ Len(Contents(q)) = Len(list[q])
        /\ \A i \in 1 .. Len(list[q]) : Contents(q)[i] = cmsg[list[q][i]]
    BY ContentsType
  <2>4. Contents(q)' = [i \in 1 .. Len(list[q]) - 1 |-> cmsg[list[q][i + 1]]]
    BY <1>5, <2>1, <2>2 DEF Contents, Takes
  <2>5. Contents(q)' = Tail(Contents(q))
    <3> DEFINE C == Contents(q)
    <3> HIDE DEF C
    <3>1. C \in Seq(Msgs \cup {NoMsg}) /\ C # <<>>
      BY <2>1, <2>3 DEF C
    <3>2. /\ Tail(C) \in Seq(Msgs \cup {NoMsg})
          /\ Len(Tail(C)) = Len(list[q]) - 1
          /\ \A i \in 1 .. Len(list[q]) - 1 : Tail(C)[i] = C[i + 1]
      BY <2>1, <2>3, <3>1, HeadTailProperties DEF C
    <3>3. \A i \in 1 .. Len(list[q]) - 1 : Tail(C)[i] = cmsg[list[q][i + 1]]
      BY <2>1, <2>3, <3>2 DEF C
    <3>4. Tail(C) = [i \in 1 .. Len(list[q]) - 1 |-> Tail(C)[i]]
      BY <3>2, SeqAsFunction
    <3>5. Tail(C) = [i \in 1 .. Len(list[q]) - 1 |-> cmsg[list[q][i + 1]]]
      BY <3>3, <3>4
    <3> QED BY <2>4, <3>5 DEF C
  <2>6. ASSUME NEW r \in Qids \ {q}
        PROVE  Contents(r)' = Contents(r)
    BY <1>5 DEF Contents, Takes, TypeOK, PoolOK
  <2>7. chan' = [chan EXCEPT ![q] = Tail(@)]
    BY <2>5, <2>6
  <2>8. q \in open /\ open' = open /\ depth' = depth
    BY <1>5 DEF Takes, CountsAgree, InUse
  <2>9. chan[q] # <<>> /\ reply'.msg_ptr = Head(chan[q])
    BY <1>5, <2>1, <2>3 DEF Takes
  <2>10. Channels!Receive(q)
    BY <2>7, <2>8, <2>9 DEF Channels!Receive
  <2> QED BY <2>9, <2>10 DEF Channels!Next
<1> QED BY <1>1, <1>2, <1>3, <1>4, <1>5 DEF ListStep

\* Whatever threads post, wait, sleep, are signalled and delete, the queues are
\* FIFO channels: nothing is lost, duplicated, reordered or delivered twice.
THEOREM QueuesAreChannels == Spec => DeliversFifo
<1>1. Init => Channels!Init
  BY DEF Init, Channels!Init, InUse, Contents, NoReply
<1>2. TypeOK /\ TypeOK' /\ CountsAgree /\ PoolConserved /\ [Next]_vars
        => [Channels!Next]_Channels!vars
  <2>1. UNCHANGED vars => UNCHANGED Channels!vars
    BY DEF vars, Channels!vars, InUse, Contents
  <2> QED BY <2>1, Steps, ChannelStep
<1> QED
  BY <1>1, <1>2, TypeCorrect, CountsCorrect, PoolCorrect, PTL
     DEF Spec, DeliversFifo, Channels!Spec
--------------------------------------------------------------------------------
(***************************************************************************)
(* No wake-up of a queue is lost when a thread that a signal may interrupt *)
(* waits alone and a queue is deleted only when nobody waits on it.        *)
(*                                                                         *)
(* The invariant says why: the flag of the waiter is set only over an      *)
(* empty queue; no waiter is left on a queue not in use, where creation    *)
(* would clear the flag under it; and the thread that clears the flag      *)
(* after a signal has no other waiter beside it.                           *)
(***************************************************************************)

FlagOverEmpty == \A q \in Qids : wait4msg[q] # 0 => msgcnt[q] = 0

\* Nobody is inside a wait on a queue not in use, nor while all queues are
\* being deleted.
WaitersOnQueuesInUse ==
    /\ \A t \in Threads : pc[t] \in Waiting => InUse(qid[t])
    /\ \A t, u \in Threads : pc[t] \in Waiting => pc[u] # "delAll"

SignalledWaitAlone ==
    /\ \A t \in Threads : pc[t] = "resumeSig" => t \in Signalled
    /\ \A t, u \in Threads :
          /\ t \in Signalled
          /\ pc[t] \in Waiting
          /\ pc[u] \in Waiting
          /\ qid[t] = qid[u]
          => t = u

WakeInv ==
    /\ FlagOverEmpty
    /\ WaitersOnQueuesInUse
    /\ SignalledWaitAlone
    /\ NoLostWakeup

LEMMA WakeInit == Init => WakeInv
  BY DEF Init, WakeInv, FlagOverEmpty, WaitersOnQueuesInUse, SignalledWaitAlone,
         NoLostWakeup, Waiting

\* A step of t that leads to a place outside of a wait keeps the invariant if it
\* treats the queues of the other waiters well: they stay in use, and either the
\* step ends where it will wake them, or it keeps their flag and puts a message
\* before them only if their flag is cleared already.
LEMMA OutsideWait ==
    ASSUME WakeInv, pc \in [Threads -> Pcs], qid \in [Threads -> 0 .. MaxQueues + 1],
           NEW t \in Threads, NEW l, NEW k,
           pc' = [pc EXCEPT ![t] = l], qid' = [qid EXCEPT ![t] = k],
           pc[t] # "postWake", l \notin Waiting,
           l = "delAll" => \A u \in Threads \ {t} : pc[u] \notin Waiting,
           \A u \in Threads \ {t} : pc[u] \in Waiting =>
              LET q == qid[u]
              IN  /\ state'[q] # 0
                  /\ \/ l = "postWake" /\ k = q
                     \/ /\ wait4msg'[q] = wait4msg[q]
                        /\ msgcnt'[q] # 0 => msgcnt[q] # 0 \/ wait4msg[q] = 0,
           FlagOverEmpty'
    PROVE  WakeInv'
<1>1. /\ pc'[t] = l /\ qid'[t] = k
      /\ \A u \in Threads \ {t} : pc'[u] = pc[u] /\ qid'[u] = qid[u]
  OBVIOUS
<1>2. WaitersOnQueuesInUse'
  BY <1>1 DEF WakeInv, WaitersOnQueuesInUse, InUse
<1>3. SignalledWaitAlone'
  BY <1>1 DEF WakeInv, SignalledWaitAlone, Waiting
<1>4. NoLostWakeup'
  <2> SUFFICES ASSUME NEW u \in Threads, pc'[u] = "asleep",
                      msgcnt'[qid'[u]] # 0 \/ wait4msg'[qid'[u]] = 0
               PROVE  \E w \in Threads : pc'[w] = "postWake" /\ qid'[w] = qid'[u]
    BY DEF NoLostWakeup
  <2>1. u # t /\ pc[u] = "asleep" /\ qid'[u] = qid[u]
    BY <1>1 DEF Waiting
  <2>2. CASE l = "postWake" /\ k = qid[u]
    BY <1>1, <2>1, <2>2
  <2>3. CASE ~(l = "postWake" /\ k = qid[u])
    <3>1. msgcnt[qid[u]] # 0 \/ wait4msg[qid[u]] = 0
      BY <2>1, <2>3 DEF Waiting
    <3>2. PICK w \in Threads : pc[w] = "postWake" /\ qid[w] = qid[u]
      BY <2>1, <3>1 DEF WakeInv, NoLostWakeup
    <3> QED BY <1>1, <2>1, <3>2
  <2> QED BY <2>2, <2>3
<1> QED BY <1>2, <1>3, <1>4 DEF WakeInv

\* The same for a step that changes no control block.
LEMMA NoQueueTouched ==
    ASSUME WakeInv, TypeOK, NEW t \in Threads, NEW l, NEW k,
           pc' = [pc EXCEPT ![t] = l], qid' = [qid EXCEPT ![t] = k],
           pc[t] # "postWake", l \notin Waiting \cup {"delAll"},
           UNCHANGED <<state, msgcnt, wait4msg>>
    PROVE  WakeInv'
<1>1. FlagOverEmpty'
  BY DEF WakeInv, FlagOverEmpty
<1>2. \A u \in Threads \ {t} : pc[u] \in Waiting => state'[qid[u]] # 0
  BY DEF WakeInv, WaitersOnQueuesInUse, InUse
<1> QED BY <1>1, <1>2, OutsideWait DEF TypeOK, LocalsOK

LEMMA TakeHeadWake ==
    ASSUME WakeInv, TypeOK, NEW t \in Threads, NEW q \in Qids,
           pc[t] # "postWake", msgcnt[q] # 0, TakeHead(t, q)
    PROVE  WakeInv'
<1>1. CASE list[q] = <<>>
  BY <1>1, NoQueueTouched DEF TakeHead, Oops, Continue, Waiting, qcbs
<1>2. CASE list[q] # <<>>
  <2>1. /\ pc' = [pc EXCEPT ![t] = "idle"]
        /\ qid' = [qid EXCEPT ![t] = 0]
        /\ msgcnt' = [msgcnt EXCEPT ![q] = @ - 1]
        /\ UNCHANGED <<state, wait4msg>>
    BY <1>2 DEF TakeHead, ReturnAll
  <2>2. \A r \in Qids : msgcnt'[r] # 0 => msgcnt[r] # 0
    BY <2>1 DEF TypeOK, QcbsOK
  <2>3. \A r \in Qids : msgcnt[r] = 0 => msgcnt'[r] = 0
    BY <2>1 DEF TypeOK, QcbsOK
  <2>4. FlagOverEmpty'
    BY <2>1, <2>3 DEF WakeInv, FlagOverEmpty
  <2>5. \A u \in Threads \ {t} : pc[u] \in Waiting =>
           qid[u] \in Qids /\ state'[qid[u]] # 0
    BY <2>1 DEF WakeInv, WaitersOnQueuesInUse, InUse, TypeOK, LocalsOK
  <2> QED BY <2>1, <2>2, <2>4, <2>5, OutsideWait DEF TypeOK, LocalsOK, Waiting
<1> QED BY <1>1, <1>2

\* Deletion of queues nobody waits on, by a thread that stays outside of waits.
LEMMA ReleaseWake ==
    ASSUME WakeInv, TypeOK, NEW t \in Threads, NEW q \in Qids, NEW l, NEW k,
           Release(q), pc[t] # "postWake", l \notin Waiting,
           \A u \in Threads : pc[u] \in Waiting => qid[u] # q,
           l = "delAll" => \A u \in Threads : pc[u] \notin Waiting,
           pc' = [pc EXCEPT ![t] = l], qid' = [qid EXCEPT ![t] = k]
    PROVE  WakeInv'
<1>1. UNCHANGED <<msgcnt, wait4msg>> /\ state' = [state EXCEPT ![q] = 0]
  BY DEF Release
<1>2. FlagOverEmpty'
  BY <1>1 DEF WakeInv, FlagOverEmpty
<1>3. \A u \in Threads \ {t} : pc[u] \in Waiting => state'[qid[u]] # 0
  BY <1>1 DEF WakeInv, WaitersOnQueuesInUse, InUse, TypeOK, QcbsOK, LocalsOK
<1> QED BY <1>1, <1>2, <1>3, OutsideWait DEF TypeOK, LocalsOK

LEMMA QCreateWake ==
    ASSUME WakeInv, TypeOK, NEW t \in Threads, NEW n, NEW d, NEW tid,
           QCreate(t, n, d, tid)
    PROVE  WakeInv'
<1>1. CASE UNCHANGED qcbs
  BY <1>1, NoQueueTouched, SMTT(30) DEF QCreate, Return, ReturnAll, qcbs, Waiting
<1>2. CASE /\ Unused # {}
           /\ state' = [state EXCEPT ![Least(Unused)] = 1]
           /\ msgcnt' = [msgcnt EXCEPT ![Least(Unused)] = 0]
           /\ wait4msg' = [wait4msg EXCEPT ![Least(Unused)] = 0]
           /\ Return(t, "ERR_NOERR", Least(Unused))
  <2> DEFINE q == Least(Unused)
  <2>1. q \in Qids /\ ~InUse(q)
    BY <1>2, LeastIn DEF Unused
  <2> HIDE DEF q
  <2>2. /\ state' = [state EXCEPT ![q] = 1]
        /\ msgcnt' = [msgcnt EXCEPT ![q] = 0]
        /\ wait4msg' = [wait4msg EXCEPT ![q] = 0]
        /\ pc' = [pc EXCEPT ![t] = "idle"]
        /\ qid' = [qid EXCEPT ![t] = 0]
    BY <1>2 DEF q, Return, ReturnAll
  <2>3. FlagOverEmpty'
    BY <2>1, <2>2 DEF WakeInv, FlagOverEmpty, TypeOK, QcbsOK
  <2>4. \A u \in Threads : pc[u] \in Waiting => qid[u] # q /\ state[qid[u]] # 0
    BY <2>1 DEF WakeInv, WaitersOnQueuesInUse, InUse
  <2>5. \A u \in Threads : pc[u] \in Waiting =>
           /\ state'[qid[u]] # 0
           /\ wait4msg'[qid[u]] = wait4msg[qid[u]]
           /\ msgcnt'[qid[u]] = msgcnt[qid[u]]
    BY <2>2, <2>4 DEF TypeOK, QcbsOK, LocalsOK
  <2>6. pc[t] # "postWake"
    BY DEF QCreate
  <2> QED BY <2>2, <2>3, <2>5, <2>6, OutsideWait, ZenonT(90) DEF TypeOK, LocalsOK, Waiting
<1> QED BY <1>1, <1>2 DEF QCreate

LEMMA QPostWakeInv ==
    ASSUME WakeInv, TypeOK, NEW t \in Threads, NEW q, NEW m, QPost(t, q, m)
    PROVE  WakeInv'
<1>1. pc[t] = "idle"
  BY DEF QPost
<1>2. CASE UNCHANGED qcbs
  BY <1>1, <1>2, NoQueueTouched
  DEF QPost, Return, ReturnAll, Oops, Continue, qcbs, Waiting
<1>3. ASSUME Valid(q), Enqueue(q, m), NEW l, NEW k,
             pc' = [pc EXCEPT ![t] = l], qid' = [qid EXCEPT ![t] = k],
             l \in {"postWake", "postEvent", "idle"},
             l = "postWake" => k = q, l # "postWake" => wait4msg[q] = 0
      PROVE  WakeInv'
  <2>1. /\ q \in Qids
        /\ msgcnt' = [msgcnt EXCEPT ![q] = @ + 1]
        /\ wait4msg' = [wait4msg EXCEPT ![q] = 0]
        /\ state' = state
    BY <1>3 DEF Enqueue, Valid
  <2>2. FlagOverEmpty'
    BY <2>1 DEF WakeInv, FlagOverEmpty, TypeOK, QcbsOK
  <2>3. ASSUME NEW u \in Threads \ {t}, pc[u] \in Waiting
        PROVE  /\ state'[qid[u]] # 0
               /\ \/ l = "postWake" /\ k = qid[u]
                  \/ /\ wait4msg'[qid[u]] = wait4msg[qid[u]]
                     /\ msgcnt'[qid[u]] # 0
                          => msgcnt[qid[u]] # 0 \/ wait4msg[qid[u]] = 0
    <3>1. qid[u] \in Qids /\ state'[qid[u]] # 0
      BY <2>1, <2>3 DEF WakeInv, WaitersOnQueuesInUse, InUse, TypeOK, LocalsOK
    <3>2. CASE qid[u] # q
      BY <2>1, <3>1, <3>2 DEF TypeOK, QcbsOK
    <3>3. CASE qid[u] = q
      BY <1>3, <2>1, <3>1, <3>3 DEF TypeOK, QcbsOK
    <3> QED BY <3>1, <3>2, <3>3
  <2>4. pc[t] # "postWake" /\ l \notin Waiting /\ l # "delAll"
    BY <1>1, <1>3 DEF Waiting
  <2>5. pc \in [Threads -> Pcs] /\ qid \in [Threads -> 0 .. MaxQueues + 1]
    BY DEF TypeOK, LocalsOK
  <2> QED BY <1>3, <2>2, <2>3, <2>4, <2>5, OutsideWait
<1>4. CASE Valid(q) /\ Enqueue(q, m) /\ wait4msg[q] > 0 /\ Continue(t, q, "postWake")
  <2>1. pc' = [pc EXCEPT ![t] = "postWake"] /\ qid' = [qid EXCEPT ![t] = q]
    BY <1>4 DEF Continue
  <2> QED BY <1>3, <1>4, <2>1
<1>5. CASE Valid(q) /\ Enqueue(q, m) /\ wait4msg[q] = 0 /\ Continue(t, q, "postEvent")
  <2>1. pc' = [pc EXCEPT ![t] = "postEvent"] /\ qid' = [qid EXCEPT ![t] = q]
    BY <1>5 DEF Continue
  <2> QED BY <1>3, <1>5, <2>1
<1>6. CASE Valid(q) /\ Enqueue(q, m) /\ wait4msg[q] = 0 /\ Return(t, "ERR_NOERR", 0)
  <2>1. pc' = [pc EXCEPT ![t] = "idle"] /\ qid' = [qid EXCEPT ![t] = 0]
    BY <1>6 DEF Return, ReturnAll
  <2> QED BY <1>3, <1>6, <2>1
<1> QED BY <1>2, <1>4, <1>5, <1>6 DEF QPost, Oops, Continue

LEMMA QPostWakeWake ==
    ASSUME WakeInv, TypeOK, NEW t \in Threads, QPostWake(t)
    PROVE  WakeInv'
<1> DEFINE q == qid[t]
<1>1. PICK l \in {"idle", "postEvent"} :
         /\ pc' = [Woken(q) EXCEPT ![t] = l]
         /\ \A u \in Threads \ {t} : qid'[u] = qid[u]
  BY DEF QPostWake, TypeOK, LocalsOK
<1>2. UNCHANGED <<state, msgcnt, wait4msg>> /\ pc[t] = "postWake" /\ q \in Qids
  BY DEF QPostWake, qcbs, TypeOK, LocalsOK
<1> HIDE DEF q
<1>3. /\ pc'[t] = l
      /\ \A u \in Threads \ {t} :
            IF pc[u] = "asleep" /\ qid[u] = q THEN pc'[u] = "waitCheck"
                                              ELSE pc'[u] = pc[u]
  BY <1>1 DEF Woken
<1>4. \A u \in Threads : pc'[u] \in Waiting => u # t /\ pc[u] \in Waiting
  BY <1>2, <1>3 DEF Waiting
<1>5. FlagOverEmpty'
  BY <1>2 DEF WakeInv, FlagOverEmpty
<1>6. WaitersOnQueuesInUse'
  BY <1>1, <1>2, <1>3, <1>4 DEF WakeInv, WaitersOnQueuesInUse, InUse
<1>7. SignalledWaitAlone'
  <2>1. \A u \in Threads : pc'[u] = "resumeSig" => pc[u] = "resumeSig"
    BY <1>3
  <2> QED BY <1>1, <1>4, <2>1 DEF WakeInv, SignalledWaitAlone
<1>8. NoLostWakeup'
  <2> SUFFICES ASSUME NEW u \in Threads, pc'[u] = "asleep",
                      msgcnt'[qid'[u]] # 0 \/ wait4msg'[qid'[u]] = 0
               PROVE  \E w \in Threads : pc'[w] = "postWake" /\ qid'[w] = qid'[u]
    BY DEF NoLostWakeup
  <2>1. u # t /\ pc[u] = "asleep" /\ qid'[u] = qid[u] /\ qid[u] # q
    BY <1>1, <1>3
  <2>2. PICK w \in Threads : pc[w] = "postWake" /\ qid[w] = qid[u]
    BY <1>2, <2>1 DEF WakeInv, NoLostWakeup
  <2>3. w # t
    BY <2>1, <2>2 DEF q
  <2> QED BY <1>1, <1>3, <2>1, <2>2, <2>3
<1> QED BY <1>5, <1>6, <1>7, <1>8 DEF WakeInv

\* A step that starts a wait or goes on with one, other than its end.
LEMMA InsideWait ==
    ASSUME WakeInv, TypeOK, NEW t \in Threads, NEW l, NEW q \in Qids,
           pc' = [pc EXCEPT ![t] = l], qid' = [qid EXCEPT ![t] = q],
           pc[t] # "postWake", l \in Waiting, state[q] # 0,
           \A u \in Threads : pc[u] # "delAll",
           l = "resumeSig" => t \in Signalled,
           l = "asleep" => msgcnt[q] = 0 /\ wait4msg'[q] # 0,
           \A u \in Threads \ {t} :
              pc[u] \in Waiting /\ qid[u] = q => t \notin Signalled /\ u \notin Signalled,
           UNCHANGED <<state, msgcnt>>, FlagOverEmpty',
           \A r \in Qids : wait4msg'[r] # 0 \/ wait4msg'[r] = wait4msg[r]
    PROVE  WakeInv'
<1>1. /\ pc'[t] = l /\ qid'[t] = q
      /\ \A u \in Threads \ {t} : pc'[u] = pc[u] /\ qid'[u] = qid[u]
  BY DEF TypeOK, LocalsOK
<1>2. WaitersOnQueuesInUse'
  BY <1>1 DEF WakeInv, WaitersOnQueuesInUse, InUse, Waiting
<1>3. SignalledWaitAlone'
  BY <1>1 DEF WakeInv, SignalledWaitAlone
<1>4. NoLostWakeup'
  <2> SUFFICES ASSUME NEW u \in Threads, pc'[u] = "asleep",
                      msgcnt'[qid'[u]] # 0 \/ wait4msg'[qid'[u]] = 0
               PROVE  \E w \in Threads : pc'[w] = "postWake" /\ qid'[w] = qid'[u]
    BY DEF NoLostWakeup
  <2>1. u # t /\ pc[u] = "asleep" /\ qid'[u] = qid[u]
    BY <1>1
  <2>2. qid[u] \in Qids
    BY <2>1 DEF TypeOK, LocalsOK, Waiting
  <2>3. PICK w \in Threads : pc[w] = "postWake" /\ qid[w] = qid[u]
    BY <2>1, <2>2 DEF WakeInv, NoLostWakeup
  <2> QED BY <1>1, <2>1, <2>3
<1> QED BY <1>2, <1>3, <1>4 DEF WakeInv

LEMMA QWaitWake ==
    ASSUME SignalledAlone, QuietDelete, WakeInv, TypeOK,
           NEW t \in Threads, NEW q, NEW noBlock, QWait(t, q, noBlock)
    PROVE  WakeInv'
<1>1. pc[t] = "idle"
  BY DEF QWait
<1>2. CASE /\ UNCHANGED <<pool, qcbs>>
           /\ Return(t, "ERR_QIDINV", 0) \/ Return(t, "ERR_QEMPTY", 0)
  BY <1>1, <1>2, NoQueueTouched DEF Return, ReturnAll, qcbs, Waiting
<1>3. CASE Valid(q) /\ msgcnt[q] # 0 /\ TakeHead(t, q)
  BY <1>1, <1>3, TakeHeadWake DEF Valid
<1>4. CASE /\ Valid(q)
           /\ msgcnt[q] = 0
           /\ wait4msg' = [wait4msg EXCEPT ![q] = 1]
           /\ Continue(t, q, "waitCheck")
           /\ UNCHANGED <<pool, wakeT, state, name, msgcnt, depth, taskId>>
  <2>1. q \in Qids /\ state[q] # 0
    BY <1>4 DEF Valid, InUse
  <2>2. FlagOverEmpty'
    BY <1>4, <2>1 DEF WakeInv, FlagOverEmpty, TypeOK, QcbsOK
  <2>3. /\ \A u \in Threads : pc[u] # "delAll"
        /\ \A u \in Threads \ {t} :
              pc[u] \in Waiting /\ qid[u] = q => t \notin Signalled /\ u \notin Signalled
    BY DEF QWait, MayWait, Inside
  <2>4. \A r \in Qids : wait4msg'[r] # 0 \/ wait4msg'[r] = wait4msg[r]
    BY <1>4, <2>1 DEF TypeOK, QcbsOK
  <2>5. /\ pc' = [pc EXCEPT ![t] = "waitCheck"]
        /\ qid' = [qid EXCEPT ![t] = q]
        /\ UNCHANGED <<state, msgcnt>>
    BY <1>4 DEF Continue
  <2>6. "waitCheck" \in Waiting
    BY DEF Waiting
  <2> DEFINE l == "waitCheck"
  <2>7. pc' = [pc EXCEPT ![t] = l] /\ l \in Waiting /\ l # "resumeSig" /\ l # "asleep"
    BY <2>5, <2>6
  <2>8. pc[t] # "postWake"
    BY <1>1
  <2> HIDE DEF l
  <2> QED BY <2>1, <2>2, <2>3, <2>4, <2>5, <2>7, <2>8, InsideWait
<1> QED BY <1>2, <1>3, <1>4 DEF QWait

\* The next two go on with a wait: t was inside it before.
LEMMA GoOnWaiting ==
    ASSUME WakeInv, TypeOK, NEW t \in Threads, NEW l,
           pc' = [pc EXCEPT ![t] = l], UNCHANGED <<state, msgcnt, wait4msg, qid>>,
           pc[t] \in Waiting, l \in Waiting, l = "resumeSig" => t \in Signalled,
           l = "asleep" => wait4msg[qid[t]] # 0
    PROVE  WakeInv'
<1>1. qid[t] \in Qids /\ qid' = [qid EXCEPT ![t] = qid[t]]
  BY DEF TypeOK, LocalsOK
<1>2. state[qid[t]] # 0 /\ \A u \in Threads : pc[u] # "delAll"
  BY DEF WakeInv, WaitersOnQueuesInUse, InUse
<1>3. FlagOverEmpty'
  BY DEF WakeInv, FlagOverEmpty
<1>4. \A u \in Threads \ {t} :
         pc[u] \in Waiting /\ qid[u] = qid[t] => t \notin Signalled /\ u \notin Signalled
  BY DEF WakeInv, SignalledWaitAlone
<1>5. l = "asleep" => msgcnt[qid[t]] = 0 /\ wait4msg'[qid[t]] # 0
  BY <1>1 DEF WakeInv, FlagOverEmpty
<1> QED BY <1>1, <1>2, <1>3, <1>4, <1>5, InsideWait DEF Waiting

LEMMA QWaitResumeWake ==
    ASSUME WakeInv, TypeOK, NEW t \in Threads, QWaitResume(t)
    PROVE  WakeInv'
<1> DEFINE q == qid[t]
<1>1. pc[t] \in {"resume", "resumeSig"} /\ q \in Qids
  BY DEF QWaitResume, TypeOK, LocalsOK, Waiting
<1>2. CASE /\ pc[t] = "resumeSig"
           /\ wait4msg' = [wait4msg EXCEPT ![q] = 0]
           /\ Return(t, "SYS_CONFIG_ERR", 0)
           /\ UNCHANGED <<pool, state, name, msgcnt, depth, taskId>>
  <2>1. /\ pc' = [pc EXCEPT ![t] = "idle"]
        /\ qid' = [qid EXCEPT ![t] = 0]
        /\ UNCHANGED <<state, msgcnt>>
    BY <1>2 DEF Return, ReturnAll
  <2>2. \A r \in Qids : wait4msg'[r] # 0 => wait4msg[r] # 0
    BY <1>2 DEF TypeOK, QcbsOK
  <2>3. FlagOverEmpty'
    BY <2>1, <2>2 DEF WakeInv, FlagOverEmpty
  <2>4. \A u \in Threads \ {t} : pc[u] \in Waiting => qid[u] # q
    BY <1>2 DEF WakeInv, SignalledWaitAlone, Waiting
  <2>5. \A u \in Threads \ {t} : pc[u] \in Waiting =>
           state'[qid[u]] # 0 /\ wait4msg'[qid[u]] = wait4msg[qid[u]]
    BY <1>2, <2>1, <2>4 DEF WakeInv, WaitersOnQueuesInUse, InUse, TypeOK, QcbsOK, LocalsOK
  <2> QED BY <1>1, <2>1, <2>3, <2>5, OutsideWait DEF TypeOK, LocalsOK, Waiting
<1>3. CASE UNCHANGED <<pool, qcbs>> /\ Return(t, "SYS_CONFIG_ERR", 0)
  BY <1>1, <1>3, NoQueueTouched DEF Return, ReturnAll, qcbs, Waiting
<1>4. CASE msgcnt[q] # 0 /\ TakeHead(t, q)
  BY <1>1, <1>4, TakeHeadWake
<1> QED BY <1>2, <1>3, <1>4 DEF QWaitResume

LEMMA WakeNext ==
    ASSUME SignalledAlone, QuietDelete
    PROVE  TypeOK /\ WakeInv /\ [Next]_vars => WakeInv'
<1> SUFFICES ASSUME TypeOK, WakeInv, [Next]_vars PROVE WakeInv'
  OBVIOUS
<1>1. CASE UNCHANGED vars
  BY <1>1 DEF vars, WakeInv, FlagOverEmpty, WaitersOnQueuesInUse,
              SignalledWaitAlone, NoLostWakeup, InUse
<1>2. ASSUME NEW t \in Threads, NEW n \in Names, NEW d \in Depths,
             NEW tid \in TaskIds, QCreate(t, n, d, tid)
      PROVE  WakeInv'
  BY <1>2, QCreateWake
<1>3. ASSUME NEW t \in Threads, NEW n \in Names, QIdentify(t, n)
      PROVE  WakeInv'
  BY <1>3, NoQueueTouched DEF QIdentify, Return, ReturnAll, qcbs, Waiting
<1>4. ASSUME NEW t \in Threads, NEW q, QDelete(t, q)
      PROVE  WakeInv'
  <2>1. CASE ~Valid(q)
    BY <1>4, <2>1, NoQueueTouched DEF QDelete, Return, ReturnAll, qcbs, Waiting
  <2>2. CASE Valid(q)
    <3>1. \A u \in Threads : pc[u] \in Waiting => qid[u] # q
      BY <1>4, <2>2 DEF QDelete, MayDelete, Inside
    <3> QED BY <1>4, <2>2, <3>1, ReleaseWake
            DEF QDelete, Valid, Return, ReturnAll, Waiting
  <2> QED BY <2>1, <2>2
<1>5. ASSUME NEW t \in Threads, NEW q, NEW m \in Msgs, QPost(t, q, m)
      PROVE  WakeInv'
  BY <1>5, QPostWakeInv
<1>6. ASSUME NEW t \in Threads, NEW q, NEW noBlock \in BOOLEAN, QWait(t, q, noBlock)
      PROVE  WakeInv'
  BY <1>6, QWaitWake
<1>7. ASSUME NEW t \in Threads, NEW q, QInquiry(t, q)
      PROVE  WakeInv'
  BY <1>7, NoQueueTouched DEF QInquiry, Return, ReturnAll, qcbs, Waiting
<1>8. ASSUME NEW t \in Threads, QDeleteAll(t)
      PROVE  WakeInv'
  <2>1. /\ pc[t] = "idle"
        /\ pc' = [pc EXCEPT ![t] = "delAll"]
        /\ qid' = [qid EXCEPT ![t] = 1]
        /\ UNCHANGED <<state, msgcnt, wait4msg>>
    BY <1>8 DEF QDeleteAll, Continue, qcbs
  <2>2. \A u \in Threads : pc[u] \notin Waiting
    BY <1>8 DEF QDeleteAll, MayDelete, Inside, TypeOK, LocalsOK
  <2>3. FlagOverEmpty'
    BY <2>1 DEF WakeInv, FlagOverEmpty
  <2> QED BY <2>1, <2>2, <2>3, OutsideWait DEF TypeOK, LocalsOK, Waiting
<1>9. ASSUME NEW t \in Threads, QDeleteNext(t)
      PROVE  WakeInv'
  <2>1. pc[t] = "delAll" /\ \A u \in Threads : pc[u] \notin Waiting
    BY <1>9 DEF QDeleteNext, WakeInv, WaitersOnQueuesInUse
  <2>2. CASE Valid(qid[t]) /\ Release(qid[t]) /\ Continue(t, qid[t] + 1, "delAll")
    BY <2>1, <2>2, ReleaseWake DEF Valid, Continue, Waiting
  <2>3. CASE Continue(t, qid[t] + 1, "delAll") /\ UNCHANGED qcbs
    <3>1. FlagOverEmpty'
      BY <2>3 DEF WakeInv, FlagOverEmpty, qcbs
    <3> QED BY <2>1, <2>3, <3>1, OutsideWait
            DEF TypeOK, LocalsOK, Waiting, Continue, qcbs
  <2>4. CASE Return(t, "ERR_NOERR", 0) /\ UNCHANGED qcbs
    BY <2>1, <2>4, NoQueueTouched DEF Return, ReturnAll, qcbs, Waiting
  <2> QED BY <1>9, <2>2, <2>3, <2>4 DEF QDeleteNext
<1>10. ASSUME NEW t \in Threads, QPostWake(t)
       PROVE  WakeInv'
  BY <1>10, QPostWakeWake
<1>11. ASSUME NEW t \in Threads, QPostEvent(t)
       PROVE  WakeInv'
  BY <1>11, NoQueueTouched DEF QPostEvent, Return, ReturnAll, qcbs, Waiting
<1>12. ASSUME NEW t \in Threads, QWaitCheck(t)
       PROVE  WakeInv'
  BY <1>12, GoOnWaiting DEF QWaitCheck, qcbs, Waiting
<1>13. ASSUME NEW t \in Threads, QWaitResume(t)
       PROVE  WakeInv'
  BY <1>13, QWaitResumeWake
<1>14. ASSUME NEW t \in Threads, Signal(t)
       PROVE  WakeInv'
  BY <1>14, GoOnWaiting DEF Signal, qcbs, Waiting
<1> QED BY <1>1, <1>2, <1>3, <1>4, <1>5, <1>6, <1>7, <1>8, <1>9, <1>10, <1>11,
           <1>12, <1>13, <1>14 DEF Next, Call, Step

\* When a thread that a signal may interrupt waits alone on its queue, and queues
\* are deleted only while nobody waits on them, a sleeper with a message at hand
\* is always about to be woken (mmxp_q.c:255-268, 312-321), for any number of
\* threads, queues and messages.
THEOREM NoWakeupLost ==
    ASSUME SignalledAlone, QuietDelete
    PROVE  Spec => []NoLostWakeup
<1>1. Init => WakeInv
  BY WakeInit
<1>2. TypeOK /\ WakeInv /\ [Next]_vars => WakeInv'
  BY WakeNext
<1>3. WakeInv => NoLostWakeup
  BY DEF WakeInv
<1> QED BY <1>1, <1>2, <1>3, TypeCorrect, PTL DEF Spec

--------------------------------------------------------------------------------
(***************************************************************************)
(* The names of the queues.                                                *)
(***************************************************************************)

\* What a step can do to the names: nothing, take one queue out of use, or name
\* an unused queue with a name no queue in use has.
NameStep ==
    \/ UNCHANGED <<state, name>>
    \/ \E q \in Qids : Release(q)
    \/ \E q \in Qids, n \in Names :
          /\ ByName(n) = {}
          /\ state' = [state EXCEPT ![q] = 1]
          /\ name' = [name EXCEPT ![q] = n]

LEMMA TakeHeadNames ==
    ASSUME NEW t, NEW q, TakeHead(t, q)
    PROVE  UNCHANGED <<state, name>>
  BY DEF TakeHead, Oops, qcbs

LEMMA NameSteps == TypeOK /\ Next => NameStep
<1> SUFFICES ASSUME TypeOK, Next PROVE NameStep
  OBVIOUS
<1> USE DEF pool, qcbs
<1>1. ASSUME NEW t \in Threads, NEW n \in Names, NEW d \in Depths,
             NEW tid \in TaskIds, QCreate(t, n, d, tid)
      PROVE  NameStep
  <2>1. CASE ByName(n) # {} \/ Unused = {}
    BY <1>1, <2>1 DEF QCreate, NameStep
  <2>2. CASE ByName(n) = {} /\ Unused # {}
    <3>1. Least(Unused) \in Qids
      BY <2>2, LeastIn DEF Unused
    <3> QED BY <1>1, <2>2, <3>1 DEF QCreate, NameStep
  <2> QED BY <2>1, <2>2
<1>2. ASSUME NEW t \in Threads, NEW q, QDelete(t, q)
      PROVE  NameStep
  BY <1>2 DEF QDelete, NameStep, Valid
<1>3. ASSUME NEW t \in Threads, QDeleteAll(t) \/ QDeleteNext(t)
      PROVE  NameStep
  BY <1>3 DEF QDeleteAll, QDeleteNext, NameStep, Valid
<1>4. ASSUME NEW t \in Threads, NEW q, NEW m \in Msgs, QPost(t, q, m)
      PROVE  NameStep
  BY <1>4 DEF QPost, Oops, Enqueue, NameStep
<1>5. ASSUME NEW t \in Threads, NEW q, NEW b \in BOOLEAN, QWait(t, q, b)
      PROVE  NameStep
  BY <1>5, TakeHeadNames DEF QWait, NameStep
<1>6. ASSUME NEW t \in Threads, QWaitResume(t)
      PROVE  NameStep
  BY <1>6, TakeHeadNames DEF QWaitResume, NameStep
<1>7. ASSUME NEW t \in Threads,
             \/ \E n \in Names : QIdentify(t, n)
             \/ \E q \in Qids \cup {0} : QInquiry(t, q)
             \/ QPostWake(t) \/ QPostEvent(t) \/ QWaitCheck(t) \/ Signal(t)
      PROVE  NameStep
  BY <1>7 DEF QIdentify, QInquiry, QPostWake, QPostEvent, QWaitCheck, Signal, NameStep
<1> QED BY <1>1, <1>2, <1>3, <1>4, <1>5, <1>6, <1>7 DEF Next, Call, Step

\* No two queues in use ever have the same name (mmxp_q.c:149, 348), for any
\* number of queues and threads creating and deleting them.
THEOREM NamesCorrect == Spec => []NamesUnique
<1>1. Init => NamesUnique
  BY DEF Init, NamesUnique, InUse
<1>2. TypeOK /\ NamesUnique /\ [Next]_vars => NamesUnique'
  <2> SUFFICES ASSUME TypeOK, NamesUnique, [Next]_vars PROVE NamesUnique'
    OBVIOUS
  <2>1. CASE UNCHANGED <<state, name>>
    BY <2>1 DEF NamesUnique, InUse
  <2>2. ASSUME NEW q \in Qids, Release(q)
        PROVE  NamesUnique'
    BY <2>2 DEF Release, NamesUnique, InUse, TypeOK, QcbsOK
  <2>3. ASSUME NEW q \in Qids, NEW n \in Names, ByName(n) = {},
               state' = [state EXCEPT ![q] = 1], name' = [name EXCEPT ![q] = n]
        PROVE  NamesUnique'
    BY <2>3 DEF ByName, NamesUnique, InUse, TypeOK, QcbsOK
  <2> QED BY <2>1, <2>2, <2>3, NameSteps DEF NameStep, vars
<1> QED BY <1>1, <1>2, TypeCorrect, PTL DEF Spec
--------------------------------------------------------------------------------
(***************************************************************************)
(* No thread takes the head of an empty list, when there are as many       *)
(* containers as queues of the greatest depth hold and a queue is deleted  *)
(* only when nobody waits on it.                                           *)
(*                                                                         *)
(* A post finds a free container by counting: were none free, every        *)
(* container would be at a place <<q, i>> of some queue, and the queue     *)
(* posted to has a place left.  A wait finds the queue's list not empty    *)
(* because the queue is in use, where counter and list agree; after the    *)
(* sleep that needs that nobody waits on a queue not in use.               *)
(***************************************************************************)
EnoughContainers ==
    \E D \in Nat : /\ \A d \in Depths : d <= D
                   /\ MaxQueues * D <= Cardinality(Conts)

DepthsKnown == \A q \in Qids : InUse(q) => depth[q] \in Depths

LEMMA DepthsStep == TypeOK /\ DepthsKnown /\ ListStep => DepthsKnown'
  BY DEF ListStep, Quiet, Opens, Closes, Sends, Takes, Release, Enqueue,
         DepthsKnown, InUse, TypeOK, QcbsOK

LEMMA ContainerLeft ==
    ASSUME EnoughContainers, TypeOK, CountsAgree, PoolConserved, DepthsKnown,
           NEW q \in Qids, InUse(q), msgcnt[q] < depth[q]
    PROVE  free # <<>>
<1> SUFFICES ASSUME free = <<>> PROVE FALSE
  OBVIOUS
<1>1. PICK D \in Nat : /\ \A d \in Depths : d <= D
                       /\ MaxQueues * D <= Cardinality(Conts)
  BY DEF EnoughContainers
<1> DEFINE Places == Qids \X (1 .. D)
           Used == Places \ {<<q, D>>}
<1>2. /\ IsFiniteSet(Qids) /\ Cardinality(Qids) = MaxQueues
      /\ IsFiniteSet(1 .. D) /\ Cardinality(1 .. D) = D
  <2>1. ASSUME NEW n \in Nat
        PROVE  IsFiniteSet(1 .. n) /\ Cardinality(1 .. n) = n
    <3>1. /\ IsFiniteSet(1 .. n)
          /\ Cardinality(1 .. n) = IF 1 > n THEN 0 ELSE n - 1 + 1
      BY FS_Interval
    <3> QED BY <3>1
  <2> QED BY <2>1, MxpQAssumption DEF Qids
<1>3. IsFiniteSet(Places) /\ Cardinality(Places) = MaxQueues * D
  BY <1>2, FS_Product
<1>4. depth[q] <= D /\ msgcnt[q] \in Nat /\ depth[q] \in Nat
  BY <1>1 DEF DepthsKnown, TypeOK, QcbsOK
<1>5. <<q, D>> \in Places
  <2>1. D \in 1 .. D
    BY <1>4
  <2> QED BY <2>1
<1>6. IsFiniteSet(Used) /\ Cardinality(Used) = MaxQueues * D - 1
  <2> HIDE DEF Places
  <2> QED BY <1>3, <1>5, FS_RemoveElement
<1>7. ASSUME NEW c \in Conts
      PROVE  \E p \in Used : p[2] \in DOMAIN list[p[1]] /\ list[p[1]][p[2]] = c
  <2>1. PICK r \in Lists : \E i \in DOMAIN ListOf(r) : ListOf(r)[i] = c
    BY DEF PoolConserved
  <2>2. r \in Qids
    BY <2>1, MxpQAssumption DEF Lists, ListOf, Qids
  <2>3. PICK i \in DOMAIN list[r] : list[r][i] = c
    BY <2>1, <2>2, MxpQAssumption DEF ListOf, Qids
  <2>4. list[r] \in Seq(Conts) /\ DOMAIN list[r] = 1 .. Len(list[r]) /\ Len(list[r]) \in Nat
    BY <2>2 DEF TypeOK, PoolOK
  <2>5. InUse(r) /\ msgcnt[r] = Len(list[r]) /\ msgcnt[r] <= depth[r]
    BY <2>2, <2>3 DEF CountsAgree
  <2>6. depth[r] <= D /\ depth[r] \in Nat
    BY <1>1, <2>2, <2>5 DEF DepthsKnown, TypeOK, QcbsOK
  <2>7. i \in 1 .. D
    BY <2>3, <2>4, <2>5, <2>6
  <2>8. r = q => i # D
    BY <1>4, <2>3, <2>4, <2>5
  <2>9. <<r, i>> \in Used
    BY <2>2, <2>7, <2>8
  <2> QED BY <2>3, <2>9
<1> DEFINE Held == {p \in Used : p[2] \in DOMAIN list[p[1]] /\ list[p[1]][p[2]] \in Conts}
           f == [p \in Held |-> list[p[1]][p[2]]]
<1>8. IsFiniteSet(Held) /\ Cardinality(Held) <= Cardinality(Used)
  BY <1>6, FS_Subset
<1>9. f \in Surjection(Held, Conts)
  <2>1. f \in [Held -> Conts]
    OBVIOUS
  <2>2. ASSUME NEW c \in Conts PROVE \E p \in Held : f[p] = c
    BY <1>7
  <2> QED BY <2>1, <2>2 DEF Surjection
<1>10. Cardinality(Conts) <= Cardinality(Held)
  BY <1>8, <1>9, FS_Surjection
<1>11. /\ Cardinality(Conts) \in Nat /\ Cardinality(Held) \in Nat
       /\ MaxQueues * D \in Nat
  BY <1>3, <1>8, FS_CardinalityType, MxpQAssumption
<1> QED BY <1>1, <1>6, <1>8, <1>10, <1>11

\* A step of t that does not start a wait and takes no queue of the others'
\* waits out of use.
LEMMA OthersStay ==
    ASSUME TypeOK, WaitersOnQueuesInUse, NEW t \in Threads, NEW l, NEW k,
           pc' = [pc EXCEPT ![t] = l], qid' = [qid EXCEPT ![t] = k],
           l \notin Waiting,
           l = "delAll" => \A u \in Threads : pc[u] \in Waiting => u = t,
           \A u \in Threads \ {t} : pc[u] \in Waiting => state'[qid[u]] # 0
    PROVE  WaitersOnQueuesInUse'
<1>1. /\ pc'[t] = l
      /\ \A u \in Threads \ {t} : pc'[u] = pc[u] /\ qid'[u] = qid[u]
  BY DEF TypeOK, LocalsOK
<1> QED BY <1>1 DEF WaitersOnQueuesInUse, InUse

LEMMA TakeHeadStay ==
    ASSUME TypeOK, WaitersOnQueuesInUse, NEW t \in Threads, NEW q, TakeHead(t, q)
    PROVE  WaitersOnQueuesInUse'
<1>1. \A u \in Threads : pc[u] \in Waiting => state'[qid[u]] # 0
  BY TakeHeadNames DEF WaitersOnQueuesInUse, InUse
<1>2. CASE Oops(t)
  BY <1>1, <1>2, OthersStay DEF Oops, Continue, Waiting
<1>3. CASE \E m : ReturnAll(t, "ERR_NOERR", m, 0)
  BY <1>1, <1>3, OthersStay, ZenonT(90) DEF ReturnAll, Waiting
<1> QED BY <1>2, <1>3 DEF TakeHead

LEMMA WaitersStep ==
    ASSUME QuietDelete
    PROVE  TypeOK /\ WaitersOnQueuesInUse /\ [Next]_vars => WaitersOnQueuesInUse'
<1> SUFFICES ASSUME TypeOK, WaitersOnQueuesInUse, [Next]_vars
             PROVE  WaitersOnQueuesInUse'
  OBVIOUS
<1> USE DEF qcbs
<1>0. ASSUME NEW t \in Threads, NEW e, NEW v, Return(t, e, v), state' = state
      PROVE  WaitersOnQueuesInUse'
  <2>1. pc' = [pc EXCEPT ![t] = "idle"] /\ qid' = [qid EXCEPT ![t] = 0]
    BY <1>0 DEF Return, ReturnAll
  <2> QED BY <1>0, <2>1, OthersStay DEF Waiting, WaitersOnQueuesInUse, InUse
<1>1. CASE UNCHANGED vars
  BY <1>1 DEF vars, WaitersOnQueuesInUse, InUse
<1>2. ASSUME NEW t \in Threads, NEW n \in Names, NEW d \in Depths,
             NEW tid \in TaskIds, QCreate(t, n, d, tid)
      PROVE  WaitersOnQueuesInUse'
  <2>1. \A q \in Qids : state[q] # 0 => state'[q] # 0
    BY <1>2 DEF QCreate, TypeOK, QcbsOK
  <2>2. \A u \in Threads : pc[u] \in Waiting => state'[qid[u]] # 0
    BY <2>1 DEF WaitersOnQueuesInUse, InUse, TypeOK, LocalsOK
  <2>3. pc' = [pc EXCEPT ![t] = "idle"] /\ qid' = [qid EXCEPT ![t] = 0]
    BY <1>2 DEF QCreate, Return, ReturnAll
  <2> QED BY <2>2, <2>3, OthersStay DEF Waiting
<1>3. ASSUME NEW t \in Threads, NEW q, QDelete(t, q)
      PROVE  WaitersOnQueuesInUse'
  <2>1. CASE ~Valid(q)
    BY <1>0, <1>3, <2>1 DEF QDelete
  <2>2. CASE Valid(q)
    <3>1. \A u \in Threads : pc[u] \in Waiting => qid[u] # q
      BY <1>3, <2>2 DEF QDelete, MayDelete, Inside
    <3>2. \A u \in Threads : pc[u] \in Waiting => state'[qid[u]] # 0
      BY <1>3, <2>2, <3>1
         DEF QDelete, Release, WaitersOnQueuesInUse, InUse, TypeOK, QcbsOK, LocalsOK
    <3>3. pc' = [pc EXCEPT ![t] = "idle"] /\ qid' = [qid EXCEPT ![t] = 0]
      BY <1>3, <2>2 DEF QDelete, Return, ReturnAll
    <3> QED BY <3>2, <3>3, OthersStay DEF Waiting
  <2> QED BY <2>1, <2>2
<1>4. ASSUME NEW t \in Threads, QDeleteAll(t)
      PROVE  WaitersOnQueuesInUse'
  <2>1. \A u \in Threads : pc[u] \notin Waiting
    BY <1>4 DEF QDeleteAll, MayDelete, Inside, TypeOK, LocalsOK
  <2> QED BY <1>4, <2>1, OthersStay DEF QDeleteAll, Continue, Waiting
<1>5. ASSUME NEW t \in Threads, QDeleteNext(t)
      PROVE  WaitersOnQueuesInUse'
  <2>1. \A u \in Threads : pc[u] \notin Waiting
    BY <1>5 DEF QDeleteNext, WaitersOnQueuesInUse
  <2>2. \E l \in {"idle", "delAll"} : \E k : /\ pc' = [pc EXCEPT ![t] = l]
                                             /\ qid' = [qid EXCEPT ![t] = k]
    BY <1>5 DEF QDeleteNext, Continue, Return, ReturnAll
  <2> QED BY <2>1, <2>2, OthersStay DEF Waiting
<1>6. ASSUME NEW t \in Threads, NEW q, NEW m \in Msgs, QPost(t, q, m)
      PROVE  WaitersOnQueuesInUse'
  <2>1. state' = state
    BY <1>6 DEF QPost, Oops, Enqueue
  <2>2. PICK l \in {"idle", "postWake", "postEvent", "oops"} :
           pc' = [pc EXCEPT ![t] = l] /\ \E k : qid' = [qid EXCEPT ![t] = k]
    BY <1>6 DEF QPost, Oops, Continue, Return, ReturnAll
  <2>3. \A u \in Threads : pc[u] \in Waiting => state'[qid[u]] # 0
    BY <2>1 DEF WaitersOnQueuesInUse, InUse
  <2>4. l \notin Waiting /\ l # "delAll"
    BY DEF Waiting
  <2> QED BY <2>2, <2>3, <2>4, OthersStay
<1>7. ASSUME NEW t \in Threads, NEW q, NEW b \in BOOLEAN, QWait(t, q, b)
      PROVE  WaitersOnQueuesInUse'
  <2>1. CASE \E e : Return(t, e, 0) /\ UNCHANGED qcbs
    BY <1>0, <2>1
  <2>2. CASE TakeHead(t, q)
    BY <2>2, TakeHeadStay
  <2>3. CASE Valid(q) /\ Continue(t, q, "waitCheck") /\ state' = state
    <3>1. \A u \in Threads : pc[u] # "delAll"
      BY <1>7 DEF QWait, MayWait
    <3>2. /\ pc'[t] = "waitCheck" /\ qid'[t] = q /\ state'[q] # 0
          /\ \A u \in Threads \ {t} : pc'[u] = pc[u] /\ qid'[u] = qid[u]
      BY <2>3 DEF Continue, Valid, InUse, TypeOK, LocalsOK
    <3> QED BY <2>3, <3>1, <3>2 DEF WaitersOnQueuesInUse, InUse, Waiting
  <2> QED BY <1>7, <2>1, <2>2, <2>3 DEF QWait
<1>8. ASSUME NEW t \in Threads, QPostWake(t)
      PROVE  WaitersOnQueuesInUse'
  <2>1. /\ pc'[t] \in {"idle", "postEvent"}
        /\ \A u \in Threads \ {t} :
              /\ qid'[u] = qid[u]
              /\ pc'[u] = pc[u] \/ (pc[u] = "asleep" /\ pc'[u] = "waitCheck")
    BY <1>8 DEF QPostWake, Woken, TypeOK, LocalsOK
  <2>2. state' = state
    BY <1>8 DEF QPostWake
  <2> QED BY <2>1, <2>2 DEF WaitersOnQueuesInUse, InUse, Waiting
<1>9. ASSUME NEW t \in Threads, QWaitCheck(t) \/ Signal(t)
      PROVE  WaitersOnQueuesInUse'
  <2>1. /\ pc[t] \in Waiting /\ pc'[t] \in Waiting
        /\ \A u \in Threads \ {t} : pc'[u] = pc[u]
        /\ qid' = qid /\ state' = state
    BY <1>9 DEF QWaitCheck, Signal, Waiting, TypeOK, LocalsOK
  <2> QED BY <2>1 DEF WaitersOnQueuesInUse, InUse, Waiting
<1>10. ASSUME NEW t \in Threads, QWaitResume(t)
       PROVE  WaitersOnQueuesInUse'
  <2>1. CASE Return(t, "SYS_CONFIG_ERR", 0) /\ state' = state
    BY <1>0, <2>1
  <2>2. CASE TakeHead(t, qid[t])
    BY <2>2, TakeHeadStay
  <2> QED BY <1>10, <2>1, <2>2 DEF QWaitResume
<1>11. ASSUME NEW t \in Threads,
              \/ \E n \in Names : QIdentify(t, n)
              \/ \E q \in Qids \cup {0} : QInquiry(t, q)
              \/ QPostEvent(t)
       PROVE  WaitersOnQueuesInUse'
  BY <1>0, <1>11 DEF QIdentify, QInquiry, QPostEvent
<1> QED BY <1>1, <1>2, <1>3, <1>4, <1>5, <1>6, <1>7, <1>8, <1>9, <1>10, <1>11
        DEF Next, Call, Step

\* Only a step that takes the head of an empty list stops its thread.
LEMMA NullStep ==
    ASSUME QuietDelete, EnoughContainers, TypeOK, CountsAgree, PoolConserved,
           DepthsKnown, WaitersOnQueuesInUse, NoNullContainer, [Next]_vars
    PROVE  NoNullContainer'
<1> USE DEF NoNullContainer
<1>0. ASSUME NEW t \in Threads, NEW l, pc' = [pc EXCEPT ![t] = l], l # "oops"
      PROVE  NoNullContainer'
  BY <1>0 DEF TypeOK, LocalsOK
<1>1. ASSUME NEW t \in Threads, NEW q \in Qids, InUse(q), msgcnt[q] # 0,
             TakeHead(t, q)
      PROVE  NoNullContainer'
  <2>1. list[q] # <<>>
    BY <1>1 DEF CountsAgree
  <2> QED BY <1>0, <1>1, <2>1 DEF TakeHead, ReturnAll
<1>2. ASSUME NEW t \in Threads, NEW q, NEW m \in Msgs, QPost(t, q, m)
      PROVE  NoNullContainer'
  <2>1. CASE Valid(q) /\ msgcnt[q] < depth[q]
    <3>1. free # <<>>
      BY <2>1, ContainerLeft DEF Valid
    <3> QED BY <1>0, <1>2, <2>1, <3>1
            DEF QPost, Continue, Return, ReturnAll, TypeOK, QcbsOK, Valid
  <2>2. CASE Return(t, "ERR_QIDINV", 0) \/ Return(t, "ERR_QFULL", 0)
    BY <1>0, <2>2 DEF Return, ReturnAll
  <2> QED BY <1>2, <2>1, <2>2 DEF QPost
<1>3. ASSUME NEW t \in Threads, NEW q, NEW b \in BOOLEAN, QWait(t, q, b)
      PROVE  NoNullContainer'
  BY <1>0, <1>1, <1>3 DEF QWait, Return, ReturnAll, Continue, Valid
<1>4. ASSUME NEW t \in Threads, QWaitResume(t)
      PROVE  NoNullContainer'
  <2>1. pc[t] = "resume" => qid[t] \in Qids /\ InUse(qid[t])
    BY DEF TypeOK, LocalsOK, WaitersOnQueuesInUse, Waiting
  <2> QED BY <1>0, <1>1, <1>4, <2>1 DEF QWaitResume, Return, ReturnAll
<1>5. ASSUME NEW t \in Threads, QPostWake(t)
      PROVE  NoNullContainer'
  BY <1>5 DEF QPostWake, Woken, TypeOK, LocalsOK
<1>6. ASSUME NEW t \in Threads,
             \/ \E n \in Names : \/ \E d \in Depths, tid \in TaskIds : QCreate(t, n, d, tid)
                                 \/ QIdentify(t, n)
             \/ \E q \in Qids \cup {0} : QDelete(t, q) \/ QInquiry(t, q)
             \/ QDeleteAll(t) \/ QDeleteNext(t) \/ QPostEvent(t)
      PROVE  NoNullContainer'
  BY <1>0, <1>6 DEF QCreate, QIdentify, QDelete, QInquiry, QDeleteAll,
                    QDeleteNext, QPostEvent, Return, ReturnAll, Continue
<1>7. ASSUME NEW t \in Threads, QWaitCheck(t) \/ Signal(t)
      PROVE  NoNullContainer'
  BY <1>7 DEF QWaitCheck, Signal, TypeOK, LocalsOK
<1>8. CASE UNCHANGED vars
  BY <1>8 DEF vars
<1> QED BY <1>2, <1>3, <1>4, <1>5, <1>6, <1>7, <1>8 DEF Next, Call, Step

\* With as many containers as all queues at the greatest depth hold, and no
\* queue deleted under a waiter, the heads that mxp_q_post and mxp_q_wait take
\* unchecked are never NULL (mmxp_q.c:249, 297), whatever else threads do.
THEOREM NoNullCorrect ==
    ASSUME QuietDelete, EnoughContainers
    PROVE  Spec => []NoNullContainer
<1>1. Init => DepthsKnown /\ WaitersOnQueuesInUse /\ NoNullContainer
  BY DEF Init, DepthsKnown, WaitersOnQueuesInUse, NoNullContainer, InUse, Waiting
<1>2. TypeOK /\ DepthsKnown /\ [Next]_vars => DepthsKnown'
  <2>1. UNCHANGED vars /\ DepthsKnown => DepthsKnown'
    BY DEF vars, DepthsKnown, InUse
  <2> QED BY <2>1, Steps, DepthsStep
<1>3. TypeOK /\ WaitersOnQueuesInUse /\ [Next]_vars => WaitersOnQueuesInUse'
  BY WaitersStep
<1>4. /\ TypeOK /\ CountsAgree /\ PoolConserved /\ DepthsKnown
      /\ WaitersOnQueuesInUse /\ NoNullContainer /\ [Next]_vars
      => NoNullContainer'
  BY NullStep
<1> QED
  BY <1>1, <1>2, <1>3, <1>4, TypeCorrect, CountsCorrect, PoolCorrect, PTL DEF Spec

================================================================================
