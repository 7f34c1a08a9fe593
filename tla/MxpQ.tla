--------------------------------- MODULE MxpQ ---------------------------------
(***************************************************************************)
(* The MXP message queues of src/mxp/mmxp_q.c: a pool of message           *)
(* containers shared by all queues, the queue control blocks, and the      *)
(* threads that post to, wait on, create and delete queues.                *)
(*                                                                         *)
(* One action is one stretch of code that runs with interrupts masked      *)
(* (local_irq_save .. local_irq_restore), or one step of the kernel        *)
(* primitives between two of them: the condition test and the sleep of     *)
(* wait_event_interruptible, wake_up, a signal.                            *)
(*                                                                         *)
(* The doubly linked lists are sequences of containers here; a thread that *)
(* takes the head of an empty list dereferences NULL and stops in "oops".  *)
(***************************************************************************)
EXTENDS Integers, Sequences, FiniteSets

CONSTANTS
    Threads,        \* the contexts that call into the module
    MaxQueues,      \* MAX_QUEUES - 1 of mxp_mod.h: queues 1 .. MaxQueues
    Conts,          \* the message containers msgs[MAX_MASSAGES]
    Msgs,           \* message pointers
    Names,          \* queue names
    Depths,         \* depths queues are created with
    TaskIds,        \* tasks a queue may be synchronised to; 0 is none
    NoMsg,          \* the msg field of a container never used
    NoName,         \* the name of a queue never used
    Signalled,      \* threads whose sleep a signal may interrupt
    SignalledAlone, \* a thread a signal may interrupt waits alone on its queue
    QuietDelete     \* callers delete a queue only when nobody waits on it

Qids == 1 .. MaxQueues

ASSUME MxpQAssumption ==
    /\ MaxQueues \in Nat
    /\ IsFiniteSet(Conts)
    /\ Depths \subseteq Nat
    /\ TaskIds \subseteq Nat
    /\ 0 \in TaskIds
    /\ NoMsg \notin Msgs
    /\ Signalled \subseteq Threads
    /\ SignalledAlone \in BOOLEAN
    /\ QuietDelete \in BOOLEAN

VARIABLES
    free,       \* freeHead .. freeTail: the free containers, in order
    list,       \* list[q]: head .. tail of queue q
    cmsg,       \* cmsg[c]: the msg field of container c
    state,      \* the fields of mqueue[q]
    name,
    msgcnt,
    depth,
    taskId,
    wait4msg,
    pc,         \* where each thread is
    qid,        \* the queue its call is about
    wakeT,      \* wakeup_t of its post
    reply       \* what the step just made returns to its caller: the error
                \* code, msg_ptr, and the qid or message count it fills in

pool == <<free, list, cmsg>>
qcbs == <<state, name, msgcnt, depth, taskId, wait4msg>>
locals == <<pc, qid, wakeT, reply>>
vars == <<free, list, cmsg, state, name, msgcnt, depth, taskId, wait4msg,
          pc, qid, wakeT, reply>>

Waiting == {"waitCheck", "asleep", "resume", "resumeSig"}
Pcs == Waiting \cup {"idle", "postWake", "postEvent", "delAll", "oops"}
Codes == {"NONE", "ERR_NOERR", "ERR_ASGN", "ERR_NOQCB", "ERR_QIDINV",
          "ERR_QFULL", "ERR_QEMPTY", "ERR_TIDINV", "ERR_INVNAME",
          "SYS_CONFIG_ERR"}
NoReply == [ret |-> "NONE", msg_ptr |-> NoMsg, num |-> 0]

--------------------------------------------------------------------------------
\* q_Init.
Init ==
    /\ free \in [1 .. Cardinality(Conts) -> Conts]
    /\ \A i, j \in DOMAIN free : free[i] = free[j] => i = j
    /\ \A c \in Conts : \E i \in DOMAIN free : free[i] = c
    /\ list = [q \in Qids |-> <<>>]
    /\ cmsg = [c \in Conts |-> NoMsg]
    /\ state = [q \in Qids |-> 0]
    /\ name = [q \in Qids |-> NoName]
    /\ msgcnt = [q \in Qids |-> 0]
    /\ depth = [q \in Qids |-> 0]
    /\ taskId = [q \in Qids |-> 0]
    /\ wait4msg = [q \in Qids |-> 0]
    /\ pc = [t \in Threads |-> "idle"]
    /\ qid = [t \in Threads |-> 0]
    /\ wakeT = [t \in Threads |-> 0]
    /\ reply = NoReply

\* Thread t's call returns e, with message m and number v.
ReturnAll(t, e, m, v) ==
    /\ pc' = [pc EXCEPT ![t] = "idle"]
    /\ qid' = [qid EXCEPT ![t] = 0]
    /\ wakeT' = [wakeT EXCEPT ![t] = 0]
    /\ reply' = [ret |-> e, msg_ptr |-> m, num |-> v]

Return(t, e, v) == ReturnAll(t, e, NoMsg, v)

\* Thread t's call about queue q goes on at l.
Continue(t, q, l) ==
    /\ pc' = [pc EXCEPT ![t] = l]
    /\ qid' = [qid EXCEPT ![t] = q]
    /\ reply' = NoReply

\* Thread t dereferences NULL and never runs again.
Oops(t) == Continue(t, qid[t], "oops") /\ UNCHANGED <<pool, qcbs, wakeT>>

InUse(q) == state[q] # 0

\* What the bounds and state check at the head of every handler accepts.
Valid(q) == q \in Qids /\ InUse(q)

\* A faulty search that starts at the second queue.
ByNameFromSecond(n) == {q \in Qids \ {1} : InUse(q) /\ name[q] = n}

\* qcb_by_name returns the least member of this set, or -1 if it is empty.
ByName(n) == {q \in Qids : InUse(q) /\ name[q] = n}

\* msg_queue_alloc returns the least member of this set, or 0 if it is empty.
Unused == {q \in Qids : ~InUse(q)}

Least(S) == CHOOSE q \in S : \A r \in S : q <= r

\* Assumptions on the callers, where a constant asks for them.
Inside(q) == {t \in Threads : pc[t] \in Waiting /\ qid[t] = q}
MayWait(t, q) ==
    /\ SignalledAlone =>
         /\ t \in Signalled => Inside(q) = {}
         /\ Inside(q) \cap Signalled = {}
    /\ QuietDelete => \A u \in Threads : pc[u] # "delAll"
MayDelete(q) == QuietDelete => Inside(q) = {}
--------------------------------------------------------------------------------
QCreate(t, n, d, tid) ==
    /\ pc[t] = "idle"
    /\ UNCHANGED pool
    /\ \/ /\ ByName(n) # {}
          /\ Return(t, "ERR_ASGN", 0)
          /\ UNCHANGED qcbs
       \/ /\ ByName(n) = {}
          /\ Unused = {}
          /\ Return(t, "ERR_NOQCB", 0)
          /\ UNCHANGED qcbs
       \/ /\ ByName(n) = {}
          /\ Unused # {}
          /\ LET q == Least(Unused)
             IN  /\ state' = [state EXCEPT ![q] = 1]
                 /\ name' = [name EXCEPT ![q] = n]
                 /\ msgcnt' = [msgcnt EXCEPT ![q] = 0]
                 /\ depth' = [depth EXCEPT ![q] = d]
                 /\ taskId' = [taskId EXCEPT ![q] = tid]
                 /\ wait4msg' = [wait4msg EXCEPT ![q] = 0]
                 /\ Return(t, "ERR_NOERR", q)

\* A faulty deletion that does not return the containers to the pool.
ReleaseLeaks(q) ==
    /\ list' = [list EXCEPT ![q] = <<>>]
    /\ state' = [state EXCEPT ![q] = 0]
    /\ UNCHANGED <<free, cmsg, name, msgcnt, depth, taskId, wait4msg>>

\* A faulty deletion that leaves the control block in use.
ReleaseKeepsState(q) ==
    /\ free' = free \o list[q]
    /\ list' = [list EXCEPT ![q] = <<>>]
    /\ UNCHANGED <<cmsg, state, name, msgcnt, depth, taskId, wait4msg>>

\* The body of mxp_q_delete.  msgcnt and wait4msg keep their values and no
\* sleeper is woken.
Release(q) ==
    /\ free' = free \o list[q]
    /\ list' = [list EXCEPT ![q] = <<>>]
    /\ state' = [state EXCEPT ![q] = 0]
    /\ UNCHANGED <<cmsg, name, msgcnt, depth, taskId, wait4msg>>

QDelete(t, q) ==
    /\ pc[t] = "idle"
    /\ \/ /\ ~Valid(q)
          /\ Return(t, "ERR_QIDINV", 0)
          /\ UNCHANGED <<pool, qcbs>>
       \/ /\ Valid(q)
          /\ MayDelete(q)
          /\ Release(q)
          /\ Return(t, "ERR_NOERR", 0)

\* mxp_q_delete_all deletes queue after queue, each in a masked section of its
\* own; qid[t] is its loop variable.
QDeleteAll(t) ==
    /\ pc[t] = "idle"
    /\ \A q \in Qids : MayDelete(q)
    /\ Continue(t, 1, "delAll")
    /\ UNCHANGED <<pool, qcbs, wakeT>>

QDeleteNext(t) ==
    /\ pc[t] = "delAll"
    /\ \/ /\ Valid(qid[t])
          /\ Release(qid[t])
          /\ Continue(t, qid[t] + 1, "delAll")
          /\ UNCHANGED wakeT
       \/ /\ qid[t] \in Unused
          /\ Continue(t, qid[t] + 1, "delAll")
          /\ UNCHANGED <<pool, qcbs, wakeT>>
       \/ /\ qid[t] > MaxQueues
          /\ Return(t, "ERR_NOERR", 0)
          /\ UNCHANGED <<pool, qcbs>>
--------------------------------------------------------------------------------
\* Faulty posts: one that puts the container at the head of the queue, one that
\* counts down, one that leaves the flag of the waiter set.
EnqueueFirst(q, m) ==
    /\ free' = Tail(free)
    /\ cmsg' = [cmsg EXCEPT ![Head(free)] = m]
    /\ list' = [list EXCEPT ![q] = <<Head(free)>> \o @]
    /\ msgcnt' = [msgcnt EXCEPT ![q] = @ + 1]
    /\ wait4msg' = [wait4msg EXCEPT ![q] = 0]
    /\ UNCHANGED <<state, name, depth, taskId>>

EnqueueCountsDown(q, m) ==
    /\ free' = Tail(free)
    /\ cmsg' = [cmsg EXCEPT ![Head(free)] = m]
    /\ list' = [list EXCEPT ![q] = Append(@, Head(free))]
    /\ msgcnt' = [msgcnt EXCEPT ![q] = @ - 1]
    /\ wait4msg' = [wait4msg EXCEPT ![q] = 0]
    /\ UNCHANGED <<state, name, depth, taskId>>

EnqueueKeepsFlag(q, m) ==
    /\ free' = Tail(free)
    /\ cmsg' = [cmsg EXCEPT ![Head(free)] = m]
    /\ list' = [list EXCEPT ![q] = Append(@, Head(free))]
    /\ msgcnt' = [msgcnt EXCEPT ![q] = @ + 1]
    /\ UNCHANGED <<state, name, depth, taskId, wait4msg>>

\* The masked section of a successful mxp_q_post.
Enqueue(q, m) ==
    /\ free' = Tail(free)
    /\ cmsg' = [cmsg EXCEPT ![Head(free)] = m]
    /\ list' = [list EXCEPT ![q] = Append(@, Head(free))]
    /\ msgcnt' = [msgcnt EXCEPT ![q] = @ + 1]
    /\ wait4msg' = [wait4msg EXCEPT ![q] = 0]
    /\ UNCHANGED <<state, name, depth, taskId>>

QPost(t, q, m) ==
    /\ pc[t] = "idle"
    /\ \/ /\ ~Valid(q)
          /\ Return(t, "ERR_QIDINV", 0)
          /\ UNCHANGED <<pool, qcbs>>
       \/ /\ Valid(q)
          /\ msgcnt[q] >= depth[q]
          /\ Return(t, "ERR_QFULL", 0)
          /\ UNCHANGED <<pool, qcbs>>
       \/ /\ Valid(q)
          /\ msgcnt[q] < depth[q]
          /\ free = <<>>
          /\ Oops(t)
       \/ /\ Valid(q)
          /\ msgcnt[q] < depth[q]
          /\ free # <<>>
          /\ Enqueue(q, m)
          /\ \/ /\ wait4msg[q] > 0
                /\ Continue(t, q, "postWake")
                /\ wakeT' = [wakeT EXCEPT ![t] = taskId[q]]
             \/ /\ wait4msg[q] = 0
                /\ taskId[q] # 0
                /\ Continue(t, q, "postEvent")
                /\ wakeT' = [wakeT EXCEPT ![t] = taskId[q]]
             \/ /\ wait4msg[q] = 0
                /\ taskId[q] = 0
                /\ Return(t, "ERR_NOERR", 0)

\* A faulty wake_up that reaches one sleeper only.
WokenOne(q) ==
    LET sleepers == {u \in Threads : pc[u] = "asleep" /\ qid[u] = q}
    IN  [u \in Threads |-> IF sleepers # {} /\ u = (CHOOSE s \in sleepers : TRUE)
                           THEN "waitCheck" ELSE pc[u]]

\* Where the threads are after wake_up: every sleeper tests its condition again.
Woken(q) == [u \in Threads |-> IF pc[u] = "asleep" /\ qid[u] = q
                               THEN "waitCheck" ELSE pc[u]]

\* wake_up of the queue's sleepers, after the masked section of mxp_q_post.
QPostWake(t) ==
    /\ pc[t] = "postWake"
    /\ \/ /\ wakeT[t] # 0
          /\ pc' = [Woken(qid[t]) EXCEPT ![t] = "postEvent"]
          /\ reply' = NoReply
          /\ UNCHANGED qid
       \/ /\ wakeT[t] = 0
          /\ pc' = [Woken(qid[t]) EXCEPT ![t] = "idle"]
          /\ reply' = [NoReply EXCEPT !.ret = "ERR_NOERR"]
          /\ qid' = [qid EXCEPT ![t] = 0]
    /\ UNCHANGED <<pool, qcbs, wakeT>>

\* mxp_ev_post to the task of the queue; its result is the result of the post.
\* Here the task may or may not exist.
QPostEvent(t) ==
    /\ pc[t] = "postEvent"
    /\ \E e \in {"ERR_NOERR", "ERR_TIDINV"} : Return(t, e, 0)
    /\ UNCHANGED <<pool, qcbs>>
--------------------------------------------------------------------------------
\* mxp_q_wait takes the head of the list; msgcnt[q] # 0 has been tested.
TakeHead(t, q) ==
    \/ /\ list[q] = <<>>
       /\ Oops(t)
    \/ /\ list[q] # <<>>
       /\ list' = [list EXCEPT ![q] = Tail(@)]
       /\ free' = Append(free, Head(list[q]))
       /\ msgcnt' = [msgcnt EXCEPT ![q] = @ - 1]
       /\ ReturnAll(t, "ERR_NOERR", cmsg[Head(list[q])], 0)
       /\ UNCHANGED <<cmsg, state, name, depth, taskId, wait4msg>>

QWait(t, q, noBlock) ==
    /\ pc[t] = "idle"
    /\ MayWait(t, q)
    /\ \/ /\ ~Valid(q)
          /\ Return(t, "ERR_QIDINV", 0)
          /\ UNCHANGED <<pool, qcbs>>
       \/ /\ Valid(q)
          /\ msgcnt[q] # 0
          /\ TakeHead(t, q)
       \/ /\ Valid(q)
          /\ msgcnt[q] = 0
          /\ noBlock
          /\ Return(t, "ERR_QEMPTY", 0)
          /\ UNCHANGED <<pool, qcbs>>
       \/ /\ Valid(q)
          /\ msgcnt[q] = 0
          /\ ~noBlock
          /\ wait4msg' = [wait4msg EXCEPT ![q] = 1]
          /\ Continue(t, q, "waitCheck")
          /\ UNCHANGED <<pool, wakeT, state, name, msgcnt, depth, taskId>>

\* wait_event_interruptible tests its condition and sleeps if it is false.
QWaitCheck(t) ==
    /\ pc[t] = "waitCheck"
    /\ pc' = [pc EXCEPT ![t] = IF wait4msg[qid[t]] = 0 THEN "resume" ELSE "asleep"]
    /\ reply' = NoReply
    /\ UNCHANGED <<pool, qcbs, qid, wakeT>>

\* A signal ends the sleep, with -ERESTARTSYS if the condition is still false.
Signal(t) ==
    /\ t \in Signalled
    /\ pc[t] = "asleep"
    /\ pc' = [pc EXCEPT ![t] = IF wait4msg[qid[t]] = 0 THEN "resume" ELSE "resumeSig"]
    /\ reply' = NoReply
    /\ UNCHANGED <<pool, qcbs, qid, wakeT>>

\* The masked section after the sleep.  The state of the queue is not tested.
QWaitResume(t) ==
    LET q == qid[t]
    IN  \/ /\ pc[t] = "resumeSig"
           /\ wait4msg' = [wait4msg EXCEPT ![q] = 0]
           /\ Return(t, "SYS_CONFIG_ERR", 0)
           /\ UNCHANGED <<pool, state, name, msgcnt, depth, taskId>>
        \/ /\ pc[t] = "resume"
           /\ msgcnt[q] = 0
           /\ Return(t, "SYS_CONFIG_ERR", 0)
           /\ UNCHANGED <<pool, qcbs>>
        \/ /\ pc[t] = "resume"
           /\ msgcnt[q] # 0
           /\ TakeHead(t, q)
--------------------------------------------------------------------------------
\* mxp_q_identify compares with 0, which qcb_by_name never returns.
QIdentify(t, n) ==
    LET found == IF ByName(n) = {} THEN -1 ELSE Least(ByName(n))
    IN  /\ pc[t] = "idle"
        /\ Return(t, IF found = 0 THEN "ERR_INVNAME" ELSE "ERR_NOERR", found)
        /\ UNCHANGED <<pool, qcbs>>

QInquiry(t, q) ==
    /\ pc[t] = "idle"
    /\ \/ /\ ~Valid(q)
          /\ Return(t, "ERR_QIDINV", 0)
       \/ /\ Valid(q)
          /\ Return(t, "ERR_NOERR", msgcnt[q])
    /\ UNCHANGED <<pool, qcbs>>

\* A call made by thread t.  0 stands for every queue id out of range.
Call(t) ==
    \/ \E n \in Names :
          \/ \E d \in Depths, tid \in TaskIds : QCreate(t, n, d, tid)
          \/ QIdentify(t, n)
    \/ \E q \in Qids \cup {0} :
          \/ QDelete(t, q)
          \/ \E m \in Msgs : QPost(t, q, m)
          \/ \E noBlock \in BOOLEAN : QWait(t, q, noBlock)
          \/ QInquiry(t, q)
    \/ QDeleteAll(t)

\* Thread t goes on with the call it is in.
Step(t) ==
    \/ QDeleteNext(t)
    \/ QPostWake(t)
    \/ QPostEvent(t)
    \/ QWaitCheck(t)
    \/ QWaitResume(t)

Next == \E t \in Threads : Call(t) \/ Step(t) \/ Signal(t)

Spec == Init /\ [][Next]_vars

\* The scheduler runs every thread that is ready to run; no call and no signal
\* has to come.
Fairness == \A t \in Threads : WF_vars(Step(t))

FairSpec == Spec /\ Fairness
--------------------------------------------------------------------------------
PoolOK ==
    /\ free \in Seq(Conts)
    /\ list \in [Qids -> Seq(Conts)]
    /\ cmsg \in [Conts -> Msgs \cup {NoMsg}]

QcbsOK ==
    /\ state \in [Qids -> {0, 1}]
    /\ name \in [Qids -> Names \cup {NoName}]
    /\ msgcnt \in [Qids -> Nat]
    /\ depth \in [Qids -> Nat]
    /\ taskId \in [Qids -> TaskIds]
    /\ wait4msg \in [Qids -> {0, 1}]

LocalsOK ==
    /\ pc \in [Threads -> Pcs]
    /\ qid \in [Threads -> 0 .. MaxQueues + 1]
    /\ \A t \in Threads : pc[t] \in Waiting \cup {"postWake"} => qid[t] \in Qids
    /\ \A t \in Threads : pc[t] = "delAll" => qid[t] # 0
    /\ wakeT \in [Threads -> TaskIds]
    /\ reply \in [ret : Codes, msg_ptr : Msgs \cup {NoMsg}, num : Int]

\* The variables have their types: no counter goes below zero, and a thread
\* inside a call has the queue of the call at hand (mmxp_q.c:253, 301, 314).
TypeOK == PoolOK /\ QcbsOK /\ LocalsOK

\* All the lists a container can be linked into: 0 is the free list.
Lists == 0 .. MaxQueues
ListOf(q) == IF q = 0 THEN free ELSE list[q]

\* Every container is at exactly one place: it is never lost from the pool and
\* never linked into two lists, whatever posts, waits and deletions interleave
\* (mmxp_q.c:20-28, the hand-overs at 250-252, 298-299 and 195-196).
PoolConserved ==
    /\ \A c \in Conts : \E q \in Lists : \E i \in DOMAIN ListOf(q) : ListOf(q)[i] = c
    /\ \A q, r \in Lists : \A i \in DOMAIN ListOf(q), j \in DOMAIN ListOf(r) :
          ListOf(q)[i] = ListOf(r)[j] => q = r /\ i = j

\* The counter that mxp_q_post and mxp_q_wait test instead of the list agrees
\* with the list of every queue in use and respects its depth, and a queue not
\* in use holds no container (mmxp_q.c:244, 253, 295, 301).
CountsAgree ==
    \A q \in Qids :
        IF InUse(q) THEN msgcnt[q] = Len(list[q]) /\ msgcnt[q] <= depth[q]
                    ELSE list[q] = <<>>

\* No two queues in use have the same name, so mxp_q_identify is a function
\* (mmxp_q.c:149, 348).
NamesUnique ==
    \A q, r \in Qids : InUse(q) /\ InUse(r) /\ name[q] = name[r] => q = r

\* The messages in queue q.
Contents(q) == [i \in DOMAIN list[q] |-> cmsg[list[q][i]]]

\* The queues are FIFO channels that deliver each message exactly once.
Channels == INSTANCE MsgChannels WITH
    open <- {q \in Qids : InUse(q)},
    chan <- [q \in Qids |-> Contents(q)],
    cap <- depth,
    got <- reply.msg_ptr

\* Every step of the queues is a step of the channels or changes no channel:
\* no message is lost, duplicated, reordered or handed to two waiters, in spite
\* of the container going back to the pool before its message is read
\* (mmxp_q.c:298-301).
DeliversFifo == Channels!Spec

\* No thread ever takes the head of an empty list: with as many containers as
\* the depths add up to, and no deletion under a waiter, the unchecked heads at
\* mmxp_q.c:249 and 297 are never NULL.
NoNullContainer == \A t \in Threads : pc[t] # "oops"

\* A sleeper whose condition is true or whose queue has a message is about to
\* be woken by the post that made it so (mmxp_q.c:255-268, 312-321).
NoLostWakeup ==
    \A t \in Threads :
        pc[t] = "asleep" /\ (msgcnt[qid[t]] # 0 \/ wait4msg[qid[t]] = 0)
            => \E u \in Threads : pc[u] = "postWake" /\ qid[u] = qid[t]

\* A thread that waits alone on a queue with a message gets to the end of its
\* call: nobody else can take the message.
LoneWaiterServed ==
    \A t \in Signalled, q \in Qids :
        (t \in Inside(q) /\ msgcnt[q] # 0) ~> pc[t] = "idle"

\* With any number of waiters, messages and waiters do not stay side by side:
\* the queue is emptied or the waiter leaves.
MessageNotStuck ==
    \A t \in Threads, q \in Qids :
        (t \in Inside(q) /\ msgcnt[q] # 0) ~> (t \notin Inside(q) \/ msgcnt[q] = 0)

================================================================================
