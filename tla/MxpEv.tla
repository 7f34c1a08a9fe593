--------------------------------- MODULE MxpEv ---------------------------------
(***************************************************************************)
(* The MXP task control blocks of src/mxp/mmxpcore.c and the events of     *)
(* src/mxp/mmxp_ev.c: threads allocate and free tasks, post events to      *)
(* them, clear them and wait for them.                                     *)
(*                                                                         *)
(* As in MxpQ, one action is one stretch of code with interrupts masked or *)
(* one step of the kernel primitives between two of them.  A task is not a *)
(* thread: it is a control block, and any thread may name any task.  The   *)
(* event counter event_cnt, which the code counts and prints but never     *)
(* tests, is left out.                                                     *)
(***************************************************************************)
EXTENDS Integers, FiniteSets

CONSTANTS
    Threads,    \* the contexts that call into the module, the DSP's ISR included
    MaxTasks,   \* MXP_TASK_MAX - 1 of mxp_mod.h: tasks 1 .. MaxTasks
    Names,      \* task names
    Events,     \* the bits of an event word
    NoName,     \* the name of a task never allocated
    None,       \* no request, no answer
    Owned,      \* tasks whose waits, clears and deletion never overlap a wait
    Signalled   \* threads whose sleep a signal may interrupt

Tids == 1 .. MaxTasks

ASSUME MxpEvAssumption ==
    /\ MaxTasks \in Nat
    /\ Owned \subseteq Tids
    /\ Signalled \subseteq Threads
    /\ None \notin [task : Tids, events : SUBSET Events]
    /\ None \notin [task : Tids, cond : {"OR", "AND"}, events : SUBSET Events]

VARIABLES
    busy,       \* the fields of mxp_tcb[k]
    name,
    posted,     \* events_posted
    cond,       \* events_condition
    mask,       \* events_mask
    wait4event,
    pc,         \* where each thread is
    tid,        \* the task its call is about
    ask,        \* the message of a thread inside a wait: what it asked for
    reply       \* what the step just made returns: the error code, the tid
                \* and the events of the message, and whether a wait took them

tcbs == <<busy, name, posted, cond, mask, wait4event>>
vars == <<busy, name, posted, cond, mask, wait4event, pc, tid, ask, reply>>

Waiting == {"waitCheck", "asleep", "resume", "resumeSig"}
Pcs == Waiting \cup {"idle", "postWake"}
Codes == {"NONE", "ERR_NOERR", "ERR_TIDINV", "ERR_ASGN", "ERR_NOTCB", "ERR_NOEVT",
          "ERR_INVNAME", "SYS_ILLEGAL_REQUEST", "SYS_CONFIG_ERR"}
NoReply == [ret |-> "NONE", tid |-> 0, events |-> {}, took |-> FALSE]
Asks == [task : Tids, cond : {"OR", "AND"}, events : SUBSET Events]

--------------------------------------------------------------------------------
\* The memset of the control blocks when the module is loaded.
Init ==
    /\ busy = [k \in Tids |-> 0]
    /\ name = [k \in Tids |-> NoName]
    /\ posted = [k \in Tids |-> {}]
    /\ cond = [k \in Tids |-> "OR"]
    /\ mask = [k \in Tids |-> {}]
    /\ wait4event = [k \in Tids |-> 0]
    /\ pc = [t \in Threads |-> "idle"]
    /\ tid = [t \in Threads |-> 0]
    /\ ask = [t \in Threads |-> None]
    /\ reply = NoReply

\* A faulty return that leaves the request of the call standing.
LeaveKeepsAsk(t) ==
    /\ pc' = [pc EXCEPT ![t] = "idle"]
    /\ tid' = [tid EXCEPT ![t] = 0]
    /\ UNCHANGED ask

\* Thread t leaves its call.
Leave(t) ==
    /\ pc' = [pc EXCEPT ![t] = "idle"]
    /\ tid' = [tid EXCEPT ![t] = 0]
    /\ ask' = [ask EXCEPT ![t] = None]

\* Thread t's call returns e, with the tid k and the events S in its message.
Return(t, e, k, S) ==
    /\ Leave(t)
    /\ reply' = [ret |-> e, tid |-> k, events |-> S, took |-> FALSE]

\* Thread t's wait for task k returns the events S.
ReturnTaken(t, k, S) ==
    /\ Leave(t)
    /\ reply' = [ret |-> "ERR_NOERR", tid |-> k, events |-> S, took |-> TRUE]

Fail(t, e) == Return(t, e, 0, {}) /\ UNCHANGED tcbs

Busy(k) == busy[k] # 0

\* What the bounds and busy check at the head of every handler accepts.
Valid(k) == k \in Tids /\ Busy(k)

\* A faulty search that skips the first task.
ByNameFromSecond(n) == {k \in Tids \ {1} : Busy(k) /\ name[k] = n}

\* tcb_by_name returns the least member of this set, or -1 if it is empty.
ByName(n) == {k \in Tids : Busy(k) /\ name[k] = n}

Unused == {k \in Tids : ~Busy(k)}

Least(S) == CHOOSE k \in S : \A j \in S : k <= j

\* The callers' rule for owned tasks: nobody waits for, clears or frees a task
\* that another thread is waiting for.
Inside(k) == {t \in Threads : pc[t] \in Waiting /\ tid[t] = k}
MayDisturb(k) == k \in Owned => Inside(k) = {}
--------------------------------------------------------------------------------
TcbIdentify(t, n) ==
    /\ pc[t] = "idle"
    /\ IF ByName(n) = {} THEN Return(t, "ERR_INVNAME", -1, {})
                         ELSE Return(t, "ERR_NOERR", Least(ByName(n)), {})
    /\ UNCHANGED tcbs

\* Only busy and name are set: a new task starts with the events, the mask and
\* the wait4event of the one that had its control block before.
TcbAlloc(t, n) ==
    /\ pc[t] = "idle"
    /\ \/ /\ ByName(n) # {}
          /\ Fail(t, "ERR_ASGN")
       \/ /\ ByName(n) = {}
          /\ Unused = {}
          /\ Fail(t, "ERR_NOTCB")
       \/ /\ ByName(n) = {}
          /\ Unused # {}
          /\ LET k == Least(Unused)
             IN  /\ busy' = [busy EXCEPT ![k] = 1]
                 /\ name' = [name EXCEPT ![k] = n]
                 /\ Return(t, "ERR_NOERR", k, {})
          /\ UNCHANGED <<posted, cond, mask, wait4event>>

\* A thread that waits for the task is not woken.
TcbFree(t, k) ==
    /\ pc[t] = "idle"
    /\ MayDisturb(k)
    /\ \/ /\ ~Valid(k)
          /\ Fail(t, "ERR_TIDINV")
       \/ /\ Valid(k)
          /\ busy' = [busy EXCEPT ![k] = 0]
          /\ Return(t, "ERR_NOERR", k, {})
          /\ UNCHANGED <<name, posted, cond, mask, wait4event>>
--------------------------------------------------------------------------------
\* Whether the events S answer a wait for the events E under condition c.
Satisfied(c, E, S) == IF c = "OR" THEN S \cap E # {} ELSE E \subseteq S

\* A faulty test that looks at the events of this post only.
WakesByNewEvents(k, S) == wait4event[k] # 0 /\ Satisfied(cond[k], mask[k], S)

\* A post of S to k ends a wait.
Wakes(k, S) == wait4event[k] # 0 /\ Satisfied(cond[k], mask[k], posted[k] \cup S)

EvPost(t, k, S) ==
    /\ pc[t] = "idle"
    /\ \/ /\ ~Valid(k)
          /\ Fail(t, "ERR_TIDINV")
       \/ /\ Valid(k)
          /\ posted' = [posted EXCEPT ![k] = @ \cup S]
          /\ \/ /\ Wakes(k, S)
                /\ wait4event' = [wait4event EXCEPT ![k] = 0]
                /\ pc' = [pc EXCEPT ![t] = "postWake"]
                /\ tid' = [tid EXCEPT ![t] = k]
                /\ reply' = NoReply
                /\ UNCHANGED ask
             \/ /\ ~Wakes(k, S)
                /\ Return(t, "ERR_NOERR", k, S)
                /\ UNCHANGED wait4event
          /\ UNCHANGED <<busy, name, cond, mask>>

\* wake_up of the gate of k: every sleeper tests its condition again.
Woken(k) == [u \in Threads |-> IF pc[u] = "asleep" /\ tid[u] = k
                               THEN "waitCheck" ELSE pc[u]]

EvPostWake(t) ==
    /\ pc[t] = "postWake"
    /\ pc' = [Woken(tid[t]) EXCEPT ![t] = "idle"]
    /\ tid' = [tid EXCEPT ![t] = 0]
    /\ reply' = [NoReply EXCEPT !.ret = "ERR_NOERR"]
    /\ UNCHANGED <<tcbs, ask>>

\* mxp_task_wakeup: the timer of a thread sleeping for task k shares its gate.
GateWake(k) ==
    /\ pc' = Woken(k)
    /\ reply' = NoReply
    /\ UNCHANGED <<tcbs, tid, ask>>
--------------------------------------------------------------------------------
EvWait(t, k, c, E, timeout) ==
    /\ pc[t] = "idle"
    /\ MayDisturb(k)
    /\ \/ /\ ~Valid(k)
          /\ Fail(t, "ERR_TIDINV")
       \/ /\ Valid(k)
          /\ c \notin {"OR", "AND"}
          /\ Fail(t, "SYS_ILLEGAL_REQUEST")
       \/ /\ Valid(k)
          /\ c \in {"OR", "AND"}
          /\ Satisfied(c, E, posted[k])
          /\ posted' = [posted EXCEPT ![k] = @ \ E]
          /\ ReturnTaken(t, k, E \cap posted[k])
          /\ UNCHANGED <<busy, name, cond, mask, wait4event>>
       \/ /\ Valid(k)
          /\ c \in {"OR", "AND"}
          /\ ~Satisfied(c, E, posted[k])
          /\ \/ timeout = "NO_BLOCK" /\ Fail(t, "ERR_NOEVT")
             \/ timeout = "ticks" /\ Fail(t, "SYS_ILLEGAL_REQUEST")
             \/ /\ timeout = "INDEFINITE"
                /\ cond' = [cond EXCEPT ![k] = c]
                /\ mask' = [mask EXCEPT ![k] = E]
                /\ wait4event' = [wait4event EXCEPT ![k] = 1]
                /\ pc' = [pc EXCEPT ![t] = "waitCheck"]
                /\ tid' = [tid EXCEPT ![t] = k]
                /\ ask' = [ask EXCEPT ![t] = [task |-> k, cond |-> c, events |-> E]]
                /\ reply' = NoReply
                /\ UNCHANGED <<busy, name, posted>>

\* A faulty sleep that does not test its condition (the interruptible_sleep_on
\* that mmxp_ev.c:114 keeps as a comment).
SleepsUntested(t) ==
    /\ pc[t] = "waitCheck"
    /\ pc' = [pc EXCEPT ![t] = "asleep"]
    /\ reply' = NoReply
    /\ UNCHANGED <<tcbs, tid, ask>>

\* wait_event_interruptible tests its condition and sleeps if it is false.
EvWaitCheck(t) ==
    /\ pc[t] = "waitCheck"
    /\ pc' = [pc EXCEPT ![t] = IF wait4event[tid[t]] = 0 THEN "resume" ELSE "asleep"]
    /\ reply' = NoReply
    /\ UNCHANGED <<tcbs, tid, ask>>

\* A signal ends the sleep, with -ERESTARTSYS if the condition is still false.
Signal(t) ==
    /\ t \in Signalled
    /\ pc[t] = "asleep"
    /\ pc' = [pc EXCEPT ![t] = IF wait4event[tid[t]] = 0 THEN "resume" ELSE "resumeSig"]
    /\ reply' = NoReply
    /\ UNCHANGED <<tcbs, tid, ask>>

\* A faulty resumption that takes the events but leaves them posted.
ResumeKeepsEvents(t) ==
    LET k == tid[t]
    IN  /\ pc[t] = "resume"
        /\ ReturnTaken(t, k, IF cond[k] = "OR" THEN mask[k] \cap posted[k] ELSE mask[k])
        /\ UNCHANGED tcbs

\* A faulty resumption that clears all events of the task.
ResumeClearsAll(t) ==
    LET k == tid[t]
    IN  /\ pc[t] = "resume"
        /\ posted' = [posted EXCEPT ![k] = {}]
        /\ ReturnTaken(t, k, IF cond[k] = "OR" THEN mask[k] \cap posted[k] ELSE mask[k])
        /\ UNCHANGED <<busy, name, cond, mask, wait4event>>

\* The masked section after the sleep, when a post ended it.  It goes by the
\* mask and the condition of the control block, whoever stored them; under AND
\* it does not look whether the events are posted still.
ResumePosted(t) ==
    LET k == tid[t]
    IN  /\ pc[t] = "resume"
        /\ posted' = [posted EXCEPT ![k] = @ \ mask[k]]
        /\ ReturnTaken(t, k, IF cond[k] = "OR" THEN mask[k] \cap posted[k] ELSE mask[k])
        /\ UNCHANGED <<busy, name, cond, mask, wait4event>>

EvWaitResume(t) ==
    \/ /\ pc[t] = "resumeSig"
       /\ wait4event' = [wait4event EXCEPT ![tid[t]] = 0]
       /\ Return(t, "SYS_CONFIG_ERR", 0, {})
       /\ UNCHANGED <<busy, name, posted, cond, mask>>
    \/ ResumePosted(t)

EvClear(t, k, S) ==
    /\ pc[t] = "idle"
    /\ MayDisturb(k)
    /\ \/ /\ ~Valid(k)
          /\ Fail(t, "ERR_TIDINV")
       \/ /\ Valid(k)
          /\ posted' = [posted EXCEPT ![k] = @ \ S]
          /\ Return(t, "ERR_NOERR", k, {})
          /\ UNCHANGED <<busy, name, cond, mask, wait4event>>

EvInquiry(t, k) ==
    /\ pc[t] = "idle"
    /\ IF Valid(k) THEN Return(t, "ERR_NOERR", k, posted[k]) ELSE Return(t, "ERR_TIDINV", 0, {})
    /\ UNCHANGED tcbs

\* A call made by thread t.  0 stands for every task id out of range.
Call(t) ==
    \/ \E n \in Names : TcbIdentify(t, n) \/ TcbAlloc(t, n)
    \/ \E k \in Tids \cup {0} :
          \/ TcbFree(t, k)
          \/ EvInquiry(t, k)
          \/ \E S \in SUBSET Events :
                \/ EvPost(t, k, S)
                \/ EvClear(t, k, S)
                \/ \E c \in {"OR", "AND", "other"},
                      timeout \in {"NO_BLOCK", "INDEFINITE", "ticks"} :
                         EvWait(t, k, c, S, timeout)

\* Thread t goes on with the call it is in.
Step(t) == EvPostWake(t) \/ EvWaitCheck(t) \/ EvWaitResume(t)

Next ==
    \/ \E t \in Threads : Call(t) \/ Step(t) \/ Signal(t)
    \/ \E k \in Tids : GateWake(k)

Spec == Init /\ [][Next]_vars

\* The scheduler runs every thread that is ready to run; no call, no signal and
\* no timer has to come.
Fairness == \A t \in Threads : WF_vars(Step(t))

FairSpec == Spec /\ Fairness
--------------------------------------------------------------------------------
TcbsOK ==
    /\ busy \in [Tids -> {0, 1}]
    /\ name \in [Tids -> Names \cup {NoName}]
    /\ posted \in [Tids -> SUBSET Events]
    /\ cond \in [Tids -> {"OR", "AND"}]
    /\ mask \in [Tids -> SUBSET Events]
    /\ wait4event \in [Tids -> {0, 1}]

LocalsOK ==
    /\ pc \in [Threads -> Pcs]
    /\ tid \in [Threads -> 0 .. MaxTasks]
    /\ ask \in [Threads -> Asks \cup {None}]
    /\ \A t \in Threads : pc[t] # "idle" => tid[t] \in Tids
    /\ \A t \in Threads : IF pc[t] \in Waiting THEN ask[t] \in Asks /\ ask[t].task = tid[t]
                                               ELSE ask[t] = None
    /\ reply \in [ret : Codes, tid : -1 .. MaxTasks, events : SUBSET Events,
                 took : BOOLEAN]

\* The variables have their types, and a thread has a request exactly while it
\* is inside a wait, for the task of its call (mmxp_ev.c:107-136).
TypeOK == TcbsOK /\ LocalsOK

\* No two tasks in use have the same name, so the DSP interrupt, which finds its
\* task with tcb_by_name, finds one (mmxpcore.c:116-124, 158).
TaskNamesUnique ==
    \A j, k \in Tids : Busy(j) /\ Busy(k) /\ name[j] = name[k] => j = k

\* No event vanishes unseen: one that stops being posted was cleared, or is in
\* the message some waiter gets back, however waits, posts and signals overlap
\* (mmxp_ev.c:78-79, 85-86, 129-133, 154).
ConsumedIsReported ==
    [][\A k \in Tids :
          posted[k] \ posted'[k] # {} =>
              \/ \E t \in Threads, S \in SUBSET Events : EvClear(t, k, S)
              \/ /\ reply'.took
                 /\ reply'.tid = k
                 /\ posted[k] \ posted'[k] \subseteq reply'.events]_vars

\* For owned tasks, the events are flags that one wait takes in one step: what a
\* wait returns is what its caller asked for and was posted since, although the
\* waiter resumes long after the post that decided to wake it
\* (mmxp_ev.c:38-47 against 128-134).
Flags == INSTANCE EventFlags WITH
    Clients <- Threads,
    Tasks <- Owned,
    Flags <- Events,
    raised <- [k \in Owned |-> posted[k]],
    request <- [t \in Threads |-> IF tid[t] \in Owned THEN ask[t] ELSE None],
    answer <- IF reply.took /\ reply.tid \in Owned
              THEN [task |-> reply.tid, events |-> reply.events] ELSE None

TakesAnswers == Flags!Spec

\* A sleeper for an owned task whose events are posted, or whose flag is
\* cleared, is about to be woken by the post that did it (mmxp_ev.c:38-51).
NoLostEventWakeup ==
    \A t \in Threads :
        /\ pc[t] = "asleep"
        /\ tid[t] \in Owned
        /\ \/ wait4event[tid[t]] = 0
           \/ Satisfied(ask[t].cond, ask[t].events, posted[tid[t]])
        => \E u \in Threads : pc[u] = "postWake" /\ tid[u] = tid[t]

\* A thread that waits for an owned task gets to the end of its call once what
\* it asked for is posted.
PostedIsServed ==
    \A t \in Threads :
        (/\ pc[t] \in Waiting
         /\ tid[t] \in Owned
         /\ Satisfied(ask[t].cond, ask[t].events, posted[tid[t]])) ~> pc[t] = "idle"

================================================================================
