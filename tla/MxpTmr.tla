--------------------------------- MODULE MxpTmr ---------------------------------
(***************************************************************************)
(* Time in the MXP core, src/mxp/mmxpcore.c: the timer interrupt, the      *)
(* tasklet that processes its ticks, the heap of timer objects, and the    *)
(* two users of timer objects, the MXP timers and the sleeping tasks.      *)
(*                                                                         *)
(* The processor has one core.  The interrupt comes between any two steps. *)
(* The tasklet runs above the threads: while it is anywhere in             *)
(* tmrobj_clock or in a callback, no thread takes a step; while it is only *)
(* scheduled, threads may run, as when ksoftirqd runs it later.            *)
(*                                                                         *)
(* irq_tick and mxp_tick are modelled by their difference, which is all    *)
(* that the code computes with.  The clock and the wake-up times are       *)
(* words: the code adds them modulo a power of two that is two more than   *)
(* twice MAX_CLOCK.                                                        *)
(***************************************************************************)
EXTENDS Integers, Sequences, FiniteSets

CONSTANTS
    Threads,    \* the threads that call into the module
    Tids,       \* the tasks that sleep; a task is a control block, not a thread
    MaxTimers,  \* MAX_TIMERS of mxp_mod.h: MXP timers 1 .. MaxTimers
    MaxObjs,    \* MAX_TMROBJS of mxp_mod.h
    MaxClock,   \* MAX_CLOCK of mxp_mod.h
    MaxLag,     \* the bound on the ticks that wait for the tasklet
    Timeouts,   \* the intervals callers ask for
    Reloads,    \* the reload periods callers ask for; 0 is none
    Off,        \* the time left of a timer not armed
    None,       \* no object
    Signalled,  \* threads whose sleep a signal may interrupt
    OneStart,   \* callers start a timer, and put a task to sleep, only when
                \* its timer object is not in use
    UpFaults    \* up() of a semaphore that was never initialised faults

TimerIds == 1 .. MaxTimers
Objs == TimerIds \cup Tids

ASSUME MxpTmrAssumption ==
    /\ MaxTimers \in Nat
    /\ MaxClock \in Nat \ {0}
    /\ MaxLag \in Nat \ {0}
    /\ IsFiniteSet(Tids)
    /\ Tids \cap TimerIds = {}
    /\ MaxObjs \in Nat
    /\ Cardinality(Objs) <= MaxObjs
    /\ Timeouts \subseteq Nat
    /\ Reloads \subseteq Nat
    /\ Off \notin Int
    /\ None \notin Objs
    /\ Signalled \subseteq Threads
    /\ OneStart \in BOOLEAN
    /\ UpFaults \in BOOLEAN

VARIABLES
    lag,        \* irq_tick - mxp_tick
    sched,      \* the tasklet is scheduled
    tasklet,    \* where the tasklet is
    act,        \* Act, the object whose callback the tasklet runs, or None
    clock,      \* _clock
    h,          \* the heap of timer objects
    wait4event, \* wait4event[k] of the timer object of task k
    state,      \* the fields of timers[i]
    reload,
    pc,         \* where each thread is
    tid,        \* the task its sleep is for
    reply       \* what the step just made returns to its caller

clocks == <<lag, sched, tasklet, act, clock>>
timers == <<state, reload>>
locals == <<pc, tid, reply>>
vars == <<lag, sched, tasklet, act, clock, h, wait4event, state, reload,
          pc, tid, reply>>

Heap == INSTANCE TmrHeap

Words == 2 * MaxClock + 2
Sleeping == {"sleepCheck", "asleep", "resume", "resumeSig"}
Pcs == Sleeping \cup {"idle"}
TaskletPcs == {"idle", "entered", "loop", "callback", "post", "oops"}
States == {"TMR_FREE", "TMR_IDLE", "TMR_FIRED", "TMR_ACTIVE"}
Codes == {"NONE", "ERR_NOERR", "ERR_NOTMR", "ERR_TMRINV", "ERR_TMREXP",
          "ERR_TMRIDLE", "ERR_TMRACTIVE", "SYS_CONFIG_ERR"}

--------------------------------------------------------------------------------
\* mmxp_timer_init: tmrobj_init, mxl_tmr_init.
Init ==
    /\ lag = 0
    /\ sched = FALSE
    /\ tasklet = "idle"
    /\ act = None
    /\ clock = 0
    /\ h = Heap!Empty
    /\ wait4event = [k \in Tids |-> 0]
    /\ state = [i \in TimerIds |-> "TMR_FREE"]
    /\ reload = [i \in TimerIds |-> 0]
    /\ pc = [t \in Threads |-> "idle"]
    /\ tid = [t \in Threads |-> None]
    /\ reply = "NONE"

\* Thread t, which may run now, returns e from its call.
MayRun(t) == tasklet = "idle"
Return(t, e) ==
    /\ pc' = [pc EXCEPT ![t] = "idle"]
    /\ tid' = [tid EXCEPT ![t] = None]
    /\ reply' = e

Armed(o) == h.index[o] > 0

\* The interval tmrobj_Start uses for d ticks.
Delta(d) == IF d >= MaxClock THEN MaxClock - 1 ELSE IF d = 0 THEN 1 ELSE d

\* A faulty tmrobj_Start that leaves the last place of the heap unused.
StartedOneLess(o, d) ==
    IF Len(h.heap) < MaxObjs - 1
    THEN Heap!Insert(h, o, (clock + Delta(d)) % Words) ELSE h

\* tmrobj_Start, apart from wait4event, which is read for tasks only.
Started(o, d) ==
    IF Len(h.heap) < MaxObjs THEN Heap!Insert(h, o, (clock + Delta(d)) % Words) ELSE h

\* The callers' rules, where OneStart asks for them.
InSleep(k) == {t \in Threads : pc[t] \in Sleeping /\ tid[t] = k}
MayStart(i) == OneStart => ~Armed(i)
MaySleep(k) == OneStart => ~Armed(k) /\ InSleep(k) = {}
--------------------------------------------------------------------------------
\* mxp_timer_irq_handle.  A tick more than the bound is not explored.
Irq ==
    /\ tasklet # "oops"
    /\ lag < MaxLag
    /\ lag' = lag + 1
    /\ sched' = TRUE
    /\ reply' = "NONE"
    /\ UNCHANGED <<tasklet, act, clock, h, wait4event, timers, pc, tid>>

\* The kernel takes the tasklet off its list and calls tmrobj_clock.
TaskletEnter ==
    /\ tasklet = "idle"
    /\ sched
    /\ sched' = FALSE
    /\ tasklet' = "entered"
    /\ reply' = "NONE"
    /\ UNCHANGED <<lag, act, clock, h, wait4event, timers, pc, tid>>

\* tmrobj_clock up to its loop.  With no tick to process it calls up(&tmr_lock).
ClockStart ==
    /\ tasklet = "entered"
    /\ \/ /\ lag = 0
          /\ tasklet' = IF UpFaults THEN "oops" ELSE "idle"
          /\ UNCHANGED <<lag, clock>>
       \/ /\ lag > 0
          /\ clock' = (clock + lag) % Words
          /\ lag' = 0
          /\ tasklet' = "loop"
    /\ reply' = "NONE"
    /\ UNCHANGED <<sched, act, h, wait4event, timers, pc, tid>>

Due == h.heap # <<>> /\ h.time[h.heap[1]] <= clock

\* One round of the loop up to the callback.
ClockPop ==
    /\ tasklet = "loop"
    /\ Due
    /\ act' = h.heap[1]
    /\ h' = Heap!Pop(h)
    /\ tasklet' = "callback"
    /\ reply' = "NONE"
    /\ UNCHANGED <<lag, sched, clock, wait4event, timers, pc, tid>>

\* A faulty end of the loop that brings the clock back but not the times.
ClockEndShiftsNothing ==
    /\ tasklet = "loop"
    /\ ~Due
    /\ clock' = IF clock >= MaxClock THEN 0 ELSE clock
    /\ tasklet' = "idle"
    /\ reply' = "NONE"
    /\ UNCHANGED <<lag, sched, act, h, wait4event, timers, pc, tid>>

\* A faulty tmrobj_clock that leaves its loop while timers are due.
ClockEndAnyTime ==
    /\ tasklet = "loop"
    /\ IF clock >= MaxClock THEN clock' = 0 /\ h' = Heap!Shift(h, clock)
                            ELSE UNCHANGED <<clock, h>>
    /\ tasklet' = "idle"
    /\ reply' = "NONE"
    /\ UNCHANGED <<lag, sched, act, wait4event, timers, pc, tid>>

\* The end of tmrobj_clock.
ClockEnd ==
    /\ tasklet = "loop"
    /\ ~Due
    /\ IF clock >= MaxClock THEN clock' = 0 /\ h' = Heap!Shift(h, clock)
                            ELSE UNCHANGED <<clock, h>>
    /\ tasklet' = "idle"
    /\ reply' = "NONE"
    /\ UNCHANGED <<lag, sched, act, wait4event, timers, pc, tid>>

\* A faulty mxp_timerTimeOut that leaves a timer without reload active.
TimerTimeOutStaysActive ==
    /\ tasklet = "callback"
    /\ act \in TimerIds
    /\ IF reload[act] \notin {0, Words - 1} THEN h' = Started(act, reload[act]) ELSE UNCHANGED h
    /\ UNCHANGED timers
    /\ tasklet' = "post"
    /\ reply' = "NONE"
    /\ UNCHANGED <<lag, sched, act, clock, wait4event, pc, tid>>

\* mxp_timerTimeOut, its masked section.  MX_INDEFINITE is the largest word.
TimerTimeOut ==
    /\ tasklet = "callback"
    /\ act \in TimerIds
    /\ IF reload[act] \notin {0, Words - 1}
       THEN h' = Started(act, reload[act]) /\ UNCHANGED timers
       ELSE state' = [state EXCEPT ![act] = "TMR_FIRED"] /\ UNCHANGED <<h, reload>>
    /\ tasklet' = "post"
    /\ reply' = "NONE"
    /\ UNCHANGED <<lag, sched, act, clock, wait4event, pc, tid>>

\* The post of the timer's event or message, which MxpEv and MxpQ model.
TimerPost ==
    /\ tasklet = "post"
    /\ act' = None
    /\ tasklet' = "loop"
    /\ reply' = "NONE"
    /\ UNCHANGED <<lag, sched, clock, h, wait4event, timers, pc, tid>>

\* A faulty wake-up that does not clear the flag the sleeper tests.
TaskWakeupKeepsFlag ==
    /\ tasklet = "callback"
    /\ act \in Tids
    /\ pc' = [t \in Threads |-> IF pc[t] = "asleep" /\ tid[t] = act
                                THEN "sleepCheck" ELSE pc[t]]
    /\ act' = None
    /\ tasklet' = "loop"
    /\ reply' = "NONE"
    /\ UNCHANGED <<lag, sched, clock, h, wait4event, timers, tid>>

\* mxp_task_wakeup.
TaskWakeup ==
    /\ tasklet = "callback"
    /\ act \in Tids
    /\ wait4event' = [wait4event EXCEPT ![act] = 0]
    /\ pc' = [t \in Threads |-> IF pc[t] = "asleep" /\ tid[t] = act
                                THEN "sleepCheck" ELSE pc[t]]
    /\ act' = None
    /\ tasklet' = "loop"
    /\ reply' = "NONE"
    /\ UNCHANGED <<lag, sched, clock, h, timers, tid>>
--------------------------------------------------------------------------------
Unused == {i \in TimerIds : state[i] = "TMR_FREE"}

TmrCreate(t) ==
    /\ MayRun(t)
    /\ pc[t] = "idle"
    /\ \/ /\ Unused = {}
          /\ Return(t, "ERR_NOTMR")
          /\ UNCHANGED timers
       \/ \E i \in Unused :
             /\ \A j \in Unused : i <= j
             /\ state' = [state EXCEPT ![i] = "TMR_IDLE"]
             /\ Return(t, "ERR_NOERR")
             /\ UNCHANGED reload
    /\ UNCHANGED <<clocks, h, wait4event>>

Valid(i) == i \in TimerIds /\ state[i] # "TMR_FREE"

\* mxp_tmrStart.  It does not ask whether the timer is active already.
TmrStart(t, i, d, r) ==
    /\ MayRun(t)
    /\ pc[t] = "idle"
    /\ \/ /\ ~Valid(i)
          /\ Return(t, "ERR_TMRINV")
          /\ UNCHANGED <<h, timers>>
       \/ /\ Valid(i)
          /\ MayStart(i)
          /\ reload' = [reload EXCEPT ![i] = r]
          /\ state' = [state EXCEPT ![i] = "TMR_ACTIVE"]
          /\ h' = Started(i, d)
          /\ Return(t, "ERR_NOERR")
    /\ UNCHANGED <<clocks, wait4event>>

\* A faulty removal that leaves the timer object in the heap.
StoppedNot(i) == h

\* The heap after tmrobj_Delete of an active timer.
Stopped(i) == IF state[i] = "TMR_ACTIVE" THEN Heap!Delete(h, i) ELSE h

TmrAbort(t, i) ==
    /\ MayRun(t)
    /\ pc[t] = "idle"
    /\ \/ /\ ~Valid(i)
          /\ Return(t, "ERR_TMRINV")
          /\ UNCHANGED <<h, state>>
       \/ /\ Valid(i)
          /\ h' = Stopped(i)
          /\ state' = [state EXCEPT ![i] = "TMR_IDLE"]
          /\ Return(t, CASE state[i] = "TMR_FIRED" -> "ERR_TMREXP"
                         [] state[i] = "TMR_IDLE" -> "ERR_TMRIDLE"
                         [] OTHER -> "ERR_NOERR")
    /\ UNCHANGED <<clocks, wait4event, reload>>

TmrDelete(t, i) ==
    /\ MayRun(t)
    /\ pc[t] = "idle"
    /\ \/ /\ ~Valid(i)
          /\ Return(t, "ERR_TMRINV")
          /\ UNCHANGED <<h, state>>
       \/ /\ Valid(i)
          /\ h' = Stopped(i)
          /\ state' = [state EXCEPT ![i] = "TMR_FREE"]
          /\ Return(t, "ERR_NOERR")
    /\ UNCHANGED <<clocks, wait4event, reload>>
--------------------------------------------------------------------------------
\* mxp_task_sleep up to the sleep.
TaskSleep(t, k, d) ==
    /\ MayRun(t)
    /\ pc[t] = "idle"
    /\ MaySleep(k)
    /\ h' = Started(k, d)
    /\ wait4event' = [wait4event EXCEPT ![k] = 1]
    /\ pc' = [pc EXCEPT ![t] = "sleepCheck"]
    /\ tid' = [tid EXCEPT ![t] = k]
    /\ reply' = "NONE"
    /\ UNCHANGED <<clocks, timers>>

\* wait_event_interruptible tests its condition and sleeps if it is false.
SleepCheck(t) ==
    /\ MayRun(t)
    /\ pc[t] = "sleepCheck"
    /\ pc' = [pc EXCEPT ![t] = IF wait4event[tid[t]] = 0 THEN "resume" ELSE "asleep"]
    /\ reply' = "NONE"
    /\ UNCHANGED <<clocks, h, wait4event, timers, tid>>

\* A signal ends the sleep, with -ERESTARTSYS if the condition is still false.
Signal(t) ==
    /\ MayRun(t)
    /\ t \in Signalled
    /\ pc[t] = "asleep"
    /\ pc' = [pc EXCEPT ![t] = IF wait4event[tid[t]] = 0 THEN "resume" ELSE "resumeSig"]
    /\ reply' = "NONE"
    /\ UNCHANGED <<clocks, h, wait4event, timers, tid>>

\* mxp_task_sleep after the sleep.  A signal leaves the timer object armed.
SleepResume(t) ==
    /\ MayRun(t)
    /\ \/ /\ pc[t] = "resumeSig"
          /\ wait4event' = [wait4event EXCEPT ![tid[t]] = 0]
          /\ Return(t, "SYS_CONFIG_ERR")
          /\ UNCHANGED h
       \/ /\ pc[t] = "resume"
          /\ h' = Heap!Delete(h, tid[t])
          /\ Return(t, "ERR_NOERR")
          /\ UNCHANGED wait4event
    /\ UNCHANGED <<clocks, timers>>
--------------------------------------------------------------------------------
\* A call made by thread t.  0 stands for every timer id out of range.
Call(t) ==
    \/ TmrCreate(t)
    \/ \E i \in TimerIds \cup {0} :
          \/ \E d \in Timeouts, r \in Reloads : TmrStart(t, i, d, r)
          \/ TmrAbort(t, i)
          \/ TmrDelete(t, i)
    \/ \E k \in Tids, d \in Timeouts : TaskSleep(t, k, d)

Step(t) == SleepCheck(t) \/ SleepResume(t)

Tasklet ==
    TaskletEnter \/ ClockStart \/ ClockPop \/ ClockEnd \/ TimerTimeOut \/ TimerPost \/ TaskWakeup

Next ==
    \/ Irq
    \/ Tasklet
    \/ \E t \in Threads : Call(t) \/ Step(t) \/ Signal(t)

Spec == Init /\ [][Next]_vars

\* The hardware timer ticks for ever, the kernel runs a scheduled tasklet, and
\* the scheduler runs every thread that is ready to run.  A thread is ready
\* whenever the tasklet is not running, and the tasklet may run again and again
\* in between, so threads need the strong form.
Fairness ==
    /\ WF_vars(Irq)
    /\ WF_vars(Tasklet)
    /\ \A t \in Threads : SF_vars(Step(t))

FairSpec == Spec /\ Fairness
--------------------------------------------------------------------------------
TypeOK ==
    /\ lag \in 0 .. MaxLag
    /\ sched \in BOOLEAN
    /\ tasklet \in TaskletPcs
    /\ act \in Objs \cup {None}
    /\ (act # None) <=> tasklet \in {"callback", "post"}
    /\ tasklet = "post" => act \in TimerIds
    /\ clock \in 0 .. Words - 1
    /\ h.heap \in Seq(Objs)
    /\ h.index \in [Objs -> 0 .. MaxObjs]
    /\ h.time \in [Objs -> 0 .. Words - 1]
    /\ wait4event \in [Tids -> {0, 1}]
    /\ state \in [TimerIds -> States]
    /\ reload \in [TimerIds -> Reloads \cup {0}]
    /\ pc \in [Threads -> Pcs]
    /\ tid \in [Threads -> Tids \cup {None}]
    /\ \A t \in Threads : pc[t] # "idle" <=> tid[t] # None
    /\ reply \in Codes

\* The _index of every timer object is its place in the heap, and no father is
\* later than his sons: what tmrobj_Delete and tmrobj_clock take for granted
\* whatever their callers, the turn of the clock and the reloads out of the
\* tasklet have done to the heap (mmxpcore.c:788-832, 859-867, 893-907).
HeapConsistent == Heap!Consistent(h)

\* The timer objects keep time: whatever starts, aborts, reloads and late ticks
\* come together, and across the turn of the clock at MAX_CLOCK, a timer expires
\* exactly when its ticks are processed, in the order of the times due
\* (mmxpcore.c:839-942).
Time == INSTANCE Timers WITH
    MaxTime <- MaxClock,
    left <- [o \in Objs |-> IF Armed(o) THEN h.time[o] - clock ELSE Off]

KeepsTime == Time!Spec

\* An MXP timer is active exactly while its object is in the heap or its expiry
\* is being handled, so mxp_tmrAbort and mxp_tmrDelete leave no object behind
\* that fires later for a timer aborted, freed or created anew
\* (mmxpcore.c:361-363, 396-399, 423-429, 454-457).
ActiveIsArmed ==
    \A i \in TimerIds :
        (state[i] = "TMR_ACTIVE") <=>
            (Armed(i) \/ (act = i /\ tasklet = "callback"))

\* A sleeper whose flag is set has its timer ticking: nothing that happens to
\* the timers of others can leave it asleep for ever (mmxpcore.c:226-232).
SleeperIsTimed ==
    \A t \in Threads :
        pc[t] \in Sleeping /\ wait4event[tid[t]] # 0
            => Armed(tid[t]) \/ act = tid[t]

\* Whatever fires, is aborted or started, what waits for a timer has one: the two
\* above together (mmxpcore.c:226-258, 354-461).
TimersArmed == ActiveIsArmed /\ SleeperIsTimed

\* A task that sleeps returns, however often the timers of others fire.
SleepEnds == \A t \in Threads : pc[t] \in Sleeping ~> pc[t] = "idle"

\* A timer that is active and has no reload fires, or somebody aborts, deletes
\* or restarts it.
OneShotFires ==
    \A i \in TimerIds :
        (state[i] = "TMR_ACTIVE" /\ reload[i] = 0)
            ~> (state[i] # "TMR_ACTIVE" \/ reload[i] # 0)

\* mmxpcore.c:237 says: "if task woke up because kill signal we have to delete
\* timer object".  When mxp_task_sleep returns, the timer object of the task is
\* not in the heap.
SleepLeavesNoTimer ==
    [][\A t \in Threads :
          pc[t] \in Sleeping /\ pc'[t] = "idle" => h'.index[tid[t]] = 0]_vars

================================================================================
