------------------------------- MODULE TeleDex -------------------------------
(***************************************************************************)
(* The telephony interrupt of tiuhal_pform.c together with the MXP tasks   *)
(* and events it posts to: tele_int_handler looks the task DEX up once,    *)
(* keeps its id, and posts an event to it at every interrupt.              *)
(*                                                                         *)
(* The handler runs between the steps of the threads and is not            *)
(* interrupted by them, so its post and the wake-up are one step.          *)
(***************************************************************************)
EXTENDS MxpEv

CONSTANTS
    Dex,        \* the name "DEX"
    Transition  \* DEX_TIU_IND_TRANSITION_EVT

ASSUME TeleDexAssumption == Dex \in Names /\ Transition \in Events

VARIABLES
    dexTid,     \* dex_tid of tele_int_handler; -1 while it is unknown
    kept        \* the callers' rule: a task DEX is never freed

dexVars == <<vars, dexTid, kept>>

DexInit ==
    /\ Init
    /\ dexTid = -1
    /\ kept \in BOOLEAN

\* A faulty lookup that is done once, whether there is a task DEX or not.
LookedUpOnce == IF ByName(Dex) = {} THEN 0 ELSE Least(ByName(Dex))

\* tcb_by_name("DEX").
LookedUp == IF ByName(Dex) = {} THEN -1 ELSE Least(ByName(Dex))

\* A faulty post that wakes nobody.
PostOnly(k, S) ==
    /\ posted' = [posted EXCEPT ![k] = @ \cup S]
    /\ wait4event' = IF Wakes(k, S) THEN [wait4event EXCEPT ![k] = 0] ELSE wait4event
    /\ UNCHANGED <<busy, name, cond, mask, pc>>

\* mxp_ev_post_by_tid in the interrupt.
PostByTid(k, S) ==
    /\ posted' = [posted EXCEPT ![k] = @ \cup S]
    /\ IF Wakes(k, S)
       THEN wait4event' = [wait4event EXCEPT ![k] = 0] /\ pc' = Woken(k)
       ELSE UNCHANGED <<wait4event, pc>>
    /\ UNCHANGED <<busy, name, cond, mask>>

\* tele_int_handler.
TeleInterrupt ==
    LET k == IF dexTid < 0 THEN LookedUp ELSE dexTid
    IN  /\ dexTid' = k
        /\ IF Valid(k) THEN PostByTid(k, {Transition}) ELSE UNCHANGED <<tcbs, pc>>
        /\ reply' = NoReply
        /\ UNCHANGED <<tid, ask, kept>>

\* A step of the threads; under the rule none frees the task DEX.
MxpStep ==
    /\ Next
    /\ kept => \A k \in Tids : (Busy(k) /\ name[k] = Dex) => busy'[k] = 1
    /\ UNCHANGED <<dexTid, kept>>

DexNext == MxpStep \/ TeleInterrupt

DexSpec == DexInit /\ [][DexNext]_dexVars

DexFairSpec ==
    DexSpec /\ \A t \in Threads : WF_dexVars(Step(t) /\ UNCHANGED <<dexTid, kept>>)
-----------------------------------------------------------------------------
\* tiuhal_pform.c:82-100: as long as the task DEX is never freed, every
\* interrupt while there is one posts the transition event to it and to no
\* other task, however long ago the id was looked up.
InterruptReachesDex ==
    [][(TeleInterrupt /\ kept) =>
          \A k \in Tids :
             posted'[k] = IF Busy(k) /\ name[k] = Dex
                          THEN posted[k] \cup {Transition} ELSE posted[k]]_dexVars
=============================================================================
