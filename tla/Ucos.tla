-------------------------------- MODULE Ucos --------------------------------
(***************************************************************************)
(* The part of the uC/OS-II kernel the firmware's tasks meet in: the ready *)
(* list with its strict priorities, the wait lists of message queues and   *)
(* semaphores, delays and the tick interrupt.  One operator is one kernel  *)
(* section between OS_ENTER_CRITICAL and OS_EXIT_CRITICAL; a call that     *)
(* blocks is two of them, the one before OS_Sched and the one after it.    *)
(*                                                                         *)
(* A task whose time-out ran out is made ready by OSTimeTick and stays in  *)
(* the wait list until it runs: a post in between is still its own.        *)
(***************************************************************************)
EXTENDS Naturals, Sequences, FiniteSets

CONSTANTS
    Tasks,       \* the tasks modelled
    Prio,        \* OSTCBPrio of a task: the smaller number runs first
    Queues,      \* the OS_EVENTs of type OS_EVENT_TYPE_Q
    Sems,        \* the OS_EVENTs of type OS_EVENT_TYPE_SEM
    QSize,       \* OSQSize of each queue
    NoMsg        \* OSTCBMsg when it holds none

ASSUME PrioAssumption ==
    /\ Prio \in [Tasks -> Nat]
    /\ \A t, u \in Tasks : Prio[t] = Prio[u] => t = u
ASSUME QSizeAssumption == QSize \in [Queues -> Nat \ {0}]

VARIABLES
    OSRdyTbl,    \* the tasks that are ready to run
    OSTCB,       \* a task's control block: StatPend, Dly, Msg and EventPtr
    OSEvent      \* an event's wait list (Tbl), messages (Q) and count (Cnt)

osVars == <<OSRdyTbl, OSTCB, OSEvent>>

Events == Queues \cup Sems

\* "none" as OSTCBEventPtr: the task waits for no event.
IdleTCB == [StatPend |-> "OK", Dly |-> 0, Msg |-> NoMsg, EventPtr |-> "none"]

NewEvent == [Tbl |-> {}, Q |-> <<>>, Cnt |-> 0]

----------------------------------------------------------------------------
\* OS_SchedNew: the task that runs is the ready one of the highest priority.
Runs(t) == t \in OSRdyTbl /\ \A u \in OSRdyTbl : Prio[t] <= Prio[u]

\* The task OS_EventTaskRdy finds in the wait list of event e.
HighestWaiting(e) ==
    CHOOSE t \in OSEvent[e].Tbl : \A u \in OSEvent[e].Tbl : Prio[t] <= Prio[u]

\* Mutant: the time-out of the task is left standing.
MutEventTaskRdy(e, m) ==
    LET t == HighestWaiting(e)
    IN  /\ OSTCB' = [OSTCB EXCEPT ![t].Dly = 0, ![t].Msg = m]
        /\ OSRdyTbl' = OSRdyTbl \cup {t}
        /\ OSEvent' = [OSEvent EXCEPT ![e].Tbl = @ \ {t}]

\* OS_EventTaskRdy: hand m to the waiting task, whether or not its time-out
\* has run out, and take it off the wait list.
OS_EventTaskRdy(e, m) ==
    LET t == HighestWaiting(e)
    IN  /\ OSTCB' = [OSTCB EXCEPT ![t].Dly = 0, ![t].Msg = m, ![t].StatPend = "OK"]
        /\ OSRdyTbl' = OSRdyTbl \cup {t}
        /\ OSEvent' = [OSEvent EXCEPT ![e].Tbl = @ \ {t}]

\* OS_EventTaskWait and the lines before it: t gives up the processor until
\* the event, or for at most ticks when that is not 0.
OS_EventTaskWait(t, e, ticks) ==
    /\ OSTCB' = [OSTCB EXCEPT ![t] = [IdleTCB EXCEPT !.Dly = ticks, !.EventPtr = e]]
    /\ OSRdyTbl' = OSRdyTbl \ {t}
    /\ OSEvent' = [OSEvent EXCEPT ![e].Tbl = @ \cup {t}]

\* The second half of OSQPend and OSSemPend: a task that timed out takes
\* itself off the wait list.
PendReturns(t, e) ==
    /\ OSTCB[t].EventPtr = e
    /\ OSEvent' = IF OSTCB[t].StatPend = "TO"
                  THEN [OSEvent EXCEPT ![e].Tbl = @ \ {t}] ELSE OSEvent
    /\ OSTCB' = [OSTCB EXCEPT ![t] = IdleTCB]
    /\ UNCHANGED OSRdyTbl

----------------------------------------------------------------------------
OSQFull(q) == OSEvent[q].Tbl = {} /\ Len(OSEvent[q].Q) >= QSize[q]

\* Mutant: only a task that still sleeps is handed the message.
MutOSQPost(q, m) ==
    \/ OSEvent[q].Tbl \ OSRdyTbl # {} /\ OS_EventTaskRdy(q, m)
    \/ /\ OSEvent[q].Tbl \subseteq OSRdyTbl
       /\ Len(OSEvent[q].Q) < QSize[q]
       /\ OSEvent' = [OSEvent EXCEPT ![q].Q = Append(@, m)]
       /\ UNCHANGED <<OSRdyTbl, OSTCB>>

\* OSQPost when it returns OS_ERR_NONE.
OSQPost(q, m) ==
    \/ OSEvent[q].Tbl # {} /\ OS_EventTaskRdy(q, m)
    \/ /\ OSEvent[q].Tbl = {}
       /\ Len(OSEvent[q].Q) < QSize[q]
       /\ OSEvent' = [OSEvent EXCEPT ![q].Q = Append(@, m)]
       /\ UNCHANGED <<OSRdyTbl, OSTCB>>

\* OSQPend when a message is there: the oldest is the caller's.
OSQTake(q) ==
    /\ OSEvent[q].Q # <<>>
    /\ OSEvent' = [OSEvent EXCEPT ![q].Q = Tail(@)]
    /\ UNCHANGED <<OSRdyTbl, OSTCB>>

\* OSQPend when there is none, up to OS_Sched.
OSQPend(t, q, ticks) == OSEvent[q].Q = <<>> /\ OS_EventTaskWait(t, q, ticks)

----------------------------------------------------------------------------
\* OSSemPost; the limit of 65535 is out of reach of the semaphores modelled.
OSSemPost(s) ==
    \/ OSEvent[s].Tbl # {} /\ OS_EventTaskRdy(s, NoMsg)
    \/ /\ OSEvent[s].Tbl = {}
       /\ OSEvent' = [OSEvent EXCEPT ![s].Cnt = @ + 1]
       /\ UNCHANGED <<OSRdyTbl, OSTCB>>

OSSemTake(s) ==
    /\ OSEvent[s].Cnt > 0
    /\ OSEvent' = [OSEvent EXCEPT ![s].Cnt = @ - 1]
    /\ UNCHANGED <<OSRdyTbl, OSTCB>>

OSSemPend(t, s, ticks) == OSEvent[s].Cnt = 0 /\ OS_EventTaskWait(t, s, ticks)

\* OSSemDel with OS_DEL_ALWAYS, or OSSemCreate(0), on a semaphore nobody
\* waits for: the only way the modelled tasks use them.
OSSemClear(s) ==
    /\ OSEvent[s].Tbl = {}
    /\ OSEvent' = [OSEvent EXCEPT ![s] = NewEvent]
    /\ UNCHANGED <<OSRdyTbl, OSTCB>>

----------------------------------------------------------------------------
OSTimeDly(t, ticks) ==
    /\ OSTCB' = [OSTCB EXCEPT ![t].Dly = ticks]
    /\ OSRdyTbl' = OSRdyTbl \ {t}
    /\ UNCHANGED OSEvent

\* OSTimeTick: every delay counts down, and a task whose delay ends is ready,
\* with its time-out marked when it was waiting for an event.
Ends(t) == OSTCB[t].Dly = 1

OSTimeTick ==
    /\ OSTCB' = [t \in Tasks |->
            [OSTCB[t] EXCEPT
                !.Dly = IF @ > 0 THEN @ - 1 ELSE 0,
                !.StatPend = IF Ends(t) /\ OSTCB[t].EventPtr # "none"
                             THEN "TO" ELSE @]]
    /\ OSRdyTbl' = OSRdyTbl \cup {t \in Tasks : Ends(t)}
    /\ UNCHANGED OSEvent

----------------------------------------------------------------------------
\* The shape of the kernel's state, and that the wait lists are those of the
\* control blocks: a task is in the list of the event it waits for until it
\* is given the event or runs again.
KernelOK ==
    /\ OSRdyTbl \subseteq Tasks
    /\ \A t \in Tasks :
        /\ OSTCB[t].StatPend \in {"OK", "TO"}
        /\ OSTCB[t].Dly \in Nat
        /\ OSTCB[t].EventPtr \in Events \cup {"none"}
        /\ t \notin OSRdyTbl /\ OSTCB[t].EventPtr # "none"
             => t \in OSEvent[OSTCB[t].EventPtr].Tbl
    /\ \A e \in Events :
        /\ OSEvent[e].Cnt \in Nat
        /\ \A t \in OSEvent[e].Tbl :
             /\ OSTCB[t].EventPtr = e
             /\ t \in OSRdyTbl => OSTCB[t].StatPend = "TO"
    /\ \A q \in Queues : Len(OSEvent[q].Q) <= QSize[q]

\* Nobody waits for what is already there: no message lies in a queue, and
\* no count stands on a semaphore, while a task is on its wait list.  This
\* is what lets OSQPost and OSSemPost hand an event to a task directly.
NobodyWaitsInVain ==
    \A e \in Events : OSEvent[e].Tbl # {} => OSEvent[e].Q = <<>> /\ OSEvent[e].Cnt = 0

============================================================================
