----------------------------- MODULE TcpipProofs ----------------------------
(***************************************************************************)
(* Proofs about the kernel and the network stack, for every number of      *)
(* tasks that call it, every queue size and every timing: the waits of the *)
(* kernel are sound, every message reaches tcpip_thread once and in order, *)
(* no timer is lost, and lwip_select neither sleeps over a packet nor      *)
(* promises one that is not there.                                         *)
(*                                                                         *)
(* The kernel's part (KernelInv) is about any task and event; each of its  *)
(* operations keeps it under a condition on the caller, that it waits for  *)
(* nothing.  PtrInv is where the tasks meet that condition.                *)
(***************************************************************************)
EXTENDS Tcpip, WellFoundedInduction, SequenceTheorems, TLAPS

Msgs == Callers \cup {Packet}

TCBs == [StatPend : {"OK", "TO"}, Dly : Nat, Msg : Msgs \cup {NoMsg},
         EventPtr : Events \cup {"none"}]
EventBlocks == [Tbl : SUBSET Tasks, Q : Seq(Msgs), Cnt : Nat]

KernelType ==
  /\ OSRdyTbl \subseteq Tasks
  /\ OSTCB \in [Tasks -> TCBs]
  /\ OSEvent \in [Events -> EventBlocks]

(* A task that was handed its event waits for no time-out any more. *)
HandedOver ==
  \A t \in Tasks :
    OSTCB[t].EventPtr # "none" /\ t \notin OSEvent[OSTCB[t].EventPtr].Tbl
      => OSTCB[t].StatPend = "OK" /\ OSTCB[t].Dly = 0

(* Queues do not count and semaphores hold no messages. *)
KindsApart ==
  /\ \A q \in Queues : OSEvent[q].Cnt = 0
  /\ \A s \in Sems : OSEvent[s].Q = <<>>

KernelInv == KernelType /\ KernelOK /\ NobodyWaitsInVain /\ HandedOver /\ KindsApart

-----------------------------------------------------------------------------
(* The names of tasks, events and messages are apart.                      *)
LEMMA Names ==
  /\ Events = Callers \cup {"mbox", "recvmbox", "sel"} /\ "none" \notin Events
  /\ Queues \cap Sems = {} /\ Queues \subseteq Events /\ Sems \subseteq Events
  /\ NoMsg \notin Msgs
  /\ "tcpip" \notin Callers /\ "sel" \notin Callers /\ Packet \notin Callers
  /\ "tcpip" \in Tasks /\ "sel" \in Tasks /\ Callers \subseteq Tasks
BY TasksAssumption DEF Events, Msgs, Packet

(* A set of naturals that is not empty has a least element.                *)
LEMMA Least ==
  ASSUME NEW S, S \subseteq Nat, S # {}
  PROVE  \E n \in S : \A k \in S : n <= k
<1>1. \E n \in S : \A k \in S : ~ (<<k, n>> \in OpToRel(<, Nat))
  BY NatLessThanWellFounded, WFMin
<1>2. \A n, k \in Nat : ~ (<<k, n>> \in OpToRel(<, Nat)) => n <= k
  BY DEF OpToRel
<1> QED
  BY <1>1, <1>2

(* OS_EventTaskRdy finds a task when the wait list is not empty.           *)
LEMMA WaitingFound ==
  ASSUME NEW e, OSEvent[e].Tbl # {}, OSEvent[e].Tbl \subseteq Tasks
  PROVE  HighestWaiting(e) \in OSEvent[e].Tbl
<1> DEFINE S == {Prio[t] : t \in OSEvent[e].Tbl}
<1>1. S \subseteq Nat /\ S # {}
  BY PrioAssumption
<1>2. \E x \in S : \A y \in S : x <= y
  BY <1>1, Least
<1>3. \E t \in OSEvent[e].Tbl : \A u \in OSEvent[e].Tbl : Prio[t] <= Prio[u]
  BY <1>2
<1> QED
  BY <1>3 DEF HighestWaiting

(* What a hand-over of m to task t by event e changes, and nothing else.   *)
Handed(t, e, m) ==
  /\ \A u \in Tasks \ {t} : OSTCB'[u] = OSTCB[u]
  /\ OSTCB'[t].Dly = 0 /\ OSTCB'[t].Msg = m /\ OSTCB'[t].StatPend = "OK"
  /\ OSTCB'[t].EventPtr = OSTCB[t].EventPtr
  /\ OSRdyTbl' = OSRdyTbl \cup {t}
  /\ \A f \in Events \ {e} : OSEvent'[f] = OSEvent[f]
  /\ OSEvent'[e].Tbl = OSEvent[e].Tbl \ {t}
  /\ OSEvent'[e].Q = OSEvent[e].Q /\ OSEvent'[e].Cnt = OSEvent[e].Cnt

(* OS_EventTaskRdy keeps the kernel's invariant.                           *)
LEMMA TaskRdyKeeps ==
  ASSUME KernelInv, NEW e \in Events, NEW m \in Msgs \cup {NoMsg}, OSEvent[e].Tbl # {},
         OS_EventTaskRdy(e, m)
  PROVE  KernelInv' /\ \E t \in OSEvent[e].Tbl : Handed(t, e, m)
<1> DEFINE t == HighestWaiting(e)
<1>0. OSEvent[e].Tbl \subseteq Tasks
  BY DEF KernelInv, KernelType, EventBlocks
<1>1. t \in OSEvent[e].Tbl /\ t \in Tasks
  BY <1>0, WaitingFound
<1>2. /\ OSTCB' = [OSTCB EXCEPT ![t].Dly = 0, ![t].Msg = m, ![t].StatPend = "OK"]
      /\ OSRdyTbl' = OSRdyTbl \cup {t}
      /\ OSEvent' = [OSEvent EXCEPT ![e].Tbl = @ \ {t}]
  BY DEF OS_EventTaskRdy
<1> HIDE DEF t
<1>3. KernelType'
  <2>1. OSRdyTbl' \subseteq Tasks
    BY <1>1, <1>2 DEF KernelInv, KernelType
  <2>2. OSTCB' \in [Tasks -> TCBs]
    <3> DEFINE b == [OSTCB[t] EXCEPT !.Dly = 0, !.Msg = m, !.StatPend = "OK"]
    <3>1. OSTCB \in [Tasks -> TCBs] /\ OSTCB[t] \in TCBs
      BY <1>1 DEF KernelInv, KernelType
    <3>2. b \in TCBs
      BY <3>1 DEF TCBs
    <3>3. OSTCB' = [OSTCB EXCEPT ![t] = b]
      BY <1>2
    <3> HIDE DEF b
    <3> QED
      BY <3>1, <3>2, <3>3
  <2>3. OSEvent' \in [Events -> EventBlocks]
    BY <1>2 DEF KernelInv, KernelType, EventBlocks
  <2> QED
    BY <2>1, <2>2, <2>3 DEF KernelType
<1>4. Handed(t, e, m)
  BY <1>1, <1>2 DEF Handed, KernelInv, KernelType, TCBs, EventBlocks
<1>5. OSTCB[t].EventPtr = e
  BY <1>1 DEF KernelInv, KernelOK
<1>6. KernelOK'
  <2>1. OSRdyTbl' \subseteq Tasks /\ \A u \in Tasks : /\ OSTCB'[u].StatPend \in {"OK", "TO"}
                                                      /\ OSTCB'[u].Dly \in Nat
                                                      /\ OSTCB'[u].EventPtr \in Events \cup {"none"}
    BY <1>3 DEF KernelType, TCBs
  <2>2. \A f \in Events : OSEvent'[f].Cnt \in Nat
    BY <1>3 DEF KernelType, EventBlocks
  <2>3. ASSUME NEW u \in Tasks, u \notin OSRdyTbl', OSTCB'[u].EventPtr # "none"
        PROVE  u \in OSEvent'[OSTCB'[u].EventPtr].Tbl
    <3>1. u # t /\ OSTCB'[u] = OSTCB[u] /\ u \notin OSRdyTbl
      BY <1>4, <2>3 DEF Handed
    <3>2. u \in OSEvent[OSTCB[u].EventPtr].Tbl /\ OSTCB[u].EventPtr \in Events
      BY <2>3, <3>1 DEF KernelInv, KernelOK
    <3> QED
      BY <1>4, <3>1, <3>2 DEF Handed
  <2>4. ASSUME NEW f \in Events, NEW u \in OSEvent'[f].Tbl
        PROVE  OSTCB'[u].EventPtr = f /\ (u \in OSRdyTbl' => OSTCB'[u].StatPend = "TO")
    <3>1. u \in OSEvent[f].Tbl /\ u \in Tasks
      BY <1>4, <2>4 DEF Handed, KernelInv, KernelType, EventBlocks
    <3>2. u # t
      BY <1>4, <1>5, <2>4, <3>1 DEF Handed, KernelInv, KernelOK
    <3> QED
      BY <1>4, <3>1, <3>2 DEF Handed, KernelInv, KernelOK
  <2>5. \A q \in Queues : Len(OSEvent'[q].Q) <= QSize[q]
    BY <1>4, Names DEF Handed, KernelInv, KernelOK
  <2> QED
    BY <2>1, <2>2, <2>3, <2>4, <2>5 DEF KernelOK
<1>7. NobodyWaitsInVain' /\ KindsApart'
  BY <1>1, <1>4, Names DEF Handed, KernelInv, NobodyWaitsInVain, KindsApart
<1>8. HandedOver'
  BY <1>4, <1>5 DEF Handed, KernelInv, HandedOver, KernelType, TCBs
<1> QED
  BY <1>1, <1>3, <1>4, <1>6, <1>7, <1>8 DEF KernelInv

(* What it changes that t begins to wait for e. *)
Waits(t, e, ticks) ==
  /\ \A u \in Tasks \ {t} : OSTCB'[u] = OSTCB[u]
  /\ OSTCB'[t].Dly = ticks /\ OSTCB'[t].Msg = NoMsg /\ OSTCB'[t].StatPend = "OK"
  /\ OSTCB'[t].EventPtr = e
  /\ OSRdyTbl' = OSRdyTbl \ {t}
  /\ \A f \in Events \ {e} : OSEvent'[f] = OSEvent[f]
  /\ OSEvent'[e].Tbl = OSEvent[e].Tbl \cup {t}
  /\ OSEvent'[e].Q = OSEvent[e].Q /\ OSEvent'[e].Cnt = OSEvent[e].Cnt

(* A task that waits for nothing may wait for an event that is not there.  *)
LEMMA TaskWaitKeeps ==
  ASSUME KernelInv, NEW t \in Tasks, NEW e \in Events, NEW ticks \in Nat,
         OSTCB[t].EventPtr = "none", OSEvent[e].Q = <<>>, OSEvent[e].Cnt = 0,
         OS_EventTaskWait(t, e, ticks)
  PROVE  KernelInv' /\ Waits(t, e, ticks)
<1>2. /\ OSTCB' = [OSTCB EXCEPT ![t] = [IdleTCB EXCEPT !.Dly = ticks, !.EventPtr = e]]
      /\ OSRdyTbl' = OSRdyTbl \ {t}
      /\ OSEvent' = [OSEvent EXCEPT ![e].Tbl = @ \cup {t}]
  BY DEF OS_EventTaskWait
<1>3. KernelType'
  BY <1>2 DEF KernelInv, KernelType, TCBs, EventBlocks, IdleTCB
<1>4. Waits(t, e, ticks)
  BY <1>2 DEF Waits, KernelInv, KernelType, TCBs, EventBlocks, IdleTCB
<1>6. KernelOK'
  <2>1. OSRdyTbl' \subseteq Tasks /\ \A u \in Tasks : /\ OSTCB'[u].StatPend \in {"OK", "TO"}
                                                      /\ OSTCB'[u].Dly \in Nat
                                                      /\ OSTCB'[u].EventPtr \in Events \cup {"none"}
    BY <1>3 DEF KernelType, TCBs
  <2>2. \A f \in Events : OSEvent'[f].Cnt \in Nat
    BY <1>3 DEF KernelType, EventBlocks
  <2>3. ASSUME NEW u \in Tasks, u \notin OSRdyTbl', OSTCB'[u].EventPtr # "none"
        PROVE  u \in OSEvent'[OSTCB'[u].EventPtr].Tbl
    <3>1. CASE u = t
      BY <1>4, <3>1 DEF Waits
    <3>2. CASE u # t
      <4>1. OSTCB'[u] = OSTCB[u] /\ u \notin OSRdyTbl
        BY <1>4, <2>3, <3>2 DEF Waits
      <4>2. u \in OSEvent[OSTCB[u].EventPtr].Tbl /\ OSTCB[u].EventPtr \in Events
        BY <2>3, <4>1 DEF KernelInv, KernelOK
      <4> QED
        BY <1>4, <4>1, <4>2 DEF Waits
    <3> QED
      BY <3>1, <3>2
  <2>4. ASSUME NEW f \in Events, NEW u \in OSEvent'[f].Tbl
        PROVE  OSTCB'[u].EventPtr = f /\ (u \in OSRdyTbl' => OSTCB'[u].StatPend = "TO")
    <3>1. CASE u = t
      <4>1. f = e
        BY <1>4, <2>4, <3>1, Names DEF Waits, KernelInv, KernelOK
      <4> QED
        BY <1>4, <3>1, <4>1 DEF Waits
    <3>2. CASE u # t
      <4>1. u \in OSEvent[f].Tbl /\ u \in Tasks
        BY <1>4, <2>4, <3>2 DEF Waits, KernelInv, KernelType, EventBlocks
      <4> QED
        BY <1>4, <3>2, <4>1 DEF Waits, KernelInv, KernelOK
    <3> QED
      BY <3>1, <3>2
  <2>5. \A q \in Queues : Len(OSEvent'[q].Q) <= QSize[q]
    BY <1>4, Names DEF Waits, KernelInv, KernelOK
  <2> QED
    BY <2>1, <2>2, <2>3, <2>4, <2>5 DEF KernelOK
<1>7. NobodyWaitsInVain' /\ KindsApart'
  BY <1>4, Names DEF Waits, KernelInv, NobodyWaitsInVain, KindsApart
<1>8. HandedOver'
  <2> SUFFICES ASSUME NEW u \in Tasks, OSTCB'[u].EventPtr # "none",
                      u \notin OSEvent'[OSTCB'[u].EventPtr].Tbl
               PROVE  OSTCB'[u].StatPend = "OK" /\ OSTCB'[u].Dly = 0
    BY DEF HandedOver
  <2>1. u # t
    BY <1>4 DEF Waits
  <2>2. OSTCB'[u] = OSTCB[u] /\ OSTCB[u].EventPtr \in Events
    BY <1>4, <2>1 DEF Waits, KernelInv, KernelOK
  <2>3. u \notin OSEvent[OSTCB[u].EventPtr].Tbl
    BY <1>4, <2>1, <2>2 DEF Waits
  <2> QED
    BY <2>2, <2>3 DEF KernelInv, HandedOver
<1> QED
  BY <1>3, <1>4, <1>6, <1>7, <1>8 DEF KernelInv

(* What it changes that t comes back from its wait for e. *)
Returns(t, e) ==
  /\ \A u \in Tasks \ {t} : OSTCB'[u] = OSTCB[u]
  /\ OSTCB'[t] = IdleTCB
  /\ OSRdyTbl' = OSRdyTbl
  /\ \A f \in Events \ {e} : OSEvent'[f] = OSEvent[f]
  /\ OSEvent'[e].Tbl = OSEvent[e].Tbl \ {t}
  /\ OSEvent'[e].Q = OSEvent[e].Q /\ OSEvent'[e].Cnt = OSEvent[e].Cnt

(* A ready task comes back from its wait, handed over or timed out, and is *)
(* on no wait list then.                                                   *)
LEMMA ReturnKeeps ==
  ASSUME KernelInv, NEW t \in Tasks, NEW e \in Events, t \in OSRdyTbl, PendReturns(t, e)
  PROVE  KernelInv' /\ Returns(t, e)
<1>1. OSTCB[t].StatPend # "TO" => t \notin OSEvent[e].Tbl
  BY DEF KernelInv, KernelOK
<1>2. /\ OSTCB[t].EventPtr = e
      /\ OSEvent' = IF OSTCB[t].StatPend = "TO"
                    THEN [OSEvent EXCEPT ![e].Tbl = @ \ {t}] ELSE OSEvent
      /\ OSTCB' = [OSTCB EXCEPT ![t] = IdleTCB]
      /\ OSRdyTbl' = OSRdyTbl
  BY DEF PendReturns
<1>3. KernelType'
  <2>1. IdleTCB \in TCBs
    BY DEF IdleTCB, TCBs
  <2>2. OSTCB' \in [Tasks -> TCBs] /\ OSRdyTbl' \subseteq Tasks
    BY <1>2, <2>1 DEF KernelInv, KernelType
  <2>3. OSEvent' \in [Events -> EventBlocks]
    BY <1>2 DEF KernelInv, KernelType, EventBlocks
  <2> QED
    BY <2>2, <2>3 DEF KernelType
<1>4. Returns(t, e)
  <2>1. (\A u \in Tasks \ {t} : OSTCB'[u] = OSTCB[u]) /\ OSTCB'[t] = IdleTCB
    BY <1>2 DEF KernelInv, KernelType
  <2>2. CASE OSTCB[t].StatPend = "TO"
    BY <1>2, <2>1, <2>2 DEF Returns, KernelInv, KernelType, EventBlocks
  <2>3. CASE OSTCB[t].StatPend # "TO"
    BY <1>1, <1>2, <2>1, <2>3 DEF Returns
  <2> QED
    BY <2>2, <2>3
<1>5. OSTCB'[t].EventPtr = "none"
  BY <1>4 DEF Returns, IdleTCB
<1>6. KernelOK'
  <2>1. OSRdyTbl' \subseteq Tasks /\ \A u \in Tasks : /\ OSTCB'[u].StatPend \in {"OK", "TO"}
                                                      /\ OSTCB'[u].Dly \in Nat
                                                      /\ OSTCB'[u].EventPtr \in Events \cup {"none"}
    BY <1>3 DEF KernelType, TCBs
  <2>2. \A f \in Events : OSEvent'[f].Cnt \in Nat
    BY <1>3 DEF KernelType, EventBlocks
  <2>3. ASSUME NEW u \in Tasks, u \notin OSRdyTbl', OSTCB'[u].EventPtr # "none"
        PROVE  u \in OSEvent'[OSTCB'[u].EventPtr].Tbl
    <3>1. u # t /\ OSTCB'[u] = OSTCB[u] /\ u \notin OSRdyTbl
      BY <1>4, <1>5, <2>3 DEF Returns
    <3>2. u \in OSEvent[OSTCB[u].EventPtr].Tbl /\ OSTCB[u].EventPtr \in Events
      BY <2>3, <3>1 DEF KernelInv, KernelOK
    <3> QED
      BY <1>4, <3>1, <3>2 DEF Returns
  <2>4. ASSUME NEW f \in Events, NEW u \in OSEvent'[f].Tbl
        PROVE  OSTCB'[u].EventPtr = f /\ (u \in OSRdyTbl' => OSTCB'[u].StatPend = "TO")
    <3>1. u \in OSEvent[f].Tbl /\ u \in Tasks
      BY <1>4, <2>4 DEF Returns, KernelInv, KernelType, EventBlocks
    <3>2. u # t
      BY <1>2, <1>4, <2>4, <3>1 DEF Returns, KernelInv, KernelOK
    <3> QED
      BY <1>4, <3>1, <3>2 DEF Returns, KernelInv, KernelOK
  <2>5. \A q \in Queues : Len(OSEvent'[q].Q) <= QSize[q]
    BY <1>4, Names DEF Returns, KernelInv, KernelOK
  <2> QED
    BY <2>1, <2>2, <2>3, <2>4, <2>5 DEF KernelOK
<1>7. NobodyWaitsInVain' /\ KindsApart'
  BY <1>4, Names DEF Returns, KernelInv, NobodyWaitsInVain, KindsApart
<1>8. HandedOver'
  <2> SUFFICES ASSUME NEW u \in Tasks, OSTCB'[u].EventPtr # "none",
                      u \notin OSEvent'[OSTCB'[u].EventPtr].Tbl
               PROVE  OSTCB'[u].StatPend = "OK" /\ OSTCB'[u].Dly = 0
    BY DEF HandedOver
  <2>1. u # t
    BY <1>5
  <2>2. OSTCB'[u] = OSTCB[u] /\ OSTCB[u].EventPtr \in Events
    BY <1>4, <2>1 DEF Returns, KernelInv, KernelOK
  <2>3. u \notin OSEvent[OSTCB[u].EventPtr].Tbl
    BY <1>4, <2>1, <2>2 DEF Returns
  <2> QED
    BY <2>2, <2>3 DEF KernelInv, HandedOver
<1> QED
  BY <1>3, <1>4, <1>6, <1>7, <1>8 DEF KernelInv

(* The contents of one event change, its wait list does not. *)
Refilled(e) ==
  /\ OSTCB' = OSTCB /\ OSRdyTbl' = OSRdyTbl
  /\ \A f \in Events \ {e} : OSEvent'[f] = OSEvent[f]
  /\ OSEvent'[e].Tbl = OSEvent[e].Tbl

(* Messages and counts may change as long as nobody waits for them, or     *)
(* they become none, and a queue stays within its size.                    *)
LEMMA RefillKeeps ==
  ASSUME KernelInv, NEW e \in Events, OSEvent' \in [Events -> EventBlocks], Refilled(e),
         OSEvent'[e].Tbl # {} => OSEvent'[e].Q = <<>> /\ OSEvent'[e].Cnt = 0,
         e \in Queues => OSEvent'[e].Cnt = 0 /\ Len(OSEvent'[e].Q) <= QSize[e],
         e \in Sems => OSEvent'[e].Q = <<>>
  PROVE  KernelInv'
<1>1. \A f \in Events : OSEvent'[f].Tbl = OSEvent[f].Tbl
  BY DEF Refilled
<1>2. KernelType'
  BY DEF Refilled, KernelInv, KernelType
<1>3. KernelOK'
  <2>1. \A f \in Events : OSEvent'[f].Cnt \in Nat
    BY DEF EventBlocks
  <2>2. \A q \in Queues : Len(OSEvent'[q].Q) <= QSize[q]
    BY Names DEF Refilled, KernelInv, KernelOK
  <2> QED
    BY <1>1, <2>1, <2>2, Names DEF Refilled, KernelInv, KernelOK
<1>4. NobodyWaitsInVain' /\ KindsApart'
  BY <1>1, Names DEF Refilled, KernelInv, NobodyWaitsInVain, KindsApart
<1>5. HandedOver'
  BY <1>1, Names DEF Refilled, KernelInv, HandedOver, KernelOK
<1> QED
  BY <1>2, <1>3, <1>4, <1>5 DEF KernelInv

(* A task that waits for nothing is delayed, made ready or taken off the   *)
(* ready list.                                                             *)
LEMMA ReadyKeeps ==
  ASSUME KernelInv, NEW t \in Tasks, OSTCB[t].EventPtr = "none",
         OSEvent' = OSEvent,
         \A u \in Tasks \ {t} : u \in OSRdyTbl' <=> u \in OSRdyTbl,
         OSRdyTbl' \subseteq Tasks, NEW d \in Nat, OSTCB' = [OSTCB EXCEPT ![t].Dly = d]
  PROVE  KernelInv'
<1>1. /\ \A u \in Tasks \ {t} : OSTCB'[u] = OSTCB[u]
      /\ OSTCB'[t].EventPtr = "none"
  BY DEF KernelInv, KernelType, TCBs
<1>2. KernelType'
  BY DEF KernelInv, KernelType, TCBs
<1>3. \A e \in Events : t \notin OSEvent[e].Tbl /\ OSEvent[e].Tbl \subseteq Tasks
  BY Names DEF KernelInv, KernelOK, KernelType, EventBlocks
<1>4. KernelOK'
  <2>1. \A u \in Tasks : /\ OSTCB'[u].StatPend \in {"OK", "TO"}
                         /\ OSTCB'[u].Dly \in Nat
                         /\ OSTCB'[u].EventPtr \in Events \cup {"none"}
    BY <1>2 DEF KernelType, TCBs
  <2>2. \A u \in Tasks : u \notin OSRdyTbl' /\ OSTCB'[u].EventPtr # "none"
                           => u \in OSEvent'[OSTCB'[u].EventPtr].Tbl
    BY <1>1 DEF KernelInv, KernelOK
  <2>3. \A e \in Events : \A u \in OSEvent'[e].Tbl :
          OSTCB'[u].EventPtr = e /\ (u \in OSRdyTbl' => OSTCB'[u].StatPend = "TO")
    BY <1>1, <1>3 DEF KernelInv, KernelOK
  <2> QED
    BY <2>1, <2>2, <2>3 DEF KernelInv, KernelOK
<1>5. NobodyWaitsInVain' /\ KindsApart'
  BY DEF KernelInv, NobodyWaitsInVain, KindsApart
<1>6. HandedOver'
  BY <1>1 DEF KernelInv, HandedOver
<1> QED
  BY <1>2, <1>4, <1>5, <1>6 DEF KernelInv

(* The tick: what a task waits for and was handed is what it was.          *)
LEMMA TickKeeps ==
  ASSUME KernelInv, OSTimeTick
  PROVE  /\ KernelInv' /\ OSEvent' = OSEvent /\ OSRdyTbl \subseteq OSRdyTbl'
         /\ \A t \in Tasks : /\ OSTCB'[t].EventPtr = OSTCB[t].EventPtr
                             /\ OSTCB'[t].Msg = OSTCB[t].Msg
<1>1. ASSUME NEW t \in Tasks
      PROVE  /\ OSTCB'[t] \in TCBs
             /\ OSTCB'[t].EventPtr = OSTCB[t].EventPtr /\ OSTCB'[t].Msg = OSTCB[t].Msg
             /\ OSTCB'[t].Dly = IF OSTCB[t].Dly > 0 THEN OSTCB[t].Dly - 1 ELSE 0
             /\ OSTCB'[t].StatPend = IF OSTCB[t].Dly = 1 /\ OSTCB[t].EventPtr # "none"
                                     THEN "TO" ELSE OSTCB[t].StatPend
  <2>1. OSTCB[t] \in TCBs
    BY DEF KernelInv, KernelType
  <2>2. OSTCB'[t] = [OSTCB[t] EXCEPT
                !.Dly = IF @ > 0 THEN @ - 1 ELSE 0,
                !.StatPend = IF Ends(t) /\ OSTCB[t].EventPtr # "none" THEN "TO" ELSE @]
    BY DEF OSTimeTick
  <2> DEFINE d == IF OSTCB[t].Dly > 0 THEN OSTCB[t].Dly - 1 ELSE 0
             p == IF OSTCB[t].Dly = 1 /\ OSTCB[t].EventPtr # "none" THEN "TO"
                  ELSE OSTCB[t].StatPend
  <2>3. d \in Nat /\ p \in {"OK", "TO"}
    BY <2>1 DEF TCBs
  <2>4. OSTCB'[t] = [OSTCB[t] EXCEPT !.Dly = d, !.StatPend = p]
    BY <2>1, <2>2 DEF TCBs, Ends
  <2> HIDE DEF d, p
  <2>5. /\ OSTCB'[t] \in TCBs /\ OSTCB'[t].Dly = d /\ OSTCB'[t].StatPend = p
        /\ OSTCB'[t].EventPtr = OSTCB[t].EventPtr /\ OSTCB'[t].Msg = OSTCB[t].Msg
    BY <2>1, <2>3, <2>4 DEF TCBs
  <2> QED
    BY <2>5 DEF d, p
<1>2. OSEvent' = OSEvent /\ OSRdyTbl' = OSRdyTbl \cup {t \in Tasks : OSTCB[t].Dly = 1}
  BY DEF OSTimeTick, Ends
<1>3. KernelType'
  <2>1. OSTCB' = [t \in Tasks |-> OSTCB'[t]]
    BY DEF OSTimeTick
  <2> QED
    BY <1>1, <1>2, <2>1 DEF KernelInv, KernelType
<1>4. KernelOK'
  <2>1. OSRdyTbl' \subseteq Tasks /\ \A u \in Tasks : /\ OSTCB'[u].StatPend \in {"OK", "TO"}
                                                      /\ OSTCB'[u].Dly \in Nat
                                                      /\ OSTCB'[u].EventPtr \in Events \cup {"none"}
    BY <1>3 DEF KernelType, TCBs
  <2>2. \A u \in Tasks : u \notin OSRdyTbl' /\ OSTCB'[u].EventPtr # "none"
                           => u \in OSEvent'[OSTCB'[u].EventPtr].Tbl
    BY <1>1, <1>2 DEF KernelInv, KernelOK
  <2>3. ASSUME NEW e \in Events, NEW u \in OSEvent'[e].Tbl
        PROVE  OSTCB'[u].EventPtr = e /\ (u \in OSRdyTbl' => OSTCB'[u].StatPend = "TO")
    <3>1. u \in OSEvent[e].Tbl /\ u \in Tasks
      BY <1>2, <2>3 DEF KernelInv, KernelType, EventBlocks
    <3>2. OSTCB[u].EventPtr = e /\ (u \in OSRdyTbl => OSTCB[u].StatPend = "TO")
      BY <3>1 DEF KernelInv, KernelOK
    <3> QED
      BY <1>1, <1>2, <3>1, <3>2, Names
  <2> QED
    BY <1>2, <2>1, <2>2, <2>3 DEF KernelInv, KernelOK
<1>5. NobodyWaitsInVain' /\ KindsApart'
  BY <1>2 DEF KernelInv, NobodyWaitsInVain, KindsApart
<1>6. HandedOver'
  BY <1>1, <1>2 DEF KernelInv, HandedOver
<1> QED
  BY <1>1, <1>2, <1>3, <1>4, <1>5, <1>6 DEF KernelInv

-----------------------------------------------------------------------------
(* The timer list.                                                         *)
Timers == [h : {"arp", "dhcps"}, time : Nat]

(* g[k] is when the k-th timer of l is due. *)
IsDue(g, l) ==
  g = [k \in 0..Len(l) |-> IF k = 0 THEN 0 ELSE g[k - 1] + l[k].time]

(* Every list has such a function: the times before the first place where  *)
(* it would fail make one up to that place.                                *)
LEMMA DueExists == ASSUME NEW l \in Seq(Timers) PROVE \E g \in [0..Len(l) -> Nat] : IsDue(g, l)
<1> DEFINE Upto(n, g) == /\ g \in [0..n -> Nat] /\ g[0] = 0
                         /\ \A k \in 1..n : g[k] = g[k - 1] + l[k].time
           S == {n \in 0..Len(l) : ~ \E g : Upto(n, g)}
<1>1. Len(l) \in Nat /\ \A k \in 1..Len(l) : l[k].time \in Nat
  <2>1. Len(l) \in Nat
    BY LenProperties
  <2>2. \A k \in 1..Len(l) : l[k] \in Timers
    BY ElementOfSeq
  <2> QED
    BY <2>1, <2>2 DEF Timers
<1>2. S = {}
  <2> SUFFICES ASSUME S # {} PROVE FALSE
    OBVIOUS
  <2>1. S \subseteq Nat
    BY <1>1
  <2>3. PICK n \in S : \A y \in S : n <= y
    BY <2>1, Least
  <2>4. n # 0
    <3>1. Upto(0, [k \in 0..0 |-> 0])
      OBVIOUS
    <3> QED
      BY <3>1
  <2>5. n \in 1..Len(l) /\ n - 1 \in 0..Len(l) /\ n - 1 \notin S
    <3>1. n \in 1..Len(l)
      BY <1>1, <2>4
    <3>2. n - 1 \in 0..Len(l) /\ ~ (n <= n - 1)
      BY <1>1, <3>1
    <3> QED
      BY <2>3, <3>1, <3>2
  <2>6. PICK g : Upto(n - 1, g)
    BY <2>5
  <2> DEFINE f == [k \in 0..n |-> IF k = n THEN g[n - 1] + l[n].time ELSE g[k]]
  <2>7. n \in Nat /\ g[n - 1] + l[n].time \in Nat
    BY <1>1, <2>5, <2>6
  <2>8. f \in [0..n -> Nat] /\ f[0] = 0
    BY <2>4, <2>6, <2>7
  <2>9. ASSUME NEW k \in 1..n PROVE f[k] = f[k - 1] + l[k].time
    <3>1. k \in 0..n /\ k - 1 \in 0..n /\ k - 1 # n
      BY <2>7
    <3>2. f[k - 1] = g[k - 1] /\ f[k] = IF k = n THEN g[n - 1] + l[n].time ELSE g[k]
      BY <3>1
    <3>3. k # n => k \in 1 .. n - 1
      BY <2>7
    <3> QED
      BY <2>6, <3>2, <3>3
  <2>10. Upto(n, f)
    BY <2>8, <2>9
  <2> QED
    BY <2>10
<1>3. PICK g : Upto(Len(l), g)
  BY <1>1, <1>2
<1>4. IsDue(g, l)
  BY <1>1, <1>3 DEF IsDue
<1> QED
  BY <1>3, <1>4

(* When a timer is due, by the one before it.                              *)
LEMMA DueSum ==
  ASSUME NEW l \in Seq(Timers)
  PROVE  /\ DueAt(l, 0) = 0
         /\ \A k \in 1..Len(l) : DueAt(l, k) = DueAt(l, k - 1) + l[k].time
         /\ \A k \in 0..Len(l) : DueAt(l, k) \in Nat
<1> DEFINE d == CHOOSE g : IsDue(g, l)
           S == {k \in 0..Len(l) : d[k] \notin Nat}
<1>1. IsDue(d, l)
  BY DueExists
<1>2. \A k \in 0..Len(l) : DueAt(l, k) = d[k]
  BY DEF DueAt, IsDue
<1>3. Len(l) \in Nat
  BY LenProperties
<1> HIDE DEF d
<1>4. d[0] = 0 /\ \A k \in 1..Len(l) : d[k] = d[k - 1] + l[k].time
  BY <1>1, <1>3 DEF IsDue
<1>5. \A k \in 1..Len(l) : l[k].time \in Nat
  <2>1. \A k \in 1..Len(l) : l[k] \in Timers
    BY ElementOfSeq
  <2> QED
    BY <2>1 DEF Timers
<1>6. S = {}
  <2> SUFFICES ASSUME S # {} PROVE FALSE
    OBVIOUS
  <2>0. S \subseteq Nat
    BY <1>3
  <2>1. PICK n \in S : \A y \in S : n <= y
    BY <2>0, Least
  <2>2. n \in 1..Len(l)
    BY <1>3, <1>4
  <2>3. n - 1 \in 0..Len(l) /\ ~ (n <= n - 1)
    BY <1>3, <2>2
  <2>4. d[n - 1] \in Nat
    BY <2>1, <2>3
  <2> QED
    BY <1>4, <1>5, <2>2, <2>4
<1>7. \A k \in 0..Len(l) : d[k] \in Nat
  BY <1>6
<1>8. 0 \in 0..Len(l) /\ \A k \in 1..Len(l) : k \in 0..Len(l) /\ k - 1 \in 0..Len(l)
  BY <1>3
<1>9. DueAt(l, 0) = 0 /\ \A k \in 0..Len(l) : DueAt(l, k) \in Nat
  BY <1>2, <1>4, <1>7, <1>8
<1>10. \A k \in 1..Len(l) : DueAt(l, k) = DueAt(l, k - 1) + l[k].time
  BY <1>2, <1>4, <1>8
<1> QED
  BY <1>9, <1>10

(* The list with or without a changed time of its first timer.             *)
LEMMA FirstChanged ==
  ASSUME NEW l \in Seq(Timers), NEW n, l # <<>> => n \in Nat
  PROVE  LET s == IF l = <<>> THEN l ELSE [l EXCEPT ![1].time = n]
         IN  /\ s \in Seq(Timers) /\ Len(s) = Len(l)
             /\ \A k \in 1..Len(l) : s[k].h = l[k].h
<1>1. CASE l = <<>>
  BY <1>1
<1>2. CASE l # <<>>
  <2>1. Len(l) \in Nat \ {0} /\ 1 \in 1..Len(l)
    BY <1>2, EmptySeq
  <2>2. \A k \in 1..Len(l) : l[k] \in Timers
    BY ElementOfSeq
  <2>3. [l EXCEPT ![1].time = n] = [l EXCEPT ![1] = [l[1] EXCEPT !.time = n]]
    BY <2>1
  <2>4. [l[1] EXCEPT !.time = n] \in Timers /\ [l[1] EXCEPT !.time = n].h = l[1].h
    BY <1>2, <2>1, <2>2 DEF Timers
  <2>5. /\ [l EXCEPT ![1] = [l[1] EXCEPT !.time = n]] \in Seq(Timers)
        /\ Len([l EXCEPT ![1] = [l[1] EXCEPT !.time = n]]) = Len(l)
        /\ \A j \in 1..Len(l) : [l EXCEPT ![1] = [l[1] EXCEPT !.time = n]][j]
                                  = IF j = 1 THEN [l[1] EXCEPT !.time = n] ELSE l[j]
    BY <2>1, <2>4, ExceptSeq
  <2> QED
    BY <1>2, <2>3, <2>4, <2>5
<1> QED
  BY <1>1, <1>2

(* One timer comes in at place i, the others keep their order. *)
PutIn(s, l, i, handler) ==
  /\ Len(s) = Len(l) + 1 /\ i \in 1 .. Len(l) + 1
  /\ s[i].h = handler
  /\ \A k \in 1 .. i - 1 : s[k].h = l[k].h
  /\ \A k \in i .. Len(l) : s[k + 1].h = l[k].h

(* sys_timeout puts one timer in, and the times stay natural numbers.      *)
LEMMA TimeoutPutsIn ==
  ASSUME NEW l \in Seq(Timers), NEW ms \in Nat, NEW handler \in {"arp", "dhcps"},
         Len(l) # NumTimeout
  PROVE  /\ sys_timeout(l, ms, handler) \in Seq(Timers)
         /\ \E i \in 1 .. Len(l) + 1 : PutIn(sys_timeout(l, ms, handler), l, i, handler)
<1> DEFINE i == IF Later(l, ms) = {} THEN Len(l) + 1
                ELSE CHOOSE j \in Later(l, ms) : \A k \in Later(l, ms) : j <= k
           time == ms - DueAt(l, i - 1)
           pre == SubSeq(l, 1, i - 1)
           rest == SubSeq(l, i, Len(l))
           n == rest[1].time - time
           adj == IF rest = <<>> THEN rest ELSE [rest EXCEPT ![1].time = n]
           new == [h |-> handler, time |-> time]
<1>1. sys_timeout(l, ms, handler) = pre \o <<new>> \o adj
  BY DEF sys_timeout
<1>2. Len(l) \in Nat /\ DOMAIN l = 1..Len(l)
  BY LenProperties
<1>3. Later(l, ms) \subseteq Nat /\ Later(l, ms) = {k \in 1..Len(l) : DueAt(l, k) > ms}
  BY <1>2 DEF Later
<1>4. /\ Later(l, ms) # {} => i \in Later(l, ms) /\ \A k \in Later(l, ms) : i <= k
      /\ Later(l, ms) = {} => i = Len(l) + 1
  BY <1>3, Least
<1> HIDE DEF i
<1>5. i \in 1 .. Len(l) + 1 /\ i - 1 \in 0..Len(l)
  BY <1>2, <1>3, <1>4
<1>6. DueAt(l, i - 1) \in Nat /\ DueAt(l, i - 1) <= ms
  <2>1. DueAt(l, i - 1) \in Nat
    BY <1>5, DueSum
  <2>2. CASE i = 1
    BY <2>2, DueSum
  <2>3. CASE i # 1
    <3>1. i - 1 \in 1..Len(l) /\ ~ (i <= i - 1)
      BY <1>2, <1>5, <2>3
    <3>2. i - 1 \notin Later(l, ms)
      BY <1>4, <3>1
    <3> QED
      BY <1>3, <2>1, <3>1, <3>2
  <2> QED
    BY <2>2, <2>3
<1>7. time \in Nat /\ new \in Timers
  BY <1>6 DEF Timers
<1>8. pre \in Seq(Timers) /\ Len(pre) = i - 1 /\ \A k \in 1 .. i - 1 : pre[k] = l[k]
  BY <1>2, <1>5
<1>9. /\ rest \in Seq(Timers) /\ Len(rest) = Len(l) - i + 1
      /\ \A k \in 1 .. Len(l) - i + 1 : rest[k] = l[i + k - 1]
  BY <1>2, <1>5
<1>10. rest # <<>> => n \in Nat
  <2> SUFFICES ASSUME rest # <<>> PROVE n \in Nat
    OBVIOUS
  <2>1. i \in 1..Len(l) /\ rest[1] = l[i]
    BY <1>2, <1>5, <1>9, EmptySeq
  <2>2. i \in Later(l, ms)
    BY <1>2, <1>4, <2>1
  <2>3. DueAt(l, i) > ms /\ DueAt(l, i) = DueAt(l, i - 1) + l[i].time /\ l[i] \in Timers
    BY <1>3, <2>1, <2>2, DueSum, ElementOfSeq
  <2> QED
    BY <1>6, <2>1, <2>3 DEF Timers
<1> HIDE DEF time, pre, rest, n, new
<1>11. adj \in Seq(Timers) /\ Len(adj) = Len(rest) /\ \A k \in 1..Len(rest) : adj[k].h = rest[k].h
  BY <1>9, <1>10, FirstChanged
<1> HIDE DEF adj
<1>12. /\ pre \o <<new>> \in Seq(Timers) /\ Len(pre \o <<new>>) = i
       /\ \A k \in 1 .. i - 1 : (pre \o <<new>>)[k] = l[k]
       /\ (pre \o <<new>>)[i] = new
  <2>1. <<new>> \in Seq(Timers) /\ Len(<<new>>) = 1 /\ <<new>>[1] = new
    BY <1>7
  <2> QED
    BY <1>5, <1>8, <2>1, ConcatProperties
<1> DEFINE s == pre \o <<new>> \o adj
<1>13. /\ s \in Seq(Timers) /\ Len(s) = Len(l) + 1
       /\ \A k \in 1..i : s[k] = (pre \o <<new>>)[k]
       /\ \A k \in i .. Len(l) : s[k + 1] = adj[k + 1 - i]
  <2>1. /\ s \in Seq(Timers) /\ Len(s) = i + Len(adj)
        /\ \A k \in 1 .. i + Len(adj) : s[k] = IF k <= i THEN (pre \o <<new>>)[k] ELSE adj[k - i]
    <3> DEFINE q == pre \o <<new>>
    <3>1. q \in Seq(Timers) /\ Len(q) = i /\ adj \in Seq(Timers)
      BY <1>11, <1>12
    <3> HIDE DEF q
    <3>2. /\ q \o adj \in Seq(Timers) /\ Len(q \o adj) = Len(q) + Len(adj)
          /\ \A k \in 1 .. Len(q) + Len(adj) :
               (q \o adj)[k] = IF k <= Len(q) THEN q[k] ELSE adj[k - Len(q)]
      BY <3>1, ConcatProperties, Zenon
    <3>3. /\ q \o adj \in Seq(Timers) /\ Len(q \o adj) = i + Len(adj)
          /\ \A k \in 1 .. i + Len(adj) : (q \o adj)[k] = IF k <= i THEN q[k] ELSE adj[k - i]
      BY <3>1, <3>2
    <3> QED
      BY <3>3, Zenon DEF q
  <2>2. Len(s) = Len(l) + 1 /\ i + Len(adj) = Len(l) + 1
    BY <1>2, <1>5, <1>9, <1>11, <2>1
  <2>3. \A k \in 1..i : s[k] = (pre \o <<new>>)[k]
    BY <1>2, <1>5, <2>1, <2>2
  <2>4. ASSUME NEW k \in i .. Len(l) PROVE s[k + 1] = adj[k + 1 - i]
    <3>1. k + 1 \in 1 .. i + Len(adj) /\ ~ (k + 1 <= i)
      BY <1>2, <1>5, <2>2
    <3>2. \A j \in 1 .. i + Len(adj) : ~ (j <= i) => s[j] = adj[j - i]
      BY <2>1
    <3> HIDE DEF s
    <3> QED
      BY <1>2, <1>5, <3>1, <3>2
  <2> QED
    BY <2>1, <2>2, <2>3, <2>4
<1> HIDE DEF s
<1>14. ASSUME NEW k \in i .. Len(l) PROVE s[k + 1].h = l[k].h
  <2>1. k + 1 - i \in 1 .. Len(l) - i + 1 /\ i + (k + 1 - i) - 1 = k
    BY <1>2, <1>5
  <2>2. adj[k + 1 - i].h = rest[k + 1 - i].h /\ rest[k + 1 - i] = l[k]
    BY <1>9, <1>11, <2>1
  <2> QED
    BY <1>13, <2>2
<1>15. s[i].h = handler /\ \A k \in 1 .. i - 1 : s[k].h = l[k].h
  <2>1. i \in 1..i /\ \A k \in 1 .. i - 1 : k \in 1..i
    BY <1>5
  <2>2. s[i] = new
    BY <1>12, <1>13, <2>1
  <2> QED
    BY <1>12, <1>13, <2>1, <2>2 DEF new
<1>16. PutIn(s, l, i, handler)
  BY <1>5, <1>13, <1>14, <1>15 DEF PutIn
<1> QED
  BY <1>1, <1>5, <1>13, <1>16 DEF s

(* One timer, that of handler, goes out from place i. *)
TakenOut(s, l, i, handler) ==
  /\ Len(s) = Len(l) - 1 /\ i \in 1..Len(l)
  /\ l[i].h = handler
  /\ \A k \in 1 .. i - 1 : s[k].h = l[k].h
  /\ \A k \in i .. Len(l) - 1 : s[k].h = l[k + 1].h

(* sys_untimeout takes one timer of the handler out, if there is one.      *)
LEMMA UntimeoutTakesOut ==
  ASSUME NEW l \in Seq(Timers), NEW handler
  PROVE  /\ sys_untimeout(l, handler) \in Seq(Timers)
         /\ IF \E k \in 1..Len(l) : l[k].h = handler
            THEN \E i \in 1..Len(l) : TakenOut(sys_untimeout(l, handler), l, i, handler)
            ELSE sys_untimeout(l, handler) = l
<1>1. Len(l) \in Nat /\ DOMAIN l = 1..Len(l) /\ \A k \in 1..Len(l) : l[k] \in Timers
  BY LenProperties, ElementOfSeq
<1> DEFINE match == {k \in DOMAIN l : l[k].h = handler}
           i == CHOOSE j \in match : \A k \in match : j <= k
           pre == SubSeq(l, 1, i - 1)
           rest == SubSeq(l, i + 1, Len(l))
           n == rest[1].time + l[i].time
           adj == IF rest = <<>> THEN rest ELSE [rest EXCEPT ![1].time = n]
           s == pre \o adj
<1>2. CASE match = {}
  BY <1>1, <1>2 DEF sys_untimeout
<1>3. CASE match # {}
  <2>1. sys_untimeout(l, handler) = s
    BY <1>3 DEF sys_untimeout
  <2>2. i \in match
    <3>1. match \subseteq Nat
      BY <1>1
    <3> QED
      BY <1>3, <3>1, Least
  <2> HIDE DEF i
  <2>3. i \in 1..Len(l) /\ l[i].h = handler
    BY <1>1, <2>2
  <2>4. pre \in Seq(Timers) /\ Len(pre) = i - 1 /\ \A k \in 1 .. i - 1 : pre[k] = l[k]
    BY <1>1, <2>3
  <2>5. /\ rest \in Seq(Timers) /\ Len(rest) = Len(l) - i
        /\ \A k \in 1 .. Len(l) - i : rest[k] = l[i + k]
    <3>1. i + 1 \in Int /\ Len(l) \in Int /\ \A k \in i + 1 .. Len(l) : l[k] \in Timers
      BY <1>1, <2>3
    <3>2. /\ rest \in Seq(Timers)
          /\ Len(rest) = IF i + 1 <= Len(l) THEN Len(l) - (i + 1) + 1 ELSE 0
          /\ \A k \in 1 .. Len(l) - (i + 1) + 1 : rest[k] = l[(i + 1) + k - 1]
      BY <3>1, SubSeqProperties
    <3> HIDE DEF rest
    <3>5. \A b \in Nat : \A a \in 1..b :
            /\ (IF a + 1 <= b THEN b - (a + 1) + 1 ELSE 0) = b - a
            /\ b - (a + 1) + 1 = b - a
      OBVIOUS
    <3>3. Len(rest) = Len(l) - i /\ Len(l) - (i + 1) + 1 = Len(l) - i
      BY <1>1, <2>3, <3>2, <3>5
    <3>4. \A k \in 1 .. Len(l) - i : (i + 1) + k - 1 = i + k
      BY <1>1, <2>3
    <3> QED
      BY <3>2, <3>3, <3>4
  <2> HIDE DEF pre, rest
  <2>6. rest # <<>> => n \in Nat
    <3> SUFFICES ASSUME rest # <<>> PROVE n \in Nat
      OBVIOUS
    <3>1. Len(rest) \in Nat \ {0} /\ 1 \in 1..Len(rest)
      BY <2>5, EmptySeq
    <3>2. rest[1] \in Timers /\ l[i] \in Timers
      BY <1>1, <2>3, <2>5, <3>1, ElementOfSeq
    <3> QED
      BY <3>2 DEF Timers
  <2> HIDE DEF n
  <2>7. adj \in Seq(Timers) /\ Len(adj) = Len(rest) /\ \A k \in 1..Len(rest) : adj[k].h = rest[k].h
    BY <2>5, <2>6, FirstChanged
  <2> HIDE DEF adj
  <2>8. /\ s \in Seq(Timers) /\ Len(s) = Len(pre) + Len(adj)
        /\ \A k \in 1 .. Len(pre) + Len(adj) : s[k] = IF k <= Len(pre) THEN pre[k]
                                                      ELSE adj[k - Len(pre)]
    <3>1. pre \in Seq(Timers) /\ adj \in Seq(Timers)
      BY <2>4, <2>7
    <3> QED
      BY <3>1, ConcatProperties
  <2> HIDE DEF s
  <2>9. Len(s) = Len(l) - 1 /\ Len(pre) + Len(adj) = Len(l) - 1
    BY <1>1, <2>3, <2>4, <2>5, <2>7, <2>8
  <2>10. ASSUME NEW k \in 1 .. i - 1 PROVE s[k].h = l[k].h
    <3>1. k \in 1 .. Len(pre) + Len(adj) /\ k <= Len(pre)
      BY <1>1, <2>3, <2>4, <2>9
    <3>2. s[k] = pre[k]
      BY <2>8, <3>1
    <3> QED
      BY <2>4, <3>2
  <2>11. ASSUME NEW k \in i .. Len(l) - 1 PROVE s[k].h = l[k + 1].h
    <3>1. k \in 1 .. Len(pre) + Len(adj) /\ ~ (k <= Len(pre)) /\ k - Len(pre) = k - i + 1
      BY <1>1, <2>3, <2>4, <2>9
    <3>2. k - i + 1 \in 1 .. Len(l) - i /\ i + (k - i + 1) = k + 1
      BY <1>1, <2>3
    <3>3. s[k] = adj[k - i + 1]
      BY <2>8, <3>1
    <3>4. adj[k - i + 1].h = l[k + 1].h
      BY <2>5, <2>7, <3>2
    <3> QED
      BY <3>3, <3>4
  <2>12. TakenOut(s, l, i, handler)
    BY <2>3, <2>9, <2>10, <2>11 DEF TakenOut
  <2> QED
    BY <2>1, <2>3, <2>8, <2>12
<1> QED
  BY <1>2, <1>3

(* Which timers a list has, before and after.                              *)
HasArp(l) == \E k \in 1..Len(l) : l[k].h = "arp"
HasDhcps(l) == \E k \in 1..Len(l) : l[k].h = "dhcps"
OneArp(l) == \A j, k \in 1..Len(l) : l[j].h = "arp" /\ l[k].h = "arp" => j = k

LEMMA ArpPutIn ==
  ASSUME NEW l \in Seq(Timers), NEW s \in Seq(Timers), NEW i, NEW handler,
         PutIn(s, l, i, handler), OneArp(l), handler = "arp" => ~HasArp(l)
  PROVE  OneArp(s) /\ (HasArp(s) <=> HasArp(l) \/ handler = "arp")
<1>1. Len(l) \in Nat /\ Len(s) = Len(l) + 1 /\ i \in 1 .. Len(l) + 1
  BY LenProperties DEF PutIn
<1>2. ASSUME NEW k \in 1..Len(s), k # i
      PROVE  \E j \in 1..Len(l) : s[k].h = l[j].h /\ j = IF k < i THEN k ELSE k - 1
  <2>1. CASE k < i
    BY <1>1, <1>2, <2>1 DEF PutIn
  <2>2. CASE k > i
    <3>1. k - 1 \in i .. Len(l) /\ k - 1 \in 1..Len(l) /\ (k - 1) + 1 = k /\ ~ (k < i)
      BY <1>1, <1>2, <2>2
    <3>2. s[(k - 1) + 1].h = l[k - 1].h
      BY <3>1 DEF PutIn
    <3> QED
      BY <3>1, <3>2
  <2> QED
    BY <1>1, <1>2, <2>1, <2>2
<1>3. s[i].h = handler /\ i \in 1..Len(s)
  BY <1>1 DEF PutIn
<1>4. OneArp(s)
  <2> SUFFICES ASSUME NEW j \in 1..Len(s), NEW k \in 1..Len(s), s[j].h = "arp", s[k].h = "arp"
               PROVE  j = k
    BY DEF OneArp
  <2>1. CASE handler = "arp"
    BY <1>2, <1>3, <2>1 DEF HasArp
  <2>2. CASE handler # "arp"
    <3>1. j # i /\ k # i
      BY <1>3, <2>2
    <3>2. (IF j < i THEN j ELSE j - 1) = (IF k < i THEN k ELSE k - 1)
      BY <1>2, <3>1 DEF OneArp
    <3> QED
      BY <1>1, <3>1, <3>2
  <2> QED
    BY <2>1, <2>2
<1>5. ASSUME NEW k \in 1..Len(l), l[k].h = "arp" PROVE HasArp(s)
  <2>1. CASE k < i
    <3>1. k \in 1..Len(s) /\ k \in 1 .. i - 1
      BY <1>1, <2>1
    <3> QED
      BY <1>5, <3>1 DEF HasArp, PutIn
  <2>2. CASE k >= i
    <3>1. k + 1 \in 1..Len(s) /\ k \in i .. Len(l)
      BY <1>1, <2>2
    <3> QED
      BY <1>5, <3>1 DEF HasArp, PutIn
  <2> QED
    BY <1>1, <2>1, <2>2
<1>6. HasArp(s) => HasArp(l) \/ handler = "arp"
  BY <1>2, <1>3 DEF HasArp
<1>7. HasArp(l) \/ handler = "arp" => HasArp(s)
  BY <1>3, <1>5 DEF HasArp
<1> QED
  BY <1>4, <1>6, <1>7

LEMMA ArpTakenOut ==
  ASSUME NEW l \in Seq(Timers), NEW s \in Seq(Timers), NEW i, NEW handler,
         TakenOut(s, l, i, handler), OneArp(l)
  PROVE  /\ OneArp(s)
         /\ handler = "arp" => ~HasArp(s)
         /\ handler # "arp" => (HasArp(s) <=> HasArp(l))
<1>1. Len(l) \in Nat /\ Len(s) = Len(l) - 1 /\ i \in 1..Len(l)
  BY LenProperties DEF TakenOut
<1>2. ASSUME NEW k \in 1..Len(s)
      PROVE  \E j \in 1..Len(l) : j # i /\ s[k].h = l[j].h /\ j = IF k < i THEN k ELSE k + 1
  <2>1. CASE k < i
    <3>1. k \in 1 .. i - 1 /\ k \in 1..Len(l) /\ k # i
      BY <1>1, <2>1
    <3> QED
      BY <2>1, <3>1 DEF TakenOut
  <2>2. CASE ~ (k < i)
    <3>1. k \in i .. Len(l) - 1 /\ k + 1 \in 1..Len(l) /\ k + 1 # i
      BY <1>1, <2>2
    <3> QED
      BY <2>2, <3>1 DEF TakenOut
  <2> QED
    BY <2>1, <2>2
<1>3. l[i].h = handler
  BY DEF TakenOut
<1>4. OneArp(s)
  <2> SUFFICES ASSUME NEW j \in 1..Len(s), NEW k \in 1..Len(s), s[j].h = "arp", s[k].h = "arp"
               PROVE  j = k
    BY DEF OneArp
  <2>1. (IF j < i THEN j ELSE j + 1) = (IF k < i THEN k ELSE k + 1)
    BY <1>2 DEF OneArp
  <2> QED
    BY <1>1, <2>1
<1>5. handler = "arp" => ~HasArp(s)
  BY <1>1, <1>2, <1>3 DEF HasArp, OneArp
<1>6. ASSUME handler # "arp", NEW k \in 1..Len(l), l[k].h = "arp" PROVE HasArp(s)
  <2>0. k # i
    BY <1>3, <1>6
  <2>1. CASE k < i
    <3>1. k \in 1..Len(s) /\ k \in 1 .. i - 1
      BY <1>1, <2>1
    <3> QED
      BY <1>6, <3>1 DEF HasArp, TakenOut
  <2>2. CASE k > i
    <3>1. k - 1 \in 1..Len(s) /\ k - 1 \in i .. Len(l) - 1 /\ (k - 1) + 1 = k
      BY <1>1, <2>2
    <3>2. s[k - 1].h = l[(k - 1) + 1].h
      BY <3>1 DEF TakenOut
    <3> QED
      BY <1>6, <3>1, <3>2 DEF HasArp
  <2> QED
    BY <1>1, <2>0, <2>1, <2>2
<1>7. HasArp(s) => HasArp(l)
  BY <1>2 DEF HasArp
<1> QED
  BY <1>4, <1>5, <1>6, <1>7 DEF HasArp

(* A timer of the DHCP server comes in, or one that is there stays.        *)
LEMMA DhcpsPutIn ==
  ASSUME NEW l \in Seq(Timers), NEW s, NEW i, NEW handler,
         PutIn(s, l, i, handler), handler = "dhcps" \/ HasDhcps(l)
  PROVE  HasDhcps(s)
<1>1. Len(l) \in Nat /\ Len(s) = Len(l) + 1 /\ i \in 1 .. Len(l) + 1
  BY LenProperties DEF PutIn
<1>2. CASE handler = "dhcps"
  BY <1>1, <1>2 DEF HasDhcps, PutIn
<1>3. ASSUME NEW k \in 1..Len(l), l[k].h = "dhcps" PROVE HasDhcps(s)
  <2>1. CASE k < i
    <3>1. k \in 1..Len(s) /\ k \in 1 .. i - 1
      BY <1>1, <2>1
    <3> QED
      BY <1>3, <3>1 DEF HasDhcps, PutIn
  <2>2. CASE k >= i
    <3>1. k + 1 \in 1..Len(s) /\ k \in i .. Len(l)
      BY <1>1, <2>2
    <3> QED
      BY <1>3, <3>1 DEF HasDhcps, PutIn
  <2> QED
    BY <1>1, <2>1, <2>2
<1> QED
  BY <1>2, <1>3 DEF HasDhcps

(* Another timer goes out.                                                 *)
LEMMA DhcpsTakenOut ==
  ASSUME NEW l \in Seq(Timers), NEW s, NEW i, NEW handler,
         TakenOut(s, l, i, handler), handler # "dhcps", HasDhcps(l)
  PROVE  HasDhcps(s)
<1>1. Len(l) \in Nat /\ Len(s) = Len(l) - 1 /\ i \in 1..Len(l) /\ l[i].h = handler
  BY LenProperties DEF TakenOut
<1>2. PICK k \in 1..Len(l) : l[k].h = "dhcps"
  BY DEF HasDhcps
<1>3. k # i
  BY <1>1, <1>2
<1>4. CASE k < i
  <2>1. k \in 1..Len(s) /\ k \in 1 .. i - 1
    BY <1>1, <1>4
  <2> QED
    BY <1>2, <2>1 DEF HasDhcps, TakenOut
<1>5. CASE k > i
  <2>1. k - 1 \in 1..Len(s) /\ k - 1 \in i .. Len(l) - 1 /\ (k - 1) + 1 = k
    BY <1>1, <1>5
  <2>2. s[k - 1].h = l[(k - 1) + 1].h
    BY <2>1 DEF TakenOut
  <2> QED
    BY <1>2, <2>1, <2>2 DEF HasDhcps
<1> QED
  BY <1>1, <1>3, <1>4, <1>5

(* The first timer of a list expires.                                      *)
LEMMA TailTakesOut ==
  ASSUME NEW l \in Seq(Timers), l # <<>>
  PROVE  Tail(l) \in Seq(Timers) /\ TakenOut(Tail(l), l, 1, l[1].h)
<1>1. Len(l) \in Nat \ {0}
  BY EmptySeq
<1>2. /\ Tail(l) \in Seq(Timers) /\ Len(Tail(l)) = Len(l) - 1
      /\ \A k \in 1..Len(Tail(l)) : Tail(l)[k] = l[k + 1]
  BY HeadTailProperties
<1> QED
  BY <1>1, <1>2 DEF TakenOut

-----------------------------------------------------------------------------
(* The state of the tasks.  A task waits for an event exactly while its    *)
(* program is at the wait. *)
PtrInv ==
  /\ OSTCB["tcpip"].EventPtr = IF tpc = "blocked" THEN "mbox" ELSE "none"
  /\ OSTCB["sel"].EventPtr = IF spc = "blocked" THEN "sel" ELSE "none"
  /\ \A c \in Callers : OSTCB[c].EventPtr = IF cpc[c] = "blocked" THEN c ELSE "none"

ThreadType ==
  /\ tpc \in {"fetch", "pend", "blocked", "adjust", "expire", "unlink", "fire", "insert", "link",
             "handle", "event"}
  /\ msg \in Msgs \cup {NoMsg}
  /\ limit \in Nat /\ waited \in 0..MaxWaited

CallType ==
  /\ cpc \in [Callers -> {"idle", "post", "wait", "blocked", "done"}]
  /\ tries \in [Callers -> 0..PostTries]
  /\ \A c \in Callers : cpc[c] = "post" => tries[c] < PostTries
  /\ current \subseteq Callers /\ packets \in 0..MaxPackets /\ calls \in 0..MaxCalls

(* The ARP timer is on the list once, or in the hands of the thread, and   *)
(* so is the DHCP server's while it is enabled.  That one may be there     *)
(* twice: a stop and a start between its expiry and the end of its handler *)
(* leave a second one, but never a third. *)
ListInv ==
  /\ OneArp(next_timeout)
  /\ HasArp(next_timeout) <=> ~Returning("arp")
  /\ Enable => HasDhcps(next_timeout) \/ Returning("dhcps")
  /\ Len(next_timeout) + Held <= IF Enable THEN 3 ELSE 2

(* All this until the list is torn. *)
TimerInv ==
  /\ next_timeout \in Seq(Timers)
  /\ torn \in BOOLEAN /\ Enable \in BOOLEAN /\ starts \in 0..MaxStarts
  /\ InHandler => fired \in {"arp", "dhcps"}
  /\ torn => next_timeout = <<>>
  /\ ~torn => ListInv

(* The thread on its mailbox's wait list has no message, and one that was  *)
(* taken off it has one. *)
MsgInv ==
  /\ tpc = "blocked" => (OSTCB["tcpip"].Msg = NoMsg <=> "tcpip" \in OSEvent["mbox"].Tbl)
  /\ MessagesInOrder

(* A packet in recvmbox is counted in rcvevent, but for the moments        *)
(* between the two; a task in lwip_select that is on the list and saw no   *)
(* event is woken by the next. *)
Uncounted == IF tpc = "event" THEN 1 ELSE 0
Unminused == IF spc = "minus" THEN 1 ELSE 0

SelInv ==
  /\ spc \in {"scan", "enlist", "rescan", "wait", "blocked", "leave", "expired", "recv",
              "minus"}
  /\ sem_signalled \in BOOLEAN /\ rcvevent \in Nat
  /\ Len(OSEvent["recvmbox"].Q) + Unminused = rcvevent + Uncounted
  /\ spc \in {"recv", "minus"} => rcvevent > 0
  /\ select_waiting \in BOOLEAN
  /\ select_waiting <=> spc \in {"rescan", "wait", "blocked", "leave", "expired"}
  /\ spc \in {"rescan", "wait"} /\ sem_signalled => OSEvent["sel"].Cnt > 0
  /\ spc \in {"scan", "enlist", "recv", "minus"} => ~sem_signalled
  /\ spc = "wait" /\ ~sem_signalled => rcvevent = 0
  /\ spc = "blocked" /\ "sel" \notin OSRdyTbl => rcvevent = 0 /\ ~sem_signalled

Inv == KernelInv /\ PtrInv /\ ThreadType /\ CallType /\ TimerInv /\ MsgInv /\ SelInv

(* The invariant implies what the runs check.                              *)
LEMMA InvImplies == Inv => WaitsSound /\ MessagesInOrder /\ SelectWorks /\ TimersKept
<1> SUFFICES ASSUME Inv PROVE WaitsSound /\ MessagesInOrder /\ SelectWorks /\ TimersKept
  OBVIOUS
<1>1. Len(next_timeout) <= NumTimeout
  <2>1. Len(next_timeout) \in Nat /\ (next_timeout = <<>> => Len(next_timeout) = 0)
    BY LenProperties, EmptySeq DEF Inv, TimerInv
  <2>2. CASE torn
    BY <2>1, <2>2, TimesAssumption DEF Inv, TimerInv
  <2>3. CASE ~torn
    BY <2>1, <2>3, TimesAssumption DEF Inv, TimerInv, ListInv, Held
  <2> QED
    BY <2>2, <2>3
<1>2. TypeOK
  <2>1. next_timeout \in Seq([h : {"arp", "dhcps"}, time : Nat])
    BY DEF Inv, TimerInv, Timers
  <2>2. select_waiting \in BOOLEAN /\ sem_signalled \in BOOLEAN /\ rcvevent \in Nat
    BY DEF Inv, SelInv
  <2>3. \A c \in Callers : /\ cpc[c] \in {"idle", "post", "wait", "blocked", "done"}
                           /\ tries[c] \in 0..PostTries
    BY DEF Inv, CallType
  <2>4. KernelOK /\ msg \in Callers \cup {Packet, NoMsg}
    BY DEF Inv, KernelInv, ThreadType, Msgs
  <2>5. torn \in BOOLEAN /\ Enable \in BOOLEAN /\ starts \in 0..MaxStarts
        /\ current \subseteq Callers /\ packets \in 0..MaxPackets /\ calls \in 0..MaxCalls
    BY DEF Inv, TimerInv, CallType
  <2> QED
    BY <1>1, <2>1, <2>2, <2>3, <2>4, <2>5 DEF TypeOK, Inv, ThreadType
<1>3. WaitsSound
  BY <1>2 DEF WaitsSound, Inv, KernelInv
<1>4. MessagesInOrder
  BY DEF Inv, MsgInv
<1>5. SelectWorks
  <2>1. spc = "recv" => OSEvent["recvmbox"].Q # <<>>
    <3> SUFFICES ASSUME spc = "recv", OSEvent["recvmbox"].Q = <<>> PROVE FALSE
      OBVIOUS
    <3>1. Len(OSEvent["recvmbox"].Q) = 0
      BY EmptySeq
    <3> QED
      BY <3>1 DEF Inv, SelInv, Unminused, Uncounted
  <2> QED
    BY <2>1 DEF SelectWorks, Inv, SelInv
<1>6. TimersKept
  <2>1. DOMAIN next_timeout = 1..Len(next_timeout)
    BY LenProperties DEF Inv, TimerInv
  <2>2. (On("arp") <=> HasArp(next_timeout)) /\ (On("dhcps") <=> HasDhcps(next_timeout))
    BY <2>1 DEF On, HasArp, HasDhcps
  <2>3. CASE ~torn
    <3>1. ListInv
      BY <2>3 DEF Inv, TimerInv
    <3>2. On("arp") <=> ~Returning("arp")
      BY <2>2, <3>1 DEF ListInv
    <3>3. \A i, j \in DOMAIN next_timeout :
            next_timeout[i].h = "arp" /\ next_timeout[j].h = "arp" => i = j
      BY <2>1, <3>1 DEF ListInv, OneArp
    <3>4. Enable => On("dhcps") \/ Returning("dhcps")
      BY <2>2, <3>1 DEF ListInv
    <3> QED
      BY <3>1, <3>2, <3>3, <3>4 DEF TimersKept, ListInv
  <2> QED
    BY <2>3 DEF TimersKept
<1> QED
  BY <1>3, <1>4, <1>5, <1>6

(* Who can be on which wait list.                                          *)
LEMMA Waiters ==
  ASSUME KernelInv, PtrInv
  PROVE  /\ \A u \in OSEvent["mbox"].Tbl : u = "tcpip" /\ tpc = "blocked"
         /\ OSEvent["recvmbox"].Tbl = {}
         /\ \A u \in OSEvent["sel"].Tbl : u = "sel" /\ spc = "blocked"
         /\ \A c \in Callers : \A u \in OSEvent[c].Tbl : u = c /\ cpc[c] = "blocked"
<1>1. ASSUME NEW e \in Events, NEW u \in OSEvent[e].Tbl
      PROVE  u \in Tasks /\ OSTCB[u].EventPtr = e
  BY <1>1 DEF KernelInv, KernelType, EventBlocks, KernelOK
<1>2. \A u \in Tasks : u \in Callers \/ u = "tcpip" \/ u = "sel"
  BY TasksAssumption
<1>3. {"mbox", "recvmbox", "sel", "none"} \cap Callers = {}
  BY TasksAssumption
<1> QED
  BY <1>1, <1>2, <1>3, Names DEF PtrInv

(* The times are natural numbers.                                          *)
LEMMA TimesNat ==
  /\ MaxWaited \in Nat
  /\ \A ticks \in Nat : Spent(ticks) \in Nat
  /\ \A ms \in Nat : Ticks(ms) \in Nat
<1>1. MsPerTick \in Nat \ {0} /\ ArpMs \in Nat /\ DhcpsMs \in Nat
  BY TimesAssumption
<1>2. \A ms \in Nat : ms \div MsPerTick \in Nat
  BY <1>1
<1>3. MaxWaited \in Nat
  BY <1>1, <1>2 DEF MaxWaited
<1>4. \A ticks \in Nat : ticks * MsPerTick + 1 \in Nat
  BY <1>1
<1> QED
  BY <1>2, <1>3, <1>4 DEF Spent, Huge, Ticks

(* Initially.                                                              *)
LEMMA InitInv == Init => Inv
<1> SUFFICES ASSUME Init PROVE Inv
  OBVIOUS
<1> USE DEF Init
<1>1. KernelInv
  <2>1. KernelType
    BY Names DEF KernelType, TCBs, EventBlocks, IdleTCB, NewEvent
  <2>2. (\A t \in Tasks : OSTCB[t].EventPtr = "none" /\ OSTCB[t].StatPend = "OK" /\ OSTCB[t].Dly = 0)
        /\ \A e \in Events : OSEvent[e].Tbl = {} /\ OSEvent[e].Q = <<>> /\ OSEvent[e].Cnt = 0
    BY DEF IdleTCB, NewEvent
  <2>3. \A q \in Queues : Len(OSEvent[q].Q) <= QSize[q]
    <3>1. \A q \in Queues : Len(OSEvent[q].Q) = 0 /\ QSize[q] \in Nat
      BY <2>2, Names, QSizeAssumption, EmptySeq
    <3> QED
      BY <3>1
  <2>4. KernelOK
    BY <2>1, <2>2, <2>3 DEF KernelOK, KernelType
  <2> QED
    BY <2>1, <2>2, <2>4, Names DEF KernelInv, NobodyWaitsInVain, HandedOver, KindsApart
<1>2. PtrInv
  BY Names DEF PtrInv, IdleTCB
<1>3. MaxWaited \in Nat
  BY TimesNat
<1>4. ThreadType /\ CallType
  BY <1>3, TimesAssumption DEF ThreadType, CallType
<1>5. TimerInv
  <2> DEFINE a == [h |-> "arp", time |-> ArpMs]
  <2>1. a \in Timers /\ a.h = "arp"
    BY TimesAssumption DEF Timers
  <2> HIDE DEF a
  <2>2. <<a>> \in Seq(Timers) /\ Len(<<a>>) = 1 /\ <<a>>[1] = a
    BY <2>1
  <2>3. next_timeout = <<a>>
    BY DEF a
  <2> QED
    <3>1. OneArp(next_timeout) /\ HasArp(next_timeout)
      BY <2>1, <2>2, <2>3 DEF OneArp, HasArp
    <3>2. Enable \in BOOLEAN
      OBVIOUS
    <3>4. starts \in 0..MaxStarts
      BY TimesAssumption
    <3>3. ~InHandler /\ Len(next_timeout) + Held <= IF Enable THEN 3 ELSE 2
      BY <2>2, <2>3 DEF Held, InHandler
    <3>5. ListInv
      BY <3>1, <3>3 DEF ListInv, Returning
    <3> QED
      BY <2>2, <2>3, <3>2, <3>3, <3>4, <3>5 DEF TimerInv
<1>6. MsgInv
  <2>1. InHand = <<>> /\ OSEvent["mbox"].Q = <<>>
    BY Names DEF InHand, NewEvent
  <2>2. <<>> \o <<>> = <<>>
    BY EmptySeq, ConcatEmptySeq
  <2> QED
    BY <2>1, <2>2 DEF MsgInv, MessagesInOrder
<1>7. SelInv
  <2>1. Len(OSEvent["recvmbox"].Q) = 0
    BY Names, EmptySeq DEF NewEvent
  <2>2. select_waiting \in BOOLEAN /\ sem_signalled \in BOOLEAN
    OBVIOUS
  <2>3. Len(OSEvent["recvmbox"].Q) + Unminused = rcvevent + Uncounted
    BY <2>1 DEF Unminused, Uncounted
  <2> QED
    BY <2>2, <2>3 DEF SelInv
<1> QED
  BY <1>1, <1>2, <1>4, <1>5, <1>6, <1>7 DEF Inv

-----------------------------------------------------------------------------
(* The calls of the kernel, with what they change.                         *)
LEMMA QPostKeeps ==
  ASSUME KernelInv, NEW q \in Queues, NEW m \in Msgs, OSQPost(q, m)
  PROVE  /\ KernelInv'
         /\ \/ \E t \in OSEvent[q].Tbl : Handed(t, q, m) /\ OSEvent[q].Q = <<>>
            \/ /\ Refilled(q) /\ OSEvent[q].Tbl = {}
               /\ OSEvent'[q].Q = Append(OSEvent[q].Q, m)
<1>0. q \in Events /\ OSEvent[q] \in EventBlocks
  BY Names DEF KernelInv, KernelType
<1>1. CASE OSEvent[q].Tbl # {} /\ OS_EventTaskRdy(q, m)
  <2>1. OSEvent[q].Q = <<>>
    BY <1>0, <1>1 DEF KernelInv, NobodyWaitsInVain
  <2> QED
    BY <1>0, <1>1, <2>1, TaskRdyKeeps
<1>2. CASE /\ OSEvent[q].Tbl = {} /\ Len(OSEvent[q].Q) < QSize[q]
           /\ OSEvent' = [OSEvent EXCEPT ![q].Q = Append(@, m)]
           /\ UNCHANGED <<OSRdyTbl, OSTCB>>
  <2>1. /\ OSEvent[q].Q \in Seq(Msgs) /\ Append(OSEvent[q].Q, m) \in Seq(Msgs)
        /\ Len(Append(OSEvent[q].Q, m)) = Len(OSEvent[q].Q) + 1 /\ Len(OSEvent[q].Q) \in Nat
    BY <1>0, AppendProperties, LenProperties DEF EventBlocks
  <2>2. /\ OSEvent'[q] = [OSEvent[q] EXCEPT !.Q = Append(OSEvent[q].Q, m)]
        /\ \A f \in Events \ {q} : OSEvent'[f] = OSEvent[f]
    BY <1>0, <1>2 DEF KernelInv, KernelType
  <2>3. /\ OSEvent'[q].Tbl = OSEvent[q].Tbl /\ OSEvent'[q].Cnt = OSEvent[q].Cnt
        /\ OSEvent'[q].Q = Append(OSEvent[q].Q, m) /\ OSEvent'[q] \in EventBlocks
    BY <1>0, <2>1, <2>2 DEF EventBlocks
  <2>4. OSEvent' \in [Events -> EventBlocks]
    BY <1>0, <1>2, <2>2, <2>3 DEF KernelInv, KernelType
  <2>5. Refilled(q)
    BY <1>2, <2>2, <2>3 DEF Refilled
  <2>6. q \notin Sems /\ OSEvent'[q].Cnt = 0
    BY <2>3, Names DEF KernelInv, KindsApart
  <2>7. Len(OSEvent'[q].Q) <= QSize[q]
    <3>1. QSize[q] \in Nat
      BY QSizeAssumption
    <3> QED
      BY <1>2, <2>1, <2>3, <3>1
  <2>8. KernelInv'
    BY <1>0, <1>2, <2>3, <2>4, <2>5, <2>6, <2>7, RefillKeeps
  <2> QED
    BY <1>2, <2>3, <2>5, <2>8
<1> QED
  BY <1>1, <1>2 DEF OSQPost

LEMMA QTakeKeeps ==
  ASSUME KernelInv, NEW q \in Queues, OSQTake(q)
  PROVE  /\ KernelInv' /\ Refilled(q) /\ OSEvent[q].Q \in Seq(Msgs) /\ OSEvent[q].Q # <<>>
         /\ OSEvent'[q].Q = Tail(OSEvent[q].Q)
<1>0. q \in Events /\ OSEvent[q] \in EventBlocks /\ OSEvent[q].Q # <<>>
  BY Names DEF KernelInv, KernelType, OSQTake
<1>1. /\ OSEvent[q].Q \in Seq(Msgs) /\ Tail(OSEvent[q].Q) \in Seq(Msgs)
      /\ Len(Tail(OSEvent[q].Q)) = Len(OSEvent[q].Q) - 1 /\ Len(OSEvent[q].Q) \in Nat
  BY <1>0, HeadTailProperties, LenProperties DEF EventBlocks
<1>2. /\ OSEvent'[q] = [OSEvent[q] EXCEPT !.Q = Tail(OSEvent[q].Q)]
      /\ \A f \in Events \ {q} : OSEvent'[f] = OSEvent[f]
  BY <1>0 DEF KernelInv, KernelType, OSQTake
<1>3. /\ OSEvent'[q].Tbl = OSEvent[q].Tbl /\ OSEvent'[q].Cnt = OSEvent[q].Cnt
      /\ OSEvent'[q].Q = Tail(OSEvent[q].Q) /\ OSEvent'[q] \in EventBlocks
  BY <1>0, <1>1, <1>2 DEF EventBlocks
<1>4. OSEvent' \in [Events -> EventBlocks]
  BY <1>0, <1>2, <1>3 DEF KernelInv, KernelType, OSQTake
<1>5. Refilled(q)
  BY <1>2, <1>3 DEF Refilled, OSQTake
<1>6. q \notin Sems /\ OSEvent'[q].Cnt = 0 /\ OSEvent'[q].Tbl = {}
  BY <1>0, <1>3, Names DEF KernelInv, KindsApart, NobodyWaitsInVain
<1>7. Len(OSEvent'[q].Q) <= QSize[q]
  <2>1. QSize[q] \in Nat /\ Len(OSEvent[q].Q) <= QSize[q]
    BY QSizeAssumption DEF KernelInv, KernelOK
  <2> QED
    BY <1>1, <1>3, <2>1
<1> QED
  BY <1>0, <1>1, <1>3, <1>4, <1>5, <1>6, <1>7, RefillKeeps

(* A semaphore's count is set to n.                                        *)
LEMMA CountKeeps ==
  ASSUME KernelInv, NEW s \in Sems, NEW n \in Nat, OSEvent[s].Tbl # {} => n = 0,
         OSEvent' = [OSEvent EXCEPT ![s] = [Tbl |-> OSEvent[s].Tbl, Q |-> <<>>, Cnt |-> n]],
         UNCHANGED <<OSRdyTbl, OSTCB>>
  PROVE  KernelInv' /\ Refilled(s) /\ OSEvent'[s].Cnt = n
<1>0. s \in Events /\ OSEvent[s] \in EventBlocks /\ s \notin Queues
  BY Names DEF KernelInv, KernelType
<1>1. /\ OSEvent'[s] = [Tbl |-> OSEvent[s].Tbl, Q |-> <<>>, Cnt |-> n]
      /\ \A f \in Events \ {s} : OSEvent'[f] = OSEvent[f]
  BY <1>0 DEF KernelInv, KernelType
<1>2. /\ OSEvent'[s].Tbl = OSEvent[s].Tbl /\ OSEvent'[s].Cnt = n /\ OSEvent'[s].Q = <<>>
      /\ OSEvent'[s] \in EventBlocks
  BY <1>0, <1>1, EmptySeq DEF EventBlocks
<1>3. OSEvent' \in [Events -> EventBlocks]
  BY <1>0, <1>1, <1>2 DEF KernelInv, KernelType
<1>4. Refilled(s)
  BY <1>1, <1>2 DEF Refilled
<1> QED
  BY <1>0, <1>2, <1>3, <1>4, RefillKeeps

LEMMA SemPostKeeps ==
  ASSUME KernelInv, NEW s \in Sems, OSSemPost(s)
  PROVE  /\ KernelInv'
         /\ \/ \E t \in OSEvent[s].Tbl : Handed(t, s, NoMsg)
            \/ Refilled(s) /\ OSEvent[s].Tbl = {} /\ OSEvent'[s].Cnt > 0
<1>0. s \in Events /\ OSEvent[s] \in EventBlocks /\ OSEvent[s].Q = <<>>
  BY Names DEF KernelInv, KernelType, KindsApart
<1>1. CASE OSEvent[s].Tbl # {} /\ OS_EventTaskRdy(s, NoMsg)
  BY <1>0, <1>1, TaskRdyKeeps
<1>2. CASE /\ OSEvent[s].Tbl = {} /\ OSEvent' = [OSEvent EXCEPT ![s].Cnt = @ + 1]
           /\ UNCHANGED <<OSRdyTbl, OSTCB>>
  <2>1. OSEvent[s].Cnt \in Nat /\ OSEvent[s].Cnt + 1 \in Nat
    BY <1>0 DEF EventBlocks
  <2>2. [OSEvent[s] EXCEPT !.Cnt = OSEvent[s].Cnt + 1]
          = [Tbl |-> OSEvent[s].Tbl, Q |-> <<>>, Cnt |-> OSEvent[s].Cnt + 1]
    BY <1>0 DEF EventBlocks
  <2>3. OSEvent' = [OSEvent EXCEPT ![s] = [Tbl |-> OSEvent[s].Tbl, Q |-> <<>>,
                                           Cnt |-> OSEvent[s].Cnt + 1]]
    BY <1>0, <1>2, <2>2 DEF KernelInv, KernelType
  <2>4. KernelInv' /\ Refilled(s) /\ OSEvent'[s].Cnt = OSEvent[s].Cnt + 1
    BY <1>2, <2>1, <2>3, CountKeeps
  <2> QED
    BY <1>2, <2>1, <2>4
<1> QED
  BY <1>1, <1>2 DEF OSSemPost

LEMMA SemTakeKeeps ==
  ASSUME KernelInv, NEW s \in Sems, OSSemTake(s)
  PROVE  KernelInv' /\ Refilled(s)
<1>0. s \in Events /\ OSEvent[s] \in EventBlocks /\ OSEvent[s].Q = <<>>
  BY Names DEF KernelInv, KernelType, KindsApart
<1>1. OSEvent[s].Cnt \in Nat /\ OSEvent[s].Cnt - 1 \in Nat /\ OSEvent[s].Tbl = {}
  BY <1>0 DEF EventBlocks, OSSemTake, KernelInv, NobodyWaitsInVain
<1>2. [OSEvent[s] EXCEPT !.Cnt = OSEvent[s].Cnt - 1]
        = [Tbl |-> OSEvent[s].Tbl, Q |-> <<>>, Cnt |-> OSEvent[s].Cnt - 1]
  BY <1>0 DEF EventBlocks
<1>3. OSEvent' = [OSEvent EXCEPT ![s] = [Tbl |-> OSEvent[s].Tbl, Q |-> <<>>,
                                         Cnt |-> OSEvent[s].Cnt - 1]]
  BY <1>0, <1>2 DEF KernelInv, KernelType, OSSemTake
<1> QED
  BY <1>1, <1>3, CountKeeps DEF OSSemTake

LEMMA SemClearKeeps ==
  ASSUME KernelInv, NEW s \in Sems, OSSemClear(s)
  PROVE  KernelInv' /\ Refilled(s)
<1>1. OSEvent' = [OSEvent EXCEPT ![s] = [Tbl |-> OSEvent[s].Tbl, Q |-> <<>>, Cnt |-> 0]]
  BY DEF OSSemClear, NewEvent
<1> QED
  BY <1>1, CountKeeps DEF OSSemClear

-----------------------------------------------------------------------------
(* What no step of a task disturbs that it does not touch.                 *)
LEMMA Still ==
  ASSUME KernelInv, UNCHANGED osVars
  PROVE  KernelInv'
BY DEF osVars, KernelInv, KernelType, KernelOK, NobodyWaitsInVain, HandedOver, KindsApart,
       Events, EventBlocks, TCBs

(* The timers, when the list and the handler in hand are left alone.       *)
LEMMA TimerFrame ==
  ASSUME TimerInv, UNCHANGED <<next_timeout, torn, Enable, starts, fired>>,
         tpc' \in {"fire", "insert", "link"} <=> tpc \in {"fire", "insert", "link"}
  PROVE  TimerInv'
BY DEF TimerInv, ListInv, Held, InHandler, Returning, OneArp, HasArp, HasDhcps

(* A torn list stays torn, and a new tear is one.                          *)
LEMMA TornKeeps ==
  ASSUME torn' = TRUE, next_timeout' = <<>>, Enable' \in BOOLEAN, starts' \in 0..MaxStarts,
         InHandler' => fired' \in {"arp", "dhcps"}
  PROVE  TimerInv'
<1>1. next_timeout' \in Seq(Timers)
  BY EmptySeq
<1> QED
  BY <1>1 DEF TimerInv

(* The messages, when neither mailbox nor thread has a new one.            *)
LEMMA MsgFrame ==
  ASSUME MsgInv, UNCHANGED <<tpc, msg, owed>>, OSTCB'["tcpip"].Msg = OSTCB["tcpip"].Msg,
         OSEvent'["mbox"].Q = OSEvent["mbox"].Q, OSEvent'["mbox"].Tbl = OSEvent["mbox"].Tbl
  PROVE  MsgInv'
BY DEF MsgInv, MessagesInOrder, InHand

(* The task in lwip_select, when it stays where it is and is not stopped.  *)
LEMMA SelFrame ==
  ASSUME SelInv, UNCHANGED <<spc, sem_signalled, select_waiting, rcvevent>>,
         tpc' = "event" <=> tpc = "event",
         OSEvent'["recvmbox"].Q = OSEvent["recvmbox"].Q,
         OSEvent'["sel"].Cnt = OSEvent["sel"].Cnt,
         "sel" \in OSRdyTbl => "sel" \in OSRdyTbl'
  PROVE  SelInv'
<1>1. Unminused' = Unminused /\ Uncounted' = Uncounted
  BY DEF Unminused, Uncounted
<1> QED
  BY <1>1 DEF SelInv

(* Sequences of messages.                                                  *)
LEMMA HeadThenTail ==
  ASSUME NEW S, NEW q \in Seq(S), q # <<>>
  PROVE  <<Head(q)>> \o Tail(q) = q
<1>1. Len(q) \in Nat \ {0} /\ q[1] = Head(q)
  BY EmptySeq
<1>2. q = SubSeq(q, 1, Len(q)) /\ Tail(q) = SubSeq(q, 2, Len(q))
  BY SubSeqFull, TailIsSubSeq
<1>3. SubSeq(q, 1, Len(q)) = <<q[1]>> \o SubSeq(q, 1 + 1, Len(q))
  BY <1>1, SubSeqRecursiveFirst
<1> QED
  BY <1>1, <1>2, <1>3

LEMMA TailOfOne ==
  ASSUME NEW S, NEW q \in Seq(S), NEW m \in S
  PROVE  Tail(<<m>> \o q) = q
<1> DEFINE s == <<m>> \o q
<1>1. <<m>> \in Seq(S) /\ Len(<<m>>) = 1 /\ Len(q) \in Nat
  BY LenProperties
<1>2. /\ s \in Seq(S) /\ Len(s) = 1 + Len(q)
      /\ \A i \in 1 .. 1 + Len(q) : s[i] = IF i <= 1 THEN <<m>>[i] ELSE q[i - 1]
  BY <1>1, ConcatProperties
<1> HIDE DEF s
<1>3. s # <<>>
  BY <1>1, <1>2, EmptySeq
<1>4. /\ Tail(s) \in Seq(S) /\ Len(Tail(s)) = Len(s) - 1
      /\ \A i \in 1 .. Len(Tail(s)) : Tail(s)[i] = s[i + 1]
  BY <1>2, <1>3, HeadTailProperties
<1>5. ASSUME NEW i \in 1 .. Len(Tail(s)) PROVE Tail(s)[i] = q[i]
  <2>1. i + 1 \in 1 .. 1 + Len(q) /\ ~(i + 1 <= 1) /\ (i + 1) - 1 = i
    BY <1>1, <1>2, <1>4
  <2> QED
    BY <1>2, <1>4, <2>1
<1>6. Len(Tail(s)) = Len(q)
  BY <1>1, <1>2, <1>4
<1>7. Tail(s) = q
  BY <1>4, <1>5, <1>6, SeqEqual
<1> QED
  BY <1>7 DEF s

LEMMA AppendThrough ==
  \A s, q \in Seq(Msgs \cup {NoMsg}) : \A m \in Msgs \cup {NoMsg} :
    Append(s \o q, m) = s \o Append(q, m)
<1> DEFINE S == Msgs \cup {NoMsg}
<1> HIDE DEF S
<1> SUFFICES ASSUME NEW s \in Seq(S), NEW q \in Seq(S), NEW m \in S
             PROVE  Append(s \o q, m) = s \o Append(q, m)
  BY DEF S
<1>1. s \o q \in Seq(S) /\ <<m>> \in Seq(S)
  BY ConcatProperties
<1>2. Append(s \o q, m) = (s \o q) \o <<m>> /\ Append(q, m) = q \o <<m>>
  BY <1>1, AppendIsConcat
<1> QED
  BY <1>1, <1>2, ConcatAssociative

(* The mailbox holds messages, and what is in hand is one more at most.    *)
LEMMA InHandSeq ==
  ASSUME KernelInv, ThreadType
  PROVE  /\ OSEvent["mbox"].Q \in Seq(Msgs) /\ OSEvent["mbox"].Q \in Seq(Msgs \cup {NoMsg})
         /\ OSTCB["tcpip"].Msg \in Msgs \cup {NoMsg} /\ InHand \in Seq(Msgs \cup {NoMsg})
<1>1. OSEvent["mbox"].Q \in Seq(Msgs)
  BY Names DEF KernelInv, KernelType, EventBlocks
<1>2. OSEvent["mbox"].Q \in Seq(Msgs \cup {NoMsg})
  BY <1>1, SeqMonotonic
<1>3. OSTCB["tcpip"].Msg \in Msgs \cup {NoMsg}
  BY Names DEF KernelInv, KernelType, TCBs
<1>4. InHand \in Seq(Msgs \cup {NoMsg})
  <2>1. \A m \in Msgs \cup {NoMsg} : <<m>> \in Seq(Msgs \cup {NoMsg})
    OBVIOUS
  <2>2. <<>> \in Seq(Msgs \cup {NoMsg})
    OBVIOUS
  <2> QED
    BY <1>3, <2>1, <2>2 DEF InHand, ThreadType
<1> QED
  BY <1>1, <1>2, <1>3, <1>4

-----------------------------------------------------------------------------
(* The steps of tcpip_thread.                                              *)
Parts == KernelInv /\ PtrInv /\ ThreadType /\ CallType /\ TimerInv /\ MsgInv /\ SelInv

(* A step between two waits that leaves the kernel, the callers and the    *)
(* messages alone.                                                         *)
LEMMA ThreadMoves ==
  ASSUME Inv, UNCHANGED <<osVars, msg, callVars, selVars, rcvevent, countVars>>,
         {tpc, tpc'} \cap {"blocked", "event"} = {},
         tpc' \in {"adjust", "handle"} <=> tpc \in {"adjust", "handle"},
         ThreadType', TimerInv'
  PROVE  Inv'
<1>0. Parts
  BY DEF Inv, Parts
<1>1. KernelInv'
  BY <1>0, Still DEF Parts
<1>2. PtrInv'
  BY <1>0 DEF Parts, PtrInv, osVars, callVars, selVars
<1>3. CallType'
  BY <1>0 DEF Parts, CallType, callVars, countVars
<1>4. MsgInv'
  <2>1. InHand' = InHand
    BY DEF InHand
  <2> QED
    BY <1>0, <2>1 DEF Parts, MsgInv, MessagesInOrder, osVars, countVars
<1>5. SelInv'
  BY <1>0, SelFrame DEF Parts, selVars, osVars
<1> QED
  BY <1>1, <1>2, <1>3, <1>4, <1>5 DEF Inv

LEMMA FetchKeeps == ASSUME Inv, TcpipFetch PROVE Inv'
<1>0. Parts /\ tpc = "fetch" /\ tpc' \in {"pend", "expire"} /\ waited' = 0
      /\ UNCHANGED <<osVars, msg, fired, timerVars, callVars, selVars, rcvevent, countVars>>
  BY DEF Inv, Parts, TcpipFetch, Pends, Expires
<1>1. ThreadType'
  <2>1. next_timeout # <<>> => next_timeout[1].time \in Nat
    <3> SUFFICES ASSUME next_timeout # <<>> PROVE next_timeout[1].time \in Nat
      OBVIOUS
    <3>1. Len(next_timeout) \in Nat \ {0} /\ next_timeout \in Seq(Timers)
      BY <1>0, EmptySeq DEF Parts, TimerInv
    <3>2. next_timeout[1] \in Timers
      BY <3>1, ElementOfSeq
    <3> QED
      BY <3>2 DEF Timers
  <2>2. limit' \in {0, 1} \/ (next_timeout # <<>> /\ limit' = Ticks(next_timeout[1].time))
    BY DEF TcpipFetch, Pends, Expires
  <2>3. \A n \in Nat : Ticks(n) \in Nat
    BY TimesNat
  <2>4. next_timeout # <<>> => Ticks(next_timeout[1].time) \in Nat
    BY <2>1, <2>3
  <2>5. limit' \in Nat
    BY <2>2, <2>4
  <2> QED
    BY <1>0, <2>5, TimesNat DEF Parts, ThreadType
<1>2. TimerInv'
  BY <1>0, TimerFrame DEF Parts, timerVars
<1> QED
  BY <1>0, <1>1, <1>2, ThreadMoves

LEMMA PendKeeps == ASSUME Inv, TcpipPend PROVE Inv'
<1>0. Parts /\ tpc = "pend"
      /\ UNCHANGED <<limit, waited, fired, timerVars, callVars, selVars, rcvevent, current, packets,
                     calls, owed>>
  BY DEF Inv, Parts, TcpipPend, countVars
<1>1. CallType'
  BY <1>0 DEF Parts, CallType, callVars
<1>2. tpc' \in {"adjust", "handle", "blocked"}
  BY DEF TcpipPend, Fetched
<1>3. TimerInv'
  BY <1>0, <1>2, TimerFrame DEF Parts, timerVars
<1>4. "mbox" \in Queues /\ "mbox" \in Events /\ "tcpip" \in Tasks
  BY Names, TasksAssumption
<1>5. /\ OSEvent["mbox"].Q \in Seq(Msgs) /\ OSEvent["mbox"].Q \in Seq(Msgs \cup {NoMsg})
      /\ owed = <<>> \o OSEvent["mbox"].Q
  BY <1>0, InHandSeq DEF Parts, MsgInv, MessagesInOrder, InHand
<1>6. owed = OSEvent["mbox"].Q
  BY <1>5, ConcatEmptySeq
<1>7. CASE OSQTake("mbox") /\ Fetched(Head(OSEvent["mbox"].Q))
  <2>0. tpc' \in {"adjust", "handle"} /\ msg' = Head(OSEvent["mbox"].Q)
    BY <1>7 DEF Fetched
  <2>1. /\ KernelInv' /\ Refilled("mbox") /\ OSEvent["mbox"].Q # <<>>
        /\ OSEvent'["mbox"].Q = Tail(OSEvent["mbox"].Q)
    BY <1>0, <1>4, <1>7, QTakeKeeps DEF Parts
  <2>2. PtrInv'
    BY <1>0, <2>0, <2>1 DEF Parts, PtrInv, Refilled, callVars, selVars
  <2>3. ThreadType'
    BY <1>0, <1>5, <2>0, <2>1, HeadTailProperties DEF Parts, ThreadType
  <2>4. MsgInv'
    <3>1. owed' = <<msg'>> \o OSEvent'["mbox"].Q
      BY <1>0, <1>5, <1>6, <2>0, <2>1, HeadThenTail
    <3> QED
      BY <2>0, <3>1 DEF MsgInv, MessagesInOrder, InHand
  <2>5. SelInv'
    BY <1>0, <2>0, <2>1, SelFrame, Names DEF Parts, Refilled, selVars
  <2> QED
    BY <1>1, <1>3, <2>1, <2>2, <2>3, <2>4, <2>5 DEF Inv
<1>8. CASE OSQPend("tcpip", "mbox", limit) /\ tpc' = "blocked" /\ UNCHANGED msg
  <2>1. OSEvent["mbox"].Q = <<>> /\ OS_EventTaskWait("tcpip", "mbox", limit)
    BY <1>8 DEF OSQPend
  <2>2. OSEvent["mbox"].Cnt = 0 /\ OSTCB["tcpip"].EventPtr = "none" /\ limit \in Nat
    BY <1>0, <1>4 DEF Parts, KernelInv, KindsApart, PtrInv, ThreadType
  <2>3. KernelInv' /\ Waits("tcpip", "mbox", limit)
    BY <1>0, <1>4, <2>1, <2>2, TaskWaitKeeps DEF Parts
  <2>4. PtrInv'
    BY <1>0, <1>8, <2>3, Names DEF Parts, PtrInv, Waits, callVars, selVars
  <2>5. ThreadType'
    BY <1>0, <1>8 DEF Parts, ThreadType
  <2>6. MsgInv'
    <3>1. OSTCB'["tcpip"].Msg = NoMsg /\ "tcpip" \in OSEvent'["mbox"].Tbl
          /\ OSEvent'["mbox"].Q = OSEvent["mbox"].Q
      BY <2>3 DEF Waits
    <3>2. InHand' = <<>> /\ InHand = <<>>
      BY <1>0, <1>8, <3>1 DEF InHand
    <3> QED
      BY <1>0, <1>5, <1>8, <3>1, <3>2 DEF MsgInv, MessagesInOrder
  <2>7. SelInv'
    BY <1>0, <1>8, <2>3, SelFrame, Names DEF Parts, Waits, selVars
  <2> QED
    BY <1>1, <1>3, <2>3, <2>4, <2>5, <2>6, <2>7 DEF Inv
<1> QED
  BY <1>7, <1>8 DEF TcpipPend

LEMMA ResumeKeeps == ASSUME Inv, TcpipResume PROVE Inv'
<1>0. Parts /\ tpc = "blocked" /\ "tcpip" \in OSRdyTbl /\ PendReturns("tcpip", "mbox")
      /\ tpc' \in {"unlink", "adjust", "handle"}
      /\ UNCHANGED <<fired, timerVars, callVars, selVars, rcvevent, current, packets, calls, owed>>
  BY DEF Inv, Parts, TcpipResume, Fetched, Runs, countVars
<1>1. KernelInv' /\ Returns("tcpip", "mbox")
  BY <1>0, ReturnKeeps, Names DEF Parts
<1>2. PtrInv'
  BY <1>0, <1>1, Names DEF Parts, PtrInv, Returns, IdleTCB, callVars, selVars
<1>3. ThreadType'
  <2>1. msg' \in Msgs \cup {NoMsg}
    BY <1>0, InHandSeq DEF Parts, ThreadType, TcpipResume, Fetched
  <2>2. limit' \in Nat /\ waited' \in 0..MaxWaited
    BY <1>0, TimesNat DEF Parts, ThreadType, TcpipResume
  <2> QED
    BY <1>0, <2>1, <2>2 DEF ThreadType
<1>4. CallType'
  BY <1>0 DEF Parts, CallType, callVars
<1>5. TimerInv'
  BY <1>0, TimerFrame DEF Parts, timerVars
<1>6. MsgInv'
  <2>1. OSEvent'["mbox"].Q = OSEvent["mbox"].Q
    BY <1>1 DEF Returns
  <2>2. "tcpip" \in OSEvent["mbox"].Tbl <=> OSTCB["tcpip"].StatPend = "TO"
    BY <1>0, Names DEF Parts, KernelInv, KernelOK, HandedOver, PtrInv
  <2>3. InHand' = InHand
    BY <1>0, <2>2 DEF Parts, MsgInv, InHand, TcpipResume, Fetched
  <2> QED
    BY <1>0, <2>1, <2>3 DEF Parts, MsgInv, MessagesInOrder
<1>7. SelInv'
  BY <1>0, <1>1, SelFrame, Names DEF Parts, Returns, selVars
<1> QED
  BY <1>1, <1>2, <1>3, <1>4, <1>5, <1>6, <1>7 DEF Inv

(* The thread's own write to a list that is torn.                          *)
LEMMA WritesTorn ==
  ASSUME TimerInv, NEW l, Writes(l), torn, UNCHANGED <<Enable, starts>>,
         InHandler' => fired' \in {"arp", "dhcps"}
  PROVE  TimerInv'
<1>1. torn' = TRUE /\ next_timeout' = <<>>
  BY DEF Writes, TimerInv
<1>2. Enable' \in BOOLEAN /\ starts' \in 0..MaxStarts
  BY DEF TimerInv
<1> QED
  BY <1>1, <1>2, TornKeeps

(* The list keeps its handlers when its first timer is brought forward.    *)
LEMMA AdjustKeeps == ASSUME Inv, TcpipAdjust PROVE Inv'
<1> DEFINE l == next_timeout
           n == IF Spent(waited) < l[1].time THEN l[1].time - Spent(waited) ELSE 0
           s == [l EXCEPT ![1].time = IF Spent(waited) < @ THEN @ - Spent(waited) ELSE 0]
<1>0. Parts /\ tpc = "adjust" /\ tpc' = "handle" /\ waited' = 0 /\ limit' = 0 /\ Writes(s)
      /\ UNCHANGED <<osVars, msg, fired, Enable, starts, callVars, selVars, rcvevent, countVars>>
  BY DEF Inv, Parts, TcpipAdjust
<1> HIDE DEF s
<1>1. ThreadType'
  BY <1>0, TimesNat DEF Parts, ThreadType
<1>2. ~InHandler /\ ~InHandler'
  BY <1>0 DEF InHandler
<1>3. ASSUME torn PROVE TimerInv'
  BY <1>0, <1>2, <1>3, WritesTorn DEF Parts
<1>4. ASSUME ~torn PROVE TimerInv'
  <2>1. l \in Seq(Timers) /\ HasArp(l) /\ ListInv
    BY <1>0, <1>2, <1>4 DEF Parts, TimerInv, ListInv, Returning
  <2>2. l # <<>> /\ Len(l) \in Nat \ {0} /\ 1 \in 1..Len(l)
    BY <2>1, EmptySeq DEF HasArp
  <2>3. l[1].time \in Nat
    <3>1. l[1] \in Timers
      BY <2>1, <2>2, ElementOfSeq
    <3> QED
      BY <3>1 DEF Timers
  <2>4. n \in Nat
    BY <1>0, <2>3, TimesNat DEF Parts, ThreadType
  <2>5. l' = [l EXCEPT ![1].time = n] /\ torn' = torn
    BY <1>0, <1>4, <2>1, <2>2 DEF Writes, s
  <2> HIDE DEF n
  <2>6. l' \in Seq(Timers) /\ Len(l') = Len(l) /\ \A k \in 1..Len(l) : l'[k].h = l[k].h
    BY <2>1, <2>2, <2>4, <2>5, FirstChanged
  <2>7. OneArp(l') /\ HasArp(l') /\ (HasDhcps(l) => HasDhcps(l'))
    BY <2>1, <2>6 DEF ListInv, OneArp, HasArp, HasDhcps
  <2>8. ListInv'
    BY <1>0, <1>2, <2>1, <2>6, <2>7 DEF ListInv, Held, Returning
  <2> QED
    BY <1>0, <1>2, <1>4, <2>5, <2>6, <2>8 DEF Parts, TimerInv
<1> QED
  BY <1>0, <1>1, <1>3, <1>4, ThreadMoves

LEMMA ExpireKeeps == ASSUME Inv, TcpipExpire PROVE Inv'
<1>0. Parts /\ tpc = "expire" /\ tpc' = "unlink"
      /\ UNCHANGED <<osVars, msg, limit, waited, fired, timerVars, callVars, selVars, rcvevent,
                     countVars>>
  BY DEF Inv, Parts, TcpipExpire
<1>1. ThreadType'
  BY <1>0 DEF Parts, ThreadType
<1>2. TimerInv'
  BY <1>0, TimerFrame DEF Parts, timerVars
<1> QED
  BY <1>0, <1>1, <1>2, ThreadMoves

(* Expiry never finds the list empty: the ARP timer is on it.              *)
LEMMA UnlinkKeeps == ASSUME Inv, TcpipUnlink PROVE Inv'
<1> DEFINE l == next_timeout
<1>0. Parts /\ tpc = "unlink" /\ tpc' = "fire" /\ Writes(Tail(l))
      /\ UNCHANGED <<osVars, msg, limit, waited, Enable, starts, callVars, selVars, rcvevent,
                     countVars>>
  BY DEF Inv, Parts, TcpipUnlink
<1>1. ThreadType'
  BY <1>0 DEF Parts, ThreadType
<1>2. ~InHandler /\ InHandler'
  BY <1>0 DEF InHandler
<1>3. ASSUME torn PROVE TimerInv'
  <2>1. fired' \in {"arp", "dhcps"}
    BY <1>3 DEF TcpipUnlink
  <2> QED
    BY <1>0, <1>3, <2>1, WritesTorn DEF Parts
<1>4. ASSUME ~torn PROVE TimerInv'
  <2>1. l \in Seq(Timers) /\ HasArp(l) /\ OneArp(l) /\ (Enable => HasDhcps(l))
        /\ Len(l) <= IF Enable THEN 3 ELSE 2
    <3>1. ListInv /\ l \in Seq(Timers) /\ Len(l) \in Nat /\ Enable \in BOOLEAN
      BY <1>0, <1>4, LenProperties DEF Parts, TimerInv
    <3> QED
      BY <1>2, <3>1 DEF ListInv, Held, Returning
  <2>2. l # <<>> /\ Len(l) \in Nat \ {0}
    BY <2>1, EmptySeq DEF HasArp
  <2>3. fired' = l[1].h /\ l' = Tail(l) /\ torn' = torn
    BY <1>0, <1>4 DEF TcpipUnlink, Writes
  <2>4. fired' \in {"arp", "dhcps"}
    <3>1. l[1] \in Timers
      BY <2>1, <2>2, ElementOfSeq
    <3> QED
      BY <2>3, <3>1 DEF Timers
  <2>5. l' \in Seq(Timers) /\ TakenOut(l', l, 1, fired')
    BY <2>1, <2>2, <2>3, TailTakesOut
  <2>6. OneArp(l') /\ (fired' = "arp" => ~HasArp(l')) /\ (fired' # "arp" => HasArp(l'))
    BY <2>1, <2>5, ArpTakenOut
  <2>7. Enable => HasDhcps(l') \/ fired' = "dhcps"
    BY <2>1, <2>5, DhcpsTakenOut
  <2>8. Len(l') + 1 <= IF Enable THEN 3 ELSE 2
    BY <2>1, <2>2, <2>5 DEF TakenOut
  <2>9. ListInv'
    BY <1>0, <1>2, <2>4, <2>6, <2>7, <2>8 DEF ListInv, Held, Returning
  <2> QED
    BY <1>0, <1>4, <2>3, <2>4, <2>5, <2>9 DEF Parts, TimerInv
<1> QED
  BY <1>0, <1>1, <1>3, <1>4, ThreadMoves

(* A handler whose server was stopped is not put back.                     *)
LEMMA FireKeeps == ASSUME Inv, TcpipFire PROVE Inv'
<1>0. Parts /\ tpc = "fire" /\ tpc' \in {"link", "insert", "fetch"}
      /\ UNCHANGED <<osVars, msg, limit, waited, timerVars, callVars, selVars, rcvevent,
                     countVars>>
  BY DEF Inv, Parts, TcpipFire
<1>1. ThreadType'
  BY <1>0 DEF Parts, ThreadType
<1>2. UNCHANGED <<next_timeout, torn, Enable, starts>>
  BY <1>0 DEF timerVars
<1>3. ASSUME tpc' \in {"link", "insert"} PROVE TimerInv'
  <2>1. fired' = fired
    BY <1>3 DEF TcpipFire
  <2> QED
    BY <1>0, <1>2, <1>3, <2>1, TimerFrame DEF Parts
<1>4. ASSUME tpc' = "fetch" PROVE TimerInv'
  <2>1. fired = "dhcps" /\ ~Enable /\ InHandler /\ ~InHandler'
    BY <1>0, <1>4 DEF TcpipFire, InHandler
  <2>2. ASSUME ~torn PROVE ListInv'
    <3>1. ListInv /\ Len(next_timeout) \in Nat
      BY <1>0, <2>2, LenProperties DEF Parts, TimerInv
    <3>2. OneArp(next_timeout) /\ HasArp(next_timeout) /\ Len(next_timeout) + 1 <= 2
      BY <2>1, <3>1 DEF ListInv, Held, Returning
    <3> QED
      BY <1>2, <2>1, <3>1, <3>2 DEF ListInv, Held, Returning
  <2> QED
    BY <1>0, <1>2, <2>1, <2>2 DEF Parts, TimerInv
<1> QED
  BY <1>0, <1>1, <1>3, <1>4, ThreadMoves

LEMMA InsertKeeps == ASSUME Inv, TcpipInsert PROVE Inv'
<1>0. Parts /\ tpc = "insert" /\ tpc' = "link"
      /\ UNCHANGED <<osVars, msg, limit, waited, fired, timerVars, callVars, selVars, rcvevent,
                     countVars>>
  BY DEF Inv, Parts, TcpipInsert
<1>1. ThreadType'
  BY <1>0 DEF Parts, ThreadType
<1>2. TimerInv'
  BY <1>0, TimerFrame DEF Parts, timerVars
<1> QED
  BY <1>0, <1>1, <1>2, ThreadMoves

(* A handler that starts itself again finds a free place on the list.      *)
LEMMA LinkKeeps == ASSUME Inv, TcpipLink PROVE Inv'
<1> DEFINE l == next_timeout
           ms == IF fired = "arp" THEN ArpMs ELSE DhcpsMs
<1>0. Parts /\ tpc = "link" /\ tpc' = "fetch" /\ Writes(sys_timeout(l, ms, fired))
      /\ UNCHANGED <<osVars, msg, limit, waited, Enable, starts, callVars, selVars, rcvevent,
                     countVars>>
  BY DEF Inv, Parts, TcpipLink
<1>1. ThreadType'
  BY <1>0 DEF Parts, ThreadType
<1>2. InHandler /\ ~InHandler'
  BY <1>0 DEF InHandler
<1>3. ASSUME torn PROVE TimerInv'
  BY <1>0, <1>2, <1>3, WritesTorn DEF Parts
<1>4. ASSUME ~torn PROVE TimerInv'
  <2>1. l \in Seq(Timers) /\ Len(l) \in Nat /\ Enable \in BOOLEAN /\ fired \in {"arp", "dhcps"}
        /\ ListInv
    BY <1>0, <1>2, <1>4, LenProperties DEF Parts, TimerInv
  <2>2. /\ OneArp(l) /\ (HasArp(l) <=> fired # "arp")
        /\ Enable => HasDhcps(l) \/ fired = "dhcps"
        /\ Len(l) + 1 <= IF Enable THEN 3 ELSE 2
    BY <1>2, <2>1 DEF ListInv, Held, Returning
  <2>3. Len(l) # NumTimeout /\ ms \in Nat
    BY <2>1, <2>2, TimesAssumption
  <2>4. l' = sys_timeout(l, ms, fired) /\ torn' = torn
    BY <1>0, <1>4 DEF Writes
  <2> HIDE DEF ms
  <2>5. PICK i \in 1 .. Len(l) + 1 : l' \in Seq(Timers) /\ PutIn(l', l, i, fired)
    BY <2>1, <2>3, <2>4, TimeoutPutsIn
  <2>6. OneArp(l') /\ HasArp(l')
    BY <2>1, <2>2, <2>5, ArpPutIn
  <2>7. Enable => HasDhcps(l')
    BY <2>1, <2>2, <2>5, DhcpsPutIn
  <2>8. Len(l') <= IF Enable THEN 3 ELSE 2
    BY <2>2, <2>5 DEF PutIn
  <2>9. Len(l') + 0 = Len(l')
    BY <2>5, LenProperties
  <2>10. ListInv'
    BY <1>0, <1>2, <2>6, <2>7, <2>8, <2>9 DEF ListInv, Held, Returning
  <2> QED
    BY <1>0, <1>2, <1>4, <2>4, <2>5, <2>10 DEF Parts, TimerInv
<1> QED
  BY <1>0, <1>1, <1>3, <1>4, ThreadMoves

(* What tcpip_thread has handled is no longer owed.                        *)
LEMMA HandledMsg ==
  ASSUME KernelInv, ThreadType, MsgInv, tpc = "handle"
  PROVE  Tail(owed) = OSEvent["mbox"].Q /\ <<>> \o OSEvent["mbox"].Q = OSEvent["mbox"].Q
<1>1. OSEvent["mbox"].Q \in Seq(Msgs \cup {NoMsg}) /\ msg \in Msgs \cup {NoMsg}
  BY InHandSeq DEF ThreadType
<1>2. owed = <<msg>> \o OSEvent["mbox"].Q
  BY DEF MsgInv, MessagesInOrder, InHand
<1>3. Tail(<<msg>> \o OSEvent["mbox"].Q) = OSEvent["mbox"].Q
  BY <1>1, TailOfOne
<1> QED
  BY <1>1, <1>2, <1>3, ConcatEmptySeq

(* What every post to a semaphore leaves alone.                            *)
LEMMA SemPostFrame ==
  ASSUME KernelInv, NEW s \in Sems, OSSemPost(s)
  PROVE  /\ KernelInv' /\ OSRdyTbl \subseteq OSRdyTbl'
         /\ \A t \in Tasks : OSTCB'[t].EventPtr = OSTCB[t].EventPtr
         /\ \A e \in Events : OSEvent'[e].Q = OSEvent[e].Q
         /\ \A e \in Events \ {s} : OSEvent'[e] = OSEvent[e]
<1>1. s \in Events /\ OSEvent[s].Tbl \subseteq Tasks
  BY Names DEF KernelInv, KernelType, EventBlocks
<1>2. KernelInv'
  BY SemPostKeeps
<1>3. OSEvent[s].Q = <<>> /\ OSEvent'[s].Q = <<>>
  BY <1>2 DEF KernelInv, KindsApart
<1>4. CASE \E t \in OSEvent[s].Tbl : Handed(t, s, NoMsg)
  BY <1>1, <1>2, <1>4 DEF Handed
<1>5. CASE Refilled(s)
  BY <1>1, <1>2, <1>3, <1>5 DEF Refilled
<1> QED
  BY <1>4, <1>5, SemPostKeeps

(* A message is handled, or a timer runs, and at most one call is          *)
(* acknowledged.                                                           *)
LEMMA AcknowledgeKeeps ==
  ASSUME Inv, (\E c \in Callers : OSSemPost(c)) \/ UNCHANGED osVars,
         \/ tpc = "handle" /\ owed' = Tail(owed)
         \/ tpc = "fetch" /\ UNCHANGED owed,
         tpc' = "fetch", msg' = NoMsg, current' \subseteq Callers,
         UNCHANGED <<limit, waited, fired, timerVars, callVars, selVars, rcvevent,
                     packets, calls>>
  PROVE  Inv'
<1>0. Parts
  BY DEF Inv, Parts
<1>1. \A c \in Callers : c \in Sems /\ {"mbox", "recvmbox", "sel"} \subseteq Events \ {c}
  BY Names, TasksAssumption
<1>2. /\ KernelInv' /\ OSRdyTbl \subseteq OSRdyTbl'
      /\ \A t \in Tasks : OSTCB'[t].EventPtr = OSTCB[t].EventPtr
      /\ \A e \in {"mbox", "recvmbox", "sel"} : OSEvent'[e] = OSEvent[e]
  <2>1. ASSUME NEW c \in Callers, OSSemPost(c)
        PROVE  /\ KernelInv' /\ OSRdyTbl \subseteq OSRdyTbl'
               /\ \A t \in Tasks : OSTCB'[t].EventPtr = OSTCB[t].EventPtr
               /\ \A e \in {"mbox", "recvmbox", "sel"} : OSEvent'[e] = OSEvent[e]
    BY <1>0, <1>1, <2>1, SemPostFrame DEF Parts
  <2>2. CASE UNCHANGED osVars
    BY <1>0, <2>2, Still DEF Parts, osVars
  <2> QED
    BY <2>1, <2>2
<1>3. PtrInv'
  BY <1>0, <1>2, Names DEF Parts, PtrInv, callVars, selVars
<1>4. ThreadType'
  BY <1>0 DEF Parts, ThreadType
<1>5. CallType'
  BY <1>0 DEF Parts, CallType, callVars
<1>6. TimerInv'
  BY <1>0, TimerFrame DEF Parts, timerVars
<1>7. MsgInv'
  <2>1. OSEvent'["mbox"] = OSEvent["mbox"]
    BY <1>2
  <2>2. CASE tpc = "handle" /\ owed' = Tail(owed)
    <3>1. owed' = <<>> \o OSEvent'["mbox"].Q
      BY <1>0, <2>1, <2>2, HandledMsg DEF Parts
    <3> QED
      BY <3>1 DEF MsgInv, MessagesInOrder, InHand
  <2>3. CASE tpc = "fetch" /\ UNCHANGED owed
    BY <1>0, <2>1, <2>3 DEF Parts, MsgInv, MessagesInOrder, InHand
  <2> QED
    BY <2>2, <2>3
<1>8. SelInv'
  <2>1. tpc # "event" /\ tpc' # "event"
    OBVIOUS
  <2> QED
    BY <1>0, <1>2, <2>1, SelFrame DEF Parts, selVars
<1> QED
  BY <1>2, <1>3, <1>4, <1>5, <1>6, <1>7, <1>8 DEF Inv

(* A call is acknowledged, or kept until the peer answers.                 *)
LEMMA CallKeeps == ASSUME Inv, TcpipCall PROVE Inv'
<1>1. /\ tpc = "handle" /\ owed' = Tail(owed) /\ tpc' = "fetch" /\ msg' = NoMsg /\ msg \in Callers
      /\ UNCHANGED <<limit, waited, fired, timerVars, callVars, selVars, rcvevent, packets, calls>>
      /\ \/ OSSemPost(msg) /\ UNCHANGED current
         \/ current' = current \cup {msg} /\ UNCHANGED osVars
  BY DEF TcpipCall
<1>2. current' \subseteq Callers
  BY <1>1 DEF Inv, CallType
<1> QED
  BY <1>1, <1>2, AcknowledgeKeeps

LEMMA AnswerKeeps == ASSUME Inv, NEW c \in Callers, TcpipAnswer(c) PROVE Inv'
<1>1. /\ \/ tpc = "handle" /\ owed' = Tail(owed)
         \/ tpc = "fetch" /\ UNCHANGED owed
      /\ OSSemPost(c) /\ current' = current \ {c} /\ tpc' = "fetch" /\ msg' = NoMsg
      /\ UNCHANGED <<limit, waited, fired, timerVars, callVars, selVars, rcvevent, packets, calls>>
  BY DEF TcpipAnswer
<1>2. current' \subseteq Callers
  BY <1>1 DEF Inv, CallType
<1> QED
  BY <1>1, <1>2, AcknowledgeKeeps

LEMMA PacketKeeps == ASSUME Inv, TcpipPacket PROVE Inv'
<1>0. Parts /\ tpc = "handle" /\ tpc' \in {"event", "fetch"} /\ msg' = NoMsg
      /\ owed' = Tail(owed)
      /\ UNCHANGED <<limit, waited, fired, timerVars, callVars, selVars, rcvevent, current, packets, calls>>
  BY DEF Inv, Parts, TcpipPacket
<1>1. "recvmbox" \in Queues /\ Packet \in Msgs /\ {"mbox", "sel"} \subseteq Events \ {"recvmbox"}
  BY Names, TasksAssumption DEF Msgs
<1>2. \/ OSQPost("recvmbox", Packet) /\ tpc' = "event"
      \/ tpc' = "fetch" /\ UNCHANGED osVars
  BY DEF TcpipPacket
<1>3. /\ KernelInv' /\ OSTCB' = OSTCB /\ OSRdyTbl' = OSRdyTbl
      /\ \A e \in {"mbox", "sel"} : OSEvent'[e] = OSEvent[e]
      /\ IF tpc' = "event" THEN OSEvent'["recvmbox"].Q = Append(OSEvent["recvmbox"].Q, Packet)
         ELSE OSEvent'["recvmbox"].Q = OSEvent["recvmbox"].Q
  <2>1. CASE OSQPost("recvmbox", Packet) /\ tpc' = "event"
    <3>1. OSEvent["recvmbox"].Tbl = {}
      BY <1>0, Waiters DEF Parts
    <3>2. /\ KernelInv' /\ Refilled("recvmbox")
          /\ OSEvent'["recvmbox"].Q = Append(OSEvent["recvmbox"].Q, Packet)
      BY <1>0, <1>1, <2>1, <3>1, QPostKeeps DEF Parts
    <3> QED
      BY <1>1, <2>1, <3>2 DEF Refilled
  <2>2. CASE tpc' = "fetch" /\ UNCHANGED osVars
    BY <1>0, <2>2, Still DEF Parts, osVars
  <2> QED
    BY <1>2, <2>1, <2>2
<1>4. PtrInv'
  BY <1>0, <1>3 DEF Parts, PtrInv, callVars, selVars
<1>5. ThreadType'
  BY <1>0 DEF Parts, ThreadType
<1>6. CallType'
  BY <1>0 DEF Parts, CallType, callVars
<1>7. TimerInv'
  BY <1>0, TimerFrame DEF Parts, timerVars
<1>8. MsgInv'
  <2>1. OSEvent'["mbox"] = OSEvent["mbox"]
    BY <1>3
  <2>2. owed' = <<>> \o OSEvent'["mbox"].Q
    BY <1>0, <2>1, HandledMsg DEF Parts
  <2> QED
    BY <1>0, <2>2 DEF MsgInv, MessagesInOrder, InHand
<1>9. SelInv'
  <2>1. OSEvent["recvmbox"].Q \in Seq(Msgs)
    BY <1>0, Names DEF Parts, KernelInv, KernelType, EventBlocks
  <2>2. Len(OSEvent["recvmbox"].Q) \in Nat
        /\ Len(Append(OSEvent["recvmbox"].Q, Packet)) = Len(OSEvent["recvmbox"].Q) + 1
    BY <1>1, <2>1, LenProperties, AppendProperties
  <2>3. Len(OSEvent'["recvmbox"].Q) = Len(OSEvent["recvmbox"].Q) + Uncounted'
    <3>1. CASE tpc' = "event"
      <4>1. Uncounted' = 1 /\ OSEvent'["recvmbox"].Q = Append(OSEvent["recvmbox"].Q, Packet)
        BY <1>3, <3>1 DEF Uncounted
      <4> QED
        BY <2>2, <4>1
    <3>2. CASE tpc' = "fetch"
      <4>1. Uncounted' = 0 /\ OSEvent'["recvmbox"].Q = OSEvent["recvmbox"].Q
        BY <1>3, <3>2 DEF Uncounted
      <4> QED
        BY <2>2, <4>1
    <3> QED
      BY <1>0, <3>1, <3>2
  <2>4. Uncounted = 0 /\ Uncounted' \in Nat /\ Unminused' = Unminused /\ Unminused \in Nat
    BY <1>0 DEF Uncounted, Unminused, selVars
  <2>5. Len(OSEvent'["recvmbox"].Q) + Unminused' = rcvevent' + Uncounted'
    BY <1>0, <2>2, <2>3, <2>4 DEF Parts, SelInv
  <2> QED
    BY <1>0, <1>3, <2>5 DEF Parts, SelInv, selVars
<1> QED
  BY <1>3, <1>4, <1>5, <1>6, <1>7, <1>8, <1>9 DEF Inv

(* A task asleep in lwip_select on the list is woken by the first event.   *)
LEMMA EventKeeps == ASSUME Inv, TcpipEvent PROVE Inv'
<1>0. Parts /\ tpc = "event" /\ tpc' = "fetch" /\ rcvevent' = rcvevent + 1
      /\ (IF Signals THEN sem_signalled' = TRUE /\ OSSemPost("sel")
          ELSE UNCHANGED <<sem_signalled, osVars>>)
      /\ UNCHANGED <<msg, limit, waited, fired, timerVars, callVars, spc, select_waiting,
                     current, packets, calls, owed>>
  BY DEF Inv, Parts, TcpipEvent, countVars
<1>1. "sel" \in Sems /\ {"mbox", "recvmbox"} \subseteq Events \ {"sel"}
      /\ {"tcpip", "sel"} \cup Callers \subseteq Tasks
  BY Names, TasksAssumption
<1>2. /\ KernelInv' /\ OSRdyTbl \subseteq OSRdyTbl'
      /\ \A t \in Tasks : OSTCB'[t].EventPtr = OSTCB[t].EventPtr
      /\ \A e \in {"mbox", "recvmbox"} : OSEvent'[e] = OSEvent[e]
  <2>1. CASE Signals
    BY <1>0, <1>1, <2>1, SemPostFrame DEF Parts
  <2>2. CASE ~Signals
    BY <1>0, <1>1, <2>2, Still DEF Parts, osVars
  <2> QED
    BY <2>1, <2>2
<1>3. PtrInv'
  BY <1>0, <1>1, <1>2 DEF Parts, PtrInv, callVars
<1>4. ThreadType'
  BY <1>0 DEF Parts, ThreadType
<1>5. CallType'
  BY <1>0 DEF Parts, CallType, callVars
<1>6. TimerInv'
  BY <1>0, TimerFrame DEF Parts, timerVars
<1>7. MsgInv'
  BY <1>0, <1>2 DEF Parts, MsgInv, MessagesInOrder, InHand
<1>8. SelInv'
  <2>1. /\ rcvevent' \in Nat /\ rcvevent' > 0 /\ sem_signalled' \in BOOLEAN
        /\ select_waiting \in BOOLEAN /\ sem_signalled \in BOOLEAN
    <3>1. rcvevent \in Nat /\ sem_signalled \in BOOLEAN /\ select_waiting \in BOOLEAN
      BY <1>0 DEF Parts, SelInv
    <3>2. sem_signalled' = TRUE \/ sem_signalled' = sem_signalled
      BY <1>0
    <3>3. sem_signalled' \in BOOLEAN
      BY <3>1, <3>2
    <3> QED
      BY <1>0, <3>1, <3>3
  <2>2. Len(OSEvent'["recvmbox"].Q) + Unminused' = rcvevent' + Uncounted'
    <3>1. Uncounted = 1 /\ Uncounted' = 0 /\ Unminused' = Unminused
      BY <1>0 DEF Unminused, Uncounted
    <3>2. Len(OSEvent["recvmbox"].Q) + Unminused = rcvevent + 1 /\ rcvevent \in Nat
      BY <1>0, <3>1 DEF Parts, SelInv
    <3>3. OSEvent'["recvmbox"].Q = OSEvent["recvmbox"].Q
      BY <1>2
    <3> QED
      BY <1>0, <3>1, <3>2, <3>3
  <2>3. spc \in {"rescan", "wait"} /\ sem_signalled' => OSEvent'["sel"].Cnt > 0
    <3>1. CASE Signals
      BY <1>0, <1>1, <3>1, SemPostKeeps, Waiters DEF Parts
    <3>2. CASE ~Signals
      BY <1>0, <3>2 DEF Parts, SelInv, osVars
    <3> QED
      BY <3>1, <3>2
  <2>4. spc \in {"scan", "enlist", "recv", "minus"} => ~sem_signalled'
    BY <1>0 DEF Parts, SelInv, Signals
  <2>5. ~(spc = "wait" /\ ~sem_signalled')
    BY <1>0 DEF Parts, SelInv, Signals
  <2>6. ~(spc = "blocked" /\ "sel" \notin OSRdyTbl')
    <3> SUFFICES ASSUME spc = "blocked", "sel" \notin OSRdyTbl' PROVE FALSE
      OBVIOUS
    <3>1. "sel" \notin OSRdyTbl /\ OSTCB["sel"].EventPtr = "sel"
      BY <1>0, <1>2 DEF Parts, PtrInv
    <3>2. "sel" \in OSEvent["sel"].Tbl
      BY <1>0, <1>1, <3>1 DEF Parts, KernelInv, KernelOK
    <3>3. Signals
      BY <1>0, <3>1 DEF Parts, SelInv, Signals
    <3>4. \E t \in OSEvent["sel"].Tbl : Handed(t, "sel", NoMsg)
      BY <1>0, <1>1, <3>2, <3>3, SemPostKeeps DEF Parts
    <3>5. Handed("sel", "sel", NoMsg)
      BY <1>0, <3>4, Waiters DEF Parts
    <3> QED
      BY <3>5 DEF Handed
  <2> QED
    BY <1>0, <2>1, <2>2, <2>3, <2>4, <2>5, <2>6 DEF Parts, SelInv
<1> QED
  BY <1>2, <1>3, <1>4, <1>5, <1>6, <1>7, <1>8 DEF Inv

-----------------------------------------------------------------------------
(* The steps of the tasks that call the stack.                             *)

(* A message that the mailbox takes is owed, whether it is handed to the   *)
(* waiting thread, timed out or not, or put in the queue.                  *)
LEMMA MboxPost ==
  ASSUME Inv, NEW m \in Msgs, OSQPost("mbox", m), owed' = Append(owed, m),
         UNCHANGED <<tpc, msg>>
  PROVE  /\ KernelInv' /\ MsgInv' /\ OSRdyTbl \subseteq OSRdyTbl'
         /\ \A t \in Tasks : OSTCB'[t].EventPtr = OSTCB[t].EventPtr
         /\ \A e \in Events \ {"mbox"} : OSEvent'[e] = OSEvent[e]
<1>0. KernelInv /\ PtrInv /\ ThreadType /\ MsgInv /\ "mbox" \in Queues
      /\ OSEvent["mbox"].Tbl \subseteq Tasks
  BY TasksAssumption, Names DEF Inv, KernelInv, KernelType, EventBlocks
<1>1. /\ OSEvent["mbox"].Q \in Seq(Msgs \cup {NoMsg}) /\ InHand \in Seq(Msgs \cup {NoMsg})
      /\ owed = InHand \o OSEvent["mbox"].Q
  BY <1>0, InHandSeq DEF MsgInv, MessagesInOrder
<1>2. CASE \E t \in OSEvent["mbox"].Tbl : Handed(t, "mbox", m) /\ OSEvent["mbox"].Q = <<>>
  <2>1. /\ Handed("tcpip", "mbox", m) /\ OSEvent["mbox"].Q = <<>> /\ tpc = "blocked"
        /\ "tcpip" \in OSEvent["mbox"].Tbl
    BY <1>0, <1>2, Waiters
  <2>2. InHand = <<>>
    BY <1>0, <2>1 DEF MsgInv, InHand
  <2>3. InHand' = <<m>>
    BY <2>1, Names DEF Handed, InHand
  <2>4. owed' = <<m>> \o OSEvent'["mbox"].Q
    <3>1. <<m>> \in Seq(Msgs \cup {NoMsg}) /\ <<>> \in Seq(Msgs \cup {NoMsg})
      OBVIOUS
    <3>2. owed = <<>>
      BY <1>1, <2>1, <2>2, <3>1, ConcatEmptySeq
    <3>3. owed' = <<m>>
      BY <3>2
    <3>4. OSEvent'["mbox"].Q = <<>>
      BY <2>1 DEF Handed
    <3> QED
      BY <3>1, <3>3, <3>4, ConcatEmptySeq
  <2>5. OSTCB'["tcpip"].Msg # NoMsg /\ "tcpip" \notin OSEvent'["mbox"].Tbl
    BY <2>1, Names DEF Handed
  <2>6. MsgInv'
    BY <2>3, <2>4, <2>5 DEF MsgInv, MessagesInOrder
  <2>7. KernelInv'
    BY <1>0, QPostKeeps
  <2> QED
    BY <2>1, <2>6, <2>7, Names DEF Handed
<1>3. CASE Refilled("mbox") /\ OSEvent'["mbox"].Q = Append(OSEvent["mbox"].Q, m)
  <2>1. InHand' = InHand /\ OSTCB' = OSTCB /\ OSEvent'["mbox"].Tbl = OSEvent["mbox"].Tbl
    BY <1>3 DEF Refilled, InHand
  <2>2. owed' = InHand' \o OSEvent'["mbox"].Q
    <3>1. m \in Msgs \cup {NoMsg}
      OBVIOUS
    <3>2. Append(InHand \o OSEvent["mbox"].Q, m) = InHand \o Append(OSEvent["mbox"].Q, m)
      BY <1>1, <3>1, AppendThrough
    <3> QED
      BY <1>1, <1>3, <2>1, <3>2
  <2>3. MsgInv'
    BY <1>0, <2>1, <2>2 DEF MsgInv, MessagesInOrder
  <2>4. KernelInv'
    BY <1>0, QPostKeeps
  <2> QED
    BY <1>3, <2>3, <2>4 DEF Refilled
<1> QED
  BY <1>0, <1>2, <1>3, QPostKeeps

(* What a step of caller c may change of the control blocks and the ready  *)
(* list, and the rest of the invariant that follows.                       *)
LEMMA CallerFrame ==
  ASSUME Inv, NEW c \in Callers, UNCHANGED callerKeeps, KernelInv', MsgInv', CallType',
         \A t \in Tasks \ {c} : OSTCB'[t].EventPtr = OSTCB[t].EventPtr,
         \A d \in Callers \ {c} : cpc'[d] = cpc[d],
         OSTCB'[c].EventPtr = IF cpc'[c] = "blocked" THEN c ELSE "none",
         \A e \in {"recvmbox", "sel"} : OSEvent'[e] = OSEvent[e],
         "sel" \in OSRdyTbl => "sel" \in OSRdyTbl'
  PROVE  Inv'
<1>0. Parts /\ UNCHANGED <<tpc, msg, limit, waited, fired, next_timeout, torn, Enable, starts,
                           spc, sem_signalled, select_waiting, rcvevent, current, packets>>
  BY DEF Inv, Parts, callerKeeps, tcpipVars, timerVars, selVars
<1>1. PtrInv'
  BY <1>0, Names DEF Parts, PtrInv
<1>2. ThreadType'
  BY <1>0 DEF Parts, ThreadType
<1>3. TimerInv'
  BY <1>0, TimerFrame DEF Parts
<1>4. SelInv'
  BY <1>0, SelFrame DEF Parts
<1> QED
  BY <1>1, <1>2, <1>3, <1>4 DEF Inv

LEMMA BeginKeeps == ASSUME Inv, NEW c \in Callers, CallBegins(c) PROVE Inv'
<1>0. Parts /\ c \in Tasks /\ cpc[c] = "idle" /\ OSTCB[c].EventPtr = "none" /\ c # "sel"
  BY Names DEF Inv, Parts, PtrInv, CallBegins
<1>1. /\ calls < MaxCalls /\ calls' = calls + 1 /\ OSRdyTbl' = OSRdyTbl \cup {c}
      /\ cpc' = [cpc EXCEPT ![c] = "post"] /\ tries' = [tries EXCEPT ![c] = 0]
      /\ UNCHANGED <<OSTCB, OSEvent, owed, callerKeeps>>
  BY DEF CallBegins
<1>2. KernelInv'
  <2>1. OSTCB[c] \in TCBs /\ OSTCB \in [Tasks -> TCBs] /\ OSRdyTbl \subseteq Tasks
    BY <1>0 DEF Parts, KernelInv, KernelType
  <2>2. OSTCB[c].Dly \in Nat /\ OSTCB' = [OSTCB EXCEPT ![c].Dly = OSTCB[c].Dly]
    BY <1>0, <1>1, <2>1 DEF TCBs
  <2> QED
    BY <1>0, <1>1, <2>1, <2>2, ReadyKeeps DEF Parts
<1>3. MsgInv'
  BY <1>0, <1>1, MsgFrame DEF Parts, callerKeeps, tcpipVars
<1>4. CallType'
  <2>1. calls' \in 0..MaxCalls
    BY <1>0, <1>1, TimesAssumption DEF Parts, CallType
  <2>2. 0 \in 0..PostTries /\ 0 < PostTries
    BY TimesAssumption
  <2> QED
    BY <1>0, <1>1, <2>1, <2>2 DEF Parts, CallType, callerKeeps
<1>5. cpc'[c] = "post" /\ \A d \in Callers \ {c} : cpc'[d] = cpc[d]
  BY <1>0, <1>1 DEF Parts, CallType
<1> QED
  BY <1>0, <1>1, <1>2, <1>3, <1>4, <1>5, CallerFrame

LEMMA PostsKeeps == ASSUME Inv, NEW c \in Callers, CallPosts(c) PROVE Inv'
<1>0. Parts /\ c \in Tasks /\ cpc[c] = "post" /\ OSTCB[c].EventPtr = "none" /\ c \in Msgs
  BY Names DEF Inv, Parts, PtrInv, CallPosts, Msgs
<1>1. /\ OSQPost("mbox", c) /\ owed' = Append(owed, c) /\ cpc' = [cpc EXCEPT ![c] = "wait"]
      /\ UNCHANGED <<tries, calls, callerKeeps>> /\ UNCHANGED <<tpc, msg, current, packets>>
  BY DEF CallPosts, callerKeeps, tcpipVars
<1>2. /\ KernelInv' /\ MsgInv' /\ OSRdyTbl \subseteq OSRdyTbl'
      /\ \A t \in Tasks : OSTCB'[t].EventPtr = OSTCB[t].EventPtr
      /\ \A e \in Events \ {"mbox"} : OSEvent'[e] = OSEvent[e]
  BY <1>0, <1>1, MboxPost
<1>3. CallType'
  BY <1>0, <1>1 DEF Parts, CallType
<1>4. cpc'[c] = "wait" /\ \A d \in Callers \ {c} : cpc'[d] = cpc[d]
  BY <1>0, <1>1 DEF Parts, CallType
<1>5. \A e \in {"recvmbox", "sel"} : OSEvent'[e] = OSEvent[e]
  BY <1>2, Names
<1> QED
  BY <1>0, <1>1, <1>2, <1>3, <1>4, <1>5, CallerFrame

LEMMA FailsKeeps == ASSUME Inv, NEW c \in Callers, PostFails(c) PROVE Inv'
<1>0. Parts /\ c \in Tasks /\ cpc[c] = "post" /\ OSTCB[c].EventPtr = "none" /\ c # "sel"
      /\ c # "tcpip"
  BY Names DEF Inv, Parts, PtrInv, PostFails
<1>1. /\ OSTCB' = [OSTCB EXCEPT ![c].Dly = PostDly] /\ OSRdyTbl' = OSRdyTbl \ {c}
      /\ UNCHANGED OSEvent /\ tries' = [tries EXCEPT ![c] = tries[c] + 1]
      /\ cpc' = [cpc EXCEPT ![c] = IF tries[c] + 1 < PostTries THEN "post" ELSE "wait"]
      /\ UNCHANGED <<owed, calls, callerKeeps>> /\ UNCHANGED <<tpc, msg, current, packets>>
  <2>1. cpc \in [Callers -> {"idle", "post", "wait", "blocked", "done"}]
        /\ tries \in [Callers -> 0..PostTries]
    BY <1>0 DEF Parts, CallType
  <2> QED
    BY <1>0, <2>1 DEF PostFails, OSTimeDly, callerKeeps, tcpipVars
<1>2. OSTCB \in [Tasks -> TCBs] /\ OSRdyTbl \subseteq Tasks /\ PostDly \in Nat
      /\ PostTries \in Nat
  BY <1>0, TimesAssumption DEF Parts, KernelInv, KernelType
<1>3. KernelInv'
  BY <1>0, <1>1, <1>2, ReadyKeeps DEF Parts
<1>4. (\A t \in Tasks \ {c} : OSTCB'[t] = OSTCB[t]) /\ OSTCB'[c].EventPtr = OSTCB[c].EventPtr
  BY <1>0, <1>1, <1>2 DEF TCBs
<1>5. MsgInv'
  BY <1>0, <1>1, <1>4, MsgFrame, Names DEF Parts
<1>6. tries[c] \in 0..PostTries /\ tries[c] < PostTries
  BY <1>0 DEF Parts, CallType
<1>7. tries[c] + 1 \in 0..PostTries
  BY <1>2, <1>6
<1>8. CallType'
  BY <1>0, <1>1, <1>7 DEF Parts, CallType
<1>9. cpc'[c] \in {"post", "wait"} /\ \A d \in Callers \ {c} : cpc'[d] = cpc[d]
  BY <1>0, <1>1 DEF Parts, CallType
<1>10. /\ \A t \in Tasks \ {c} : OSTCB'[t].EventPtr = OSTCB[t].EventPtr
       /\ OSTCB'[c].EventPtr = IF cpc'[c] = "blocked" THEN c ELSE "none"
       /\ \A e \in {"recvmbox", "sel"} : OSEvent'[e] = OSEvent[e]
       /\ "sel" \in OSRdyTbl => "sel" \in OSRdyTbl'
  BY <1>0, <1>1, <1>4, <1>9
<1> QED
  BY <1>1, <1>3, <1>5, <1>8, <1>9, <1>10, CallerFrame

LEMMA WaitsKeeps == ASSUME Inv, NEW c \in Callers, CallWaits(c) PROVE Inv'
<1>0. Parts /\ c \in Tasks /\ cpc[c] = "wait" /\ OSTCB[c].EventPtr = "none" /\ c # "sel"
      /\ c # "tcpip" /\ c \in Sems /\ {"mbox", "recvmbox", "sel"} \subseteq Events \ {c}
      /\ c \in Events
  BY Names, TasksAssumption DEF Inv, Parts, PtrInv, CallWaits
<1>1. UNCHANGED <<tries, owed, calls, callerKeeps>> /\ UNCHANGED <<tpc, msg, current, packets>>
  BY DEF CallWaits, callerKeeps, tcpipVars
<1>2. CASE OSSemTake(c) /\ cpc' = [cpc EXCEPT ![c] = "done"]
  <2>1. KernelInv' /\ Refilled(c)
    BY <1>0, <1>2, SemTakeKeeps DEF Parts
  <2>2. OSTCB' = OSTCB /\ OSRdyTbl' = OSRdyTbl
        /\ \A e \in {"mbox", "recvmbox", "sel"} : OSEvent'[e] = OSEvent[e]
    BY <1>0, <2>1 DEF Refilled
  <2>3. MsgInv'
    BY <1>0, <1>1, <2>2, MsgFrame DEF Parts
  <2>4. CallType'
    BY <1>0, <1>1, <1>2 DEF Parts, CallType
  <2>5. cpc'[c] = "done" /\ \A d \in Callers \ {c} : cpc'[d] = cpc[d]
    BY <1>0, <1>2 DEF Parts, CallType
  <2> QED
    BY <1>0, <1>1, <2>1, <2>2, <2>3, <2>4, <2>5, CallerFrame
<1>3. CASE OSSemPend(c, c, 0) /\ cpc' = [cpc EXCEPT ![c] = "blocked"]
  <2>1. OSEvent[c].Cnt = 0 /\ OS_EventTaskWait(c, c, 0) /\ OSEvent[c].Q = <<>>
    BY <1>0, <1>3 DEF OSSemPend, Parts, KernelInv, KindsApart
  <2>2. KernelInv' /\ Waits(c, c, 0)
    BY <1>0, <2>1, TaskWaitKeeps DEF Parts
  <2>3. /\ \A t \in Tasks \ {c} : OSTCB'[t] = OSTCB[t]
        /\ OSTCB'[c].EventPtr = c /\ OSRdyTbl' = OSRdyTbl \ {c}
        /\ \A e \in {"mbox", "recvmbox", "sel"} : OSEvent'[e] = OSEvent[e]
    BY <1>0, <2>2 DEF Waits
  <2>4. MsgInv'
    BY <1>0, <1>1, <2>3, MsgFrame, Names DEF Parts
  <2>5. CallType'
    BY <1>0, <1>1, <1>3 DEF Parts, CallType
  <2>6. cpc'[c] = "blocked" /\ \A d \in Callers \ {c} : cpc'[d] = cpc[d]
    BY <1>0, <1>3 DEF Parts, CallType
  <2> QED
    BY <1>0, <1>1, <2>2, <2>3, <2>4, <2>5, <2>6, CallerFrame
<1> QED
  BY <1>2, <1>3 DEF CallWaits

LEMMA CallResumesKeeps == ASSUME Inv, NEW c \in Callers, CallResumes(c) PROVE Inv'
<1>0. Parts /\ c \in Tasks /\ cpc[c] = "blocked" /\ c # "sel" /\ c \in OSRdyTbl
      /\ c # "tcpip" /\ {"mbox", "recvmbox", "sel"} \subseteq Events \ {c} /\ c \in Events
  BY Names, TasksAssumption DEF Inv, Parts, CallResumes, Runs
<1>1. PendReturns(c, c) /\ UNCHANGED <<tries, owed, calls, callerKeeps>>
      /\ UNCHANGED <<tpc, msg, current, packets>> /\ cpc' = [cpc EXCEPT ![c] = "done"]
  BY DEF CallResumes, callerKeeps, tcpipVars
<1>2. KernelInv' /\ Returns(c, c)
  BY <1>0, <1>1, ReturnKeeps DEF Parts
<1>3. /\ \A t \in Tasks \ {c} : OSTCB'[t] = OSTCB[t]
      /\ OSTCB'[c].EventPtr = "none" /\ OSRdyTbl' = OSRdyTbl
      /\ \A e \in {"mbox", "recvmbox", "sel"} : OSEvent'[e] = OSEvent[e]
  BY <1>0, <1>2 DEF Returns, IdleTCB
<1>4. MsgInv'
  BY <1>0, <1>1, <1>3, MsgFrame, Names DEF Parts
<1>5. CallType'
  BY <1>0, <1>1 DEF Parts, CallType
<1>6. cpc'[c] = "done" /\ \A d \in Callers \ {c} : cpc'[d] = cpc[d]
  BY <1>0, <1>1 DEF Parts, CallType
<1> QED
  BY <1>0, <1>1, <1>2, <1>3, <1>4, <1>5, <1>6, CallerFrame

LEMMA EndKeeps == ASSUME Inv, NEW c \in Callers, CallEnds(c) PROVE Inv'
<1>0. Parts /\ c \in Tasks /\ cpc[c] = "done" /\ OSTCB[c].EventPtr = "none" /\ c # "sel"
  BY Names DEF Inv, Parts, PtrInv, CallEnds
<1>1. /\ OSRdyTbl' = OSRdyTbl \ {c}
      /\ cpc' = [cpc EXCEPT ![c] = "idle"] /\ tries' = [tries EXCEPT ![c] = 0]
      /\ UNCHANGED <<OSTCB, OSEvent, owed, calls, callerKeeps>>
      /\ UNCHANGED <<tpc, msg, current, packets>>
  BY DEF CallEnds, callerKeeps, tcpipVars
<1>2. KernelInv'
  <2>1. OSTCB[c] \in TCBs /\ OSTCB \in [Tasks -> TCBs] /\ OSRdyTbl \subseteq Tasks
    BY <1>0 DEF Parts, KernelInv, KernelType
  <2>2. OSTCB[c].Dly \in Nat /\ OSTCB' = [OSTCB EXCEPT ![c].Dly = OSTCB[c].Dly]
    BY <1>0, <1>1, <2>1 DEF TCBs
  <2> QED
    BY <1>0, <1>1, <2>1, <2>2, ReadyKeeps DEF Parts
<1>3. MsgInv'
  BY <1>0, <1>1, MsgFrame DEF Parts
<1>4. CallType'
  <2>1. 0 \in 0..PostTries
    BY TimesAssumption
  <2> QED
    BY <1>0, <1>1, <2>1 DEF Parts, CallType
<1>5. cpc'[c] = "idle" /\ \A d \in Callers \ {c} : cpc'[d] = cpc[d]
  BY <1>0, <1>1 DEF Parts, CallType
<1> QED
  BY <1>0, <1>1, <1>2, <1>3, <1>4, <1>5, CallerFrame

(* A change from outside does what it says, or the list is torn.           *)
LEMMA ReplacesOrTears ==
  ASSUME TimerInv, NEW l, NEW first, Replaces(l, first)
  PROVE  \/ torn' = TRUE /\ next_timeout' = <<>>
         \/ ~torn /\ torn' = FALSE /\ next_timeout' = l
BY DEF Replaces, TimerInv

(* The system manager changes the list and its server's state alone.       *)
LEMMA ManagerFrame ==
  ASSUME Inv, UNCHANGED <<osVars, tcpipVars, callVars, selVars, rcvevent, countVars>>, TimerInv'
  PROVE  Inv'
<1>0. Parts
  BY DEF Inv, Parts
<1>1. KernelInv'
  BY <1>0, Still DEF Parts
<1>2. PtrInv' /\ ThreadType' /\ CallType'
  BY <1>0 DEF Parts, PtrInv, ThreadType, CallType, osVars, tcpipVars, callVars, selVars, countVars
<1>3. MsgInv'
  BY <1>0, MsgFrame DEF Parts, osVars, tcpipVars, countVars
<1>4. SelInv'
  BY <1>0, SelFrame DEF Parts, selVars, osVars, tcpipVars
<1> QED
  BY <1>1, <1>2, <1>3, <1>4 DEF Inv

(* A start of the DHCP server adds its timer to a list of two at most.     *)
LEMMA StartKeeps == ASSUME Inv, DHCPS_Start PROVE Inv'
<1> DEFINE l == next_timeout
           s == sys_timeout(l, DhcpsMs, "dhcps")
           first == l # <<>> /\ l[1].time > DhcpsMs
<1>0. Parts /\ ~Enable /\ Enable' = TRUE /\ starts' = starts + 1 /\ starts < MaxStarts
      /\ Replaces(s, first)
      /\ UNCHANGED <<osVars, tcpipVars, callVars, selVars, rcvevent, countVars>>
  BY DEF Inv, Parts, DHCPS_Start
<1> HIDE DEF first, s
<1>1. fired' = fired /\ tpc' = tpc /\ Enable' \in BOOLEAN
  BY <1>0 DEF tcpipVars
<1>2. starts' \in 0..MaxStarts
  BY <1>0, TimesAssumption DEF Parts, TimerInv
<1>3. InHandler' => fired' \in {"arp", "dhcps"}
  BY <1>0, <1>1 DEF Parts, TimerInv, InHandler
<1>4. ASSUME torn' = TRUE, next_timeout' = <<>> PROVE TimerInv'
  BY <1>1, <1>2, <1>3, <1>4, TornKeeps
<1>5. ASSUME ~torn, torn' = FALSE, l' = s PROVE TimerInv'
  <2>1. l \in Seq(Timers) /\ Len(l) \in Nat /\ ListInv
    BY <1>0, <1>5, LenProperties DEF Parts, TimerInv
  <2>2. /\ OneArp(l) /\ (HasArp(l) <=> ~Returning("arp")) /\ Len(l) + Held <= 2
        /\ Held \in {0, 1} /\ Held' = Held /\ (Returning("arp")' <=> Returning("arp"))
    BY <1>0, <1>1, <2>1 DEF ListInv, Held, Returning, InHandler
  <2>3. DhcpsMs \in Nat /\ Len(l) # NumTimeout
    BY <2>1, <2>2, TimesAssumption
  <2>4. PICK i \in 1 .. Len(l) + 1 : l' \in Seq(Timers) /\ PutIn(l', l, i, "dhcps")
    BY <1>5, <2>1, <2>3, TimeoutPutsIn DEF s
  <2>5. OneArp(l') /\ (HasArp(l') <=> HasArp(l))
    BY <2>1, <2>2, <2>4, ArpPutIn
  <2>6. HasDhcps(l')
    BY <2>1, <2>4, DhcpsPutIn
  <2>7. Len(l') + Held' <= 3
    BY <2>1, <2>2, <2>4 DEF PutIn
  <2>8. ListInv'
    BY <1>0, <2>2, <2>5, <2>6, <2>7 DEF ListInv
  <2> QED
    BY <1>1, <1>2, <1>3, <1>5, <2>4, <2>8 DEF TimerInv
<1> QED
  BY <1>0, <1>4, <1>5, ReplacesOrTears, ManagerFrame DEF Parts

(* A stop takes one of its timers out, or finds the ARP timer alone.       *)
LEMMA StopKeeps == ASSUME Inv, DHCPS_Stop PROVE Inv'
<1> DEFINE l == next_timeout
           s == sys_untimeout(l, "dhcps")
           first == l # <<>> /\ l[1].h = "dhcps"
<1>0. Parts /\ Enable /\ Enable' = FALSE /\ starts' = starts /\ Replaces(s, first)
      /\ UNCHANGED <<osVars, tcpipVars, callVars, selVars, rcvevent, countVars>>
  BY DEF Inv, Parts, DHCPS_Stop
<1> HIDE DEF first, s
<1>1. fired' = fired /\ tpc' = tpc /\ Enable' \in BOOLEAN
  BY <1>0 DEF tcpipVars
<1>2. starts' \in 0..MaxStarts
  BY <1>0 DEF Parts, TimerInv
<1>3. InHandler' => fired' \in {"arp", "dhcps"}
  BY <1>0, <1>1 DEF Parts, TimerInv, InHandler
<1>4. ASSUME torn' = TRUE, next_timeout' = <<>> PROVE TimerInv'
  BY <1>1, <1>2, <1>3, <1>4, TornKeeps
<1>5. ASSUME ~torn, torn' = FALSE, l' = s PROVE TimerInv'
  <2>1. l \in Seq(Timers) /\ Len(l) \in Nat /\ ListInv
    BY <1>0, <1>5, LenProperties DEF Parts, TimerInv
  <2>2. /\ OneArp(l) /\ (HasArp(l) <=> ~Returning("arp")) /\ Len(l) + Held <= 3
        /\ Held \in {0, 1} /\ Held' = Held /\ (Returning("arp")' <=> Returning("arp"))
    BY <1>0, <1>1, <2>1 DEF ListInv, Held, Returning, InHandler
  <2>3. l' \in Seq(Timers) /\ OneArp(l') /\ (HasArp(l') <=> HasArp(l)) /\ Len(l') + Held' <= 2
    <3>1. CASE HasDhcps(l)
      <4>1. PICK i \in 1..Len(l) : l' \in Seq(Timers) /\ TakenOut(l', l, i, "dhcps")
        BY <1>5, <2>1, <3>1, UntimeoutTakesOut DEF s, HasDhcps
      <4>2. OneArp(l') /\ (HasArp(l') <=> HasArp(l))
        BY <2>1, <2>2, <4>1, ArpTakenOut
      <4>3. Len(l') + Held' <= 2
        BY <2>1, <2>2, <4>1 DEF TakenOut
      <4> QED
        BY <4>1, <4>2, <4>3
    <3>2. CASE ~HasDhcps(l)
      <4>1. l' = l
        BY <1>5, <2>1, <3>2, UntimeoutTakesOut DEF s, HasDhcps
      <4>2. \A k \in 1..Len(l) : l[k].h = "arp"
        <5>1. \A k \in 1..Len(l) : l[k] \in Timers
          BY <2>1, ElementOfSeq
        <5> QED
          BY <3>2, <5>1 DEF Timers, HasDhcps
      <4>3. Len(l) <= 1
        <5> SUFFICES ASSUME Len(l) > 1 PROVE FALSE
          BY <2>1
        <5>1. 1 \in 1..Len(l) /\ 2 \in 1..Len(l)
          BY <2>1
        <5> QED
          BY <2>2, <4>2, <5>1 DEF OneArp
      <4> QED
        BY <2>1, <2>2, <4>1, <4>3
    <3> QED
      BY <3>1, <3>2
  <2>4. ListInv'
    BY <1>0, <2>2, <2>3 DEF ListInv
  <2> QED
    BY <1>1, <1>2, <1>3, <1>5, <2>3, <2>4 DEF TimerInv
<1> QED
  BY <1>0, <1>4, <1>5, ReplacesOrTears, ManagerFrame DEF Parts

-----------------------------------------------------------------------------
(* The steps of the task in lwip_select.                                   *)

(* What such a step changes of the rest of the system.                     *)
LEMMA SelStepFrame ==
  ASSUME Inv, UNCHANGED selKeeps, KernelInv', SelInv',
         \A t \in Tasks \ {"sel"} : OSTCB'[t] = OSTCB[t],
         OSTCB'["sel"].EventPtr = IF spc' = "blocked" THEN "sel" ELSE "none",
         OSEvent'["mbox"] = OSEvent["mbox"]
  PROVE  Inv'
<1>0. Parts /\ UNCHANGED <<tpc, msg, limit, waited, fired, next_timeout, torn, Enable, starts, cpc,
                           tries, current, packets, calls, owed>>
  BY DEF Inv, Parts, selKeeps, tcpipVars, timerVars, callVars, countVars
<1>1. PtrInv'
  BY <1>0, Names DEF Parts, PtrInv
<1>2. ThreadType' /\ CallType'
  BY <1>0 DEF Parts, ThreadType, CallType
<1>3. TimerInv'
  BY <1>0, TimerFrame DEF Parts
<1>4. MsgInv'
  BY <1>0, MsgFrame, Names DEF Parts
<1> QED
  BY <1>1, <1>2, <1>3, <1>4 DEF Inv

(* The names the steps use.                                                *)
LEMMA SelNames ==
  /\ "sel" \in Sems /\ "sel" \in Tasks /\ "recvmbox" \in Queues
  /\ {"mbox", "recvmbox", "sel"} \subseteq Events
BY Names, TasksAssumption

(* A step that leaves the kernel, the count and the mailboxes alone.       *)
LEMMA SelMoves ==
  ASSUME Inv, UNCHANGED <<osVars, selKeeps>>, spc # "blocked", spc' # "blocked", SelInv'
  PROVE  Inv'
<1>1. KernelInv' /\ OSTCB' = OSTCB /\ OSEvent' = OSEvent
  BY Still DEF Inv, osVars
<1>2. OSTCB'["sel"].EventPtr = IF spc' = "blocked" THEN "sel" ELSE "none"
  BY <1>1 DEF Inv, PtrInv
<1> QED
  BY <1>1, <1>2, SelStepFrame

LEMMA ScanKeeps == ASSUME Inv, SelScan PROVE Inv'
<1>0. Parts /\ spc = "scan" /\ UNCHANGED <<sem_signalled, select_waiting, rcvevent, selKeeps>>
      /\ tpc' = tpc
  BY DEF Inv, Parts, SelScan, selKeeps, tcpipVars
<1>1. ~sem_signalled /\ ~select_waiting /\ rcvevent \in Nat
  BY <1>0 DEF Parts, SelInv
<1>2. CASE rcvevent > 0 /\ spc' = "recv" /\ UNCHANGED osVars
  <2>1. Unminused' = Unminused /\ Uncounted' = Uncounted
    BY <1>0, <1>2 DEF Unminused, Uncounted
  <2>2. SelInv'
    BY <1>0, <1>1, <1>2, <2>1 DEF Parts, SelInv, osVars
  <2> QED
    BY <1>0, <1>2, <2>2, SelMoves
<1>3. CASE spc' = "enlist" /\ OSSemClear("sel")
  <2>1. KernelInv' /\ Refilled("sel")
    BY <1>0, <1>3, SemClearKeeps, SelNames DEF Parts
  <2>2. OSTCB' = OSTCB /\ \A e \in {"mbox", "recvmbox"} : OSEvent'[e] = OSEvent[e]
    BY <2>1, SelNames DEF Refilled
  <2>3. Unminused' = Unminused /\ Uncounted' = Uncounted
    BY <1>0, <1>3 DEF Unminused, Uncounted
  <2>4. SelInv'
    BY <1>0, <1>1, <1>3, <2>2, <2>3 DEF Parts, SelInv
  <2>5. OSTCB'["sel"].EventPtr = "none"
    BY <1>0, <2>2 DEF Parts, PtrInv
  <2> QED
    BY <1>0, <1>3, <2>1, <2>2, <2>4, <2>5, SelStepFrame
<1> QED
  BY <1>2, <1>3 DEF SelScan

LEMMA EnlistKeeps == ASSUME Inv, SelEnlist PROVE Inv'
<1>0. Parts /\ spc = "enlist" /\ select_waiting' = TRUE /\ spc' = "rescan" /\ tpc' = tpc
      /\ UNCHANGED <<osVars, sem_signalled, rcvevent, selKeeps>>
  BY DEF Inv, Parts, SelEnlist, selKeeps, tcpipVars
<1>1. Unminused' = Unminused /\ Uncounted' = Uncounted
  BY <1>0 DEF Unminused, Uncounted
<1>2. ~sem_signalled /\ rcvevent \in Nat
  BY <1>0 DEF Parts, SelInv
<1>3. SelInv'
  BY <1>0, <1>1, <1>2 DEF Parts, SelInv, osVars
<1> QED
  BY <1>0, <1>3, SelMoves

(* After the second scan an event that was not seen has signalled.         *)
LEMMA RescanKeeps == ASSUME Inv, SelRescan PROVE Inv'
<1>0. Parts /\ spc = "rescan" /\ spc' = (IF rcvevent > 0 THEN "leave" ELSE "wait")
      /\ tpc' = tpc /\ UNCHANGED <<osVars, sem_signalled, select_waiting, rcvevent, selKeeps>>
  BY DEF Inv, Parts, SelRescan, selKeeps, tcpipVars
<1>1. Unminused' = Unminused /\ Uncounted' = Uncounted
  BY <1>0 DEF Unminused, Uncounted
<1>2. sem_signalled \in BOOLEAN /\ select_waiting = TRUE /\ rcvevent \in Nat
  BY <1>0 DEF Parts, SelInv
<1>3. SelInv'
  BY <1>0, <1>1, <1>2 DEF Parts, SelInv, osVars
<1> QED
  BY <1>0, <1>3, SelMoves

LEMMA SelWaitKeeps == ASSUME Inv, SelWait PROVE Inv'
<1>0. Parts /\ spc = "wait" /\ tpc' = tpc
      /\ UNCHANGED <<sem_signalled, select_waiting, rcvevent, selKeeps>>
  BY DEF Inv, Parts, SelWait, selKeeps, tcpipVars
<1>1. sem_signalled \in BOOLEAN /\ select_waiting = TRUE /\ rcvevent \in Nat
      /\ OSTCB["sel"].EventPtr = "none"
  BY <1>0 DEF Parts, SelInv, PtrInv
<1>2. CASE OSSemTake("sel") /\ spc' = "leave"
  <2>1. KernelInv' /\ Refilled("sel")
    BY <1>0, <1>2, SemTakeKeeps, SelNames DEF Parts
  <2>2. OSTCB' = OSTCB /\ \A e \in {"mbox", "recvmbox"} : OSEvent'[e] = OSEvent[e]
    BY <2>1, SelNames DEF Refilled
  <2>3. Unminused' = Unminused /\ Uncounted' = Uncounted
    BY <1>0, <1>2 DEF Unminused, Uncounted
  <2>4. SelInv'
    BY <1>0, <1>1, <1>2, <2>2, <2>3 DEF Parts, SelInv
  <2> QED
    BY <1>0, <1>1, <1>2, <2>1, <2>2, <2>4, SelStepFrame
<1>3. CASE OSSemPend("sel", "sel", SelTicks) /\ spc' = "blocked"
  <2>1. /\ OSEvent["sel"].Cnt = 0 /\ OS_EventTaskWait("sel", "sel", SelTicks)
        /\ OSEvent["sel"].Q = <<>> /\ SelTicks \in Nat
    BY <1>0, <1>3, SelNames, TimesAssumption DEF OSSemPend, Parts, KernelInv, KindsApart
  <2>2. KernelInv' /\ Waits("sel", "sel", SelTicks)
    BY <1>0, <1>1, <2>1, TaskWaitKeeps, SelNames DEF Parts
  <2>3. /\ \A t \in Tasks \ {"sel"} : OSTCB'[t] = OSTCB[t]
        /\ OSTCB'["sel"].EventPtr = "sel"
        /\ \A e \in {"mbox", "recvmbox"} : OSEvent'[e] = OSEvent[e]
    BY <2>2, SelNames DEF Waits
  <2>4. Unminused' = Unminused /\ Uncounted' = Uncounted
    BY <1>0, <1>3 DEF Unminused, Uncounted
  <2>5. ~sem_signalled /\ rcvevent = 0
    BY <1>0, <1>1, <2>1 DEF Parts, SelInv
  <2>6. SelInv'
    BY <1>0, <1>1, <1>3, <2>3, <2>4, <2>5 DEF Parts, SelInv
  <2> QED
    BY <1>0, <1>3, <2>2, <2>3, <2>6, SelStepFrame
<1> QED
  BY <1>2, <1>3 DEF SelWait

LEMMA SelResumeKeeps == ASSUME Inv, SelResume PROVE Inv'
<1>0. Parts /\ spc = "blocked" /\ "sel" \in OSRdyTbl /\ PendReturns("sel", "sel")
      /\ tpc' = tpc /\ spc' \in {"expired", "leave"}
      /\ UNCHANGED <<sem_signalled, select_waiting, rcvevent, selKeeps>>
  BY DEF Inv, Parts, SelResume, selKeeps, tcpipVars, Runs
<1>1. sem_signalled \in BOOLEAN /\ select_waiting = TRUE /\ rcvevent \in Nat
  BY <1>0 DEF Parts, SelInv
<1>2. KernelInv' /\ Returns("sel", "sel")
  BY <1>0, ReturnKeeps, SelNames DEF Parts
<1>3. /\ \A t \in Tasks \ {"sel"} : OSTCB'[t] = OSTCB[t]
      /\ OSTCB'["sel"].EventPtr = "none"
      /\ \A e \in {"mbox", "recvmbox"} : OSEvent'[e] = OSEvent[e]
  BY <1>2, SelNames DEF Returns, IdleTCB
<1>4. Unminused' = Unminused /\ Uncounted' = Uncounted
  BY <1>0 DEF Unminused, Uncounted
<1>5. SelInv'
  BY <1>0, <1>1, <1>3, <1>4 DEF Parts, SelInv
<1> QED
  BY <1>0, <1>2, <1>3, <1>5, SelStepFrame

LEMMA LeaveKeeps == ASSUME Inv, SelLeave PROVE Inv'
<1>0. Parts /\ spc \in {"leave", "expired"} /\ select_waiting' = FALSE /\ sem_signalled' = FALSE
      /\ OSSemClear("sel") /\ tpc' = tpc
      /\ spc' = (IF spc = "leave" /\ rcvevent > 0 THEN "recv" ELSE "scan")
      /\ UNCHANGED <<rcvevent, selKeeps>>
  BY DEF Inv, Parts, SelLeave, selKeeps, tcpipVars
<1>1. rcvevent \in Nat /\ OSTCB["sel"].EventPtr = "none"
  BY <1>0 DEF Parts, SelInv, PtrInv
<1>2. KernelInv' /\ Refilled("sel")
  BY <1>0, SemClearKeeps, SelNames DEF Parts
<1>3. OSTCB' = OSTCB /\ \A e \in {"mbox", "recvmbox"} : OSEvent'[e] = OSEvent[e]
  BY <1>2, SelNames DEF Refilled
<1>4. Unminused' = Unminused /\ Uncounted' = Uncounted
  BY <1>0 DEF Unminused, Uncounted
<1>5. SelInv'
  BY <1>0, <1>1, <1>3, <1>4 DEF Parts, SelInv
<1> QED
  BY <1>0, <1>1, <1>2, <1>3, <1>5, SelStepFrame

LEMMA RecvKeeps == ASSUME Inv, SelRecv PROVE Inv'
<1>0. Parts /\ spc = "recv" /\ OSQTake("recvmbox") /\ spc' = "minus" /\ tpc' = tpc
      /\ UNCHANGED <<sem_signalled, select_waiting, rcvevent, selKeeps>>
  BY DEF Inv, Parts, SelRecv, selKeeps, tcpipVars
<1>1. ~sem_signalled /\ ~select_waiting /\ rcvevent \in Nat /\ rcvevent > 0
      /\ OSTCB["sel"].EventPtr = "none"
  BY <1>0 DEF Parts, SelInv, PtrInv
<1>2. /\ KernelInv' /\ Refilled("recvmbox") /\ OSEvent["recvmbox"].Q \in Seq(Msgs)
      /\ OSEvent["recvmbox"].Q # <<>> /\ OSEvent'["recvmbox"].Q = Tail(OSEvent["recvmbox"].Q)
  BY <1>0, QTakeKeeps, SelNames DEF Parts
<1>3. OSTCB' = OSTCB /\ \A e \in {"mbox", "sel"} : OSEvent'[e] = OSEvent[e]
  BY <1>2, SelNames DEF Refilled
<1>4. Len(OSEvent'["recvmbox"].Q) = Len(OSEvent["recvmbox"].Q) - 1
      /\ Len(OSEvent["recvmbox"].Q) \in Nat
  BY <1>2, HeadTailProperties, LenProperties
<1>5. Unminused = 0 /\ Unminused' = 1 /\ Uncounted' = Uncounted /\ Uncounted \in Nat
  BY <1>0 DEF Unminused, Uncounted
<1>6. Len(OSEvent["recvmbox"].Q) + Unminused = rcvevent + Uncounted
  BY <1>0 DEF Parts, SelInv
<1>7. Len(OSEvent'["recvmbox"].Q) + Unminused' = rcvevent' + Uncounted'
  BY <1>0, <1>1, <1>4, <1>5, <1>6
<1>8. SelInv'
  BY <1>0, <1>1, <1>3, <1>7 DEF Parts, SelInv
<1> QED
  BY <1>0, <1>1, <1>2, <1>3, <1>8, SelStepFrame

LEMMA MinusKeeps == ASSUME Inv, SelMinus PROVE Inv'
<1>0. Parts /\ spc = "minus" /\ spc' = "scan" /\ rcvevent' = rcvevent - 1 /\ tpc' = tpc
      /\ UNCHANGED <<osVars, sem_signalled, select_waiting, selKeeps>>
  BY DEF Inv, Parts, SelMinus, selKeeps, tcpipVars
<1>1. ~sem_signalled /\ ~select_waiting /\ rcvevent \in Nat /\ rcvevent > 0
  BY <1>0 DEF Parts, SelInv
<1>2. Unminused = 1 /\ Unminused' = 0 /\ Uncounted' = Uncounted /\ Uncounted \in Nat
      /\ OSEvent' = OSEvent
  BY <1>0 DEF Unminused, Uncounted, osVars
<1>3. Len(OSEvent["recvmbox"].Q) + Unminused = rcvevent + Uncounted
      /\ Len(OSEvent["recvmbox"].Q) \in Nat
  <2>1. OSEvent["recvmbox"].Q \in Seq(Msgs)
    BY <1>0, SelNames DEF Parts, KernelInv, KernelType, EventBlocks
  <2> QED
    BY <1>0, <2>1, LenProperties DEF Parts, SelInv
<1>4. Len(OSEvent'["recvmbox"].Q) + Unminused' = rcvevent' + Uncounted' /\ rcvevent' \in Nat
  BY <1>0, <1>1, <1>2, <1>3
<1>5. SelInv'
  BY <1>0, <1>1, <1>4 DEF Parts, SelInv
<1> QED
  BY <1>0, <1>5, SelMoves

-----------------------------------------------------------------------------
(* The driver and the tick.                                                *)
LEMMA InputKeeps == ASSUME Inv, tcpip_input PROVE Inv'
<1>0. Parts /\ packets < MaxPackets /\ packets' = packets + 1
      /\ UNCHANGED <<tcpipVars, timerVars, callVars, selVars, rcvevent, current, calls>>
      /\ UNCHANGED <<tpc, msg>>
  BY DEF Inv, Parts, tcpip_input, tcpipVars
<1>1. /\ KernelInv' /\ MsgInv' /\ OSRdyTbl \subseteq OSRdyTbl'
      /\ \A t \in Tasks : OSTCB'[t].EventPtr = OSTCB[t].EventPtr
      /\ \A e \in Events \ {"mbox"} : OSEvent'[e] = OSEvent[e]
  <2>1. CASE OSQPost("mbox", Packet) /\ owed' = Append(owed, Packet)
    <3>1. Packet \in Msgs
      BY DEF Msgs
    <3> QED
      BY <1>0, <2>1, <3>1, MboxPost
  <2>2. CASE UNCHANGED <<osVars, owed>>
    <3>1. KernelInv' /\ OSTCB' = OSTCB /\ OSEvent' = OSEvent /\ OSRdyTbl' = OSRdyTbl
      BY <1>0, <2>2, Still DEF Parts, osVars
    <3> QED
      BY <1>0, <2>2, <3>1, MsgFrame DEF Parts
  <2> QED
    BY <2>1, <2>2 DEF tcpip_input
<1>2. PtrInv'
  BY <1>0, <1>1, Names DEF Parts, PtrInv, callVars, selVars
<1>3. ThreadType'
  BY <1>0 DEF Parts, ThreadType, tcpipVars
<1>4. CallType'
  <2>1. packets' \in 0..MaxPackets
    BY <1>0, TimesAssumption DEF Parts, CallType
  <2> QED
    BY <1>0, <2>1 DEF Parts, CallType, callVars
<1>5. TimerInv'
  BY <1>0, TimerFrame DEF Parts, timerVars, tcpipVars
<1>6. SelInv'
  BY <1>0, <1>1, SelFrame, Names DEF Parts, selVars
<1> QED
  BY <1>1, <1>2, <1>3, <1>4, <1>5, <1>6 DEF Inv

LEMMA TickStepKeeps == ASSUME Inv, Tick PROVE Inv'
<1>0. Parts /\ OSTimeTick
      /\ UNCHANGED <<tpc, msg, limit, fired, timerVars, callVars, selVars, rcvevent, current, packets,
                     calls, owed>>
  BY DEF Inv, Parts, Tick, countVars
<1>1. /\ KernelInv' /\ OSEvent' = OSEvent /\ OSRdyTbl \subseteq OSRdyTbl'
      /\ \A t \in Tasks : /\ OSTCB'[t].EventPtr = OSTCB[t].EventPtr
                          /\ OSTCB'[t].Msg = OSTCB[t].Msg
  BY <1>0, TickKeeps DEF Parts
<1>2. PtrInv'
  BY <1>0, <1>1, Names DEF Parts, PtrInv, callVars, selVars
<1>3. ThreadType'
  <2>1. waited' \in 0..MaxWaited
    <3>1. waited \in 0..MaxWaited /\ MaxWaited \in Nat
      BY <1>0, TimesNat DEF Parts, ThreadType
    <3>2. waited' = waited \/ (waited < MaxWaited /\ waited' = waited + 1)
      BY DEF Tick
    <3> QED
      BY <3>1, <3>2
  <2> QED
    BY <1>0, <2>1 DEF Parts, ThreadType
<1>4. CallType'
  BY <1>0 DEF Parts, CallType, callVars
<1>5. TimerInv'
  BY <1>0, TimerFrame DEF Parts, timerVars
<1>6. MsgInv'
  BY <1>0, <1>1, MsgFrame, Names DEF Parts
<1>7. SelInv'
  BY <1>0, <1>1, SelFrame DEF Parts, selVars
<1> QED
  BY <1>1, <1>2, <1>3, <1>4, <1>5, <1>6, <1>7 DEF Inv

-----------------------------------------------------------------------------
(* The invariant is inductive.                                             *)
LEMMA StutterKeeps == ASSUME Inv, UNCHANGED vars PROVE Inv'
<1>0. Parts /\ UNCHANGED <<osVars, tpc, msg, limit, waited, fired, next_timeout, torn, Enable, starts,
                           cpc, tries, spc, sem_signalled, select_waiting, rcvevent, current, packets,
                           calls, owed>>
  BY DEF Inv, Parts, vars, tcpipVars, timerVars, callVars, selVars, countVars
<1>1. KernelInv'
  BY <1>0, Still DEF Parts
<1>2. PtrInv' /\ ThreadType' /\ CallType'
  BY <1>0 DEF Parts, PtrInv, ThreadType, CallType, osVars
<1>3. TimerInv' /\ MsgInv' /\ SelInv'
  BY <1>0, TimerFrame, MsgFrame, SelFrame DEF Parts, osVars
<1> QED
  BY <1>1, <1>2, <1>3 DEF Inv

LEMMA NextKeeps == Inv /\ [Next]_vars => Inv'
<1> SUFFICES ASSUME Inv, [Next]_vars PROVE Inv'
  OBVIOUS
<1>1. CASE TcpipStep
  BY <1>1, FetchKeeps, PendKeeps, ResumeKeeps, AdjustKeeps, ExpireKeeps, UnlinkKeeps,
     FireKeeps, InsertKeeps, LinkKeeps, CallKeeps, AnswerKeeps, PacketKeeps, EventKeeps
     DEF TcpipStep
<1>2. CASE SelStep
  BY <1>2, ScanKeeps, EnlistKeeps, RescanKeeps, SelWaitKeeps, SelResumeKeeps, LeaveKeeps,
     RecvKeeps, MinusKeeps DEF SelStep
<1>3. ASSUME NEW c \in Callers, CallBegins(c) \/ CallerStep(c) PROVE Inv'
  BY <1>3, BeginKeeps, PostsKeeps, FailsKeeps, WaitsKeeps, CallResumesKeeps, EndKeeps
     DEF CallerStep
<1>4. CASE tcpip_input \/ Tick \/ DHCPS_Start \/ DHCPS_Stop
  BY <1>4, InputKeeps, TickStepKeeps, StartKeeps, StopKeeps
<1>5. CASE UNCHANGED vars
  BY <1>5, StutterKeeps
<1> QED
  BY <1>1, <1>2, <1>3, <1>4, <1>5 DEF Next

LEMMA InvHolds == Spec => []Inv
<1>1. Init => Inv
  BY InitInv
<1>2. Inv /\ [Next]_vars => Inv'
  BY NextKeeps
<1> QED
  BY <1>1, <1>2, PTL DEF Spec

(* The kernel's wait lists agree with its control blocks, and no task      *)
(* waits for a message or a count that is there, whatever the order of     *)
(* posts, pends and time-outs (OS_EventTaskRdy, OSQPost, OSQPend,          *)
(* OSSemPend, OSTimeTick); the timer list never outgrows its pool.         *)
THEOREM WaitsCorrect == Spec => []WaitsSound
<1>1. Inv => WaitsSound
  BY InvImplies
<1> QED
  BY <1>1, InvHolds, PTL

(* No timer is lost while the DHCP server is started and stopped under the *)
(* thread (sys_timeout, sys_untimeout, sys_timeouts_mbox_fetch, arp_timer, *)
(* _DhcpTickHandle), but for a change of the list that came into the       *)
(* middle of another.                                                      *)
THEOREM TimersCorrect == Spec => []TimersKept
<1>1. Inv => TimersKept
  BY InvImplies
<1> QED
  BY <1>1, InvHolds, PTL

(* Every message the mailbox of tcpip_thread accepted is handled once and  *)
(* in order (OSQPost, sys_arch_mbox_fetch).                                *)
THEOREM MessagesCorrect == Spec => []MessagesInOrder
<1>1. Inv => MessagesInOrder
  BY InvImplies
<1> QED
  BY <1>1, InvHolds, PTL

(* lwip_select neither sleeps over a packet nor promises one that is not   *)
(* there (lwip_select, event_callback, netconn_recv_data).                 *)
THEOREM SelectCorrect == Spec => []SelectWorks
<1>1. Inv => SelectWorks
  BY InvImplies
<1> QED
  BY <1>1, InvHolds, PTL
=============================================================================
