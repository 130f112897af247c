------------------------------- MODULE Tcpip --------------------------------
(***************************************************************************)
(* How the tasks of the firmware meet the network stack: the tcpip_thread  *)
(* that owns lwIP, its mailbox and its timers, the tasks that call the     *)
(* socket API, a task in lwip_select, the receive task of the driver and   *)
(* the DHCP server's timer, over the port of lwIP to uC/OS-II              *)
(* (sys_arch.c) and the kernel of module Ucos.                             *)
(*                                                                         *)
(* Time is kept relative: waited counts the ticks since the thread read    *)
(* OSTimeGet, so that the 32-bit tick counter, which wraps after 497 days, *)
(* is not a variable.  A semaphore has the name of the task that owns it.  *)
(***************************************************************************)
EXTENDS Ucos, Integers

CONSTANTS
    Callers,      \* the tasks that call the socket API
    MsPerTick,    \* 1000 / OS_TICKS_PER_SEC
    ArpMs,        \* ARP_TMR_INTERVAL
    DhcpsMs,      \* DHCP_TICK_TIME
    SelTicks,     \* the time-out of select, in ticks
    PostTries,    \* the tries of _sys_mbox_post
    PostDly,      \* the ticks between two of them
    NumTimeout,   \* MEMP_NUM_SYS_TIMEOUT
    MaxPackets,   \* bound: packets the driver receives
    MaxCalls,     \* bound: calls of the socket API, of all tasks together
    MaxStarts     \* bound: starts of the DHCP server

ASSUME TimesAssumption ==
    /\ {MsPerTick, ArpMs, DhcpsMs, SelTicks, PostTries, PostDly} \subseteq Nat \ {0}
    /\ {MaxPackets, MaxCalls, MaxStarts} \subseteq Nat
    /\ NumTimeout \in Nat /\ NumTimeout > 2

ASSUME TasksAssumption ==
    /\ Tasks = Callers \cup {"tcpip", "sel"}
    /\ {"tcpip", "sel", "mbox", "recvmbox", "packet", "none"} \cap Callers = {}
    /\ NoMsg \notin Callers \cup {"packet"}
    /\ Queues = {"mbox", "recvmbox"} /\ Sems = Callers \cup {"sel"}

VARIABLES
    tpc,            \* where tcpip_thread is
    msg,            \* the message it fetched
    limit,          \* ucos_timeout of the fetch; 0 waits for ever
    waited,         \* ticks since the fetch read OSTimeGet
    next_timeout,   \* the timer list: handler and milliseconds after the one before
    fired,          \* the handler to call
    torn,           \* history: a change of the list came into the middle of another
    Enable,         \* DhcpServer.Enable
    starts,         \* starts of the DHCP server so far
    cpc, tries,     \* per caller: where it is, and i of _sys_mbox_post
    spc,            \* where the task in lwip_select is
    sem_signalled,  \* of its select_cb
    select_waiting, \* its select_cb is listed and counted for the socket
    rcvevent,       \* of the socket
    current,        \* the callers whose message is conn->current_msg
    packets, calls, \* packets received and calls made so far
    owed            \* what the mailbox accepted and the thread has not handled

tcpipVars == <<tpc, msg, limit, waited, fired>>
timerVars == <<next_timeout, torn, Enable, starts>>
callVars == <<cpc, tries>>
selVars == <<spc, sem_signalled, select_waiting>>
countVars == <<current, packets, calls, owed>>
vars == <<osVars, tcpipVars, timerVars, callVars, selVars, rcvevent, countVars>>

Packet == "packet"

\* Where waited stops counting: no timer of the list is due so late, and what
\* follows a fetch is the same for every longer wait.
MaxWaited == IF ArpMs > DhcpsMs THEN ArpMs \div MsPerTick + 1 ELSE DhcpsMs \div MsPerTick + 1

Init ==
    /\ OSRdyTbl = {"tcpip", "sel"}
    /\ OSTCB = [t \in Tasks |-> IdleTCB]
    /\ OSEvent = [e \in Events |-> NewEvent]
    /\ tpc = "fetch" /\ msg = NoMsg /\ limit = 0 /\ waited = 0 /\ fired = "none"
    /\ next_timeout = <<[h |-> "arp", time |-> ArpMs]>>
    /\ torn = FALSE /\ Enable = FALSE /\ starts = 0
    /\ cpc = [c \in Callers |-> "idle"] /\ tries = [c \in Callers |-> 0]
    /\ spc = "scan" /\ sem_signalled = FALSE
    /\ select_waiting = FALSE /\ rcvevent = 0
    /\ current = {} /\ packets = 0 /\ calls = 0 /\ owed = <<>>

----------------------------------------------------------------------------
(* The timer list.  A timer's time counts from the expiry of the one before *)

\* Where sys_timeout inserts: before the first timer that is due later.
DueAt(l, i) ==
    LET due[k \in 0..Len(l)] == IF k = 0 THEN 0 ELSE due[k - 1] + l[k].time
    IN  due[i]

Later(l, ms) == {i \in DOMAIN l : DueAt(l, i) > ms}

sys_timeout(l, ms, handler) ==
    LET i == IF Later(l, ms) = {} THEN Len(l) + 1
             ELSE CHOOSE j \in Later(l, ms) : \A k \in Later(l, ms) : j <= k
        time == ms - DueAt(l, i - 1)
        rest == SubSeq(l, i, Len(l))
    IN  IF Len(l) = NumTimeout THEN l
        ELSE SubSeq(l, 1, i - 1) \o <<[h |-> handler, time |-> time]>>
             \o (IF rest = <<>> THEN rest ELSE [rest EXCEPT ![1].time = @ - time])

\* Mutant: the head of the list is taken out, whatever its handler.
MutSysUntimeout(l, handler) == IF l = <<>> THEN l ELSE Tail(l)

\* The first timer of handler is taken out, and its time given to the next.
sys_untimeout(l, handler) ==
    LET match == {i \in DOMAIN l : l[i].h = handler}
        i == CHOOSE j \in match : \A k \in match : j <= k
        rest == SubSeq(l, i + 1, Len(l))
    IN  IF match = {} THEN l
        ELSE SubSeq(l, 1, i - 1)
             \o (IF rest = <<>> THEN rest ELSE [rest EXCEPT ![1].time = @ + l[i].time])

\* Nothing protects the list.  A task above tcpip_thread puts l in its place,
\* and the thread may hold a pointer or a time it read before: in adjust and
\* unlink that of the first timer, which matters when that one is changed
\* (first), in link any.  Its next write then links a timer behind a freed one,
\* the free list into the timers, or lets a time wrap.  From there on the model
\* knows nothing of the list: the thread may find in it what it can find in any.
Replaces(l, first) ==
    IF \/ torn
       \/ l # next_timeout /\ (tpc = "link" \/ (tpc \in {"adjust", "unlink"} /\ first))
    THEN torn' = TRUE /\ next_timeout' = <<>>
    ELSE torn' = FALSE /\ next_timeout' = l

\* tcpip_thread itself writes.
Writes(l) == next_timeout' = (IF torn THEN <<>> ELSE l) /\ UNCHANGED torn

----------------------------------------------------------------------------
(* sys_timeouts_mbox_fetch and _sys_arch_mbox_fetch                         *)

Ticks(ms) == IF ms < MsPerTick THEN 1 ELSE ms \div MsPerTick

\* The milliseconds a fetch reports.  A fetch that ends in the tick it began
\* in takes the branch for a wrapped counter, and reports half a day.
Huge == MaxWaited * MsPerTick + 1

Spent(ticks) == IF ticks > 0 THEN ticks * MsPerTick + 1 ELSE Huge

Pends(ticks) == tpc' = "pend" /\ limit' = ticks
Expires == tpc' = "expire" /\ limit' = 0

TcpipFetch ==
    /\ Runs("tcpip") /\ tpc = "fetch"
    /\ waited' = 0
    /\ IF torn THEN (\E ticks \in {0, 1} : Pends(ticks)) \/ Expires
       ELSE IF next_timeout = <<>> THEN Pends(0)
       ELSE IF next_timeout[1].time > 0 THEN Pends(Ticks(next_timeout[1].time))
       ELSE Expires
    /\ UNCHANGED <<osVars, msg, fired, timerVars, callVars, selVars, rcvevent, countVars>>

\* With a message the thread reads the first timer's time, unless the list was
\* empty, and without one the first timer.  What it does between the kernel's
\* last look and this read touches nothing that others see: one step.
Fetched(m) == tpc' = (IF limit = 0 THEN "handle" ELSE "adjust") /\ msg' = m

TcpipPend ==
    /\ Runs("tcpip") /\ tpc = "pend"
    /\ \/ OSQTake("mbox") /\ Fetched(Head(OSEvent["mbox"].Q))
       \/ OSQPend("tcpip", "mbox", limit) /\ tpc' = "blocked" /\ UNCHANGED msg
    /\ UNCHANGED <<limit, waited, fired, timerVars, callVars, selVars, rcvevent, countVars>>

TcpipResume ==
    /\ Runs("tcpip") /\ tpc = "blocked"
    /\ PendReturns("tcpip", "mbox")
    /\ IF OSTCB["tcpip"].StatPend = "TO"
       THEN tpc' = "unlink" /\ waited' = 0 /\ limit' = 0 /\ UNCHANGED msg
       ELSE Fetched(OSTCB["tcpip"].Msg) /\ UNCHANGED <<waited, limit>>
    /\ UNCHANGED <<fired, timerVars, callVars, selVars, rcvevent, countVars>>

\* The first timer is brought forward by the time spent waiting.
TcpipAdjust ==
    /\ Runs("tcpip") /\ tpc = "adjust"
    /\ Writes([next_timeout EXCEPT ![1].time =
                 IF Spent(waited) < @ THEN @ - Spent(waited) ELSE 0])
    /\ tpc' = "handle" /\ waited' = 0 /\ limit' = 0
    /\ UNCHANGED <<osVars, msg, fired, Enable, starts, callVars, selVars, rcvevent, countVars>>

\* The time is up already: the first timer is read (tmptimeout).
TcpipExpire ==
    /\ Runs("tcpip") /\ tpc = "expire"
    /\ tpc' = "unlink"
    /\ UNCHANGED <<osVars, msg, limit, waited, fired, timerVars, callVars, selVars, rcvevent,
                   countVars>>

\* It is unlinked, and its handler called.
TcpipUnlink ==
    /\ Runs("tcpip") /\ tpc = "unlink"
    /\ fired' \in IF torn THEN {"arp", "dhcps"} ELSE {next_timeout[1].h}
    /\ Writes(Tail(next_timeout))
    /\ tpc' = "fire"
    /\ UNCHANGED <<osVars, msg, limit, waited, Enable, starts, callVars, selVars, rcvevent,
                   countVars>>

\* arp_timer and _DhcpTickHandle start themselves again, the second only when
\* it found its server enabled, and not before it went through the clients.
TcpipFire ==
    /\ Runs("tcpip") /\ tpc = "fire"
    /\ \/ fired = "arp" /\ tpc' = "link" /\ UNCHANGED fired
       \/ fired = "dhcps" /\ Enable /\ tpc' = "insert" /\ UNCHANGED fired
       \/ fired = "dhcps" /\ ~Enable /\ tpc' = "fetch" /\ fired' = "none"
    /\ UNCHANGED <<osVars, msg, limit, waited, timerVars, callVars, selVars, rcvevent,
                   countVars>>

\* sys_timeout: memp_malloc and the walk along the list, then the links.
TcpipInsert ==
    /\ Runs("tcpip") /\ tpc = "insert"
    /\ tpc' = "link"
    /\ UNCHANGED <<osVars, msg, limit, waited, fired, timerVars, callVars, selVars, rcvevent,
                   countVars>>

TcpipLink ==
    /\ Runs("tcpip") /\ tpc = "link"
    /\ Writes(sys_timeout(next_timeout, IF fired = "arp" THEN ArpMs ELSE DhcpsMs, fired))
    /\ fired' = "none" /\ tpc' = "fetch"
    /\ UNCHANGED <<osVars, msg, limit, waited, Enable, starts, callVars, selVars, rcvevent,
                   countVars>>

----------------------------------------------------------------------------
(* tcpip_thread's messages                                                  *)

\* Mutant: a call handled while another task waits is not acknowledged.
MutTcpipCall ==
    /\ Runs("tcpip") /\ tpc = "handle" /\ msg \in Callers
    /\ IF OSEvent["mbox"].Q = <<>> THEN OSSemPost(msg) ELSE UNCHANGED osVars
    /\ tpc' = "fetch" /\ msg' = NoMsg /\ owed' = Tail(owed)
    /\ UNCHANGED <<limit, waited, fired, timerVars, callVars, selVars, rcvevent,
                   current, packets, calls>>

\* TCPIP_MSG_API: the function runs and acknowledges (TCPIP_APIMSG_ACK), or
\* keeps the message until the peer has answered: do_connect, do_write, and
\* do_close and do_delconn when tcp_close found no memory.
TcpipCall ==
    /\ Runs("tcpip") /\ tpc = "handle" /\ msg \in Callers
    /\ \/ OSSemPost(msg) /\ UNCHANGED current
       \/ current' = current \cup {msg} /\ UNCHANGED osVars
    /\ tpc' = "fetch" /\ msg' = NoMsg /\ owed' = Tail(owed)
    /\ UNCHANGED <<limit, waited, fired, timerVars, callVars, selVars, rcvevent,
                   packets, calls>>

\* do_connected, do_writemore, do_close_internal or err_tcp acknowledges the
\* message kept: with a segment of the peer, or in the timer of TCP, which runs
\* from the same list between two fetches and is not told from the fetch.
TcpipAnswer(c) ==
    /\ Runs("tcpip") /\ c \in current
    /\ \/ tpc = "handle" /\ msg = Packet /\ owed' = Tail(owed)
       \/ tpc = "fetch" /\ UNCHANGED owed
    /\ OSSemPost(c) /\ current' = current \ {c}
    /\ tpc' = "fetch" /\ msg' = NoMsg
    /\ UNCHANGED <<limit, waited, fired, timerVars, callVars, selVars, rcvevent,
                   packets, calls>>

\* TCPIP_MSG_INPKT, as far as recv_udp: into recvmbox, or dropped when full.
TcpipPacket ==
    /\ Runs("tcpip") /\ tpc = "handle" /\ msg = Packet
    /\ \/ OSQPost("recvmbox", Packet) /\ tpc' = "event"
       \/ OSQFull("recvmbox") /\ tpc' = "fetch" /\ UNCHANGED osVars
    /\ msg' = NoMsg /\ owed' = Tail(owed)
    /\ UNCHANGED <<limit, waited, fired, timerVars, callVars, selVars, rcvevent,
                   current, packets, calls>>

\* event_callback with NETCONN_EVT_RCVPLUS, under SYS_ARCH_PROTECT.
Signals == select_waiting /\ ~sem_signalled

TcpipEvent ==
    /\ Runs("tcpip") /\ tpc = "event"
    /\ rcvevent' = rcvevent + 1
    /\ IF Signals THEN sem_signalled' = TRUE /\ OSSemPost("sel")
       ELSE UNCHANGED <<sem_signalled, osVars>>
    /\ tpc' = "fetch"
    /\ UNCHANGED <<msg, limit, waited, fired, timerVars, callVars, spc,
                   select_waiting, countVars>>

TcpipStep == TcpipFetch \/ TcpipPend \/ TcpipResume \/ TcpipAdjust \/ TcpipExpire
             \/ TcpipUnlink \/ TcpipFire \/ TcpipInsert \/ TcpipLink
             \/ TcpipCall \/ (\E c \in Callers : TcpipAnswer(c)) \/ TcpipPacket \/ TcpipEvent

----------------------------------------------------------------------------
(* tcpip_apimsg in a task that calls the socket API                         *)

callerKeeps == <<tcpipVars, timerVars, selVars, rcvevent, current, packets>>

\* The task leaves what it waited for outside the stack and makes a call.
CallBegins(c) ==
    /\ cpc[c] = "idle" /\ calls < MaxCalls
    /\ calls' = calls + 1
    /\ OSRdyTbl' = OSRdyTbl \cup {c}
    /\ cpc' = [cpc EXCEPT ![c] = "post"] /\ tries' = [tries EXCEPT ![c] = 0]
    /\ UNCHANGED <<OSTCB, OSEvent, owed, callerKeeps>>

CallPosts(c) ==
    /\ Runs(c) /\ cpc[c] = "post"
    /\ OSQPost("mbox", c)
    /\ owed' = Append(owed, c)
    /\ cpc' = [cpc EXCEPT ![c] = "wait"]
    /\ UNCHANGED <<tries, calls, callerKeeps>>

\* _sys_mbox_post with a full mailbox: try again later, and after the last
\* try return as if the message were there.
PostFails(c) ==
    /\ Runs(c) /\ cpc[c] = "post" /\ OSQFull("mbox")
    /\ OSTimeDly(c, PostDly)
    /\ tries' = [tries EXCEPT ![c] = @ + 1]
    /\ cpc' = [cpc EXCEPT ![c] = IF tries[c] + 1 < PostTries THEN @ ELSE "wait"]
    /\ UNCHANGED <<owed, calls, callerKeeps>>

\* sys_arch_sem_wait(op_completed, 0).
CallWaits(c) ==
    /\ Runs(c) /\ cpc[c] = "wait"
    /\ \/ OSSemTake(c) /\ cpc' = [cpc EXCEPT ![c] = "done"]
       \/ OSSemPend(c, c, 0) /\ cpc' = [cpc EXCEPT ![c] = "blocked"]
    /\ UNCHANGED <<tries, owed, calls, callerKeeps>>

CallResumes(c) ==
    /\ Runs(c) /\ cpc[c] = "blocked"
    /\ PendReturns(c, c)
    /\ cpc' = [cpc EXCEPT ![c] = "done"]
    /\ UNCHANGED <<tries, owed, calls, callerKeeps>>

CallEnds(c) ==
    /\ Runs(c) /\ cpc[c] = "done"
    /\ OSRdyTbl' = OSRdyTbl \ {c}
    /\ cpc' = [cpc EXCEPT ![c] = "idle"] /\ tries' = [tries EXCEPT ![c] = 0]
    /\ UNCHANGED <<OSTCB, OSEvent, owed, calls, callerKeeps>>

CallerStep(c) ==
    CallPosts(c) \/ PostFails(c) \/ CallWaits(c) \/ CallResumes(c) \/ CallEnds(c)

\* The system manager starts and stops the DHCP server from its own task, which
\* breaks into tcpip_thread wherever that is: the list is changed under it.
DHCPS_Start ==
    /\ ~Enable /\ starts < MaxStarts
    /\ Replaces(sys_timeout(next_timeout, DhcpsMs, "dhcps"),
                next_timeout # <<>> /\ next_timeout[1].time > DhcpsMs)
    /\ Enable' = TRUE /\ starts' = starts + 1
    /\ UNCHANGED <<osVars, tcpipVars, callVars, selVars, rcvevent, countVars>>

DHCPS_Stop ==
    /\ Enable
    /\ Replaces(sys_untimeout(next_timeout, "dhcps"),
                next_timeout # <<>> /\ next_timeout[1].h = "dhcps")
    /\ Enable' = FALSE
    /\ UNCHANGED <<osVars, tcpipVars, starts, callVars, selVars, rcvevent, countVars>>

----------------------------------------------------------------------------
(* lwip_select on a UDP socket, and the lwip_recvfrom after it              *)

selKeeps == <<tcpipVars, timerVars, callVars, countVars>>

\* lwip_selscan, and sys_sem_new when nothing is there yet.
SelScan ==
    /\ Runs("sel") /\ spc = "scan"
    /\ IF rcvevent > 0 THEN spc' = "recv" /\ UNCHANGED osVars
       ELSE spc' = "enlist" /\ OSSemClear("sel")
    /\ UNCHANGED <<sem_signalled, select_waiting, rcvevent, selKeeps>>

\* select_cb is put on select_cb_list and counted in select_waiting: two
\* protected sections, but an event between them finds the count 0 and
\* signals nobody, as one before them does.
SelEnlist ==
    /\ Runs("sel") /\ spc = "enlist"
    /\ select_waiting' = TRUE /\ spc' = "rescan"
    /\ UNCHANGED <<osVars, sem_signalled, rcvevent, selKeeps>>

\* Mutant: no second scan.
MutSelRescan ==
    /\ Runs("sel") /\ spc = "rescan"
    /\ spc' = "wait"
    /\ UNCHANGED <<osVars, sem_signalled, select_waiting, rcvevent, selKeeps>>

\* The second scan: an event may have come before the task was on the list.
SelRescan ==
    /\ Runs("sel") /\ spc = "rescan"
    /\ spc' = IF rcvevent > 0 THEN "leave" ELSE "wait"
    /\ UNCHANGED <<osVars, sem_signalled, select_waiting, rcvevent, selKeeps>>

SelWait ==
    /\ Runs("sel") /\ spc = "wait"
    /\ \/ OSSemTake("sel") /\ spc' = "leave"
       \/ OSSemPend("sel", "sel", SelTicks) /\ spc' = "blocked"
    /\ UNCHANGED <<sem_signalled, select_waiting, rcvevent, selKeeps>>

SelResume ==
    /\ Runs("sel") /\ spc = "blocked"
    /\ PendReturns("sel", "sel")
    /\ spc' = IF OSTCB["sel"].StatPend = "TO" THEN "expired" ELSE "leave"
    /\ UNCHANGED <<sem_signalled, select_waiting, rcvevent, selKeeps>>

\* Off the count and the list, sys_sem_free, and the last scan, which a
\* select that timed out leaves out.
SelLeave ==
    /\ Runs("sel") /\ spc \in {"leave", "expired"}
    /\ select_waiting' = FALSE /\ sem_signalled' = FALSE
    /\ OSSemClear("sel")
    /\ spc' = IF spc = "leave" /\ rcvevent > 0 THEN "recv" ELSE "scan"
    /\ UNCHANGED <<rcvevent, selKeeps>>

\* netconn_recv_data: the message, then NETCONN_EVT_RCVMINUS.
SelRecv ==
    /\ Runs("sel") /\ spc = "recv"
    /\ OSQTake("recvmbox")
    /\ spc' = "minus"
    /\ UNCHANGED <<sem_signalled, select_waiting, rcvevent, selKeeps>>

SelMinus ==
    /\ Runs("sel") /\ spc = "minus"
    /\ rcvevent' = rcvevent - 1
    /\ spc' = "scan"
    /\ UNCHANGED <<osVars, sem_signalled, select_waiting, selKeeps>>

SelStep == SelScan \/ SelEnlist \/ SelRescan \/ SelWait \/ SelResume \/ SelLeave
           \/ SelRecv \/ SelMinus

----------------------------------------------------------------------------
(* The driver's receive task, above them all, and the tick interrupt        *)

\* tcpip_input: sys_mbox_trypost, and the packet is freed when it fails.
tcpip_input ==
    /\ packets < MaxPackets
    /\ packets' = packets + 1
    /\ \/ OSQPost("mbox", Packet) /\ owed' = Append(owed, Packet)
       \/ OSQFull("mbox") /\ UNCHANGED <<osVars, owed>>
    /\ UNCHANGED <<tcpipVars, timerVars, callVars, selVars, rcvevent, current, calls>>

Fetching == tpc \in {"pend", "blocked"}

Tick ==
    /\ OSTimeTick
    /\ waited' = IF Fetching /\ limit > 0 /\ waited < MaxWaited THEN waited + 1 ELSE waited
    /\ UNCHANGED <<tpc, msg, limit, fired, timerVars, callVars, selVars, rcvevent,
                   countVars>>

Next ==
    \/ TcpipStep \/ SelStep \/ tcpip_input \/ Tick \/ DHCPS_Start \/ DHCPS_Stop
    \/ \E c \in Callers : CallBegins(c) \/ CallerStep(c)

Spec == Init /\ [][Next]_vars

\* Ticks come, and the ready task with the highest priority makes progress.
\* The processor is not saturated: between two ticks it executes thousands of
\* the steps modelled, so that the tasks below tcpip_thread, which is ready
\* again at every expiry, get their turn.
FairSpec ==
    /\ Spec /\ WF_vars(Tick) /\ WF_vars(TcpipStep)
    /\ SF_vars(\E c \in Callers : CallerStep(c))

----------------------------------------------------------------------------
\* The shape of the state, with the kernel's wait lists.
TypeOK ==
    /\ KernelOK
    /\ tpc \in {"fetch", "pend", "blocked", "adjust", "expire", "unlink", "fire",
                "insert", "link", "handle", "event"}
    /\ msg \in Callers \cup {Packet, NoMsg}
    /\ limit \in Nat /\ waited \in 0..MaxWaited
    /\ next_timeout \in Seq([h : {"arp", "dhcps"}, time : Nat])
    /\ Len(next_timeout) <= NumTimeout
    /\ torn \in BOOLEAN /\ Enable \in BOOLEAN /\ starts \in 0..MaxStarts
    /\ \A c \in Callers :
        cpc[c] \in {"idle", "post", "wait", "blocked", "done"} /\ tries[c] \in 0..PostTries
    /\ select_waiting \in BOOLEAN /\ sem_signalled \in BOOLEAN
    /\ rcvevent \in Nat /\ current \subseteq Callers
    /\ packets \in 0..MaxPackets /\ calls \in 0..MaxCalls

\* The waits are sound: wait lists and control blocks of the kernel agree,
\* and nobody waits for what is already there (OS_EventTaskRdy, OSQPend and
\* OSSemPend, whatever the order of posts and time-outs).
WaitsSound == TypeOK /\ NobodyWaitsInVain

\* Every message the mailbox accepted reaches tcpip_thread once and in order,
\* though a post and the time-out of a fetch (OSQPost, OSTimeTick, OSQPend)
\* may come in any order: what is owed is the message in the thread's hands
\* or in its control block, and then the queue.
InHand ==
    CASE tpc \in {"adjust", "handle"} -> <<msg>>
      [] tpc = "blocked" /\ OSTCB["tcpip"].Msg # NoMsg -> <<OSTCB["tcpip"].Msg>>
      [] OTHER -> <<>>

MessagesInOrder == owed = InHand \o OSEvent["mbox"].Q

\* lwip_select neither sleeps over a packet nor promises one that is not
\* there: a task asleep in it has no event waiting that event_callback has
\* finished with, and lwip_recvfrom after it finds the recvmbox filled.
SelectWorks ==
    /\ spc = "blocked" /\ "sel" \notin OSRdyTbl => rcvevent = 0
    /\ spc = "recv" => OSEvent["recvmbox"].Q # <<>>

\* No timer is lost, however often the DHCP server's is stopped and started
\* under the thread: arp_timer is on the list or about to put itself back, once,
\* and so is _DhcpTickHandle while the server is enabled.  A stop and a start in
\* the middle of its handler leave the server a second timer, which halves every
\* lease, but never a third; after a stop one at most is left, which expires in
\* vain.  All this but for a change that came into the middle of another.
InHandler == tpc \in {"fire", "insert", "link"}
Held == IF InHandler THEN 1 ELSE 0
Returning(handler) == InHandler /\ fired = handler
On(handler) == \E i \in DOMAIN next_timeout : next_timeout[i].h = handler

TimersKept ==
    \/ torn
    \/ /\ On("arp") <=> ~Returning("arp")
       /\ \A i, j \in DOMAIN next_timeout :
            next_timeout[i].h = "arp" /\ next_timeout[j].h = "arp" => i = j
       /\ Enable => On("dhcps") \/ Returning("dhcps")
       /\ Len(next_timeout) + Held <= IF Enable THEN 3 ELSE 2

\* A call of the socket API is never on its way for ever: it returns, also when
\* lwIP kept it and the peer has answered at last, unless lwIP keeps it for a peer
\* that never answers (netconn_connect and netconn_write have no time-out),
\* _sys_mbox_post dropped its message after the last try, or the list was torn.
Dropped(c) == tries[c] = PostTries

ApiReturns ==
    \A c \in Callers : []<>(cpc[c] = "idle" \/ c \in current \/ Dropped(c) \/ torn)

\* _sys_arch_mbox_fetch reports the time it waited: the first timer is never
\* brought forward by more than the ticks since the fetch began, with one
\* tick of rounding.
FetchTimeTrue ==
    [][tpc = "adjust" /\ tpc' = "handle" /\ ~torn =>
         next_timeout'[1].time + (waited + 1) * MsPerTick >= next_timeout[1].time]_vars

============================================================================
