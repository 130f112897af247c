# A verification project for the NL6621 SerialNet / WebServer SDK

The SDK is the firmware of a serial-to-Wi-Fi module. A host talks to it over a
UART, either in *AT mode* (commands) or in *data mode*, where the module is a
transparent bridge between the UART and one TCP or UDP session. It can also be
a soft access point with its own DHCP and DNS server and a configuration web
page. It runs on uC/OS-II with lwIP; the 802.11 MAC is a binary library.

This directory holds TLA+ modules that model the parts of the firmware whose
correctness depends on interleaving, on long histories or on arithmetic at a
boundary, the TLC configurations that check them on small instances, and TLAPS
proofs of their main invariants for every value of the constants.
`PROJECT.json` lists components, runs, the map from definitions to source
lines, findings, hazards and theorems.

All paths below are relative to `src/Source/`.

## 1. Inventory

| component | state | operations | interacts with |
|---|---|---|---|
| memory pool (`Ports/Cortex-M3/os_dmem.c`) | a doubly linked circular list of blocks in one array, search pointer, available bytes | OSMMalloc, OSMCalloc, OSMFree | every task |
| network to serial (`App/SerialNet/socketCom.c`) | `uart_send_data`, `uart_send_len`, the flags `uart_hasData`, `uart_sendStart` | RecvThread's receive loop, UartSendThread | mode, interrupt handler |
| serial to network (`at_cmd.c`, `socketCom.c`, `serialNet.c`) | `uart_rec_data`, `uart_rec_len`, `net_send_data`, `net_send_len`, `net_sendStart`, `end_sendFlags`, mailbox `uartMessgSem`, semaphore `modeSwitchSem`, timer, `WifiConnStatus` | interrupt handler, timer callback, UartRecvThread, SendThread, RecvThread, the mode switch of TestSerialToWifi, AT+QUIT | link events, lwIP sockets |
| DHCP server (`App/DhcpServer`) | table of eight client entries, tick timer, socket | DISCOVER, REQUEST, RELEASE, DECLINE, other messages, tick, start, stop, delete | access point, stations |
| AT command line (`at_cmd.c`) | `uart_rec_data` again, `uart_recvEnd`, `recv_start` | interrupt handler in AT mode, AtThread, the command table | parameters, link |
| parameter store and boot (`serialNet.c`, `BSP/flash.c`) | `UserParam`, `FactoryParam`, two flash sectors | read, erase, program with retries, check and default, reset | AT commands, web page |
| link events (`Sys/app_main.c`, `Sys/sys_mgmt.c`, `LwIP/port/lwIP.c`) | `link_status`, the interface, DHCP client and server, the event queue | link up, down, DHCP failure, scan done, the AT commands that start and stop the link | everything above |
| lwIP's DHCP client (`LwIP/src/core/dhcp.c`) | state, tries, the lease on the interface | offer, ack, nak, conflict, time-outs, renewal, release | link events |
| UDP sessions, broadcast configuration (`socketCom.c`) | `WifiConnStatus`, `broadcast_status` | UDPSendTask, UDPRecvTask, BCTRecvThread | bridge |
| lwIP port (`LwIP/port/sys_arch.c`) | mailbox pool, semaphores, time | post, fetch with timeout, sem wait | lwIP, kernel |
| lwIP's API (`LwIP/src/api`, `core/timers.c`) | timer list, message of tcpip_thread, `select_cb`, `rcvevent` | tcpip_thread, tcpip_apimsg, lwip_select, sys_timeout | kernel, every task with a socket |
| kernel (`uCOS-II`) | ready list, control blocks, wait lists, queues, counts | post, pend, delay, tick | every task |
| web server (`App/Webserver`) | connection table, sockets, state of a firmware upload | listen, accept, receive, parse, answer, update, time out | parameters, flash, link |
| DNS server, ping, string library | none or a socket | answer, echo, convert | |
| protocols of lwIP, drivers, MAC library | | | vendored or binary |

What is hard to test here, in one paragraph each (the list with lines is
`hazards` in `PROJECT.json`):

* **Unprotected sharing.** The bridge has no critical sections. An interrupt
  handler, a timer callback and four tasks share two buffers and five flags;
  every property of the bridge is a property of the order of single
  statements. Correctness: data keeps its order, is not sent or printed twice,
  a buffer is not overwritten under its reader, and nothing stays behind.
* **The escape.** `+++\r\n` ends data mode only as a frame of its own. It is
  recognised in two places, announced by a semaphore that counts, and checked
  again after a delay; messages that start and stop the timer may be lost.
  Correctness: an escape takes effect, and nothing else does.
* **Long histories.** The pool must survive any order of allocations and frees;
  an error in one of the merges shows much later, somewhere else.
* **Protocols with partial failure.** The DHCP server's answers may be lost,
  stations vanish, restart and retry. Correctness: an acknowledged address is
  not given to somebody else, and no station takes up two entries.
* **Power failure.** Parameters and firmware are rewritten in place, in several
  steps. Correctness: what a boot finds is what was saved, or a remainder that
  can be stated; only a whole image is booted.
* **Events that overtake each other.** The system manager waits for a DHCP
  server in the middle of handling "link up" while commands change what it will
  read. Correctness: when the queue is empty, what the device believes of its
  link is true.
* **Lost wake-ups.** A post and a time-out meet; a packet comes between a test
  and the sleep after it. Correctness: nobody sleeps over what is there.
* **Arithmetic at boundaries.** Rounding of sizes, a full buffer, a retry
  counter tested after its decrement, two ticks that are equal.

## 2. Modules

| module | what it is |
|---|---|
| `MemPool` | what callers may expect of malloc and free |
| `Dmem` | os_dmem.c, with the refinement of `MemPool` |
| `DmemProofs` | proofs about `Dmem` |
| `SerialPipe` | what network-to-serial promises: an order-preserving pipe of two chunks |
| `SerialOut` | RecvThread's loop and UartSendThread, with the refinement of `SerialPipe` |
| `SerialOutProofs` | proofs about `SerialOut` |
| `SerialIn` | serial-to-network, the connection and the mode switch |
| `SerialInProofs` | proofs about `SerialIn` |
| `AtLine` | the AT command line: interrupt handler in AT mode and AtThread |
| `AtLineProofs` | proofs about `AtLine` |
| `DhcpServer` | dhcp_server.c and the stations |
| `DhcpProofs` | proofs about `DhcpServer` |
| `ParamStore` | parameters in flash, boot, and the commands that save |
| `WebServer` | the connection table of the web server and the firmware upload |
| `WebProofs` | proofs about `WebServer` |
| `LinkEvents` | system manager, link commands, SoftApConfThread |
| `LinkProofs` | proofs about `LinkEvents` |
| `Ucos` | the kernel's queues, semaphores, delays and priorities |
| `Tcpip` | tcpip_thread, its timers, the socket API and lwip_select, over `Ucos` |
| `MCTcpip` | `Tcpip` with four tasks, for TLC |
| `TcpipProofs` | proofs about `Ucos` and `Tcpip` |

### Dmem

An address is an offset from the start of the array. `live` is the set of
headers in the list, `dm_next`, `dm_prev` and `dm_free` their fields, `held`
(not in the code) what the callers hold and how much they asked for. The calls
run with interrupts masked and exclude each other, so `FreeMem` is one step;
OS_GetMem is a step for its entry, one for each turn of its search loop and one
for its outcome, because when the loop stops is itself a question. Sizes are
rounded as in the code, modulo 2^32 (`UIntRange`); that no caller asks for a
size that wraps is the assumption `SizesAssumption`. A caller frees only what
it holds. OS_DelMemPool has no caller and is left out. `FreeBytes` is the set
of bytes in free blocks; `dm_available` has to be its size.

### SerialOut

Every statement that touches a shared variable is a step, so TLC sees more
interleavings than the fixed priorities allow. A chunk is its number and its
length. `rpc` is RecvThread (both TCPRecvTask and UDPRecvTask have this loop),
`upc` is UartSendThread. `EscapeBlanks` is the `memset` of the interrupt
handler, which may hit at any moment; `SwitchMode` stands for the escape and
AT+QUIT. `received` and `printed` are histories.

### SerialIn

A character is its position in the input, so that order and repetition can be
seen. The interrupt handler is atomic (nothing interrupts it) and may come
between any two statements. The timer task has a higher priority than the
tasks modelled: once inside `timerFuncProcess` (`tpc # "idle"`) only the
interrupt handler moves. SendThread's and RecvThread's statements are steps of
their own where a step of another actor in between matters; the tests and the
assignments of the interrupt handler, of `responseQUIT` and of END in
TCPRecvTask are single steps. The mailbox holds one message and loses the next;
the semaphore counts up to `SemMax`. `fd` says whether `WifiConnStatus` holds
the descriptor of a connection: accept may fail, and the mode switch closes it.
SendThread and RecvThread are followed through their TCP tasks with
`TCP_ONEFRAME_SEND_SWITCH` 0, as the code has it. In AT mode only the
timer, the ends of the tasks and AT+QUIT are modelled.

The handler, when it has seen the escape while the network buffer was taken,
writes the five characters into the buffer as literals; `Written` stands for
them, at position 0, since they are not the ones that arrived.

History variables: `input`, `lastSent` and `ordered` (order of what was sent),
`undisturbed` (no reset since send began) and `raced` (the handler emptied the
buffer under the timer).

### AtLine

The buffer `uart_rec_data` is a function on `0 .. BufSize`, because old text in
it matters; a character is one of the few the handler looks at. The handler is
atomic; AtThread is a step for finding a line, one for the command and one for
its critical section. The other writers of the buffer's variables are actions:
the timer of data mode (nobody stops it in AT mode), the end of a connection
(two assignments, two steps; RecvThread and SendThread are below AtThread, so
they run only while it sleeps or a command blocks) and the two halves of the
mode switch. `uart_rec_len` is modulo `UIntRange`; a string without an end in
the array is taken to the end of the array (`StrLen`).

Every store of the handler is looked at, the `'\0'` that ends an accepted line
too (`StoresAt`). It does leave the array: when a length was reset and its text
left (history `leftover`: an over-long line, the timer, the end of a
connection) and a newline comes before any other character, the old text is
taken for a command, the length 0 becomes 2^32 - 1, and the zero goes to the
byte before `uart_rec_data` (`at_cmd.c:2032-2035`). `StoresInside` names this
state, and the one that may follow it: between its two assignments the end of a
connection lets the handler use the wrapped length once more. Everywhere else
the handler stores inside.

The history `disturbed`
says that one of these others touched the line that is being typed. `garbled`
says that one of them touched the buffer since the handler last began with a
clear one; it ends when AtThread clears the buffer between two lines, when a
line is over-long, and when a line is accepted. When AtThread clears the buffer
in the middle of a line, which takes an end of a connection while a command
runs, `garbled` stays: `recv_start` is still 1 over the empty buffer, and lines
are then ignored until one is over-long. The properties about lines are about
lines and buffers left alone.
The commands themselves are not told apart, except AT+QUIT. What the timer does
with a length that has wrapped (a copy of 2^32 - 1 bytes when there is a
connection) is not followed.

### DhcpServer

Table entries are records of state, client, timeout and lease; `MacAddr` of an
idle entry is the history the code keeps. DHCPS_RecvCb and the tick both run in
the tcpip thread and are one step each. A message is its type, its sender, the
requested address and whether it names this server. The stations are external:
they are where they say they are (`present`, what APGetStationStatus reports),
follow the protocol, and each answer may be lost (`Believes`). `leased` is what
a station believes. DHCPS_ClientDelete has no caller in the repository; it is
modelled as an operation for stations that have left. `OfferExpires` excuses an
entry that stays in negotiation only when the very station it is offered to
keeps discovering and is offered the same entry again (`OfferedAgain`); what
other stations send, with the table full of offers too, does not hold it.

### ParamStore

A parameter set is its flag `isValid`, the frame length (both in the first
flash page) and the web settings at the end of the second. A page of NOR flash
is the set of values programmed into it since its erasure: none reads as ones,
one as itself, several as something unknown, because programming only clears
bits. A page is programmed byte by byte and a sector takes time to be erased:
`ProgramBegins` and `EraseBegins` leave the values `Broken`, `ProgramPage` and
`EraseSector` make them whole or gone, and what is cut short in between reads as
anything (`Reads`). So WriteFlash is a step for reading the sector, two for
erasing, one for the copy, and two for each try of programming a page; AtThread
may break into a save of WebServerThread between any two of them, `pData` points
at the live `UserParam`, and power may fail (`PowerFailure`) or AT+RST come in
any state. A try may not take (`faults`); the retry counter of QSpiWriteAny is
tested after its decrement, as in the code, and the run has as many failures as
tries, so that the last one fails too. `stored` is the history of what the next
boot may find, `gaveUp` says that all tries for a page were used up, `alone`
and `mixed` whether a save was overlapped by another.

The remainder of a save that did not end is: the old set, the factory set, or
the new set with a blank second page. When a page itself was cut short, this is
so of the other page only, and nothing in the store tells: there is no checksum,
and `isValid` may be there with what follows it missing.

A failing `OSMMalloc` is left out: the code prints a message
(`serialNet.c:98-101`) and goes on with a null buffer, so the sector is read to
address 0, which is the vector table. What the processor does then is not a
question of this model.

### WebServer

One thread, one round of select at a time: `Select` or `SelectTimeout`, then
the loop over the ready entries (`Serve`), then `MakeRoom`, `Accept` or
`AcceptFails`. Descriptors are numbers and the lowest free one is taken, as
lwIP does. WebServerThread first waits for the mode and the link (`boot`);
after a change of the mode webserver_main waits for the mode alone (`wait`).
Browsers are external; they act between rounds, which loses nothing because the
server looks at the network only in select and in the reads select announced. A
page is sent within the call, so every entry is `HTTP_CLOSED` when the server
looks. Sockets of other tasks (`OtherOpen`, `OtherClose`) are part of
`OthersSpec`, which `web_select` uses.

*Making the server* may fail in four ways, and none closes the socket:
`BindFails` (some control block still has the port), `ListenFails` and
`MallocFails` (no memory). WebServerThread then calls webserver_main again at
once. `lost` are the descriptors given up, `leaked` says whether one of them has
the port bound or listens in place of the server, and `lingering` that a closed
connection is still in TIME-WAIT, which is enough for bind to fail
(`tcp_bind` looks at all lists). Malloc may fail at any time: nothing frees the
buffers of earlier rounds.

*An upload* is what http_engine and http_update tell apart: the POST, any other
request, and reads of the file with the handshake (`first`), without marks
(`middle`) or with the end mark (`last`). TCP cuts the stream where it likes, so
`Follows` lets any number of other reads (`lead`) come first, and lets the
handshake not be seen at all, because it came in the POST's own read or was cut
in two; the end mark may be cut in two as well. `fmwStartSign` is a static that
a broken-off upload leaves at 1: pieces of the next one whose handshake is not
seen are then appended to the old image. `stale` is the history of that (a
request came after the handshake). Writes of the flash may fail and nobody is
told. `booted` records the contents of the flash whenever the boot parameters
are switched; `ImageWhole` says such an image is one whole file unless it is
stale, two uploads met in it, or a write failed.

### LinkEvents

The MAC library is external: `mac` is its state and the queue of events it
posted. SysMgmtMain handles one event per step, except UP with DHCP, which is
one step to begin, one to give up, one for what follows a tick later, or one to
find the address. Tasks below it move only while it waits (`SysWaits`), but it
also waits inside ifUpWhenDhcp: commands then change `Protocol` and the rest of
`SysParam`, which `L2LinkUpEnds` reads afterwards. A command with a delay inside
is two steps.

lwIP's DHCP client is `dhcp` and `tries`, with one action for each of its
callbacks: OFFER (with or without a server's name), ACK, NAK, a conflicting ARP
reply, the fine timer (`dhcp_timeout`) and the coarse one (renewal and
rebinding). `tries` is counted modulo `TriesWrap` (256 in the code) and begins
anew at each change of state (`Sends`). A NAK at a renewal, or a rebinding that
fails, takes the address away while the link stays. dhcp_start may find no
memory. `Looked` is the one assumption on time: two firings of the timer are at
least 500 ms apart and ifUpWhenDhcp looks every 200 ms, so it sees each count.

`pcbs` counts the control blocks each server of a SoftAP has taken and not given
back, `Socket` what its pointer says. DHCPS_Start and DNSS_Start may each fail;
the second result replaces the first, and when it is an error L2LinkUp returns
-1 and the application is not called back (`NotCalledBack`, history `linked`).
DNSS_Stop does not clear its pointer, so that a second stop frees the block
again (`twice`). `moved` counts the links at whose end the mode was not the one
they began with: at most that many blocks are lost.

Left out: that the system manager's own calls into lwIP may break into the
middle of a callback of tcpip_thread, and that a DHCP answer which waits in the
mailbox of tcpip_thread is handled after the link has ended.

### Ucos and Tcpip

`Ucos` has one operator for each section the kernel executes with interrupts
off; a call that blocks is one before and one after OS_Sched. A task whose
time-out has run out is ready but still on its event's wait list until it runs.
`Tcpip` builds the tasks on these operators: tcpip_thread with
sys_timeouts_mbox_fetch and the timer list, callers of tcpip_apimsg, a task in
lwip_select and then netconn_recv, the driver's tcpip_input, the system manager
that starts and stops the DHCP server, and the tick. A task moves only when it
is the ready one of the highest priority (`Runs`); one of the callers is
TestAppMain, which stands above tcpip_thread and closes the sockets after an
escape (`serialNet.c:440-502`). `waited` counts ticks since the fetch began, so
that the tick counter itself is not needed; `owed` is the history of what the
mailbox accepted.

*The timer list.* tcpip_thread changes it in steps: it reads the head's time and
later writes it back (`adjust`), reads the expired head (`expire`), unlinks it
(`unlink`), calls the handler (`fire`), looks for the place of the handler's new
timer (`insert`) and links it (`link`). Nothing protects the list (the comment at
`tcpip.c:63-65` claims exclusive access, but `LOCK_TCPIP_CORE` is empty in this
build), and the system manager, above tcpip_thread, may break in at any
of these. Where its change meets what the thread has in its hands the list is
torn: a timer is linked behind a freed one, or a time wraps. The model sets
`torn` and from then on lets the thread find in the list what it can find in
any. `TimersKept` is about everything before that. The system manager's own
change is one step, because the thread is below it.

*Calls.* `TcpipCall` handles a message and wakes its caller at once, or, as
do_connect, do_writemore and do_close_internal do, keeps it (`current`) until
the peer has answered (`TcpipAnswer`).

## 3. Runs

| run | question | states | result |
|---|---|---|---|
| `dmem` | all calls on a pool of 178 bytes | 40 thousand | holds |
| `serial_out` | both tasks, mode switches, escapes | 14 thousand | holds |
| `serial_in` | order, stability, nothing left behind | 335 thousand | holds |
| `serial_in_escape` | does an escape take effect? | 1.2 million | holds |
| `at_line` | is a line accepted as typed, left alone while it runs, and dealt with? where does the handler store? | 478 thousand | holds |
| `dhcp` | safety of the table; do offers expire? | 130 thousand | holds |
| `params` | what does a boot find after any save, reset or power failure, inside a page too? does the device come up? | 467 thousand | holds |
| `web` | is the table compact, is only a whole image booted, is every browser served? | 919 thousand | holds |
| `web_select` | does select look at every socket of the server? | | violated |
| `link` | do status, interface and servers agree with the link? do waits end? | 964 thousand | holds |
| `tcpip` | are waits sound, messages in order, calls answered, timers kept? | 452 thousand | holds |
| `tcpip_time` | is the time a fetch reports the time it took? | | violated |

Properties that are conjunctions of parts, so that one run answers one question:
`PoolSound` (search pointer on the list, no two free neighbours, exact
accounting), `FramesSound` (types, and a frame does not change under send),
`LineSound` (types, where the handler stores, arguments of a running command
untouched), `FlashSound` (types, pages programmed only when erased),
`TableSound` (types, compact table), `LinkSettles` (types, status, interface and
servers), `WaitsSound` (types, wait lists agree with control blocks, nobody
waits for what is there).

Bounds:

* `dmem`: a block of the minimum size with its header takes 32 bytes, so the
  178 bytes (not a multiple of a word) hold five blocks and the trailer. A
  freed block then can have two free neighbours, two used ones or one of each,
  and the search pointer can be on any of them. The sizes are one below the
  minimum, one that is rounded up, and one that only a merge can serve.
* `serial_out`: two chunks can be under way at once, so four let both be
  replaced. Lengths 1 and 2 are "does not fill" and "fills" the buffer.
* `serial_in`: a buffer of four characters and frames of three, so that the
  handler's hand-over, the timer's and a full buffer all happen; two failures
  give a connection up instead of ten; five characters, one connection, two
  failures or link changes.
* `serial_in_escape`: here the escape is CR LF only (`Pluses` is 0; the
  comparison is the same), so that it fits twice into four characters, once
  stored and once seen while the buffer of three is full.
* `at_line`: a limit of four characters instead of 200, so that a line above it
  and its newline fit into the seven that arrive, and so do a malformed line
  and a good one behind it. `"a"` alone stands for both cases of the letter at
  the front (the handler stores it as `"A"`). In data mode two characters are
  enough to leave something behind at the front of the buffer.
* `dhcp`: three stations for two entries, so that the table overflows and
  histories are taken over; timeout and lease of two ticks; a network of seven
  hosts, so that nothing wraps.
* `params`: two pages are enough for a save that stops between them; a frame
  length below the limits, which the web page stores as it is and the AT command
  clamps; three commands, so that a save is
  followed by a change and another save or a reset. Three tries for a page
  and three faults, which are power failures (the second in the recovery from
  the first) or tries that do not take: all tries of a page may fail, so that
  the wrapped counter and the lost page happen.
* `web`: three browsers for a table of two, and three descriptors for the
  listening socket and two connections: the table and the descriptors both run
  out, the latter after a failed bind, listen or malloc. Five pieces are an
  upload with a request or a read in front of it, or one that is broken off and
  the three of the next whose handshake is not seen; one of the browsers
  uploads. Two upsets (mode changes, power failures, failing writes and
  listens). `web_select` has a fourth descriptor for other tasks.
* `link`: two commands are a start, a change or a stop in any order, one link is
  lost by the network, one client or server does not start. `tries` is counted
  modulo 4 and the limits are none (0), 2 and 3, the last being the one the
  count cannot pass, as 255 is; the client gives an offer or a lease up after
  one request more than `RequestTries` and `RebindTries`. The invariants were
  also checked once with three commands (11.7 million states).
* `tcpip`: mailboxes of one message, so that they are full; two packets, one
  call, two starts of the DHCP server, so that it is started again under its
  own handler; a task above tcpip_thread and one below that call; timers of one
  and two milliseconds with two milliseconds a tick, so that both the rounding
  up to a tick and timers due together happen. `tcpip_time` has longer timers,
  that outlast a tick. TcpipProofs covers any number of calls.
* `CHECK_DEADLOCK FALSE` in the `serial_in*`, `at_line`, `dhcp`, `params`,
  `web*` and `link` configurations: the input, the faults, the commands and the
  starts are used up at some point; the real system is then just idle.

Fairness, and why the code justifies it:

* `Dmem`: a critical section that was entered goes on.
* `SerialOut`: RecvThread's inner loop and UartSendThread get the processor
  again and again, since every task above them sleeps or blocks between two
  events. This is not so in UDP mode while `sendto` keeps failing
  (`socketCom.c:83-93` spins above RecvThread); that is listed as a hazard.
  Nothing makes data arrive or the mode change.
* `SerialIn`: timer task, UartRecvThread, TestSerialToWifi and SendThread run
  when they can, and `send` returns. `recv` and `select` have timeouts of 3 and
  7 seconds, so RecvThread notices a mode change or a connection that was given
  up (`NoticesEnd`). Nothing is assumed of UART, peer, link or user.
* `AtLine`: AtThread runs when it has a line, and commands return.
* `DhcpServer`: the tick comes.
* `ParamStore`: boot and saves are plain code that waits for nothing; the web
  server's save is held up only while AtThread runs. No command is owed.
* `WebServer`: the server thread runs when it can. Nothing is assumed of
  browsers, of the mode or of the link, nor that a connection in TIME-WAIT ends.
  `EveryRequestServed` excuses requests while a lost socket listens, and the
  absence of a server while lost sockets have the port or all descriptors.
* `LinkEvents`: the tasks run when ready, the fine timer of lwIP's DHCP client
  fires, a scan ends. Nothing says that a join succeeds, a DHCP server answers
  or a user gives a command. `ScanAnswered` and `UpReported` except what the
  code allows for: a DHCP wait that has no end by itself (`Endless`: no limit, a
  limit that the count never passes, no memory for the client, an OFFER that
  names no server), a server whose answers go on for ever and never lead to an
  address (`AnswersForEver`), and for `UpReported` an L2LinkUp that failed.
* `Tcpip`: ticks come and tcpip_thread runs when it is the highest ready task;
  the callers get the processor if they are runnable again and again (strong
  fairness), because between two ticks the processor executes thousands of the
  steps modelled, and the tasks above do not saturate it. No peer is assumed to
  answer. `ApiReturns` has three exceptions, each of which the run needs: the
  message is kept for a peer (`current`), was dropped by a full mailbox
  (`Dropped`), or the timer list was torn.

### Findings

* `tcpip_time`: `_sys_arch_mbox_fetch` compares two readings of the tick counter
  with `>` where `sys_arch_sem_wait` has `>=`. A message fetched in the tick the
  fetch began in is reported as about 12 hours of waiting, and lwIP's first
  timer expires at once.
* `web_select`: `maxsock` is taken from the newest connection alone. When other
  tasks have freed lower descriptors it falls below the listening socket or
  older connections, and select no longer looks at them.

## 4. Proofs

`tlapm` checks all of them from nothing, for every value of the constants that
satisfies the named assumptions, which stand in the modules that declare the
constants and which TLC evaluates on every run. They say that sizes are natural
numbers, that a buffer holds what is put into it at least once, and that names
are apart. The ones with more in them:

* `SizesAssumption`: no caller of OSMMalloc asks for a size that wraps.
* `SerialInAssumption`: a positive frame length (see section 5), and a buffer
  longer than the escape; at least one failure gives a connection up.
* `AtLineAssumption`: the buffer is two larger than the limit of a line.
* `TriesAssumption`: the limit of DHCP tries is below the modulus of their count
  (an INT8U and a u8_t).
* `TimesAssumption`: periods and numbers of tries are positive, and the pool has
  more than two timers.
* `TasksAssumption`: the tasks are the callers, tcpip_thread and the one in
  lwip_select, each caller with a semaphore of its own. Nothing is assumed of
  priorities.

**DmemProofs.** The inductive invariant is `TypeOK`, `SearchPtrLive`, `Tiled`,
`Coalesced`, `HeldExact`, `FullMeansFull`, `SearchInv` and `AvailableExact`. `Tiled` says that
the next header of a block is the closest one behind it; this turns every
question about links into one about the order of addresses. `Coalesced` is
needed for merging: the block behind a free neighbour is not free, so one
merge on each side is enough. `SearchInv` says that no block between the search
pointer and `memory_ptr`, in circular order, fits; when the loop is back at
the search pointer that is every block (`FullCorrect`). `FreedCorrect` follows:
with nothing held all blocks but the trailer are free, and `Coalesced` leaves
room for one. The accounting is about a set of bytes and not a sum over blocks:
a split, a whole block and each of the four merges move one interval into or
out of `FreeBytes`, and `dm_available` by its length (`AddInterval`), so that no
induction is needed. `MemPoolRefinement`: two headers in order have their blocks
in order (`Tiled`), so the block that is handed out meets no other, and every
step but the hand-over and the free is a stutter of `MemPool`.

**SerialOutProofs.** The invariant ties the two program counters to the two
flags (UartSendThread beyond its test implies `uart_hasData = 1`; RecvThread
beyond its test implies both are 0 and UartSendThread is at its test) and to
the lengths of the histories (chunk in the buffer, chunk in RecvThread's hands,
chunk being printed but not yet cleared). Exclusion and order follow, and every
step maps to a step or a stutter of `SerialPipe` (`Refinement`).

**DhcpProofs.** The invariant adds to the checked ones that an entry in use has
a client and that only a station that is present holds an address. The proof
has one lemma for each kind of message and for the tick. `LeaseHonoured` needs
`OneEntryPerClient`: a REQUEST finds the sender's only entry, and
`IpUnavailable` or the idle test of `ReqClient` protects the entries of others.
`NoSharedLease` concludes that, if the addresses of the pool are distinct, no
two stations hold the same one. The premise can fail: see section 5.

**SerialInProofs.** `StableInv`: while SendThread is inside `send` and no reset
came, `net_sendStart` is 1, the timer callback is not inside its copy, and the
network buffer is the frame. `OrderInv` is a chain: what was sent last comes
before the frame in `send`, that before the frame in `net_send_data`, that
before `uart_rec_data`, and all of it has arrived; inside the timer's copy the
two buffers agree as far as the copy has got. All of it is under the premise
that the handler never emptied the buffer inside that copy (`raced`), as the
property is.

**AtLineProofs.** `LineCorrect` states every store of the handler. Its invariant
ties the length to what the buffer holds: a length of 0 over a text that begins
like a command means that a length was reset and nothing stored since
(`leftover`), so that in every other state the zero of a line goes to an index
of the array; a wrapped length is found only by AtThread's critical section or
by the end of a connection between its two assignments. The arguments survive
because AtThread changes the first character only. The two action properties need to know what the
handler holds of the line being typed (`TextInv`), as long as the buffer is
`Clean`. Before "AT" has come at most two places are in use and an "A" is
remembered in the first (`OpenInv`); from the "T" on the buffer holds what was
typed (`BegunInv`, `Held`); and a line that starts with "AT" is recognised at
its second character (`GoodInv`). A well-formed line therefore is a command when
it ends (`GoodLineCorrect`), and as no character typed is the terminator, the
string AtThread finds is what was typed (`AcceptedCorrect`). The attempt to
prove this showed that it was wrong where the buffer is cleared in the middle of
a line (see `AtLine` above), beyond the bounds of the run; `garbled` now says so.

**WebProofs.** The table is compact because every descriptor of the server but
the listening one belongs to one entry and one browser, and what select found
ready is unread until the loop reaches it; the descriptors webserver_main lost
belong to none. `TableCorrect` is for `OthersSpec`, with other tasks' sockets.
`ImageCorrect` has no hypothesis on browsers, uploads or reads: while the image
is of one browser, without a failed write and not stale, it is exactly what that
browser sent since its handshake up to the piece that is read next, because a
browser sends the handshake of a file once and its connection keeps the order;
so with the end mark it is the whole file.

**LinkProofs.** The heart is that the UP and DOWN events in the queue alternate,
from what SysMgmtMain believes of the link (`linked`) to what the link is.
With the queue empty the two agree, also after an L2LinkUp that failed. The
interface follows what is believed, inside ifUpWhenDhcp it follows the DHCP
client, and an address is taken away under a link only by a client that goes on
to seek another. The blocks of the servers are counted against `moved`: each
link adds at most one to each server, and takes it away unless its mode was
changed. `LinkCorrect` is for any number of commands, losses and failing starts,
any limits and any answers to the client, and does not except SoftApConfThread;
that there is no lost block at all is so while that thread was not started and
nothing failed to start.

**TcpipProofs.** `KernelInv` is about any tasks and events: wait lists agree with
control blocks, nobody waits for what is there, and a task that was handed its
event has no time-out left (`HandedOver`), which is what a tick right after a
post could break. Each operation of the kernel keeps it if its caller waits for
nothing, and `PtrInv` shows that every task meets this. On top, `MsgInv` ties the
message in a control block to the mailbox's history, and `SelInv` relates
`select_cb`, `rcvevent` and the semaphore of lwip_select. For the timers,
`ListInv` says what sys_timeout and sys_untimeout do to the handlers on the list
wherever they find their place, and `TimerInv` follows the list, the handler in
tcpip_thread's hands and `torn` through every step of the thread and every start
and stop that breaks into it (`TimersCorrect`).

Only model-checked: liveness (`SearchTerminates`, `EventuallyPrinted`,
`BufferDrains`, `EscapeTakesEffect`, `LineDealtWith`, `OfferExpires`, `Recovers`,
`EveryRequestServed`, `ScanAnswered`, `UpReported`, `ApiReturns`),
because fairness is out of the prover's reach; and `BootLoadsSaved` and
`FlashSound` of `ParamStore`, whose invariant has to relate both flash sectors,
the buffers of up to three interrupted saves and the history `stored`.

## 5. Known gaps, what is not modelled, and the plan

Weak points of the code that the modelling met and that no run above is about:

* `socketCom.c:558`: the zero behind a chunk that fills the receive buffer is
  written one byte behind the block.
* `at_cmd.c:1594`: characters that arrive while `timerFuncProcess` copies are
  dropped by `uart_rec_len = 0`. `SentInOrder` shows that what gets through is in
  order and not repeated.
* `serialNet.c:471`: the periodic timer posts `modeSwitchSem` several times for
  one escape; a token left over lets a later `+++\r\n` in running input end data
  mode.
* `at_cmd.c:2032`, `2056`: the limit of 200, the timer and the end of a
  connection reset the length of a line but not its text; a newline then
  decrements a length of 0 and writes the terminator to the byte before the
  array. `LineSound` states these as its only exceptions (see `AtLine`).
* `dhcp_server.c:838`: where the pool wraps, two entries carry one address.
  `dhcp_server.c:711`: INFORM is answered with NAK.
* `serialNet.c:314`: the frame length is clamped in the factory set only, so
  that a length of 0 from the web page survives a boot, and `at_cmd.c:2007`
  divides by it. `flash.c:642`: when all tries for a page but the last fail, the
  retry counter ends the save, and when all fail the page is skipped, both
  without an error to the user; `BootLoadsSaved` includes what that leaves.
* `serialNet.c:98`: after a failed malloc WriteFlash goes on with a null buffer.
* `http_parser.c:611`: two uploads at once share one state and may mix. The
  static `fmwStartSign` outlives an upload that was broken off: an upload whose
  handshake is not seen is then appended to the old image and booted.
  `http_parser.c:664`: a write that fails goes unnoticed. All three are
  exceptions of `ImageWhole`.
* `webserver.c:67-88`: a bind, listen or malloc that fails leaks the socket. When
  the mode is left while connections are open, they are in TIME-WAIT when it
  comes back, bind fails, and webserver_main is called again without a pause
  until all descriptors are gone. Only a reset ends that.
* `lwIP.c:138`: a DHCP limit of 1 practically never succeeds, since the second
  DISCOVER or REQUEST passes it; a limit of 255 waits for ever, and so does a
  client without memory. `lwIP.c:180`: an error of DHCPS_Start is overwritten by
  the result of DNSS_Start. `dhcp.c:205`, `1204`: a refused or lost lease takes
  the address away while `link_status` stays LINK_UP. `dns_server.c:373`: the
  pointer is kept, so that after a change of the mode a second stop frees the
  control block twice.
* `dhcp_server.c:860`: a stop and a start while `_DhcpTickHandle` runs leave two
  timers, and leases then run out twice as fast. The unprotected writes of
  `timers.c` may be torn by it, and also by `ping.c`, which calls sys_timeout
  from its caller's task and is not modelled.
* `app_main.c:115`: a scan that ends after the link was lost sets `link_status`
  to SCAN_DONE, which the tests for a link accept.
* `sys_arch.c:126`: a message for a mailbox that stays full is dropped silently
  and its sender waits for ever; `ApiReturns` is about the accepted ones.
* `socketCom.c:87`: UDPSendTask repeats a failing sendto without a pause, above
  RecvThread and the web server in priority.

Not modelled: UDP sessions and broadcast configuration (the receive loop of
UDPRecvTask is in `SerialOut`), the AirKiss and SmartConfig protocols (calls into
the MAC library; their start and end are in `LinkEvents`), DNS server and ping
(one answer for one packet), the protocols of lwIP and the rest of uC/OS-II
(vendored: what the firmware's tasks meet in is in `Tcpip` and `Ucos`), drivers
and the MAC library (hardware, or binary only), page generation, form parsing
and string conversion (text). lwIP, with its SNMP and PPP parts that the
firmware does not even use, is most of the repository's lines.

Plan:

1. Theorems about `ParamStore`: pages are programmed only when they are blank
   (`ProgramsErased`), then what a boot finds (`BootLoadsSaved`).
2. `UdpSession` and a finer `SerialIn`: UDPSendTask, descriptors as values.
