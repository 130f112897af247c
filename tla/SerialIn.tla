------------------------------ MODULE SerialIn ------------------------------
(***************************************************************************)
(* From the UART to the network, in data mode: the interrupt handler       *)
(* uart_data_recv collects characters, hands a full frame to the network   *)
(* buffer itself, and lets a periodic timer hand over what a pause in the  *)
(* input leaves; SendThread sends the network buffer.  "+++\r\n" alone in  *)
(* a frame takes the device back to AT mode.                               *)
(*                                                                         *)
(* The actors and their priorities: the interrupt handler may run between  *)
(* any two statements of any task; the timer task is above all the others  *)
(* modelled here, so while it is inside timerFuncProcess (tpc # "idle")    *)
(* only the interrupt handler moves.  No critical section protects the     *)
(* shared variables.                                                       *)
(*                                                                         *)
(* A character is known by its position in the input, so buffers are       *)
(* sequences of positions and order and duplication can be seen; 0 is a    *)
(* character that did not arrive.                                          *)
(***************************************************************************)
EXTENDS Naturals, Sequences

CONSTANTS Alphabet,     \* the characters that arrive; of interest: "+" "CR" "LF"
          Pluses,       \* how many "+" the escape has (3 in the code)
          FrameLength,  \* UserParam.frameLength
          BufSize,      \* MAX_RECV_BUFFER_SIZE
          MaxFail,      \* sends that fail in a row before the connection is given up (10)
          SemMax,       \* what a semaphore can count to
          MaxInput,     \* bound on the number of characters that arrive
          MaxConnects,  \* bound on the number of connections
          MaxFaults     \* bound on failing sends and on link changes

EscLen == Pluses + 2

ASSUME SerialInAssumption ==
  /\ {Pluses, SemMax, MaxInput, MaxConnects, MaxFaults} \subseteq Nat
  /\ {FrameLength, MaxFail} \subseteq Nat \ {0}
  /\ BufSize \in Nat /\ EscLen < BufSize

VARIABLES
  atMode,          \* UserParam.atMode
  connStatus,      \* WifiConnStatus.connStatus
  link_status,     \* "UP", "SCAN_DONE", or "DOWN" for every other event
  fd,              \* WifiConnStatus holds the descriptor of a connection
  rec,             \* uart_rec_data[0 .. uart_rec_len - 1]
  end_sendFlags,
  net_sendStart,
  net_send_len,
  net_send_data,   \* the whole array; 0 where nothing was ever copied
  mbox,            \* uartMessgSem, a mailbox for one message
  timerOn,         \* pTimer is running
  modeSwitchSem,   \* its count
  tpc,             \* where timerFuncProcess is
  mpc,             \* where TestSerialToWifi is
  spc,             \* where TCPSendTask is
  sending,         \* the characters its send call is working on
  FailCnt,
  rpc,             \* where RecvThread is
  input,           \* history: the characters that arrived in data mode
  lastSent,        \* history: the last character sent
  ordered,         \* history: no character was sent after a later one
  undisturbed,     \* history: the connection has not changed since send began
  raced,           \* history: the handler once took the buffer from the timer
  connects, faults \* bounds

mode == <<atMode, connStatus, link_status, fd>>
uart == <<rec, end_sendFlags>>
net == <<net_sendStart, net_send_len, net_send_data>>
signals == <<mbox, timerOn, modeSwitchSem>>
sender == <<spc, sending, FailCnt>>
history == <<input, lastSent, ordered, undisturbed, raced>>
bounds == <<connects, faults>>
vars == <<mode, uart, net, signals, tpc, mpc, sender, rpc, history, bounds>>

Init ==
  /\ atMode = "DATA"
  /\ connStatus = "FAIL"
  /\ link_status = "UP"
  /\ fd = FALSE
  /\ rec = <<>>
  /\ end_sendFlags = 0
  /\ net_sendStart = 0 /\ net_send_len = 0
  /\ net_send_data = [i \in 1 .. BufSize |-> 0]
  /\ mbox = "none"
  /\ timerOn = FALSE
  /\ modeSwitchSem = 0
  /\ tpc = "idle" /\ mpc = "pend" /\ spc = "top" /\ rpc = "top"
  /\ sending = <<>>
  /\ FailCnt = 0
  /\ input = <<>> /\ lastSent = 0 /\ ordered = TRUE
  /\ undisturbed = TRUE /\ raced = FALSE
  /\ connects = 0 /\ faults = 0

-----------------------------------------------------------------------------
Increasing(s) == \A i \in 1 .. Len(s) - 1 : s[i] < s[i + 1]

(* The escape in characters; as the handler writes it into the buffer by   *)
(* itself, of no position in the input; and whether a buffer holds just it *)
Escape == [i \in 1 .. EscLen |-> CASE i <= Pluses -> "+"
                                   [] i = Pluses + 1 -> "CR"
                                   [] OTHER -> "LF"]
Written == [i \in 1 .. EscLen |-> 0]
IsEscape(buf, in) ==
  /\ Len(buf) = EscLen
  /\ buf # Written => \A i \in 1 .. EscLen : in[buf[i]] = Escape[i]

(* memcpy over the first characters of an older content. *)
CopyOver(old, new) == new \o SubSeq(old, Len(new) + 1, Len(old))

(* The characters that send would take from the network buffer. *)
NetFrame == SubSeq(net_send_data, 1, net_send_len)

(* OSMboxPost: a message for a full mailbox is lost. *)
Posted(box, msg) == IF box = "none" THEN msg ELSE box

(* OSSemPost: at its limit the count stays. *)
SemPosted == IF modeSwitchSem < SemMax THEN modeSwitchSem + 1 ELSE modeSwitchSem

(* The counter of escape characters that are seen while the buffer is full *)
(* (no room is left to store them).                                        *)
TrackEscape(c) ==
  IF c = Escape[end_sendFlags + 1]
    THEN IF end_sendFlags + 1 = EscLen THEN 0 ELSE end_sendFlags + 1
    ELSE 0
EscapeInOverflow(c, buf) ==
  /\ Len(buf) = BufSize
  /\ end_sendFlags + 1 = EscLen
  /\ c = Escape[EscLen]

(* When the handler hands a frame over itself. *)
Linked == link_status \in {"UP", "SCAN_DONE"}
FrameFull(buf) == Len(buf) % FrameLength = 0 /\ Len(buf) < BufSize
FrameAlways(buf) == FrameFull(buf) /\ Linked
FrameReady(buf) == FrameFull(buf) /\ Linked /\ net_sendStart = 0

(* Whether the handler still stores a character. *)
HasRoom == Len(rec) < BufSize

(* uart_data_recv(c) in data mode.  First the character is stored if there *)
(* is room; without a connection that is all.                              *)
UartByte(c) ==
  LET in == Append(input, c)
      here == Len(in)
      room == HasRoom
      stored == IF room THEN Append(rec, here) ELSE rec
      box == IF room THEN Posted(mbox, "start") ELSE mbox
      full == Len(stored) = BufSize
      esc == EscapeInOverflow(c, stored)
      buf == IF esc THEN Written ELSE stored
  IN  /\ atMode = "DATA"
      /\ Len(input) < MaxInput
      /\ input' = in
      /\ \/ /\ connStatus # "OK"
            /\ rec' = stored
            /\ mbox' = box
            /\ UNCHANGED <<end_sendFlags, net, modeSwitchSem, raced>>
         \/ /\ connStatus = "OK"
            /\ end_sendFlags' = IF full THEN TrackEscape(c) ELSE end_sendFlags
            /\ modeSwitchSem' = IF esc THEN SemPosted ELSE modeSwitchSem
            /\ mbox' = CASE esc -> Posted(box, "cancel")
                         [] full /\ end_sendFlags < Pluses /\ c # "+" -> Posted(box, "-14")
                         [] FrameFull(buf) /\ ~Linked -> Posted(box, "-18")
                         [] OTHER -> box
            /\ raced' = (raced \/ esc \/ (tpc # "idle" /\ FrameReady(buf)))
            /\ \/ /\ FrameReady(buf)
                  /\ net_send_len' = Len(buf)
                  /\ net_send_data' = CopyOver(net_send_data, buf)
                  /\ net_sendStart' = 1
                  /\ rec' = <<>>
               \/ /\ ~FrameReady(buf)
                  /\ rec' = buf
                  /\ UNCHANGED net
      /\ UNCHANGED <<mode, timerOn, tpc, mpc, sender, rpc, lastSent, ordered,
                     undisturbed, bounds>>

(* UartRecvThread takes a message; error numbers are only printed. *)
UartRecvThread ==
  /\ tpc = "idle"
  /\ mbox # "none"
  /\ mbox' = "none"
  /\ timerOn' = CASE mbox = "start" -> TRUE
                  [] mbox = "cancel" -> FALSE
                  [] OTHER -> timerOn
  /\ UNCHANGED <<mode, uart, net, modeSwitchSem, tpc, mpc, sender, rpc,
                 history, bounds>>

-----------------------------------------------------------------------------
(* timerFuncProcess, run by the timer task after a pause in the input.  It *)
(* returns at once while the last frame is being sent or nothing has come. *)
TimerRuns == tpc = "idle" /\ timerOn /\ net_sendStart = 0 /\ rec # <<>>

(* The frame is the escape: tell TestSerialToWifi. *)
TimerEscape ==
  /\ TimerRuns
  /\ IsEscape(rec, input)
  /\ modeSwitchSem' = SemPosted
  /\ UNCHANGED <<mode, uart, net, mbox, timerOn, tpc, mpc, sender, rpc, input,
                 lastSent, ordered, undisturbed, raced, bounds>>

(* Without a connection the characters are thrown away. *)
TimerDiscards ==
  /\ TimerRuns
  /\ ~IsEscape(rec, input)
  /\ connStatus # "OK"
  /\ rec' = <<>>
  /\ UNCHANGED <<mode, end_sendFlags, net, signals, tpc, mpc, sender, rpc,
                 history, bounds>>

(* Otherwise the frame goes to the network buffer, statement by statement. *)
TimerBegins ==
  /\ TimerRuns
  /\ ~IsEscape(rec, input)
  /\ connStatus = "OK"
  /\ tpc' = "len"
  /\ UNCHANGED <<mode, uart, net, signals, mpc, sender, rpc, history, bounds>>

TimerTakesLen ==
  /\ tpc = "len"
  /\ net_send_len' = Len(rec)
  /\ tpc' = "copy"
  /\ UNCHANGED <<mode, uart, net_sendStart, net_send_data, signals, mpc,
                 sender, rpc, history, bounds>>

TimerCopies ==
  /\ tpc = "copy"
  /\ net_send_data' = CopyOver(net_send_data, rec)
  /\ tpc' = "clear"
  /\ UNCHANGED <<mode, uart, net_sendStart, net_send_len, signals, mpc, sender,
                 rpc, history, bounds>>

TimerForgetsClear ==
  /\ tpc = "clear"
  /\ tpc' = "flag"
  /\ UNCHANGED <<mode, uart, net, signals, mpc, sender, rpc, history, bounds>>
TimerClears ==
  /\ tpc = "clear"
  /\ rec' = <<>>
  /\ tpc' = "flag"
  /\ UNCHANGED <<mode, end_sendFlags, net, signals, mpc, sender, rpc, history,
                 bounds>>

TimerFlags ==
  /\ tpc = "flag"
  /\ net_sendStart' = 1
  /\ tpc' = "idle"
  /\ UNCHANGED <<mode, uart, net_send_len, net_send_data, signals, mpc, sender,
                 rpc, history, bounds>>

Timer == \/ TimerEscape \/ TimerDiscards \/ TimerBegins \/ TimerTakesLen
         \/ TimerCopies \/ TimerClears \/ TimerFlags

-----------------------------------------------------------------------------
(* What every reset of the bridge drops. *)
ResetForgetsFlag ==
  /\ rec' = <<>>
  /\ net_send_len' = 0
  /\ undisturbed' = (spc # "send")
  /\ UNCHANGED <<net_sendStart, net_send_data>>
ResetBuffers ==
  /\ rec' = <<>>
  /\ net_sendStart' = 0 /\ net_send_len' = 0
  /\ undisturbed' = (spc # "send")
  /\ UNCHANGED net_send_data

(* SendThread enters TCPSendTask when the link is up in data mode ... *)
SendEnters ==
  /\ tpc = "idle"
  /\ spc = "top"
  /\ link_status = "UP" /\ atMode = "DATA"
  /\ spc' = "wait"
  /\ FailCnt' = 0
  /\ UNCHANGED <<mode, uart, net, signals, tpc, mpc, sending, rpc, history,
                 bounds>>

(* ... which waits for a connection and picks up its descriptor ... *)
SendStarts ==
  /\ tpc = "idle"
  /\ spc = "wait"
  /\ connStatus = "OK"
  /\ spc' = IF fd THEN "loop" ELSE "nosocket"
  /\ UNCHANGED <<mode, uart, net, signals, tpc, mpc, sending, FailCnt, rpc,
                 history, bounds>>

(* ... and returns when it is gone or the mode has changed. *)
SendReturns ==
  /\ tpc = "idle"
  /\ spc = "loop"
  /\ atMode # "DATA" \/ connStatus # "OK"
  /\ spc' = "top"
  /\ UNCHANGED <<mode, uart, net, signals, tpc, mpc, sending, FailCnt, rpc,
                 history, bounds>>

(* accept has failed, or the descriptor was closed in the meantime. *)
SendNoSocket ==
  /\ tpc = "idle"
  /\ spc = "nosocket"
  /\ IF atMode = "DATA" THEN ResetBuffers ELSE UNCHANGED <<rec, net, undisturbed>>
  /\ spc' = "top"
  /\ UNCHANGED <<mode, end_sendFlags, signals, tpc, mpc, sending, FailCnt, rpc,
                 input, lastSent, ordered, raced, bounds>>

(* send is called with the network buffer and its length. *)
SendCalls ==
  /\ tpc = "idle"
  /\ spc = "loop"
  /\ atMode = "DATA" /\ connStatus = "OK"
  /\ net_sendStart = 1
  /\ spc' = "send"
  /\ sending' = NetFrame
  /\ undisturbed' = TRUE
  /\ UNCHANGED <<mode, uart, net, signals, tpc, mpc, FailCnt, rpc, input,
                 lastSent, ordered, raced, bounds>>

SendSucceeds ==
  /\ tpc = "idle"
  /\ spc = "send"
  /\ lastSent' = IF sending = <<>> THEN lastSent ELSE sending[Len(sending)]
  /\ ordered' = (ordered /\ Increasing(<<lastSent>> \o sending))
  /\ sending' = <<>>
  /\ FailCnt' = 0
  /\ spc' = "done"
  /\ UNCHANGED <<mode, uart, net, signals, tpc, mpc, rpc, input, undisturbed,
                 raced, bounds>>

(* A failing send drops its frame; the last failure in a row releases the  *)
(* network buffer ...                                                      *)
SendFails ==
  /\ tpc = "idle"
  /\ spc = "send"
  /\ faults < MaxFaults
  /\ faults' = faults + 1
  /\ FailCnt' = FailCnt + 1
  /\ sending' = <<>>
  /\ \/ /\ FailCnt' # MaxFail
        /\ spc' = "done"
        /\ UNCHANGED net
     \/ /\ FailCnt' = MaxFail
        /\ spc' = "giveup"
        /\ net_sendStart' = 0 /\ net_send_len' = 0
        /\ UNCHANGED net_send_data
  /\ UNCHANGED <<mode, uart, signals, tpc, mpc, rpc, history, connects>>

(* ... and gives up the connection and what has come for it. *)
SendGivesUp ==
  /\ tpc = "idle"
  /\ spc = "giveup"
  /\ rec' = <<>>
  /\ connStatus' = "FAIL"
  /\ spc' = "top"
  /\ UNCHANGED <<atMode, link_status, fd, end_sendFlags, net, signals, tpc, mpc,
                 sending, FailCnt, rpc, history, bounds>>

(* The buffer is released in two statements. *)
SendKeepsFlag ==
  /\ tpc = "idle"
  /\ spc = "done"
  /\ spc' = "len"
  /\ UNCHANGED <<mode, uart, net, signals, tpc, mpc, sending, FailCnt, rpc,
                 history, bounds>>
SendClearsFlag ==
  /\ tpc = "idle"
  /\ spc = "done"
  /\ net_sendStart' = 0
  /\ spc' = "len"
  /\ UNCHANGED <<mode, uart, net_send_len, net_send_data, signals, tpc, mpc,
                 sending, FailCnt, rpc, history, bounds>>

SendClearsLen ==
  /\ tpc = "idle"
  /\ spc = "len"
  /\ net_send_len' = 0
  /\ spc' = "loop"
  /\ UNCHANGED <<mode, uart, net_sendStart, net_send_data, signals, tpc, mpc,
                 sending, FailCnt, rpc, history, bounds>>

SendSteps == \/ SendEnters \/ SendStarts \/ SendNoSocket \/ SendReturns \/ SendCalls
             \/ SendSucceeds \/ SendGivesUp \/ SendClearsFlag \/ SendClearsLen

-----------------------------------------------------------------------------
(* RecvThread enters TCPRecvTask when the link is up in data mode. *)
RecvEnters ==
  /\ tpc = "idle"
  /\ rpc = "top"
  /\ link_status = "UP" /\ atMode = "DATA"
  /\ rpc' = "connect"
  /\ UNCHANGED <<mode, uart, net, signals, tpc, mpc, sender, history, bounds>>

(* connect or accept returns; the connection is announced a while later,   *)
(* whatever the mode is by then, and even if accept has failed.            *)
Connects ==
  /\ tpc = "idle"
  /\ rpc = "connect"
  /\ connects < MaxConnects
  /\ connects' = connects + 1
  /\ fd' \in BOOLEAN
  /\ rpc' = "settle"
  /\ UNCHANGED <<atMode, connStatus, link_status, uart, net, signals, tpc, mpc, sender, history, faults>>

Connected ==
  /\ tpc = "idle"
  /\ rpc = "settle"
  /\ connStatus' = "OK"
  /\ rpc' = "recv"
  /\ UNCHANGED <<atMode, link_status, fd, uart, net, signals, tpc, mpc, sender,
                 history, bounds>>

(* What the peer sends also revives a connection that SendThread gave up.  *)
Receives ==
  /\ tpc = "idle"
  /\ rpc = "recv"
  /\ fd
  /\ connStatus' = "OK"
  /\ UNCHANGED <<atMode, link_status, fd, uart, net, signals, tpc, mpc, sender, rpc,
                 history, bounds>>

(* No connection can be made, or it ends: the peer closed it, it was given *)
(* up, or the mode has changed.                                            *)
Disconnected ==
  /\ tpc = "idle"
  /\ rpc \in {"connect", "recv"}
  /\ connStatus' = "FAIL"
  /\ rpc' = "end"
  /\ UNCHANGED <<atMode, link_status, fd, uart, net, signals, tpc, mpc, sender,
                 history, bounds>>

(* The END of TCPRecvTask. *)
RecvEnds ==
  /\ tpc = "idle"
  /\ rpc = "end"
  /\ ResetBuffers
  /\ fd' = FALSE
  /\ rpc' = "top"
  /\ UNCHANGED <<atMode, connStatus, link_status, end_sendFlags, signals, tpc, mpc, sender, input,
                 lastSent, ordered, raced, bounds>>

RecvThread == \/ RecvEnters \/ Connects \/ Connected \/ Receives
              \/ Disconnected \/ RecvEnds

(* TestSerialToWifi takes a token and sleeps for a tenth of a second ... *)
MainPends ==
  /\ tpc = "idle"
  /\ mpc = "pend"
  /\ atMode = "DATA"
  /\ modeSwitchSem > 0
  /\ modeSwitchSem' = modeSwitchSem - 1
  /\ mpc' = "delay"
  /\ UNCHANGED <<mode, uart, net, mbox, timerOn, tpc, sender, rpc, history,
                 bounds>>

(* ... and if the buffer then holds the escape, no more and no less, it    *)
(* empties the bridge, closes the sockets, for which the other tasks have  *)
(* to run, ...                                                             *)
MainClears ==
  /\ tpc = "idle"
  /\ mpc = "delay"
  /\ IsEscape(rec, input)
  /\ ResetBuffers
  /\ fd' = FALSE
  /\ mpc' = "switch"
  /\ UNCHANGED <<atMode, connStatus, link_status, end_sendFlags, signals, tpc,
                 sender, rpc, input, lastSent, ordered, raced, bounds>>

(* ... and switches. *)
MainSwitches ==
  /\ tpc = "idle"
  /\ mpc = "switch"
  /\ atMode' = "AT"
  /\ mpc' = "pend"
  /\ UNCHANGED <<connStatus, link_status, fd, uart, net, signals, tpc, sender,
                 rpc, history, bounds>>

MainKeepsMode ==
  /\ tpc = "idle"
  /\ mpc = "delay"
  /\ ~IsEscape(rec, input)
  /\ mpc' = "pend"
  /\ UNCHANGED <<mode, uart, net, signals, tpc, sender, rpc, history, bounds>>

Main == MainPends \/ MainClears \/ MainSwitches \/ MainKeepsMode

(* AT+QUIT: back to data mode with an empty bridge and no connection. *)
Quit ==
  /\ tpc = "idle"
  /\ atMode = "AT"
  /\ Linked
  /\ ResetBuffers
  /\ atMode' = "DATA"
  /\ connStatus' = "FAIL"
  /\ fd' = FALSE
  /\ UNCHANGED <<link_status, end_sendFlags, signals, tpc, mpc, sender, rpc, input,
                 lastSent, ordered, raced, bounds>>

(* AppEvtCallBack; the end of a scan does not hide that the link is up. *)
AppEvtCallBack(event) ==
  /\ tpc = "idle"
  /\ faults < MaxFaults
  /\ faults' = faults + 1
  /\ link_status' = IF event = "SCAN_DONE" /\ link_status = "UP" THEN "UP" ELSE event
  /\ UNCHANGED <<atMode, connStatus, fd, uart, net, signals, tpc, mpc, sender,
                 rpc, history, connects>>

Next ==
  \/ \E c \in Alphabet : UartByte(c)
  \/ UartRecvThread
  \/ Timer
  \/ SendSteps \/ SendFails
  \/ RecvThread
  \/ Main
  \/ Quit
  \/ \E event \in {"UP", "SCAN_DONE", "DOWN"} : AppEvtCallBack(event)

Spec == Init /\ [][Next]_vars

(* The timer task, UartRecvThread, TestSerialToWifi and SendThread run     *)
(* whenever they have something to do; a send returns.  recv and select    *)
(* time out, so RecvThread notices that the connection was given up or the *)
(* mode has changed.  Nothing is assumed of the UART, the peer, the link   *)
(* or the user.                                                            *)
NoticesEnd ==
  Disconnected /\ (atMode = "AT" \/ (rpc = "recv" /\ (connStatus = "FAIL" \/ ~fd)))
FairSpec ==
  /\ Spec
  /\ WF_vars(Timer)
  /\ WF_vars(UartRecvThread)
  /\ WF_vars(Main)
  /\ WF_vars(SendSteps)
  /\ WF_vars(NoticesEnd \/ RecvEnds)

-----------------------------------------------------------------------------
(* Every variable keeps its type; the receive buffer never holds more than *)
(* MAX_RECV_BUFFER_SIZE characters, nor the network buffer's length.       *)
TypeOK ==
  /\ atMode \in {"AT", "DATA"}
  /\ connStatus \in {"OK", "FAIL"}
  /\ link_status \in {"UP", "SCAN_DONE", "DOWN"}
  /\ fd \in BOOLEAN
  /\ rec \in Seq(0 .. MaxInput) /\ Len(rec) <= BufSize
  /\ end_sendFlags \in 0 .. EscLen - 1
  /\ net_sendStart \in {0, 1}
  /\ net_send_len \in 0 .. BufSize
  /\ net_send_data \in [1 .. BufSize -> 0 .. MaxInput]
  /\ mbox \in {"none", "start", "cancel", "-14", "-18"}
  /\ timerOn \in BOOLEAN
  /\ modeSwitchSem \in 0 .. SemMax
  /\ tpc \in {"idle", "len", "copy", "clear", "flag"}
  /\ mpc \in {"pend", "delay", "switch"}
  /\ spc \in {"top", "wait", "nosocket", "loop", "send", "done", "giveup", "len"}
  /\ rpc \in {"top", "connect", "settle", "recv", "end"}
  /\ sending \in Seq(0 .. MaxInput)
  /\ FailCnt \in 0 .. MaxFail

(* What the network gets of the serial input is in the order of the input, *)
(* and nothing is sent twice, although the interrupt handler and the timer *)
(* both fill net_send_data and neither excludes the other.  Only a handler *)
(* that empties the buffer in the middle of the timer's copy can break it. *)
SentInOrder == ~raced => ordered

FrameStable ==
  spc = "send" /\ undisturbed => NetFrame = sending

(* Both buffers keep within MAX_RECV_BUFFER_SIZE, and while send works on  *)
(* net_send_data nobody changes it, unless the connection was given up or  *)
(* the mode changed in the meantime (uart_data_recv and timerFuncProcess   *)
(* fill it, TCPSendTask sends it).                                         *)
FramesSound == TypeOK /\ FrameStable

(* Characters do not stay behind: once the device stays connected in data  *)
(* mode, the timer empties the receive buffer, however the mailbox loses   *)
(* its messages.                                                           *)
BufferDrains ==
  <>[](atMode = "DATA" /\ connStatus = "OK" /\ link_status = "UP" /\ ~raced) =>
     []<>(rec = <<>> /\ net_sendStart = 0)

(* With the link up, an escape that nothing follows takes the device to AT *)
(* mode (or a reset drops it): no stale flag, lost message or cancelled    *)
(* timer leaves it in the buffer for ever (timerFuncProcess,               *)
(* TestSerialToWifi).  Without a link a frame that waits for its send      *)
(* holds the escape up until recv reports the dead connection.             *)
EscapeTakesEffect ==
  ~<>[](atMode = "DATA" /\ link_status = "UP" /\ IsEscape(rec, input))
=============================================================================
