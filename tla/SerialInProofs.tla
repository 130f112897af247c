--------------------------- MODULE SerialInProofs ---------------------------
(***************************************************************************)
(* Proofs about the way from the UART to the network, for every size of    *)
(* the buffers and of a frame, every escape, and every number of           *)
(* characters, connections and faults: both buffers stay within their      *)
(* size, nobody changes a frame that is being sent (FramesSound), and what *)
(* is sent is in the order of the input (SentInOrder).                     *)
(*                                                                         *)
(* The order is a chain: what was sent last comes before the frame in      *)
(* send, that before the frame in net_send_data, that before what is left  *)
(* in uart_rec_data, and every position in it has arrived (OrderInv).      *)
(***************************************************************************)
EXTENDS SerialIn, SequenceTheorems, TLAPS

Chars == 0 .. MaxInput

(* The first n elements of d: in order, above lo and at most hi; and all   *)
(* before the first m elements of e.                                       *)
Sorted(d, n) == \A i, j \in 1 .. n : i < j => d[i] < d[j]
Within(d, n, lo, hi) == \A i \in 1 .. n : lo < d[i] /\ d[i] <= hi
Before(d, n, e, m) == \A i \in 1 .. n, j \in 1 .. m : d[i] < e[j]

ModeType ==
  /\ atMode \in {"AT", "DATA"} /\ connStatus \in {"OK", "FAIL"}
  /\ link_status \in {"UP", "SCAN_DONE", "DOWN"} /\ fd \in BOOLEAN
UartType ==
  /\ rec \in Seq(Chars) /\ Len(rec) <= BufSize
  /\ end_sendFlags \in 0 .. EscLen - 1
NetType ==
  /\ net_sendStart \in {0, 1} /\ net_send_len \in 0 .. BufSize
  /\ net_send_data \in [1 .. BufSize -> Chars]
SignalType ==
  /\ mbox \in {"none", "start", "cancel", "-14", "-18"}
  /\ timerOn \in BOOLEAN /\ modeSwitchSem \in 0 .. SemMax
PcType ==
  /\ tpc \in {"idle", "len", "copy", "clear", "flag"}
  /\ mpc \in {"pend", "delay", "switch"}
  /\ rpc \in {"top", "connect", "settle", "recv", "end"}
SenderType ==
  /\ spc \in {"top", "wait", "nosocket", "loop", "send", "done", "giveup", "len"}
  /\ sending \in Seq(Chars)
  /\ FailCnt \in 0 .. MaxFail
  /\ spc \notin {"top", "giveup"} => FailCnt < MaxFail
HistoryType == input \in Seq(Alphabet) /\ Len(input) <= MaxInput /\ lastSent \in Chars

(* The network buffer is taken while send works on it.                     *)
StableInv ==
  spc = "send" /\ undisturbed =>
    net_sendStart = 1 /\ tpc = "idle" /\ NetFrame = sending

(* A frame is in the network buffer, or about to be announced there.       *)
Pending == net_sendStart = 1 \/ tpc = "flag"

OrderInv ==
  ~raced =>
    /\ ordered /\ lastSent <= Len(input)
    /\ Sorted(rec, Len(rec)) /\ Within(rec, Len(rec), lastSent, Len(input))
    /\ Sorted(sending, Len(sending)) /\ Within(sending, Len(sending), lastSent, Len(input))
    /\ Before(sending, Len(sending), rec, Len(rec))
    /\ tpc # "idle" => net_sendStart = 0
    /\ tpc \in {"copy", "clear"} => net_send_len <= Len(rec)
    /\ tpc = "clear" => \A i \in 1 .. net_send_len : net_send_data[i] = rec[i]
    /\ Pending =>
         /\ Sorted(net_send_data, net_send_len)
         /\ Within(net_send_data, net_send_len, 0, Len(input))
         /\ Before(net_send_data, net_send_len, rec, Len(rec))
         /\ spc \notin {"send", "done"} =>
              Within(net_send_data, net_send_len, lastSent, Len(input))

Inv ==
  /\ ModeType /\ UartType /\ NetType /\ SignalType /\ PcType /\ SenderType /\ HistoryType
  /\ StableInv /\ OrderInv

-----------------------------------------------------------------------------
(* The constants, and buffers.                                             *)
LEMMA ConstFacts ==
  /\ Pluses \in Nat /\ SemMax \in Nat /\ MaxInput \in Nat /\ MaxFail \in Nat \ {0}
  /\ BufSize \in Nat /\ EscLen \in Nat \ {0} /\ EscLen < BufSize
  /\ 0 \in Chars /\ Chars \subseteq Nat
  /\ <<>> \in Seq(Chars) /\ Len(<<>>) = 0
BY SerialInAssumption, EmptySeq DEF EscLen, Chars

(* The frame that send would take is the beginning of the buffer.          *)
LEMMA NetFrameFacts ==
  ASSUME NetType
  PROVE  /\ NetFrame \in Seq(Chars) /\ Len(NetFrame) = net_send_len
         /\ \A i \in 1 .. net_send_len : NetFrame[i] = net_send_data[i]
<1>1. net_send_len \in Nat /\ 1 \in Int /\ net_send_len \in Int
  BY ConstFacts DEF NetType
<1>2. \A i \in 1 .. net_send_len : net_send_data[i] \in Chars
  BY <1>1, ConstFacts DEF NetType
<1>3. /\ NetFrame \in Seq(Chars)
      /\ Len(NetFrame) = IF 1 <= net_send_len THEN net_send_len - 1 + 1 ELSE 0
      /\ \A i \in 1 .. net_send_len - 1 + 1 : NetFrame[i] = net_send_data[1 + i - 1]
  BY <1>1, <1>2, SubSeqProperties DEF NetFrame
<1> QED
  BY <1>1, <1>3

(* memcpy keeps the size of the buffer, and its beginning is the copy.     *)
LEMMA CopyFacts ==
  ASSUME NEW old \in [1 .. BufSize -> Chars], NEW new \in Seq(Chars), Len(new) <= BufSize
  PROVE  /\ CopyOver(old, new) \in [1 .. BufSize -> Chars]
         /\ \A i \in 1 .. Len(new) : CopyOver(old, new)[i] = new[i]
<1> DEFINE tail == SubSeq(old, Len(new) + 1, BufSize)
<1>1. Len(new) \in Nat /\ BufSize \in Nat
  BY ConstFacts, LenProperties
<1>2. Len(old) = BufSize
  BY <1>1
<1>3. \A i \in (Len(new) + 1) .. BufSize : old[i] \in Chars
  BY <1>1
<1>4. tail \in Seq(Chars) /\ Len(tail) = BufSize - Len(new)
  <2>1. Len(new) + 1 \in Int /\ BufSize \in Int
    BY <1>1
  <2>2. /\ tail \in Seq(Chars)
        /\ Len(tail) = IF Len(new) + 1 <= BufSize THEN BufSize - (Len(new) + 1) + 1 ELSE 0
    BY <1>3, <2>1, SubSeqProperties
  <2> QED
    BY <1>1, <2>2
<1>5. CopyOver(old, new) = new \o tail
  BY <1>2 DEF CopyOver
<1> HIDE DEF tail
<1>6. /\ new \o tail \in Seq(Chars) /\ Len(new \o tail) = Len(new) + Len(tail)
      /\ \A i \in 1 .. Len(new) + Len(tail) : (new \o tail)[i] =
           IF i <= Len(new) THEN new[i] ELSE tail[i - Len(new)]
  BY <1>4, ConcatProperties
<1>7. Len(new \o tail) = BufSize
  BY <1>1, <1>4, <1>6
<1>8. new \o tail \in [1 .. BufSize -> Chars]
  BY <1>6, <1>7, LenProperties
<1>9. \A i \in 1 .. Len(new) : i \in 1 .. Len(new) + Len(tail) /\ i <= Len(new)
  BY <1>1, <1>4
<1> QED
  BY <1>5, <1>6, <1>8, <1>9

(* A frame in order, after what was sent last, keeps the order.            *)
LEMMA SendsInOrder ==
  ASSUME NEW last \in Chars, NEW s \in Seq(Chars), NEW hi,
         Sorted(s, Len(s)), Within(s, Len(s), last, hi)
  PROVE  Increasing(<<last>> \o s)
<1> DEFINE t == <<last>> \o s
<1>1. Len(s) \in Nat /\ <<last>> \in Seq(Chars) /\ Len(<<last>>) = 1 /\ <<last>>[1] = last
  BY LenProperties
<1>2. /\ Len(t) = 1 + Len(s)
      /\ \A i \in 1 .. 1 + Len(s) : t[i] = IF i <= 1 THEN <<last>>[i] ELSE s[i - 1]
  BY <1>1, ConcatProperties
<1> HIDE DEF t
<1>3. ASSUME NEW i \in 1 .. Len(t) - 1 PROVE t[i] < t[i + 1]
  <2>1. i \in 1 .. 1 + Len(s) /\ i + 1 \in 1 .. 1 + Len(s) /\ ~(i + 1 <= 1) /\ i \in 1 .. Len(s)
        /\ (i + 1) - 1 = i
    BY <1>1, <1>2
  <2>2. t[i + 1] = s[i]
    BY <1>2, <2>1
  <2>3. CASE i = 1
    <3>1. t[i] = last
      BY <1>1, <1>2, <2>1, <2>3
    <3> QED
      BY <2>1, <2>2, <3>1 DEF Within
  <2>4. CASE i # 1
    <3>1. i - 1 \in 1 .. Len(s) /\ i - 1 < i /\ ~(i <= 1)
      BY <1>1, <2>1, <2>4
    <3>2. t[i] = s[i - 1]
      BY <1>2, <2>1, <3>1
    <3> QED
      BY <2>1, <2>2, <3>1, <3>2 DEF Sorted
  <2> QED
    BY <2>3, <2>4
<1> QED
  BY <1>3 DEF Increasing, t

-----------------------------------------------------------------------------
(* The invariant implies what the run checks, and holds initially.         *)
LEMMA InvImplies == Inv => FramesSound /\ SentInOrder
<1> SUFFICES ASSUME Inv PROVE FramesSound /\ SentInOrder
  OBVIOUS
<1>1. TypeOK
  BY DEF Inv, TypeOK, ModeType, UartType, NetType, SignalType, PcType, SenderType, HistoryType,
         Chars
<1>2. FrameStable
  BY DEF FrameStable, Inv, StableInv
<1>3. SentInOrder
  BY DEF SentInOrder, Inv, OrderInv
<1> QED
  BY <1>1, <1>2, <1>3 DEF FramesSound

LEMMA InitInv == Init => Inv
<1> SUFFICES ASSUME Init PROVE Inv
  OBVIOUS
<1> USE ConstFacts
<1>1. fd \in BOOLEAN /\ timerOn \in BOOLEAN
  BY DEF Init
<1>2. ModeType /\ SignalType /\ PcType
  BY <1>1 DEF Init, ModeType, SignalType, PcType
<1>3. UartType /\ NetType
  BY DEF Init, UartType, NetType
<1>4. SenderType /\ HistoryType
  BY EmptySeq DEF Init, SenderType, HistoryType
<1>5. StableInv
  BY DEF Init, StableInv
<1>6. OrderInv
  <2>1. Len(rec) = 0 /\ Len(sending) = 0 /\ 1 .. 0 = {} /\ lastSent = 0 /\ Len(input) = 0
    BY DEF Init
  <2>2. ordered /\ ~Pending /\ tpc = "idle"
    BY DEF Init, Pending
  <2> QED
    BY <2>1, <2>2 DEF OrderInv, Sorted, Within, Before
<1> QED
  BY <1>2, <1>3, <1>4, <1>5, <1>6 DEF Inv

-----------------------------------------------------------------------------
(* Steps that leave the characters alone, wherever they are.               *)
LEMMA OrderFrame ==
  ASSUME OrderInv, UNCHANGED <<rec, net, sending, input, lastSent, ordered, raced, tpc>>,
         spc' \notin {"send", "done"} => spc \notin {"send", "done"}
  PROVE  OrderInv'
<1>1. UNCHANGED <<net_sendStart, net_send_len, net_send_data>>
  BY DEF net
<1>2. Pending' <=> Pending
  BY <1>1 DEF Pending
<1> QED
  BY <1>1, <1>2 DEF OrderInv, Sorted, Within, Before

LEMMA StableFrame ==
  ASSUME StableInv, UNCHANGED <<net, sending, tpc>>, spc' # "send" \/ UNCHANGED <<spc, undisturbed>>
  PROVE  StableInv'
BY DEF StableInv, net, NetFrame

LEMMA Quiet ==
  ASSUME Inv, UNCHANGED <<uart, net, sender, history, tpc>>,
         ModeType', SignalType', mpc' \in {"pend", "delay", "switch"},
         rpc' \in {"top", "connect", "settle", "recv", "end"}
  PROVE  Inv'
<1>1. UartType' /\ NetType' /\ PcType' /\ SenderType' /\ HistoryType'
  BY DEF Inv, UartType, NetType, PcType, SenderType, HistoryType, uart, net, sender, history
<1>2. StableInv' /\ OrderInv'
  BY OrderFrame, StableFrame DEF Inv, sender, history, uart
<1> QED
  BY <1>1, <1>2 DEF Inv

LEMMA UartRecvKeeps == ASSUME Inv, UartRecvThread PROVE Inv'
<1>1. timerOn' \in BOOLEAN
  BY DEF UartRecvThread, Inv, SignalType
<1>2. ModeType' /\ SignalType'
  BY <1>1 DEF UartRecvThread, Inv, ModeType, SignalType, mode
<1>3. mpc' \in {"pend", "delay", "switch"} /\ rpc' \in {"top", "connect", "settle", "recv", "end"}
  BY DEF UartRecvThread, Inv, PcType
<1> QED
  BY <1>2, <1>3, Quiet DEF UartRecvThread

(* RecvThread's steps but the last; TestSerialToWifi's but the reset; the  *)
(* link's events.                                                          *)
LEMMA SemFacts == ASSUME Inv PROVE SemPosted \in 0 .. SemMax
BY ConstFacts DEF SemPosted, Inv, SignalType

LEMMA QuietKeeps ==
  ASSUME Inv,
         \/ RecvEnters \/ Connects \/ Connected \/ Receives \/ Disconnected
         \/ MainPends \/ MainSwitches \/ MainKeepsMode
         \/ (\E event \in {"UP", "SCAN_DONE", "DOWN"} : AppEvtCallBack(event))
  PROVE  Inv'
<1>0. /\ mpc \in {"pend", "delay", "switch"} /\ rpc \in {"top", "connect", "settle", "recv", "end"}
      /\ ModeType /\ SignalType
  BY DEF Inv, PcType
<1>1. CASE RecvEnters
  <2>1. ModeType' /\ SignalType'
    BY <1>0, <1>1 DEF RecvEnters, ModeType, SignalType, mode, signals
  <2> QED
    BY <1>0, <1>1, <2>1, Quiet DEF RecvEnters
<1>2. CASE Connects
  <2>1. ModeType' /\ SignalType'
    BY <1>0, <1>2 DEF Connects, ModeType, SignalType, signals
  <2> QED
    BY <1>0, <1>2, <2>1, Quiet DEF Connects
<1>3. CASE Connected
  <2>1. ModeType' /\ SignalType'
    BY <1>0, <1>3 DEF Connected, ModeType, SignalType, signals
  <2> QED
    BY <1>0, <1>3, <2>1, Quiet DEF Connected
<1>4. CASE Receives
  <2>1. ModeType' /\ SignalType'
    BY <1>0, <1>4 DEF Receives, ModeType, SignalType, signals
  <2> QED
    BY <1>0, <1>4, <2>1, Quiet DEF Receives
<1>5. CASE Disconnected
  <2>1. ModeType' /\ SignalType'
    BY <1>0, <1>5 DEF Disconnected, ModeType, SignalType, signals
  <2> QED
    BY <1>0, <1>5, <2>1, Quiet DEF Disconnected
<1>6. CASE MainPends
  <2>1. modeSwitchSem' \in 0 .. SemMax
    BY <1>0, <1>6, ConstFacts DEF MainPends, SignalType
  <2>2. ModeType' /\ SignalType'
    BY <1>0, <1>6, <2>1 DEF MainPends, ModeType, SignalType, mode
  <2> QED
    BY <1>0, <1>6, <2>2, Quiet DEF MainPends
<1>7. CASE MainSwitches
  <2>1. ModeType' /\ SignalType'
    BY <1>0, <1>7 DEF MainSwitches, ModeType, SignalType, signals
  <2> QED
    BY <1>0, <1>7, <2>1, Quiet DEF MainSwitches
<1>8. CASE MainKeepsMode
  <2>1. ModeType' /\ SignalType'
    BY <1>0, <1>8 DEF MainKeepsMode, ModeType, SignalType, mode, signals
  <2> QED
    BY <1>0, <1>8, <2>1, Quiet DEF MainKeepsMode
<1>9. CASE \E event \in {"UP", "SCAN_DONE", "DOWN"} : AppEvtCallBack(event)
  <2>1. PICK event \in {"UP", "SCAN_DONE", "DOWN"} : AppEvtCallBack(event)
    BY <1>9
  <2>2. link_status' \in {"UP", "SCAN_DONE", "DOWN"}
    BY <2>1 DEF AppEvtCallBack
  <2>3. ModeType' /\ SignalType'
    BY <1>0, <2>1, <2>2 DEF AppEvtCallBack, ModeType, SignalType, signals
  <2> QED
    BY <1>0, <2>1, <2>3, Quiet DEF AppEvtCallBack
<1> QED
  BY <1>1, <1>2, <1>3, <1>4, <1>5, <1>6, <1>7, <1>8, <1>9

-----------------------------------------------------------------------------
(* A reset empties every buffer but the one send works on.                 *)
LEMMA ResetKeeps ==
  ASSUME Inv, ResetBuffers, tpc = "idle", UNCHANGED <<end_sendFlags, signals, tpc, sending, FailCnt,
                                            input, lastSent, ordered, raced>>,
         ModeType', mpc' \in {"pend", "delay", "switch"},
         rpc' \in {"top", "connect", "settle", "recv", "end"},
         spc' = spc \/ spc' = "top"
  PROVE  Inv'
<1> USE ConstFacts
<1>1. rec' = <<>> /\ net_sendStart' = 0 /\ net_send_len' = 0 /\ net_send_data' = net_send_data
      /\ undisturbed' = (spc # "send")
  BY DEF ResetBuffers
<1>2. UartType' /\ NetType' /\ SignalType' /\ PcType'
  BY <1>1 DEF Inv, UartType, NetType, SignalType, PcType, signals
<1>3. SenderType' /\ HistoryType'
  BY DEF Inv, SenderType, HistoryType
<1>4. StableInv'
  BY <1>1 DEF StableInv
<1>5. OrderInv'
  <2>1. ~Pending'
    BY <1>1 DEF Pending
  <2>2. Len(rec') = 0 /\ 1 .. 0 = {}
    BY <1>1
  <2> QED
    BY <1>1, <2>1, <2>2 DEF Inv, OrderInv, Sorted, Within, Before
<1> QED
  BY <1>2, <1>3, <1>4, <1>5 DEF Inv

LEMMA ResetsKeep == ASSUME Inv, RecvEnds \/ MainClears \/ Quit PROVE Inv'
<1>0. /\ mpc \in {"pend", "delay", "switch"} /\ rpc \in {"top", "connect", "settle", "recv", "end"}
      /\ ModeType /\ FALSE \in BOOLEAN
  BY DEF Inv, PcType
<1>1. CASE RecvEnds
  <2>1. ModeType'
    BY <1>0, <1>1 DEF RecvEnds, ModeType
  <2> QED
    BY <1>0, <1>1, <2>1, ResetKeeps DEF RecvEnds, sender
<1>2. CASE MainClears
  <2>1. ModeType'
    BY <1>0, <1>2 DEF MainClears, ModeType
  <2> QED
    BY <1>0, <1>2, <2>1, ResetKeeps DEF MainClears, sender
<1>3. CASE Quit
  <2>1. ModeType'
    BY <1>0, <1>3 DEF Quit, ModeType
  <2> QED
    BY <1>0, <1>3, <2>1, ResetKeeps DEF Quit, sender
<1> QED
  BY <1>1, <1>2, <1>3

-----------------------------------------------------------------------------
(* The timer: it moves a frame while only the handler may come between.    *)
LEMMA TimerKeeps == ASSUME Inv, Timer PROVE Inv'
<1> USE ConstFacts
<1>0. /\ mpc \in {"pend", "delay", "switch"} /\ rpc \in {"top", "connect", "settle", "recv", "end"}
      /\ ModeType /\ SignalType /\ UartType /\ NetType /\ SenderType /\ HistoryType
      /\ PcType /\ OrderInv /\ StableInv
  BY DEF Inv, PcType
<1>a. Len(rec) \in Nat /\ net_send_len \in Nat
  BY <1>0, LenProperties DEF UartType, NetType
<1>1. CASE TimerEscape
  <2>1. modeSwitchSem' \in 0 .. SemMax
    BY <1>1, SemFacts DEF TimerEscape
  <2>2. ModeType' /\ SignalType'
    BY <1>0, <1>1, <2>1 DEF TimerEscape, ModeType, SignalType, mode
  <2> QED
    BY <1>0, <1>1, <2>2, Quiet DEF TimerEscape, history
<1>2. CASE TimerDiscards
  <2>1. /\ rec' = <<>> /\ tpc = "idle" /\ net_sendStart = 0
        /\ UNCHANGED <<mode, end_sendFlags, net, signals, tpc, mpc, sender, rpc, history, bounds>>
    BY <1>2 DEF TimerDiscards, TimerRuns
  <2>2. ModeType' /\ UartType' /\ NetType' /\ SignalType' /\ PcType' /\ SenderType' /\ HistoryType'
    BY <1>0, <2>1 DEF ModeType, UartType, NetType, SignalType, PcType, SenderType, HistoryType,
                      mode, net, signals, sender, history
  <2>3. StableInv'
    BY <1>0, <2>1, StableFrame DEF sender, history
  <2>4. OrderInv'
    <3>1. ~Pending'
      BY <2>1 DEF Pending, net
    <3>2. Len(rec') = 0 /\ 1 .. 0 = {}
      BY <2>1
    <3> QED
      BY <1>0, <2>1, <3>1, <3>2 DEF OrderInv, Sorted, Within, Before, sender, history
  <2> QED
    BY <2>2, <2>3, <2>4 DEF Inv
<1>3. CASE TimerBegins
  <2>1. /\ tpc = "idle" /\ net_sendStart = 0 /\ tpc' = "len"
        /\ UNCHANGED <<mode, uart, net, signals, mpc, sender, rpc, history, bounds>>
    BY <1>3 DEF TimerBegins, TimerRuns
  <2>2. ModeType' /\ UartType' /\ NetType' /\ SignalType' /\ PcType' /\ SenderType' /\ HistoryType'
    BY <1>0, <2>1 DEF ModeType, UartType, NetType, SignalType, PcType, SenderType, HistoryType,
                      mode, uart, net, signals, sender, history
  <2>3. StableInv'
    BY <1>0, <2>1 DEF StableInv, sender, history
  <2>4. OrderInv'
    <3>1. ~Pending' /\ net_sendStart' = 0
      BY <2>1 DEF Pending, net
    <3> QED
      BY <1>0, <2>1, <3>1 DEF OrderInv, Sorted, Within, Before, sender, history, uart
  <2> QED
    BY <2>2, <2>3, <2>4 DEF Inv
<1>4. CASE TimerTakesLen
  <2>1. /\ tpc = "len" /\ net_send_len' = Len(rec) /\ tpc' = "copy"
        /\ UNCHANGED <<mode, uart, net_sendStart, net_send_data, signals, mpc, sender, rpc, history,
                       bounds>>
    BY <1>4 DEF TimerTakesLen
  <2>2. ModeType' /\ UartType' /\ NetType' /\ SignalType' /\ PcType' /\ SenderType' /\ HistoryType'
    BY <1>0, <1>a, <2>1 DEF ModeType, UartType, NetType, SignalType, PcType, SenderType, HistoryType,
                      mode, uart, signals, sender, history
  <2>3. StableInv'
    BY <1>0, <2>1 DEF StableInv, sender, history
  <2>4. OrderInv'
    <3>1. ~raced => net_sendStart = 0
      BY <1>0, <2>1 DEF OrderInv
    <3>2. ~raced => ~Pending'
      BY <2>1, <3>1 DEF Pending
    <3>3. net_send_len' <= Len(rec') /\ UNCHANGED <<rec, sending, lastSent, input, ordered, raced>>
      BY <1>a, <2>1 DEF uart, sender, history
    <3> QED
      BY <1>0, <2>1, <3>1, <3>2, <3>3 DEF OrderInv, Sorted, Within, Before
  <2> QED
    BY <2>2, <2>3, <2>4 DEF Inv
<1>5. CASE TimerCopies
  <2>1. /\ tpc = "copy" /\ net_send_data' = CopyOver(net_send_data, rec) /\ tpc' = "clear"
        /\ UNCHANGED <<mode, uart, net_sendStart, net_send_len, signals, mpc, sender, rpc, history,
                       bounds>>
    BY <1>5 DEF TimerCopies
  <2>2. /\ net_send_data' \in [1 .. BufSize -> Chars]
        /\ \A i \in 1 .. Len(rec) : net_send_data'[i] = rec[i]
    BY <1>0, <2>1, CopyFacts DEF UartType, NetType
  <2>3. ModeType' /\ UartType' /\ NetType' /\ SignalType' /\ PcType' /\ SenderType' /\ HistoryType'
    BY <1>0, <2>1, <2>2 DEF ModeType, UartType, NetType, SignalType, PcType, SenderType, HistoryType,
                      mode, uart, signals, sender, history
  <2>4. StableInv'
    BY <1>0, <2>1 DEF StableInv, sender, history
  <2>5. OrderInv'
    <3>1. ~raced => ~Pending' /\ net_send_len <= Len(rec)
      BY <1>0, <2>1 DEF OrderInv, Pending
    <3>2. UNCHANGED <<rec, sending, lastSent, input, ordered, raced>>
      BY <2>1 DEF uart, sender, history
    <3>3. net_send_len <= Len(rec) => \A i \in 1 .. net_send_len : net_send_data'[i] = rec[i]
      BY <1>a, <2>2
    <3> QED
      BY <1>0, <2>1, <3>1, <3>2, <3>3 DEF OrderInv, Sorted, Within, Before
  <2> QED
    BY <2>3, <2>4, <2>5 DEF Inv
<1>6. CASE TimerClears
  <2>1. /\ tpc = "clear" /\ rec' = <<>> /\ tpc' = "flag"
        /\ UNCHANGED <<mode, end_sendFlags, net, signals, mpc, sender, rpc, history, bounds>>
    BY <1>6 DEF TimerClears
  <2>2. ModeType' /\ UartType' /\ NetType' /\ SignalType' /\ PcType' /\ SenderType' /\ HistoryType'
    BY <1>0, <2>1 DEF ModeType, UartType, NetType, SignalType, PcType, SenderType, HistoryType,
                      mode, net, signals, sender, history
  <2>3. StableInv'
    BY <1>0, <2>1 DEF StableInv, sender, history
  <2>4. OrderInv'
    <3>1. Len(rec') = 0 /\ 1 .. 0 = {}
      BY <2>1
    <3>2. UNCHANGED <<net_sendStart, net_send_len, net_send_data, sending, lastSent, input, ordered, raced>>
      BY <2>1 DEF net, sender, history
    <3>3. ~raced => /\ Sorted(net_send_data, net_send_len)
                    /\ Within(net_send_data, net_send_len, lastSent, Len(input))
      <4>1. ~raced => \A i \in 1 .. net_send_len : i \in 1 .. Len(rec) /\ net_send_data[i] = rec[i]
        BY <1>0, <1>a, <2>1 DEF OrderInv
      <4> QED
        BY <1>0, <4>1 DEF OrderInv, Sorted, Within
    <3>4. Within(net_send_data, net_send_len, lastSent, Len(input)) =>
            Within(net_send_data, net_send_len, 0, Len(input))
      <4>1. lastSent \in Nat /\ \A i \in 1 .. net_send_len : net_send_data[i] \in Nat
        <5>1. lastSent \in Chars /\ \A i \in 1 .. net_send_len : net_send_data[i] \in Chars
          BY <1>0 DEF HistoryType, NetType
        <5> QED
          BY <5>1
      <4> QED
        BY <4>1 DEF Within
    <3> QED
      BY <1>0, <2>1, <3>1, <3>2, <3>3, <3>4 DEF OrderInv, Sorted, Within, Before
  <2> QED
    BY <2>2, <2>3, <2>4 DEF Inv
<1>7. CASE TimerFlags
  <2>1. /\ tpc = "flag" /\ net_sendStart' = 1 /\ tpc' = "idle"
        /\ UNCHANGED <<mode, uart, net_send_len, net_send_data, signals, mpc, sender, rpc, history,
                       bounds>>
    BY <1>7 DEF TimerFlags
  <2>2. ModeType' /\ UartType' /\ NetType' /\ SignalType' /\ PcType' /\ SenderType' /\ HistoryType'
    BY <1>0, <2>1 DEF ModeType, UartType, NetType, SignalType, PcType, SenderType, HistoryType,
                      mode, uart, signals, sender, history
  <2>3. StableInv'
    BY <1>0, <2>1 DEF StableInv, sender, history
  <2>4. OrderInv'
    <3>1. Pending
      BY <2>1 DEF Pending
    <3>2. UNCHANGED <<rec, sending, spc, lastSent, input, ordered, raced>>
      BY <2>1 DEF uart, sender, history
    <3> QED
      BY <1>0, <2>1, <3>1, <3>2 DEF OrderInv, Sorted, Within, Before
  <2> QED
    BY <2>2, <2>3, <2>4 DEF Inv
<1> QED
  BY <1>1, <1>2, <1>3, <1>4, <1>5, <1>6, <1>7 DEF Timer

-----------------------------------------------------------------------------
(* SendThread.                                                             *)
LEMMA SenderFrame ==
  ASSUME Inv, UNCHANGED <<mode, uart, net, signals, tpc, mpc, sending, rpc, history>>,
         spc' \in {"top", "wait", "nosocket", "loop", "send", "done", "giveup", "len"} \ {"send"},
         spc' \notin {"send", "done"} => spc \notin {"send", "done"},
         FailCnt' \in 0 .. MaxFail, spc' \notin {"top", "giveup"} => FailCnt' < MaxFail
  PROVE  Inv'
<1>1. /\ ModeType' /\ UartType' /\ NetType' /\ SignalType' /\ PcType' /\ HistoryType'
  BY DEF Inv, ModeType, UartType, NetType, SignalType, PcType, HistoryType,
         mode, uart, net, signals, history
<1>2. SenderType'
  BY DEF Inv, SenderType
<1>3. StableInv' /\ OrderInv'
  BY OrderFrame, StableFrame DEF Inv, history, uart
<1> QED
  BY <1>1, <1>2, <1>3 DEF Inv

LEMMA WalksKeep == ASSUME Inv, SendEnters \/ SendStarts \/ SendReturns PROVE Inv'
<1>0. FailCnt \in 0 .. MaxFail /\ (spc \notin {"top", "giveup"} => FailCnt < MaxFail)
  BY DEF Inv, SenderType
<1>1. CASE SendEnters
  BY <1>1, SenderFrame, ConstFacts DEF SendEnters
<1>2. CASE SendStarts
  BY <1>0, <1>2, SenderFrame DEF SendStarts
<1>3. CASE SendReturns
  BY <1>0, <1>3, SenderFrame DEF SendReturns
<1> QED
  BY <1>1, <1>2, <1>3

LEMMA NoSocketKeeps == ASSUME Inv, SendNoSocket PROVE Inv'
<1>0. /\ tpc = "idle" /\ spc = "nosocket" /\ spc' = "top"
      /\ IF atMode = "DATA" THEN ResetBuffers ELSE UNCHANGED <<rec, net, undisturbed>>
      /\ UNCHANGED <<mode, end_sendFlags, signals, tpc, mpc, sending, FailCnt, rpc, input, lastSent,
                     ordered, raced, bounds>>
  BY DEF SendNoSocket
<1>1. CASE atMode = "DATA"
  <2>1. ModeType' /\ mpc' \in {"pend", "delay", "switch"}
        /\ rpc' \in {"top", "connect", "settle", "recv", "end"}
    BY <1>0 DEF Inv, ModeType, PcType, mode
  <2> QED
    BY <1>0, <1>1, <2>1, ResetKeeps
<1>2. CASE atMode # "DATA"
  <2>1. UNCHANGED <<mode, uart, net, signals, tpc, mpc, sending, rpc, history>>
    BY <1>0, <1>2 DEF uart, history
  <2>2. FailCnt' \in 0 .. MaxFail
    BY <1>0 DEF Inv, SenderType
  <2> QED
    BY <1>0, <2>1, <2>2, SenderFrame
<1> QED
  BY <1>1, <1>2

(* send is called with the frame that the chain has next.                  *)
LEMMA CallsKeeps == ASSUME Inv, SendCalls PROVE Inv'
<1>0. /\ tpc = "idle" /\ spc = "loop" /\ net_sendStart = 1 /\ spc' = "send" /\ sending' = NetFrame
      /\ undisturbed' = TRUE
      /\ UNCHANGED <<mode, uart, net, signals, tpc, mpc, FailCnt, rpc, input, lastSent, ordered,
                     raced, bounds>>
  BY DEF SendCalls
<1>1. /\ NetFrame \in Seq(Chars) /\ Len(NetFrame) = net_send_len
      /\ \A i \in 1 .. net_send_len : NetFrame[i] = net_send_data[i]
  BY NetFrameFacts DEF Inv
<1>2. ModeType' /\ UartType' /\ NetType' /\ SignalType' /\ PcType' /\ HistoryType'
  BY <1>0 DEF Inv, ModeType, UartType, NetType, SignalType, PcType, HistoryType,
              mode, uart, net, signals
<1>3. SenderType'
  BY <1>0, <1>1 DEF Inv, SenderType
<1>4. StableInv'
  BY <1>0 DEF StableInv, net, NetFrame
<1>5. OrderInv'
  <2>1. /\ UNCHANGED <<rec, net_sendStart, net_send_len, net_send_data, input, lastSent, ordered,
                       raced, tpc>>
        /\ Pending
    BY <1>0 DEF uart, net, Pending
  <2>2. ~raced => /\ Sorted(net_send_data, net_send_len)
                  /\ Within(net_send_data, net_send_len, lastSent, Len(input))
                  /\ Before(net_send_data, net_send_len, rec, Len(rec))
    BY <1>0, <2>1 DEF Inv, OrderInv
  <2>3. ~raced => /\ Sorted(sending', Len(sending'))
                  /\ Within(sending', Len(sending'), lastSent, Len(input))
                  /\ Before(sending', Len(sending'), rec, Len(rec))
    BY <1>0, <1>1, <2>2 DEF Sorted, Within, Before
  <2>4. OrderInv /\ (Pending' <=> Pending)
    BY <2>1 DEF Inv, Pending
  <2> QED
    BY <1>0, <2>1, <2>3, <2>4 DEF OrderInv, Sorted, Within, Before, Inv
<1> QED
  BY <1>2, <1>3, <1>4, <1>5 DEF Inv

(* It succeeds: what comes later in the chain comes after what was sent.   *)
LEMMA SucceedsKeeps == ASSUME Inv, SendSucceeds PROVE Inv'
<1> USE ConstFacts
<1>0. /\ tpc = "idle" /\ spc = "send" /\ sending' = <<>> /\ FailCnt' = 0 /\ spc' = "done"
      /\ lastSent' = IF sending = <<>> THEN lastSent ELSE sending[Len(sending)]
      /\ ordered' = (ordered /\ Increasing(<<lastSent>> \o sending))
      /\ UNCHANGED <<mode, uart, net, signals, tpc, mpc, rpc, input, undisturbed, raced, bounds>>
  BY DEF SendSucceeds
<1>1. lastSent \in Chars /\ sending \in Seq(Chars) /\ Len(sending) \in Nat
  BY LenProperties DEF Inv, HistoryType, SenderType
<1>2. sending # <<>> => Len(sending) \in 1 .. Len(sending)
  BY <1>1, EmptySeq
<1>3. lastSent' \in Chars
  BY <1>0, <1>1, <1>2, ElementOfSeq
<1>4. ModeType' /\ UartType' /\ NetType' /\ SignalType' /\ PcType' /\ HistoryType'
  BY <1>0, <1>3 DEF Inv, ModeType, UartType, NetType, SignalType, PcType, HistoryType,
                    mode, uart, net, signals
<1>5. SenderType'
  BY <1>0 DEF Inv, SenderType
<1>6. StableInv'
  BY <1>0 DEF StableInv
<1>7. OrderInv'
  <2> SUFFICES ASSUME ~raced PROVE OrderInv'
    BY <1>0 DEF OrderInv
  <2>0. /\ UNCHANGED <<rec, net_sendStart, net_send_len, net_send_data, input, raced, tpc>>
        /\ Pending' <=> Pending
    BY <1>0 DEF uart, net, Pending
  <2>1. ordered'
    <3>1. ordered /\ Sorted(sending, Len(sending)) /\ Within(sending, Len(sending), lastSent, Len(input))
      BY DEF Inv, OrderInv
    <3> QED
      BY <1>0, <1>1, <3>1, SendsInOrder
  <2>2. lastSent' <= Len(input) /\ Within(rec, Len(rec), lastSent', Len(input))
    <3>1. CASE sending = <<>>
      BY <1>0, <3>1 DEF Inv, OrderInv
    <3>2. CASE sending # <<>>
      BY <1>0, <1>2, <3>2 DEF Inv, OrderInv, Within, Before
    <3> QED
      BY <3>1, <3>2
  <2>3. Len(sending') = 0 /\ 1 .. 0 = {}
    BY <1>0
  <2> QED
    BY <1>0, <2>0, <2>1, <2>2, <2>3 DEF Inv, OrderInv, Sorted, Within, Before
<1> QED
  BY <1>4, <1>5, <1>6, <1>7 DEF Inv

(* The frame is dropped: the chain is shorter.                             *)
LEMMA DropKeeps ==
  ASSUME Inv, tpc = "idle", sending' = <<>> \/ sending' = sending, spc' # "send", ModeType',
         UNCHANGED <<end_sendFlags, signals, tpc, mpc, rpc, input, lastSent, ordered, raced>>,
         rec' = rec \/ rec' = <<>>,
         \/ UNCHANGED net /\ (spc' \notin {"send", "done"} => spc \notin {"send", "done"})
         \/ net_sendStart' = 0 /\ net_send_len' \in {0, net_send_len} /\ net_send_data' = net_send_data
         \/ net_sendStart' = net_sendStart /\ net_send_len' = 0 /\ net_send_data' = net_send_data,
         SenderType'
  PROVE  Inv'
<1> USE ConstFacts
<1>0. rec' \in Seq(Chars) /\ Len(rec') <= BufSize
  <2>1. CASE rec' = rec
    BY <2>1 DEF Inv, UartType
  <2>2. CASE rec' = <<>>
    BY <2>2
  <2> QED
    BY <2>1, <2>2
<1>1. UartType' /\ SignalType' /\ PcType' /\ HistoryType'
  BY <1>0 DEF Inv, UartType, SignalType, PcType, HistoryType, signals
<1>2. NetType'
  BY DEF Inv, NetType, net
<1>3. StableInv'
  BY DEF StableInv
<1>4. OrderInv'
  <2> SUFFICES ASSUME ~raced PROVE OrderInv'
    BY DEF OrderInv
  <2>0. OrderInv /\ 1 .. 0 = {} /\ Len(<<>>) = 0
    BY DEF Inv
  <2>1. /\ ordered' /\ lastSent' <= Len(input')
        /\ Sorted(rec', Len(rec')) /\ Within(rec', Len(rec'), lastSent', Len(input'))
        /\ Sorted(sending', Len(sending'))
        /\ Within(sending', Len(sending'), lastSent', Len(input'))
        /\ Before(sending', Len(sending'), rec', Len(rec'))
    BY <2>0 DEF OrderInv, Sorted, Within, Before
  <2>2. Pending' =>
         /\ Sorted(net_send_data', net_send_len')
         /\ Within(net_send_data', net_send_len', 0, Len(input'))
         /\ Before(net_send_data', net_send_len', rec', Len(rec'))
         /\ spc' \notin {"send", "done"} =>
              Within(net_send_data', net_send_len', lastSent', Len(input'))
    <3>1. CASE net_sendStart' = 0
      BY <3>1 DEF Pending
    <3>2. CASE net_send_len' = 0
      BY <2>0, <3>2 DEF Sorted, Within, Before
    <3>3. CASE UNCHANGED net /\ (spc' \notin {"send", "done"} => spc \notin {"send", "done"})
      BY <2>0, <3>3 DEF Pending, OrderInv, Sorted, Within, Before, net
    <3> QED
      BY <3>1, <3>2, <3>3
  <2> QED
    BY <2>1, <2>2 DEF OrderInv
<1> QED
  BY <1>1, <1>2, <1>3, <1>4 DEF Inv

LEMMA DropsKeep ==
  ASSUME Inv, SendFails \/ SendGivesUp \/ SendClearsFlag \/ SendClearsLen PROVE Inv'
<1> USE ConstFacts
<1>0. ModeType /\ SenderType
  BY DEF Inv
<1>1. CASE SendFails
  <2>1. /\ tpc = "idle" /\ spc = "send" /\ FailCnt' = FailCnt + 1 /\ sending' = <<>>
        /\ UNCHANGED <<mode, uart, signals, tpc, mpc, rpc, history>>
    BY <1>1 DEF SendFails
  <2>2. \/ FailCnt' # MaxFail /\ spc' = "done" /\ UNCHANGED net
        \/ /\ FailCnt' = MaxFail /\ spc' = "giveup" /\ net_sendStart' = 0 /\ net_send_len' = 0
           /\ net_send_data' = net_send_data
    BY <1>1 DEF SendFails
  <2>3. FailCnt' \in 0 .. MaxFail /\ (FailCnt' # MaxFail => FailCnt' < MaxFail)
    BY <1>0, <2>1 DEF SenderType
  <2>4. SenderType' /\ ModeType'
    BY <1>0, <2>1, <2>2, <2>3 DEF SenderType, ModeType, mode
  <2> QED
    BY <2>1, <2>2, <2>4, DropKeeps DEF uart, history
<1>2. CASE SendGivesUp
  <2>1. SenderType' /\ ModeType'
    BY <1>0, <1>2 DEF SendGivesUp, SenderType, ModeType
  <2> QED
    BY <1>2, <2>1, DropKeeps DEF SendGivesUp, history
<1>3. CASE SendClearsFlag
  <2>1. SenderType' /\ ModeType'
    BY <1>0, <1>3 DEF SendClearsFlag, SenderType, ModeType, mode
  <2> QED
    BY <1>3, <2>1, DropKeeps DEF SendClearsFlag, uart, history
<1>4. CASE SendClearsLen
  <2>1. SenderType' /\ ModeType'
    BY <1>0, <1>4 DEF SendClearsLen, SenderType, ModeType, mode
  <2> QED
    BY <1>4, <2>1, DropKeeps DEF SendClearsLen, uart, history
<1> QED
  BY <1>1, <1>2, <1>3, <1>4

-----------------------------------------------------------------------------
(* uart_data_recv.  The new character has a position above all the others. *)
LEMMA StoredFacts ==
  ASSUME Inv, Len(input) < MaxInput, NEW r, r = rec \/ (r = Append(rec, Len(input) + 1) /\ HasRoom)
  PROVE  /\ r \in Seq(Chars) /\ Len(r) \in Nat /\ Len(r) <= BufSize
         /\ Len(rec) \in Nat /\ Len(rec) <= Len(r)
         /\ \A i \in 1 .. Len(rec) : r[i] = rec[i]
         /\ \A i \in 1 .. Len(r) : i \in 1 .. Len(rec) \/ (i = Len(rec) + 1 /\ r[i] = Len(input) + 1)
<1> USE ConstFacts
<1>1. rec \in Seq(Chars) /\ Len(rec) \in Nat /\ Len(rec) <= BufSize /\ Len(input) \in Nat
  BY LenProperties DEF Inv, UartType, HistoryType
<1>2. CASE r = rec
  BY <1>1, <1>2
<1>3. CASE r = Append(rec, Len(input) + 1) /\ HasRoom
  <2>1. Len(input) + 1 \in Chars
    BY <1>1 DEF Chars
  <2>2. /\ r \in Seq(Chars) /\ Len(r) = Len(rec) + 1
        /\ \A i \in 1 .. Len(rec) : r[i] = rec[i]
        /\ r[Len(rec) + 1] = Len(input) + 1
    BY <1>1, <1>3, <2>1, AppendProperties
  <2> QED
    BY <1>1, <1>3, <2>2 DEF HasRoom
<1> QED
  BY <1>2, <1>3

(* The positions in the buffer, before and after it.                       *)
LEMMA StoredOrder ==
  ASSUME Inv, ~raced, Len(input) < MaxInput, NEW r,
         r = rec \/ (r = Append(rec, Len(input) + 1) /\ HasRoom)
  PROVE  /\ Sorted(r, Len(r)) /\ Within(r, Len(r), lastSent, Len(input) + 1)
         /\ Before(sending, Len(sending), r, Len(r))
         /\ Pending => Before(net_send_data, net_send_len, r, Len(r))
<1> USE ConstFacts
<1>0. /\ Len(r) \in Nat /\ Len(rec) \in Nat /\ Len(rec) <= Len(r)
      /\ \A i \in 1 .. Len(rec) : r[i] = rec[i]
      /\ \A i \in 1 .. Len(r) : i \in 1 .. Len(rec) \/ (i = Len(rec) + 1 /\ r[i] = Len(input) + 1)
  BY StoredFacts
<1>1. /\ Len(input) \in Nat /\ lastSent \in Nat /\ lastSent <= Len(input)
      /\ \A i \in 1 .. Len(rec) : rec[i] \in Nat /\ lastSent < rec[i] /\ rec[i] <= Len(input)
  <2>1. Len(input) \in Nat /\ lastSent \in Nat /\ rec \in Seq(Chars)
    BY LenProperties DEF Inv, HistoryType, UartType
  <2>2. \A i \in 1 .. Len(rec) : rec[i] \in Chars
    BY <2>1, ElementOfSeq
  <2> QED
    BY <2>1, <2>2 DEF Inv, OrderInv, Within
<1>2. Sorted(r, Len(r))
  <2> SUFFICES ASSUME NEW i \in 1 .. Len(r), NEW j \in 1 .. Len(r), i < j PROVE r[i] < r[j]
    BY DEF Sorted
  <2>1. i \in 1 .. Len(rec)
    BY <1>0
  <2>2. CASE j \in 1 .. Len(rec)
    BY <1>0, <2>1, <2>2 DEF Inv, OrderInv, Sorted
  <2>3. CASE r[j] = Len(input) + 1
    BY <1>0, <1>1, <2>1, <2>3
  <2> QED
    BY <1>0, <2>2, <2>3
<1>3. Within(r, Len(r), lastSent, Len(input) + 1)
  BY <1>0, <1>1 DEF Within
<1>4. Before(sending, Len(sending), r, Len(r))
  <2> SUFFICES ASSUME NEW i \in 1 .. Len(sending), NEW j \in 1 .. Len(r) PROVE sending[i] < r[j]
    BY DEF Before
  <2>1. CASE j \in 1 .. Len(rec)
    BY <1>0, <2>1 DEF Inv, OrderInv, Before
  <2>2. CASE r[j] = Len(input) + 1
    <3>1. sending[i] \in Nat /\ sending[i] <= Len(input)
      <4>1. sending[i] \in Chars
        BY ElementOfSeq DEF Inv, SenderType
      <4> QED
        BY <4>1 DEF Inv, OrderInv, Within
    <3> QED
      BY <1>1, <2>2, <3>1
  <2> QED
    BY <1>0, <2>1, <2>2
<1>5. ASSUME Pending PROVE Before(net_send_data, net_send_len, r, Len(r))
  <2> SUFFICES ASSUME NEW i \in 1 .. net_send_len, NEW j \in 1 .. Len(r)
               PROVE  net_send_data[i] < r[j]
    BY DEF Before
  <2>1. CASE j \in 1 .. Len(rec)
    BY <1>0, <1>5, <2>1 DEF Inv, OrderInv, Before
  <2>2. CASE r[j] = Len(input) + 1
    <3>1. net_send_data[i] \in Nat /\ net_send_data[i] <= Len(input)
      <4>1. net_send_data[i] \in Chars
        BY DEF Inv, NetType
      <4> QED
        BY <1>5, <4>1 DEF Inv, OrderInv, Within
    <3> QED
      BY <1>1, <2>2, <3>1
  <2> QED
    BY <1>0, <2>1, <2>2
<1> QED
  BY <1>2, <1>3, <1>4, <1>5

(* The character stays in the receive buffer, if it found room: the chain  *)
(* grows at its end.                                                       *)
LEMMA GrowsKeeps ==
  ASSUME Inv, Len(input) < MaxInput, Len(input') = Len(input) + 1,
         rec' = rec \/ (rec' = Append(rec, Len(input) + 1) /\ HasRoom),
         UNCHANGED <<net, sending, lastSent, ordered, tpc, spc>>, ~raced' => ~raced
  PROVE  OrderInv'
<1> SUFFICES ASSUME ~raced' PROVE OrderInv'
  BY DEF OrderInv
<1>0. ~raced /\ OrderInv /\ Len(input) \in Nat
  BY LenProperties DEF Inv, HistoryType
<1>1. /\ UNCHANGED <<net_sendStart, net_send_len, net_send_data>> /\ (Pending' <=> Pending)
  BY DEF net, Pending
<1>2. /\ Sorted(rec', Len(rec')) /\ Within(rec', Len(rec'), lastSent, Len(input) + 1)
      /\ Before(sending, Len(sending), rec', Len(rec'))
      /\ Pending => Before(net_send_data, net_send_len, rec', Len(rec'))
  BY <1>0, StoredOrder
<1>3. /\ Len(rec') \in Nat /\ Len(rec) \in Nat /\ Len(rec) <= Len(rec')
      /\ \A i \in 1 .. Len(rec) : rec'[i] = rec[i]
  BY StoredFacts
<1>4. /\ ordered' /\ lastSent' <= Len(input')
      /\ Sorted(sending', Len(sending'))
      /\ Within(sending', Len(sending'), lastSent', Len(input'))
  <2>1. \A i \in 1 .. Len(sending) : sending[i] \in Nat
    BY ConstFacts, ElementOfSeq DEF Inv, SenderType
  <2>2. lastSent \in Nat
    BY ConstFacts DEF Inv, HistoryType
  <2> QED
    BY <1>0, <2>1, <2>2 DEF OrderInv, Sorted, Within
<1>5. /\ tpc' # "idle" => net_sendStart' = 0
      /\ tpc' \in {"copy", "clear"} => net_send_len' <= Len(rec')
      /\ tpc' = "clear" => \A i \in 1 .. net_send_len' : net_send_data'[i] = rec'[i]
  <2>1. net_send_len \in Nat
    BY ConstFacts DEF Inv, NetType
  <2> QED
    BY <1>0, <1>1, <1>3, <2>1 DEF OrderInv
<1>6. Pending' =>
         /\ Sorted(net_send_data', net_send_len')
         /\ Within(net_send_data', net_send_len', 0, Len(input'))
         /\ spc' \notin {"send", "done"} =>
              Within(net_send_data', net_send_len', lastSent', Len(input'))
  <2>1. \A i \in 1 .. net_send_len : net_send_data[i] \in Nat
    <3>1. \A i \in 1 .. net_send_len : net_send_data[i] \in Chars
      BY ConstFacts DEF Inv, NetType
    <3> QED
      BY <3>1, ConstFacts
  <2> QED
    BY <1>0, <1>1, <2>1 DEF OrderInv, Sorted, Within
<1> QED
  BY <1>1, <1>2, <1>4, <1>5, <1>6 DEF OrderInv

(* The handler moves a full frame itself: nobody else moved one.           *)
LEMMA HandsOverKeeps ==
  ASSUME Inv, Len(input) < MaxInput, Len(input') = Len(input) + 1,
         NEW r, r = rec \/ (r = Append(rec, Len(input) + 1) /\ HasRoom),
         net_send_len' = Len(r), net_send_data' = CopyOver(net_send_data, r), net_sendStart' = 1,
         rec' = <<>>, UNCHANGED <<sending, lastSent, ordered, tpc, spc>>,
         ~raced' => ~raced /\ tpc = "idle"
  PROVE  OrderInv'
<1> USE ConstFacts
<1> SUFFICES ASSUME ~raced' PROVE OrderInv'
  BY DEF OrderInv
<1>0. ~raced /\ tpc = "idle" /\ OrderInv /\ Len(input) \in Nat /\ lastSent \in Nat
  BY LenProperties DEF Inv, HistoryType
<1>1. r \in Seq(Chars) /\ Len(r) \in Nat /\ Len(r) <= BufSize
  BY StoredFacts
<1>2. \A i \in 1 .. Len(r) : net_send_data'[i] = r[i]
  BY <1>1, CopyFacts DEF Inv, NetType
<1>3. Sorted(r, Len(r)) /\ Within(r, Len(r), lastSent, Len(input) + 1)
  BY <1>0, StoredOrder
<1>4. Len(rec') = 0 /\ 1 .. 0 = {}
  OBVIOUS
<1>5. /\ ordered' /\ lastSent' <= Len(input')
      /\ Sorted(sending', Len(sending'))
      /\ Within(sending', Len(sending'), lastSent', Len(input'))
  <2>1. \A i \in 1 .. Len(sending) : sending[i] \in Nat
    BY ElementOfSeq DEF Inv, SenderType
  <2> QED
    BY <1>0, <2>1 DEF OrderInv, Sorted, Within
<1>6. /\ Sorted(net_send_data', net_send_len')
      /\ Within(net_send_data', net_send_len', lastSent', Len(input'))
  BY <1>2, <1>3 DEF Sorted, Within
<1>7. Within(net_send_data', net_send_len', 0, Len(input'))
  <2>1. \A i \in 1 .. Len(r) : r[i] \in Nat
    BY <1>1, ElementOfSeq
  <2> QED
    BY <1>0, <1>2, <1>3, <2>1 DEF Within
<1> QED
  BY <1>0, <1>4, <1>5, <1>6, <1>7 DEF OrderInv, Sorted, Within, Before

LEMMA UartKeeps == ASSUME Inv, NEW c \in Alphabet, UartByte(c) PROVE Inv'
<1> USE ConstFacts
<1> DEFINE here == Len(Append(input, c))
           stored == IF HasRoom THEN Append(rec, here) ELSE rec
           box == IF HasRoom THEN Posted(mbox, "start") ELSE mbox
           full == Len(stored) = BufSize
           esc == EscapeInOverflow(c, stored)
           buf == IF esc THEN Written ELSE stored
           Boxes == {"none", "start", "cancel", "-14", "-18"}
<1>0. /\ Len(input) < MaxInput /\ input' = Append(input, c)
      /\ UNCHANGED <<mode, timerOn, tpc, mpc, sender, rpc, lastSent, ordered, undisturbed, bounds>>
  BY DEF UartByte
<1>1. \/ /\ rec' = stored /\ mbox' = box
         /\ UNCHANGED <<end_sendFlags, net, modeSwitchSem, raced>>
      \/ /\ end_sendFlags' = IF full THEN TrackEscape(c) ELSE end_sendFlags
         /\ modeSwitchSem' = IF esc THEN SemPosted ELSE modeSwitchSem
         /\ mbox' = CASE esc -> Posted(box, "cancel")
                      [] full /\ end_sendFlags < Pluses /\ c # "+" -> Posted(box, "-14")
                      [] FrameFull(buf) /\ ~Linked -> Posted(box, "-18")
                      [] OTHER -> box
         /\ raced' = (raced \/ esc \/ (tpc # "idle" /\ FrameReady(buf)))
         /\ \/ /\ FrameReady(buf)
               /\ net_send_len' = Len(buf)
               /\ net_send_data' = CopyOver(net_send_data, buf)
               /\ net_sendStart' = 1
               /\ rec' = <<>>
            \/ ~FrameReady(buf) /\ rec' = buf /\ UNCHANGED net
  BY DEF UartByte
<1>2. /\ input' \in Seq(Alphabet) /\ here = Len(input) + 1 /\ Len(input) \in Nat
      /\ Len(input') = Len(input) + 1
  <2>1. input \in Seq(Alphabet)
    BY DEF Inv, HistoryType
  <2> QED
    BY <1>0, <2>1, AppendProperties, LenProperties
<1>3. stored = rec \/ (stored = Append(rec, Len(input) + 1) /\ HasRoom)
  BY <1>2
<1>4. stored \in Seq(Chars) /\ Len(stored) <= BufSize
  BY <1>0, <1>3, StoredFacts
<1>5. buf \in Seq(Chars) /\ Len(buf) <= BufSize
  <2>1. Written \in Seq(Chars) /\ Len(Written) = EscLen
    BY DEF Written
  <2> QED
    BY <1>4, <2>1
<1>6. box \in Boxes
  BY DEF Posted, Inv, SignalType
<1>7. TrackEscape(c) \in 0 .. EscLen - 1
  BY DEF TrackEscape, Inv, UartType
<1>8. SemPosted \in 0 .. SemMax
  BY SemFacts
<1> HIDE DEF here, stored, box, full, esc, buf
<1>9. mbox' \in Boxes
  <2>1. \A m \in Boxes : Posted(box, m) \in Boxes
    BY <1>6 DEF Posted
  <2> QED
    BY <1>1, <1>6, <2>1
<1>10. ModeType' /\ PcType' /\ SenderType'
  BY <1>0 DEF Inv, ModeType, PcType, SenderType, mode, sender
<1>11. SignalType'
  BY <1>0, <1>1, <1>8, <1>9 DEF Inv, SignalType
<1>12. HistoryType'
  BY <1>0, <1>2 DEF Inv, HistoryType
<1>13. end_sendFlags' \in 0 .. EscLen - 1
  BY <1>1, <1>7 DEF Inv, UartType
<1>14. ~raced' => ~raced
  BY <1>1
<1>15. CASE rec' = stored /\ UNCHANGED net
  <2>1. UartType' /\ NetType'
    BY <1>4, <1>13, <1>15 DEF Inv, UartType, NetType, net
  <2>2. StableInv'
    BY <1>0, <1>15, StableFrame DEF Inv, sender
  <2>3. OrderInv'
    BY <1>0, <1>2, <1>3, <1>14, <1>15, GrowsKeeps DEF sender
  <2> QED
    BY <1>10, <1>11, <1>12, <2>1, <2>2, <2>3 DEF Inv
<1>16. CASE raced' /\ rec' = buf /\ UNCHANGED net
  <2>1. UartType' /\ NetType'
    BY <1>5, <1>13, <1>16 DEF Inv, UartType, NetType, net
  <2>2. StableInv'
    BY <1>0, <1>16, StableFrame DEF Inv, sender
  <2>3. OrderInv'
    BY <1>16 DEF OrderInv
  <2> QED
    BY <1>10, <1>11, <1>12, <2>1, <2>2, <2>3 DEF Inv
<1>17. CASE /\ FrameReady(buf) /\ net_send_len' = Len(buf) /\ rec' = <<>> /\ net_sendStart' = 1
            /\ net_send_data' = CopyOver(net_send_data, buf)
            /\ raced' = (raced \/ esc \/ (tpc # "idle" /\ FrameReady(buf)))
  <2>1. net_send_data' \in [1 .. BufSize -> Chars] /\ net_send_len' \in 0 .. BufSize
    BY <1>5, <1>17, CopyFacts, LenProperties DEF Inv, NetType
  <2>2. UartType' /\ NetType'
    BY <1>13, <1>17, <2>1 DEF UartType, NetType
  <2>3. StableInv'
    <3>1. ~(spc = "send" /\ undisturbed)
      BY <1>17 DEF FrameReady, Inv, StableInv
    <3> QED
      BY <1>0, <3>1 DEF StableInv, sender
  <2>4. OrderInv'
    <3>1. CASE esc
      BY <1>17, <3>1 DEF OrderInv
    <3>2. CASE ~esc
      <4>1. buf = stored
        BY <3>2 DEF buf
      <4>2. ~raced' => ~raced /\ tpc = "idle"
        BY <1>17
      <4> QED
        BY <1>0, <1>2, <1>3, <1>17, <4>1, <4>2, HandsOverKeeps DEF sender
    <3> QED
      BY <3>1, <3>2
  <2> QED
    BY <1>10, <1>11, <1>12, <2>2, <2>3, <2>4 DEF Inv
<1>18. esc \/ buf = stored
  BY DEF buf
<1> QED
  BY <1>1, <1>15, <1>16, <1>17, <1>18

-----------------------------------------------------------------------------
LEMMA NextKeeps == Inv /\ [Next]_vars => Inv'
<1> SUFFICES ASSUME Inv, [Next]_vars PROVE Inv'
  OBVIOUS
<1>1. CASE UNCHANGED vars
  <2>1. UNCHANGED <<mode, uart, net, signals, tpc, mpc, sender, rpc, history>>
    BY <1>1 DEF vars
  <2>2. /\ ModeType' /\ SignalType' /\ mpc' \in {"pend", "delay", "switch"}
        /\ rpc' \in {"top", "connect", "settle", "recv", "end"}
    BY <2>1 DEF Inv, ModeType, SignalType, PcType, mode, signals
  <2> QED
    BY <2>1, <2>2, Quiet
<1>2. CASE Next
  BY <1>2, UartKeeps, UartRecvKeeps, TimerKeeps, WalksKeep, NoSocketKeeps, CallsKeeps,
     SucceedsKeeps, DropsKeep, QuietKeeps, ResetsKeep
  DEF Next, SendSteps, RecvThread, Main
<1> QED
  BY <1>1, <1>2

(* The invariant holds throughout.                                         *)
LEMMA InvHolds == Spec => []Inv
BY InitInv, NextKeeps, PTL DEF Spec

(* uart_rec_data and net_send_data stay within MAX_RECV_BUFFER_SIZE, and   *)
(* nobody changes a frame that TCPSendTask is sending, unless a reset came *)
(* between.                                                                *)
THEOREM FramesCorrect == Spec => []FramesSound
BY InvHolds, InvImplies, PTL

(* The network gets the serial input in its order and nothing twice, as    *)
(* long as uart_data_recv never takes the buffer from the middle of        *)
(* timerFuncProcess.                                                       *)
THEOREM OrderCorrect == Spec => []SentInOrder
BY InvHolds, InvImplies, PTL
=============================================================================
