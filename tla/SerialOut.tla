------------------------------ MODULE SerialOut -----------------------------
(***************************************************************************)
(* From the network to the UART: RecvThread hands what recv returned to    *)
(* UartSendThread through one shared buffer, uart_send_data, guarded by    *)
(* two flags that no critical section protects (socketCom.c).              *)
(*                                                                         *)
(* The two tasks may be interleaved at any statement that touches a shared *)
(* variable; the scheduler of uC/OS-II allows fewer interleavings.  The    *)
(* interrupt handler of the UART and the mode switch are the environment.  *)
(* A chunk is what one call of recv returned; its length matters, the      *)
(* characters do not.                                                      *)
(***************************************************************************)
EXTENDS Naturals, Sequences

CONSTANTS RecvBufSize,  \* g_RecvBufSize
          Blank,        \* uart_send_data after memset(.., 0, ..)
          MaxChunks     \* bound on the number of chunks that arrive

(* A chunk: its number in order of arrival and its length, bytes_read. *)
Chunk == (1 .. MaxChunks) \X (1 .. RecvBufSize)

ASSUME SerialOutAssumption ==
  /\ RecvBufSize \in Nat \ {0}
  /\ MaxChunks \in Nat
  /\ Blank \notin Chunk

VARIABLES
  atMode,          \* UserParam.atMode
  uart_sendStart,
  uart_hasData,
  uart_send_data,
  rpc,             \* where RecvThread is
  recv_data,       \* its private buffer
  upc,             \* where UartSendThread is
  received,        \* history: the chunks recv has returned
  printed          \* history: the chunks written to the UART

recvVars == <<rpc, recv_data, received>>
sendVars == <<upc, printed>>
vars == <<atMode, uart_sendStart, uart_hasData, uart_send_data, rpc, recv_data,
          upc, received, printed>>

Init ==
  /\ atMode \in {"AT", "DATA"}
  /\ uart_sendStart = 0
  /\ uart_hasData = 0
  /\ uart_send_data = Blank
  /\ rpc = "top"
  /\ recv_data = Blank
  /\ upc = "poll"
  /\ received = <<>>
  /\ printed = <<>>

-----------------------------------------------------------------------------
(* The receive loop starts over in data mode only; in AT mode the task     *)
(* leaves it and comes back when the mode has changed.                     *)
CallRecv ==
  /\ rpc = "top"
  /\ atMode = "DATA"
  /\ rpc' = "recv"
  /\ UNCHANGED <<atMode, uart_sendStart, uart_hasData, uart_send_data,
                 recv_data, received, sendVars>>

(* recv or recvfrom fails or times out: the loop, or the whole task of the *)
(* connection, starts over.                                                *)
RecvFails ==
  /\ rpc = "recv"
  /\ rpc' = "top"
  /\ UNCHANGED <<atMode, uart_sendStart, uart_hasData, uart_send_data,
                 recv_data, received, sendVars>>

(* The values of bytes_read with which the code goes on. *)
EmptyReadAccepted == 0 .. RecvBufSize
ReadSizes == 1 .. RecvBufSize

(* recv returns data, whatever the mode is by now, and the task goes into  *)
(* its inner loop.                                                         *)
Receive ==
  /\ rpc = "recv"
  /\ Len(received) < MaxChunks
  /\ \E n \in ReadSizes :
       /\ recv_data' = <<Len(received) + 1, n>>
       /\ received' = Append(received, <<Len(received) + 1, n>>)
  /\ rpc' = "wait"
  /\ UNCHANGED <<atMode, uart_sendStart, uart_hasData, uart_send_data, sendVars>>

(* The inner loop sees the buffer empty. *)
EmptyIgnoringData == uart_sendStart = 0
BufferEmpty == uart_sendStart = 0 /\ uart_hasData = 0

SlotFree ==
  /\ rpc = "wait"
  /\ BufferEmpty
  /\ rpc' = "copy"
  /\ UNCHANGED <<atMode, uart_sendStart, uart_hasData, uart_send_data,
                 recv_data, received, sendVars>>

(* memcpy into the buffer, and its length. *)
Copy ==
  /\ rpc = "copy"
  /\ uart_send_data' = recv_data
  /\ rpc' = "flag"
  /\ UNCHANGED <<atMode, uart_sendStart, uart_hasData, recv_data, received, sendVars>>

Publish ==
  /\ rpc = "flag"
  /\ uart_hasData' = 1
  /\ rpc' = "top"
  /\ UNCHANGED <<atMode, uart_sendStart, uart_send_data, recv_data, received, sendVars>>

(* UartSendThread looks at the mode and the flags; otherwise it sleeps. *)
Poll ==
  /\ upc = "poll"
  /\ atMode = "DATA"
  /\ uart_sendStart = 0 /\ uart_hasData = 1
  /\ upc' = "start"
  /\ UNCHANGED <<atMode, uart_sendStart, uart_hasData, uart_send_data, recvVars, printed>>

MarkSending ==
  /\ upc = "start"
  /\ uart_sendStart' = 1
  /\ upc' = "print"
  /\ UNCHANGED <<atMode, uart_hasData, uart_send_data, recvVars, printed>>

(* FormatPrintf(uart_send_len), whatever the mode is by now. *)
FormatPrintf ==
  /\ upc = "print"
  /\ printed' = Append(printed, uart_send_data)
  /\ upc' = "stop"
  /\ UNCHANGED <<atMode, uart_sendStart, uart_hasData, uart_send_data, recvVars>>

StaysMarked ==
  /\ upc = "stop"
  /\ upc' = "clear"
  /\ UNCHANGED <<atMode, uart_sendStart, uart_hasData, uart_send_data, recvVars, printed>>

MarkStopped ==
  /\ upc = "stop"
  /\ uart_sendStart' = 0
  /\ upc' = "clear"
  /\ UNCHANGED <<atMode, uart_hasData, uart_send_data, recvVars, printed>>

NeverClears ==
  /\ upc = "clear"
  /\ upc' = "poll"
  /\ UNCHANGED <<atMode, uart_sendStart, uart_hasData, uart_send_data, recvVars, printed>>

ClearData ==
  /\ upc = "clear"
  /\ uart_hasData' = 0
  /\ upc' = "poll"
  /\ UNCHANGED <<atMode, uart_sendStart, uart_send_data, recvVars, printed>>

(* The interrupt handler recognises "+++\r\n" in an overflowing receive    *)
(* buffer and zeroes uart_send_data, at any moment.                        *)
EscapeBlanks ==
  /\ atMode = "DATA"
  /\ uart_send_data' = Blank
  /\ UNCHANGED <<atMode, uart_sendStart, uart_hasData, recvVars, sendVars>>

(* "+++" and AT+QUIT change the mode under both tasks. *)
SwitchMode ==
  /\ atMode' = IF atMode = "AT" THEN "DATA" ELSE "AT"
  /\ UNCHANGED <<uart_sendStart, uart_hasData, uart_send_data, recvVars, sendVars>>

RecvThread == CallRecv \/ RecvFails \/ Receive \/ SlotFree \/ Copy \/ Publish
UartSendThread == Poll \/ MarkSending \/ FormatPrintf \/ MarkStopped \/ ClearData

Next == RecvThread \/ UartSendThread \/ EscapeBlanks \/ SwitchMode

Spec == Init /\ [][Next]_vars

(* Both tasks are scheduled again and again: every task above them blocks  *)
(* or sleeps between two events.  Nothing makes data arrive or the mode    *)
(* change.                                                                 *)
FairSpec ==
  /\ Spec
  /\ WF_vars(SlotFree \/ Copy \/ Publish)
  /\ WF_vars(UartSendThread)

-----------------------------------------------------------------------------
(* Every variable keeps its type. *)
TypeOK ==
  /\ atMode \in {"AT", "DATA"}
  /\ uart_sendStart \in {0, 1}
  /\ uart_hasData \in {0, 1}
  /\ uart_send_data \in Chunk \cup {Blank}
  /\ rpc \in {"top", "recv", "wait", "copy", "flag"}
  /\ recv_data \in Chunk \cup {Blank}
  /\ upc \in {"poll", "start", "print", "stop", "clear"}
  /\ received \in Seq(Chunk)
  /\ printed \in Seq(Chunk \cup {Blank})

(* RecvThread never writes the buffer while UartSendThread may read it:    *)
(* the two flags make a lock although each is set and tested separately.   *)
BufferExclusive ==
  ~(rpc \in {"copy", "flag"} /\ upc # "poll")

(* The UART prints the chunks in the order the network delivered them,     *)
(* none twice, none skipped; only the escape may blank a chunk.            *)
PrintedInOrder ==
  /\ Len(printed) <= Len(received)
  /\ \A i \in 1 .. Len(printed) : printed[i] \in {received[i], Blank}

(* Once the device stays in data mode, every chunk that has arrived is     *)
(* printed, those of an earlier session included.                          *)
EventuallyPrinted ==
  <>[](atMode = "DATA") =>
    \A k \in 1 .. MaxChunks : (Len(received) >= k) ~> (Len(printed) >= k)

Pipe == INSTANCE SerialPipe WITH
  in <- received, out <- printed, Capacity <- 2

(* The two tasks and their flags implement an order-preserving pipe.       *)
ImplementsPipe == Pipe!Spec
=============================================================================
