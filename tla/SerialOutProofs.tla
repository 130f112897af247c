--------------------------- MODULE SerialOutProofs --------------------------
(***************************************************************************)
(* Proofs about the network-to-serial direction for every buffer size and  *)
(* any number of chunks.                                                   *)
(*                                                                         *)
(* BufferExclusive is not inductive: what keeps the tasks apart is what    *)
(* each flag says about where the tasks are (FlagInv).  The order of the   *)
(* chunks follows from where each chunk that is under way is (FlightInv).  *)
(***************************************************************************)
EXTENDS SerialOut, TLAPS

(* What the flags say about the two tasks. *)
FlagInv ==
  /\ uart_sendStart = 1 <=> upc \in {"print", "stop"}
  /\ upc # "poll" => uart_hasData = 1
  /\ rpc \in {"copy", "flag"} => uart_hasData = 0

(* A chunk that has arrived and is not yet printed is in the buffer or in  *)
(* the hands of RecvThread; the one in the buffer is the older.            *)
InBuffer == IF uart_hasData = 1 /\ upc \in {"poll", "start", "print"} THEN 1 ELSE 0
InHand == IF rpc \in {"wait", "copy", "flag"} THEN 1 ELSE 0

FlightInv ==
  /\ Len(received) = Len(printed) + InBuffer + InHand
  /\ InBuffer = 1 => uart_send_data \in {received[Len(printed) + 1], Blank}
  /\ InHand = 1 => recv_data = received[Len(received)]
  /\ rpc = "flag" => uart_send_data \in {recv_data, Blank}

IInv == TypeOK /\ FlagInv /\ FlightInv /\ PrintedInOrder

(* The initial state satisfies the invariant.                              *)
LEMMA InitIInv == Init => IInv
BY DEF Init, IInv, TypeOK, FlagInv, FlightInv, InBuffer, InHand, PrintedInOrder

(* Appending adds one element at the end and leaves the others alone.      *)
LEMMA AppendFacts ==
  ASSUME NEW S, NEW s \in Seq(S), NEW x \in S
  PROVE  /\ Append(s, x) \in Seq(S)
         /\ Len(Append(s, x)) = Len(s) + 1
         /\ Append(s, x)[Len(s) + 1] = x
         /\ \A i \in 1 .. Len(s) : Append(s, x)[i] = s[i]
OBVIOUS

(* Type correctness is preserved by every step.                            *)
LEMMA StepType == TypeOK /\ [Next]_vars => TypeOK'
<1> SUFFICES ASSUME TypeOK, [Next]_vars PROVE TypeOK'
  OBVIOUS
<1> USE DEF TypeOK, recvVars, sendVars
<1>1. CASE CallRecv \/ RecvFails \/ SlotFree \/ Copy \/ Publish
  BY <1>1 DEF CallRecv, RecvFails, SlotFree, Copy, Publish
<1>2. CASE Receive
  <2>1. PICK n \in 1 .. RecvBufSize :
          /\ recv_data' = <<Len(received) + 1, n>>
          /\ received' = Append(received, <<Len(received) + 1, n>>)
    BY <1>2 DEF Receive, ReadSizes
  <2>2. <<Len(received) + 1, n>> \in Chunk
    BY <1>2, SerialOutAssumption DEF Receive, Chunk
  <2>3. received' \in Seq(Chunk)
    BY <2>1, <2>2, AppendFacts
  <2> QED
    BY <1>2, <2>1, <2>2, <2>3 DEF Receive
<1>3. CASE Poll \/ MarkSending \/ MarkStopped \/ ClearData
  BY <1>3 DEF Poll, MarkSending, MarkStopped, ClearData
<1>4. CASE FormatPrintf
  <2>1. printed' \in Seq(Chunk \cup {Blank})
    BY <1>4, AppendFacts DEF FormatPrintf
  <2> QED
    BY <1>4, <2>1 DEF FormatPrintf
<1>5. CASE EscapeBlanks \/ SwitchMode
  BY <1>5 DEF EscapeBlanks, SwitchMode
<1>6. CASE UNCHANGED vars
  BY <1>6 DEF vars
<1> QED
  BY <1>1, <1>2, <1>3, <1>4, <1>5, <1>6 DEF Next, RecvThread, UartSendThread

(* Every step preserves what the flags mean.                               *)
LEMMA StepFlag == TypeOK /\ FlagInv /\ [Next]_vars => FlagInv'
BY DEF TypeOK, FlagInv, Next, RecvThread, UartSendThread, CallRecv, RecvFails,
       Receive, SlotFree, BufferEmpty, Copy, Publish, Poll, MarkSending,
       FormatPrintf, MarkStopped, ClearData, EscapeBlanks, SwitchMode, vars,
       recvVars, sendVars

(* Every step preserves where the chunks are and the order of the output.  *)
LEMMA StepFlight == IInv /\ [Next]_vars => FlightInv' /\ PrintedInOrder'
<1> SUFFICES ASSUME IInv, [Next]_vars PROVE FlightInv' /\ PrintedInOrder'
  OBVIOUS
<1> USE DEF IInv, TypeOK, FlagInv, recvVars, sendVars
<1>0. Len(received) \in Nat /\ Len(printed) \in Nat
  OBVIOUS
<1>1. CASE CallRecv \/ RecvFails \/ SlotFree
  BY <1>0, <1>1 DEF CallRecv, RecvFails, SlotFree, BufferEmpty,
                    FlightInv, InBuffer, InHand, PrintedInOrder
<1>7. CASE Copy
  <2>1. InBuffer = 0 /\ InBuffer' = 0 /\ InHand = 1 /\ InHand' = 1
    BY <1>7 DEF Copy, InBuffer, InHand
  <2> QED
    BY <1>0, <1>7, <2>1 DEF Copy, FlightInv, PrintedInOrder
<1>8. CASE Publish
  <2>1. InBuffer = 0 /\ InBuffer' = 1 /\ InHand = 1 /\ InHand' = 0
    BY <1>8 DEF Publish, InBuffer, InHand
  <2>2. Len(received) = Len(printed) + 1
    BY <1>0, <2>1 DEF FlightInv
  <2> QED
    BY <1>0, <1>8, <2>1, <2>2 DEF Publish, FlightInv, PrintedInOrder
<1>2. CASE Receive
  <2>1. PICK c \in Chunk : recv_data' = c /\ received' = Append(received, c)
    BY <1>0, <1>2, SerialOutAssumption DEF Receive, ReadSizes, Chunk
  <2>2. /\ Len(received') = Len(received) + 1
        /\ received'[Len(received) + 1] = c
        /\ \A i \in 1 .. Len(received) : received'[i] = received[i]
    BY <2>1, AppendFacts
  <2>3. /\ rpc = "recv" /\ rpc' = "wait"
        /\ UNCHANGED <<uart_sendStart, uart_hasData, uart_send_data, upc, printed>>
    BY <1>2 DEF Receive
  <2>4. InHand = 0 /\ InHand' = 1 /\ InBuffer' = InBuffer
    BY <2>3 DEF InHand, InBuffer
  <2> QED
    BY <1>0, <2>1, <2>2, <2>3, <2>4 DEF FlightInv, PrintedInOrder, InBuffer
<1>3. CASE Poll \/ MarkSending \/ MarkStopped \/ ClearData
  BY <1>0, <1>3 DEF Poll, MarkSending, MarkStopped, ClearData,
                    FlightInv, InBuffer, InHand, PrintedInOrder
<1>4. CASE FormatPrintf
  <2>1. /\ Len(printed') = Len(printed) + 1
        /\ printed'[Len(printed) + 1] = uart_send_data
        /\ \A i \in 1 .. Len(printed) : printed'[i] = printed[i]
    BY <1>4, AppendFacts DEF FormatPrintf
  <2>2. /\ upc = "print" /\ upc' = "stop"
        /\ UNCHANGED <<uart_sendStart, uart_hasData, uart_send_data, rpc, recv_data, received>>
    BY <1>4 DEF FormatPrintf
  <2>3. InBuffer = 1 /\ InBuffer' = 0 /\ InHand' = InHand /\ InHand \in {0, 1}
    BY <2>2 DEF InBuffer, InHand
  <2> QED
    BY <1>0, <2>1, <2>2, <2>3 DEF FlightInv, PrintedInOrder
<1>5. CASE EscapeBlanks \/ SwitchMode
  BY <1>0, <1>5 DEF EscapeBlanks, SwitchMode, FlightInv, InBuffer, InHand, PrintedInOrder
<1>6. CASE UNCHANGED vars
  BY <1>6 DEF vars, FlightInv, InBuffer, InHand, PrintedInOrder
<1> QED
  BY <1>1, <1>2, <1>3, <1>4, <1>5, <1>6, <1>7, <1>8 DEF Next, RecvThread, UartSendThread

(* The inductive invariant holds in every reachable state.                 *)
THEOREM Invariance == Spec => []IInv
<1>1. IInv /\ [Next]_vars => IInv'
  BY StepType, StepFlag, StepFlight DEF IInv
<1> QED
  BY InitIInv, <1>1, PTL DEF Spec

(* Every variable keeps its type.                                          *)
THEOREM TypeCorrect == Spec => []TypeOK
<1>1. IInv => TypeOK
  BY DEF IInv
<1> QED
  BY <1>1, Invariance, PTL

(* The two unprotected flags keep reader and writer of uart_send_data      *)
(* apart.                                                                  *)
THEOREM ExclusiveCorrect == Spec => []BufferExclusive
<1>1. IInv => BufferExclusive
  BY DEF IInv, FlagInv, BufferExclusive
<1> QED
  BY <1>1, Invariance, PTL

(* The chunks are printed in order, each at most once.                     *)
THEOREM OrderCorrect == Spec => []PrintedInOrder
<1>1. IInv => PrintedInOrder
  BY DEF IInv
<1> QED
  BY <1>1, Invariance, PTL

(* RecvThread and UartSendThread implement the order-preserving pipe.      *)
THEOREM Refinement == Spec => ImplementsPipe
<1>1. Init => Pipe!Init
  BY DEF Init, Pipe!Init
<1>2. IInv /\ [Next]_vars => [Pipe!Next]_<<received, printed>>
  <2> SUFFICES ASSUME IInv, Next
               PROVE  Pipe!Next \/ UNCHANGED <<received, printed>>
    BY DEF vars
  <2> USE DEF recvVars, sendVars
  <2>1. CASE Receive
    <3>1. PICK c \in Chunk : received' = Append(received, c)
      BY <2>1, SerialOutAssumption DEF Receive, ReadSizes, Chunk, IInv, TypeOK
    <3>2. Len(received) < Len(printed) + 2
      BY <2>1 DEF IInv, TypeOK, FlightInv, InHand, InBuffer, Receive
    <3> QED
      BY <2>1, <3>1, <3>2 DEF Receive, Pipe!Next, Pipe!Arrive
  <2>2. CASE FormatPrintf
    <3>1. InBuffer = 1
      BY <2>2 DEF FormatPrintf, IInv, FlagInv, InBuffer
    <3>2. /\ Len(printed) < Len(received)
          /\ uart_send_data \in {received[Len(printed) + 1], Blank}
      BY <3>1 DEF IInv, TypeOK, FlightInv, InHand
    <3> QED
      BY <2>2, <3>2 DEF FormatPrintf, Pipe!Next, Pipe!Leave
  <2>3. CASE CallRecv \/ RecvFails \/ SlotFree \/ Copy \/ Publish
    BY <2>3 DEF CallRecv, RecvFails, SlotFree, Copy, Publish
  <2>4. CASE Poll \/ MarkSending \/ MarkStopped \/ ClearData
    BY <2>4 DEF Poll, MarkSending, MarkStopped, ClearData
  <2>5. CASE EscapeBlanks \/ SwitchMode
    BY <2>5 DEF EscapeBlanks, SwitchMode
  <2> QED
    BY <2>1, <2>2, <2>3, <2>4, <2>5 DEF Next, RecvThread, UartSendThread
<1> QED
  BY <1>1, <1>2, Invariance, PTL DEF Spec, ImplementsPipe, Pipe!Spec
=============================================================================
