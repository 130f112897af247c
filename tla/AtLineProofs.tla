---------------------------- MODULE AtLineProofs ----------------------------
(***************************************************************************)
(* Proofs about the command line of AT mode, for every size of the buffer, *)
(* every limit of a command, and every number of characters and of resets  *)
(* by the ends of connections: where the handler stores, a running command *)
(* keeps its arguments (LineSound), a line is accepted as it was typed     *)
(* (AcceptedAsTyped), and a well-formed one is not ignored                 *)
(* (GoodLineAccepted).                                                     *)
(***************************************************************************)
EXTENDS AtLine, SequenceTheorems, WellFoundedInduction, NaturalsInduction, TLAPS

Characters == Alphabet \cup {"NUL", "A", "+", "CR", "LF"}

LineType ==
  /\ uart_rec_data \in [Index -> Characters]
  /\ uart_rec_len \in 0 .. UIntRange - 1
  /\ uart_recvEnd \in {0, 1} /\ recv_start \in {0, 1}
TaskType ==
  /\ atMode \in {"AT", "DATA"} /\ timerOn \in BOOLEAN
  /\ apc \in {"poll", "run", "clear"} /\ mpc \in {"pend", "switch"} /\ epc \in {"idle", "len"}
HistoryType == disturbed \in BOOLEAN /\ garbled \in BOOLEAN

(* A line waits for AtThread, or is in its hands, in AT mode only; and it  *)
(* is the command that was accepted, but for the case of its "A".          *)
AcceptedInv ==
  /\ atMode = "DATA" => uart_recvEnd = 0
  /\ uart_recvEnd = 1 /\ ~garbled => Arguments(Text(uart_rec_data)) = Arguments(command)

(* When the handler may store, a length outside the array is one that the  *)
(* end of a connection has exposed.                                        *)
LenInside == uart_recvEnd = 0 /\ epc = "idle" => uart_rec_len \in Index

Inv == LineType /\ TaskType /\ HistoryType /\ LenInside /\ AcceptedInv

-----------------------------------------------------------------------------
LEMMA ConstFacts ==
  /\ MaxLine \in Nat /\ BufSize \in Nat /\ UIntRange \in Nat
  /\ 4 < MaxLine + 2 /\ MaxLine + 2 <= BufSize /\ BufSize + 1 < UIntRange
  /\ DataAlphabet \subseteq Alphabet /\ "NUL" \notin Alphabet
  /\ Index = 0 .. BufSize
BY AtLineAssumption DEF Index

(* A set of naturals that is not empty has a least element.                *)
LEMMA Least ==
  ASSUME NEW S, S \subseteq Nat, S # {}
  PROVE  \E n \in S : \A m \in S : n <= m
<1>1. \E n \in S : \A m \in S : ~ (<<m, n>> \in OpToRel(<, Nat))
  BY NatLessThanWellFounded, WFMin
<1>2. \A n, m \in Nat : ~ (<<m, n>> \in OpToRel(<, Nat)) => n <= m
  BY DEF OpToRel
<1> QED
  BY <1>1, <1>2

(* The length of a string is a number, and the end of the string or of the *)
(* array.                                                                  *)
LEMMA StrLenFacts ==
  ASSUME NEW data
  PROVE  StrLen(data) \in 0 .. BufSize + 1 /\ StrLen(data) \in Ends(data)
         /\ \A m \in Ends(data) : StrLen(data) <= m
<1>1. Ends(data) \subseteq Nat /\ Ends(data) # {} /\ Ends(data) \subseteq 0 .. BufSize + 1
  BY ConstFacts DEF Ends
<1>2. \E n \in Ends(data) : \A m \in Ends(data) : n <= m
  BY <1>1, Least
<1> QED
  BY <1>1, <1>2 DEF StrLen

LEMMA TextFacts ==
  ASSUME NEW data \in [Index -> Characters]
  PROVE  /\ StrLen(data) \in Nat
         /\ Text(data) \in Seq(Characters) /\ Len(Text(data)) = StrLen(data)
         /\ \A i \in 1 .. StrLen(data) : Text(data)[i] = data[i - 1]
<1>1. StrLen(data) \in 0 .. BufSize + 1
  BY StrLenFacts
<1>2. \A i \in 1 .. StrLen(data) : i - 1 \in Index
  BY <1>1, ConstFacts
<1>3. \A i \in 1 .. StrLen(data) : data[i - 1] \in Characters
  BY <1>2
<1>4. StrLen(data) \in Nat
  BY <1>1, ConstFacts
<1> QED
  BY <1>3, <1>4 DEF Text

(* The case of the first character is of no importance to the arguments.   *)
LEMMA SameArguments ==
  ASSUME NEW data \in [Index -> Characters], data[0] = "a"
  PROVE  Arguments(Text([data EXCEPT ![0] = "A"])) = Arguments(Text(data))
<1> DEFINE other == [data EXCEPT ![0] = "A"]
<1>1. other \in [Index -> Characters] /\ \A i \in Index : i # 0 => other[i] = data[i]
  BY DEF Characters
<1>2. other[0] = "A" /\ 0 \in Index
  BY ConstFacts
<1>3. \A n \in Index : other[n] = "NUL" <=> data[n] = "NUL"
  BY <1>1, <1>2
<1> HIDE DEF other
<1>4. Ends(other) = Ends(data)
  BY <1>3 DEF Ends
<1>5. StrLen(other) = StrLen(data)
  BY <1>4 DEF StrLen
<1> DEFINE L == StrLen(data)
           s == Text(other)
           t == Text(data)
<1>6. L \in Nat /\ Len(s) = L /\ Len(t) = L /\ L <= BufSize + 1
  BY <1>1, <1>5, TextFacts, StrLenFacts
<1>7. ASSUME NEW i \in 4 .. L PROVE s[i] = t[i]
  <2>1. i \in 1 .. L /\ i - 1 \in Index /\ i - 1 # 0
    BY <1>6, ConstFacts
  <2>2. s[i] = other[i - 1] /\ t[i] = data[i - 1]
    BY <1>1, <1>5, <2>1, TextFacts
  <2> QED
    BY <1>1, <2>1, <2>2
<1>8. \A i \in 4 .. L : s[i] \in Characters /\ t[i] \in Characters
  <2>1. s \in Seq(Characters) /\ t \in Seq(Characters)
    BY <1>1, TextFacts
  <2>2. \A i \in 4 .. L : i \in 1 .. L
    BY <1>6
  <2> QED
    BY <1>6, <2>1, <2>2, ElementOfSeq
<1> HIDE DEF L, s, t
<1>9. /\ SubSeq(s, 4, L) \in Seq(Characters) /\ SubSeq(t, 4, L) \in Seq(Characters)
      /\ Len(SubSeq(s, 4, L)) = Len(SubSeq(t, 4, L))
      /\ Len(SubSeq(s, 4, L)) = IF 4 <= L THEN L - 4 + 1 ELSE 0
      /\ \A i \in 1 .. L - 4 + 1 : SubSeq(s, 4, L)[i] = s[4 + i - 1]
      /\ \A i \in 1 .. L - 4 + 1 : SubSeq(t, 4, L)[i] = t[4 + i - 1]
  <2>1. 4 \in Int /\ L \in Int
    BY <1>6
  <2> QED
    BY <1>8, <2>1, SubSeqProperties
<1>10. \A i \in 1 .. Len(SubSeq(s, 4, L)) : i \in 1 .. L - 4 + 1 /\ 4 + i - 1 \in 4 .. L
  BY <1>6, <1>9
<1>11. SubSeq(s, 4, L) = SubSeq(t, 4, L)
  BY <1>7, <1>9, <1>10, SeqEqual
<1> QED
  BY <1>6, <1>11 DEF Arguments, s, t, other

-----------------------------------------------------------------------------
LEMMA InitInv == Init => Inv
<1> SUFFICES ASSUME Init PROVE Inv
  OBVIOUS
<1> USE ConstFacts
<1>1. LineType
  BY DEF Init, LineType, Blank, Characters
<1>2. timerOn \in BOOLEAN /\ disturbed \in BOOLEAN /\ garbled \in BOOLEAN
  BY DEF Init
<1>3. TaskType /\ HistoryType
  BY <1>2 DEF Init, TaskType, HistoryType
<1>4. LenInside /\ AcceptedInv
  BY DEF Init, LenInside, AcceptedInv
<1> QED
  BY <1>1, <1>3, <1>4 DEF Inv

-----------------------------------------------------------------------------
(* uart_data_recv in AT mode.                                              *)
LEMMA LastIndexType ==
  ASSUME NEW n \in 0 .. UIntRange - 1 PROVE LastIndex(n) \in 0 .. UIntRange - 1
BY ConstFacts DEF LastIndex

LEMMA StoredType ==
  ASSUME LineType, NEW c \in Alphabet PROVE Stored(c) \in [Index -> Characters]
BY ConstFacts DEF LineType, Stored, Characters

LEMMA LineEndsKeeps ==
  ASSUME Inv, uart_recvEnd = 0, LineEnds
  PROVE  /\ LineType' /\ (uart_recvEnd' = 0 => uart_rec_len' = 0 \/ uart_rec_len' = uart_rec_len)
<1> USE ConstFacts
<1>0. LineType
  BY DEF Inv
<1>1. CASE IsCommand(uart_rec_data)
  <2>1. /\ uart_rec_len' = LastIndex(uart_rec_len) /\ uart_recvEnd' = 1 /\ recv_start' = 0
        /\ uart_rec_data' = [i \in Index |-> IF i = LastIndex(uart_rec_len)
                                             THEN "NUL" ELSE uart_rec_data[i]]
    BY <1>1 DEF LineEnds, IsCommand, IsRefused
  <2>2. uart_rec_data' \in [Index -> Characters]
    BY <1>0, <2>1 DEF LineType, Characters
  <2> QED
    BY <1>0, <2>1, <2>2, LastIndexType DEF LineType
<1>2. CASE ~IsCommand(uart_rec_data)
  BY <1>0, <1>2 DEF LineEnds, LineType, line
<1> QED
  BY <1>1, <1>2

LEMMA CharStoredKeeps ==
  ASSUME Inv, NEW c \in Alphabet, CharStored(c)
  PROVE  LineType' /\ uart_recvEnd' = uart_recvEnd /\ uart_rec_len' \in Index
<1> USE ConstFacts
<1>0. LineType
  BY DEF Inv
<1>1. LenBefore(c) \in Nat
  BY <1>0 DEF LenBefore, LineType
<1>2. uart_rec_len' \in Index
  BY <1>1 DEF CharStored, TooLong
<1>3. uart_rec_len' \in 0 .. UIntRange - 1
  BY <1>2
<1>4. uart_rec_data' \in [Index -> Characters]
  BY <1>0, StoredType DEF CharStored
<1> QED
  BY <1>0, <1>2, <1>3, <1>4 DEF CharStored, LineType

LEMMA UartAtKeeps == ASSUME Inv, NEW c \in Alphabet, UartCharAT(c) PROVE Inv'
<1> USE ConstFacts
<1>0. /\ atMode = "AT" /\ UNCHANGED <<atMode, timerOn, apc, mpc, resets, epc>>
      /\ command' = IF uart_recvEnd' = 1 /\ uart_recvEnd = 0 THEN Text(uart_rec_data') ELSE command
      /\ disturbed' = (c # "LF" /\ (disturbed \/ Deaf \/ TooLong(c)))
  BY DEF UartCharAT
<1>1. TaskType' /\ disturbed' \in BOOLEAN
  BY <1>0 DEF Inv, TaskType
<1>2. LineType /\ garbled \in BOOLEAN /\ uart_recvEnd \in {0, 1}
  BY DEF Inv, HistoryType, LineType
<1>3. CASE Deaf
  <2>1. UNCHANGED <<line, garbled>>
    BY <1>3 DEF UartCharAT, line
  <2>2. LineType' /\ HistoryType'
    BY <1>1, <1>2, <2>1 DEF LineType, HistoryType, line
  <2>3. LenInside' /\ AcceptedInv'
    BY <1>0, <2>1 DEF Inv, LenInside, AcceptedInv, line
  <2> QED
    BY <1>1, <2>2, <2>3 DEF Inv
<1>4. CASE ~Deaf /\ c = "LF"
  <2>0. LineEnds /\ garbled' = (garbled /\ uart_recvEnd' = 0) /\ uart_recvEnd = 0
    BY <1>2, <1>4 DEF UartCharAT, Deaf
  <2>1. LineType' /\ (uart_recvEnd' = 0 => uart_rec_len' = 0 \/ uart_rec_len' = uart_rec_len)
    BY <2>0, LineEndsKeeps
  <2>2. HistoryType'
    <3>1. garbled' \in BOOLEAN
      BY <1>2, <2>0
    <3> QED
      BY <1>1, <3>1 DEF HistoryType
  <2>3. LenInside' /\ AcceptedInv'
    BY <1>0, <2>0, <2>1 DEF Inv, LenInside, AcceptedInv
  <2> QED
    BY <1>1, <2>1, <2>2, <2>3 DEF Inv
<1>5. CASE ~Deaf /\ c # "LF"
  <2>0. CharStored(c) /\ garbled' = (garbled /\ ~TooLong(c)) /\ uart_recvEnd = 0
    BY <1>2, <1>5 DEF UartCharAT, Deaf
  <2>1. LineType' /\ uart_recvEnd' = uart_recvEnd /\ uart_rec_len' \in Index
    BY <2>0, CharStoredKeeps
  <2>2. HistoryType'
    BY <1>1, <1>2, <2>0 DEF HistoryType
  <2>3. LenInside' /\ AcceptedInv'
    BY <1>0, <2>0, <2>1 DEF Inv, LenInside, AcceptedInv
  <2> QED
    BY <1>1, <2>1, <2>2, <2>3 DEF Inv
<1> QED
  BY <1>3, <1>4, <1>5

-----------------------------------------------------------------------------
(* Data mode, and those who empty the buffer.                              *)
LEMMA UartDataKeeps == ASSUME Inv, NEW c \in DataAlphabet, UartCharData(c) PROVE Inv'
<1> USE ConstFacts
<1>0. /\ atMode = "DATA" /\ uart_rec_len < BufSize /\ uart_rec_len' = uart_rec_len + 1
      /\ uart_rec_data' = [uart_rec_data EXCEPT ![uart_rec_len] = c] /\ timerOn' = TRUE
      /\ UNCHANGED <<atMode, uart_recvEnd, recv_start, apc, mpc, history, resets, epc>>
  BY DEF UartCharData
<1>1. LineType /\ TaskType /\ HistoryType /\ AcceptedInv
  BY DEF Inv
<1>2. uart_rec_len' \in Index /\ uart_rec_len' \in 0 .. UIntRange - 1
  BY <1>0, <1>1 DEF LineType
<1>3. uart_rec_data' \in [Index -> Characters]
  BY <1>0, <1>1 DEF LineType, Characters
<1>4. timerOn' \in BOOLEAN
  BY <1>0
<1>5. LineType' /\ TaskType' /\ HistoryType'
  BY <1>0, <1>1, <1>2, <1>3, <1>4 DEF LineType, TaskType, HistoryType, history
<1>6. LenInside' /\ AcceptedInv'
  BY <1>0, <1>1, <1>2 DEF LenInside, AcceptedInv
<1> QED
  BY <1>5, <1>6 DEF Inv

LEMMA OthersKeep == ASSUME Inv, TimerClears \/ EndClearsFlag \/ EndClearsLen PROVE Inv'
<1> USE ConstFacts
<1>0. LineType /\ TaskType /\ HistoryType /\ AcceptedInv /\ LenInside
  BY DEF Inv
<1>1. Touched
  BY DEF TimerClears, EndClearsFlag, EndClearsLen
<1>2. HistoryType' /\ garbled' = TRUE
  <2>1. garbled' \in BOOLEAN /\ disturbed' \in BOOLEAN /\ garbled' = TRUE
    BY <1>1 DEF Touched
  <2> QED
    BY <2>1 DEF HistoryType
<1>3. CASE TimerClears
  <2>1. /\ uart_rec_data' = Terminated \/ UNCHANGED uart_rec_data
        /\ uart_rec_len' = 0
        /\ UNCHANGED <<atMode, uart_recvEnd, recv_start, timerOn, apc, mpc, command, epc>>
    BY <1>3 DEF TimerClears
  <2>2. uart_rec_data' \in [Index -> Characters]
    BY <1>0, <2>1 DEF LineType, Terminated, Characters
  <2>3. LineType' /\ TaskType'
    BY <1>0, <2>1, <2>2 DEF LineType, TaskType
  <2>4. LenInside' /\ AcceptedInv'
    BY <1>0, <1>2, <2>1 DEF LenInside, AcceptedInv
  <2> QED
    BY <1>2, <2>3, <2>4 DEF Inv
<1>4. CASE EndClearsFlag
  <2>1. LineType' /\ TaskType'
    BY <1>0, <1>4 DEF EndClearsFlag, LineType, TaskType
  <2>2. LenInside' /\ AcceptedInv'
    BY <1>2, <1>4 DEF EndClearsFlag, LenInside, AcceptedInv
  <2> QED
    BY <1>2, <2>1, <2>2 DEF Inv
<1>5. CASE EndClearsLen
  <2>1. LineType' /\ TaskType'
    BY <1>0, <1>5 DEF EndClearsLen, LineType, TaskType
  <2>2. LenInside' /\ AcceptedInv'
    BY <1>0, <1>2, <1>5 DEF EndClearsLen, LenInside, AcceptedInv
  <2> QED
    BY <1>2, <2>1, <2>2 DEF Inv
<1> QED
  BY <1>3, <1>4, <1>5

LEMMA MainKeeps == ASSUME Inv, MainClears \/ MainSwitches PROVE Inv'
<1> USE ConstFacts
<1>0. LineType /\ TaskType /\ HistoryType /\ AcceptedInv /\ LenInside
  BY DEF Inv
<1>1. CASE MainClears
  <2>0. \A i \in Index : i < 5 => EscapeText[i + 1] \in Characters
    <3>1. \A k \in 1 .. 5 : EscapeText[k] \in Characters
      BY DEF EscapeText, Characters
    <3> QED
      BY <3>1
  <2>1. uart_rec_data' \in [Index -> Characters]
    BY <1>0, <1>1, <2>0 DEF MainClears, LineType, Characters
  <2>2. LineType' /\ TaskType' /\ HistoryType'
    BY <1>0, <1>1, <2>1 DEF MainClears, LineType, TaskType, HistoryType, history
  <2>3. LenInside' /\ AcceptedInv'
    BY <1>1 DEF MainClears, LenInside, AcceptedInv
  <2> QED
    BY <2>2, <2>3 DEF Inv
<1>2. CASE MainSwitches
  <2>1. garbled' \in BOOLEAN /\ disturbed' \in BOOLEAN
    BY <1>0, <1>2 DEF MainSwitches, HistoryType
  <2>2. LineType' /\ TaskType' /\ HistoryType'
    BY <1>0, <1>2, <2>1 DEF MainSwitches, LineType, TaskType, HistoryType, line
  <2>3. ~garbled' => ~garbled
    BY <1>2 DEF MainSwitches
  <2>4. LenInside' /\ AcceptedInv'
    BY <1>0, <1>2, <2>3 DEF MainSwitches, LenInside, AcceptedInv, line
  <2> QED
    BY <2>2, <2>4 DEF Inv
<1> QED
  BY <1>1, <1>2

-----------------------------------------------------------------------------
LEMMA AtThreadKeeps == ASSUME Inv, AtThread PROVE Inv'
<1> USE ConstFacts
<1>0. LineType /\ TaskType /\ HistoryType /\ AcceptedInv /\ LenInside
  BY DEF Inv
<1>1. CASE AtParses
  <2>0. /\ uart_rec_data' = IF uart_rec_data[0] = "a" THEN [uart_rec_data EXCEPT ![0] = "A"]
                                                       ELSE uart_rec_data
        /\ apc' \in {"run", "clear"}
        /\ UNCHANGED <<atMode, uart_rec_len, uart_recvEnd, recv_start, timerOn, mpc, history, epc>>
    BY <1>1 DEF AtParses
  <2>1. /\ uart_rec_data' \in [Index -> Characters]
        /\ Arguments(Text(uart_rec_data')) = Arguments(Text(uart_rec_data))
    BY <1>0, <2>0, SameArguments DEF LineType, Characters
  <2>2. LineType' /\ TaskType' /\ HistoryType'
    BY <1>0, <2>0, <2>1 DEF LineType, TaskType, HistoryType, history
  <2>3. LenInside' /\ AcceptedInv'
    BY <1>0, <2>0, <2>1 DEF LenInside, AcceptedInv, history
  <2> QED
    BY <2>2, <2>3 DEF Inv
<1>2. CASE CommandReturns
  <2>1. LineType' /\ TaskType' /\ HistoryType'
    BY <1>0, <1>2 DEF CommandReturns, LineType, TaskType, HistoryType, line, history
  <2>2. LenInside' /\ AcceptedInv'
    BY <1>0, <1>2 DEF CommandReturns, LenInside, AcceptedInv, line, history
  <2> QED
    BY <2>1, <2>2 DEF Inv
<1>3. CASE ResponseQUIT
  <2>1. LineType' /\ TaskType' /\ HistoryType'
    BY <1>0, <1>3 DEF ResponseQUIT, LineType, TaskType, HistoryType, history
  <2>2. LenInside' /\ AcceptedInv'
    BY <1>3 DEF ResponseQUIT, LenInside, AcceptedInv
  <2> QED
    BY <2>1, <2>2 DEF Inv
<1>4. CASE AtClears
  <2>1. garbled' \in BOOLEAN /\ disturbed' \in BOOLEAN
    BY <1>0, <1>4 DEF AtClears, HistoryType
  <2>2. uart_rec_data' \in [Index -> Characters]
    BY <1>4 DEF AtClears, Blank, Characters
  <2>3. LineType' /\ TaskType' /\ HistoryType'
    BY <1>0, <1>4, <2>1, <2>2 DEF AtClears, LineType, TaskType, HistoryType
  <2>4. LenInside' /\ AcceptedInv'
    BY <1>4 DEF AtClears, LenInside, AcceptedInv
  <2> QED
    BY <2>3, <2>4 DEF Inv
<1> QED
  BY <1>1, <1>2, <1>3, <1>4 DEF AtThread

LEMMA NextKeeps == Inv /\ [Next]_vars => Inv'
<1> SUFFICES ASSUME Inv, [Next]_vars PROVE Inv'
  OBVIOUS
<1>1. CASE UNCHANGED vars
  BY <1>1 DEF vars, Inv, LineType, TaskType, HistoryType, LenInside, AcceptedInv, line, history
<1>2. CASE Next
  BY <1>2, UartAtKeeps, UartDataKeeps, OthersKeep, MainKeeps, AtThreadKeeps DEF Next
<1> QED
  BY <1>1, <1>2

(* The invariant holds throughout.                                         *)
LEMMA InvHolds == Spec => []Inv
BY InitInv, NextKeeps, PTL DEF Spec

-----------------------------------------------------------------------------
(* A length that has wrapped, or one of 0 before the text of a command, is *)
(* what a reset has left.  MainClears puts the escape over such a text     *)
(* before the mode changes; AtThread runs commands in AT mode only.        *)
LeftoverInv ==
  /\ leftover \in BOOLEAN
  /\ uart_rec_len \notin Index => leftover
  /\ uart_rec_len = 0 /\ IsCommand(uart_rec_data) /\ (atMode = "AT" \/ mpc = "switch")
       => leftover
  /\ mpc = "switch" => atMode = "DATA"
  /\ apc = "run" => atMode = "AT"

LEMMA LeftoverInit == Init => LeftoverInv
BY ConstFacts DEF Init, LeftoverInv, IsCommand, IsA, Blank

LEMMA LeftoverUart ==
  ASSUME Inv, LeftoverInv, NEW c \in Alphabet, UartCharAT(c) PROVE LeftoverInv'
<1> USE ConstFacts
<1>0. LineType /\ UNCHANGED <<atMode, apc, mpc>> /\ atMode = "AT"
  BY DEF UartCharAT, Inv
<1>1. CASE Deaf
  BY <1>0, <1>1 DEF UartCharAT, LeftoverInv, line
<1>2. CASE ~Deaf /\ c = "LF"
  <2>0. LineEnds /\ leftover' = leftover
    BY <1>2 DEF UartCharAT
  <2>1. CASE IsCommand(uart_rec_data)
    <3>1. /\ uart_rec_len' = LastIndex(uart_rec_len)
          /\ uart_rec_data' = [i \in Index |-> IF i = LastIndex(uart_rec_len)
                                               THEN "NUL" ELSE uart_rec_data[i]]
      BY <2>0, <2>1 DEF LineEnds, IsCommand, IsRefused
    <3>2. CASE uart_rec_len = 0
      <4>1. leftover
        BY <1>0, <2>1, <3>2 DEF LeftoverInv
      <4> QED
        BY <1>0, <2>0, <4>1 DEF LeftoverInv
    <3>3. CASE uart_rec_len # 0
      <4>1. uart_rec_len' = uart_rec_len - 1 /\ uart_rec_len \in Nat
        BY <1>0, <3>1, <3>3 DEF LastIndex, LineType
      <4>2. uart_rec_len' \notin Index => leftover
        <5>1. uart_rec_len \notin Index => leftover
          BY DEF LeftoverInv
        <5>2. uart_rec_len \in Index => uart_rec_len' \in Index
          BY <3>3, <4>1
        <5> QED
          BY <5>1, <5>2
      <4>3. uart_rec_len' = 0 => uart_rec_data'[0] = "NUL"
        BY <3>1
      <4>4. uart_rec_len' = 0 => ~IsCommand(uart_rec_data')
        BY <4>3 DEF IsCommand, IsA
      <4> QED
        BY <1>0, <2>0, <4>2, <4>4 DEF LeftoverInv
    <3> QED
      BY <3>2, <3>3
  <2>2. CASE ~IsCommand(uart_rec_data)
    <3>1. UNCHANGED uart_rec_data /\ uart_rec_len' \in {0, uart_rec_len}
      BY <2>0, <2>2 DEF LineEnds, line
    <3> QED
      BY <1>0, <2>0, <2>2, <3>1 DEF LeftoverInv
  <2> QED
    BY <2>1, <2>2
<1>3. CASE ~Deaf /\ c # "LF"
  <2>0. CharStored(c) /\ leftover' = TooLong(c)
    BY <1>3 DEF UartCharAT
  <2>1. uart_rec_len' \in Index
    BY <2>0, CharStoredKeeps
  <2>2. LenBefore(c) \in Nat
    BY <1>0 DEF LenBefore, LineType
  <2>3. uart_rec_len' = 0 => TooLong(c)
    BY <2>0, <2>2 DEF CharStored
  <2>4. TooLong(c) \in BOOLEAN
    BY DEF TooLong
  <2>5. leftover' \in BOOLEAN /\ (uart_rec_len' = 0 => leftover')
    BY <2>0, <2>3, <2>4
  <2> QED
    BY <1>0, <2>1, <2>5 DEF LeftoverInv
<1> QED
  BY <1>1, <1>2, <1>3

LEMMA LeftoverNext == Inv /\ LeftoverInv /\ [Next]_vars => LeftoverInv'
<1> SUFFICES ASSUME Inv, LeftoverInv, [Next]_vars PROVE LeftoverInv'
  OBVIOUS
<1> USE ConstFacts
<1>0. LineType
  BY DEF Inv
<1>1. CASE UNCHANGED vars
  BY <1>1 DEF vars, LeftoverInv, line, history
<1>2. ASSUME NEW c \in Alphabet, UartCharAT(c) PROVE LeftoverInv'
  BY <1>2, LeftoverUart
<1>3. ASSUME NEW c \in DataAlphabet, UartCharData(c) PROVE LeftoverInv'
  <2>1. uart_rec_len' = uart_rec_len + 1 /\ uart_rec_len < BufSize /\ uart_rec_len \in Nat
    BY <1>0, <1>3 DEF UartCharData, LineType
  <2>2. uart_rec_len' \in Index /\ uart_rec_len' # 0
    BY <2>1
  <2>3. UNCHANGED <<atMode, mpc, apc, leftover>>
    BY <1>3 DEF UartCharData, history
  <2> QED
    BY <2>2, <2>3 DEF LeftoverInv
<1>4. CASE TimerClears
  <2>1. leftover' = TRUE /\ UNCHANGED <<atMode, mpc, apc>>
    BY <1>4 DEF TimerClears
  <2> QED
    BY <2>1 DEF LeftoverInv
<1>5. CASE EndClearsFlag
  BY <1>5 DEF EndClearsFlag, LeftoverInv
<1>6. CASE EndClearsLen
  <2>1. leftover' = TRUE /\ UNCHANGED <<atMode, mpc, apc>>
    BY <1>6 DEF EndClearsLen
  <2> QED
    BY <2>1 DEF LeftoverInv
<1>7. CASE MainClears
  <2>1. uart_rec_data'[0] = EscapeText[1]
    BY <1>7 DEF MainClears
  <2>2. uart_rec_data'[0] = "+"
    BY <2>1 DEF EscapeText
  <2>3. ~IsCommand(uart_rec_data')
    BY <2>2 DEF IsCommand, IsA
  <2> QED
    BY <1>7, <2>3 DEF MainClears, LeftoverInv, history
<1>8. CASE MainSwitches
  BY <1>8 DEF MainSwitches, LeftoverInv, line
<1>9. CASE AtParses
  <2>0. /\ uart_rec_data' = IF uart_rec_data[0] = "a" THEN [uart_rec_data EXCEPT ![0] = "A"]
                                                       ELSE uart_rec_data
        /\ atMode = "AT" /\ apc' \in {"run", "clear"}
        /\ UNCHANGED <<atMode, uart_rec_len, mpc, leftover>>
    BY <1>9 DEF AtParses, history
  <2>1. IsCommand(uart_rec_data') => IsCommand(uart_rec_data)
    BY <1>0, <2>0 DEF IsCommand, IsA, LineType
  <2> QED
    BY <2>0, <2>1 DEF LeftoverInv
<1>10. CASE CommandReturns
  BY <1>10 DEF CommandReturns, LeftoverInv, line, history
<1>11. CASE ResponseQUIT
  <2>1. apc = "run" /\ uart_rec_len' = 0 /\ atMode' = "DATA" /\ apc' = "clear"
        /\ UNCHANGED <<mpc, leftover>>
    BY <1>11 DEF ResponseQUIT, history
  <2> QED
    BY <2>1 DEF LeftoverInv
<1>12. CASE AtClears
  <2>1. uart_rec_data'[0] = "NUL" /\ uart_rec_len' = 0 /\ leftover' = FALSE /\ apc' = "poll"
        /\ UNCHANGED <<atMode, mpc>>
    BY <1>12 DEF AtClears, Blank
  <2>2. ~IsCommand(uart_rec_data')
    BY <2>1 DEF IsCommand, IsA
  <2>3. leftover' \in BOOLEAN
    BY <2>1, Zenon
  <2>4. uart_rec_len' \in Index
    BY <2>1
  <2> QED
    BY <2>1, <2>2, <2>3, <2>4 DEF LeftoverInv
<1> QED
  BY <1>1, <1>2, <1>3, <1>4, <1>5, <1>6, <1>7, <1>8, <1>9, <1>10, <1>11, <1>12 DEF Next, AtThread

LEMMA InvImplies == Inv /\ LeftoverInv => LineSound
<1> SUFFICES ASSUME Inv, LeftoverInv PROVE LineSound
  OBVIOUS
<1> USE ConstFacts
<1>1. TypeOK
  BY DEF Inv, LeftoverInv, TypeOK, LineType, TaskType, HistoryType, Characters
<1>2. ArgumentsStable
  BY DEF Inv, AcceptedInv, ArgumentsStable
<1>3. ASSUME NEW c \in Alphabet, Stores(c)
      PROVE  \/ StoresAt(c) \in Index
             \/ leftover /\ c = "LF" /\ uart_rec_len = 0
             \/ leftover /\ epc = "len"
  <2>0. LineType /\ TaskType /\ LenInside /\ uart_recvEnd = 0 /\ atMode = "AT"
    BY <1>3 DEF Inv, Stores, Deaf, LineType
  <2>1. CASE uart_rec_len \notin Index
    BY <2>0, <2>1 DEF LeftoverInv, LenInside, TaskType
  <2>2. CASE uart_rec_len \in Index /\ c # "LF"
    BY <2>2 DEF StoresAt
  <2>3. CASE uart_rec_len \in Index /\ c = "LF" /\ uart_rec_len # 0
    BY <2>3 DEF StoresAt, LastIndex
  <2>4. CASE c = "LF" /\ uart_rec_len = 0
    BY <1>3, <2>0, <2>4 DEF Stores, LeftoverInv
  <2> QED
    BY <2>1, <2>2, <2>3, <2>4
<1>4. StoresInside
  BY <1>3 DEF StoresInside
<1> QED
  BY <1>1, <1>2, <1>4 DEF LineSound

(* uart_data_recv stores inside uart_rec_data, except for the zero of a    *)
(* newline that follows the reset of a length (to the byte before the      *)
(* array) and what the end of a connection lets it do with that length;    *)
(* and a command that runs keeps its arguments.                            *)
THEOREM LineCorrect == Spec => []LineSound
<1>1. Spec => []LeftoverInv
  BY LeftoverInit, LeftoverNext, InvHolds, PTL DEF Spec
<1> QED
  BY <1>1, InvHolds, InvImplies, PTL
-----------------------------------------------------------------------------
(* What the handler holds of the line that is being typed, as long as      *)
(* nobody else has touched the buffer since it began with a clear one.     *)
Clean == atMode = "AT" /\ uart_recvEnd = 0 /\ ~garbled

(* The buffer holds "A", the "T" typed at j, and what was typed since.     *)
Held(j) ==
  /\ typed[j] = "T"
  /\ uart_rec_len = Len(typed) - j + 2
  /\ \A k \in j + 1 .. Len(typed) : uart_rec_data[k - j + 1] = typed[k]

TypedInv == typed \in Seq(Alphabet) /\ (disturbed => typed = <<>>)

(* Once "AT" has come, the buffer holds it and what followed.              *)
BegunInv ==
  Clean /\ recv_start = 1 =>
    /\ uart_rec_data[0] = "A" /\ uart_rec_data[1] = "T"
    /\ 2 <= uart_rec_len /\ uart_rec_len <= MaxLine + 1
    /\ ~disturbed => \E j \in 1 .. Len(typed) : Held(j)

(* Before it has, at most the first two places are in use, an "A" is       *)
(* remembered in the first one, and an "a" never is.                       *)
OpenInv ==
  Clean /\ recv_start = 0 =>
    /\ uart_rec_len \in {0, 1}
    /\ uart_rec_len = 1 => uart_rec_data[0] # "a"
    /\ typed # <<>> =>
         /\ uart_rec_len = 1
         /\ IF IsA(typed[Len(typed)]) THEN uart_rec_data[0] = "A"
            ELSE typed[Len(typed)] \in {uart_rec_data[0], uart_rec_data[1]}

(* A line that starts with "AT" is recognised at its second character.     *)
GoodInv ==
  Clean /\ Len(typed) >= 2 /\ IsA(typed[1]) /\ typed[2] = "T" => recv_start = 1 /\ Held(2)

TextInv == TypedInv /\ BegunInv /\ OpenInv /\ GoodInv

LEMMA InitText == Init => TextInv
<1> SUFFICES ASSUME Init PROVE TextInv
  OBVIOUS
<1>1. typed = <<>> /\ typed \in Seq(Alphabet) /\ Len(typed) = 0 /\ recv_start = 0 /\ uart_rec_len = 0
  BY DEF Init
<1>2. TypedInv /\ BegunInv
  BY <1>1 DEF TypedInv, BegunInv
<1>3. OpenInv /\ GoodInv
  BY <1>1 DEF OpenInv, GoodInv
<1> QED
  BY <1>2, <1>3 DEF TextInv

(* With nothing typed, an empty buffer that no line has begun is enough.   *)
LEMMA Fresh ==
  ASSUME typed' = <<>>, Clean' => recv_start' = 0 /\ uart_rec_len' = 0
  PROVE  TextInv'
<1>1. typed' \in Seq(Alphabet) /\ Len(typed') = 0
  OBVIOUS
<1>2. TypedInv' /\ BegunInv'
  BY <1>1 DEF TypedInv, BegunInv
<1>3. OpenInv' /\ GoodInv'
  BY <1>1 DEF OpenInv, GoodInv
<1> QED
  BY <1>2, <1>3 DEF TextInv

(* In data mode, with a line accepted, or with the buffer touched, nothing *)
(* is claimed of the buffer.                                               *)
LEMMA NotClean == ASSUME ~Clean', TypedInv' PROVE TextInv'
BY DEF TextInv, BegunInv, OpenInv, GoodInv

LEMMA StoredAt ==
  ASSUME NEW c
  PROVE  \A i \in Index : Stored(c)[i] = IF StartsOver(c) /\ i = 0 THEN "A"
                                         ELSE IF i = uart_rec_len THEN c ELSE uart_rec_data[i]
BY DEF Stored

(* A character of a line that began with "AT".                             *)
LEMMA CharAfterAT ==
  ASSUME Inv, TextInv, Clean, NEW c \in Alphabet, CharStored(c), ~TooLong(c), recv_start = 1,
         atMode' = atMode, disturbed' \in BOOLEAN, disturbed' = disturbed,
         typed' = IF disturbed' THEN <<>> ELSE Append(typed, c)
  PROVE  TextInv'
<1> USE ConstFacts
<1>0. TypedInv /\ BegunInv /\ OpenInv /\ GoodInv
  BY DEF TextInv
<1>1. uart_rec_len \in Nat /\ typed \in Seq(Alphabet) /\ Len(typed) \in Nat
  BY <1>0 DEF Inv, LineType, TypedInv
<1>2. /\ uart_rec_data[0] = "A" /\ uart_rec_data[1] = "T"
      /\ 2 <= uart_rec_len /\ uart_rec_len <= MaxLine + 1
      /\ ~disturbed => \E j \in 1 .. Len(typed) : Held(j)
  BY <1>0 DEF BegunInv
<1>3. ~StartsOver(c) /\ ~Begins(c) /\ LenBefore(c) = uart_rec_len
  BY DEF StartsOver, Begins, LenBefore
<1>4. uart_rec_len' = uart_rec_len + 1 /\ recv_start' = 1 /\ uart_rec_len <= MaxLine
  BY <1>1, <1>3 DEF CharStored, TooLong
<1>5. \A i \in Index : uart_rec_data'[i] = IF i = uart_rec_len THEN c ELSE uart_rec_data[i]
  BY <1>3, StoredAt DEF CharStored
<1>6. 0 \in Index /\ 1 \in Index /\ uart_rec_len \in Index
  BY <1>1, <1>2
<1>7. uart_rec_data'[0] = "A" /\ uart_rec_data'[1] = "T"
  BY <1>1, <1>2, <1>5, <1>6
<1>8. CASE disturbed
  <2>1. typed' = <<>> /\ typed' \in Seq(Alphabet) /\ Len(typed') = 0
    BY <1>8
  <2>2. TypedInv' /\ OpenInv' /\ GoodInv'
    BY <1>4, <2>1 DEF TypedInv, OpenInv, GoodInv
  <2>3. BegunInv'
    BY <1>1, <1>2, <1>4, <1>7, <1>8 DEF BegunInv
  <2> QED
    BY <2>2, <2>3 DEF TextInv
<1>9. CASE ~disturbed
  <2>1. /\ typed' = Append(typed, c) /\ typed' \in Seq(Alphabet) /\ Len(typed') = Len(typed) + 1
        /\ typed'[Len(typed) + 1] = c
        /\ \A k \in 1 .. Len(typed) : typed'[k] = typed[k]
    BY <1>1, <1>9
  <2>2. ASSUME NEW j \in 1 .. Len(typed), Held(j) PROVE Held(j)'
    <3>1. typed'[j] = "T" /\ uart_rec_len' = Len(typed') - j + 2
      BY <1>1, <1>4, <2>1, <2>2 DEF Held
    <3>2. ASSUME NEW k \in j + 1 .. Len(typed') PROVE uart_rec_data'[k - j + 1] = typed'[k]
      <4>1. CASE k = Len(typed) + 1
        <5>1. k - j + 1 = uart_rec_len
          BY <1>1, <2>1, <2>2, <4>1 DEF Held
        <5> QED
          BY <1>5, <1>6, <2>1, <4>1, <5>1
      <4>2. CASE k # Len(typed) + 1
        <5>1. k \in j + 1 .. Len(typed) /\ k \in 1 .. Len(typed)
          BY <1>1, <2>1, <4>2
        <5>2. k - j + 1 \in Index /\ k - j + 1 # uart_rec_len
          BY <1>1, <1>6, <2>2, <5>1 DEF Held
        <5> QED
          BY <1>5, <2>1, <2>2, <5>1, <5>2 DEF Held
      <4> QED
        BY <4>1, <4>2
    <3> QED
      BY <3>1, <3>2 DEF Held
  <2>3. \E j \in 1 .. Len(typed') : Held(j)'
    <3>1. PICK j \in 1 .. Len(typed) : Held(j)
      BY <1>2, <1>9
    <3>2. j \in 1 .. Len(typed')
      BY <1>1, <2>1
    <3> QED
      BY <2>2, <3>1, <3>2
  <2>4. TypedInv' /\ OpenInv'
    BY <1>4, <1>9, <2>1 DEF TypedInv, OpenInv
  <2>5. BegunInv'
    BY <1>1, <1>2, <1>4, <1>7, <2>3 DEF BegunInv
  <2>6. GoodInv'
    <3> SUFFICES ASSUME IsA(typed'[1]), typed'[2] = "T", Len(typed') >= 2 PROVE Held(2)'
      BY <1>4 DEF GoodInv, IsA
    <3>1. PICK j \in 1 .. Len(typed) : Held(j)
      BY <1>2, <1>9
    <3>2. typed[1] # "T" /\ 1 \in 1 .. Len(typed) /\ IsA(typed[1])
      BY <1>1, <2>1, <3>1 DEF IsA
    <3>3. j # 1
      BY <3>1, <3>2 DEF Held
    <3>4. 2 \in 1 .. Len(typed) /\ Len(typed) >= 2
      BY <1>1, <3>1, <3>3
    <3>5. Held(2)
      BY <1>0, <2>1, <3>2, <3>4 DEF GoodInv
    <3> QED
      BY <2>2, <3>4, <3>5
  <2> QED
    BY <2>4, <2>5, <2>6 DEF TextInv
<1> QED
  BY <1>8, <1>9
(* A character before "AT" has come: an "A" is remembered, a "T" behind it *)
(* begins the command, and anything else is forgotten.                     *)
LEMMA CharBeforeAT ==
  ASSUME Inv, TextInv, Clean, NEW c \in Alphabet, CharStored(c), recv_start = 0,
         atMode' = atMode, disturbed' \in BOOLEAN, disturbed' = disturbed,
         typed' = IF disturbed' THEN <<>> ELSE Append(typed, c)
  PROVE  TextInv'
<1> USE ConstFacts
<1>0. TypedInv /\ BegunInv /\ OpenInv /\ GoodInv
  BY DEF TextInv
<1>1. typed \in Seq(Alphabet) /\ Len(typed) \in Nat
  BY <1>0 DEF TypedInv
<1>2. /\ uart_rec_len \in {0, 1}
      /\ uart_rec_len = 1 => uart_rec_data[0] # "a"
      /\ typed # <<>> => /\ uart_rec_len = 1
                         /\ IsA(typed[Len(typed)]) => uart_rec_data[0] = "A"
  BY <1>0 DEF OpenInv
<1>3. \A i \in Index : uart_rec_data'[i] = IF StartsOver(c) /\ i = 0 THEN "A"
                                           ELSE IF i = uart_rec_len THEN c ELSE uart_rec_data[i]
  BY StoredAt DEF CharStored
<1>4. uart_rec_data' = Stored(c) /\ 0 \in Index /\ 1 \in Index
  BY DEF CharStored
<1>5. disturbed \in BOOLEAN /\ (disturbed => typed = <<>> /\ typed' = <<>> /\ typed' \in Seq(Alphabet)
                                             /\ Len(typed') = 0)
  BY <1>0 DEF TypedInv
<1>6. ~disturbed =>
        /\ typed' \in Seq(Alphabet) /\ Len(typed') = Len(typed) + 1 /\ typed' # <<>>
        /\ typed'[Len(typed) + 1] = c
        /\ \A k \in 1 .. Len(typed) : typed'[k] = typed[k]
  BY <1>1
<1>7. TypedInv'
  BY <1>5, <1>6 DEF TypedInv
<1>8. ASSUME Len(typed') >= 2, IsA(typed'[1]), typed'[2] = "T"
      PROVE  ~disturbed /\ Len(typed) = 1 /\ IsA(typed[1]) /\ c = "T" /\ typed # <<>>
  <2>1. ~disturbed
    BY <1>5, <1>8
  <2>2. Len(typed) >= 1 /\ IsA(typed[1])
    BY <1>1, <1>6, <1>8, <2>1
  <2>3. ASSUME Len(typed) >= 2 PROVE FALSE
    <3>1. typed[2] = "T"
      BY <1>1, <1>6, <1>8, <2>1, <2>3
    <3> QED
      BY <1>0, <2>2, <2>3, <3>1 DEF GoodInv
  <2>4. Len(typed) = 1
    <3>1. Len(typed) \in Nat /\ Len(typed) >= 1 /\ ~(Len(typed) >= 2)
      BY <1>1, <2>2, <2>3
    <3>2. \A n \in Nat : n >= 1 /\ ~(n >= 2) => n = 1
      OBVIOUS
    <3> QED
      BY <3>1, <3>2, Zenon
  <2>5. typed # <<>> /\ c = "T"
    BY <1>6, <1>8, <2>1, <2>4
  <2> QED
    BY <2>1, <2>2, <2>4, <2>5
<1>9. CASE IsA(c)
  <2>1. StartsOver(c) /\ ~Begins(c) /\ LenBefore(c) = 0 /\ ~TooLong(c)
    BY <1>9 DEF StartsOver, Begins, LenBefore, TooLong
  <2>2. uart_rec_len' = 1 /\ recv_start' = 0 /\ uart_rec_data'[0] = "A"
    BY <1>3, <1>4, <2>1 DEF CharStored
  <2>3. BegunInv' /\ GoodInv'
    <3>1. c # "T"
      BY <1>9 DEF IsA
    <3> QED
      BY <1>8, <2>2, <3>1 DEF BegunInv, GoodInv, IsA
  <2>4. OpenInv'
    BY <1>5, <1>6, <1>9, <2>2 DEF OpenInv, IsA
  <2> QED
    BY <1>7, <2>3, <2>4 DEF TextInv
<1>10. CASE ~IsA(c) /\ Begins(c)
  <2>1. ~StartsOver(c) /\ c # "a"
    BY <1>10 DEF StartsOver, IsA
  <2>2. Stored(c)[0] # "a"
    BY <1>2, <1>3, <1>4, <2>1
  <2>3. uart_rec_len = 1 /\ Stored(c)[1] = "T" /\ Stored(c)[0] = "A"
    BY <1>10, <2>2 DEF Begins
  <2>4. c = "T"
    BY <1>3, <1>4, <2>1, <2>3
  <2>5. LenBefore(c) = 1 /\ ~TooLong(c)
    BY <1>10, <2>3 DEF LenBefore, TooLong
  <2>6. uart_rec_len' = 2 /\ recv_start' = 1 /\ uart_rec_data'[0] = "A" /\ uart_rec_data'[1] = "T"
    BY <1>4, <1>10, <2>3, <2>5 DEF CharStored
  <2>7. ASSUME ~disturbed, NEW j, j = Len(typed) + 1 PROVE j \in 1 .. Len(typed') /\ Held(j)'
    BY <1>1, <1>6, <2>4, <2>6, <2>7 DEF Held
  <2>8. BegunInv'
    <3>1. ~disturbed' => \E j \in 1 .. Len(typed') : Held(j)'
      BY <2>7
    <3> QED
      BY <2>6, <3>1 DEF BegunInv
  <2>9. OpenInv'
    BY <2>6 DEF OpenInv
  <2>10. GoodInv'
    <3> SUFFICES ASSUME Len(typed') >= 2, IsA(typed'[1]), typed'[2] = "T" PROVE Held(2)'
      BY <2>6 DEF GoodInv, IsA
    <3>1. ~disturbed /\ 2 = Len(typed) + 1
      BY <1>8
    <3> QED
      BY <2>7, <3>1
  <2> QED
    BY <1>7, <2>8, <2>9, <2>10 DEF TextInv
<1>11. CASE ~IsA(c) /\ ~Begins(c)
  <2>1. ~StartsOver(c) /\ LenBefore(c) = 0 /\ ~TooLong(c) /\ c # "a"
    BY <1>11 DEF StartsOver, LenBefore, TooLong, IsA
  <2>2. uart_rec_len' = 1 /\ recv_start' = 0
    BY <1>11, <2>1 DEF CharStored
  <2>3. uart_rec_data'[0] # "a" /\ c \in {uart_rec_data'[0], uart_rec_data'[1]}
    BY <1>2, <1>3, <1>4, <2>1
  <2>4. BegunInv'
    BY <2>2 DEF BegunInv
  <2>5. OpenInv'
    <3>1. ~disturbed => typed'[Len(typed')] = c
      BY <1>6
    <3>2. ~IsA(c)
      BY <1>11
    <3> QED
      BY <1>5, <2>2, <2>3, <3>1, <3>2 DEF OpenInv, IsA
  <2>6. GoodInv'
    <3> SUFFICES ASSUME Len(typed') >= 2, IsA(typed'[1]), typed'[2] = "T" PROVE FALSE
      BY DEF GoodInv, IsA
    <3>1. c = "T" /\ typed # <<>> /\ IsA(typed[Len(typed)])
      BY <1>8
    <3>2. uart_rec_len = 1 /\ uart_rec_data[0] = "A"
      BY <1>2, <3>1
    <3>3. Stored(c)[1] = "T" /\ Stored(c)[0] = "A"
      BY <1>3, <1>4, <2>1, <3>1, <3>2
    <3>4. Begins(c)
      BY <2>1, <3>2, <3>3 DEF Begins
    <3> QED
      BY <1>11, <3>4
  <2> QED
    BY <1>7, <2>4, <2>5, <2>6 DEF TextInv
<1> QED
  BY <1>9, <1>10, <1>11
LEMMA UartAtText == ASSUME Inv, TextInv, NEW c \in Alphabet, UartCharAT(c) PROVE TextInv'
<1> USE ConstFacts
<1>0. /\ atMode' = atMode
      /\ disturbed' = (c # "LF" /\ (disturbed \/ Deaf \/ TooLong(c)))
      /\ typed' = IF c = "LF" \/ disturbed' THEN <<>> ELSE Append(typed, c)
  BY DEF UartCharAT
<1>1. typed \in Seq(Alphabet) /\ garbled \in BOOLEAN /\ disturbed \in BOOLEAN /\ uart_recvEnd \in {0, 1}
  BY DEF TextInv, TypedInv, Inv, HistoryType, LineType
<1>2. typed' \in Seq(Alphabet) /\ (disturbed' => typed' = <<>>)
  BY <1>0, <1>1
<1>3. TypedInv'
  BY <1>2 DEF TypedInv
<1>4. CASE Deaf
  <2>1. uart_recvEnd' = 1
    BY <1>4 DEF UartCharAT, line, Deaf
  <2> QED
    BY <1>3, <2>1, NotClean DEF Clean
<1>5. CASE ~Deaf /\ c = "LF"
  <2>1. /\ LineEnds /\ garbled' = (garbled /\ uart_recvEnd' = 0) /\ uart_recvEnd = 0
        /\ typed' = <<>> /\ disturbed' = FALSE
    BY <1>0, <1>1, <1>5 DEF UartCharAT, Deaf
  <2> SUFFICES ASSUME Clean' PROVE TextInv'
    BY <1>3, NotClean
  <2>2. ~garbled /\ Clean /\ uart_recvEnd' = 0
    BY <1>0, <2>1 DEF Clean
  <2>3. ~IsCommand(uart_rec_data)
    BY <2>1, <2>2 DEF LineEnds, IsCommand, IsRefused
  <2>4. CASE IsRefused(uart_rec_data)
    <3>1. recv_start' = 0 /\ uart_rec_len' = 0
      BY <2>1, <2>3, <2>4 DEF LineEnds
    <3> QED
      BY <2>1, <3>1, Fresh
  <2>5. CASE ~IsRefused(uart_rec_data)
    <3>1. UNCHANGED line
      BY <2>1, <2>3, <2>5 DEF LineEnds
    <3>2. recv_start = 0
      BY <2>2, <2>3, <2>5 DEF TextInv, BegunInv, IsCommand, IsRefused, IsA, Inv, LineType
    <3>3. BegunInv' /\ GoodInv'
      BY <2>1, <3>1, <3>2 DEF BegunInv, GoodInv, line
    <3>4. OpenInv'
      BY <2>1, <2>2, <3>1, <3>2 DEF TextInv, OpenInv, line
    <3> QED
      BY <1>3, <3>3, <3>4 DEF TextInv
  <2> QED
    BY <2>4, <2>5
<1>6. CASE ~Deaf /\ c # "LF"
  <2>1. CharStored(c) /\ garbled' = (garbled /\ ~TooLong(c)) /\ uart_recvEnd = 0
    BY <1>1, <1>6 DEF UartCharAT, Deaf
  <2>2. CASE TooLong(c)
    <3>1. disturbed' = TRUE /\ uart_rec_len' = 0 /\ recv_start' = 0
      BY <1>0, <1>6, <2>1, <2>2 DEF CharStored
    <3>2. typed' = <<>>
      BY <1>2, <3>1
    <3> QED
      BY <3>1, <3>2, Fresh
  <2>3. CASE ~TooLong(c)
    <3> SUFFICES ASSUME Clean' PROVE TextInv'
      BY <1>3, NotClean
    <3>1. Clean
      BY <1>0, <2>1, <2>3 DEF Clean
    <3>2. disturbed' = disturbed /\ disturbed' \in BOOLEAN
      BY <1>0, <1>1, <1>6, <2>3
    <3>3. typed' = IF disturbed' THEN <<>> ELSE Append(typed, c)
      BY <1>0, <1>6
    <3>4. recv_start \in {0, 1}
      BY DEF Inv, LineType
    <3> QED
      BY <1>0, <2>1, <2>3, <3>1, <3>2, <3>3, <3>4, CharAfterAT, CharBeforeAT
  <2> QED
    BY <2>2, <2>3
<1> QED
  BY <1>4, <1>5, <1>6

LEMMA NextText == Inv /\ TextInv /\ [Next]_vars => TextInv'
<1> SUFFICES ASSUME Inv, TextInv, [Next]_vars PROVE TextInv'
  OBVIOUS
<1>0. TypedInv /\ recv_start \in {0, 1}
  BY DEF TextInv, Inv, LineType
<1>1. CASE UNCHANGED vars
  BY <1>1 DEF vars, TextInv, TypedInv, BegunInv, OpenInv, GoodInv, Held, Clean, line, history
<1>2. ASSUME NEW c \in Alphabet, UartCharAT(c) PROVE TextInv'
  BY <1>2, UartAtText
<1>3. ASSUME NEW c \in DataAlphabet, UartCharData(c) PROVE TextInv'
  <2>1. atMode' = "DATA" /\ TypedInv'
    BY <1>0, <1>3 DEF UartCharData, TypedInv, history
  <2> QED
    BY <2>1, NotClean DEF Clean
<1>4. CASE TimerClears \/ EndClearsFlag \/ EndClearsLen
  <2>1. typed' = <<>> /\ garbled' = TRUE
    BY <1>4 DEF TimerClears, EndClearsFlag, EndClearsLen, Touched
  <2> QED
    BY <2>1, Fresh DEF Clean
<1>5. CASE MainClears
  <2>1. atMode' = "DATA" /\ TypedInv'
    BY <1>0, <1>5 DEF MainClears, TypedInv, history
  <2> QED
    BY <2>1, NotClean DEF Clean
<1>6. CASE MainSwitches
  <2>1. typed' = <<>> /\ UNCHANGED line /\ garbled' = (garbled \/ uart_rec_len # 0 \/ recv_start = 1)
    BY <1>6 DEF MainSwitches
  <2>2. Clean' => recv_start' = 0 /\ uart_rec_len' = 0
    BY <1>0, <2>1 DEF Clean, line
  <2> QED
    BY <2>1, <2>2, Fresh
<1>7. CASE AtParses
  <2>1. uart_recvEnd' = 1 /\ TypedInv'
    BY <1>0, <1>7 DEF AtParses, TypedInv, history
  <2> QED
    BY <2>1, NotClean DEF Clean
<1>8. CASE CommandReturns
  BY <1>8 DEF CommandReturns, TextInv, TypedInv, BegunInv, OpenInv, GoodInv, Held, Clean, line, history
<1>9. CASE ResponseQUIT
  <2>1. atMode' = "DATA" /\ TypedInv'
    BY <1>0, <1>9 DEF ResponseQUIT, TypedInv, history
  <2> QED
    BY <2>1, NotClean DEF Clean
<1>10. CASE AtClears
  <2>1. typed' = <<>> /\ uart_rec_len' = 0 /\ recv_start' = recv_start /\ garbled' = (recv_start = 1)
    BY <1>10 DEF AtClears
  <2>2. Clean' => recv_start' = 0 /\ uart_rec_len' = 0
    BY <1>0, <2>1 DEF Clean
  <2> QED
    BY <2>1, <2>2, Fresh
<1> QED
  BY <1>1, <1>2, <1>3, <1>4, <1>5, <1>6, <1>7, <1>8, <1>9, <1>10 DEF Next, AtThread

LEMMA TextHolds == Spec => [](Inv /\ TextInv)
BY InitInv, InitText, NextKeeps, NextText, PTL DEF Spec
-----------------------------------------------------------------------------
(* Only the end of a line, when it is a command, hands the buffer over.    *)
LEMMA HandsOver ==
  ASSUME Inv, Next, uart_recvEnd = 0, uart_recvEnd' = 1
  PROVE  /\ atMode = "AT" /\ IsCommand(uart_rec_data) /\ command' = Text(uart_rec_data')
         /\ uart_rec_data' = [i \in Index |-> IF i = LastIndex(uart_rec_len)
                                              THEN "NUL" ELSE uart_rec_data[i]]
<1>1. PICK c \in Alphabet : UartCharAT(c)
  BY DEF Next, UartCharData, TimerClears, EndClearsFlag, EndClearsLen, MainClears, MainSwitches,
         AtThread, AtParses, CommandReturns, ResponseQUIT, AtClears, line
<1>2. LineEnds
  BY <1>1 DEF UartCharAT, Deaf, CharStored
<1>3. IsCommand(uart_rec_data)
  BY <1>2 DEF LineEnds, line
<1> QED
  BY <1>1, <1>2, <1>3 DEF UartCharAT, LineEnds, IsCommand, IsRefused

(* The command that is handed over: its last character is cut off, and no  *)
(* character before that one ends it.                                      *)
LEMMA AcceptedText ==
  ASSUME Inv, TextInv, Clean, recv_start = 1, NEW j \in 1 .. Len(typed), Held(j),
         typed[Len(typed)] = "CR", NEW data,
         data = [i \in Index |-> IF i = LastIndex(uart_rec_len) THEN "NUL" ELSE uart_rec_data[i]]
  PROVE  Text(data) = <<"A", "T">> \o SubSeq(typed, j + 1, Len(typed) - 1)
<1> USE ConstFacts
<1>0. typed \in Seq(Alphabet) /\ Len(typed) \in Nat /\ BegunInv /\ LineType
  BY DEF TextInv, TypedInv, Inv
<1>1. /\ uart_rec_data[0] = "A" /\ uart_rec_data[1] = "T"
      /\ uart_rec_len = Len(typed) - j + 2 /\ uart_rec_len <= MaxLine + 1
  BY <1>0 DEF BegunInv, Held
<1>2. j < Len(typed)
  <2>1. typed[j] = "T"
    BY DEF Held
  <2> QED
    BY <1>0, <2>1
<1> DEFINE n == Len(typed) - j + 1
<1>3. n \in Nat /\ 2 <= n /\ n <= MaxLine /\ LastIndex(uart_rec_len) = n /\ n \in Index
  BY <1>0, <1>1, <1>2 DEF LastIndex
<1>4. /\ data \in [Index -> Characters]
      /\ \A i \in Index : data[i] = IF i = n THEN "NUL" ELSE uart_rec_data[i]
  BY <1>0, <1>3 DEF LineType, Characters
<1>5. data[0] = "A" /\ data[1] = "T" /\ data[n] = "NUL"
  BY <1>1, <1>3, <1>4
<1> HIDE DEF n
<1>6. ASSUME NEW i \in 2 .. n - 1
      PROVE  data[i] = typed[i + j - 1] /\ data[i] \in Alphabet
  <2>0. n = Len(typed) - j + 1
    BY DEF n
  <2>1. i \in Index /\ i # n /\ i + j - 1 \in j + 1 .. Len(typed) /\ i + j - 1 \in 1 .. Len(typed)
        /\ (i + j - 1) - j + 1 = i
    BY <1>0, <1>3, <2>0
  <2>2. uart_rec_data[i] = typed[i + j - 1]
    BY <2>1 DEF Held
  <2>3. data[i] = uart_rec_data[i]
    BY <1>4, <2>1
  <2>4. typed[i + j - 1] \in Alphabet
    BY <1>0, <2>1, ElementOfSeq
  <2> QED
    BY <2>2, <2>3, <2>4
<1>7. \A i \in 0 .. n - 1 : data[i] # "NUL"
  <2>1. \A i \in 0 .. n - 1 : i = 0 \/ i = 1 \/ i \in 2 .. n - 1
    BY <1>3
  <2> QED
    BY <1>5, <1>6, <2>1
<1>8. StrLen(data) = n
  <2>1. n \in Ends(data)
    BY <1>3, <1>5 DEF Ends
  <2>2. \A m \in Ends(data) : m \in Nat /\ n <= m
    BY <1>3, <1>7 DEF Ends
  <2>3. StrLen(data) \in Ends(data) /\ StrLen(data) <= n
    BY <2>1, StrLenFacts
  <2> QED
    BY <1>3, <2>2, <2>3
<1> DEFINE s == Text(data)
           u == SubSeq(typed, j + 1, Len(typed) - 1)
           t == <<"A", "T">> \o u
<1>9. s \in Seq(Characters) /\ Len(s) = n /\ \A i \in 1 .. n : s[i] = data[i - 1]
  BY <1>4, <1>8, TextFacts
<1>10. /\ u \in Seq(Alphabet) /\ Len(u) = n - 2
       /\ \A i \in 1 .. n - 2 : u[i] = typed[j + i]
  <2>1. \A i \in j + 1 .. Len(typed) - 1 : typed[i] \in Alphabet
    <3>1. \A i \in j + 1 .. Len(typed) - 1 : i \in 1 .. Len(typed)
      BY <1>0
    <3> QED
      BY <1>0, <3>1, ElementOfSeq
  <2>2. j + 1 \in Int /\ Len(typed) - 1 \in Int
    BY <1>0
  <2>3. /\ u \in Seq(Alphabet)
        /\ Len(u) = IF j + 1 <= Len(typed) - 1 THEN (Len(typed) - 1) - (j + 1) + 1 ELSE 0
        /\ \A i \in 1 .. (Len(typed) - 1) - (j + 1) + 1 : u[i] = typed[(j + 1) + i - 1]
    BY <2>1, <2>2, SubSeqProperties
  <2>4. n = Len(typed) - j + 1
    BY DEF n
  <2>5. Len(u) = n - 2 /\ (Len(typed) - 1) - (j + 1) + 1 = n - 2
    BY <1>0, <1>2, <2>3, <2>4
  <2>6. \A i \in 1 .. n - 2 : (j + 1) + i - 1 = j + i
    BY <1>0, <1>3
  <2> QED
    BY <2>3, <2>5, <2>6
<1> HIDE DEF s, u
<1>11. <<"A", "T">> \in Seq({"A", "T"}) /\ Len(<<"A", "T">>) = 2
       /\ <<"A", "T">>[1] = "A" /\ <<"A", "T">>[2] = "T"
  OBVIOUS
<1>12. /\ t \in Seq(Alphabet \cup {"A", "T"}) /\ Len(t) = n
       /\ t[1] = "A" /\ t[2] = "T"
       /\ \A i \in 3 .. n : t[i] = u[i - 2]
  <2>1. u \in Seq(Alphabet \cup {"A", "T"}) /\ <<"A", "T">> \in Seq(Alphabet \cup {"A", "T"})
    BY <1>10
  <2>2. /\ t \in Seq(Alphabet \cup {"A", "T"}) /\ Len(t) = 2 + Len(u)
        /\ \A i \in 1 .. 2 + Len(u) : t[i] = IF i <= 2 THEN <<"A", "T">>[i] ELSE u[i - 2]
    BY <1>11, <2>1, ConcatProperties
  <2> QED
    BY <1>3, <1>10, <1>11, <2>2
<1> HIDE DEF t
<1>13. ASSUME NEW i \in 1 .. n PROVE s[i] = t[i]
  <2>1. i = 1 \/ i = 2 \/ (i \in 3 .. n /\ i - 1 \in 2 .. n - 1 /\ i - 2 \in 1 .. n - 2)
    BY <1>3
  <2>2. CASE i \in {1, 2}
    BY <1>5, <1>9, <1>12, <2>2
  <2>3. CASE i \in 3 .. n /\ i - 1 \in 2 .. n - 1 /\ i - 2 \in 1 .. n - 2
    <3>1. s[i] = typed[(i - 1) + j - 1]
      BY <1>6, <1>9, <2>3
    <3>2. t[i] = typed[j + (i - 2)]
      BY <1>10, <1>12, <2>3
    <3>3. (i - 1) + j - 1 = j + (i - 2)
      BY <1>0, <1>3
    <3> QED
      BY <3>1, <3>2, <3>3
  <2> QED
    BY <2>1, <2>2, <2>3
<1>14. s = t
  BY <1>9, <1>12, <1>13, SeqEqual
<1> QED
  BY <1>14 DEF s, t, u

(* uart_data_recv: a line that ends in CR LF, and that nobody else touched *)
(* while it was typed, is accepted as typed behind its "AT".               *)
THEOREM AcceptedCorrect == Spec => AcceptedAsTyped
<1> DEFINE Hands == /\ uart_recvEnd = 0 /\ uart_recvEnd' = 1
                    /\ ~disturbed /\ ~garbled
                    /\ typed # <<>> /\ typed[Len(typed)] = "CR"
           AsTyped == \E j \in 1 .. Len(typed) :
                        /\ typed[j] = "T"
                        /\ command' = <<"A", "T">> \o SubSeq(typed, j + 1, Len(typed) - 1)
<1>1. Inv /\ TextInv /\ [Next]_vars => [Hands => AsTyped]_vars
  <2> SUFFICES ASSUME Inv, TextInv, Next, Hands PROVE AsTyped
    OBVIOUS
  <2>1. /\ Clean /\ IsCommand(uart_rec_data) /\ command' = Text(uart_rec_data')
        /\ uart_rec_data' = [i \in Index |-> IF i = LastIndex(uart_rec_len)
                                             THEN "NUL" ELSE uart_rec_data[i]]
    BY HandsOver DEF Clean
  <2>2. recv_start = 1
    BY <2>1 DEF TextInv, OpenInv, IsCommand, IsA, Inv, LineType
  <2>3. PICK j \in 1 .. Len(typed) : Held(j)
    BY <2>1, <2>2 DEF TextInv, BegunInv
  <2>4. Text(uart_rec_data') = <<"A", "T">> \o SubSeq(typed, j + 1, Len(typed) - 1)
    BY <2>1, <2>2, <2>3, AcceptedText
  <2> QED
    BY <2>1, <2>3, <2>4 DEF Held
<1> QED
  BY <1>1, TextHolds, PTL DEF Spec, AcceptedAsTyped

(* uart_data_recv: whatever lines came before, a well-formed one is        *)
(* accepted when it ends, if nobody else touched the buffer in between.    *)
THEOREM GoodLineCorrect == Spec => GoodLineAccepted
<1> DEFINE GoodEnds == /\ atMode = "AT" /\ uart_recvEnd = 0
                       /\ typed # <<>> /\ typed' = <<>> /\ chars' # chars
                       /\ ~disturbed' /\ ~garbled
                       /\ Len(typed) \in 3 .. MaxLine
                       /\ IsA(typed[1]) /\ typed[2] = "T" /\ typed[3] \in {"+", "CR"}
<1>1. Inv /\ TextInv /\ [Next]_vars => [GoodEnds => uart_recvEnd' = 1]_vars
  <2> SUFFICES ASSUME Inv, TextInv, Next, GoodEnds PROVE uart_recvEnd' = 1
    OBVIOUS
  <2>0. typed \in Seq(Alphabet) /\ Len(typed) >= 3 /\ Len(typed) \in Nat
    BY ConstFacts DEF TextInv, TypedInv
  <2>1. PICK c \in Alphabet : UartCharAT(c)
    BY DEF Next, UartCharData, TimerClears, EndClearsFlag, EndClearsLen, MainClears, MainSwitches,
           AtThread, AtParses, CommandReturns, ResponseQUIT, AtClears
  <2>2. c = "LF"
    <3>1. Append(typed, c) # <<>>
      BY <2>0
    <3> QED
      BY <2>1, <3>1 DEF UartCharAT
  <2>3. LineEnds
    BY <2>1, <2>2 DEF UartCharAT, Deaf
  <2>4. recv_start = 1 /\ Held(2) /\ Clean
    BY <2>0 DEF TextInv, GoodInv, Clean
  <2>5. uart_rec_data[0] = "A" /\ uart_rec_data[1] = "T"
    BY <2>4 DEF TextInv, BegunInv
  <2>6. uart_rec_data[2] = typed[3]
    <3>1. 3 \in 2 + 1 .. Len(typed) /\ 3 - 2 + 1 = 2
      BY <2>0
    <3> QED
      BY <2>4, <3>1 DEF Held
  <2>7. IsCommand(uart_rec_data)
    BY <2>5, <2>6 DEF IsCommand, IsA
  <2> QED
    BY <2>3, <2>7 DEF LineEnds, IsCommand, IsRefused
<1> QED
  BY <1>1, TextHolds, PTL DEF Spec, GoodLineAccepted
=============================================================================
