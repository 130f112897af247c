------------------------------- MODULE AtLine -------------------------------
(***************************************************************************)
(* The command line of AT mode: the interrupt handler uart_data_recv       *)
(* collects characters in uart_rec_data until a line that begins with "AT" *)
(* ends, and AtThread parses and runs it.  uart_recvEnd passes the buffer  *)
(* from one to the other.                                                  *)
(*                                                                         *)
(* The same buffer serves data mode, and others write its length and its   *)
(* flag: the timer of data mode, which nobody stops in AT mode, and        *)
(* RecvThread and SendThread when a connection ends.  The handler may come *)
(* between any two statements.  RecvThread and SendThread are below        *)
(* AtThread: they run while it sleeps or while a command blocks.           *)
(*                                                                         *)
(* Case matters for the first character only: "a" is the lower case of     *)
(* "A", and the other letters are not told apart.  parseParameter cuts the *)
(* arguments apart in place, which is left out.                            *)
(***************************************************************************)
EXTENDS Naturals, Sequences

CONSTANTS Alphabet,    \* the characters that arrive; of interest: "A" "a" "T" "+" "CR" "LF"
          DataAlphabet, \* those that arrive in data mode
          MaxLine,     \* the limit for a command (200)
          BufSize,     \* MAX_RECV_BUFFER_SIZE
          UIntRange,   \* 2^32: uart_rec_len is a UINT32
          MaxInput,    \* bound on the number of characters that arrive
          MaxResets    \* bound on the resets by RecvThread and SendThread

ASSUME AtLineAssumption ==
  /\ {MaxInput, MaxResets} \subseteq Nat
  /\ MaxLine \in Nat /\ BufSize \in Nat /\ UIntRange \in Nat
  /\ 4 < MaxLine + 2 /\ MaxLine + 2 <= BufSize /\ BufSize + 1 < UIntRange
  /\ DataAlphabet \subseteq Alphabet /\ "NUL" \notin Alphabet

VARIABLES
  atMode,          \* UserParam.atMode
  uart_rec_data,
  uart_rec_len,
  uart_recvEnd,
  recv_start,
  timerOn,         \* pTimer is running
  apc,             \* where AtThread is
  mpc,             \* where TestSerialToWifi is
  epc,             \* where the end of a connection is
  typed,           \* history: the current line, unless it is disturbed
  disturbed,       \* history: others touched the line, or parts of it were dropped
  garbled,         \* history: others touched the buffer since the handler last began
                   \* with a clear one, or since it accepted a line
  leftover,        \* history: a length was reset and its text left, nothing stored since
  command,         \* history: the command as the handler accepted it
  chars, resets    \* bounds

line == <<uart_rec_data, uart_rec_len, uart_recvEnd, recv_start>>
history == <<typed, disturbed, garbled, leftover, command>>
vars == <<atMode, line, timerOn, apc, mpc, epc, history, chars, resets>>

Index == 0 .. BufSize
Blank == [i \in Index |-> "NUL"]

Init ==
  /\ atMode \in {"AT", "DATA"}
  /\ uart_rec_data = Blank
  /\ uart_rec_len = 0
  /\ uart_recvEnd = 0
  /\ recv_start = 0
  /\ timerOn = FALSE
  /\ apc = "poll"
  /\ mpc = "pend"
  /\ epc = "idle"
  /\ typed = <<>> /\ disturbed = FALSE /\ garbled = FALSE /\ leftover = FALSE
  /\ command = <<>>
  /\ chars = 0 /\ resets = 0

-----------------------------------------------------------------------------
(* The string at the beginning of a buffer; without an end it is taken to  *)
(* the end of the array.                                                   *)
Ends(data) == {n \in Index : data[n] = "NUL"} \cup {BufSize + 1}
StrLen(data) == CHOOSE n \in Ends(data) : \A m \in Ends(data) : n <= m
Text(data) == [i \in 1 .. StrLen(data) |-> data[i - 1]]

(* Without its last character, a line is a command. *)
KeepsCR(n) == n
LastIndex(n) == IF n = 0 THEN UIntRange - 1 ELSE n - 1

(* What a line has to begin with when it ends. *)
IsA(c) == c \in {"A", "a"}
IsCommand(data) == IsA(data[0]) /\ data[1] = "T" /\ data[2] \in {"+", "CR"}
NeverRefused(data) == FALSE
IsRefused(data) == IsA(data[0]) /\ data[1] = "T" /\ data[2] \notin {"+", "CR"}

(* The end of a line: it is accepted, refused, or not noticed.  A length   *)
(* of 2^32 - 1 as an index is the byte before the array.                   *)
LineEnds ==
  \/ /\ IsCommand(uart_rec_data)
     /\ uart_rec_len' = LastIndex(uart_rec_len)
     /\ uart_recvEnd' = 1
     /\ recv_start' = 0
     /\ uart_rec_data' = [i \in Index |-> IF i = LastIndex(uart_rec_len)
                                             THEN "NUL" ELSE uart_rec_data[i]]
  \/ /\ IsRefused(uart_rec_data)
     /\ uart_rec_len' = 0
     /\ recv_start' = 0
     /\ UNCHANGED <<uart_rec_data, uart_recvEnd>>
  \/ /\ ~IsCommand(uart_rec_data) /\ ~IsRefused(uart_rec_data)
     /\ UNCHANGED line

(* Any other character is stored.  Until "A" and "T" have come, "A" goes   *)
(* to the front, and whatever follows it is overwritten.                   *)
StartsOver(c) == recv_start = 0 /\ IsA(c)
Stored(c) == [i \in Index |-> IF StartsOver(c) /\ i = 0 THEN "A"
                              ELSE IF i = uart_rec_len THEN c
                              ELSE uart_rec_data[i]]
(* By the precedence of && and ||, an "a" at the front is enough. *)
Begins(c) ==
  /\ recv_start = 0
  /\ ~StartsOver(c)
  /\ \/ uart_rec_len = 1 /\ Stored(c)[1] = "T" /\ Stored(c)[0] = "A"
     \/ Stored(c)[0] = "a"
LenBefore(c) == IF recv_start = 1 \/ Begins(c) THEN uart_rec_len ELSE 0
TooLong(c) == LenBefore(c) > MaxLine
CharStored(c) ==
  /\ uart_rec_data' = Stored(c)
  /\ uart_rec_len' = IF TooLong(c) THEN 0 ELSE LenBefore(c) + 1
  /\ recv_start' = IF TooLong(c) THEN 0 ELSE IF Begins(c) THEN 1 ELSE recv_start
  /\ UNCHANGED uart_recvEnd

(* uart_data_recv(c) in AT mode: nothing is taken while AtThread is busy. *)
NeverDeaf == FALSE
Deaf == uart_recvEnd = 1
UartCharAT(c) ==
  /\ atMode = "AT"
  /\ chars < MaxInput
  /\ chars' = chars + 1
  /\ \/ /\ Deaf
        /\ UNCHANGED <<line, garbled, leftover>>
     \/ /\ ~Deaf
        /\ c = "LF"
        /\ LineEnds
        /\ garbled' = (garbled /\ uart_recvEnd' = 0)
        /\ UNCHANGED leftover
     \/ /\ ~Deaf
        /\ c # "LF"
        /\ CharStored(c)
        /\ garbled' = (garbled /\ ~TooLong(c))
        /\ leftover' = TooLong(c)
  /\ disturbed' = (/\ c # "LF"
                   /\ disturbed \/ Deaf \/ TooLong(c))
  /\ typed' = IF c = "LF" \/ disturbed' THEN <<>> ELSE Append(typed, c)
  /\ command' = IF uart_recvEnd' = 1 /\ uart_recvEnd = 0 THEN Text(uart_rec_data')
                                                          ELSE command
  /\ UNCHANGED <<atMode, timerOn, apc, mpc, resets, epc>>

(* uart_data_recv(c) in data mode, as far as it concerns this buffer: the  *)
(* character is stored, and the timer is started.                          *)
UartCharData(c) ==
  /\ atMode = "DATA"
  /\ chars < MaxInput
  /\ chars' = chars + 1
  /\ uart_rec_len < BufSize
  /\ uart_rec_data' = [uart_rec_data EXCEPT ![uart_rec_len] = c]
  /\ uart_rec_len' = uart_rec_len + 1
  /\ timerOn' = TRUE
  /\ UNCHANGED <<atMode, uart_recvEnd, recv_start, apc, mpc, history, resets, epc>>

(* Histories: a line that others touch, or the buffer behind it. *)
Touched == disturbed' = TRUE /\ garbled' = TRUE /\ typed' = <<>>

(* timerFuncProcess: if they are not the escape, the characters are gone.  *)
(* With a connection they are terminated, and moved to the network buffer. *)
EscapeText == <<"+", "+", "+", "CR", "LF">>
StartsWith(data, s) == \A i \in 1 .. Len(s) : data[i - 1] = s[i]
Terminated == [i \in Index |-> IF i = uart_rec_len THEN "NUL" ELSE uart_rec_data[i]]
TimerClears ==
  /\ timerOn
  /\ uart_rec_len # 0
  /\ ~(uart_rec_len = 5 /\ StartsWith(uart_rec_data, EscapeText))
  /\ \/ uart_rec_data' = Terminated
     \/ uart_rec_len # 5 /\ UNCHANGED uart_rec_data
  /\ uart_rec_len' = 0
  /\ Touched
  /\ leftover' = TRUE
  /\ UNCHANGED <<atMode, uart_recvEnd, recv_start, timerOn, apc,
                 mpc, command, chars, resets, epc>>

(* The end of TCPRecvTask, or of TCPSendTask: the flag, then the length. *)
EndClearsFlag ==
  /\ epc = "idle"
  /\ apc \in {"poll", "run"}
  /\ resets < MaxResets
  /\ resets' = resets + 1
  /\ uart_recvEnd' = 0
  /\ Touched
  /\ epc' = "len"
  /\ UNCHANGED <<atMode, uart_rec_data, uart_rec_len, recv_start, timerOn, apc,
                 mpc, leftover, command, chars>>

EndClearsLen ==
  /\ epc = "len"
  /\ apc \in {"poll", "run"}
  /\ uart_rec_len' = 0
  /\ Touched
  /\ leftover' = TRUE
  /\ epc' = "idle"
  /\ UNCHANGED <<atMode, uart_rec_data, uart_recvEnd, recv_start, timerOn, apc,
                 mpc, command, chars, resets>>

(* TestSerialToWifi: the buffer holds the escape, and is emptied; then the *)
(* sockets are closed, for which others run; then the mode changes.        *)
MainClears ==
  /\ atMode = "DATA"
  /\ mpc = "pend"
  /\ uart_rec_data' = [i \in Index |-> IF i < 5 THEN EscapeText[i + 1]
                                       ELSE IF i = 5 THEN "NUL" ELSE uart_rec_data[i]]
  /\ uart_recvEnd' = 0
  /\ uart_rec_len' = 0
  /\ mpc' = "switch"
  /\ UNCHANGED <<atMode, recv_start, timerOn, apc, history, chars, resets, epc>>

MainSwitches ==
  /\ mpc = "switch"
  /\ atMode' = "AT"
  /\ mpc' = "pend"
  /\ typed' = <<>>
  /\ disturbed' = (uart_rec_len # 0)
  /\ garbled' = (garbled \/ uart_rec_len # 0 \/ recv_start = 1)
  /\ UNCHANGED <<line, timerOn, apc, leftover, command, chars, resets, epc>>

-----------------------------------------------------------------------------
(* AtThread finds a line: "AT" alone and what is no command are answered   *)
(* at once, "AT+..." is parsed and run.                                    *)
AtParses ==
  /\ apc = "poll"
  /\ atMode = "AT"
  /\ uart_recvEnd = 1
  /\ uart_rec_data' = IF uart_rec_data[0] = "a" THEN [uart_rec_data EXCEPT ![0] = "A"]
                                                 ELSE uart_rec_data
  /\ apc' = IF StartsWith(uart_rec_data', <<"A", "T", "+">>) THEN "run" ELSE "clear"
  /\ UNCHANGED <<atMode, uart_rec_len, uart_recvEnd, recv_start, timerOn, mpc, history, chars, resets, epc>>

(* Any command but AT+QUIT, an unknown one too. *)
CommandReturns ==
  /\ apc = "run"
  /\ apc' = "clear"
  /\ UNCHANGED <<atMode, line, timerOn, mpc, history, chars, resets, epc>>

(* AT+QUIT with the link up. *)
ResponseQUIT ==
  /\ apc = "run"
  /\ atMode' = "DATA"
  /\ uart_recvEnd' = 0
  /\ uart_rec_len' = 0
  /\ apc' = "clear"
  /\ UNCHANGED <<uart_rec_data, recv_start, timerOn, mpc, history, chars, resets, epc>>

(* The critical section at the end, whatever the mode is by now.  If a     *)
(* line has begun meanwhile, recv_start still says so of the clear buffer. *)
ForgetsRecvEnd ==
  /\ apc = "clear"
  /\ uart_rec_len' = 0
  /\ uart_rec_data' = Blank
  /\ apc' = "poll"
  /\ UNCHANGED <<atMode, uart_recvEnd, recv_start, timerOn, mpc, history,
                 chars, resets, epc>>
AtClears ==
  /\ apc = "clear"
  /\ uart_rec_len' = 0
  /\ uart_recvEnd' = 0
  /\ uart_rec_data' = Blank
  /\ apc' = "poll"
  /\ garbled' = (recv_start = 1)
  /\ leftover' = FALSE
  /\ disturbed' = (disturbed \/ typed # <<>>)
  /\ typed' = <<>>
  /\ command' = <<>>
  /\ UNCHANGED <<atMode, recv_start, timerOn, mpc, chars, resets, epc>>

AtThread == AtParses \/ CommandReturns \/ ResponseQUIT \/ AtClears

Next ==
  \/ \E c \in Alphabet : UartCharAT(c)
  \/ \E c \in DataAlphabet : UartCharData(c)
  \/ TimerClears
  \/ EndClearsFlag \/ EndClearsLen
  \/ MainClears \/ MainSwitches
  \/ AtThread

Spec == Init /\ [][Next]_vars

(* AtThread runs when it has something to do, and commands return. *)
FairSpec == Spec /\ WF_vars(AtThread)

-----------------------------------------------------------------------------
(* Every variable keeps its type. *)
TypeOK ==
  /\ atMode \in {"AT", "DATA"}
  /\ uart_rec_data \in [Index -> Alphabet \cup {"NUL", "A", "+", "CR", "LF"}]
  /\ uart_rec_len \in 0 .. UIntRange - 1
  /\ uart_recvEnd \in {0, 1}
  /\ recv_start \in {0, 1}
  /\ timerOn \in BOOLEAN
  /\ apc \in {"poll", "run", "clear"}
  /\ mpc \in {"pend", "switch"}
  /\ epc \in {"idle", "len"}
  /\ {disturbed, garbled, leftover} \subseteq BOOLEAN

(* Where the handler stores when c arrives, if it stores at all: the       *)
(* character itself, or the zero that ends an accepted line.               *)
Stores(c) == atMode = "AT" /\ ~Deaf /\ (c = "LF" => IsCommand(uart_rec_data))
StoresAt(c) == IF c = "LF" THEN LastIndex(uart_rec_len) ELSE uart_rec_len
(* Whatever arrives, the handler stores inside uart_rec_data, with one     *)
(* exception and its consequence.  When a length was reset and its text is *)
(* left (an over-long line, the timer, the end of a connection), a newline *)
(* that comes next ends the old text, and its zero goes to the byte before *)
(* the array.  The length is then 2^32 - 1, and the end of a connection,   *)
(* between its two assignments, lets the handler use it once more.         *)
StoresInside ==
  \A c \in Alphabet : Stores(c) => \/ StoresAt(c) \in Index
                                   \/ leftover /\ c = "LF" /\ uart_rec_len = 0
                                   \/ leftover /\ epc = "len"

(* A line that ends in CR LF and that nobody else touched is accepted as   *)
(* it was typed behind its "AT": nothing of an earlier line, of the data   *)
(* or of the escape is mixed into it.                                      *)
AcceptedAsTyped ==
  [][ (/\ uart_recvEnd = 0 /\ uart_recvEnd' = 1
       /\ ~disturbed /\ ~garbled
       /\ typed # <<>> /\ typed[Len(typed)] = "CR")
      => \E j \in 1 .. Len(typed) :
           /\ typed[j] = "T"
           /\ command' = <<"A", "T">> \o SubSeq(typed, j + 1, Len(typed) - 1) ]_vars

(* No line, however malformed, makes the device ignore the well-formed one *)
(* that follows it, unless someone else touched the buffer in between.     *)
GoodLineAccepted ==
  [][ (/\ atMode = "AT" /\ uart_recvEnd = 0
       /\ typed # <<>> /\ typed' = <<>> /\ chars' # chars
       /\ ~disturbed' /\ ~garbled
       /\ Len(typed) \in 3 .. MaxLine
       /\ IsA(typed[1]) /\ typed[2] = "T" /\ typed[3] \in {"+", "CR"})
      => uart_recvEnd' = 1 ]_vars

Arguments(text) == SubSeq(text, 4, Len(text))
(* While a command runs, its arguments in the buffer are those the handler *)
(* accepted, unless the end of a connection released the buffer.           *)
ArgumentsStable ==
  apc = "run" /\ uart_recvEnd = 1 /\ ~garbled
    => Arguments(Text(uart_rec_data)) = Arguments(command)

(* The line buffer is sound: the handler stores inside it but for the zero *)
(* of a line that was reset, and a running command keeps its arguments     *)
(* (uart_data_recv, AtThread).                                             *)
LineSound == TypeOK /\ StoresInside /\ ArgumentsStable

(* The handler does not stay deaf: a line it has accepted is dealt with.   *)
LineDealtWith == (atMode = "AT" /\ uart_recvEnd = 1) ~> (uart_recvEnd = 0)
=============================================================================
