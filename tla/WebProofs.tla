------------------------------ MODULE WebProofs -----------------------------
(***************************************************************************)
(* Proofs about the web server for every number of browsers, entries and   *)
(* descriptors, with other tasks that open and close sockets.              *)
(*                                                                         *)
(* The table is compact because every descriptor but the listening one     *)
(* belongs to one entry (ListenInv, ClientInv), and because what select    *)
(* found ready is still unread when the loop comes to it (ReadyInv).  That *)
(* only whole images are booted, with the exceptions ImageWhole names,     *)
(* follows from what the server may read next from the browser whose       *)
(* handshake it saw last (UploadInv).                                      *)
(***************************************************************************)
EXTENDS WebServer, WellFoundedInduction, FiniteSetTheorems, SequenceTheorems, TLAPS

Msgs == Requests \cup Pieces \cup {"FIN"}

Parts == Clients \X Pieces \X BOOLEAN
Boots == [image : Seq(Parts), stale : BOOLEAN]

(* Types of what the network holds, and of the upload. *)
NetType ==
  /\ inbox \in [Clients -> Seq(Msgs)]
  /\ sent \in [Clients -> Msgs \cup {"nothing"}]
  /\ image \in Seq(Parts)
  /\ booted \in Seq(Boots)

(* The server listens on exactly one descriptor, or owns none. *)
Listening == pc \notin {"boot", "wait", "open"}

ListenInv ==
  /\ Listening => sock_fd \in DOMAIN owner
  /\ \A fd \in DOMAIN owner : owner[fd] = Nobody <=> fd = sock_fd
  /\ ~Listening => sock_fd = None /\ DOMAIN owner = {} /\ conn_amount = 0

(* A browser has one connection at most, and none while it waits for one. *)
ClientInv ==
  /\ \A f, g \in DOMAIN owner : owner[f] = owner[g] => f = g
  /\ \A c \in backlog : ~Connected(c)

(* What select found ready and the loop has not reached is still unread. *)
ReadyInv ==
  pc = "serve" => \A e \in ReadyEntries : inbox[owner[http_table[e]]] # << >>

TableInv == TypeOK /\ NetType /\ TableCompact /\ ListenInv /\ ClientInv /\ ReadyInv

(* What a browser sent and was not read is a piece of its conversation. *)
Chained(s) ==
  \A k \in 1 .. Len(s) - 1 : s[k] # "FIN" /\ (s[k + 1] = "FIN" \/ Follows(s[k + 1], s[k]))

QueueInv(c) ==
  /\ Chained(inbox[c])
  /\ inbox[c] # << >> => sent[c] = inbox[c][Len(inbox[c])]

(* p may be what the server reads next from c. *)
Expected(c, p) == IF inbox[c] # << >> THEN p = Head(inbox[c]) ELSE Follows(p, sent[c])

(* The flash holds what comes before the piece that is read next from c.   *)
Goes(c) ==
  \/ /\ Len(image) = 1 /\ image[1][2] = "first"
     /\ \A p \in Pieces : Expected(c, p) => p = "middle"
  \/ /\ Len(image) = 2 /\ image[1][2] = "first" /\ image[2][2] = "middle"
     /\ \A p \in Pieces : Expected(c, p) => p = "last"

(* From a handshake to the next request pieces are taken, and as long as   *)
(* they are those of one browser they come in order.                       *)
FreshInv ==
  fmwStartSign /\ ~stale =>
    /\ updFlag # 0 /\ image # << >>
    /\ Mixed(image) \/ Goes(image[1][1])

UploadInv == (\A c \in Clients : QueueInv(c)) /\ FreshInv

-----------------------------------------------------------------------------
(* A set of naturals that is not empty has a least element, which Lowest   *)
(* picks: the descriptor lwIP hands out, and the entry served next.        *)
LEMMA LowestIn ==
  ASSUME NEW S, S \subseteq Nat, S # {}
  PROVE  Lowest(S) \in S /\ \A k \in S : Lowest(S) <= k
<1>1. \E x \in S : \A y \in S : ~ (<<y, x>> \in OpToRel(<, Nat))
  BY NatLessThanWellFounded, WFMin
<1>2. \A x, y \in Nat : ~ (<<y, x>> \in OpToRel(<, Nat)) => x <= y
  BY DEF OpToRel
<1>3. \E x \in S : \A y \in S : x <= y
  BY <1>1, <1>2
<1> QED
  BY <1>3 DEF Lowest

(* A free descriptor is one of the device's and nobody's.                  *)
LEMMA LowestFree ==
  ASSUME Free # {}
  PROVE  /\ Lowest(Free) \in Fds /\ Lowest(Free) # None
         /\ Lowest(Free) \notin DOMAIN owner
<1>1. Free \subseteq Nat
  BY WebAssumption DEF Free, Fds
<1>2. Lowest(Free) \in Free
  BY <1>1, LowestIn
<1> QED
  BY <1>2, WebAssumption DEF Free, Used, Fds, None

(* conn_amount is the number of open entries of a compact table, so that   *)
(* closing them all brings it to 0.                                        *)
LEMMA AllClosed ==
  ASSUME TypeOK, TableCompact
  PROVE  conn_amount - Cardinality(Open) = 0
<1>1. conn_amount \in Nat
  BY WebAssumption DEF TypeOK
<1>2. Cardinality(Open) = conn_amount
  BY <1>1, FS_Interval DEF TableCompact
<1> QED
  BY <1>1, <1>2

(* The table without a connection.                                         *)
LEMMA EmptyOpen == ASSUME http_table' = EmptyTable PROVE Open' = {}
BY DEF Open, EmptyTable

(* What Drop leaves of the connections when all of them are closed: the    *)
(* listening socket.                                                       *)
LEMMA DropConnections ==
  ASSUME TableInv, Listening, NEW B, Drop(Range(owner) \ {Nobody}, B)
  PROVE  /\ DOMAIN owner' = {sock_fd}
         /\ owner'[sock_fd] = Nobody
         /\ backlog' = backlog \ B
<1>1. \A fd \in DOMAIN owner : owner[fd] \in Range(owner)
  BY DEF Range
<1>2. {f \in DOMAIN owner : owner[f] \notin Range(owner) \ {Nobody}} = {sock_fd}
  BY <1>1 DEF TableInv, ListenInv
<1>3. owner' = [fd \in {sock_fd} |-> owner[fd]]
  BY <1>2 DEF Drop
<1> QED
  BY <1>3 DEF Drop, TableInv, ListenInv

(* Dropping keeps the types of the network.                                *)
LEMMA DropType ==
  ASSUME NetType, NEW S, NEW B, Drop(S, B), lingering \in BOOLEAN
  PROVE  /\ inbox' \in [Clients -> Seq(Msgs)]
         /\ sent' \in [Clients -> Msgs \cup {"nothing"}]
         /\ lingering' \in BOOLEAN
BY DEF NetType, Drop

(* The part of TypeOK about the inboxes.                                   *)
LEMMA InboxRange ==
  ASSUME NEW f \in [Clients -> Seq(Msgs)]
  PROVE  \A c \in Clients : Range(f[c]) \subseteq Requests \cup Pieces \cup {"FIN"}
<1> TAKE c \in Clients
<1>1. f[c] \in Seq(Msgs)
  OBVIOUS
<1>2. \A k \in DOMAIN f[c] : f[c][k] \in Msgs
  BY <1>1
<1> QED
  BY <1>2 DEF Range, Msgs

(* Initially the table is sound.                                           *)
LEMMA InitTable == Init => TableInv
<1> SUFFICES ASSUME Init PROVE TableInv
  OBVIOUS
<1>1. Open = {}
  BY DEF Init, Open, EmptyTable
<1>2. NetType
  BY DEF Init, NetType, NoData, NothingSent
<1>3. DOMAIN owner = {}
  BY DEF Init
<1>6. Range(owner) = {}
  BY <1>3 DEF Range
<1>7. \A c \in Clients : Range(inbox[c]) \subseteq Requests \cup Pieces \cup {"FIN"}
  BY <1>2, InboxRange DEF NetType
<1>8. http_table \in [Entries -> Fds \cup {None}]
  BY DEF Init, EmptyTable
<1>9. TcpEntries \in Nat /\ NumFds \in Nat
  BY WebAssumption
<1>10. /\ pc \in {"boot", "wait", "open", "select", "serve", "accept", "reset"}
       /\ softAP \in BOOLEAN /\ linkUp \in BOOLEAN /\ fmwStartSign \in BOOLEAN
       /\ stale \in BOOLEAN /\ leaked = "none" /\ lingering \in BOOLEAN
       /\ sock_fd \in Fds \cup {None}
       /\ fdsr \subseteq Fds /\ lost \subseteq Fds /\ others \subseteq Fds
       /\ backlog \subseteq Clients
  BY DEF Init
<1>11. conn_amount \in 0 .. TcpEntries /\ maxsock \in None .. NumFds
       /\ i \in 0 .. TcpEntries /\ updFlag \in Nat
  BY <1>9 DEF Init, None
<1>4. TypeOK
  BY <1>3, <1>6, <1>7, <1>8, <1>10, <1>11 DEF TypeOK
<1>5. TableCompact
  BY <1>1, <1>3 DEF Init, TableCompact
<1> QED
  BY <1>2, <1>3, <1>4, <1>5 DEF Init, TableInv, ListenInv, Listening, ClientInv, ReadyInv, Connected

-----------------------------------------------------------------------------
(* A step that leaves the table and the descriptors alone leaves it        *)
(* compact, and the connections what they are.                             *)
LEMMA SameTable ==
  ASSUME TableInv, UNCHANGED <<sock_fd, http_table, conn_amount, owner>>,
         Listening' <=> Listening
  PROVE  /\ TableCompact' /\ ListenInv'
         /\ Open' = Open
         /\ \A c : Connected(c)' <=> Connected(c)
<1>1. Open' = Open
  BY DEF Open
<1>2. TableCompact'
  BY <1>1 DEF TableInv, TableCompact
<1>3. ListenInv'
  BY DEF TableInv, ListenInv
<1> QED
  BY <1>1, <1>2, <1>3 DEF Connected

(* The same for the table without connections, and the listening socket    *)
(* or none.                                                                *)
LEMMA ClearedTable ==
  ASSUME http_table' = EmptyTable, conn_amount' = 0,
         \/ Listening' /\ DOMAIN owner' = {sock_fd'} /\ owner'[sock_fd'] = Nobody
         \/ ~Listening' /\ DOMAIN owner' = {} /\ sock_fd' = None
  PROVE  TableCompact' /\ ListenInv'
<1>1. Open' = {}
  BY EmptyOpen
<1>2. TableCompact'
  BY <1>1 DEF TableCompact
<1> QED
  BY <1>2 DEF ListenInv

(* Nobody is connected when only the listening socket is left.             *)
LEMMA ClearedClients ==
  ASSUME backlog' \subseteq Clients,
         \/ DOMAIN owner' = {sock_fd'} /\ owner'[sock_fd'] = Nobody
         \/ DOMAIN owner' = {}
  PROVE  ClientInv'
BY WebAssumption DEF ClientInv, Connected, Nobody

(* The table without connections has its type.                             *)
LEMMA EmptyTableType == EmptyTable \in [Entries -> Fds \cup {None}]
BY DEF EmptyTable

-----------------------------------------------------------------------------
(* The actions of the server thread, one by one.                           *)

(* The end of the wait for SoftAP mode.                                    *)
LEMMA WaitSoftAPStep == TableInv /\ WaitSoftAP => TableInv'
<1> SUFFICES ASSUME TableInv, WaitSoftAP PROVE TableInv'
  OBVIOUS
<1> USE DEF WaitSoftAP, server, port, net, upload, counters
<1>1. TypeOK'
  BY DEF TableInv, TypeOK
<1>2. NetType'
  BY DEF TableInv, NetType
<1>3. TableCompact' /\ ListenInv' /\ ClientInv'
  BY SameTable DEF Listening, TableInv, ClientInv
<1> QED
  BY <1>1, <1>2, <1>3 DEF TableInv, ReadyInv

(* The listening socket is opened.                                         *)
LEMMA OpenListenerStep == TableInv /\ OpenListener => TableInv'
<1> SUFFICES ASSUME TableInv, OpenListener PROVE TableInv'
  OBVIOUS
<1> USE DEF OpenListener, net, upload, counters
<1>1. Lowest(Free) \in Fds
  BY LowestFree
<1>2. DOMAIN owner' = {sock_fd'} /\ owner'[sock_fd'] = Nobody
  OBVIOUS
<1>3. Range(owner') = {Nobody}
  BY <1>2 DEF Range
<1>4. TypeOK'
  <2>1. sock_fd' \in Fds /\ conn_amount' \in 0 .. TcpEntries /\ maxsock' \in None .. NumFds
    BY <1>1, WebAssumption DEF Fds, None
  <2> QED
    BY <1>2, <1>3, <2>1, EmptyTableType DEF TableInv, TypeOK
<1>5. NetType'
  BY DEF TableInv, NetType
<1>6. TableCompact' /\ ListenInv'
  BY <1>2, ClearedTable DEF Listening
<1>7. ClientInv'
  BY <1>2, ClearedClients DEF TableInv, TypeOK
<1> QED
  BY <1>4, <1>5, <1>6, <1>7 DEF TableInv, ReadyInv

(* webserver_main gives up: a descriptor is lost.                          *)
LEMMA GiveUpStep ==
  ASSUME TableInv, pc = "open", Free # {}, NEW keeps \in {"none", "bound", "listening"},
         GiveUp(keeps)
  PROVE  TableInv'
<1> USE DEF GiveUp, net, upload
<1>1. Lowest(Free) \in Fds
  BY LowestFree
<1>2. TypeOK'
  BY <1>1 DEF TableInv, TypeOK
<1>3. NetType'
  BY DEF TableInv, NetType
<1>4. TableCompact' /\ ListenInv' /\ ClientInv'
  BY SameTable DEF Listening, TableInv, ClientInv
<1> QED
  BY <1>2, <1>3, <1>4 DEF TableInv, ReadyInv

(* The three ways to give up.                                              *)
LEMMA GivesUpStep == TableInv /\ (BindFails \/ ListenFails \/ MallocFails) => TableInv'
<1> SUFFICES ASSUME TableInv, BindFails \/ ListenFails \/ MallocFails PROVE TableInv'
  OBVIOUS
<1>1. leaked \in {"none", "bound", "listening"}
  BY DEF TableInv, TypeOK
<1> QED
  BY <1>1, GiveUpStep DEF BindFails, ListenFails, MallocFails

(* select returns what is ready, and a ready connection has data.          *)
LEMMA SelectStep == TableInv /\ Select => TableInv'
<1> SUFFICES ASSUME TableInv, Select PROVE TableInv'
  OBVIOUS
<1> USE DEF Select, server, port, net, upload, counters
<1>1. Ready \subseteq Fds
  BY DEF Ready, Watched, Open, TableInv, TypeOK, ListenInv, Listening
<1>2. TypeOK'
  BY <1>1, WebAssumption DEF TableInv, TypeOK
<1>3. NetType'
  BY DEF TableInv, NetType
<1>4. TableCompact' /\ ListenInv' /\ ClientInv'
  BY SameTable DEF Listening, TableInv, ClientInv
<1>5. ReadyInv'
  <2> SUFFICES ASSUME NEW e \in Entries, i' <= e, e < conn_amount, http_table[e] \in Ready
               PROVE  inbox[owner[http_table[e]]] # << >>
    BY DEF ReadyInv, ReadyEntries
  <2>1. conn_amount \in Nat /\ e \in Int
    BY WebAssumption DEF TableInv, TypeOK, Entries
  <2>2. e \in Open
    BY <2>1 DEF TableInv, TableCompact
  <2>3. http_table[e] # sock_fd
    BY <2>2 DEF TableInv, TableCompact
  <2> QED
    BY <2>3 DEF Ready, Readable
<1> QED
  BY <1>2, <1>3, <1>4, <1>5 DEF TableInv

(* Outside SoftAP mode everything is closed.                               *)
LEMMA SelectTimeoutStep == TableInv /\ SelectTimeout => TableInv'
<1> SUFFICES ASSUME TableInv, SelectTimeout PROVE TableInv'
  OBVIOUS
<1> USE DEF SelectTimeout, port, upload, counters
<1>1. conn_amount' = 0
  BY AllClosed DEF TableInv
<1>2. DOMAIN owner' = {} /\ backlog' = {}
  BY DEF Drop, Range
<1>3. Range(owner') = {}
  BY <1>2 DEF Range
<1>4. NetType' /\ lingering' \in BOOLEAN
  BY DropType DEF TableInv, TypeOK, NetType, upload
<1>5. TypeOK'
  <2>1. conn_amount' \in 0 .. TcpEntries
    BY <1>1, WebAssumption
  <2>2. \A c \in Clients : Range(inbox'[c]) \subseteq Requests \cup Pieces \cup {"FIN"}
    BY <1>4, InboxRange DEF NetType
  <2> QED
    BY <1>2, <1>3, <1>4, <2>1, <2>2, EmptyTableType DEF TableInv, TypeOK
<1>6. TableCompact' /\ ListenInv'
  BY <1>1, <1>2, ClearedTable DEF Listening
<1>7. ClientInv'
  BY <1>2, ClearedClients
<1> QED
  BY <1>4, <1>5, <1>6, <1>7 DEF TableInv, ReadyInv

(* All connections are closed: recv failed, or the table is full.          *)
LEMMA ConnectionsClosed ==
  ASSUME TableInv, Listening, Listening', CloseEntries,
         Drop(Range(owner) \ {Nobody}, {}),
         UNCHANGED <<softAP, linkUp, others, sock_fd, maxsock, port, upload>>,
         pc' = pc, fdsr' \subseteq fdsr, i' \in 0 .. TcpEntries
  PROVE  TypeOK' /\ NetType' /\ TableCompact' /\ ListenInv' /\ ClientInv'
<1>1. conn_amount' = 0 /\ http_table' = EmptyTable
  BY AllClosed DEF TableInv, CloseEntries
<1>2. DOMAIN owner' = {sock_fd} /\ owner'[sock_fd] = Nobody /\ backlog' = backlog
  BY DropConnections
<1>3. Range(owner') = {Nobody}
  BY <1>2 DEF Range
<1>4. NetType' /\ lingering' \in BOOLEAN
  BY DropType DEF TableInv, TypeOK, NetType, upload
<1>5. TypeOK'
  <2>1. conn_amount' \in 0 .. TcpEntries
    BY <1>1, WebAssumption
  <2>2. \A c \in Clients : Range(inbox'[c]) \subseteq Requests \cup Pieces \cup {"FIN"}
    BY <1>4, InboxRange DEF NetType
  <2>3. sock_fd \in DOMAIN owner
    BY DEF TableInv, ListenInv
  <2> QED
    BY <1>1, <1>2, <1>3, <1>4, <2>1, <2>2, <2>3, EmptyTableType
    DEF TableInv, TypeOK, port, upload
<1>6. TableCompact' /\ ListenInv'
  BY <1>1, <1>2, ClearedTable
<1>7. ClientInv'
  BY <1>2, ClearedClients DEF TableInv, TypeOK
<1> QED
  BY <1>4, <1>5, <1>6, <1>7

(* The entry served next is open, its owner a browser with something to    *)
(* read.                                                                   *)
LEMMA ServedEntry ==
  ASSUME TableInv, pc = "serve", ReadyEntries # {}, NEW e, e = Lowest(ReadyEntries)
  PROVE  /\ e \in ReadyEntries /\ e \in Open /\ e + 1 \in 0 .. TcpEntries
         /\ \A f \in ReadyEntries : e <= f
         /\ http_table[e] \in DOMAIN owner
         /\ owner[http_table[e]] \in Clients
         /\ inbox[owner[http_table[e]]] # << >>
         /\ inbox[owner[http_table[e]]] \in Seq(Msgs)
<1>1. ReadyEntries \subseteq Nat
  BY WebAssumption DEF ReadyEntries, Entries
<1>2. e \in ReadyEntries /\ \A f \in ReadyEntries : e <= f
  BY <1>1, LowestIn
<1>3. conn_amount \in Nat /\ e \in Nat /\ e + 1 \in 0 .. TcpEntries
  BY <1>1, <1>2, WebAssumption DEF TableInv, TypeOK, ReadyEntries, Entries
<1>4. e \in Open
  BY <1>2, <1>3 DEF TableInv, TableCompact, ReadyEntries
<1>5. http_table[e] \in DOMAIN owner /\ http_table[e] # sock_fd
  BY <1>4 DEF TableInv, TableCompact
<1>6. owner[http_table[e]] \in Range(owner) /\ owner[http_table[e]] # Nobody
  BY <1>5 DEF TableInv, ListenInv, Range
<1>7. owner[http_table[e]] \in Clients
  BY <1>6 DEF TableInv, TypeOK
<1>8. inbox[owner[http_table[e]]] # << >>
  BY <1>2 DEF TableInv, ReadyInv
<1> QED
  BY <1>2, <1>3, <1>4, <1>5, <1>7, <1>8 DEF TableInv, NetType

(* What http_engine does to the flag, the image and the boot parameters    *)
(* keeps their types.                                                      *)
LEMMA EngineType ==
  ASSUME NEW c \in Clients, NEW piece \in Requests \cup Pieces,
         updFlag \in Nat, fmwStartSign \in BOOLEAN, stale \in BOOLEAN,
         image \in Seq(Parts), booted \in Seq(Boots), http_engine(c, piece)
  PROVE  /\ updFlag' \in Nat /\ fmwStartSign' \in BOOLEAN /\ stale' \in BOOLEAN
         /\ image' \in Seq(Parts) /\ booted' \in Seq(Boots)
<1>1. CASE piece \in Requests
  BY <1>1 DEF http_engine
<1>2. CASE piece \notin Requests /\ updFlag = 0
  BY <1>2 DEF http_engine, upload
<1>3. CASE piece \notin Requests /\ updFlag # 0
  <2>1. http_update(c, piece) /\ piece \in Pieces
    BY <1>3 DEF http_engine
  <2>2. \A written \in BOOLEAN : <<c, piece, written>> \in Parts
    BY <2>1 DEF Parts
  <2>3. CASE updFlag <= 2 /\ piece = "first"
    <3>1. PICK written \in BOOLEAN :
            /\ image' = <<<<c, piece, written>>>> /\ fmwStartSign' = TRUE
            /\ stale' = FALSE /\ updFlag' = updFlag + 1 /\ booted' = booted
      BY <2>1, <2>3 DEF http_update
    <3>2. \A part \in Parts : <<part>> \in Seq(Parts)
      OBVIOUS
    <3>3. image' \in Seq(Parts)
      BY <2>2, <3>1, <3>2
    <3>4. updFlag' \in Nat
      BY <3>1
    <3>5. fmwStartSign' \in BOOLEAN /\ stale' \in BOOLEAN
      BY <3>1
    <3>6. booted' \in Seq(Boots)
      BY <3>1
    <3> QED
      BY <3>3, <3>4, <3>5, <3>6
  <2>4. CASE ~(updFlag <= 2 /\ piece = "first") /\ fmwStartSign
    <3>1. PICK written, switched \in BOOLEAN :
            /\ image' = Append(image, <<c, piece, written>>)
            /\ fmwStartSign' = (piece # "last") /\ stale' = (stale /\ piece # "last")
            /\ updFlag' = IF piece = "last" THEN 0 ELSE updFlag + 1
            /\ booted' = IF piece = "last" /\ switched
                         THEN Append(booted, [image |-> image', stale |-> stale])
                         ELSE booted
      BY <2>1, <2>4 DEF http_update
    <3>2. image' \in Seq(Parts)
      BY <3>1, <2>2
    <3>3. [image |-> image', stale |-> stale] \in Boots
      BY <3>2 DEF Boots
    <3>4. booted' \in Seq(Boots)
      BY <3>1, <3>3
    <3>5. fmwStartSign' \in BOOLEAN /\ stale' \in BOOLEAN
      BY <3>1
    <3> QED
      BY <3>1, <3>2, <3>4, <3>5
  <2>5. CASE ~(updFlag <= 2 /\ piece = "first") /\ ~fmwStartSign
    <3>1. /\ updFlag' = updFlag + 1 /\ fmwStartSign' = fmwStartSign /\ stale' = stale
          /\ image' = image /\ booted' = booted
      BY <2>1, <2>5 DEF http_update
    <3> QED
      BY <3>1
  <2> QED
    BY <2>3, <2>4, <2>5
<1> QED
  BY <1>1, <1>2, <1>3

(* An entry is served.                                                     *)
LEMMA ServeStep == TableInv /\ Serve => TableInv'
<1> SUFFICES ASSUME TableInv, Serve PROVE TableInv'
  OBVIOUS
<1> DEFINE e == Lowest(ReadyEntries)
           c == owner[http_table[e]]
<1>1. pc = "serve" /\ ReadyEntries # {}
  BY DEF Serve
<1>2. /\ e \in ReadyEntries /\ e \in Open /\ e + 1 \in 0 .. TcpEntries
      /\ \A f \in ReadyEntries : e <= f
      /\ http_table[e] \in DOMAIN owner
      /\ c \in Clients /\ inbox[c] # << >> /\ inbox[c] \in Seq(Msgs)
  BY <1>1, ServedEntry
<1>3. IF Head(inbox[c]) = "FIN" THEN RecvEnd ELSE RecvData(e, c)
  BY DEF Serve
<1>4. UNCHANGED <<softAP, linkUp, others, sock_fd, maxsock, port>>
  BY DEF Serve
<1> HIDE DEF e, c
<1>5. CASE Head(inbox[c]) = "FIN"
  <2>1. RecvEnd
    BY <1>3, <1>5
  <2>2. TypeOK' /\ NetType' /\ TableCompact' /\ ListenInv' /\ ClientInv'
    <3>1. i' \in 0 .. TcpEntries
      BY <2>1, WebAssumption DEF RecvEnd
    <3> QED
      BY <1>1, <1>4, <2>1, <3>1, ConnectionsClosed DEF RecvEnd, Listening, upload
  <2>3. ReadyEntries' = {}
    BY <2>1, WebAssumption DEF RecvEnd, ReadyEntries, Entries
  <2> QED
    BY <2>2, <2>3 DEF TableInv, ReadyInv
<1>6. CASE Head(inbox[c]) # "FIN"
  <2>1. RecvData(e, c)
    BY <1>3, <1>6
  <2>2. Head(inbox[c]) \in Requests \cup Pieces /\ Tail(inbox[c]) \in Seq(Msgs)
    BY <1>2, <1>6 DEF Msgs
  <2>3. /\ updFlag' \in Nat /\ fmwStartSign' \in BOOLEAN /\ stale' \in BOOLEAN
        /\ image' \in Seq(Parts) /\ booted' \in Seq(Boots)
    BY <1>2, <2>1, <2>2, EngineType DEF RecvData, TableInv, TypeOK, NetType
  <2>4. NetType'
    <3>1. inbox' \in [Clients -> Seq(Msgs)]
      BY <1>2, <2>1, <2>2 DEF RecvData, TableInv, NetType
    <3> QED
      BY <2>1, <2>3, <3>1 DEF RecvData, TableInv, NetType
  <2>5. pc' \in {"serve", "reset"}
    BY <1>1, <2>1 DEF RecvData
  <2>6. TypeOK'
    <3>1. \A d \in Clients : Range(inbox'[d]) \subseteq Requests \cup Pieces \cup {"FIN"}
      BY <2>4, InboxRange DEF NetType
    <3> QED
      BY <1>2, <1>4, <2>1, <2>3, <2>5, <3>1 DEF RecvData, TableInv, TypeOK, port
  <2>7. TableCompact' /\ ListenInv' /\ ClientInv'
    BY <1>1, <1>4, <2>1, <2>5, SameTable DEF RecvData, Listening, TableInv, ClientInv
  <2>8. ReadyInv'
    <3> SUFFICES ASSUME NEW f \in Entries, e + 1 <= f, f < conn_amount, http_table[f] \in fdsr
                 PROVE  inbox'[owner[http_table[f]]] # << >>
      BY <2>1 DEF ReadyInv, ReadyEntries, RecvData
    <3>1. f \in ReadyEntries /\ f # e /\ f \in Open
      BY <1>2, WebAssumption DEF ReadyEntries, Entries, TableInv, TypeOK, TableCompact
    <3>2. http_table[f] # http_table[e] /\ http_table[f] \in DOMAIN owner
      BY <1>2, <3>1 DEF TableInv, TableCompact
    <3>3. owner[http_table[f]] # c
      BY <1>2, <3>2 DEF TableInv, ClientInv, c
    <3>4. inbox[owner[http_table[f]]] # << >>
      BY <1>1, <3>1 DEF TableInv, ReadyInv
    <3>5. owner[http_table[f]] \in Clients
      <4>1. http_table[f] # sock_fd
        BY <3>1 DEF TableInv, TableCompact
      <4> QED
        BY <3>2, <4>1 DEF TableInv, ListenInv, TypeOK, Range
    <3> QED
      BY <2>1, <3>3, <3>4, <3>5 DEF RecvData, TableInv, NetType
  <2> QED
    BY <2>4, <2>6, <2>7, <2>8 DEF TableInv
<1> QED
  BY <1>5, <1>6

(* The loop over the entries has ended.                                    *)
LEMMA ServeDoneStep == TableInv /\ ServeDone => TableInv'
<1> SUFFICES ASSUME TableInv, ServeDone PROVE TableInv'
  OBVIOUS
<1> USE DEF ServeDone, server, port, net, upload, counters
<1>1. pc' \in {"accept", "select"} /\ fdsr' \subseteq fdsr
  OBVIOUS
<1>2. TypeOK'
  BY <1>1, WebAssumption DEF TableInv, TypeOK
<1>3. NetType'
  BY DEF TableInv, NetType
<1>4. TableCompact' /\ ListenInv' /\ ClientInv'
  BY <1>1, SameTable DEF Listening, TableInv, ClientInv
<1> QED
  BY <1>1, <1>2, <1>3, <1>4 DEF TableInv, ReadyInv

(* The table is full and a browser waits.                                  *)
LEMMA MakeRoomStep == TableInv /\ MakeRoom => TableInv'
<1> SUFFICES ASSUME TableInv, MakeRoom PROVE TableInv'
  OBVIOUS
<1>1. pc = "accept" /\ pc' = pc /\ i' = i
  BY DEF MakeRoom
<1>2. i' \in 0 .. TcpEntries
  BY <1>1 DEF TableInv, TypeOK
<1>3. TypeOK' /\ NetType' /\ TableCompact' /\ ListenInv' /\ ClientInv'
  BY <1>1, <1>2, ConnectionsClosed DEF MakeRoom, Listening, upload
<1> QED
  BY <1>1, <1>3 DEF TableInv, ReadyInv

(* The new connection takes the entry behind the last one.                 *)
LEMMA AcceptStep == TableInv /\ Accept => TableInv'
<1> SUFFICES ASSUME TableInv, Accept PROVE TableInv'
  OBVIOUS
<1>1. PICK c \in backlog : backlog' = backlog \ {c} /\ owner' = Seated(Lowest(Free), c)
  BY DEF Accept
<1> DEFINE new == Lowest(Free)
<1>2. new \in Fds /\ new # None /\ new \notin DOMAIN owner
  BY LowestFree DEF Accept
<1>3. /\ pc = "accept" /\ pc' = "select" /\ fdsr' = {} /\ conn_amount < TcpEntries
      /\ http_table' = [http_table EXCEPT ![conn_amount] = new]
      /\ maxsock' = new + 1 /\ conn_amount' = conn_amount + 1
      /\ UNCHANGED <<softAP, linkUp, i, others, sock_fd, lingering, port, inbox, sent,
                     upload, counters>>
  BY DEF Accept
<1>4. c \in Clients /\ c # Nobody
  BY <1>1, WebAssumption DEF TableInv, TypeOK, Nobody
<1>5. /\ DOMAIN owner' = DOMAIN owner \cup {new}
      /\ owner'[new] = c
      /\ \A fd \in DOMAIN owner : owner'[fd] = owner[fd]
  BY <1>1, <1>2 DEF Seated
<1> HIDE DEF new
<1>6. conn_amount \in Nat /\ conn_amount \in Entries /\ TcpEntries \in Nat
  BY <1>3, WebAssumption DEF TableInv, TypeOK, Entries
<1>7. sock_fd \in DOMAIN owner /\ new # sock_fd
  BY <1>2, <1>3 DEF TableInv, ListenInv, Listening
<1>8. /\ http_table'[conn_amount] = new
      /\ \A e \in Entries \ {conn_amount} : http_table'[e] = http_table[e]
  BY <1>3, <1>6 DEF TableInv, TypeOK
<1>9. Open' = Open \cup {conn_amount} /\ conn_amount \notin Open
  <2>1. conn_amount \notin Open
    BY <1>6 DEF TableInv, TableCompact
  <2> QED
    BY <1>2, <1>6, <1>8, <2>1 DEF Open
<1>10. TypeOK'
  <2>1. Range(owner') \subseteq Clients \cup {Nobody}
    BY <1>4, <1>5 DEF TableInv, TypeOK, Range
  <2>2. maxsock' \in None .. NumFds /\ conn_amount' \in 0 .. TcpEntries
    BY <1>2, <1>3, <1>6, WebAssumption DEF Fds, None
  <2>3. http_table' \in [Entries -> Fds \cup {None}]
    BY <1>2, <1>3 DEF TableInv, TypeOK
  <2>4. DOMAIN owner' \subseteq Fds
    BY <1>2, <1>5 DEF TableInv, TypeOK
  <2>5. fdsr' \subseteq Fds /\ backlog' \subseteq Clients
    BY <1>1, <1>3 DEF TableInv, TypeOK
  <2> QED
    BY <1>3, <2>1, <2>2, <2>3, <2>4, <2>5 DEF TableInv, TypeOK, upload, port
<1>11. NetType'
  BY <1>3 DEF TableInv, NetType, upload
<1>12. TableCompact'
  <2>1. Open' = 0 .. conn_amount' - 1
    BY <1>3, <1>6, <1>9 DEF TableInv, TableCompact
  <2>2. \A e \in Open : http_table'[e] = http_table[e] /\ http_table[e] # new
    BY <1>2, <1>8, <1>9 DEF TableInv, TableCompact, Open
  <2>3. \A e, f \in Open' : http_table'[e] = http_table'[f] => e = f
    BY <1>8, <1>9, <2>2 DEF TableInv, TableCompact
  <2>4. {http_table'[e] : e \in Open'} = {http_table[e] : e \in Open} \cup {new}
    BY <1>8, <1>9, <2>2
  <2>5. {http_table'[e] : e \in Open'} = DOMAIN owner' \ {sock_fd'}
    BY <1>3, <1>5, <1>7, <2>4 DEF TableInv, TableCompact
  <2> QED
    BY <2>1, <2>3, <2>5 DEF TableCompact
<1>13. ListenInv'
  BY <1>2, <1>3, <1>4, <1>5, <1>7 DEF TableInv, ListenInv, Listening
<1>14. ClientInv'
  <2>1. \A fd \in DOMAIN owner : owner[fd] # c
    BY <1>1 DEF TableInv, ClientInv, Connected
  <2> QED
    BY <1>1, <1>5, <2>1 DEF TableInv, ClientInv, Connected
<1> QED
  BY <1>3, <1>10, <1>11, <1>12, <1>13, <1>14 DEF TableInv, ReadyInv

(* No descriptor is left for the browser that waits.                       *)
LEMMA AcceptFailsStep == TableInv /\ AcceptFails => TableInv'
<1> SUFFICES ASSUME TableInv, AcceptFails PROVE TableInv'
  OBVIOUS
<1>1. PICK c \in backlog : Drop({}, {c})
  BY DEF AcceptFails
<1>2. /\ pc = "accept" /\ pc' = "select" /\ fdsr' = {}
      /\ UNCHANGED <<softAP, linkUp, i, others, sock_fd, http_table, conn_amount, maxsock,
                     port, upload, counters>>
  BY DEF AcceptFails
<1>3. /\ DOMAIN owner' = DOMAIN owner /\ \A fd \in DOMAIN owner : owner'[fd] = owner[fd]
      /\ backlog' \subseteq backlog
  BY <1>1 DEF Drop
<1>4. NetType' /\ lingering' \in BOOLEAN
  BY <1>1, <1>2, DropType DEF TableInv, TypeOK, NetType, upload
<1>5. TypeOK'
  <2>1. \A d \in Clients : Range(inbox'[d]) \subseteq Requests \cup Pieces \cup {"FIN"}
    BY <1>4, InboxRange DEF NetType
  <2>2. Range(owner') = Range(owner)
    BY <1>3 DEF Range
  <2> QED
    BY <1>2, <1>3, <1>4, <2>1, <2>2 DEF TableInv, TypeOK, upload, port
<1>6. TableCompact'
  <2>1. Open' = Open
    BY <1>2 DEF Open
  <2> QED
    BY <1>2, <1>3, <2>1 DEF TableInv, TableCompact
<1>7. ListenInv' /\ ClientInv'
  BY <1>2, <1>3 DEF TableInv, ListenInv, ClientInv, Listening, Connected
<1> QED
  BY <1>2, <1>4, <1>5, <1>6, <1>7 DEF TableInv, ReadyInv

(* Power fails, or the chip is reset.                                      *)
LEMMA RestartStep == TableInv /\ Restart => TableInv'
<1> SUFFICES ASSUME TableInv, Restart PROVE TableInv'
  OBVIOUS
<1>1. DOMAIN owner' = {} /\ Range(owner') = {}
  BY DEF Restart, Range
<1>2. NetType'
  BY DEF Restart, NoData, NothingSent, TableInv, NetType
<1>3. TypeOK'
  <2>1. \A d \in Clients : Range(inbox'[d]) \subseteq Requests \cup Pieces \cup {"FIN"}
    BY <1>2, InboxRange DEF NetType
  <2>2. /\ conn_amount' \in 0 .. TcpEntries /\ maxsock' \in None .. NumFds
        /\ i' \in 0 .. TcpEntries /\ updFlag' \in Nat
    BY WebAssumption DEF Restart, None
  <2>3. /\ fmwStartSign' \in BOOLEAN /\ softAP' \in BOOLEAN /\ linkUp' \in BOOLEAN
        /\ stale' \in BOOLEAN /\ leaked' = "none" /\ lingering' \in BOOLEAN
    BY DEF Restart, TableInv, TypeOK
  <2>4. http_table' \in [Entries -> Fds \cup {None}]
    BY EmptyTableType DEF Restart
  <2>5. /\ fdsr' \subseteq Fds /\ lost' \subseteq Fds /\ others' \subseteq Fds
        /\ backlog' \subseteq Clients /\ sock_fd' \in Fds \cup {None} /\ pc' = "boot"
    BY DEF Restart
  <2> QED
    BY <1>1, <2>1, <2>2, <2>3, <2>4, <2>5 DEF TypeOK
<1>4. TableCompact' /\ ListenInv'
  BY <1>1, ClearedTable DEF Restart, Listening
<1>5. ClientInv'
  BY <1>1, <1>3, ClearedClients DEF TypeOK
<1> QED
  BY <1>2, <1>3, <1>4, <1>5 DEF Restart, TableInv, ReadyInv

-----------------------------------------------------------------------------
(* What happens around the server: browsers, the mode, other tasks.        *)
LEMMA ConnectStep == ASSUME NEW c \in Clients, TableInv, Connect(c) PROVE TableInv'
<1> USE DEF Connect, server, port, upload
<1>1. pc' = pc /\ pc # "serve"
  BY DEF BetweenRounds
<1>2. TypeOK' /\ NetType'
  BY DEF TableInv, TypeOK, NetType
<1>3. TableCompact' /\ ListenInv' /\ \A d : Connected(d)' <=> Connected(d)
  BY SameTable DEF Listening
<1>4. ClientInv'
  BY <1>3 DEF TableInv, ClientInv
<1> QED
  BY <1>1, <1>2, <1>3, <1>4 DEF TableInv, ReadyInv

(* A browser sends a request or a piece, or hangs up: something is added   *)
(* behind what the server has not read.                                    *)
LEMMA Delivered ==
  ASSUME NEW c \in Clients, NEW m \in Msgs, TableInv, BetweenRounds,
         inbox' = [inbox EXCEPT ![c] = Append(@, m)],
         sent' = [sent EXCEPT ![c] = m],
         UNCHANGED <<pc, softAP, linkUp, fdsr, i, others, server, backlog, upload>>
  PROVE  TableInv'
<1> USE DEF server, port, upload
<1>1. pc' = pc /\ pc # "serve"
  BY DEF BetweenRounds
<1>2. NetType'
  BY DEF TableInv, NetType
<1>3. TypeOK'
  <2>1. \A d \in Clients : Range(inbox'[d]) \subseteq Requests \cup Pieces \cup {"FIN"}
    BY <1>2, InboxRange DEF NetType
  <2> QED
    BY <2>1 DEF TableInv, TypeOK
<1>4. TableCompact' /\ ListenInv' /\ ClientInv'
  BY SameTable DEF Listening, TableInv, ClientInv
<1> QED
  BY <1>1, <1>2, <1>3, <1>4 DEF TableInv, ReadyInv

(* The steps that change nothing the invariant is about but types.         *)
LEMMA SurroundingsStep ==
  ASSUME TableInv,
         UNCHANGED <<pc, fdsr, i, sock_fd, http_table, conn_amount, maxsock, owner, port, net,
                     upload>>,
         softAP' \in BOOLEAN, linkUp' \in BOOLEAN, lingering' \in BOOLEAN,
         others' \subseteq Fds
  PROVE  TableInv'
<1> USE DEF port, net, upload
<1>1. TypeOK' /\ NetType'
  BY DEF TableInv, TypeOK, NetType
<1>2. TableCompact' /\ ListenInv' /\ ClientInv'
  BY SameTable DEF Listening, TableInv, ClientInv
<1>3. ReadyEntries' = ReadyEntries
  BY DEF ReadyEntries
<1>4. ReadyInv'
  BY <1>3 DEF TableInv, ReadyInv
<1> QED
  BY <1>1, <1>2, <1>4 DEF TableInv

(* Every step keeps the table sound, other tasks included.                 *)
LEMMA TableStep == TableInv /\ [NextOthers]_vars => TableInv'
<1> SUFFICES ASSUME TableInv, [NextOthers]_vars PROVE TableInv'
  OBVIOUS
<1>0. /\ softAP \in BOOLEAN /\ linkUp \in BOOLEAN /\ lingering \in BOOLEAN
      /\ others \subseteq Fds
  BY DEF TableInv, TypeOK
<1>1. CASE ServerStep
  BY <1>1, WaitSoftAPStep, OpenListenerStep, GivesUpStep, SelectStep, SelectTimeoutStep,
     ServeStep, ServeDoneStep, MakeRoomStep, AcceptStep, AcceptFailsStep, RestartStep
  DEF ServerStep, ChipReset
<1>2. CASE ListenFails
  BY <1>2, GivesUpStep
<1>3. CASE PowerFailure
  BY <1>3, RestartStep DEF PowerFailure
<1>4. ASSUME NEW c \in Clients, Connect(c) PROVE TableInv'
  BY <1>4, ConnectStep
<1>5. ASSUME NEW c \in Clients, Hangup(c) PROVE TableInv'
  BY <1>5, Delivered DEF Hangup, Msgs
<1>6. ASSUME NEW c \in Clients, NEW piece \in Requests \cup Pieces, Send(c, piece)
      PROVE  TableInv'
  BY <1>6, Delivered DEF Send, Msgs
<1>7. CASE SwitchMode
  <2>1. softAP' \in BOOLEAN
    BY <1>7 DEF SwitchMode
  <2> QED
    BY <1>0, <1>7, <2>1, SurroundingsStep DEF SwitchMode, server
<1>8. CASE LinkChanges
  <2>1. linkUp' \in BOOLEAN
    BY <1>8 DEF LinkChanges
  <2> QED
    BY <1>0, <1>8, <2>1, SurroundingsStep DEF LinkChanges, server
<1>9. CASE LingerEnds
  <2>1. lingering' \in BOOLEAN
    BY <1>9 DEF LingerEnds
  <2> QED
    BY <1>0, <1>9, <2>1, SurroundingsStep DEF LingerEnds
<1>10. CASE OtherOpen
  <2>1. others' \subseteq Fds
    BY <1>0, <1>10, LowestFree DEF OtherOpen
  <2> QED
    BY <1>0, <1>10, <2>1, SurroundingsStep DEF OtherOpen, server
<1>11. ASSUME NEW fd \in Fds, OtherClose(fd) PROVE TableInv'
  <2>1. others' \subseteq Fds
    BY <1>0, <1>11 DEF OtherClose
  <2> QED
    BY <1>0, <1>11, <2>1, SurroundingsStep DEF OtherClose, server
<1>12. CASE UNCHANGED vars
  BY <1>0, <1>12, SurroundingsStep DEF vars, server
<1> QED
  BY <1>1, <1>2, <1>3, <1>4, <1>5, <1>6, <1>7, <1>8, <1>9, <1>10, <1>11, <1>12
  DEF NextOthers, Next

(* The table of connections is sound (TableSound) whatever browsers, power *)
(* and other tasks do, for every number of entries and of descriptors.     *)
THEOREM TableCorrect == OthersSpec => []TableSound
<1>1. OthersSpec => []TableInv
  BY InitTable, TableStep, PTL DEF OthersSpec
<1>2. TableInv => TableSound
  BY DEF TableInv, TableSound
<1> QED
  BY <1>1, <1>2, PTL

(* The same when no other task has sockets.                                *)
LEMMA TableAlways == Spec => []TableInv
<1>1. [Next]_vars => [NextOthers]_vars
  BY DEF NextOthers
<1> QED
  BY <1>1, InitTable, TableStep, PTL DEF Spec

(* The soundness of the table in that case (TableSound).                   *)
THEOREM TableCorrectAlone == Spec => []TableSound
<1>1. TableInv => TableSound
  BY DEF TableInv, TableSound
<1> QED
  BY <1>1, TableAlways, PTL

-----------------------------------------------------------------------------
(* What may come after what, in a conversation.                            *)
LEMMA FollowsFacts ==
  ASSUME NEW p, NEW q, Follows(p, q)
  PROVE  /\ q = "first" => p = "middle"
         /\ q = "middle" => p = "last" \/ p \in Requests
         /\ q \notin {"UPDATE", "lead", "first", "middle"} => p \in Requests
<1>1. q = "first" => p = "middle"
  BY DEF Follows
<1>2. q = "middle" => p = "last" \/ p \in Requests
  BY DEF Follows
<1>3. q \notin {"UPDATE", "lead", "first", "middle"} => p \in Requests
  BY DEF Follows
<1> QED
  BY <1>1, <1>2, <1>3

(* A browser whose connection is gone starts afresh.                       *)
LEMMA FreshQueue ==
  ASSUME NEW c \in Clients, inbox'[c] = << >>, sent'[c] = "nothing"
  PROVE  QueueInv(c)' /\ \A p \in Pieces : ~Expected(c, p)'
<1>1. QueueInv(c)'
  BY DEF QueueInv, Chained
<1>2. \A p \in Pieces : ~Expected(c, p)'
  BY FollowsFacts DEF Expected, Pieces, Requests
<1> QED
  BY <1>1, <1>2

(* A step that leaves the conversation of c alone.                         *)
LEMMA SameQueue ==
  ASSUME NEW c \in Clients, QueueInv(c), inbox'[c] = inbox[c], sent'[c] = sent[c]
  PROVE  QueueInv(c)' /\ \A p : Expected(c, p)' <=> Expected(c, p)
<1>1. \A p : Expected(c, p)' <=> Expected(c, p)
  BY DEF Expected
<1>2. QueueInv(c)'
  BY DEF QueueInv
<1> QED
  BY <1>1, <1>2

(* Whatever leaves the upload alone, and lets no browser send another      *)
(* piece next than before, keeps the invariant.                            *)
LEMMA SameUpload ==
  ASSUME TableInv, UploadInv, UNCHANGED upload,
         \A c \in Clients : /\ QueueInv(c)'
                            /\ \A p \in Pieces : Expected(c, p)' => Expected(c, p)
  PROVE  UploadInv'
<1> SUFFICES ASSUME fmwStartSign, ~stale
             PROVE  /\ updFlag # 0 /\ image # << >>
                    /\ Mixed(image) \/ Goes(image[1][1])'
  BY DEF UploadInv, FreshInv, upload
<1>1. updFlag # 0 /\ image # << >> /\ (Mixed(image) \/ Goes(image[1][1]))
  BY DEF UploadInv, FreshInv
<1>2. image \in Seq(Parts) /\ image[1] \in Parts
  BY <1>1 DEF TableInv, NetType
<1>3. image[1][1] \in Clients
  BY <1>2 DEF Parts
<1>4. Goes(image[1][1]) => Goes(image[1][1])'
  BY <1>3 DEF Goes, upload
<1> QED
  BY <1>1, <1>4

(* Closing connections keeps the invariant.                                *)
LEMMA DropUpload ==
  ASSUME TableInv, UploadInv, NEW S, NEW B, Drop(S, B), UNCHANGED upload
  PROVE  UploadInv'
<1>1. \A c \in Clients : QueueInv(c)' /\ \A p \in Pieces : Expected(c, p)' => Expected(c, p)
  <2> TAKE c \in Clients
  <2>1. CASE c \in S \cup B
    BY <2>1, FreshQueue DEF Drop
  <2>2. CASE c \notin S \cup B
    <3>1. inbox'[c] = inbox[c] /\ sent'[c] = sent[c]
      BY <2>2 DEF Drop
    <3> QED
      BY <3>1, SameQueue DEF UploadInv
  <2> QED
    BY <2>1, <2>2
<1> QED
  BY <1>1, SameUpload

(* What is sent follows what was sent before, so that it joins the queue.  *)
LEMMA SentUpload ==
  ASSUME TableInv, UploadInv, NEW c \in Clients, NEW m \in Msgs,
         sent[c] # "FIN", m = "FIN" \/ Follows(m, sent[c]),
         inbox' = [inbox EXCEPT ![c] = Append(@, m)],
         sent' = [sent EXCEPT ![c] = m], UNCHANGED upload
  PROVE  UploadInv'
<1> SUFFICES ASSUME NEW d \in Clients
             PROVE  QueueInv(d)' /\ \A p \in Pieces : Expected(d, p)' => Expected(d, p)
  BY SameUpload
<1>1. CASE d # c
  <2>1. inbox'[d] = inbox[d] /\ sent'[d] = sent[d]
    BY <1>1 DEF TableInv, NetType
  <2> QED
    BY <2>1, SameQueue DEF UploadInv
<1>2. CASE d = c
  <2>1. inbox'[c] = Append(inbox[c], m) /\ sent'[c] = m /\ inbox[c] \in Seq(Msgs)
    BY DEF TableInv, NetType
  <2>2. QueueInv(c)
    BY DEF UploadInv
  <2>3. Chained(inbox'[c])
    <3> SUFFICES ASSUME NEW k \in 1 .. Len(inbox'[c]) - 1
                 PROVE  /\ inbox'[c][k] # "FIN"
                        /\ \/ inbox'[c][k + 1] = "FIN"
                           \/ Follows(inbox'[c][k + 1], inbox'[c][k])
      BY DEF Chained
    <3>1. Len(inbox'[c]) = Len(inbox[c]) + 1 /\ Len(inbox[c]) \in Nat
      BY <2>1
    <3>2. inbox'[c][k] = inbox[c][k] /\ k \in Nat
      BY <2>1, <3>1
    <3>3. CASE k < Len(inbox[c])
      <4>1. inbox'[c][k + 1] = inbox[c][k + 1] /\ k \in 1 .. Len(inbox[c]) - 1
        BY <2>1, <3>1, <3>3
      <4> QED
        BY <2>2, <3>2, <4>1 DEF QueueInv, Chained
    <3>4. CASE k = Len(inbox[c])
      <4>1. inbox'[c][k + 1] = m /\ inbox[c] # << >>
        BY <2>1, <3>1, <3>4
      <4> QED
        BY <2>2, <3>2, <3>4, <4>1 DEF QueueInv
    <3> QED
      BY <3>1, <3>2, <3>3, <3>4
  <2>4. inbox'[c] # << >> /\ inbox'[c][Len(inbox'[c])] = m
    <3>1. Len(inbox'[c]) = Len(inbox[c]) + 1 /\ Len(inbox[c]) \in Nat
      BY <2>1
    <3>2. inbox'[c][Len(inbox[c]) + 1] = m
      BY <2>1
    <3> QED
      BY <2>1, <3>1, <3>2
  <2>7. QueueInv(c)'
    BY <2>1, <2>3, <2>4 DEF QueueInv
  <2>8. \A p \in Pieces : Expected(c, p)' => Expected(c, p)
    <3> SUFFICES ASSUME NEW p \in Pieces, p = Head(inbox'[c]) PROVE Expected(c, p)
      BY <2>4 DEF Expected
    <3>1. CASE inbox[c] = << >>
      <4>1. Head(inbox'[c]) = m /\ p # "FIN"
        BY <2>1, <3>1 DEF Pieces
      <4> QED
        BY <3>1, <4>1 DEF Expected
    <3>2. CASE inbox[c] # << >>
      <4>1. Head(inbox'[c]) = Head(inbox[c])
        BY <2>1, <3>2
      <4> QED
        BY <3>2, <4>1 DEF Expected
    <3> QED
      BY <3>1, <3>2
  <2> QED
    BY <1>2, <2>7, <2>8
<1> QED
  BY <1>1, <1>2

(* When the server has read m from c, what it reads next follows m.        *)
LEMMA NextExpected ==
  ASSUME NEW c \in Clients, inbox[c] \in Seq(Msgs), inbox[c] # << >>, QueueInv(c),
         inbox'[c] = Tail(inbox[c]), sent'[c] = sent[c]
  PROVE  /\ QueueInv(c)'
         /\ \A p \in Pieces : Expected(c, p)' => Follows(p, Head(inbox[c]))
<1>1. /\ Len(inbox'[c]) = Len(inbox[c]) - 1 /\ Len(inbox[c]) \in Nat \ {0}
      /\ \A k \in 1 .. Len(inbox[c]) - 1 : inbox'[c][k] = inbox[c][k + 1]
      /\ inbox'[c] \in Seq(Msgs)
  BY HeadTailProperties, LenProperties, EmptySeq
<1>0. inbox'[c] # << >> <=> Len(inbox'[c]) # 0
  BY <1>1, EmptySeq
<1>2. Chained(inbox'[c])
  <2> SUFFICES ASSUME NEW k \in 1 .. Len(inbox'[c]) - 1
               PROVE  /\ inbox'[c][k] # "FIN"
                      /\ \/ inbox'[c][k + 1] = "FIN"
                         \/ Follows(inbox'[c][k + 1], inbox'[c][k])
    BY DEF Chained
  <2>1. /\ k \in Nat /\ k + 1 \in 1 .. Len(inbox[c]) - 1
        /\ inbox'[c][k] = inbox[c][k + 1] /\ inbox'[c][k + 1] = inbox[c][(k + 1) + 1]
    BY <1>1
  <2> QED
    BY <2>1 DEF QueueInv, Chained
<1>3. inbox'[c] # << >> => sent'[c] = inbox'[c][Len(inbox'[c])]
  <2> SUFFICES ASSUME inbox'[c] # << >> PROVE sent'[c] = inbox'[c][Len(inbox'[c])]
    OBVIOUS
  <2>1. Len(inbox'[c]) # 0
    BY <1>0
  <2>2. inbox'[c][Len(inbox'[c])] = inbox[c][Len(inbox[c])]
    BY <1>1, <2>1
  <2> QED
    BY <2>2 DEF QueueInv
<1>5. QueueInv(c)'
  BY <1>2, <1>3 DEF QueueInv
<1>6. ASSUME NEW p \in Pieces, Expected(c, p)' PROVE Follows(p, Head(inbox[c]))
  <2>0. Head(inbox[c]) = inbox[c][1]
    OBVIOUS
  <2>1. CASE inbox'[c] # << >>
    <3>1. Len(inbox'[c]) # 0
      BY <1>0, <2>1
    <3>2. p = inbox'[c][1]
      BY <1>1, <1>6, <2>1 DEF Expected
    <3>3. Len(inbox[c]) - 1 # 0 /\ Len(inbox[c]) \in Nat \ {0}
      BY <1>1, <3>1
    <3>4. \A n \in Nat \ {0} : n - 1 # 0 => 1 \in 1 .. n - 1
      OBVIOUS
    <3>5. 1 \in 1 .. Len(inbox[c]) - 1
      BY <3>3, <3>4
    <3>6. p = inbox[c][1 + 1] /\ p # "FIN"
      BY <1>1, <3>2, <3>5 DEF Pieces
    <3> QED
      BY <2>0, <3>5, <3>6 DEF QueueInv, Chained
  <2>2. CASE inbox'[c] = << >>
    <3>0. Len(inbox'[c]) = 0
      BY <1>0, <2>2
    <3>1. Len(inbox[c]) = 1
      BY <1>1, <3>0
    <3>2. sent'[c] = inbox[c][1]
      BY <3>1 DEF QueueInv
    <3> QED
      BY <1>6, <2>0, <2>2, <3>2 DEF Expected
  <2> QED
    BY <2>1, <2>2
<1> QED
  BY <1>5, <1>6

(* A file and a piece more.                                                *)
LEMMA AppendFacts ==
  ASSUME NEW part \in Parts, image \in Seq(Parts), image' = Append(image, part)
  PROVE  /\ Len(image') = Len(image) + 1 /\ image' # << >>
         /\ image'[Len(image) + 1] = part
         /\ \A k \in 1 .. Len(image) : image'[k] = image[k]
         /\ Mixed(image) => Mixed(image')
<1>1. /\ Len(image') = Len(image) + 1 /\ image' # << >>
      /\ image'[Len(image) + 1] = part
      /\ \A k \in 1 .. Len(image) : image'[k] = image[k]
  OBVIOUS
<1>2. DOMAIN image = 1 .. Len(image) /\ DOMAIN image' = 1 .. Len(image')
      /\ Len(image) \in Nat
  OBVIOUS
<1>3. DOMAIN image \subseteq DOMAIN image'
  BY <1>1, <1>2
<1>4. Mixed(image) => Mixed(image')
  BY <1>1, <1>2, <1>3 DEF Mixed
<1> QED
  BY <1>1, <1>4

(* A piece of another browser than the first makes the image a mixture.    *)
LEMMA ForeignPiece ==
  ASSUME NEW part \in Parts, image \in Seq(Parts), image # << >>,
         image' = Append(image, part), part[1] # image[1][1]
  PROVE  Mixed(image')
<1>1. Len(image) \in Nat /\ Len(image) # 0
  OBVIOUS
<1>2. 1 \in 1 .. Len(image) /\ Len(image) + 1 \in 1 .. Len(image')
      /\ 1 \in 1 .. Len(image')
  BY <1>1, AppendFacts
<1>3. image'[1] = image[1] /\ image'[Len(image) + 1] = part
      /\ DOMAIN image' = 1 .. Len(image')
  BY <1>2, AppendFacts
<1> QED
  BY <1>2, <1>3 DEF Mixed

(* A read moves the upload from one expected piece to the next, and the    *)
(* last one completes the image.                                           *)
LEMMA ReadUpload ==
  ASSUME TableInv, UploadInv, ImageWhole, NEW c \in Clients,
         inbox[c] # << >>, Head(inbox[c]) # "FIN",
         inbox' = [inbox EXCEPT ![c] = Tail(@)], sent' = sent,
         http_engine(c, Head(inbox[c]))
  PROVE  UploadInv' /\ ImageWhole'
<1> DEFINE m == Head(inbox[c])
<1>1. inbox[c] \in Seq(Msgs) /\ m \in Requests \cup Pieces /\ inbox'[c] = Tail(inbox[c])
  BY DEF TableInv, NetType, Msgs
<1>2. QueueInv(c)' /\ \A p \in Pieces : Expected(c, p)' => Follows(p, m)
  BY <1>1, NextExpected DEF UploadInv
<1>3. Expected(c, m)
  BY DEF Expected
<1>4. http_engine(c, m)
  OBVIOUS
<1> HIDE DEF m
<1>5. \A d \in Clients \ {c} : QueueInv(d)' /\ \A p : Expected(d, p)' <=> Expected(d, p)
  <2> TAKE d \in Clients \ {c}
  <2>1. inbox'[d] = inbox[d] /\ sent'[d] = sent[d]
    BY DEF TableInv, NetType
  <2> QED
    BY <2>1, SameQueue DEF UploadInv
<1>6. \A d \in Clients : QueueInv(d)'
  BY <1>2, <1>5
<1>7. /\ updFlag \in Nat /\ image \in Seq(Parts) /\ booted \in Seq(Boots)
      /\ fmwStartSign \in BOOLEAN /\ stale \in BOOLEAN
  BY DEF TableInv, TypeOK, NetType
<1>8. CASE m \in Requests
  <2>1. booted' = booted /\ fmwStartSign' = fmwStartSign /\ stale' = fmwStartSign
    BY <1>4, <1>8 DEF http_engine
  <2> QED
    BY <1>6, <1>7, <2>1 DEF UploadInv, FreshInv, ImageWhole
<1>9. CASE m \notin Requests /\ updFlag = 0
  <2>1. UNCHANGED upload
    BY <1>4, <1>9 DEF http_engine
  <2>2. ~(fmwStartSign' /\ ~stale')
    BY <1>9, <2>1 DEF UploadInv, FreshInv, upload
  <2> QED
    BY <1>6, <2>1, <2>2 DEF UploadInv, FreshInv, ImageWhole, upload
<1>10. CASE m \in Pieces /\ updFlag # 0
  <2>1. http_update(c, m)
    BY <1>4, <1>10 DEF http_engine, Requests, Pieces
  <2>2. CASE updFlag <= 2 /\ m = "first"
    <3>1. PICK written \in BOOLEAN :
            /\ image' = <<<<c, m, written>>>> /\ fmwStartSign' = TRUE
            /\ stale' = FALSE /\ updFlag' = updFlag + 1 /\ booted' = booted
      BY <2>1, <2>2 DEF http_update
    <3>2. \A p \in Pieces : Expected(c, p)' => p = "middle"
      BY <1>2, <2>2, FollowsFacts
    <3>3. Len(image') = 1 /\ image' # << >> /\ image'[1][1] = c /\ image'[1][2] = "first"
      BY <2>2, <3>1
    <3>4. Goes(image[1][1])'
      BY <3>2, <3>3 DEF Goes
    <3>5. updFlag' # 0
      BY <1>7, <3>1
    <3> QED
      BY <1>6, <3>1, <3>3, <3>4, <3>5 DEF UploadInv, FreshInv, ImageWhole
  <2>3. CASE ~(updFlag <= 2 /\ m = "first") /\ fmwStartSign
    <3>1. PICK written, switched \in BOOLEAN :
            /\ image' = Append(image, <<c, m, written>>)
            /\ fmwStartSign' = (m # "last") /\ stale' = (stale /\ m # "last")
            /\ updFlag' = IF m = "last" THEN 0 ELSE updFlag + 1
            /\ booted' = IF m = "last" /\ switched
                         THEN Append(booted, [image |-> image', stale |-> stale])
                         ELSE booted
      BY <2>1, <2>3 DEF http_update
    <3> DEFINE part == <<c, m, written>>
    <3>2. part \in Parts /\ part[1] = c /\ part[2] = m
      BY <1>10 DEF Parts
    <3>3. image' = Append(image, part)
      BY <3>1
    <3> HIDE DEF part
    <3>4. /\ Len(image') = Len(image) + 1 /\ image' # << >>
          /\ image'[Len(image) + 1] = part
          /\ \A k \in 1 .. Len(image) : image'[k] = image[k]
          /\ Mixed(image) => Mixed(image')
      BY <1>7, <3>2, <3>3, AppendFacts
    <3>5. CASE stale
      <4>1. m # "last" => stale'
        BY <3>1, <3>5
      <4>2. m = "last" => ~fmwStartSign'
        BY <3>1
      <4>3. ImageWhole'
        <5>1. CASE booted' = booted
          BY <5>1 DEF ImageWhole
        <5>2. CASE booted' = Append(booted, [image |-> image', stale |-> stale])
          <6>1. \A n \in DOMAIN booted' :
                  \/ booted'[n] = [image |-> image', stale |-> stale]
                  \/ n \in DOMAIN booted /\ booted'[n] = booted[n]
            BY <1>7, <5>2
          <6> QED
            BY <3>5, <6>1 DEF ImageWhole
        <5> QED
          BY <3>1, <5>1, <5>2
      <4> QED
        BY <1>6, <4>1, <4>2, <4>3 DEF UploadInv, FreshInv
    <3>6. CASE ~stale
      <4>1. image # << >> /\ (Mixed(image) \/ Goes(image[1][1]))
        BY <2>3, <3>6 DEF UploadInv, FreshInv
      <4>2. Len(image) \in Nat /\ 1 \in 1 .. Len(image)
        BY <1>7, <4>1
      <4>3. image'[1] = image[1]
        BY <3>4, <4>2
      <4>4. CASE Mixed(image')
        <5>1. m # "last" => updFlag' # 0
          BY <1>7, <3>1
        <5>2. UploadInv'
          BY <1>6, <3>1, <3>4, <4>4, <5>1 DEF UploadInv, FreshInv
        <5>3. ImageWhole'
          <6>1. CASE booted' = booted
            BY <6>1 DEF ImageWhole
          <6>2. CASE booted' = Append(booted, [image |-> image', stale |-> stale])
            <7>1. \A n \in DOMAIN booted' :
                    \/ booted'[n] = [image |-> image', stale |-> stale]
                    \/ n \in DOMAIN booted /\ booted'[n] = booted[n]
              BY <1>7, <6>2
            <7> QED
              BY <4>4, <7>1 DEF ImageWhole
          <6> QED
            BY <3>1, <6>1, <6>2
        <5> QED
          BY <5>2, <5>3
      <4>5. CASE ~Mixed(image')
        <5>1. Goes(c) /\ image[1][1] = c
          <6>1. image[1][1] = c
            BY <1>7, <3>2, <3>3, <4>1, <4>5, ForeignPiece
          <6> QED
            BY <3>4, <4>1, <4>5, <6>1
        <5>2. CASE Len(image) = 1 /\ image[1][2] = "first" /\ m = "middle"
          <6>1. /\ Len(image') = 2 /\ image'[1][2] = "first" /\ image'[2][2] = "middle"
                /\ image'[1][1] = c
            BY <3>2, <3>4, <4>3, <5>1, <5>2
          <6>2. \A p \in Pieces : Expected(c, p)' => p = "last"
            BY <1>2, <5>2, FollowsFacts DEF Pieces, Requests
          <6>3. Goes(image[1][1])'
            BY <6>1, <6>2 DEF Goes
          <6>4. booted' = booted /\ updFlag' # 0
            BY <1>7, <3>1, <5>2
          <6> QED
            BY <1>6, <3>4, <6>3, <6>4 DEF UploadInv, FreshInv, ImageWhole
        <5>3. CASE /\ Len(image) = 2 /\ image[1][2] = "first" /\ image[2][2] = "middle"
                   /\ m = "last"
          <6>1. image'[2] = image[2]
            BY <3>4, <5>3
          <6>2. WholeFile(image')
            BY <3>2, <3>4, <4>3, <5>3, <6>1 DEF WholeFile
          <6>3. ~fmwStartSign'
            BY <3>1, <5>3
          <6>4. ImageWhole'
            <7>1. CASE booted' = booted
              BY <7>1 DEF ImageWhole
            <7>2. CASE booted' = Append(booted, [image |-> image', stale |-> stale])
              <8>1. \A n \in DOMAIN booted' :
                      \/ booted'[n] = [image |-> image', stale |-> stale]
                      \/ n \in DOMAIN booted /\ booted'[n] = booted[n]
                BY <1>7, <7>2
              <8> QED
                BY <6>2, <8>1 DEF ImageWhole
            <7> QED
              BY <3>1, <7>1, <7>2
          <6> QED
            BY <1>6, <6>3, <6>4 DEF UploadInv, FreshInv
        <5> QED
          BY <1>3, <1>10, <5>1, <5>2, <5>3 DEF Goes
      <4> QED
        BY <4>4, <4>5
    <3> QED
      BY <1>7, <3>5, <3>6
  <2>4. CASE ~(updFlag <= 2 /\ m = "first") /\ ~fmwStartSign
    <3>1. fmwStartSign' = fmwStartSign /\ booted' = booted
      BY <2>1, <2>4 DEF http_update
    <3> QED
      BY <1>6, <2>4, <3>1 DEF UploadInv, FreshInv, ImageWhole
  <2> QED
    BY <1>7, <2>2, <2>3, <2>4
<1> QED
  BY <1>1, <1>8, <1>9, <1>10

(* Every step keeps the upload's invariant, and what is booted whole.      *)
LEMMA UploadStep ==
  TableInv /\ UploadInv /\ ImageWhole /\ [NextOthers]_vars => UploadInv' /\ ImageWhole'
<1> SUFFICES ASSUME TableInv, UploadInv, ImageWhole, [NextOthers]_vars
             PROVE  UploadInv' /\ ImageWhole'
  OBVIOUS
<1>1. ASSUME UNCHANGED <<inbox, sent, upload>> PROVE UploadInv' /\ ImageWhole'
  <2>1. \A c \in Clients : QueueInv(c)' /\ \A p \in Pieces : Expected(c, p)' => Expected(c, p)
    BY <1>1, SameQueue DEF UploadInv
  <2> QED
    BY <1>1, <2>1, SameUpload DEF ImageWhole, upload
<1>2. ASSUME NEW S, NEW B, Drop(S, B), UNCHANGED upload PROVE UploadInv' /\ ImageWhole'
  BY <1>2, DropUpload DEF upload, ImageWhole
<1>3. ASSUME NEW c \in Clients, NEW m \in Msgs, sent[c] # "FIN",
             m = "FIN" \/ Follows(m, sent[c]),
             inbox' = [inbox EXCEPT ![c] = Append(@, m)],
             sent' = [sent EXCEPT ![c] = m], UNCHANGED upload
      PROVE  UploadInv' /\ ImageWhole'
  BY <1>3, SentUpload DEF upload, ImageWhole
<1>4. ASSUME Restart PROVE UploadInv' /\ ImageWhole'
  <2>1. \A c \in Clients : inbox'[c] = << >> /\ sent'[c] = "nothing"
    BY <1>4 DEF Restart, NoData, NothingSent
  <2>2. \A c \in Clients : QueueInv(c)'
    BY <2>1, FreshQueue
  <2>3. booted' = << >> /\ fmwStartSign' = FALSE
    BY <1>4 DEF Restart
  <2> QED
    BY <2>2, <2>3 DEF UploadInv, FreshInv, ImageWhole
<1>5. CASE Serve
  <2> DEFINE e == Lowest(ReadyEntries)
             c == owner[http_table[e]]
  <2>1. c \in Clients /\ inbox[c] # << >>
    BY <1>5, ServedEntry DEF Serve
  <2>2. IF Head(inbox[c]) = "FIN" THEN RecvEnd ELSE RecvData(e, c)
    BY <1>5 DEF Serve
  <2> HIDE DEF e, c
  <2>3. CASE Head(inbox[c]) = "FIN"
    BY <1>2, <2>2, <2>3 DEF RecvEnd
  <2>4. CASE Head(inbox[c]) # "FIN"
    BY <2>1, <2>2, <2>4, ReadUpload DEF RecvData
  <2> QED
    BY <2>3, <2>4
<1>6. CASE WaitSoftAP \/ OpenListener \/ Select \/ ServeDone \/ SwitchMode \/ LinkChanges
           \/ LingerEnds \/ OtherOpen \/ \E fd \in Fds : OtherClose(fd)
  BY <1>1, <1>6
  DEF WaitSoftAP, OpenListener, Select, ServeDone, SwitchMode, LinkChanges, LingerEnds,
      OtherOpen, OtherClose, net
<1>16. CASE BindFails \/ ListenFails \/ MallocFails
  BY <1>1, <1>16 DEF BindFails, ListenFails, MallocFails, GiveUp, net
<1>7. CASE SelectTimeout
  BY <1>2, <1>7 DEF SelectTimeout
<1>8. CASE MakeRoom
  BY <1>2, <1>8 DEF MakeRoom
<1>9. CASE Accept
  BY <1>1, <1>9 DEF Accept
<1>10. CASE AcceptFails
  BY <1>2, <1>10 DEF AcceptFails
<1>11. CASE ChipReset \/ PowerFailure
  BY <1>4, <1>11 DEF ChipReset, PowerFailure
<1>12. ASSUME NEW c \in Clients, Connect(c) PROVE UploadInv' /\ ImageWhole'
  BY <1>1, <1>12 DEF Connect
<1>13. ASSUME NEW c \in Clients, Hangup(c) PROVE UploadInv' /\ ImageWhole'
  BY <1>3, <1>13 DEF Hangup, Msgs
<1>14. ASSUME NEW c \in Clients, NEW piece \in Requests \cup Pieces, Send(c, piece)
       PROVE  UploadInv' /\ ImageWhole'
  BY <1>3, <1>14 DEF Send, Msgs
<1>15. CASE UNCHANGED vars
  BY <1>1, <1>15 DEF vars, net
<1> QED
  BY <1>5, <1>6, <1>7, <1>8, <1>9, <1>10, <1>11, <1>12, <1>13, <1>14, <1>15, <1>16
  DEF NextOthers, Next, ServerStep

(* Only whole images are booted (ImageWhole), however TCP cuts the uploads *)
(* of any number of browsers and however requests, hang-ups, changes of    *)
(* the mode, failed writes and power failures come between the pieces. The *)
(* exceptions are those ImageWhole names: a file that goes on an older     *)
(* handshake, files of two browsers mixed, and a write that failed.        *)
THEOREM ImageCorrect == Spec => []ImageWhole
<1>1. Init => UploadInv /\ ImageWhole
  <2> SUFFICES ASSUME Init PROVE UploadInv /\ ImageWhole
    OBVIOUS
  <2>1. ImageWhole
    BY DEF Init, ImageWhole
  <2>2. \A c \in Clients : QueueInv(c)
    BY DEF Init, NoData, NothingSent, QueueInv, Chained
  <2> QED
    BY <2>1, <2>2 DEF Init, UploadInv, FreshInv
<1>2. TableInv /\ UploadInv /\ ImageWhole /\ [Next]_vars => UploadInv' /\ ImageWhole'
  BY UploadStep DEF NextOthers
<1> QED
  BY <1>1, <1>2, TableAlways, PTL DEF Spec
=============================================================================
