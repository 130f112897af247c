------------------------------ MODULE WebServer ------------------------------
(***************************************************************************)
(* The web server (App/Webserver/webserver.c, http_engine.c and            *)
(* http_parser.c): the table of connections that one thread serves with    *)
(* select, and the upload of a firmware image that is spread over many     *)
(* reads.                                                                  *)
(*                                                                         *)
(* A read is abstracted to what http_engine tells apart: the POST that     *)
(* begins an upload, any other request, and the pieces of a firmware       *)
(* file: what a browser puts in front of it, the piece with the handshake  *)
(* "Nu_link", one from the middle and the one with the end mark            *)
(* "DEADBEEF".  TCP cuts the stream where it likes: a handshake that came  *)
(* with the POST itself, or cut in two, is not seen, and no more is an end *)
(* mark cut in two.  A page is sent within the call, so the status of an   *)
(* entry is HTTP_CLOSED whenever the server looks at it.                   *)
(***************************************************************************)
EXTENDS Integers, Sequences, FiniteSets, Functions

CONSTANTS Clients,      \* the browsers
          Uploaders,    \* those that upload firmware
          TcpEntries,   \* TCP_ENTRIES
          NumFds,       \* MEMP_NUM_NETCONN: descriptors of all tasks
          MaxConnects,  \* bound: connections
          MaxSends,     \* bound: pieces sent
          MaxQueue,     \* bound: pieces that wait to be read
          MaxUpsets     \* bound: listen or flash that fails, power failures and
                        \*        changes of the network mode

ASSUME WebAssumption ==
  /\ Uploaders \subseteq Clients
  /\ "nobody" \notin Clients
  /\ TcpEntries \in Nat \ {0}
  /\ NumFds \in Nat /\ NumFds > TcpEntries

Fds == 0 .. NumFds - 1
Entries == 0 .. TcpEntries - 1
None == -1
Nobody == "nobody"

Requests == {"GET", "UPDATE"}     \* "GET" stands for every other request
Pieces == {"lead", "first", "middle", "last"}

VARIABLES
  pc,           \* "boot", "wait", "open", "select", "serve", "accept" or "reset"
  softAP,       \* Protocol = PARAM_NET_MODE_SOFTAP
  linkUp,       \* link_status = SYS_EVT_LINK_UP, looked at only after a reset
  sock_fd,      \* the listening socket
  http_table,   \* entry -> descriptor or -1
  conn_amount,
  maxsock,
  fdsr,         \* the descriptors select found ready
  i,            \* the entry the loop is at
  owner,        \* descriptor -> client, or Nobody when the server listens on it
  lost,         \* descriptors webserver_main gave up without closing them
  leaked,       \* what one of them does: "none", "bound" or "listening" on the port
  lingering,    \* a closed connection of the port has not ended yet
  others,       \* descriptors of other tasks
  backlog,      \* clients that wait to be accepted
  inbox,        \* client -> what it sent and was not read; "FIN" at its end
  sent,         \* client -> what it sent last in this connection
  updFlag, fmwStartSign,
  stale,        \* history: a request came after the handshake of fmwStartSign
  image,        \* <<uploader, piece, was it written>> behind NVM_FW_BAK_OFFSET
  booted,       \* the image the boot parameters were switched to before a reset
  connects, sends, upsets

port == <<lost, leaked>>
server == <<sock_fd, http_table, conn_amount, maxsock, owner, lingering, port>>
net == <<backlog, inbox, sent>>
upload == <<updFlag, fmwStartSign, stale, image, booted>>
counters == <<connects, sends, upsets>>
vars == <<pc, softAP, linkUp, fdsr, i, others, server, net, upload, counters>>

EmptyTable == [e \in Entries |-> None]
NoData == [c \in Clients |-> << >>]
NothingSent == [c \in Clients |-> "nothing"]

Init ==
  /\ pc = "boot" /\ softAP = TRUE /\ linkUp = FALSE
  /\ fdsr = {} /\ i = 0 /\ others = {}
  /\ sock_fd = None /\ http_table = EmptyTable /\ conn_amount = 0
  /\ maxsock = None /\ owner = << >>
  /\ lost = {} /\ leaked = "none" /\ lingering = FALSE
  /\ backlog = {} /\ inbox = NoData /\ sent = NothingSent
  /\ updFlag = 0 /\ fmwStartSign = FALSE /\ stale = FALSE
  /\ image = << >> /\ booted = << >>
  /\ connects = 0 /\ sends = 0 /\ upsets = 0

Open == {e \in Entries : http_table[e] # None}
Used == DOMAIN owner \cup lost \cup others
Free == Fds \ Used
Lowest(S) == CHOOSE n \in S : \A k \in S : n <= k
Connected(c) == \E fd \in DOMAIN owner : owner[fd] = c

-----------------------------------------------------------------------------
(* The connections in S are closed: descriptors, and what was not read.    *)
(* Their control blocks hold the port until the peer has answered, and     *)
(* through TIME-WAIT.                                                      *)
Drop(S, back) ==
  /\ owner' = [fd \in {f \in DOMAIN owner : owner[f] \notin S} |-> owner[fd]]
  /\ inbox' = [c \in Clients |-> IF c \in S \cup back THEN << >> ELSE inbox[c]]
  /\ sent' = [c \in Clients |-> IF c \in S \cup back THEN "nothing" ELSE sent[c]]
  /\ backlog' = backlog \ back
  /\ lingering' = (lingering \/ S \cap Clients # {})

(* WebServerThread waits for the mode and the link, and after a change of  *)
(* the mode webserver_main waits for the mode alone.                       *)
WaitSoftAP ==
  /\ pc = "wait" \/ (pc = "boot" /\ linkUp)
  /\ softAP
  /\ pc' = "open"
  /\ UNCHANGED <<softAP, linkUp, fdsr, i, others, server, net, upload, counters>>

(* webserver_main gives up and is called again at once: a new socket is    *)
(* lost, and may keep the port.                                            *)
GiveUp(keeps) ==
  /\ lost' = lost \cup {Lowest(Free)}
  /\ leaked' = keeps
  /\ UNCHANGED <<pc, softAP, linkUp, fdsr, i, others, sock_fd, http_table, conn_amount,
                 maxsock, owner, lingering, net, upload, connects,
                 sends>>

(* tcp_bind refuses a port that some control block still has. *)
PortFree == leaked = "none" /\ ~lingering

BindFails ==
  /\ pc = "open" /\ Free # {} /\ ~PortFree
  /\ GiveUp(leaked)
  /\ UNCHANGED upsets

(* No memory for the listening control block: the port stays bound. *)
ListenFails ==
  /\ pc = "open" /\ Free # {} /\ PortFree /\ upsets < MaxUpsets
  /\ GiveUp("bound")
  /\ upsets' = upsets + 1

(* No memory for Rec_Data: other tasks have it, or the buffers of earlier  *)
(* rounds, none of which is freed.  The socket listens, and nobody will    *)
(* accept.                                                                 *)
MallocFails ==
  /\ pc = "open" /\ Free # {} /\ PortFree
  /\ GiveUp("listening")
  /\ UNCHANGED upsets

(* socket, bind, listen, a buffer and an empty table. *)
OpenListener ==
  /\ pc = "open" /\ Free # {} /\ PortFree
  /\ pc' = "select"
  /\ sock_fd' = Lowest(Free)
  /\ owner' = [fd \in {Lowest(Free)} |-> Nobody]
  /\ maxsock' = Lowest(Free)
  /\ conn_amount' = 0
  /\ http_table' = EmptyTable
  /\ UNCHANGED <<softAP, linkUp, fdsr, i, others, lost, leaked, lingering, net, upload,
                 counters>>

Watched == {sock_fd} \cup {http_table[e] : e \in Open}
Readable(fd) == IF fd = sock_fd THEN backlog # {} ELSE inbox[owner[fd]] # << >>
Ready == {fd \in Watched : fd < maxsock + 1 /\ Readable(fd)}

(* select returns descriptors. *)
Select ==
  /\ pc = "select" /\ Ready # {}
  /\ fdsr' = Ready
  /\ i' = 0
  /\ pc' = "serve"
  /\ UNCHANGED <<softAP, linkUp, others, server, net, upload, counters>>

(* select returns none after two seconds: outside SoftAP mode everything   *)
(* is closed until the mode comes back.                                    *)
SelectTimeout ==
  /\ pc = "select" /\ Ready = {} /\ ~softAP
  /\ pc' = "wait"
  /\ http_table' = EmptyTable
  /\ conn_amount' = conn_amount - Cardinality(Open)
  /\ sock_fd' = None
  /\ Drop(Range(owner), backlog)
  /\ UNCHANGED <<softAP, linkUp, fdsr, i, others, maxsock, port, upload, counters>>

-----------------------------------------------------------------------------
(* Mutant: only one of the entries is counted. *)
MutCloseOnce ==
  /\ http_table' = EmptyTable
  /\ conn_amount' = conn_amount - 1

(* All entries are HTTP_CLOSED, so every open one is closed. *)
CloseEntries ==
  /\ http_table' = EmptyTable
  /\ conn_amount' = conn_amount - Cardinality(Open)

(* recv <= 0.  The inner loop reuses i, which also ends the outer one. *)
RecvEnd ==
  /\ CloseEntries
  /\ Drop(Range(owner) \ {Nobody}, {})
  /\ fdsr' = fdsr \cap {sock_fd}
  /\ i' = TcpEntries
  /\ UNCHANGED <<pc, upload, upsets>>

(* WriteFlash reports nothing: a write that fails goes unnoticed. *)
WriteFlash(done) ==
  /\ done \/ upsets < MaxUpsets
  /\ upsets' = IF done THEN upsets ELSE upsets + 1

(* Mutant: the boot parameters are switched before the last piece is       *)
(* written.                                                                *)
MutUpdate(c, piece) ==
  \E written, switched \in BOOLEAN :
    IF updFlag <= 2 /\ piece = "first"
    THEN /\ image' = <<<<c, piece, written>>>>
         /\ fmwStartSign' = TRUE /\ stale' = FALSE
         /\ updFlag' = updFlag + 1
         /\ WriteFlash(written)
         /\ UNCHANGED booted
    ELSE IF fmwStartSign
    THEN /\ image' = Append(image, <<c, piece, written>>)
         /\ fmwStartSign' = (piece # "last") /\ stale' = (stale /\ piece # "last")
         /\ updFlag' = IF piece = "last" THEN 0 ELSE updFlag + 1
         /\ WriteFlash(written /\ switched)
         /\ booted' = IF piece = "last" /\ switched
                      THEN Append(booted, [image |-> image, stale |-> stale])
                      ELSE booted
    ELSE /\ updFlag' = updFlag + 1
         /\ UNCHANGED <<fmwStartSign, stale, image, booted, upsets>>

(* http_update: the handshake is looked for in the first two reads after   *)
(* the POST, and begins a new image; anything else is appended when a      *)
(* handshake was seen, however long ago; the end mark switches the boot    *)
(* parameters.                                                             *)
http_update(c, piece) ==
  \E written, switched \in BOOLEAN :
    IF updFlag <= 2 /\ piece = "first"
    THEN /\ image' = <<<<c, piece, written>>>>
         /\ fmwStartSign' = TRUE /\ stale' = FALSE
         /\ updFlag' = updFlag + 1
         /\ WriteFlash(written)
         /\ UNCHANGED booted
    ELSE IF fmwStartSign
    THEN /\ image' = Append(image, <<c, piece, written>>)
         /\ fmwStartSign' = (piece # "last") /\ stale' = (stale /\ piece # "last")
         /\ updFlag' = IF piece = "last" THEN 0 ELSE updFlag + 1
         /\ WriteFlash(written /\ switched)
         /\ booted' = IF piece = "last" /\ switched
                      THEN Append(booted, [image |-> image', stale |-> stale])
                      ELSE booted
    ELSE /\ updFlag' = updFlag + 1
         /\ UNCHANGED <<fmwStartSign, stale, image, booted, upsets>>

(* One flag for all connections: any request of any of them ends an        *)
(* upload; data are refused with "400 Bad request" when it is 0.           *)
http_engine(c, piece) ==
  IF piece \in Requests
  THEN /\ updFlag' = IF piece = "UPDATE" THEN 1 ELSE 0
       /\ stale' = fmwStartSign
       /\ UNCHANGED <<fmwStartSign, image, booted, upsets>>
  ELSE IF updFlag # 0
  THEN http_update(c, piece)
  ELSE UNCHANGED <<upload, upsets>>

RecvData(e, c) ==
  /\ inbox' = [inbox EXCEPT ![c] = Tail(@)]
  /\ http_engine(c, Head(inbox[c]))
  /\ i' = e + 1
  /\ pc' = IF fmwStartSign /\ ~fmwStartSign' THEN "reset" ELSE pc
  /\ UNCHANGED <<fdsr, http_table, conn_amount, owner, lingering, sent, backlog>>

(* The loop over the entries, one that is ready at a time. *)
ReadyEntries == {e \in Entries : i <= e /\ e < conn_amount /\ http_table[e] \in fdsr}

Serve ==
  /\ pc = "serve" /\ ReadyEntries # {}
  /\ LET e == Lowest(ReadyEntries)
         c == owner[http_table[e]]
     IN IF Head(inbox[c]) = "FIN" THEN RecvEnd ELSE RecvData(e, c)
  /\ UNCHANGED <<softAP, linkUp, others, sock_fd, maxsock, port, connects, sends>>

(* After the loop: is there a connection to accept? *)
ServeDone ==
  /\ pc = "serve" /\ ReadyEntries = {}
  /\ i' = 0
  /\ IF sock_fd \in fdsr
     THEN pc' = "accept" /\ UNCHANGED fdsr
     ELSE pc' = "select" /\ fdsr' = {}
  /\ UNCHANGED <<softAP, linkUp, others, server, net, upload, counters>>

(* A client waits and the table is full: all entries make way. *)
MakeRoom ==
  /\ pc = "accept" /\ conn_amount >= TcpEntries
  /\ CloseEntries
  /\ Drop(Range(owner) \ {Nobody}, {})
  /\ UNCHANGED <<pc, softAP, linkUp, fdsr, i, others, sock_fd, maxsock, port, upload,
                 counters>>

(* The descriptor accept returned is that of client c. *)
Seated(new_fd, c) ==
  [fd \in DOMAIN owner \cup {new_fd} |-> IF fd = new_fd THEN c ELSE owner[fd]]

(* Mutant: maxsock stays that of the listening socket. *)
MutAccept ==
  /\ pc = "accept" /\ conn_amount < TcpEntries
  /\ Free # {}
  /\ LET new_fd == Lowest(Free)
     IN /\ \E c \in backlog :
             /\ backlog' = backlog \ {c}
             /\ owner' = Seated(new_fd, c)
        /\ http_table' = [http_table EXCEPT ![conn_amount] = new_fd]
  /\ conn_amount' = conn_amount + 1
  /\ pc' = "select" /\ fdsr' = {}
  /\ UNCHANGED <<softAP, linkUp, i, others, sock_fd, maxsock, lingering, port, inbox, sent,
                 upload, counters>>

(* maxsock follows the newest descriptor, be it the highest or not. *)
Accept ==
  /\ pc = "accept" /\ conn_amount < TcpEntries
  /\ Free # {}
  /\ LET new_fd == Lowest(Free)
     IN /\ \E c \in backlog :
             /\ backlog' = backlog \ {c}
             /\ owner' = Seated(new_fd, c)
        /\ http_table' = [http_table EXCEPT ![conn_amount] = new_fd]
        /\ maxsock' = new_fd + 1
  /\ conn_amount' = conn_amount + 1
  /\ pc' = "select" /\ fdsr' = {}
  /\ UNCHANGED <<softAP, linkUp, i, others, sock_fd, lingering, port, inbox, sent, upload,
                 counters>>

(* No descriptor is left: the client is turned away. *)
AcceptFails ==
  /\ pc = "accept" /\ conn_amount < TcpEntries
  /\ Free = {}
  /\ \E c \in backlog : Drop({}, {c})
  /\ pc' = "select" /\ fdsr' = {}
  /\ UNCHANGED <<softAP, linkUp, i, others, sock_fd, http_table, conn_amount, maxsock, port,
                 upload, counters>>

(* http_engine resets the chip when the boot parameters were switched;     *)
(* power may fail at any time.  RAM is lost, and with it where the upload  *)
(* in the flash had got to: only a new handshake begins an image again.    *)
Restart ==
  /\ pc' = "boot" /\ linkUp' = FALSE /\ fdsr' = {} /\ i' = 0 /\ others' = {}
  /\ sock_fd' = None /\ http_table' = EmptyTable /\ conn_amount' = 0
  /\ maxsock' = None /\ owner' = << >>
  /\ lost' = {} /\ leaked' = "none" /\ lingering' = FALSE
  /\ backlog' = {} /\ inbox' = NoData /\ sent' = NothingSent
  /\ updFlag' = 0 /\ fmwStartSign' = FALSE /\ stale' = FALSE
  /\ image' = << >> /\ booted' = << >>
  /\ UNCHANGED <<softAP, connects, sends>>

ChipReset == pc = "reset" /\ Restart /\ UNCHANGED upsets
PowerFailure == upsets < MaxUpsets /\ upsets' = upsets + 1 /\ Restart

-----------------------------------------------------------------------------
(* The browsers.  What they do during a round of the server has its effect *)
(* at the next select, so they are given their turns there.                *)
BetweenRounds == pc \in {"wait", "open", "select"}

Connect(c) ==
  /\ connects < MaxConnects /\ BetweenRounds
  /\ sock_fd # None \/ leaked = "listening"
  /\ ~Connected(c) /\ c \notin backlog
  /\ backlog' = backlog \cup {c}
  /\ connects' = connects + 1
  /\ UNCHANGED <<pc, softAP, linkUp, fdsr, i, others, server, inbox, sent, upload, sends,
                 upsets>>

(* An upload is a request and the file in pieces, as TCP cuts them.  What  *)
(* comes before the file may fill any number of reads.  The read after the *)
(* POST, or after such a one, is from the middle when the handshake was    *)
(* cut in two or came with the POST; when the end mark was cut in two, the *)
(* browser goes on to something else.                                      *)
Follows(piece, last) ==
  CASE last \in {"UPDATE", "lead"} -> piece \in {"lead", "first", "middle"}
    [] last = "first"  -> piece = "middle"
    [] last = "middle" -> piece = "last" \/ piece \in Requests
    [] OTHER           -> piece \in Requests

Send(c, piece) ==
  /\ sends < MaxSends /\ BetweenRounds
  /\ Connected(c) \/ c \in backlog
  /\ sent[c] # "FIN" /\ Len(inbox[c]) < MaxQueue
  /\ piece = "UPDATE" => c \in Uploaders
  /\ Follows(piece, sent[c])
  /\ inbox' = [inbox EXCEPT ![c] = Append(@, piece)]
  /\ sent' = [sent EXCEPT ![c] = piece]
  /\ sends' = sends + 1
  /\ UNCHANGED <<pc, softAP, linkUp, fdsr, i, others, server, backlog, upload, connects,
                 upsets>>

Hangup(c) ==
  /\ BetweenRounds
  /\ Connected(c) \/ c \in backlog
  /\ sent[c] # "FIN"
  /\ inbox' = [inbox EXCEPT ![c] = Append(@, "FIN")]
  /\ sent' = [sent EXCEPT ![c] = "FIN"]
  /\ UNCHANGED <<pc, softAP, linkUp, fdsr, i, others, server, backlog, upload, counters>>

(* AT commands change the network mode. *)
SwitchMode ==
  /\ upsets < MaxUpsets /\ (BetweenRounds \/ pc = "boot")
  /\ softAP' = ~softAP
  /\ upsets' = upsets + 1
  /\ UNCHANGED <<pc, linkUp, fdsr, i, others, server, net, upload, connects, sends>>

(* The link comes and goes; after the first wait nobody here looks at it. *)
LinkChanges ==
  /\ pc = "boot"
  /\ linkUp' = ~linkUp
  /\ UNCHANGED <<pc, softAP, fdsr, i, others, server, net, upload, counters>>

(* The last closed connection of the port has ended.  It matters to bind   *)
(* alone, so it has its turn where the port is opened.                     *)
LingerEnds ==
  /\ pc \in {"wait", "open"} /\ lingering
  /\ lingering' = FALSE
  /\ UNCHANGED <<pc, softAP, linkUp, fdsr, i, others, sock_fd, http_table, conn_amount,
                 maxsock, owner, port, net, upload, counters>>

(* Other tasks open and close sockets of their own. *)
OtherOpen ==
  /\ Free # {}
  /\ others' = others \cup {Lowest(Free)}
  /\ UNCHANGED <<pc, softAP, linkUp, fdsr, i, server, net, upload, counters>>

OtherClose(fd) ==
  /\ fd \in others
  /\ others' = others \ {fd}
  /\ UNCHANGED <<pc, softAP, linkUp, fdsr, i, server, net, upload, counters>>

ServerStep ==
  \/ WaitSoftAP \/ OpenListener \/ BindFails \/ MallocFails \/ Select \/ SelectTimeout
  \/ Serve \/ ServeDone \/ MakeRoom \/ Accept \/ AcceptFails \/ ChipReset

Next ==
  \/ ServerStep \/ ListenFails \/ PowerFailure
  \/ \E c \in Clients :
       \/ Connect(c) \/ Hangup(c)
       \/ \E piece \in Requests \cup Pieces : Send(c, piece)
  \/ SwitchMode \/ LinkChanges \/ LingerEnds

NextOthers == Next \/ OtherOpen \/ \E fd \in Fds : OtherClose(fd)

Spec == Init /\ [][Next]_vars

(* The server thread runs whenever it can; nothing obliges a browser to    *)
(* send, or the device to be in SoftAP mode.                               *)
FairSpec == Spec /\ WF_vars(ServerStep)

OthersSpec == Init /\ [][NextOthers]_vars /\ WF_vars(ServerStep)

-----------------------------------------------------------------------------
(* Every variable keeps its type, and conn_amount counts entries. *)
TypeOK ==
  /\ pc \in {"boot", "wait", "open", "select", "serve", "accept", "reset"}
  /\ softAP \in BOOLEAN /\ linkUp \in BOOLEAN
  /\ sock_fd \in Fds \cup {None}
  /\ http_table \in [Entries -> Fds \cup {None}]
  /\ conn_amount \in 0 .. TcpEntries
  /\ maxsock \in None .. NumFds
  /\ fdsr \subseteq Fds /\ i \in 0 .. TcpEntries
  /\ DOMAIN owner \subseteq Fds /\ Range(owner) \subseteq Clients \cup {Nobody}
  /\ lost \subseteq Fds /\ others \subseteq Fds
  /\ leaked \in {"none", "bound", "listening"} /\ lingering \in BOOLEAN
  /\ backlog \subseteq Clients
  /\ \A c \in Clients : Range(inbox[c]) \subseteq Requests \cup Pieces \cup {"FIN"}
  /\ updFlag \in Nat /\ fmwStartSign \in BOOLEAN /\ stale \in BOOLEAN

(* The entries in use are the first conn_amount, which is what the loop    *)
(* over the connections and the place of a new one rely on, and between    *)
(* them they hold every descriptor of a connection, each once: whatever    *)
(* the order in which browsers come and go, none is lost or closed twice.  *)
TableCompact ==
  /\ Open = 0 .. conn_amount - 1
  /\ \A e, f \in Open : http_table[e] = http_table[f] => e = f
  /\ {http_table[e] : e \in Open} = DOMAIN owner \ {sock_fd}

(* The table of connections is sound: conn_amount never leaves the table,  *)
(* and the table is compact (webserver_main).                              *)
TableSound == TypeOK /\ TableCompact

(* The pieces of one firmware file, in order. *)
WholeFile(img) ==
  /\ Len(img) = 3
  /\ img[1][2] = "first" /\ img[2][2] = "middle" /\ img[3][2] = "last"

(* Pieces of two browsers, and a piece whose write failed. *)
Mixed(img) == \E j, k \in DOMAIN img : img[j][1] # img[k][1]
Holed(img) == \E k \in DOMAIN img : ~img[k][3]

(* The device is told to boot a new image only when the flash holds one    *)
(* whole firmware file, in order, whatever was broken off, refused or cut  *)
(* in two before.  What the code does not guard against is said with it:   *)
(* pieces that were taken on the strength of an older handshake (a request *)
(* came since, and the handshake of the new upload was not seen), uploads  *)
(* of two browsers at once, and a write that failed.                       *)
ImageWhole ==
  \A n \in DOMAIN booted :
    LET b == booted[n]
    IN WholeFile(b.image) \/ b.stale \/ Mixed(b.image) \/ Holed(b.image)

(* Every browser that waits to be accepted, or has sent something, is      *)
(* served or turned away: once the browsers pause (their requests are      *)
(* bounded here), nothing is left pending, unless a socket that            *)
(* webserver_main gave up listens in place of the server.  And in SoftAP   *)
(* mode there is a server, unless sockets it gave up have the port or all  *)
(* descriptors: nothing but a reset ends that.                             *)
Pending(c) == c \in backlog \/ inbox[c] # << >>
EveryRequestServed ==
  /\ []<>(leaked = "listening" \/ \A c \in Clients : ~Pending(c))
  /\ []<>(softAP /\ linkUp => sock_fd # None \/ leaked # "none" \/ Free = {})

(* lwIP calls the first argument of select "the highest socket index in    *)
(* the sets" (sockets.c:1015): no socket of the server lies above it.      *)
SelectSeesAll == pc = "select" => \A fd \in Watched : fd < maxsock + 1
=============================================================================
