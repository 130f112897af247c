----------------------------- MODULE DhcpServer -----------------------------
(***************************************************************************)
(* The DHCP server of the soft access point: a table with one entry for    *)
(* each address of its pool, driven by the messages of the stations and by *)
(* a tick every second.  Both run in the tcpip thread, so each is one      *)
(* step.  An entry that is idle still remembers its last client.           *)
(*                                                                         *)
(* The stations are external: they send what a DHCP client may send, they  *)
(* come and go, and the server's answers to them may be lost.  leased is   *)
(* what a station believes: the address it was last acknowledged and has   *)
(* not given up since.                                                     *)
(***************************************************************************)
EXTENDS Naturals, FiniteSets

CONSTANTS Stations,     \* the MAC addresses of the stations
          NoMac,        \* 00:00:00:00:00:00
          NumEntries,   \* DHCPS_HISTORY_CLIENT_NUM
          HostMask,     \* ~netmask
          ServerHost,   \* the host part of the server's address
          Timeout,      \* DHCP_DEFFAULT_TIMEOUT
          LeaseTime,    \* DHCP_DEFAULT_LEASE_TIME
          MaxStarts     \* bound on the number of starts

ASSUME DhcpAssumption ==
  /\ NoMac \notin Stations
  /\ {NumEntries, HostMask, Timeout, LeaseTime} \subseteq Nat \ {0}
  /\ ServerHost \in 1 .. HostMask - 1
  /\ MaxStarts \in Nat

VARIABLES
  Enable,    \* DhcpServer.Enable
  Clients,   \* DhcpServer.Clients
  ticking,   \* _DhcpTickHandle is on the timeout list
  reply,     \* what the last message was answered with
  present,   \* external: the stations the access point knows
  leased,    \* external: what each station believes; 0 is no address
  starts     \* bound

vars == <<Enable, Clients, ticking, reply, present, leased, starts>>

Entries == 1 .. NumEntries

-----------------------------------------------------------------------------
(* DHCPS_Start's arithmetic: host parts follow the server's, modulo the    *)
(* mask, and 0 becomes 1.                                                  *)
InHosts(n) == IF n % HostMask = 0 THEN 1 ELSE n % HostMask
StartHost == InHosts(ServerHost + 1)
IpAddr(i) == InHosts(StartHost + (i - 1))

Addresses == {IpAddr(i) : i \in Entries}

(* What DHCPS_Start makes of an entry. *)
FreshEntry == [State |-> "IDLE", MacAddr |-> NoMac, Timeout |-> 0, Lease |-> LeaseTime]

(* What memset leaves of it, before the first start and after DHCPS_Stop. *)
ZeroedEntry == [FreshEntry EXCEPT !.Lease = 0]

Idle(i) == Clients[i].State = "IDLE"
Bound(i) == Clients[i].State = "BIND"

(* The first and the last entry of a set, 0 if there is none. *)
FirstIn(S) == IF S = {} THEN 0 ELSE CHOOSE i \in S : \A j \in S : i <= j
LastIn(S) == IF S = {} THEN 0 ELSE CHOOSE i \in S : \A j \in S : j <= i

(* What _ClientTableLookup looks for. *)
MyHistoryClient(mac) == FirstIn({i \in Entries : Idle(i) /\ Clients[i].MacAddr = mac})
AnyReqClient(ip) == FirstIn({i \in Entries : IpAddr(i) = ip})
ReqClient(ip) == FirstIn({i \in Entries : Idle(i) /\ IpAddr(i) = ip})
FreeClient == FirstIn({i \in Entries : Idle(i) /\ Clients[i].MacAddr = NoMac})
HistoryClient == FirstIn({i \in Entries : Idle(i) /\ Clients[i].MacAddr # NoMac})
MyBoundClient(mac) == LastIn({i \in Entries : Bound(i) /\ Clients[i].MacAddr = mac})
MyClient(mac) == LastIn({i \in Entries : ~Idle(i) /\ Clients[i].MacAddr = mac})
IpUnavailable(mac, ip) ==
  \E i \in Entries : ~Idle(i) /\ Clients[i].MacAddr # mac /\ IpAddr(i) = ip

(* The order in which a new negotiation gets its address. *)
FirstNonNull(a, b) == IF a # 0 THEN a ELSE b
NewEntry(mac, ip) ==
  FirstNonNull(ReqClient(ip),
    FirstNonNull(MyHistoryClient(mac), FirstNonNull(FreeClient, HistoryClient)))

(* An entry is given up; only one that was bound remembers its client. *)
Dropped(c) == [c EXCEPT !.State = "IDLE",
                        !.MacAddr = IF c.State = "BIND" THEN @ ELSE NoMac]

(* _CleanClientHistory: forget where else the client has been. *)
KeepHistory(table, mac) == table
CleanClientHistory(table, mac) ==
  [i \in Entries |->
     IF table[i].State = "IDLE" /\ table[i].MacAddr = mac
       THEN [table[i] EXCEPT !.MacAddr = NoMac] ELSE table[i]]

(* The table after entry i is acknowledged to mac. *)
AcknowledgeLonger(table, i, mac) ==
  CleanClientHistory(
    [table EXCEPT ![i].State = "BIND", ![i].MacAddr = mac, ![i].Lease = @ + LeaseTime], mac)
Acknowledge(table, i, mac) ==
  CleanClientHistory(
    [table EXCEPT ![i].State = "BIND", ![i].MacAddr = mac, ![i].Lease = LeaseTime], mac)

-----------------------------------------------------------------------------
Init ==
  /\ Enable = FALSE
  /\ Clients = [i \in Entries |-> ZeroedEntry]
  /\ ticking = FALSE
  /\ reply = "none"
  /\ present = {}
  /\ leased = [m \in Stations |-> 0]
  /\ starts = 0

(* DHCPS_Start; without a socket the server stays disabled. *)
DHCPS_Start ==
  /\ ~Enable
  /\ starts < MaxStarts
  /\ starts' = starts + 1
  /\ Clients' = [i \in Entries |-> FreshEntry]
  /\ \/ Enable' = TRUE /\ ticking' = TRUE
     \/ UNCHANGED <<Enable, ticking>>
  /\ UNCHANGED <<reply, present, leased>>

(* DHCPS_Stop, when the access point's network goes down: no station is    *)
(* left.                                                                   *)
DHCPS_Stop ==
  /\ Enable
  /\ Enable' = FALSE
  /\ ticking' = FALSE
  /\ Clients' = [i \in Entries |-> ZeroedEntry]
  /\ present' = {}
  /\ leased' = [m \in Stations |-> 0]
  /\ UNCHANGED <<reply, starts>>

(* _DhcpTickHandle.  A negotiation runs out of time and is forgotten; a    *)
(* lease runs out or its station is gone, and is remembered.               *)
PostDecrement(c) == c.State = "REQUEST" /\ c.Timeout # 0 /\ c.Timeout = 0
Expired(c) == c.State = "REQUEST" /\ c.Timeout = 1
LeaseOver(c) == c.State = "BIND" /\ c.Lease = 1
Gone(c) == c.State = "BIND" /\ c.MacAddr \notin present
Down(n) == IF n = 0 THEN 0 ELSE n - 1
Ticked(c) ==
  [State |-> IF Expired(c) \/ LeaseOver(c) \/ Gone(c) THEN "IDLE" ELSE c.State,
   MacAddr |-> IF Expired(c) THEN NoMac ELSE c.MacAddr,
   Timeout |-> IF c.State = "REQUEST" THEN Down(c.Timeout) ELSE c.Timeout,
   Lease |-> IF c.State = "BIND" THEN Down(c.Lease) ELSE c.Lease]

(* A station's lease runs out no later than the server's. *)
DhcpTick ==
  /\ ticking /\ Enable
  /\ Clients' = [i \in Entries |-> Ticked(Clients[i])]
  /\ leased' = [m \in Stations |->
                  IF \E i \in Entries : LeaseOver(Clients[i]) /\ Clients[i].MacAddr = m
                    THEN 0 ELSE leased[m]]
  /\ UNCHANGED <<Enable, ticking, reply, present, starts>>

-----------------------------------------------------------------------------
(* DHCPS_RecvCb for each type of message.  A frame that is no request, has *)
(* the wrong magic number or carries no type is dropped.                   *)

(* The three answers. *)
Offer == reply' = "OFFER"
Ack == reply' = "ACK"
Nak == reply' = "NAK"

(* The address that the options of a message ask for: none, one of the     *)
(* pool, or one of another network (HostMask is no host part of the pool). *)
ReqIpAddrs == {0, HostMask} \cup Addresses

(* The station believes addr after the message if the answer arrives, and  *)
(* otherwise otherwise.                                                    *)
Believes(mac, addr, otherwise) ==
  \E arrives \in BOOLEAN :
    leased' = [leased EXCEPT ![mac] = IF arrives THEN addr ELSE otherwise]

(* DISCOVER: the station has no address; it may ask for one. *)
Discover(mac, ip) ==
  LET my == MyClient(mac)
      req == ReqClient(ip)
      entry == IF my # 0 THEN FirstNonNull(req, my) ELSE NewEntry(mac, ip)
      table == IF my # 0 /\ req # 0
                 THEN [Clients EXCEPT ![my].State = "IDLE", ![my].MacAddr = NoMac]
                 ELSE Clients
  IN  /\ Enable
      /\ mac \in present
      /\ leased' = [leased EXCEPT ![mac] = 0]
      /\ \/ /\ entry # 0
            /\ Clients' = [table EXCEPT ![entry].MacAddr = mac, ![entry].State = "REQUEST",
                                        ![entry].Timeout = Timeout]
            /\ Offer
         \/ /\ entry = 0
            /\ Nak
            /\ UNCHANGED Clients
      /\ UNCHANGED <<Enable, ticking, present, starts>>

(* REQUEST: the entry that is acknowledged, 0 if it is refused.  forMe: no *)
(* server or this one is named.                                            *)
RequestedEntry(mac, ip, forMe) ==
  IF IpUnavailable(mac, ip) \/ ~forMe THEN 0
  ELSE IF MyClient(mac) # 0 THEN FirstNonNull(ReqClient(ip), MyClient(mac))
       ELSE ReqClient(ip)

(* The station leaves the entry it had if it asks for another address. *)
LeavesEntry(mac, ip) ==
  MyClient(mac) # 0 /\ (IpUnavailable(mac, ip) \/ ReqClient(ip) # 0)

(* A station that renews its lease asks for no address and keeps using the *)
(* one it has; any other has none until it is acknowledged.                *)
Request(mac, ip, forMe) ==
  LET entry == RequestedEntry(mac, ip, forMe)
      my == MyClient(mac)
      table == IF LeavesEntry(mac, ip) THEN [Clients EXCEPT ![my] = Dropped(@)] ELSE Clients
      keeps == IF ip = 0 THEN leased[mac] ELSE 0
  IN  /\ Enable
      /\ mac \in present
      /\ \/ /\ entry # 0
            /\ Clients' = Acknowledge(table, entry, mac)
            /\ Ack
            /\ Believes(mac, IpAddr(entry), keeps)
         \/ /\ entry = 0
            /\ Clients' = table
            /\ Nak
            /\ Believes(mac, 0, keeps)
      /\ UNCHANGED <<Enable, ticking, present, starts>>

(* RELEASE and DECLINE *)
GiveBack(mac) ==
  LET my == MyClient(mac)
  IN  /\ Enable
      /\ mac \in present
      /\ Clients' = IF my # 0 THEN [Clients EXCEPT ![my] = Dropped(@)] ELSE Clients
      /\ leased' = [leased EXCEPT ![mac] = 0]
      /\ reply' = "none"
      /\ UNCHANGED <<Enable, ticking, present, starts>>

(* Any other type, as INFORM. *)
OtherMessage(mac) ==
  /\ Enable
  /\ mac \in present
  /\ Nak
  /\ Believes(mac, 0, leased[mac])
  /\ UNCHANGED <<Enable, Clients, ticking, present, starts>>

(* DHCPS_ClientDelete, for a station that has left. *)
DHCPS_ClientDelete(mac) ==
  LET mine == {i \in Entries : ~Idle(i) /\ Clients[i].MacAddr = mac}
  IN  /\ Enable
      /\ mac \notin present
      /\ FirstIn(mine) # 0
      /\ Bound(FirstIn(mine))
      /\ Clients' = [Clients EXCEPT ![FirstIn(mine)].State = "IDLE"]
      /\ UNCHANGED <<Enable, ticking, reply, present, leased, starts>>

(* A station joins, or leaves and with that gives up its address. *)
StationJoins(mac) ==
  /\ Enable
  /\ mac \notin present
  /\ present' = present \cup {mac}
  /\ UNCHANGED <<Enable, Clients, ticking, reply, leased, starts>>

StationLeaves(mac) ==
  /\ mac \in present
  /\ present' = present \ {mac}
  /\ leased' = [leased EXCEPT ![mac] = 0]
  /\ UNCHANGED <<Enable, Clients, ticking, reply, starts>>

Message(mac) ==
  \/ \E ip \in ReqIpAddrs : Discover(mac, ip)
  \/ \E ip \in ReqIpAddrs, forMe \in BOOLEAN : Request(mac, ip, forMe)
  \/ GiveBack(mac)
  \/ OtherMessage(mac)

Next ==
  \/ DHCPS_Start
  \/ DHCPS_Stop
  \/ DhcpTick
  \/ \E mac \in Stations : \/ Message(mac)
                             \/ DHCPS_ClientDelete(mac)
                             \/ StationJoins(mac)
                             \/ StationLeaves(mac)

Spec == Init /\ [][Next]_vars

(* The tick comes every second. *)
FairSpec == Spec /\ WF_vars(DhcpTick)

-----------------------------------------------------------------------------
EntryType == [State : {"IDLE", "REQUEST", "BIND"}, MacAddr : Stations \cup {NoMac},
              Timeout : 0 .. Timeout, Lease : 0 .. LeaseTime]

(* Every variable keeps its type; an entry rests in no other state. *)
TypeOK ==
  /\ Enable \in BOOLEAN
  /\ Clients \in [Entries -> EntryType]
  /\ ticking \in BOOLEAN
  /\ reply \in {"none", "OFFER", "ACK", "NAK"}
  /\ present \subseteq Stations
  /\ leased \in [Stations -> Nat]
  /\ starts \in 0 .. MaxStarts

(* A station that restarts, changes its mind or asks for another address   *)
(* never occupies two entries of the table.                                *)
OneEntryPerClient ==
  \A i, j \in Entries :
    ~Idle(i) /\ ~Idle(j) /\ Clients[i].MacAddr = Clients[j].MacAddr => i = j

(* What a station was acknowledged, and has not given up, the server keeps *)
(* bound to it, whatever other stations ask for and whichever answers are  *)
(* lost.                                                                   *)
LeaseHonoured ==
  \A m \in Stations :
    leased[m] # 0 =>
      \E i \in Entries : Bound(i) /\ Clients[i].MacAddr = m /\ IpAddr(i) = leased[m]

(* A bound client is not remembered anywhere else: its old entries are     *)
(* free for others (_CleanClientHistory).                                  *)
NoHistoryWhenBound ==
  \A i, j \in Entries :
    Bound(i) /\ Idle(j) => Clients[j].MacAddr # Clients[i].MacAddr

(* What else makes these inductive: an entry that is in use has a client,  *)
(* and only a station that is there holds an address.                      *)
InUseHasClient == \A i \in Entries : ~Idle(i) => Clients[i].MacAddr \in Stations
HolderIsPresent == \A m \in Stations : leased[m] # 0 => Enable /\ m \in present

IInv ==
  /\ TypeOK
  /\ InUseHasClient
  /\ HolderIsPresent
  /\ OneEntryPerClient
  /\ NoHistoryWhenBound
  /\ LeaseHonoured

(* The station that an entry is offered to discovers again, and is offered *)
(* the same entry.                                                         *)
OfferedAgain(i) ==
  /\ Clients[i].State = "REQUEST"
  /\ \E ip \in ReqIpAddrs : Discover(Clients[i].MacAddr, ip)
  /\ Clients'[i].State = "REQUEST"

(* An offer that is not taken is withdrawn: an entry does not stay in      *)
(* negotiation for ever, unless the very station it is offered to keeps    *)
(* discovering.  What other stations send, with the table full of offers   *)
(* too, does not hold it.                                                  *)
OfferExpires ==
  \A i \in Entries :
    \/ []<>(Clients[i].State # "REQUEST")
    \/ []<><<OfferedAgain(i)>>_vars
=============================================================================
